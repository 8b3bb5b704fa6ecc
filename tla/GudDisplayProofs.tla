-------------------------- MODULE GudDisplayProofs --------------------------
(***************************************************************************)
(* Proofs about GudDisplay for a display of any size, buffer size and      *)
(* format: the rectangles a host sends fit, the framebuffer is its image,  *)
(* the window comes to show it and the statistics count it.                *)
(***************************************************************************)
EXTENDS GudDisplay, TLAPS

-----------------------------------------------------------------------------
(* Arithmetic.                                                             *)

\* Multiplication by the same factor keeps the order.
LEMMA TimesMonotone ==
    ASSUME NEW a \in Nat, NEW b \in Nat, NEW c \in Nat, a <= b
    PROVE  a * c <= b * c
OBVIOUS

\* What a quotient and a remainder are.
LEMMA DivMod ==
    ASSUME NEW a \in Nat, NEW b \in Nat \ {0}
    PROVE  /\ a = b * (a \div b) + (a % b)
           /\ a % b \in 0 .. b - 1 /\ a \div b \in Nat
OBVIOUS

\* The quotient of a place in the q-th and the next blocks of b bytes.
LEMMA BlockOf ==
    ASSUME NEW b \in Nat \ {0}, NEW a \in Nat, NEW k \in 0 .. b - 1,
           NEW q \in Nat, NEW w \in Nat
    PROVE  a * b + k \in q * b .. q * b + w * b - 1 <=> a \in q .. q + w - 1
<1>0. q * b + w * b = (q + w) * b /\ (a + 1) * b = a * b + b
  OBVIOUS
<1>1. CASE a < q
  <2>1. (a + 1) * b <= q * b
    BY <1>1, TimesMonotone
  <2> QED
    BY <1>0, <1>1, <2>1
<1>2. CASE a \in q .. q + w - 1
  <2>1. q * b <= a * b /\ (a + 1) * b <= (q + w) * b
    BY <1>2, TimesMonotone
  <2> QED
    BY <1>0, <1>2, <2>1
<1>3. CASE a >= q + w
  <2>1. (q + w) * b <= a * b
    BY <1>3, TimesMonotone
  <2> QED
    BY <1>0, <1>3, <2>1
<1> QED
  BY <1>1, <1>2, <1>3

\* A pixel of the display lies in the part of w pixels at x of line v
\* exactly if it is on that line and in that part of it.
LEMMA PartOfLine ==
    ASSUME NEW p \in Nat, NEW c \in 0 .. DISPLAY_WIDTH - 1,
           NEW v \in Nat, NEW x \in Nat, NEW w \in Nat, x + w <= DISPLAY_WIDTH
    PROVE  p * DISPLAY_WIDTH + c
               \in v * DISPLAY_WIDTH + x .. v * DISPLAY_WIDTH + x + w - 1
           <=> p = v /\ c \in x .. x + w - 1
<1>0. DISPLAY_WIDTH \in Nat \ {0}
  BY SizeAssumption
<1>1. CASE p < v
  <2>1. (p + 1) * DISPLAY_WIDTH <= v * DISPLAY_WIDTH
    BY <1>0, <1>1, TimesMonotone
  <2>2. (p + 1) * DISPLAY_WIDTH = p * DISPLAY_WIDTH + DISPLAY_WIDTH
    BY <1>0
  <2> QED
    BY <1>0, <1>1, <2>1, <2>2
<1>2. CASE v < p
  <2>1. (v + 1) * DISPLAY_WIDTH <= p * DISPLAY_WIDTH
    BY <1>0, <1>2, TimesMonotone
  <2>2. (v + 1) * DISPLAY_WIDTH = v * DISPLAY_WIDTH + DISPLAY_WIDTH
    BY <1>0
  <2> QED
    BY <1>0, <1>2, <2>1, <2>2
<1>3. CASE p = v
  BY <1>0, <1>3
<1> QED
  BY <1>0, <1>1, <1>2, <1>3

-----------------------------------------------------------------------------
(* Pixel formats.                                                          *)

BytesPerPixel(format) == format_bits_per_pixel(format) \div 8

\* Bytes are natural numbers.
LEMMA BytesAreNat == ASSUME NEW b \in Byte PROVE b \in Nat
BY DEF Byte

\* A format has whole bytes per pixel, or less than one.
LEMMA FormatBits ==
    ASSUME NEW f \in Format \cup {"none"}
    PROVE  format_bits_per_pixel(f) \in {0, 1, 4, 8, 16, 24, 32}
BY Zenon DEF format_bits_per_pixel, Format

\* No format has a zero size.
LEMMA FormatNotEmpty ==
    ASSUME NEW f \in Format
    PROVE  format_bits_per_pixel(f) # 0
BY DEF format_bits_per_pixel, Format

\* A pixel has 4 bytes at most.
LEMMA FormatBytes ==
    ASSUME NEW f \in Format \cup {"none"}
    PROVE  BytesPerPixel(f) \in 0 .. 4
BY FormatBits DEF BytesPerPixel

\* The bytes of a line, in a format of whole bytes.
LEMMA LineBytes ==
    ASSUME NEW f \in Format \cup {"none"}, NEW w \in Nat,
           format_bits_per_pixel(f) % 8 = 0
    PROVE  line_length(f, w) = w * BytesPerPixel(f)
BY FormatBits DEF BytesPerPixel, line_length

\* A channel of n bits widened is a byte.
LEMMA WidenByte ==
    ASSUME NEW v \in Nat, NEW low \in {0, 2, 5, 11}, NEW n \in {2, 3, 5, 6}
    PROVE  widen(Bits(v, low, n), n) \in Byte
<1> DEFINE d == v \div 2^low
<1>1. d \in Nat
  <2>1. /\ 2^0 \in Nat \ {0} /\ 2^2 \in Nat \ {0}
        /\ 2^5 \in Nat \ {0} /\ 2^11 \in Nat \ {0}
    BY SMT
  <2>2. 2^low \in Nat \ {0}
    BY <2>1, Zenon
  <2> QED
    BY <2>2
<1>2. CASE n = 2
  BY <1>1, <1>2 DEF Byte, widen, Bits
<1>3. CASE n = 3
  BY <1>1, <1>3 DEF Byte, widen, Bits
<1>4. CASE n = 5
  BY <1>1, <1>4 DEF Byte, widen, Bits
<1>5. CASE n = 6
  BY <1>1, <1>5 DEF Byte, widen, Bits
<1> QED
  BY <1>2, <1>3, <1>4, <1>5

\* The place of a pixel in the framebuffer.
LEMMA PixelPlace ==
    ASSUME NEW p \in Pixel
    PROVE  p[2] * DISPLAY_WIDTH + p[1]
               \in 0 .. DISPLAY_WIDTH * DISPLAY_HEIGHT - 1
<1>0. /\ p[1] \in 0 .. DISPLAY_WIDTH - 1 /\ p[2] \in 0 .. DISPLAY_HEIGHT - 1
      /\ DISPLAY_WIDTH \in Nat \ {0} /\ DISPLAY_HEIGHT \in Nat \ {0}
  BY SizeAssumption DEF Pixel
<1>1. (p[2] + 1) * DISPLAY_WIDTH <= DISPLAY_HEIGHT * DISPLAY_WIDTH
  BY <1>0, TimesMonotone
<1>2. (p[2] + 1) * DISPLAY_WIDTH = p[2] * DISPLAY_WIDTH + DISPLAY_WIDTH
  BY <1>0
<1>3. DISPLAY_HEIGHT * DISPLAY_WIDTH = DISPLAY_WIDTH * DISPLAY_HEIGHT
  BY <1>0
<1>4. p[2] * DISPLAY_WIDTH \in Nat
  BY <1>0
<1> QED
  BY <1>0, <1>1, <1>2, <1>3, <1>4

\* The bytes of a pixel are in the framebuffer.
LEMMA PixelBytesInside ==
    ASSUME NEW idx \in 0 .. DISPLAY_WIDTH * DISPLAY_HEIGHT - 1,
           NEW n \in 1 .. 4, NEW m \in 0 .. 3, m < n
    PROVE  n * idx + m \in 0 .. FramebufferSize - 1
<1> DEFINE S == DISPLAY_WIDTH * DISPLAY_HEIGHT
<1>1. S \in Nat /\ FramebufferSize = S * 4
  BY SizeAssumption DEF FramebufferSize, MAX_BYTES_PER_PIXEL
<1>2. idx \in 0 .. S - 1
  OBVIOUS
<1> HIDE DEF S
<1> QED
  BY <1>1, <1>2

\* The channels of a pixel are bytes.
LEMMA ChannelBytes ==
    ASSUME NEW fb \in [0 .. FramebufferSize - 1 -> Byte], NEW f,
           NEW idx \in 0 .. DISPLAY_WIDTH * DISPLAY_HEIGHT - 1
    PROVE  Channels(fb, f, idx) \in Byte \X Byte \X Byte
<1>1. \A n \in 1 .. 4, m \in 0 .. 3 : m < n => fb[n * idx + m] \in Byte
  BY PixelBytesInside, Zenon
<1>2. fb[idx] \in Byte /\ fb[2 * idx] \in Byte /\ fb[2 * idx + 1] \in Byte
  BY <1>1
<1>3. /\ fb[3 * idx] \in Byte /\ fb[3 * idx + 1] \in Byte
      /\ fb[3 * idx + 2] \in Byte /\ fb[4 * idx] \in Byte
      /\ fb[4 * idx + 1] \in Byte /\ fb[4 * idx + 2] \in Byte
  BY <1>1
<1>4. CASE f = "R8"
  BY <1>2, <1>4, Zenon DEF Channels
<1>5. CASE f = "RGB332"
  <2>1. fb[idx] \in Nat
    BY <1>2, BytesAreNat, Zenon
  <2>2. /\ widen(Bits(fb[idx], 5, 3), 3) \in Byte
        /\ widen(Bits(fb[idx], 2, 3), 3) \in Byte
        /\ widen(Bits(fb[idx], 0, 2), 2) \in Byte
    BY <2>1, WidenByte
  <2> QED
    BY <1>5, <2>2, Zenon DEF Channels
<1>6. CASE f = "RGB565"
  <2> DEFINE pixel == fb[2 * idx] + 256 * fb[2 * idx + 1]
  <2>0. fb[2 * idx] \in Nat /\ fb[2 * idx + 1] \in Nat
    BY <1>2, BytesAreNat, Zenon
  <2>1. pixel \in Nat
    BY <2>0
  <2>2. /\ widen(Bits(pixel, 11, 5), 5) \in Byte
        /\ widen(Bits(pixel, 5, 6), 6) \in Byte
        /\ widen(Bits(pixel, 0, 5), 5) \in Byte
    BY <2>1, WidenByte
  <2> QED
    BY <1>6, <2>2, Zenon DEF Channels
<1>7. CASE f = "RGB888"
  BY <1>3, <1>7, Zenon DEF Channels
<1>8. CASE f \in {"XRGB8888", "ARGB8888"}
  BY <1>3, <1>8, Zenon DEF Channels
<1>9. CASE f \notin {"R8", "RGB332", "RGB565", "RGB888", "XRGB8888",
                     "ARGB8888"}
  <2>1. Channels(fb, f, idx) = <<0, 0, 0>>
    BY <1>9, Zenon DEF Channels
  <2> QED
    BY <2>1 DEF Byte
<1> QED
  BY <1>4, <1>5, <1>6, <1>7, <1>8, <1>9, Zenon

Packed(c) == c[1] * 65536 + c[2] * 256 + c[3]

\* Three bytes are packed into 24 bits.
LEMMA PackedColor ==
    ASSUME NEW c, c[1] \in Byte, c[2] \in Byte, c[3] \in Byte
    PROVE  Packed(c) \in Color
<1>1. ASSUME NEW r \in Byte, NEW g \in Byte, NEW b \in Byte
      PROVE  r * 65536 + g * 256 + b \in Color
  <2>1. r * 65536 + g * 256 + b <= MaxColor /\ MaxColor \in Nat
    BY SMT DEF Byte, MaxColor
  <2>2. r * 65536 + g * 256 + b \in Nat
    BY SMT DEF Byte
  <2> QED
    BY <2>1, <2>2, SMT DEF Color
<1> QED
  BY <1>1, SMT DEF Packed

\* framebuffer_to_xrgb8888 packs the channels of every pixel.
LEMMA PackedPixels ==
    ASSUME NEW fb, NEW f
    PROVE  framebuffer_to_xrgb8888(fb, f) =
               [p \in Pixel |->
                   Packed(Channels(fb, f, p[2] * DISPLAY_WIDTH + p[1]))]
BY SMT DEF framebuffer_to_xrgb8888, Packed

\* A pixel of the window has 24 bits.
LEMMA WindowPixels ==
    ASSUME NEW fb \in [0 .. FramebufferSize - 1 -> Byte], NEW f
    PROVE  framebuffer_to_xrgb8888(fb, f) \in [Pixel -> Color]
<1> DEFINE C(p) == Channels(fb, f, p[2] * DISPLAY_WIDTH + p[1])
<1>1. ASSUME NEW p \in Pixel
      PROVE  Packed(C(p)) \in Color
  <2>1. C(p) \in Byte \X Byte \X Byte
    BY PixelPlace, ChannelBytes, Zenon
  <2> HIDE DEF C
  <2>2. C(p)[1] \in Byte /\ C(p)[2] \in Byte /\ C(p)[3] \in Byte
    BY <2>1
  <2> QED
    BY <2>2, PackedColor, Zenon
<1> QED
  BY <1>1, PackedPixels, Zenon

\* The channels of a black framebuffer are 0, in every format.
LEMMA ZeroChannels ==
    ASSUME NEW f, NEW idx \in 0 .. DISPLAY_WIDTH * DISPLAY_HEIGHT - 1
    PROVE  Channels(Zeroes, f, idx) = <<0, 0, 0>>
<1>1. \A n \in 1 .. 4, m \in 0 .. 3 : m < n => Zeroes[n * idx + m] = 0
  BY PixelBytesInside, Zenon DEF Zeroes
<1>2. /\ Zeroes[idx] = 0 /\ Zeroes[2 * idx] = 0 /\ Zeroes[2 * idx + 1] = 0
      /\ Zeroes[3 * idx] = 0 /\ Zeroes[3 * idx + 1] = 0
      /\ Zeroes[3 * idx + 2] = 0 /\ Zeroes[4 * idx] = 0
      /\ Zeroes[4 * idx + 1] = 0 /\ Zeroes[4 * idx + 2] = 0
  BY <1>1
<1>3. CASE f = "RGB332"
  <2>1. /\ widen(Bits(0, 5, 3), 3) = 0 /\ widen(Bits(0, 2, 3), 3) = 0
        /\ widen(Bits(0, 0, 2), 2) = 0
    BY SMT DEF widen, Bits
  <2> QED
    BY <1>2, <1>3, <2>1, Zenon DEF Channels
<1>4. CASE f = "RGB565"
  <2>1. /\ widen(Bits(0, 11, 5), 5) = 0 /\ widen(Bits(0, 5, 6), 6) = 0
        /\ widen(Bits(0, 0, 5), 5) = 0
    BY SMT DEF widen, Bits
  <2>2. Zeroes[2 * idx] + 256 * Zeroes[2 * idx + 1] = 0
    BY <1>2
  <2> QED
    BY <1>4, <2>1, <2>2, Zenon DEF Channels
<1> QED
  BY <1>2, <1>3, <1>4, Zenon DEF Channels

\* A black framebuffer is black in every format.
LEMMA ZeroesAreBlack ==
    ASSUME NEW f
    PROVE  framebuffer_to_xrgb8888(Zeroes, f) = Black
<1>1. Packed(<<0, 0, 0>>) = 0
  BY SMT DEF Packed
<1>2. ASSUME NEW p \in Pixel
      PROVE  Channels(Zeroes, f, p[2] * DISPLAY_WIDTH + p[1]) = <<0, 0, 0>>
  BY PixelPlace, ZeroChannels, Zenon
<1> QED
  BY <1>1, <1>2, PackedPixels, Zenon DEF Black

-----------------------------------------------------------------------------
(* Copying a rectangle.                                                    *)

\* The pixel that byte i of the framebuffer belongs to.
PixelOf(i, bpp) ==
    <<(i \div bpp) % DISPLAY_WIDTH, (i \div bpp) \div DISPLAY_WIDTH>>

Covers(rect, p) ==
    /\ p[1] \in rect.x .. rect.x + rect.width - 1
    /\ p[2] \in rect.y .. rect.y + rect.height - 1

\* The number of a pixel in the rectangle.
NumberIn(rect, p) == (p[2] - rect.y) * rect.width + p[1] - rect.x

\* Where line n of the rectangle begins in the framebuffer.
LineStart(rect, n, bpp) ==
    (rect.y + n) * (DISPLAY_WIDTH * bpp) + rect.x * bpp

\* A byte is a pixel and a place in it.
LEMMA ByteOfPixel ==
    ASSUME NEW bpp \in Nat \ {0}, NEW i \in Nat,
           NEW x, NEW y, PixelOf(i, bpp) = <<x, y>>
    PROVE  /\ x \in 0 .. DISPLAY_WIDTH - 1 /\ y \in Nat
           /\ i % bpp \in 0 .. bpp - 1
           /\ i \div bpp = y * DISPLAY_WIDTH + x
           /\ i = (y * DISPLAY_WIDTH + x) * bpp + (i % bpp)
<1> DEFINE at == i \div bpp
<1>1. at \in Nat /\ i = bpp * at + (i % bpp) /\ i % bpp \in 0 .. bpp - 1
  BY DivMod, Zenon
<1>2. x = at % DISPLAY_WIDTH /\ y = at \div DISPLAY_WIDTH
  BY Zenon DEF PixelOf
<1> HIDE DEF at
<1>3. /\ at = DISPLAY_WIDTH * y + x
      /\ x \in 0 .. DISPLAY_WIDTH - 1 /\ y \in Nat
  BY <1>1, <1>2, SizeAssumption
<1>4. /\ DISPLAY_WIDTH * y = y * DISPLAY_WIDTH
      /\ bpp * at = at * bpp
  BY <1>1, <1>3, SizeAssumption
<1>5. at = y * DISPLAY_WIDTH + x
  BY <1>3, <1>4
<1> QED
  BY <1>1, <1>3, <1>4, <1>5, Zenon DEF at

\* The bytes of the display's pixels come first in the framebuffer.
LEMMA BytesOnDisplay ==
    ASSUME NEW bpp \in Nat \ {0}, NEW i \in Nat
    PROVE  i < DISPLAY_WIDTH * DISPLAY_HEIGHT * bpp
           <=> PixelOf(i, bpp) \in Pixel
<1>1. PICK x, y : PixelOf(i, bpp) = <<x, y>>
  BY Zenon DEF PixelOf
<1> DEFINE at == y * DISPLAY_WIDTH + x
           S == DISPLAY_WIDTH * DISPLAY_HEIGHT
<1>a. /\ x \in 0 .. DISPLAY_WIDTH - 1 /\ y \in Nat
      /\ i % bpp \in 0 .. bpp - 1
      /\ i = at * bpp + (i % bpp)
  BY <1>1, ByteOfPixel
<1>2. /\ x \in 0 .. DISPLAY_WIDTH - 1 /\ y \in Nat
      /\ at \in Nat /\ S \in Nat
      /\ DISPLAY_WIDTH \in Nat /\ DISPLAY_HEIGHT \in Nat
  BY <1>a, SizeAssumption
<1>3. S = DISPLAY_HEIGHT * DISPLAY_WIDTH
  BY SizeAssumption
<1>4. at < S <=> y < DISPLAY_HEIGHT
  <2>1. CASE y < DISPLAY_HEIGHT
    <3>1. (y + 1) * DISPLAY_WIDTH <= DISPLAY_HEIGHT * DISPLAY_WIDTH
      BY <1>2, <2>1, TimesMonotone
    <3>2. (y + 1) * DISPLAY_WIDTH = y * DISPLAY_WIDTH + DISPLAY_WIDTH
      BY <1>2
    <3>3. y * DISPLAY_WIDTH \in Nat
      BY <1>2
    <3> QED
      BY <1>2, <1>3, <2>1, <3>1, <3>2, <3>3
  <2>2. CASE DISPLAY_HEIGHT <= y
    <3>1. DISPLAY_HEIGHT * DISPLAY_WIDTH <= y * DISPLAY_WIDTH
      BY <1>2, <2>2, TimesMonotone
    <3>2. y * DISPLAY_WIDTH \in Nat
      BY <1>2
    <3> QED
      BY <1>2, <1>3, <2>2, <3>1, <3>2
  <2> QED
    BY <1>2, <2>1, <2>2
<1> HIDE DEF at, S
<1>5. i < S * bpp <=> at < S
  <2>1. at * bpp + (i % bpp) \in 0 * bpp .. 0 * bpp + S * bpp - 1
        <=> at \in 0 .. 0 + S - 1
    BY <1>a, <1>2, 0 \in Nat, BlockOf, Zenon
  <2>2. 0 * bpp = 0 /\ S * bpp \in Nat
    BY <1>2
  <2>3. i \in 0 .. S * bpp - 1 <=> at \in 0 .. S - 1
    BY <1>a, <1>2, <2>1, <2>2
  <2> QED
    BY <1>2, <2>2, <2>3
<1>6. PixelOf(i, bpp) \in Pixel <=> y < DISPLAY_HEIGHT
  BY <1>1, <1>2 DEF Pixel
<1> QED
  BY <1>4, <1>5, <1>6, Zenon DEF S

\* store_rectangle copies to byte i from line number n exactly if the
\* rectangle covers its pixel in that line.
LEMMA CopiedTo ==
    ASSUME NEW rect \in SetBufferReq, Inside(rect), NEW bpp \in Nat \ {0},
           NEW n \in 0 .. rect.height - 1, NEW i \in Nat
    PROVE  i \in LineStart(rect, n, bpp)
                     .. LineStart(rect, n, bpp) + rect.width * bpp - 1
           <=> /\ PixelOf(i, bpp)[2] = rect.y + n
               /\ PixelOf(i, bpp)[1] \in rect.x .. rect.x + rect.width - 1
<1>1. PICK x, y : PixelOf(i, bpp) = <<x, y>>
  BY Zenon DEF PixelOf
<1>2. /\ rect.x \in Nat /\ rect.y \in Nat /\ rect.width \in Nat
      /\ rect.height \in Nat
      /\ rect.x + rect.width <= DISPLAY_WIDTH
      /\ DISPLAY_WIDTH \in Nat \ {0}
  BY SizeAssumption DEF Inside, SetBufferReq
<1> DEFINE to == LineStart(rect, n, bpp)
           v == rect.y + n
           at == y * DISPLAY_WIDTH + x
           q == v * DISPLAY_WIDTH + rect.x
<1>3. /\ x \in 0 .. DISPLAY_WIDTH - 1 /\ y \in Nat
      /\ i % bpp \in 0 .. bpp - 1
      /\ i = at * bpp + (i % bpp)
  BY <1>1, ByteOfPixel
<1>4. v \in Nat
  BY <1>2
<1> HIDE DEF v
<1>5. at \in Nat /\ q \in Nat /\ to = q * bpp
  <2>1. to = v * (DISPLAY_WIDTH * bpp) + rect.x * bpp
    BY Zenon DEF v, LineStart
  <2> QED
    BY <1>2, <1>3, <1>4, <2>1
<1>6. i \in to .. to + rect.width * bpp - 1 <=> at \in q .. q + rect.width - 1
  <2>1. at * bpp + (i % bpp) \in q * bpp .. q * bpp + rect.width * bpp - 1
        <=> at \in q .. q + rect.width - 1
    <3> HIDE DEF at, q
    <3> QED
      BY <1>2, <1>3, <1>5, BlockOf, Zenon
  <2> QED
    BY <1>3, <1>5, <2>1, Zenon
<1>7. at \in q .. q + rect.width - 1
      <=> y = v /\ x \in rect.x .. rect.x + rect.width - 1
  <2>1. \A a \in Nat, c \in 0 .. DISPLAY_WIDTH - 1 :
            a * DISPLAY_WIDTH + c \in q .. q + rect.width - 1
            <=> a = v /\ c \in rect.x .. rect.x + rect.width - 1
    BY <1>2, <1>4, PartOfLine, SMT
  <2> QED
    BY <1>3, <2>1, Zenon
<1>8. PixelOf(i, bpp)[1] = x /\ PixelOf(i, bpp)[2] = y
  BY <1>1
<1> QED
  BY <1>6, <1>7, <1>8, Zenon DEF v

\* The bytes of the pixels a rectangle covers are among those sent for it.
LEMMA SentBytes ==
    ASSUME NEW rect \in SetBufferReq, NEW bpp \in Nat \ {0},
           NEW p, Covers(rect, p), NEW k \in 0 .. bpp - 1
    PROVE  /\ NumberIn(rect, p) \in Nat
           /\ NumberIn(rect, p) * bpp + k
                  \in 0 .. (rect.width * bpp) * rect.height - 1
<1> DEFINE w == rect.width
           h == rect.height
           c == p[1] - rect.x
           n == p[2] - rect.y
           N == n * w + c
<1>1. /\ w \in Nat /\ h \in Nat /\ rect.x \in Nat /\ rect.y \in Nat
  BY DEF SetBufferReq
<1>2. c \in 0 .. w - 1 /\ n \in 0 .. h - 1
  BY <1>1 DEF Covers
<1>3. NumberIn(rect, p) = N
  <2>1. p[1] \in Int /\ p[2] \in Int
    BY <1>1 DEF Covers
  <2>2. n * w \in Int
    BY <1>1, <1>2
  <2> QED
    BY <1>1, <2>1, <2>2 DEF NumberIn
<1> HIDE DEF w, h, c, n
<1>4. N \in Nat /\ w * h \in Nat
  BY <1>1, <1>2
<1>5. N < w * h
  <2>1. (n + 1) * w <= h * w
    BY <1>1, <1>2, TimesMonotone
  <2>2. (n + 1) * w = n * w + w /\ h * w = w * h
    BY <1>1, <1>2
  <2>3. n * w \in Nat
    BY <1>1, <1>2
  <2> QED
    BY <1>1, <1>2, <2>1, <2>2, <2>3
<1> HIDE DEF N
<1>6. N * bpp + k \in 0 .. (w * h) * bpp - 1
  <2> DEFINE S == w * h
  <2>1. S \in Nat /\ N + 1 <= S
    BY <1>4, <1>5
  <2> HIDE DEF S
  <2>2. (N + 1) * bpp <= S * bpp
    BY <1>4, <2>1, TimesMonotone
  <2>3. (N + 1) * bpp = N * bpp + bpp
    BY <1>4
  <2>4. N * bpp \in Nat /\ S * bpp \in Nat
    BY <1>4, <2>1
  <2>5. N * bpp + k \in 0 .. S * bpp - 1
    BY <2>2, <2>3, <2>4
  <2> QED
    BY <2>5 DEF S
<1>7. (w * h) * bpp = (w * bpp) * h
  BY <1>1
<1> QED
  BY <1>3, <1>4, <1>6, <1>7, Zenon DEF w, h

\* A rectangle covers a pixel if one of its lines does.
LEMMA CoveredLine ==
    ASSUME NEW rect \in SetBufferReq, NEW p
    PROVE  Covers(rect, p)
           <=> \E n \in 0 .. rect.height - 1 :
                   /\ p[2] = rect.y + n
                   /\ p[1] \in rect.x .. rect.x + rect.width - 1
<1>1. rect.y \in Nat /\ rect.height \in Nat
  BY DEF SetBufferReq
<1>2. ASSUME p[2] \in rect.y .. rect.y + rect.height - 1
      PROVE  \E n \in 0 .. rect.height - 1 : p[2] = rect.y + n
  <2>1. /\ p[2] - rect.y \in 0 .. rect.height - 1
        /\ p[2] = rect.y + (p[2] - rect.y)
    BY <1>1, <1>2
  <2> QED
    BY <2>1, Zenon
<1>3. ASSUME NEW n \in 0 .. rect.height - 1, p[2] = rect.y + n
      PROVE  p[2] \in rect.y .. rect.y + rect.height - 1
  BY <1>1, <1>3
<1> QED
  BY <1>2, <1>3, Zenon DEF Covers

\* The byte of the pixels that store_rectangle copies to byte i.
LEMMA CopiedFrom ==
    ASSUME NEW rect \in SetBufferReq, NEW bpp \in Nat \ {0},
           NEW n \in 0 .. rect.height - 1, NEW i \in Nat,
           PixelOf(i, bpp)[2] = rect.y + n
    PROVE  n * (rect.width * bpp) + i - LineStart(rect, n, bpp)
           = NumberIn(rect, PixelOf(i, bpp)) * bpp + (i % bpp)
<1>1. PICK x, y : PixelOf(i, bpp) = <<x, y>>
  BY Zenon DEF PixelOf
<1>2. /\ x \in 0 .. DISPLAY_WIDTH - 1 /\ y \in Nat
      /\ i % bpp \in 0 .. bpp - 1
      /\ i = (y * DISPLAY_WIDTH + x) * bpp + (i % bpp)
  BY <1>1, ByteOfPixel
<1> DEFINE k == i % bpp
           w == rect.width
           W == DISPLAY_WIDTH
<1>3. /\ rect.x \in Nat /\ rect.y \in Nat /\ w \in Nat
      /\ W \in Nat /\ n \in Nat /\ k \in Nat /\ x \in Nat
  BY <1>2, SizeAssumption DEF SetBufferReq
<1>4. /\ y = rect.y + n
      /\ NumberIn(rect, PixelOf(i, bpp)) = (y - rect.y) * w + x - rect.x
  BY <1>1 DEF NumberIn
<1>5. /\ i = (y * W + x) * bpp + k
      /\ LineStart(rect, n, bpp) = y * (W * bpp) + rect.x * bpp
  BY <1>2, <1>4, Zenon DEF LineStart
<1>6. (y - rect.y) * w + x - rect.x = n * w + x - rect.x
  BY <1>3, <1>4
<1>7. n * (w * bpp) + ((y * W + x) * bpp + k) - (y * (W * bpp) + rect.x * bpp)
      = (n * w + x - rect.x) * bpp + k
  <2> HIDE DEF k, w, W
  <2> QED
    BY <1>2, <1>3
<1> QED
  BY <1>4, <1>5, <1>6, <1>7, Zenon

\* What store_rectangle leaves in byte i of the framebuffer: the byte of the
\* pixel in the rectangle, or what was there.
StoredByte(rect, pixels, bpp, i) ==
    IF Covers(rect, PixelOf(i, bpp))
    THEN pixels[NumberIn(rect, PixelOf(i, bpp)) * bpp + (i % bpp)]
    ELSE framebuffer[i]

\* store_rectangle leaves that in every byte, for a format of whole bytes.
LEMMA StoredBytes ==
    ASSUME NEW rect \in SetBufferReq, Inside(rect), NEW pixels,
           format_bits_per_pixel(current_format) % 8 = 0,
           framebuffer \in [0 .. FramebufferSize - 1 -> Byte],
           BytesPerPixel(current_format) \in Nat \ {0}
    PROVE  store_rectangle(rect, pixels) =
               [i \in 0 .. FramebufferSize - 1 |->
                   StoredByte(rect, pixels, BytesPerPixel(current_format), i)]
<1> DEFINE bpp == BytesPerPixel(current_format)
           To(line) == LineStart(rect, line, bpp)
           Copied(line) == To(line) .. To(line) + rect.width * bpp - 1
           lines == 0 .. rect.height - 1
           Stored(i) ==
               IF \E line \in lines : i \in Copied(line)
               THEN LET line == CHOOSE n \in lines : i \in Copied(n)
                    IN pixels[line * (rect.width * bpp) + i - To(line)]
               ELSE framebuffer[i]
           Wanted(i) == StoredByte(rect, pixels, bpp, i)
<1>1. store_rectangle(rect, pixels) =
          [i \in 0 .. FramebufferSize - 1 |-> Stored(i)]
  <2>1. DOMAIN framebuffer = 0 .. FramebufferSize - 1
    BY Zenon
  <2> QED
    BY <2>1, Zenon DEF store_rectangle, bpp, BytesPerPixel, LinePitch,
       LineStart
<1>b. bpp \in Nat \ {0}
  BY Zenon
<1> HIDE DEF bpp
<1>2. ASSUME NEW i \in 0 .. FramebufferSize - 1
      PROVE  Stored(i) = Wanted(i)
  <2>0. i \in Nat
    BY SizeAssumption DEF FramebufferSize, MAX_BYTES_PER_PIXEL
  <2> DEFINE p == PixelOf(i, bpp)
  <2>1. \A n \in lines :
            i \in Copied(n)
            <=> p[2] = rect.y + n /\ p[1] \in rect.x .. rect.x + rect.width - 1
    <3> SUFFICES ASSUME NEW n \in lines
                 PROVE  i \in Copied(n)
                        <=> /\ p[2] = rect.y + n
                            /\ p[1] \in rect.x .. rect.x + rect.width - 1
      BY Zenon
    <3> QED
      BY <1>b, <2>0, CopiedTo
  <2>2. Covers(rect, p) <=> \E n \in lines : i \in Copied(n)
    <3> HIDE DEF p, Copied
    <3> QED
      BY <2>1, CoveredLine, Zenon
  <2>3. ASSUME NEW n \in lines, i \in Copied(n)
        PROVE  n * (rect.width * bpp) + i - To(n)
               = NumberIn(rect, p) * bpp + (i % bpp)
    <3>1. p[2] = rect.y + n
      BY <2>1, <2>3, Zenon
    <3> QED
      BY <1>b, <2>0, <3>1, CopiedFrom, Zenon
  <2> HIDE DEF p, Copied, To, lines
  <2>4. ASSUME \E n \in lines : i \in Copied(n)
        PROVE  Stored(i) = pixels[NumberIn(rect, p) * bpp + (i % bpp)]
    <3> DEFINE line == CHOOSE n \in lines : i \in Copied(n)
    <3>1. line \in lines /\ i \in Copied(line)
      BY <2>4, Zenon
    <3>2. Stored(i) = pixels[line * (rect.width * bpp) + i - To(line)]
      BY <2>4, Zenon
    <3> HIDE DEF line, Stored
    <3> QED
      BY <2>3, <3>1, <3>2, Zenon
  <2> QED
    BY <2>2, <2>4, Zenon DEF p, StoredByte
<1> HIDE DEF Stored, Wanted
<1>3. [i \in 0 .. FramebufferSize - 1 |-> Stored(i)]
      = [i \in 0 .. FramebufferSize - 1 |-> Wanted(i)]
  BY <1>2, Zenon
<1> QED
  BY <1>1, <1>3, Zenon DEF Wanted, bpp

-----------------------------------------------------------------------------
(* Pending rectangles.  By itself PendingFits is not inductive: a commit   *)
(* replaces current_format by the format that was checked, so the          *)
(* invariant says in addition that both are formats the display offers.    *)
(* There is one, so a commit between SET_BUFFER and the pixels can not     *)
(* change the format.                                                      *)

\* The part of the type invariant the proof needs, and PendingFits.
GudInv ==
    /\ checked \in display_formats \cup {"none"}
    /\ current_format \in display_formats \cup {"none"}
    /\ pending \in [active : BOOLEAN, req : SetBufferReq,
                    transfer_length : Nat, received : Nat]
    /\ PendingFits

\* An accepted SET_BUFFER describes a rectangle that fits: what set_buffer
\* checks before it stores the request.
LEMMA AcceptedFits ==
    ASSUME NEW data \in SetBufferReq, Accepts(data),
           current_format \in display_formats \cup {"none"}
    PROVE  /\ Inside(data)
           /\ current_format \in display_formats
           /\ data.length = line_length(current_format, data.width)
                                * data.height
           /\ transfer_length(data) \in Nat
           /\ 0 < transfer_length(data)
           /\ transfer_length(data) <= DISPLAY_MAX_BUFFER_SIZE
<1>1. transfer_length(data) \in Nat
  BY Zenon DEF transfer_length, SetBufferReq
<1>2. /\ Inside(data)
      /\ current_format # "none"
      /\ data.length = line_length(current_format, data.width) * data.height
      /\ transfer_length(data) # 0
      /\ ~(transfer_length(data) > DISPLAY_MAX_BUFFER_SIZE)
  BY Zenon DEF Accepts, BufferStatus
<1> QED
  BY <1>1, <1>2, SizeAssumption

\* A malformed SET_BUFFER is never accepted.
LEMMA MalformedRefused == ~Accepts(Malformed)
BY Zenon DEF Accepts, BufferStatus

\* A step that leaves the pending rectangle and the current format alone
\* keeps the invariant.
LEMMA SameRectangle ==
    ASSUME GudInv, UNCHANGED <<pending, current_format>>,
           checked' \in display_formats \cup {"none"}
    PROVE  GudInv'
BY Zenon DEF GudInv, PendingFits, Inside, line_length, format_bits_per_pixel,
       transfer_length

\* SET_BUFFER stores only rectangles that fit.
LEMMA SetBufferKeepsInv ==
    ASSUME GudInv, NEW data \in BufferRequest \cup {Malformed},
           set_buffer(data)
    PROVE  GudInv'
<1>1. UNCHANGED <<checked, current_format>>
  BY Zenon DEF set_buffer, stateVars
<1>2. CASE ~Accepts(data)
  BY <1>1, <1>2, SameRectangle, Zenon DEF set_buffer, GudInv
<1>3. CASE Accepts(data)
  <2>1. data \in SetBufferReq
    BY <1>3, MalformedRefused, InputAssumption, Zenon
  <2>2. pending' = [active |-> TRUE, req |-> data,
                    transfer_length |-> transfer_length(data), received |-> 0]
    BY <1>3, Zenon DEF set_buffer
  <2>3. /\ Inside(data)
        /\ current_format \in display_formats
        /\ data.length = line_length(current_format, data.width)
                             * data.height
        /\ transfer_length(data) \in Nat
        /\ 0 < transfer_length(data)
        /\ transfer_length(data) <= DISPLAY_MAX_BUFFER_SIZE
    BY <1>3, <2>1, AcceptedFits, Zenon DEF GudInv
  <2>4. pending' \in [active : BOOLEAN, req : SetBufferReq,
                      transfer_length : Nat, received : Nat]
    BY <2>1, <2>2, <2>3, Zenon
  <2>5. PendingFits'
    BY <1>1, <2>2, <2>3, Zenon DEF PendingFits, Inside, line_length,
       format_bits_per_pixel, transfer_length
  <2> QED
    BY <1>1, <2>4, <2>5, Zenon DEF GudInv
<1> QED
  BY <1>2, <1>3, Zenon

\* SET_STATE_COMMIT can only set the format that a pending rectangle was
\* checked against.
LEMMA CommitKeepsInv ==
    ASSUME GudInv, set_state_commit
    PROVE  GudInv'
<1>1. UNCHANGED pending /\ checked' = "none"
  BY Zenon DEF set_state_commit, pixelVars
<1>2. current_format' \in display_formats \cup {"none"}
  BY Zenon DEF set_state_commit, GudInv
<1>3. pending.active => current_format' = current_format
  <2>1. pending.active => current_format \in display_formats
    BY Zenon DEF GudInv, PendingFits
  <2>2. current_format' = current_format \/ current_format' \in display_formats
    BY Zenon DEF set_state_commit, GudInv
  <2> QED
    BY <2>1, <2>2, FormatAssumption, Zenon
<1>4. PendingFits'
  BY <1>1, <1>3, Zenon DEF GudInv, PendingFits, Inside, line_length,
     format_bits_per_pixel, transfer_length
<1> QED
  BY <1>1, <1>2, <1>4, Zenon DEF GudInv

\* Bulk data advances the pending rectangle without passing its end, or ends
\* it.
LEMMA PixelsKeepInv ==
    ASSUME GudInv, NEW length \in ChunkLength, endpoint_data(length)
    PROVE  GudInv'
<1>0. UNCHANGED <<checked, current_format>> /\ length \in Nat
  BY InputAssumption, Zenon DEF endpoint_data, controlVars, stateVars
<1>1. CASE KeepChunk(length)
  <2>1. pending' = [pending EXCEPT !.received = @ + length]
    BY <1>1, Zenon DEF KeepChunk
  <2>2. pending' \in [active : BOOLEAN, req : SetBufferReq,
                      transfer_length : Nat, received : Nat]
    BY <1>0, <2>1 DEF GudInv
  <2>3. PendingFits'
    BY <1>0, <1>1, <2>1, Zenon DEF KeepChunk, GudInv, PendingFits, Inside,
       line_length, format_bits_per_pixel, transfer_length
  <2> QED
    BY <1>0, <2>2, <2>3, Zenon DEF GudInv
<1>2. CASE DropChunk(length) \/ FinishRectangle(length)
  <2>1. /\ pending' \in [active : BOOLEAN, req : SetBufferReq,
                         transfer_length : Nat, received : Nat]
        /\ pending'.active = FALSE
    BY <1>0, <1>2, Zenon DEF DropChunk, FinishRectangle, Inactive, GudInv
  <2> QED
    BY <1>0, <2>1, Zenon DEF GudInv, PendingFits
<1> QED
  BY <1>1, <1>2, Zenon DEF endpoint_data

\* Every step of the display keeps the invariant.
LEMMA StepKeepsInv ==
    ASSUME GudInv, [GudNext]_gudVars
    PROVE  GudInv'
<1>1. CASE control_data
  <2>1. CASE \E in \in BOOLEAN : WrongInterface(in)
    BY <2>1, SameRectangle, Zenon
       DEF WrongInterface, stateVars, pixelVars, GudInv
  <2>2. CASE \E bRequest \in GetRequest, wValue \in {0, 1} :
                 get_request(bRequest, wValue)
    BY <2>2, SameRectangle, Zenon DEF get_request, stateVars, pixelVars, GudInv
  <2>3. CASE \E data \in BufferRequest \cup {Malformed} : set_buffer(data)
    BY <2>3, SetBufferKeepsInv, Zenon
  <2>4. CASE \E data \in StateRequest \cup {Malformed} : set_state_check(data)
    <3>1. PICK data \in StateRequest \cup {Malformed} : set_state_check(data)
      BY <2>4, Zenon
    <3>2. StateStatus(data) = "OK" => data.format \in display_formats
      BY Zenon DEF StateStatus, is_offered_format
    <3>3. checked' \in display_formats \cup {"none"}
      BY <3>1, <3>2, Zenon DEF set_state_check, GudInv
    <3> QED
      BY <3>1, <3>3, SameRectangle, Zenon DEF set_state_check, pixelVars
  <2>5. CASE set_state_commit
    BY <2>5, CommitKeepsInv, Zenon
  <2>6. CASE \E data \in BOOLEAN \cup {Malformed} :
                 set_controller_enable(data) \/ set_display_enable(data)
    BY <2>6, SameRectangle, Zenon
       DEF set_controller_enable, set_display_enable,
       pixelVars, GudInv
  <2>7. CASE \E bRequest \in {"SET_CONNECTOR_FORCE_DETECT", "unknown"} :
                 set_other(bRequest)
    BY <2>7, SameRectangle, Zenon DEF set_other, stateVars, pixelVars, GudInv
  <2> QED
    BY <1>1, <2>1, <2>2, <2>3, <2>4, <2>5, <2>6, <2>7, Zenon DEF control_data
<1>2. CASE \E length \in ChunkLength : endpoint_data(length)
  BY <1>2, PixelsKeepInv, Zenon
<1>3. CASE reset
  <2>1. /\ checked' = "none" /\ current_format' = "none"
        /\ pending' = [pending EXCEPT !.active = FALSE]
    BY <1>3, Zenon DEF reset, Inactive
  <2> QED
    BY <2>1, Zenon DEF GudInv, PendingFits
<1>4. CASE MainLoop \/ Leave
  BY <1>4, SameRectangle, Zenon DEF MainLoop, ShowFrame, TakeFrame, Leave,
     controlVars, stateVars, pixelVars, GudInv
<1>5. CASE UNCHANGED gudVars
  BY <1>5, SameRectangle, Zenon
     DEF gudVars, controlVars, stateVars, pixelVars, GudInv
<1> QED
  BY <1>1, <1>2, <1>3, <1>4, <1>5, Zenon DEF GudNext

\* For every size of the display and its buffer: when pixels arrive, the
\* rectangle they are for is on the display, has the length of the current
\* format and does not pass the end of transfer_buffer.
THEOREM PixelsFit == GudSpec => []PendingFits
<1>1. GudInit => GudInv
  BY SizeAssumption DEF GudInit, GudInv, PendingFits, NoPending, NoRect,
     SetBufferReq
<1>2. GudInv /\ [GudNext]_gudVars => GudInv'
  BY StepKeepsInv, Zenon
<1>3. GudInv => PendingFits
  BY Zenon DEF GudInv
<1> QED
  BY <1>1, <1>2, <1>3, PTL DEF GudSpec


-----------------------------------------------------------------------------
(* Types.                                                                  *)

\* The formats offered are formats.
LEMMA OfferedFormats == display_formats \subseteq Format
BY FormatAssumption, Zenon

\* A format without fractions of a byte has a byte per pixel at least.
LEMMA WholeBytes ==
    ASSUME NEW f \in Format, format_bits_per_pixel(f) % 8 = 0
    PROVE  BytesPerPixel(f) \in Nat \ {0} /\ BytesPerPixel(f) <= 4
BY FormatBits, FormatNotEmpty DEF BytesPerPixel

\* The bytes of an uncompressed rectangle, in a format of whole bytes, are
\* those of its lines.
LEMMA RectangleBytes ==
    ASSUME GudInv, pending.active, pending.req.compression = {},
           format_bits_per_pixel(current_format) % 8 = 0
    PROVE  /\ current_format \in Format
           /\ pending.req \in SetBufferReq /\ Inside(pending.req)
           /\ (pending.req.width * BytesPerPixel(current_format))
                  * pending.req.height = pending.transfer_length
           /\ pending.transfer_length \in Nat
           /\ pending.transfer_length <= DISPLAY_MAX_BUFFER_SIZE
<1>1. /\ current_format \in Format
      /\ pending.req \in SetBufferReq /\ Inside(pending.req)
      /\ pending.transfer_length \in Nat
      /\ pending.transfer_length <= DISPLAY_MAX_BUFFER_SIZE
      /\ pending.req.length =
             line_length(current_format, pending.req.width)
                 * pending.req.height
      /\ pending.transfer_length = transfer_length(pending.req)
  BY OfferedFormats, Zenon DEF GudInv, PendingFits
<1>2. transfer_length(pending.req) = pending.req.length
  BY Zenon DEF transfer_length
<1>3. pending.req.width \in Nat
  BY <1>1, Zenon DEF SetBufferReq
<1>4. line_length(current_format, pending.req.width)
      = pending.req.width * BytesPerPixel(current_format)
  BY <1>1, <1>3, LineBytes, Zenon
<1> QED
  BY <1>1, <1>2, <1>4, Zenon

\* Drawing a rectangle leaves bytes in the framebuffer: it reads inside the
\* transfer buffer.
LEMMA StoredType ==
    ASSUME GudInv, pending.active, pending.req.compression = {},
           framebuffer \in [0 .. FramebufferSize - 1 -> Byte],
           NEW pixels \in [0 .. DISPLAY_MAX_BUFFER_SIZE - 1 -> Byte]
    PROVE  store_rectangle(pending.req, pixels)
               \in [0 .. FramebufferSize - 1 -> Byte]
<1>1. CASE format_bits_per_pixel(current_format) % 8 # 0
  BY <1>1, Zenon DEF store_rectangle
<1>2. CASE format_bits_per_pixel(current_format) % 8 = 0
  <2> DEFINE bpp == BytesPerPixel(current_format)
             rect == pending.req
  <2>1. /\ current_format \in Format
        /\ rect \in SetBufferReq /\ Inside(rect)
        /\ (rect.width * bpp) * rect.height = pending.transfer_length
        /\ pending.transfer_length \in Nat
        /\ pending.transfer_length <= DISPLAY_MAX_BUFFER_SIZE
    BY <1>2, RectangleBytes, Zenon
  <2>2. bpp \in Nat \ {0}
    BY <1>2, <2>1, WholeBytes, Zenon
  <2>3. store_rectangle(rect, pixels) =
            [i \in 0 .. FramebufferSize - 1 |->
                StoredByte(rect, pixels, bpp, i)]
    BY <1>2, <2>1, <2>2, StoredBytes, Zenon
  <2>4. ASSUME NEW i \in 0 .. FramebufferSize - 1,
               Covers(rect, PixelOf(i, bpp))
        PROVE  NumberIn(rect, PixelOf(i, bpp)) * bpp + (i % bpp)
                   \in 0 .. DISPLAY_MAX_BUFFER_SIZE - 1
    <3>1. i \in Nat
      BY SizeAssumption DEF FramebufferSize, MAX_BYTES_PER_PIXEL
    <3>2. i % bpp \in 0 .. bpp - 1
      BY <2>2, <3>1, DivMod, Zenon
    <3>3. NumberIn(rect, PixelOf(i, bpp)) * bpp + (i % bpp)
              \in 0 .. (rect.width * bpp) * rect.height - 1
      BY <2>1, <2>2, <2>4, <3>2, SentBytes, Zenon
    <3> HIDE DEF bpp, rect
    <3> QED
      BY <2>1, <3>3, SizeAssumption
  <2> HIDE DEF bpp
  <2> QED
    BY <2>3, <2>4, Zenon DEF StoredByte
<1> QED
  BY <1>1, <1>2, Zenon

\* A control request changes neither pixels nor the main loop, and leaves the
\* status and the switches with their types.
LEMMA ControlTypes ==
    ASSUME GudTypeOK, control_data
    PROVE  /\ last_status' \in Status /\ stalled' \in BOOLEAN
           /\ controller_enabled' \in BOOLEAN /\ display_enabled' \in BOOLEAN
           /\ rectangles' \in Nat
           /\ UNCHANGED <<transfer_buffer, drawingVars, statsVars, mainVars,
                          resets>>
<1>0. /\ last_status \in Status /\ controller_enabled \in BOOLEAN
      /\ display_enabled \in BOOLEAN /\ rectangles \in Nat
      /\ UNCHANGED <<statsVars, mainVars, resets>>
  BY Zenon DEF GudTypeOK, control_data
<1>1. CASE \E in \in BOOLEAN : WrongInterface(in)
  BY <1>0, <1>1, Zenon
     DEF WrongInterface, stateVars, pixelVars, drawingVars, Status
<1>2. CASE \E bRequest \in GetRequest, wValue \in {0, 1} :
               get_request(bRequest, wValue)
  BY <1>0, <1>2, Zenon DEF get_request, Result, Stalled, stateVars, pixelVars,
     drawingVars, Status
<1>3. CASE \E data \in BufferRequest \cup {Malformed} : set_buffer(data)
  <2>1. PICK data \in BufferRequest \cup {Malformed} : set_buffer(data)
    BY <1>3, Zenon
  <2>2. BufferStatus(data) \in Status
    BY Zenon DEF BufferStatus, Status
  <2>3. rectangles + 1 \in Nat
    BY <1>0
  <2> QED
    BY <1>0, <2>1, <2>2, <2>3, Zenon
       DEF set_buffer, Result, stateVars, drawingVars
<1>4. CASE \E data \in StateRequest \cup {Malformed} : set_state_check(data)
  <2>1. PICK data \in StateRequest \cup {Malformed} : set_state_check(data)
    BY <1>4, Zenon
  <2>2. StateStatus(data) \in Status
    BY Zenon DEF StateStatus, Status
  <2> QED
    BY <1>0, <2>1, <2>2, Zenon
       DEF set_state_check, Result, pixelVars, drawingVars
<1>5. CASE set_state_commit
  BY <1>0, <1>5, Zenon
     DEF set_state_commit, Result, pixelVars, drawingVars, Status
<1>6. CASE \E data \in BOOLEAN \cup {Malformed} :
               set_controller_enable(data) \/ set_display_enable(data)
  BY <1>0, <1>6, Zenon DEF set_controller_enable, set_display_enable, Switch,
     Result, pixelVars, drawingVars, Status
<1>7. CASE \E bRequest \in {"SET_CONNECTOR_FORCE_DETECT", "unknown"} :
               set_other(bRequest)
  BY <1>0, <1>7, Zenon
     DEF set_other, Result, stateVars, pixelVars, drawingVars, Status
<1> QED
  BY <1>1, <1>2, <1>3, <1>4, <1>5, <1>6, <1>7, Zenon DEF control_data

\* A rectangle's bytes are bytes.
LEMMA PixelBytesAreBytes ==
    ASSUME NEW n \in Nat, NEW i \in Nat
    PROVE  PixelByte(n, i) \in Byte
<1> DEFINE v == n * DISPLAY_MAX_BUFFER_SIZE + i
<1>1. v \in Nat
  BY SizeAssumption
<1> HIDE DEF v
<1>2. 255 - (v % 255) \in 0 .. 255
  BY <1>1
<1> QED
  BY <1>2 DEF v, PixelByte, Byte

\* Pixels leave the transfer buffer and the framebuffer with bytes in them.
LEMMA PixelTypes ==
    ASSUME GudTypeOK, GudInv, NEW length \in ChunkLength, endpoint_data(length)
    PROVE  /\ transfer_buffer' \in [0 .. DISPLAY_MAX_BUFFER_SIZE - 1 -> Byte]
           /\ framebuffer' \in [0 .. FramebufferSize - 1 -> Byte]
           /\ framebuffer_changed' \in BOOLEAN
           /\ stats_updates' \in Nat /\ completed' \in Nat
           /\ UNCHANGED <<controlVars, rectangles, printed, mainVars, resets>>
<1>0. /\ transfer_buffer \in [0 .. DISPLAY_MAX_BUFFER_SIZE - 1 -> Byte]
      /\ framebuffer \in [0 .. FramebufferSize - 1 -> Byte]
      /\ framebuffer_changed \in BOOLEAN
      /\ stats_updates \in Nat /\ completed \in Nat /\ rectangles \in Nat
      /\ UNCHANGED <<controlVars, rectangles, printed, mainVars, resets>>
  BY Zenon DEF GudTypeOK, endpoint_data
<1>1. CASE DropChunk(length)
  BY <1>0, <1>1, Zenon DEF DropChunk, drawingVars
<1>2. Buffered(length) \in [0 .. DISPLAY_MAX_BUFFER_SIZE - 1 -> Byte]
  <2>1. \A i \in 0 .. DISPLAY_MAX_BUFFER_SIZE - 1 : i \in Nat
    BY SizeAssumption
  <2>2. \A i \in 0 .. DISPLAY_MAX_BUFFER_SIZE - 1 :
            PixelByte(rectangles, i) \in Byte
    BY <1>0, <2>1, PixelBytesAreBytes, Zenon
  <2>3. DOMAIN transfer_buffer = 0 .. DISPLAY_MAX_BUFFER_SIZE - 1
    BY <1>0, Zenon
  <2> QED
    BY <1>0, <2>2, <2>3, Zenon DEF Buffered
<1>3. CASE KeepChunk(length)
  BY <1>0, <1>2, <1>3, Zenon DEF KeepChunk, drawingVars
<1>4. CASE FinishRectangle(length)
  <2>1. transfer_buffer' = Buffered(length) /\ pending.active
    BY <1>4, Zenon DEF FinishRectangle
  <2>2. CASE pending.req.compression # {}
    BY <1>0, <1>2, <1>4, <2>1, <2>2, Zenon DEF FinishRectangle, drawingVars
  <2>3. CASE pending.req.compression = {}
    <3>1. /\ framebuffer' = store_rectangle(pending.req, transfer_buffer')
          /\ framebuffer_changed' = MarkChanged
          /\ completed' = completed + 1
          /\ stats_updates' = stats_updates + 1
      BY <1>4, <2>3, Zenon DEF FinishRectangle
    <3>2. framebuffer' \in [0 .. FramebufferSize - 1 -> Byte]
      BY <1>0, <1>2, <2>1, <2>3, <3>1, StoredType, Zenon
    <3>3. completed' \in Nat /\ stats_updates' \in Nat
      BY <1>0, <3>1
    <3>4. framebuffer_changed' \in BOOLEAN
      BY <1>0, <3>1, Zenon DEF MarkChanged
    <3> QED
      BY <1>0, <1>2, <2>1, <3>2, <3>3, <3>4, Zenon
  <2> QED
    BY <2>2, <2>3, Zenon
<1> QED
  BY <1>1, <1>3, <1>4, Zenon DEF endpoint_data

\* A black window is a window.
LEMMA BlackPixels == Black \in [Pixel -> Color]
<1>1. MaxColor \in Nat
  BY SMT DEF MaxColor
<1>2. 0 \in Color
  BY <1>1, SMT DEF Color
<1> QED
  BY <1>2, Zenon DEF Black

\* The main loop's copies have their types, and so has the window.
LEMMA MainTypes ==
    ASSUME GudTypeOK, MainLoop \/ Leave
    PROVE  /\ framebuffer_changed' \in BOOLEAN
           /\ stats_updates' \in Nat /\ printed' \in Nat
           /\ main' \in {"loop", "show", "ended"}
           /\ local' \in [changed : BOOLEAN, on : BOOLEAN,
                           format : display_formats \cup {"none"},
                           updates : Nat, print : BOOLEAN,
                           frame : [0 .. FramebufferSize - 1 -> Byte]]
           /\ shown_on' \in BOOLEAN /\ window' \in [Pixel -> Color]
           /\ UNCHANGED <<controlVars, transfer_buffer, framebuffer,
                          rectangles, completed, resets>>
<1>0. /\ framebuffer \in [0 .. FramebufferSize - 1 -> Byte]
      /\ framebuffer_changed \in BOOLEAN
      /\ stats_updates \in Nat /\ printed \in Nat
      /\ main \in {"loop", "show", "ended"}
      /\ local \in [changed : BOOLEAN, on : BOOLEAN,
                     format : display_formats \cup {"none"}, updates : Nat,
                     print : BOOLEAN,
                     frame : [0 .. FramebufferSize - 1 -> Byte]]
      /\ current_format \in display_formats \cup {"none"}
      /\ controller_enabled \in BOOLEAN /\ display_enabled \in BOOLEAN
      /\ shown_on \in BOOLEAN /\ window \in [Pixel -> Color]
  BY Zenon DEF GudTypeOK
<1>1. CASE \E print_stats \in BOOLEAN : TakeFrame(print_stats)
  <2>1. PICK print_stats \in BOOLEAN : TakeFrame(print_stats)
    BY <1>1, Zenon
  <2>2. /\ main' = "show" /\ framebuffer_changed' = FALSE
        /\ stats_updates' = Left(stats_updates, print_stats)
        /\ local' = [changed |-> framebuffer_changed, on |-> display_on,
                     format |-> current_format, updates |-> stats_updates,
                     print |-> print_stats,
                     frame |-> IF framebuffer_changed THEN framebuffer
                               ELSE local.frame]
        /\ UNCHANGED <<controlVars, transfer_buffer, framebuffer, rectangles,
                       completed, printed, resets, shown_on, window>>
    BY <2>1, Zenon DEF TakeFrame
  <2>3. stats_updates' \in Nat
    BY <1>0, <2>2 DEF Left
  <2>4. display_on \in BOOLEAN
    BY <1>0, Zenon DEF display_on
  <2>5. local.frame \in [0 .. FramebufferSize - 1 -> Byte]
    BY <1>0, Zenon
  <2>6. local' \in [changed : BOOLEAN, on : BOOLEAN,
                    format : display_formats \cup {"none"}, updates : Nat,
                    print : BOOLEAN,
                    frame : [0 .. FramebufferSize - 1 -> Byte]]
    BY <1>0, <2>2, <2>4, <2>5, Zenon
  <2> QED
    BY <1>0, <2>2, <2>3, <2>6, Zenon
<1>2. CASE ShowFrame
  <2>1. /\ main' = "loop" /\ local' = NothingTaken(local.frame)
        /\ printed' = printed + (IF local.print THEN local.updates ELSE 0)
        /\ Show
        /\ UNCHANGED <<controlVars, pixelVars, stats_updates, resets>>
    BY <1>2, Zenon DEF ShowFrame
  <2>2. local.updates \in Nat /\ local.on \in BOOLEAN
        /\ local.frame \in [0 .. FramebufferSize - 1 -> Byte]
    BY <1>0, Zenon
  <2>3. printed' \in Nat
    BY <1>0, <2>1, <2>2
  <2>4. 0 \in Nat
    OBVIOUS
  <2>5. local' \in [changed : BOOLEAN, on : BOOLEAN,
                    format : display_formats \cup {"none"}, updates : Nat,
                    print : BOOLEAN,
                    frame : [0 .. FramebufferSize - 1 -> Byte]]
    BY <2>1, <2>2, <2>4, Zenon DEF NothingTaken
  <2>6. window' \in [Pixel -> Color] /\ shown_on' \in BOOLEAN
    <3>1. framebuffer_to_xrgb8888(local.frame, local.format)
              \in [Pixel -> Color]
      BY <2>2, WindowPixels, Zenon
    <3>2. Black \in [Pixel -> Color]
      BY BlackPixels, Zenon
    <3> QED
      BY <1>0, <2>1, <2>2, <3>1, <3>2, Zenon
         DEF Show, gud_display_window_show
  <2> QED
    BY <1>0, <2>1, <2>3, <2>5, <2>6, Zenon DEF pixelVars, drawingVars
<1>3. CASE Leave
  BY <1>0, <1>3, Zenon DEF Leave, pixelVars, drawingVars, statsVars
<1> QED
  BY <1>1, <1>2, <1>3, Zenon DEF MainLoop


\* Every step keeps the types.
LEMMA TypesKept ==
    ASSUME GudTypeOK, GudInv, [GudNext]_gudVars
    PROVE  GudTypeOK'
<1>0. /\ checked' \in display_formats \cup {"none"}
      /\ current_format' \in display_formats \cup {"none"}
      /\ pending' \in [active : BOOLEAN, req : SetBufferReq,
                       transfer_length : Nat, received : Nat]
  BY StepKeepsInv, Zenon DEF GudInv
<1>1. CASE control_data
  BY <1>0, <1>1, ControlTypes, Zenon
     DEF GudTypeOK, drawingVars, statsVars, mainVars
<1>2. CASE \E length \in ChunkLength : endpoint_data(length)
  BY <1>0, <1>2, PixelTypes, Zenon
     DEF GudTypeOK, controlVars, stateVars, mainVars
<1>3. CASE reset
  <2>1. 0 \in Byte
    BY DEF Byte
  <2>2. framebuffer' \in [0 .. FramebufferSize - 1 -> Byte]
    BY <1>3, <2>1, Zenon DEF reset, Zeroes
  <2>3. resets' \in Nat
    BY <1>3 DEF reset, GudTypeOK
  <2> QED
    BY <1>0, <1>3, <2>2, <2>3, Zenon
       DEF GudTypeOK, reset, statsVars, mainVars, Status
<1>4. CASE MainLoop \/ Leave
  BY <1>0, <1>4, MainTypes, Zenon DEF GudTypeOK, controlVars, stateVars
<1>5. CASE UNCHANGED gudVars
  <2>1. UNCHANGED <<last_status, stalled, controller_enabled, display_enabled,
                    transfer_buffer, framebuffer, framebuffer_changed,
                    stats_updates, main, local, shown_on, window, rectangles,
                    resets, completed, printed>>
    BY <1>5, Zenon DEF gudVars, controlVars, stateVars, pixelVars,
       drawingVars, statsVars, mainVars
  <2> QED
    BY <1>0, <2>1, ZenonT(40) DEF GudTypeOK
<1> QED
  BY <1>1, <1>2, <1>3, <1>4, <1>5, Zenon DEF GudNext

\* The initial states have the types.
LEMMA TypesAtFirst == GudInit => GudTypeOK /\ GudInv
<1> SUFFICES ASSUME GudInit PROVE GudTypeOK /\ GudInv
  OBVIOUS
<1>1. 0 \in Byte /\ 0 \in Nat
  BY DEF Byte
<1>2. Zeroes \in [0 .. FramebufferSize - 1 -> Byte]
  BY <1>1, Zenon DEF Zeroes
<1>3. GudInv
  BY SizeAssumption DEF GudInit, GudInv, PendingFits, NoPending, NoRect,
     SetBufferReq
<1>4. NothingTaken(Zeroes) \in
          [changed : BOOLEAN, on : BOOLEAN,
           format : display_formats \cup {"none"}, updates : Nat,
           print : BOOLEAN, frame : [0 .. FramebufferSize - 1 -> Byte]]
  BY <1>1, <1>2, Zenon DEF NothingTaken
<1> QED
  BY <1>1, <1>2, <1>3, <1>4, BlackPixels, Zenon
     DEF GudInit, GudTypeOK, GudInv, Status

\* Whatever the host sends, every variable keeps its type: what is copied to
\* the framebuffer are bytes from inside the transfer buffer, and every pixel
\* framebuffer_to_xrgb8888 makes has 24 bits, in every format.
THEOREM DisplayTypes == GudSpec => []GudTypeOK
<1>1. GudInit => GudTypeOK /\ GudInv
  BY TypesAtFirst, Zenon
<1>2. GudTypeOK /\ GudInv /\ [GudNext]_gudVars => GudTypeOK' /\ GudInv'
  BY TypesKept, StepKeepsInv, Zenon
<1> QED
  BY <1>1, <1>2, PTL DEF GudSpec

-----------------------------------------------------------------------------
(* Statistics and refused requests.                                        *)

\* Every rectangle drawn is reported once: a round of the main loop takes
\* the count and clears it in one critical section.
THEOREM RectanglesCounted == GudSpec => []EveryRectangleCounted
<1>1. GudInit => EveryRectangleCounted
  BY DEF GudInit, EveryRectangleCounted
<1>2. ASSUME GudTypeOK, GudInv, EveryRectangleCounted, [GudNext]_gudVars
      PROVE  EveryRectangleCounted'
  <2>0. /\ completed \in Nat /\ printed \in Nat /\ stats_updates \in Nat
        /\ local.updates \in Nat /\ local.print \in BOOLEAN
    BY <1>2, Zenon DEF GudTypeOK
  <2>1. CASE UNCHANGED <<completed, printed, stats_updates, main, local>>
    BY <1>2, <2>1, Zenon DEF EveryRectangleCounted
  <2>2. CASE control_data
    BY <2>1, <2>2, <1>2, ControlTypes, Zenon
       DEF drawingVars, statsVars, mainVars
  <2>3. CASE \E length \in ChunkLength : endpoint_data(length)
    <3>1. PICK length \in ChunkLength : endpoint_data(length)
      BY <2>3, Zenon
    <3>2. \/ completed' = completed /\ stats_updates' = stats_updates
          \/ completed' = completed + 1 /\ stats_updates' = stats_updates + 1
      BY <3>1, Zenon DEF endpoint_data, DropChunk, KeepChunk, FinishRectangle,
         drawingVars
    <3>3. UNCHANGED <<printed, main, local>>
      BY <3>1, Zenon DEF endpoint_data, mainVars
    <3> QED
      BY <1>2, <2>0, <3>2, <3>3, SMT DEF EveryRectangleCounted
  <2>4. CASE reset
    BY <2>1, <2>4, Zenon DEF reset, statsVars, mainVars
  <2>5. CASE \E print_stats \in BOOLEAN : TakeFrame(print_stats)
    <3>1. PICK print_stats \in BOOLEAN : TakeFrame(print_stats)
      BY <2>5, Zenon
    <3>2. /\ main = "loop" /\ main' = "show"
          /\ local'.updates = stats_updates /\ local'.print = print_stats
          /\ stats_updates' = IF print_stats THEN 0 ELSE stats_updates
          /\ UNCHANGED <<completed, printed>>
      BY <3>1, Zenon DEF TakeFrame, Left
    <3> QED
      BY <1>2, <2>0, <3>2, SMT DEF EveryRectangleCounted
  <2>6. CASE ShowFrame
    <3>1. /\ main = "show" /\ main' = "loop"
          /\ printed' = printed + (IF local.print THEN local.updates ELSE 0)
          /\ UNCHANGED <<completed, stats_updates>>
      BY <2>6, Zenon DEF ShowFrame, pixelVars, drawingVars
    <3> QED
      BY <1>2, <2>0, <3>1, SMT DEF EveryRectangleCounted
  <2>7. CASE Leave
    <3>1. /\ main = "loop" /\ main' = "ended"
          /\ UNCHANGED <<completed, printed, stats_updates>>
      BY <2>7, Zenon DEF Leave, pixelVars, drawingVars, statsVars
    <3> QED
      BY <1>2, <3>1, Zenon DEF EveryRectangleCounted
  <2>8. CASE UNCHANGED gudVars
    BY <2>1, <2>8, Zenon
       DEF gudVars, pixelVars, drawingVars, statsVars, mainVars
  <2> QED
    BY <1>2, <2>2, <2>3, <2>4, <2>5, <2>6, <2>7, <2>8, Zenon
       DEF GudNext, MainLoop
<1> QED
  BY <1>1, <1>2, TypesAtFirst, TypesKept, StepKeepsInv, PTL DEF GudSpec


\* The request without an answer has left a status that says why.
StallInv == stalled => last_status # "OK"

\* What a step may do when the status after it is not OK.
Refusal ==
    /\ last_status' # "OK" =>
         /\ UNCHANGED <<current_format, controller_enabled, display_enabled>>
         /\ checked' # "none" => checked' = checked
         /\ pending'.active => pending.active
         /\ pending'.req = pending.req
         /\ pending'.transfer_length = pending.transfer_length
    /\ stalled' => last_status' # "OK"

\* A step that leaves the state and the pending rectangle alone, and stalls
\* only with a reason, is allowed.
LEMMA QuietStep ==
    ASSUME UNCHANGED <<stateVars, pending>>, stalled' => last_status' # "OK"
    PROVE  Refusal
BY Zenon DEF Refusal, stateVars

\* Every control request that is refused changes nothing.
LEMMA ControlRefusal ==
    ASSUME StallInv, control_data
    PROVE  Refusal
<1>1. CASE \E in \in BOOLEAN : WrongInterface(in)
  BY <1>1, QuietStep, Zenon DEF WrongInterface, pixelVars
<1>2. CASE \E bRequest \in GetRequest, wValue \in {0, 1} :
               get_request(bRequest, wValue)
  BY <1>2, QuietStep, Zenon DEF get_request, pixelVars, Result, Stalled
<1>3. CASE \E data \in BufferRequest \cup {Malformed} : set_buffer(data)
  BY <1>3, Zenon DEF set_buffer, stateVars, Result, Accepts, Refusal
<1>4. CASE \E data \in StateRequest \cup {Malformed} : set_state_check(data)
  BY <1>4, Zenon DEF set_state_check, pixelVars, Result, Refusal
<1>5. CASE set_state_commit
  BY <1>5, Zenon DEF set_state_commit, pixelVars, Result, Refusal
<1>6. CASE \E data \in BOOLEAN \cup {Malformed} :
               set_controller_enable(data) \/ set_display_enable(data)
  BY <1>6, Zenon DEF set_controller_enable, set_display_enable, Switch,
     pixelVars, Result, Refusal
<1>7. CASE \E bRequest \in {"SET_CONNECTOR_FORCE_DETECT", "unknown"} :
               set_other(bRequest)
  BY <1>7, QuietStep, Zenon DEF set_other, pixelVars, Result
<1> QED
  BY <1>1, <1>2, <1>3, <1>4, <1>5, <1>6, <1>7, Zenon DEF control_data

\* So do all other steps, and none of them stalls.
LEMMA StepRefusal ==
    ASSUME GudTypeOK, StallInv, [GudNext]_gudVars
    PROVE  Refusal
<1>1. CASE control_data
  BY <1>1, ControlRefusal, Zenon
<1>2. CASE \E length \in ChunkLength : endpoint_data(length)
  <2>1. PICK length \in ChunkLength : endpoint_data(length)
    BY <1>2, Zenon
  <2>2. UNCHANGED <<last_status, stalled, stateVars>>
    BY <2>1, Zenon DEF endpoint_data, controlVars
  <2>3. pending \in [active : BOOLEAN, req : SetBufferReq,
                     transfer_length : Nat, received : Nat]
    BY Zenon DEF GudTypeOK
  <2>4. /\ pending'.active => pending.active
        /\ pending'.req = pending.req
        /\ pending'.transfer_length = pending.transfer_length
    <3>1. \/ pending' = [pending EXCEPT !.active = FALSE]
          \/ pending' = [pending EXCEPT !.received = @ + length]
          \/ pending' = [[pending EXCEPT !.active = FALSE]
                            EXCEPT !.received = @ + length]
      BY <2>1, Zenon DEF endpoint_data, DropChunk, KeepChunk,
         FinishRectangle, Inactive
    <3>2. CASE pending' = [pending EXCEPT !.active = FALSE]
      BY <2>3, <3>2, Zenon
    <3>3. CASE pending' = [pending EXCEPT !.received = @ + length]
      BY <2>3, <3>3, Zenon
    <3>4. CASE pending' = [[pending EXCEPT !.active = FALSE]
                              EXCEPT !.received = @ + length]
      BY <2>3, <3>4, Zenon
    <3> QED
      BY <3>1, <3>2, <3>3, <3>4, Zenon
  <2> QED
    BY <2>2, <2>4, Zenon DEF Refusal, StallInv, stateVars
<1>3. CASE reset
  BY <1>3, Zenon DEF reset, Refusal
<1>4. CASE MainLoop \/ Leave
  <2>1. UNCHANGED <<controlVars, pending>>
    BY <1>4, Zenon DEF MainLoop, ShowFrame, TakeFrame, Leave, pixelVars
  <2> QED
    BY <2>1, QuietStep, Zenon DEF controlVars, StallInv
<1>5. CASE UNCHANGED gudVars
  BY <1>5, QuietStep, Zenon DEF gudVars, controlVars, pixelVars, StallInv
<1> QED
  BY <1>1, <1>2, <1>3, <1>4, <1>5, Zenon DEF GudNext

\* A request whose status is not OK has changed nothing the host could have
\* asked for, and one without an answer has such a status.
THEOREM RefusedRequests == GudSpec => RefusedChangesNothing
<1>1. GudInit => StallInv
  BY Zenon DEF GudInit, StallInv
<1>2. GudTypeOK /\ StallInv /\ [GudNext]_gudVars => StallInv' /\ Refusal
  BY StepRefusal, Zenon DEF StallInv, Refusal
<1>3. GudSpec => []GudTypeOK
  BY DisplayTypes
<1>4. GudSpec => [][Refusal]_gudVars
  BY <1>1, <1>2, <1>3, PTL DEF GudSpec
<1> QED
  BY <1>4 DEF RefusedChangesNothing, Refusal


-----------------------------------------------------------------------------
(* The host's image.                                                       *)

\* Byte i of the image img, with bpp bytes per pixel.
ImageByte(img, bpp, i) ==
    IF \/ bpp = 0
       \/ i >= DISPLAY_WIDTH * DISPLAY_HEIGHT * bpp
       \/ img[PixelOf(i, bpp)][1] = 0
    THEN 0
    ELSE PixelByte(img[PixelOf(i, bpp)][1],
                   img[PixelOf(i, bpp)][2] * bpp + (i % bpp))

BytesOf(img, bpp) ==
    [i \in 0 .. FramebufferSize - 1 |-> ImageByte(img, bpp, i)]

\* ImageBytes, byte by byte.
LEMMA ImageByByte ==
    ImageBytes = BytesOf(image, BytesPerPixel(current_format))
BY Zenon DEF ImageBytes, BytesOf, ImageByte, BytesPerPixel, PixelOf

\* While a rectangle arrives, the first part of the transfer buffer holds
\* what arrived of it.
TransferInv ==
    pending.active =>
        /\ rectangles # 0
        /\ \A j \in 0 .. pending.received - 1 :
               transfer_buffer[j] = PixelByte(rectangles, j)

\* The framebuffer holds the image, and nothing is drawn without a format.
ImageInv ==
    /\ image \in [Pixel -> Nat \X Nat]
    /\ current_format = "none" => image = Blank
    /\ framebuffer = BytesOf(image, BytesPerPixel(current_format))

\* The framebuffer of a blank image is zero in every format.
LEMMA BlankBytes ==
    ASSUME NEW f \in Format \cup {"none"}
    PROVE  BytesOf(Blank, BytesPerPixel(f)) = Zeroes
<1> DEFINE bpp == BytesPerPixel(f)
<1>1. bpp \in Nat
  BY FormatBytes
<1> SUFFICES ASSUME NEW i \in 0 .. FramebufferSize - 1
             PROVE  ImageByte(Blank, bpp, i) = 0
  BY Zenon DEF BytesOf, Zeroes
<1> HIDE DEF bpp
<1>2. i \in Nat
  BY SizeAssumption DEF FramebufferSize, MAX_BYTES_PER_PIXEL
<1>3. CASE bpp = 0 \/ i >= DISPLAY_WIDTH * DISPLAY_HEIGHT * bpp
  BY <1>3, Zenon DEF ImageByte
<1>4. CASE bpp # 0 /\ i < DISPLAY_WIDTH * DISPLAY_HEIGHT * bpp
  <2>1. PixelOf(i, bpp) \in Pixel
    BY <1>1, <1>2, <1>4, BytesOnDisplay, Zenon
  <2>2. Blank[PixelOf(i, bpp)][1] = 0
    BY <2>1, SMT DEF Blank
  <2> QED
    BY <2>2, Zenon DEF ImageByte
<1>5. DISPLAY_WIDTH * DISPLAY_HEIGHT * bpp \in Nat
  BY <1>1, SizeAssumption
<1>6. \/ i >= DISPLAY_WIDTH * DISPLAY_HEIGHT * bpp
      \/ i < DISPLAY_WIDTH * DISPLAY_HEIGHT * bpp
  BY <1>2, <1>5
<1> QED
  BY <1>3, <1>4, <1>6, Zenon

\* Without a format the framebuffer is zero.
LEMMA ZeroWithoutFormat ==
    ASSUME ImageInv, current_format = "none"
    PROVE  framebuffer = Zeroes /\ image = Blank
BY BlankBytes, Zenon DEF ImageInv

\* What a control request does to the rectangle under way and to the format:
\* there is one format to commit to.
LEMMA ControlEffect ==
    ASSUME GudTypeOK, control_data
    PROVE  /\ \/ UNCHANGED <<pending, rectangles>>
              \/ pending'.received = 0 /\ rectangles' = rectangles + 1
           /\ \/ current_format' = current_format
              \/ /\ current_format = "none"
                 /\ current_format' \in display_formats
<1>0. /\ checked \in display_formats \cup {"none"}
      /\ current_format \in display_formats \cup {"none"}
  BY Zenon DEF GudTypeOK
<1>1. CASE \E in \in BOOLEAN : WrongInterface(in)
  BY <1>1, Zenon DEF WrongInterface, stateVars, pixelVars
<1>2. CASE \E bRequest \in GetRequest, wValue \in {0, 1} :
               get_request(bRequest, wValue)
  BY <1>2, Zenon DEF get_request, stateVars, pixelVars
<1>3. CASE \E data \in BufferRequest \cup {Malformed} : set_buffer(data)
  <2>1. PICK data \in BufferRequest \cup {Malformed} : set_buffer(data)
    BY <1>3, Zenon
  <2>2. CASE Accepts(data)
    <3>1. pending' = [active |-> TRUE, req |-> data,
                      transfer_length |-> transfer_length(data),
                      received |-> 0]
      BY <2>1, <2>2, Zenon DEF set_buffer
    <3>2. pending'.received = 0
      BY <3>1, Zenon
    <3> QED
      BY <2>1, <2>2, <3>2, Zenon DEF set_buffer, stateVars
  <2> QED
    BY <2>1, <2>2, Zenon DEF set_buffer, stateVars
<1>4. CASE \E data \in StateRequest \cup {Malformed} : set_state_check(data)
  BY <1>4, Zenon DEF set_state_check, pixelVars
<1>5. CASE set_state_commit
  <2>1. \/ current_format' = current_format
        \/ checked # "none" /\ current_format' = checked
    BY <1>5, Zenon DEF set_state_commit
  <2>2. UNCHANGED <<pending, rectangles>>
    BY <1>5, Zenon DEF set_state_commit, pixelVars
  <2> QED
    BY <1>0, <2>1, <2>2, FormatAssumption, Zenon
<1>6. CASE \E data \in BOOLEAN \cup {Malformed} :
               set_controller_enable(data) \/ set_display_enable(data)
  BY <1>6, Zenon DEF set_controller_enable, set_display_enable, pixelVars
<1>7. CASE \E bRequest \in {"SET_CONNECTOR_FORCE_DETECT", "unknown"} :
               set_other(bRequest)
  BY <1>7, Zenon DEF set_other, stateVars, pixelVars
<1> QED
  BY <1>1, <1>2, <1>3, <1>4, <1>5, <1>6, <1>7, Zenon DEF control_data

\* A part of a rectangle ends up behind the parts before it.
LEMMA BufferedBytes ==
    ASSUME GudTypeOK, TransferInv, pending.active, NEW length \in Nat,
           pending.received + length <= DISPLAY_MAX_BUFFER_SIZE,
           NEW j \in 0 .. pending.received + length - 1
    PROVE  Buffered(length)[j] = PixelByte(rectangles, j)
<1>1. pending.received \in Nat
  BY Zenon DEF GudTypeOK
<1>2. j \in 0 .. DISPLAY_MAX_BUFFER_SIZE - 1
  BY <1>1, SizeAssumption
<1>3. j \in DOMAIN transfer_buffer
  BY <1>2, Zenon DEF GudTypeOK
<1>4. \/ j \in pending.received .. pending.received + length - 1
      \/ j \in 0 .. pending.received - 1
  BY <1>1
<1> QED
  BY <1>3, <1>4, Zenon DEF Buffered, TransferInv

\* A step that leaves the rectangle under way alone, or forgets it.
LEMMA SameTransfer ==
    ASSUME TransferInv, UNCHANGED <<transfer_buffer, rectangles>>,
           pending' = pending \/ ~pending'.active
    PROVE  TransferInv'
<1>1. CASE ~pending'.active
  BY <1>1, Zenon DEF TransferInv
<1>2. CASE pending' = pending
  BY <1>2, Zenon DEF TransferInv
<1> QED
  BY <1>1, <1>2, Zenon

\* The parts of a rectangle arrive in the transfer buffer in their order.
LEMMA TransferKept ==
    ASSUME GudTypeOK, GudInv, TransferInv, [GudNext]_gudVars
    PROVE  TransferInv'
<1>0. /\ pending \in [active : BOOLEAN, req : SetBufferReq,
                      transfer_length : Nat, received : Nat]
      /\ rectangles \in Nat
  BY Zenon DEF GudTypeOK
<1>1. CASE control_data
  <2>1. UNCHANGED transfer_buffer
    BY <1>1, ControlTypes, Zenon
  <2>2. CASE UNCHANGED <<pending, rectangles>>
    BY <2>1, <2>2, SameTransfer, Zenon
  <2>3. CASE pending'.received = 0 /\ rectangles' = rectangles + 1
    <3>1. rectangles' # 0 /\ 0 .. pending'.received - 1 = {}
      BY <1>0, <2>3
    <3> QED
      BY <3>1, Zenon DEF TransferInv
  <2> QED
    BY <1>1, <2>2, <2>3, ControlEffect, Zenon
<1>2. CASE \E length \in ChunkLength : endpoint_data(length)
  <2>1. PICK length \in ChunkLength : endpoint_data(length)
    BY <1>2, Zenon
  <2>2. length \in Nat /\ rectangles' = rectangles
    BY <2>1, InputAssumption, Zenon DEF endpoint_data
  <2>3. CASE KeepChunk(length)
    <3>1. /\ pending.active /\ transfer_buffer' = Buffered(length)
          /\ pending' = [pending EXCEPT !.received = @ + length]
          /\ pending.received + length < pending.transfer_length
      BY <2>3, Zenon DEF KeepChunk
    <3>2. pending'.received = pending.received + length
      BY <1>0, <3>1, Zenon
    <3>3. pending.transfer_length <= DISPLAY_MAX_BUFFER_SIZE
      BY <3>1, Zenon DEF GudInv, PendingFits
    <3>4. pending.received + length <= DISPLAY_MAX_BUFFER_SIZE
      BY <1>0, <2>2, <3>1, <3>3, SizeAssumption, SMT
    <3>5. \A j \in 0 .. pending.received + length - 1 :
              Buffered(length)[j] = PixelByte(rectangles, j)
      BY <2>2, <3>1, <3>4, BufferedBytes, Zenon
    <3>6. rectangles # 0
      BY <3>1, Zenon DEF TransferInv
    <3>7. \A j \in 0 .. pending'.received - 1 :
              transfer_buffer'[j] = PixelByte(rectangles', j)
      <4> SUFFICES ASSUME NEW j \in 0 .. pending'.received - 1
                   PROVE  transfer_buffer'[j] = PixelByte(rectangles', j)
        BY Zenon
      <4>1. j \in 0 .. pending.received + length - 1
        BY <1>0, <2>2, <3>2, SMT
      <4>2. Buffered(length)[j] = PixelByte(rectangles, j)
        BY <3>5, <4>1, Zenon
      <4>3. transfer_buffer'[j] = Buffered(length)[j]
        BY <3>1, Zenon
      <4> QED
        BY <2>2, <4>2, <4>3, Zenon
    <3> QED
      BY <2>2, <3>6, <3>7, Zenon DEF TransferInv
  <2>4. CASE DropChunk(length) \/ FinishRectangle(length)
    <3>1. \/ pending' = [pending EXCEPT !.active = FALSE]
          \/ pending' = [[pending EXCEPT !.active = FALSE]
                            EXCEPT !.received = @ + length]
      BY <2>4, Zenon DEF DropChunk, FinishRectangle, Inactive
    <3>2. ~pending'.active
      BY <1>0, <3>1, Zenon
    <3> QED
      BY <3>2, Zenon DEF TransferInv
  <2> QED
    BY <2>1, <2>3, <2>4, Zenon DEF endpoint_data
<1>3. CASE reset
  <2>1. ~pending'.active
    BY <1>0, <1>3, Zenon DEF reset, Inactive
  <2> QED
    BY <2>1, Zenon DEF TransferInv
<1>4. CASE MainLoop \/ Leave
  <2>1. UNCHANGED <<pending, transfer_buffer, rectangles>>
    BY <1>4, Zenon DEF MainLoop, ShowFrame, TakeFrame, Leave, pixelVars
  <2> QED
    BY <2>1, SameTransfer, Zenon
<1>5. CASE UNCHANGED gudVars
  BY <1>5, SameTransfer, Zenon DEF gudVars, pixelVars
<1> QED
  BY <1>1, <1>2, <1>3, <1>4, <1>5, Zenon DEF GudNext


\* A rectangle lies on the display, pixel by pixel.
LEMMA CoveredOnDisplay ==
    ASSUME NEW rect \in SetBufferReq, Inside(rect), NEW x, NEW y,
           Covers(rect, <<x, y>>)
    PROVE  <<x, y>> \in Pixel
<1>1. /\ rect.x \in Nat /\ rect.y \in Nat /\ rect.width \in Nat
      /\ rect.height \in Nat
  BY Zenon DEF SetBufferReq
<1>2. x \in 0 .. DISPLAY_WIDTH - 1 /\ y \in 0 .. DISPLAY_HEIGHT - 1
  BY <1>1, SizeAssumption, SMT DEF Covers, Inside
<1> QED
  BY <1>2, Zenon DEF Pixel

\* The image after a rectangle was drawn.
LEMMA DrawnPixels ==
    ASSUME NEW rect
    PROVE  Drawn(rect) =
               [p \in Pixel |-> IF Covers(rect, p)
                                THEN <<rectangles, NumberIn(rect, p)>>
                                ELSE image[p]]
BY Zenon DEF Drawn, Covers, NumberIn

\* The image stays one: pixels of rectangles, numbered.
LEMMA DrawnType ==
    ASSUME NEW rect \in SetBufferReq, rectangles \in Nat,
           image \in [Pixel -> Nat \X Nat]
    PROVE  Drawn(rect) \in [Pixel -> Nat \X Nat]
<1>1. 1 \in Nat \ {0} /\ 0 \in 0 .. 1 - 1
  OBVIOUS
<1>2. \A p \in Pixel : Covers(rect, p) => NumberIn(rect, p) \in Nat
  BY <1>1, SentBytes, Zenon
<1> QED
  BY <1>2, DrawnPixels, Zenon

\* What store_rectangle leaves in the framebuffer is the image with the
\* rectangle drawn on it.
LEMMA StoredIsDrawn ==
    ASSUME GudInv, ImageInv, pending.active, pending.req.compression = {},
           framebuffer \in [0 .. FramebufferSize - 1 -> Byte],
           rectangles \in Nat \ {0}, NEW pixels,
           \A j \in 0 .. pending.transfer_length - 1 :
               pixels[j] = PixelByte(rectangles, j)
    PROVE  store_rectangle(pending.req, pixels)
           = BytesOf(Drawn(pending.req), BytesPerPixel(current_format))
<1> DEFINE bpp == BytesPerPixel(current_format)
           rect == pending.req
<1>0. current_format \in Format
  BY OfferedFormats, Zenon DEF GudInv, PendingFits
<1>1. CASE format_bits_per_pixel(current_format) % 8 # 0
  <2>1. bpp = 0
    <3>1. format_bits_per_pixel(current_format) \in {0, 1, 4, 8, 16, 24, 32}
      BY <1>0, FormatBits, Zenon
    <3> QED
      BY <1>1, <3>1, SMT DEF BytesPerPixel
  <2>2. store_rectangle(rect, pixels) = framebuffer
    BY <1>1, Zenon DEF store_rectangle
  <2>3. BytesOf(Drawn(rect), bpp) = BytesOf(image, bpp)
    BY <2>1, Zenon DEF BytesOf, ImageByte
  <2> QED
    BY <2>2, <2>3, Zenon DEF ImageInv
<1>2. CASE format_bits_per_pixel(current_format) % 8 = 0
  <2>1. /\ rect \in SetBufferReq /\ Inside(rect)
        /\ (rect.width * bpp) * rect.height = pending.transfer_length
    BY <1>2, RectangleBytes, Zenon
  <2>2. bpp \in Nat \ {0}
    BY <1>0, <1>2, WholeBytes, Zenon
  <2>3. store_rectangle(rect, pixels) =
            [i \in 0 .. FramebufferSize - 1 |->
                StoredByte(rect, pixels, bpp, i)]
    BY <1>2, <2>1, <2>2, StoredBytes, Zenon
  <2>4. framebuffer = BytesOf(image, bpp)
    BY Zenon DEF ImageInv
  <2> HIDE DEF bpp, rect
  <2>5. ASSUME NEW i \in 0 .. FramebufferSize - 1
        PROVE  StoredByte(rect, pixels, bpp, i)
               = ImageByte(Drawn(rect), bpp, i)
    <3> DEFINE p == PixelOf(i, bpp)
    <3>1. i \in Nat
      BY SizeAssumption DEF FramebufferSize, MAX_BYTES_PER_PIXEL
    <3>2. i < DISPLAY_WIDTH * DISPLAY_HEIGHT * bpp <=> p \in Pixel
      BY <2>2, <3>1, BytesOnDisplay, Zenon
    <3>3. Covers(rect, p) => p \in Pixel
      BY <2>1, CoveredOnDisplay, Zenon DEF PixelOf
    <3>4. DISPLAY_WIDTH * DISPLAY_HEIGHT * bpp \in Nat
      BY <2>2, SizeAssumption
    <3>5. i >= DISPLAY_WIDTH * DISPLAY_HEIGHT * bpp <=> p \notin Pixel
      BY <3>1, <3>2, <3>4
    <3>6. framebuffer[i] = ImageByte(image, bpp, i)
      BY <2>4, Zenon DEF BytesOf
    <3>7. bpp # 0 /\ rectangles # 0
      BY <2>2
    <3>8. CASE Covers(rect, p)
      <4>1. p \in Pixel
        BY <3>3, <3>8
      <4>2. /\ Drawn(rect)[p][1] = rectangles
            /\ Drawn(rect)[p][2] = NumberIn(rect, p)
        BY <3>8, <4>1, DrawnPixels, Zenon
      <4>3. i % bpp \in 0 .. bpp - 1
        BY <2>2, <3>1, DivMod, Zenon
      <4>4. NumberIn(rect, p) * bpp + (i % bpp)
                \in 0 .. pending.transfer_length - 1
        BY <2>1, <2>2, <3>8, <4>3, SentBytes, Zenon
      <4>5. StoredByte(rect, pixels, bpp, i)
            = PixelByte(rectangles, NumberIn(rect, p) * bpp + (i % bpp))
        BY <3>8, <4>4, Zenon DEF StoredByte
      <4> QED
        BY <3>5, <3>7, <4>1, <4>2, <4>5, Zenon DEF ImageByte
    <3>9. CASE ~Covers(rect, p)
      <4>1. p \in Pixel => Drawn(rect)[p] = image[p]
        BY <3>9, DrawnPixels, Zenon
      <4>2. StoredByte(rect, pixels, bpp, i) = ImageByte(image, bpp, i)
        BY <3>6, <3>9, Zenon DEF StoredByte
      <4> QED
        BY <3>5, <4>1, <4>2, Zenon DEF ImageByte
    <3> QED
      BY <3>8, <3>9, Zenon
  <2> QED
    BY <2>3, <2>5, Zenon DEF BytesOf, bpp, rect
<1> QED
  BY <1>1, <1>2, Zenon


\* The last part of an uncompressed rectangle completes it in the transfer
\* buffer, and in the image.
LEMMA FinishDraws ==
    ASSUME GudTypeOK, GudInv, TransferInv, ImageInv, NEW length \in Nat,
           FinishRectangle(length), pending.req.compression = {}
    PROVE  /\ image' \in [Pixel -> Nat \X Nat]
           /\ framebuffer' = BytesOf(image', BytesPerPixel(current_format))
           /\ current_format # "none"
<1>0. /\ pending \in [active : BOOLEAN, req : SetBufferReq,
                      transfer_length : Nat, received : Nat]
      /\ framebuffer \in [0 .. FramebufferSize - 1 -> Byte]
      /\ rectangles \in Nat
  BY Zenon DEF GudTypeOK
<1>1. /\ pending.active
      /\ pending.received + length = pending.transfer_length
      /\ framebuffer' = store_rectangle(pending.req, Buffered(length))
      /\ image' = Drawn(pending.req)
  BY Zenon DEF FinishRectangle
<1>2. /\ pending.transfer_length <= DISPLAY_MAX_BUFFER_SIZE
      /\ current_format \in display_formats
  BY <1>1, Zenon DEF GudInv, PendingFits
<1>3. rectangles # 0
  BY <1>1, Zenon DEF TransferInv
<1>4. pending.received + length <= DISPLAY_MAX_BUFFER_SIZE
  BY <1>1, <1>2, Zenon
<1>5. \A j \in 0 .. pending.received + length - 1 :
          Buffered(length)[j] = PixelByte(rectangles, j)
  BY <1>1, <1>4, BufferedBytes, Zenon
<1>6. \A j \in 0 .. pending.transfer_length - 1 :
          Buffered(length)[j] = PixelByte(rectangles, j)
  <2>1. \A j \in 0 .. pending.transfer_length - 1 :
            j \in 0 .. pending.received + length - 1
    BY <1>0, <1>1, SMT
  <2> QED
    BY <1>5, <2>1, Zenon
<1>7. rectangles \in Nat \ {0}
  BY <1>0, <1>3, Zenon
<1>8. framebuffer' = BytesOf(image', BytesPerPixel(current_format))
  BY <1>0, <1>1, <1>6, <1>7, StoredIsDrawn, Zenon
<1>9. image' \in [Pixel -> Nat \X Nat]
  BY <1>0, <1>1, DrawnType, Zenon DEF ImageInv
<1>10. current_format # "none"
  BY <1>2, OfferedFormats, Zenon DEF Format
<1> QED
  BY <1>8, <1>9, <1>10, Zenon

\* A step that leaves framebuffer, image and format alone.
LEMMA SameImage ==
    ASSUME ImageInv, UNCHANGED <<framebuffer, image, current_format>>
    PROVE  ImageInv'
BY Zenon DEF ImageInv

\* A step that leaves zeroes in the framebuffer and a blank image.
LEMMA BlankImage ==
    ASSUME framebuffer' = Zeroes, image' = Blank,
           current_format' \in display_formats \cup {"none"}
    PROVE  ImageInv'
<1>1. current_format' \in Format \cup {"none"}
  BY OfferedFormats, Zenon
<1>2. BytesOf(Blank, BytesPerPixel(current_format')) = Zeroes
  BY <1>1, BlankBytes, Zenon
<1>3. 0 \in Nat
  OBVIOUS
<1>4. Blank \in [Pixel -> Nat \X Nat]
  BY <1>3, Zenon DEF Blank
<1> QED
  BY <1>2, <1>4, Zenon DEF ImageInv

\* Every step keeps the framebuffer the image.
LEMMA ImageKept ==
    ASSUME GudTypeOK, GudInv, TransferInv, ImageInv, [GudNext]_gudVars
    PROVE  ImageInv'
<1>0. current_format' \in display_formats \cup {"none"}
  BY StepKeepsInv, Zenon DEF GudInv
<1>1. CASE control_data
  <2>1. UNCHANGED <<framebuffer, image>>
    BY <1>1, ControlTypes, Zenon DEF drawingVars
  <2>2. current_format' = current_format \/ current_format = "none"
    BY <1>1, ControlEffect, Zenon
  <2>3. CASE current_format' = current_format
    BY <2>1, <2>3, SameImage, Zenon
  <2>4. CASE current_format = "none"
    BY <1>0, <2>1, <2>4, ZeroWithoutFormat, BlankImage, Zenon
  <2> QED
    BY <2>2, <2>3, <2>4, Zenon
<1>2. CASE \E length \in ChunkLength : endpoint_data(length)
  <2>1. PICK length \in ChunkLength : endpoint_data(length)
    BY <1>2, Zenon
  <2>2. length \in Nat /\ current_format' = current_format
    BY <2>1, InputAssumption, Zenon DEF endpoint_data, controlVars, stateVars
  <2>3. CASE UNCHANGED <<framebuffer, image>>
    BY <2>2, <2>3, SameImage, Zenon
  <2>4. CASE FinishRectangle(length) /\ pending.req.compression = {}
    <3>1. /\ image' \in [Pixel -> Nat \X Nat]
          /\ framebuffer' = BytesOf(image', BytesPerPixel(current_format'))
          /\ current_format' # "none"
      BY <2>2, <2>4, FinishDraws, Zenon
    <3> QED
      BY <3>1, Zenon DEF ImageInv
  <2> QED
    BY <2>1, <2>3, <2>4, Zenon DEF endpoint_data, DropChunk, KeepChunk,
       FinishRectangle, drawingVars
<1>3. CASE reset
  BY <1>0, <1>3, BlankImage, Zenon DEF reset
<1>4. CASE MainLoop \/ Leave
  <2>1. UNCHANGED <<framebuffer, image, current_format>>
    BY <1>4, Zenon DEF MainLoop, ShowFrame, TakeFrame, Leave, pixelVars,
       drawingVars, controlVars, stateVars
  <2> QED
    BY <2>1, SameImage, Zenon
<1>5. CASE UNCHANGED gudVars
  BY <1>5, SameImage, Zenon DEF gudVars, pixelVars, drawingVars, controlVars,
     stateVars
<1> QED
  BY <1>1, <1>2, <1>3, <1>4, <1>5, Zenon DEF GudNext

\* At first nothing is drawn.
LEMMA ImageAtFirst == GudInit => TransferInv /\ ImageInv
<1> SUFFICES ASSUME GudInit PROVE TransferInv /\ ImageInv
  OBVIOUS
<1>1. ~pending.active
  BY Zenon DEF GudInit, NoPending
<1>2. BytesOf(Blank, BytesPerPixel("none")) = Zeroes
  BY BlankBytes, Zenon
<1>3. 0 \in Nat
  OBVIOUS
<1>4. Blank \in [Pixel -> Nat \X Nat]
  BY <1>3, Zenon DEF Blank
<1> QED
  BY <1>1, <1>2, <1>4, Zenon DEF GudInit, TransferInv, ImageInv

\* Whatever the size of the display, its format and the order of requests,
\* pixels and resets: the framebuffer is, byte by byte, the image the host
\* has drawn since it attached.
THEOREM FramebufferHoldsImage == GudSpec => []FramebufferIsImage
<1>1. GudInit => GudTypeOK /\ GudInv /\ TransferInv /\ ImageInv
  BY TypesAtFirst, ImageAtFirst, Zenon
<1>2. GudTypeOK /\ GudInv /\ TransferInv /\ ImageInv /\ [GudNext]_gudVars
      => GudTypeOK' /\ GudInv' /\ TransferInv' /\ ImageInv'
  BY TypesKept, StepKeepsInv, TransferKept, ImageKept, Zenon
<1>3. ImageInv => FramebufferIsImage
  BY ImageByByte, Zenon DEF ImageInv, FramebufferIsImage
<1> QED
  BY <1>1, <1>2, <1>3, PTL DEF GudSpec


-----------------------------------------------------------------------------
(* The window.                                                             *)

\* What the window should show of the framebuffer.
Shown == IF shown_on THEN framebuffer_to_xrgb8888(framebuffer, current_format)
         ELSE Black

\* While nothing is marked as changed, the main loop's copy is that of the
\* framebuffer, in the format of the framebuffer unless there is nothing to
\* see in it, and the window shows it unless the main loop is about to.
WindowInv ==
    ~framebuffer_changed =>
        /\ local.frame = framebuffer
        /\ main = "show" =>
             local.format = current_format \/ framebuffer = Zeroes
        /\ window_open /\ (main = "show" => ~local.changed) => window = Shown

\* A step that leaves framebuffer, format and main loop alone.
LEMMA SameWindow ==
    ASSUME WindowInv,
           UNCHANGED <<framebuffer, current_format, main, local, shown_on,
                       window>>,
           framebuffer_changed' = framebuffer_changed
    PROVE  WindowInv'
<1>1. Shown' = Shown
  BY Zenon DEF Shown
<1> QED
  BY <1>1, Zenon DEF WindowInv

\* A control request may set the format, when the framebuffer is zero.
LEMMA ControlKeepsWindow ==
    ASSUME GudTypeOK, ImageInv, WindowInv, control_data
    PROVE  WindowInv'
<1>1. UNCHANGED <<framebuffer, framebuffer_changed, main, local, shown_on,
                  window>>
  BY ControlTypes, Zenon DEF drawingVars, mainVars
<1>2. CASE current_format' = current_format
  BY <1>1, <1>2, SameWindow, Zenon
<1>3. CASE current_format = "none"
  <2>1. framebuffer = Zeroes
    BY <1>3, ZeroWithoutFormat, Zenon
  <2>2. Shown = Black /\ Shown' = Black
    BY <1>1, <2>1, ZeroesAreBlack, Zenon DEF Shown
  <2> QED
    BY <1>1, <2>1, <2>2, Zenon DEF WindowInv
<1> QED
  BY <1>2, <1>3, ControlEffect, Zenon

\* Drawing marks a change, in the formats it can draw.
LEMMA PixelsKeepWindow ==
    ASSUME GudTypeOK, WindowInv, NEW length \in ChunkLength,
           endpoint_data(length)
    PROVE  WindowInv'
<1>1. UNCHANGED <<current_format, main, local, shown_on, window>>
  BY Zenon DEF endpoint_data, controlVars, stateVars, mainVars
<1>2. CASE UNCHANGED <<framebuffer, framebuffer_changed>>
  BY <1>1, <1>2, SameWindow, Zenon
<1>3. CASE framebuffer_changed'
  BY <1>3, Zenon DEF WindowInv
<1>4. CASE /\ framebuffer' = store_rectangle(pending.req, transfer_buffer')
           /\ framebuffer_changed' = MarkChanged
  <2>1. CASE format_bits_per_pixel(current_format) % 8 = 0
    BY <1>3, <1>4, <2>1, Zenon DEF MarkChanged
  <2>2. CASE format_bits_per_pixel(current_format) % 8 # 0
    <3>1. framebuffer' = framebuffer
      BY <1>4, <2>2, Zenon DEF store_rectangle
    <3>2. framebuffer_changed' = framebuffer_changed
      <4>1. framebuffer_changed \in BOOLEAN
        BY Zenon DEF GudTypeOK
      <4> QED
        BY <1>4, <2>2, <4>1, Zenon DEF MarkChanged
    <3> QED
      BY <1>2, <3>1, <3>2, Zenon
  <2> QED
    BY <2>1, <2>2, Zenon
<1> QED
  BY <1>2, <1>4, Zenon DEF endpoint_data, DropChunk, KeepChunk,
     FinishRectangle, drawingVars

\* The critical section takes the change with the frame and the format.
LEMMA TakeKeepsWindow ==
    ASSUME WindowInv, NEW print_stats \in BOOLEAN, TakeFrame(print_stats)
    PROVE  WindowInv'
<1>1. /\ main = "loop" /\ main' = "show"
      /\ local'.changed = framebuffer_changed
      /\ local'.format = current_format
      /\ local'.frame = IF framebuffer_changed THEN framebuffer
                        ELSE local.frame
      /\ UNCHANGED <<framebuffer, current_format, shown_on, window>>
  BY Zenon DEF TakeFrame, controlVars, stateVars
<1>2. Shown' = Shown
  BY <1>1, Zenon DEF Shown
<1> QED
  BY <1>1, <1>2, Zenon DEF WindowInv

\* What is shown is the copy, and it is still the framebuffer if nothing was
\* drawn meanwhile.
LEMMA ShowKeepsWindow ==
    ASSUME WindowInv, ShowFrame
    PROVE  WindowInv'
<1>1. /\ main = "show" /\ main' = "loop" /\ Show
      /\ local' = NothingTaken(local.frame)
      /\ UNCHANGED <<framebuffer, framebuffer_changed, current_format>>
  BY Zenon DEF ShowFrame, controlVars, stateVars, pixelVars, drawingVars
<1>2. local'.frame = local.frame
  BY <1>1, Zenon DEF NothingTaken
<1>3. ASSUME ~framebuffer_changed, window_open
      PROVE  window' = Shown'
  <2>1. /\ local.frame = framebuffer
        /\ local.format = current_format \/ framebuffer = Zeroes
        /\ ~local.changed => window = Shown
    BY <1>1, <1>3, Zenon DEF WindowInv
  <2>2. CASE MustShow
    <3>1. /\ window' = IF local.on
                       THEN framebuffer_to_xrgb8888(local.frame, local.format)
                       ELSE Black
          /\ shown_on' = local.on
      BY <1>1, <2>2, Zenon DEF Show, gud_display_window_show
    <3>2. framebuffer_to_xrgb8888(local.frame, local.format)
          = framebuffer_to_xrgb8888(framebuffer, current_format)
      BY <2>1, ZeroesAreBlack, Zenon
    <3> QED
      BY <1>1, <3>1, <3>2, Zenon DEF Shown
  <2>3. CASE ~MustShow
    <3>1. ~local.changed /\ UNCHANGED <<window, shown_on>>
      BY <1>1, <1>3, <2>3, Zenon DEF Show, MustShow
    <3>2. Shown' = Shown
      BY <1>1, <3>1, Zenon DEF Shown
    <3> QED
      BY <2>1, <3>1, <3>2, Zenon
  <2> QED
    BY <2>2, <2>3, Zenon
<1> QED
  BY <1>1, <1>2, <1>3, Zenon DEF WindowInv

\* Every step keeps the window in step with the marks.
LEMMA WindowKept ==
    ASSUME GudTypeOK, ImageInv, WindowInv, [GudNext]_gudVars
    PROVE  WindowInv'
<1>1. CASE control_data
  BY <1>1, ControlKeepsWindow, Zenon
<1>2. CASE \E length \in ChunkLength : endpoint_data(length)
  BY <1>2, PixelsKeepWindow, Zenon
<1>3. CASE reset
  BY <1>3, Zenon DEF reset, WindowInv
<1>4. CASE MainLoop
  BY <1>4, TakeKeepsWindow, ShowKeepsWindow, Zenon DEF MainLoop
<1>5. CASE Leave
  <2>1. /\ main = "loop" /\ main' = "ended"
        /\ UNCHANGED <<framebuffer, framebuffer_changed, current_format,
                       local, shown_on, window>>
    BY <1>5, Zenon DEF Leave, controlVars, stateVars, pixelVars, drawingVars
  <2>2. Shown' = Shown
    BY <2>1, Zenon DEF Shown
  <2> QED
    BY <2>1, <2>2, Zenon DEF WindowInv
<1>6. CASE UNCHANGED gudVars
  BY <1>6, SameWindow, Zenon DEF gudVars, controlVars, stateVars, pixelVars,
     drawingVars, mainVars
<1> QED
  BY <1>1, <1>2, <1>3, <1>4, <1>5, <1>6, Zenon DEF GudNext

\* No change is lost between the callbacks and the main loop: between two
\* rounds, with nothing marked as changed, the window shows the host's image.
THEOREM WindowShowsImage == GudSpec => []WindowUpToDate
<1>1. GudInit => WindowInv
  <2> SUFFICES ASSUME GudInit PROVE WindowInv
    OBVIOUS
  <2>1. local.frame = Zeroes
    BY Zenon DEF GudInit, NothingTaken
  <2>2. Shown = Black /\ window = Black /\ main # "show"
        /\ framebuffer = Zeroes
    BY Zenon DEF GudInit, Shown
  <2> QED
    BY <2>1, <2>2, Zenon DEF WindowInv
<1>2. GudInit => GudTypeOK /\ GudInv /\ TransferInv /\ ImageInv
  BY TypesAtFirst, ImageAtFirst, Zenon
<1>3. GudTypeOK /\ GudInv /\ TransferInv /\ ImageInv /\ [GudNext]_gudVars
      => GudTypeOK' /\ GudInv' /\ TransferInv' /\ ImageInv'
  BY TypesKept, StepKeepsInv, TransferKept, ImageKept, Zenon
<1>4. GudTypeOK /\ ImageInv /\ WindowInv /\ [GudNext]_gudVars => WindowInv'
  BY WindowKept, Zenon
<1>5. ImageInv /\ WindowInv => WindowUpToDate
  <2> SUFFICES ASSUME ImageInv, WindowInv, main = "loop", window_open,
                      ~framebuffer_changed
               PROVE  window = Picture(shown_on)
    BY Zenon DEF WindowUpToDate
  <2>1. framebuffer = ImageBytes
    BY ImageByByte, Zenon DEF ImageInv
  <2> QED
    BY <2>1, Zenon DEF WindowInv, Shown, Picture
<1> QED
  BY <1>1, <1>2, <1>3, <1>4, <1>5, PTL DEF GudSpec

=============================================================================
