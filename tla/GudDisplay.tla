----------------------------- MODULE GudDisplay -----------------------------
(***************************************************************************)
(* src/usb_gud_display/usb_gud_display_device.c: a display that draws the  *)
(* rectangles a host sends, and a main loop that shows them in a window.   *)
(*                                                                         *)
(* The callbacks run in the server thread under receive_lock and the main  *)
(* loop reads what they write in a critical section (UsbipDevice: the two  *)
(* exclude each other), so a callback is one step, and a round of the main *)
(* loop is two: the critical section, and what it shows and prints with    *)
(* the copies it took.  Answers go to endpoint 0, which never waits; what   *)
(* is in them, the clock some depend on, the count of errors and what is   *)
(* printed are left out.                                                   *)
(*                                                                         *)
(* Byte i of the pixels the host sends for the n-th rectangle is           *)
(* PixelByte(n, i), so bytes that end up in the wrong place differ.        *)
(***************************************************************************)
EXTENDS Integers

CONSTANTS DISPLAY_WIDTH, DISPLAY_HEIGHT,
          DISPLAY_MAX_BUFFER_SIZE,
          DISPLAY_COMPRESSION,  \* the compression types announced
          display_formats,      \* the formats offered
          window_open,          \* there is a desktop to open a window on
          GetRequest,           \* control IN requests
          BufferRequest,        \* payloads of SET_BUFFER
          StateRequest,         \* payloads of SET_STATE_CHECK
          Malformed,            \* a payload of the wrong length
          ChunkLength,          \* lengths of bulk transfers
          MaxRectangles,        \* bound: rectangles accepted
          MaxResets             \* bound: resets

GUD_ROTATION_0 == 1
MAX_BYTES_PER_PIXEL == 4
FramebufferSize == DISPLAY_WIDTH * DISPLAY_HEIGHT * MAX_BYTES_PER_PIXEL
Pixel == (0 .. DISPLAY_WIDTH - 1) \X (0 .. DISPLAY_HEIGHT - 1)

Format == {"R1", "XRGB1111", "R8", "RGB332", "RGB565", "RGB888", "XRGB8888",
           "ARGB8888"}
Status == {"OK", "REQUEST_NOT_SUPPORTED", "PROTOCOL_ERROR",
           "INVALID_PARAMETER"}

SetBufferReq == [x : Nat, y : Nat, width : Nat, height : Nat, length : Nat,
                 compression : SUBSET {"LZ4", "other"},
                 compressed_length : Nat]

ASSUME SizeAssumption ==
    /\ DISPLAY_WIDTH \in Nat \ {0} /\ DISPLAY_HEIGHT \in Nat \ {0}
    /\ DISPLAY_MAX_BUFFER_SIZE \in Nat \ {0}
\* the display is built with one format, RGB565
ASSUME FormatAssumption == \E f \in Format : display_formats = {f}
ASSUME CompressionAssumption == DISPLAY_COMPRESSION \subseteq {"LZ4"}
ASSUME InputAssumption ==
    /\ BufferRequest \subseteq SetBufferReq
    /\ ChunkLength \subseteq Nat
    /\ window_open \in BOOLEAN
    /\ MaxRectangles \in Nat /\ MaxResets \in Nat

VARIABLES
    \* written by the callbacks
    last_status,
    checked,             \* checked_state.format, "none" if not state_checked
    current_format,      \* "none" for 0
    controller_enabled,
    display_enabled,
    pending,
    transfer_buffer,
    framebuffer,
    framebuffer_changed,
    stats_updates,
    \* the main loop
    main,                \* "loop", "show" or "ended"
    local,               \* what it copied in the critical section
    shown_on,
    window,              \* the pixels on the screen
    \* history, for the properties only
    stalled,             \* the last control request was IN and not answered
    rectangles,          \* rectangles accepted
    resets,
    image,               \* per pixel, what the host last drew there
    completed,           \* rectangles drawn
    printed              \* rectangles the main loop has reported

stateVars == <<checked, current_format, controller_enabled, display_enabled>>
controlVars == <<last_status, stalled, stateVars>>
drawingVars == <<framebuffer, framebuffer_changed, image, completed>>
pixelVars == <<pending, transfer_buffer, rectangles, drawingVars>>
statsVars == <<stats_updates, printed>>
mainVars == <<main, local, shown_on, window>>
gudVars == <<controlVars, pixelVars, statsVars, mainVars, resets>>

Zeroes == [i \in 0 .. FramebufferSize - 1 |-> 0]
Black == [p \in Pixel |-> 0]
Blank == [p \in Pixel |-> <<0, 0>>]

PixelByte(n, i) == 255 - ((n * DISPLAY_MAX_BUFFER_SIZE + i) % 255)

NoRect == [x |-> 0, y |-> 0, width |-> 0, height |-> 0, length |-> 0,
           compression |-> {}, compressed_length |-> 0]
NoPending == [active |-> FALSE, req |-> NoRect, transfer_length |-> 0,
              received |-> 0]

-----------------------------------------------------------------------------
(* Pixel formats.                                                          *)

is_offered_format(format) == format \in display_formats

format_bits_per_pixel(format) ==
    CASE format = "R1" -> 1
      [] format = "XRGB1111" -> 4
      [] format \in {"R8", "RGB332"} -> 8
      [] format = "RGB565" -> 16
      [] format = "RGB888" -> 24
      [] format \in {"XRGB8888", "ARGB8888"} -> 32
      [] OTHER -> 0

line_length(format, width) ==
    (width * format_bits_per_pixel(format) + 7) \div 8

\* a channel of the given number of bits, widened to 8
widen_256(value, bits) == (value * 256) \div (2^bits - 1)
widen(value, bits) == (value * 255) \div (2^bits - 1)

Bits(value, low, n) == (value \div 2^low) % 2^n

\* red, green and blue of pixel idx of the framebuffer fb
Channels(fb, format, idx) ==
    CASE format = "R8" -> <<fb[idx], fb[idx], fb[idx]>>
      [] format = "RGB332" ->
           <<widen(Bits(fb[idx], 5, 3), 3), widen(Bits(fb[idx], 2, 3), 3),
             widen(Bits(fb[idx], 0, 2), 2)>>
      [] format = "RGB565" ->
           LET pixel == fb[2 * idx] + 256 * fb[2 * idx + 1]
           IN <<widen(Bits(pixel, 11, 5), 5), widen(Bits(pixel, 5, 6), 6),
                widen(Bits(pixel, 0, 5), 5)>>
      [] format = "RGB888" -> <<fb[3 * idx + 2], fb[3 * idx + 1], fb[3 * idx]>>
      [] format \in {"XRGB8888", "ARGB8888"} ->
           <<fb[4 * idx + 2], fb[4 * idx + 1], fb[4 * idx]>>
      [] OTHER -> <<0, 0, 0>>

framebuffer_to_xrgb8888(fb, format) ==
    [p \in Pixel |->
        LET c == Channels(fb, format, p[2] * DISPLAY_WIDTH + p[1])
        IN c[1] * 65536 + c[2] * 256 + c[3]]

-----------------------------------------------------------------------------
(* Control requests.  They come after the reset of an import, and until    *)
(* usbip_server_stop joins the thread the callbacks run in.                *)

Serving == main # "ended" /\ resets > 0

Result(status) == last_status' = status /\ stalled' = FALSE
Stalled(status) == last_status' = status /\ stalled' = TRUE

get_request(bRequest, wValue) ==
    /\ CASE bRequest = "GET_STATUS" -> Result(last_status)
         [] bRequest \in {"GET_DESCRIPTOR", "GET_FORMATS", "GET_PROPERTIES",
                          "GET_CONNECTORS"} -> Result("OK")
         [] OTHER ->
              IF wValue # 0 THEN Stalled("INVALID_PARAMETER")
              ELSE IF bRequest \in {"GET_CONNECTOR_PROPERTIES",
                                    "GET_CONNECTOR_STATUS",
                                    "GET_CONNECTOR_MODES"}
                   THEN Result("OK")
                   ELSE Stalled("REQUEST_NOT_SUPPORTED")
    /\ UNCHANGED <<stateVars, pixelVars>>

\* a vendor request to another interface than the display's
WrongInterface(in) ==
    /\ last_status' = "INVALID_PARAMETER"
    /\ stalled' = in
    /\ UNCHANGED <<stateVars, pixelVars>>

\* the rectangle lies on the display
Inside(req) ==
    /\ req.width > 0 /\ req.height > 0
    /\ req.x < DISPLAY_WIDTH /\ req.y < DISPLAY_HEIGHT
    /\ req.width <= DISPLAY_WIDTH - req.x
    /\ req.height <= DISPLAY_HEIGHT - req.y

transfer_length(req) ==
    IF req.compression # {} THEN req.compressed_length ELSE req.length

\* what set_buffer returns
BufferStatus(data) ==
    CASE data = Malformed -> "PROTOCOL_ERROR"
      [] \/ ~Inside(data)
         \/ current_format = "none"
         \/ data.length # line_length(current_format, data.width) * data.height
         \/ ~(data.compression \subseteq DISPLAY_COMPRESSION)
         \/ transfer_length(data) = 0
         \/ transfer_length(data) > DISPLAY_MAX_BUFFER_SIZE ->
           "INVALID_PARAMETER"
      [] OTHER -> "OK"

Accepts_WellFormed(data) == data # Malformed
Accepts(data) == BufferStatus(data) = "OK"

set_buffer(data) ==
    /\ Result(BufferStatus(data))
    /\ IF Accepts(data)
       THEN /\ rectangles < MaxRectangles
            /\ pending' = [active |-> TRUE, req |-> data,
                           transfer_length |-> transfer_length(data),
                           received |-> 0]
            /\ rectangles' = rectangles + 1
       ELSE UNCHANGED <<pending, rectangles>>
    /\ UNCHANGED <<stateVars, transfer_buffer, framebuffer,
                   framebuffer_changed, image, completed>>

\* data.rotations are the values the properties after the state ask for
StateStatus(data) ==
    CASE data = Malformed -> "PROTOCOL_ERROR"
      [] \/ data.mode # <<DISPLAY_WIDTH, DISPLAY_HEIGHT>>
         \/ ~is_offered_format(data.format)
         \/ data.connector # 0
         \/ \E val \in data.rotations : val # GUD_ROTATION_0 -> "INVALID_PARAMETER"
      [] OTHER -> "OK"

set_state_check(data) ==
    /\ Result(StateStatus(data))
    /\ checked' = IF StateStatus(data) = "OK" THEN data.format ELSE checked
    /\ UNCHANGED <<current_format, controller_enabled, display_enabled,
                   pixelVars>>

set_state_commit ==
    /\ IF checked = "none"
       THEN Result("PROTOCOL_ERROR") /\ UNCHANGED current_format
       ELSE Result("OK") /\ current_format' = checked
    /\ checked' = "none"
    /\ UNCHANGED <<controller_enabled, display_enabled, pixelVars>>

\* one of the two switches, after a request with the given data
Switch(enabled, data) ==
    IF data = Malformed
    THEN Result("PROTOCOL_ERROR") /\ enabled' = enabled
    ELSE Result("OK") /\ enabled' = data

set_controller_enable(data) ==
    /\ Switch(controller_enabled, data)
    /\ UNCHANGED <<checked, current_format, display_enabled, pixelVars>>

set_display_enable(data) ==
    /\ Switch(display_enabled, data)
    /\ UNCHANGED <<checked, current_format, controller_enabled, pixelVars>>

\* SET_CONNECTOR_FORCE_DETECT does nothing, and neither do unknown requests
set_other(bRequest) ==
    /\ Result(IF bRequest = "SET_CONNECTOR_FORCE_DETECT" THEN "OK"
              ELSE "REQUEST_NOT_SUPPORTED")
    /\ UNCHANGED <<stateVars, pixelVars>>

\* a vendor request, by its direction and its number
control_data ==
    /\ Serving
    /\ \/ \E in \in BOOLEAN : WrongInterface(in)
       \/ \E bRequest \in GetRequest, wValue \in {0, 1} :
              get_request(bRequest, wValue)
       \/ \E data \in BufferRequest \cup {Malformed} : set_buffer(data)
       \/ \E data \in StateRequest \cup {Malformed} : set_state_check(data)
       \/ set_state_commit
       \/ \E data \in BOOLEAN \cup {Malformed} :
              set_controller_enable(data) \/ set_display_enable(data)
       \/ \E bRequest \in {"SET_CONNECTOR_FORCE_DETECT", "unknown"} :
              set_other(bRequest)
    /\ UNCHANGED <<statsVars, mainVars, resets>>

-----------------------------------------------------------------------------
(* Pixels.                                                                 *)

\* the framebuffer after the lines of the rectangle were copied
LinePitch_OfRectangle(rect) == rect.width
LinePitch(rect) == DISPLAY_WIDTH

store_rectangle(rect, pixels) ==
    LET bpp == format_bits_per_pixel(current_format) \div 8
        pitch == LinePitch(rect) * bpp
        rect_pitch == rect.width * bpp
        To(line) == (rect.y + line) * pitch + rect.x * bpp
        Copied(line) == To(line) .. To(line) + rect_pitch - 1
        lines == 0 .. rect.height - 1
    IN IF format_bits_per_pixel(current_format) % 8 # 0 THEN framebuffer
       ELSE [i \in DOMAIN framebuffer |->
                IF \E line \in lines : i \in Copied(line)
                THEN LET line == CHOOSE n \in lines : i \in Copied(n)
                     IN pixels[line * rect_pitch + i - To(line)]
                ELSE framebuffer[i]]

MarkChanged_WhenOn ==
    framebuffer_changed \/ (controller_enabled /\ display_enabled)
MarkChanged ==
    framebuffer_changed \/ format_bits_per_pixel(current_format) % 8 = 0

\* history: what the host means with the rectangle, pixel by pixel
Drawn(rect) ==
    [p \in Pixel |->
        IF /\ p[1] \in rect.x .. rect.x + rect.width - 1
           /\ p[2] \in rect.y .. rect.y + rect.height - 1
        THEN <<rectangles, (p[2] - rect.y) * rect.width + p[1] - rect.x>>
        ELSE image[p]]

Inactive_Kept(p) == p
Inactive(p) == [p EXCEPT !.active = FALSE]

\* pixel data without a matching SET_BUFFER
DropChunk(length) ==
    /\ ~pending.active \/ length > pending.transfer_length - pending.received
    /\ pending' = Inactive(pending)
    /\ UNCHANGED <<transfer_buffer, drawingVars, stats_updates>>

Buffered(length) ==
    [i \in DOMAIN transfer_buffer |->
        IF i \in pending.received .. pending.received + length - 1
        THEN PixelByte(rectangles, i) ELSE transfer_buffer[i]]

\* part of a rectangle, with more to come
KeepChunk(length) ==
    /\ pending.active
    /\ pending.received + length < pending.transfer_length
    /\ transfer_buffer' = Buffered(length)
    /\ pending' = [pending EXCEPT !.received = @ + length]
    /\ UNCHANGED <<drawingVars, stats_updates>>

\* the last part: the rectangle is drawn, or is an error if it is compressed
FinishRectangle(length) ==
    /\ pending.active
    /\ pending.received + length = pending.transfer_length
    /\ transfer_buffer' = Buffered(length)
    /\ pending' = [Inactive(pending) EXCEPT !.received = @ + length]
    /\ IF pending.req.compression # {}
       THEN UNCHANGED <<drawingVars, stats_updates>>
       ELSE /\ framebuffer' = store_rectangle(pending.req, transfer_buffer')
            /\ framebuffer_changed' = MarkChanged
            /\ image' = Drawn(pending.req)
            /\ completed' = completed + 1
            /\ stats_updates' = stats_updates + 1

endpoint_data(length) ==
    /\ Serving
    /\ DropChunk(length) \/ KeepChunk(length) \/ FinishRectangle(length)
    /\ UNCHANGED <<controlVars, rectangles, printed, mainVars, resets>>

-----------------------------------------------------------------------------
(* Attaching and detaching.                                                *)

reset ==
    /\ main # "ended"
    /\ resets < MaxResets
    /\ resets' = resets + 1
    /\ last_status' = "OK"
    /\ checked' = "none"
    /\ current_format' = "none"
    /\ controller_enabled' = FALSE
    /\ display_enabled' = FALSE
    /\ pending' = Inactive(pending)
    /\ framebuffer' = Zeroes
    /\ framebuffer_changed' = TRUE
    /\ image' = Blank
    /\ stalled' = FALSE
    /\ UNCHANGED <<transfer_buffer, rectangles, completed, statsVars,
                   mainVars>>

-----------------------------------------------------------------------------
(* The main loop.                                                          *)

display_on == controller_enabled /\ display_enabled

NothingTaken(frame) ==
    [changed |-> FALSE, on |-> FALSE, format |-> "none", updates |-> 0,
     print |-> FALSE, frame |-> frame]

\* a statistic after the critical section
Left_NotCleared(count, print_stats) == count
Left(count, print_stats) == IF print_stats THEN 0 ELSE count

\* the critical section; print_stats is due once a second
TakeFrame(print_stats) ==
    /\ main = "loop"
    /\ main' = "show"
    /\ local' = [changed |-> framebuffer_changed, on |-> display_on,
                 format |-> current_format, updates |-> stats_updates,
                 print |-> print_stats,
                 frame |-> IF framebuffer_changed THEN framebuffer
                           ELSE local.frame]
    /\ framebuffer_changed' = FALSE
    /\ stats_updates' = Left(stats_updates, print_stats)
    /\ UNCHANGED <<controlVars, pending, transfer_buffer, framebuffer,
                   rectangles, image, completed, printed,
                   shown_on, window, resets>>

gud_display_window_show(pixels, on) ==
    window' = IF on THEN pixels ELSE Black

MustShow == window_open /\ (local.changed \/ local.on # shown_on)

Show ==
    IF MustShow
    THEN /\ gud_display_window_show(
                framebuffer_to_xrgb8888(local.frame, local.format), local.on)
         /\ shown_on' = local.on
    ELSE UNCHANGED <<window, shown_on>>

\* what the loop does with its copies
ShowFrame ==
    /\ main = "show"
    /\ Show
    /\ printed' = printed + (IF local.print THEN local.updates ELSE 0)
    /\ local' = NothingTaken(local.frame)
    /\ main' = "loop"
    /\ UNCHANGED <<controlVars, pixelVars, stats_updates,
                   resets>>

\* the window was closed, or Ctrl-C
Leave ==
    /\ main = "loop"
    /\ main' = "ended"
    /\ UNCHANGED <<controlVars, pixelVars, statsVars, local,
                   shown_on, window, resets>>

-----------------------------------------------------------------------------
(* The specification.                                                      *)

GudInit ==
    /\ last_status = "OK"
    /\ checked = "none"
    /\ current_format = "none"
    /\ controller_enabled = FALSE
    /\ display_enabled = FALSE
    /\ pending = NoPending
    /\ transfer_buffer = [i \in 0 .. DISPLAY_MAX_BUFFER_SIZE - 1 |-> 0]
    /\ framebuffer = Zeroes
    /\ framebuffer_changed = FALSE
    /\ stats_updates = 0
    /\ main = "loop"
    /\ local = NothingTaken(Zeroes)
    /\ shown_on = FALSE
    /\ window = Black
    /\ stalled = FALSE
    /\ rectangles = 0
    /\ resets = 0
    /\ image = Blank
    /\ completed = 0
    /\ printed = 0

MainLoop == ShowFrame \/ \E print_stats \in BOOLEAN : TakeFrame(print_stats)

GudNext ==
    \/ control_data
    \/ \E length \in ChunkLength : endpoint_data(length)
    \/ reset
    \/ MainLoop
    \/ Leave

GudSpec == GudInit /\ [][GudNext]_gudVars

\* the main loop waits for window events, or sleeps, for 20 ms at most
FairGudSpec == GudSpec /\ WF_gudVars(MainLoop)

-----------------------------------------------------------------------------
(* Properties.                                                             *)

Byte == 0 .. 255
MaxColor == 16777215
Color == 0 .. MaxColor

\* Every variable has its type; a shown pixel has 24 bits, so no channel of
\* framebuffer_to_xrgb8888 runs into the next one.
GudTypeOK ==
    /\ last_status \in Status
    /\ stalled \in BOOLEAN
    /\ checked \in display_formats \cup {"none"}
    /\ current_format \in display_formats \cup {"none"}
    /\ controller_enabled \in BOOLEAN /\ display_enabled \in BOOLEAN
    /\ pending \in [active : BOOLEAN, req : SetBufferReq,
                    transfer_length : Nat, received : Nat]
    /\ transfer_buffer \in [0 .. DISPLAY_MAX_BUFFER_SIZE - 1 -> Byte]
    /\ framebuffer \in [0 .. FramebufferSize - 1 -> Byte]
    /\ framebuffer_changed \in BOOLEAN
    /\ stats_updates \in Nat
    /\ main \in {"loop", "show", "ended"}
    /\ local \in [changed : BOOLEAN, on : BOOLEAN,
                  format : display_formats \cup {"none"}, updates : Nat,
                  print : BOOLEAN, frame : [0 .. FramebufferSize - 1 -> Byte]]
    /\ shown_on \in BOOLEAN
    /\ window \in [Pixel -> Color]
    /\ rectangles \in Nat /\ resets \in Nat
    /\ completed \in Nat /\ printed \in Nat

\* What set_buffer checked still holds when the pixels arrive, requests,
\* resets and dropped transfers in between notwithstanding: the rectangle is
\* on the display, its length is that of its lines in the current format,
\* and the rest of its data fits in transfer_buffer.
PendingFits ==
    pending.active =>
        /\ Inside(pending.req)
        /\ current_format \in display_formats
        /\ pending.req.length =
               line_length(current_format, pending.req.width)
                   * pending.req.height
        /\ pending.transfer_length = transfer_length(pending.req)
        /\ pending.received < pending.transfer_length
        /\ pending.transfer_length <= DISPLAY_MAX_BUFFER_SIZE

\* the bytes that make up the image in the current format
ImageBytes ==
    LET bpp == format_bits_per_pixel(current_format) \div 8
    IN [i \in 0 .. FramebufferSize - 1 |->
          LET at == i \div bpp
              drawn == image[at % DISPLAY_WIDTH, at \div DISPLAY_WIDTH]
          IN IF \/ bpp = 0
                \/ i >= DISPLAY_WIDTH * DISPLAY_HEIGHT * bpp
                \/ drawn[1] = 0
             THEN 0
             ELSE PixelByte(drawn[1], drawn[2] * bpp + (i % bpp))]

\* The line by line copies of store_rectangle leave in the framebuffer, at
\* every pixel, what the last rectangle over that pixel had there, and black
\* where nothing was drawn since the host attached.
FramebufferIsImage == framebuffer = ImageBytes

\* what a window with the switch in the given position should look like
Picture(on) ==
    IF on THEN framebuffer_to_xrgb8888(ImageBytes, current_format) ELSE Black

\* No change gets lost between the callbacks and the main loop: when nothing
\* is marked as changed, between two rounds, the window shows the host's
\* image, or nothing if the display is off.
WindowUpToDate ==
    /\ main = "loop" /\ window_open
    /\ ~framebuffer_changed /\ shown_on = display_on
    => window = Picture(shown_on)

\* Every rectangle is reported exactly once by the statistics the main loop
\* reads and clears, whenever it does so.
EveryRectangleCounted ==
    completed = printed + stats_updates
                  + (IF main = "show" /\ local.print THEN local.updates ELSE 0)

\* A display request whose status is not OK, which is what the host reads
\* with GET_STATUS, has changed nothing, and a display request without an
\* answer has such a status.
RefusedChangesNothing ==
    [][/\ last_status' # "OK" =>
             /\ UNCHANGED <<current_format, controller_enabled,
                            display_enabled>>
             /\ checked' # "none" => checked' = checked
             /\ pending'.active => pending.active
             /\ pending'.req = pending.req
             /\ pending'.transfer_length = pending.transfer_length
       /\ stalled' => last_status' # "OK"]_gudVars

\* Once the host draws no more, the window comes to show its image and keeps
\* showing it (or nothing, while the display is off), for as long as the
\* program runs.
ImageIsShown ==
    <>[](window_open /\ main # "ended" => window = Picture(shown_on))

=============================================================================
