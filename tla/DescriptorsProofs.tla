-------------------------- MODULE DescriptorsProofs --------------------------
(***************************************************************************)
(* Proofs about Descriptors: what the loops over the bytes of a table find *)
(* is what the descriptors in it say, for every device whose tables are as *)
(* TablesAssumption says and for every request.                            *)
(*                                                                         *)
(* Each loop has an invariant of its own: it stands at a descriptor, and   *)
(* its result is that of the descriptors before it.                        *)
(***************************************************************************)
EXTENDS Descriptors, TLAPS

\* a place where a descriptor starts, or the end of the table
AtDescriptor(d, i) == i \in d.starts \cup {Len(d.config_desc)}

TypeInv ==
    /\ device \in Device
    /\ DOMAIN endpoints = BOOLEAN
    /\ \A in \in BOOLEAN : DOMAIN endpoints[in] = 0 .. 15
    /\ listed \in Seq(Seq(Byte))
    /\ done \subseteq {"list", "import"}
    /\ walk \in {"none", "load_endpoints", "devlist", "get_string",
                 "other_speed"}
    /\ idx \in Nat

\* load_endpoints has seen the descriptors before idx
ImportLoop ==
    walk = "load_endpoints" =>
        /\ AtDescriptor(device, idx)
        /\ "import" \notin done
        /\ \A in \in BOOLEAN, n \in 0 .. 15 :
              AsDescribedBefore(idx, endpoints[in][n], device, in, n)

\* transmit_devlist_response has sent the interfaces up to idx
ListedUpTo(i, d, s) ==
    /\ Len(s) <= At(d.config_desc, 4)
    /\ \A p \in Settings(d, FALSE) :
          /\ p <= i <=> Number(d, p) < Len(s)
          /\ p <= i =>
                s[Number(d, p) + 1] = SubSeq(d.config_desc, p + 6, p + 8)

ListLoop ==
    walk = "devlist" =>
        /\ AtDescriptor(device, idx)
        /\ "list" \notin done
        /\ ListedUpTo(idx, device, listed)

\* get_string has not found the index in the entries before idx
StringLoop ==
    walk = "get_string" =>
        /\ answer = Asked(USB_DT_STRING, answer.index, answer.length)
        /\ answer.index \in Byte \ {0}
        /\ answer.length \in Nat
        /\ idx < Len(device.usb_strings)
        /\ \A k \in 1 .. idx : device.usb_strings[k].id # answer.index

\* build_other_speed_config has rewritten the endpoints before idx, and
\* nothing else
RewrittenBefore(i, d, b) ==
    /\ DOMAIN b = 1 .. AtMost(Len(d.config_desc), ENDPOINT_MAX_DATA_LENGTH)
    /\ b \in Seq(Byte)
    /\ b[2] = OTHER_SPEED_CONFIGURATION
    /\ \A k \in DOMAIN b :
          \/ b[k] = d.config_desc[k]
          \/ k = 2
          \/ \E p \in Within(d, Len(b)) : p < i /\ k \in p + 5 .. p + 7
    /\ \A p \in Within(d, Len(b)) : p < i => IsFullSpeed(b, d.config_desc, p)

OtherSpeedLoop ==
    walk = "other_speed" =>
        /\ answer = Asked(OTHER_SPEED_CONFIGURATION, 0, answer.length)
        /\ answer.length \in Nat
        /\ usb2(device)
        /\ AtDescriptor(device, idx)
        /\ RewrittenBefore(idx, device, buffer)

DescriptorsInv ==
    /\ TypeInv
    /\ ImportLoop /\ ListLoop /\ StringLoop /\ OtherSpeedLoop
    /\ EndpointsAsDescribed /\ InterfacesListed
    /\ OtherSpeedIsFullSpeed /\ AnswersAsAnnounced

-----------------------------------------------------------------------------
(* The tables.                                                             *)

\* A byte is a number.
LEMMA ByteIsNat == Byte \subseteq Nat
BY SMT DEF Byte

\* A byte of a configuration is one.
LEMMA ConfigBytes ==
    ASSUME NEW d \in Device
    PROVE  /\ Len(d.config_desc) \in Nat
           /\ Len(d.config_desc) >= 9
           /\ \A i \in 0 .. Len(d.config_desc) - 1 :
                 At(d.config_desc, i) \in Byte
BY TablesAssumption DEF TableOK, At

\* The descriptor at i ends where the next one starts, or the table ends.
LEMMA NextDescriptor ==
    ASSUME NEW d \in Device, NEW i \in d.starts
    PROVE  /\ i \in Nat /\ i + 2 <= Len(d.config_desc)
           /\ At(d.config_desc, i) \in Nat
           /\ At(d.config_desc, i) >= 2
           /\ AtDescriptor(d, i + At(d.config_desc, i))
           /\ i + At(d.config_desc, i) <= Len(d.config_desc)
           /\ \A p \in d.starts : p < i + At(d.config_desc, i) <=> p <= i
<1> DEFINE b == d.config_desc
<1>1. TableOK(d)
  BY TablesAssumption
<1>2. i \in 0 .. Len(b) - 2 /\ At(b, i) >= 2
  BY <1>1 DEF TableOK
<1>3. Len(b) \in Nat /\ At(b, i) \in Byte
  BY ConfigBytes, <1>2, SMT
<1>4. At(b, i) \in Nat /\ i \in Nat /\ i + 2 <= Len(b)
  <2>1. At(b, i) \in Nat
    BY <1>3, ByteIsNat, Zenon
  <2>2. i \in Nat
    BY <1>2, SMT
  <2>3. i + 2 <= Len(b)
    BY <1>2, <1>3, SMT
  <2> QED BY <2>1, <2>2, <2>3
<1>5. i + At(b, i) \in d.starts \cup {Len(b)}
  BY <1>1 DEF TableOK
<1>6. i + At(b, i) <= Len(b)
  <2>1. CASE i + At(b, i) \in d.starts
    <3>1. i + At(b, i) \in 0 .. Len(b) - 2
      BY <2>1, <1>1 DEF TableOK
    <3> QED BY <3>1, <1>3, SMT
  <2> QED BY <2>1, <1>3, <1>4, <1>5, SMT
<1>7. ASSUME NEW p \in d.starts
      PROVE  p < i + At(b, i) <=> p <= i
  <2>1. p \in 0 .. Len(b) - 2 /\ (p <= i \/ p >= i + At(b, i))
    BY <1>1 DEF TableOK
  <2> QED BY <2>1, <1>2, <1>3, <1>4, SMT
<1> QED BY <1>2, <1>4, <1>5, <1>6, <1>7, Zenon DEF AtDescriptor

\* A loop stands inside the table or at its end.
LEMMA DescriptorPlace ==
    ASSUME NEW d \in Device, NEW i, AtDescriptor(d, i)
    PROVE  /\ i \in Nat /\ i <= Len(d.config_desc)
           /\ i < Len(d.config_desc) => i \in d.starts
BY NextDescriptor, ConfigBytes, SMT DEF AtDescriptor
-----------------------------------------------------------------------------
(* load_endpoints                                                          *)

\* the descriptors of an endpoint are descriptors of the table
LEMMA DescribedStarts ==
    ASSUME NEW d, NEW in, NEW n
    PROVE  Pacing(d, in, n) \subseteq Described(d, in, n)
           /\ Described(d, in, n) \subseteq d.starts
BY DEF Pacing, Described, OfType

\* whether the descriptor at i is about an endpoint
About(d, i, in, n) ==
    /\ At(d.config_desc, i + 1) = USB_DT_ENDPOINT
    /\ (At(d.config_desc, i + 2) >= 128) = in
    /\ At(d.config_desc, i + 2) % 16 = n

\* One step of load_endpoints takes in the descriptor at i.
LEMMA LoadStep ==
    ASSUME NEW d \in Device, NEW i \in d.starts, NEW e,
           NEW in \in BOOLEAN, NEW n \in 0 .. 15,
           AsDescribedBefore(i, e, d, in, n)
    PROVE  AsDescribedBefore(i + At(d.config_desc, i),
                             IF About(d, i, in, n)
                             THEN Loaded(e, d.config_desc, i, in) ELSE e,
                             d, in, n)
<1> DEFINE b == d.config_desc
           next == i + At(b, i)
           D(j) == {p \in Described(d, in, n) : p < j}
           P(j) == {p \in Pacing(d, in, n) : p < j}
           f == IF About(d, i, in, n) THEN Loaded(e, b, i, in) ELSE e
           us(p) == 125 * 2^(AtMost(At(b, p + 6), 16) - 1)
<1>1. /\ D(i) = {} => e.type = 0
      /\ P(i) = {} => e.interval_us = 0
      /\ \A p \in d.starts :
            /\ IsLast(D(i), p) => e.type = At(b, p + 3) % 4
            /\ IsLast(P(i), p) => e.interval_us = us(p)
  BY DEF AsDescribedBefore
<1>2. i \in Nat /\ \A p \in d.starts : p \in Nat
  BY NextDescriptor
<1>3. /\ i \in Described(d, in, n) <=> About(d, i, in, n)
      /\ i \in Pacing(d, in, n) <=>
            /\ About(d, i, in, n)
            /\ At(b, i + 3) % 4 \in IF in THEN {ISOC, INT} ELSE {ISOC}
            /\ At(b, i + 6) > 0
  BY Zenon DEF Described, Pacing, OfType, About
<1>4. /\ D(next) = IF i \in Described(d, in, n) THEN D(i) \cup {i} ELSE D(i)
      /\ P(next) = IF i \in Pacing(d, in, n) THEN P(i) \cup {i} ELSE P(i)
  <2>1. \A p \in d.starts : p < next <=> (p < i \/ p = i)
    BY NextDescriptor, <1>2, SMT
  <2> QED BY <2>1, <1>2, DescribedStarts, SMT
<1>5. /\ \A p \in D(i) : p < i /\ p \in Nat
      /\ \A p \in P(i) : p < i /\ p \in Nat
  BY <1>2, DescribedStarts
<1>6. /\ i \in Described(d, in, n) => \A p : IsLast(D(next), p) => p = i
      /\ i \in Pacing(d, in, n) => \A p : IsLast(P(next), p) => p = i
  BY <1>4, <1>5, <1>2, SMT DEF IsLast
<1>7. /\ D(next) = {} => f.type = 0
      /\ \A p \in d.starts : IsLast(D(next), p) => f.type = At(b, p + 3) % 4
  <2>1. CASE About(d, i, in, n)
    <3>1. f.type = At(b, i + 3) % 4
      BY <2>1, Zenon DEF Loaded
    <3>2. i \in D(next)
      BY <2>1, <1>3, <1>4, Zenon
    <3> QED BY <3>1, <3>2, <2>1, <1>3, <1>6, Zenon
  <2>2. CASE ~ About(d, i, in, n)
    BY <2>2, <1>1, <1>3, <1>4, Zenon
  <2> QED BY <2>1, <2>2
<1>8. /\ P(next) = {} => f.interval_us = 0
      /\ \A p \in d.starts : IsLast(P(next), p) => f.interval_us = us(p)
  <2>1. CASE i \in Pacing(d, in, n)
    <3>1. f.interval_us = us(i)
      BY <2>1, <1>3, Zenon DEF Loaded, interval_us
    <3>2. i \in P(next)
      BY <2>1, <1>4, Zenon
    <3> QED BY <3>1, <3>2, <2>1, <1>6, Zenon
  <2>2. CASE i \notin Pacing(d, in, n)
    <3>1. f.interval_us = e.interval_us
      BY <2>2, <1>3, Zenon DEF Loaded
    <3> QED BY <3>1, <2>2, <1>1, <1>4, Zenon
  <2> QED BY <2>1, <2>2
<1> QED BY <1>7, <1>8, Zenon DEF AsDescribedBefore

\* When the loop ends there are no endpoints left.
LEMMA LoadEnd ==
    ASSUME NEW d \in Device, NEW i, AtDescriptor(d, i),
           ~ (i + USB_DT_ENDPOINT_SIZE <= Len(d.config_desc)
              /\ At(d.config_desc, i) > 0),
           NEW e, NEW in \in BOOLEAN, NEW n \in 0 .. 15,
           AsDescribedBefore(i, e, d, in, n)
    PROVE  AsDescribedBefore(Len(d.config_desc), e, d, in, n)
<1> DEFINE b == d.config_desc
<1>1. i \in Nat /\ i + USB_DT_ENDPOINT_SIZE > Len(b)
  BY DescriptorPlace, NextDescriptor, ConfigBytes, SMT
     DEF USB_DT_ENDPOINT_SIZE, AtDescriptor
<1>2. \A p \in OfType(d, USB_DT_ENDPOINT) :
         /\ p \in Nat /\ p < Len(b)
         /\ p + USB_DT_ENDPOINT_SIZE <= Len(b)
  <2>1. SUFFICES ASSUME NEW p \in OfType(d, USB_DT_ENDPOINT)
                 PROVE  /\ p \in Nat /\ p < Len(b)
                        /\ p + USB_DT_ENDPOINT_SIZE <= Len(b)
    OBVIOUS
  <2>2. p \in d.starts /\ At(b, p) >= USB_DT_ENDPOINT_SIZE
    BY TablesAssumption DEF TableOK, OfType
  <2> QED BY <2>2, NextDescriptor, ConfigBytes, SMT DEF USB_DT_ENDPOINT_SIZE
<1>3. \A p \in OfType(d, USB_DT_ENDPOINT) : p < i /\ p < Len(b)
  BY <1>1, <1>2, ConfigBytes, SMT DEF USB_DT_ENDPOINT_SIZE
<1>4. /\ {p \in Described(d, in, n) : p < i}
           = {p \in Described(d, in, n) : p < Len(b)}
      /\ {p \in Pacing(d, in, n) : p < i}
           = {p \in Pacing(d, in, n) : p < Len(b)}
  BY <1>3, Zenon DEF Described, Pacing
<1> QED BY <1>4, Zenon DEF AsDescribedBefore
-----------------------------------------------------------------------------
(* transmit_devlist_response                                               *)

\* bNumInterfaces is a number.
LEMMA NumInterfaces ==
    ASSUME NEW d \in Device
    PROVE  At(d.config_desc, 4) \in Nat
<1>1. 4 \in 0 .. Len(d.config_desc) - 1
  BY ConfigBytes, SMT
<1> QED BY <1>1, ConfigBytes, ByteIsNat, Zenon

\* A setting of an interface is a descriptor behind the header, as long as an
\* interface descriptor is; its number is a byte.
LEMMA SettingPlace ==
    ASSUME NEW d \in Device, NEW p \in OfType(d, USB_DT_INTERFACE)
    PROVE  /\ p \in d.starts /\ p \in Nat /\ p > 0
           /\ p + 9 <= Len(d.config_desc)
           /\ Number(d, p) \in Nat
<1> DEFINE b == d.config_desc
<1>1. p \in d.starts /\ At(b, p + 1) = USB_DT_INTERFACE /\ At(b, p) >= 9
  BY TablesAssumption DEF TableOK, OfType
<1>2. p \in Nat /\ p + At(b, p) <= Len(b) /\ At(b, p) \in Nat
  BY <1>1, NextDescriptor
<1>3. p # 0
  <2>1. At(b, 1) = USB_DT_CONFIGURATION
    BY TablesAssumption DEF TableOK
  <2>2. p = 0 => At(b, p + 1) = At(b, 1)
    BY SMT
  <2> QED BY <1>1, <2>1, <2>2 DEF USB_DT_INTERFACE, USB_DT_CONFIGURATION
<1>4. p + 9 <= Len(b) /\ p + 2 \in 0 .. Len(b) - 1
  BY <1>1, <1>2, ConfigBytes, SMT
<1>5. Number(d, p) \in Nat
  BY <1>4, ConfigBytes, ByteIsNat, Zenon DEF Number
<1> QED BY <1>1, <1>2, <1>3, <1>4, <1>5, SMT

\* As long as an interface is missing the loop is before it: the next
\* descriptor is in the table, and if it is an interface's it is the one.
LEMMA ListStep ==
    ASSUME NEW d \in Device, NEW i, AtDescriptor(d, i),
           NEW s \in Seq(Seq(Byte)), Len(s) < At(d.config_desc, 4),
           ListedUpTo(i, d, s)
    PROVE  /\ i \in d.starts
           /\ i + At(d.config_desc, i) \in d.starts
           /\ \A p \in Settings(d, FALSE) :
                 /\ p <= i + At(d.config_desc, i) <=>
                      (p <= i \/ p = i + At(d.config_desc, i))
                 /\ p = i + At(d.config_desc, i) => Number(d, p) = Len(s)
                 /\ /\ i + At(d.config_desc, i) \in Settings(d, FALSE)
                    /\ Number(d, p) = Len(s)
                    => p = i + At(d.config_desc, i)
           /\ i + At(d.config_desc, i) \in OfType(d, USB_DT_INTERFACE) =>
                 i + At(d.config_desc, i) \in Settings(d, FALSE)
<1> DEFINE b == d.config_desc
           next == i + At(b, i)
<1>1. InterfacesOK(d) /\ TableOK(d)
  BY TablesAssumption
<1>2. Len(s) \in Nat /\ At(b, 4) \in Nat
  BY NumInterfaces
<1>3. PICK q \in Settings(d, FALSE) : Number(d, q) = Len(s)
  <2>1. Len(s) \in 0 .. At(b, 4) - 1
    BY <1>2, SMT
  <2> QED BY <1>1, <2>1, Zenon DEF InterfacesOK
<1>4. \A p \in Settings(d, FALSE) \cup Settings(d, TRUE) :
         p \in OfType(d, USB_DT_INTERFACE)
  BY Zenon DEF Settings
<1>5. \A p \in Settings(d, FALSE) \cup Settings(d, TRUE) :
         /\ p \in d.starts /\ p \in Nat /\ p > 0 /\ p + 9 <= Len(b)
         /\ Number(d, p) \in Nat
  BY <1>4, SettingPlace, Zenon
<1>6. /\ i \in Nat /\ i <= Len(b) /\ Len(b) \in Nat
      /\ q \in d.starts /\ q \in Nat /\ q + 9 <= Len(b)
  BY <1>5, DescriptorPlace, ConfigBytes, Zenon
<1>7. ~ (q <= i)
  <2>1. q <= i <=> Number(d, q) < Len(s)
    BY Zenon DEF ListedUpTo
  <2> QED BY <2>1, <1>2, <1>3, SMT
<1>8. i \in d.starts
  <2>1. i < Len(b)
    BY <1>6, <1>7, SMT
  <2> QED BY <2>1, DescriptorPlace
<1>9. At(b, i) \in Nat /\ At(b, i) >= 2 /\ AtDescriptor(d, next)
      /\ \A p \in d.starts : p < next <=> p <= i
  BY <1>8, NextDescriptor
<1>10. next \in Nat /\ next <= q
  <2>1. q < next <=> q <= i
    BY <1>6, <1>9
  <2> QED BY <2>1, <1>6, <1>7, <1>9, SMT
<1>11. next \in d.starts
  <2>1. next < Len(b)
    BY <1>6, <1>10, SMT
  <2> QED BY <2>1, <1>9, DescriptorPlace
<1>12. ASSUME NEW p \in Settings(d, FALSE)
       PROVE  /\ p <= next <=> (p <= i \/ p = next)
              /\ p = next => Number(d, p) = Len(s)
              /\ next \in Settings(d, FALSE) /\ Number(d, p) = Len(s)
                 => p = next
  <2>1. p \in d.starts /\ p \in Nat /\ Number(d, p) \in Nat
    BY <1>5, Zenon
  <2>2. p <= next <=> (p <= i \/ p = next)
    BY <2>1, <1>6, <1>9, <1>10, SMT
  <2>3. ASSUME p = next PROVE p = q
    <3>1. ASSUME p < q PROVE FALSE
      <4>1. Number(d, p) < Number(d, q)
        BY <3>1, <1>1, Zenon DEF InterfacesOK
      <4>2. p <= i
        BY <4>1, <1>3, Zenon DEF ListedUpTo
      <4> QED BY <4>2, <2>3, <1>6, <1>9, SMT
    <3> QED BY <3>1, <2>1, <2>3, <1>6, <1>10, SMT
  <2>4. ASSUME next \in Settings(d, FALSE), Number(d, p) = Len(s), p # next
        PROVE  FALSE
    <3>1. ~ (p <= i)
      <4>1. p <= i <=> Number(d, p) < Len(s)
        BY Zenon DEF ListedUpTo
      <4> QED BY <4>1, <2>4, <1>2, SMT
    <3>2. ~ (p < next)
      BY <2>1, <1>9, <3>1
    <3>3. next < p
      BY <3>2, <2>1, <2>4, <1>10, SMT
    <3>4. Number(d, next) < Len(s)
      BY <3>3, <2>4, <1>1, Zenon DEF InterfacesOK
    <3>5. next <= i
      BY <3>4, <2>4, Zenon DEF ListedUpTo
    <3> QED BY <3>5, <1>6, <1>9, SMT
  <2> QED BY <2>2, <2>3, <2>4, <1>3, Zenon
<1>13. ASSUME next \in OfType(d, USB_DT_INTERFACE)
       PROVE  next \in Settings(d, FALSE)
  <2>1. ASSUME next \in Settings(d, TRUE) PROVE FALSE
    <3>1. q < next
      BY <2>1, <1>1, Zenon DEF InterfacesOK
    <3> QED BY <3>1, <1>6, <1>10, SMT
  <2> QED BY <2>1, <1>13, Zenon DEF Settings
<1> QED BY <1>8, <1>11, <1>12, <1>13, Zenon

\* What appending an element to a sequence does.
LEMMA AppendIs ==
    ASSUME NEW S, NEW s \in Seq(S), NEW x \in S
    PROVE  /\ Append(s, x) \in Seq(S)
           /\ Len(Append(s, x)) = Len(s) + 1
           /\ Append(s, x)[Len(s) + 1] = x
           /\ \A k \in 1 .. Len(s) : Append(s, x)[k] = s[k]
BY SMT

\* A part of a table of bytes is one.
LEMMA PartOfTable ==
    ASSUME NEW b \in Seq(Byte), NEW i \in 1 .. Len(b), NEW j \in i .. Len(b)
    PROVE  SubSeq(b, i, j) \in Seq(Byte)
BY SMT

\* The step of the loop: the interface found is appended, and everything else
\* is passed over.
LEMMA ListStepListed ==
    ASSUME NEW d \in Device, NEW i, AtDescriptor(d, i),
           NEW s \in Seq(Seq(Byte)), Len(s) < At(d.config_desc, 4),
           ListedUpTo(i, d, s), NEW next, next = i + At(d.config_desc, i)
    PROVE  IF next \in OfType(d, USB_DT_INTERFACE)
           THEN LET t == Append(s, SubSeq(d.config_desc, next + 6, next + 8))
                IN t \in Seq(Seq(Byte)) /\ ListedUpTo(next, d, t)
           ELSE ListedUpTo(next, d, s)
<1> DEFINE b == d.config_desc
           x == SubSeq(b, next + 6, next + 8)
<1>1. \A p \in Settings(d, FALSE) :
         /\ p <= next <=> (p <= i \/ p = next)
         /\ p = next => Number(d, p) = Len(s)
         /\ next \in Settings(d, FALSE) /\ Number(d, p) = Len(s)
            => p = next
  BY ListStep, Zenon
<1>2. \A p \in Settings(d, FALSE) :
         /\ p <= i <=> Number(d, p) < Len(s)
         /\ p <= i => s[Number(d, p) + 1] = SubSeq(b, p + 6, p + 8)
  BY Zenon DEF ListedUpTo
<1>3. \A p \in Settings(d, FALSE) : Number(d, p) \in Nat
  BY SettingPlace, Zenon DEF Settings
<1>4. Len(s) \in Nat /\ At(b, 4) \in Nat
  BY NumInterfaces
<1>5. CASE next \in OfType(d, USB_DT_INTERFACE)
  <2>1. next \in Settings(d, FALSE)
    BY <1>5, ListStep, Zenon
  <2> DEFINE t == Append(s, x)
  <2>2. /\ t \in Seq(Seq(Byte))
        /\ Len(t) = Len(s) + 1
        /\ t[Len(s) + 1] = x
        /\ \A k \in 1 .. Len(s) : t[k] = s[k]
    <3>1. b \in Seq(Byte)
      BY TablesAssumption DEF TableOK
    <3>2. next \in Nat /\ next + 9 <= Len(b)
      BY <1>5, SettingPlace
    <3>3. next + 6 \in 1 .. Len(b) /\ next + 8 \in next + 6 .. Len(b)
      BY <3>2, ConfigBytes, SMT
    <3>4. x \in Seq(Byte)
      BY <3>1, <3>3, PartOfTable, Zenon
    <3> HIDE DEF x
    <3> QED BY <3>4, AppendIs
  <2> HIDE DEF t
  <2>3. ASSUME NEW p \in Settings(d, FALSE)
        PROVE  /\ p <= next <=> Number(d, p) < Len(t)
               /\ p <= next => t[Number(d, p) + 1] = SubSeq(b, p + 6, p + 8)
    <3>1. Number(d, p) \in Nat
      BY <1>3, Zenon
    <3>2. CASE p = next
      <4>1. Number(d, p) = Len(s)
        BY <3>2, <1>1, Zenon
      <4>2. Number(d, p) < Len(t) /\ p <= next
        BY <4>1, <3>2, <2>1, <2>2, <1>4, <1>1, SMTT(30)
      <4>3. t[Number(d, p) + 1] = SubSeq(b, p + 6, p + 8)
        BY <4>1, <3>2, <2>2, Zenon
      <4> QED BY <4>2, <4>3
    <3>3. CASE p # next
      <4>1. Number(d, p) # Len(s)
        BY <3>3, <2>1, <1>1, Zenon
      <4>2. p <= next <=> Number(d, p) < Len(s)
        BY <3>3, <1>1, <1>2, Zenon
      <4>3. Number(d, p) < Len(s) <=> Number(d, p) < Len(t)
        BY <4>1, <3>1, <2>2, <1>4, SMT
      <4>4. p <= next => Number(d, p) + 1 \in 1 .. Len(s)
        BY <4>2, <3>1, <1>4, SMT
      <4>5. p <= next => t[Number(d, p) + 1] = s[Number(d, p) + 1]
        BY <4>4, <2>2, Zenon
      <4> QED BY <4>2, <4>3, <4>5, <3>3, <1>1, <1>2, Zenon
    <3> QED BY <3>2, <3>3
  <2>4. Len(t) <= At(b, 4)
    BY <2>2, <1>4, SMT
  <2>5. ListedUpTo(next, d, t)
    BY <2>3, <2>4, Zenon DEF ListedUpTo
  <2> QED BY <2>2, <2>5, <1>5, Zenon DEF t
<1>6. CASE next \notin OfType(d, USB_DT_INTERFACE)
  <2>1. next \notin Settings(d, FALSE)
    BY <1>6, Zenon DEF Settings
  <2> QED BY <2>1, <1>1, <1>2, <1>6, Zenon DEF ListedUpTo
<1> QED BY <1>5, <1>6

\* The loop starts before the first interface.
LEMMA ListStart ==
    ASSUME NEW d \in Device
    PROVE  AtDescriptor(d, 0) /\ ListedUpTo(0, d, <<>>)
<1>1. AtDescriptor(d, 0)
  BY TablesAssumption DEF TableOK, AtDescriptor
<1>2. \A p \in Settings(d, FALSE) : p \in Nat /\ p > 0 /\ Number(d, p) \in Nat
  BY SettingPlace, Zenon DEF Settings
<1>3. Len(<<>>) = 0
  BY SMT
<1>4. ASSUME NEW p \in Settings(d, FALSE)
      PROVE  ~ (p <= 0) /\ ~ (Number(d, p) < 0)
  <2>1. p \in Nat /\ p > 0 /\ Number(d, p) \in Nat
    BY <1>2, Zenon
  <2> QED BY <2>1, SMT
<1>5. 0 <= At(d.config_desc, 4)
  BY NumInterfaces, SMT
<1> QED BY <1>1, <1>3, <1>4, <1>5, Zenon DEF ListedUpTo

\* When all interfaces are sent every one is in the list.
LEMMA ListEnd ==
    ASSUME NEW d \in Device, NEW i, NEW s, ListedUpTo(i, d, s),
           Len(s) = At(d.config_desc, 4)
    PROVE  \A p \in Settings(d, FALSE) :
              s[Number(d, p) + 1] = SubSeq(d.config_desc, p + 6, p + 8)
<1>1. \A p \in Settings(d, FALSE) : Number(d, p) < Len(s)
  BY TablesAssumption, Zenon DEF InterfacesOK
<1> QED BY <1>1, Zenon DEF ListedUpTo
-----------------------------------------------------------------------------
(* The answers.                                                            *)

\* how much of a table of a given length is sent
Sent(length, own_length) ==
    AtMost(length, AtMost(own_length, ENDPOINT_MAX_DATA_LENGTH))

\* What is sent is no more than asked for, than there is, and than fits.
LEMMA SentBounds ==
    ASSUME NEW length \in Nat, NEW own_length \in Nat
    PROVE  /\ Sent(length, own_length) \in 0 .. own_length
           /\ own_length >= 2 /\ length > 0 =>
                 1 \in 1 .. Sent(length, own_length)
           /\ own_length >= 2 /\ length > 1 =>
                 2 \in 1 .. Sent(length, own_length)
           /\ length >= own_length =>
                 Sent(length, own_length)
                    = AtMost(own_length, ENDPOINT_MAX_DATA_LENGTH)
BY RequestAssumption, SMT DEF Sent, AtMost

\* An element of a sequence over a set is in the set.
LEMMA ElementOfSeq ==
    ASSUME NEW S, NEW s \in Seq(S), NEW i \in 1 .. Len(s)
    PROVE  s[i] \in S
BY SMT

\* The head of the head of a sequence is its head.
LEMMA HeadOfHead ==
    ASSUME NEW S, NEW s \in Seq(S), NEW m \in 0 .. Len(s), NEW k \in 0 .. m
    PROVE  /\ SubSeq(s, 1, m) \in Seq(S) /\ Len(SubSeq(s, 1, m)) = m
           /\ \A i \in 1 .. m : SubSeq(s, 1, m)[i] = s[i]
           /\ SubSeq(SubSeq(s, 1, m), 1, k) = SubSeq(s, 1, k)
BY SMT

\* r answers a request with the head of a table
IsReply(r, type, index, length, bytes) ==
    /\ r.type = type /\ r.index = index /\ r.length = length
    /\ r.answered = TRUE
    /\ length > 0 /\ bytes # <<>> => Len(r.bytes) > 0
    /\ Len(r.bytes) = Sent(length, Len(bytes))
    /\ \A i \in 1 .. Sent(length, Len(bytes)) : r.bytes[i] = bytes[i]
    /\ r.bytes = SubSeq(bytes, 1, Len(r.bytes))

\* A reply from a table that is as long as it says is its head.
LEMMA ReplyIs ==
    ASSUME NEW S, NEW bytes \in Seq(S), NEW length \in Nat, NEW type, NEW index
    PROVE  IsReply(Reply(Asked(type, index, length), bytes, Len(bytes)),
                   type, index, length, bytes)
<1> DEFINE a == Asked(type, index, length)
           k == AtMost(length, Len(bytes))
           c == SubSeq(bytes, 1, k)
           l == AtMost(Len(c), ENDPOINT_MAX_DATA_LENGTH)
           m == Sent(length, Len(bytes))
           r == Reply(a, bytes, Len(bytes))
<1>1. Len(bytes) \in Nat
  OBVIOUS
<1>2. k \in 0 .. Len(bytes)
  BY <1>1, SMT DEF AtMost
<1>3. Len(c) = k
  BY <1>2, HeadOfHead
<1>4. l = m /\ m \in 0 .. k /\ m \in 0 .. Len(bytes)
  <2>1. AtMost(k, ENDPOINT_MAX_DATA_LENGTH) = m
    BY <1>1, RequestAssumption, SMT DEF AtMost, Sent
  <2>2. m \in 0 .. k
    BY <1>1, RequestAssumption, SMT DEF AtMost, Sent
  <2> QED BY <2>1, <2>2, <1>1, <1>3, SentBounds, Zenon
<1>5. SubSeq(c, 1, m) = SubSeq(bytes, 1, m)
  BY <1>2, <1>4, HeadOfHead
<1>6. a.length = length
  BY DEF Asked
<1>7. r = [a EXCEPT !.answered = TRUE, !.bytes = SubSeq(c, 1, l)]
  BY <1>6 DEF Reply, Transmit
<1>8. /\ r.type = type /\ r.index = index /\ r.length = length
      /\ r.answered = TRUE /\ r.bytes = SubSeq(c, 1, l)
  BY <1>7, Zenon DEF Asked
<1>9. r.bytes = SubSeq(bytes, 1, m)
  BY <1>4, <1>5, <1>8, Zenon
<1>10. Len(r.bytes) = m /\ \A i \in 1 .. m : r.bytes[i] = bytes[i]
  BY <1>4, <1>9, HeadOfHead
<1>11. length > 0 /\ bytes # <<>> => m > 0
  <2>1. bytes # <<>> => Len(bytes) > 0
    BY SMT
  <2> QED BY <2>1, <1>1, RequestAssumption, SMT DEF AtMost, Sent
<1> QED BY <1>8, <1>9, <1>10, <1>11, Zenon DEF IsReply

\* A reply is about the type asked for.
LEMMA ReplyType ==
    ASSUME NEW type, NEW index, NEW length, NEW bytes, NEW n
    PROVE  /\ Asked(type, index, length).type = type
           /\ Reply(Asked(type, index, length), bytes, n).type = type
BY DEF Asked, Reply, Transmit

\* what is asked of an answer, given or not
AnswerOK(d, a) ==
    /\ a.answered <=> Has(d, a)
    /\ a.answered => RightAnswer(d, a)

\* The descriptors that are tables of the device.
LEMMA TableAnswers ==
    ASSUME NEW d \in Device, NEW index \in Byte, NEW length \in Nat,
           NEW type \in {USB_DT_DEVICE, USB_DT_CONFIGURATION, USB_DT_STRING},
           type = USB_DT_STRING => index = 0
    PROVE  AnswerOK(d, device_request(d, Asked(type, index, length)))
<1> DEFINE a == Asked(type, index, length)
           table == CASE type = USB_DT_DEVICE -> d.device_desc
                      [] type = USB_DT_CONFIGURATION -> d.config_desc
                      [] OTHER -> d.langid_desc
           r == Reply(a, table, Len(table))
<1> USE DEF USB_DT_DEVICE, USB_DT_CONFIGURATION, USB_DT_STRING,
            DEVICE_QUALIFIER, OTHER_SPEED_CONFIGURATION, USB_DT_REPORT
<1>1. a.type = type /\ a.index = index /\ a.length = length
  BY DEF Asked
<1>2. /\ table \in Seq(Byte) /\ Len(table) >= 2 /\ table[2] = type
      /\ type # USB_DT_CONFIGURATION => table[1] = Len(table)
      /\ device_request(d, a) = r
      /\ type = USB_DT_CONFIGURATION =>
            total_length(d.config_desc) = Len(table)
  <2>1. CASE type = USB_DT_DEVICE
    <3>1. /\ d.device_desc \in Seq(Byte) /\ Len(d.device_desc) = 18
          /\ d.device_desc[1] = 18 /\ d.device_desc[2] = USB_DT_DEVICE
      BY TablesAssumption
    <3>2. table = d.device_desc
      BY <2>1
    <3>3. device_request(d, a) = Reply(a, d.device_desc, d.device_desc[1])
      BY <2>1, <1>1 DEF device_request
    <3>4. d.device_desc[1] = Len(d.device_desc) /\ Len(d.device_desc) >= 2
      BY <3>1, SMT
    <3> HIDE DEF table
    <3>5. device_request(d, a) = r
      BY <3>2, <3>3, <3>4, Zenon
    <3>6. /\ table \in Seq(Byte) /\ Len(table) >= 2 /\ table[2] = type
          /\ table[1] = Len(table)
      BY <2>1, <3>1, <3>2, <3>4, Zenon
    <3>7. type # USB_DT_CONFIGURATION
      BY <2>1, SMT
    <3> QED BY <3>5, <3>6, <3>7, Zenon
  <2>2. CASE type = USB_DT_CONFIGURATION
    <3>1. /\ d.config_desc \in Seq(Byte) /\ Len(d.config_desc) >= 9
          /\ total_length(d.config_desc) = Len(d.config_desc)
          /\ At(d.config_desc, 1) = USB_DT_CONFIGURATION
      BY TablesAssumption DEF TableOK
    <3> QED BY <2>2, <3>1, <1>1 DEF device_request, At
  <2>3. CASE type = USB_DT_STRING
    BY <2>3, <1>1, TablesAssumption DEF device_request
  <2> QED BY <2>1, <2>2, <2>3
<1> HIDE DEF table
<1> DEFINE m == Sent(length, Len(table))
<1>3. /\ r.type = type /\ r.index = index /\ r.length = length
      /\ r.answered = TRUE
      /\ length > 0 => Len(r.bytes) > 0
      /\ Len(r.bytes) = m
      /\ \A i \in 1 .. m : r.bytes[i] = table[i]
      /\ r.bytes = SubSeq(table, 1, Len(r.bytes))
  <2>1. IsReply(r, type, index, length, table)
    BY <1>2, ReplyIs
  <2>2. table # <<>>
    BY <1>2, SMT
  <2> HIDE DEF r
  <2> QED BY <2>1, <2>2, Zenon DEF IsReply, m
<1>4. Len(table) \in Nat
  BY <1>2
<1>5. /\ length > 0 => 1 \in 1 .. m
      /\ length > 1 => 2 \in 1 .. m
  BY <1>2, <1>4, SentBounds, Zenon
<1> HIDE DEF r, m
<1>6. Has(d, r)
  BY <1>3 DEF Has
<1>7. \A t \in Original(d, r) : t = table
  BY <1>3 DEF Original, table
<1>8. length > 0 => \A l \in Announced(d, r) : l = Len(table)
  <2>1. CASE type = USB_DT_CONFIGURATION
    BY <2>1, <1>2, <1>3 DEF Announced
  <2>2. CASE type # USB_DT_CONFIGURATION
    <3>1. Announced(d, r) = {r.bytes[1]}
      BY <2>2, <1>3 DEF Announced
    <3>2. length > 0 => r.bytes[1] = Len(table)
      BY <2>2, <1>2, <1>3, <1>5, Zenon
    <3> QED BY <3>1, <3>2
  <2> QED BY <2>1, <2>2
<1>9. length > 1 => r.bytes[2] = type
  BY <1>2, <1>3, <1>5
<1>10. RightAnswer(d, r)
  BY <1>3, <1>7, <1>8, <1>9 DEF RightAnswer, m, Sent
<1> QED BY <1>2, <1>3, <1>6, <1>10 DEF AnswerOK

\* A descriptor the device does not have is not answered.
LEMMA NotAnswered ==
    ASSUME NEW d, NEW type, NEW index, NEW length,
           ~ Has(d, Asked(type, index, length))
    PROVE  AnswerOK(d, Asked(type, index, length))
BY DEF AnswerOK, Asked

\* The qualifier, for a device that has one.
LEMMA QualifierAnswer ==
    ASSUME NEW d \in Device, NEW index, NEW length \in Nat, usb2(d)
    PROVE  AnswerOK(d, device_request(d,
                                      Asked(DEVICE_QUALIFIER, index, length)))
<1> DEFINE a == Asked(DEVICE_QUALIFIER, index, length)
           c == d.device_desc
           table == qualifier_desc(c)
           r == Reply(a, table, Len(table))
           m == Sent(length, Len(table))
<1> USE DEF USB_DT_DEVICE, USB_DT_CONFIGURATION, USB_DT_STRING,
            DEVICE_QUALIFIER, OTHER_SPEED_CONFIGURATION, USB_DT_REPORT
<1>1. c \in Seq(Byte) /\ Len(c) = 18
  BY TablesAssumption
<1>2. /\ table \in Seq(Byte) /\ Len(table) = 10
      /\ table[1] = 10 /\ table[2] = DEVICE_QUALIFIER
      /\ \A i \in 3 .. 8 : table[i] = c[i]
  <2>1. \A i \in 1 .. 18 : c[i] \in Byte
    BY <1>1
  <2>2. 10 \in Byte /\ 6 \in Byte /\ 0 \in Byte
    BY SMT DEF Byte
  <2>3. table \in Seq(Byte) /\ Len(table) = 10
    BY <2>1, <2>2, SMT DEF qualifier_desc
  <2>4. table[1] = 10 /\ table[2] = DEVICE_QUALIFIER
    BY SMT DEF qualifier_desc
  <2>5. \A i \in 3 .. 8 : table[i] = c[i]
    BY SMT DEF qualifier_desc
  <2> QED BY <2>3, <2>4, <2>5
<1>3. device_request(d, a) = r
  <2>1. a.type = DEVICE_QUALIFIER
    BY DEF Asked
  <2>2. device_request(d, a) = Reply(a, table, 10)
    BY <2>1 DEF device_request
  <2> QED BY <2>2, <1>2
<1> HIDE DEF table
<1>4. IsReply(r, DEVICE_QUALIFIER, index, length, table)
  BY <1>2, ReplyIs, Zenon
<1>5. /\ m \in 0 .. 10
      /\ length > 0 => 1 \in 1 .. m
      /\ length > 1 => 2 \in 1 .. m
  <2>1. Len(table) \in Nat /\ Len(table) >= 2
    BY <1>2, SMT
  <2>2. m \in 0 .. Len(table)
    BY <2>1, SentBounds, Zenon
  <2> QED BY <2>1, <2>2, <1>2, SentBounds, Zenon
<1> HIDE DEF r, m
<1>6. /\ r.type = DEVICE_QUALIFIER /\ r.length = length /\ r.answered = TRUE
      /\ length > 0 => Len(r.bytes) > 0
      /\ Len(r.bytes) = m
      /\ \A i \in 1 .. m : r.bytes[i] = table[i]
  <2>1. table # <<>>
    <3>1. Len(table) = 10
      BY <1>2
    <3>2. Len(<<>>) = 0
      BY SMT
    <3> QED BY <3>1, <3>2, SMT
  <2> QED BY <2>1, <1>4, Zenon DEF IsReply, m
<1>7. Has(d, r) /\ Original(d, r) = {} /\ Announced(d, r) = {r.bytes[1]}
  BY <1>6 DEF Has, Original, Announced
<1>8. length > 0 => Len(r.bytes) = Sent(length, r.bytes[1])
  BY <1>2, <1>5, <1>6 DEF m
<1>9. length > 1 => r.bytes[2] = DEVICE_QUALIFIER
  BY <1>2, <1>5, <1>6
<1>10. \A i \in 3 .. AtMost(8, Len(r.bytes)) : r.bytes[i] = c[i]
  <2>1. \A i \in 3 .. AtMost(8, m) : i \in 1 .. m /\ i \in 3 .. 8
    BY <1>5, SMT DEF AtMost
  <2> QED BY <2>1, <1>2, <1>6
<1>11. RightAnswer(d, r)
  BY <1>6, <1>7, <1>8, <1>9, <1>10 DEF RightAnswer, Sent
<1> QED BY <1>3, <1>6, <1>7, <1>11 DEF AnswerOK

\* What GET_DESCRIPTOR answers at once is right; what needs a loop is not
\* answered yet, and the configuration for the other speed never is at once.
LEMMA GetDescriptorAnswers ==
    ASSUME NEW d \in Device, NEW type \in DescriptorType, NEW index \in Byte,
           NEW length \in Nat
    PROVE  LET a == Asked(type, index, length)
               r == device_request(d, a)
           IN /\ LoopFor(d, type, index) = "none" => AnswerOK(d, r)
              /\ LoopFor(d, type, index) # "none" => r = a
              /\ r.type = OTHER_SPEED_CONFIGURATION => ~ r.answered
<1> DEFINE a == Asked(type, index, length)
           r == device_request(d, a)
           loop == LoopFor(d, type, index)
<1> USE DEF USB_DT_DEVICE, USB_DT_CONFIGURATION, USB_DT_STRING,
            DEVICE_QUALIFIER, OTHER_SPEED_CONFIGURATION, USB_DT_REPORT
<1>1. /\ a.type = type /\ a.index = index /\ a.length = length
      /\ a.answered = FALSE
  BY DEF Asked
<1>2. index # 0 => index > 0
  BY SMT DEF Byte
<1>3. CASE \/ type \in {USB_DT_DEVICE, USB_DT_CONFIGURATION}
           \/ type = USB_DT_STRING /\ index = 0
  <2>1. AnswerOK(d, r)
    BY <1>3, TableAnswers
  <2>2. r.type = type
    BY <1>3, <1>1 DEF device_request, Reply, Transmit, Asked
  <2>3. loop = "none" /\ type # OTHER_SPEED_CONFIGURATION
    BY <1>3 DEF LoopFor
  <2> QED BY <2>1, <2>2, <2>3
<1>4. CASE type = DEVICE_QUALIFIER /\ usb2(d)
  <2>1. AnswerOK(d, r)
    BY <1>4, QualifierAnswer
  <2>2. r.type = type
    BY <1>4, <1>1, Zenon DEF device_request, Reply, Transmit, Asked
  <2>3. loop = "none" /\ type # OTHER_SPEED_CONFIGURATION
    BY <1>4 DEF LoopFor
  <2> QED BY <2>1, <2>2, <2>3
<1>5. CASE \/ type = DEVICE_QUALIFIER /\ ~ usb2(d)
           \/ type = OTHER_SPEED_CONFIGURATION
           \/ type = USB_DT_STRING /\ index # 0
           \/ type = 8
  <2>1. r = a
    BY <1>1, <1>5 DEF device_request
  <2>2. loop = "none" => ~ Has(d, a)
    BY <1>1, <1>2, <1>5 DEF LoopFor, Has
  <2> QED BY <2>1, <2>2, <1>1, NotAnswered
<1>6. \/ type \in {USB_DT_DEVICE, USB_DT_CONFIGURATION}
      \/ type \in {DEVICE_QUALIFIER, OTHER_SPEED_CONFIGURATION, 8}
      \/ type = USB_DT_STRING
  BY SMT DEF DescriptorType
<1>7. CASE type \in {USB_DT_DEVICE, USB_DT_CONFIGURATION}
  BY <1>3, <1>7
<1>8. CASE type \in {DEVICE_QUALIFIER, OTHER_SPEED_CONFIGURATION, 8}
  BY <1>4, <1>5, <1>8
<1>9. CASE type = USB_DT_STRING
  BY <1>3, <1>5, <1>9
<1> QED BY <1>6, <1>7, <1>8, <1>9

\* A HID device has the report descriptor its configuration announces.
LEMMA ReportAnswer ==
    ASSUME NEW d \in Device, NEW length \in Nat
    PROVE  LET r == control_data(d, Asked(USB_DT_REPORT, 0, length))
           IN AnswerOK(d, r) /\ r.type = USB_DT_REPORT
<1> DEFINE a == Asked(USB_DT_REPORT, 0, length)
           table == d.report
           r == Reply(a, table, Len(table))
           m == Sent(length, Len(table))
<1> USE DEF USB_DT_DEVICE, USB_DT_CONFIGURATION, USB_DT_STRING,
            DEVICE_QUALIFIER, OTHER_SPEED_CONFIGURATION, USB_DT_REPORT
<1>1. /\ table \in Seq(Byte)
      /\ (table = <<>>) <=> (OfType(d, USB_DT_HID) = {})
      /\ \A p \in OfType(d, USB_DT_HID) :
            Word(d.config_desc, p + 7) = Len(table)
  BY TablesAssumption DEF ReportOK
<1>2. a.type = USB_DT_REPORT
  BY DEF Asked
<1>3. CASE table = <<>>
  <2>1. control_data(d, a) = a
    BY <1>3 DEF control_data
  <2>2. ~ Has(d, a)
    BY <1>1, <1>2, <1>3 DEF Has
  <2> QED BY <2>1, <2>2, <1>2, NotAnswered
<1>4. CASE table # <<>>
  <2>1. control_data(d, a) = r
    BY <1>4 DEF control_data
  <2>2. IsReply(r, USB_DT_REPORT, 0, length, table)
    BY <1>1, ReplyIs
  <2> HIDE DEF r
  <2>3. /\ r.type = USB_DT_REPORT /\ r.length = length /\ r.answered = TRUE
        /\ length > 0 => Len(r.bytes) > 0
        /\ Len(r.bytes) = m /\ r.bytes = SubSeq(table, 1, Len(r.bytes))
    BY <2>2, <1>4, Zenon DEF IsReply
  <2>4. Has(d, r) /\ Original(d, r) = {table}
    BY <2>3, <1>1, <1>4 DEF Has, Original
  <2>5. \A l \in Announced(d, r) : l = Len(table)
    BY <2>3, <1>1 DEF Announced
  <2>6. RightAnswer(d, r)
    BY <2>3, <2>4, <2>5 DEF RightAnswer, Sent
  <2> QED BY <2>1, <2>3, <2>4, <2>6 DEF AnswerOK
<1> QED BY <1>3, <1>4
-----------------------------------------------------------------------------
(* get_string                                                              *)

\* The string descriptor is as long as its first byte says.
LEMMA StringBuffer ==
    ASSUME NEW strlen \in Nat
    PROVE  /\ string_buffer(strlen) \in Seq(Nat)
           /\ Len(string_buffer(strlen)) = 2 * AtMost(strlen, 126) + 2
           /\ string_buffer(strlen)[1] = 2 * AtMost(strlen, 126) + 2
           /\ string_buffer(strlen)[2] = USB_DT_STRING
<1> DEFINE n == 2 * AtMost(strlen, 126) + 2
           s == string_buffer(strlen)
<1>1. n \in 2 .. 254
  BY SMT DEF AtMost
<1>2. n % 256 = n
  BY <1>1, SMT
<1> HIDE DEF n
<1>3. s = [i \in 1 .. n |-> CASE i = 1 -> n % 256
                              [] i = 2 -> USB_DT_STRING
                              [] OTHER -> IF i % 2 = 1 THEN 97 ELSE 0]
  BY Zenon DEF string_buffer, StringLength, n
<1>4. ASSUME NEW i \in 1 .. n PROVE s[i] \in Nat
  <2>1. s[i] = n \/ s[i] = USB_DT_STRING \/ s[i] = 97 \/ s[i] = 0
    BY <1>2, <1>3
  <2> QED BY <2>1, <1>1, SMT DEF USB_DT_STRING
<1>5. 1 \in 1 .. n /\ 2 \in 1 .. n /\ n \in Nat
  BY <1>1, SMT
<1>6. s[1] = n /\ s[2] = USB_DT_STRING
  BY <1>2, <1>3, <1>5, SMT
<1>7. s \in Seq(Nat) /\ Len(s) = n
  <2>1. DOMAIN s = 1 .. n /\ s = [i \in 1 .. n |-> s[i]]
    BY <1>3, Zenon
  <2> HIDE DEF s
  <2> QED BY <2>1, <1>4, <1>5, SMT
<1> QED BY <1>6, <1>7 DEF n

\* The string found is sent.
LEMMA StringAnswer ==
    ASSUME NEW d \in Device, NEW index \in Byte \ {0}, NEW length \in Nat,
           NEW k \in DOMAIN d.usb_strings, IsString(d, k, index)
    PROVE  LET b == string_buffer(d.usb_strings[k].strlen)
           IN AnswerOK(d, Reply(Asked(USB_DT_STRING, index, length), b, b[1]))
<1> DEFINE a == Asked(USB_DT_STRING, index, length)
           strlen == d.usb_strings[k].strlen
           table == string_buffer(strlen)
           n == 2 * AtMost(strlen, 126) + 2
           r == Reply(a, table, Len(table))
           m == Sent(length, Len(table))
<1> USE DEF USB_DT_DEVICE, USB_DT_CONFIGURATION, USB_DT_STRING,
            DEVICE_QUALIFIER, OTHER_SPEED_CONFIGURATION, USB_DT_REPORT
<1>1. /\ d.usb_strings \in Seq([id : Byte, strlen : Nat])
      /\ DOMAIN d.usb_strings = 1 .. Len(d.usb_strings)
      /\ DOMAIN d.usb_strings \subseteq Nat
  <2>1. d.usb_strings \in Seq([id : Byte, strlen : Nat])
    BY TablesAssumption, Zenon DEF StringsOK
  <2> QED BY <2>1, SMT
<1>2. strlen \in Nat
  <2>1. d.usb_strings[k] \in [id : Byte, strlen : Nat]
    BY <1>1, ElementOfSeq, Zenon
  <2> QED BY <2>1
<1>3. /\ table \in Seq(Nat) /\ Len(table) = n /\ table[1] = n
      /\ table[2] = USB_DT_STRING /\ n \in Nat /\ n >= 2
  <2>1. n \in Nat /\ n >= 2
    BY <1>2, SMT DEF AtMost
  <2> QED BY <2>1, <1>2, StringBuffer, Zenon
<1> HIDE DEF table, n
<1>4. IsReply(r, USB_DT_STRING, index, length, table)
  BY <1>3, ReplyIs
<1>5. /\ length > 0 => 1 \in 1 .. m
      /\ length > 1 => 2 \in 1 .. m
  BY <1>3, SentBounds, Zenon
<1> HIDE DEF r, m
<1>6. /\ r.type = USB_DT_STRING /\ r.index = index /\ r.length = length
      /\ r.answered = TRUE
      /\ length > 0 => Len(r.bytes) > 0
      /\ Len(r.bytes) = m
      /\ \A i \in 1 .. m : r.bytes[i] = table[i]
  <2>1. table # <<>>
    BY <1>3, SMT
  <2> QED BY <2>1, <1>4, Zenon DEF IsReply, m
<1>7. Has(d, r) /\ Original(d, r) = {} /\ Announced(d, r) = {r.bytes[1]}
  BY <1>6 DEF Has, Original, Announced
<1>8. length > 0 => r.bytes[1] = n /\ Len(r.bytes) = Sent(length, r.bytes[1])
  BY <1>3, <1>5, <1>6, Zenon DEF m
<1>9. length > 1 => r.bytes[2] = USB_DT_STRING
  BY <1>3, <1>5, <1>6, Zenon
<1>10. ASSUME NEW j \in DOMAIN d.usb_strings, IsString(d, j, index)
       PROVE  j = k
  <2>1. j \in Nat /\ k \in Nat /\ j \in 1 .. Len(d.usb_strings)
        /\ k \in 1 .. Len(d.usb_strings)
    BY <1>1
  <2>2. j \notin 1 .. k - 1 /\ k \notin 1 .. j - 1
    BY <1>10, Zenon DEF IsString
  <2> QED BY <2>1, <2>2, SMT
<1>11. RightAnswer(d, r)
  <2>1. \A l \in Announced(d, r) :
           length > 0 => Len(r.bytes) = Sent(length, l)
    BY <1>7, <1>8, Zenon
  <2>2. \A j \in DOMAIN d.usb_strings :
           length > 0 /\ IsString(d, j, index) =>
              r.bytes[1] = 2 * AtMost(d.usb_strings[j].strlen, 126) + 2
    BY <1>8, <1>10, Zenon DEF n
  <2> QED BY <2>1, <2>2, <1>6, <1>7, <1>9 DEF RightAnswer, Sent
<1>12. AnswerOK(d, r)
  BY <1>6, <1>7, <1>11 DEF AnswerOK
<1> QED BY <1>12, <1>3, Zenon DEF r, table

\* One more step of get_string: there is a next entry unless this is the end,
\* and at the end the device does not have the string.
LEMMA StringStep ==
    ASSUME NEW d \in Device, NEW index \in Byte \ {0}, NEW length,
           NEW i \in Nat, i < Len(d.usb_strings),
           \A k \in 1 .. i : d.usb_strings[k].id # index
    PROVE  /\ i + 1 \in DOMAIN d.usb_strings
           /\ d.usb_strings[i + 1].id # 0 => i + 1 < Len(d.usb_strings)
           /\ d.usb_strings[i + 1].id # index =>
                 \A k \in 1 .. i + 1 : d.usb_strings[k].id # index
           /\ d.usb_strings[i + 1].id = index => IsString(d, i + 1, index)
           /\ d.usb_strings[i + 1].id = 0 =>
                 ~ Has(d, Asked(USB_DT_STRING, index, length))
<1> DEFINE s == d.usb_strings
<1>1. /\ s \in Seq([id : Byte, strlen : Nat])
      /\ \A k \in DOMAIN s : (s[k].id = 0) <=> (k = Len(s))
  BY TablesAssumption, Zenon DEF StringsOK
<1>2. DOMAIN s = 1 .. Len(s) /\ Len(s) \in Nat
  BY <1>1, SMT
<1>3. i + 1 \in 1 .. Len(s)
  BY <1>2, SMT
<1>4. s[i + 1].id = 0 <=> i + 1 = Len(s)
  BY <1>1, <1>2, <1>3, Zenon
<1>5. s[i + 1].id # 0 => i + 1 < Len(s)
  BY <1>2, <1>3, <1>4, SMT
<1>6. \A k \in 1 .. i + 1 : k \in 1 .. i \/ k = i + 1
  BY SMT
<1>7. s[i + 1].id # index => \A k \in 1 .. i + 1 : s[k].id # index
  BY <1>6, Zenon
<1>8. (i + 1) - 1 = i
  BY SMT
<1>9. s[i + 1].id = index => IsString(d, i + 1, index)
  BY <1>8, Zenon DEF IsString
<1>10. ASSUME s[i + 1].id = 0
       PROVE  ~ Has(d, Asked(USB_DT_STRING, index, length))
  <2>1. s[i + 1].id # index
    BY <1>10
  <2>2. \A k \in DOMAIN s : s[k].id # index
    BY <2>1, <1>2, <1>4, <1>7, <1>10, Zenon
  <2>3. Asked(USB_DT_STRING, index, length).type = USB_DT_STRING
        /\ Asked(USB_DT_STRING, index, length).index = index
    BY DEF Asked
  <2> QED BY <2>2, <2>3 DEF Has, IsString, USB_DT_DEVICE, USB_DT_STRING,
         USB_DT_CONFIGURATION, DEVICE_QUALIFIER, OTHER_SPEED_CONFIGURATION,
         USB_DT_REPORT
<1> QED BY <1>2, <1>3, <1>5, <1>7, <1>9, <1>10, Zenon
-----------------------------------------------------------------------------
(* build_other_speed_config                                                *)

\* the powers of two an interval can be
PowerOfTwo == {1, 2, 4, 8, 16, 32, 64, 128, 256, 512, 1024, 2048, 4096, 8192,
               16384, 32768}

\* 8 microframes are a frame, three doublings more.
LEMMA Powers ==
    ASSUME NEW k \in 0 .. 15
    PROVE  2^k \in PowerOfTwo /\ (k >= 3 => 2^k = 8 * 2^(k - 3))
<1>1. CASE k = 0
  BY <1>1, SMT DEF PowerOfTwo
<1>2. CASE k = 1
  BY <1>2, SMT DEF PowerOfTwo
<1>3. CASE k = 2
  BY <1>3, SMT DEF PowerOfTwo
<1>4. CASE k = 3
  BY <1>4, SMT DEF PowerOfTwo
<1>5. CASE k = 4
  BY <1>5, SMT DEF PowerOfTwo
<1>6. CASE k = 5
  BY <1>6, SMT DEF PowerOfTwo
<1>7. CASE k = 6
  BY <1>7, SMT DEF PowerOfTwo
<1>8. CASE k = 7
  BY <1>8, SMT DEF PowerOfTwo
<1>9. CASE k = 8
  BY <1>9, SMT DEF PowerOfTwo
<1>10. CASE k = 9
  BY <1>10, SMT DEF PowerOfTwo
<1>11. CASE k = 10
  BY <1>11, SMT DEF PowerOfTwo
<1>12. CASE k = 11
  BY <1>12, SMT DEF PowerOfTwo
<1>13. CASE k = 12
  BY <1>13, SMT DEF PowerOfTwo
<1>14. CASE k = 13
  BY <1>14, SMT DEF PowerOfTwo
<1>15. CASE k = 14
  BY <1>15, SMT DEF PowerOfTwo
<1>16. CASE k = 15
  BY <1>16, SMT DEF PowerOfTwo
<1> QED BY <1>1, <1>2, <1>3, <1>4, <1>5, <1>6, <1>7, <1>8, <1>9, <1>10, <1>11,
           <1>12, <1>13, <1>14, <1>15, <1>16, SMT

\* The size of a packet fits in its two bytes, and in full speed.
LEMMA SizeIsFullSpeed ==
    ASSUME NEW type \in 0 .. 3, NEW lo \in Byte, NEW hi \in Byte
    PROVE  LET size == lo + 256 * hi
               packet == FullSpeedSize(type, size)
               limit == IF type = ISOC THEN 1023 ELSE 64
           IN /\ packet % 256 \in Byte /\ packet \div 256 \in Byte
              /\ (packet % 256) + 256 * (packet \div 256) = packet
              /\ type # CONTROL => packet <= limit
              /\ size <= limit => packet = size
<1> DEFINE size == lo + 256 * hi
           packet == FullSpeedSize(type, size)
<1>1. size \in Nat /\ size < 65536
  BY SMT DEF Byte
<1> HIDE DEF size
<1>2. packet \in Nat /\ packet < 65536
  BY <1>1, SMT DEF FullSpeedSize, AtMost, BULK, INT, ISOC,
     FULL_SPEED_MAX_PACKET_SIZE, FULL_SPEED_MAX_ISO_PACKET_SIZE
<1>3. /\ type # CONTROL => packet <= IF type = ISOC THEN 1023 ELSE 64
      /\ size <= (IF type = ISOC THEN 1023 ELSE 64) => packet = size
  BY <1>1, SMT DEF FullSpeedSize, AtMost, BULK, INT, ISOC, CONTROL,
     FULL_SPEED_MAX_PACKET_SIZE, FULL_SPEED_MAX_ISO_PACKET_SIZE
<1> HIDE DEF packet
<1>4. /\ packet % 256 \in Byte /\ packet \div 256 \in Byte
      /\ (packet % 256) + 256 * (packet \div 256) = packet
  BY <1>2, SMT DEF Byte
<1> QED BY <1>3, <1>4, SMT DEF packet, size

\* The interval is a byte again, and the same time as far as that goes.
LEMMA IntervalIsFullSpeed ==
    ASSUME NEW type \in 0 .. 3, NEW b \in Byte
    PROVE  LET interval == FullSpeedInterval(type, b)
               period == 125 * 2^(AtMost(b, 16) - 1)
               full_speed == FullSpeedPeriod(type, interval)
           IN /\ interval \in Byte
              /\ (\/ type = INT /\ b > 0
                  \/ type = ISOC /\ b \in 1 .. 16) =>
                   /\ full_speed >= 1000
                   /\ period < 1000 => full_speed = 1000
                   /\ period >= 1000 /\ period <= 255000 => full_speed = period
                   /\ type = INT /\ period > 255000 => full_speed = 255000
<1> DEFINE interval == FullSpeedInterval(type, b)
           e == AtMost(b, 16)
           f == FullSpeedPeriod(type, interval)
<1> USE DEF INT, ISOC
<1>1. CASE type = INT /\ b > 0
  <2>1. e - 1 \in 0 .. 15
    BY <1>1, SMT DEF AtMost, Byte
  <2> DEFINE P == 2^(e - 1)
  <2>2. P \in PowerOfTwo
    BY <2>1, Powers, Zenon
  <2>3. interval = IF P \div 8 < 1 THEN 1 ELSE AtMost(P \div 8, 255)
    BY <1>1, SMT DEF FullSpeedInterval
  <2>4. f = 1000 * interval
    BY <1>1, SMT DEF FullSpeedPeriod
  <2> HIDE DEF P, f, interval
  <2>5. interval \in Byte
    BY <2>2, <2>3, SMT DEF PowerOfTwo, AtMost, Byte
  <2>6. /\ f >= 1000
        /\ 125 * P < 1000 => f = 1000
        /\ 125 * P >= 1000 /\ 125 * P <= 255000 => f = 125 * P
        /\ 125 * P > 255000 => f = 255000
    BY <2>2, <2>3, <2>4, SMT DEF PowerOfTwo, AtMost
  <2> QED BY <2>5, <2>6, SMT DEF P, f, interval
<1>2. CASE type = ISOC
  <2>1. interval = IF b > 3 THEN b - 3 ELSE 1
    BY <1>2, SMT DEF FullSpeedInterval
  <2>2. interval \in Byte
    BY <2>1, SMT DEF Byte
  <2>3. ASSUME b \in 1 .. 16
        PROVE  /\ f >= 1000
               /\ 125 * 2^(e - 1) < 1000 => f = 1000
               /\ 125 * 2^(e - 1) >= 1000 => f = 125 * 2^(e - 1)
    <3>1. e = b /\ b - 1 \in 0 .. 15
      BY <2>3, SMT DEF AtMost
    <3>2. f = 1000 * 2^(interval - 1)
      BY <1>2, SMT DEF FullSpeedPeriod
    <3>3. CASE b > 3
      <4>1. b - 1 >= 3 /\ (b - 1) - 3 = interval - 1
            /\ interval - 1 \in 0 .. 15
        BY <3>3, <2>1, <2>3, SMT
      <4>2. 2^(b - 1) = 8 * 2^(interval - 1) /\ 2^(interval - 1) \in PowerOfTwo
        <5>1. 2^(b - 1) = 8 * 2^((b - 1) - 3)
          BY <4>1, <3>1, Powers, Zenon
        <5>2. 2^(interval - 1) \in PowerOfTwo
          BY <4>1, Powers, Zenon
        <5> QED BY <5>1, <5>2, <4>1, Zenon
      <4> QED BY <4>2, <3>1, <3>2, SMT DEF PowerOfTwo
    <3>4. CASE ~ (b > 3)
      <4>1. interval = 1 /\ interval - 1 = 0
        BY <3>4, <2>1, SMT
      <4>2. f = 1000
        <5>1. 2^(interval - 1) = 2^0
          BY <4>1, Zenon
        <5>2. 2^0 = 1
          BY SMT
        <5>3. 2^(interval - 1) = 1
          BY <5>1, <5>2, Zenon
        <5> QED BY <5>3, <3>2, SMT
      <4>3. 2^(b - 1) = 1 \/ 2^(b - 1) = 2 \/ 2^(b - 1) = 4
        <5>1. CASE b = 1
          BY <5>1, SMT
        <5>2. CASE b = 2
          BY <5>2, SMT
        <5>3. CASE b = 3
          BY <5>3, SMT
        <5> QED BY <5>1, <5>2, <5>3, <3>4, <2>3, SMT
      <4> HIDE DEF f
      <4> QED BY <4>2, <4>3, <3>1, SMT
    <3> QED BY <3>3, <3>4, SMT
  <2> QED BY <2>2, <2>3, <1>2, SMT
<1>3. CASE type # ISOC /\ ~ (type = INT /\ b > 0)
  <2>1. interval = b
    BY <1>3, SMT DEF FullSpeedInterval
  <2> QED BY <2>1, <1>3, SMT
<1> QED BY <1>1, <1>2, <1>3, SMT

\* Whether an endpoint is one of a full speed device depends on its last three
\* bytes.
LEMMA FullSpeedBytes ==
    ASSUME NEW b, NEW c, NEW original, NEW p \in Nat,
           \A k \in p + 5 .. p + 7 : b[k] = c[k],
           IsFullSpeed(b, original, p)
    PROVE  IsFullSpeed(c, original, p)
<1>1. /\ p + 4 + 1 \in p + 5 .. p + 7
      /\ p + 4 + 1 + 1 \in p + 5 .. p + 7
      /\ p + 6 + 1 \in p + 5 .. p + 7
  BY SMT
<1>2. Word(b, p + 4) = Word(c, p + 4) /\ At(b, p + 6) = At(c, p + 6)
  BY <1>1, Zenon DEF Word, At
<1> QED BY <1>2, SMT DEF IsFullSpeed

\* Rewriting an endpoint whose bytes are the original ones makes it one of a
\* full speed device, and changes only those three bytes.
LEMMA EndpointRewritten ==
    ASSUME NEW b \in Seq(Byte), NEW original, NEW i \in Nat, i + 7 <= Len(b),
           \A k \in i + 3 .. i + 7 : b[k] = original[k]
    PROVE  /\ FullSpeedEndpoint(b, i) \in Seq(Byte)
           /\ DOMAIN FullSpeedEndpoint(b, i) = DOMAIN b
           /\ \A k \in DOMAIN b :
                 k \in i + 5 .. i + 7 \/ FullSpeedEndpoint(b, i)[k] = b[k]
           /\ IsFullSpeed(FullSpeedEndpoint(b, i), original, i)
<1> DEFINE type == At(b, i + 3) % 4
           size == Word(b, i + 4)
           packet == FullSpeedSize(type, size)
           interval == FullSpeedInterval(type, At(b, i + 6))
           c == FullSpeedEndpoint(b, i)
<1>1. DOMAIN b = 1 .. Len(b) /\ Len(b) \in Nat
  BY SMT
<1>2. /\ i + 4 \in 1 .. Len(b) /\ i + 5 \in 1 .. Len(b)
      /\ i + 6 \in 1 .. Len(b) /\ i + 7 \in 1 .. Len(b)
  BY <1>1, SMT
<1>3. /\ i + 3 + 1 = i + 4 /\ i + 4 + 1 = i + 5 /\ i + 4 + 1 + 1 = i + 6
      /\ i + 6 + 1 = i + 7
  BY SMT
<1>4. /\ At(b, i + 3) = b[i + 4] /\ At(b, i + 4) = b[i + 5]
      /\ At(b, i + 4 + 1) = b[i + 6] /\ At(b, i + 6) = b[i + 7]
  BY <1>3, Zenon DEF At
<1>5. b[i + 4] \in Byte /\ b[i + 5] \in Byte /\ b[i + 6] \in Byte
      /\ b[i + 7] \in Byte
  BY <1>2, ElementOfSeq, Zenon
<1>6. size = b[i + 5] + 256 * b[i + 6]
  BY <1>4, Zenon DEF Word
<1>7. type \in 0 .. 3
  <2>1. At(b, i + 3) \in Nat
    BY <1>4, <1>5, ByteIsNat, Zenon
  <2> QED BY <2>1, SMT
<1>8. /\ packet % 256 \in Byte /\ packet \div 256 \in Byte
      /\ (packet % 256) + 256 * (packet \div 256) = packet
      /\ type # CONTROL => packet <= (IF type = ISOC THEN 1023 ELSE 64)
      /\ size <= (IF type = ISOC THEN 1023 ELSE 64) => packet = size
  BY <1>5, <1>6, <1>7, SizeIsFullSpeed, SMT
<1>9. interval \in Byte
  BY <1>4, <1>5, <1>7, IntervalIsFullSpeed, SMT
<1>10. c = [b EXCEPT ![i + 5] = packet % 256, ![i + 6] = packet \div 256,
                     ![i + 7] = interval]
  <2>1. c = [b EXCEPT ![i + 5] = packet % 256, ![i + 6] = packet \div 256,
                      ![i + 7] = FullSpeedInterval(type, b[i + 7])]
    BY <1>2, SMT DEF FullSpeedEndpoint
  <2> QED BY <2>1, <1>4, Zenon
<1> HIDE DEF c, packet, interval
<1>11. DOMAIN c = DOMAIN b /\ c \in Seq(Byte)
  BY <1>1, <1>2, <1>8, <1>9, <1>10, SMT
<1>12. c[i + 5] = packet % 256 /\ c[i + 6] = packet \div 256
       /\ c[i + 7] = interval
       /\ \A k \in DOMAIN b : k \in i + 5 .. i + 7 \/ c[k] = b[k]
  BY <1>1, <1>2, <1>10, SMT
<1>13. /\ Word(original, i + 4) = size /\ At(original, i + 3) % 4 = type
       /\ At(original, i + 6) = At(b, i + 6)
  <2>1. /\ i + 4 \in i + 3 .. i + 7 /\ i + 5 \in i + 3 .. i + 7
        /\ i + 6 \in i + 3 .. i + 7 /\ i + 7 \in i + 3 .. i + 7
    BY SMT
  <2>2. /\ b[i + 4] = original[i + 4] /\ b[i + 5] = original[i + 5]
        /\ b[i + 6] = original[i + 6] /\ b[i + 7] = original[i + 7]
    BY <2>1, Zenon
  <2> QED BY <2>2, <1>3, ZenonT(40) DEF Word, At
<1>14. Word(c, i + 4) = packet /\ At(c, i + 6) = interval
  <2>1. Word(c, i + 4) = (packet % 256) + 256 * (packet \div 256)
    BY <1>12, <1>3, ZenonT(40) DEF Word, At
  <2>2. At(c, i + 6) = interval
    BY <1>12, <1>3, Zenon DEF At
  <2> QED BY <2>1, <2>2, <1>8, Zenon
<1>15. IsFullSpeed(c, original, i)
  <2> DEFINE e == At(b, i + 6)
             period == 125 * 2^(AtMost(e, 16) - 1)
             f == FullSpeedPeriod(type, interval)
  <2>1. (\/ type = INT /\ e > 0
         \/ type = ISOC /\ e \in 1 .. 16) =>
            /\ f >= 1000
            /\ period < 1000 => f = 1000
            /\ period >= 1000 /\ period <= 255000 => f = period
            /\ type = INT /\ period > 255000 => f = 255000
    <3>1. e \in Byte /\ interval = FullSpeedInterval(type, e)
      BY <1>4, <1>5, Zenon DEF interval
    <3>2. type \in 0 .. 3
      BY <1>7, Zenon
    <3> HIDE DEF e, type
    <3> QED BY <3>1, <3>2, IntervalIsFullSpeed, SMTT(30)
  <2>2. /\ type # CONTROL => packet <= (IF type = ISOC THEN 1023 ELSE 64)
        /\ size <= (IF type = ISOC THEN 1023 ELSE 64) => packet = size
    BY <1>8, SMT
  <2> HIDE DEF period, f, type, size, e
  <2> QED BY <2>1, <2>2, <1>13, <1>14, SMT
             DEF IsFullSpeed, period, f, e
<1> QED BY <1>11, <1>12, <1>15, Zenon DEF c

\* The rewritten table is the part of the configuration that fits.
LEMMA RewrittenTable ==
    ASSUME NEW d \in Device, NEW i, NEW b, RewrittenBefore(i, d, b)
    PROVE  /\ Len(b) \in Nat /\ DOMAIN b = 1 .. Len(b)
           /\ Len(b) = AtMost(Len(d.config_desc), ENDPOINT_MAX_DATA_LENGTH)
           /\ Len(b) <= Len(d.config_desc) /\ Len(b) >= 9
<1>1. b \in Seq(Byte)
      /\ DOMAIN b = 1 .. AtMost(Len(d.config_desc), ENDPOINT_MAX_DATA_LENGTH)
  BY DEF RewrittenBefore
<1>2. /\ AtMost(Len(d.config_desc), ENDPOINT_MAX_DATA_LENGTH) \in Nat
      /\ AtMost(Len(d.config_desc), ENDPOINT_MAX_DATA_LENGTH) >= 9
      /\ AtMost(Len(d.config_desc), ENDPOINT_MAX_DATA_LENGTH)
            <= Len(d.config_desc)
  BY ConfigBytes, RequestAssumption, SMT DEF AtMost
<1> QED BY <1>1, <1>2, SMT

\* The endpoints in the rewritten table are whole descriptors.
LEMMA WithinPlace ==
    ASSUME NEW d \in Device, NEW n, NEW p \in Within(d, n)
    PROVE  /\ p \in d.starts /\ p \in Nat /\ p + 7 <= n
           /\ At(d.config_desc, p + 1) = USB_DT_ENDPOINT
           /\ \A i \in d.starts : p < i => p + 7 <= i
<1>1. /\ p \in d.starts /\ p + USB_DT_ENDPOINT_SIZE <= n
      /\ At(d.config_desc, p + 1) = USB_DT_ENDPOINT
      /\ At(d.config_desc, p) >= USB_DT_ENDPOINT_SIZE
  BY TablesAssumption DEF TableOK, Within, OfType
<1>2. p \in Nat /\ At(d.config_desc, p) \in Nat
  BY <1>1, NextDescriptor
<1>3. ASSUME NEW i \in d.starts, p < i
      PROVE  p + 7 <= i
  <2>1. ~ (i <= p) /\ i \in Nat
    BY <1>2, <1>3, NextDescriptor, SMT
  <2>2. ~ (i < p + At(d.config_desc, p))
    BY <2>1, <1>1, NextDescriptor, Zenon
  <2> QED BY <2>1, <2>2, <1>1, <1>2, SMT DEF USB_DT_ENDPOINT_SIZE
<1> QED BY <1>1, <1>2, <1>3, SMT DEF USB_DT_ENDPOINT_SIZE

\* Where the loop is, nothing is rewritten yet but the type of the header.
LEMMA RewriteHead ==
    ASSUME NEW d \in Device, NEW i, AtDescriptor(d, i),
           NEW b, RewrittenBefore(i, d, b), i + 7 <= Len(b)
    PROVE  /\ i \in d.starts /\ i \in Nat
           /\ i = 0 \/ i >= 2
           /\ \A k \in i + 1 .. i + 7 : k = 2 \/ b[k] = d.config_desc[k]
           /\ At(b, i) = At(d.config_desc, i)
           /\ At(b, i + 1) = USB_DT_ENDPOINT <=>
                 At(d.config_desc, i + 1) = USB_DT_ENDPOINT
           /\ At(b, i + 1) = USB_DT_ENDPOINT => i >= 2
<1> DEFINE config == d.config_desc
<1>1. /\ Len(b) \in Nat /\ DOMAIN b = 1 .. Len(b)
      /\ Len(b) <= Len(config) /\ Len(config) \in Nat
  BY RewrittenTable, ConfigBytes
<1>2. i \in d.starts /\ i \in Nat
  <2>1. i \in Nat /\ (i < Len(config) => i \in d.starts)
    BY DescriptorPlace
  <2>2. i < Len(config)
    BY <2>1, <1>1, SMT
  <2> QED BY <2>1, <2>2
<1>3. i = 0 \/ i >= 2
  <2>1. 0 \in d.starts
    BY TablesAssumption DEF TableOK
  <2>2. /\ At(config, 0) \in Nat /\ At(config, 0) >= 2
        /\ i < 0 + At(config, 0) <=> i <= 0
    BY <2>1, <1>2, NextDescriptor
  <2> QED BY <2>2, <1>2, SMT
<1>4. ASSUME NEW k \in i + 1 .. i + 7, k # 2
      PROVE  b[k] = config[k]
  <2>1. k \in DOMAIN b
    BY <1>1, <1>2, SMT
  <2>2. ASSUME NEW p \in Within(d, Len(b)), p < i
        PROVE  k \notin p + 5 .. p + 7
    <3>1. p \in Nat /\ p + 7 <= i
      BY <2>2, <1>2, WithinPlace
    <3> QED BY <3>1, <1>2, SMT
  <2>3. \/ b[k] = config[k]
        \/ k = 2
        \/ \E p \in Within(d, Len(b)) : p < i /\ k \in p + 5 .. p + 7
    BY <2>1 DEF RewrittenBefore
  <2> QED BY <1>4, <2>2, <2>3, Zenon
<1>5. i + 1 \in i + 1 .. i + 7 /\ i + 1 # 2 /\ i + 1 + 1 \in i + 1 .. i + 7
  BY <1>2, <1>3, SMT
<1>6. At(b, i) = At(config, i)
  BY <1>4, <1>5, Zenon DEF At
<1>7. CASE i = 0
  <2>1. At(config, 1) = USB_DT_CONFIGURATION
    BY TablesAssumption DEF TableOK
  <2>2. b[2] = OTHER_SPEED_CONFIGURATION
    BY DEF RewrittenBefore
  <2>3. At(b, i + 1) = b[2] /\ At(config, i + 1) = At(config, 1)
    BY <1>7, SMT DEF At
  <2>4. /\ At(b, i + 1) # USB_DT_ENDPOINT
        /\ At(config, i + 1) # USB_DT_ENDPOINT
    BY <2>1, <2>2, <2>3, SMT DEF USB_DT_ENDPOINT, USB_DT_CONFIGURATION,
       OTHER_SPEED_CONFIGURATION
  <2> QED BY <2>4, <1>2, <1>3, <1>4, <1>6, Zenon
<1>8. CASE i >= 2
  <2>1. i + 1 + 1 # 2
    BY <1>2, <1>8, SMT
  <2>2. At(b, i + 1) = At(config, i + 1)
    BY <2>1, <1>4, <1>5, Zenon DEF At
  <2> QED BY <2>2, <1>2, <1>3, <1>4, <1>6, <1>8, Zenon
<1> QED BY <1>3, <1>7, <1>8

\* One step of build_other_speed_config rewrites the endpoint at i, or passes
\* over a descriptor of another type.
LEMMA RewriteStep ==
    ASSUME NEW d \in Device, NEW i, AtDescriptor(d, i),
           NEW b, RewrittenBefore(i, d, b), i + 7 <= Len(b)
    PROVE  /\ AtDescriptor(d, i + At(b, i))
           /\ RewrittenBefore(i + At(b, i), d,
                              IF At(b, i + 1) = USB_DT_ENDPOINT
                              THEN FullSpeedEndpoint(b, i) ELSE b)
<1> DEFINE config == d.config_desc
           next == i + At(b, i)
           c == FullSpeedEndpoint(b, i)
           within == Within(d, Len(b))
<1>1. /\ i \in d.starts /\ i \in Nat
      /\ \A k \in i + 1 .. i + 7 : k = 2 \/ b[k] = config[k]
      /\ At(b, i) = At(config, i)
      /\ At(b, i + 1) = USB_DT_ENDPOINT <=>
            At(config, i + 1) = USB_DT_ENDPOINT
      /\ At(b, i + 1) = USB_DT_ENDPOINT => i >= 2
  BY RewriteHead
<1>2. /\ AtDescriptor(d, next) /\ next \in Nat /\ i < next
      /\ \A p \in d.starts : p < next <=> p <= i
  <2>1. /\ At(config, i) \in Nat /\ At(config, i) >= 2
        /\ AtDescriptor(d, i + At(config, i))
        /\ \A p \in d.starts : p < i + At(config, i) <=> p <= i
    BY <1>1, NextDescriptor, Zenon
  <2>2. i + At(config, i) \in Nat /\ i < i + At(config, i)
    BY <2>1, <1>1, SMT
  <2> QED BY <2>1, <2>2, <1>1, Zenon
<1>3. /\ Len(b) \in Nat /\ DOMAIN b = 1 .. Len(b) /\ b \in Seq(Byte)
      /\ DOMAIN b = 1 .. AtMost(Len(config), ENDPOINT_MAX_DATA_LENGTH)
      /\ b[2] = OTHER_SPEED_CONFIGURATION
      /\ \A k \in DOMAIN b :
            \/ b[k] = config[k]
            \/ k = 2
            \/ \E p \in within : p < i /\ k \in p + 5 .. p + 7
      /\ \A p \in within : p < i => IsFullSpeed(b, config, p)
  BY RewrittenTable DEF RewrittenBefore
<1> HIDE DEF next, c
<1>4. ASSUME NEW p \in within
      PROVE  /\ p \in Nat /\ p + 7 <= Len(b) /\ p \in d.starts
             /\ At(config, p + 1) = USB_DT_ENDPOINT
             /\ p < next <=> (p < i \/ p = i)
             /\ p < i => p < next /\ p + 7 <= i
  <2>1. /\ p \in d.starts /\ p \in Nat /\ p + 7 <= Len(b)
        /\ At(config, p + 1) = USB_DT_ENDPOINT
        /\ p < i => p + 7 <= i
    BY <1>1, WithinPlace
  <2>2. p < next <=> p <= i
    BY <2>1, <1>2
  <2> QED BY <2>1, <2>2, <1>1, <1>2, SMT
<1>5. CASE At(b, i + 1) # USB_DT_ENDPOINT
  <2>1. \A p \in within : p < next <=> p < i
    BY <1>1, <1>4, <1>5, Zenon
  <2>2. RewrittenBefore(next, d, b)
    BY <2>1, <1>3, Zenon DEF RewrittenBefore
  <2> QED BY <2>2, <1>2, <1>5, Zenon DEF next
<1>6. CASE At(b, i + 1) = USB_DT_ENDPOINT
  <2>1. \A k \in i + 3 .. i + 7 : b[k] = config[k]
    <3>1. i >= 2
      BY <1>1, <1>6
    <3>2. \A k \in i + 3 .. i + 7 : k # 2 /\ k \in i + 1 .. i + 7
      BY <3>1, <1>1, SMT
    <3> QED BY <3>2, <1>1, Zenon
  <2>2. /\ c \in Seq(Byte) /\ DOMAIN c = DOMAIN b
        /\ \A k \in DOMAIN b : k \in i + 5 .. i + 7 \/ c[k] = b[k]
        /\ IsFullSpeed(c, config, i)
    BY <2>1, <1>1, <1>3, EndpointRewritten, Zenon DEF c
  <2>3. Len(c) = Len(b)
    BY <2>2, <1>3, SMT
  <2>4. i \in within
    <3>1. i \in OfType(d, USB_DT_ENDPOINT)
      BY <1>1, <1>6, Zenon DEF OfType
    <3> QED BY <3>1, Zenon DEF Within, USB_DT_ENDPOINT_SIZE
  <2>5. c[2] = OTHER_SPEED_CONFIGURATION
    <3>1. i >= 2
      BY <1>1, <1>6
    <3>2. 2 \in DOMAIN b /\ 2 \notin i + 5 .. i + 7
      BY <3>1, <1>1, <1>3, SMT
    <3> QED BY <3>2, <2>2, <1>3, Zenon
  <2>6. ASSUME NEW k \in DOMAIN c
        PROVE  \/ c[k] = config[k]
               \/ k = 2
               \/ \E p \in within : p < next /\ k \in p + 5 .. p + 7
    <3>1. CASE k \in i + 5 .. i + 7
      BY <3>1, <2>4, <1>2, Zenon
    <3>2. CASE c[k] = b[k]
      BY <3>2, <2>2, <1>3, <1>4, Zenon
    <3> QED BY <3>1, <3>2, <2>2, Zenon
  <2>7. ASSUME NEW p \in within, p < next
        PROVE  IsFullSpeed(c, config, p)
    <3>1. CASE p = i
      BY <3>1, <2>2, Zenon
    <3>2. CASE p < i
      <4>1. p \in Nat /\ p + 7 <= i /\ p + 7 <= Len(b)
        BY <3>2, <1>4
      <4>2. \A k \in p + 5 .. p + 7 : k \in 1 .. Len(b)
            /\ k \notin i + 5 .. i + 7
        BY <4>1, <1>1, <1>3, SMT
      <4>3. \A k \in p + 5 .. p + 7 : b[k] = c[k]
        BY <4>2, <2>2, <1>3, Zenon
      <4>4. IsFullSpeed(b, config, p)
        BY <3>2, <1>3
      <4> QED BY <4>1, <4>3, <4>4, FullSpeedBytes, Zenon
    <3> QED BY <3>1, <3>2, <2>7, <1>4, Zenon
  <2>8. RewrittenBefore(next, d, c)
    BY <2>2, <2>3, <2>5, <2>6, <2>7, <1>3, Zenon DEF RewrittenBefore
  <2> QED BY <2>8, <1>2, <1>6, Zenon DEF next, c
<1> QED BY <1>5, <1>6

\* The loop starts with a copy in which only the type of the header differs.
LEMMA RewriteStart ==
    ASSUME NEW d \in Device
    PROVE  RewrittenBefore(0, d, other_speed_desc(d.config_desc))
<1> DEFINE config == d.config_desc
           n == AtMost(Len(config), ENDPOINT_MAX_DATA_LENGTH)
           head == SubSeq(config, 1, n)
           b == other_speed_desc(config)
<1>1. config \in Seq(Byte) /\ total_length(config) = Len(config)
  BY TablesAssumption DEF TableOK
<1>2. n \in 0 .. Len(config) /\ n >= 9 /\ n \in Nat
  BY ConfigBytes, RequestAssumption, SMT DEF AtMost
<1>3. /\ head \in Seq(Byte) /\ Len(head) = n
      /\ \A k \in 1 .. n : head[k] = config[k]
  BY <1>1, <1>2, HeadOfHead, SMT
<1>4. b = [head EXCEPT ![2] = OTHER_SPEED_CONFIGURATION]
  BY <1>1, Zenon DEF other_speed_desc
<1>5. DOMAIN head = 1 .. n /\ 2 \in 1 .. n
  BY <1>2, <1>3, SMT
<1>6. OTHER_SPEED_CONFIGURATION \in Byte
  BY SMT DEF OTHER_SPEED_CONFIGURATION, Byte
<1> HIDE DEF head, b, n
<1>7. /\ b \in Seq(Byte) /\ DOMAIN b = 1 .. n
      /\ b[2] = OTHER_SPEED_CONFIGURATION
      /\ \A k \in 1 .. n : k = 2 \/ b[k] = head[k]
  BY <1>3, <1>4, <1>5, <1>6, SMT
<1>8. \A p \in Within(d, Len(b)) : ~ (p < 0)
  BY WithinPlace, SMT
<1> QED BY <1>3, <1>7, <1>8, Zenon DEF RewrittenBefore, b, n

\* When the loop ends every endpoint that fits is rewritten.
LEMMA RewriteEnd ==
    ASSUME NEW d \in Device, NEW i, AtDescriptor(d, i),
           NEW b, RewrittenBefore(i, d, b),
           ~ (i + 7 <= Len(b) /\ At(b, i) > 0)
    PROVE  OtherSpeedOf(d, b)
<1>1. /\ Len(b) \in Nat /\ DOMAIN b = 1 .. Len(b) /\ i \in Nat
      /\ Len(b) = AtMost(Len(d.config_desc), ENDPOINT_MAX_DATA_LENGTH)
  BY RewrittenTable, DescriptorPlace
<1>2. ~ (i + 7 <= Len(b))
  <2>1. SUFFICES ASSUME i + 7 <= Len(b)
                 PROVE  At(b, i) > 0
    OBVIOUS
  <2>2. i \in d.starts /\ At(b, i) = At(d.config_desc, i)
    BY <2>1, RewriteHead
  <2>3. At(d.config_desc, i) \in Nat /\ At(d.config_desc, i) >= 2
    BY <2>2, NextDescriptor
  <2> QED BY <2>2, <2>3, SMT
<1>3. ASSUME NEW p \in Within(d, Len(b))
      PROVE  p < i
  <2>1. p \in Nat /\ p + 7 <= Len(b)
    BY WithinPlace
  <2> QED BY <2>1, <1>1, <1>2, SMT
<1>4. \A k \in 1 .. Len(b) :
         \/ b[k] = d.config_desc[k]
         \/ k = 2 /\ b[k] = OTHER_SPEED_CONFIGURATION
         \/ \E p \in Within(d, Len(b)) : k \in p + 5 .. p + 7
  BY <1>1, Zenon DEF RewrittenBefore
<1>5. \A p \in Within(d, Len(b)) : IsFullSpeed(b, d.config_desc, p)
  BY <1>3, Zenon DEF RewrittenBefore
<1> QED BY <1>1, <1>4, <1>5, Zenon DEF OtherSpeedOf

\* The answer is the table the loop leaves.
LEMMA OtherSpeedAnswer ==
    ASSUME NEW d \in Device, usb2(d), NEW i, NEW length \in Nat,
           NEW b, RewrittenBefore(i, d, b), OtherSpeedOf(d, b)
    PROVE  LET r == Reply(Asked(OTHER_SPEED_CONFIGURATION, 0, length),
                          b, Len(b))
           IN /\ AnswerOK(d, r) /\ r.length = length
              /\ length >= Len(d.config_desc) => OtherSpeedOf(d, r.bytes)
<1> DEFINE a == Asked(OTHER_SPEED_CONFIGURATION, 0, length)
           r == Reply(a, b, Len(b))
           m == Sent(length, Len(b))
           total == Len(d.config_desc)
<1>1. /\ Len(b) \in Nat /\ Len(b) >= 9 /\ Len(b) <= total
      /\ Len(b) = AtMost(total, ENDPOINT_MAX_DATA_LENGTH)
      /\ b \in Seq(Byte) /\ b[2] = OTHER_SPEED_CONFIGURATION
  BY RewrittenTable, Zenon DEF RewrittenBefore
<1>2. total \in Nat /\ total_length(d.config_desc) = total
  BY ConfigBytes, TablesAssumption DEF TableOK
<1>3. IsReply(r, OTHER_SPEED_CONFIGURATION, 0, length, b)
  BY <1>1, ReplyIs
<1> HIDE DEF r
<1>4. /\ r.type = OTHER_SPEED_CONFIGURATION /\ r.index = 0
      /\ r.length = length /\ r.answered = TRUE
      /\ length > 0 => Len(r.bytes) > 0
      /\ Len(r.bytes) = m
      /\ \A k \in 1 .. m : r.bytes[k] = b[k]
      /\ r.bytes = SubSeq(b, 1, Len(r.bytes))
  <2>1. b # <<>>
    BY <1>1, SMT
  <2> QED BY <2>1, <1>3, Zenon DEF IsReply
<1>5. m = Sent(length, total)
  BY <1>1, <1>2, RequestAssumption, SMT DEF Sent, AtMost
<1>6. length > 1 => r.bytes[2] = OTHER_SPEED_CONFIGURATION
  <2>1. Len(b) >= 2
    BY <1>1, SMT
  <2>2. length > 1 => 2 \in 1 .. m
    BY <2>1, <1>1, SentBounds, Zenon
  <2> QED BY <2>2, <1>1, <1>4, Zenon
<1>7. ASSUME length >= total
      PROVE  r.bytes = b
  <2>1. m = Len(b)
    BY <1>1, <1>2, <1>7, RequestAssumption, SMT DEF Sent, AtMost
  <2>2. SubSeq(b, 1, Len(b)) = b
    BY <1>1, SMT
  <2> QED BY <2>1, <2>2, <1>4, Zenon
<1> HIDE DEF m
<1> USE DEF USB_DT_DEVICE, USB_DT_CONFIGURATION, USB_DT_STRING,
            DEVICE_QUALIFIER, OTHER_SPEED_CONFIGURATION, USB_DT_REPORT
<1>8. Has(d, r) /\ Original(d, r) = {} /\ Announced(d, r) = {total}
  BY <1>2, <1>4 DEF Has, Original, Announced
<1>9. RightAnswer(d, r)
  <2>1. \A l \in Announced(d, r) : Len(r.bytes) = Sent(length, l)
    BY <1>4, <1>5, <1>8, ZenonT(40)
  <2> QED BY <2>1, <1>4, <1>6, <1>8 DEF RightAnswer, Sent
<1>10. AnswerOK(d, r)
  BY <1>4, <1>8, <1>9 DEF AnswerOK
<1>11. length >= total => OtherSpeedOf(d, r.bytes)
  BY <1>7, Zenon
<1> QED BY <1>4, <1>10, <1>11, Zenon DEF r
-----------------------------------------------------------------------------
(* The invariant.                                                          *)

\* Before the first descriptor nothing is known of an endpoint.
LEMMA LoadStart ==
    ASSUME NEW d \in Device, NEW in, NEW n
    PROVE  AsDescribedBefore(0, Unknown, d, in, n)
<1>1. ASSUME NEW p \in d.starts
      PROVE  ~ (p < 0)
  BY NextDescriptor, SMT
<1>2. /\ {p \in Described(d, in, n) : p < 0} = {}
      /\ {p \in Pacing(d, in, n) : p < 0} = {}
  BY <1>1, DescribedStarts, Zenon
<1>3. Unknown.type = 0 /\ Unknown.interval_us = 0
  BY DEF Unknown
<1> QED BY <1>2, <1>3, Zenon DEF AsDescribedBefore, IsLast

\* The initial states satisfy the invariant: no descriptor is asked for yet.
LEMMA InitInv == Init => DescriptorsInv
<1> SUFFICES ASSUME Init
             PROVE  DescriptorsInv
  OBVIOUS
<1>1. TypeInv
  BY DEF Init, TypeInv, NoEndpoints
<1>2. ImportLoop /\ ListLoop /\ StringLoop /\ OtherSpeedLoop
  BY Zenon DEF Init, ImportLoop, ListLoop, StringLoop, OtherSpeedLoop
<1>3. EndpointsAsDescribed /\ InterfacesListed
  BY Zenon DEF Init, EndpointsAsDescribed, InterfacesListed
<1>4. answer = Asked(0, 0, 0) /\ answer.type = 0
  BY DEF Init, Asked
<1>5. OtherSpeedIsFullSpeed
  BY <1>4 DEF OtherSpeedIsFullSpeed, OTHER_SPEED_CONFIGURATION
<1>6. ~ Has(device, answer)
  BY <1>4 DEF Has, USB_DT_DEVICE, USB_DT_CONFIGURATION, USB_DT_STRING,
     DEVICE_QUALIFIER, OTHER_SPEED_CONFIGURATION, USB_DT_REPORT
<1>7. AnswersAsAnnounced
  BY <1>4, <1>6, NotAnswered, Zenon DEF AnswersAsAnnounced, AnswerOK
<1> QED BY <1>1, <1>2, <1>3, <1>5, <1>7, Zenon DEF DescriptorsInv

\* An import starts with unknown endpoints before the first descriptor.
LEMMA ImportInv ==
    ASSUME DescriptorsInv, Import
    PROVE  DescriptorsInv'
<1>1. /\ walk = "none" /\ walk' = "load_endpoints" /\ idx' = 0
      /\ endpoints' = NoEndpoints /\ done' = done \ {"import"}
      /\ device' = device /\ listed' = listed /\ answer' = answer
      /\ device \in Device
  BY DEF Import, Enter, DescriptorsInv, TypeInv
<1>2. TypeInv'
  BY <1>1 DEF DescriptorsInv, TypeInv, NoEndpoints
<1>3. ImportLoop'
  <2>1. \A in \in BOOLEAN, n \in 0 .. 15 : NoEndpoints[in][n] = Unknown
    BY DEF NoEndpoints
  <2>2. \A in \in BOOLEAN, n \in 0 .. 15 :
           AsDescribedBefore(0, NoEndpoints[in][n], device, in, n)
    BY <2>1, <1>1, LoadStart, Zenon
  <2>3. AtDescriptor(device, 0)
    BY <1>1, ListStart
  <2>4. "import" \notin done'
    BY <1>1
  <2> QED BY <2>2, <2>3, <2>4, <1>1, Zenon DEF ImportLoop
<1>4. ListLoop' /\ StringLoop' /\ OtherSpeedLoop'
  BY <1>1, Zenon DEF ListLoop, StringLoop, OtherSpeedLoop
<1>5. EndpointsAsDescribed' /\ InterfacesListed'
  BY <1>1, Zenon
     DEF DescriptorsInv, EndpointsAsDescribed, InterfacesListed, config_desc
<1>6. OtherSpeedIsFullSpeed' /\ AnswersAsAnnounced'
  BY <1>1, Zenon
     DEF DescriptorsInv, OtherSpeedIsFullSpeed, AnswersAsAnnounced, config_desc
<1> QED BY <1>2, <1>3, <1>4, <1>5, <1>6, Zenon DEF DescriptorsInv

\* A step of load_endpoints takes in the descriptor it stands at.
LEMMA LoadEndpointInv ==
    ASSUME DescriptorsInv, LoadEndpoint
    PROVE  DescriptorsInv'
<1> DEFINE b == device.config_desc
           address == At(b, idx + 2)
           dir == address >= 128
           next == idx + At(b, idx)
<1>1. /\ walk = "load_endpoints" /\ walk' = walk /\ idx' = next
      /\ device' = device /\ listed' = listed /\ answer' = answer
      /\ done' = done /\ device \in Device /\ idx \in Nat
      /\ endpoints' =
           IF At(b, idx + 1) = USB_DT_ENDPOINT
           THEN [endpoints EXCEPT ![dir][address % 16] =
                   Loaded(@, b, idx, dir)]
           ELSE endpoints
      /\ idx + USB_DT_ENDPOINT_SIZE <= total_length(b)
  BY Zenon DEF LoadEndpoint, InLoop, DescriptorsInv, TypeInv, config_desc
<1>2. /\ AtDescriptor(device, idx) /\ "import" \notin done
      /\ \A in \in BOOLEAN, n \in 0 .. 15 :
            AsDescribedBefore(idx, endpoints[in][n], device, in, n)
      /\ DOMAIN endpoints = BOOLEAN
      /\ \A in \in BOOLEAN : DOMAIN endpoints[in] = 0 .. 15
  BY <1>1, Zenon DEF DescriptorsInv, ImportLoop, TypeInv
<1>3. idx \in device.starts /\ idx + 7 <= Len(b) /\ address \in Nat
  <2>1. total_length(b) = Len(b)
    BY <1>1, TablesAssumption DEF TableOK
  <2>2. idx + 7 <= Len(b)
    BY <2>1, <1>1, Zenon DEF USB_DT_ENDPOINT_SIZE
  <2>3. Len(b) \in Nat
    BY <1>1, ConfigBytes
  <2>4. idx < Len(b) /\ idx + 2 \in 0 .. Len(b) - 1
    BY <2>2, <2>3, <1>1, SMT
  <2>5. idx \in device.starts
    BY <2>4, <1>1, <1>2, DescriptorPlace, Zenon
  <2>6. address \in Nat
    BY <2>4, <1>1, ConfigBytes, ByteIsNat, Zenon
  <2> QED BY <2>2, <2>5, <2>6
<1>4. dir \in BOOLEAN /\ address % 16 \in 0 .. 15
  BY <1>3, SMTT(30)
<1>5. AtDescriptor(device, next) /\ next \in Nat
  <2>1. AtDescriptor(device, next)
    BY <1>1, <1>3, NextDescriptor
  <2> QED BY <2>1, <1>1, DescriptorPlace
<1> HIDE DEF next, dir, address
<1>6. ASSUME NEW in \in BOOLEAN, NEW n \in 0 .. 15
      PROVE  endpoints'[in][n] =
               IF /\ At(b, idx + 1) = USB_DT_ENDPOINT
                  /\ dir = in /\ address % 16 = n
               THEN Loaded(endpoints[in][n], b, idx, in) ELSE endpoints[in][n]
  BY <1>1, <1>2, <1>4
<1>7. ASSUME NEW in \in BOOLEAN, NEW n \in 0 .. 15
      PROVE  AsDescribedBefore(next, endpoints'[in][n], device, in, n)
  <2>1. endpoints'[in][n] =
           IF About(device, idx, in, n)
           THEN Loaded(endpoints[in][n], b, idx, in) ELSE endpoints[in][n]
    BY <1>6, Zenon DEF About, dir, address
  <2>2. AsDescribedBefore(idx, endpoints[in][n], device, in, n)
    BY <1>2
  <2> QED BY <2>1, <2>2, <1>1, <1>3, LoadStep, Zenon DEF next
<1>8. /\ DOMAIN endpoints' = BOOLEAN
      /\ \A in \in BOOLEAN : DOMAIN endpoints'[in] = 0 .. 15
  BY <1>1, <1>2, <1>4
<1>9. TypeInv'
  BY <1>1, <1>5, <1>8, Zenon DEF DescriptorsInv, TypeInv
<1>10. ImportLoop'
  BY <1>1, <1>2, <1>5, <1>7, Zenon DEF ImportLoop
<1>11. ListLoop' /\ StringLoop' /\ OtherSpeedLoop'
  BY <1>1, Zenon DEF ListLoop, StringLoop, OtherSpeedLoop
<1>12. EndpointsAsDescribed' /\ InterfacesListed'
  BY <1>1, <1>2, Zenon
     DEF DescriptorsInv, EndpointsAsDescribed, InterfacesListed, config_desc
<1>13. OtherSpeedIsFullSpeed' /\ AnswersAsAnnounced'
  BY <1>1, Zenon
     DEF DescriptorsInv, OtherSpeedIsFullSpeed, AnswersAsAnnounced, config_desc
<1> QED BY <1>9, <1>10, <1>11, <1>12, <1>13, Zenon DEF DescriptorsInv

\* When load_endpoints is left there is no endpoint behind it; without a reply
\* the device is not imported.
LEMMA ImportedInv ==
    ASSUME DescriptorsInv, Imported \/ ImportFails
    PROVE  DescriptorsInv'
<1> DEFINE b == device.config_desc
<1>1. /\ walk = "load_endpoints" /\ walk' = "none" /\ idx' = 0
      /\ device' = device /\ listed' = listed /\ answer' = answer
      /\ endpoints' = endpoints /\ device \in Device
      /\ done' = done \/ done' = done \cup {"import"}
      /\ ~ (idx + USB_DT_ENDPOINT_SIZE <= total_length(b) /\ At(b, idx) > 0)
  BY Zenon DEF Imported, ImportFails, Leave, InLoop, DescriptorsInv, TypeInv,
               config_desc
<1>2. /\ AtDescriptor(device, idx)
      /\ \A in \in BOOLEAN, n \in 0 .. 15 :
            AsDescribedBefore(idx, endpoints[in][n], device, in, n)
  BY <1>1, Zenon DEF DescriptorsInv, ImportLoop
<1>3. total_length(b) = Len(b)
  BY <1>1, TablesAssumption DEF TableOK
<1>4. \A in \in BOOLEAN, n \in 0 .. 15 :
         AsDescribedBefore(Len(b), endpoints[in][n], device, in, n)
  BY <1>1, <1>2, <1>3, LoadEnd, Zenon
<1>5. TypeInv'
  BY <1>1, Zenon DEF DescriptorsInv, TypeInv
<1>6. ImportLoop' /\ ListLoop' /\ StringLoop' /\ OtherSpeedLoop'
  BY <1>1, Zenon DEF ImportLoop, ListLoop, StringLoop, OtherSpeedLoop
<1>7. EndpointsAsDescribed'
  BY <1>1, <1>4, Zenon DEF EndpointsAsDescribed, config_desc
<1>8. InterfacesListed'
  <2>1. "list" \in done' => "list" \in done
    BY <1>1
  <2> QED BY <2>1, <1>1, Zenon
             DEF DescriptorsInv, InterfacesListed, config_desc
<1>9. OtherSpeedIsFullSpeed' /\ AnswersAsAnnounced'
  BY <1>1, Zenon
     DEF DescriptorsInv, OtherSpeedIsFullSpeed, AnswersAsAnnounced, config_desc
<1> QED BY <1>5, <1>6, <1>7, <1>8, <1>9, Zenon DEF DescriptorsInv

\* A device list starts before the first interface.
LEMMA ListInv ==
    ASSUME DescriptorsInv, List
    PROVE  DescriptorsInv'
<1>1. /\ walk = "none" /\ walk' = "devlist" /\ idx' = 0
      /\ listed' = <<>> /\ done' = done \ {"list"}
      /\ device' = device /\ endpoints' = endpoints /\ answer' = answer
      /\ device \in Device
  BY DEF List, Enter, DescriptorsInv, TypeInv
<1>2. TypeInv'
  BY <1>1 DEF DescriptorsInv, TypeInv
<1>3. ListLoop'
  <2>1. AtDescriptor(device, 0) /\ ListedUpTo(0, device, <<>>)
    BY <1>1, ListStart
  <2>2. "list" \notin done'
    BY <1>1
  <2> QED BY <2>1, <2>2, <1>1, Zenon DEF ListLoop
<1>4. ImportLoop' /\ StringLoop' /\ OtherSpeedLoop'
  BY <1>1, Zenon DEF ImportLoop, StringLoop, OtherSpeedLoop
<1>5. EndpointsAsDescribed' /\ InterfacesListed'
  BY <1>1, Zenon
     DEF DescriptorsInv, EndpointsAsDescribed, InterfacesListed, config_desc
<1>6. OtherSpeedIsFullSpeed' /\ AnswersAsAnnounced'
  BY <1>1, Zenon
     DEF DescriptorsInv, OtherSpeedIsFullSpeed, AnswersAsAnnounced, config_desc
<1> QED BY <1>2, <1>3, <1>4, <1>5, <1>6, Zenon DEF DescriptorsInv

\* A step of transmit_devlist_response sends the interface it comes to.
LEMMA NextInterfaceInv ==
    ASSUME DescriptorsInv, NextInterface
    PROVE  DescriptorsInv'
<1> DEFINE b == device.config_desc
           next == idx + At(b, idx)
           class == SubSeq(b, next + 6, next + 8)
<1>1. /\ walk = "devlist" /\ walk' = walk /\ Len(listed) < At(b, 4)
      /\ idx' = get_next_interface_idx(b, idx)
      /\ listed' = IF \/ idx >= total_length(b)
                      \/ At(b, idx' + 1) = USB_DT_INTERFACE
                   THEN Append(listed, SubSeq(b, idx' + 6, idx' + 8))
                   ELSE listed
      /\ device' = device /\ endpoints' = endpoints /\ answer' = answer
      /\ done' = done /\ device \in Device /\ listed \in Seq(Seq(Byte))
  BY Zenon DEF NextInterface, DescriptorsInv, TypeInv, config_desc
<1>2. /\ AtDescriptor(device, idx) /\ "list" \notin done
      /\ ListedUpTo(idx, device, listed)
  BY <1>1, Zenon DEF DescriptorsInv, ListLoop
<1>3. idx \in device.starts /\ next \in device.starts
  BY <1>1, <1>2, ListStep, Zenon
<1>4. next \in Nat /\ idx < total_length(b) /\ ~ (idx >= total_length(b))
  <2>1. total_length(b) = Len(b)
    BY <1>1, TablesAssumption DEF TableOK
  <2>2. idx \in Nat /\ idx + 2 <= Len(b) /\ next \in Nat
    BY <1>1, <1>3, NextDescriptor
  <2>3. Len(b) \in Nat
    BY <1>1, ConfigBytes
  <2> QED BY <2>1, <2>2, <2>3, SMT
<1>5. idx' = next
  BY <1>1, <1>4, Zenon DEF get_next_interface_idx
<1>6. listed' = IF next \in OfType(device, USB_DT_INTERFACE)
                THEN Append(listed, class) ELSE listed
  BY <1>1, <1>3, <1>4, <1>5, Zenon DEF OfType
<1> HIDE DEF next
<1>7. listed' \in Seq(Seq(Byte)) /\ ListedUpTo(next, device, listed')
  <2>1. CASE next \in OfType(device, USB_DT_INTERFACE)
    BY <2>1, <1>1, <1>2, <1>6, ListStepListed, Zenon DEF next
  <2>2. CASE next \notin OfType(device, USB_DT_INTERFACE)
    BY <2>2, <1>1, <1>2, <1>6, ListStepListed, Zenon DEF next
  <2> QED BY <2>1, <2>2
<1>8. TypeInv'
  BY <1>1, <1>4, <1>5, <1>7, Zenon DEF DescriptorsInv, TypeInv
<1>9. ListLoop'
  BY <1>1, <1>2, <1>3, <1>5, <1>7, Zenon DEF ListLoop, AtDescriptor
<1>10. ImportLoop' /\ StringLoop' /\ OtherSpeedLoop'
  BY <1>1, Zenon DEF ImportLoop, StringLoop, OtherSpeedLoop
<1>11. EndpointsAsDescribed' /\ InterfacesListed'
  BY <1>1, <1>2, Zenon
     DEF DescriptorsInv, EndpointsAsDescribed, InterfacesListed, config_desc
<1>12. OtherSpeedIsFullSpeed' /\ AnswersAsAnnounced'
  BY <1>1, Zenon
     DEF DescriptorsInv, OtherSpeedIsFullSpeed, AnswersAsAnnounced, config_desc
<1> QED BY <1>8, <1>9, <1>10, <1>11, <1>12, Zenon DEF DescriptorsInv

\* A list that is sent in full holds every interface; one that is cut short
\* is not a list.
LEMMA ListedInv ==
    ASSUME DescriptorsInv, Listed \/ ListFails
    PROVE  DescriptorsInv'
<1> DEFINE b == device.config_desc
<1>1. /\ walk = "devlist" /\ walk' = "none" /\ idx' = 0
      /\ device' = device /\ listed' = listed /\ answer' = answer
      /\ endpoints' = endpoints /\ device \in Device
      /\ \/ done' = done
         \/ Len(listed) = At(b, 4) /\ done' = done \cup {"list"}
  BY Zenon DEF Listed, ListFails, Leave, DescriptorsInv, TypeInv, config_desc
<1>2. "list" \notin done /\ ListedUpTo(idx, device, listed)
  BY <1>1, Zenon DEF DescriptorsInv, ListLoop
<1>3. InterfacesListed'
  <2>1. CASE done' = done
    BY <2>1, <1>2, Zenon DEF InterfacesListed
  <2>2. CASE Len(listed) = At(b, 4) /\ done' = done \cup {"list"}
    <3>1. \A p \in Settings(device, FALSE) :
             listed[Number(device, p) + 1] = SubSeq(b, p + 6, p + 8)
      BY <2>2, <1>1, <1>2, ListEnd, Zenon
    <3> QED BY <3>1, <2>2, <1>1, Zenon DEF InterfacesListed, config_desc
  <2> QED BY <2>1, <2>2, <1>1
<1>4. TypeInv'
  BY <1>1, Zenon DEF DescriptorsInv, TypeInv
<1>5. ImportLoop' /\ ListLoop' /\ StringLoop' /\ OtherSpeedLoop'
  BY <1>1, Zenon DEF ImportLoop, ListLoop, StringLoop, OtherSpeedLoop
<1>6. EndpointsAsDescribed'
  <2>1. "import" \in done' => "import" \in done
    BY <1>1
  <2> QED BY <2>1, <1>1, Zenon
             DEF DescriptorsInv, EndpointsAsDescribed, config_desc
<1>7. OtherSpeedIsFullSpeed' /\ AnswersAsAnnounced'
  BY <1>1, Zenon
     DEF DescriptorsInv, OtherSpeedIsFullSpeed, AnswersAsAnnounced, config_desc
<1> QED BY <1>3, <1>4, <1>5, <1>6, <1>7, Zenon DEF DescriptorsInv

\* What a device answers at once is right, and a loop starts with nothing
\* answered.
LEMMA GetDescriptorInv ==
    ASSUME DescriptorsInv, NEW type \in DescriptorType, NEW index \in Index,
           NEW length \in RequestLength, type # USB_DT_STRING => index = 0,
           GetDescriptor(type, index, length)
    PROVE  DescriptorsInv'
<1> DEFINE a == Asked(type, index, length)
           loop == LoopFor(device, type, index)
<1>1. /\ walk = "none" /\ walk' = loop /\ idx' = 0
      /\ answer' = device_request(device, a)
      /\ device' = device /\ endpoints' = endpoints /\ listed' = listed
      /\ done' = done /\ device \in Device
      /\ loop = "other_speed" =>
            buffer' = other_speed_desc(device.config_desc)
  BY Zenon DEF GetDescriptor, Enter, DescriptorsInv, TypeInv, config_desc
<1>2. index \in Byte /\ length \in Nat
  BY RequestAssumption
<1>3. /\ loop = "none" => AnswerOK(device, answer')
      /\ loop # "none" => answer' = a
      /\ answer'.type = OTHER_SPEED_CONFIGURATION => ~ answer'.answered
  BY <1>1, <1>2, GetDescriptorAnswers, Zenon
<1>4. /\ a.type = type /\ a.index = index /\ a.length = length
  BY DEF Asked
<1>5. /\ loop \in {"none", "get_string", "other_speed"}
      /\ loop = "get_string" => type = USB_DT_STRING /\ index > 0
      /\ loop = "other_speed" =>
            type = OTHER_SPEED_CONFIGURATION /\ usb2(device)
  BY DEF LoopFor
<1> HIDE DEF loop, a
<1>6. TypeInv'
  <2>1. walk' \in {"none", "load_endpoints", "devlist", "get_string",
                   "other_speed"}
    BY <1>1, <1>5
  <2> QED BY <2>1, <1>1 DEF DescriptorsInv, TypeInv
<1>7. ImportLoop' /\ ListLoop'
  BY <1>1, <1>5, Zenon DEF ImportLoop, ListLoop
<1>8. StringLoop'
  <2>1. SUFFICES ASSUME loop = "get_string"
                 PROVE  StringLoop'
    BY <1>1, Zenon DEF StringLoop
  <2>2. answer' = Asked(USB_DT_STRING, answer'.index, answer'.length)
    BY <2>1, <1>3, <1>4, <1>5, Zenon DEF a
  <2>3. index \in Byte \ {0}
    BY <2>1, <1>2, <1>5, SMT DEF Byte
  <2>4. 0 < Len(device.usb_strings)
    <3>1. /\ device.usb_strings \in Seq([id : Byte, strlen : Nat])
          /\ device.usb_strings # <<>>
      BY <1>1, TablesAssumption, Zenon DEF StringsOK
    <3> QED BY <3>1, SMT
  <2>5. \A k \in 1 .. 0 : device.usb_strings[k].id # index
    BY SMT
  <2>6. answer'.index = index /\ answer'.length = length
    BY <2>1, <1>3, <1>4, Zenon
  <2> QED BY <2>2, <2>3, <2>4, <2>5, <2>6, <1>1, <1>2, Zenon DEF StringLoop
<1>9. OtherSpeedLoop'
  <2>1. SUFFICES ASSUME loop = "other_speed"
                 PROVE  OtherSpeedLoop'
    BY <1>1, Zenon DEF OtherSpeedLoop
  <2>2. type # USB_DT_STRING
    BY <2>1, <1>5 DEF OTHER_SPEED_CONFIGURATION, USB_DT_STRING
  <2>3. answer' = Asked(OTHER_SPEED_CONFIGURATION, 0, answer'.length)
        /\ answer'.length \in Nat
    BY <2>1, <2>2, <1>2, <1>3, <1>4, <1>5, Zenon DEF a
  <2>4. AtDescriptor(device, 0) /\ RewrittenBefore(0, device, buffer')
    BY <2>1, <1>1, ListStart, RewriteStart, Zenon
  <2> QED BY <2>1, <2>3, <2>4, <1>1, <1>5, Zenon DEF OtherSpeedLoop
<1>10. EndpointsAsDescribed' /\ InterfacesListed'
  BY <1>1, Zenon
     DEF DescriptorsInv, EndpointsAsDescribed, InterfacesListed, config_desc
<1>11. OtherSpeedIsFullSpeed'
  BY <1>3, Zenon DEF OtherSpeedIsFullSpeed
<1>12. AnswersAsAnnounced'
  BY <1>1, <1>3, <1>5, Zenon DEF AnswersAsAnnounced, AnswerOK
<1> QED BY <1>6, <1>7, <1>8, <1>9, <1>10, <1>11, <1>12, Zenon
           DEF DescriptorsInv

\* A report descriptor is answered at once.
LEMMA GetReportInv ==
    ASSUME DescriptorsInv, NEW length \in RequestLength, GetReport(length)
    PROVE  DescriptorsInv'
<1>1. /\ walk = "none" /\ walk' = walk /\ idx' = idx
      /\ answer' = control_data(device, Asked(USB_DT_REPORT, 0, length))
      /\ device' = device /\ endpoints' = endpoints /\ listed' = listed
      /\ done' = done /\ device \in Device
  BY Zenon DEF GetReport, DescriptorsInv, TypeInv
<1>2. length \in Nat
  BY RequestAssumption
<1>3. AnswerOK(device, answer') /\ answer'.type = USB_DT_REPORT
  BY <1>1, <1>2, ReportAnswer, ZenonT(40)
<1>4. TypeInv'
  BY <1>1 DEF DescriptorsInv, TypeInv
<1>5. ImportLoop' /\ ListLoop' /\ StringLoop' /\ OtherSpeedLoop'
  BY <1>1, Zenon DEF ImportLoop, ListLoop, StringLoop, OtherSpeedLoop
<1>6. EndpointsAsDescribed' /\ InterfacesListed'
  BY <1>1, Zenon
     DEF DescriptorsInv, EndpointsAsDescribed, InterfacesListed, config_desc
<1>7. OtherSpeedIsFullSpeed'
  BY <1>3 DEF OtherSpeedIsFullSpeed, USB_DT_REPORT, OTHER_SPEED_CONFIGURATION
<1>8. AnswersAsAnnounced'
  BY <1>1, <1>3, Zenon DEF AnswersAsAnnounced, AnswerOK
<1> QED BY <1>4, <1>5, <1>6, <1>7, <1>8, Zenon DEF DescriptorsInv

\* A step of get_string passes over an entry with another index.
LEMMA NextStringInv ==
    ASSUME DescriptorsInv, NextString
    PROVE  DescriptorsInv'
<1>1. /\ walk = "get_string" /\ walk' = walk /\ idx' = idx + 1
      /\ device' = device /\ endpoints' = endpoints /\ listed' = listed
      /\ answer' = answer /\ done' = done /\ device \in Device /\ idx \in Nat
      /\ device.usb_strings[idx + 1].id # 0
      /\ device.usb_strings[idx + 1].id # answer.index
  BY DEF NextString, usb_string, At, DescriptorsInv, TypeInv
<1>2. /\ answer = Asked(USB_DT_STRING, answer.index, answer.length)
      /\ answer.index \in Byte \ {0} /\ answer.length \in Nat
      /\ idx < Len(device.usb_strings)
      /\ \A k \in 1 .. idx : device.usb_strings[k].id # answer.index
  BY <1>1, Zenon DEF DescriptorsInv, StringLoop
<1>3. /\ idx + 1 < Len(device.usb_strings)
      /\ \A k \in 1 .. idx + 1 : device.usb_strings[k].id # answer.index
  BY <1>1, <1>2, StringStep, Zenon
<1>4. idx + 1 \in Nat
  BY <1>1, SMT
<1>5. TypeInv'
  BY <1>1, <1>4, Zenon DEF DescriptorsInv, TypeInv
<1>6. StringLoop'
  BY <1>1, <1>2, <1>3, Zenon DEF StringLoop
<1>7. ImportLoop' /\ ListLoop' /\ OtherSpeedLoop'
  BY <1>1, Zenon DEF ImportLoop, ListLoop, OtherSpeedLoop
<1>8. EndpointsAsDescribed' /\ InterfacesListed'
  BY <1>1, Zenon
     DEF DescriptorsInv, EndpointsAsDescribed, InterfacesListed, config_desc
<1>9. OtherSpeedIsFullSpeed' /\ AnswersAsAnnounced'
  BY <1>1, Zenon
     DEF DescriptorsInv, OtherSpeedIsFullSpeed, AnswersAsAnnounced, config_desc
<1> QED BY <1>5, <1>6, <1>7, <1>8, <1>9, Zenon DEF DescriptorsInv

\* get_string ends with the first string of the index, or without an answer
\* if there is none.
LEMMA StringInv ==
    ASSUME DescriptorsInv, StringFound \/ NoString
    PROVE  DescriptorsInv'
<1> DEFINE s == device.usb_strings[idx + 1]
           string == string_buffer(s.strlen)
<1>1. /\ walk = "get_string" /\ walk' = "none" /\ idx' = 0
      /\ device' = device /\ endpoints' = endpoints /\ listed' = listed
      /\ done' = done /\ device \in Device /\ idx \in Nat
      /\ \/ s.id = answer.index /\ answer' = Reply(answer, string, string[1])
         \/ s.id = 0 /\ answer' = answer
  BY Zenon DEF StringFound, NoString, Leave, usb_string, At, DescriptorsInv,
               TypeInv
<1>2. /\ answer = Asked(USB_DT_STRING, answer.index, answer.length)
      /\ answer.index \in Byte \ {0} /\ answer.length \in Nat
      /\ idx < Len(device.usb_strings)
      /\ \A k \in 1 .. idx : device.usb_strings[k].id # answer.index
  BY <1>1, Zenon DEF DescriptorsInv, StringLoop
<1>3. /\ idx + 1 \in DOMAIN device.usb_strings
      /\ s.id = answer.index => IsString(device, idx + 1, answer.index)
      /\ s.id = 0 =>
            ~ Has(device, Asked(USB_DT_STRING, answer.index, answer.length))
  BY <1>1, <1>2, StringStep, Zenon
<1>4. AnswerOK(device, answer')
  <2>1. CASE s.id = answer.index /\ answer' = Reply(answer, string, string[1])
    <3> DEFINE i == answer.index
               l == answer.length
    <3>1. IsString(device, idx + 1, i)
      BY <2>1, <1>3
    <3>2. AnswerOK(device, Reply(Asked(USB_DT_STRING, i, l),
                                 string, string[1]))
      BY <3>1, <1>1, <1>2, <1>3, StringAnswer, Zenon
    <3> QED BY <3>2, <2>1, <1>2, Zenon
  <2>2. CASE s.id = 0 /\ answer' = answer
    BY <2>2, <1>2, <1>3, NotAnswered, Zenon
  <2> QED BY <2>1, <2>2, <1>1
<1>5. answer'.type = USB_DT_STRING
  <2> DEFINE i == answer.index
             l == answer.length
             a == Asked(USB_DT_STRING, i, l)
  <2>1. answer = a
    BY <1>2, Zenon
  <2>2. answer' = Reply(a, string, string[1]) \/ answer' = a
    BY <2>1, <1>1, Zenon
  <2> HIDE DEF i, l
  <2>3. /\ a.type = USB_DT_STRING
        /\ Reply(a, string, string[1]).type = USB_DT_STRING
    BY ReplyType
  <2> QED BY <2>2, <2>3
<1>6. TypeInv'
  BY <1>1 DEF DescriptorsInv, TypeInv
<1>7. ImportLoop' /\ ListLoop' /\ StringLoop' /\ OtherSpeedLoop'
  BY <1>1, Zenon DEF ImportLoop, ListLoop, StringLoop, OtherSpeedLoop
<1>8. EndpointsAsDescribed' /\ InterfacesListed'
  BY <1>1, Zenon
     DEF DescriptorsInv, EndpointsAsDescribed, InterfacesListed, config_desc
<1>9. OtherSpeedIsFullSpeed'
  BY <1>5 DEF OtherSpeedIsFullSpeed, USB_DT_STRING, OTHER_SPEED_CONFIGURATION
<1>10. AnswersAsAnnounced'
  BY <1>1, <1>4, Zenon DEF AnswersAsAnnounced, AnswerOK
<1> QED BY <1>6, <1>7, <1>8, <1>9, <1>10, Zenon DEF DescriptorsInv

\* A step of build_other_speed_config rewrites the endpoint it stands at.
LEMMA RewriteEndpointInv ==
    ASSUME DescriptorsInv, RewriteEndpoint
    PROVE  DescriptorsInv'
<1>1. /\ walk = "other_speed" /\ walk' = walk /\ idx' = idx + At(buffer, idx)
      /\ device' = device /\ endpoints' = endpoints /\ listed' = listed
      /\ answer' = answer /\ done' = done /\ device \in Device
      /\ idx + 7 <= Len(buffer)
      /\ buffer' = IF At(buffer, idx + 1) = USB_DT_ENDPOINT
                   THEN FullSpeedEndpoint(buffer, idx) ELSE buffer
  BY Zenon DEF RewriteEndpoint, InLoop, USB_DT_ENDPOINT_SIZE,
               DescriptorsInv, TypeInv
<1>2. /\ answer = Asked(OTHER_SPEED_CONFIGURATION, 0, answer.length)
      /\ answer.length \in Nat /\ usb2(device)
      /\ AtDescriptor(device, idx) /\ RewrittenBefore(idx, device, buffer)
  BY <1>1, Zenon DEF DescriptorsInv, OtherSpeedLoop
<1>3. AtDescriptor(device, idx') /\ RewrittenBefore(idx', device, buffer')
  BY <1>1, <1>2, RewriteStep, Zenon
<1>4. idx' \in Nat
  BY <1>1, <1>3, DescriptorPlace, Zenon
<1>5. TypeInv'
  BY <1>1, <1>4, Zenon DEF DescriptorsInv, TypeInv
<1>6. OtherSpeedLoop'
  BY <1>1, <1>2, <1>3, Zenon DEF OtherSpeedLoop
<1>7. ImportLoop' /\ ListLoop' /\ StringLoop'
  BY <1>1, Zenon DEF ImportLoop, ListLoop, StringLoop
<1>8. EndpointsAsDescribed' /\ InterfacesListed'
  BY <1>1, Zenon
     DEF DescriptorsInv, EndpointsAsDescribed, InterfacesListed, config_desc
<1>9. OtherSpeedIsFullSpeed' /\ AnswersAsAnnounced'
  BY <1>1, Zenon
     DEF DescriptorsInv, OtherSpeedIsFullSpeed, AnswersAsAnnounced, config_desc
<1> QED BY <1>5, <1>6, <1>7, <1>8, <1>9, Zenon DEF DescriptorsInv

\* The rewritten configuration is sent.
LEMMA RewrittenInv ==
    ASSUME DescriptorsInv, Rewritten
    PROVE  DescriptorsInv'
<1>1. /\ walk = "other_speed" /\ walk' = "none" /\ idx' = 0
      /\ device' = device /\ endpoints' = endpoints /\ listed' = listed
      /\ answer' = Reply(answer, buffer, Len(buffer)) /\ done' = done
      /\ device \in Device
      /\ ~ (idx + 7 <= Len(buffer) /\ At(buffer, idx) > 0)
  BY Zenon DEF Rewritten, Leave, InLoop, USB_DT_ENDPOINT_SIZE,
               DescriptorsInv, TypeInv
<1>2. /\ answer = Asked(OTHER_SPEED_CONFIGURATION, 0, answer.length)
      /\ answer.length \in Nat /\ usb2(device)
      /\ AtDescriptor(device, idx) /\ RewrittenBefore(idx, device, buffer)
  BY <1>1, Zenon DEF DescriptorsInv, OtherSpeedLoop
<1>3. OtherSpeedOf(device, buffer)
  BY <1>1, <1>2, RewriteEnd, Zenon
<1>4. /\ AnswerOK(device, answer') /\ answer'.length = answer.length
      /\ answer.length >= Len(device.config_desc) =>
            OtherSpeedOf(device, answer'.bytes)
  <2> DEFINE l == answer.length
             r == Reply(Asked(OTHER_SPEED_CONFIGURATION, 0, l),
                        buffer, Len(buffer))
  <2>1. answer' = r /\ l \in Nat
    BY <1>1, <1>2, Zenon
  <2> HIDE DEF l
  <2>2. /\ AnswerOK(device, r) /\ r.length = l
        /\ l >= Len(device.config_desc) => OtherSpeedOf(device, r.bytes)
    BY <2>1, <1>1, <1>2, <1>3, OtherSpeedAnswer, SMTT(30)
  <2> QED BY <2>1, <2>2, Zenon DEF l
<1>5. TypeInv'
  BY <1>1, Zenon DEF DescriptorsInv, TypeInv
<1>6. ImportLoop' /\ ListLoop' /\ StringLoop' /\ OtherSpeedLoop'
  BY <1>1, Zenon DEF ImportLoop, ListLoop, StringLoop, OtherSpeedLoop
<1>7. EndpointsAsDescribed' /\ InterfacesListed'
  BY <1>1, Zenon
     DEF DescriptorsInv, EndpointsAsDescribed, InterfacesListed, config_desc
<1>8. OtherSpeedIsFullSpeed'
  BY <1>1, <1>4, Zenon DEF OtherSpeedIsFullSpeed, config_desc
<1>9. AnswersAsAnnounced'
  BY <1>1, <1>4, Zenon DEF AnswersAsAnnounced, AnswerOK
<1> QED BY <1>5, <1>6, <1>7, <1>8, <1>9, Zenon DEF DescriptorsInv

\* Every step keeps the invariant.
LEMMA NextInv ==
    ASSUME DescriptorsInv, [Next]_descriptorVars
    PROVE  DescriptorsInv'
<1>1. CASE Import
  BY <1>1, ImportInv
<1>2. CASE LoadEndpoint
  BY <1>2, LoadEndpointInv
<1>3. CASE Imported \/ ImportFails
  BY <1>3, ImportedInv
<1>4. CASE List
  BY <1>4, ListInv
<1>5. CASE NextInterface
  BY <1>5, NextInterfaceInv
<1>6. CASE ListFails \/ Listed
  BY <1>6, ListedInv
<1>7. CASE \E type \in DescriptorType, index \in Index,
              length \in RequestLength :
              /\ type # USB_DT_STRING => index = 0
              /\ GetDescriptor(type, index, length)
  BY <1>7, GetDescriptorInv
<1>8. CASE \E length \in RequestLength : GetReport(length)
  BY <1>8, GetReportInv
<1>9. CASE NextString
  BY <1>9, NextStringInv
<1>10. CASE StringFound \/ NoString
  BY <1>10, StringInv
<1>11. CASE RewriteEndpoint
  BY <1>11, RewriteEndpointInv
<1>12. CASE Rewritten
  BY <1>12, RewrittenInv
<1>13. CASE UNCHANGED descriptorVars
  <2>1. /\ device' = device /\ endpoints' = endpoints /\ listed' = listed
        /\ answer' = answer /\ done' = done /\ walk' = walk /\ idx' = idx
        /\ buffer' = buffer
    BY <1>13 DEF descriptorVars
  <2>2. TypeInv' /\ ImportLoop' /\ ListLoop' /\ StringLoop' /\ OtherSpeedLoop'
    BY <2>1, Zenon DEF DescriptorsInv, TypeInv, ImportLoop, ListLoop,
                       StringLoop, OtherSpeedLoop
  <2>3. EndpointsAsDescribed' /\ InterfacesListed'
    BY <2>1, Zenon DEF DescriptorsInv, EndpointsAsDescribed,
                       InterfacesListed, config_desc
  <2>4. OtherSpeedIsFullSpeed' /\ AnswersAsAnnounced'
    BY <2>1, Zenon DEF DescriptorsInv, OtherSpeedIsFullSpeed,
                       AnswersAsAnnounced, config_desc
  <2> QED BY <2>2, <2>3, <2>4, Zenon DEF DescriptorsInv
<1> QED BY <1>1, <1>2, <1>3, <1>4, <1>5, <1>6, <1>7, <1>8, <1>9, <1>10,
           <1>11, <1>12, <1>13, Zenon DEF Next

\* The loops stand at descriptors, and what they have found so far is what
\* the descriptors behind them say.
THEOREM DescriptorsInvariant == Spec => []DescriptorsInv
BY InitInv, NextInv, PTL DEF Spec

-----------------------------------------------------------------------------
(* What the host learns.                                                   *)

\* After an import, load_endpoints has given every endpoint the type and the
\* pace its descriptors give it, for every table of descriptors.
THEOREM LoadsTheEndpoints == Spec => []EndpointsAsDescribed
<1>1. DescriptorsInv => EndpointsAsDescribed
  BY DEF DescriptorsInv
<1> QED BY <1>1, DescriptorsInvariant, PTL

\* The device list holds every interface once, with the class of its first
\* setting, for every table of descriptors.
THEOREM ListsTheInterfaces == Spec => []InterfacesListed
<1>1. DescriptorsInv => InterfacesListed
  BY DEF DescriptorsInv
<1> QED BY <1>1, DescriptorsInvariant, PTL

\* What build_other_speed_config makes of a configuration is one of a full
\* speed device, with everything but its endpoints as it was, for every table
\* and every size of the control buffer.
THEOREM OtherSpeedConfiguration == Spec => []OtherSpeedIsFullSpeed
<1>1. DescriptorsInv => OtherSpeedIsFullSpeed
  BY DEF DescriptorsInv
<1> QED BY <1>1, DescriptorsInvariant, PTL

\* A host gets the descriptors the device has and no others, with the length
\* they announce as far as it asks for it and the buffer holds it.
THEOREM AnswersTheHost == Spec => []AnswersAsAnnounced
<1>1. DescriptorsInv => AnswersAsAnnounced
  BY DEF DescriptorsInv
<1> QED BY <1>1, DescriptorsInvariant, PTL

\* Until all interfaces are listed there is a descriptor to go on to, and a
\* whole interface descriptor where get_next_interface_idx stops; the string
\* table does not end before get_string does.
ReadsInside ==
    /\ walk = "devlist" /\ Len(listed) < At(config_desc, 4) =>
          LET next == get_next_interface_idx(config_desc, idx)
          IN /\ idx < total_length(config_desc)
             /\ next + 1 < Len(config_desc)
             /\ At(config_desc, next + 1) = USB_DT_INTERFACE =>
                   next + 9 <= Len(config_desc)
    /\ walk = "get_string" => idx < Len(device.usb_strings)

\* transmit_devlist_response and get_string, whose loops do not check where
\* the table ends, stay inside it.
THEOREM LoopsReadInside == Spec => []ReadsInside
<1>1. ASSUME DescriptorsInv
      PROVE  ReadsInside
  <2> DEFINE b == device.config_desc
             next == idx + At(b, idx)
  <2>1. walk = "get_string" => idx < Len(device.usb_strings)
    BY <1>1, Zenon DEF DescriptorsInv, StringLoop
  <2>2. ASSUME walk = "devlist", Len(listed) < At(b, 4)
        PROVE  /\ idx < total_length(b)
               /\ get_next_interface_idx(b, idx) = next
               /\ next + 1 < Len(b)
               /\ At(b, next + 1) = USB_DT_INTERFACE => next + 9 <= Len(b)
    <3>1. /\ AtDescriptor(device, idx) /\ ListedUpTo(idx, device, listed)
          /\ device \in Device /\ listed \in Seq(Seq(Byte))
      BY <1>1, <2>2, Zenon DEF DescriptorsInv, ListLoop, TypeInv
    <3>2. idx \in device.starts /\ next \in device.starts
      BY <2>2, <3>1, ListStep, ZenonT(40)
    <3>3. total_length(b) = Len(b) /\ Len(b) \in Nat
      BY <3>1, ConfigBytes, TablesAssumption DEF TableOK
    <3>4. idx \in Nat /\ idx + 2 <= Len(b) /\ next \in Nat
          /\ next + 2 <= Len(b)
      BY <3>1, <3>2, NextDescriptor
    <3>5. idx < total_length(b) /\ next + 1 < Len(b)
      BY <3>3, <3>4, SMT
    <3>6. get_next_interface_idx(b, idx) = next
      BY <3>5, Zenon DEF get_next_interface_idx
    <3>7. At(b, next + 1) = USB_DT_INTERFACE => next + 9 <= Len(b)
      BY <3>1, <3>2, SettingPlace, Zenon DEF OfType
    <3> QED BY <3>5, <3>6, <3>7
  <2> HIDE DEF next
  <2> QED BY <2>1, <2>2, Zenon DEF ReadsInside, config_desc
<1> QED BY <1>1, DescriptorsInvariant, PTL

=============================================================================
