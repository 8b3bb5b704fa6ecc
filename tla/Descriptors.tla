----------------------------- MODULE Descriptors -----------------------------
(***************************************************************************)
(* What a host learns of a device before it uses it: load_endpoints and    *)
(* the interfaces of the device list in src/lib/usbip_protocol.c, which    *)
(* walk over the configuration, and the answers to GET_DESCRIPTOR in       *)
(* src/lib/usbip_device.c, the configuration for a full speed host and the *)
(* strings among them.                                                     *)
(*                                                                         *)
(* A configuration is a table of bytes.  The code finds the descriptors in *)
(* it by adding up their lengths, one step of a loop at a time; each step  *)
(* is an action here, and nothing else happens until the loop is left.     *)
(* Where the descriptors really start is part of a device, and only the    *)
(* properties look at it.  A read outside a table stops TLC.               *)
(***************************************************************************)
EXTENDS Naturals, Sequences

CONSTANTS Device,                   \* the tables a device may have
          Index,                    \* string descriptors a host asks for
          RequestLength,            \* how much it asks for
          ENDPOINT_MAX_DATA_LENGTH

USB_DT_DEVICE == 1
USB_DT_CONFIGURATION == 2
USB_DT_STRING == 3
USB_DT_INTERFACE == 4
USB_DT_ENDPOINT == 5
DEVICE_QUALIFIER == 6
OTHER_SPEED_CONFIGURATION == 7
USB_DT_HID == 33
USB_DT_REPORT == 34
USB_DT_ENDPOINT_SIZE == 7
CONTROL == 0
ISOC == 1
BULK == 2
INT == 3
FULL_SPEED_MAX_PACKET_SIZE == 64
FULL_SPEED_MAX_ISO_PACKET_SIZE == 1023

\* a device may be asked for a type it does not know, here 8
DescriptorType == {USB_DT_DEVICE, USB_DT_CONFIGURATION, USB_DT_STRING,
                   DEVICE_QUALIFIER, OTHER_SPEED_CONFIGURATION, 8}

\* byte i of a table, counted from 0
At(bytes, i) == bytes[i + 1]
Word(bytes, i) == At(bytes, i) + 256 * At(bytes, i + 1)
total_length(bytes) == Word(bytes, 2)

Byte == 0 .. 255

\* the descriptors of a type, by their places
OfType(d, type) == {p \in d.starts : At(d.config_desc, p + 1) = type}

\* The tables: a configuration is as long as it says and consists of
\* descriptors that are as long as they say, the header first.
TableOK(d) ==
    LET b == d.config_desc
    IN /\ b \in Seq(Byte)
       /\ Len(b) >= 9
       /\ total_length(b) = Len(b)
       /\ At(b, 1) = USB_DT_CONFIGURATION
       /\ 0 \in d.starts
       /\ \A p \in d.starts :
             /\ p \in 0 .. Len(b) - 2
             /\ At(b, p) >= 2
             /\ p + At(b, p) \in d.starts \cup {Len(b)}
             /\ \A q \in d.starts : q <= p \/ q >= p + At(b, p)
       /\ \A p \in OfType(d, USB_DT_ENDPOINT) :
             At(b, p) >= USB_DT_ENDPOINT_SIZE
       /\ \A p \in OfType(d, USB_DT_INTERFACE) : At(b, p) >= 9

\* The interfaces are numbered in the order of their descriptors; only the
\* last one has alternate settings.
Settings(d, alternate) ==
    {p \in OfType(d, USB_DT_INTERFACE) :
        (At(d.config_desc, p + 3) # 0) = alternate}
Number(d, p) == At(d.config_desc, p + 2)
InterfacesOK(d) ==
    /\ \A n \in 0 .. At(d.config_desc, 4) - 1 :
          \E p \in Settings(d, FALSE) : Number(d, p) = n
    /\ \A p \in Settings(d, FALSE) :
          /\ Number(d, p) < At(d.config_desc, 4)
          /\ \A q \in Settings(d, FALSE) : p < q => Number(d, p) < Number(d, q)
          /\ \A q \in Settings(d, TRUE) : p < q

\* A string table ends with the first entry 0, and a device has a report
\* descriptor if a HID descriptor announces it.
StringsOK(d) ==
    /\ d.usb_strings \in Seq([id : Byte, strlen : Nat])
    /\ d.usb_strings # <<>>
    /\ \A k \in DOMAIN d.usb_strings :
          (d.usb_strings[k].id = 0) <=> (k = Len(d.usb_strings))
ReportOK(d) ==
    /\ d.report \in Seq(Byte)
    /\ (d.report = <<>>) <=> (OfType(d, USB_DT_HID) = {})
    /\ \A p \in OfType(d, USB_DT_HID) :
          /\ p + 9 <= Len(d.config_desc)
          /\ Word(d.config_desc, p + 7) = Len(d.report)

ASSUME TablesAssumption ==
    \A d \in Device :
        /\ TableOK(d) /\ InterfacesOK(d) /\ StringsOK(d) /\ ReportOK(d)
        /\ d.device_desc \in Seq(Byte)
        /\ Len(d.device_desc) = 18
        /\ d.device_desc[1] = 18 /\ d.device_desc[2] = USB_DT_DEVICE
        /\ d.langid_desc \in Seq(Byte)
        /\ Len(d.langid_desc) >= 2
        /\ d.langid_desc[1] = Len(d.langid_desc)
        /\ d.langid_desc[2] = USB_DT_STRING
ASSUME RequestAssumption ==
    /\ Index \subseteq Byte
    /\ RequestLength \subseteq Nat
    /\ ENDPOINT_MAX_DATA_LENGTH \in Nat
    /\ ENDPOINT_MAX_DATA_LENGTH >= 9

VARIABLES device,       \* the device's tables
          endpoints,    \* type and interval_us per direction and number
          listed,       \* the interfaces in the last device list
          answer,       \* the last descriptor asked for, and the answer
          done,         \* whether the device is listed, and imported
          walk,         \* the loop the server is in
          idx,          \* where in a table the loop is
          buffer        \* the configuration it rewrites

descriptorVars ==
    <<device, endpoints, listed, answer, done, walk, idx, buffer>>

config_desc == device.config_desc

\* The server enters a loop at the start of a table, and leaves it.
Enter(loop) == walk = "none" /\ walk' = loop /\ idx' = 0
Leave(loop) == walk = loop /\ walk' = "none" /\ idx' = 0

-----------------------------------------------------------------------------
(* load_endpoints                                                          *)

Unknown == [type |-> 0, interval_us |-> 0]
NoEndpoints == [in \in BOOLEAN |-> [n \in 0 .. 15 |-> Unknown]]

AtMost(a, b) == IF a > b THEN b ELSE a

interval_us_Linear(bInterval) == 125 * bInterval
interval_us(bInterval) == 125 * 2^(AtMost(bInterval, 16) - 1)

\* the endpoint after the descriptor at i
Loaded(endpoint, bytes, i, in) ==
    LET type == At(bytes, i + 3) % 4
        paced == type = ISOC \/ (in /\ type = INT)
        bInterval == At(bytes, i + 6)
    IN [type |-> type,
        interval_us |-> IF paced /\ bInterval > 0 THEN interval_us(bInterval)
                        ELSE endpoint.interval_us]

\* the condition of the loops over the descriptors of a table
InLoop(bytes, length) ==
    idx + USB_DT_ENDPOINT_SIZE <= length /\ At(bytes, idx) > 0

Import ==
    /\ Enter("load_endpoints")
    /\ endpoints' = NoEndpoints
    /\ done' = done \ {"import"}
    /\ UNCHANGED <<device, listed, answer, buffer>>

LoadEndpoint ==
    /\ walk = "load_endpoints"
    /\ InLoop(config_desc, total_length(config_desc))
    /\ LET address == At(config_desc, idx + 2)
           in == address >= 128
       IN endpoints' =
            IF At(config_desc, idx + 1) = USB_DT_ENDPOINT
            THEN [endpoints EXCEPT ![in][address % 16] =
                     Loaded(@, config_desc, idx, in)]
            ELSE endpoints
    /\ idx' = idx + At(config_desc, idx)
    /\ UNCHANGED <<device, listed, answer, done, walk, buffer>>

Imported ==
    /\ Leave("load_endpoints")
    /\ ~ InLoop(config_desc, total_length(config_desc))
    /\ done' = done \cup {"import"}
    /\ UNCHANGED <<device, endpoints, listed, answer, buffer>>

\* the reply cannot be written, and the device is not imported
ImportFails ==
    /\ Leave("load_endpoints")
    /\ ~ InLoop(config_desc, total_length(config_desc))
    /\ UNCHANGED <<device, endpoints, listed, answer, done, buffer>>

-----------------------------------------------------------------------------
(* transmit_devlist_response                                               *)

List ==
    /\ Enter("devlist")
    /\ listed' = <<>>
    /\ done' = done \ {"list"}
    /\ UNCHANGED <<device, endpoints, answer, buffer>>

\* a step of the loop in get_next_interface_idx
get_next_interface_idx_ChecksFirst(bytes, i) ==
    IF i > 0 /\ At(bytes, i + 1) = USB_DT_INTERFACE THEN i
    ELSE i + At(bytes, i)
get_next_interface_idx(bytes, i) ==
    IF i < total_length(bytes) THEN i + At(bytes, i) ELSE i

\* class, subclass and protocol of the interface found are sent
NextInterface ==
    LET next == get_next_interface_idx(config_desc, idx)
    IN /\ walk = "devlist"
       /\ Len(listed) < At(config_desc, 4)
       /\ listed' =
            IF \/ idx >= total_length(config_desc)
               \/ At(config_desc, next + 1) = USB_DT_INTERFACE
            THEN Append(listed, SubSeq(config_desc, next + 6, next + 8))
            ELSE listed
       /\ idx' = next
       /\ UNCHANGED <<device, endpoints, answer, done, walk, buffer>>

\* the connection is lost on the way
ListFails ==
    /\ Leave("devlist")
    /\ UNCHANGED <<device, endpoints, listed, answer, done, buffer>>

Listed ==
    /\ Leave("devlist")
    /\ Len(listed) = At(config_desc, 4)
    /\ done' = done \cup {"list"}
    /\ UNCHANGED <<device, endpoints, listed, answer, buffer>>

-----------------------------------------------------------------------------
(* device_request                                                          *)

\* usbip_device_transmit on the control endpoint
Asked(type, index, length) ==
    [type |-> type, index |-> index, length |-> length,
     answered |-> FALSE, bytes |-> <<>>]
Transmit(asked, bytes) ==
    LET data_length == AtMost(Len(bytes), ENDPOINT_MAX_DATA_LENGTH)
    IN [asked EXCEPT !.answered = TRUE,
                     !.bytes = SubSeq(bytes, 1, data_length)]

\* as much as is asked for of what a descriptor's own length makes of it
Reply(asked, bytes, own_length) ==
    Transmit(asked, SubSeq(bytes, 1, AtMost(asked.length, own_length)))

qualifier_desc(d) ==
    <<10, DEVICE_QUALIFIER, d[3], d[4], d[5], d[6], d[7], d[8], d[18], 0>>

usb2(d) == At(d.device_desc, 3) >= 2

\* the answers that need no loop
device_request(d, asked) ==
    CASE asked.type = USB_DT_DEVICE ->
           Reply(asked, d.device_desc, d.device_desc[1])
      [] asked.type = USB_DT_CONFIGURATION ->
           Reply(asked, d.config_desc, total_length(d.config_desc))
      [] asked.type = DEVICE_QUALIFIER /\ usb2(d) ->
           Reply(asked, qualifier_desc(d.device_desc), 10)
      [] asked.type = USB_DT_STRING /\ asked.index = 0 ->
           Reply(asked, d.langid_desc, d.langid_desc[1])
      [] OTHER -> asked

\* the copy build_other_speed_config starts with
other_speed_desc(bytes) ==
    [SubSeq(bytes, 1, AtMost(total_length(bytes), ENDPOINT_MAX_DATA_LENGTH))
        EXCEPT ![2] = OTHER_SPEED_CONFIGURATION]

\* the loop the others need
LoopFor(d, type, index) ==
    CASE type = USB_DT_STRING /\ index > 0 -> "get_string"
      [] type = OTHER_SPEED_CONFIGURATION /\ usb2(d) -> "other_speed"
      [] OTHER -> "none"

\* a host that has imported the device asks for a descriptor
GetDescriptor(type, index, length) ==
    /\ "import" \in done
    /\ answer' = device_request(device, Asked(type, index, length))
    /\ Enter(LoopFor(device, type, index))
    /\ buffer' =
         IF walk' = "other_speed" THEN other_speed_desc(config_desc) ELSE <<>>
    /\ UNCHANGED <<device, endpoints, listed, done>>

\* the callback of a HID device; the others do not answer
control_data(d, asked) ==
    IF d.report = <<>> THEN asked ELSE Reply(asked, d.report, Len(d.report))

GetReport(length) ==
    /\ "import" \in done
    /\ walk = "none"
    /\ answer' = control_data(device, Asked(USB_DT_REPORT, 0, length))
    /\ UNCHANGED <<device, endpoints, listed, done, walk, idx, buffer>>

-----------------------------------------------------------------------------
(* get_string                                                              *)

\* how many characters of a string fit
StringLength_NotCut(strlen) == strlen
StringLength(strlen) == AtMost(strlen, 126)

\* 16 bit characters, all of them alike
string_buffer(strlen) ==
    LET string_len == StringLength(strlen)
    IN [i \in 1 .. 2 * string_len + 2 |->
           CASE i = 1 -> (2 * string_len + 2) % 256
             [] i = 2 -> USB_DT_STRING
             [] OTHER -> IF i % 2 = 1 THEN 97 ELSE 0]

usb_string == At(device.usb_strings, idx)

NextString ==
    /\ walk = "get_string"
    /\ usb_string.id \notin {0, answer.index}
    /\ idx' = idx + 1
    /\ UNCHANGED <<device, endpoints, listed, answer, done, walk, buffer>>

StringFound ==
    LET string == string_buffer(usb_string.strlen)
    IN /\ Leave("get_string")
       /\ usb_string.id = answer.index
       /\ answer' = Reply(answer, string, string[1])
       /\ UNCHANGED <<device, endpoints, listed, done, buffer>>

NoString ==
    /\ Leave("get_string")
    /\ usb_string.id = 0 /\ answer.index # 0
    /\ UNCHANGED <<device, endpoints, listed, answer, done, buffer>>

-----------------------------------------------------------------------------
(* build_other_speed_config                                                *)

\* wMaxPacketSize of an endpoint for a full speed host
FullSpeedSize(type, size) ==
    CASE type \in {BULK, INT} -> AtMost(size, FULL_SPEED_MAX_PACKET_SIZE)
      [] type = ISOC -> AtMost(size % 2048, FULL_SPEED_MAX_ISO_PACKET_SIZE)
      [] OTHER -> size

\* its bInterval
FullSpeedInterval_NoMinimum(type, bInterval) ==
    IF type = INT /\ bInterval > 0
    THEN AtMost(2^(AtMost(bInterval, 16) - 1) \div 8, 255) ELSE bInterval
FullSpeedInterval(type, bInterval) ==
    CASE type = INT /\ bInterval > 0 ->
           LET interval_ms == 2^(AtMost(bInterval, 16) - 1) \div 8
           IN IF interval_ms < 1 THEN 1 ELSE AtMost(interval_ms, 255)
      [] type = ISOC -> IF bInterval > 3 THEN bInterval - 3 ELSE 1
      [] OTHER -> bInterval

\* the table with the endpoint at i rewritten
FullSpeedEndpoint(bytes, i) ==
    LET type == At(bytes, i + 3) % 4
        size == FullSpeedSize(type, Word(bytes, i + 4))
    IN [bytes EXCEPT ![i + 5] = size % 256,
                     ![i + 6] = size \div 256,
                     ![i + 7] = FullSpeedInterval(type, @)]

RewriteEndpoint ==
    /\ walk = "other_speed"
    /\ InLoop(buffer, Len(buffer))
    /\ buffer' = IF At(buffer, idx + 1) = USB_DT_ENDPOINT
                 THEN FullSpeedEndpoint(buffer, idx) ELSE buffer
    /\ idx' = idx + At(buffer, idx)
    /\ UNCHANGED <<device, endpoints, listed, answer, done, walk>>

Rewritten ==
    /\ Leave("other_speed")
    /\ ~ InLoop(buffer, Len(buffer))
    /\ answer' = Reply(answer, buffer, Len(buffer))
    /\ buffer' = <<>>
    /\ UNCHANGED <<device, endpoints, listed, done>>

-----------------------------------------------------------------------------
(* A host lists the device, imports it and asks for descriptors.           *)

Init ==
    /\ device \in Device
    /\ endpoints = NoEndpoints
    /\ listed = <<>>
    /\ answer = Asked(0, 0, 0)
    /\ done = {}
    /\ walk = "none"
    /\ idx = 0
    /\ buffer = <<>>

Next == \/ Import \/ LoadEndpoint \/ Imported \/ ImportFails
        \/ List \/ NextInterface \/ ListFails \/ Listed
        \/ \E type \in DescriptorType, index \in Index,
              length \in RequestLength :
              /\ type # USB_DT_STRING => index = 0
              /\ GetDescriptor(type, index, length)
        \/ \E length \in RequestLength : GetReport(length)
        \/ NextString \/ StringFound \/ NoString
        \/ RewriteEndpoint \/ Rewritten

Spec == Init /\ [][Next]_descriptorVars

-----------------------------------------------------------------------------
(* Reference definitions and properties.                                   *)

\* the descriptors of an endpoint, and those that give it a pace
Described(d, in, n) ==
    {p \in OfType(d, USB_DT_ENDPOINT) :
        LET address == At(d.config_desc, p + 2)
        IN (address >= 128) = in /\ address % 16 = n}
Pacing(d, in, n) ==
    {p \in Described(d, in, n) :
        /\ At(d.config_desc, p + 3) % 4 \in IF in THEN {ISOC, INT} ELSE {ISOC}
        /\ At(d.config_desc, p + 6) > 0}

IsLast(places, p) == p \in places /\ \A q \in places : q <= p

\* an endpoint is as the last of the descriptors before i that are about it
AsDescribedBefore(i, endpoint, d, in, n) ==
    LET described == {p \in Described(d, in, n) : p < i}
        pacing == {p \in Pacing(d, in, n) : p < i}
    IN /\ described = {} => endpoint.type = 0
       /\ pacing = {} => endpoint.interval_us = 0
       /\ \A p \in d.starts :
             /\ IsLast(described, p) =>
                   endpoint.type = At(d.config_desc, p + 3) % 4
             /\ IsLast(pacing, p) =>
                   endpoint.interval_us =
                      125 * 2^(AtMost(At(d.config_desc, p + 6), 16) - 1)

\* After an import, an endpoint has the transfer type of its last descriptor,
\* and it is paced at the interval of the last one that gives one,
\* 2^(bInterval - 1) microframes, as only isochronous and interrupt IN
\* endpoints do; whatever class descriptors of whatever lengths the walk of
\* load_endpoints passes, and wherever in the table the endpoint is.
EndpointsAsDescribed ==
    "import" \in done =>
        \A in \in BOOLEAN, n \in 0 .. 15 :
            AsDescribedBefore(Len(config_desc), endpoints[in][n],
                              device, in, n)

\* The device list holds one entry per interface, in the order of their
\* numbers, with the class of its alternate setting 0.
InterfacesListed ==
    "list" \in done =>
        /\ Len(listed) = At(config_desc, 4)
        /\ \A p \in Settings(device, FALSE) :
              listed[Number(device, p) + 1] = SubSeq(config_desc, p + 6, p + 8)

\* how long a full speed host waits between two packets, in microseconds
FullSpeedPeriod(type, bInterval) ==
    IF type = ISOC THEN 1000 * 2^(bInterval - 1) ELSE 1000 * bInterval

\* The packets of an endpoint are as large as before where full speed allows
\* that, and its period is the same as far as full speed can express it:
\* never shorter than 1 ms, for interrupts never longer than 255 ms.
IsFullSpeed(bytes, original, p) ==
    LET type == At(original, p + 3) % 4
        size == Word(original, p + 4)
        limit == IF type = ISOC THEN 1023 ELSE 64
        exponent == At(original, p + 6)
        period == 125 * 2^(AtMost(exponent, 16) - 1)
        packet == Word(bytes, p + 4)
        full_speed == FullSpeedPeriod(type, At(bytes, p + 6))
    IN /\ type # CONTROL => packet <= limit
       /\ size <= limit => packet = size
       /\ (\/ type = INT /\ exponent > 0
           \/ type = ISOC /\ exponent \in 1 .. 16) =>
            /\ full_speed >= 1000
            /\ period < 1000 => full_speed = 1000
            /\ period >= 1000 /\ period <= 255000 => full_speed = period
            /\ type = INT /\ period > 255000 => full_speed = 255000

\* the endpoints that are in a table cut to a length
Within(d, length) ==
    {p \in OfType(d, USB_DT_ENDPOINT) : p + USB_DT_ENDPOINT_SIZE <= length}

\* a full speed configuration made of a device's own
OtherSpeedOf(d, b) ==
    LET within == Within(d, Len(b))
    IN /\ Len(b) = AtMost(Len(d.config_desc), ENDPOINT_MAX_DATA_LENGTH)
       /\ \A i \in 1 .. Len(b) :
             \/ b[i] = d.config_desc[i]
             \/ i = 2 /\ b[i] = OTHER_SPEED_CONFIGURATION
             \/ \E p \in within : i \in p + 5 .. p + 7
       /\ \A p \in within : IsFullSpeed(b, d.config_desc, p)

\* The configuration for the other speed has the descriptors of the first one
\* at the same places, up to the size of the control buffer; its endpoints are
\* those of a full speed device, and every other byte is as it was.
OtherSpeedIsFullSpeed ==
    (/\ answer.type = OTHER_SPEED_CONFIGURATION
     /\ answer.answered
     /\ answer.length >= Len(config_desc)) =>
        OtherSpeedOf(device, answer.bytes)

\* the string with an index is the first one in the table that has it
IsString(d, k, index) ==
    /\ d.usb_strings[k].id = index
    /\ \A j \in 1 .. k - 1 : d.usb_strings[j].id # index

\* whether a device has the descriptor asked for
Has(d, a) ==
    CASE a.type \in {USB_DT_DEVICE, USB_DT_CONFIGURATION} -> TRUE
      [] a.type = USB_DT_STRING ->
           \/ a.index = 0
           \/ \E k \in DOMAIN d.usb_strings : IsString(d, k, a.index)
      [] a.type \in {DEVICE_QUALIFIER, OTHER_SPEED_CONFIGURATION} -> usb2(d)
      [] a.type = USB_DT_REPORT -> OfType(d, USB_DT_HID) # {}
      [] OTHER -> FALSE

\* how long it says it is: a report in the HID descriptor of the configuration,
\* the others in their first bytes
Announced(d, a) ==
    CASE a.type \in {USB_DT_CONFIGURATION, OTHER_SPEED_CONFIGURATION} ->
           {total_length(d.config_desc)}
      [] a.type = USB_DT_REPORT ->
           {Word(d.config_desc, p + 7) : p \in OfType(d, USB_DT_HID)}
      [] OTHER -> {a.bytes[1]}

\* the table it is copied from
Original(d, a) ==
    CASE a.type = USB_DT_DEVICE -> {d.device_desc}
      [] a.type = USB_DT_CONFIGURATION -> {d.config_desc}
      [] a.type = USB_DT_STRING /\ a.index = 0 -> {d.langid_desc}
      [] a.type = USB_DT_REPORT -> {d.report}
      [] OTHER -> {}

RightAnswer(d, a) ==
    LET b == a.bytes
    IN /\ a.length > 0 =>
             /\ Len(b) > 0
             /\ \A length \in Announced(d, a) :
                   Len(b) = AtMost(a.length,
                                   AtMost(length, ENDPOINT_MAX_DATA_LENGTH))
       /\ a.length > 1 /\ a.type # USB_DT_REPORT => b[2] = a.type
       /\ \A table \in Original(d, a) : b = SubSeq(table, 1, Len(b))
       /\ a.type = DEVICE_QUALIFIER =>
             \A i \in 3 .. AtMost(8, Len(b)) : b[i] = d.device_desc[i]
       /\ a.type = USB_DT_STRING /\ a.index > 0 /\ a.length > 0 =>
             \A k \in DOMAIN d.usb_strings :
                 IsString(d, k, a.index) =>
                     b[1] = 2 * AtMost(d.usb_strings[k].strlen, 126) + 2

\* A host gets a descriptor exactly if the device has it, and then as much as
\* it asks for of as much as the descriptor announces, up to the size of the
\* control buffer: what it reads first, to learn the length, is the head of
\* what it reads then.  The contents are those of the device's tables, the
\* string being the one with the index asked for.
AnswersAsAnnounced ==
    walk \notin {"get_string", "other_speed"} =>
        /\ answer.answered <=> Has(device, answer)
        /\ answer.answered => RightAnswer(device, answer)

=============================================================================
