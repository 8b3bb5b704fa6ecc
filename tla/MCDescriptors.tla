---------------------------- MODULE MCDescriptors ----------------------------
(* The tables of the example devices, and devices shaped like them with    *)
(* other endpoints, strings and versions.                                  *)
EXTENDS Descriptors, ExampleTables

\* a class descriptor; its contents look like descriptor types
Class(length) == <<length, 36>> \o [i \in 1 .. length - 2 |-> 3 + (i % 3)]

With(interfaces, descriptors) ==
    [bulk_device EXCEPT !.config_desc =
        <<ConfigurationHeader(9 + Len(FlattenSeq(descriptors)),
                              interfaces, 0)>>
            \o descriptors]

\* every transfer type, with sizes and intervals at the limits
IsocSize == {96, 1023, 1024, 2048 + 1024}
OtherSize == {8, 64, 65, 512}
Interval == {0, 1, 3, 4, 8, 11, 12, 16, 17, 255}
IsocInterval == {1, 3, 4, 8, 16}

MCEndpoint(address) ==
    {Endpoint(address, ISOC, s, b) : s \in IsocSize, b \in IsocInterval}
        \cup {Endpoint(address, type, s, b) :
                 type \in {BULK, INT}, s \in OtherSize, b \in Interval}

Vendor == Interface(0, 0, 1, 255, 0, 0)

\* a vendor device, a serial port, a microphone, and tables that end around
\* the size of the control buffer, inside an endpoint or at its end
MCShape ==
    {With(1, <<Vendor, Endpoint(1, BULK, 512, 0), e>>) :
        e \in MCEndpoint(129) \cup MCEndpoint(2)}
    \cup
    {With(2, <<Interface(0, 0, 1, 2, 2, 1), Class(5), Class(5), Class(4),
               Class(5), e, Interface(1, 0, 2, 10, 0, 0),
               Endpoint(1, BULK, 512, 0), Endpoint(129, BULK, 64, 0)>>) :
        e \in {Endpoint(130, INT, 8, b) : b \in Interval}}
    \cup
    {With(2, <<Interface(0, 0, 0, 1, 1, 0), Class(9), Class(12),
               Interface(1, 0, 0, 1, 2, 0), Interface(1, 1, 1, 1, 2, 0),
               Class(7), Class(11), e \o <<0, 0>>, Class(7)>>) :
        e \in {<<9>> \o Tail(Endpoint(129, ISOC, s, b)) :
                  s \in IsocSize, b \in IsocInterval}}
    \cup
    {With(1, <<Vendor, Endpoint(129, ISOC, 96, 4), Class(4),
               Interface(0, 1, 1, 255, 0, 0), e>>) :
        e \in {Endpoint(129, type, 64, b) :
                  type \in {BULK, INT}, b \in {0, 8}}}
    \cup
    {With(1, <<Vendor, Class(255), Class(length), Endpoint(2, INT, 65, 4),
               Endpoint(1, BULK, 512, 0)>>) : length \in 224 .. 233}

\* an older device, whose strings are at the limit of a descriptor
MCStrings ==
    {[bulk_device EXCEPT
        !.device_desc = [@ EXCEPT ![3] = 16, ![4] = 1],
        !.usb_strings = <<[id |-> 1, strlen |-> 0], [id |-> 3, strlen |-> n],
                          [id |-> 0, strlen |-> 0]>>] : n \in 125 .. 128}

\* the tables as the code has them, and where the descriptors start in them
Table(d) ==
    [device_desc |-> d.device_desc,
     config_desc |-> FlattenSeq(d.config_desc),
     starts |-> {Len(FlattenSeq(SubSeq(d.config_desc, 1, k - 1))) :
                    k \in DOMAIN d.config_desc},
     langid_desc |-> d.langid_desc,
     usb_strings |-> d.usb_strings,
     report |-> FlattenSeq(d.report)]

MCDevice == {Table(d) : d \in ExampleDevice \cup MCShape \cup MCStrings}

=============================================================================
