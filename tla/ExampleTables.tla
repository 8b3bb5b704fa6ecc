---------------------------- MODULE ExampleTables ----------------------------
(***************************************************************************)
(* The constant tables of the six example devices: what each               *)
(* usb_*_descriptors.h hands to the library in its usbip_device_t.         *)
(*                                                                         *)
(* A configuration is the sequence of its descriptors, a HID report        *)
(* descriptor the sequence of its items; the programs have them as one     *)
(* array.  Of a string only its length is kept.                            *)
(***************************************************************************)
EXTENDS Naturals, Sequences, SequencesExt

-----------------------------------------------------------------------------
(* The parts all tables are written with.                                  *)

\* LOBYTE and HIBYTE
Bytes16(x) == <<x % 256, (x \div 256) % 256>>

USB_BCD_VERSION == 512
USB_BCD_DEVICE_REL == 512

DeviceDescriptor(vid, pid) ==
    <<18, 1>> \o Bytes16(USB_BCD_VERSION) \o <<0, 0, 0, 64>> \o Bytes16(vid)
        \o Bytes16(pid) \o Bytes16(USB_BCD_DEVICE_REL) \o <<1, 2, 4, 1>>

ConfigurationHeader(length, interfaces, string) ==
    <<9, 2>> \o Bytes16(length) \o <<interfaces, 1, string, 192, 50>>
Interface(number, alternate, endpoints, class, subclass, protocol) ==
    <<9, 4, number, alternate, endpoints, class, subclass, protocol, 0>>
Endpoint(address, attributes, size, interval) ==
    <<7, 5, address, attributes>> \o Bytes16(size) \o <<interval>>
HidDescriptor(report_length) ==
    <<9, 33, 17, 1, 0, 1, 34>> \o Bytes16(report_length)

langid_desc == <<4, 3>> \o Bytes16(1033)

\* "Virtual UsbIP", the name of the product, "ABC123", and the end
usb_strings(product_strlen) ==
    <<[id |-> 1, strlen |-> 13], [id |-> 2, strlen |-> product_strlen],
      [id |-> 4, strlen |-> 6], [id |-> 0, strlen |-> 0]>>

VID == 64000

-----------------------------------------------------------------------------
(* The devices.                                                            *)

bulk_config_descriptor ==
    <<ConfigurationHeader(32, 1, 0),
      Interface(0, 0, 2, 255, 0, 0),
      Endpoint(1, 2, 512, 0),
      Endpoint(129, 2, 512, 0)>>

bulk_device ==
    [device_desc |-> DeviceDescriptor(VID, 49153),
     config_desc |-> bulk_config_descriptor,
     langid_desc |-> langid_desc,
     usb_strings |-> usb_strings(19),
     report |-> <<>>]

cdc_config_descriptor ==
    <<ConfigurationHeader(67, 2, 4),
      Interface(0, 0, 1, 2, 2, 1),
      <<5, 36, 0, 16, 1>>,          \* header
      <<5, 36, 1, 0, 1>>,           \* call management
      <<4, 36, 2, 2>>,              \* abstract control management
      <<5, 36, 6, 0, 1>>,           \* union
      Endpoint(130, 3, 8, 8),
      Interface(1, 0, 2, 10, 0, 0),
      Endpoint(1, 2, 512, 0),
      Endpoint(129, 2, 512, 0)>>

cdc_device ==
    [device_desc |-> DeviceDescriptor(VID, 1),
     config_desc |-> cdc_config_descriptor,
     langid_desc |-> langid_desc,
     usb_strings |-> usb_strings(18),
     report |-> <<>>]

usb_mouse_configuration ==
    <<ConfigurationHeader(34, 1, 0),
      Interface(0, 0, 1, 3, 1, 2),
      HidDescriptor(50),
      Endpoint(129, 3, 4, 8)>>

usb_mouse_hid_report ==
    <<<<5, 1>>, <<9, 2>>, <<161, 1>>, <<9, 1>>, <<161, 0>>,
      <<5, 9>>, <<25, 1>>, <<41, 3>>, <<21, 0>>, <<37, 1>>,
      <<117, 1>>, <<149, 3>>, <<129, 2>>,       \* three buttons
      <<149, 1>>, <<117, 5>>, <<129, 1>>,       \* padding
      <<5, 1>>, <<9, 48>>, <<9, 49>>, <<21, 129>>, <<37, 127>>,
      <<117, 8>>, <<149, 3>>, <<129, 6>>,       \* x, y and a third axis
      <<192>>, <<192>>>>

mouse_device ==
    [device_desc |-> DeviceDescriptor(VID, 2),
     config_desc |-> usb_mouse_configuration,
     langid_desc |-> langid_desc,
     usb_strings |-> usb_strings(17),
     report |-> usb_mouse_hid_report]

usb_keyboard_configuration ==
    <<ConfigurationHeader(34, 1, 0),
      Interface(0, 0, 1, 3, 1, 1),
      HidDescriptor(63),
      Endpoint(129, 3, 8, 7)>>

usb_keyboard_hid_report ==
    <<<<5, 1>>, <<9, 6>>, <<161, 1>>, <<5, 7>>, <<25, 224>>, <<41, 231>>,
      <<21, 0>>, <<37, 1>>,
      <<117, 1>>, <<149, 8>>, <<129, 2>>,       \* modifiers
      <<149, 1>>, <<117, 8>>, <<129, 1>>,       \* reserved
      <<149, 5>>, <<117, 1>>, <<5, 8>>, <<25, 1>>, <<41, 5>>, <<145, 2>>,
      <<149, 1>>, <<117, 3>>, <<145, 1>>,       \* LEDs
      <<149, 6>>, <<117, 8>>, <<21, 0>>, <<37, 101>>, <<5, 7>>,
      <<25, 0>>, <<41, 101>>, <<129, 0>>,       \* six keys
      <<192>>>>

keyboard_device ==
    [device_desc |-> DeviceDescriptor(VID, 3),
     config_desc |-> usb_keyboard_configuration,
     langid_desc |-> langid_desc,
     usb_strings |-> usb_strings(20),
     report |-> usb_keyboard_hid_report]

AUDIO_SAMPLE_RATE == 48000
AUDIO_CHANNELS == 1
AUDIO_BYTES_PER_SAMPLE == 2
AUDIO_PACKET_SIZE ==
    (AUDIO_SAMPLE_RATE \div 1000) * AUDIO_CHANNELS * AUDIO_BYTES_PER_SAMPLE
AUDIO_CONTROL_CS_LENGTH == 9 + 12 + 9

usb_audio_configuration ==
    <<ConfigurationHeader(9 + 9 + AUDIO_CONTROL_CS_LENGTH + 9 + 9 + 7 + 11
                            + 9 + 7, 2, 0),
      Interface(0, 0, 0, 1, 1, 0),
      <<9, 36, 1, 0, 1>> \o Bytes16(AUDIO_CONTROL_CS_LENGTH) \o <<1, 1>>,
      <<12, 36, 2, 1>> \o Bytes16(513) \o <<0, AUDIO_CHANNELS, 0, 0, 0, 0>>,
      <<9, 36, 3, 2>> \o Bytes16(257) \o <<0, 1, 0>>,
      Interface(1, 0, 0, 1, 2, 0),
      Interface(1, 1, 1, 1, 2, 0),
      <<7, 36, 1, 2, 1>> \o Bytes16(1),
      <<11, 36, 2, 1, AUDIO_CHANNELS, AUDIO_BYTES_PER_SAMPLE,
        AUDIO_BYTES_PER_SAMPLE * 8, 1>> \o Bytes16(AUDIO_SAMPLE_RATE)
          \o <<AUDIO_SAMPLE_RATE \div 65536>>,
      <<9, 5, 129, 5>> \o Bytes16(AUDIO_PACKET_SIZE) \o <<4, 0, 0>>,
      <<7, 37, 1, 0, 0, 0, 0>>>>

audio_device ==
    [device_desc |-> DeviceDescriptor(VID, 4),
     config_desc |-> usb_audio_configuration,
     langid_desc |-> langid_desc,
     usb_strings |-> usb_strings(19),
     report |-> <<>>]

usb_gud_configuration ==
    <<ConfigurationHeader(9 + 9 + 7, 1, 0),
      Interface(0, 0, 1, 255, 0, 0),
      Endpoint(1, 2, 512, 0)>>

gud_display_device ==
    [device_desc |-> DeviceDescriptor(7504, 24909),
     config_desc |-> usb_gud_configuration,
     langid_desc |-> langid_desc,
     usb_strings |-> usb_strings(19),
     report |-> <<>>]

ExampleDevice == {bulk_device, cdc_device, mouse_device, keyboard_device,
                  audio_device, gud_display_device}
HidDevice == {mouse_device, keyboard_device}

-----------------------------------------------------------------------------
(* What the tables of a device have to agree on.                           *)

Places(config, type) == {k \in DOMAIN config : config[k][2] = type}
Word16(bytes, i) == bytes[i] + 256 * bytes[i + 1]

\* the descriptors of the interface at place k, up to the next interface
OfInterface(config, k) ==
    {j \in DOMAIN config : /\ j > k
                           /\ ~ \E i \in Places(config, 4) : k < i /\ i <= j}

\* the bits of a report: a size (117) and a count (149) hold for every field
\* (129 input, 145 output) after them
ReportBits(report, kind) ==
    FoldLeft(LAMBDA r, item :
                CASE item[1] = 117 -> [r EXCEPT !.size = item[2]]
                  [] item[1] = 149 -> [r EXCEPT !.count = item[2]]
                  [] item[1] = kind -> [r EXCEPT !.bits = @ + r.size * r.count]
                  [] OTHER -> r,
             [size |-> 0, count |-> 0, bits |-> 0], report).bits

\* A configuration is as long as it says, has as many interfaces, and every
\* setting of an interface as many endpoints, as it says.
CountsAgree ==
    \A d \in ExampleDevice :
        LET c == d.config_desc
        IN /\ Word16(c[1], 3) = Len(FlattenSeq(c))
           /\ {c[k][3] : k \in Places(c, 4)} = 0 .. c[1][5] - 1
           /\ \A k \in Places(c, 4) :
                 c[k][5] = Cardinality(OfInterface(c, k) \cap Places(c, 5))

\* Every string the descriptors refer to is in the table.
StringsAgree ==
    \A d \in ExampleDevice :
        LET c == d.config_desc
        IN SubSeq(d.device_desc, 15, 17) \o <<c[1][7]>>
               \o SetToSeq({c[k][9] : k \in Places(c, 4)})
             \in Seq({s.id : s \in Range(d.usb_strings)})

\* A HID device has the report descriptor its HID descriptor announces, and
\* reports of whole bytes that fill the packets of its endpoint, which is how
\* much its main transmits.
ReportsAgree ==
    \A d \in HidDevice :
        LET c == d.config_desc
        IN /\ Word16(c[3], 8) = Len(FlattenSeq(d.report))
           /\ ReportBits(d.report, 129) = 8 * Word16(c[4], 5)
           /\ ReportBits(d.report, 145) % 8 = 0

\* The packets of the microphone carry exactly the sample rate it announces;
\* its class descriptors are as long as their header says.
AudioAgrees ==
    LET c == usb_audio_configuration
        interval_us == 125 * 2^(c[10][7] - 1)
        rate == c[9][9] + 256 * c[9][10] + 65536 * c[9][11]
    IN /\ Word16(c[10], 5) * (1000000 \div interval_us) = rate * c[9][5] * c[9][6]
       /\ Word16(c[3], 6) = Len(c[3]) + Len(c[4]) + Len(c[5])

\* All of this holds of the tables as they are; TLC evaluates it.
ASSUME TablesAgree ==
    CountsAgree /\ StringsAgree /\ ReportsAgree /\ AudioAgrees

=============================================================================
