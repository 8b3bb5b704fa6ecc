--------------------------- MODULE ControlRequest ---------------------------
(***************************************************************************)
(* How src/lib/usbip_device.c routes a control request.  A setup packet is *)
(* a record of the fields the code looks at: the request type and          *)
(* recipient, the direction bit, the request code, for GET_DESCRIPTOR the  *)
(* descriptor asked for, for SET_CONFIGURATION the value, and the length   *)
(* of the data stage.  What the descriptors contain is left out; only      *)
(* their lengths matter to the transfer.                                   *)
(***************************************************************************)
EXTENDS Naturals

CONSTANT DescriptorLength   \* length of every descriptor the device has

(* Any descriptor the device lacks: an unknown type, an unknown string, or *)
(* a qualifier of a device older than USB 2.0.                             *)
Descriptor == DOMAIN DescriptorLength

(* A control answer ends at wLength or at the end of the data. *)
Shorter(a, b) == IF a < b THEN a ELSE b

(* Where a standard request to the device goes.  A request that is not     *)
(* recognised is "silent" when IN (nobody answers it) and "unsupported"    *)
(* when OUT.                                                               *)
device_request(s) ==
    IF s.in
    THEN IF \/ s.request \in {"GET_STATUS", "GET_CONFIGURATION"}
            \/ s.request = "GET_DESCRIPTOR" /\ s.descriptor \in Descriptor
         THEN "answer"
         ELSE "silent"
    ELSE IF s.request = "SET_CONFIGURATION" THEN "callback" ELSE "unsupported"

(* Endpoints are never halted: halt requests change nothing. *)
endpoint_request(s) ==
    CASE s.request = "GET_STATUS" -> "answer"
      [] s.request \in {"CLEAR_FEATURE", "SET_FEATURE"} -> "silent"
      [] OTHER -> "unsupported"

(* Class, vendor and interface requests belong to the device's callback.  *)
Route(s) ==
    CASE s.type # "standard" \/ s.recipient = "interface" -> "callback"
      [] s.type = "standard" /\ s.recipient = "device" -> device_request(s)
      [] s.type = "standard" /\ s.recipient = "endpoint" -> endpoint_request(s)
      [] OTHER -> "unsupported"

Supported(s) == Route(s) # "unsupported"

(* How much the library itself answers to a request routed to "answer". *)
AnswerLength(s) ==
    CASE s.request = "GET_STATUS" -> 2
      [] s.request = "GET_CONFIGURATION" -> 1
      [] OTHER -> Shorter(s.length, DescriptorLength[s.descriptor])

(* The host selects a configuration. *)
Configures(s) ==
    /\ s.type = "standard"
    /\ s.recipient = "device"
    /\ ~s.in
    /\ s.request = "SET_CONFIGURATION"

=============================================================================
