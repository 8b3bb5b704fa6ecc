-------------------------- MODULE MCUsbipProtocol --------------------------
(* Values for the constants of UsbipProtocol. *)
EXTENDS UsbipProtocol, TLC

NoDescriptors == [d \in {} |-> 0]

Request(type, in, request) ==
    [type |-> type, recipient |-> "device", in |-> in, request |-> request,
     descriptor |-> "none", value |-> 1, length |-> 1]

NoSetup == {}
MCSetup == {Request("class", TRUE, "other"),
            Request("standard", FALSE, "SET_FEATURE")}

BulkType == [p \in Pipe |-> "bulk"]
BulkAndIso == [p \in Pipe |-> IF p[2] = 3 THEN "iso" ELSE "bulk"]
InterruptAndIso == [p \in Pipe |-> IF p[2] = 2 THEN "iso" ELSE "interrupt"]

Unpaced == [p \in Pipe |-> 0]
Paced == [p \in Pipe |-> IF p[2] = 2 THEN 1 ELSE 2]

=============================================================================
