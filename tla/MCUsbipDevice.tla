--------------------------- MODULE MCUsbipDevice ---------------------------
(* Two application threads, one IN endpoint and one control request of     *)
(* each route, for TLC.                                                    *)
EXTENDS UsbipDevice, TLC

MCDescriptorLength == [device |-> 1]

Request(in, request) ==
    [type |-> "standard", recipient |-> "device", in |-> in,
     request |-> request, descriptor |-> "none", value |-> 1, length |-> 1]

MCSetup == {Request(TRUE, "GET_STATUS"), Request(FALSE, "SET_CONFIGURATION"),
            Request(TRUE, "GET_INTERFACE")}

Symmetry == Permutations(Thread)

=============================================================================
