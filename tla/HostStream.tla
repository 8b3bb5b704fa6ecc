----------------------------- MODULE HostStream -----------------------------
(***************************************************************************)
(* What usbip_device_transmit promises its callers, without locks, wait    *)
(* sets, generations or events (include/usbip_server_api.h:81-87,121-139). *)
(* Every IN endpoint carries a byte stream that starts over at a reset.  A  *)
(* transmit is accepted as a whole once the host has fetched everything    *)
(* accepted before it, and a waiting transmit ends in no other way than    *)
(* acceptance, a reset or the end of the server.                           *)
(***************************************************************************)
EXTENDS Naturals, Sequences

CONSTANTS Thread,   \* the threads whose transmit may wait
          InEp,     \* the endpoints that carry a stream
          Chunk     \* what one transmit may send, a set of byte sequences

VARIABLES accepted,   \* per endpoint, the bytes accepted since the last reset
          delivered,  \* per endpoint, the bytes the host fetched since then
          waiting,    \* per thread, the transmit that waits for the host
          stopped     \* the server has ended

hostVars == <<accepted, delivered, waiting, stopped>>

NotWaiting == [ep |-> 0, data |-> <<>>]

Empty == [ep \in InEp |-> <<>>]

Init ==
    /\ accepted = Empty
    /\ delivered = Empty
    /\ waiting = [t \in Thread |-> NotWaiting]
    /\ stopped = FALSE

Drained(ep) == delivered[ep] = accepted[ep]

(* A transmit that finds the endpoint drained is accepted at once. *)
Accept(ep, chunk) ==
    /\ ~stopped
    /\ Drained(ep)
    /\ accepted' = [accepted EXCEPT ![ep] = @ \o chunk]
    /\ UNCHANGED <<delivered, waiting, stopped>>

(* A transmit that has to wait for the host. *)
Wait(t, ep, chunk) ==
    /\ ~stopped
    /\ ~Drained(ep)
    /\ waiting[t] = NotWaiting
    /\ waiting' = [waiting EXCEPT ![t] = [ep |-> ep, data |-> chunk]]
    /\ UNCHANGED <<accepted, delivered, stopped>>

(* A waiting transmit is accepted. *)
AcceptWaiting(t, ep) ==
    /\ ~stopped
    /\ waiting[t].ep = ep
    /\ Drained(ep)
    /\ accepted' = [accepted EXCEPT ![ep] = @ \o waiting[t].data]
    /\ waiting' = [waiting EXCEPT ![t] = NotWaiting]
    /\ UNCHANGED <<delivered, stopped>>

(* The host fetches the next n bytes. *)
Deliver(ep, n) ==
    /\ n <= Len(accepted[ep]) - Len(delivered[ep])
    /\ delivered' =
         [delivered EXCEPT ![ep] = SubSeq(accepted[ep], 1, Len(@) + n)]
    /\ UNCHANGED <<accepted, waiting, stopped>>

(* A host attaches or detaches: nothing accepted or waiting survives. *)
Reset ==
    /\ accepted' = Empty
    /\ delivered' = Empty
    /\ waiting' = [t \in Thread |-> NotWaiting]
    /\ UNCHANGED stopped

(* The server ends: what the host has not fetched is discarded. *)
Stop ==
    /\ stopped' = TRUE
    /\ accepted' = delivered
    /\ waiting' = [t \in Thread |-> NotWaiting]
    /\ UNCHANGED delivered

Next ==
    \/ \E ep \in InEp, chunk \in Chunk : Accept(ep, chunk)
    \/ \E t \in Thread, ep \in InEp, chunk \in Chunk : Wait(t, ep, chunk)
    \/ \E t \in Thread, ep \in InEp : AcceptWaiting(t, ep)
    \/ \E ep \in InEp : \E n \in 0 .. Len(accepted[ep]) : Deliver(ep, n)
    \/ Reset
    \/ Stop

Spec == Init /\ [][Next]_hostVars

=============================================================================
