---------------------------- MODULE Application ----------------------------
(***************************************************************************)
(* What the example programs have in common: a main thread that transmits  *)
(* on IN endpoint 1 and a server thread that calls them back.              *)
(*                                                                         *)
(* The endpoint is the one of HostStream, which the library implements     *)
(* (theorem DeviceImplementsHostStream); one report, tick or answer is one *)
(* element of its stream.  A callback is one step and so is a critical     *)
(* section, since they exclude each other (theorem MutualExclusion).       *)
(* A reset is two steps, the clearing of the endpoints and later the       *)
(* callback, because the main thread runs between them.                    *)
(***************************************************************************)
EXTENDS Naturals, Sequences

CONSTANT MaxSessions      \* bound: hosts that attach

ASSUME ApplicationAssumption == MaxSessions \in Nat

VARIABLES program,        \* which example this is; Examples puts them together
          accepted,       \* the four of HostStream
          delivered,
          waiting,
          stopped,
          host,           \* "none", "attaching", "attached", "detaching"
          session,        \* hosts so far
          interrupted,    \* keep_running is 0
          writing,        \* the worker is in a write the client has not taken
          pc,             \* where main is
          blocked,        \* main is in the wait of usbip_device_transmit
          reply           \* the answer to a control request, until the host goes on

stream == <<accepted, delivered, waiting, stopped>>
mainVars == <<pc, blocked>>
appVars == <<stream, host, session, interrupted, writing, mainVars, reply>>

\* Chunk only matters to the instance's own Next
Library == INSTANCE HostStream
               WITH Thread <- {"main"}, InEp <- {1}, Chunk <- {}

AppInit ==
    /\ Library!Init
    /\ host = "none"
    /\ session = 0
    /\ interrupted = FALSE
    /\ writing = FALSE
    /\ pc = "while"
    /\ blocked = FALSE
    /\ reply = <<>>

-----------------------------------------------------------------------------
(* The server thread                                                       *)

\* An answer is written: the client takes it at once, or the worker stays in
\* the write, for good if the client never does.
Writes == ~writing /\ writing' \in BOOLEAN

\* The client takes the answer, or goes.
WriteEnds ==
    /\ writing
    /\ writing' = FALSE
    /\ UNCHANGED <<stream, host, session, interrupted, mainVars, reply>>

\* A client that does not attach asks which device there is.
ListDevice ==
    /\ host = "none"
    /\ ~stopped
    /\ Writes
    /\ UNCHANGED <<stream, host, session, interrupted, mainVars, reply>>

\* A host imports the device: usbip_device_reset up to the callback.
AttachStarts ==
    /\ host = "none"
    /\ ~stopped /\ ~writing
    /\ session < MaxSessions
    /\ Library!Reset
    /\ host' = "attaching"
    /\ session' = session + 1
    /\ reply' = <<>>
    /\ UNCHANGED <<interrupted, writing, mainVars>>

\* The connection is lost: again, up to the callback.
DetachStarts ==
    /\ host = "attached"
    /\ ~stopped /\ ~writing
    /\ Library!Reset
    /\ host' = "detaching"
    /\ reply' = <<>>
    /\ UNCHANGED <<session, interrupted, writing, mainVars>>

\* The rest of a reset: the callback, whose effect the program adds, and
\* after an import the reply, which may fail.
ResetEnds ==
    /\ \/ host = "attaching" /\ host' \in {"attached", "none"} /\ Writes
       \/ host = "detaching" /\ host' = "none" /\ UNCHANGED writing
    /\ UNCHANGED <<stream, session, interrupted, mainVars, reply>>

\* A host is served.
Serving == host = "attached" /\ ~stopped
ServedBy(example) == program = example /\ Serving

\* An IN transfer completes.
Fetch ==
    /\ Serving
    /\ Writes
    /\ Library!Deliver(1, 1)
    /\ reply' = <<>>
    /\ UNCHANGED <<host, session, interrupted, mainVars>>

\* A control request, with the answer the callback gave and the host got.
Control(answer) ==
    /\ Serving
    /\ Writes
    /\ reply' = answer
    /\ UNCHANGED <<stream, host, session, interrupted, mainVars>>

\* An OUT or isochronous transfer; it leaves the stream alone.
Transfer ==
    /\ Serving
    /\ Writes
    /\ UNCHANGED <<stream, host, session, interrupted, mainVars, reply>>

\* The third Ctrl-C.
Interrupt ==
    /\ ~interrupted
    /\ interrupted' = TRUE
    /\ UNCHANGED <<stream, host, session, writing, mainVars, reply>>

\* The worker, back from its last pass, leaves its loops, without a reset, and
\* ends.
WorkerEnds ==
    /\ interrupted
    /\ ~stopped /\ ~writing
    /\ host \in {"none", "attached"}
    /\ Library!Stop
    /\ UNCHANGED <<host, session, interrupted, writing, mainVars, reply>>

Server == WriteEnds \/ ListDevice \/ AttachStarts \/ DetachStarts \/ Interrupt
              \/ WorkerEnds

-----------------------------------------------------------------------------
(* Steps of main                                                           *)

\* from one place to another, without a call into the library
Go(from, to) ==
    /\ pc = from
    /\ pc' = to
    /\ UNCHANGED <<stream, host, session, interrupted, writing, blocked,
                   reply>>

\* the head of the main loop
While(inside) == Go("while", IF interrupted THEN "stop" ELSE inside)

\* a transmit that waited when its host left has failed and will return
Failed == blocked /\ waiting["main"] = Library!NotWaiting

\* usbip_device_transmit on endpoint 1
Transmit(from, to, report) ==
    /\ pc = from
    /\ \/ /\ ~blocked
          /\ Library!Accept(1, <<report>>)
          /\ pc' = to /\ blocked' = FALSE
       \/ /\ ~blocked
          /\ Library!Wait("main", 1, <<report>>)
          /\ pc' = from /\ blocked' = TRUE
       \/ /\ blocked
          /\ Library!AcceptWaiting("main", 1)
          /\ pc' = to /\ blocked' = FALSE
       \/ /\ Failed \/ (stopped /\ ~blocked)
          /\ pc' = to /\ blocked' = FALSE
          /\ UNCHANGED stream
    /\ UNCHANGED <<host, session, interrupted, writing, reply>>

\* usbip_server_stop waits for the worker
Stop ==
    /\ stopped
    /\ Go("stop", "done")

=============================================================================
