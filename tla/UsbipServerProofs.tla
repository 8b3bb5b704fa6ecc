-------------------------- MODULE UsbipServerProofs --------------------------
(***************************************************************************)
(* The safety properties of UsbipServer for any number of clients, replies *)
(* and interrupts.                                                         *)
(*                                                                         *)
(* ServedAfterImport is not inductive: whether the host that is served has *)
(* imported the device was decided when its import was answered, many      *)
(* steps before.  ServerInv follows the flag device_imported through the   *)
(* connection: which reads and writes belong to an attached host, that     *)
(* these and no others happen with the flag set, and that outside a        *)
(* connection the flag is set only once the server no longer accepts any.  *)
(* EightInterruptsExit needs the count of the interrupts so far.           *)
(***************************************************************************)
EXTENDS UsbipServer, TLAPS

Connected == {"session", "read", "reading", "write", "writing", "import",
              "poll", "pass", "lost"}

\* what is read and written before a host has attached, and after
BeforeImport == {"head", "busid", "devlist", "import"}
AfterImport == {"command", "reply"}

InCall == worker \in {"read", "reading", "write", "writing"}

\* The connections.
ConnectionInv ==
    /\ peer # "none" => clients # 0
    /\ worker \in Connected => client_socket # 0
    /\ worker \in {"read", "reading"} => task \in {"head", "busid", "command"}
    /\ worker \in {"write", "writing"} => task \in {"devlist", "import", "reply"}

\* The flag.
ImportInv ==
    /\ worker \in {"poll", "pass", "lost"} => device_imported
    /\ InCall /\ task \in AfterImport => device_imported
    /\ InCall /\ task \in BeforeImport => ~device_imported
    /\ worker \in {"import", "accept"} => ~device_imported
    /\ device_imported /\ worker \in Connected => importer = client_socket
    /\ device_imported /\ worker \notin Connected => keep_running = 0

\* The interrupts; stopping the server takes the place of some of them.
InterruptInv ==
    /\ exited <=> panic_counter = PANIC_LIMIT
    /\ interrupts <= 3 - keep_running + panic_counter
    /\ panic_counter <= interrupts

ServerInv == ServerTypeOK /\ ConnectionInv /\ ImportInv /\ InterruptInv

\* The server starts in the invariant.
LEMMA ServerInitInv == Init => ServerInv
<1> SUFFICES ASSUME Init PROVE ServerInv
  BY Zenon
<1>1. ServerTypeOK
  <2>1. /\ keep_running \in 0 .. 3
        /\ panic_counter \in 0 .. PANIC_LIMIT
        /\ replies_left \in 0 .. MaxReplies
        /\ client_socket \in 0 .. clients
        /\ clients \in Nat /\ importer \in Nat /\ interrupts \in Nat
    BY ServerAssumption DEF Init, PANIC_LIMIT
  <2> QED
    BY <2>1, Zenon DEF Init, ServerTypeOK
<1>2. ConnectionInv /\ ImportInv
  BY Zenon DEF Init, ConnectionInv, ImportInv, InCall, Connected
<1>3. InterruptInv
  BY DEF Init, InterruptInv, PANIC_LIMIT
<1> QED
  BY <1>1, <1>2, <1>3, Zenon DEF ServerInv

\* The client.
LEMMA ClientKeepsInv ==
    ASSUME ServerInv, ClientStep PROVE ServerInv'
<1> USE DEF ServerInv, ServerTypeOK, ConnectionInv, ImportInv, InterruptInv,
            InCall, signalVars, workerVars
<1>1. CASE Connect
  BY <1>1 DEF Connect
<1>2. CASE StopReading
  BY <1>2 DEF StopReading
<1>3. CASE Leave
  BY <1>3 DEF Leave
<1> QED
  BY <1>1, <1>2, <1>3, Zenon DEF ClientStep

\* The signal handler.
LEMMA HandlerKeepsInv ==
    ASSUME ServerInv, ~exited, int_handler \/ HandlerStops PROVE ServerInv'
<1> USE DEF ServerInv, ServerTypeOK, ConnectionInv, ImportInv, InterruptInv,
            InCall, peerVars, workerVars, PANIC_LIMIT
<1>1. CASE int_handler /\ keep_running > 0
  BY <1>1 DEF int_handler
<1>2. CASE int_handler /\ ~(keep_running > 0)
  <2>1. /\ panic_counter' = panic_counter + 1
        /\ exited' = (panic_counter + 1 = PANIC_LIMIT)
        /\ interrupts' = interrupts + 1
        /\ UNCHANGED <<keep_running, handler, stop_server, app, workerVars,
                       peerVars>>
    BY <1>2, Zenon DEF int_handler
  <2>2. panic_counter' \in 0 .. PANIC_LIMIT
    BY <2>1
  <2>3. exited' \in BOOLEAN /\ (exited' <=> panic_counter' = PANIC_LIMIT)
    BY <2>1, Zenon
  <2> QED
    BY <2>1, <2>2, <2>3
<1>3. CASE HandlerStops
  BY <1>3 DEF HandlerStops
<1> QED
  BY <1>1, <1>2, <1>3, Zenon

\* The application.
LEMMA AppKeepsInv ==
    ASSUME ServerInv, AppStep \/ AppLeaves \/ TransmitReturns
    PROVE  ServerInv'
<1> USE DEF ServerInv, ServerTypeOK, ConnectionInv, ImportInv, InterruptInv,
            InCall, signalVars, peerVars, workerVars, App
<1>1. CASE AppLoop
  BY <1>1 DEF AppLoop
<1>2. CASE AppWorks \/ AppExitsCritical \/ AppLeaves \/ TransmitReturns
  BY <1>2 DEF AppWorks, AppExitsCritical, AppLeaves, TransmitReturns
<1>3. CASE usbip_server_stop
  BY <1>3 DEF usbip_server_stop
<1>4. CASE AppStopsSockets
  BY <1>4 DEF AppStopsSockets
<1>5. CASE AppJoins
  BY <1>5 DEF AppJoins
<1> QED
  BY <1>1, <1>2, <1>3, <1>4, <1>5, Zenon DEF AppStep

\* Reads and writes.
LEMMA CallKeepsInv ==
    ASSUME ServerInv,
           \/ ReadHead \/ ReadTimeout \/ ReadFails \/ ReadDone
           \/ WriteHead \/ WriteStep
    PROVE  ServerInv'
<1> USE DEF ServerInv, ServerTypeOK, ConnectionInv, ImportInv, InterruptInv,
            InCall, Connected, BeforeImport, AfterImport, signalVars,
            peerVars, Worker
<1>1. CASE ReadHead \/ WriteHead
  BY <1>1 DEF ReadHead, WriteHead, AfterFailure
<1>2. CASE ReadTimeout \/ WritePart
  BY <1>2 DEF ReadTimeout, WritePart
<1>3. CASE ReadFails \/ WriteFails
  BY <1>3 DEF ReadFails, WriteFails, AfterFailure
<1>4. CASE ReadDone
  BY <1>4 DEF ReadDone, Start
<1>5. CASE WriteDone
  BY <1>5, SMTT(30) DEF WriteDone
<1> QED
  BY <1>1, <1>2, <1>3, <1>4, <1>5, Zenon DEF WriteStep

\* The loops of the worker.
LEMMA LoopKeepsInv ==
    ASSUME ServerInv,
           \/ OuterLoop \/ NoClient \/ AcceptClient \/ Session \/ Import
           \/ PollCommand \/ PollReturns \/ Pass \/ Lost \/ CloseClient
           \/ WorkerStops
    PROVE  ServerInv'
<1> USE DEF ServerInv, ServerTypeOK, ConnectionInv, ImportInv, InterruptInv,
            InCall, Connected, BeforeImport, AfterImport, signalVars,
            peerVars, Worker, Start, Released
<1>1. CASE OuterLoop \/ NoClient
  BY <1>1 DEF OuterLoop, NoClient
<1>2. CASE AcceptClient
  BY <1>2 DEF AcceptClient
<1>3. CASE Session
  BY <1>3 DEF Session
<1>4. CASE Import
  BY <1>4, Zenon DEF Import
<1>5. CASE PollCommand \/ PollReturns
  BY <1>5 DEF PollCommand, PollReturns
<1>6. CASE Pass
  BY <1>6, ServerAssumption DEF Pass
<1>7. CASE Lost
  <2>1. /\ worker' = "close"
        /\ device_imported' = FALSE /\ attached' = FALSE
        /\ app' = app \/ app' = "loop"
        /\ UNCHANGED <<signalVars, peerVars, task, replies_left,
                       device_stopped, client_socket, importer>>
    BY <1>7, Zenon DEF Lost
  <2>2. device_imported' \in BOOLEAN /\ attached' \in BOOLEAN
    BY <2>1, Zenon
  <2>3. ServerTypeOK'
    <3>1. /\ worker' = "close"
          /\ app' = app \/ app' = "loop"
          /\ UNCHANGED <<signalVars, peerVars, task, replies_left,
                         device_stopped, client_socket, importer>>
      BY <2>1, Zenon
    <3> QED
      BY <2>2, <3>1
  <2>4. ConnectionInv' /\ ImportInv' /\ InterruptInv'
    BY <2>1, Zenon
  <2> QED
    BY <2>3, <2>4, Zenon
<1>8. CASE CloseClient
  BY <1>8 DEF CloseClient
<1>9. CASE WorkerStops
  BY <1>9 DEF WorkerStops
<1> QED
  BY <1>1, <1>2, <1>3, <1>4, <1>5, <1>6, <1>7, <1>8, <1>9, Zenon

\* The invariant holds for ever.
LEMMA ServerInvariant == ServerSpec => []ServerInv
<1>1. ServerInv /\ [ServerNext]_serverVars => ServerInv'
  <2> SUFFICES ASSUME ServerInv, [ServerNext]_serverVars PROVE ServerInv'
    BY Zenon
  <2>1. CASE ServerNext
    BY <2>1, ClientKeepsInv, HandlerKeepsInv, AppKeepsInv, CallKeepsInv,
       LoopKeepsInv, Zenon
       DEF ServerNext, WorkerStep
  <2>2. CASE UNCHANGED serverVars
    BY <2>2
       DEF serverVars, signalVars, workerVars, peerVars, ServerInv,
           ServerTypeOK, ConnectionInv, ImportInv, InterruptInv, InCall
  <2> QED
    BY <2>1, <2>2, Zenon
<1> QED
  BY <1>1, ServerInitInv, PTL DEF ServerSpec

\* A host is served as attached only if it has imported the device itself,
\* however many clients came before it and however they left.
THEOREM OnlyImportersServed == ServerSpec => []ServedAfterImport
<1>1. ServerInv => ServedAfterImport
  BY Zenon DEF ServerInv, ConnectionInv, ImportInv, ServedAfterImport, Connected
<1> QED
  BY <1>1, ServerInvariant, PTL

\* Ctrl-C ends the process the eighth time at the latest and the fifth at the
\* earliest, whatever the other threads do.
THEOREM InterruptsExit == ServerSpec => []EightInterruptsExit
<1>1. ServerInv => EightInterruptsExit
  BY DEF ServerInv, ServerTypeOK, InterruptInv, EightInterruptsExit,
         PANIC_LIMIT
<1> QED
  BY <1>1, ServerInvariant, PTL

\* The counters and flags stay within their types; the countdown of
\* keep_running stops at 0.
THEOREM ServerTypes == ServerSpec => []ServerTypeOK
<1>1. ServerInv => ServerTypeOK
  BY Zenon DEF ServerInv
<1> QED
  BY <1>1, ServerInvariant, PTL

=============================================================================
