---------------------------- MODULE UsbipServer ----------------------------
(***************************************************************************)
(* src/lib/usbip_server.c and tcpip_server.c: the life of the worker       *)
(* thread, from waiting for a client to its end, with blocking reads and   *)
(* writes, the Ctrl-C handler, and the application that stops the server.  *)
(*                                                                         *)
(* What the commands of an attached host do is UsbipProtocol's; here a     *)
(* pass through usbip_protocol_process_imported_device may read a command  *)
(* and then writes some number of replies.  SIGINT is blocked in the       *)
(* worker, so the handler runs on the application's thread; the worker     *)
(* runs between any two of its steps.                                      *)
(***************************************************************************)
EXTENDS Integers

CONSTANTS MaxReplies,     \* bound: replies of one pass
          MaxClients,     \* bound: clients that connect
          MaxInterrupts   \* bound: Ctrl-C

ASSUME ServerAssumption ==
    MaxReplies \in Nat /\ MaxClients \in Nat /\ MaxInterrupts \in Nat

VARIABLES
    keep_running,
    panic_counter,
    exited,           \* _exit was called
    stop_server,
    handler,          \* where the signal handler is, "out" if it does not run
    app,              \* where the application's main thread is
    worker,           \* where the worker thread is
    task,             \* what it reads or writes
    replies_left,     \* replies the pass still has to write
    device_imported,
    device_stopped,
    client_socket,    \* number of the client connected, 0 if none
    peer,             \* what the client does
    \* history
    clients,          \* clients that connected so far
    importer,         \* the client that imported the device last
    attached,         \* what the calls of reset_callback told the device
    interrupts        \* how often Ctrl-C was pressed

signalVars == <<keep_running, panic_counter, exited, stop_server, handler,
                interrupts>>
workerVars == <<worker, task, replies_left, device_imported, device_stopped,
                client_socket, importer, attached>>
peerVars   == <<peer, clients>>
serverVars == <<signalVars, app, workerVars, peerVars>>

Init ==
    /\ keep_running = 3
    /\ panic_counter = 0
    /\ exited = FALSE
    /\ stop_server = FALSE
    /\ handler = "out"
    /\ app = "loop"
    /\ worker = "outer"
    /\ task = "none"
    /\ replies_left = 0
    /\ device_imported = FALSE
    /\ device_stopped = FALSE
    /\ client_socket = 0
    /\ peer = "none"
    /\ clients = 0
    /\ importer = 0
    /\ attached = FALSE
    /\ interrupts = 0

-----------------------------------------------------------------------------
(* The client: it connects, may stop reading its socket, and leaves. *)

Connect ==
    /\ peer = "none"
    /\ clients < MaxClients
    /\ clients' = clients + 1
    /\ peer' = "reading"
    /\ UNCHANGED <<signalVars, app, workerVars>>

StopReading ==
    /\ peer = "reading"
    /\ peer' = "silent"
    /\ UNCHANGED <<signalVars, app, workerVars, clients>>

Leave ==
    /\ peer \in {"reading", "silent"}
    /\ peer' = "gone"
    /\ UNCHANGED <<signalVars, app, workerVars, clients>>

-----------------------------------------------------------------------------
(* The signal handler. *)

(* Mutant of PANIC_LIMIT: one Ctrl-C too many is needed. *)
PANIC_LIMIT_OffByOne == 6

PANIC_LIMIT == 5

(* Mutant of int_handler: counts down without testing for zero. *)
int_handler_CountsOn ==
    /\ handler = "out"
    /\ app # "stopped"
    /\ interrupts < MaxInterrupts
    /\ interrupts' = interrupts + 1
    /\ keep_running' = keep_running - 1
    /\ handler' = IF keep_running = 1 THEN "stop" ELSE "out"
    /\ UNCHANGED <<panic_counter, exited, stop_server, app, workerVars, peerVars>>

(* usbip_server's SIGINT handler: three interrupts stop the server, and    *)
(* PANIC_LIMIT more end the process.                                       *)
int_handler ==
    /\ handler = "out"
    /\ app # "stopped"
    /\ interrupts < MaxInterrupts
    /\ interrupts' = interrupts + 1
    /\ IF keep_running > 0
       THEN /\ keep_running' = keep_running - 1
            /\ handler' = IF keep_running = 1 THEN "stop" ELSE "out"
            /\ UNCHANGED <<panic_counter, exited>>
       ELSE /\ panic_counter' = panic_counter + 1
            /\ exited' = (panic_counter + 1 = PANIC_LIMIT)
            /\ UNCHANGED <<keep_running, handler>>
    /\ UNCHANGED <<stop_server, app, workerVars, peerVars>>

(* The last Ctrl-C also stops the sockets; the worker may have seen        *)
(* keep_running before.                                                    *)
HandlerStops ==
    /\ handler = "stop"
    /\ stop_server' = TRUE
    /\ handler' = "out"
    /\ UNCHANGED <<keep_running, panic_counter, exited, interrupts, app,
                   workerVars, peerVars>>

-----------------------------------------------------------------------------
(* The application's main thread: it transmits and enters critical         *)
(* sections until it is interrupted or has had enough, then stops the      *)
(* server.                                                                 *)

App(from, to) ==
    /\ handler = "out"
    /\ app = from
    /\ app' = to

(* usbip_server_interrupted is tested at the head of the main loop. *)
AppLoop ==
    /\ App("loop", IF keep_running = 0 THEN "leave" ELSE "body")
    /\ UNCHANGED <<signalVars, workerVars, peerVars>>

AppLeaves ==
    /\ App("loop", "leave")
    /\ UNCHANGED <<signalVars, workerVars, peerVars>>

AppWorks ==
    /\ \/ App("body", "loop")
       \/ App("body", "critical")
       \/ ~device_stopped /\ App("body", "transmit")
    /\ UNCHANGED <<signalVars, workerVars, peerVars>>

AppExitsCritical ==
    /\ App("critical", "loop")
    /\ UNCHANGED <<signalVars, workerVars, peerVars>>

(* A transmit that waits returns when the host has fetched the data before *)
(* it.                                                                     *)
TransmitReturns ==
    /\ device_imported
    /\ App("transmit", "loop")
    /\ UNCHANGED <<signalVars, workerVars, peerVars>>

(* Or when a reset or the end of the server releases it: the broadcast of  *)
(* ep_data_consumed.                                                       *)
Released == IF app = "transmit" THEN "loop" ELSE app

(* usbip_server_stop: two assignments and a join. *)
usbip_server_stop ==
    /\ App("leave", "stopping")
    /\ keep_running' = 0
    /\ UNCHANGED <<panic_counter, exited, stop_server, handler, interrupts,
                   workerVars, peerVars>>

AppStopsSockets ==
    /\ App("stopping", "joining")
    /\ stop_server' = TRUE
    /\ UNCHANGED <<keep_running, panic_counter, exited, handler, interrupts,
                   workerVars, peerVars>>

AppJoins ==
    /\ worker = "ended"
    /\ App("joining", "stopped")
    /\ UNCHANGED <<signalVars, workerVars, peerVars>>

-----------------------------------------------------------------------------
(* tcpip_server_read and tcpip_server_write, for the worker.  "read" and   *)
(* "write" are the heads of their loops, "reading" and "writing" the calls *)
(* that block.                                                             *)

Worker(from, to) ==
    /\ worker = from
    /\ worker' = to

Start(operation, what) ==
    /\ worker' = operation
    /\ task' = what

(* Where the worker goes on after a read or write that failed: an attached *)
(* host is lost, anyone else is disconnected.                              *)
AfterFailure == IF task \in {"command", "reply"} THEN "lost" ELSE "close"

ReadHead ==
    /\ Worker("read", IF stop_server THEN AfterFailure ELSE "reading")
    /\ UNCHANGED <<signalVars, app, peerVars, task, replies_left,
                   device_imported, device_stopped, client_socket, importer,
                   attached>>

(* SO_RCVTIMEO: the loop looks at stop_server again. *)
ReadTimeout ==
    /\ peer # "gone"
    /\ Worker("reading", "read")
    /\ UNCHANGED <<signalVars, app, peerVars, task, replies_left,
                   device_imported, device_stopped, client_socket, importer,
                   attached>>

ReadFails ==
    /\ peer = "gone"
    /\ Worker("reading", AfterFailure)
    /\ UNCHANGED <<signalVars, app, peerVars, task, replies_left,
                   device_imported, device_stopped, client_socket, importer,
                   attached>>

(* All that was asked for has arrived, from a client that may be gone by   *)
(* now: a request, the bus id of an import, a command, or neither.         *)
ReadDone ==
    /\ worker = "reading"
    /\ \/ task = "head" /\ Start("write", "devlist")
       \/ task = "head" /\ Start("read", "busid")
       \/ task = "head" /\ Start("close", task)
       \/ task = "busid" /\ Start("import", task)
       \/ task = "command" /\ Start("pass", task)
       \/ task = "command" /\ Start("lost", task)
    /\ replies_left' \in IF worker' = "pass" THEN 0 .. MaxReplies
                                             ELSE {replies_left}
    /\ UNCHANGED <<signalVars, app, peerVars, device_imported, device_stopped,
                   client_socket, importer, attached>>

WriteHead ==
    /\ Worker("write", IF stop_server THEN AfterFailure ELSE "writing")
    /\ UNCHANGED <<signalVars, app, peerVars, task, replies_left,
                   device_imported, device_stopped, client_socket, importer,
                   attached>>

(* Part of the reply fits the socket buffer. *)
WritePart ==
    /\ peer # "gone"
    /\ Worker("writing", "write")
    /\ UNCHANGED <<signalVars, app, peerVars, task, replies_left,
                   device_imported, device_stopped, client_socket, importer,
                   attached>>

WriteFails ==
    /\ peer = "gone"
    /\ Worker("writing", AfterFailure)
    /\ UNCHANGED <<signalVars, app, peerVars, task, replies_left,
                   device_imported, device_stopped, client_socket, importer,
                   attached>>

(* The whole reply is written.  Only a host that gets its import reply has *)
(* imported the device; the list of devices ends a connection.             *)
WriteDone ==
    /\ worker = "writing"
    /\ worker' = CASE task = "devlist" -> "close"
                   [] task = "import" -> "session"
                   [] task = "reply" -> "pass"
    /\ device_imported' = (device_imported \/ task = "import")
    /\ importer' = IF task = "import" THEN client_socket ELSE importer
    /\ UNCHANGED <<signalVars, app, peerVars, task, replies_left,
                   device_stopped, client_socket, attached>>

-----------------------------------------------------------------------------
(* usbip_server_worker_thread. *)

OuterLoop ==
    /\ Worker("outer", IF keep_running > 0 THEN "accept" ELSE "stop")
    /\ UNCHANGED <<signalVars, app, peerVars, task, replies_left,
                   device_imported, device_stopped, client_socket, importer,
                   attached>>

(* select times out, or accept fails. *)
NoClient ==
    /\ Worker("accept", "outer")
    /\ UNCHANGED <<signalVars, app, peerVars, task, replies_left,
                   device_imported, device_stopped, client_socket, importer,
                   attached>>

AcceptClient ==
    /\ peer # "none"
    /\ Worker("accept", "session")
    /\ client_socket' = clients
    /\ UNCHANGED <<signalVars, app, peerVars, task, replies_left,
                   device_imported, device_stopped, importer, attached>>

(* The head of the inner loop. *)
Session ==
    /\ worker = "session"
    /\ \/ keep_running = 0 /\ Start("close", task)
       \/ keep_running > 0 /\ device_imported /\ Start("poll", task)
       \/ keep_running > 0 /\ ~device_imported /\ Start("read", "head")
    /\ UNCHANGED <<signalVars, app, peerVars, replies_left, device_imported,
                   device_stopped, client_socket, importer, attached>>

(* An import resets the device, whose callback waits for a critical        *)
(* section to end, and answers.                                            *)
Import ==
    /\ worker = "import"
    /\ app # "critical"
    /\ attached' = TRUE
    /\ app' = Released
    /\ Start("write", "import")
    /\ UNCHANGED <<signalVars, peerVars, replies_left, device_imported,
                   device_stopped, client_socket, importer>>

(* tcpip_server_wait_for_data: a command, or an event or the timeout. *)
PollCommand ==
    /\ worker = "poll"
    /\ ~stop_server
    /\ Start("read", "command")
    /\ UNCHANGED <<signalVars, app, peerVars, replies_left, device_imported,
                   device_stopped, client_socket, importer, attached>>

PollReturns ==
    /\ Worker("poll", "pass")
    /\ replies_left' \in 0 .. MaxReplies
    /\ UNCHANGED <<signalVars, app, peerVars, task, device_imported,
                   device_stopped, client_socket, importer, attached>>

(* Replies to the command and to transfers that can be completed. *)
Pass ==
    /\ worker = "pass"
    /\ IF replies_left > 0
       THEN Start("write", "reply") /\ replies_left' = replies_left - 1
       ELSE Start("session", task) /\ UNCHANGED replies_left
    /\ UNCHANGED <<signalVars, app, peerVars, device_imported, device_stopped,
                   client_socket, importer, attached>>

(* Mutant of Lost: the device stays imported. *)
Lost_StaysImported ==
    /\ app # "critical"
    /\ Worker("lost", "close")
    /\ attached' = FALSE
    /\ app' = Released
    /\ UNCHANGED <<signalVars, peerVars, task, replies_left,
                   device_imported, device_stopped, client_socket, importer>>

(* The connection of an attached host failed. *)
Lost ==
    /\ app # "critical"
    /\ Worker("lost", "close")
    /\ device_imported' = FALSE
    /\ attached' = FALSE
    /\ app' = Released
    /\ UNCHANGED <<signalVars, peerVars, task, replies_left,
                   device_stopped, client_socket, importer>>

CloseClient ==
    /\ Worker("close", "outer")
    /\ client_socket' = 0
    /\ peer' = "none"
    /\ UNCHANGED <<signalVars, app, task, replies_left, device_imported,
                   device_stopped, importer, attached, clients>>

(* Mutant of WorkerStops: nothing wakes a waiting transmit. *)
WorkerStops_NoBroadcast ==
    /\ Worker("stop", "ended")
    /\ device_stopped' = TRUE
    /\ UNCHANGED <<signalVars, app, peerVars, task, replies_left,
                   device_imported, client_socket, importer, attached>>

(* usbip_device_stop, and the listening socket is closed. *)
WorkerStops ==
    /\ Worker("stop", "ended")
    /\ device_stopped' = TRUE
    /\ app' = Released
    /\ UNCHANGED <<signalVars, peerVars, task, replies_left,
                   device_imported, client_socket, importer, attached>>

-----------------------------------------------------------------------------
(* What the worker does by itself: reads, waits for a client and ppoll all *)
(* have a timeout.                                                         *)
WorkerStep ==
    \/ OuterLoop \/ NoClient \/ AcceptClient \/ Session \/ Import
    \/ ReadHead \/ ReadTimeout \/ ReadFails \/ ReadDone \/ WriteHead
    \/ PollCommand \/ PollReturns \/ Pass \/ Lost \/ CloseClient
    \/ WorkerStops

(* What it does when the client or the socket buffer lets it. *)
WriteStep == WritePart \/ WriteFails \/ WriteDone

AppStep ==
    \/ AppLoop \/ AppWorks \/ AppExitsCritical
    \/ usbip_server_stop \/ AppStopsSockets \/ AppJoins

ClientStep == Connect \/ StopReading \/ Leave

ServerNext ==
    /\ ~exited
    /\ \/ WorkerStep \/ WriteStep
       \/ AppStep \/ AppLeaves \/ TransmitReturns
       \/ int_handler \/ HandlerStops
       \/ ClientStep

ServerSpec == Init /\ [][ServerNext]_serverVars

(* Threads and the handler keep running, and a write to a client that      *)
(* reads or has left returns; clients and Ctrl-C owe nothing.              *)
ServerFairness ==
    /\ WF_serverVars(~exited /\ WorkerStep)
    /\ WF_serverVars(~exited /\ peer # "silent" /\ WriteStep)
    /\ WF_serverVars(~exited /\ AppStep)
    /\ WF_serverVars(~exited /\ HandlerStops)

FairServerSpec == ServerSpec /\ ServerFairness

-----------------------------------------------------------------------------
(* Properties *)

(* Every variable holds values of its type. *)
ServerTypeOK ==
    /\ keep_running \in 0 .. 3
    /\ panic_counter \in 0 .. PANIC_LIMIT
    /\ exited \in BOOLEAN /\ stop_server \in BOOLEAN
    /\ handler \in {"out", "stop"}
    /\ app \in {"loop", "body", "transmit", "critical", "leave", "stopping",
                "joining", "stopped"}
    /\ worker \in {"outer", "accept", "session", "read", "reading", "write",
                   "writing", "import", "poll", "pass", "lost", "close",
                   "stop", "ended"}
    /\ task \in {"none", "head", "busid", "devlist", "import", "command",
                 "reply"}
    /\ replies_left \in 0 .. MaxReplies
    /\ device_imported \in BOOLEAN /\ device_stopped \in BOOLEAN
    /\ client_socket \in 0 .. clients
    /\ peer \in {"none", "reading", "silent", "gone"}
    /\ clients \in Nat /\ importer \in Nat /\ interrupts \in Nat
    /\ attached \in BOOLEAN

(* A client is served as the attached host only if it has imported the     *)
(* device itself: however an earlier connection ended, it left nothing.    *)
ServedAfterImport ==
    worker \in {"poll", "pass"} =>
        client_socket # 0 /\ importer = client_socket

(* "Ctrl-C three times interrupts the server, five more times forces an    *)
(* exit" (usbip_server_api.h:160), wherever the worker is stuck and also   *)
(* if the application stopped the server before.                           *)
EightInterruptsExit ==
    /\ interrupts >= 8 /\ handler = "out" => exited \/ app = "stopped"
    /\ exited => interrupts >= 5

(* An interrupted or stopped server ends, and usbip_server_stop returns,   *)
(* unless a client neither reads nor leaves: no transmit keeps waiting and *)
(* no read keeps the worker.                                               *)
InterruptedEnds ==
    []<>(peer # "silent") =>
        (keep_running = 0 ~> (app = "stopped" \/ exited))

(* What tcpip_server.h:43 says of tcpip_server_stop: "Make waiting reads,  *)
(* writes and waits return".                                               *)
StopMakesCallsReturn ==
    \A blocked \in {"reading", "writing", "poll", "accept"} :
        (stop_server /\ worker = blocked) ~> (worker # blocked \/ exited)

(* What usbip_server_api.h:84 says of the reset callback: "Called when a   *)
(* host attaches the device and when it disconnects": by the time the      *)
(* server closes the connection of a host that attached, the callback was  *)
(* called for the disconnect.                                              *)
DetachIsTold ==
    worker = "close" /\ importer = client_socket => ~attached

=============================================================================
