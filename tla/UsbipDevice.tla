---------------------------- MODULE UsbipDevice ----------------------------
(***************************************************************************)
(* src/lib/usbip_device.c: the endpoint buffers between the threads of an  *)
(* application, which transmit, and the server thread, which fetches for   *)
(* the host and runs every device callback.                                *)
(*                                                                         *)
(* Code between pthread_mutex_lock and pthread_mutex_unlock of             *)
(* ep_access_mutex is one step: nothing inside blocks except               *)
(* pthread_cond_wait, which is where a step ends.  receive_lock is held    *)
(* over several steps, so it is a variable.  The server thread's own code  *)
(* (the protocol) is left open: DeviceNext lets it call the operations in  *)
(* any order, and UsbipProtocol calls them in the order the code does.     *)
(*                                                                         *)
(* A byte is <<c, i>>: byte i of the data of the c-th call to transmit.    *)
(***************************************************************************)
EXTENDS Naturals, Sequences, ControlRequest

CONSTANTS Thread,                    \* the application's threads
          Server,                    \* the server thread
          Nobody,                    \* receive_lock is free
          InEp,                      \* the IN endpoints other than 0
          ENDPOINT_MAX_DATA_LENGTH,
          TransmitLength,            \* lengths passed to transmit
          FetchLength,               \* transfer lengths the host asks for
          Setup,                     \* control requests of the host
          HasResetCallback,          \* usb_device->reset_callback != NULL
          MaxTransmits,              \* bound: calls to transmit
          MaxResets,                 \* bound: resets
          MaxRequests                \* bound: control requests

Endpoint == InEp \cup {0}
Process == Thread \cup {Server}

ASSUME ProcessAssumption == Server \notin Thread /\ Nobody \notin Process
ASSUME EndpointAssumption == InEp \subseteq 1 .. 15
ASSUME LengthAssumption ==
    /\ ENDPOINT_MAX_DATA_LENGTH \in Nat \ {0}
    /\ TransmitLength \subseteq Nat
    /\ FetchLength \subseteq Nat
ASSUME SetupAssumption ==
    /\ DescriptorLength \in [Descriptor -> Nat]
    /\ \A s \in Setup : Route(s) = "answer" => AnswerLength(s) \in Nat
ASSUME BoundAssumption ==
    MaxTransmits \in Nat /\ MaxResets \in Nat /\ MaxRequests \in Nat
ASSUME ResetCallbackAssumption == HasResetCallback \in BOOLEAN

VARIABLES
    \* protected by ep_access_mutex
    endpoint_data,        \* per endpoint, the bytes the host has not fetched
    control_answered,     \* the current control request was answered
    reset_generation,     \* counts resets
    device_stopped,
    waiters,              \* threads asleep on the condition ep_data_consumed
    \* other shared state
    ep_data_event,        \* the eventfd's counter is not zero
    receive_lock,         \* who holds it
    in_critical_section,  \* thread local
    \* inside usbip_device_transmit
    pc,                   \* where each process is
    call,                 \* its arguments and the generation it read
    \* the server thread
    server,               \* which operation of this file it is in
    answer_length,        \* what the library itself is about to answer
    configuration_value,
    reply,                \* what fetch_control_reply returned
    \* history, for the properties only
    calls,                \* per call, the session and the request it began in
    requests,             \* counts control requests
    accepted,             \* bytes stored since the last reset
    delivered             \* bytes fetched since the last reset

bufferVars  == <<endpoint_data, waiters, accepted, delivered>>
controlVars == <<control_answered, answer_length, configuration_value, reply,
                 requests>>
lockVars    == <<receive_lock, in_critical_section>>
processVars == <<pc, call, calls>>
resetVars   == <<reset_generation, device_stopped>>

deviceVars == <<endpoint_data, control_answered, reset_generation,
                device_stopped, waiters, ep_data_event, receive_lock,
                in_critical_section, pc, call, server, answer_length,
                configuration_value, reply, calls, requests, accepted,
                delivered>>

NoCall  == [ep |-> 0, data |-> <<>>, generation |-> 0]
NoReply == [answered |-> FALSE, data |-> <<>>]
NoData  == [ep \in Endpoint |-> <<>>]

DeviceInit ==
    /\ endpoint_data = NoData
    /\ control_answered = FALSE
    /\ reset_generation = 0
    /\ device_stopped = FALSE
    /\ waiters = {}
    /\ ep_data_event = FALSE
    /\ receive_lock = Nobody
    /\ in_critical_section = [t \in Thread |-> FALSE]
    /\ pc = [p \in Process |-> "idle"]
    /\ call = [p \in Process |-> NoCall]
    /\ server = "ready"
    /\ answer_length = 0
    /\ configuration_value = 0
    /\ reply = NoReply
    /\ calls = <<>>
    /\ requests = 0
    /\ accepted = [ep \in InEp |-> <<>>]
    /\ delivered = [ep \in InEp |-> <<>>]

-----------------------------------------------------------------------------
(* usbip_device_transmit, by an application thread or in a callback. *)

(* Mutant of DataOf: data longer than the buffer is not cut. *)
DataOf_NotCut(n) == [i \in 1 .. n |-> <<Len(calls) + 1, i>>]

(* The data of the next call: n bytes, longer data is cut. *)
DataOf(n) ==
    [i \in 1 .. Shorter(n, ENDPOINT_MAX_DATA_LENGTH) |-> <<Len(calls) + 1, i>>]

(* Mutant of may_wait: forgets that a critical section blocks the server. *)
may_wait_InCriticalSection(p) == p # Server

(* The server thread fetches the data, so neither it nor a thread that     *)
(* blocks it with a critical section may wait.                             *)
may_wait(p) == p # Server /\ ~in_critical_section[p]

(* The condition of the loop around pthread_cond_wait: earlier data has to *)
(* be fetched first, unless this is a control answer, which replaces it.   *)
must_wait(p, ep) ==
    /\ ep # 0
    /\ may_wait(p)
    /\ ~device_stopped
    /\ endpoint_data[ep] # <<>>

(* Mutant of can_store: a reset during the wait goes unnoticed. *)
can_store_IgnoresReset(ep, generation) ==
    /\ ~device_stopped
    /\ ep = 0 \/ endpoint_data[ep] = <<>>

(* Data is stored unless the server ended, the device was reset since the  *)
(* call began, or earlier data is still there.                             *)
can_store(ep, generation) ==
    /\ ~device_stopped
    /\ generation = reset_generation
    /\ ep = 0 \/ endpoint_data[ep] = <<>>

Sleep(p, c) ==
    /\ must_wait(p, c.ep)
    /\ waiters' = waiters \cup {p}
    /\ pc' = [pc EXCEPT ![p] = "wait"]
    /\ call' = [call EXCEPT ![p] = c]
    /\ UNCHANGED <<endpoint_data, control_answered, accepted>>

Store(p, c) ==
    /\ ~must_wait(p, c.ep)
    /\ can_store(c.ep, c.generation)
    /\ endpoint_data' = [endpoint_data EXCEPT ![c.ep] = c.data]
    /\ control_answered' = (control_answered \/ c.ep = 0)
    /\ accepted' = IF c.ep = 0 THEN accepted
                   ELSE [accepted EXCEPT ![c.ep] = @ \o c.data]
    /\ pc' = [pc EXCEPT ![p] = IF c.ep = 0 THEN "idle" ELSE "signal"]
    /\ call' = [call EXCEPT ![p] = NoCall]
    /\ UNCHANGED waiters

Drop(p, c) ==
    /\ ~must_wait(p, c.ep)
    /\ ~can_store(c.ep, c.generation)
    /\ pc' = [pc EXCEPT ![p] = "idle"]
    /\ call' = [call EXCEPT ![p] = NoCall]
    /\ UNCHANGED <<endpoint_data, control_answered, accepted, waiters>>

(* From taking ep_access_mutex, or waking up with it, to giving it back. *)
TransmitLocked(p, c) ==
    /\ Sleep(p, c) \/ Store(p, c) \/ Drop(p, c)
    /\ UNCHANGED <<resetVars, ep_data_event, lockVars, answer_length,
                   configuration_value, reply, requests, delivered>>

Transmit(p, ep, n) ==
    /\ pc[p] = "idle"
    /\ calls' = Append(calls, [generation |-> reset_generation,
                               request |-> requests])
    /\ TransmitLocked(p, [ep |-> ep, data |-> DataOf(n),
                          generation |-> reset_generation])

(* A broadcast or a spurious wake-up took the thread off the condition. *)
WakeUp(t) ==
    /\ pc[t] = "wait"
    /\ t \notin waiters
    /\ TransmitLocked(t, call[t])
    /\ UNCHANGED <<calls, server>>

(* POSIX allows pthread_cond_wait to return without a broadcast. *)
SpuriousWakeUp(t) ==
    /\ t \in waiters
    /\ waiters' = waiters \ {t}
    /\ UNCHANGED <<endpoint_data, accepted, delivered, controlVars, lockVars,
                   processVars, resetVars, ep_data_event, server>>

(* The eventfd is written after the mutex was given back. *)
SignalEvent(p) ==
    /\ pc[p] = "signal"
    /\ ep_data_event' = TRUE
    /\ pc' = [pc EXCEPT ![p] = "idle"]
    /\ UNCHANGED <<bufferVars, controlVars, lockVars, resetVars, call, calls,
                   server>>

critical_section_enter(t) ==
    /\ pc[t] = "idle"
    /\ receive_lock = Nobody
    /\ receive_lock' = t
    /\ in_critical_section' = [in_critical_section EXCEPT ![t] = TRUE]
    /\ UNCHANGED <<bufferVars, controlVars, processVars, resetVars,
                   ep_data_event, server>>

critical_section_exit(t) ==
    /\ pc[t] = "idle"
    /\ in_critical_section[t]
    /\ receive_lock' = Nobody
    /\ in_critical_section' = [in_critical_section EXCEPT ![t] = FALSE]
    /\ UNCHANGED <<bufferVars, controlVars, processVars, resetVars,
                   ep_data_event, server>>

(* An application thread calls transmit, inside or outside a critical      *)
(* section.                                                                *)
ThreadTransmit(t) ==
    /\ Len(calls) < MaxTransmits
    /\ \E ep \in Endpoint, n \in TransmitLength : Transmit(t, ep, n)
    /\ UNCHANGED server

ThreadStep(t) ==
    \/ ThreadTransmit(t)
    \/ WakeUp(t)
    \/ SpuriousWakeUp(t)
    \/ SignalEvent(t)
    \/ critical_section_enter(t)
    \/ critical_section_exit(t)

-----------------------------------------------------------------------------
(* Operations of the server thread.  Each is called when server = "ready"  *)
(* and has returned when server = "ready" again.                           *)

(* usbip_device_reset up to pthread_mutex_unlock. *)
Reset ==
    /\ server = "ready"
    /\ endpoint_data' = NoData
    /\ configuration_value' = 0
    /\ control_answered' = FALSE
    /\ reset_generation' = reset_generation + 1
    /\ waiters' = {}
    /\ accepted' = [ep \in InEp |-> <<>>]
    /\ delivered' = [ep \in InEp |-> <<>>]
    /\ server' = "reset"
    /\ UNCHANGED <<device_stopped, ep_data_event, lockVars, processVars,
                   answer_length, reply, requests>>

(* The rest of usbip_device_reset, up to the lock of its callback. *)
ResetClearEvent ==
    /\ server = "reset"
    /\ ep_data_event' = FALSE
    /\ server' = IF HasResetCallback THEN "locking" ELSE "ready"
    /\ UNCHANGED <<bufferVars, controlVars, lockVars, processVars, resetVars>>

(* usbip_device_receive and usbip_device_iso_in: a callback under the lock. *)
StartCallback ==
    /\ server = "ready"
    /\ server' = "locking"
    /\ UNCHANGED <<bufferVars, controlVars, lockVars, processVars, resetVars,
                   ep_data_event>>

(* Mutant of EnterCallback: the callback runs without taking the lock. *)
EnterCallback_WithoutLock ==
    /\ server = "locking"
    /\ server' = "callback"
    /\ UNCHANGED <<bufferVars, controlVars, lockVars, processVars, resetVars,
                   ep_data_event>>

(* The server thread has the lock and calls the device. *)
EnterCallback ==
    /\ server = "locking"
    /\ receive_lock = Nobody
    /\ receive_lock' = Server
    /\ server' = "callback"
    /\ UNCHANGED <<bufferVars, controlVars, in_critical_section, processVars,
                   resetVars, ep_data_event>>

CallbackTransmit ==
    /\ server = "callback"
    /\ Len(calls) < MaxTransmits
    /\ \E ep \in Endpoint, n \in TransmitLength : Transmit(Server, ep, n)
    /\ UNCHANGED server

ReturnCallback ==
    /\ server = "callback"
    /\ pc[Server] = "idle"
    /\ receive_lock' = Nobody
    /\ server' = "ready"
    /\ UNCHANGED <<bufferVars, controlVars, in_critical_section, processVars,
                   resetVars, ep_data_event>>

(* Mutant of WithoutOldAnswer: an unfetched answer is left in place. *)
WithoutOldAnswer_Kept == endpoint_data

(* Only an answer given to this request may reply to it. *)
WithoutOldAnswer == [endpoint_data EXCEPT ![0] = <<>>]

(* usbip_device_control: forget the last request's answer, then dispatch. *)
Control(s) ==
    /\ server = "ready"
    /\ endpoint_data' = WithoutOldAnswer
    /\ control_answered' = FALSE
    /\ configuration_value' = IF Configures(s) THEN s.value
                              ELSE configuration_value
    /\ server' = CASE Route(s) = "callback" -> "locking"
                   [] Route(s) = "answer" -> "answer"
                   [] OTHER -> "ready"
    /\ answer_length' = IF Route(s) = "answer" THEN AnswerLength(s) ELSE 0
    /\ requests' = requests + 1
    /\ reply' = NoReply
    /\ UNCHANGED <<waiters, accepted, delivered, lockVars, processVars,
                   resetVars, ep_data_event>>

(* The library answers a standard request, without receive_lock. *)
LibraryAnswer ==
    /\ server = "answer"
    /\ server' = "ready"
    /\ Transmit(Server, 0, answer_length)

(* usbip_device_fetch_control_reply: the flag first, *)
FetchAnswered ==
    /\ server = "ready"
    /\ reply' = [answered |-> control_answered, data |-> <<>>]
    /\ control_answered' = FALSE
    /\ server' = "fetch_reply"
    /\ UNCHANGED <<bufferVars, answer_length, configuration_value, requests,
                   lockVars, processVars, resetVars, ep_data_event>>

(* Mutant of Remaining: every transfer drops the rest, not only control. *)
Remaining_DropsRest(ep, max) == <<>>

(* What is left of endpoint ep's data after a transfer of at most max      *)
(* bytes; a control transfer is complete and drops the rest.               *)
Remaining(ep, max) ==
    IF ep = 0 THEN <<>>
    ELSE SubSeq(endpoint_data[ep], Shorter(max, Len(endpoint_data[ep])) + 1,
                Len(endpoint_data[ep]))

Fetched(ep, max) ==
    SubSeq(endpoint_data[ep], 1, Shorter(max, Len(endpoint_data[ep])))

(* Mutant of AfterFetch: the broadcast is missing. *)
AfterFetch_NoBroadcast(ep, max) == waiters

(* Whoever waits for data to be consumed is woken when nothing is left. *)
AfterFetch(ep, max) == IF Remaining(ep, max) = <<>> THEN {} ELSE waiters

(* and then the data. *)
FetchControlReply(max) ==
    /\ server = "fetch_reply"
    /\ reply' = [reply EXCEPT !.data = Fetched(0, max)]
    /\ endpoint_data' = [endpoint_data EXCEPT ![0] = Remaining(0, max)]
    /\ waiters' = AfterFetch(0, max)
    /\ server' = "ready"
    /\ UNCHANGED <<accepted, delivered, control_answered, answer_length,
                   configuration_value, requests, lockVars, processVars,
                   resetVars, ep_data_event>>

(* usbip_device_fetch_ep_data for an IN transfer. *)
FetchEpData(ep, max) ==
    /\ server = "ready"
    /\ endpoint_data' = [endpoint_data EXCEPT ![ep] = Remaining(ep, max)]
    /\ waiters' = AfterFetch(ep, max)
    /\ delivered' = [delivered EXCEPT ![ep] = @ \o Fetched(ep, max)]
    /\ UNCHANGED <<accepted, controlVars, lockVars, processVars, resetVars,
                   ep_data_event, server>>

ClearEvent ==
    /\ server = "ready"
    /\ ep_data_event' = FALSE
    /\ UNCHANGED <<bufferVars, controlVars, lockVars, processVars, resetVars,
                   server>>

(* usbip_device_stop, the server thread's last call. *)
Stop ==
    /\ server = "ready"
    /\ device_stopped' = TRUE
    /\ endpoint_data' = NoData
    /\ waiters' = {}
    /\ accepted' = delivered
    /\ server' = "stopped"
    /\ UNCHANGED <<delivered, controlVars, lockVars, processVars,
                   reset_generation, ep_data_event>>

(* Steps inside an operation, which the caller does not choose. *)
ServerStep ==
    \/ ResetClearEvent
    \/ EnterCallback
    \/ CallbackTransmit
    \/ SignalEvent(Server)
    \/ ReturnCallback
    \/ LibraryAnswer

(* The operations, in any order a server might call them. *)
ServerCall ==
    \/ reset_generation < MaxResets /\ Reset
    \/ StartCallback
    \/ requests < MaxRequests /\ \E s \in Setup : Control(s)
    \/ FetchAnswered
    \/ \E max \in FetchLength : FetchControlReply(max)
    \/ \E ep \in InEp, max \in FetchLength : FetchEpData(ep, max)
    \/ ClearEvent
    \/ Stop

DeviceNext ==
    \/ \E t \in Thread : ThreadStep(t)
    \/ ServerStep
    \/ ServerCall

DeviceSpec == DeviceInit /\ [][DeviceNext]_deviceVars

-----------------------------------------------------------------------------
(* Properties *)

Byte == (Nat \ {0}) \X (1 .. ENDPOINT_MAX_DATA_LENGTH)
Buffer == {data \in Seq(Byte) : Len(data) <= ENDPOINT_MAX_DATA_LENGTH}
Call == [ep : Endpoint, data : Buffer, generation : Nat]

(* Every variable holds values of its type; no endpoint holds more than    *)
(* its buffer has room for.                                                *)
DeviceTypeOK ==
    /\ endpoint_data \in [Endpoint -> Buffer]
    /\ control_answered \in BOOLEAN
    /\ reset_generation \in Nat
    /\ device_stopped \in BOOLEAN
    /\ waiters \subseteq Thread
    /\ ep_data_event \in BOOLEAN
    /\ receive_lock \in Process \cup {Nobody}
    /\ in_critical_section \in [Thread -> BOOLEAN]
    /\ pc \in [Process -> {"idle", "wait", "signal"}]
    /\ call \in [Process -> Call]
    /\ server \in {"ready", "reset", "locking", "callback", "answer",
                   "fetch_reply", "stopped"}
    /\ answer_length \in Nat
    /\ reply \in [answered : BOOLEAN, data : Buffer]
    /\ calls \in Seq([generation : Nat, request : Nat])
    /\ requests \in Nat
    /\ accepted \in [InEp -> Seq(Byte)]
    /\ delivered \in [InEp -> Seq(Byte)]

(* No lost wake-up of a producer: a thread asleep in usbip_device_transmit *)
(* has data of its endpoint to wait for, and the server still runs.  Every *)
(* place that empties an endpoint has to broadcast for this to hold.       *)
SleepersHaveCause ==
    \A t \in waiters :
        /\ pc[t] = "wait"
        /\ ~device_stopped
        /\ endpoint_data[call[t].ep] # <<>>

(* Data of a transmit that began before a reset is never waiting for, and  *)
(* was never fetched by, the host that came after it, however long the     *)
(* transmit waited (usbip_server_api.h:85 "Data transmitted before the     *)
(* reset is discarded").                                                   *)
OfThisSession(data) ==
    \A i \in 1 .. Len(data) : calls[data[i][1]].generation = reset_generation
SessionIsolation ==
    \A ep \in InEp :
        OfThisSession(endpoint_data[ep]) /\ OfThisSession(delivered[ep])

(* A control request is replied to with the answer given to it, never with *)
(* the answer of an earlier request that nobody fetched, whichever thread  *)
(* transmits on endpoint 0 (usbip_device.c:230).                           *)
ReplyIsFresh ==
    \A i \in 1 .. Len(reply.data) : calls[reply.data[i][1]].request = requests

(* No callback runs while an application thread is in a critical section,  *)
(* and no two threads are in one (usbip_server_api.h:144).                 *)
CriticalSectionsExclude ==
    /\ server = "callback" => \A t \in Thread : ~in_critical_section[t]
    /\ \A t, u \in Thread :
           in_critical_section[t] /\ in_critical_section[u] => t = u

(* Nobody who keeps the server thread from fetching waits for it to fetch. *)
NobodyWaitsHoldingTheLock ==
    \A p \in Process : pc[p] = "wait" => receive_lock # p

(* The detailed device implements the byte streams of HostStream.  A       *)
(* thread whose generation has passed, or that has yet to see the stop,    *)
(* still sleeps but waits for nothing.                                     *)
IsWaiting(t) ==
    /\ pc[t] = "wait"
    /\ call[t].generation = reset_generation
    /\ ~device_stopped
waitingBar ==
    [t \in Thread |-> IF IsWaiting(t)
                      THEN [ep |-> call[t].ep, data |-> call[t].data]
                      ELSE [ep |-> 0, data |-> <<>>]]
Chunks ==
    {[i \in 1 .. n |-> <<c, i>>] :
        n \in 0 .. ENDPOINT_MAX_DATA_LENGTH, c \in 1 .. MaxTransmits}
Host == INSTANCE HostStream WITH Chunk <- Chunks, waiting <- waitingBar,
                                 stopped <- device_stopped
HostStreamSpec == Host!Spec

=============================================================================
