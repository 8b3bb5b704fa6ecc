------------------------- MODULE UsbipDeviceProofs -------------------------
(***************************************************************************)
(* Proofs about UsbipDevice, for any number of threads and endpoints, any  *)
(* buffer length and any bounds: the calls of application threads and the  *)
(* server, the bytes they move and where these come from, and that the     *)
(* endpoint buffers are HostStream's byte streams.                         *)
(***************************************************************************)
EXTENDS UsbipDevice, SequenceTheorems, TLAPS

-----------------------------------------------------------------------------
(* Facts about the data of calls and transfers. *)

(* The shorter of two lengths is a length, and no longer than either. *)
LEMMA ShorterType ==
    ASSUME NEW a \in Nat, NEW b \in Nat
    PROVE  /\ Shorter(a, b) \in Nat
           /\ Shorter(a, b) <= a
           /\ Shorter(a, b) <= b
BY DEF Shorter

(* An empty buffer is a buffer. *)
LEMMA EmptyBuffer == <<>> \in Buffer
BY LengthAssumption DEF Buffer

(* What transmit takes from its caller fits an endpoint's buffer. *)
LEMMA DataOfType ==
    ASSUME NEW n \in Nat, calls \in Seq([generation : Nat, request : Nat])
    PROVE  DataOf(n) \in Buffer
<1> DEFINE m == Shorter(n, ENDPOINT_MAX_DATA_LENGTH)
<1>1. m \in Nat /\ m <= ENDPOINT_MAX_DATA_LENGTH
  BY ShorterType, LengthAssumption, Zenon
<1>2. Len(calls) + 1 \in Nat \ {0}
  OBVIOUS
<1>3. \A i \in 1 .. m : <<Len(calls) + 1, i>> \in Byte
  BY <1>1, <1>2, LengthAssumption DEF Byte
<1> HIDE DEF m
<1>4. /\ [i \in 1 .. m |-> <<Len(calls) + 1, i>>] \in Seq(Byte)
      /\ Len([i \in 1 .. m |-> <<Len(calls) + 1, i>>]) = m
  BY <1>1, <1>3
<1>5. QED
  BY <1>1, <1>4, Zenon DEF DataOf, Buffer, m

(* A transfer splits the data of its endpoint in two. *)
LEMMA FetchedType ==
    ASSUME DeviceTypeOK, NEW ep \in Endpoint, NEW max \in Nat
    PROVE  Fetched(ep, max) \in Buffer /\ Remaining(ep, max) \in Buffer
<1> DEFINE s == endpoint_data[ep]
           k == Shorter(max, Len(s))
<1>1. s \in Seq(Byte) /\ Len(s) <= ENDPOINT_MAX_DATA_LENGTH
  BY Zenon DEF DeviceTypeOK, Buffer
<1> HIDE DEF s
<1>a. Len(s) \in Nat
  BY <1>1
<1>2. k \in Nat /\ k <= Len(s)
  BY <1>a, ShorterType, Zenon
<1> HIDE DEF k
<1>3. SubSeq(s, 1, k) \in Buffer
  BY <1>1, <1>2, LengthAssumption DEF Buffer
<1>4. SubSeq(s, k + 1, Len(s)) \in Buffer
  BY <1>1, <1>2, LengthAssumption DEF Buffer
<1>5. <<>> \in Buffer
  BY EmptyBuffer, Zenon
<1>6. QED
  BY <1>3, <1>4, <1>5, Zenon DEF Fetched, Remaining, s, k

-----------------------------------------------------------------------------
(* Type correctness. *)

(* A step of transmit under the mutex leaves everything well typed. *)
LEMMA TransmitLockedType ==
    ASSUME DeviceTypeOK, NEW p \in Process, NEW c \in Call,
           TransmitLocked(p, c)
    PROVE  /\ endpoint_data' \in [Endpoint -> Buffer]
           /\ control_answered' \in BOOLEAN
           /\ waiters' \subseteq Thread
           /\ pc' \in [Process -> {"idle", "wait", "signal"}]
           /\ call' \in [Process -> Call]
           /\ accepted' \in [InEp -> Seq(Byte)]
<1>0. NoCall \in Call
  BY EmptyBuffer, Zenon DEF NoCall, Call, Endpoint
<1>1. CASE Sleep(p, c)
  <2>1. p \in Thread
    BY <1>1, Zenon DEF Sleep, must_wait, may_wait, Process
  <2>2. QED
    BY <1>1, <2>1, Zenon DEF Sleep, DeviceTypeOK
<1>2. CASE Store(p, c)
  <2>1. c.ep \in Endpoint /\ c.data \in Buffer /\ c.data \in Seq(Byte)
    BY Zenon DEF Call, Buffer
  <2>2. endpoint_data' \in [Endpoint -> Buffer]
    BY <1>2, <2>1, Zenon DEF Store, DeviceTypeOK
  <2>3. accepted' \in [InEp -> Seq(Byte)]
    <3>1. CASE c.ep = 0
      BY <1>2, <3>1, Zenon DEF Store, DeviceTypeOK
    <3>2. CASE c.ep # 0
      <4>1. c.ep \in InEp
        BY <2>1, <3>2, Zenon DEF Endpoint
      <4>2. accepted[c.ep] \o c.data \in Seq(Byte)
        BY <2>1, <4>1 DEF DeviceTypeOK
      <4>3. QED
        BY <1>2, <3>2, <4>1, <4>2, Zenon DEF Store, DeviceTypeOK
    <3>3. QED
      BY <3>1, <3>2, Zenon
  <2>4. pc' \in [Process -> {"idle", "wait", "signal"}]
    BY <1>2, Zenon DEF Store, DeviceTypeOK
  <2>5. control_answered' \in BOOLEAN
    BY <1>2, Zenon DEF Store
  <2>6. QED
    BY <1>0, <1>2, <2>2, <2>3, <2>4, <2>5, Zenon DEF Store, DeviceTypeOK
<1>3. CASE Drop(p, c)
  BY <1>0, <1>3, Zenon DEF Drop, DeviceTypeOK
<1>4. QED
  BY <1>1, <1>2, <1>3, Zenon DEF TransmitLocked

(* A new call to transmit keeps every variable in its type. *)
LEMMA TransmitType ==
    ASSUME DeviceTypeOK, NEW p \in Process, NEW ep \in Endpoint, NEW n \in Nat,
           Transmit(p, ep, n)
    PROVE  /\ endpoint_data' \in [Endpoint -> Buffer]
           /\ control_answered' \in BOOLEAN
           /\ waiters' \subseteq Thread
           /\ pc' \in [Process -> {"idle", "wait", "signal"}]
           /\ call' \in [Process -> Call]
           /\ accepted' \in [InEp -> Seq(Byte)]
           /\ calls' \in Seq([generation : Nat, request : Nat])
<1> DEFINE c == [ep |-> ep, data |-> DataOf(n), generation |-> reset_generation]
<1>1. c \in Call
  BY DataOfType, Zenon DEF Call, DeviceTypeOK
<1>2. TransmitLocked(p, c)
  BY Zenon DEF Transmit
<1>3. calls' \in Seq([generation : Nat, request : Nat])
  BY DEF Transmit, DeviceTypeOK
<1> HIDE DEF c
<1>4. QED
  BY <1>1, <1>2, <1>3, TransmitLockedType, Zenon

(* The initial state is well typed. *)
LEMMA TypeInit == DeviceInit => DeviceTypeOK
<1> SUFFICES ASSUME DeviceInit PROVE DeviceTypeOK
  BY Zenon
<1>1. /\ <<>> \in Buffer /\ <<>> \in Seq(Byte)
      /\ <<>> \in Seq([generation : Nat, request : Nat])
  BY EmptyBuffer
<1>2. NoCall \in Call /\ NoReply \in [answered : BOOLEAN, data : Buffer]
  BY <1>1, Zenon DEF NoCall, NoReply, Call, Endpoint
<1>3. QED
  BY <1>1, <1>2, Zenon DEF DeviceInit, DeviceTypeOK, NoData

(* Every step keeps the types. *)
LEMMA TypeStep == DeviceTypeOK /\ [DeviceNext]_deviceVars => DeviceTypeOK'
<1> SUFFICES ASSUME DeviceTypeOK, [DeviceNext]_deviceVars
             PROVE  DeviceTypeOK'
  BY Zenon
<1> USE DEF bufferVars, controlVars, lockVars, processVars, resetVars
<1>e. <<>> \in Seq(Byte) /\ <<>> \in Buffer
  BY EmptyBuffer
<1>s. Server \in Process /\ Thread \subseteq Process /\ 0 \in Endpoint
      /\ InEp \subseteq Endpoint
  BY Zenon DEF Process, Endpoint
<1>1. ASSUME NEW t \in Thread, ThreadTransmit(t) PROVE DeviceTypeOK'
  <2>1. PICK ep \in Endpoint, n \in TransmitLength : Transmit(t, ep, n)
    BY <1>1, Zenon DEF ThreadTransmit
  <2>2. n \in Nat
    BY LengthAssumption, Zenon
  <2>3. QED
    BY <1>1, <1>s, <2>1, <2>2, TransmitType, Zenon
       DEF ThreadTransmit, Transmit, TransmitLocked, DeviceTypeOK
<1>2. ASSUME NEW t \in Thread, WakeUp(t) PROVE DeviceTypeOK'
  <2>1. call[t] \in Call
    BY <1>s, Zenon DEF DeviceTypeOK
  <2>2. QED
    BY <1>2, <1>s, <2>1, TransmitLockedType, Zenon
       DEF WakeUp, TransmitLocked, DeviceTypeOK
<1>3. ASSUME NEW t \in Thread, SpuriousWakeUp(t) PROVE DeviceTypeOK'
  BY <1>3, Zenon DEF SpuriousWakeUp, DeviceTypeOK
<1>4. ASSUME NEW p \in Process, SignalEvent(p) PROVE DeviceTypeOK'
  BY <1>4, Zenon DEF SignalEvent, DeviceTypeOK
<1>5. ASSUME NEW t \in Thread, critical_section_enter(t) PROVE DeviceTypeOK'
  BY <1>5, <1>s, Zenon DEF critical_section_enter, DeviceTypeOK
<1>6. ASSUME NEW t \in Thread, critical_section_exit(t) PROVE DeviceTypeOK'
  BY <1>6, Zenon DEF critical_section_exit, DeviceTypeOK
<1>7. CASE ResetClearEvent
  BY <1>7, ResetCallbackAssumption, Zenon DEF ResetClearEvent, DeviceTypeOK
<1>8. CASE EnterCallback
  BY <1>8, <1>s, Zenon DEF EnterCallback, DeviceTypeOK
<1>9. CASE CallbackTransmit
  <2>1. PICK ep \in Endpoint, n \in TransmitLength : Transmit(Server, ep, n)
    BY <1>9, Zenon DEF CallbackTransmit
  <2>2. n \in Nat
    BY LengthAssumption, Zenon
  <2>3. QED
    BY <1>9, <1>s, <2>1, <2>2, TransmitType, Zenon
       DEF CallbackTransmit, Transmit, TransmitLocked, DeviceTypeOK
<1>10. CASE ReturnCallback
  BY <1>10, Zenon DEF ReturnCallback, DeviceTypeOK
<1>11. CASE LibraryAnswer
  <2>1. answer_length \in Nat
    BY Zenon DEF DeviceTypeOK
  <2>2. QED
    BY <1>11, <1>s, <2>1, TransmitType, Zenon
       DEF LibraryAnswer, Transmit, TransmitLocked, DeviceTypeOK
<1>12. CASE Reset
  <2>1. endpoint_data' \in [Endpoint -> Buffer]
    BY <1>12, <1>e, Zenon DEF Reset, NoData
  <2>2. accepted' \in [InEp -> Seq(Byte)] /\ delivered' \in [InEp -> Seq(Byte)]
    BY <1>12, <1>e, Zenon DEF Reset
  <2>3. reset_generation' \in Nat
    BY <1>12 DEF Reset, DeviceTypeOK
  <2>4. control_answered' \in BOOLEAN
    BY <1>12, Zenon DEF Reset
  <2>5. /\ waiters' = {} /\ server' = "reset"
        /\ UNCHANGED <<device_stopped, ep_data_event, lockVars, processVars,
                       answer_length, reply, requests>>
    BY <1>12, Zenon DEF Reset
  <2>6. QED
    BY <2>1, <2>2, <2>3, <2>4, <2>5, Zenon DEF DeviceTypeOK
<1>13. CASE StartCallback
  BY <1>13, Zenon DEF StartCallback, DeviceTypeOK
<1>14. ASSUME NEW s \in Setup, Control(s) PROVE DeviceTypeOK'
  <2>1. answer_length' \in Nat
    BY <1>14, SetupAssumption, Zenon DEF Control
  <2>2. server' \in {"locking", "answer", "ready"}
    BY <1>14, Zenon DEF Control
  <2>3. endpoint_data' \in [Endpoint -> Buffer]
    BY <1>14, <1>e, Zenon DEF Control, WithoutOldAnswer, DeviceTypeOK
  <2>4. reply' \in [answered : BOOLEAN, data : Buffer]
    BY <1>14, <1>e, Zenon DEF Control, NoReply
  <2>5. requests' \in Nat
    BY <1>14 DEF Control, DeviceTypeOK
  <2>a. control_answered' \in BOOLEAN
    BY <1>14, Zenon DEF Control
  <2>6. UNCHANGED <<waiters, accepted, delivered, lockVars, processVars,
                    resetVars, ep_data_event>>
    BY <1>14, Zenon DEF Control
  <2>7. QED
    BY <2>1, <2>2, <2>3, <2>4, <2>5, <2>a, <2>6, Zenon DEF DeviceTypeOK
<1>15. CASE FetchAnswered
  <2>1. reply' \in [answered : BOOLEAN, data : Buffer]
    BY <1>15, <1>e, Zenon DEF FetchAnswered, DeviceTypeOK
  <2>2. QED
    BY <1>15, <2>1, Zenon DEF FetchAnswered, DeviceTypeOK
<1>16. ASSUME NEW max \in FetchLength, FetchControlReply(max)
       PROVE  DeviceTypeOK'
  <2>1. Fetched(0, max) \in Buffer /\ Remaining(0, max) \in Buffer
    BY <1>s, LengthAssumption, FetchedType, Zenon
  <2>2. waiters' \subseteq Thread
    BY <1>16, Zenon DEF FetchControlReply, AfterFetch, DeviceTypeOK
  <2>3. reply' \in [answered : BOOLEAN, data : Buffer]
    BY <1>16, <2>1, Zenon DEF FetchControlReply, DeviceTypeOK
  <2>4. QED
    BY <1>16, <2>1, <2>2, <2>3, Zenon DEF FetchControlReply, DeviceTypeOK
<1>17. ASSUME NEW ep \in InEp, NEW max \in FetchLength, FetchEpData(ep, max)
       PROVE  DeviceTypeOK'
  <2>1. Fetched(ep, max) \in Buffer /\ Remaining(ep, max) \in Buffer
    BY <1>s, LengthAssumption, FetchedType, Zenon
  <2>2. waiters' \subseteq Thread
    BY <1>17, Zenon DEF FetchEpData, AfterFetch, DeviceTypeOK
  <2>3. delivered[ep] \o Fetched(ep, max) \in Seq(Byte)
    BY <2>1 DEF DeviceTypeOK, Buffer
  <2>4. QED
    BY <1>17, <2>1, <2>2, <2>3, Zenon DEF FetchEpData, DeviceTypeOK
<1>18. CASE ClearEvent
  BY <1>18, Zenon DEF ClearEvent, DeviceTypeOK
<1>19. CASE Stop
  <2>1. endpoint_data' \in [Endpoint -> Buffer]
    BY <1>19, <1>e, Zenon DEF Stop, NoData
  <2>2. QED
    BY <1>19, <2>1, Zenon DEF Stop, DeviceTypeOK
<1>20. CASE UNCHANGED deviceVars
  BY <1>20, Zenon DEF deviceVars, DeviceTypeOK
<1>21. QED
  BY <1>1, <1>2, <1>3, <1>4, <1>5, <1>6, <1>7, <1>8, <1>9, <1>10, <1>11,
     <1>12, <1>13, <1>14, <1>15, <1>16, <1>17, <1>18, <1>19, <1>20, <1>s, Zenon
     DEF DeviceNext, ThreadStep, ServerStep, ServerCall

(* The buffers of usbip_device.c never hold more than they are long, and   *)
(* every other variable keeps its type, for every number of threads,       *)
(* endpoints and requests.                                                 *)
THEOREM DeviceTypeCorrect == DeviceSpec => []DeviceTypeOK
BY TypeInit, TypeStep, PTL DEF DeviceSpec

-----------------------------------------------------------------------------
(* Mutual exclusion of callbacks and critical sections. *)

(* The lock has one holder, and the holder knows. *)
LockInv ==
    /\ \A t \in Thread : in_critical_section[t] <=> receive_lock = t
    /\ server = "callback" <=> receive_lock = Server

(* LockInv holds at the start: nobody has receive_lock. *)
LEMMA LockInit == DeviceInit => LockInv
BY ProcessAssumption, Zenon DEF DeviceInit, LockInv, Process

(* Every step keeps receive_lock with the thread that took it. *)
LEMMA LockStep ==
    DeviceTypeOK /\ LockInv /\ [DeviceNext]_deviceVars => LockInv'
<1> SUFFICES ASSUME DeviceTypeOK, LockInv, [DeviceNext]_deviceVars
             PROVE  LockInv'
  BY Zenon
<1> USE DEF bufferVars, controlVars, lockVars, processVars, resetVars
<1>1. ASSUME UNCHANGED lockVars, server' # "callback", server # "callback"
      PROVE  LockInv'
  BY <1>1, Zenon DEF LockInv
<1>2. ASSUME UNCHANGED lockVars, UNCHANGED server PROVE LockInv'
  BY <1>2, Zenon DEF LockInv
<1>3. ASSUME NEW t \in Thread, critical_section_enter(t) PROVE LockInv'
  <2>1. t # Server /\ Server # Nobody /\ t # Nobody
    BY ProcessAssumption, Zenon DEF Process
  <2>2. \A u \in Thread : ~in_critical_section[u]
    BY <1>3, ProcessAssumption, Zenon DEF critical_section_enter, LockInv, Process
  <2>3. \A u \in Thread : in_critical_section'[u] <=> u = t
    BY <1>3, <2>2, Zenon DEF critical_section_enter, DeviceTypeOK
  <2>4. server # "callback"
    BY <1>3, <2>1, Zenon DEF critical_section_enter, LockInv
  <2>5. QED
    BY <1>3, <2>1, <2>3, <2>4, Zenon DEF critical_section_enter, LockInv
<1>4. ASSUME NEW t \in Thread, critical_section_exit(t) PROVE LockInv'
  <2>1. t # Server /\ Server # Nobody /\ receive_lock = t
    BY <1>4, ProcessAssumption, Zenon DEF Process, critical_section_exit, LockInv
  <2>2. \A u \in Thread : ~in_critical_section'[u]
    BY <1>4, <2>1, Zenon DEF critical_section_exit, LockInv, DeviceTypeOK
  <2>3. QED
    BY <1>4, <2>1, <2>2, ProcessAssumption, Zenon
       DEF critical_section_exit, LockInv, Process
<1>5. CASE EnterCallback
  BY <1>5, ProcessAssumption, Zenon DEF EnterCallback, LockInv, Process
<1>6. CASE ReturnCallback
  BY <1>6, ProcessAssumption, Zenon DEF ReturnCallback, LockInv, Process
<1>7. ASSUME NEW t \in Thread, ThreadStep(t) PROVE LockInv'
  BY <1>2, <1>3, <1>4, <1>7, Zenon
     DEF ThreadStep, ThreadTransmit, Transmit, TransmitLocked, WakeUp,
         SpuriousWakeUp, SignalEvent
<1>8. CASE ServerStep
  BY <1>1, <1>2, <1>5, <1>6, <1>8, Zenon
     DEF ServerStep, ResetClearEvent, CallbackTransmit, LibraryAnswer, Transmit,
         TransmitLocked, SignalEvent
<1>9. CASE ServerCall
  <2>1. ASSUME NEW s \in Setup, Control(s) PROVE LockInv'
    BY <1>1, <2>1, Zenon DEF Control
  <2>2. QED
    BY <1>1, <1>2, <1>9, <2>1, Zenon
       DEF ServerCall, Reset, StartCallback, FetchAnswered, FetchControlReply,
           FetchEpData, ClearEvent, Stop
<1>10. CASE UNCHANGED deviceVars
  BY <1>2, <1>10, Zenon DEF deviceVars
<1>11. QED
  BY <1>7, <1>8, <1>9, <1>10, Zenon DEF DeviceNext

(* No callback of the device runs while an application thread is in a      *)
(* critical section, and critical sections exclude each other.             *)
THEOREM MutualExclusion == DeviceSpec => []CriticalSectionsExclude
<1>1. LockInv => CriticalSectionsExclude
  BY ProcessAssumption, Zenon DEF LockInv, CriticalSectionsExclude, Process
<1>2. QED
  BY <1>1, LockInit, LockStep, DeviceTypeCorrect, PTL DEF DeviceSpec

-----------------------------------------------------------------------------
(* Who waits in transmit, and for what. *)

WaitInv ==
    /\ \A p \in Process :
           pc[p] = "wait" =>
               /\ p \in Thread
               /\ call[p].ep \in InEp
               /\ ~in_critical_section[p]
               /\ call[p].generation <= reset_generation
    /\ SleepersHaveCause

(* WaitInv holds at the start: nobody waits. *)
LEMMA WaitInit == DeviceInit => WaitInv
BY Zenon DEF DeviceInit, WaitInv, SleepersHaveCause

(* Transmit goes to sleep only for data that is there, and does not take   *)
(* away what another thread sleeps for.                                    *)
LEMMA WaitTransmit ==
    ASSUME DeviceTypeOK, WaitInv, NEW p \in Process, NEW c \in Call,
           c.generation <= reset_generation, p \notin waiters,
           TransmitLocked(p, c)
    PROVE  WaitInv'
<1>c. c.ep \in Endpoint /\ c.data \in Buffer /\ c.generation \in Nat
  BY Zenon DEF Call
<1>w. \A t \in waiters : t # p /\ t \in Process /\ call[t].ep \in InEp
  BY Zenon DEF WaitInv, SleepersHaveCause, DeviceTypeOK, Process
<1>u. UNCHANGED <<in_critical_section, reset_generation, device_stopped>>
  BY Zenon DEF TransmitLocked, lockVars, resetVars
<1>1. CASE Sleep(p, c)
  <2>1. p \in Thread /\ c.ep \in InEp /\ ~in_critical_section[p]
        /\ ~device_stopped /\ endpoint_data[c.ep] # <<>>
    BY <1>1, <1>c, Zenon DEF Sleep, must_wait, may_wait, Process, Endpoint
  <2>2. /\ pc'[p] = "wait" /\ call'[p] = c
        /\ \A q \in Process \ {p} : pc'[q] = pc[q] /\ call'[q] = call[q]
    BY <1>1, Zenon DEF Sleep, DeviceTypeOK
  <2>3. SleepersHaveCause'
    BY <1>1, <1>w, <1>u, <2>1, <2>2, Zenon
       DEF Sleep, WaitInv, SleepersHaveCause
  <2>4. QED
    BY <1>u, <2>1, <2>2, <2>3, Zenon DEF WaitInv
<1>2. ASSUME pc'[p] # "wait",
             \A q \in Process \ {p} : pc'[q] = pc[q] /\ call'[q] = call[q],
             UNCHANGED waiters,
             \A t \in waiters : endpoint_data'[call[t].ep] # <<>>
      PROVE  WaitInv'
  <2>1. SleepersHaveCause'
    BY <1>2, <1>w, <1>u, Zenon DEF WaitInv, SleepersHaveCause
  <2>2. QED
    BY <1>2, <1>u, <2>1, Zenon DEF WaitInv
<1>3. CASE Store(p, c)
  <2>1. \A t \in waiters : call[t].ep # c.ep
    <3>1. CASE c.ep = 0
      BY <1>w, <3>1, EndpointAssumption, SMTT(30)
    <3>2. CASE c.ep # 0
      BY <1>3, <3>2, Zenon DEF Store, can_store, WaitInv, SleepersHaveCause
    <3>3. QED
      BY <3>1, <3>2, Zenon
  <2>2. \A t \in waiters : endpoint_data'[call[t].ep] = endpoint_data[call[t].ep]
    BY <1>3, <1>c, <1>w, <2>1, Zenon DEF Store, DeviceTypeOK, Endpoint
  <2>3. \A t \in waiters : endpoint_data'[call[t].ep] # <<>>
    BY <2>2, Zenon DEF WaitInv, SleepersHaveCause
  <2>4. /\ pc'[p] # "wait"
        /\ \A q \in Process \ {p} : pc'[q] = pc[q] /\ call'[q] = call[q]
    BY <1>3, Zenon DEF Store, DeviceTypeOK
  <2>5. QED
    BY <1>2, <1>3, <2>3, <2>4, Zenon DEF Store
<1>4. CASE Drop(p, c)
  <2>1. /\ pc'[p] # "wait"
        /\ \A q \in Process \ {p} : pc'[q] = pc[q] /\ call'[q] = call[q]
    BY <1>4, Zenon DEF Drop, DeviceTypeOK
  <2>2. \A t \in waiters : endpoint_data'[call[t].ep] # <<>>
    BY <1>4, Zenon DEF Drop, WaitInv, SleepersHaveCause
  <2>3. QED
    BY <1>2, <1>4, <2>1, <2>2, Zenon DEF Drop
<1>5. QED
  BY <1>1, <1>3, <1>4, Zenon DEF TransmitLocked

(* A new call to transmit keeps WaitInv, whether it sleeps or not. *)
LEMMA WaitNewTransmit ==
    ASSUME DeviceTypeOK, WaitInv, NEW p \in Process, NEW ep \in Endpoint,
           NEW n \in Nat, Transmit(p, ep, n)
    PROVE  WaitInv'
<1> DEFINE c == [ep |-> ep, data |-> DataOf(n), generation |-> reset_generation]
<1>1. c \in Call
  BY DataOfType, Zenon DEF Call, DeviceTypeOK
<1>2. c.generation <= reset_generation
  BY SMTT(30) DEF DeviceTypeOK
<1>3. p \notin waiters
  BY Zenon DEF Transmit, WaitInv, SleepersHaveCause
<1>4. TransmitLocked(p, c)
  BY Zenon DEF Transmit
<1> HIDE DEF c
<1>5. QED
  BY <1>1, <1>2, <1>3, <1>4, WaitTransmit, Zenon

(* A transfer that leaves nothing wakes every thread. *)
LEMMA WaitFetch ==
    ASSUME DeviceTypeOK, WaitInv, NEW ep \in Endpoint, NEW max \in Nat,
           endpoint_data' = [endpoint_data EXCEPT ![ep] = Remaining(ep, max)],
           waiters' = AfterFetch(ep, max),
           UNCHANGED <<pc, call, in_critical_section, reset_generation,
                       device_stopped>>
    PROVE  WaitInv'
<1>1. CASE Remaining(ep, max) = <<>>
  BY <1>1, Zenon DEF AfterFetch, WaitInv, SleepersHaveCause
<1>2. CASE Remaining(ep, max) # <<>>
  <2>1. waiters' = waiters
    BY <1>2, Zenon DEF AfterFetch
  <2>2. \A t \in waiters : call[t].ep \in Endpoint
    BY Zenon DEF WaitInv, SleepersHaveCause, DeviceTypeOK, Process, Endpoint
  <2>3. \A t \in waiters : endpoint_data'[call[t].ep] # <<>>
    BY <1>2, <2>2, Zenon DEF WaitInv, SleepersHaveCause, DeviceTypeOK
  <2>4. QED
    BY <2>1, <2>3, Zenon DEF WaitInv, SleepersHaveCause
<1>3. QED
  BY <1>1, <1>2, Zenon

(* Every step keeps WaitInv: whatever empties an endpoint broadcasts. *)
LEMMA WaitStep ==
    DeviceTypeOK /\ WaitInv /\ [DeviceNext]_deviceVars => WaitInv'
<1> SUFFICES ASSUME DeviceTypeOK, WaitInv, [DeviceNext]_deviceVars
             PROVE  WaitInv'
  BY Zenon
<1> USE DEF bufferVars, controlVars, lockVars, processVars, resetVars
<1>s. Server \in Process /\ Thread \subseteq Process /\ 0 \in Endpoint
      /\ InEp \subseteq Endpoint /\ TransmitLength \subseteq Nat
      /\ FetchLength \subseteq Nat
  BY LengthAssumption, Zenon DEF Process, Endpoint
<1>1. ASSUME UNCHANGED <<pc, call, in_critical_section, reset_generation,
                         device_stopped, endpoint_data, waiters>>
      PROVE  WaitInv'
  BY <1>1, Zenon DEF WaitInv, SleepersHaveCause
<1>2. ASSUME NEW t \in Thread, ThreadTransmit(t) PROVE WaitInv'
  BY <1>2, <1>s, WaitNewTransmit, Zenon DEF ThreadTransmit
<1>3. ASSUME NEW t \in Thread, WakeUp(t) PROVE WaitInv'
  <2>1. call[t] \in Call /\ call[t].generation <= reset_generation
    BY <1>3, <1>s, Zenon DEF WakeUp, WaitInv, DeviceTypeOK
  <2>2. QED
    BY <1>3, <1>s, <2>1, WaitTransmit, Zenon DEF WakeUp
<1>4. ASSUME NEW t \in Thread, SpuriousWakeUp(t) PROVE WaitInv'
  BY <1>4, Zenon DEF SpuriousWakeUp, WaitInv, SleepersHaveCause
<1>5. ASSUME NEW p \in Process, SignalEvent(p) PROVE WaitInv'
  <2>1. pc'[p] # "wait" /\ \A q \in Process \ {p} : pc'[q] = pc[q]
    BY <1>5, Zenon DEF SignalEvent, DeviceTypeOK
  <2>2. p \notin waiters /\ waiters \subseteq Process
    BY <1>5, <1>s, Zenon
       DEF SignalEvent, WaitInv, SleepersHaveCause, DeviceTypeOK
  <2>3. SleepersHaveCause'
    BY <1>5, <2>1, <2>2, Zenon DEF SignalEvent, WaitInv, SleepersHaveCause
  <2>4. QED
    BY <1>5, <2>1, <2>3, Zenon DEF SignalEvent, WaitInv
<1>6. ASSUME NEW t \in Thread,
             critical_section_enter(t) \/ critical_section_exit(t)
      PROVE  WaitInv'
  <2>1. /\ UNCHANGED <<pc, call, reset_generation, device_stopped,
                       endpoint_data, waiters>>
        /\ pc[t] = "idle"
    BY <1>6, Zenon DEF critical_section_enter, critical_section_exit
  <2>2. \A u \in Thread \ {t} : in_critical_section'[u] = in_critical_section[u]
    BY <1>6, Zenon DEF critical_section_enter, critical_section_exit, DeviceTypeOK
  <2>3. QED
    BY <2>1, <2>2, Zenon DEF WaitInv, SleepersHaveCause
<1>7. CASE CallbackTransmit
  BY <1>7, <1>s, WaitNewTransmit, Zenon DEF CallbackTransmit
<1>8. CASE LibraryAnswer
  <2>1. answer_length \in Nat
    BY Zenon DEF DeviceTypeOK
  <2>2. QED
    BY <1>8, <1>s, <2>1, WaitNewTransmit, Zenon DEF LibraryAnswer
<1>9. CASE Reset
  <2>1. UNCHANGED <<pc, call, in_critical_section>> /\ waiters' = {}
    BY <1>9, Zenon DEF Reset
  <2>2. reset_generation' = reset_generation + 1
    BY <1>9, Zenon DEF Reset
  <2>3. \A p \in Process : call[p].generation \in Nat
    BY Zenon DEF DeviceTypeOK, Call
  <2>4. \A p \in Process : call[p].generation <= reset_generation
                             => call[p].generation <= reset_generation + 1
    BY <2>3, SMTT(30) DEF DeviceTypeOK
  <2>5. QED
    BY <2>1, <2>2, <2>4, Zenon DEF WaitInv, SleepersHaveCause
<1>10. ASSUME NEW s \in Setup, Control(s) PROVE WaitInv'
  <2>1. UNCHANGED <<pc, call, in_critical_section, reset_generation,
                    device_stopped, waiters>>
    BY <1>10, Zenon DEF Control
  <2>a. endpoint_data' = [endpoint_data EXCEPT ![0] = <<>>] /\ 0 \notin InEp
    BY <1>10, EndpointAssumption, SMTT(30) DEF Control, WithoutOldAnswer
  <2>2. \A ep \in InEp : endpoint_data'[ep] = endpoint_data[ep]
    BY <1>s, <2>a, Zenon DEF DeviceTypeOK
  <2>3. \A t \in waiters : call[t].ep \in InEp
    BY <1>s, Zenon DEF WaitInv, SleepersHaveCause, DeviceTypeOK
  <2>4. QED
    BY <2>1, <2>2, <2>3, Zenon DEF WaitInv, SleepersHaveCause
<1>11. ASSUME NEW max \in FetchLength, FetchControlReply(max) PROVE WaitInv'
  BY <1>11, <1>s, WaitFetch, Zenon DEF FetchControlReply
<1>12. ASSUME NEW ep \in InEp, NEW max \in FetchLength, FetchEpData(ep, max)
       PROVE  WaitInv'
  BY <1>12, <1>s, WaitFetch, ZenonT(30) DEF FetchEpData
<1>13. CASE Stop
  BY <1>13, Zenon DEF Stop, WaitInv, SleepersHaveCause
<1>14. CASE \/ ResetClearEvent \/ EnterCallback \/ ReturnCallback
            \/ StartCallback \/ FetchAnswered \/ ClearEvent
            \/ UNCHANGED deviceVars
  BY <1>1, <1>14, Zenon
     DEF ResetClearEvent, EnterCallback, ReturnCallback, StartCallback,
         FetchAnswered, ClearEvent, deviceVars
<1>15. QED
  BY <1>2, <1>3, <1>4, <1>5, <1>6, <1>7, <1>8, <1>9, <1>10, <1>11, <1>12,
     <1>13, <1>14, <1>s, Zenon
     DEF DeviceNext, ThreadStep, ServerStep, ServerCall

(* A thread asleep in transmit always has unfetched data to wait for and a *)
(* running server: no path through usbip_device.c forgets its broadcast.   *)
THEOREM NoLostProducer == DeviceSpec => []SleepersHaveCause
<1>1. WaitInv => SleepersHaveCause
  BY Zenon DEF WaitInv
<1>2. QED
  BY <1>1, WaitInit, WaitStep, DeviceTypeCorrect, PTL DEF DeviceSpec

(* No thread that holds receive_lock waits for the server, which needs it, *)
(* to fetch: the deadlock that may_wait is there to prevent.               *)
THEOREM NoHoldAndWait == DeviceSpec => []NobodyWaitsHoldingTheLock
<1>1. LockInv /\ WaitInv => NobodyWaitsHoldingTheLock
  BY Zenon DEF LockInv, WaitInv, NobodyWaitsHoldingTheLock
<1>2. QED
  BY <1>1, LockInit, LockStep, WaitInit, WaitStep, DeviceTypeCorrect, PTL
     DEF DeviceSpec

-----------------------------------------------------------------------------
(* The bytes. *)

CallRecord == [generation : Nat, request : Nat]

(* The calls that began in session g, or while request r was current. *)
SessionCalls(cs, g) == {c \in 1 .. Len(cs) : cs[c].generation = g}
RequestCalls(cs, r) == {c \in 1 .. Len(cs) : cs[c].request = r}

(* Every byte of data was passed to one of the calls S. *)
BytesOf(data, S) == \A i \in 1 .. Len(data) : data[i][1] \in S

(* No data comes from any set of calls. *)
LEMMA BytesOfEmpty == ASSUME NEW S PROVE BytesOf(<<>>, S)
BY DEF BytesOf

(* Data of some calls is data of more calls. *)
LEMMA BytesOfSubset ==
    ASSUME NEW data, NEW S, NEW T, S \subseteq T, BytesOf(data, S)
    PROVE  BytesOf(data, T)
BY Zenon DEF BytesOf

(* Data put together from data of some calls is data of those calls. *)
LEMMA BytesOfConcat ==
    ASSUME NEW S, NEW a \in Seq(Byte), NEW b \in Seq(Byte),
           BytesOf(a, S), BytesOf(b, S)
    PROVE  BytesOf(a \o b, S)
BY DEF BytesOf

(* Part of the data of some calls is data of those calls. *)
LEMMA BytesOfSubSeq ==
    ASSUME NEW S, NEW a \in Seq(Byte), NEW m \in 1 .. Len(a) + 1,
           NEW n \in 0 .. Len(a), BytesOf(a, S)
    PROVE  BytesOf(SubSeq(a, m, n), S)
BY DEF BytesOf

(* A new call leaves the earlier ones where they were. *)
LEMMA MoreCalls ==
    ASSUME NEW cs \in Seq(CallRecord), NEW r \in CallRecord, NEW g
    PROVE  /\ SessionCalls(cs, g) \subseteq SessionCalls(Append(cs, r), g)
           /\ RequestCalls(cs, g) \subseteq RequestCalls(Append(cs, r), g)
BY DEF SessionCalls, RequestCalls

(* Its data belongs to the current session and request. *)
LEMMA NewData ==
    ASSUME NEW n \in Nat, calls \in Seq(CallRecord), NEW r \in CallRecord
    PROVE  /\ BytesOf(DataOf(n), SessionCalls(Append(calls, r), r.generation))
           /\ BytesOf(DataOf(n), RequestCalls(Append(calls, r), r.request))
<1> DEFINE m == Shorter(n, ENDPOINT_MAX_DATA_LENGTH)
<1>1. m \in Nat
  BY ShorterType, LengthAssumption, Zenon
<1> HIDE DEF m
<1>2. /\ Len(calls) + 1 \in SessionCalls(Append(calls, r), r.generation)
      /\ Len(calls) + 1 \in RequestCalls(Append(calls, r), r.request)
  BY DEF SessionCalls, RequestCalls
<1>3. \A i \in 1 .. Len(DataOf(n)) : DataOf(n)[i][1] = Len(calls) + 1
  BY <1>1 DEF DataOf, m
<1>4. QED
  BY <1>2, <1>3, Zenon DEF BytesOf

(* What a transfer fetches, and what it leaves, was in the buffer. *)
LEMMA BytesFetched ==
    ASSUME DeviceTypeOK, NEW ep \in Endpoint, NEW max \in Nat, NEW S,
           BytesOf(endpoint_data[ep], S)
    PROVE  BytesOf(Fetched(ep, max), S) /\ BytesOf(Remaining(ep, max), S)
<1> DEFINE s == endpoint_data[ep]
           k == Shorter(max, Len(s))
<1>1. s \in Seq(Byte)
  BY Zenon DEF DeviceTypeOK, Buffer
<1>a. BytesOf(s, S)
  BY Zenon
<1> HIDE DEF s
<1>b. Len(s) \in Nat
  BY <1>1
<1>c. k \in Nat /\ k <= Len(s)
  BY <1>b, ShorterType, Zenon
<1> HIDE DEF k
<1>2. k \in 0 .. Len(s) /\ k + 1 \in 1 .. Len(s) + 1 /\ 1 \in 1 .. Len(s) + 1
      /\ Len(s) \in 0 .. Len(s)
  BY <1>b, <1>c
<1>3. BytesOf(SubSeq(s, 1, k), S) /\ BytesOf(SubSeq(s, k + 1, Len(s)), S)
  BY <1>1, <1>2, <1>a, BytesOfSubSeq, Zenon
<1>4. QED
  BY <1>3, BytesOfEmpty, Zenon DEF Fetched, Remaining, s, k

-----------------------------------------------------------------------------
(* Where the bytes come from. *)

DataInv ==
    /\ \A ep \in InEp :
           /\ BytesOf(endpoint_data[ep], SessionCalls(calls, reset_generation))
           /\ BytesOf(delivered[ep], SessionCalls(calls, reset_generation))
    /\ BytesOf(endpoint_data[0], RequestCalls(calls, requests))
    /\ BytesOf(reply.data, RequestCalls(calls, requests))
    /\ \A p \in Process :
           pc[p] = "wait" =>
               BytesOf(call[p].data, SessionCalls(calls, call[p].generation))

(* DataInv holds at the start: there is no data. *)
LEMMA DataInit == DeviceInit => DataInv
<1> SUFFICES ASSUME DeviceInit PROVE DataInv
  BY Zenon
<1>1. reply.data = <<>> /\ endpoint_data[0] = <<>>
  BY Zenon DEF DeviceInit, NoReply, NoData, Endpoint
<1>2. \A ep \in InEp : endpoint_data[ep] = <<>> /\ delivered[ep] = <<>>
  BY Zenon DEF DeviceInit, NoData, Endpoint
<1>3. \A p \in Process : pc[p] # "wait"
  BY Zenon DEF DeviceInit
<1>4. QED
  BY <1>1, <1>2, <1>3, BytesOfEmpty, Zenon DEF DataInv

(* Storing data of the current session, or for endpoint 0 of the current   *)
(* request, keeps the invariant.                                           *)
LEMMA DataTransmit ==
    ASSUME DeviceTypeOK, WaitInv, NEW p \in Process, NEW c \in Call,
           NEW cs \in Seq(CallRecord), calls' = cs,
           \A g : SessionCalls(calls, g) \subseteq SessionCalls(cs, g),
           \A r : RequestCalls(calls, r) \subseteq RequestCalls(cs, r),
           BytesOf(c.data, SessionCalls(cs, c.generation)),
           c.ep = 0 => BytesOf(c.data, RequestCalls(cs, requests)),
           DataInv, TransmitLocked(p, c)
    PROVE  DataInv'
<1>c. c.ep \in Endpoint /\ 0 \notin InEp /\ InEp \subseteq Endpoint
  BY EndpointAssumption DEF Call, Endpoint
<1>u. UNCHANGED <<reset_generation, requests, reply, delivered>>
  BY Zenon DEF TransmitLocked, resetVars
<1>d. /\ \A ep \in InEp :
             /\ BytesOf(endpoint_data[ep], SessionCalls(cs, reset_generation))
             /\ BytesOf(delivered[ep], SessionCalls(cs, reset_generation))
      /\ BytesOf(endpoint_data[0], RequestCalls(cs, requests))
      /\ BytesOf(reply.data, RequestCalls(cs, requests))
      /\ \A q \in Process :
             pc[q] = "wait" =>
                 BytesOf(call[q].data, SessionCalls(cs, call[q].generation))
  BY BytesOfSubset DEF DataInv
<1>1. CASE Sleep(p, c)
  <2>1. /\ call'[p] = c
        /\ \A q \in Process \ {p} : pc'[q] = pc[q] /\ call'[q] = call[q]
    BY <1>1, Zenon DEF Sleep, DeviceTypeOK
  <2>2. endpoint_data' = endpoint_data
    BY <1>1, Zenon DEF Sleep
  <2>3. QED
    BY <1>d, <1>u, <2>1, <2>2, Zenon DEF DataInv
<1>2. CASE Store(p, c)
  <2>1. /\ pc'[p] # "wait"
        /\ \A q \in Process \ {p} : pc'[q] = pc[q] /\ call'[q] = call[q]
    BY <1>2, Zenon DEF Store, DeviceTypeOK
  <2>2. /\ endpoint_data'[c.ep] = c.data
        /\ \A ep \in Endpoint \ {c.ep} : endpoint_data'[ep] = endpoint_data[ep]
        /\ c.generation = reset_generation
    BY <1>2, <1>c, Zenon DEF Store, can_store, DeviceTypeOK
  <2>3. \A ep \in InEp :
            BytesOf(endpoint_data'[ep], SessionCalls(cs, reset_generation))
    BY <1>c, <1>d, <2>2, Zenon
  <2>4. BytesOf(endpoint_data'[0], RequestCalls(cs, requests))
    BY <1>c, <1>d, <2>2, Zenon DEF Endpoint
  <2>5. QED
    BY <1>d, <1>u, <2>1, <2>3, <2>4, Zenon DEF DataInv
<1>3. CASE Drop(p, c)
  <2>1. /\ pc'[p] # "wait" /\ endpoint_data' = endpoint_data
        /\ \A q \in Process \ {p} : pc'[q] = pc[q] /\ call'[q] = call[q]
    BY <1>3, Zenon DEF Drop, DeviceTypeOK
  <2>2. QED
    BY <1>d, <1>u, <2>1, Zenon DEF DataInv
<1>4. QED
  BY <1>1, <1>2, <1>3, Zenon DEF TransmitLocked

(* A new call to transmit keeps DataInv. *)
LEMMA DataNewTransmit ==
    ASSUME DeviceTypeOK, WaitInv, DataInv, NEW p \in Process,
           NEW ep \in Endpoint, NEW n \in Nat, Transmit(p, ep, n)
    PROVE  DataInv'
<1> DEFINE c == [ep |-> ep, data |-> DataOf(n), generation |-> reset_generation]
           r == [generation |-> reset_generation, request |-> requests]
           cs == Append(calls, r)
<1>1. c \in Call
  BY DataOfType, Zenon DEF Call, DeviceTypeOK
<1>2. r \in CallRecord /\ calls \in Seq(CallRecord)
  BY Zenon DEF CallRecord, DeviceTypeOK
<1>3. r.generation = reset_generation /\ r.request = requests
      /\ c.generation = reset_generation /\ c.data = DataOf(n)
  BY Zenon
<1>4. TransmitLocked(p, c) /\ calls' = cs
  BY Zenon DEF Transmit
<1> HIDE DEF c, r
<1>5. cs \in Seq(CallRecord)
  BY <1>2
<1>6. /\ \A g : SessionCalls(calls, g) \subseteq SessionCalls(cs, g)
      /\ \A g : RequestCalls(calls, g) \subseteq RequestCalls(cs, g)
  BY <1>2, MoreCalls, Zenon
<1>7. /\ BytesOf(c.data, SessionCalls(cs, c.generation))
      /\ BytesOf(c.data, RequestCalls(cs, requests))
  BY <1>2, <1>3, NewData, Zenon
<1> HIDE DEF cs
<1>8. QED
  BY <1>1, <1>4, <1>5, <1>6, <1>7, DataTransmit, Zenon

(* Every step keeps DataInv: data moves only within its session, and on    *)
(* endpoint 0 within its request.                                          *)
LEMMA DataStep ==
    DeviceTypeOK /\ WaitInv /\ DataInv /\ [DeviceNext]_deviceVars => DataInv'
<1> SUFFICES ASSUME DeviceTypeOK, WaitInv, DataInv, [DeviceNext]_deviceVars
             PROVE  DataInv'
  BY Zenon
<1> USE DEF bufferVars, controlVars, lockVars, processVars, resetVars
<1>s. Server \in Process /\ Thread \subseteq Process /\ 0 \in Endpoint
      /\ 0 \notin InEp /\ InEp \subseteq Endpoint /\ TransmitLength \subseteq Nat
      /\ FetchLength \subseteq Nat
  BY LengthAssumption, EndpointAssumption DEF Process, Endpoint
<1>1. ASSUME UNCHANGED <<endpoint_data, delivered, reply, calls, call,
                         reset_generation, requests>>,
             \A p \in Process : pc'[p] = "wait" => pc[p] = "wait"
      PROVE  DataInv'
  BY <1>1, Zenon DEF DataInv
<1>2. ASSUME NEW t \in Thread, ThreadTransmit(t) PROVE DataInv'
  BY <1>2, <1>s, DataNewTransmit, Zenon DEF ThreadTransmit
<1>3. ASSUME NEW t \in Thread, WakeUp(t) PROVE DataInv'
  <2>1. call[t] \in Call /\ call[t].ep # 0 /\ calls \in Seq(CallRecord)
    BY <1>3, <1>s DEF WakeUp, WaitInv, DeviceTypeOK, CallRecord
  <2>2. BytesOf(call[t].data, SessionCalls(calls, call[t].generation))
    BY <1>3, <1>s, Zenon DEF WakeUp, DataInv
  <2>3. TransmitLocked(t, call[t]) /\ calls' = calls
    BY <1>3, Zenon DEF WakeUp
  <2>4. QED
    BY <1>s, <2>1, <2>2, <2>3, DataTransmit, Zenon
<1>4. ASSUME NEW p \in Process, SignalEvent(p) PROVE DataInv'
  <2>1. \A q \in Process : pc'[q] = "wait" => pc[q] = "wait"
    BY <1>4, Zenon DEF SignalEvent, DeviceTypeOK
  <2>2. QED
    BY <1>1, <1>4, <2>1, Zenon DEF SignalEvent
<1>5. CASE CallbackTransmit
  BY <1>5, <1>s, DataNewTransmit, Zenon DEF CallbackTransmit
<1>6. CASE LibraryAnswer
  <2>1. answer_length \in Nat
    BY Zenon DEF DeviceTypeOK
  <2>2. QED
    BY <1>6, <1>s, <2>1, DataNewTransmit, Zenon DEF LibraryAnswer
<1>7. CASE Reset
  <2>1. /\ \A ep \in InEp : endpoint_data'[ep] = <<>> /\ delivered'[ep] = <<>>
        /\ endpoint_data'[0] = <<>>
    BY <1>7, <1>s, Zenon DEF Reset, NoData
  <2>2. UNCHANGED <<pc, call, calls, requests, reply>>
    BY <1>7, Zenon DEF Reset
  <2>3. QED
    BY <2>1, <2>2, BytesOfEmpty, Zenon DEF DataInv
<1>8. ASSUME NEW s \in Setup, Control(s) PROVE DataInv'
  <2>1. endpoint_data' = [endpoint_data EXCEPT ![0] = <<>>]
    BY <1>8, Zenon DEF Control, WithoutOldAnswer
  <2>2. UNCHANGED <<pc, call, calls, delivered, reset_generation>>
    BY <1>8, Zenon DEF Control
  <2>3. reply'.data = <<>>
    BY <1>8, Zenon DEF Control, NoReply
  <2>4. /\ endpoint_data'[0] = <<>>
        /\ \A ep \in InEp : endpoint_data'[ep] = endpoint_data[ep]
    BY <1>s, <2>1, Zenon DEF DeviceTypeOK
  <2>5. QED
    BY <2>2, <2>3, <2>4, BytesOfEmpty, Zenon DEF DataInv
<1>9. CASE FetchAnswered
  <2>1. reply'.data = <<>>
    BY <1>9, Zenon DEF FetchAnswered
  <2>2. UNCHANGED <<endpoint_data, delivered, pc, call, calls, requests,
                    reset_generation>>
    BY <1>9, Zenon DEF FetchAnswered
  <2>3. QED
    BY <2>1, <2>2, BytesOfEmpty, Zenon DEF DataInv
<1>10. ASSUME NEW max \in FetchLength, FetchControlReply(max) PROVE DataInv'
  <2>1. BytesOf(Fetched(0, max), RequestCalls(calls, requests))
        /\ BytesOf(Remaining(0, max), RequestCalls(calls, requests))
    BY <1>s, BytesFetched, Zenon DEF DataInv
  <2>2. UNCHANGED <<delivered, pc, call, calls, requests, reset_generation>>
    BY <1>10, Zenon DEF FetchControlReply
  <2>3. reply'.data = Fetched(0, max)
    BY <1>10, Zenon DEF FetchControlReply, DeviceTypeOK
  <2>4. /\ endpoint_data'[0] = Remaining(0, max)
        /\ \A ep \in InEp : endpoint_data'[ep] = endpoint_data[ep]
    BY <1>10, <1>s, Zenon DEF FetchControlReply, DeviceTypeOK
  <2>5. QED
    BY <2>1, <2>2, <2>3, <2>4, Zenon DEF DataInv
<1>11. ASSUME NEW ep \in InEp, NEW max \in FetchLength, FetchEpData(ep, max)
       PROVE  DataInv'
  <2> DEFINE S == SessionCalls(calls, reset_generation)
  <2>1. BytesOf(Fetched(ep, max), S) /\ BytesOf(Remaining(ep, max), S)
    BY <1>s, BytesFetched, Zenon DEF DataInv
  <2>2. UNCHANGED <<pc, call, calls, requests, reply, reset_generation>>
    BY <1>11, Zenon DEF FetchEpData
  <2>3. /\ endpoint_data'[ep] = Remaining(ep, max)
        /\ \A e \in Endpoint \ {ep} : endpoint_data'[e] = endpoint_data[e]
    BY <1>11, <1>s, Zenon DEF FetchEpData, DeviceTypeOK
  <2>4. delivered[ep] \in Seq(Byte) /\ Fetched(ep, max) \in Seq(Byte)
    BY <1>s, FetchedType, Zenon DEF DeviceTypeOK, Buffer
  <2>5. /\ delivered'[ep] = delivered[ep] \o Fetched(ep, max)
        /\ \A e \in InEp \ {ep} : delivered'[e] = delivered[e]
    BY <1>11, Zenon DEF FetchEpData, DeviceTypeOK
  <2>6. BytesOf(delivered'[ep], S)
    BY <2>1, <2>4, <2>5, BytesOfConcat, Zenon DEF DataInv
  <2>7. QED
    BY <1>s, <2>1, <2>2, <2>3, <2>5, <2>6, ZenonT(30) DEF DataInv
<1>12. CASE Stop
  <2>1. /\ \A ep \in InEp : endpoint_data'[ep] = <<>>
        /\ endpoint_data'[0] = <<>>
    BY <1>12, <1>s, Zenon DEF Stop, NoData
  <2>2. UNCHANGED <<pc, call, calls, requests, reply, reset_generation,
                    delivered>>
    BY <1>12, Zenon DEF Stop
  <2>3. QED
    BY <2>1, <2>2, BytesOfEmpty, Zenon DEF DataInv
<1>13. CASE \/ \E t \in Thread : \/ SpuriousWakeUp(t)
                               \/ critical_section_enter(t)
                               \/ critical_section_exit(t)
            \/ ResetClearEvent \/ EnterCallback \/ ReturnCallback
            \/ StartCallback \/ ClearEvent \/ UNCHANGED deviceVars
  BY <1>1, <1>13, Zenon
     DEF SpuriousWakeUp, critical_section_enter, critical_section_exit,
         ResetClearEvent, EnterCallback, ReturnCallback, StartCallback,
         ClearEvent, deviceVars
<1>14. QED
  BY <1>2, <1>3, <1>4, <1>5, <1>6, <1>7, <1>8, <1>9, <1>10, <1>11, <1>12,
     <1>13, <1>s, Zenon
     DEF DeviceNext, ThreadStep, ServerStep, ServerCall

(* DataInv holds in every reachable state of the device. *)
LEMMA DataInvariant == DeviceSpec => []DataInv
BY DataInit, DataStep, WaitInit, WaitStep, DeviceTypeCorrect, PTL DEF DeviceSpec

(* Data transmitted before a reset never reaches the host that comes       *)
(* after it: not what was stored, and not what a transmit held while it    *)
(* waited for the earlier host.                                            *)
THEOREM ResetIsolatesSessions == DeviceSpec => []SessionIsolation
<1>1. ASSUME NEW data, BytesOf(data, SessionCalls(calls, reset_generation))
      PROVE  OfThisSession(data)
  BY <1>1, Zenon DEF BytesOf, SessionCalls, OfThisSession
<1>2. DataInv => SessionIsolation
  BY <1>1, ZenonT(30) DEF DataInv, SessionIsolation
<1>3. QED
  BY <1>2, DataInvariant, PTL

(* The reply to a control request holds nothing but the answer given while *)
(* that request was current.                                               *)
THEOREM RepliesAreFresh == DeviceSpec => []ReplyIsFresh
<1>1. DataInv => ReplyIsFresh
  BY Zenon DEF DataInv, BytesOf, RequestCalls, ReplyIsFresh
<1>2. QED
  BY <1>1, DataInvariant, PTL

-----------------------------------------------------------------------------
(* UsbipDevice implements HostStream: what application threads see of the  *)
(* endpoint buffers is a byte stream per endpoint that starts over at a    *)
(* reset.                                                                  *)

(* What was accepted is what the host has and what is still in the buffer. *)
StreamInv ==
    \A ep \in InEp : accepted[ep] = delivered[ep] \o endpoint_data[ep]

(* StreamInv holds at the start: every stream is empty. *)
LEMMA StreamInit == DeviceInit => StreamInv
<1> SUFFICES ASSUME DeviceInit, NEW ep \in InEp
             PROVE  accepted[ep] = delivered[ep] \o endpoint_data[ep]
  BY Zenon DEF StreamInv
<1>1. accepted[ep] = <<>> /\ delivered[ep] = <<>> /\ endpoint_data[ep] = <<>>
  BY Zenon DEF DeviceInit, NoData, Endpoint
<1>2. QED
  BY <1>1

(* A transfer on an IN endpoint loses and repeats nothing. *)
LEMMA FetchSplits ==
    ASSUME DeviceTypeOK, NEW ep \in InEp, NEW max \in Nat
    PROVE  /\ Fetched(ep, max) \in Seq(Byte) /\ Remaining(ep, max) \in Seq(Byte)
           /\ endpoint_data[ep] = Fetched(ep, max) \o Remaining(ep, max)
<1> DEFINE s == endpoint_data[ep]
           k == Shorter(max, Len(s))
<1>0. ep \in Endpoint /\ ep # 0
  BY EndpointAssumption DEF Endpoint
<1>1. s \in Seq(Byte)
  BY <1>0, Zenon DEF DeviceTypeOK, Buffer
<1>2. Fetched(ep, max) = SubSeq(s, 1, k)
  BY Zenon DEF Fetched
<1>3. Remaining(ep, max) = SubSeq(s, k + 1, Len(s))
  BY <1>0, Zenon DEF Remaining
<1> HIDE DEF s
<1>4. Len(s) \in Nat
  BY <1>1, LenProperties, Zenon
<1>5. k \in Nat /\ k <= Len(s)
  BY <1>4, ShorterType, Zenon
<1> HIDE DEF k
<1>6. SubSeq(s, 1, k) \o SubSeq(s, k + 1, Len(s)) = s
  <2>1. 1 \in 1 .. Len(s) + 1 /\ k \in 1 - 1 .. Len(s) /\ Len(s) \in k .. Len(s)
    BY <1>4, <1>5
  <2>2. SubSeq(s, 1, k) \o SubSeq(s, k + 1, Len(s)) = SubSeq(s, 1, Len(s))
    BY <1>1, <2>1, ConcatAdjacentSubSeq, Zenon
  <2>3. QED
    BY <1>1, <2>2, SubSeqFull, Zenon
<1>7. SubSeq(s, 1, k) \in Seq(Byte) /\ SubSeq(s, k + 1, Len(s)) \in Seq(Byte)
  BY <1>1, <1>4, <1>5
<1>8. QED
  BY <1>2, <1>3, <1>6, <1>7, Zenon DEF s

(* What stores data in an IN endpoint appends it to the stream. *)
LEMMA StreamTransmit ==
    ASSUME DeviceTypeOK, StreamInv, NEW p \in Process, NEW c \in Call,
           TransmitLocked(p, c)
    PROVE  StreamInv'
<1>c. c.ep \in Endpoint /\ c.data \in Seq(Byte) /\ 0 \notin InEp
      /\ InEp \subseteq Endpoint
  BY EndpointAssumption DEF Call, Buffer, Endpoint
<1>u. delivered' = delivered
  BY Zenon DEF TransmitLocked
<1>1. CASE endpoint_data' = endpoint_data /\ accepted' = accepted
  BY <1>1, <1>u, Zenon DEF StreamInv
<1>2. CASE Store(p, c)
  <2>1. CASE c.ep = 0
    <3>1. \A ep \in InEp : endpoint_data'[ep] = endpoint_data[ep]
      BY <1>2, <1>c, <2>1, Zenon DEF Store, DeviceTypeOK
    <3>2. accepted' = accepted
      BY <1>2, <2>1, Zenon DEF Store
    <3>3. QED
      BY <1>u, <3>1, <3>2, Zenon DEF StreamInv
  <2>2. CASE c.ep # 0
    <3>1. c.ep \in InEp /\ endpoint_data[c.ep] = <<>>
      BY <1>2, <1>c, <2>2, Zenon DEF Store, can_store, Endpoint
    <3>2. /\ endpoint_data'[c.ep] = c.data
          /\ accepted'[c.ep] = accepted[c.ep] \o c.data
          /\ \A ep \in InEp \ {c.ep} : /\ endpoint_data'[ep] = endpoint_data[ep]
                                       /\ accepted'[ep] = accepted[ep]
      BY <1>2, <1>c, <2>2, <3>1, Zenon DEF Store, DeviceTypeOK
    <3>3. delivered[c.ep] \in Seq(Byte)
      BY <3>1, Zenon DEF DeviceTypeOK
    <3>4. accepted[c.ep] = delivered[c.ep]
      <4>1. delivered[c.ep] \o <<>> = delivered[c.ep]
        BY <3>3, ConcatEmptySeq, Zenon
      <4>2. accepted[c.ep] = delivered[c.ep] \o endpoint_data[c.ep]
        BY <3>1, Zenon DEF StreamInv
      <4>3. QED
        BY <3>1, <4>1, <4>2, Zenon
    <3>5. QED
      BY <1>u, <3>2, <3>4, Zenon DEF StreamInv
  <2>3. QED
    BY <2>1, <2>2, Zenon
<1>3. QED
  BY <1>1, <1>2, Zenon DEF TransmitLocked, Sleep, Drop

(* A new call to transmit keeps StreamInv. *)
LEMMA StreamNewTransmit ==
    ASSUME DeviceTypeOK, StreamInv, NEW p \in Process, NEW ep \in Endpoint,
           NEW n \in Nat, Transmit(p, ep, n)
    PROVE  StreamInv'
<1> DEFINE c == [ep |-> ep, data |-> DataOf(n), generation |-> reset_generation]
<1>1. c \in Call
  BY DataOfType, Zenon DEF Call, DeviceTypeOK
<1>2. TransmitLocked(p, c)
  BY Zenon DEF Transmit
<1> HIDE DEF c
<1>3. QED
  BY <1>1, <1>2, StreamTransmit, Zenon

(* Every step keeps StreamInv: no byte of a stream is lost or repeated. *)
LEMMA StreamStep ==
    DeviceTypeOK /\ StreamInv /\ [DeviceNext]_deviceVars => StreamInv'
<1> SUFFICES ASSUME DeviceTypeOK, StreamInv, [DeviceNext]_deviceVars
             PROVE  StreamInv'
  BY Zenon
<1> USE DEF bufferVars, controlVars, lockVars, processVars, resetVars
<1>s. Server \in Process /\ Thread \subseteq Process /\ 0 \in Endpoint
      /\ 0 \notin InEp /\ InEp \subseteq Endpoint /\ TransmitLength \subseteq Nat
      /\ FetchLength \subseteq Nat
  BY LengthAssumption, EndpointAssumption DEF Process, Endpoint
<1>1. ASSUME UNCHANGED <<accepted, delivered>>,
             \A ep \in InEp : endpoint_data'[ep] = endpoint_data[ep]
      PROVE  StreamInv'
  BY <1>1, Zenon DEF StreamInv
<1>2. ASSUME NEW t \in Thread, ThreadTransmit(t) PROVE StreamInv'
  BY <1>2, <1>s, StreamNewTransmit, Zenon DEF ThreadTransmit
<1>3. ASSUME NEW t \in Thread, WakeUp(t) PROVE StreamInv'
  <2>1. call[t] \in Call
    BY <1>s, Zenon DEF DeviceTypeOK
  <2>2. QED
    BY <1>3, <1>s, <2>1, StreamTransmit, Zenon DEF WakeUp
<1>4. CASE CallbackTransmit
  BY <1>4, <1>s, StreamNewTransmit, Zenon DEF CallbackTransmit
<1>5. CASE LibraryAnswer
  <2>1. answer_length \in Nat
    BY Zenon DEF DeviceTypeOK
  <2>2. QED
    BY <1>5, <1>s, <2>1, StreamNewTransmit, Zenon DEF LibraryAnswer
<1>6. CASE Reset
  <2>1. \A ep \in InEp : /\ accepted'[ep] = <<>>
                         /\ delivered'[ep] = <<>>
                         /\ endpoint_data'[ep] = <<>>
    BY <1>6, <1>s, Zenon DEF Reset, NoData
  <2>2. <<>> \o <<>> = <<>>
    OBVIOUS
  <2>3. QED
    BY <2>1, <2>2, Zenon DEF StreamInv
<1>7. CASE Stop
  <2>1. \A ep \in InEp : /\ accepted'[ep] = delivered[ep]
                         /\ delivered'[ep] = delivered[ep]
                         /\ endpoint_data'[ep] = <<>>
    BY <1>7, <1>s, Zenon DEF Stop, NoData
  <2>2. \A ep \in InEp : delivered[ep] \o <<>> = delivered[ep]
    BY DEF DeviceTypeOK
  <2>3. QED
    BY <2>1, <2>2, Zenon DEF StreamInv
<1>8. ASSUME NEW s \in Setup, Control(s) PROVE StreamInv'
  <2>1. endpoint_data' = [endpoint_data EXCEPT ![0] = <<>>]
    BY <1>8, Zenon DEF Control, WithoutOldAnswer
  <2>2. \A ep \in InEp : endpoint_data'[ep] = endpoint_data[ep]
    BY <1>s, <2>1, Zenon DEF DeviceTypeOK
  <2>3. UNCHANGED <<accepted, delivered>>
    BY <1>8, Zenon DEF Control
  <2>4. QED
    BY <1>1, <2>2, <2>3, Zenon
<1>9. ASSUME NEW max \in FetchLength, FetchControlReply(max) PROVE StreamInv'
  <2>1. \A ep \in InEp : endpoint_data'[ep] = endpoint_data[ep]
    BY <1>9, <1>s, Zenon DEF FetchControlReply, DeviceTypeOK
  <2>2. QED
    BY <1>1, <1>9, <2>1, Zenon DEF FetchControlReply
<1>10. ASSUME NEW ep \in InEp, NEW max \in FetchLength, FetchEpData(ep, max)
       PROVE  StreamInv'
  <2> DEFINE F == Fetched(ep, max)
             R == Remaining(ep, max)
  <2>1. /\ endpoint_data'[ep] = R
        /\ delivered'[ep] = delivered[ep] \o F
        /\ accepted' = accepted
        /\ \A e \in InEp \ {ep} : /\ endpoint_data'[e] = endpoint_data[e]
                                  /\ delivered'[e] = delivered[e]
    BY <1>10, <1>s, Zenon DEF FetchEpData, DeviceTypeOK
  <2>2. F \in Seq(Byte) /\ R \in Seq(Byte) /\ endpoint_data[ep] = F \o R
        /\ delivered[ep] \in Seq(Byte)
    BY <1>s, FetchSplits, Zenon DEF DeviceTypeOK
  <2> HIDE DEF F, R
  <2>3. ASSUME NEW d \in Seq(Byte), NEW f \in Seq(Byte), NEW r \in Seq(Byte)
        PROVE  (d \o f) \o r = d \o (f \o r)
    BY ConcatAssociative, SMTT(30)
  <2>4. accepted[ep] = (delivered[ep] \o F) \o R
    <3>1. (delivered[ep] \o F) \o R = delivered[ep] \o (F \o R)
      BY <2>2, <2>3, Zenon
    <3>2. accepted[ep] = delivered[ep] \o endpoint_data[ep]
      BY Zenon DEF StreamInv
    <3>3. QED
      BY <2>2, <3>1, <3>2, Zenon
  <2>5. QED
    BY <2>1, <2>4, Zenon DEF StreamInv
<1>11. CASE \/ \E t \in Thread : \/ SpuriousWakeUp(t)
                               \/ critical_section_enter(t)
                               \/ critical_section_exit(t)
            \/ \E p \in Process : SignalEvent(p)
            \/ ResetClearEvent \/ EnterCallback \/ ReturnCallback
            \/ StartCallback \/ FetchAnswered \/ ClearEvent
            \/ UNCHANGED deviceVars
  BY <1>1, <1>11, Zenon
     DEF SpuriousWakeUp, critical_section_enter, critical_section_exit,
         SignalEvent, ResetClearEvent, EnterCallback, ReturnCallback,
         StartCallback, FetchAnswered, ClearEvent, deviceVars
<1>12. QED
  BY <1>2, <1>3, <1>4, <1>5, <1>6, <1>7, <1>8, <1>9, <1>10, <1>11, <1>s, Zenon
     DEF DeviceNext, ThreadStep, ServerStep, ServerCall

-----------------------------------------------------------------------------
(* Steps of the device as steps of HostStream. *)

NotWaiting == [ep |-> 0, data |-> <<>>]

(* The mapping looks at nothing but which threads wait and with what. *)
LEMMA BarSame ==
    ASSUME \A t \in Thread :
               /\ IsWaiting(t)' <=> IsWaiting(t)
               /\ IsWaiting(t) => call'[t] = call[t]
    PROVE  waitingBar' = waitingBar
<1> DEFINE Bar(t) == IF IsWaiting(t)
                     THEN [ep |-> call[t].ep, data |-> call[t].data]
                     ELSE [ep |-> 0, data |-> <<>>]
<1>1. ASSUME NEW t \in Thread
      PROVE  Bar(t)' = Bar(t)
  <2>1. CASE IsWaiting(t)
    BY <2>1, Zenon DEF IsWaiting
  <2>2. CASE ~IsWaiting(t)
    BY <2>2, Zenon DEF IsWaiting
  <2>3. QED
    BY <2>1, <2>2, Zenon
<1>2. waitingBar = [t \in Thread |-> Bar(t)]
  BY Zenon DEF waitingBar
<1>3. waitingBar' = [t \in Thread |-> Bar(t)']
  BY Zenon DEF waitingBar
<1> HIDE DEF Bar
<1>4. QED
  BY <1>1, <1>2, <1>3, Zenon

(* The mapped stream has no waiting transmit if no thread is waiting. *)
LEMMA BarNone ==
    ASSUME \A t \in Thread : ~IsWaiting(t)'
    PROVE  waitingBar' = [t \in Thread |-> NotWaiting]
BY Zenon DEF waitingBar, NotWaiting

(* Appending to a sequence leaves it as it was only if nothing is appended. *)
LEMMA ConcatSame ==
    ASSUME NEW S, NEW s \in Seq(S), NEW t \in Seq(S)
    PROVE  s \o t = s <=> t = <<>>
<1>1. ASSUME s \o t = s
      PROVE  t = <<>>
  <2>1. Len(s \o t) = Len(s) + Len(t)
    BY ConcatProperties, Zenon
  <2>2. Len(t) = 0
    BY <1>1, <2>1, LenProperties
  <2>3. QED
    BY <2>2, EmptySeq, Zenon
<1>2. ASSUME t = <<>>
      PROVE  s \o t = s
  BY <1>2, ConcatEmptySeq, Zenon
<1>3. QED
  BY <1>1, <1>2, Zenon

(* An endpoint is drained when its buffer is empty. *)
LEMMA DrainedIffEmpty ==
    ASSUME DeviceTypeOK, StreamInv, NEW ep \in InEp
    PROVE  delivered[ep] = accepted[ep] <=> endpoint_data[ep] = <<>>
<1>1. delivered[ep] \in Seq(Byte) /\ endpoint_data[ep] \in Seq(Byte)
  BY Zenon DEF DeviceTypeOK, Buffer, Endpoint
<1>2. delivered[ep] \o endpoint_data[ep] = delivered[ep]
          <=> endpoint_data[ep] = <<>>
  BY <1>1, ConcatSame, Zenon
<1>3. accepted[ep] = delivered[ep] \o endpoint_data[ep]
  BY Zenon DEF StreamInv
<1>4. QED
  BY <1>2, <1>3, Zenon

(* What a call passes to transmit is a chunk the stream may accept. *)
LEMMA DataOfChunk ==
    ASSUME NEW n \in Nat, DeviceTypeOK, Len(calls) < MaxTransmits
    PROVE  DataOf(n) \in Chunks
<1>1. Len(calls) + 1 \in 1 .. MaxTransmits
  <2>1. calls \in Seq([generation : Nat, request : Nat])
    BY Zenon DEF DeviceTypeOK
  <2>2. Len(calls) \in Nat
    BY <2>1
  <2>3. QED
    BY <2>2, BoundAssumption
<1>2. Shorter(n, ENDPOINT_MAX_DATA_LENGTH) \in 0 .. ENDPOINT_MAX_DATA_LENGTH
  BY LengthAssumption DEF Shorter
<1>3. QED
  BY <1>1, <1>2 DEF DataOf, Chunks

(* The stream's side of storing data in an IN endpoint. *)
LEMMA StoreAccepts ==
    ASSUME DeviceTypeOK, StreamInv, NEW p \in Process, NEW c \in Call,
           c.ep \in InEp, Store(p, c)
    PROVE  /\ ~device_stopped
           /\ delivered[c.ep] = accepted[c.ep]
           /\ accepted' = [accepted EXCEPT ![c.ep] = @ \o c.data]
           /\ c.generation = reset_generation
<1>1. c.ep # 0
  BY EndpointAssumption
<1>2. endpoint_data[c.ep] = <<>> /\ ~device_stopped
      /\ c.generation = reset_generation
  BY <1>1, Zenon DEF Store, can_store
<1>3. accepted' = [accepted EXCEPT ![c.ep] = @ \o c.data]
  BY <1>1, Zenon DEF Store
<1>4. QED
  BY <1>2, <1>3, DrainedIffEmpty, Zenon

(* A new transmit is accepted, waits, or is not seen by the stream: it was *)
(* dropped, or answers a control request.                                  *)
LEMMA NewTransmitMaps ==
    ASSUME DeviceTypeOK, StreamInv, NEW p \in Process, NEW ep \in Endpoint,
           NEW n \in Nat, ep = 0 \/ Len(calls) < MaxTransmits,
           Transmit(p, ep, n)
    PROVE  [Host!Next]_(Host!hostVars)
<1> DEFINE c == [ep |-> ep, data |-> DataOf(n), generation |-> reset_generation]
<1>1. c \in Call
  BY DataOfType, Zenon DEF Call, DeviceTypeOK
<1>2. c.ep = ep /\ c.data = DataOf(n) /\ c.generation = reset_generation
  BY Zenon
<1>3. TransmitLocked(p, c) /\ pc[p] = "idle"
  BY Zenon DEF Transmit
<1> HIDE DEF c
<1>4. UNCHANGED <<delivered, device_stopped, reset_generation>>
  BY <1>3, Zenon DEF TransmitLocked, resetVars
<1>5. pc \in [Process -> {"idle", "wait", "signal"}]
      /\ call \in [Process -> Call] /\ Thread \subseteq Process
  BY Zenon DEF DeviceTypeOK, Process
<1>6. ASSUME pc'[p] # "wait",
             \A q \in Process \ {p} : pc'[q] = pc[q] /\ call'[q] = call[q]
      PROVE  waitingBar' = waitingBar
  <2>1. ASSUME NEW t \in Thread
        PROVE  /\ IsWaiting(t)' <=> IsWaiting(t)
               /\ IsWaiting(t) => call'[t] = call[t]
    <3>1. CASE t = p
      BY <1>3, <1>6, <3>1, Zenon DEF IsWaiting
    <3>2. CASE t # p
      BY <1>4, <1>5, <1>6, <3>2, Zenon DEF IsWaiting
    <3>3. QED
      BY <3>1, <3>2, Zenon
  <2>2. QED
    BY <2>1, BarSame, Zenon
<1>7. CASE Sleep(p, c)
  <2>1. /\ p \in Thread /\ ep \in InEp /\ ep # 0
        /\ ~device_stopped /\ endpoint_data[ep] # <<>>
    BY <1>2, <1>7, Zenon DEF Sleep, must_wait, may_wait, Process, Endpoint
  <2>2. /\ pc'[p] = "wait" /\ call'[p] = c
        /\ \A q \in Process \ {p} : pc'[q] = pc[q] /\ call'[q] = call[q]
    BY <1>5, <1>7, Zenon DEF Sleep
  <2>3. waitingBar[p] = NotWaiting
    BY <1>3, <2>1, Zenon DEF waitingBar, IsWaiting, NotWaiting
  <2>4. waitingBar' =
            [waitingBar EXCEPT ![p] = [ep |-> ep, data |-> DataOf(n)]]
    <3>1. IsWaiting(p)'
      BY <1>2, <1>4, <2>1, <2>2, Zenon DEF IsWaiting
    <3>2. \A t \in Thread \ {p} : IsWaiting(t)' <=> IsWaiting(t)
      BY <1>4, <1>5, <2>2, Zenon DEF IsWaiting
    <3>3. \A t \in Thread \ {p} : call'[t] = call[t]
      BY <1>5, <2>2, Zenon
    <3>4. QED
      BY <1>2, <2>1, <2>2, <3>1, <3>2, <3>3, ZenonT(30) DEF waitingBar
  <2>5. ~(delivered[ep] = accepted[ep])
    BY <2>1, DrainedIffEmpty, Zenon
  <2>6. DataOf(n) \in Chunks
    BY <2>1, DataOfChunk, Zenon
  <2>7. accepted' = accepted
    BY <1>7, Zenon DEF Sleep
  <2>8. Host!Wait(p, ep, DataOf(n))
    BY <1>4, <2>1, <2>3, <2>4, <2>5, <2>7, Zenon
       DEF Host!Wait, Host!Drained, Host!NotWaiting, NotWaiting
  <2>9. QED
    BY <2>1, <2>6, <2>8, Zenon DEF Host!Next
<1>8. CASE Store(p, c)
  <2>1. waitingBar' = waitingBar
    BY <1>5, <1>6, <1>8, Zenon DEF Store
  <2>2. CASE ep = 0
    BY <1>2, <1>4, <1>8, <2>1, <2>2, Zenon DEF Store, Host!hostVars
  <2>3. CASE ep # 0
    <3>1. ep \in InEp
      BY <2>3, Zenon DEF Endpoint
    <3>2. Host!Accept(ep, DataOf(n))
      BY <1>1, <1>2, <1>4, <1>8, <2>1, <3>1, StoreAccepts, Zenon
         DEF Host!Accept, Host!Drained
    <3>3. QED
      BY <2>3, <3>1, <3>2, DataOfChunk, Zenon DEF Host!Next
  <2>4. QED
    BY <2>2, <2>3, Zenon
<1>9. CASE Drop(p, c)
  BY <1>4, <1>5, <1>6, <1>9, Zenon DEF Drop, Host!hostVars
<1>10. QED
  BY <1>3, <1>7, <1>8, <1>9, Zenon DEF TransmitLocked

(* A transmit that wakes up is accepted, or goes on waiting; it gives up   *)
(* only after a reset or the stop, when the stream has forgotten it.       *)
LEMMA WakeUpMaps ==
    ASSUME DeviceTypeOK, WaitInv, StreamInv, NEW t \in Thread, WakeUp(t)
    PROVE  [Host!Next]_(Host!hostVars)
<1> DEFINE c == call[t]
<1>1. t \in Process /\ Thread \subseteq Process /\ c \in Call
  BY Zenon DEF Process, DeviceTypeOK
<1>2. TransmitLocked(t, c) /\ pc[t] = "wait"
  BY Zenon DEF WakeUp
<1>3. c.ep \in InEp /\ c.ep # 0 /\ may_wait(t)
  BY <1>1, <1>2, EndpointAssumption, ProcessAssumption DEF WaitInv, may_wait
<1>4. UNCHANGED <<delivered, device_stopped, reset_generation>>
  BY <1>2, Zenon DEF TransmitLocked, resetVars
<1>5. pc \in [Process -> {"idle", "wait", "signal"}]
      /\ call \in [Process -> Call]
  BY Zenon DEF DeviceTypeOK
<1>6. CASE Sleep(t, c)
  <2>1. pc' = pc /\ call' = call /\ accepted' = accepted
    BY <1>1, <1>2, <1>5, <1>6, Zenon DEF Sleep
  <2>2. waitingBar' = waitingBar
    BY <1>4, <2>1, Zenon DEF waitingBar, IsWaiting
  <2>3. QED
    BY <1>4, <2>1, <2>2, Zenon DEF Host!hostVars
<1>7. CASE Store(t, c)
  <2>1. /\ ~device_stopped
        /\ delivered[c.ep] = accepted[c.ep]
        /\ accepted' = [accepted EXCEPT ![c.ep] = @ \o c.data]
        /\ c.generation = reset_generation
    BY <1>1, <1>3, <1>7, StoreAccepts, Zenon
  <2>2. IsWaiting(t) /\ ~IsWaiting(t)'
    BY <1>1, <1>2, <1>3, <1>5, <1>7, <2>1, Zenon DEF Store, IsWaiting
  <2>3. waitingBar[t] = [ep |-> c.ep, data |-> c.data]
    BY <2>2, Zenon DEF waitingBar
  <2>4. waitingBar' = [waitingBar EXCEPT ![t] = NotWaiting]
    <3>1. \A u \in Thread \ {t} : pc'[u] = pc[u] /\ call'[u] = call[u]
      BY <1>1, <1>5, <1>7, Zenon DEF Store
    <3>2. \A u \in Thread \ {t} : IsWaiting(u)' <=> IsWaiting(u)
      BY <1>4, <3>1, Zenon DEF IsWaiting
    <3>3. QED
      BY <2>2, <3>1, <3>2, ZenonT(30) DEF waitingBar, NotWaiting
  <2>5. Host!AcceptWaiting(t, c.ep)
    BY <1>4, <2>1, <2>3, <2>4
       DEF Host!AcceptWaiting, Host!Drained, Host!NotWaiting, NotWaiting
  <2>6. QED
    BY <1>3, <2>5, Zenon DEF Host!Next
<1>8. CASE Drop(t, c)
  <2>1. ~IsWaiting(t)
    BY <1>3, <1>8, Zenon DEF Drop, must_wait, can_store, IsWaiting
  <2>2. ~IsWaiting(t)'
    BY <1>1, <1>5, <1>8, Zenon DEF Drop, IsWaiting
  <2>3. \A u \in Thread \ {t} : pc'[u] = pc[u] /\ call'[u] = call[u]
    BY <1>1, <1>5, <1>8, Zenon DEF Drop
  <2>4. \A u \in Thread \ {t} : IsWaiting(u)' <=> IsWaiting(u)
    BY <1>4, <2>3, Zenon DEF IsWaiting
  <2>5. waitingBar' = waitingBar
    BY <2>1, <2>2, <2>3, <2>4, BarSame, Zenon
  <2>6. QED
    BY <1>4, <1>8, <2>5, Zenon DEF Drop, Host!hostVars
<1>9. QED
  BY <1>2, <1>6, <1>7, <1>8, Zenon DEF TransmitLocked

(* A sequence is the prefix of its length of whatever it is continued to. *)
LEMMA PrefixOfConcat ==
    ASSUME NEW S, NEW s \in Seq(S), NEW t \in Seq(S)
    PROVE  SubSeq(s \o t, 1, Len(s)) = s
<1>1. CASE Len(s) = 0
  <2>1. s = <<>>
    BY <1>1, EmptySeq, Zenon
  <2>2. SubSeq(s \o t, 1, Len(s)) = <<>>
    BY <1>1, SubSeqEmpty, ConcatProperties
  <2>3. QED
    BY <2>1, <2>2, Zenon
<1>2. CASE Len(s) # 0
  <2>1. 1 \in 1 .. Len(s) /\ Len(s) \in 1 .. Len(s)
    BY <1>2, LenProperties
  <2>2. SubSeq(s \o t, 1, Len(s)) = SubSeq(s, 1, Len(s))
    BY <2>1, SubSeqOfConcat1, Zenon
  <2>3. QED
    BY <2>2, SubSeqFull, Zenon
<1>3. QED
  BY <1>1, <1>2, Zenon

(* A transfer delivers the next bytes of the stream. *)
LEMMA FetchMaps ==
    ASSUME DeviceTypeOK, StreamInv, NEW ep \in InEp, NEW max \in Nat,
           FetchEpData(ep, max)
    PROVE  [Host!Next]_(Host!hostVars)
<1> DEFINE d == delivered[ep]
           f == Fetched(ep, max)
           r == Remaining(ep, max)
<1>1. d \in Seq(Byte) /\ f \in Seq(Byte) /\ r \in Seq(Byte)
      /\ endpoint_data[ep] = f \o r
  BY FetchSplits, Zenon DEF DeviceTypeOK
<1>2. accepted[ep] = d \o endpoint_data[ep]
  BY Zenon DEF StreamInv
<1>3. /\ delivered' = [delivered EXCEPT ![ep] = d \o f]
      /\ UNCHANGED <<accepted, pc, call, reset_generation, device_stopped>>
  BY Zenon DEF FetchEpData, processVars, resetVars
<1> HIDE DEF d, f, r
<1>4. accepted[ep] = (d \o f) \o r
  BY <1>1, <1>2, ConcatAssociative, SMTT(30)
<1>5. d \o f \in Seq(Byte) /\ Len(d \o f) = Len(d) + Len(f)
  BY <1>1, ConcatProperties, Zenon
<1>6. SubSeq(accepted[ep], 1, Len(d) + Len(f)) = d \o f
  <2>1. SubSeq((d \o f) \o r, 1, Len(d \o f)) = d \o f
    BY <1>1, <1>5, PrefixOfConcat, Zenon
  <2>2. QED
    BY <1>4, <1>5, <2>1, Zenon
<1>7. /\ Len(d) \in Nat /\ Len(f) \in Nat /\ Len(r) \in Nat
      /\ Len(accepted[ep]) = Len(d) + Len(f) + Len(r)
  BY <1>1, <1>4, <1>5, ConcatProperties, LenProperties
<1>8. Len(f) \in 0 .. Len(accepted[ep])
      /\ Len(f) <= Len(accepted[ep]) - Len(d)
  BY <1>7, SMTT(30)
<1>9. waitingBar' = waitingBar
  BY <1>3, Zenon DEF waitingBar, IsWaiting
<1>10. delivered' = [delivered EXCEPT
                        ![ep] = SubSeq(accepted[ep], 1, Len(@) + Len(f))]
  BY <1>3, <1>6, Zenon DEF d
<1>11. Host!Deliver(ep, Len(f))
  BY <1>3, <1>8, <1>9, <1>10, ZenonT(30) DEF Host!Deliver, d
<1>12. QED
  BY <1>8, <1>11, Zenon DEF Host!Next

(* After a reset, and after the stop, no transmit waits. *)
LEMMA ResetMaps ==
    ASSUME DeviceTypeOK, WaitInv, Reset \/ Stop
    PROVE  [Host!Next]_(Host!hostVars)
<1>1. UNCHANGED <<pc, call>> /\ Thread \subseteq Process
      /\ call \in [Process -> Call] /\ reset_generation \in Nat
  BY Zenon DEF Reset, Stop, processVars, DeviceTypeOK, Process
<1>2. CASE Reset
  <2>1. reset_generation' = reset_generation + 1
    BY <1>2, Zenon DEF Reset
  <2>2. ASSUME NEW t \in Thread, IsWaiting(t)'
        PROVE  FALSE
    <3>1. pc[t] = "wait" /\ call[t].generation = reset_generation + 1
      BY <1>1, <2>1, <2>2, Zenon DEF IsWaiting
    <3>2. call[t].generation <= reset_generation
      BY <1>1, <3>1, Zenon DEF WaitInv
    <3>3. QED
      BY <1>1, <3>1, <3>2
  <2>3. waitingBar' = [t \in Thread |-> NotWaiting]
    BY <2>2, BarNone, Zenon
  <2>4. Host!Reset
    BY <1>2, <2>3, Zenon
       DEF Reset, Host!Reset, Host!Empty, Host!NotWaiting, NotWaiting
  <2>5. QED
    BY <2>4, Zenon DEF Host!Next
<1>3. CASE Stop
  <2>1. \A t \in Thread : ~IsWaiting(t)'
    BY <1>3, Zenon DEF Stop, IsWaiting
  <2>2. waitingBar' = [t \in Thread |-> NotWaiting]
    BY <2>1, BarNone, Zenon
  <2>3. Host!Stop
    BY <1>3, <2>2, Zenon DEF Stop, Host!Stop, Host!NotWaiting, NotWaiting
  <2>4. QED
    BY <2>3, Zenon DEF Host!Next
<1>4. QED
  BY <1>2, <1>3, Zenon

(* The device starts as an empty stream that nobody waits for. *)
LEMMA StreamStarts == DeviceInit => Host!Init
BY Zenon DEF DeviceInit, Host!Init, Host!Empty, Host!NotWaiting, waitingBar,
       IsWaiting, Process

(* Every step of the device is a step of the stream, or leaves it alone. *)
LEMMA StreamSteps ==
    DeviceTypeOK /\ WaitInv /\ StreamInv /\ [DeviceNext]_deviceVars
        => [Host!Next]_(Host!hostVars)
<1> SUFFICES ASSUME DeviceTypeOK, WaitInv, StreamInv, [DeviceNext]_deviceVars
             PROVE  [Host!Next]_(Host!hostVars)
  BY Zenon
<1> USE DEF bufferVars, controlVars, lockVars, processVars, resetVars
<1>s. /\ Server \in Process /\ Thread \subseteq Process /\ 0 \in Endpoint
      /\ TransmitLength \subseteq Nat /\ FetchLength \subseteq Nat
      /\ answer_length \in Nat
  BY LengthAssumption, Zenon DEF Process, Endpoint, DeviceTypeOK
<1>1. ASSUME UNCHANGED <<accepted, delivered, pc, call, reset_generation,
                         device_stopped>>
      PROVE  [Host!Next]_(Host!hostVars)
  BY <1>1, Zenon DEF Host!hostVars, waitingBar, IsWaiting
<1>2. CASE UNCHANGED deviceVars
  BY <1>1, <1>2, Zenon DEF deviceVars
<1>3. ASSUME NEW t \in Thread, ThreadTransmit(t)
      PROVE  [Host!Next]_(Host!hostVars)
  <2>1. PICK ep \in Endpoint, n \in TransmitLength : Transmit(t, ep, n)
    BY <1>3, Zenon DEF ThreadTransmit
  <2>2. QED
    BY <1>3, <1>s, <2>1, NewTransmitMaps, Zenon DEF ThreadTransmit
<1>4. CASE CallbackTransmit
  <2>1. PICK ep \in Endpoint, n \in TransmitLength : Transmit(Server, ep, n)
    BY <1>4, Zenon DEF CallbackTransmit
  <2>2. QED
    BY <1>4, <1>s, <2>1, NewTransmitMaps, Zenon DEF CallbackTransmit
<1>5. CASE LibraryAnswer
  BY <1>5, <1>s, NewTransmitMaps, Zenon DEF LibraryAnswer
<1>6. ASSUME NEW t \in Thread, WakeUp(t)
      PROVE  [Host!Next]_(Host!hostVars)
  BY <1>6, WakeUpMaps, Zenon
<1>7. ASSUME NEW p \in Process, SignalEvent(p)
      PROVE  [Host!Next]_(Host!hostVars)
  <2>1. /\ pc[p] = "signal" /\ pc' = [pc EXCEPT ![p] = "idle"]
        /\ UNCHANGED <<accepted, delivered, call, reset_generation,
                       device_stopped>>
    BY <1>7, Zenon DEF SignalEvent
  <2>2. pc \in [Process -> {"idle", "wait", "signal"}]
    BY Zenon DEF DeviceTypeOK
  <2>3. \A t \in Thread : pc'[t] = "wait" <=> pc[t] = "wait"
    BY <1>s, <2>1, <2>2, Zenon
  <2>4. \A t \in Thread : IsWaiting(t)' <=> IsWaiting(t)
    BY <2>1, <2>3, Zenon DEF IsWaiting
  <2>5. waitingBar' = waitingBar
    BY <2>1, <2>4, BarSame, Zenon
  <2>6. QED
    BY <2>1, <2>5, Zenon DEF Host!hostVars
<1>8. ASSUME NEW ep \in InEp, NEW max \in FetchLength, FetchEpData(ep, max)
      PROVE  [Host!Next]_(Host!hostVars)
  BY <1>8, <1>s, FetchMaps, Zenon
<1>9. CASE Reset \/ Stop
  BY <1>9, ResetMaps, Zenon
<1>10. ASSUME NEW t \in Thread,
              \/ SpuriousWakeUp(t)
              \/ critical_section_enter(t)
              \/ critical_section_exit(t)
       PROVE  [Host!Next]_(Host!hostVars)
  BY <1>1, <1>10, Zenon
     DEF SpuriousWakeUp, critical_section_enter, critical_section_exit
<1>11. CASE ResetClearEvent \/ EnterCallback \/ ReturnCallback
            \/ StartCallback \/ FetchAnswered \/ ClearEvent
  BY <1>1, <1>11, Zenon DEF ResetClearEvent, EnterCallback, ReturnCallback,
                     StartCallback, FetchAnswered, ClearEvent
<1>12. ASSUME NEW s \in Setup, Control(s)
       PROVE  [Host!Next]_(Host!hostVars)
  BY <1>1, <1>12, Zenon DEF Control
<1>13. ASSUME NEW max \in FetchLength, FetchControlReply(max)
       PROVE  [Host!Next]_(Host!hostVars)
  BY <1>1, <1>13, Zenon DEF FetchControlReply
<1>14. QED
  BY <1>2, <1>3, <1>4, <1>5, <1>6, <1>7, <1>8, <1>9, <1>10, <1>11, <1>12,
     <1>13, <1>s, Zenon DEF DeviceNext, ThreadStep, ServerStep, ServerCall

(* The endpoint buffers, with their mutex, condition variable, generations *)
(* and stop flag, implement the streams of HostStream: for every endpoint  *)
(* the host receives the bytes of whole transmits, each once and in the    *)
(* order they were accepted, and a transmit stops waiting only when it is  *)
(* accepted, at a reset or at the end of the server.                       *)
THEOREM DeviceImplementsHostStream == DeviceSpec => HostStreamSpec
<1>1. DeviceInit => DeviceTypeOK /\ WaitInv /\ StreamInv
  BY TypeInit, WaitInit, StreamInit, Zenon
<1>2. DeviceTypeOK /\ WaitInv /\ StreamInv /\ [DeviceNext]_deviceVars
          => (DeviceTypeOK /\ WaitInv /\ StreamInv)'
  BY TypeStep, WaitStep, StreamStep, Zenon
<1>3. QED
  BY <1>1, <1>2, StreamStarts, StreamSteps, PTL
     DEF DeviceSpec, HostStreamSpec, Host!Spec

=============================================================================
