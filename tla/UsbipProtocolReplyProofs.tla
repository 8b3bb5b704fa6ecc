--------------------- MODULE UsbipProtocolReplyProofs ----------------------
(***************************************************************************)
(* Proofs about what UsbipProtocol sends to a host: data of that host's    *)
(* session only, and one answer to every transfer.                         *)
(***************************************************************************)
EXTENDS UsbipProtocolProofs

-----------------------------------------------------------------------------
(* Sessions of hosts. *)

(* The calls of transmit before the import belong to earlier resets, and   *)
(* while a control request is handled, to earlier requests.                *)
CallsInv ==
    /\ session_start <= Len(calls)
    /\ \A c \in 1 .. Len(calls) :
           calls[c].generation <= reset_generation /\ calls[c].request <= requests
    /\ at \notin {"command", "detaching"} =>
           \A c \in 1 .. session_start : calls[c].generation < reset_generation
    /\ at \in InControl =>
           \A c \in 1 .. session_start : calls[c].request < requests

(* Every byte of data comes from a call after the import. *)
SentInSession(data) ==
    \A k \in 1 .. Len(data) : data[k][1] > session_start

(* A step of the device makes at most one call, in the current session. *)
LEMMA DeviceCalls ==
    ASSUME ServerStep \/ \E t \in Thread : ThreadStep(t)
    PROVE  \/ UNCHANGED calls
           \/ calls' = Append(calls, [generation |-> reset_generation,
                                      request |-> requests])
<1> USE DEF bufferVars, controlVars, lockVars, processVars, resetVars
<1>1. ASSUME NEW t \in Thread, ThreadStep(t)
      PROVE  \/ UNCHANGED calls
             \/ calls' = Append(calls, [generation |-> reset_generation,
                                        request |-> requests])
  BY <1>1, Zenon
     DEF ThreadStep, ThreadTransmit, Transmit, WakeUp, SpuriousWakeUp,
         SignalEvent, critical_section_enter, critical_section_exit
<1>2. CASE ServerStep
  BY <1>2, Zenon
     DEF ServerStep, ResetClearEvent, EnterCallback, CallbackTransmit,
         SignalEvent, ReturnCallback, LibraryAnswer, Transmit
<1>3. QED
  BY <1>1, <1>2, Zenon

(* Every step keeps the calls before the import apart. *)
LEMMA CallsStep ==
    ASSUME DeviceTypeOK, ShapeInv, CallsInv, [ProtocolNext]_allVars
    PROVE  CallsInv'
<1> USE DEF queueVars, sessionVars, worldVars, historyVars, bufferVars,
            controlVars, lockVars, processVars, resetVars, InControl
<1>t. /\ calls \in Seq(CallRecord) /\ Len(calls) \in Nat
      /\ reset_generation \in Nat /\ requests \in Nat /\ session_start \in Nat
      /\ \A c \in 1 .. Len(calls) :
             calls[c].generation \in Nat /\ calls[c].request \in Nat
  <2>1. calls \in Seq(CallRecord)
    BY Zenon DEF DeviceTypeOK, CallRecord
  <2>2. \A c \in 1 .. Len(calls) : calls[c] \in CallRecord
    BY <2>1
  <2>3. \A c \in 1 .. Len(calls) :
            calls[c].generation \in Nat /\ calls[c].request \in Nat
    BY <2>2 DEF CallRecord
  <2>4. /\ reset_generation \in Nat /\ requests \in Nat /\ session_start \in Nat
    BY Zenon DEF ShapeInv, ProtocolTypeOK, DeviceTypeOK
  <2>5. Len(calls) \in Nat
    BY <2>1
  <2>6. QED
    BY <2>1, <2>3, <2>4, <2>5, Zenon
<1>u. deviceVars' = deviceVars => UNCHANGED <<calls, reset_generation, requests>>
  BY Zenon DEF deviceVars
(* The device is left alone. *)
<1>1. ASSUME UNCHANGED <<calls, reset_generation, requests, session_start>>,
             at' \notin {"command", "detaching"} =>
                 at \notin {"command", "detaching"},
             at' \in InControl => at \in InControl
      PROVE  CallsInv'
  BY <1>1, Zenon DEF CallsInv
<1>2. CASE Import
  <2>1. /\ calls' = calls /\ requests' = requests
        /\ reset_generation' = reset_generation + 1
        /\ session_start' = Len(calls) /\ at' = "importing"
    BY <1>2, Zenon DEF Import, Reset
  <2>2. QED
    BY <1>t, <2>1 DEF CallsInv
<1>3. CASE LostConnection
  <2>1. /\ calls' = calls /\ requests' = requests
        /\ reset_generation' = reset_generation + 1
        /\ session_start' = session_start /\ at' = "detaching"
    BY <1>3, Zenon DEF LostConnection, Reset
  <2>2. QED
    BY <1>t, <2>1 DEF CallsInv
<1>4. ASSUME NEW s \in Setup, SubmitControl(s) PROVE CallsInv'
  <2>1. /\ UNCHANGED <<calls, reset_generation, session_start>>
        /\ requests' = requests + 1 /\ at = "poll" /\ at' = "control"
    BY <1>4, Zenon DEF SubmitControl, NextCommand, Control
  <2>2. QED
    BY <1>t, <2>1 DEF CallsInv
<1>5. CASE /\ ServerStep \/ \E t \in Thread : ThreadStep(t)
           /\ UNCHANGED protocolVars
  <2>1. UNCHANGED <<at, session_start, reset_generation, requests>>
    BY <1>5, DeviceSteps, Zenon DEF protocolVars
  <2>2. CASE UNCHANGED calls
    BY <1>1, <2>1, <2>2, Zenon
  <2>3. CASE calls' = Append(calls, [generation |-> reset_generation,
                                     request |-> requests])
    <3> DEFINE r == [generation |-> reset_generation, request |-> requests]
    <3>1. /\ Len(calls') = Len(calls) + 1 /\ calls'[Len(calls) + 1] = r
          /\ \A c \in 1 .. Len(calls) : calls'[c] = calls[c]
      BY <1>t, <2>3
    <3>2. r.generation = reset_generation /\ r.request = requests
      BY Zenon
    <3> HIDE DEF r
    <3>3. ASSUME NEW c \in 1 .. Len(calls) + 1
          PROVE  /\ calls'[c].generation <= reset_generation
                 /\ calls'[c].request <= requests
      <4>1. CASE c = Len(calls) + 1
        BY <1>t, <3>1, <3>2, <4>1, SMTT(30)
      <4>2. CASE c # Len(calls) + 1
        <5>1. c \in 1 .. Len(calls)
          BY <1>t, <4>2
        <5>2. QED
          BY <3>1, <5>1, Zenon DEF CallsInv
      <4>3. QED
        BY <4>1, <4>2, Zenon
    <3>4. \A c \in 1 .. session_start : calls'[c] = calls[c]
      BY <1>t, <3>1 DEF CallsInv
    <3>5. session_start <= Len(calls) + 1
      BY <1>t DEF CallsInv
    <3>6. QED
      BY <2>1, <3>1, <3>3, <3>4, <3>5, Zenon DEF CallsInv
  <2>4. QED
    BY <2>2, <2>3, <1>5, DeviceCalls, Zenon
<1>6. CASE ControlAnswer \/ ControlFetch
  BY <1>1, <1>6, Zenon DEF ControlAnswer, ControlFetch, FetchAnswered, FetchControlReply
<1>7. CASE ImportReply \/ PollReturns \/ ReadFails \/ ControlReply
           \/ OutReply \/ ScheduleIso \/ IsoReply \/ ScanNotDue \/ ScanIso
  BY <1>1, <1>7, <1>u, Zenon
     DEF ImportReply, PollReturns, ReadFails, ControlReply, OutReply,
         ScheduleIso, IsoReply, ScanNotDue, ScanIso, Scanning
<1>8. CASE ScanIsoReply \/ ScanEnds \/ Detached
  BY <1>1, <1>8, <1>u, Zenon DEF ScanIsoReply, ScanEnds, Detached
<1>9. CASE IsoPacket
  BY <1>1, <1>9, ZenonT(30) DEF IsoPacket, StartCallback
<1>10. CASE ClearThenScan
  BY <1>1, <1>10, Zenon DEF ClearThenScan, ClearEvent
<1>11. CASE ScanFetch
  <2>1. UNCHANGED <<at, calls, reset_generation, requests, session_start>>
    BY <1>11, Zenon DEF ScanFetch, FetchEpData
  <2>2. QED
    BY <1>1, <2>1, Zenon
<1>12. CASE ProtocolStep
  BY <1>3, <1>6, <1>7, <1>8, <1>9, <1>10, <1>11, <1>12, ZenonT(30)
     DEF ProtocolStep
<1>13. ASSUME NEW ep, NEW n, SubmitOut(ep, n) PROVE CallsInv'
  <2>1. /\ UNCHANGED <<calls, reset_generation, requests, session_start>>
        /\ at = "poll" /\ at' = "received"
    BY <1>13, <1>u, Zenon DEF SubmitOut, NextCommand, StartCallback
  <2>2. QED
    BY <1>1, <2>1, Zenon
<1>14. ASSUME NEW ep, NEW n, SubmitIn(ep, n) PROVE CallsInv'
  BY <1>1, <1>14, <1>u, Zenon DEF SubmitIn, NextCommand
<1>15. ASSUME NEW pipe, NEW count, SubmitIso(pipe, count) PROVE CallsInv'
  BY <1>1, <1>15, <1>u, Zenon DEF SubmitIso, NextCommand
<1>16. ASSUME NEW number, Unlink(number) PROVE CallsInv'
  BY <1>1, <1>16, <1>u, Zenon DEF Unlink, NextCommand
<1>17. CASE InvalidCommand \/ HostDisconnects \/ Tick
  BY <1>1, <1>17, <1>u, Zenon
     DEF InvalidCommand, NextCommand, HostDisconnects, Tick
<1>18. CASE UNCHANGED allVars
  BY <1>1, <1>18, <1>u, Zenon DEF allVars, protocolVars
<1>19. QED
  BY <1>2, <1>4, <1>5, <1>12, <1>13, <1>14, <1>15, <1>16, <1>17, <1>18, ZenonT(30)
     DEF ProtocolNext, HostStep, Submit

(* Every step sends the host nothing from before its import. *)
LEMMA SeesStep ==
    ASSUME DeviceTypeOK, ShapeInv, CallsInv, DataInv, HostSeesItsSession,
           [ProtocolNext]_allVars
    PROVE  HostSeesItsSession'
<1> USE DEF queueVars, sessionVars, worldVars, historyVars
<1>t. replies \in Seq(Reply) /\ session_start \in Nat
  BY Zenon DEF ShapeInv, ProtocolTypeOK, Reply
<1>1. ASSUME UNCHANGED <<replies, session_start>> PROVE HostSeesItsSession'
  BY <1>1, Zenon DEF HostSeesItsSession
<1>e. SentInSession(<<>>)
  BY DEF SentInSession
<1>2. ASSUME NEW u, NEW k, NEW d, Write(u, k, d), SentInSession(d),
             UNCHANGED session_start
      PROVE  HostSeesItsSession'
  <2>1. CASE UNCHANGED replies
    BY <1>1, <1>2, <2>1, Zenon
  <2>2. CASE replies' = Append(replies, [urb |-> u, kind |-> k, data |-> d])
    <3> DEFINE n == Len(replies)
               r == [urb |-> u, kind |-> k, data |-> d]
    <3>1. /\ n \in Nat /\ Len(replies') = n + 1 /\ replies'[n + 1] = r
          /\ \A i \in 1 .. n : replies'[i] = replies[i]
      BY <1>t, <2>2
    <3>2. r.data = d
      BY Zenon
    <3> HIDE DEF r
    <3>3. ASSUME NEW i \in 1 .. n + 1
          PROVE  \A j \in 1 .. Len(replies'[i].data) :
                     replies'[i].data[j][1] > session_start
      <4>1. CASE i = n + 1
        BY <1>2, <3>1, <3>2, <4>1, Zenon DEF SentInSession
      <4>2. CASE i # n + 1
        <5>1. i \in 1 .. n
          BY <3>1, <4>2, SMTT(30)
        <5>2. QED
          BY <3>1, <5>1, Zenon DEF HostSeesItsSession
      <4>3. QED
        BY <4>1, <4>2, Zenon
    <3>4. QED
      BY <1>2, <3>1, <3>3, Zenon DEF HostSeesItsSession
  <2>3. QED
    BY <1>2, <2>1, <2>2, Zenon DEF Write
<1>3. CASE Import
  BY <1>3 DEF Import, HostSeesItsSession
<1>4. CASE ControlReply
  <2>1. at \in InControl
    BY <1>4, Zenon DEF ControlReply, InControl
  <2>2. SentInSession(reply.data)
    <3>1. BytesOf(reply.data, RequestCalls(calls, requests))
      BY Zenon DEF DataInv
    <3>2. \A c \in RequestCalls(calls, requests) : c > session_start
      <4> SUFFICES ASSUME NEW c \in RequestCalls(calls, requests)
                   PROVE  c > session_start
        BY Zenon
      <4>1. c \in 1 .. Len(calls) /\ calls[c].request = requests
        BY Zenon DEF RequestCalls
      <4>2. requests \in Nat /\ Len(calls) \in Nat
        BY DEF DeviceTypeOK
      <4>3. c \notin 1 .. session_start
        BY <2>1, <4>1, <4>2 DEF CallsInv
      <4>4. QED
        BY <1>t, <4>1, <4>2, <4>3
    <3>3. QED
      BY <3>1, <3>2, Zenon DEF BytesOf, SentInSession
  <2>3. QED
    BY <1>2, <1>4, <1>e, <2>2, ZenonT(30) DEF ControlReply
<1>5. CASE ScanFetch
  <2> DEFINE e == current.ep
             n == current.length
  <2>1. /\ ~current.isochronous /\ at = "scan" /\ UNCHANGED session_start
        /\ Scanning
    BY <1>5, Zenon DEF ScanFetch, Scanning
  <2>2. e \in InEp /\ n \in Nat /\ e \in Endpoint
    BY <2>1, CurrentQueued, DueType, LengthAssumption, ZenonT(30)
       DEF current, Endpoint
  <2>3. \A c \in SessionCalls(calls, reset_generation) : c > session_start
    <3> SUFFICES ASSUME NEW c \in SessionCalls(calls, reset_generation)
                 PROVE  c > session_start
      BY Zenon
    <3>1. c \in 1 .. Len(calls) /\ calls[c].generation = reset_generation
      BY Zenon DEF SessionCalls
    <3>2. reset_generation \in Nat /\ Len(calls) \in Nat
      BY DEF DeviceTypeOK
    <3>3. c \notin 1 .. session_start
      BY <2>1, <3>1, <3>2 DEF CallsInv
    <3>4. QED
      BY <1>t, <3>1, <3>2, <3>3
  <2>4. BytesOf(Fetched(e, n), SessionCalls(calls, reset_generation))
    BY <2>2, BytesFetched, ZenonT(30) DEF DataInv
  <2>5. SentInSession(Fetched(e, n))
    BY <2>3, <2>4, Zenon DEF BytesOf, SentInSession
  <2>6. CASE Fetched(e, n) # <<>>
    BY <1>2, <1>5, <2>1, <2>5, <2>6, Zenon DEF ScanFetch
  <2>7. CASE Fetched(e, n) = <<>>
    BY <1>1, <1>5, <2>1, <2>7, Zenon DEF ScanFetch
  <2>8. QED
    BY <2>6, <2>7, Zenon
<1>6. CASE OutReply \/ IsoReply \/ ScanIsoReply
  BY <1>2, <1>6, <1>e, Zenon DEF OutReply, IsoReply, ScanIsoReply
<1>7. CASE ProtocolStep
  BY <1>1, <1>4, <1>5, <1>6, <1>7, Zenon
     DEF ProtocolStep, ImportReply, PollReturns, ReadFails, ControlAnswer,
         ControlFetch, IsoPacket, ScheduleIso, ClearThenScan, ScanNotDue,
         ScanIso, ScanEnds, LostConnection, Detached
<1>8. ASSUME NEW ep, NEW n, SubmitIn(ep, n) PROVE HostSeesItsSession'
  BY <1>1, <1>2, <1>8, <1>e, Zenon DEF SubmitIn
<1>9. ASSUME NEW number, Unlink(number) PROVE HostSeesItsSession'
  BY <1>2, <1>9, <1>e, Zenon DEF Unlink
<1>10. CASE HostStep
  BY <1>1, <1>3, <1>8, <1>9, <1>10, Zenon
     DEF HostStep, Submit, InvalidCommand, SubmitControl, SubmitOut, SubmitIso,
         HostDisconnects
<1>11. QED
  BY <1>1, <1>7, <1>10, Zenon DEF ProtocolNext, Tick, protocolVars, allVars

(* A host is sent only what was transmitted since it imported the device:  *)
(* usbip_device_reset in usbip_protocol_process_cmd and the generation     *)
(* that usbip_device_transmit compares keep out everything else, whichever *)
(* threads transmit and however long they wait.                            *)
THEOREM SessionsApart == ProtocolSpec => []HostSeesItsSession
<1>1. ProtocolInit => CallsInv /\ HostSeesItsSession
  BY DEF ProtocolInit, DeviceInit, CallsInv, InControl, HostSeesItsSession
<1>2. /\ DeviceTypeOK /\ ShapeInv /\ DataInv /\ CallsInv /\ HostSeesItsSession
      /\ [ProtocolNext]_allVars
      => CallsInv' /\ HostSeesItsSession'
  BY CallsStep, SeesStep, Zenon
<1>3. ProtocolSpec => []DataInv
  BY ProtocolUsesDevice, DataInvariant, PTL
<1>4. QED
  BY <1>1, <1>2, <1>3, ShapeInvariant, PTL DEF ProtocolSpec

-----------------------------------------------------------------------------
(* Answers to transfers.  A transfer moves from the server thread to the   *)
(* queue to the replies, and the invariant says that it is in exactly one  *)
(* of the three.  That needs the order of the queue, which makes a number  *)
(* name one transfer, and that no numbers are about but those of submitted *)
(* transfers.                                                              *)

(* All the numbers about are those of submitted transfers. *)
NumbersInv ==
    /\ \A i \in 1 .. Len(pending_urbs) : pending_urbs[i].seqnum \in submitted
    /\ \A j \in 1 .. Len(replies) : replies[j].urb \in submitted
    /\ at \notin Resting => cmd.seqnum \in submitted
    /\ at = "importing" => submitted = {}

(* A transfer is being handled, pending, or answered, and only one of these. *)
Singleton(S) == \E x : S = {x}
InOnePlace(number) ==
    \/ cmd.seqnum = number /\ Matching(number) = {} /\ Answers(number) = {}
    \/ /\ cmd.seqnum # number
       /\ Singleton(Matching(number))
       /\ Answers(number) = {}
    \/ /\ cmd.seqnum # number
       /\ Matching(number) = {}
       /\ Singleton(Answers(number))

AnswerInv == Serving => \A number \in submitted : InOnePlace(number)

(* A reply is one more answer to its transfer, unless it only says that    *)
(* there was nothing to cancel.                                            *)
LEMMA AnswersWritten ==
    ASSUME replies \in Seq(Reply), NEW u, NEW k, NEW d,
           replies' = Append(replies, [urb |-> u, kind |-> k, data |-> d]),
           NEW m
    PROVE  /\ m # u \/ k = "unknown" => Answers(m)' = Answers(m)
           /\ k # "unknown" => Answers(u)' = Answers(u) \cup {Len(replies) + 1}
<1> DEFINE n == Len(replies)
           r == [urb |-> u, kind |-> k, data |-> d]
<1>1. /\ n \in Nat /\ Len(replies') = n + 1 /\ replies'[n + 1] = r
      /\ \A i \in 1 .. n : replies'[i] = replies[i]
  OBVIOUS
<1>2. r.urb = u /\ r.kind = k
  BY Zenon
<1>3. \A i : i \in 1 .. n + 1 <=> i \in 1 .. n \/ i = n + 1
  BY <1>1
<1>4. n + 1 \notin 1 .. n
  BY <1>1
<1> HIDE DEF r, n
<1>5. ASSUME m # u \/ k = "unknown" PROVE Answers(m)' = Answers(m)
  <2>1. \A i : i \in Answers(m)' <=> i \in Answers(m)
    BY <1>1, <1>2, <1>3, <1>4, <1>5, Zenon DEF Answers, n
  <2>2. QED
    BY <2>1, Zenon
<1>6. ASSUME k # "unknown" PROVE Answers(u)' = Answers(u) \cup {n + 1}
  <2>1. \A i : i \in Answers(u)' <=> i \in Answers(u) \/ i = n + 1
    BY <1>1, <1>2, <1>3, <1>4, <1>6, Zenon DEF Answers, n
  <2>2. QED
    BY <2>1, Zenon
<1>7. QED
  BY <1>5, <1>6, Zenon DEF n

(* A transfer appended to the queue is one more pending of its number. *)
LEMMA MatchingAppended ==
    ASSUME pending_urbs \in Seq(Urb), NEW u \in Urb,
           pending_urbs' = Append(pending_urbs, u), NEW m
    PROVE  /\ m # u.seqnum => Matching(m)' = Matching(m)
           /\ Matching(u.seqnum)' =
                  Matching(u.seqnum) \cup {Len(pending_urbs) + 1}
<1> DEFINE n == Len(pending_urbs)
<1>1. /\ n \in Nat /\ Len(pending_urbs') = n + 1 /\ pending_urbs'[n + 1] = u
      /\ \A i \in 1 .. n : pending_urbs'[i] = pending_urbs[i]
  OBVIOUS
<1>3. \A i : i \in 1 .. n + 1 <=> i \in 1 .. n \/ i = n + 1
  BY <1>1
<1>4. n + 1 \notin 1 .. n
  BY <1>1
<1> HIDE DEF n
<1>5. ASSUME m # u.seqnum PROVE Matching(m)' = Matching(m)
  <2>1. \A i : i \in Matching(m)' <=> i \in Matching(m)
    BY <1>1, <1>3, <1>4, <1>5, Zenon DEF Matching, n
  <2>2. QED
    BY <2>1, Zenon
<1>6. Matching(u.seqnum)' = Matching(u.seqnum) \cup {n + 1}
  <2>1. \A i : i \in Matching(u.seqnum)'
               <=> i \in Matching(u.seqnum) \/ i = n + 1
    BY <1>1, <1>3, <1>4, Zenon DEF Matching, n
  <2>2. QED
    BY <2>1, Zenon
<1>7. QED
  BY <1>5, <1>6, Zenon DEF n

(* Removing a transfer leaves none of its number and the others pending. *)
LEMMA MatchingRemoved ==
    ASSUME pending_urbs \in Seq(Urb), QueueInv,
           NEW idx \in 1 .. Len(pending_urbs),
           pending_urbs' = remove_pending_urb(idx),
           NEW m
    PROVE  /\ m = pending_urbs[idx].seqnum => Matching(m)' = {}
           /\ Matching(m) = {} => Matching(m)' = {}
           /\ m # pending_urbs[idx].seqnum /\ Singleton(Matching(m))
              => Singleton(Matching(m)')
<1> DEFINE n == Len(pending_urbs)
           k(i) == IF i < idx THEN i ELSE i + 1
<1>1. /\ n \in Nat /\ idx \in 1 .. n /\ Len(pending_urbs') = n - 1
      /\ \A i \in 1 .. n - 1 : pending_urbs'[i] = pending_urbs[k(i)]
  <2>1. n \in Nat /\ idx \in 1 .. n
    OBVIOUS
  <2>2. /\ Len(pending_urbs') = n - 1
        /\ \A i \in 1 .. n - 1 :
               pending_urbs'[i] = IF i < idx THEN pending_urbs[i]
                                  ELSE pending_urbs[i + 1]
    BY Removed, Zenon
  <2>3. ASSUME NEW i \in 1 .. n - 1 PROVE pending_urbs'[i] = pending_urbs[k(i)]
    <3>1. CASE i < idx
      BY <2>2, <3>1, Zenon
    <3>2. CASE ~(i < idx)
      BY <2>2, <3>2, Zenon
    <3>3. QED
      BY <3>1, <3>2, Zenon
  <2>4. QED
    BY <2>1, <2>2, <2>3, Zenon
<1>2. /\ \A i \in 1 .. n - 1 : k(i) \in 1 .. n /\ k(i) # idx
      /\ \A i, j \in 1 .. n - 1 : k(i) = k(j) => i = j
      /\ \A j \in 1 .. n : j # idx => \E i \in 1 .. n - 1 : k(i) = j
  <2>1. \A j \in 1 .. n : j # idx => \E i \in 1 .. n - 1 : k(i) = j
    <3> SUFFICES ASSUME NEW j \in 1 .. n, j # idx
                 PROVE  \E i \in 1 .. n - 1 : k(i) = j
      BY Zenon
    <3>1. CASE j < idx
      <4>1. j \in 1 .. n - 1 /\ k(j) = j
        BY <1>1, <3>1
      <4>2. QED
        BY <4>1, Zenon
    <3>2. CASE ~(j < idx)
      <4>1. j - 1 \in 1 .. n - 1 /\ k(j - 1) = j
        BY <1>1, <3>2
      <4>2. QED
        BY <4>1, Zenon
    <3>3. QED
      BY <3>1, <3>2, Zenon
  <2>2. QED
    BY <1>1, <2>1
<1> HIDE DEF k
<1>3. \A i : i \in Matching(m)' <=> i \in 1 .. n - 1 /\ k(i) \in Matching(m)
  <2>1. \A i : i \in Matching(m)'
               <=> i \in 1 .. n - 1 /\ pending_urbs'[i].seqnum = m
    BY <1>1, Zenon DEF Matching
  <2>2. QED
    BY <1>1, <1>2, <2>1, Zenon DEF Matching
<1>4. Matching(m) = {} => Matching(m)' = {}
  BY <1>3, Zenon
<1>5. ASSUME m = pending_urbs[idx].seqnum PROVE Matching(m)' = {}
  <2>1. idx \in Matching(m)
    BY <1>5, Zenon DEF Matching
  <2>2. Matching(m) = {idx}
    BY <2>1, MatchingUnique, Zenon
  <2>3. QED
    BY <1>2, <1>3, <2>2, Zenon
<1>6. ASSUME m # pending_urbs[idx].seqnum, NEW j, Matching(m) = {j}
      PROVE  Singleton(Matching(m)')
  <2>1. j \in 1 .. n /\ pending_urbs[j].seqnum = m
    BY <1>6, Zenon DEF Matching
  <2>2. PICK i \in 1 .. n - 1 : k(i) = j
    BY <1>2, <1>6, <2>1, Zenon
  <2>3. \A h : h \in Matching(m)' <=> h = i
    BY <1>2, <1>3, <1>6, <2>2, ZenonT(30)
  <2>4. Matching(m)' = {i}
    BY <2>3, Zenon
  <2>5. QED
    BY <2>4, Zenon DEF Singleton
<1>7. QED
  BY <1>4, <1>5, <1>6, Zenon DEF Singleton

(* Every step keeps the numbers about those of submitted transfers. *)
LEMMA NumbersStep ==
    ASSUME ShapeInv, NumbersInv, [ProtocolNext]_allVars
    PROVE  NumbersInv'
<1> USE DEF queueVars, sessionVars, worldVars, historyVars, Resting
<1>t. /\ ProtocolTypeOK /\ QueueInv /\ pending_urbs \in Seq(Urb)
      /\ replies \in Seq(Reply) /\ seqnum \in Nat
  BY Zenon DEF ShapeInv, ProtocolTypeOK, Reply
<1> DEFINE Queued(S) == \A i \in 1 .. Len(pending_urbs') :
                            pending_urbs'[i].seqnum \in S
           Replied(S) == \A j \in 1 .. Len(replies') : replies'[j].urb \in S
<1>n. ASSUME Queued(submitted'), Replied(submitted'),
             at' \notin Resting => cmd'.seqnum \in submitted',
             at' # "importing"
      PROVE  NumbersInv'
  BY <1>n, Zenon DEF NumbersInv
<1>q. UNCHANGED pending_urbs => Queued(submitted)
  BY Zenon DEF NumbersInv
<1>r. UNCHANGED replies => Replied(submitted)
  BY Zenon DEF NumbersInv
<1>m. ASSUME NEW S, NEW T, S \subseteq T
      PROVE  (Queued(S) => Queued(T)) /\ (Replied(S) => Replied(T))
  BY <1>m, Zenon
<1>w. ASSUME NEW S, submitted \subseteq S, NEW u \in S, NEW k, NEW d,
             Write(u, k, d)
      PROVE  Replied(S)
  <2>1. CASE UNCHANGED replies
    BY <1>m, <1>r, <1>w, <2>1, Zenon
  <2>2. CASE replies' = Append(replies, [urb |-> u, kind |-> k, data |-> d])
    <3> DEFINE n == Len(replies)
               r == [urb |-> u, kind |-> k, data |-> d]
    <3>1. /\ n \in Nat /\ Len(replies') = n + 1 /\ replies'[n + 1] = r
          /\ \A i \in 1 .. n : replies'[i] = replies[i]
      BY <1>t, <2>2
    <3>2. r.urb = u
      BY Zenon
    <3> HIDE DEF r
    <3>3. \A i \in 1 .. n + 1 : i \in 1 .. n \/ i = n + 1
      BY <3>1
    <3>4. \A i \in 1 .. n : replies[i].urb \in S
      BY <1>w, Zenon DEF NumbersInv
    <3>5. QED
      BY <1>w, <3>1, <3>2, <3>3, <3>4, Zenon
  <2>3. QED
    BY <1>w, <2>1, <2>2, Zenon DEF Write
<1>a. ASSUME NEW S, submitted \subseteq S, NEW u \in Urb, u.seqnum \in S,
             pending_urbs' = Append(pending_urbs, u)
      PROVE  Queued(S)
  <2> DEFINE n == Len(pending_urbs)
  <2>1. /\ n \in Nat /\ Len(pending_urbs') = n + 1 /\ pending_urbs'[n + 1] = u
        /\ \A i \in 1 .. n : pending_urbs'[i] = pending_urbs[i]
    BY <1>t, <1>a
  <2>2. \A i \in 1 .. n + 1 : i \in 1 .. n \/ i = n + 1
    BY <2>1
  <2>3. \A i \in 1 .. n : pending_urbs[i].seqnum \in S
    BY <1>a, Zenon DEF NumbersInv
  <2>4. QED
    BY <1>a, <2>1, <2>2, <2>3, Zenon
<1>d. ASSUME NEW idx \in 1 .. Len(pending_urbs),
             pending_urbs' = remove_pending_urb(idx)
      PROVE  Queued(submitted)
  <2>1. /\ Len(pending_urbs') = Len(pending_urbs) - 1
        /\ \A i \in 1 .. Len(pending_urbs) - 1 :
               pending_urbs'[i] = IF i < idx THEN pending_urbs[i]
                                  ELSE pending_urbs[i + 1]
    BY <1>t, <1>d, Removed, Zenon
  <2>2. \A i \in 1 .. Len(pending_urbs) - 1 :
            i \in 1 .. Len(pending_urbs) /\ i + 1 \in 1 .. Len(pending_urbs)
    BY <1>t
  <2>3. QED
    BY <2>1, <2>2, Zenon DEF NumbersInv
<1> HIDE DEF Queued, Replied
<1>1. ASSUME UNCHANGED <<at, cmd, pending_urbs, replies, submitted>>
      PROVE  NumbersInv'
  BY <1>1, Zenon DEF NumbersInv
<1>2. ASSUME at' \in Resting, at' # "importing",
             UNCHANGED <<pending_urbs, replies, submitted>>
      PROVE  NumbersInv'
  BY <1>2, <1>n, <1>q, <1>r, Zenon
<1>3. CASE Import
  BY <1>3 DEF Import, NumbersInv
<1>4. CASE LostConnection
  BY <1>4 DEF LostConnection, NumbersInv
<1>5. ASSUME NextCommand, submitted' = submitted \cup {seqnum'},
             cmd'.seqnum = seqnum + 1, at' # "importing",
             UNCHANGED <<pending_urbs, replies>>
      PROVE  NumbersInv'
  <2>1. Queued(submitted') /\ Replied(submitted')
    BY <1>5, <1>q, <1>r, <1>m, Zenon
  <2>2. cmd'.seqnum \in submitted'
    BY <1>5, Zenon DEF NextCommand
  <2>3. QED
    BY <1>5, <1>n, <2>1, <2>2, Zenon
<1>6. ASSUME NEW s \in Setup, SubmitControl(s) PROVE NumbersInv'
  BY <1>5, <1>6, Zenon DEF SubmitControl, Submitted
<1>7. ASSUME NEW ep, NEW n, SubmitOut(ep, n) PROVE NumbersInv'
  BY <1>5, <1>7, Zenon DEF SubmitOut, Submitted
<1>8. ASSUME NEW pipe, NEW count, SubmitIso(pipe, count) PROVE NumbersInv'
  BY <1>5, <1>8, Zenon DEF SubmitIso, Submitted
<1>9. ASSUME NEW ep \in InEp, NEW n \in SubmitLength, SubmitIn(ep, n)
      PROVE  NumbersInv'
  <2>1. /\ submitted' = submitted \cup {seqnum'} /\ at' = "clear"
        /\ seqnum' = seqnum + 1
    BY <1>9, Zenon DEF SubmitIn, NextCommand
  <2>2. CASE QueueFull
    <3>1. Write(seqnum', "done", <<>>) /\ UNCHANGED pending_urbs
      BY <1>9, <2>2, Zenon DEF SubmitIn
    <3>2. seqnum' \in submitted' /\ submitted \subseteq submitted'
      BY <2>1, Zenon
    <3>3. Replied(submitted')
      BY <1>w, <3>1, <3>2, Zenon
    <3>4. QED
      BY <1>n, <1>q, <1>m, <2>1, <3>1, <3>2, <3>3, Zenon
  <2>3. CASE ~QueueFull
    <3> DEFINE u == Submitted(ep, "in", n, FALSE, 0, TRUE)
    <3>1. pending_urbs' = Append(pending_urbs, u) /\ UNCHANGED replies
      BY <1>9, <2>3, Zenon DEF SubmitIn
    <3>2. ep \in 0 .. 15 /\ n \in Nat
      BY EndpointAssumption, ProtocolAssumption
    <3>3. u \in Urb /\ u.seqnum = seqnum + 1
      BY <1>t, <3>2 DEF Submitted, Urb
    <3> HIDE DEF u
    <3>4. Queued(submitted')
      BY <1>a, <2>1, <3>1, <3>3, Zenon
    <3>5. Replied(submitted')
      BY <1>m, <1>r, <2>1, <3>1, Zenon
    <3>6. QED
      BY <1>n, <2>1, <3>4, <3>5, Zenon
  <2>4. QED
    BY <2>2, <2>3, Zenon
<1>10. CASE ControlReply \/ OutReply \/ IsoReply
  <2>1. /\ at \notin Resting /\ at' = "clear"
        /\ UNCHANGED <<pending_urbs, submitted>>
        /\ \E k, d : Write(cmd.seqnum, k, d)
    BY <1>10, Zenon DEF ControlReply, OutReply, IsoReply
  <2>2. cmd.seqnum \in submitted
    BY <2>1, Zenon DEF NumbersInv
  <2>3. Replied(submitted)
    BY <1>w, <2>1, <2>2, Zenon
  <2>4. QED
    BY <1>n, <1>q, <2>1, <2>3, Zenon
<1>11. CASE ScheduleIso
  <2>1. at = "iso_submit" /\ UNCHANGED <<replies, submitted>>
    BY <1>11, Zenon DEF ScheduleIso
  <2>2. cmd.seqnum \in submitted
    BY <2>1, Zenon DEF NumbersInv
  <2>3. CASE QueueFull
    <3>1. UNCHANGED <<pending_urbs, cmd>> /\ at' = "iso_reply"
      BY <1>11, <2>3, Zenon DEF ScheduleIso
    <3>2. QED
      BY <1>n, <1>q, <1>r, <2>1, <2>2, <3>1, Zenon
  <2>4. CASE ~QueueFull
    <3> DEFINE u == [cmd EXCEPT !.complete_us = IsoEnd(PipeOf(cmd), cmd.packets)]
    <3>1. pending_urbs' = Append(pending_urbs, u) /\ at' = "clear"
      BY <1>11, <2>4, Zenon DEF ScheduleIso
    <3>2. cmd \in Urb
      BY <1>t, Zenon DEF ProtocolTypeOK
    <3>3. u.seqnum = cmd.seqnum
      BY <3>2, Zenon DEF Urb
    <3> HIDE DEF u
    <3>4. Len(pending_urbs') = Len(pending_urbs) + 1
          /\ pending_urbs'[Len(pending_urbs) + 1] = u
          /\ \A i \in 1 .. Len(pending_urbs) : pending_urbs'[i] = pending_urbs[i]
      BY <1>t, <3>1
    <3>5. \A i \in 1 .. Len(pending_urbs) + 1 :
              i \in 1 .. Len(pending_urbs) \/ i = Len(pending_urbs) + 1
      BY <1>t
    <3>6. Queued(submitted)
      BY <2>2, <3>3, <3>4, <3>5, Zenon DEF Queued, NumbersInv
    <3>7. QED
      BY <1>n, <1>r, <2>1, <3>1, <3>6, Zenon
  <2>5. QED
    BY <2>3, <2>4, Zenon
<1>12. ASSUME NEW number \in submitted, Unlink(number) PROVE NumbersInv'
  <2>1. at' = "clear" /\ UNCHANGED submitted
    BY <1>12, Zenon DEF Unlink
  <2>2. Replied(submitted)
    BY <1>12, <1>w, Zenon DEF Unlink
  <2>3. Queued(submitted)
    <3>1. CASE Matching(number) = {}
      BY <1>12, <1>q, <3>1, Zenon DEF Unlink
    <3>2. CASE Matching(number) # {}
      <4>1. PICK k \in Matching(number) : TRUE
        BY <3>2, Zenon
      <4>2. k \in 1 .. Len(pending_urbs) /\ First(Matching(number)) = k
        BY <1>t, <4>1, MatchingUnique, Zenon
      <4>3. QED
        BY <1>12, <1>d, <3>2, <4>2, Zenon DEF Unlink
    <3>3. QED
      BY <3>1, <3>2, Zenon
  <2>4. QED
    BY <1>n, <2>1, <2>2, <2>3, Zenon
<1>13. CASE ScanIsoReply \/ ScanFetch
  <2>1. scan.idx \in 1 .. Len(pending_urbs)
    BY <1>13, CurrentQueued, Zenon DEF ScanIsoReply, ScanFetch
  <2>2. current.seqnum \in submitted
    BY <2>1, Zenon DEF NumbersInv, current
  <2>3. /\ at' = "scan" /\ UNCHANGED submitted
        /\ \/ /\ pending_urbs' = remove_pending_urb(scan.idx)
              /\ \E k, d : Write(current.seqnum, k, d)
           \/ UNCHANGED <<pending_urbs, replies>>
    BY <1>13, Zenon DEF ScanIsoReply, ScanFetch, Scanning
  <2>4. CASE UNCHANGED <<pending_urbs, replies>>
    BY <1>2, <2>3, <2>4, Zenon
  <2>5. CASE /\ pending_urbs' = remove_pending_urb(scan.idx)
             /\ \E k, d : Write(current.seqnum, k, d)
    <3>1. Replied(submitted)
      BY <1>w, <2>2, <2>5, Zenon
    <3>2. Queued(submitted)
      BY <1>d, <2>1, <2>5, Zenon
    <3>3. QED
      BY <1>n, <2>3, <3>1, <3>2, Zenon
  <2>6. QED
    BY <2>3, <2>4, <2>5, Zenon
<1>14. CASE ImportReply \/ PollReturns \/ ReadFails \/ ClearThenScan \/ ScanNotDue
            \/ ScanIso \/ ScanEnds \/ Detached
  <2>1. at' \in Resting /\ at' # "importing"
        /\ UNCHANGED <<pending_urbs, replies, submitted>>
    BY <1>14, Zenon
       DEF ImportReply, PollReturns, ReadFails, ClearThenScan, ScanNotDue,
           ScanIso, ScanEnds, Detached, Scanning
  <2>2. QED
    BY <1>2, <2>1, Zenon
<1>15. CASE ControlAnswer \/ ControlFetch
  <2>1. /\ at \notin Resting /\ at' # "importing"
        /\ UNCHANGED <<cmd, pending_urbs, replies, submitted>>
    BY <1>15, Zenon DEF ControlAnswer, ControlFetch
  <2>2. QED
    BY <1>n, <1>q, <1>r, <2>1, Zenon DEF NumbersInv
<1>16. CASE IsoPacket \/ Tick \/ HostDisconnects
  BY <1>1, <1>16, Zenon DEF IsoPacket, Tick, HostDisconnects
<1>17. CASE InvalidCommand
  BY <1>2, <1>17, Zenon DEF InvalidCommand
<1>18. CASE UNCHANGED protocolVars \/ UNCHANGED allVars
  BY <1>1, <1>18, Zenon DEF protocolVars, allVars
<1>19. CASE ProtocolStep
  BY <1>4, <1>10, <1>11, <1>13, <1>14, <1>15, <1>16, <1>19, Zenon
     DEF ProtocolStep
<1>20. QED
  BY <1>3, <1>6, <1>7, <1>8, <1>9, <1>12, <1>16, <1>17, <1>18, <1>19, Zenon
     DEF ProtocolNext, HostStep, Submit

(* Every step moves a transfer from one place to the next. *)
LEMMA AnswerStep ==
    ASSUME DeviceTypeOK, ShapeInv, NumbersInv, AnswerInv, [ProtocolNext]_allVars
    PROVE  AnswerInv'
<1> USE DEF queueVars, sessionVars, worldVars, historyVars
<1>t. /\ ProtocolTypeOK /\ QueueInv /\ pending_urbs \in Seq(Urb)
      /\ replies \in Seq(Reply) /\ seqnum \in Nat
      /\ submitted \subseteq 1 .. seqnum /\ NoCmd.seqnum = 0
  BY Zenon DEF ShapeInv, ProtocolTypeOK, Reply, NoCmd
<1>z. \A number \in submitted : number \in Nat /\ number # 0 /\ number # seqnum + 1
  BY <1>t
<1>p. at \in Resting => cmd.seqnum = 0
  BY <1>t, Zenon DEF ShapeInv, CmdInv
<1>s. at \notin {"clear", "scan", "command", "importing", "detaching"} => Serving
  BY Zenon DEF ShapeInv, PlaceInv, Serving
<1>w. ASSUME NEW u, NEW k, NEW d, Write(u, k, d), Serving'
      PROVE  replies' = Append(replies, [urb |-> u, kind |-> k, data |-> d])
  BY <1>w, Zenon DEF Write, Serving
<1>m. UNCHANGED pending_urbs => \A m : Matching(m)' = Matching(m)
  BY Zenon DEF Matching
<1>a. UNCHANGED replies => \A m : Answers(m)' = Answers(m)
  BY Zenon DEF Answers
<1>n. ASSUME NEW m, m = seqnum + 1
      PROVE  Matching(m) = {} /\ Answers(m) = {}
  <2>1. m \notin submitted
    BY <1>n, <1>z, Zenon
  <2>2. QED
    BY <2>1, Zenon DEF NumbersInv, Matching, Answers
<1>1. ASSUME Serving' => Serving,
             UNCHANGED <<cmd, pending_urbs, replies, submitted>>
      PROVE  AnswerInv'
  <2> SUFFICES ASSUME Serving', NEW number \in submitted PROVE InOnePlace(number)'
    BY <1>1, Zenon DEF AnswerInv
  <2>1. InOnePlace(number)
    BY <1>1, Zenon DEF AnswerInv
  <2>2. Matching(number)' = Matching(number) /\ Answers(number)' = Answers(number)
    BY <1>1, <1>m, <1>a, Zenon
  <2>3. QED
    BY <1>1, <2>1, <2>2, Zenon DEF InOnePlace
(* A transfer that begins to be handled. *)
<1>2. ASSUME NextCommand, submitted' = submitted \cup {seqnum'},
             cmd'.seqnum = seqnum + 1, UNCHANGED <<pending_urbs, replies>>
      PROVE  AnswerInv'
  <2>1. PICK m : m = seqnum + 1
    BY Zenon
  <2>2. /\ at = "poll" /\ seqnum' = m /\ Serving /\ cmd.seqnum = 0
        /\ submitted' = submitted \cup {m}
    BY <1>2, <1>p, <1>s, <2>1, Zenon DEF NextCommand, Resting
  <2> SUFFICES ASSUME NEW number \in submitted \cup {m} PROVE InOnePlace(number)'
    BY <2>2, Zenon DEF AnswerInv
  <2>3. Matching(number)' = Matching(number) /\ Answers(number)' = Answers(number)
    BY <1>2, <1>m, <1>a, Zenon
  <2>4. CASE number = m
    BY <1>2, <1>n, <2>1, <2>3, <2>4, Zenon DEF InOnePlace
  <2>5. CASE number \in submitted
    <3>1. InOnePlace(number) /\ number # 0 /\ number # m
      BY <1>z, <2>1, <2>2, <2>5, Zenon DEF AnswerInv
    <3>2. QED
      BY <1>2, <2>1, <2>2, <2>3, <3>1, Zenon DEF InOnePlace
  <2>6. QED
    BY <2>4, <2>5, Zenon
(* The transfer being handled is answered. *)
<1>3. ASSUME at \notin Resting, NEW k, k # "unknown", NEW d,
             Write(cmd.seqnum, k, d), cmd' = NoCmd,
             UNCHANGED <<pending_urbs, submitted>>
      PROVE  AnswerInv'
  <2> SUFFICES ASSUME Serving', NEW number \in submitted PROVE InOnePlace(number)'
    BY <1>3, Zenon DEF AnswerInv
  <2>1. PICK u : u = cmd.seqnum
    BY Zenon
  <2>2. replies' = Append(replies, [urb |-> u, kind |-> k, data |-> d])
    BY <1>3, <1>w, <2>1, Zenon
  <2>3. InOnePlace(number) /\ number # 0 /\ Matching(number)' = Matching(number)
    BY <1>3, <1>m, <1>s, <1>z, Zenon DEF AnswerInv, Resting
  <2>4. cmd'.seqnum # number
    BY <1>3, <1>t, <2>3, Zenon
  <2>5. CASE number = u
    <3>1. Matching(number) = {} /\ Answers(number) = {}
      BY <2>1, <2>3, <2>5, Zenon DEF InOnePlace
    <3>2. Answers(number)' = Answers(number) \cup {Len(replies) + 1}
      BY <1>3, <1>t, <2>2, <2>5, AnswersWritten, Zenon
    <3>3. Singleton(Answers(number)')
      BY <3>1, <3>2, Zenon DEF Singleton
    <3>4. QED
      BY <2>3, <2>4, <3>1, <3>3, Zenon DEF InOnePlace, Singleton
  <2>6. CASE number # u
    <3>1. Answers(number)' = Answers(number)
      BY <1>t, <2>2, <2>6, AnswersWritten, Zenon
    <3>2. QED
      BY <2>1, <2>3, <2>4, <2>6, <3>1, Zenon DEF InOnePlace, Singleton
  <2>7. QED
    BY <2>5, <2>6, Zenon
(* A pending transfer is taken from the queue and answered. *)
<1>4. ASSUME at \in Resting, Serving, NEW idx \in 1 .. Len(pending_urbs),
             pending_urbs' = remove_pending_urb(idx), NEW k, k # "unknown", NEW d,
             Write(pending_urbs[idx].seqnum, k, d), UNCHANGED <<cmd, submitted>>
      PROVE  AnswerInv'
  <2> SUFFICES ASSUME Serving', NEW number \in submitted PROVE InOnePlace(number)'
    BY <1>4, Zenon DEF AnswerInv
  <2>1. PICK u : u = pending_urbs[idx].seqnum
    BY Zenon
  <2>2. replies' = Append(replies, [urb |-> u, kind |-> k, data |-> d])
    BY <1>4, <1>w, <2>1, Zenon
  <2>3. InOnePlace(number) /\ cmd.seqnum # number /\ cmd'.seqnum # number
    BY <1>4, <1>p, <1>z, Zenon DEF AnswerInv
  <2>4. CASE number = u
    <3>1. idx \in Matching(number)
      BY <2>1, <2>4, Zenon DEF Matching
    <3>2. Answers(number) = {}
      BY <2>3, <3>1, Zenon DEF InOnePlace
    <3>3. Answers(number)' = Answers(number) \cup {Len(replies) + 1}
      BY <1>4, <1>t, <2>2, <2>4, AnswersWritten, Zenon
    <3>4. Singleton(Answers(number)')
      BY <3>2, <3>3, ZenonT(30) DEF Singleton
    <3>5. Matching(number)' = {}
      BY <1>4, <1>t, <2>1, <2>4, MatchingRemoved, Zenon
    <3>6. QED
      BY <2>3, <3>4, <3>5, Zenon DEF InOnePlace, Singleton
  <2>5. CASE number # u
    <3>1. Answers(number)' = Answers(number)
      BY <1>t, <2>2, <2>5, AnswersWritten, Zenon
    <3>2. /\ Matching(number) = {} => Matching(number)' = {}
          /\ Singleton(Matching(number)) => Singleton(Matching(number)')
      BY <1>4, <1>t, <2>1, <2>5, MatchingRemoved, Zenon
    <3>3. QED
      BY <2>3, <3>1, <3>2, Zenon DEF InOnePlace, Singleton
  <2>6. QED
    BY <2>4, <2>5, Zenon
<1>5. ASSUME NEW s \in Setup, SubmitControl(s) PROVE AnswerInv'
  BY <1>2, <1>5, Zenon DEF SubmitControl, Submitted
<1>6. ASSUME NEW ep, NEW n, SubmitOut(ep, n) PROVE AnswerInv'
  BY <1>2, <1>6, Zenon DEF SubmitOut, Submitted
<1>7. ASSUME NEW pipe, NEW count, SubmitIso(pipe, count) PROVE AnswerInv'
  BY <1>2, <1>7, Zenon DEF SubmitIso, Submitted
<1>8. ASSUME NEW ep \in InEp, NEW n \in SubmitLength, SubmitIn(ep, n)
      PROVE  AnswerInv'
  <2>1. PICK m : m = seqnum + 1
    BY Zenon
  <2>2. /\ at = "poll" /\ seqnum' = m /\ submitted' = submitted \cup {m}
        /\ UNCHANGED cmd
    BY <1>8, <2>1, Zenon DEF SubmitIn, NextCommand
  <2>3. Serving /\ cmd'.seqnum = 0 /\ cmd.seqnum = 0 /\ m # 0
    BY <1>p, <1>s, <1>t, <2>1, <2>2 DEF Resting
  <2> SUFFICES ASSUME Serving', NEW number \in submitted \cup {m}
               PROVE  InOnePlace(number)'
    BY <2>2, Zenon DEF AnswerInv
  <2>4. number \in submitted => InOnePlace(number) /\ number # 0 /\ number # m
    BY <1>z, <2>1, <2>3, Zenon DEF AnswerInv
  <2>5. number = m => Matching(number) = {} /\ Answers(number) = {}
    BY <1>n, <2>1, Zenon
  <2>6. cmd'.seqnum # number /\ cmd.seqnum # number
    BY <2>3, <2>4, Zenon
  <2>7. CASE QueueFull
    <3>1. /\ Matching(number)' = Matching(number)
          /\ replies' = Append(replies, [urb |-> m, kind |-> "done", data |-> <<>>])
      BY <1>8, <1>m, <1>w, <2>2, <2>7, ZenonT(30) DEF SubmitIn
    <3>c. "done" # "unknown"
      OBVIOUS
    <3>a. Answers(m)' = Answers(m) \cup {Len(replies) + 1}
      BY <1>t, <3>1, <3>c, AnswersWritten, Zenon
    <3>b. number # m => Answers(number)' = Answers(number)
      BY <1>t, <3>1, AnswersWritten, Zenon
    <3>2. /\ number # m => Answers(number)' = Answers(number)
          /\ number = m => Answers(number)' = Answers(number) \cup {Len(replies) + 1}
      BY <3>a, <3>b, Zenon
    <3>3. number = m => Singleton(Answers(number)')
      BY <2>5, <3>2, Zenon DEF Singleton
    <3>4. QED
      BY <2>4, <2>5, <2>6, <3>1, <3>2, <3>3, ZenonT(30) DEF InOnePlace, Singleton
  <2>8. CASE ~QueueFull
    <3>1. PICK u : u = Submitted(ep, "in", n, FALSE, 0, TRUE)
      BY Zenon
    <3>2. pending_urbs' = Append(pending_urbs, u) /\ UNCHANGED replies
      BY <1>8, <2>8, <3>1, Zenon DEF SubmitIn
    <3>3. ep \in 0 .. 15 /\ n \in Nat
      BY EndpointAssumption, ProtocolAssumption
    <3>4. u \in Urb /\ u.seqnum = m
      BY <1>t, <2>1, <3>1, <3>3 DEF Submitted, Urb
    <3>5. /\ number # m => Matching(number)' = Matching(number)
          /\ number = m => Matching(number)' =
                               Matching(number) \cup {Len(pending_urbs) + 1}
      BY <1>t, <3>2, <3>4, MatchingAppended, Zenon
    <3>6. number = m => Singleton(Matching(number)')
      BY <2>5, <3>5, Zenon DEF Singleton
    <3>7. Answers(number)' = Answers(number)
      BY <1>a, <3>2, Zenon
    <3>8. QED
      BY <2>4, <2>5, <2>6, <3>5, <3>6, <3>7, Zenon DEF InOnePlace, Singleton
  <2>9. QED
    BY <2>7, <2>8, Zenon
<1>9. CASE ControlReply \/ OutReply \/ IsoReply
  <2>1. /\ at \notin Resting /\ cmd' = NoCmd
        /\ UNCHANGED <<pending_urbs, submitted>>
        /\ \E k, d : k # "unknown" /\ Write(cmd.seqnum, k, d)
    BY <1>9, Zenon DEF ControlReply, OutReply, IsoReply, Resting
  <2>2. QED
    BY <1>3, <2>1, Zenon
<1>10. CASE ScheduleIso
  <2>1. at = "iso_submit" /\ UNCHANGED <<replies, submitted>> /\ Serving
    BY <1>10, <1>s, Zenon DEF ScheduleIso
  <2>2. CASE QueueFull
    BY <1>1, <1>10, <2>1, <2>2, Zenon DEF ScheduleIso
  <2>3. CASE ~QueueFull
    <3>1. PICK u : u = [cmd EXCEPT !.complete_us = IsoEnd(PipeOf(cmd), cmd.packets)]
      BY Zenon
    <3>2. pending_urbs' = Append(pending_urbs, u) /\ cmd' = NoCmd
      BY <1>10, <2>3, <3>1, Zenon DEF ScheduleIso
    <3>3. cmd \in Urb /\ pending_urbs' \in Seq(Urb)
      BY ProtocolTypeStep, Zenon DEF ShapeInv, ProtocolTypeOK
    <3>4. u \in Urb
      <4>1. Len(pending_urbs) + 1 \in 1 .. Len(pending_urbs')
            /\ pending_urbs'[Len(pending_urbs) + 1] = u
        BY <1>t, <3>2
      <4>2. QED
        BY <3>3, <4>1
    <3>5. u.seqnum = cmd.seqnum
      BY <3>1, <3>3, Zenon DEF Urb
    <3> SUFFICES ASSUME NEW number \in submitted PROVE InOnePlace(number)'
      BY <2>1, Zenon DEF AnswerInv
    <3>6. InOnePlace(number) /\ cmd'.seqnum # number
      BY <1>t, <1>z, <2>1, <3>2, Zenon DEF AnswerInv
    <3>7. Answers(number)' = Answers(number)
      BY <1>a, <2>1, Zenon
    <3>8. /\ number # u.seqnum => Matching(number)' = Matching(number)
          /\ number = u.seqnum => Matching(number)' =
                                      Matching(number) \cup {Len(pending_urbs) + 1}
      BY <1>t, <3>2, <3>4, MatchingAppended, Zenon
    <3>9. number = u.seqnum => Singleton(Matching(number)')
      BY <3>5, <3>6, <3>8, Zenon DEF InOnePlace, Singleton
    <3>10. QED
      BY <3>5, <3>6, <3>7, <3>8, <3>9, Zenon DEF InOnePlace, Singleton
  <2>4. QED
    BY <2>2, <2>3, Zenon
<1>11. ASSUME NEW number \in submitted, Unlink(number) PROVE AnswerInv'
  <2>1. at = "poll" /\ UNCHANGED <<cmd, submitted>> /\ Serving /\ at \in Resting
    BY <1>11, <1>s, Zenon DEF Unlink, NextCommand, Resting
  <2>2. CASE Matching(number) = {}
    <3> SUFFICES ASSUME Serving', NEW m \in submitted PROVE InOnePlace(m)'
      BY <2>1, Zenon DEF AnswerInv
    <3>1. /\ replies' = Append(replies, [urb |-> number, kind |-> "unknown",
                                         data |-> <<>>])
          /\ UNCHANGED pending_urbs
      BY <1>11, <1>w, <2>2, Zenon DEF Unlink
    <3>2. Answers(m)' = Answers(m) /\ Matching(m)' = Matching(m)
      BY <1>m, <1>t, <3>1, AnswersWritten, Zenon
    <3>3. InOnePlace(m)
      BY <2>1, Zenon DEF AnswerInv
    <3>4. QED
      BY <2>1, <3>2, <3>3, Zenon DEF InOnePlace, Singleton
  <2>3. CASE Matching(number) # {}
    <3>1. PICK k \in Matching(number) : TRUE
      BY <2>3, Zenon
    <3>2. /\ k \in 1 .. Len(pending_urbs) /\ First(Matching(number)) = k
          /\ pending_urbs[k].seqnum = number
      BY <1>t, <3>1, MatchingUnique, Zenon DEF Matching
    <3>3. /\ pending_urbs' = remove_pending_urb(k)
          /\ Write(pending_urbs[k].seqnum, "unlinked", <<>>)
      BY <1>11, <2>3, <3>2, Zenon DEF Unlink
    <3>4. QED
      BY <1>4, <2>1, <3>2, <3>3, Zenon
  <2>4. QED
    BY <2>2, <2>3, Zenon
<1>12. CASE ScanIsoReply \/ ScanFetch
  <2>1. /\ scan.idx \in 1 .. Len(pending_urbs)
        /\ at \in Resting /\ at \in {"scan", "iso_scan"}
    BY <1>12, CurrentQueued, Zenon DEF ScanIsoReply, ScanFetch, Scanning, Resting
  <2>2. Serving
    BY <1>12, <1>s, Zenon DEF ScanIsoReply, ScanFetch, Scanning, Serving
  <2>3. /\ UNCHANGED <<cmd, submitted>>
        /\ \/ /\ pending_urbs' = remove_pending_urb(scan.idx)
              /\ \E k, d : k # "unknown" /\ Write(current.seqnum, k, d)
           \/ UNCHANGED <<pending_urbs, replies>>
    BY <1>12, Zenon DEF ScanIsoReply, ScanFetch
  <2>4. CASE UNCHANGED <<pending_urbs, replies>>
    BY <1>1, <2>2, <2>3, <2>4, Zenon
  <2>5. CASE /\ pending_urbs' = remove_pending_urb(scan.idx)
             /\ \E k, d : k # "unknown" /\ Write(current.seqnum, k, d)
    BY <1>4, <2>1, <2>2, <2>3, <2>5, ZenonT(30) DEF current
  <2>6. QED
    BY <2>3, <2>4, <2>5, Zenon
<1>13. CASE ImportReply
  BY <1>13, Zenon DEF ImportReply, AnswerInv, NumbersInv
<1>14. CASE Import \/ LostConnection \/ ReadFails \/ InvalidCommand \/ Detached
  <2>1. ~Serving'
    BY <1>14, Zenon DEF Import, LostConnection, ReadFails, InvalidCommand, Detached,
                 Serving
  <2>2. QED
    BY <2>1, Zenon DEF AnswerInv
<1>15. CASE PollReturns \/ ClearThenScan \/ ScanNotDue \/ ScanIso \/ ScanEnds
            \/ ControlAnswer \/ ControlFetch
  <2>1. /\ UNCHANGED <<cmd, pending_urbs, replies, submitted, status>>
        /\ at \notin {"command", "importing", "detaching"}
    BY <1>15, Zenon DEF PollReturns, ClearThenScan, ScanNotDue, ScanIso, ScanEnds,
                 ControlAnswer, ControlFetch, Scanning
  <2>2. Serving' => Serving
    BY <2>1, Zenon DEF Serving
  <2>3. QED
    BY <1>1, <2>1, <2>2, Zenon
<1>16. ASSUME UNCHANGED <<at, status, cmd, pending_urbs, replies, submitted>>
       PROVE  AnswerInv'
  BY <1>1, <1>16, Zenon DEF Serving
<1>17. CASE IsoPacket \/ Tick \/ HostDisconnects
  BY <1>16, <1>17, Zenon DEF IsoPacket, Tick, HostDisconnects
<1>18. CASE UNCHANGED protocolVars \/ UNCHANGED allVars
  BY <1>16, <1>18, Zenon DEF protocolVars, allVars
<1>19. CASE ProtocolStep
  BY <1>9, <1>10, <1>12, <1>13, <1>14, <1>15, <1>17, <1>19, Zenon
     DEF ProtocolStep
<1>20. QED
  BY <1>5, <1>6, <1>7, <1>8, <1>11, <1>14, <1>17, <1>18, <1>19, ZenonT(30)
     DEF ProtocolNext, HostStep, Submit

(* The two hold of every state. *)
LEMMA AnswerInvariant == ProtocolSpec => [](NumbersInv /\ AnswerInv)
<1>1. ProtocolInit => NumbersInv /\ AnswerInv
  BY DEF ProtocolInit, NumbersInv, AnswerInv, Serving, Resting
<1>2. /\ DeviceTypeOK /\ ShapeInv /\ NumbersInv /\ AnswerInv
      /\ [ProtocolNext]_allVars
      => NumbersInv' /\ AnswerInv'
  BY NumbersStep, AnswerStep, Zenon
<1>3. QED
  BY <1>1, <1>2, ShapeInvariant, PTL DEF ProtocolSpec

(* While a host is served every transfer it submitted is exactly one of    *)
(* being handled, pending, or answered: process_submit, process_unlink and *)
(* complete_pending_urbs together drop none and answer none twice, however *)
(* many are submitted, cancelled and completed, the queue full or not.     *)
THEOREM EachAnsweredOnce == ProtocolSpec => []ExactlyOneAnswer
<1>1. AnswerInv => ExactlyOneAnswer
  <2> SUFFICES ASSUME AnswerInv, Serving, NEW number \in submitted
               PROVE  Singleton(Places(number))
    BY Zenon DEF ExactlyOneAnswer, Singleton
  <2>1. InOnePlace(number)
    BY Zenon DEF AnswerInv
  <2>2. CASE /\ cmd.seqnum = number
             /\ Matching(number) = {} /\ Answers(number) = {}
    <3>1. Places(number) = {<<"cmd", 0>>}
      BY <2>2, Zenon DEF Places
    <3>2. QED
      BY <3>1, Zenon DEF Singleton
  <2>3. ASSUME cmd.seqnum # number, NEW i, Matching(number) = {i},
               Answers(number) = {}
        PROVE  Singleton(Places(number))
    <3>1. Places(number) = {<<"pending_urbs", i>>}
      BY <2>3, Zenon DEF Places
    <3>2. QED
      BY <3>1, Zenon DEF Singleton
  <2>4. ASSUME cmd.seqnum # number, Matching(number) = {},
               NEW i, Answers(number) = {i}
        PROVE  Singleton(Places(number))
    <3>1. Places(number) = {<<"replies", i>>}
      BY <2>4, Zenon DEF Places
    <3>2. QED
      BY <3>1, Zenon DEF Singleton
  <2>5. QED
    BY <2>1, <2>2, <2>3, <2>4, Zenon DEF InOnePlace, Singleton
<1>2. QED
  BY <1>1, AnswerInvariant, PTL

(* A host that is told there was nothing to cancel has been sent the       *)
(* completion of that transfer before: process_unlink finds every transfer *)
(* that is not answered, because none is being handled while it runs.      *)
THEOREM UnlinkedWereAnswered == ProtocolSpec => []NothingToUnlinkMeansAnswered
<1>1. ProtocolInit => NothingToUnlinkMeansAnswered
  BY DEF ProtocolInit, NothingToUnlinkMeansAnswered
<1>2. ASSUME ShapeInv, NumbersInv, AnswerInv, NothingToUnlinkMeansAnswered,
             [ProtocolNext]_allVars
      PROVE  NothingToUnlinkMeansAnswered'
  <2> USE DEF queueVars, sessionVars, worldVars, historyVars
  <2>t. replies \in Seq(Reply) /\ Len(replies) \in Nat
    BY <1>2 DEF ShapeInv, ProtocolTypeOK, Reply
  <2>1. UNCHANGED replies => NothingToUnlinkMeansAnswered'
    BY <1>2, Zenon DEF NothingToUnlinkMeansAnswered, Answers
  <2>2. replies' = <<>> => NothingToUnlinkMeansAnswered'
    BY DEF NothingToUnlinkMeansAnswered
  (* A reply appended. *)
  <2>3. ASSUME NEW u, NEW k, NEW d,
               replies' = Append(replies, [urb |-> u, kind |-> k, data |-> d]),
               k = "unknown" => Answers(u) # {}
        PROVE  NothingToUnlinkMeansAnswered'
    <3> DEFINE n == Len(replies)
               r == [urb |-> u, kind |-> k, data |-> d]
    <3>1. /\ Len(replies') = n + 1 /\ replies'[n + 1] = r
          /\ \A i \in 1 .. n : replies'[i] = replies[i]
      BY <2>t, <2>3
    <3>2. r.urb = u /\ r.kind = k
      BY Zenon
    <3> HIDE DEF r
    <3>3. \A m : Answers(m) \subseteq Answers(m)' /\ Answers(m) \subseteq 1 .. n
      BY <2>t, <3>1 DEF Answers
    <3> SUFFICES ASSUME NEW i \in 1 .. n + 1, replies'[i].kind = "unknown"
                 PROVE  \E j \in 1 .. i - 1 : j \in Answers(replies[i].urb)'
      BY <3>1, Zenon DEF NothingToUnlinkMeansAnswered
    <3>4. PICK m : m = replies'[i].urb
      BY Zenon
    <3>5. CASE i \in 1 .. n
      <4>1. \E j \in 1 .. i - 1 : j \in Answers(m)
        BY <1>2, <3>1, <3>4, <3>5, Zenon DEF NothingToUnlinkMeansAnswered
      <4>2. \E j \in 1 .. i - 1 : j \in Answers(m)'
        BY <3>3, <4>1, Zenon
      <4>3. QED
        BY <3>4, <4>2, Zenon DEF Answers
    <3>6. CASE i = n + 1
      <4>1. m = u /\ k = "unknown"
        BY <3>1, <3>2, <3>4, <3>6, Zenon
      <4>2. PICK j : j \in Answers(m)
        BY <2>3, <4>1, Zenon
      <4>3. j \in Answers(m)' /\ j \in 1 .. n
        BY <3>3, <4>2, Zenon
      <4>4. j \in 1 .. i - 1
        BY <2>t, <3>6, <4>3
      <4>5. QED
        BY <3>4, <4>3, <4>4, Zenon DEF Answers
    <3>7. QED
      BY <2>t, <3>5, <3>6
  <2>4. ASSUME NEW u, NEW k, NEW d, Write(u, k, d),
               k = "unknown" => Answers(u) # {}
        PROVE  NothingToUnlinkMeansAnswered'
    BY <2>1, <2>3, <2>4, Zenon DEF Write
  <2>5. ASSUME NEW number \in submitted, Unlink(number)
        PROVE  NothingToUnlinkMeansAnswered'
    <3>1. CASE Matching(number) = {}
      <4>1. at = "poll" /\ Write(number, "unknown", <<>>)
        BY <2>5, <3>1, Zenon DEF Unlink, NextCommand
      <4>2. cmd.seqnum = 0 /\ Serving
        BY <1>2, <4>1 DEF ShapeInv, CmdInv, PlaceInv, Resting, Serving, NoCmd
      <4>3. number # 0 /\ InOnePlace(number)
        BY <1>2, <4>2 DEF ShapeInv, ProtocolTypeOK, AnswerInv
      <4>4. Answers(number) # {}
        BY <3>1, <4>2, <4>3, Zenon DEF InOnePlace, Singleton
      <4>5. QED
        BY <2>4, <4>1, <4>4, Zenon
    <3>2. CASE Matching(number) # {}
      BY <2>4, <2>5, <3>2, Zenon DEF Unlink
    <3>3. QED
      BY <3>1, <3>2, Zenon
  <2>6. CASE ControlReply \/ OutReply \/ IsoReply \/ ScanIsoReply
    BY <2>4, <2>6, Zenon DEF ControlReply, OutReply, IsoReply, ScanIsoReply
  <2>7. CASE ScanFetch
    BY <2>1, <2>4, <2>7, SMTT(30) DEF ScanFetch
  <2>8. ASSUME NEW ep, NEW n, SubmitIn(ep, n) PROVE NothingToUnlinkMeansAnswered'
    BY <2>1, <2>4, <2>8, Zenon DEF SubmitIn
  <2>9. CASE ProtocolStep
    BY <2>1, <2>6, <2>7, <2>9, Zenon
       DEF ProtocolStep, ImportReply, PollReturns, ReadFails, ControlAnswer,
           ControlFetch, IsoPacket, ScheduleIso, ClearThenScan, ScanNotDue,
           ScanIso, ScanEnds, LostConnection, Detached
  <2>10. CASE Import
    BY <2>2, <2>10, Zenon DEF Import
  <2>11. CASE HostStep
    BY <2>1, <2>5, <2>8, <2>10, <2>11, Zenon
       DEF HostStep, Submit, InvalidCommand, SubmitControl, SubmitOut,
           SubmitIso, HostDisconnects
  <2>12. QED
    BY <1>2, <2>1, <2>9, <2>11, Zenon DEF ProtocolNext, Tick, protocolVars, allVars
<1>3. QED
  BY <1>1, <1>2, AnswerInvariant, ShapeInvariant, PTL DEF ProtocolSpec

=============================================================================
