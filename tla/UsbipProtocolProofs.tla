------------------------ MODULE UsbipProtocolProofs ------------------------
(***************************************************************************)
(* Proofs about UsbipProtocol, for any endpoints, any limit of the queue,  *)
(* any intervals and any bounds: that it uses the device as UsbipDevice    *)
(* lets a server use it, so that what is proved of the device holds of the *)
(* whole, and the shape of its state that the other proofs rest on.        *)
(***************************************************************************)
EXTENDS UsbipProtocol, UsbipDeviceProofs

Reply == [urb : Nat, kind : Kind, data : Seq(Byte)]

-----------------------------------------------------------------------------
(* Facts about pipes, replies and the queue. *)

(* An IN pipe is an IN endpoint. *)
LEMMA InPipe ==
    ASSUME NEW ep
    PROVE  <<"in", ep>> \in Pipe <=> ep \in InEp
BY Zenon DEF Pipe

(* An OUT pipe is an OUT endpoint. *)
LEMMA OutPipe ==
    ASSUME NEW ep
    PROVE  <<"out", ep>> \in Pipe <=> ep \in OutEp
BY Zenon DEF Pipe

(* A pipe is a direction and an endpoint. *)
LEMMA PipeParts ==
    ASSUME NEW pipe \in Pipe
    PROVE  /\ pipe = <<pipe[1], pipe[2]>>
           /\ pipe[1] \in {"in", "out"}
           /\ pipe[2] \in 0 .. 15
<1>1. CASE pipe \in {"in"} \X InEp
  <2>1. PICK ep \in InEp : pipe = <<"in", ep>>
    BY <1>1
  <2>2. ep \in 0 .. 15
    BY EndpointAssumption
  <2>3. QED
    BY <2>1, <2>2, Zenon
<1>2. CASE pipe \in {"out"} \X OutEp
  <2>1. PICK ep \in OutEp : pipe = <<"out", ep>>
    BY <1>2
  <2>2. ep \in 0 .. 15
    BY PipeAssumption
  <2>3. QED
    BY <2>1, <2>2, Zenon
<1>3. QED
  BY <1>1, <1>2, Zenon DEF Pipe

(* What is written is a reply, and at most one. *)
LEMMA WriteType ==
    ASSUME replies \in Seq(Reply), NEW u \in Nat, NEW k \in Kind,
           NEW d \in Seq(Byte), Write(u, k, d)
    PROVE  replies' \in Seq(Reply) /\ status' \in BOOLEAN
<1>1. [urb |-> u, kind |-> k, data |-> d] \in Reply
  BY Zenon DEF Reply
<1>2. replies' \in Seq(Reply)
  BY <1>1 DEF Write
<1>3. status' \in BOOLEAN
  BY Zenon DEF Write
<1>4. QED
  BY <1>2, <1>3, Zenon

(* Removing a transfer moves the ones after it up by one. *)
LEMMA Removed ==
    ASSUME pending_urbs \in Seq(Urb), NEW idx \in 1 .. Len(pending_urbs)
    PROVE  /\ remove_pending_urb(idx) \in Seq(Urb)
           /\ Len(remove_pending_urb(idx)) = Len(pending_urbs) - 1
           /\ \A i \in 1 .. Len(pending_urbs) - 1 :
                  remove_pending_urb(idx)[i] =
                      IF i < idx THEN pending_urbs[i] ELSE pending_urbs[i + 1]
<1> DEFINE n == Len(pending_urbs) - 1
           e(i) == IF i < idx THEN pending_urbs[i] ELSE pending_urbs[i + 1]
<1>1. n \in Nat
  OBVIOUS
<1>2. \A i \in 1 .. n : e(i) \in Urb
  OBVIOUS
<1> HIDE DEF e, n
<1>3. [i \in 1 .. n |-> e(i)] \in Seq(Urb) /\ Len([i \in 1 .. n |-> e(i)]) = n
  BY <1>1, <1>2
<1>4. remove_pending_urb(idx) = [i \in 1 .. n |-> e(i)]
  BY Zenon DEF remove_pending_urb, e, n
<1>5. QED
  BY <1>3, <1>4, Zenon DEF e, n

(* The transfers before the one removed stay where they are. *)
LEMMA RemovedBefore ==
    ASSUME pending_urbs \in Seq(Urb), NEW idx \in 1 .. Len(pending_urbs),
           pending_urbs' = remove_pending_urb(idx)
    PROVE  \A i \in 1 .. Len(pending_urbs') :
               /\ i \in 1 .. Len(pending_urbs)
               /\ i < idx => pending_urbs'[i] = pending_urbs[i]
<1>1. /\ Len(pending_urbs') = Len(pending_urbs) - 1
      /\ \A i \in 1 .. Len(pending_urbs) - 1 :
             i < idx => pending_urbs'[i] = pending_urbs[i]
  BY Removed, Zenon
<1>2. QED
  BY <1>1

-----------------------------------------------------------------------------
(* The shape of the protocol's state: what the place of the server thread  *)
(* says of the rest, and that the queue is in the order of submission.     *)

UrbInv(urb) ==
    /\ PipeOf(urb) \in Pipe
    /\ ~urb.isochronous => urb.dir = "in" /\ urb.length \in FetchLength

QueueInv ==
    /\ \A i \in 1 .. Len(pending_urbs) :
           UrbInv(pending_urbs[i]) /\ pending_urbs[i].seqnum <= seqnum
    /\ \A i, j \in 1 .. Len(pending_urbs) :
           i < j => pending_urbs[i].seqnum < pending_urbs[j].seqnum

InControl == {"control", "control_answer", "control_reply"}
InIso == {"iso_submit", "iso_reply"}
Resting == {"command", "importing", "poll", "clear", "scan", "iso_scan",
            "detaching"}

CmdInv ==
    /\ at \in InIso =>
           /\ cmd.isochronous
           /\ PipeOf(cmd) \in Pipe
           /\ cmd.seqnum <= seqnum
           /\ \A i \in 1 .. Len(pending_urbs) :
                  pending_urbs[i].seqnum < cmd.seqnum
    /\ at \in InControl => cmd.length \in FetchLength
    /\ at \in Resting => cmd = NoCmd

PlaceInv ==
    /\ at \notin {"clear", "scan"} => status
    /\ at = "iso_scan" => scan.idx <= Len(pending_urbs) /\ current.isochronous
    /\ at \notin {"command", "detaching"} => reset_generation < MaxResets
    /\ requests <= seqnum
    /\ server = "reset" => at \in {"importing", "detaching"}

ShapeInv == ProtocolTypeOK /\ QueueInv /\ CmdInv /\ PlaceInv

(* A queue in the order of submission has at most one transfer of a number. *)
LEMMA MatchingUnique ==
    ASSUME pending_urbs \in Seq(Urb), QueueInv, NEW number,
           NEW k \in Matching(number)
    PROVE  /\ k \in 1 .. Len(pending_urbs)
           /\ Matching(number) = {k}
           /\ First(Matching(number)) = k
<1>1. k \in 1 .. Len(pending_urbs) /\ pending_urbs[k].seqnum = number
  BY Zenon DEF Matching
<1>2. ASSUME NEW j \in Matching(number) PROVE j = k
  <2>1. j \in 1 .. Len(pending_urbs) /\ pending_urbs[j].seqnum = number
    BY <1>2, Zenon DEF Matching
  <2>2. pending_urbs[k] \in Urb
    BY <1>1
  <2>a. number \in Nat
    BY <1>1, <2>2, Zenon DEF Urb
  <2>3. QED
    BY <1>1, <2>1, <2>a DEF QueueInv
<1>3. Matching(number) = {k}
  BY <1>2, Zenon
<1>4. First({k}) = k
  BY <1>1 DEF First
<1>5. QED
  BY <1>1, <1>3, <1>4, Zenon

(* The protocol starts in shape. *)
LEMMA ShapeInit == ProtocolInit => ShapeInv
<1> SUFFICES ASSUME ProtocolInit PROVE ShapeInv
  BY Zenon
<1>1. NoCmd \in Urb /\ NoTimes \in [Pipe -> Nat]
  BY DEF NoCmd, Urb, NoTimes
<1>2. ProtocolTypeOK
  <2>1. /\ device_imported \in BOOLEAN /\ status \in BOOLEAN
        /\ connected \in BOOLEAN
    BY Zenon DEF ProtocolInit
  <2>2. QED
    BY <1>1, <2>1, ProtocolAssumption DEF ProtocolInit, ProtocolTypeOK
<1>3. QueueInv /\ CmdInv
  BY DEF ProtocolInit, QueueInv, CmdInv, InIso, InControl, Resting
<1>4. PlaceInv
  BY DEF ProtocolInit, DeviceInit, PlaceInv
<1>5. QED
  BY <1>2, <1>3, <1>4, Zenon DEF ShapeInv

(* A transfer of the queue is one. *)
LEMMA QueuedUrb ==
    ASSUME ProtocolTypeOK, NEW i \in 1 .. Len(pending_urbs)
    PROVE  /\ pending_urbs[i] \in Urb
           /\ pending_urbs[i].seqnum \in Nat
           /\ pending_urbs[i].complete_us \in Nat
           /\ pending_urbs[i].packets \in Nat
           /\ pending_urbs[i].length \in Nat
<1>1. pending_urbs[i] \in Urb
  BY DEF ProtocolTypeOK
<1>2. QED
  BY <1>1, Zenon DEF Urb

(* A queue that does not change stays in the order of submission. *)
LEMMA SameQueue ==
    ASSUME ProtocolTypeOK, QueueInv, pending_urbs' = pending_urbs,
           seqnum' \in Nat, seqnum <= seqnum'
    PROVE  QueueInv'
<1>1. \A i \in 1 .. Len(pending_urbs) : pending_urbs[i].seqnum \in Nat
  BY QueuedUrb, Zenon
<1>2. QED
  BY <1>1 DEF QueueInv, ProtocolTypeOK, UrbInv, PipeOf

(* An empty queue is in order. *)
LEMMA EmptyQueue ==
    ASSUME pending_urbs' = <<>>
    PROVE  /\ QueueInv'
           /\ pending_urbs' \in Seq(Urb)
           /\ Len(pending_urbs') <= MAX_PENDING_URBS
BY ProtocolAssumption DEF QueueInv

(* One more transfer fits if the queue is not full. *)
LEMMA AppendFits ==
    ASSUME pending_urbs \in Seq(Urb), Len(pending_urbs) <= MAX_PENDING_URBS,
           ~QueueFull, NEW u \in Urb, pending_urbs' = Append(pending_urbs, u)
    PROVE  /\ pending_urbs' \in Seq(Urb)
           /\ Len(pending_urbs') <= MAX_PENDING_URBS
BY ProtocolAssumption DEF QueueFull

(* A younger transfer goes to the end, if there is room. *)
LEMMA AppendQueue ==
    ASSUME ProtocolTypeOK, QueueInv, ~QueueFull, NEW u \in Urb, UrbInv(u),
           pending_urbs' = Append(pending_urbs, u),
           \A i \in 1 .. Len(pending_urbs) : pending_urbs[i].seqnum < u.seqnum,
           seqnum' \in Nat, u.seqnum <= seqnum'
    PROVE  /\ QueueInv'
           /\ pending_urbs' \in Seq(Urb)
           /\ Len(pending_urbs') <= MAX_PENDING_URBS
<1> DEFINE n == Len(pending_urbs)
<1>0. n \in Nat /\ n <= MAX_PENDING_URBS /\ n # MAX_PENDING_URBS
      /\ pending_urbs \in Seq(Urb)
  BY DEF ProtocolTypeOK, QueueFull
<1>1. /\ Len(pending_urbs') = n + 1
      /\ \A i \in 1 .. n : pending_urbs'[i] = pending_urbs[i]
      /\ pending_urbs'[n + 1] = u
      /\ pending_urbs' \in Seq(Urb)
  BY <1>0
<1>2. n + 1 <= MAX_PENDING_URBS
  BY <1>0, ProtocolAssumption
<1>3. \A i \in 1 .. n : pending_urbs[i].seqnum \in Nat
  BY QueuedUrb, Zenon
<1>4. u.seqnum \in Nat
  BY Zenon DEF Urb
<1>5. ASSUME NEW i \in 1 .. n + 1
      PROVE  UrbInv(pending_urbs'[i]) /\ pending_urbs'[i].seqnum <= seqnum'
  <2>1. CASE i = n + 1
    BY <1>1, <2>1, Zenon
  <2>2. CASE i # n + 1
    <3>1. i \in 1 .. n
      BY <1>0, <2>2
    <3>2. QED
      BY <1>1, <1>3, <1>4, <3>1 DEF QueueInv
  <2>3. QED
    BY <2>1, <2>2, Zenon
<1>6. ASSUME NEW i \in 1 .. n + 1, NEW j \in 1 .. n + 1, i < j
      PROVE  pending_urbs'[i].seqnum < pending_urbs'[j].seqnum
  <2>1. i \in 1 .. n
    BY <1>0, <1>6
  <2>2. CASE j = n + 1
    BY <1>1, <2>1, <2>2, Zenon
  <2>3. CASE j # n + 1
    <3>1. j \in 1 .. n
      BY <1>0, <2>3
    <3>2. QED
      BY <1>1, <1>6, <2>1, <3>1, Zenon DEF QueueInv
  <2>4. QED
    BY <2>2, <2>3, Zenon
<1> HIDE DEF n
<1>7. (\A i \in 1 .. n + 1 :
          UrbInv(pending_urbs'[i]) /\ pending_urbs'[i].seqnum <= seqnum')
      => \A i \in 1 .. Len(pending_urbs') :
            UrbInv(pending_urbs[i])' /\ pending_urbs'[i].seqnum <= seqnum'
  BY <1>1, Zenon DEF UrbInv, PipeOf
<1>8. QED
  BY <1>1, <1>2, <1>5, <1>6, <1>7, Zenon DEF QueueInv

(* Removing a transfer leaves the others in order. *)
LEMMA RemoveQueue ==
    ASSUME ProtocolTypeOK, QueueInv, NEW idx \in 1 .. Len(pending_urbs),
           pending_urbs' = remove_pending_urb(idx),
           seqnum' \in Nat, seqnum <= seqnum'
    PROVE  /\ QueueInv'
           /\ pending_urbs' \in Seq(Urb)
           /\ Len(pending_urbs') <= MAX_PENDING_URBS
<1> DEFINE n == Len(pending_urbs)
           k(i) == IF i < idx THEN i ELSE i + 1
<1>0. n \in Nat /\ n <= MAX_PENDING_URBS /\ idx \in 1 .. n
      /\ pending_urbs \in Seq(Urb)
  BY DEF ProtocolTypeOK
<1>1. /\ Len(pending_urbs') = n - 1
      /\ \A i \in 1 .. n - 1 : pending_urbs'[i] = pending_urbs[k(i)]
      /\ pending_urbs' \in Seq(Urb)
  BY <1>0, Removed, Zenon
<1>2. n - 1 <= MAX_PENDING_URBS
  BY <1>0, ProtocolAssumption
<1>3. \A i \in 1 .. n : pending_urbs[i].seqnum \in Nat
  BY QueuedUrb, Zenon
<1>4. /\ \A i \in 1 .. n - 1 : k(i) \in 1 .. n
      /\ \A i, j \in 1 .. n - 1 : i < j => k(i) < k(j)
  BY <1>0
<1> HIDE DEF k
<1>5. \A i \in 1 .. n - 1 :
          /\ UrbInv(pending_urbs'[i])
          /\ pending_urbs'[i].seqnum <= seqnum
          /\ pending_urbs'[i].seqnum \in Nat
  BY <1>1, <1>3, <1>4, Zenon DEF QueueInv
<1>6. \A i, j \in 1 .. n - 1 :
          i < j => pending_urbs'[i].seqnum < pending_urbs'[j].seqnum
  BY <1>1, <1>4, Zenon DEF QueueInv
<1>7. seqnum \in Nat
  BY Zenon DEF ProtocolTypeOK
<1> HIDE DEF n
<1>8. \A i \in 1 .. Len(pending_urbs') :
          UrbInv(pending_urbs[i])' /\ pending_urbs'[i].seqnum <= seqnum'
  BY <1>1, <1>5, <1>7 DEF UrbInv, PipeOf
<1>9. QED
  BY <1>1, <1>2, <1>6, <1>8, Zenon DEF QueueInv

(* A transfer of the queue names a pipe, and its due time is a time. *)
LEMMA DueType ==
    ASSUME ShapeInv, NEW i \in 1 .. Len(pending_urbs)
    PROVE  /\ PipeOf(pending_urbs[i]) \in Pipe
           /\ due_us(pending_urbs[i]) \in Nat
           /\ ~pending_urbs[i].isochronous =>
                  pending_urbs[i].ep \in InEp /\ pending_urbs[i].length \in FetchLength
<1>1. UrbInv(pending_urbs[i]) /\ pending_urbs[i].complete_us \in Nat
  BY QueuedUrb, Zenon DEF ShapeInv, QueueInv
<1>2. ~pending_urbs[i].isochronous =>
          pending_urbs[i].ep \in InEp /\ pending_urbs[i].length \in FetchLength
  BY <1>1, InPipe, Zenon DEF UrbInv, PipeOf
<1>3. ~pending_urbs[i].isochronous =>
          next_poll_us[<<"in", pending_urbs[i].ep>>] \in Nat
  BY <1>2, InPipe, Zenon DEF ShapeInv, ProtocolTypeOK
<1>4. QED
  BY <1>1, <1>2, <1>3, Zenon DEF due_us, UrbInv

(* Steps of the device itself leave the protocol alone, and neither reset   *)
(* the device nor begin a request.                                          *)
LEMMA DeviceSteps ==
    ASSUME ServerStep \/ \E t \in Thread : ThreadStep(t)
    PROVE  /\ UNCHANGED <<reset_generation, requests, reply>>
           /\ server' = "reset" => server = "reset"
<1> USE DEF bufferVars, controlVars, lockVars, processVars, resetVars
<1>1. ASSUME NEW t \in Thread, ThreadStep(t)
      PROVE  UNCHANGED <<reset_generation, requests, reply, server>>
  BY <1>1, ZenonT(30)
     DEF ThreadStep, ThreadTransmit, Transmit, TransmitLocked, WakeUp,
         SpuriousWakeUp, SignalEvent, critical_section_enter,
         critical_section_exit
<1>2. CASE ServerStep
  BY <1>2, Zenon
     DEF ServerStep, ResetClearEvent, EnterCallback, CallbackTransmit,
         SignalEvent, ReturnCallback, LibraryAnswer, Transmit, TransmitLocked
<1>3. QED
  BY <1>1, <1>2, Zenon

(* Every step of the protocol keeps the types and the limit of the queue. *)
LEMMA ProtocolTypeStep ==
    ASSUME DeviceTypeOK, ShapeInv, [ProtocolNext]_allVars
    PROVE  ProtocolTypeOK'
<1> USE DEF queueVars, sessionVars, worldVars, historyVars
<1>t. ProtocolTypeOK
  BY Zenon DEF ShapeInv
<1>n. NoCmd \in Urb /\ NoTimes \in [Pipe -> Nat] /\ <<>> \in Seq(Byte)
      /\ <<>> \in Seq(Reply)
  BY DEF NoCmd, Urb, NoTimes
<1>r. replies \in Seq(Reply) /\ cmd.seqnum \in Nat /\ reply.data \in Seq(Byte)
  BY <1>t, Zenon DEF ProtocolTypeOK, Reply, Urb, DeviceTypeOK, Buffer
<1>q. pending_urbs \in Seq(Urb) /\ Len(pending_urbs) <= MAX_PENDING_URBS
  BY <1>t, Zenon DEF ProtocolTypeOK
<1>w. ASSUME NEW u \in Nat, NEW k \in Kind, NEW d \in Seq(Byte), Write(u, k, d)
      PROVE  replies' \in Seq(Reply) /\ status' \in BOOLEAN
  BY <1>w, <1>r, WriteType, Zenon
<1>k. {"done", "stalled", "data", "iso", "overflow", "unlinked", "unknown"}
          \subseteq Kind
  BY Zenon DEF Kind
<1>1. CASE Tick
  BY <1>1, <1>t DEF Tick, ProtocolTypeOK
<1>2. CASE HostDisconnects
  BY <1>2, <1>t, Zenon DEF HostDisconnects, ProtocolTypeOK
<1>3. CASE Import
  <2>1. /\ connected' \in BOOLEAN
    BY <1>3, Zenon DEF Import
  <2>2. session_start' \in Nat
    BY <1>3 DEF Import, DeviceTypeOK
  <2>3. pending_urbs' \in Seq(Urb) /\ Len(pending_urbs') <= MAX_PENDING_URBS
    BY <1>3, EmptyQueue, Zenon DEF Import
  <2>4. wait_timeout_us' \in 0 .. WAIT_TIMEOUT_US
    BY <1>3, ProtocolAssumption DEF Import
  <2>5. QED
    BY <1>3, <1>t, <1>n, <2>1, <2>2, <2>3, <2>4, Zenon
       DEF Import, ProtocolTypeOK, Reply
<1>4. CASE ImportReply
  <2>1. device_imported' \in BOOLEAN
    BY <1>4, Zenon DEF ImportReply
  <2>2. wake_at' \in Nat
    BY <1>4, <1>t DEF ImportReply, ProtocolTypeOK
  <2>3. QED
    BY <1>4, <1>t, <2>1, <2>2, Zenon DEF ImportReply, ProtocolTypeOK
<1>5. CASE PollReturns
  BY <1>5, <1>t, Zenon DEF PollReturns, ProtocolTypeOK
<1>6. CASE ReadFails
  BY <1>6, <1>t, Zenon DEF ReadFails, ProtocolTypeOK
<1>c. ASSUME NextCommand
      PROVE  /\ seqnum' = seqnum + 1 /\ seqnum' \in Nat
             /\ submitted \subseteq 1 .. seqnum'
             /\ submitted \cup {seqnum'} \subseteq 1 .. seqnum'
  BY <1>c, <1>t DEF NextCommand, ProtocolTypeOK
<1>7. CASE InvalidCommand
  <2>1. status' \in BOOLEAN
    BY <1>7, Zenon DEF InvalidCommand
  <2>2. QED
    BY <1>7, <1>t, <1>c, <2>1, Zenon DEF InvalidCommand, ProtocolTypeOK
<1>s. ASSUME NEW ep \in 0 .. 15, NEW dir \in {"in", "out"}, NEW n \in Nat,
             NEW iso \in BOOLEAN, NEW count \in Nat, NEW sup \in BOOLEAN
      PROVE  Submitted(ep, dir, n, iso, count, sup) \in Urb
  BY <1>t DEF Submitted, Urb, ProtocolTypeOK
<1>8. ASSUME NEW s \in Setup, SubmitControl(s) PROVE ProtocolTypeOK'
  <2>1. s.length \in Nat
    BY HostAssumption, LengthAssumption, Zenon
  <2>2. (IF s.in THEN "in" ELSE "out") \in {"in", "out"}
    BY Zenon
  <2>3. Supported(s) \in BOOLEAN
    BY Zenon DEF Supported
  <2>a. 0 \in 0 .. 15 /\ 0 \in Nat /\ FALSE \in BOOLEAN
    OBVIOUS
  <2>4. cmd' \in Urb
    BY <1>8, <1>s, <2>1, <2>2, <2>3, <2>a, Zenon DEF SubmitControl
  <2>5. QED
    BY <1>8, <1>t, <1>c, <2>4, Zenon DEF SubmitControl, ProtocolTypeOK
<1>9. CASE ControlAnswer
  BY <1>9, <1>t, Zenon DEF ControlAnswer, ProtocolTypeOK
<1>10. CASE ControlFetch
  BY <1>10, <1>t, Zenon DEF ControlFetch, ProtocolTypeOK
<1>11. CASE ControlReply
  <2>1. replies' \in Seq(Reply) /\ status' \in BOOLEAN
    BY <1>11, <1>w, <1>k, <1>r, <1>n, Zenon DEF ControlReply
  <2>2. QED
    BY <1>11, <1>t, <1>n, <2>1, Zenon DEF ControlReply, ProtocolTypeOK, Reply
<1>12. ASSUME NEW ep \in OutEp, NEW n \in SubmitLength, SubmitOut(ep, n)
       PROVE  ProtocolTypeOK'
  <2>1. ep \in 0 .. 15 /\ n \in Nat
    BY PipeAssumption, ProtocolAssumption
  <2>2. cmd' \in Urb
    BY <1>12, <1>s, <2>1, Zenon DEF SubmitOut
  <2>3. QED
    BY <1>12, <1>t, <1>c, <2>2, Zenon DEF SubmitOut, ProtocolTypeOK
<1>13. CASE OutReply
  <2>1. replies' \in Seq(Reply) /\ status' \in BOOLEAN
    BY <1>13, <1>w, <1>k, <1>r, <1>n, Zenon DEF OutReply
  <2>2. QED
    BY <1>13, <1>t, <1>n, <2>1, Zenon DEF OutReply, ProtocolTypeOK, Reply
<1>14. ASSUME NEW ep \in InEp, NEW n \in SubmitLength, SubmitIn(ep, n)
       PROVE  ProtocolTypeOK'
  <2>1. ep \in 0 .. 15 /\ n \in Nat
    BY EndpointAssumption, ProtocolAssumption
  <2>2. seqnum' \in Nat
    BY <1>14, <1>c, Zenon DEF SubmitIn
  <2>3. replies' \in Seq(Reply) /\ status' \in BOOLEAN
    BY <1>14, <1>w, <1>k, <1>r, <1>n, <1>t, <2>2, Zenon DEF SubmitIn, ProtocolTypeOK
  <2>4. pending_urbs' \in Seq(Urb) /\ Len(pending_urbs') <= MAX_PENDING_URBS
    <3>1. CASE QueueFull
      BY <1>14, <3>1, <1>t, Zenon DEF SubmitIn, ProtocolTypeOK
    <3>2. CASE ~QueueFull
      <4>1. Submitted(ep, "in", n, FALSE, 0, TRUE) \in Urb
        BY <1>s, <2>1, Zenon
      <4>2. pending_urbs' = Append(pending_urbs,
                                   Submitted(ep, "in", n, FALSE, 0, TRUE))
        BY <1>14, <3>2, Zenon DEF SubmitIn
      <4>3. QED
        BY <1>q, <3>2, <4>1, <4>2, AppendFits, Zenon
    <3>3. QED
      BY <3>1, <3>2, Zenon
  <2>5. QED
    BY <1>14, <1>t, <1>c, <2>3, <2>4, Zenon DEF SubmitIn, ProtocolTypeOK, Reply
<1>15. ASSUME NEW pipe \in Pipe, NEW count \in PacketCount,
              SubmitIso(pipe, count)
       PROVE  ProtocolTypeOK'
  <2>1. pipe[1] \in {"in", "out"} /\ pipe[2] \in 0 .. 15 /\ count \in Nat
    BY PipeParts, ProtocolAssumption, Zenon
  <2>2. cmd' \in Urb
    BY <1>15, <1>s, <2>1, Zenon DEF SubmitIso
  <2>3. packets' \in Nat
    BY <1>15, <2>1 DEF SubmitIso
  <2>4. QED
    BY <1>15, <1>t, <1>c, <2>2, <2>3, Zenon DEF SubmitIso, ProtocolTypeOK
<1>16. CASE IsoPacket
  BY <1>16, <1>t DEF IsoPacket, ProtocolTypeOK
<1>17. CASE ScheduleIso
  <2> DEFINE end == IsoEnd(PipeOf(cmd), cmd.packets)
             urb == [cmd EXCEPT !.complete_us = end]
  <2>1. PipeOf(cmd) \in Pipe /\ cmd \in Urb /\ cmd.packets \in Nat
    BY <1>17, <1>t, Zenon DEF ScheduleIso, ShapeInv, CmdInv, InIso, ProtocolTypeOK, Urb
  <2>a. /\ stream_end_us[PipeOf(cmd)] \in Nat /\ now \in Nat
        /\ Interval[PipeOf(cmd)] \in Nat
    BY <2>1, <1>t, PipeAssumption, Zenon DEF ProtocolTypeOK
  <2>b. cmd.packets * Interval[PipeOf(cmd)] \in Nat
    BY <2>1, <2>a
  <2>2. end \in Nat
    BY <2>a, <2>b DEF IsoEnd
  <2>c. stream_end_us' = [stream_end_us EXCEPT ![PipeOf(cmd)] = end]
    BY <1>17, Zenon DEF ScheduleIso
  <2> HIDE DEF end
  <2>3. urb \in Urb
    BY <2>1, <2>2, Zenon DEF Urb
  <2>4. stream_end_us' \in [Pipe -> Nat]
    BY <2>c, <2>2, <1>t, Zenon DEF ProtocolTypeOK
  <2>5. ReplyPackets(urb) \in Nat
    BY <2>3, Zenon DEF ReplyPackets, Urb
  <2>6. CASE QueueFull
    BY <1>17, <1>t, <2>4, <2>5, <2>6, Zenon DEF ScheduleIso, ProtocolTypeOK, end
  <2>7. CASE ~QueueFull
    <3>1. pending_urbs' = Append(pending_urbs, urb)
      BY <1>17, <2>7, Zenon DEF ScheduleIso, end
    <3>2. pending_urbs' \in Seq(Urb) /\ Len(pending_urbs') <= MAX_PENDING_URBS
      BY <1>q, <2>7, <3>1, <2>3, AppendFits, Zenon
    <3>3. QED
      BY <1>17, <1>t, <1>n, <2>4, <2>7, <3>2, Zenon
         DEF ScheduleIso, ProtocolTypeOK
  <2>8. QED
    BY <2>6, <2>7, Zenon
<1>18. CASE IsoReply
  <2>1. replies' \in Seq(Reply) /\ status' \in BOOLEAN
    BY <1>18, <1>w, <1>k, <1>r, <1>n, Zenon DEF IsoReply
  <2>2. QED
    BY <1>18, <1>t, <1>n, <2>1, Zenon DEF IsoReply, ProtocolTypeOK, Reply
<1>19. ASSUME NEW number \in submitted, Unlink(number) PROVE ProtocolTypeOK'
  <2>1. number \in Nat
    BY <1>t DEF ProtocolTypeOK
  <2>2. replies' \in Seq(Reply) /\ status' \in BOOLEAN
    BY <1>19, <1>w, <1>k, <1>n, <2>1, ZenonT(30) DEF Unlink
  <2>3. /\ pending_urbs' \in Seq(Urb) /\ Len(pending_urbs') <= MAX_PENDING_URBS
        /\ stream_end_us' \in [Pipe -> Nat]
    <3>1. CASE Matching(number) = {}
      BY <1>19, <1>t, <3>1, Zenon DEF Unlink, ProtocolTypeOK
    <3>2. CASE Matching(number) # {}
      <4>1. PICK k \in Matching(number) : TRUE
        BY <3>2, Zenon
      <4>2. k \in 1 .. Len(pending_urbs) /\ First(Matching(number)) = k
        BY <1>q, <4>1, MatchingUnique, Zenon DEF ShapeInv
      <4>3. /\ pending_urbs' = remove_pending_urb(k)
            /\ stream_end_us' = StreamEndAfterUnlink(pending_urbs[k], pending_urbs')
        BY <1>19, <3>2, <4>2, Zenon DEF Unlink
      <4>4. pending_urbs' \in Seq(Urb)
            /\ Len(pending_urbs') <= MAX_PENDING_URBS
        BY <1>q, <4>2, <4>3, Removed, ProtocolAssumption
      <4>5. stream_end_us' \in [Pipe -> Nat]
        BY <4>3, <1>t, Zenon DEF StreamEndAfterUnlink, ProtocolTypeOK
      <4>6. QED
        BY <4>4, <4>5, Zenon
    <3>3. QED
      BY <3>1, <3>2, Zenon
  <2>4. QED
    BY <1>19, <1>t, <1>c, <2>2, <2>3, Zenon DEF Unlink, ProtocolTypeOK, Reply
<1>20. CASE ClearThenScan
  <2>1. wait_timeout_us' \in 0 .. WAIT_TIMEOUT_US
    BY <1>20, <1>t, ProtocolAssumption DEF ClearThenScan, ProtocolTypeOK
  <2>2. QED
    BY <1>20, <1>t, <2>1 DEF ClearThenScan, ProtocolTypeOK
<1>a. ASSUME Scanning \/ at = "iso_scan"
      PROVE  /\ scan.idx \in 1 .. Len(pending_urbs)
             /\ current \in Urb /\ current.seqnum \in Nat
             /\ due_us(current) \in Nat
             /\ ReplyPackets(current) \in Nat
  <2>1. scan.idx \in 1 .. Len(pending_urbs)
    BY <1>a, <1>t DEF Scanning, ShapeInv, PlaceInv, ProtocolTypeOK
  <2>2. current.packets \in Nat /\ current \in Urb /\ current.seqnum \in Nat
    BY <1>t, <2>1, QueuedUrb, Zenon DEF current
  <2>3. QED
    BY <2>1, <2>2, DueType, Zenon DEF current, ReplyPackets
<1>x. scan \in [now : Nat, idx : Nat \ {0}]
  BY <1>t, Zenon DEF ProtocolTypeOK
<1>21. CASE ScanNotDue
  <2>1. wait_timeout_us' \in 0 .. WAIT_TIMEOUT_US
    <3>1. due_us(current) \in Nat /\ scan.now \in Nat
          /\ scan.now < due_us(current) /\ wait_timeout_us \in 0 .. WAIT_TIMEOUT_US
      BY <1>21, <1>a, <1>t, Zenon DEF ScanNotDue, ProtocolTypeOK
    <3>2. QED
      BY <1>21, <3>1, ProtocolAssumption DEF ScanNotDue, TimeoutFor, Shorter
  <2>2. scan' \in [now : Nat, idx : Nat \ {0}]
    <3>1. scan' = [scan EXCEPT !.idx = @ + 1]
      BY <1>21, Zenon DEF ScanNotDue
    <3>2. QED
      BY <1>x, <3>1
  <2>3. QED
    BY <1>21, <1>t, <2>1, <2>2, Zenon DEF ScanNotDue, ProtocolTypeOK
<1>22. CASE ScanIso
  BY <1>22, <1>t, <1>a, Zenon DEF ScanIso, ProtocolTypeOK
<1>23. CASE ScanIsoReply
  <2>1. replies' \in Seq(Reply) /\ status' \in BOOLEAN
    BY <1>23, <1>w, <1>k, <1>a, <1>n, ZenonT(30) DEF ScanIsoReply
  <2>2. pending_urbs' \in Seq(Urb) /\ Len(pending_urbs') <= MAX_PENDING_URBS
    BY <1>23, <1>q, <1>a, Removed, ProtocolAssumption DEF ScanIsoReply
  <2>3. QED
    BY <1>23, <1>t, <2>1, <2>2, Zenon DEF ScanIsoReply, ProtocolTypeOK, Reply
<1>24. CASE ScanFetch
  <2> DEFINE ep == current.ep
             pipe == <<"in", ep>>
             data == Fetched(current.ep, current.length)
  <2>1. /\ ep \in InEp /\ current.length \in Nat
    BY <1>24, <1>a, DueType, LengthAssumption, Zenon DEF ScanFetch, current
  <2>2. data \in Seq(Byte)
    BY <2>1, FetchedType, Zenon DEF Endpoint, Buffer
  <2>3. pipe \in Pipe /\ scan.now \in Nat /\ Interval[pipe] \in Nat
    BY <2>1, <1>t, InPipe, PipeAssumption, Zenon DEF ProtocolTypeOK
  <2>4. CASE data # <<>>
    <3>1. replies' \in Seq(Reply) /\ status' \in BOOLEAN
      BY <1>24, <1>w, <1>k, <1>a, <2>2, <2>4, Zenon DEF ScanFetch
    <3>2. pending_urbs' \in Seq(Urb) /\ Len(pending_urbs') <= MAX_PENDING_URBS
      BY <1>24, <1>q, <1>a, <2>4, Removed, ProtocolAssumption DEF ScanFetch
    <3>3. next_poll_us' \in [Pipe -> Nat]
      <4>1. next_poll_us' = [next_poll_us EXCEPT ![pipe] =
                                 scan.now + Interval[pipe]]
        BY <1>24, <2>4, Zenon DEF ScanFetch
      <4>2. next_poll_us \in [Pipe -> Nat]
        BY <1>t, Zenon DEF ProtocolTypeOK
      <4> HIDE DEF pipe
      <4>3. QED
        BY <2>3, <4>1, <4>2
    <3>4. QED
      BY <1>24, <1>t, <2>4, <3>1, <3>2, <3>3, Zenon
         DEF ScanFetch, ProtocolTypeOK, Reply
  <2>5. CASE data = <<>>
    <3>1. scan' \in [now : Nat, idx : Nat \ {0}]
      <4>1. scan' = [scan EXCEPT !.idx = @ + 1]
        BY <1>24, <2>5, Zenon DEF ScanFetch
      <4>2. QED
        BY <1>x, <4>1
    <3>2. QED
      BY <1>24, <1>t, <2>5, <3>1, Zenon DEF ScanFetch, ProtocolTypeOK
  <2>6. QED
    BY <2>4, <2>5, Zenon
<1>25. CASE ScanEnds
  BY <1>25, <1>t DEF ScanEnds, ProtocolTypeOK
<1>26. CASE LostConnection
  <2>1. pending_urbs' \in Seq(Urb) /\ Len(pending_urbs') <= MAX_PENDING_URBS
    BY <1>26, EmptyQueue, Zenon DEF LostConnection
  <2>2. /\ device_imported' \in BOOLEAN /\ connected' \in BOOLEAN
        /\ status' \in BOOLEAN
    BY <1>26, Zenon DEF LostConnection
  <2>3. QED
    BY <1>26, <1>t, <2>1, <2>2, Zenon DEF LostConnection, ProtocolTypeOK
<1>27. CASE Detached
  BY <1>27, <1>t, Zenon DEF Detached, ProtocolTypeOK
<1>28. CASE UNCHANGED protocolVars
  BY <1>28, <1>t, Zenon DEF protocolVars, ProtocolTypeOK
<1>29. CASE UNCHANGED allVars
  BY <1>28, <1>29, Zenon DEF allVars
<1>30. QED
  BY <1>1, <1>2, <1>3, <1>4, <1>5, <1>6, <1>7, <1>8, <1>9, <1>10, <1>11,
     <1>12, <1>13, <1>14, <1>15, <1>16, <1>17, <1>18, <1>19, <1>20, <1>21,
     <1>22, <1>23, <1>24, <1>25, <1>26, <1>27, <1>28, <1>29, Zenon
     DEF ProtocolNext, ProtocolStep, HostStep, Submit

(* The transfer being scanned is in the queue. *)
LEMMA CurrentQueued ==
    ASSUME ShapeInv, Scanning \/ at = "iso_scan"
    PROVE  scan.idx \in 1 .. Len(pending_urbs)
BY DEF ShapeInv, Scanning, PlaceInv, ProtocolTypeOK

(* Every step keeps the queue in the order of submission. *)
LEMMA QueueStep ==
    ASSUME ShapeInv, ProtocolTypeOK', [ProtocolNext]_allVars
    PROVE  QueueInv'
<1> USE DEF queueVars, sessionVars, worldVars, historyVars
<1>t. /\ ProtocolTypeOK /\ QueueInv /\ seqnum \in Nat /\ seqnum' \in Nat
      /\ pending_urbs \in Seq(Urb)
  BY Zenon DEF ShapeInv, ProtocolTypeOK
<1>c. NextCommand => seqnum' = seqnum + 1 /\ seqnum <= seqnum'
  BY <1>t DEF NextCommand
<1>1. ASSUME UNCHANGED <<pending_urbs, seqnum>> PROVE QueueInv'
  BY <1>1, <1>t, SameQueue
<1>2. ASSUME UNCHANGED pending_urbs, NextCommand PROVE QueueInv'
  BY <1>2, <1>t, <1>c, SameQueue, Zenon
<1>3. ASSUME pending_urbs' = <<>> PROVE QueueInv'
  BY <1>3, EmptyQueue, Zenon
<1>4. ASSUME NEW ep \in InEp, NEW n \in SubmitLength, SubmitIn(ep, n),
             ~QueueFull
      PROVE  QueueInv'
  <2> DEFINE u == Submitted(ep, "in", n, FALSE, 0, TRUE)
  <2>1. pending_urbs' = Append(pending_urbs, u) /\ seqnum' = seqnum + 1
    BY <1>4, <1>c, Zenon DEF SubmitIn
  <2>2. ep \in 0 .. 15 /\ n \in Nat /\ n \in FetchLength
    BY EndpointAssumption, ProtocolAssumption, HostAssumption
  <2>3. u \in Urb /\ u.seqnum = seqnum + 1
    BY <1>t, <2>2 DEF Submitted, Urb
  <2>4. UrbInv(u)
    BY <2>2, InPipe, Zenon DEF Submitted, UrbInv, PipeOf
  <2>5. \A i \in 1 .. Len(pending_urbs) : pending_urbs[i].seqnum < seqnum + 1
    BY <1>t, QueuedUrb DEF QueueInv
  <2> HIDE DEF u
  <2>6. QED
    BY <1>t, <1>4, <2>1, <2>3, <2>4, <2>5, AppendQueue
<1>5. CASE ScheduleIso
  <2>1. CASE QueueFull
    BY <1>1, <1>5, <2>1, Zenon DEF ScheduleIso
  <2>2. CASE ~QueueFull
    <3> DEFINE end == IsoEnd(PipeOf(cmd), cmd.packets)
               u == [cmd EXCEPT !.complete_us = end]
    <3>1. pending_urbs' = Append(pending_urbs, u) /\ seqnum' = seqnum
      BY <1>5, <2>2, Zenon DEF ScheduleIso
    <3>2. /\ cmd \in Urb /\ cmd.isochronous /\ PipeOf(cmd) \in Pipe
          /\ cmd.seqnum <= seqnum
          /\ \A i \in 1 .. Len(pending_urbs) :
                 pending_urbs[i].seqnum < cmd.seqnum
      BY <1>5, <1>t, Zenon DEF ScheduleIso, ShapeInv, CmdInv, InIso, ProtocolTypeOK
    <3>3. pending_urbs'[Len(pending_urbs) + 1] = u
          /\ Len(pending_urbs') = Len(pending_urbs) + 1
      BY <1>t, <3>1
    <3>4. Len(pending_urbs) + 1 \in 1 .. Len(pending_urbs')
      BY <1>t, <3>3
    <3>5. u \in Urb
      BY <3>3, <3>4 DEF ProtocolTypeOK
    <3>6. /\ u.seqnum = cmd.seqnum /\ u.isochronous = cmd.isochronous
          /\ u.dir = cmd.dir /\ u.ep = cmd.ep
      BY <3>2, Zenon DEF Urb
    <3> HIDE DEF u
    <3>7. UrbInv(u)
      BY <3>2, <3>6, Zenon DEF UrbInv, PipeOf
    <3>8. QED
      BY <1>t, <2>2, <3>1, <3>2, <3>5, <3>6, <3>7, AppendQueue, Zenon
  <2>3. QED
    BY <2>1, <2>2, Zenon
<1>6. ASSUME NEW number \in submitted, Unlink(number) PROVE QueueInv'
  <2>1. CASE Matching(number) = {}
    BY <1>2, <1>6, <2>1, Zenon DEF Unlink
  <2>2. CASE Matching(number) # {}
    <3>1. PICK k \in Matching(number) : TRUE
      BY <2>2, Zenon
    <3>2. k \in 1 .. Len(pending_urbs) /\ First(Matching(number)) = k
      BY <1>t, <3>1, MatchingUnique, Zenon
    <3>3. pending_urbs' = remove_pending_urb(k) /\ seqnum <= seqnum'
      BY <1>6, <1>c, <2>2, <3>2, Zenon DEF Unlink
    <3>4. QED
      BY <1>t, <3>2, <3>3, RemoveQueue, Zenon
  <2>3. QED
    BY <2>1, <2>2, Zenon
<1>7. CASE ScanIsoReply
  <2>1. scan.idx \in 1 .. Len(pending_urbs)
    BY <1>7, CurrentQueued, Zenon DEF ScanIsoReply
  <2>2. pending_urbs' = remove_pending_urb(scan.idx) /\ seqnum' = seqnum
    BY <1>7, Zenon DEF ScanIsoReply
  <2>3. QED
    BY <1>t, <2>1, <2>2, RemoveQueue
<1>8. CASE ScanFetch
  <2>1. scan.idx \in 1 .. Len(pending_urbs)
    BY <1>8, CurrentQueued, Zenon DEF ScanFetch
  <2>2. /\ seqnum' = seqnum
        /\ \/ pending_urbs' = remove_pending_urb(scan.idx)
           \/ pending_urbs' = pending_urbs
    BY <1>8, Zenon DEF ScanFetch
  <2>3. QED
    BY <1>1, <1>t, <2>1, <2>2, RemoveQueue
<1>9. CASE ProtocolStep
  BY <1>1, <1>3, <1>5, <1>7, <1>8, <1>9, Zenon
     DEF ProtocolStep, ImportReply, PollReturns, ReadFails, ControlAnswer,
         ControlFetch, ControlReply, OutReply, IsoPacket, IsoReply,
         ClearThenScan, ScanNotDue, ScanIso, ScanEnds, LostConnection, Detached
<1>10. CASE Submit
  BY <1>2, <1>4, <1>10, Zenon
     DEF Submit, SubmitControl, SubmitOut, SubmitIn, SubmitIso
<1>11. CASE HostStep
  BY <1>1, <1>2, <1>3, <1>6, <1>10, <1>11, Zenon
     DEF HostStep, Import, InvalidCommand, HostDisconnects
<1>12. QED
  BY <1>1, <1>9, <1>11, Zenon
     DEF ProtocolNext, Tick, protocolVars, allVars

(* Every step keeps the submit being handled what its place says. *)
LEMMA CmdStep ==
    ASSUME ShapeInv, [ProtocolNext]_allVars
    PROVE  CmdInv'
<1> USE DEF queueVars, sessionVars, worldVars, historyVars, InIso, InControl,
            Resting
<1>t. CmdInv /\ seqnum \in Nat
  BY Zenon DEF ShapeInv, ProtocolTypeOK
<1>1. ASSUME UNCHANGED <<at, cmd, pending_urbs, seqnum>> PROVE CmdInv'
  BY <1>1, <1>t, Zenon DEF CmdInv, PipeOf
<1>2. ASSUME at' \in Resting, cmd' = NoCmd PROVE CmdInv'
  BY <1>2, Zenon DEF CmdInv
<1>3. ASSUME at \in Resting, at' \in Resting, UNCHANGED cmd PROVE CmdInv'
  BY <1>2, <1>3, <1>t, Zenon DEF CmdInv
<1>4. ASSUME at' = "received" PROVE CmdInv'
  BY <1>4, Zenon DEF CmdInv
<1>5. ASSUME at \in InControl, at' \in InControl, UNCHANGED cmd PROVE CmdInv'
  BY <1>5, <1>t, Zenon DEF CmdInv
<1>6. ASSUME NEW s \in Setup, SubmitControl(s) PROVE CmdInv'
  <2>1. at' = "control" /\ cmd'.length = s.length
    BY <1>6, Zenon DEF SubmitControl, Submitted
  <2>2. QED
    BY <2>1, HostAssumption, Zenon DEF CmdInv
<1>7. ASSUME NEW pipe \in Pipe, NEW count \in PacketCount,
             SubmitIso(pipe, count)
      PROVE  CmdInv'
  <2>1. /\ at' = "iso_submit" /\ seqnum' = seqnum + 1
        /\ pending_urbs' = pending_urbs
        /\ cmd' = Submitted(pipe[2], pipe[1], count, TRUE, count, TRUE)
    BY <1>7, Zenon DEF SubmitIso, NextCommand
  <2>2. /\ cmd'.isochronous /\ cmd'.seqnum = seqnum + 1
        /\ PipeOf(cmd)' = <<pipe[1], pipe[2]>>
    BY <2>1, Zenon DEF Submitted, PipeOf
  <2>3. PipeOf(cmd)' \in Pipe
    BY <2>2, PipeParts, Zenon
  <2>4. \A i \in 1 .. Len(pending_urbs) : pending_urbs[i].seqnum < seqnum + 1
    BY <1>t, QueuedUrb DEF ShapeInv, QueueInv
  <2>a. /\ at' = "iso_submit" /\ cmd'.seqnum = seqnum + 1
        /\ seqnum' = seqnum + 1 /\ pending_urbs' = pending_urbs
    BY <2>1, <2>2, Zenon
  <2>b. at' \in InIso /\ at' \notin InControl /\ at' \notin Resting
    BY <2>a, Zenon
  <2>c. cmd'.seqnum <= seqnum'
    BY <1>t, <2>a
  <2>5. \A i \in 1 .. Len(pending_urbs') :
            pending_urbs'[i].seqnum < cmd'.seqnum
    BY <2>a, <2>4, Zenon
  <2>6. cmd'.isochronous
    BY <2>2, Zenon
  <2>7. QED
    BY <2>3, <2>b, <2>c, <2>5, <2>6, Zenon DEF CmdInv
<1>8. CASE ScheduleIso
  <2>1. CASE QueueFull
    <3>1. /\ at = "iso_submit" /\ at' = "iso_reply"
          /\ UNCHANGED <<cmd, pending_urbs, seqnum>>
      BY <1>8, <2>1, Zenon DEF ScheduleIso
    <3>2. QED
      BY <1>t, <3>1, Zenon DEF CmdInv, PipeOf
  <2>2. CASE ~QueueFull
    BY <1>2, <1>8, <2>2, Zenon DEF ScheduleIso
  <2>3. QED
    BY <2>1, <2>2, Zenon
<1>9. CASE ImportReply \/ PollReturns \/ ReadFails \/ ClearThenScan
           \/ ScanIso \/ ScanIsoReply \/ ScanEnds \/ LostConnection \/ Detached
  BY <1>3, <1>9, Zenon
     DEF ImportReply, PollReturns, ReadFails, ClearThenScan, ScanIso,
         ScanIsoReply, ScanEnds, LostConnection, Detached, Scanning
<1>10. CASE ScanFetch \/ ScanNotDue
  BY <1>3, <1>10, Zenon DEF ScanFetch, ScanNotDue, Scanning
<1>11. CASE ControlReply \/ OutReply \/ IsoReply
  BY <1>2, <1>11, Zenon DEF ControlReply, OutReply, IsoReply
<1>12. CASE ControlAnswer \/ ControlFetch
  BY <1>5, <1>12, Zenon DEF ControlAnswer, ControlFetch
<1>13. CASE IsoPacket
  BY <1>1, <1>13, Zenon DEF IsoPacket
<1>14. CASE ProtocolStep
  BY <1>8, <1>9, <1>10, <1>11, <1>12, <1>13, <1>14, Zenon DEF ProtocolStep
<1>15. CASE Import \/ InvalidCommand
  BY <1>3, <1>15, Zenon DEF Import, InvalidCommand, NextCommand
<1>16. ASSUME NEW ep, NEW n, SubmitIn(ep, n) PROVE CmdInv'
  BY <1>3, <1>16, Zenon DEF SubmitIn, NextCommand
<1>17. ASSUME NEW number, Unlink(number) PROVE CmdInv'
  BY <1>3, <1>17, Zenon DEF Unlink, NextCommand
<1>18. ASSUME NEW ep, NEW n, SubmitOut(ep, n) PROVE CmdInv'
  BY <1>4, <1>18, Zenon DEF SubmitOut
<1>19. CASE HostStep
  BY <1>1, <1>6, <1>7, <1>15, <1>16, <1>17, <1>18, <1>19, Zenon
     DEF HostStep, Submit, HostDisconnects
<1>20. QED
  BY <1>1, <1>14, <1>19, Zenon DEF ProtocolNext, Tick, protocolVars, allVars

(* Every step of the protocol keeps what the server thread's place says of *)
(* the status, the scan and the device.                                    *)
LEMMA PlaceStep ==
    ASSUME DeviceTypeOK, ShapeInv, [ProtocolNext]_allVars
    PROVE  PlaceInv'
<1> USE DEF queueVars, sessionVars, worldVars, historyVars, bufferVars,
            controlVars, lockVars, processVars, resetVars
<1> DEFINE Same == UNCHANGED <<reset_generation, requests, server>>
<1>t. /\ PlaceInv /\ seqnum \in Nat /\ requests \in Nat
      /\ reset_generation \in Nat /\ MaxResets \in Nat
  BY BoundAssumption, Zenon DEF ShapeInv, ProtocolTypeOK, DeviceTypeOK
<1>u. deviceVars' = deviceVars => Same
  BY Zenon DEF deviceVars
<1>1. ASSUME UNCHANGED <<at, status, scan, pending_urbs>>,
             UNCHANGED <<reset_generation, requests, seqnum>>,
             server' = "reset" => server = "reset"
      PROVE  PlaceInv'
  BY <1>1, <1>t, Zenon DEF PlaceInv, current
(* A step to another place, none of which is the filling of packets. *)
<1>2. ASSUME at' # "iso_scan", at' \notin {"clear", "scan"} => status',
             at' \notin {"command", "detaching"} =>
                 at \notin {"command", "detaching"},
             UNCHANGED reset_generation, requests' <= seqnum',
             server' = "reset" => FALSE
      PROVE  PlaceInv'
  BY <1>2, <1>t, Zenon DEF PlaceInv
<1>3. CASE Tick \/ HostDisconnects
  BY <1>1, <1>3, <1>u, Zenon DEF Tick, HostDisconnects
<1>4. CASE Import
  BY <1>4, <1>t, Zenon DEF Import, Reset, PlaceInv
<1>5. CASE ImportReply
  BY <1>2, <1>5, <1>t, <1>u, Zenon DEF ImportReply, PlaceInv
<1>s. at \notin {"importing", "detaching"} => server # "reset"
  BY <1>t, Zenon DEF PlaceInv
<1>6. CASE PollReturns \/ ReadFails
  BY <1>2, <1>6, <1>t, <1>u, <1>s, Zenon DEF PollReturns, ReadFails, PlaceInv
<1>7. CASE InvalidCommand
  BY <1>2, <1>7, <1>t, <1>u, <1>s DEF InvalidCommand, NextCommand, PlaceInv
<1>8. ASSUME NEW s \in Setup, SubmitControl(s) PROVE PlaceInv'
  <2>1. /\ at = "poll" /\ at' = "control" /\ UNCHANGED <<status, reset_generation>>
        /\ requests' = requests + 1 /\ seqnum' = seqnum + 1
        /\ server' # "reset"
    BY <1>8, Zenon DEF SubmitControl, NextCommand, Control
  <2>2. requests' <= seqnum'
    BY <1>t, <2>1, SMTT(30) DEF PlaceInv
  <2>3. QED
    BY <1>2, <1>t, <2>1, <2>2, Zenon DEF PlaceInv
<1>9. CASE ControlAnswer
  BY <1>2, <1>9, <1>t, Zenon DEF ControlAnswer, FetchAnswered, PlaceInv
<1>10. CASE ControlFetch
  BY <1>2, <1>10, <1>t, Zenon DEF ControlFetch, FetchControlReply, PlaceInv
<1>11. CASE ControlReply \/ OutReply \/ IsoReply
  BY <1>2, <1>11, <1>t, <1>u, Zenon DEF ControlReply, OutReply, IsoReply, PlaceInv
<1>12. ASSUME NEW ep, NEW n, SubmitOut(ep, n) PROVE PlaceInv'
  <2>1. /\ at = "poll" /\ at' = "received" /\ seqnum' = seqnum + 1
        /\ UNCHANGED <<status, reset_generation, requests>>
        /\ server' = "locking" \/ server' = server
    BY <1>12, <1>u, Zenon DEF SubmitOut, NextCommand, StartCallback
  <2>2. QED
    BY <1>2, <1>t, <1>s, <2>1, SMTT(60) DEF PlaceInv
<1>13. ASSUME NEW ep, NEW n, SubmitIn(ep, n) PROVE PlaceInv'
  BY <1>2, <1>13, <1>t, <1>u, <1>s, SMTT(60) DEF SubmitIn, NextCommand, PlaceInv
<1>14. ASSUME NEW pipe, NEW count, SubmitIso(pipe, count) PROVE PlaceInv'
  BY <1>2, <1>14, <1>t, <1>u, <1>s DEF SubmitIso, NextCommand, PlaceInv
<1>15. CASE IsoPacket
  <2>1. /\ UNCHANGED <<at, status, scan, pending_urbs>>
        /\ UNCHANGED <<reset_generation, requests, seqnum>>
        /\ server' = "locking"
    BY <1>15, Zenon DEF IsoPacket, StartCallback
  <2>2. QED
    BY <1>1, <2>1, Zenon
<1>16. CASE ScheduleIso
  <2>1. /\ at = "iso_submit" /\ at' \in {"iso_reply", "clear"}
        /\ UNCHANGED <<status, seqnum, reset_generation, requests, server>>
        /\ server = "ready"
    BY <1>16, <1>u, Zenon DEF ScheduleIso
  <2>2. QED
    BY <1>2, <1>t, <2>1, Zenon DEF PlaceInv
<1>17. ASSUME NEW number, Unlink(number) PROVE PlaceInv'
  BY <1>2, <1>17, <1>t, <1>u, <1>s, SMTT(60) DEF Unlink, NextCommand, PlaceInv
<1>18. CASE ClearThenScan
  BY <1>2, <1>18, <1>t, Zenon DEF ClearThenScan, ClearEvent, PlaceInv
<1>19. CASE ScanNotDue \/ ScanEnds
  BY <1>2, <1>19, <1>t, <1>u, <1>s, Zenon DEF ScanNotDue, ScanEnds, Scanning, PlaceInv
<1>20. CASE ScanIso
  BY <1>20, <1>t, <1>u, Zenon DEF ScanIso, Scanning, PlaceInv, current
<1>21. CASE ScanIsoReply
  BY <1>2, <1>21, <1>t, <1>u, Zenon DEF ScanIsoReply, PlaceInv
<1>22. CASE ScanFetch
  <2>1. /\ at = "scan" /\ at' = "scan" /\ server = "ready"
        /\ UNCHANGED <<seqnum, reset_generation, requests, server>>
    BY <1>22, Zenon DEF ScanFetch, Scanning, FetchEpData
  <2>2. QED
    BY <1>2, <1>t, <2>1, Zenon DEF PlaceInv
<1>23. CASE LostConnection
  BY <1>23, <1>t, Zenon DEF LostConnection, Reset, PlaceInv
<1>24. CASE Detached
  BY <1>2, <1>24, <1>t, <1>u, Zenon DEF Detached, PlaceInv
<1>25. CASE /\ ServerStep \/ \E t \in Thread : ThreadStep(t)
            /\ UNCHANGED protocolVars
  BY <1>1, <1>25, DeviceSteps, Zenon DEF protocolVars
<1>26. CASE UNCHANGED allVars
  BY <1>1, <1>26, <1>u, Zenon DEF allVars, protocolVars
<1>27. QED
  BY <1>3, <1>4, <1>5, <1>6, <1>7, <1>8, <1>9, <1>10, <1>11, <1>12, <1>13,
     <1>14, <1>15, <1>16, <1>17, <1>18, <1>19, <1>20, <1>21, <1>22, <1>23,
     <1>24, <1>25, <1>26, ZenonT(30)
     DEF ProtocolNext, ProtocolStep, HostStep, Submit

-----------------------------------------------------------------------------
(* The protocol uses the device as UsbipDevice lets a server use it. *)

(* Every step of the protocol is a step of the device, or none of its      *)
(* business.                                                               *)
LEMMA ProtocolStepsDevice ==
    ASSUME DeviceTypeOK, ShapeInv, [ProtocolNext]_allVars
    PROVE  [DeviceNext]_deviceVars
<1> USE DEF queueVars, sessionVars, worldVars, historyVars
<1>t. PlaceInv /\ CmdInv /\ seqnum \in Nat /\ requests \in Nat
      /\ reset_generation \in Nat
  BY Zenon DEF ShapeInv, ProtocolTypeOK, DeviceTypeOK
<1>1. ASSUME reset_generation < MaxResets, Reset PROVE DeviceNext
  BY <1>1, Zenon DEF DeviceNext, ServerCall
<1>2. CASE Import
  <2>1. reset_generation < MaxResets
    BY <1>2, <1>t, BoundAssumption DEF Import
  <2>2. QED
    BY <1>1, <1>2, <2>1, Zenon DEF Import
<1>3. CASE LostConnection
  <2>1. reset_generation < MaxResets
    BY <1>3, <1>t, Zenon DEF LostConnection, PlaceInv
  <2>2. QED
    BY <1>1, <1>3, <2>1, Zenon DEF LostConnection
<1>4. ASSUME NEW s \in Setup, SubmitControl(s) PROVE DeviceNext
  <2>1. requests < MaxRequests
    BY <1>4, <1>t, BoundAssumption, ProtocolAssumption, HostAssumption
       DEF SubmitControl, NextCommand, PlaceInv
  <2>2. QED
    BY <1>4, <2>1, Zenon DEF SubmitControl, DeviceNext, ServerCall
<1>5. CASE ControlAnswer
  BY <1>5, Zenon DEF ControlAnswer, DeviceNext, ServerCall
<1>6. CASE ControlFetch
  <2>1. cmd.length \in FetchLength
    BY <1>6, <1>t, Zenon DEF ControlFetch, CmdInv, InControl
  <2>2. QED
    BY <1>6, <2>1, ZenonT(30) DEF ControlFetch, DeviceNext, ServerCall
<1>7. ASSUME NEW ep, NEW n, SubmitOut(ep, n)
      PROVE  DeviceNext \/ UNCHANGED deviceVars
  BY <1>7, Zenon DEF SubmitOut, DeviceNext, ServerCall
<1>8. CASE IsoPacket
  BY <1>8, Zenon DEF IsoPacket, DeviceNext, ServerCall
<1>9. CASE ClearThenScan
  BY <1>9, Zenon DEF ClearThenScan, DeviceNext, ServerCall
<1>10. CASE ScanFetch
  <2>1. current.ep \in InEp /\ current.length \in FetchLength
    BY <1>10, CurrentQueued, DueType, Zenon DEF ScanFetch, current
  <2>2. QED
    BY <1>10, <2>1, Zenon DEF ScanFetch, DeviceNext, ServerCall
<1>11. CASE ServerStep \/ \E t \in Thread : ThreadStep(t)
  BY <1>11, Zenon DEF DeviceNext
<1>12. CASE UNCHANGED allVars
  BY <1>12, Zenon DEF allVars
<1>13. CASE ProtocolStep
  BY <1>3, <1>5, <1>6, <1>8, <1>9, <1>10, <1>13, Zenon
     DEF ProtocolStep, ImportReply, PollReturns, ReadFails, ControlReply,
         OutReply, ScheduleIso, IsoReply, ScanNotDue, ScanIso, ScanIsoReply,
         ScanEnds, Detached
<1>14. CASE HostStep
  BY <1>2, <1>4, <1>7, <1>14, Zenon
     DEF HostStep, Submit, InvalidCommand, HostDisconnects, SubmitIn,
         SubmitIso, Unlink
<1>15. QED
  BY <1>11, <1>12, <1>13, <1>14, Zenon DEF ProtocolNext, Tick

(* ShapeInv, with the device's types, holds in every reachable state. *)
LEMMA ShapeInvariant == ProtocolSpec => [](DeviceTypeOK /\ ShapeInv)
<1>1. ProtocolInit => DeviceTypeOK /\ ShapeInv
  BY TypeInit, ShapeInit, Zenon DEF ProtocolInit
<1>2. DeviceTypeOK /\ ShapeInv /\ [ProtocolNext]_allVars
      => (DeviceTypeOK /\ ShapeInv)'
  <2> SUFFICES ASSUME DeviceTypeOK, ShapeInv, [ProtocolNext]_allVars
               PROVE  DeviceTypeOK' /\ ShapeInv'
    BY Zenon
  <2>1. DeviceTypeOK'
    BY ProtocolStepsDevice, TypeStep, Zenon
  <2>2. ProtocolTypeOK'
    BY ProtocolTypeStep, Zenon
  <2>3. QED
    BY <2>1, <2>2, QueueStep, CmdStep, PlaceStep, Zenon DEF ShapeInv
<1>3. QED
  BY <1>1, <1>2, PTL DEF ProtocolSpec

(* The array pending_urbs of usbip_protocol.c never holds more than        *)
(* MAX_PENDING_URBS transfers, whatever the host submits and unlinks, and  *)
(* every other variable of the protocol keeps its type.                    *)
THEOREM ProtocolTypes == ProtocolSpec => []ProtocolTypeOK
BY ShapeInvariant, PTL DEF ShapeInv

(* The protocol calls the device's operations one after the other, with    *)
(* lengths and requests a host may ask for: whatever is proved of every    *)
(* server on top of UsbipDevice holds of this one.                         *)
THEOREM ProtocolUsesDevice == ProtocolSpec => DeviceSpec
<1>1. ProtocolInit => DeviceInit
  BY Zenon DEF ProtocolInit
<1>2. DeviceTypeOK /\ ShapeInv /\ [ProtocolNext]_allVars
      => [DeviceNext]_deviceVars
  BY ProtocolStepsDevice, Zenon
<1>3. QED
  BY <1>1, <1>2, ShapeInvariant, PTL DEF ProtocolSpec, DeviceSpec

=============================================================================
