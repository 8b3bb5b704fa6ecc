--------------------- MODULE UsbipProtocolQueueProofs ----------------------
(***************************************************************************)
(* Proofs about the transfers that a scan of UsbipProtocol's queue leaves  *)
(* pending: it passes over no transfer of an isochronous stream to reply   *)
(* to a later one, which only a full queue makes happen, and the server    *)
(* thread does not go to sleep on one that could be completed.             *)
(***************************************************************************)
EXTENDS UsbipProtocolProofs

-----------------------------------------------------------------------------
(* Isochronous streams. *)

(* The transfers of a pipe are due in the order of the queue, none after   *)
(* the end of its stream.                                                  *)
StreamsOrdered(urbs, ends) ==
    /\ \A i, j \in 1 .. Len(urbs) :
           /\ i < j
           /\ urbs[i].isochronous /\ urbs[j].isochronous
           /\ PipeOf(urbs[i]) = PipeOf(urbs[j])
           => urbs[i].complete_us <= urbs[j].complete_us
    /\ \A i \in 1 .. Len(urbs) :
           urbs[i].isochronous => urbs[i].complete_us <= ends[PipeOf(urbs[i])]

(* A scan has passed only transfers that are not due. *)
ScanPassed ==
    /\ at \in {"scan", "iso_scan"} /\ status =>
           \A i \in 1 .. Len(pending_urbs) :
               i < scan.idx /\ pending_urbs[i].isochronous =>
                   scan.now < pending_urbs[i].complete_us
    /\ at = "iso_scan" => current.complete_us <= scan.now

(* A transfer is answered at once only while there is no room for it. *)
NoRoom == at = "iso_reply" => QueueFull

StreamInvariant ==
    StreamsOrdered(pending_urbs, stream_end_us) /\ ScanPassed /\ NoRoom

(* Removing a transfer keeps the streams in order. *)
LEMMA StreamsRemove ==
    ASSUME ProtocolTypeOK, NEW ends, StreamsOrdered(pending_urbs, ends),
           NEW idx \in 1 .. Len(pending_urbs)
    PROVE  StreamsOrdered(remove_pending_urb(idx), ends)
<1> DEFINE n == Len(pending_urbs)
           q == remove_pending_urb(idx)
           k(i) == IF i < idx THEN i ELSE i + 1
<1>0. n \in Nat /\ idx \in 1 .. n /\ pending_urbs \in Seq(Urb)
  BY SMTT(30) DEF ProtocolTypeOK
<1>1. Len(q) = n - 1 /\ \A i \in 1 .. n - 1 : q[i] = pending_urbs[k(i)]
  BY <1>0, Removed, Zenon
<1>2. /\ \A i \in 1 .. n - 1 : k(i) \in 1 .. n
      /\ \A i, j \in 1 .. n - 1 : i < j => k(i) < k(j)
  BY <1>0, SMTT(60)
<1> HIDE DEF k, q
<1>3. StreamsOrdered(q, ends)
  BY <1>1, <1>2, Zenon DEF StreamsOrdered
<1>4. QED
  BY <1>3, Zenon DEF q

(* A transfer that is due at the new end of its stream goes to the end. *)
LEMMA StreamsAppend ==
    ASSUME ProtocolTypeOK, StreamsOrdered(pending_urbs, stream_end_us),
           NEW u \in Urb, PipeOf(u) \in Pipe,
           stream_end_us[PipeOf(u)] <= u.complete_us
    PROVE  StreamsOrdered(Append(pending_urbs, u),
                          [stream_end_us EXCEPT ![PipeOf(u)] = u.complete_us])
<1> DEFINE n == Len(pending_urbs)
           q == Append(pending_urbs, u)
           ends == [stream_end_us EXCEPT ![PipeOf(u)] = u.complete_us]
<1>0. n \in Nat /\ pending_urbs \in Seq(Urb) /\ stream_end_us \in [Pipe -> Nat]
  BY SMTT(30) DEF ProtocolTypeOK
<1>1. /\ Len(q) = n + 1 /\ q[n + 1] = u
      /\ \A i \in 1 .. n : q[i] = pending_urbs[i]
  BY <1>0
<1>2. /\ ends[PipeOf(u)] = u.complete_us
      /\ \A p : p # PipeOf(u) => ends[p] = stream_end_us[p]
  BY <1>0
<1>3. u.complete_us \in Nat /\ stream_end_us[PipeOf(u)] \in Nat
  BY <1>0, Zenon DEF Urb
<1>4. \A i \in 1 .. n :
          /\ pending_urbs[i].complete_us \in Nat
          /\ pending_urbs[i].isochronous =>
                 pending_urbs[i].complete_us
                     <= stream_end_us[PipeOf(pending_urbs[i])]
  BY QueuedUrb, Zenon DEF StreamsOrdered
<1> HIDE DEF q, ends
<1>5. ASSUME NEW i \in 1 .. n + 1, q[i].isochronous
      PROVE  q[i].complete_us <= ends[PipeOf(q[i])]
  <2>1. CASE i = n + 1
    BY <1>1, <1>2, <1>3, <2>1, SMTT(60)
  <2>2. CASE i # n + 1
    <3>1. i \in 1 .. n
      BY <1>0, <2>2, SMTT(60)
    <3>2. CASE PipeOf(pending_urbs[i]) = PipeOf(u)
      BY <1>1, <1>2, <1>3, <1>4, <1>5, <3>1, <3>2, SMTT(60)
    <3>3. CASE PipeOf(pending_urbs[i]) # PipeOf(u)
      BY <1>1, <1>2, <1>4, <1>5, <3>1, <3>3, Zenon
    <3>4. QED
      BY <3>2, <3>3, Zenon
  <2>3. QED
    BY <2>1, <2>2, Zenon
<1>6. ASSUME NEW i \in 1 .. n + 1, NEW j \in 1 .. n + 1, i < j,
             q[i].isochronous, q[j].isochronous, PipeOf(q[i]) = PipeOf(q[j])
      PROVE  q[i].complete_us <= q[j].complete_us
  <2>1. i \in 1 .. n
    BY <1>0, <1>6, SMTT(60)
  <2>2. CASE j = n + 1
    BY <1>1, <1>3, <1>4, <1>6, <2>1, <2>2, SMTT(60)
  <2>3. CASE j # n + 1
    <3>1. j \in 1 .. n
      BY <1>0, <2>3, SMTT(60)
    <3>2. QED
      BY <1>1, <1>6, <2>1, <3>1, Zenon DEF StreamsOrdered
  <2>4. QED
    BY <2>2, <2>3, Zenon
<1>7. StreamsOrdered(q, ends)
  BY <1>1, <1>5, <1>6, Zenon DEF StreamsOrdered
<1>8. QED
  BY <1>7, Zenon DEF q, ends

(* Every step keeps the streams in order. *)
LEMMA StreamsStep ==
    ASSUME ShapeInv, StreamsOrdered(pending_urbs, stream_end_us),
           [ProtocolNext]_allVars
    PROVE  StreamsOrdered(pending_urbs, stream_end_us)'
<1> USE DEF queueVars, sessionVars, worldVars, historyVars
<1>t. /\ ProtocolTypeOK /\ QueueInv /\ pending_urbs \in Seq(Urb)
      /\ stream_end_us \in [Pipe -> Nat]
  BY Zenon DEF ShapeInv, ProtocolTypeOK
<1> DEFINE Goal == StreamsOrdered(pending_urbs', stream_end_us')
<1>g. Goal => StreamsOrdered(pending_urbs, stream_end_us)'
  BY Zenon DEF StreamsOrdered, PipeOf
<1>1. ASSUME UNCHANGED <<pending_urbs, stream_end_us>> PROVE Goal
  BY <1>1, Zenon
<1>2. ASSUME pending_urbs' = <<>> PROVE Goal
  BY <1>2, SMTT(30) DEF StreamsOrdered
<1>3. ASSUME NEW u \in Urb, ~u.isochronous,
             pending_urbs' = Append(pending_urbs, u), UNCHANGED stream_end_us
      PROVE  Goal
  <2> DEFINE n == Len(pending_urbs)
  <2>1. /\ n \in Nat /\ Len(pending_urbs') = n + 1 /\ pending_urbs'[n + 1] = u
        /\ \A i \in 1 .. n : pending_urbs'[i] = pending_urbs[i]
    BY <1>t, <1>3
  <2>2. \A i \in 1 .. n + 1 : pending_urbs'[i].isochronous => i \in 1 .. n
    BY <1>3, <2>1
  <2> HIDE DEF n
  <2>3. QED
    BY <1>3, <2>1, <2>2, ZenonT(30) DEF StreamsOrdered, n
<1>4. ASSUME NEW ep \in InEp, NEW n \in SubmitLength, SubmitIn(ep, n)
      PROVE  Goal
  <2>1. CASE QueueFull
    BY <1>1, <1>4, <2>1, Zenon DEF SubmitIn
  <2>2. CASE ~QueueFull
    <3> DEFINE u == Submitted(ep, "in", n, FALSE, 0, TRUE)
    <3>1. ep \in 0 .. 15 /\ n \in Nat
      BY EndpointAssumption, ProtocolAssumption, SMTT(60)
    <3>2. u \in Urb /\ ~u.isochronous
      BY <1>t, <3>1, SMTT(30) DEF Submitted, Urb, ProtocolTypeOK
    <3>3. pending_urbs' = Append(pending_urbs, u) /\ UNCHANGED stream_end_us
      BY <1>4, <2>2, ZenonT(30) DEF SubmitIn
    <3> HIDE DEF u
    <3>4. QED
      BY <1>3, <3>2, <3>3, Zenon
  <2>3. QED
    BY <2>1, <2>2, Zenon
<1>5. CASE ScheduleIso
  <2> DEFINE pipe == PipeOf(cmd)
             end == IsoEnd(pipe, cmd.packets)
             u == [cmd EXCEPT !.complete_us = end]
  <2>1. pipe \in Pipe /\ cmd \in Urb /\ cmd.packets \in Nat
    BY <1>5, <1>t, Zenon DEF ScheduleIso, ShapeInv, CmdInv, InIso, ProtocolTypeOK, Urb
  <2>2. /\ stream_end_us[pipe] \in Nat /\ now \in Nat /\ Interval[pipe] \in Nat
    BY <2>1, <1>t, PipeAssumption, Zenon DEF ProtocolTypeOK
  <2>3. cmd.packets * Interval[pipe] \in Nat
    BY <2>1, <2>2, SMTT(30)
  <2>4. end \in Nat /\ stream_end_us[pipe] <= end
    BY <2>2, <2>3, SMTT(30) DEF IsoEnd
  <2>5. stream_end_us' = [stream_end_us EXCEPT ![pipe] = end]
    BY <1>5, Zenon DEF ScheduleIso
  <2>6. CASE QueueFull
    <3>1. pending_urbs' = pending_urbs
      BY <1>5, <2>6, Zenon DEF ScheduleIso
    <3> HIDE DEF end, pipe
    <3>2. \A p : p # pipe => stream_end_us'[p] = stream_end_us[p]
      BY <1>t, <2>5
    <3>3. stream_end_us'[pipe] = end
      BY <1>t, <2>1, <2>5, Zenon
    <3>4. \A i \in 1 .. Len(pending_urbs) : pending_urbs[i].complete_us \in Nat
      BY <1>t, QueuedUrb, Zenon
    <3>5. ASSUME NEW i \in 1 .. Len(pending_urbs), pending_urbs[i].isochronous
          PROVE  pending_urbs[i].complete_us
                     <= stream_end_us'[PipeOf(pending_urbs[i])]
      <4>1. pending_urbs[i].complete_us
                <= stream_end_us[PipeOf(pending_urbs[i])]
        BY <3>5, Zenon DEF StreamsOrdered
      <4>2. CASE PipeOf(pending_urbs[i]) = pipe
        BY <2>2, <2>4, <3>3, <3>4, <4>1, <4>2, SMTT(60)
      <4>3. CASE PipeOf(pending_urbs[i]) # pipe
        BY <3>2, <4>1, <4>3, Zenon
      <4>4. QED
        BY <4>2, <4>3, Zenon
    <3>6. QED
      BY <3>1, <3>5, Zenon DEF StreamsOrdered
  <2>7. CASE ~QueueFull
    <3>1. pending_urbs' = Append(pending_urbs, u)
      BY <1>5, <2>7, Zenon DEF ScheduleIso
    <3> HIDE DEF end
    <3>2. u \in Urb /\ u.complete_us = end /\ u.dir = cmd.dir /\ u.ep = cmd.ep
      BY <2>1, <2>4, Zenon DEF Urb
    <3> HIDE DEF u
    <3>3. PipeOf(u) = pipe
      BY <3>2, Zenon DEF PipeOf
    <3>4. QED
      BY <1>t, <2>1, <2>4, <2>5, <3>1, <3>2, <3>3, StreamsAppend, Zenon
  <2>8. QED
    BY <2>6, <2>7, Zenon
<1>6. ASSUME NEW idx \in 1 .. Len(pending_urbs),
             pending_urbs' = remove_pending_urb(idx), UNCHANGED stream_end_us
      PROVE  Goal
  BY <1>6, <1>t, StreamsRemove, Zenon
<1>7. ASSUME NEW number \in submitted, Unlink(number) PROVE Goal
  <2>1. CASE Matching(number) = {}
    BY <1>1, <1>7, <2>1, Zenon DEF Unlink
  <2>2. CASE Matching(number) # {}
    <3>1. PICK k \in Matching(number) : TRUE
      BY <2>2, Zenon
    <3>2. k \in 1 .. Len(pending_urbs) /\ First(Matching(number)) = k
      BY <1>t, <3>1, MatchingUnique, Zenon
    <3> DEFINE urb == pending_urbs[k]
    <3>3. pending_urbs' = remove_pending_urb(k)
          /\ stream_end_us' = StreamEndAfterUnlink(urb, pending_urbs')
      BY <1>7, <2>2, <3>2, Zenon DEF Unlink
    <3>4. StreamsOrdered(pending_urbs', stream_end_us)
      BY <1>t, <3>2, <3>3, StreamsRemove, Zenon
    <3> HIDE DEF urb
    <3>5. CASE ~(urb.isochronous
                 /\ ~has_pending_iso_urbs(pending_urbs', PipeOf(urb)))
      <4>1. stream_end_us' = stream_end_us
        BY <3>3, <3>5, Zenon DEF StreamEndAfterUnlink
      <4>2. QED
        BY <3>4, <4>1, Zenon
    <3>6. CASE /\ urb.isochronous
               /\ ~has_pending_iso_urbs(pending_urbs', PipeOf(urb))
      <4>1. stream_end_us' = [stream_end_us EXCEPT ![PipeOf(urb)] = 0]
        BY <3>3, <3>6, Zenon DEF StreamEndAfterUnlink
      <4>2. \A i \in 1 .. Len(pending_urbs') :
                pending_urbs'[i].isochronous
                => PipeOf(pending_urbs'[i]) # PipeOf(urb)
        BY <3>6, Zenon DEF has_pending_iso_urbs
      <4>3. \A p : p # PipeOf(urb) => stream_end_us'[p] = stream_end_us[p]
        BY <1>t, <4>1
      <4>4. QED
        BY <3>4, <4>2, <4>3, Zenon DEF StreamsOrdered
    <3>7. QED
      BY <3>5, <3>6, Zenon
  <2>3. QED
    BY <2>1, <2>2, Zenon
<1>8. CASE ScanIsoReply
  <2>1. scan.idx \in 1 .. Len(pending_urbs)
    BY <1>8, CurrentQueued, Zenon DEF ScanIsoReply
  <2>2. QED
    BY <1>6, <1>8, <2>1, Zenon DEF ScanIsoReply
<1>9. CASE ScanFetch
  <2>1. scan.idx \in 1 .. Len(pending_urbs)
    BY <1>9, CurrentQueued, Zenon DEF ScanFetch
  <2>2. QED
    BY <1>1, <1>6, <1>9, <2>1, Zenon DEF ScanFetch
<1>10. CASE ProtocolStep
  BY <1>1, <1>2, <1>5, <1>8, <1>9, <1>10, Zenon
     DEF ProtocolStep, ImportReply, PollReturns, ReadFails, ControlAnswer,
         ControlFetch, ControlReply, OutReply, IsoPacket, IsoReply,
         ClearThenScan, ScanNotDue, ScanIso, ScanEnds, LostConnection, Detached
<1>11. CASE Submit
  BY <1>1, <1>4, <1>11, Zenon
     DEF Submit, SubmitControl, SubmitOut, SubmitIso
<1>12. CASE HostStep
  BY <1>1, <1>2, <1>7, <1>11, <1>12, Zenon
     DEF HostStep, Import, InvalidCommand, HostDisconnects
<1>13. Goal
  BY <1>1, <1>10, <1>12, Zenon
     DEF ProtocolNext, Tick, protocolVars, allVars
<1>14. QED
  BY <1>g, <1>13, Zenon

(* Every step keeps what the scan has passed undue. *)
LEMMA PassedStep ==
    ASSUME ShapeInv, ScanPassed, [ProtocolNext]_allVars
    PROVE  ScanPassed'
<1> USE DEF queueVars, sessionVars, worldVars, historyVars
<1>t. /\ ProtocolTypeOK /\ pending_urbs \in Seq(Urb) /\ scan.now \in Nat
      /\ scan.idx \in Nat \ {0}
  BY Zenon DEF ShapeInv, ProtocolTypeOK
<1>1. ASSUME UNCHANGED <<at, status, scan, pending_urbs>> PROVE ScanPassed'
  BY <1>1, Zenon DEF ScanPassed, current
<1>2. ASSUME at' \notin {"scan", "iso_scan"} PROVE ScanPassed'
  BY <1>2, Zenon DEF ScanPassed
<1>3. CASE ClearThenScan
  <2>1. at' = "scan" /\ scan'.idx = 1
    BY <1>3, Zenon DEF ClearThenScan
  <2>2. QED
    BY <2>1 DEF ScanPassed
(* The scan goes on to the next transfer. *)
<1>4. ASSUME Scanning, at' = "scan", scan' = [scan EXCEPT !.idx = @ + 1],
             UNCHANGED pending_urbs,
             current.isochronous => scan.now < current.complete_us
      PROVE  ScanPassed'
  <2>1. scan \in [now : Nat, idx : Nat \ {0}]
    BY <1>t, Zenon DEF ProtocolTypeOK
  <2>2. scan'.now = scan.now /\ scan'.idx = scan.idx + 1
    BY <1>4, <2>1, Zenon
  <2>3. at = "scan" /\ status
    BY <1>4, Zenon DEF Scanning
  <2>4. ASSUME NEW i \in 1 .. Len(pending_urbs), i < scan.idx + 1,
               pending_urbs[i].isochronous
        PROVE  scan.now < pending_urbs[i].complete_us
    <3>1. CASE i = scan.idx
      BY <1>4, <2>4, <3>1, Zenon DEF current
    <3>2. CASE i # scan.idx
      <4>1. i < scan.idx
        BY <1>t, <2>4, <3>2, SMTT(30)
      <4>2. QED
        BY <2>3, <2>4, <4>1, Zenon DEF ScanPassed
    <3>3. QED
      BY <3>1, <3>2, Zenon
  <2>5. QED
    BY <1>4, <2>2, <2>4, Zenon DEF ScanPassed
(* The transfer is removed, and the scan goes on where it was. *)
<1>5. ASSUME at \in {"scan", "iso_scan"}, status, at' = "scan", UNCHANGED scan,
             scan.idx \in 1 .. Len(pending_urbs),
             pending_urbs' = remove_pending_urb(scan.idx)
      PROVE  ScanPassed'
  <2>1. \A i \in 1 .. Len(pending_urbs') :
            /\ i \in 1 .. Len(pending_urbs)
            /\ i < scan.idx => pending_urbs'[i] = pending_urbs[i]
    BY <1>5, <1>t, RemovedBefore, Zenon
  <2>2. QED
    BY <1>5, <2>1, Zenon DEF ScanPassed
<1>6. CASE ScanNotDue
  <2>1. current.isochronous => scan.now < current.complete_us
    BY <1>6, Zenon DEF ScanNotDue, due_us
  <2>2. QED
    BY <1>4, <1>6, <2>1, Zenon DEF ScanNotDue, Scanning
<1>7. CASE ScanIso
  <2>1. /\ at = "scan" /\ at' = "iso_scan" /\ status
        /\ UNCHANGED <<scan, pending_urbs, status>>
        /\ current.isochronous /\ scan.now >= due_us(current)
    BY <1>7, Zenon DEF ScanIso, Scanning
  <2>2. scan.idx \in 1 .. Len(pending_urbs)
    BY <1>7, CurrentQueued, Zenon DEF ScanIso
  <2>3. current.complete_us \in Nat
    BY <1>t, <2>2, QueuedUrb, Zenon DEF current
  <2>4. current.complete_us <= scan.now
    BY <1>t, <2>1, <2>3, Zenon DEF due_us
  <2>5. QED
    BY <2>1, <2>4, Zenon DEF ScanPassed, current
<1>8. CASE ScanIsoReply
  <2>1. status
    BY <1>8, Zenon DEF ScanIsoReply, ShapeInv, PlaceInv
  <2>2. QED
    BY <1>5, <1>8, <2>1, CurrentQueued, Zenon DEF ScanIsoReply
<1>9. CASE ScanFetch
  <2>1. Scanning /\ at' = "scan" /\ at = "scan" /\ status /\ ~current.isochronous
    BY <1>9, Zenon DEF ScanFetch, Scanning
  <2>2. CASE Fetched(current.ep, current.length) # <<>>
    BY <1>5, <1>9, <2>1, <2>2, CurrentQueued, Zenon DEF ScanFetch
  <2>3. CASE Fetched(current.ep, current.length) = <<>>
    BY <1>4, <1>9, <2>1, <2>3, Zenon DEF ScanFetch
  <2>4. QED
    BY <2>2, <2>3, Zenon
<1>10. CASE ImportReply \/ PollReturns \/ ReadFails \/ ControlAnswer
            \/ ControlFetch \/ ControlReply \/ OutReply \/ ScheduleIso
            \/ IsoReply \/ ScanEnds \/ LostConnection \/ Detached
  BY <1>2, <1>10, Zenon
     DEF ImportReply, PollReturns, ReadFails, ControlAnswer, ControlFetch,
         ControlReply, OutReply, ScheduleIso, IsoReply, ScanEnds,
         LostConnection, Detached
<1>11. CASE IsoPacket
  BY <1>1, <1>11, Zenon DEF IsoPacket
<1>12. CASE ProtocolStep
  BY <1>3, <1>6, <1>7, <1>8, <1>9, <1>10, <1>11, <1>12, Zenon
     DEF ProtocolStep
<1>13. ASSUME Submit \/ Import \/ InvalidCommand
              \/ \E number \in submitted : Unlink(number)
       PROVE  ScanPassed'
  <2>1. at' \notin {"scan", "iso_scan"}
    BY <1>13, Zenon
       DEF Submit, SubmitControl, SubmitOut, SubmitIn, SubmitIso, Import,
           InvalidCommand, Unlink
  <2>2. QED
    BY <1>2, <2>1, Zenon
<1>14. CASE HostStep
  BY <1>1, <1>13, <1>14, Zenon DEF HostStep, HostDisconnects
<1>15. QED
  BY <1>1, <1>12, <1>14, ZenonT(30) DEF ProtocolNext, Tick, protocolVars, allVars

(* Every step keeps the queue full while a transfer is answered at once. *)
LEMMA NoRoomStep ==
    ASSUME NoRoom, [ProtocolNext]_allVars
    PROVE  NoRoom'
<1> USE DEF queueVars, sessionVars, worldVars, historyVars
<1>1. ASSUME at' # "iso_reply" PROVE NoRoom'
  BY <1>1, Zenon DEF NoRoom
<1>2. ASSUME UNCHANGED <<at, pending_urbs>> PROVE NoRoom'
  BY <1>2, Zenon DEF NoRoom, QueueFull
<1>3. CASE ScheduleIso
  <2>1. CASE QueueFull
    BY <1>3, <2>1, Zenon DEF ScheduleIso, NoRoom, QueueFull
  <2>2. CASE ~QueueFull
    BY <1>1, <1>3, <2>2 DEF ScheduleIso
  <2>3. QED
    BY <2>1, <2>2, Zenon
<1>4. CASE ProtocolStep
  <2>1. CASE ImportReply \/ PollReturns \/ ReadFails \/ ControlAnswer
                 \/ ControlFetch \/ ControlReply \/ OutReply \/ IsoReply
                 \/ ClearThenScan \/ ScanIso \/ ScanIsoReply \/ ScanEnds
                 \/ LostConnection \/ Detached
    BY <1>1, <2>1
       DEF ImportReply, PollReturns, ReadFails, ControlAnswer, ControlFetch,
           ControlReply, OutReply, IsoReply, ClearThenScan, ScanIso,
           ScanIsoReply, ScanEnds, LostConnection, Detached
  <2>2. CASE ScanNotDue \/ ScanFetch
    BY <1>1, <2>2 DEF ScanNotDue, ScanFetch, Scanning
  <2>3. CASE IsoPacket
    BY <1>2, <2>3, Zenon DEF IsoPacket
  <2>4. QED
    BY <1>3, <1>4, <2>1, <2>2, <2>3, Zenon DEF ProtocolStep
<1>5. CASE HostStep
  <2>1. CASE Import \/ InvalidCommand \/ \E number \in submitted : Unlink(number)
    BY <1>1, <2>1 DEF Import, InvalidCommand, Unlink
  <2>2. CASE Submit
    BY <1>1, <2>2, Zenon
    DEF Submit, SubmitControl, SubmitOut, SubmitIn, SubmitIso
  <2>3. CASE HostDisconnects
    BY <1>2, <2>3, Zenon DEF HostDisconnects
  <2>4. QED
    BY <1>5, <2>1, <2>2, <2>3, Zenon DEF HostStep
<1>6. QED
  BY <1>2, <1>4, <1>5, Zenon DEF ProtocolNext, Tick, protocolVars, allVars

(* IsoInOrder: a transfer that a scan completes has no older one of its    *)
(* stream before it in the queue (complete_pending_urbs), and one that is  *)
(* answered in front of others found the queue full (process_iso_submit),  *)
(* for any limit of the queue and any intervals.                           *)
THEOREM IsoStreamsInOrder == ProtocolSpec => []IsoInOrder
<1>1. ProtocolInit => StreamInvariant
  BY DEF ProtocolInit, StreamInvariant, StreamsOrdered, ScanPassed, NoRoom
<1>2. ShapeInv /\ StreamInvariant /\ [ProtocolNext]_allVars => StreamInvariant'
  BY StreamsStep, PassedStep, NoRoomStep, Zenon DEF StreamInvariant
<1>3. ShapeInv /\ StreamInvariant => IsoInOrder
  <2> SUFFICES ASSUME ShapeInv, StreamInvariant, at = "iso_scan",
                      NEW i \in Overtaken(current)
               PROVE  FALSE
    BY Zenon DEF IsoInOrder, StreamInvariant, NoRoom
  <2>1. scan.idx \in 1 .. Len(pending_urbs) /\ scan.now \in Nat
    BY CurrentQueued, Zenon DEF ShapeInv, ProtocolTypeOK
  <2>a. /\ i \in 1 .. Len(pending_urbs)
        /\ pending_urbs[i].isochronous
        /\ PipeOf(pending_urbs[i]) = PipeOf(current)
        /\ pending_urbs[i].seqnum < current.seqnum
    BY Zenon DEF Overtaken
  <2>b. pending_urbs[i] \in Urb /\ current \in Urb
    BY <2>1, <2>a, QueuedUrb, Zenon DEF ShapeInv, current
  <2>c. pending_urbs[i].seqnum \in Nat /\ current.seqnum \in Nat
    BY <2>b, Zenon DEF Urb
  <2>d. scan.idx < i => current.seqnum < pending_urbs[i].seqnum
    BY <2>1, <2>a, Zenon DEF ShapeInv, QueueInv, current
  <2>e. i # scan.idx
    BY <2>a, <2>c DEF current
  <2>2. i < scan.idx
    BY <2>1, <2>a, <2>c, <2>d, <2>e
  <2>3. status /\ current.isochronous
    BY Zenon DEF ShapeInv, PlaceInv
  <2>4. /\ scan.now < pending_urbs[i].complete_us
        /\ current.complete_us <= scan.now
    BY <2>2, <2>3, <2>a, Zenon DEF StreamInvariant, ScanPassed
  <2>5. pending_urbs[i].complete_us <= current.complete_us
    BY <2>1, <2>2, <2>3, <2>a, Zenon
       DEF StreamInvariant, StreamsOrdered, current
  <2>6. pending_urbs[i].complete_us \in Nat /\ current.complete_us \in Nat
    BY <2>b, Zenon DEF Urb
  <2>7. QED
    BY <2>1, <2>4, <2>5, <2>6
<1>4. QED
  BY <1>1, <1>2, <1>3, ShapeInvariant, PTL DEF ProtocolSpec

-----------------------------------------------------------------------------
(* Waking the server. *)

(* Either the timeout or an event will make the server look at the         *)
(* transfer again, or it has nothing to look for.                          *)
Quiet(ep) == Signalled \/ endpoint_data[ep] = <<>>
Covered(u) ==
    \/ TimeoutCovers(u)
    \/ ~u.isochronous /\ (Quiet(u.ep) \/ u.length = 0)

(* This holds of the transfers a scan has passed, and still when it ends. *)
WakeInv ==
    /\ at = "importing" => pending_urbs = <<>>
    /\ at \in {"scan", "iso_scan", "poll"} /\ status =>
           \A i \in 1 .. Len(pending_urbs) :
               at = "poll" \/ i < scan.idx => Covered(pending_urbs[i])

(* A step of the device that stores data will signal it: the event is not  *)
(* lost, unless the device is being reset.                                 *)
LEMMA DeviceSignals ==
    ASSUME DeviceTypeOK, server # "reset",
           ServerStep \/ \E t \in Thread : ThreadStep(t),
           NEW ep \in InEp, Quiet(ep)
    PROVE  Quiet(ep)'
<1> USE DEF bufferVars, controlVars, lockVars, processVars, resetVars
<1>e. ep \in Endpoint /\ ep # 0
  BY EndpointAssumption DEF Endpoint
<1>t. /\ pc \in [Process -> {"idle", "wait", "signal"}]
      /\ endpoint_data \in [Endpoint -> Buffer]
      /\ ep \in Endpoint /\ ep # 0
  BY <1>e, Zenon DEF DeviceTypeOK
<1>1. ASSUME UNCHANGED <<endpoint_data, ep_data_event, pc>> PROVE Quiet(ep)'
  BY <1>1, Zenon DEF Quiet, Signalled
<1>2. ASSUME NEW p \in Process, NEW c \in Call, pc[p] # "signal",
             TransmitLocked(p, c)
      PROVE  Quiet(ep)'
  <2>1. UNCHANGED ep_data_event
    BY <1>2, Zenon DEF TransmitLocked
  <2>2. \A q \in Process : pc[q] = "signal" => pc'[q] = "signal"
    BY <1>2, <1>t, Zenon DEF TransmitLocked, Sleep, Store, Drop
  <2>3. \/ endpoint_data'[ep] = endpoint_data[ep]
        \/ pc'[p] = "signal"
    BY <1>2, <1>t, Zenon DEF TransmitLocked, Sleep, Store, Drop
  <2>4. QED
    BY <2>1, <2>2, <2>3, Zenon DEF Quiet, Signalled
<1>3. ASSUME NEW p \in Process, SignalEvent(p) PROVE Quiet(ep)'
  BY <1>3, Zenon DEF SignalEvent, Quiet, Signalled
<1>4. ASSUME NEW p \in Process, NEW e \in Endpoint, NEW n \in Nat,
             Transmit(p, e, n)
      PROVE  Quiet(ep)'
  <2> DEFINE c == [ep |-> e, data |-> DataOf(n), generation |-> reset_generation]
  <2>1. c \in Call
    BY DataOfType, Zenon DEF Call, DeviceTypeOK
  <2>2. TransmitLocked(p, c) /\ pc[p] # "signal"
    BY <1>4, Zenon DEF Transmit
  <2> HIDE DEF c
  <2>3. QED
    BY <1>2, <2>1, <2>2, Zenon
<1>5. ASSUME NEW t \in Thread, ThreadStep(t) PROVE Quiet(ep)'
  <2>0. t \in Process
    BY Zenon DEF Process
  <2>1. CASE ThreadTransmit(t)
    BY <1>4, <2>0, <2>1, LengthAssumption, Zenon DEF ThreadTransmit
  <2>2. CASE WakeUp(t)
    <3>1. call[t] \in Call
      BY <2>0, Zenon DEF DeviceTypeOK
    <3>2. pc[t] # "signal" /\ TransmitLocked(t, call[t])
      BY <2>2, Zenon DEF WakeUp
    <3>3. QED
      BY <1>2, <2>0, <3>1, <3>2, Zenon
  <2>3. QED
    BY <1>1, <1>3, <1>5, <2>0, <2>1, <2>2, Zenon
       DEF ThreadStep, SpuriousWakeUp, critical_section_enter,
           critical_section_exit
<1>6. CASE ServerStep
  <2>0. Server \in Process /\ 0 \in Endpoint /\ answer_length \in Nat
    BY Zenon DEF Process, Endpoint, DeviceTypeOK
  <2>1. CASE CallbackTransmit
    BY <1>4, <2>0, <2>1, LengthAssumption, Zenon DEF CallbackTransmit
  <2>2. CASE LibraryAnswer
    BY <1>4, <2>0, <2>2, Zenon DEF LibraryAnswer
  <2>3. ~ResetClearEvent
    BY Zenon DEF ResetClearEvent
  <2>4. QED
    BY <1>1, <1>3, <1>6, <2>0, <2>1, <2>2, <2>3, Zenon
       DEF ServerStep, EnterCallback, ReturnCallback
<1>7. QED
  BY <1>5, <1>6, Zenon

(* A transfer takes data away and signals nothing. *)
LEMMA FetchQuiet ==
    ASSUME DeviceTypeOK, NEW e \in InEp, NEW max \in Nat, FetchEpData(e, max),
           NEW ep \in InEp, Quiet(ep)
    PROVE  Quiet(ep)'
<1>1. UNCHANGED <<ep_data_event, pc>>
  BY Zenon DEF FetchEpData, processVars
<1>2. /\ endpoint_data' = [endpoint_data EXCEPT ![e] = Remaining(e, max)]
      /\ endpoint_data \in [Endpoint -> Buffer] /\ e \in Endpoint /\ e # 0
      /\ ep \in Endpoint
  BY EndpointAssumption DEF FetchEpData, DeviceTypeOK, Endpoint
<1>3. endpoint_data[e] = <<>> => Remaining(e, max) = <<>>
  <2> SUFFICES ASSUME endpoint_data[e] = <<>> PROVE Remaining(e, max) = <<>>
    BY Zenon
  <2>1. Shorter(max, 0) = 0
    BY DEF Shorter
  <2>2. Remaining(e, max) = SubSeq(<<>>, 1, 0)
    BY <1>2, <2>1 DEF Remaining
  <2>3. QED
    BY <2>2
<1>4. endpoint_data[ep] = <<>> => endpoint_data'[ep] = <<>>
  BY <1>2, <1>3, Zenon
<1>5. QED
  BY <1>1, <1>4, Zenon DEF Quiet, Signalled

(* A transfer that gets nothing had nothing to get, or no room for it. *)
LEMMA FetchedNothing ==
    ASSUME DeviceTypeOK, NEW ep \in InEp, NEW max \in Nat,
           Fetched(ep, max) = <<>>
    PROVE  endpoint_data[ep] = <<>> \/ max = 0
<1> DEFINE s == endpoint_data[ep]
           k == Shorter(max, Len(s))
<1>1. s \in Seq(Byte)
  BY Zenon DEF DeviceTypeOK, Endpoint, Buffer
<1> HIDE DEF s
<1>2. Len(s) \in Nat
  BY <1>1
<1>3. k \in Nat /\ k <= Len(s) /\ (k = max \/ k = Len(s))
  BY <1>2 DEF Shorter
<1> HIDE DEF k
<1>4. Len(SubSeq(s, 1, k)) = k
  BY <1>1, <1>3
<1>5. SubSeq(s, 1, k) = <<>>
  BY Zenon DEF Fetched, s, k
<1>6. k = 0
  BY <1>4, <1>5, Zenon
<1>7. s = <<>> \/ max = 0
  BY <1>1, <1>2, <1>3, <1>6
<1>8. QED
  BY <1>7, Zenon DEF s

(* A covered transfer stays covered while its endpoint's poll time and the *)
(* scan's clock stand, the timeout only shortens, and no event is lost.    *)
LEMMA CoverKept ==
    ASSUME ProtocolTypeOK, ProtocolTypeOK', NEW u \in Urb, UrbInv(u),
           Covered(u), scan'.now = scan.now,
           wait_timeout_us' <= wait_timeout_us,
           ~u.isochronous =>
               /\ next_poll_us'[<<"in", u.ep>>] = next_poll_us[<<"in", u.ep>>]
               /\ Quiet(u.ep) => Quiet(u.ep)'
    PROVE  Covered(u)'
<1>1. /\ wait_timeout_us \in Nat /\ wait_timeout_us' \in Nat
      /\ scan.now \in Nat /\ u.complete_us \in Nat
  BY ProtocolAssumption DEF ProtocolTypeOK, Urb
<1>2. due_us(u) \in Nat
  <2>1. CASE u.isochronous
    BY <1>1, <2>1, Zenon DEF due_us
  <2>2. CASE ~u.isochronous
    <3>1. <<"in", u.ep>> \in Pipe
      BY <2>2, Zenon DEF UrbInv, PipeOf
    <3>2. QED
      BY <2>2, <3>1, Zenon DEF due_us, ProtocolTypeOK
  <2>3. QED
    BY <2>1, <2>2, Zenon
<1>3. due_us(u)' = due_us(u)
  BY Zenon DEF due_us
<1>4. TimeoutCovers(u) => TimeoutCovers(u)'
  BY <1>1, <1>2, <1>3 DEF TimeoutCovers
<1>5. QED
  BY <1>4, Zenon DEF Covered

(* Every step keeps the transfers a scan has passed covered. *)
LEMMA WakeStep ==
    ASSUME DeviceTypeOK, ShapeInv, ShapeInv', WakeInv, [ProtocolNext]_allVars
    PROVE  WakeInv'
<1> USE DEF queueVars, sessionVars, worldVars, historyVars
<1>t. /\ ProtocolTypeOK /\ ProtocolTypeOK' /\ pending_urbs \in Seq(Urb)
      /\ scan \in [now : Nat, idx : Nat \ {0}]
      /\ wait_timeout_us \in Nat /\ wait_timeout_us' \in Nat
  <2>1. /\ ProtocolTypeOK /\ ProtocolTypeOK' /\ pending_urbs \in Seq(Urb)
        /\ scan \in [now : Nat, idx : Nat \ {0}]
        /\ wait_timeout_us \in 0 .. WAIT_TIMEOUT_US
        /\ wait_timeout_us' \in 0 .. WAIT_TIMEOUT_US
    BY Zenon DEF ShapeInv, ProtocolTypeOK
  <2>2. \A w \in 0 .. WAIT_TIMEOUT_US : w \in Nat
    BY ProtocolAssumption
  <2>3. QED
    BY <2>1, <2>2, Zenon
<1>q. \A i \in 1 .. Len(pending_urbs) :
          pending_urbs[i] \in Urb /\ UrbInv(pending_urbs[i])
  BY <1>t, QueuedUrb, Zenon DEF ShapeInv, QueueInv
<1>u. deviceVars' = deviceVars => \A ep \in InEp : Quiet(ep) => Quiet(ep)'
  BY DEF deviceVars, Quiet, Signalled
<1>1. ASSUME at' \notin {"scan", "iso_scan", "poll", "importing"}
      PROVE  WakeInv'
  BY <1>1, Zenon DEF WakeInv
(* What was passed stays covered, and so does the transfer at m if it is    *)
(* passed now.                                                              *)
<1>2. ASSUME NEW i \in 1 .. Len(pending_urbs), Covered(pending_urbs[i]),
             pending_urbs'[i] = pending_urbs[i],
             scan'.now = scan.now, wait_timeout_us' <= wait_timeout_us,
             ~pending_urbs[i].isochronous =>
                 next_poll_us'[<<"in", pending_urbs[i].ep>>] =
                     next_poll_us[<<"in", pending_urbs[i].ep>>],
             \A ep \in InEp : Quiet(ep) => Quiet(ep)'
      PROVE  Covered(pending_urbs[i])'
  <2>1. PICK u : u = pending_urbs[i]
    BY Zenon
  <2>2. u \in Urb /\ UrbInv(u) /\ Covered(u)
    BY <1>2, <1>q, <2>1, Zenon
  <2>3. ~u.isochronous => u.ep \in InEp
    BY <2>2, InPipe, Zenon DEF UrbInv, PipeOf
  <2>4. Covered(u)'
    BY <1>2, <1>t, <2>1, <2>2, <2>3, CoverKept, Zenon
  <2>5. pending_urbs'[i] = u
    BY <1>2, <2>1, Zenon
  <2>6. QED
    BY <2>4, <2>5, Zenon DEF Covered, TimeoutCovers, due_us, Quiet
(* Nothing but the place changes, or a step of the device is made. *)
<1>3. ASSUME at \in {"scan", "iso_scan", "poll"}, status,
             at' \in {"scan", "iso_scan"}, at # "poll",
             UNCHANGED <<pending_urbs, scan, wait_timeout_us, next_poll_us>>,
             \A ep \in InEp : Quiet(ep) => Quiet(ep)'
      PROVE  WakeInv'
  BY <1>2, <1>3, <1>t DEF WakeInv
<1>4. ASSUME UNCHANGED protocolVars,
             at \in {"scan", "iso_scan", "poll"} =>
                 \A ep \in InEp : Quiet(ep) => Quiet(ep)'
      PROVE  WakeInv'
  <2>1. UNCHANGED <<at, status, pending_urbs, scan, wait_timeout_us, next_poll_us>>
    BY <1>4, Zenon DEF protocolVars
  <2>2. CASE at \in {"scan", "iso_scan", "poll"} /\ status
    BY <1>2, <1>4, <1>t, <2>1, <2>2 DEF WakeInv
  <2>3. CASE ~(at \in {"scan", "iso_scan", "poll"} /\ status)
    BY <2>1, <2>3, Zenon DEF WakeInv
  <2>4. QED
    BY <2>2, <2>3, Zenon
<1>5. CASE Tick \/ HostDisconnects
  <2>1. /\ UNCHANGED <<at, status, pending_urbs, scan, wait_timeout_us>>
        /\ UNCHANGED next_poll_us
        /\ deviceVars' = deviceVars
    BY <1>5, Zenon DEF Tick, HostDisconnects
  <2>2. CASE at \in {"scan", "iso_scan", "poll"} /\ status
    BY <1>2, <1>t, <1>u, <2>1, <2>2 DEF WakeInv
  <2>3. CASE ~(at \in {"scan", "iso_scan", "poll"} /\ status)
    BY <2>1, <2>3, Zenon DEF WakeInv
  <2>4. QED
    BY <2>2, <2>3, Zenon
<1>6. CASE Import
  BY <1>6, Zenon DEF Import, WakeInv
<1>7. CASE ImportReply
  <2>1. pending_urbs' = <<>> /\ at' # "importing"
    BY <1>7, Zenon DEF ImportReply, WakeInv
  <2>2. QED
    BY <2>1 DEF WakeInv
<1>8. CASE ClearThenScan
  <2>1. at' = "scan" /\ scan'.idx = 1
    BY <1>8, Zenon DEF ClearThenScan
  <2>2. QED
    BY <2>1 DEF WakeInv
<1>9. CASE ScanNotDue
  <2>1. /\ at = "scan" /\ at' = "scan" /\ status
        /\ scan' = [scan EXCEPT !.idx = @ + 1]
        /\ wait_timeout_us' = TimeoutFor(current)
        /\ scan.now < due_us(current)
        /\ UNCHANGED <<pending_urbs, next_poll_us>> /\ deviceVars' = deviceVars
    BY <1>9, Zenon DEF ScanNotDue, Scanning
  <2>2. scan'.now = scan.now /\ scan'.idx = scan.idx + 1
    BY <1>t, <2>1, Zenon
  <2>3. scan.idx \in 1 .. Len(pending_urbs)
    BY <1>9, CurrentQueued, Zenon DEF ScanNotDue
  <2>4. due_us(current) \in Nat
    BY <2>3, DueType, Zenon DEF current
  <2>5. /\ wait_timeout_us' <= wait_timeout_us
        /\ wait_timeout_us' <= due_us(current) - scan.now
    BY <1>t, <2>1, <2>4 DEF TimeoutFor, Shorter
  <2>7. ASSUME NEW i \in 1 .. Len(pending_urbs), i < scan.idx + 1
        PROVE  Covered(pending_urbs[i])'
    <3>1. CASE i = scan.idx
      <4>1. due_us(pending_urbs[i])' = due_us(current)
        BY <2>1, <3>1, Zenon DEF due_us, current
      <4>2. QED
        BY <2>1, <2>2, <2>5, <4>1, Zenon DEF Covered, TimeoutCovers
    <3>2. CASE i # scan.idx
      <4>1. i < scan.idx
        BY <1>t, <2>7, <3>2
      <4>2. Covered(pending_urbs[i])
        BY <2>1, <4>1, Zenon DEF WakeInv
      <4>3. QED
        BY <1>2, <1>u, <2>1, <2>2, <2>5, <4>2, Zenon
    <3>3. QED
      BY <3>1, <3>2, Zenon
  <2>8. QED
    BY <2>1, <2>2, <2>7, Zenon DEF WakeInv
<1>10. CASE ScanIso
  BY <1>3, <1>10, <1>u, Zenon DEF ScanIso, Scanning
<1>11. CASE IsoPacket
  <2>1. /\ UNCHANGED <<at, status, pending_urbs, scan, wait_timeout_us>>
        /\ UNCHANGED <<next_poll_us, endpoint_data, ep_data_event, pc>>
    BY <1>11, Zenon DEF IsoPacket, StartCallback, bufferVars, processVars
  <2>2. \A ep \in InEp : Quiet(ep) => Quiet(ep)'
    BY <2>1, Zenon DEF Quiet, Signalled
  <2>3. CASE at = "iso_scan"
    BY <1>3, <2>1, <2>2, <2>3, Zenon DEF WakeInv
  <2>4. CASE at # "iso_scan"
    BY <1>1, <1>11, <2>1, <2>4, Zenon DEF IsoPacket
  <2>5. QED
    BY <2>3, <2>4, Zenon
<1>12. CASE ScanIsoReply
  <2>1. /\ at = "iso_scan" /\ at' = "scan" /\ status
        /\ pending_urbs' = remove_pending_urb(scan.idx)
        /\ UNCHANGED <<scan, wait_timeout_us, next_poll_us>>
        /\ deviceVars' = deviceVars
    BY <1>12, Zenon DEF ScanIsoReply, ShapeInv, PlaceInv
  <2>2. scan.idx \in 1 .. Len(pending_urbs)
    BY <1>12, CurrentQueued, Zenon DEF ScanIsoReply
  <2>3. \A i \in 1 .. Len(pending_urbs') :
            /\ i \in 1 .. Len(pending_urbs)
            /\ i < scan.idx => pending_urbs'[i] = pending_urbs[i]
    BY <1>t, <2>1, <2>2, RemovedBefore, Zenon
  <2>4. ASSUME NEW i \in 1 .. Len(pending_urbs'), i < scan.idx
        PROVE  Covered(pending_urbs[i])'
    <3>1. Covered(pending_urbs[i])
      BY <2>1, <2>3, <2>4, Zenon DEF WakeInv
    <3>2. QED
      BY <1>2, <1>t, <1>u, <2>1, <2>3, <2>4, <3>1
  <2>5. QED
    BY <2>1, <2>4, Zenon DEF WakeInv
<1>13. CASE ScanFetch
  <2> DEFINE e == current.ep
             n == current.length
  <2>1. /\ Scanning /\ at = "scan" /\ at' = "scan" /\ status
        /\ ~current.isochronous /\ scan.now >= due_us(current)
        /\ UNCHANGED wait_timeout_us /\ FetchEpData(e, n)
    BY <1>13, Zenon DEF ScanFetch, Scanning
  <2>2. scan.idx \in 1 .. Len(pending_urbs)
    BY <2>1, CurrentQueued, Zenon
  <2>3. e \in InEp /\ n \in Nat /\ due_us(current) \in Nat
    BY <2>1, <2>2, DueType, LengthAssumption, Zenon DEF current
  <2>4. \A ep \in InEp : Quiet(ep) => Quiet(ep)'
    BY <2>1, <2>3, FetchQuiet, Zenon
  <2>5. CASE Fetched(e, n) # <<>>
    <3>1. /\ next_poll_us' = [next_poll_us EXCEPT ![<<"in", e>>] =
                                  scan.now + Interval[<<"in", e>>]]
          /\ pending_urbs' = remove_pending_urb(scan.idx)
          /\ UNCHANGED scan
      BY <1>13, <2>5, Zenon DEF ScanFetch
    <3>2. \A i \in 1 .. Len(pending_urbs') :
              /\ i \in 1 .. Len(pending_urbs)
              /\ i < scan.idx => pending_urbs'[i] = pending_urbs[i]
      BY <1>t, <2>2, <3>1, RemovedBefore, Zenon
    <3>3. ASSUME NEW i \in 1 .. Len(pending_urbs'), i < scan.idx
          PROVE  Covered(pending_urbs[i])'
      <4>1. /\ Covered(pending_urbs[i]) /\ i \in 1 .. Len(pending_urbs)
            /\ pending_urbs'[i] = pending_urbs[i]
        BY <2>1, <3>2, <3>3, Zenon DEF WakeInv
      <4>2. CASE ~pending_urbs[i].isochronous /\ pending_urbs[i].ep = e
        <5>1. due_us(pending_urbs[i]) = due_us(current)
          BY <2>1, <4>2, Zenon DEF due_us
        <5>2. ~TimeoutCovers(pending_urbs[i])
          BY <1>t, <2>1, <2>3, <5>1 DEF TimeoutCovers
        <5>3. Quiet(e) \/ pending_urbs[i].length = 0
          BY <4>1, <4>2, <5>2, Zenon DEF Covered
        <5>4. PICK ep : ep = e
          BY Zenon
        <5>5. Quiet(ep) \/ pending_urbs[i].length = 0
          BY <5>3, <5>4, Zenon
        <5>6. Quiet(ep)' \/ pending_urbs'[i].length = 0
          BY <2>3, <2>4, <4>1, <5>4, <5>5, Zenon
        <5>7. pending_urbs'[i].ep = ep /\ ~pending_urbs'[i].isochronous
          BY <4>1, <4>2, <5>4, Zenon
        <5>8. QED
          BY <5>6, <5>7, Zenon DEF Covered, Quiet
      <4>3. CASE ~(~pending_urbs[i].isochronous /\ pending_urbs[i].ep = e)
        <5>1. ~pending_urbs[i].isochronous =>
                  <<"in", pending_urbs[i].ep>> # <<"in", e>>
          BY <4>3, Zenon
        <5>2. ~pending_urbs[i].isochronous =>
                  next_poll_us'[<<"in", pending_urbs[i].ep>>] =
                      next_poll_us[<<"in", pending_urbs[i].ep>>]
          <6> DEFINE p == <<"in", pending_urbs[i].ep>>
                     r == <<"in", e>>
          <6>1. next_poll_us \in [Pipe -> Nat]
            BY <1>t, Zenon DEF ProtocolTypeOK
          <6> HIDE DEF p, r
          <6>2. p # r => next_poll_us'[p] = next_poll_us[p]
            BY <3>1, <6>1, SMTT(30) DEF r
          <6>3. QED
            BY <5>1, <6>2, Zenon DEF p, r
        <5>3. scan'.now = scan.now /\ wait_timeout_us' <= wait_timeout_us
          BY <1>t, <2>1, <3>1
        <5>4. QED
          BY <1>2, <2>4, <4>1, <5>2, <5>3, Zenon
      <4>4. QED
        BY <4>2, <4>3, Zenon
    <3>4. QED
      BY <2>1, <3>1, <3>3, Zenon DEF WakeInv
  <2>6. CASE Fetched(e, n) = <<>>
    <3>1. /\ scan' = [scan EXCEPT !.idx = @ + 1]
          /\ UNCHANGED <<next_poll_us, pending_urbs>>
      BY <1>13, <2>6, Zenon DEF ScanFetch
    <3>2. scan'.now = scan.now /\ scan'.idx = scan.idx + 1
      BY <1>t, <3>1, Zenon
    <3>3. Covered(current)
      BY <2>1, <2>3, <2>6, FetchedNothing, Zenon DEF Covered, Quiet
    <3>4. ASSUME NEW i \in 1 .. Len(pending_urbs), i < scan.idx + 1
          PROVE  Covered(pending_urbs[i])'
      <4>1. Covered(pending_urbs[i])
        <5>1. CASE i = scan.idx
          BY <3>3, <5>1, Zenon DEF current
        <5>2. CASE i # scan.idx
          <6>1. i < scan.idx
            BY <1>t, <3>4, <5>2
          <6>2. QED
            BY <2>1, <6>1, Zenon DEF WakeInv
        <5>3. QED
          BY <5>1, <5>2, Zenon
      <4>2. QED
        BY <1>2, <1>t, <2>1, <2>4, <3>1, <3>2, <4>1
    <3>5. QED
      BY <2>1, <3>1, <3>2, <3>4, Zenon DEF WakeInv
  <2>7. QED
    BY <2>5, <2>6, Zenon
<1>14. CASE ScanEnds
  <2>1. /\ at = "scan" /\ at' = "poll" /\ status
        /\ scan.idx > Len(pending_urbs)
        /\ UNCHANGED <<scan, wait_timeout_us, next_poll_us, pending_urbs>>
        /\ deviceVars' = deviceVars
    BY <1>14, Zenon DEF ScanEnds
  <2>2. ASSUME NEW i \in 1 .. Len(pending_urbs)
        PROVE  Covered(pending_urbs[i])'
    <3>1. i < scan.idx
      BY <1>t, <2>1
    <3>2. Covered(pending_urbs[i])
      BY <2>1, <3>1, Zenon DEF WakeInv
    <3>3. QED
      BY <1>2, <1>t, <1>u, <2>1, <3>2
  <2>3. QED
    BY <2>1, <2>2, Zenon DEF WakeInv
<1>15. CASE PollReturns \/ ReadFails \/ ControlAnswer \/ ControlFetch
            \/ ControlReply \/ OutReply \/ ScheduleIso \/ IsoReply
            \/ LostConnection \/ Detached
  BY <1>1, <1>15, Zenon
     DEF PollReturns, ReadFails, ControlAnswer, ControlFetch, ControlReply,
         OutReply, ScheduleIso, IsoReply, LostConnection, Detached
<1>16. ASSUME Submit \/ InvalidCommand
              \/ \E number \in submitted : Unlink(number)
       PROVE  WakeInv'
  <2>1. at' \notin {"scan", "iso_scan", "poll", "importing"}
    BY <1>16, Zenon
       DEF Submit, SubmitControl, SubmitOut, SubmitIn, SubmitIso,
           InvalidCommand, Unlink
  <2>2. QED
    BY <1>1, <2>1, Zenon
<1>17. CASE /\ ServerStep \/ \E t \in Thread : ThreadStep(t)
            /\ UNCHANGED protocolVars
  <2>1. at \in {"scan", "iso_scan", "poll"} => server # "reset"
    BY Zenon DEF ShapeInv, PlaceInv
  <2>2. QED
    BY <1>4, <1>17, <2>1, DeviceSignals, Zenon
<1>18. CASE UNCHANGED allVars
  BY <1>4, <1>18, <1>u, Zenon DEF allVars
<1>19. CASE ProtocolStep
  BY <1>7, <1>8, <1>9, <1>10, <1>11, <1>12, <1>13, <1>14, <1>15, <1>19, Zenon
     DEF ProtocolStep
<1>20. QED
  BY <1>5, <1>6, <1>16, <1>17, <1>18, <1>19, ZenonT(30)
     DEF ProtocolNext, HostStep

(* The server never sleeps in ppoll with something to do: the event is     *)
(* cleared before the scan and the timeout is the shortest over all the    *)
(* transfers, so data that arrives while the scan runs, or for a transfer  *)
(* it has passed, wakes it (usbip_protocol.c, complete_pending_urbs).      *)
THEOREM ServerWakes == ProtocolSpec => []NoLostWakeUp
<1>1. ProtocolInit => WakeInv
  BY Zenon DEF ProtocolInit, WakeInv
<1>2. /\ DeviceTypeOK /\ ShapeInv /\ ShapeInv' /\ WakeInv
      /\ [ProtocolNext]_allVars
      => WakeInv'
  BY WakeStep, Zenon
<1>3. ShapeInv /\ WakeInv => NoLostWakeUp
  <2> SUFFICES ASSUME ShapeInv, WakeInv, at = "poll",
                      NEW i \in 1 .. Len(pending_urbs)
               PROVE  LET u == pending_urbs[i] IN
                      \/ TimeoutCovers(u)
                      \/ /\ ~u.isochronous
                         /\ \/ Signalled
                            \/ endpoint_data[u.ep] = <<>>
                            \/ u.length = 0
    BY Zenon DEF NoLostWakeUp
  <2>1. status
    BY Zenon DEF ShapeInv, PlaceInv
  <2>2. Covered(pending_urbs[i])
    BY <2>1, Zenon DEF WakeInv
  <2>3. QED
    BY <2>2, Zenon DEF Covered, Quiet
<1>4. QED
  BY <1>1, <1>2, <1>3, ShapeInvariant, PTL DEF ProtocolSpec

=============================================================================
