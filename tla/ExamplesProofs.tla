--------------------------- MODULE ExamplesProofs ---------------------------
(***************************************************************************)
(* What a host can get of an earlier host's from the bulk device, the      *)
(* serial port and the keyboard, for any number of hosts, transfers and    *)
(* requests.                                                               *)
(*                                                                         *)
(* None of the properties is inductive: what a host gets depends on where  *)
(* main was when the host came.  The invariants count what main still owes *)
(* to the stream: a report it is about to transmit, unless its transmit    *)
(* waited for a host that has left (Failed), and input it has not yet read.*)
(***************************************************************************)
EXTENDS Examples, TLAPS

Waiter == [ep : {0, 1}, data : Seq(Nat)]

\* The stream of a program that transmits numbers at one place of main.
StreamInv(place) ==
    /\ accepted \in [{1} -> Seq(Nat)]
    /\ waiting \in [{"main"} -> Waiter]
    /\ waiting["main"].ep = 1 => Len(waiting["main"].data) = 1
    /\ waiting["main"] # Library!NotWaiting => blocked
    /\ blocked \in BOOLEAN
    /\ blocked => pc = place

\* What this host got and what main is about to transmit to it.
Owed(place) ==
    Len(accepted[1]) + (IF pc = place /\ ~Failed THEN 1 ELSE 0)

-----------------------------------------------------------------------------
(* The stream                                                              *)

\* What appending to a stream does to its length.
LEMMA LenConcat ==
    ASSUME NEW s \in Seq(Nat), NEW t \in Seq(Nat)
    PROVE  s \o t \in Seq(Nat) /\ Len(s \o t) = Len(s) + Len(t)
OBVIOUS

\* What is owed is what was accepted, and at most one more.
LEMMA OwedNat ==
    ASSUME NEW place, StreamInv(place)
    PROVE  /\ Owed(place) \in Nat /\ Len(accepted[1]) <= Owed(place)
           /\ Owed(place) <= Len(accepted[1]) + 1
<1>1. Len(accepted[1]) \in Nat
  BY DEF StreamInv
<1> DEFINE owed == IF pc = place /\ ~Failed THEN 1 ELSE 0
<1>2. owed = 0 \/ owed = 1
  BY Zenon
<1>3. Owed(place) = Len(accepted[1]) + owed
  BY Zenon DEF Owed
<1> HIDE DEF owed
<1> QED
  BY <1>1, <1>2, <1>3

\* A program starts with an empty stream.
LEMMA InitStream ==
    ASSUME NEW place, AppInit
    PROVE  StreamInv(place) /\ host = "none" /\ pc = "while"
<1>1. /\ accepted = [ep \in {1} |-> <<>>]
      /\ waiting = [t \in {"main"} |-> Library!NotWaiting]
      /\ pc = "while" /\ blocked = FALSE /\ host = "none"
  BY Zenon DEF AppInit, Library!Init, Library!Empty
<1>2. Library!NotWaiting \in Waiter /\ Library!NotWaiting.ep = 0
  BY DEF Library!NotWaiting, Waiter
<1>3. accepted \in [{1} -> Seq(Nat)]
  BY <1>1
<1>4. waiting \in [{"main"} -> Waiter] /\ waiting["main"] = Library!NotWaiting
  BY <1>1, <1>2, Zenon
<1>5. blocked \in BOOLEAN /\ ~blocked
  BY <1>1, Zenon
<1>6. waiting["main"].ep # 1
  BY <1>2, <1>4
<1> QED
  BY <1>1, <1>3, <1>4, <1>5, <1>6, Zenon DEF StreamInv

\* The worker's writes leave the stream and main alone.
LEMMA WritesFrame ==
    ASSUME WriteEnds \/ ListDevice
    PROVE  UNCHANGED <<accepted, delivered, waiting, stopped, host, session,
                       interrupted, pc, blocked, reply>>
BY Zenon DEF WriteEnds, ListDevice, stream, mainVars

\* A transmit changes only the stream and where main is.
LEMMA TransmitFrame ==
    ASSUME NEW from, NEW to, NEW report, Transmit(from, to, report)
    PROVE  UNCHANGED <<stopped, delivered, host, session, interrupted, reply>>
<1>1. CASE Library!Accept(1, <<report>>)
  BY <1>1, Zenon DEF Transmit, Library!Accept
<1>2. CASE Library!Wait("main", 1, <<report>>)
  BY <1>2, Zenon DEF Transmit, Library!Wait
<1>3. CASE Library!AcceptWaiting("main", 1)
  BY <1>3, Zenon DEF Transmit, Library!AcceptWaiting
<1>4. CASE UNCHANGED stream
  BY <1>4, Zenon DEF Transmit, stream
<1> QED
  BY <1>1, <1>2, <1>3, <1>4, Zenon DEF Transmit

\* A reset leaves at most the report main is about to transmit.
LEMMA ResetOwes ==
    ASSUME NEW place, StreamInv(place), Library!Reset, UNCHANGED mainVars
    PROVE  StreamInv(place)' /\ Owed(place)' \in Nat /\ Owed(place)' <= 1
<1>1. /\ accepted' = [ep \in {1} |-> <<>>]
      /\ waiting' = [t \in {"main"} |-> Library!NotWaiting]
      /\ blocked' = blocked /\ pc' = pc
  BY Zenon DEF Library!Reset, Library!Empty, mainVars
<1>2. accepted'[1] = <<>> /\ accepted' \in [{1} -> Seq(Nat)]
  BY <1>1
<1>3. Library!NotWaiting \in Waiter /\ Library!NotWaiting.ep = 0
  BY DEF Library!NotWaiting, Waiter
<1>4. waiting' \in [{"main"} -> Waiter]
      /\ waiting'["main"] = Library!NotWaiting
  BY <1>1, <1>3, Zenon
<1>5. StreamInv(place)'
  BY <1>1, <1>2, <1>3, <1>4, Zenon DEF StreamInv, Library!NotWaiting
<1> QED
  BY <1>2, <1>5 DEF Owed

\* A step of main from another place adds at most the report it goes to
\* transmit.
LEMMA GoOwes ==
    ASSUME NEW place, NEW from, NEW to, from # place, StreamInv(place),
           Go(from, to)
    PROVE  /\ StreamInv(place)'
           /\ Owed(place)' = Owed(place) + (IF to = place THEN 1 ELSE 0)
<1>1. ~blocked /\ pc # place
  BY Zenon DEF StreamInv, Go
<1>2. UNCHANGED <<accepted, waiting, blocked>> /\ pc' = to
  BY Zenon DEF Go, stream
<1>3. Len(accepted[1]) \in Nat
  BY DEF StreamInv
<1>4. StreamInv(place)'
  BY <1>1, <1>2, Zenon DEF StreamInv, Library!NotWaiting
<1>5. ~Failed'
  BY <1>1, <1>2, Zenon DEF Failed
<1> QED
  BY <1>1, <1>2, <1>3, <1>4, <1>5 DEF Owed

\* A step that leaves main and what it transmitted alone owes the same.
LEMMA SameOwed ==
    ASSUME NEW place, StreamInv(place),
           UNCHANGED <<accepted, waiting, pc, blocked>>
    PROVE  StreamInv(place)' /\ Owed(place)' = Owed(place)
BY Zenon DEF StreamInv, Owed, Failed, Library!NotWaiting

\* A transmit moves what was owed to the stream, or loses it.
LEMMA TransmitOwes ==
    ASSUME NEW place, NEW to, to # place, NEW report \in Nat,
           StreamInv(place), Transmit(place, to, report)
    PROVE  StreamInv(place)' /\ Owed(place)' <= Owed(place)
<1>1. Len(accepted[1]) \in Nat
  BY DEF StreamInv
<1>2. CASE ~blocked /\ Library!Accept(1, <<report>>) /\ pc' = to
           /\ blocked' = FALSE
  <2>1. /\ accepted' = [accepted EXCEPT ![1] = @ \o <<report>>]
        /\ waiting' = waiting
    BY <1>2, Zenon DEF Library!Accept
  <2>2. accepted' \in [{1} -> Seq(Nat)]
    BY <2>1 DEF StreamInv
  <2>3. Len(accepted'[1]) = Len(accepted[1]) + 1
    BY <2>1 DEF StreamInv
  <2>4. StreamInv(place)'
    BY <1>2, <2>1, <2>2, Zenon DEF StreamInv, Library!NotWaiting
  <2>5. pc = place /\ ~Failed
    BY <1>2, Zenon DEF Transmit, Failed
  <2> QED
    BY <1>1, <1>2, <2>3, <2>4, <2>5 DEF Owed
<1>3. CASE ~blocked /\ Library!Wait("main", 1, <<report>>) /\ pc' = place
           /\ blocked' = TRUE
  <2> DEFINE waiter == [ep |-> 1, data |-> <<report>>]
  <2>1. /\ accepted' = accepted
        /\ waiting' = [waiting EXCEPT !["main"] = waiter]
    BY <1>3, Zenon DEF Library!Wait
  <2>2. waiter \in Waiter /\ Len(waiter.data) = 1
    BY DEF Waiter
  <2>3. waiting' \in [{"main"} -> Waiter] /\ waiting'["main"] = waiter
    BY <2>1, <2>2, Zenon DEF StreamInv
  <2>4. StreamInv(place)'
    BY <1>3, <2>1, <2>2, <2>3, Zenon DEF StreamInv
  <2>5. pc = place /\ ~Failed
    BY <1>3, Zenon DEF Transmit, Failed
  <2> QED
    BY <1>1, <2>1, <2>4, <2>5 DEF Owed
<1>4. CASE blocked /\ Library!AcceptWaiting("main", 1) /\ pc' = to
           /\ blocked' = FALSE
  <2>1. /\ waiting["main"].ep = 1
        /\ accepted' = [accepted EXCEPT ![1] = @ \o waiting["main"].data]
        /\ waiting' = [waiting EXCEPT !["main"] = Library!NotWaiting]
    BY <1>4, Zenon DEF Library!AcceptWaiting
  <2>2. waiting["main"].data \in Seq(Nat) /\ Len(waiting["main"].data) = 1
    BY <2>1, Zenon DEF StreamInv, Waiter
  <2>3. accepted' \in [{1} -> Seq(Nat)]
    BY <2>1, <2>2 DEF StreamInv
  <2>4. Len(accepted'[1]) = Len(accepted[1]) + 1
    <3>1. accepted[1] \in Seq(Nat)
      BY Zenon DEF StreamInv
    <3>2. accepted'[1] = accepted[1] \o waiting["main"].data
      BY <2>1, Zenon DEF StreamInv
    <3> QED
      BY <2>2, <3>1, <3>2, LenConcat, Zenon
  <2>5. Library!NotWaiting \in Waiter /\ Library!NotWaiting.ep = 0
    BY DEF Library!NotWaiting, Waiter
  <2>6. waiting' \in [{"main"} -> Waiter]
        /\ waiting'["main"] = Library!NotWaiting
    BY <2>1, <2>5, Zenon DEF StreamInv
  <2>7. StreamInv(place)'
    <3>1. waiting'["main"].ep # 1
      BY <2>5, <2>6
    <3> QED
      BY <1>4, <2>3, <2>6, <3>1, Zenon DEF StreamInv, Library!NotWaiting
  <2>8. pc = place /\ ~Failed
    BY <2>1, <2>5 DEF Transmit, Failed
  <2> QED
    BY <1>1, <1>4, <2>4, <2>7, <2>8 DEF Owed
<1>5. CASE /\ Failed \/ (stopped /\ ~blocked)
           /\ pc' = to /\ blocked' = FALSE
           /\ UNCHANGED stream
  <2>1. UNCHANGED <<accepted, waiting>>
    BY <1>5, Zenon DEF stream
  <2>2. waiting["main"] = Library!NotWaiting
    BY <1>5, Zenon DEF Failed, StreamInv
  <2>3. StreamInv(place)'
    BY <1>5, <2>1, <2>2, Zenon DEF StreamInv, Library!NotWaiting
  <2> QED
    BY <1>1, <1>5, <2>1, <2>3 DEF Owed
<1> QED
  BY <1>2, <1>3, <1>4, <1>5, Zenon DEF Transmit

-----------------------------------------------------------------------------
(* The bulk device                                                         *)

Unread == IF bulk_input_pos > 0 THEN 1 ELSE 0

BulkInv ==
    program = "bulk" /\ ~stopped =>
        /\ StreamInv("reply")
        /\ bulk_input_pos \in Nat /\ msg_counter \in Nat
        /\ bulk_transfers \in Nat
        /\ host = "attaching" => Owed("reply") + Unread <= 2
        /\ host = "attached" =>
               Owed("reply") + Unread <= bulk_transfers + 2

\* The server thread.
LEMMA BulkServerKeepsInv ==
    ASSUME BulkInv, program = "bulk", program' = program,
           \/ Server /\ UNCHANGED bulkVars
           \/ Fetch /\ UNCHANGED bulkVars
           \/ BulkRequest
           \/ \E data_length \in BulkLength : bulk_endpoint_data(data_length)
           \/ BulkResetEnds
    PROVE  BulkInv'
<1> SUFFICES ASSUME ~stopped' PROVE BulkInv'
  BY Zenon DEF BulkInv
<1>1. CASE AttachStarts /\ UNCHANGED bulkVars
  <2>1. StreamInv("reply") /\ Library!Reset /\ UNCHANGED mainVars
    BY <1>1, Zenon DEF AttachStarts, BulkInv
  <2>2. StreamInv("reply")' /\ Owed("reply")' \in Nat /\ Owed("reply")' <= 1
    BY <2>1, ResetOwes, Zenon
  <2>3. ~stopped /\ host' = "attaching"
    BY <1>1, Zenon DEF AttachStarts
  <2> QED
    BY <1>1, <2>2, <2>3 DEF BulkInv, bulkVars, Unread
<1>2. CASE DetachStarts /\ UNCHANGED bulkVars
  <2>1. StreamInv("reply") /\ Library!Reset /\ UNCHANGED mainVars
    BY <1>2, Zenon DEF DetachStarts, BulkInv
  <2>2. StreamInv("reply")'
    BY <2>1, ResetOwes, Zenon
  <2>3. ~stopped /\ host' = "detaching"
    BY <1>2, Zenon DEF DetachStarts
  <2> QED
    BY <1>2, <2>2, <2>3, Zenon DEF BulkInv, bulkVars
<1>3. CASE WorkerEnds
  BY <1>3, Zenon DEF WorkerEnds, Library!Stop
<1>4. ASSUME ~stopped, UNCHANGED <<accepted, waiting, pc, blocked>>,
             host' \in {host, "attached", "none"},
             bulk_input_pos' \in Nat, UNCHANGED msg_counter,
             bulk_transfers' \in Nat,
             \/ host' = host /\ Unread' <= Unread
                            /\ bulk_transfers' = bulk_transfers
             \/ host' = host /\ bulk_transfers' = bulk_transfers + 1
                            /\ host = "attached"
             \/ host = "attaching" /\ Unread' = Unread
             \/ host' = "none"
      PROVE  BulkInv'
  <2>1. StreamInv("reply")' /\ Owed("reply")' = Owed("reply")
    BY <1>4, SameOwed, Zenon DEF BulkInv
  <2>2. Owed("reply") \in Nat
    BY <1>4, OwedNat, Zenon DEF BulkInv
  <2> QED
    BY <1>4, <2>1, <2>2 DEF BulkInv, Unread
<1>5. CASE Interrupt /\ UNCHANGED bulkVars
  BY <1>4, <1>5 DEF Interrupt, BulkInv, stream, mainVars, bulkVars, Unread
<1>6. CASE Fetch /\ UNCHANGED bulkVars
  BY <1>4, <1>6
     DEF Fetch, Library!Deliver, BulkInv, mainVars, bulkVars, Unread
<1>7. CASE BulkRequest
  BY <1>4, <1>7
     DEF BulkRequest, Control, BulkInv, stream, mainVars, bulkVars, Unread
<1>8. ASSUME NEW data_length \in BulkLength, bulk_endpoint_data(data_length)
      PROVE  BulkInv'
  <2>1. data_length \in Nat
    BY BulkAssumption, Zenon
  <2>2. /\ host = "attached" /\ ~stopped /\ host' = host
        /\ UNCHANGED <<accepted, waiting, pc, blocked, msg_counter>>
    BY <1>8, Zenon
       DEF bulk_endpoint_data, Transfer, Serving, stream, mainVars
  <2>3. /\ bulk_input_pos' \in Nat
        /\ bulk_transfers' \in Nat /\ bulk_transfers' = bulk_transfers + 1
    BY <1>8, <2>1, <2>2 DEF bulk_endpoint_data, BulkInv
  <2> QED
    BY <1>4, <2>2, <2>3, Zenon
<1>9. CASE BulkResetEnds
  BY <1>4, <1>9, Zenon
     DEF BulkResetEnds, ResetEnds, BulkInv, stream, mainVars, Unread
<1>10. CASE (WriteEnds \/ ListDevice) /\ UNCHANGED bulkVars
  <2>1. /\ stopped' = stopped /\ host' = host
        /\ UNCHANGED <<accepted, waiting, pc, blocked>>
    BY <1>10, WritesFrame, Zenon
  <2>2. ~stopped
    BY <2>1
  <2> QED
    BY <1>4, <1>10, <2>1, <2>2 DEF BulkInv, bulkVars, Unread
<1> QED
  BY <1>1, <1>2, <1>3, <1>5, <1>6, <1>7, <1>8, <1>9, <1>10, Zenon DEF Server

\* main.
LEMMA BulkMainKeepsInv ==
    ASSUME BulkInv, program = "bulk", program' = program, BulkMain
    PROVE  BulkInv'
<1> SUFFICES ASSUME ~stopped' PROVE BulkInv'
  BY Zenon DEF BulkInv
<1>1. ASSUME ~stopped, host' = host, UNCHANGED bulk_transfers,
             msg_counter' \in Nat, bulk_input_pos' \in Nat,
             StreamInv("reply")',
             Owed("reply")' \in Nat,
             Owed("reply")' + Unread' <= Owed("reply") + Unread
      PROVE  BulkInv'
  <2>1. Owed("reply") \in Nat
    BY <1>1, OwedNat, Zenon DEF BulkInv
  <2> QED
    BY <1>1, <2>1 DEF BulkInv, Unread
<1>2. ASSUME StreamInv("reply")' PROVE Owed("reply")' \in Nat
  BY <1>2 DEF StreamInv, Owed
<1>3. CASE BulkWhile
  <2>1. Go("while", IF interrupted THEN "stop" ELSE "input")
    BY <1>3, Zenon DEF BulkWhile, While
  <2>2. ~stopped /\ host' = host
    BY <2>1, Zenon DEF Go, stream
  <2>3. StreamInv("reply")' /\ Owed("reply")' = Owed("reply")
    <3>1. (IF interrupted THEN "stop" ELSE "input") # "reply"
      BY Zenon
    <3> QED
      BY <2>1, <2>2, <3>1, GoOwes, OwedNat DEF BulkInv
  <2> QED
    BY <1>1, <1>2, <1>3, <2>2, <2>3, Zenon
       DEF BulkWhile, bulkVars, Unread, BulkInv
<1>4. CASE BulkPrints /\ bulk_input_pos > 0
  <2>1. Go("input", "reply") /\ bulk_input_pos' = 0
            /\ msg_counter' = msg_counter + 1 /\ UNCHANGED bulk_transfers
    BY <1>4, Zenon DEF BulkPrints
  <2>2. ~stopped /\ host' = host
    BY <2>1, Zenon DEF Go, stream
  <2>3. StreamInv("reply")' /\ Owed("reply")' = Owed("reply") + 1
    BY <2>1, <2>2, GoOwes, Zenon DEF BulkInv
  <2>4. Owed("reply") \in Nat
    BY <2>2, OwedNat, Zenon DEF BulkInv
  <2> QED
    BY <1>1, <1>2, <1>4, <2>1, <2>2, <2>3, <2>4 DEF Unread, BulkInv
<1>5. CASE BulkPrints /\ ~(bulk_input_pos > 0)
  <2>1. Go("input", "while") /\ UNCHANGED bulkVars
    BY <1>5, Zenon DEF BulkPrints, bulkVars
  <2>2. ~stopped /\ host' = host
    BY <2>1, Zenon DEF Go, stream
  <2>3. StreamInv("reply")' /\ Owed("reply")' = Owed("reply")
    BY <2>1, <2>2, GoOwes, OwedNat DEF BulkInv
  <2> QED
    BY <1>1, <1>2, <2>1, <2>2, <2>3, Zenon DEF bulkVars, Unread, BulkInv
<1>6. CASE BulkTransmits
  <2>1. Transmit("reply", "while", msg_counter) /\ UNCHANGED bulkVars
    BY <1>6, Zenon DEF BulkTransmits
  <2>2. ~stopped /\ host' = host
    BY <2>1, TransmitFrame, Zenon
  <2>3. StreamInv("reply")' /\ Owed("reply")' <= Owed("reply")
    BY <2>1, <2>2, TransmitOwes, Zenon DEF BulkInv
  <2>4. Owed("reply") \in Nat
    BY <2>2, OwedNat, Zenon DEF BulkInv
  <2> QED
    BY <1>1, <1>2, <2>1, <2>2, <2>3, <2>4 DEF bulkVars, Unread, BulkInv
<1>7. CASE Stop
  BY <1>7, Zenon DEF Stop, Go, stream
<1> QED
  BY <1>3, <1>4, <1>5, <1>6, <1>7, Zenon DEF BulkMain

\* A host gets at most two answers of the bulk device more than it sent
\* transfers, whatever the hosts before it left.
THEOREM BulkAnswers == ExamplesSpec => []AnswersNeedInput
<1>1. ExamplesInit => BulkInv
  <2> SUFFICES ASSUME ExamplesInit PROVE BulkInv
    BY Zenon
  <2>1. StreamInv("reply") /\ host = "none"
    BY InitStream, Zenon DEF ExamplesInit
  <2> QED
    BY <2>1, Zenon DEF ExamplesInit, BulkInit, BulkInv
<1>2. BulkInv /\ [ExamplesNext]_exampleVars => BulkInv'
  <2> SUFFICES ASSUME BulkInv, [ExamplesNext]_exampleVars PROVE BulkInv'
    BY Zenon
  <2>1. CASE Bulk /\ BulkNext
    BY <2>1, BulkServerKeepsInv, BulkMainKeepsInv, Zenon DEF Bulk, BulkNext
  <2>2. CASE UNCHANGED exampleVars
    BY <2>2, Zenon
       DEF exampleVars, appVars, stream, mainVars, bulkVars, BulkInv,
           StreamInv, Owed, Failed, Unread, Library!NotWaiting
  <2>3. CASE ExamplesNext /\ program # "bulk"
    BY <2>3, Zenon DEF ExamplesNext, Bulk, Cdc, Keyboard, Mouse, Audio, BulkInv
  <2> QED
    BY <2>1, <2>2, <2>3, Zenon DEF ExamplesNext, Cdc, Keyboard, Mouse, Audio
<1>3. BulkInv => AnswersNeedInput
  <2> SUFFICES ASSUME BulkInv, ServedBy("bulk")
               PROVE  Len(accepted[1]) <= bulk_transfers + 2
    BY Zenon DEF AnswersNeedInput
  <2>1. /\ StreamInv("reply") /\ bulk_transfers \in Nat
        /\ Owed("reply") + Unread <= bulk_transfers + 2
    BY Zenon DEF BulkInv, ServedBy, Serving
  <2>2. Len(accepted[1]) \in Nat
    BY <2>1 DEF StreamInv
  <2> QED
    BY <2>1, <2>2, OwedNat DEF Unread
<1> QED
  BY <1>1, <1>2, <1>3, PTL DEF ExamplesSpec

-----------------------------------------------------------------------------
(* The serial port                                                         *)

CdcInv ==
    /\ cdc_input_pos \in 0 .. CDC_INPUT_BUFFER_LENGTH
    /\ program = "cdc" /\ ~stopped =>
        /\ StreamInv("tick")
        /\ tick_counter \in Nat /\ (pc = "tick" => tick_counter > 0)
        /\ heard \in Nat
        /\ host = "attached" => cdc_input_from \subseteq {session}
        /\ host \in {"none", "attaching"} => ~DTR
        /\ host = "attached" /\ DTR => terminal
        /\ host = "attaching" => Owed("tick") <= 1
        /\ host = "attached" /\ ~terminal => Owed("tick") <= heard + 1

\* Steps of the server thread that leave the stream alone.
LEMMA CdcSameStream ==
    ASSUME CdcInv, program = "cdc", program' = program, ~stopped,
           UNCHANGED <<accepted, waiting, pc, blocked, tick_counter>>,
           cdc_input_pos' \in 0 .. CDC_INPUT_BUFFER_LENGTH,
           host' = "attached" => cdc_input_from' \subseteq {session'},
           host' \in {"none", "attaching"} => ~DTR',
           host' = "attached" /\ DTR' => terminal',
           host' = "attaching" => host = "attaching",
           heard' \in Nat,
           host' = "attached" /\ ~terminal' =>
               \/ host = "attaching"
               \/ host = "attached" /\ ~terminal /\ heard' = heard
               \/ heard' = Len(accepted[1])
    PROVE  CdcInv'
<1>1. StreamInv("tick")' /\ Owed("tick")' = Owed("tick")
  BY SameOwed, Zenon DEF CdcInv
<1>2. Owed("tick") \in Nat /\ Owed("tick") <= Len(accepted[1]) + 1
  BY OwedNat, Zenon DEF CdcInv
<1>3. /\ host = "attaching" => Owed("tick") <= 1
      /\ host = "attached" /\ ~terminal => Owed("tick") <= heard + 1
  BY Zenon DEF CdcInv
<1>4. host' = "attached" /\ ~terminal' => Owed("tick")' <= heard' + 1
  BY <1>1, <1>2, <1>3
<1> QED
  BY <1>1, <1>4, Zenon DEF CdcInv, CDC_INPUT_BUFFER_LENGTH

\* The server thread.
LEMMA CdcServerKeepsInv ==
    ASSUME CdcInv, program = "cdc", program' = program,
           \/ Server /\ UNCHANGED cdcVars
           \/ CdcFetch
           \/ \E coding \in LineCoding, data_length \in {0, 7} :
                  CDC_SET_LINE_CODING(coding, data_length)
           \/ \E wValue \in LineState : CDC_SET_CONTROL_LINE_STATE(wValue)
           \/ CdcOtherRequest
           \/ \E data_length \in CdcLength : cdc_endpoint_data(data_length)
           \/ CdcResetCallback
    PROVE  CdcInv'
<1> USE DEF cdcVars, cdcInput, cdcLine
<1>1. CASE AttachStarts /\ UNCHANGED cdcVars
  <2>1. StreamInv("tick") /\ Library!Reset /\ UNCHANGED mainVars
    BY <1>1, Zenon DEF AttachStarts, CdcInv
  <2>2. StreamInv("tick")' /\ Owed("tick")' <= 1
    BY <2>1, ResetOwes, Zenon
  <2>3. ~stopped /\ host = "none" /\ host' = "attaching" /\ pc' = pc
    BY <1>1, Zenon DEF AttachStarts, mainVars
  <2> QED
    BY <1>1, <2>2, <2>3, Zenon DEF CdcInv, CDC_INPUT_BUFFER_LENGTH
<1>2. CASE DetachStarts /\ UNCHANGED cdcVars
  <2>1. StreamInv("tick") /\ Library!Reset /\ UNCHANGED mainVars
    BY <1>2, Zenon DEF DetachStarts, CdcInv
  <2>2. StreamInv("tick")'
    BY <2>1, ResetOwes, Zenon
  <2>3. ~stopped /\ host' = "detaching" /\ pc' = pc
    BY <1>2, Zenon DEF DetachStarts, mainVars
  <2> QED
    BY <1>2, <2>2, <2>3, Zenon DEF CdcInv, CDC_INPUT_BUFFER_LENGTH
<1>3. CASE WorkerEnds /\ UNCHANGED cdcVars
  BY <1>3, Zenon DEF WorkerEnds, Library!Stop, CdcInv, CDC_INPUT_BUFFER_LENGTH
<1>4. CASE Interrupt /\ UNCHANGED cdcVars
  <2>1. CASE stopped
    BY <1>4, <2>1, Zenon
       DEF Interrupt, stream, CdcInv, CDC_INPUT_BUFFER_LENGTH
  <2>2. CASE ~stopped
    BY <1>4, <2>2, CdcSameStream, Zenon
       DEF Interrupt, stream, mainVars, CdcInv
  <2> QED
    BY <2>1, <2>2, Zenon
<1>5. CASE CdcFetch
  BY <1>5, CdcSameStream, Zenon
     DEF CdcFetch, Fetch, Serving, Library!Deliver, mainVars, CdcInv
<1>6. ASSUME NEW coding, NEW data_length,
             CDC_SET_LINE_CODING(coding, data_length)
      PROVE  CdcInv'
  BY <1>6, CdcSameStream, Zenon
     DEF CDC_SET_LINE_CODING, Control, Serving, stream, mainVars, CdcInv
<1>7. ASSUME NEW wValue, CDC_SET_CONTROL_LINE_STATE(wValue)
      PROVE  CdcInv'
  <2>1. /\ host = "attached" /\ host' = host /\ ~stopped /\ session' = session
        /\ UNCHANGED <<accepted, waiting, pc, blocked, tick_counter>>
        /\ UNCHANGED <<cdc_input_pos, cdc_input_from>>
    BY <1>7, Zenon
       DEF CDC_SET_CONTROL_LINE_STATE, Control, Serving, stream, mainVars
  <2>2. /\ terminal' = DTR'
        /\ heard' = IF DTR' THEN 0
                    ELSE IF terminal THEN Len(accepted[1]) ELSE heard
    BY <1>7, Zenon DEF CDC_SET_CONTROL_LINE_STATE
  <2>3. Len(accepted[1]) \in Nat
    <3>1. StreamInv("tick")
      BY <2>1, Zenon DEF CdcInv
    <3> QED
      BY <3>1 DEF StreamInv
  <2>4. heard' \in Nat
    BY <2>1, <2>2, <2>3, Zenon DEF CdcInv
  <2>5. ~terminal' => \/ ~terminal /\ heard' = heard
                      \/ heard' = Len(accepted[1])
    BY <2>2, Zenon
  <2> QED
    BY <2>1, <2>2, <2>4, <2>5, CdcSameStream, Zenon DEF CdcInv
<1>8. CASE CdcOtherRequest
  BY <1>8, CdcSameStream, Zenon
     DEF CdcOtherRequest, Control, Serving, stream, mainVars, CdcInv
<1>9. ASSUME NEW data_length \in CdcLength, cdc_endpoint_data(data_length)
      PROVE  CdcInv'
  <2>1. data_length \in Nat
    BY CdcAssumption, Zenon
  <2>2. /\ host = "attached" /\ host' = host /\ ~stopped /\ session' = session
        /\ UNCHANGED <<accepted, waiting, pc, blocked, tick_counter, DTR,
                       terminal, heard>>
    BY <1>9, Zenon
       DEF cdc_endpoint_data, Transfer, Serving, stream, mainVars
  <2>3. cdc_input_pos' \in 0 .. CDC_INPUT_BUFFER_LENGTH
    BY <1>9, <2>1, SMTT(30)
       DEF cdc_endpoint_data, CdcInv, CDC_INPUT_BUFFER_LENGTH
  <2>4. cdc_input_from' \subseteq {session}
    BY <1>9, <2>2, Zenon DEF cdc_endpoint_data, CdcInv
  <2> QED
    BY <2>2, <2>3, <2>4, CdcSameStream, Zenon DEF CdcInv
<1>10. CASE CdcResetCallback
  <2>1. /\ cdc_input_pos' = 0 /\ cdc_input_from' = {}
        /\ DTR' = FALSE /\ heard' = 0
        /\ UNCHANGED <<stopped, accepted, waiting, pc, blocked, tick_counter>>
        /\ \/ host = "attaching" /\ host' \in {"attached", "none"}
           \/ host = "detaching" /\ host' = "none"
    BY <1>10, Zenon
       DEF CdcResetCallback, cdc_reset, ResetEnds, stream, mainVars
  <2>2. cdc_input_pos' \in 0 .. CDC_INPUT_BUFFER_LENGTH
    BY <2>1 DEF CDC_INPUT_BUFFER_LENGTH
  <2>3. CASE stopped
    BY <2>1, <2>2, <2>3, Zenon DEF CdcInv, CDC_INPUT_BUFFER_LENGTH
  <2>4. CASE ~stopped
    BY <2>1, <2>2, <2>4, CdcSameStream, Zenon
  <2> QED
    BY <2>3, <2>4, Zenon
<1>11. CASE (WriteEnds \/ ListDevice) /\ UNCHANGED cdcVars
  <2>1. UNCHANGED <<accepted, waiting, stopped, host, session, pc, blocked>>
    BY <1>11, WritesFrame, Zenon
  <2>2. CASE stopped
    BY <1>11, <2>1, <2>2, Zenon DEF CdcInv, CDC_INPUT_BUFFER_LENGTH
  <2>3. CASE ~stopped
    BY <1>11, <2>1, <2>3, CdcSameStream, Zenon DEF CdcInv
  <2> QED
    BY <2>2, <2>3, Zenon
<1> QED
  BY <1>1, <1>2, <1>3, <1>4, <1>5, <1>6, <1>7, <1>8, <1>9, <1>10,
     <1>11, Zenon
     DEF Server

\* main.
LEMMA CdcMainKeepsInv ==
    ASSUME CdcInv, program = "cdc", program' = program, CdcMain
    PROVE  CdcInv'
<1>1. CASE stopped
  <2>1. UNCHANGED stopped
    BY TransmitFrame, Zenon
       DEF CdcMain, CdcWhile, CdcReadsDTR, CdcTransmits, CdcPrints, Stop,
           While, Go, stream
  <2>2. cdc_input_pos' \in {0, cdc_input_pos}
    BY Zenon
       DEF CdcMain, CdcWhile, CdcReadsDTR, CdcTransmits, CdcPrints, cdcVars,
           cdcInput
  <2> QED
    BY <1>1, <2>1, <2>2, SMTT(30) DEF CdcInv, CDC_INPUT_BUFFER_LENGTH
<1>2. CASE ~stopped
  <2>1. ASSUME UNCHANGED <<stopped, host, session, DTR, terminal, heard>>,
               cdc_input_pos' = cdc_input_pos \/ cdc_input_pos' = 0,
               cdc_input_from' \subseteq cdc_input_from,
               tick_counter' \in Nat, pc' = "tick" => tick_counter' > 0,
               StreamInv("tick")',
               \/ Owed("tick")' <= Owed("tick")
               \/ DTR
        PROVE  CdcInv'
    <3>1. Owed("tick") \in Nat
      BY <1>2, OwedNat, Zenon DEF CdcInv
    <3>2. Owed("tick")' \in Nat
      BY <2>1 DEF StreamInv, Owed
    <3> QED
      BY <1>2, <2>1, <3>1, <3>2 DEF CdcInv, CDC_INPUT_BUFFER_LENGTH
  <2>2. ASSUME NEW from, NEW to, from # "tick", to # "tick", Go(from, to)
        PROVE  /\ UNCHANGED <<stopped, host, session>> /\ pc' # "tick"
               /\ StreamInv("tick")' /\ Owed("tick")' = Owed("tick")
    BY <1>2, <2>2, GoOwes, OwedNat, SMTT(30) DEF Go, stream, CdcInv
  <2>3. CASE CdcWhile
    <3>1. (IF interrupted THEN "stop" ELSE "DTR") # "tick"
      BY Zenon
    <3>2. Go("while", IF interrupted THEN "stop" ELSE "DTR")
      BY <2>3, Zenon DEF CdcWhile, While
    <3>3. /\ UNCHANGED <<stopped, host, session>> /\ pc' # "tick"
          /\ StreamInv("tick")' /\ Owed("tick")' = Owed("tick")
      BY <2>2, <3>1, <3>2, Zenon
    <3>4. Owed("tick") \in Nat
      BY <1>2, OwedNat, Zenon DEF CdcInv
    <3> QED
      BY <1>2, <2>1, <2>3, <3>3, <3>4, Zenon
         DEF CdcWhile, cdcVars, cdcInput, cdcLine, CdcInv
  <2>4. CASE Go("DTR", "input") /\ UNCHANGED cdcVars
    <3>1. Owed("tick") \in Nat
      BY <1>2, OwedNat, Zenon DEF CdcInv
    <3> QED
      BY <1>2, <2>1, <2>2, <2>4, <3>1, Zenon
         DEF cdcVars, cdcInput, cdcLine, CdcInv
  <2>5. CASE /\ DTR /\ Go("DTR", "tick")
             /\ tick_counter' = tick_counter + 1
             /\ UNCHANGED <<cdcInput, cdcLine>>
    <3>1. StreamInv("tick")'
      BY <1>2, <2>5, GoOwes, Zenon DEF CdcInv
    <3>2. UNCHANGED <<stopped, host, session>>
      BY <2>5, Zenon DEF Go, stream
    <3> QED
      BY <1>2, <2>1, <2>5, <3>1, <3>2 DEF cdcInput, cdcLine, CdcInv
  <2>6. CASE CdcTransmits
    <3>1. Transmit("tick", "input", tick_counter - 1) /\ UNCHANGED cdcVars
      BY <2>6, Zenon DEF CdcTransmits
    <3>2. UNCHANGED <<stopped, host, session>>
      BY <3>1, TransmitFrame, Zenon
    <3>3. tick_counter \in Nat /\ tick_counter > 0 /\ StreamInv("tick")
      BY <1>2, <3>1, Zenon DEF CdcInv, Transmit
    <3>4. tick_counter - 1 \in Nat
      BY <3>3
    <3>5. StreamInv("tick")' /\ Owed("tick")' <= Owed("tick")
      BY <3>1, <3>3, <3>4, TransmitOwes, Zenon
    <3> QED
      BY <2>1, <3>1, <3>2, <3>3, <3>5, Zenon DEF cdcVars, cdcInput, cdcLine
  <2>7. CASE CdcPrints
    <3>1. Owed("tick") \in Nat
      BY <1>2, OwedNat, Zenon DEF CdcInv
    <3> QED
      BY <1>2, <2>1, <2>2, <2>7, <3>1 DEF CdcPrints, cdcLine, CdcInv
  <2>8. CASE Stop
    BY <1>2, <2>8, Zenon DEF Stop
  <2> QED
    BY <2>3, <2>4, <2>5, <2>6, <2>7, <2>8, Zenon DEF CdcMain, CdcReadsDTR
<1> QED
  BY <1>1, <1>2, Zenon

\* The invariant of the serial port.
LEMMA CdcInvariant == ExamplesSpec => []CdcInv
<1>1. ExamplesInit => CdcInv
  <2> SUFFICES ASSUME ExamplesInit PROVE CdcInv
    BY Zenon
  <2>1. StreamInv("tick") /\ host = "none" /\ pc = "while"
    BY InitStream, Zenon DEF ExamplesInit
  <2> QED
    BY <2>1 DEF ExamplesInit, CdcInit, CdcInv, CDC_INPUT_BUFFER_LENGTH
<1>2. CdcInv /\ [ExamplesNext]_exampleVars => CdcInv'
  <2> SUFFICES ASSUME CdcInv, [ExamplesNext]_exampleVars PROVE CdcInv'
    BY Zenon
  <2>1. CASE Cdc /\ CdcNext
    BY <2>1, CdcServerKeepsInv, CdcMainKeepsInv, Zenon DEF Cdc, CdcNext
  <2>2. CASE UNCHANGED exampleVars
    BY <2>2, Zenon
       DEF exampleVars, appVars, stream, mainVars, cdcVars, cdcInput, cdcLine,
           CdcInv, CDC_INPUT_BUFFER_LENGTH, StreamInv, Owed, Failed,
           Library!NotWaiting
  <2>3. CASE ExamplesNext /\ program # "cdc"
    BY <2>3, Zenon
       DEF ExamplesNext, Bulk, Cdc, Keyboard, Mouse, Audio, CdcInv, cdcVars,
           cdcInput, CDC_INPUT_BUFFER_LENGTH
  <2> QED
    BY <2>1, <2>2, <2>3, Zenon DEF ExamplesNext, Bulk, Keyboard, Mouse, Audio
<1> QED
  BY <1>1, <1>2, PTL DEF ExamplesSpec

\* While a host keeps DTR low, at most one tick of the serial port comes more
\* than there were when it let DTR fall, whatever the hosts before it did.
THEOREM CdcTicks == ExamplesSpec => []OneLateTick
<1>1. CdcInv => OneLateTick
  <2> SUFFICES ASSUME CdcInv, ServedBy("cdc"), ~terminal
               PROVE  Len(accepted[1]) <= heard + 1
    BY Zenon DEF OneLateTick
  <2>1. StreamInv("tick") /\ heard \in Nat /\ Owed("tick") <= heard + 1
    BY Zenon DEF CdcInv, ServedBy, Serving
  <2>2. Len(accepted[1]) \in Nat
    BY <2>1 DEF StreamInv
  <2> QED
    BY <2>1, <2>2, OwedNat
<1> QED
  BY <1>1, CdcInvariant, PTL

\* What main of the serial port prints fits its buffer and was sent by the
\* host that is served.
THEOREM CdcInput == ExamplesSpec => []InputOfThisHost
<1>1. CdcInv => InputOfThisHost
  BY DEF CdcInv, InputOfThisHost, ServedBy, Serving, CDC_INPUT_BUFFER_LENGTH
<1> QED
  BY <1>1, CdcInvariant, PTL

-----------------------------------------------------------------------------
(* The keyboard, for any text.  The invariant counts, with the texts begun, *)
(* the text main is about to begin and the configuration it has not yet     *)
(* noticed, whichever host asked for them.                                  *)

\* main is about to begin a text.
About ==
    IF string_idx = 0 /\ \/ pc = "type" /\ ~interrupted
                         \/ pc = "press" /\ ~Failed
    THEN 1 ELSE 0

\* main has a configuration to notice.
Active == IF configuration_active THEN 1 ELSE 0

KeyboardTypeInv ==
    /\ waiting = [t \in {"main"} |-> waiting["main"]]
    /\ waiting["main"] # Library!NotWaiting => blocked
    /\ blocked => pc \in {"press", "release"}
    /\ texts \in Nat /\ asked \in Nat /\ string_idx \in Nat

KeyboardInv ==
    program = "keyboard" =>
        KeyboardTypeInv /\ texts + About + Active <= asked

\* Both are 0 or 1.
LEMMA AboutActive ==
    /\ About = 0 \/ About = 1
    /\ Active = 0 \/ Active = 1
    /\ About' = 0 \/ About' = 1
    /\ Active' = 0 \/ Active' = 1
BY Zenon DEF About, Active

\* The server thread.
LEMMA KeyboardServerKeepsInv ==
    ASSUME KeyboardInv, program = "keyboard", program' = program,
           \/ Server /\ UNCHANGED keyboardVars
           \/ Fetch /\ UNCHANGED keyboardVars
           \/ \E value \in {0, 1} : KeyboardSetConfiguration(value)
           \/ KeyboardOtherRequest
           \/ KeyboardResetEnds
    PROVE  KeyboardInv'
<1> USE DEF keyboardVars, keyboardHistory
<1>1. ASSUME UNCHANGED <<pc, blocked, string_idx, texts>>,
             interrupted => interrupted',
             \/ waiting' = waiting
             \/ waiting' = [t \in {"main"} |-> Library!NotWaiting],
             \/ UNCHANGED <<configuration_active, asked>>
             \/ ~configuration_active' /\ asked' = asked
             \/ asked' = asked + 1
      PROVE  KeyboardInv'
  <2>1. KeyboardTypeInv /\ texts + About + Active <= asked
    BY Zenon DEF KeyboardInv
  <2>2. /\ waiting' = [t \in {"main"} |-> waiting'["main"]]
        /\ waiting'["main"] = Library!NotWaiting \/ waiting' = waiting
    BY <1>1, <2>1, Zenon DEF KeyboardTypeInv
  <2>3. asked' \in Nat
    BY <1>1, <2>1, SMTT(30) DEF KeyboardTypeInv
  <2>4. KeyboardTypeInv'
    BY <1>1, <2>1, <2>2, <2>3, Zenon DEF KeyboardTypeInv, Library!NotWaiting
  <2>5. Failed => Failed'
    BY <1>1, <2>2, Zenon DEF Failed, Library!NotWaiting
  <2>6. About = 0 => About' = 0
    BY <1>1, <2>5, Zenon DEF About
  <2>7. \/ Active' = Active /\ asked' = asked
        \/ Active' = 0 /\ asked' = asked
        \/ asked' = asked + 1
    <3>1. configuration_active' = configuration_active => Active' = Active
      BY DEF Active
    <3>2. ~configuration_active' => Active' = 0
      BY Zenon DEF Active
    <3> QED
      BY <1>1, <3>1, <3>2, Zenon
  <2>8. texts \in Nat /\ asked \in Nat /\ texts' = texts
    BY <1>1, <2>1, Zenon DEF KeyboardTypeInv
  <2>9. texts' + About' + Active' <= asked'
    BY <2>1, <2>6, <2>7, <2>8, AboutActive
  <2> QED
    BY <2>4, <2>9, Zenon DEF KeyboardInv
<1>2. CASE AttachStarts /\ UNCHANGED keyboardVars
  BY <1>1, <1>2, Zenon DEF AttachStarts, Library!Reset, mainVars
<1>3. CASE DetachStarts /\ UNCHANGED keyboardVars
  BY <1>1, <1>3, Zenon DEF DetachStarts, Library!Reset, mainVars
<1>4. CASE WorkerEnds /\ UNCHANGED keyboardVars
  BY <1>1, <1>4, Zenon DEF WorkerEnds, Library!Stop, mainVars
<1>5. CASE (WriteEnds \/ ListDevice) /\ UNCHANGED keyboardVars
  BY <1>1, <1>5, WritesFrame, Zenon
<1>6. CASE Interrupt /\ UNCHANGED keyboardVars
  BY <1>1, <1>6, Zenon DEF Interrupt, stream, mainVars
<1>7. CASE Fetch /\ UNCHANGED keyboardVars
  BY <1>1, <1>7, Zenon DEF Fetch, Library!Deliver, mainVars
<1>8. ASSUME NEW value \in {0, 1}, KeyboardSetConfiguration(value)
      PROVE  KeyboardInv'
  <2>1. /\ configuration_active' = (value # 0)
        /\ asked' = IF value # 0 THEN asked + 1 ELSE asked
    BY <1>8, Zenon DEF KeyboardSetConfiguration
  <2>2. (~configuration_active' /\ asked' = asked) \/ asked' = asked + 1
    BY <2>1, Zenon
  <2> QED
    BY <1>1, <1>8, <2>2, Zenon
       DEF KeyboardSetConfiguration, Control, stream, mainVars
<1>9. CASE KeyboardOtherRequest
  BY <1>1, <1>9, Zenon DEF KeyboardOtherRequest, Control, stream, mainVars
<1>10. CASE KeyboardResetEnds
  BY <1>1, <1>10, Zenon DEF KeyboardResetEnds, ResetEnds, stream, mainVars
<1> QED
  BY <1>2, <1>3, <1>4, <1>5, <1>6, <1>7, <1>8, <1>9, <1>10, Zenon DEF Server

\* A transmit of the keyboard: the wait, and what becomes of a text that was
\* about to begin.
LEMMA KeyboardTransmit ==
    ASSUME KeyboardTypeInv, NEW from \in {"press", "release"}, NEW to,
           \/ to \notin {"press", "release"}
           \/ to = "release" /\ from = "press",
           NEW report, Transmit(from, to, report)
    PROVE  /\ waiting' = [t \in {"main"} |-> waiting'["main"]]
           /\ waiting'["main"] # Library!NotWaiting => blocked'
           /\ blocked' => pc' \in {"press", "release"}
           /\ pc = from /\ pc' \in {from, to}
           /\ accepted' # accepted => ~Failed /\ pc' = to
           /\ pc' = from => ~Failed /\ accepted' = accepted
<1>1. CASE ~blocked /\ Library!Accept(1, <<report>>) /\ pc' = to
           /\ blocked' = FALSE
  BY <1>1, Zenon
     DEF Transmit, Library!Accept, KeyboardTypeInv, Failed, Library!NotWaiting
<1>2. CASE ~blocked /\ Library!Wait("main", 1, <<report>>) /\ pc' = from
           /\ blocked' = TRUE
  <2>1. accepted' = accepted /\ ~Failed /\ pc = from
    BY <1>2, Zenon DEF Library!Wait, Failed, Transmit
  <2>2. waiting' = [waiting EXCEPT !["main"] = [ep |-> 1, data |-> <<report>>]]
    BY <1>2, Zenon DEF Library!Wait
  <2>3. waiting' = [t \in {"main"} |-> waiting'["main"]]
    BY <2>2, Zenon DEF KeyboardTypeInv
  <2> QED
    BY <1>2, <2>1, <2>3, Zenon
<1>3. CASE blocked /\ Library!AcceptWaiting("main", 1) /\ pc' = to
           /\ blocked' = FALSE
  <2>1. /\ waiting["main"].ep = 1
        /\ waiting' = [waiting EXCEPT !["main"] = Library!NotWaiting]
    BY <1>3, Zenon DEF Library!AcceptWaiting
  <2>2. /\ waiting' = [t \in {"main"} |-> waiting'["main"]]
        /\ waiting'["main"] = Library!NotWaiting
    BY <2>1, Zenon DEF KeyboardTypeInv
  <2>3. ~Failed /\ pc = from
    BY <2>1 DEF Transmit, Failed, Library!NotWaiting
  <2> QED
    BY <1>3, <2>2, <2>3, Zenon
<1>4. CASE /\ Failed \/ (stopped /\ ~blocked)
           /\ pc' = to /\ blocked' = FALSE
           /\ UNCHANGED stream
  BY <1>4, Zenon
     DEF Transmit, stream, KeyboardTypeInv, Failed, Library!NotWaiting
<1> QED
  BY <1>1, <1>2, <1>3, <1>4, Zenon DEF Transmit

\* main.
LEMMA KeyboardMainKeepsInv ==
    ASSUME KeyboardInv, program = "keyboard", program' = program, KeyboardMain
    PROVE  KeyboardInv'
<1> USE DEF keyboardVars, keyboardHistory
<1>1. ASSUME asked' = asked, KeyboardTypeInv',
             texts' + About' + Active' <= texts + About + Active
      PROVE  KeyboardInv'
  <2>1. /\ texts + About + Active <= asked
        /\ texts \in Nat /\ asked \in Nat
    BY Zenon DEF KeyboardInv, KeyboardTypeInv
  <2>2. texts' \in Nat
    BY <1>1, Zenon DEF KeyboardTypeInv
  <2>3. texts' + About' + Active' <= asked'
    BY <1>1, <2>1, <2>2, AboutActive
  <2> QED
    BY <1>1, <2>3, Zenon DEF KeyboardInv
<1>2. ASSUME NEW from, NEW to, from \notin {"press", "release"}, Go(from, to),
             string_idx' \in Nat, texts' = texts, asked' = asked,
             About' + Active' <= About + Active
      PROVE  KeyboardInv'
  <2>1. UNCHANGED <<waiting, blocked>>
    BY <1>2, Zenon DEF Go, stream
  <2>2. ~blocked
    BY <1>2, Zenon DEF KeyboardInv, KeyboardTypeInv, Go
  <2>3. KeyboardTypeInv'
    BY <1>2, <2>1, <2>2, Zenon
       DEF KeyboardInv, KeyboardTypeInv, Library!NotWaiting
  <2>4. texts \in Nat
    BY Zenon DEF KeyboardInv, KeyboardTypeInv
  <2>5. texts' + About' + Active' <= texts + About + Active
    BY <1>2, <2>4, AboutActive
  <2> QED
    BY <1>1, <1>2, <2>3, <2>5, Zenon
<1>3. CASE KeyboardWhile
  <2>1. Go("while", IF interrupted THEN "stop" ELSE "wait")
    BY <1>3, Zenon DEF KeyboardWhile, While
  <2>2. pc' # "type" /\ pc' # "press"
    BY <2>1, Zenon DEF Go
  <2>3. About' = 0
    BY <2>2, Zenon DEF About
  <2>4. Active' = Active
    BY <1>3, Zenon DEF KeyboardWhile, Active
  <2>5. string_idx' \in Nat
    BY <1>3, Zenon DEF KeyboardWhile, KeyboardInv, KeyboardTypeInv
  <2>6. About' + Active' <= About + Active
    BY <2>3, <2>4, AboutActive
  <2> QED
    BY <1>2, <1>3, <2>1, <2>5, <2>6, Zenon DEF KeyboardWhile
<1>4. CASE KeyboardWaits
  <2>1. Go("wait", IF interrupted THEN "type" ELSE "poll")
    BY <1>4, Zenon DEF KeyboardWaits
  <2>2. About' = 0
    BY <2>1, Zenon DEF Go, About
  <2>3. Active' = Active
    BY <1>4, Zenon DEF KeyboardWaits, Active
  <2>4. About' + Active' <= About + Active
    BY <2>2, <2>3, AboutActive
  <2> QED
    BY <1>2, <1>4, <2>1, <2>4, Zenon DEF KeyboardWaits
<1>5. CASE KeyboardPolls
  <2>1. /\ Go("poll", IF configuration_active THEN "type" ELSE "wait")
        /\ ~configuration_active'
    BY <1>5, Zenon DEF KeyboardPolls
  <2>2. Active' = 0
    BY <2>1, Zenon DEF Active
  <2>3. About' <= Active
    BY <2>1, AboutActive DEF Go, About, Active
  <2>4. About' + Active' <= About + Active
    BY <2>2, <2>3, AboutActive
  <2>5. string_idx' \in Nat
    BY <1>5, Zenon DEF KeyboardPolls, KeyboardInv, KeyboardTypeInv
  <2> QED
    BY <1>2, <1>5, <2>1, <2>4, <2>5, Zenon DEF KeyboardPolls
<1>6. CASE KeyboardTypes
  <2> DEFINE to == IF string_idx < Len(Text) /\ ~interrupted
                   THEN "press" ELSE "while"
  <2>1. Go("type", to) /\ UNCHANGED keyboardVars
    BY <1>6, Zenon DEF KeyboardTypes
  <2>2. pc = "type" /\ ((pc' = "press" /\ ~interrupted) \/ pc' = "while")
    BY <2>1, Zenon DEF Go
  <2> HIDE DEF to
  <2>3. About' <= About
    BY <2>1, <2>2, AboutActive DEF About
  <2>4. Active' = Active
    BY <2>1, Zenon DEF Active
  <2>5. About' + Active' <= About + Active
    BY <2>3, <2>4, AboutActive
  <2>6. string_idx' \in Nat
    BY <2>1, Zenon DEF KeyboardInv, KeyboardTypeInv
  <2> QED
    BY <1>2, <2>1, <2>5, <2>6, Zenon
<1>7. CASE KeyboardPresses
  <2> DEFINE report == ascii_to_hid(Text[string_idx + 1])
  <2>1. Transmit("press", "release", report)
    BY <1>7, Zenon DEF KeyboardPresses
  <2> HIDE DEF report
  <2>2. UNCHANGED <<stopped, host, session, interrupted>>
    BY <2>1, TransmitFrame, Zenon
  <2>3. KeyboardTypeInv
    BY Zenon DEF KeyboardInv
  <2>4. /\ waiting' = [t \in {"main"} |-> waiting'["main"]]
        /\ waiting'["main"] # Library!NotWaiting => blocked'
        /\ blocked' => pc' \in {"press", "release"}
        /\ pc = "press" /\ pc' \in {"press", "release"}
        /\ accepted' # accepted => ~Failed /\ pc' = "release"
        /\ pc' = "press" => ~Failed /\ accepted' = accepted
    BY <2>1, <2>3, KeyboardTransmit, Zenon
  <2>5. /\ UNCHANGED <<configuration_active, string_idx, asked>>
        /\ texts' = IF string_idx = 0 /\ accepted' # accepted
                    THEN texts + 1 ELSE texts
    BY <1>7, Zenon DEF KeyboardPresses
  <2>6. texts' \in Nat
    BY <2>3, <2>5, SMTT(30) DEF KeyboardTypeInv
  <2>7. KeyboardTypeInv'
    BY <2>3, <2>4, <2>5, <2>6, Zenon
       DEF KeyboardTypeInv, Library!NotWaiting
  <2>8. Active' = Active
    BY <2>5, Zenon DEF Active
  <2>9. pc' = "release" => About' = 0
    BY Zenon DEF About
  <2>10. CASE string_idx = 0 /\ accepted' # accepted
    <3>1. About = 1 /\ About' = 0
      BY <2>4, <2>9, <2>10, Zenon DEF About
    <3>2. texts \in Nat /\ texts' = texts + 1
      BY <2>3, <2>5, <2>10, Zenon DEF KeyboardTypeInv
    <3>3. texts' + About' + Active' <= texts + About + Active
      BY <2>8, <3>1, <3>2, AboutActive
    <3> QED
      BY <1>1, <2>5, <2>7, <3>3, Zenon
  <2>11. CASE ~(string_idx = 0 /\ accepted' # accepted)
    <3>1. About' <= About
      <4>1. CASE pc' = "release"
        BY <2>9, <4>1, AboutActive
      <4>2. CASE pc' = "press"
        <5>1. string_idx = 0 => About = 1
          BY <2>4, <4>2, Zenon DEF About
        <5>2. string_idx # 0 => About' = 0
          BY <2>5, Zenon DEF About
        <5> QED
          BY <5>1, <5>2, AboutActive
      <4> QED
        BY <2>4, <4>1, <4>2, Zenon
    <3>2. texts \in Nat /\ texts' = texts
      BY <2>3, <2>5, <2>11, Zenon DEF KeyboardTypeInv
    <3>3. texts' + About' + Active' <= texts + About + Active
      BY <2>8, <3>1, <3>2, AboutActive
    <3> QED
      BY <1>1, <2>5, <2>7, <3>3, Zenon
  <2> QED
    BY <2>10, <2>11, Zenon
<1>8. CASE KeyboardReleases
  <2> DEFINE report == NoKey
  <2>1. Transmit("release", "type", report)
    BY <1>8, Zenon DEF KeyboardReleases
  <2> HIDE DEF report
  <2>2. UNCHANGED <<stopped, host, session, interrupted>>
    BY <2>1, TransmitFrame, Zenon
  <2>3. KeyboardTypeInv
    BY Zenon DEF KeyboardInv
  <2>4. /\ waiting' = [t \in {"main"} |-> waiting'["main"]]
        /\ waiting'["main"] # Library!NotWaiting => blocked'
        /\ blocked' => pc' \in {"press", "release"}
        /\ pc' \in {"release", "type"}
    BY <2>1, <2>3, KeyboardTransmit, Zenon
  <2>5. /\ UNCHANGED <<configuration_active, asked, texts>>
        /\ string_idx' = IF pc' = "type" THEN string_idx + 1 ELSE string_idx
    BY <1>8, Zenon DEF KeyboardReleases
  <2>6. string_idx' \in Nat /\ (pc' = "type" => string_idx' # 0)
    BY <2>3, <2>5, SMTT(30) DEF KeyboardTypeInv
  <2>7. KeyboardTypeInv'
    BY <2>3, <2>4, <2>5, <2>6, Zenon
       DEF KeyboardTypeInv, Library!NotWaiting
  <2>8. About' = 0
    BY <2>4, <2>6, Zenon DEF About
  <2>9. Active' = Active
    BY <2>5, Zenon DEF Active
  <2>10. texts \in Nat /\ texts' = texts
    BY <2>3, <2>5, Zenon DEF KeyboardTypeInv
  <2>11. texts' + About' + Active' <= texts + About + Active
    BY <2>8, <2>9, <2>10, AboutActive
  <2> QED
    BY <1>1, <2>5, <2>7, <2>11, Zenon
<1>9. CASE Stop /\ UNCHANGED keyboardVars
  <2>1. Go("stop", "done") /\ pc' = "done"
    BY <1>9, Zenon DEF Stop, Go
  <2>2. About' = 0
    BY <2>1, Zenon DEF About
  <2>3. Active' = Active
    BY <1>9, Zenon DEF Active
  <2>4. About' + Active' <= About + Active
    BY <2>2, <2>3, AboutActive
  <2>5. string_idx' \in Nat
    BY <1>9, Zenon DEF KeyboardInv, KeyboardTypeInv
  <2> QED
    BY <1>2, <1>9, <2>1, <2>4, <2>5, Zenon
<1> QED
  BY <1>3, <1>4, <1>5, <1>6, <1>7, <1>8, <1>9, Zenon DEF KeyboardMain

\* Every text of the keyboard was asked for by a SET_CONFIGURATION of its own,
\* of whichever host.
THEOREM KeyboardTexts == ExamplesSpec => []TextsNeedConfiguration
<1>1. ExamplesInit => KeyboardInv
  <2> SUFFICES ASSUME ExamplesInit PROVE KeyboardInv
    BY Zenon
  <2>1. /\ waiting = [t \in {"main"} |-> Library!NotWaiting]
        /\ ~blocked /\ pc = "while"
    BY Zenon DEF ExamplesInit, AppInit, Library!Init
  <2>2. waiting["main"] = Library!NotWaiting
    BY <2>1, Zenon
  <2>3. KeyboardTypeInv
    BY <2>1, <2>2, Zenon DEF ExamplesInit, KeyboardInit, KeyboardTypeInv
  <2>4. About = 0 /\ Active = 0
    BY <2>1, Zenon DEF ExamplesInit, KeyboardInit, About, Active
  <2>5. texts = 0 /\ asked = 0
    BY Zenon DEF ExamplesInit, KeyboardInit
  <2>6. texts + About + Active <= asked
    BY <2>4, <2>5
  <2> QED
    BY <2>3, <2>6, Zenon DEF KeyboardInv
<1>2. KeyboardInv /\ [ExamplesNext]_exampleVars => KeyboardInv'
  <2> SUFFICES ASSUME KeyboardInv, [ExamplesNext]_exampleVars
               PROVE  KeyboardInv'
    BY Zenon
  <2>1. CASE Keyboard /\ KeyboardNext
    BY <2>1, KeyboardServerKeepsInv, KeyboardMainKeepsInv, Zenon
       DEF Keyboard, KeyboardNext
  <2>2. CASE UNCHANGED exampleVars
    BY <2>2, Zenon
       DEF exampleVars, appVars, stream, mainVars, keyboardVars,
           keyboardHistory, KeyboardInv, KeyboardTypeInv, About, Active,
           Failed, Library!NotWaiting
  <2>3. CASE ExamplesNext /\ program # "keyboard"
    BY <2>3, Zenon
       DEF ExamplesNext, Bulk, Cdc, Keyboard, Mouse, Audio, KeyboardInv
  <2> QED
    BY <2>1, <2>2, <2>3, Zenon DEF ExamplesNext, Bulk, Cdc, Mouse, Audio
<1>3. KeyboardInv => TextsNeedConfiguration
  <2> SUFFICES ASSUME KeyboardInv, program = "keyboard"
               PROVE  texts <= asked
    BY Zenon DEF TextsNeedConfiguration
  <2>1. /\ texts \in Nat /\ asked \in Nat
        /\ texts + About + Active <= asked
    BY Zenon DEF KeyboardInv, KeyboardTypeInv
  <2> QED
    BY <2>1, AboutActive
<1> QED
  BY <1>1, <1>2, <1>3, PTL DEF ExamplesSpec

-----------------------------------------------------------------------------
(* Remainders                                                              *)

\* What a quotient and a remainder are.
LEMMA DivMod ==
    ASSUME NEW a \in Int, NEW m \in Nat \ {0}
    PROVE  /\ a \div m \in Int /\ a % m \in 0 .. m - 1
           /\ a = m * (a \div m) + (a % m)
BY SMT

\* A multiple that is nearer to zero than its factor is zero.
LEMMA SmallMultiple ==
    ASSUME NEW m \in Nat \ {0}, NEW q \in Int, m * q < m, -m < m * q
    PROVE  q = 0
<1>1. CASE q >= 1
  BY <1>1, SMT
<1>2. CASE q <= -1
  BY <1>2, SMT
<1> QED
  BY <1>1, <1>2

\* Numbers that differ by a multiple have the same remainder.
LEMMA SameRemainder ==
    ASSUME NEW m \in Nat \ {0}, NEW a \in Int, NEW b \in Int, NEW q \in Int,
           a = b + m * q
    PROVE  a % m = b % m
<1> DEFINE c == a \div m
           d == b \div m
           r == a % m
           s == b % m
<1>1. /\ c \in Int /\ r \in 0 .. m - 1 /\ a = m * c + r
      /\ d \in Int /\ s \in 0 .. m - 1 /\ b = m * d + s
  BY DivMod, Zenon
<1> HIDE DEF c, d, r, s
<1> DEFINE e == c - d - q
<1>2. e \in Int /\ m * e = s - r
  <2>1. m * (c - d - q) = m * c - m * d - m * q
    BY <1>1, SMT
  <2> QED
    BY <1>1, <2>1, SMT
<1> HIDE DEF e
<1>3. m * e < m /\ -m < m * e
  BY <1>1, <1>2, SMT
<1>4. e = 0
  BY <1>2, <1>3, SmallMultiple
<1>5. s = r
  BY <1>1, <1>2, <1>4, SMT
<1> QED
  BY <1>5 DEF r, s

\* A remainder can be taken early.
LEMMA EarlyRemainder ==
    ASSUME NEW m \in Nat \ {0}, NEW a \in Int, NEW b \in Int
    PROVE  ((a % m) + b) % m = (a + b) % m
<1> DEFINE q == a \div m
           r == a % m
<1>1. q \in Int /\ r \in 0 .. m - 1 /\ a = m * q + r
  BY DivMod, Zenon
<1> HIDE DEF q, r
<1>2. a + b = (r + b) + m * q
  BY <1>1, SMT
<1>3. (a + b) % m = (r + b) % m
  <2>1. a + b \in Int /\ r + b \in Int
    BY <1>1
  <2> QED
    BY <1>1, <1>2, <2>1, SameRemainder, Zenon
<1> QED
  BY <1>3 DEF r

-----------------------------------------------------------------------------
(* The microphone                                                          *)

\* The place in the pulse and the recording go together while the host has
\* selected the setting with the endpoint; a reset leaves the place, but the
\* host has to select the setting again.
AudioInv ==
    program = "audio" =>
        /\ streaming_alternate = selected
        /\ host = "attaching" => reply = <<>>
        /\ host = "attached" => reply \in {<<>>, <<0>>, <<selected>>}
        /\ recorded \in Seq(Nat)
        /\ selected # 0 => sample_index = Len(recorded) % PULSE_PERIOD_SAMPLES
        /\ \A k \in 1 .. Len(recorded) :
              recorded[k] = (k - 1) % PULSE_PERIOD_SAMPLES

\* A packet goes on where the recording is.
LEMMA PacketContinues ==
    ASSUME NEW n \in Nat, recorded \in Seq(Nat),
           sample_index = Len(recorded) % PULSE_PERIOD_SAMPLES,
           \A k \in 1 .. Len(recorded) :
              recorded[k] = (k - 1) % PULSE_PERIOD_SAMPLES
    PROVE  LET longer == recorded \o NextSamples(n)
           IN /\ longer \in Seq(Nat)
              /\ IndexAfter(n) = Len(longer) % PULSE_PERIOD_SAMPLES
              /\ \A k \in 1 .. Len(longer) :
                    longer[k] = (k - 1) % PULSE_PERIOD_SAMPLES
<1> DEFINE m == PULSE_PERIOD_SAMPLES
           l == Len(recorded)
           more == NextSamples(n)
           longer == recorded \o more
<1>0. m \in Nat \ {0} /\ l \in Nat
  BY AudioAssumption
<1>1. \A b \in Int : (sample_index + b) % m = (l + b) % m
  <2>1. l \in Int
    BY <1>0
  <2> QED
    BY <1>0, <2>1, EarlyRemainder, Zenon
<1>2. \A k \in 1 .. n : (sample_index + k - 1) % m = (l + k - 1) % m
  <2> SUFFICES ASSUME NEW k \in 1 .. n
               PROVE  (sample_index + k - 1) % m = (l + k - 1) % m
    OBVIOUS
  <2>1. k - 1 \in Int /\ (sample_index + (k - 1)) % m = (l + (k - 1)) % m
    BY <1>1
  <2>2. sample_index \in Int
    BY <1>0, DivMod
  <2>3. sample_index + (k - 1) = sample_index + k - 1
        /\ l + (k - 1) = l + k - 1
    BY <1>0, <2>2
  <2> QED
    BY <2>1, <2>3, Zenon
<1>3. \A k \in 1 .. n : (l + k - 1) % m \in Nat
  BY <1>0, DivMod
<1>4. more = [k \in 1 .. n |-> (l + k - 1) % m]
  BY <1>2, Zenon DEF NextSamples
<1>5. more \in Seq(Nat) /\ Len(more) = n
  BY <1>3, <1>4
<1> HIDE DEF m, l
<1>6. longer \in Seq(Nat) /\ Len(longer) = l + n
  BY <1>5, LenConcat, Zenon DEF l
<1>7. ASSUME NEW k \in 1 .. Len(longer)
      PROVE  longer[k] = (k - 1) % m
  <2>1. CASE k <= l
    BY <1>0, <1>5, <1>6, <2>1 DEF l, m
  <2>2. CASE k > l
    <3>1. longer[k] = more[k - l] /\ k - l \in 1 .. n
      BY <1>0, <1>5, <1>6, <2>2 DEF l
    <3>2. more[k - l] = (l + (k - l) - 1) % m
      BY <1>4, <3>1, Zenon
    <3>3. l + (k - l) - 1 = k - 1
      BY <1>0
    <3> QED
      BY <3>1, <3>2, <3>3, Zenon
  <2> QED
    BY <1>0, <1>6, <2>1, <2>2
<1>8. IndexAfter(n) = Len(longer) % m
  BY <1>1, <1>6 DEF IndexAfter, m
<1> QED
  BY <1>6, <1>7, <1>8, Zenon DEF m

\* Every step of the microphone keeps the invariant.
LEMMA AudioKept ==
    ASSUME AudioInv, program = "audio", program' = program, AudioNext
    PROVE  AudioInv'
<1>0. /\ streaming_alternate = selected
      /\ host = "attaching" => reply = <<>>
      /\ host = "attached" => reply \in {<<>>, <<0>>, <<selected>>}
      /\ recorded \in Seq(Nat)
      /\ selected # 0 => sample_index = Len(recorded) % PULSE_PERIOD_SAMPLES
      /\ \A k \in 1 .. Len(recorded) :
            recorded[k] = (k - 1) % PULSE_PERIOD_SAMPLES
  BY Zenon DEF AudioInv
<1>e. /\ <<>> \in Seq(Nat) /\ Len(<<>>) = 0 /\ 1 .. 0 = {}
      /\ 0 % PULSE_PERIOD_SAMPLES = 0
  BY AudioAssumption
<1>1. CASE Server /\ UNCHANGED audioVars
  <2>1. /\ UNCHANGED <<streaming_alternate, sample_index, selected, recorded>>
        /\ host' = "attaching" => reply' = <<>>
        /\ host' = "attached" => host = "attached" /\ reply' = reply
    BY <1>0, <1>1, WritesFrame, Zenon
       DEF Server, AttachStarts, DetachStarts, Interrupt, WorkerEnds, audioVars
  <2> QED
    BY <1>0, <2>1, Zenon DEF AudioInv
<1>2. CASE \E max_length \in PacketSpace : iso_in_data(max_length)
  <2>1. PICK max_length \in PacketSpace : iso_in_data(max_length)
    BY <1>2, Zenon
  <2> DEFINE samples ==
          IF AUDIO_SAMPLES_PER_PACKET * AUDIO_BYTES_PER_SAMPLE > max_length
          THEN max_length \div AUDIO_BYTES_PER_SAMPLE
          ELSE AUDIO_SAMPLES_PER_PACKET
  <2>2. samples \in Nat
    BY AudioAssumption DEF AUDIO_BYTES_PER_SAMPLE
  <2>3. /\ selected # 0
        /\ recorded' = recorded \o NextSamples(samples)
        /\ sample_index' = IndexAfter(samples)
        /\ UNCHANGED <<streaming_alternate, selected, host, reply>>
    BY <2>1, Zenon DEF iso_in_data, Transfer
  <2> HIDE DEF samples
  <2>4. /\ recorded' \in Seq(Nat)
        /\ sample_index' = Len(recorded') % PULSE_PERIOD_SAMPLES
        /\ \A k \in 1 .. Len(recorded') :
              recorded'[k] = (k - 1) % PULSE_PERIOD_SAMPLES
    BY <1>0, <2>2, <2>3, PacketContinues, Zenon
  <2> QED
    BY <1>0, <2>3, <2>4, Zenon DEF AudioInv
<1>3. CASE \E interface, alternate \in {0, 1} :
               AudioSetInterface(interface, alternate)
  <2>1. PICK interface \in {0, 1}, alternate \in {0, 1} :
            AudioSetInterface(interface, alternate)
    BY <1>3, Zenon
  <2>2. reply' = <<>> /\ host' = host
    BY <2>1, Zenon DEF AudioSetInterface, Control
  <2>3. CASE UNCHANGED <<streaming_alternate, sample_index,
                         selected, recorded>>
    BY <1>0, <2>2, <2>3, Zenon DEF AudioInv
  <2>4. CASE /\ alternate # streaming_alternate
             /\ streaming_alternate' = alternate /\ selected' = alternate
             /\ sample_index' = 0 /\ recorded' = <<>>
    BY <1>e, <2>2, <2>4, Zenon DEF AudioInv
  <2> QED
    BY <1>0, <2>1, <2>3, <2>4, Zenon
       DEF AudioSetInterface, SelectAlternate, audioVars
<1>4. CASE \E interface \in {0, 1} : AudioGetInterface(interface)
  <2>1. /\ reply' \in {<<0>>, <<selected>>}
        /\ UNCHANGED <<streaming_alternate, sample_index, selected, recorded>>
        /\ host' = host /\ host = "attached"
    BY <1>0, <1>4, Zenon DEF AudioGetInterface, Control, Serving, audioVars
  <2> QED
    BY <1>0, <2>1, Zenon DEF AudioInv
<1>5. CASE AudioOtherRequest
  <2>1. /\ reply' = <<>>
        /\ UNCHANGED <<streaming_alternate, sample_index, selected, recorded>>
    BY <1>5, Zenon DEF AudioOtherRequest, Control, audioVars
  <2> QED
    BY <1>0, <2>1, Zenon DEF AudioInv
<1>6. CASE AudioResetCallback
  <2>1. /\ streaming_alternate' = 0 /\ selected' = 0 /\ recorded' = <<>>
        /\ host' # "attaching"
        /\ host' = "attached" => reply' = <<>>
    BY <1>0, <1>6, Zenon DEF AudioResetCallback, ResetEnds
  <2> QED
    BY <1>e, <2>1, Zenon DEF AudioInv
<1>7. CASE AudioMain
  <2>1. UNCHANGED <<streaming_alternate, sample_index, selected, recorded,
                    host, reply>>
    BY <1>7, Zenon DEF AudioMain, While, Stop, Go, audioVars
  <2> QED
    BY <1>0, <2>1, Zenon DEF AudioInv
<1> QED
  BY <1>1, <1>2, <1>3, <1>4, <1>5, <1>6, <1>7, Zenon DEF AudioNext

\* The microphone has the setting its host selected, and what the host
\* records begins with a pulse and has no gap: for every packet size, every
\* pulse and any number of hosts.
THEOREM AudioRecordings == ExamplesSpec => []RecordingsBeginWithPulse
<1>1. ExamplesInit => AudioInv
  <2> SUFFICES ASSUME ExamplesInit PROVE AudioInv
    OBVIOUS
  <2>1. <<>> \in Seq(Nat) /\ Len(<<>>) = 0 /\ 1 .. 0 = {}
    OBVIOUS
  <2> QED
    BY <2>1, Zenon DEF ExamplesInit, AudioInit, AppInit, AudioInv
<1>2. AudioInv /\ [ExamplesNext]_exampleVars => AudioInv'
  <2> SUFFICES ASSUME AudioInv, [ExamplesNext]_exampleVars
               PROVE  AudioInv'
    BY Zenon
  <2>1. CASE Audio /\ AudioNext
    BY <2>1, AudioKept, Zenon DEF Audio
  <2>2. CASE UNCHANGED exampleVars
    BY <2>2, Zenon DEF exampleVars, appVars, audioVars, AudioInv
  <2>3. CASE ExamplesNext /\ program # "audio"
    BY <2>3, Zenon
       DEF ExamplesNext, Bulk, Cdc, Keyboard, Mouse, Audio, AudioInv
  <2> QED
    BY <2>1, <2>2, <2>3, Zenon DEF ExamplesNext, Bulk, Cdc, Keyboard, Mouse
<1>3. AudioInv => RecordingsBeginWithPulse
  <2> SUFFICES ASSUME AudioInv, program = "audio", host = "attached"
               PROVE  /\ streaming_alternate = selected
                      /\ reply \in {<<>>, <<0>>, <<selected>>}
                      /\ \A k \in DOMAIN recorded :
                            recorded[k] = (k - 1) % PULSE_PERIOD_SAMPLES
    BY Zenon DEF RecordingsBeginWithPulse, ServedBy, Serving
  <2>1. recorded \in Seq(Nat)
    BY Zenon DEF AudioInv
  <2>2. DOMAIN recorded = 1 .. Len(recorded)
    BY <2>1
  <2> QED
    BY <2>2, Zenon DEF AudioInv
<1> QED
  BY <1>1, <1>2, <1>3, PTL DEF ExamplesSpec

-----------------------------------------------------------------------------
(* The order of reports                                                    *)
(*                                                                         *)
(* Every program but the microphone has a sequence of reports that it goes *)
(* through, without end and, for keyboard and mouse, around a cycle.       *)

\* A point of the mouse's circle, and the report that leaves it.
Point(k) == <<pos_x[(k % NUMBER_OF_STEPS) + 1],
              pos_y[(k % NUMBER_OF_STEPS) + 1]>>
Move(k) == <<(Point(k + 1)[1] - Point(k)[1]) % 256,
             (Point(k + 1)[2] - Point(k)[2]) % 256>>

\* The k-th report of a program.
ReportOf(prog, k) ==
    CASE prog = "keyboard" -> Stroke(k % (2 * Len(Text)))
      [] prog = "mouse" -> Move(k)
      [] OTHER -> k

Reports(prog) == {ReportOf(prog, k) : k \in Int}

\* Where in its main a program transmits.
Places(prog) ==
    CASE prog = "bulk" -> {"reply"}
      [] prog = "cdc" -> {"tick"}
      [] prog = "keyboard" -> {"press", "release"}
      [] OTHER -> {"transmit"}

\* The number of the report that is transmitted now or next.
Position ==
    CASE program = "bulk" ->
           IF pc = "reply" THEN msg_counter ELSE msg_counter + 1
      [] program = "cdc" ->
           IF pc = "tick" THEN tick_counter - 1 ELSE tick_counter
      [] program = "keyboard" ->
           2 * string_idx + (IF pc = "release" THEN 1 ELSE 0)
      [] OTHER ->
           IF pc = "transmit" THEN step_counter - 1 ELSE step_counter

\* The stream s consists of the reports before the k-th.
Flow(prog, s, k) ==
    \A i \in 1 .. Len(s) : s[i] = ReportOf(prog, k - Len(s) + i - 1)

FlowType ==
    /\ accepted \in [{1} -> Seq(Reports(program))]
    /\ delivered \in [{1} -> Seq(Reports(program))]
    /\ waiting = [t \in {"main"} |-> waiting["main"]]
    /\ Position \in Int

\* The host fetches what was accepted, and what was accepted are the reports
\* before the one main is at; only a reset, which empties the stream, makes
\* a transmit fail, until the server has ended.
FlowInv ==
    /\ FlowType
    /\ Len(delivered[1]) <= Len(accepted[1])
    /\ \A i \in 1 .. Len(delivered[1]) : delivered[1][i] = accepted[1][i]
    /\ blocked => pc \in Places(program)
    /\ waiting["main"] # Library!NotWaiting =>
           /\ blocked
           /\ waiting["main"] =
                  [ep |-> 1, data |-> <<ReportOf(program, Position)>>]
    /\ Failed /\ ~stopped => accepted[1] = <<>>
    /\ \E k \in Int : Flow(program, accepted[1], k)
    /\ ~stopped => Flow(program, accepted[1], Position)

\* An empty stream is one of any reports.
LEMMA EmptyFlow ==
    ASSUME NEW prog, NEW k
    PROVE  /\ Flow(prog, <<>>, k) /\ Len(<<>>) = 0
           /\ <<>> \in Seq(Reports(prog))
<1>1. <<>> \in Seq(Reports(prog)) /\ Len(<<>>) = 0 /\ 1 .. 0 = {}
  OBVIOUS
<1> QED
  BY <1>1, Zenon DEF Flow

\* A stream continues with the next report.
LEMMA NextFlow ==
    ASSUME NEW prog, NEW s \in Seq(Reports(prog)), NEW k \in Int,
           Flow(prog, s, k)
    PROVE  LET t == s \o <<ReportOf(prog, k)>>
           IN /\ t \in Seq(Reports(prog)) /\ Len(t) = Len(s) + 1
              /\ Flow(prog, t, k + 1)
              /\ \A i \in 1 .. Len(s) : t[i] = s[i]
<1> DEFINE r == ReportOf(prog, k)
           t == s \o <<r>>
<1>1. r \in Reports(prog)
  BY Zenon DEF Reports
<1>2. Len(s) \in Nat
  OBVIOUS
<1> HIDE DEF r
<1>3. /\ t \in Seq(Reports(prog)) /\ Len(t) = Len(s) + 1
      /\ t[Len(s) + 1] = r
      /\ \A i \in 1 .. Len(s) : t[i] = s[i]
  BY <1>1
<1> HIDE DEF t
<1>4. ASSUME NEW i \in 1 .. Len(t)
      PROVE  t[i] = ReportOf(prog, (k + 1) - Len(t) + i - 1)
  <2>1. CASE i \in 1 .. Len(s)
    <3>1. (k + 1) - Len(t) + i - 1 = k - Len(s) + i - 1
      BY <1>2, <1>3
    <3>2. s[i] = ReportOf(prog, k - Len(s) + i - 1)
      BY <2>1, Zenon DEF Flow
    <3> QED
      BY <1>3, <2>1, <3>1, <3>2, Zenon
  <2>2. CASE i = Len(s) + 1
    <3>1. (k + 1) - Len(t) + i - 1 = k
      BY <1>2, <1>3, <2>2
    <3> QED
      BY <1>3, <2>2, <3>1, Zenon DEF r
  <2> QED
    BY <1>2, <1>3, <2>1, <2>2
<1>5. Flow(prog, t, k + 1)
  BY <1>4, Zenon DEF Flow
<1> QED
  BY <1>3, <1>5, Zenon DEF t, r

\* The beginning of a stream is one.
LEMMA PrefixFlow ==
    ASSUME NEW prog, NEW s \in Seq(Reports(prog)),
           NEW t \in Seq(Reports(prog)),
           NEW k \in Int, Flow(prog, s, k), Len(t) <= Len(s),
           \A i \in 1 .. Len(t) : t[i] = s[i]
    PROVE  Flow(prog, t, k - Len(s) + Len(t)) /\ k - Len(s) + Len(t) \in Int
<1>1. Len(s) \in Nat /\ Len(t) \in Nat
  OBVIOUS
<1>2. ASSUME NEW i \in 1 .. Len(t)
      PROVE  t[i] = ReportOf(prog, (k - Len(s) + Len(t)) - Len(t) + i - 1)
  <2>1. /\ (k - Len(s) + Len(t)) - Len(t) + i - 1 = k - Len(s) + i - 1
        /\ i \in 1 .. Len(s)
    BY <1>1
  <2>2. s[i] = ReportOf(prog, k - Len(s) + i - 1)
    BY <2>1, Zenon DEF Flow
  <2> QED
    BY <2>1, <2>2, Zenon
<1> QED
  BY <1>1, <1>2 DEF Flow

\* Steps of the server thread that leave the stream and main alone.
LEMMA FlowSame ==
    ASSUME FlowInv,
           UNCHANGED <<program, stream, pc, blocked, Position>>
    PROVE  FlowInv'
<1>1. UNCHANGED <<accepted, delivered, waiting, stopped>>
  BY Zenon DEF stream
<1> QED
  BY <1>1, Zenon DEF FlowInv, FlowType, Failed, Library!NotWaiting

\* A reset empties the stream.
LEMMA FlowReset ==
    ASSUME FlowInv, Library!Reset,
           UNCHANGED <<program, pc, blocked, Position>>
    PROVE  FlowInv'
<1>1. /\ accepted' = [ep \in {1} |-> <<>>]
      /\ delivered' = [ep \in {1} |-> <<>>]
      /\ waiting' = [t \in {"main"} |-> Library!NotWaiting]
  BY Zenon DEF Library!Reset, Library!Empty
<1>2. accepted'[1] = <<>> /\ delivered'[1] = <<>>
      /\ waiting'["main"] = Library!NotWaiting
  BY <1>1, Zenon
<1>3. /\ \A k : Flow(program, <<>>, k)
      /\ <<>> \in Seq(Reports(program)) /\ Len(<<>>) = 0
  BY EmptyFlow, Zenon
<1>4. 0 <= 0 /\ 1 .. 0 = {} /\ 0 \in Int
  OBVIOUS
<1>5. FlowType'
  BY <1>1, <1>2, <1>3, Zenon DEF FlowType, FlowInv
<1>6. (waiting["main"] = Library!NotWaiting)'
  BY <1>2, Zenon DEF Library!NotWaiting
<1> QED
  BY <1>2, <1>3, <1>4, <1>5, <1>6, Zenon DEF FlowInv

\* The host fetches the next report.
LEMMA FlowDeliver ==
    ASSUME FlowInv, Library!Deliver(1, 1),
           UNCHANGED <<program, pc, blocked, Position>>
    PROVE  /\ FlowInv'
           /\ Len(delivered'[1]) = Len(delivered[1]) + 1
           /\ Len(delivered[1]) + 1 \in 1 .. Len(accepted[1])
           /\ delivered'[1][Len(delivered[1]) + 1]
              = accepted[1][Len(delivered[1]) + 1]
<1>1. /\ 1 <= Len(accepted[1]) - Len(delivered[1])
      /\ delivered' = [delivered EXCEPT ![1] =
                           SubSeq(accepted[1], 1, Len(delivered[1]) + 1)]
      /\ UNCHANGED <<accepted, waiting, stopped>>
  BY Zenon DEF Library!Deliver
<1>2. /\ accepted \in [{1} -> Seq(Reports(program))]
      /\ delivered \in [{1} -> Seq(Reports(program))]
  BY Zenon DEF FlowInv, FlowType
<1> DEFINE s == accepted[1]
           n == Len(delivered[1]) + 1
<1>3. s \in Seq(Reports(program)) /\ n \in 1 .. Len(s)
  BY <1>1, <1>2
<1>4. delivered'[1] = SubSeq(s, 1, n)
  BY <1>1, <1>2, Zenon
<1> HIDE DEF s, n
<1>5. /\ SubSeq(s, 1, n) \in Seq(Reports(program))
      /\ Len(SubSeq(s, 1, n)) = n
      /\ \A i \in 1 .. n : SubSeq(s, 1, n)[i] = s[i]
  BY <1>3
<1>6. n <= Len(s) /\ n \in 1 .. n
  BY <1>3
<1>7. delivered' \in [{1} -> Seq(Reports(program))]
  <2>1. SubSeq(accepted[1], 1, Len(delivered[1]) + 1) \in Seq(Reports(program))
    BY <1>5, Zenon DEF s, n
  <2> QED
    BY <1>1, <1>2, <2>1, Zenon
<1>8. FlowInv'
  BY <1>1, <1>4, <1>5, <1>6, <1>7, Zenon
     DEF FlowInv, FlowType, Failed, Library!NotWaiting, s
<1> QED
  BY <1>3, <1>4, <1>5, <1>6, <1>8, Zenon DEF s, n

\* The end of the server leaves what the host has fetched.
LEMMA FlowStop ==
    ASSUME FlowInv, Library!Stop,
           UNCHANGED <<program, pc, blocked, Position>>
    PROVE  FlowInv'
<1>1. /\ accepted' = delivered /\ delivered' = delivered /\ stopped'
      /\ waiting' = [t \in {"main"} |-> Library!NotWaiting]
  BY Zenon DEF Library!Stop
<1>2. waiting'["main"] = Library!NotWaiting
  BY <1>1, Zenon
<1>3. PICK k \in Int : Flow(program, accepted[1], k)
  BY Zenon DEF FlowInv
<1>4. accepted[1] \in Seq(Reports(program))
      /\ delivered[1] \in Seq(Reports(program))
  BY Zenon DEF FlowInv, FlowType
<1>5. \E m \in Int : Flow(program, delivered[1], m)
  BY <1>3, <1>4, PrefixFlow, Zenon DEF FlowInv
<1>6. Len(delivered[1]) <= Len(delivered[1])
  BY <1>4
<1>7. FlowType'
  BY <1>1, <1>2, Zenon DEF FlowInv, FlowType
<1>8. (waiting["main"] = Library!NotWaiting)'
  BY <1>2, Zenon DEF Library!NotWaiting
<1>9. (\E m \in Int : Flow(program, accepted[1], m))'
  BY <1>1, <1>5, Zenon
<1> QED
  BY <1>1, <1>6, <1>7, <1>8, <1>9, Zenon DEF FlowInv

\* Every step of Server that all programs have.
LEMMA FlowServer ==
    ASSUME FlowInv, Server, UNCHANGED <<program, Position>>
    PROVE  FlowInv'
<1>1. CASE AttachStarts \/ DetachStarts
  BY <1>1, FlowReset, Zenon DEF AttachStarts, DetachStarts, mainVars
<1>2. CASE Interrupt
  BY <1>2, FlowSame, Zenon DEF Interrupt, mainVars
<1>3. CASE WorkerEnds
  BY <1>3, FlowStop, Zenon DEF WorkerEnds, mainVars
<1>4. CASE WriteEnds \/ ListDevice
  BY <1>4, FlowSame, Zenon DEF WriteEnds, ListDevice, mainVars
<1> QED
  BY <1>1, <1>2, <1>3, <1>4, Zenon DEF Server

\* Around the cycle the reports are the same.
Alike(prog, k, m) ==
    \A d \in Int : ReportOf(prog, m + d) = ReportOf(prog, k + d)

\* Main goes from a place where it does not transmit, to the same report.
LEMMA FlowGo ==
    ASSUME FlowInv, pc \notin Places(program),
           UNCHANGED <<program, stream, blocked>>,
           Position' \in Int, Alike(program, Position, Position')
    PROVE  FlowInv'
<1>1. UNCHANGED <<accepted, delivered, waiting, stopped>>
  BY Zenon DEF stream
<1>2. ~blocked /\ waiting["main"] = Library!NotWaiting
  BY Zenon DEF FlowInv
<1>3. /\ accepted[1] \in Seq(Reports(program)) /\ Position \in Int
      /\ FlowType'
  BY <1>1, Zenon DEF FlowInv, FlowType
<1>4. ASSUME ~stopped
      PROVE  Flow(program, accepted[1], Position')
  <2> DEFINE s == accepted[1]
             l == Len(s)
             k == Position
             m == Position'
  <2>1. Flow(program, s, k)
    BY <1>4, Zenon DEF FlowInv
  <2>2. l \in Nat /\ k \in Int /\ m \in Int
    BY <1>3
  <2>3. \A d \in Int : ReportOf(program, m + d) = ReportOf(program, k + d)
    BY Zenon DEF Alike
  <2> HIDE DEF s, k, m
  <2>4. ASSUME NEW i \in 1 .. l
        PROVE  s[i] = ReportOf(program, m - l + i - 1)
    <3> DEFINE d == i - 1 - l
    <3>1. d \in Int /\ m - l + i - 1 = m + d /\ k - l + i - 1 = k + d
      BY <2>2
    <3> HIDE DEF d
    <3>2. s[i] = ReportOf(program, k - l + i - 1)
      BY <2>1, Zenon DEF Flow
    <3> QED
      BY <2>3, <3>1, <3>2, Zenon
  <2> QED
    BY <2>4, Zenon DEF Flow, s, m
<1>5. (waiting["main"] = Library!NotWaiting)' /\ ~blocked'
  BY <1>1, <1>2, Zenon DEF Library!NotWaiting
<1>6. ~Failed'
  BY <1>5, Zenon DEF Failed
<1>7. (~stopped => Flow(program, accepted[1], Position))'
  BY <1>1, <1>4, Zenon
<1> QED
  BY <1>1, <1>3, <1>5, <1>6, <1>7, Zenon DEF FlowInv

\* A transmit moves the report to the stream, waits, or has failed.
LEMMA FlowTransmit ==
    ASSUME FlowInv, NEW from, NEW to, from \in Places(program),
           Transmit(from, to, ReportOf(program, Position)),
           program' = program,
           Position' = IF blocked' THEN Position ELSE Position + 1
    PROVE  FlowInv'
<1> DEFINE r == ReportOf(program, Position)
           s == accepted[1]
<1>1. /\ accepted \in [{1} -> Seq(Reports(program))]
      /\ s \in Seq(Reports(program)) /\ Position \in Int
      /\ delivered \in [{1} -> Seq(Reports(program))]
      /\ waiting = [t \in {"main"} |-> waiting["main"]]
  BY Zenon DEF FlowInv, FlowType
<1>2. Position + 1 \in Int /\ Len(s) <= Len(s) + 1
  BY <1>1
<1>4. ASSUME ~stopped, stopped' = stopped, delivered' = delivered,
             accepted' = [accepted EXCEPT ![1] = @ \o <<r>>],
             waiting' = [t \in {"main"} |-> Library!NotWaiting],
             blocked' = FALSE
      PROVE  FlowInv'
  <2>1. Flow(program, s, Position)
    BY <1>4, Zenon DEF FlowInv
  <2>2. accepted'[1] = s \o <<r>> /\ accepted' = [ep \in {1} |-> accepted'[1]]
    BY <1>1, <1>4, Zenon
  <2>3. /\ accepted'[1] \in Seq(Reports(program))
        /\ Len(accepted'[1]) = Len(s) + 1
        /\ Flow(program, accepted'[1], Position + 1)
        /\ \A i \in 1 .. Len(s) : accepted'[1][i] = s[i]
    <3>1. /\ s \o <<r>> \in Seq(Reports(program))
          /\ Len(s \o <<r>>) = Len(s) + 1
          /\ Flow(program, s \o <<r>>, Position + 1)
          /\ \A i \in 1 .. Len(s) : (s \o <<r>>)[i] = s[i]
      BY <1>1, <2>1, NextFlow
    <3> QED
      BY <2>2, <3>1, Zenon
  <2>4. Position' = Position + 1
    BY <1>4, Zenon
  <2>5. (waiting["main"] = Library!NotWaiting)'
    BY <1>4, Zenon DEF Library!NotWaiting
  <2>6. ~Failed'
    BY <1>4, Zenon DEF Failed
  <2>7. Len(delivered[1]) <= Len(s)
        /\ \A i \in 1 .. Len(delivered[1]) : delivered[1][i] = s[i]
    BY Zenon DEF FlowInv
  <2>8. /\ Len(delivered[1]) <= Len(accepted'[1])
        /\ \A i \in 1 .. Len(delivered[1]) : i \in 1 .. Len(s)
    BY <1>1, <2>3, <2>7
  <2>9. \A i \in 1 .. Len(delivered[1]) : delivered[1][i] = accepted'[1][i]
    BY <2>3, <2>7, <2>8, Zenon
  <2>10. FlowType'
    <3>1. accepted' \in [{1} -> Seq(Reports(program))]
      BY <2>2, <2>3, Zenon
    <3>2. waiting' = [t \in {"main"} |-> waiting'["main"]]
      BY <1>4, Zenon
    <3> QED
      BY <1>1, <1>2, <1>4, <2>4, <3>1, <3>2, Zenon DEF FlowType
  <2> QED
    BY <1>2, <1>4, <2>3, <2>4, <2>5, <2>6, <2>8, <2>9, <2>10, Zenon DEF FlowInv
<1>5. CASE /\ ~blocked /\ Library!Accept(1, <<r>>)
           /\ pc' = to /\ blocked' = FALSE
  <2>1. waiting["main"] = Library!NotWaiting
    BY <1>5, Zenon DEF FlowInv
  <2> QED
    BY <1>1, <1>4, <1>5, <2>1, Zenon DEF Library!Accept
<1>6. CASE /\ ~blocked /\ Library!Wait("main", 1, <<r>>)
           /\ pc' = from /\ blocked' = TRUE
  <2>1. /\ UNCHANGED <<accepted, delivered, stopped>>
        /\ waiting' = [waiting EXCEPT !["main"] = [ep |-> 1, data |-> <<r>>]]
        /\ Position' = Position
    BY <1>6, Zenon DEF Library!Wait
  <2>2. /\ waiting'["main"] = [ep |-> 1, data |-> <<r>>]
        /\ waiting' = [t \in {"main"} |-> waiting'["main"]]
    BY <1>1, <2>1, Zenon
  <2>3. waiting'["main"] # Library!NotWaiting
    BY <2>2 DEF Library!NotWaiting
  <2>4. ~Failed'
    BY <2>3, Zenon DEF Failed, Library!NotWaiting
  <2>5. FlowType'
    BY <1>1, <2>1, <2>2, Zenon DEF FlowType
  <2> QED
    BY <1>6, <2>1, <2>2, <2>4, <2>5, Zenon DEF FlowInv
<1>7. CASE /\ blocked /\ Library!AcceptWaiting("main", 1)
           /\ pc' = to /\ blocked' = FALSE
  <2>1. /\ ~stopped /\ waiting["main"].ep = 1
        /\ accepted' = [accepted EXCEPT ![1] = @ \o waiting["main"].data]
        /\ waiting' = [waiting EXCEPT !["main"] = Library!NotWaiting]
        /\ UNCHANGED <<delivered, stopped>>
    BY <1>7, Zenon DEF Library!AcceptWaiting
  <2>2. waiting["main"] # Library!NotWaiting
    BY <2>1 DEF Library!NotWaiting
  <2>3. waiting["main"] = [ep |-> 1, data |-> <<r>>]
    BY <2>2, Zenon DEF FlowInv
  <2>4. waiting["main"].data = <<r>>
    BY <2>3
  <2>5. waiting' = [t \in {"main"} |-> Library!NotWaiting]
    BY <1>1, <2>1, Zenon
  <2> QED
    BY <1>4, <1>7, <2>1, <2>4, <2>5, Zenon
<1>8. CASE /\ Failed \/ (stopped /\ ~blocked)
           /\ pc' = to /\ blocked' = FALSE
           /\ UNCHANGED stream
  <2>1. UNCHANGED <<accepted, delivered, waiting, stopped>>
    BY <1>8, Zenon DEF stream
  <2>2. waiting["main"] = Library!NotWaiting
    BY <1>8, Zenon DEF FlowInv, Failed
  <2>3. (waiting["main"] = Library!NotWaiting)'
    BY <2>1, <2>2, Zenon DEF Library!NotWaiting
  <2>4. ~Failed'
    BY <1>8, Zenon DEF Failed
  <2>5. (~stopped => Flow(program, accepted[1], Position))'
    BY <1>8, <2>1, EmptyFlow, Zenon DEF FlowInv
  <2>6. FlowType'
    BY <1>1, <1>2, <1>8, <2>1, Zenon DEF FlowType
  <2> QED
    BY <1>8, <2>1, <2>3, <2>4, <2>5, <2>6, Zenon DEF FlowInv
<1> QED
  BY <1>5, <1>6, <1>7, <1>8, Zenon DEF Transmit

\* What the server thread does in every program, and the position does not
\* depend on.
Around == \/ Server \/ Fetch \/ ResetEnds \/ Transfer
          \/ \E answer : Control(answer)

\* None of it touches main.
LEMMA AroundLeavesMain == Around => UNCHANGED <<pc, blocked>>
BY WritesFrame, Zenon
   DEF Around, Server, AttachStarts, DetachStarts, Interrupt, WorkerEnds, Fetch,
       ResetEnds, Transfer, Control, mainVars

\* All of it keeps the invariant.
LEMMA FlowAround ==
    ASSUME FlowInv, Around, UNCHANGED <<program, Position>>
    PROVE  FlowInv'
<1>0. UNCHANGED <<pc, blocked>>
  BY AroundLeavesMain, Zenon
<1>1. CASE Server
  BY <1>1, FlowServer, Zenon
<1>2. CASE Fetch
  BY <1>0, <1>2, FlowDeliver, Zenon DEF Fetch
<1>3. CASE UNCHANGED stream
  BY <1>0, <1>3, FlowSame, Zenon
<1> QED
  BY <1>1, <1>2, <1>3, Zenon
     DEF Around, ResetEnds, Transfer, Control

\* Staying at the same report.
LEMMA AlikeSame == ASSUME NEW prog, NEW k PROVE Alike(prog, k, k)
BY Zenon DEF Alike

\* A transmit leaves its place when it does not wait.
LEMMA TransmitGoes ==
    ASSUME NEW from, NEW to, NEW report, Transmit(from, to, report)
    PROVE  /\ pc = from
           /\ \/ blocked' = TRUE /\ pc' = from
              \/ blocked' = FALSE /\ pc' = to
BY Zenon DEF Transmit

\* The bulk device's answers are numbered.
LEMMA BulkOrder ==
    ASSUME FlowInv, msg_counter \in Nat, program = "bulk", program' = program,
           BulkNext
    PROVE  FlowInv' /\ msg_counter' \in Nat
<1>0. /\ Position = IF pc = "reply" THEN msg_counter ELSE msg_counter + 1
      /\ Position' = IF pc' = "reply" THEN msg_counter' ELSE msg_counter' + 1
      /\ Places(program) = {"reply"}
      /\ ReportOf(program, Position) = Position
  BY Zenon DEF Position, Places, ReportOf
<1>1. CASE Around /\ UNCHANGED msg_counter
  BY <1>0, <1>1, AroundLeavesMain, FlowAround, Zenon
<1>2. CASE BulkTransmits
  <2>1. Transmit("reply", "while", msg_counter) /\ UNCHANGED msg_counter
    BY <1>2, Zenon DEF BulkTransmits, bulkVars
  <2>2. /\ pc = "reply"
        /\ \/ blocked' = TRUE /\ pc' = "reply"
           \/ blocked' = FALSE /\ pc' = "while"
    BY <2>1, TransmitGoes, Zenon
  <2>3. Position' = IF blocked' THEN Position ELSE Position + 1
    BY <1>0, <2>1, <2>2, Zenon
  <2> QED
    BY <1>0, <2>1, <2>2, <2>3, FlowTransmit, Zenon
<1>3. CASE BulkWhile \/ BulkPrints \/ (Stop /\ UNCHANGED bulkVars)
  <2>1. /\ pc # "reply" /\ UNCHANGED <<stream, blocked>>
        /\ \/ pc' # "reply" /\ msg_counter' = msg_counter
           \/ pc' = "reply" /\ msg_counter' = msg_counter + 1
    BY <1>3, Zenon DEF BulkWhile, BulkPrints, Stop, While, Go, bulkVars
  <2>2. msg_counter' \in Nat /\ msg_counter + 1 \in Int
    BY <2>1
  <2>3. Position' = Position /\ Position' \in Int
    BY <1>0, <2>1, <2>2, Zenon
  <2> QED
    BY <1>0, <2>1, <2>2, <2>3, AlikeSame, FlowGo, Zenon
<1>4. BulkNext => (Around /\ UNCHANGED msg_counter) \/ BulkMain
  BY Zenon DEF BulkNext, BulkRequest, bulk_endpoint_data, BulkResetEnds,
     bulkVars, Around
<1> QED
  BY <1>1, <1>2, <1>3, <1>4, Zenon DEF BulkMain

\* The serial port's ticks are numbered.
LEMMA CdcOrder ==
    ASSUME FlowInv, tick_counter \in Nat, program = "cdc", program' = program,
           CdcNext
    PROVE  FlowInv' /\ tick_counter' \in Nat
<1>0. /\ Position = IF pc = "tick" THEN tick_counter - 1 ELSE tick_counter
      /\ Position' = IF pc' = "tick" THEN tick_counter' - 1 ELSE tick_counter'
      /\ Places(program) = {"tick"}
      /\ ReportOf(program, Position) = Position
  BY Zenon DEF Position, Places, ReportOf
<1>1. CASE Around /\ UNCHANGED tick_counter
  BY <1>0, <1>1, AroundLeavesMain, FlowAround, Zenon
<1>2. CASE CdcTransmits
  <2>1. Transmit("tick", "input", tick_counter - 1) /\ UNCHANGED tick_counter
    BY <1>2, Zenon DEF CdcTransmits, cdcVars
  <2>2. /\ pc = "tick"
        /\ \/ blocked' = TRUE /\ pc' = "tick"
           \/ blocked' = FALSE /\ pc' = "input"
    BY <2>1, TransmitGoes, Zenon
  <2>3. tick_counter - 1 + 1 = tick_counter
    OBVIOUS
  <2>4. Position' = IF blocked' THEN Position ELSE Position + 1
    BY <1>0, <2>1, <2>2, <2>3, Zenon
  <2> QED
    BY <1>0, <2>1, <2>2, <2>4, FlowTransmit, Zenon
<1>3. CASE \/ CdcWhile \/ CdcReadsDTR \/ CdcPrints
           \/ (Stop /\ UNCHANGED cdcVars)
  <2>1. /\ pc # "tick" /\ UNCHANGED <<stream, blocked>>
        /\ \/ pc' # "tick" /\ tick_counter' = tick_counter
           \/ pc' = "tick" /\ tick_counter' = tick_counter + 1
    BY <1>3, Zenon
       DEF CdcWhile, CdcReadsDTR, CdcPrints, Stop, While, Go, cdcVars
  <2>2. tick_counter' \in Nat /\ (tick_counter + 1) - 1 = tick_counter
    BY <2>1
  <2>3. tick_counter \in Int
    OBVIOUS
  <2>4. Position' = Position /\ Position' \in Int
    BY <1>0, <2>1, <2>2, <2>3, Zenon
  <2> QED
    BY <1>0, <2>1, <2>2, <2>4, AlikeSame, FlowGo, Zenon
<1>4. CdcNext => (Around /\ UNCHANGED tick_counter) \/ CdcMain
  BY Zenon DEF CdcNext, CdcFetch, CDC_SET_LINE_CODING, CdcOtherRequest,
     CDC_SET_CONTROL_LINE_STATE, cdc_endpoint_data, CdcResetCallback,
     cdcVars, Around
<1> QED
  BY <1>1, <1>2, <1>3, <1>4, Zenon DEF CdcMain

\* Where in its text the keyboard is.
KeyPlace ==
    /\ string_idx \in 0 .. Len(Text)
    /\ pc \in {"press", "release"} => string_idx < Len(Text)
    /\ pc \in {"wait", "poll"} => string_idx \in {0, Len(Text)}
    /\ pc = "while" => string_idx \in {0, Len(Text)} \/ interrupted

\* The text has a character.
LEMMA TextLength == Len(Text) \in Nat \ {0} /\ 2 * Len(Text) \in Nat \ {0}
<1>1. Text \in Seq(0 .. 127) /\ Text # <<>>
  BY KeyboardAssumption
<1> QED
  BY <1>1

\* A number below the divisor is its own remainder.
LEMMA SmallRemainder ==
    ASSUME NEW m \in Nat \ {0}, NEW a \in 0 .. m - 1
    PROVE  a % m = a
BY SMT

\* The strokes of the character the keyboard is at.
LEMMA StrokeOf ==
    ASSUME NEW i \in Nat, i < Len(Text)
    PROVE  /\ ReportOf("keyboard", 2 * i) = ascii_to_hid(Text[i + 1])
           /\ ReportOf("keyboard", 2 * i + 1) = NoKey
<1> DEFINE m == 2 * Len(Text)
           a == 2 * i
           b == 2 * i + 1
<1>0. /\ Len(Text) \in Nat /\ m \in Nat \ {0} /\ a \in Int /\ b \in Int
      /\ a \in 0 .. m - 1 /\ b \in 0 .. m - 1
      /\ a % 2 = 0 /\ a \div 2 = i /\ b % 2 = 1
  BY TextLength
<1> HIDE DEF m, a, b
<1>1. a % m = a /\ b % m = b
  BY <1>0, SmallRemainder
<1>2. /\ ReportOf("keyboard", a) = Stroke(a)
      /\ ReportOf("keyboard", b) = Stroke(b)
  BY <1>1, Zenon DEF ReportOf, m
<1>3. Stroke(a) = ascii_to_hid(Text[i + 1]) /\ Stroke(b) = NoKey
  <2>1. 1 # 0
    OBVIOUS
  <2> QED
    BY <1>0, <2>1, Zenon DEF Stroke
<1> QED
  BY <1>2, <1>3, Zenon DEF a, b

\* After the text comes the text.
LEMMA TextCycle ==
    ASSUME NEW i \in {0, Len(Text)}
    PROVE  Alike("keyboard", 2 * i, 0)
<1> DEFINE m == 2 * Len(Text)
<1>0. m \in Nat \ {0}
  BY TextLength, Zenon
<1> SUFFICES ASSUME NEW d \in Int
             PROVE  ReportOf("keyboard", 0 + d)
                        = ReportOf("keyboard", 2 * i + d)
  BY Zenon DEF Alike
<1>1. CASE i = 0
  <2>1. 2 * i = 0
    BY <1>1
  <2> QED
    BY <2>1, Zenon
<1>2. CASE i = Len(Text)
  <2>1. 2 * i = m
    BY <1>2, Zenon
  <2> HIDE DEF m
  <2>2. m + d = (0 + d) + m * 1 /\ m + d \in Int /\ 0 + d \in Int /\ 1 \in Int
    BY <1>0
  <2>3. (m + d) % m = (0 + d) % m
    BY <1>0, <2>2, SameRemainder, Zenon
  <2> QED
    BY <2>1, <2>3, Zenon DEF ReportOf, m
<1> QED
  BY <1>1, <1>2, Zenon

\* The keyboard types its text over and over.
LEMMA KeyboardOrder ==
    ASSUME FlowInv, KeyPlace, program = "keyboard", program' = program,
           KeyboardNext
    PROVE  FlowInv' /\ KeyPlace'
<1>0. /\ Position = 2 * string_idx + (IF pc = "release" THEN 1 ELSE 0)
      /\ Position' = 2 * string_idx' + (IF pc' = "release" THEN 1 ELSE 0)
      /\ Places(program) = {"press", "release"}
  BY Zenon DEF Position, Places
<1>t. Len(Text) \in Nat \ {0} /\ string_idx \in 0 .. Len(Text)
      /\ string_idx \in Nat
  BY TextLength DEF KeyPlace
<1>1. CASE Around /\ UNCHANGED string_idx
  <2>1. UNCHANGED <<pc, blocked>>
    BY <1>1, AroundLeavesMain, Zenon
  <2>2. interrupted => interrupted'
    BY <1>1, WritesFrame, Zenon
       DEF Around, Server, AttachStarts, DetachStarts, Interrupt, WorkerEnds,
           Fetch, ResetEnds, Transfer, Control
  <2>3. KeyPlace'
    BY <1>1, <2>1, <2>2, Zenon DEF KeyPlace
  <2> QED
    BY <1>0, <1>1, <2>1, <2>3, FlowAround, Zenon
<1>2. CASE KeyboardPresses
  <2>1. /\ Transmit("press", "release", ascii_to_hid(Text[string_idx + 1]))
        /\ UNCHANGED string_idx
    BY <1>2, Zenon DEF KeyboardPresses
  <2>2. /\ pc = "press"
        /\ \/ blocked' = TRUE /\ pc' = "press"
           \/ blocked' = FALSE /\ pc' = "release"
    BY <2>1, TransmitGoes, Zenon
  <2>3. string_idx < Len(Text)
    BY <2>2, Zenon DEF KeyPlace
  <2>4. 2 * string_idx + 0 = 2 * string_idx
    BY <1>t
  <2>5. /\ Position = 2 * string_idx
        /\ Position' = IF blocked' THEN Position ELSE Position + 1
    BY <1>0, <2>1, <2>2, <2>4, Zenon
  <2>6. ReportOf(program, Position) = ascii_to_hid(Text[string_idx + 1])
    BY <1>t, <2>3, <2>5, StrokeOf, Zenon
  <2>7. KeyPlace'
    BY <1>t, <2>1, <2>2, <2>3, Zenon DEF KeyPlace
  <2> QED
    BY <1>0, <2>1, <2>5, <2>6, <2>7, FlowTransmit, Zenon
<1>3. CASE KeyboardReleases
  <2>1. /\ Transmit("release", "type", NoKey)
        /\ string_idx' = IF pc' = "type" THEN string_idx + 1 ELSE string_idx
    BY <1>3, Zenon DEF KeyboardReleases
  <2>2. /\ pc = "release"
        /\ \/ blocked' = TRUE /\ pc' = "release"
           \/ blocked' = FALSE /\ pc' = "type"
    BY <2>1, TransmitGoes, Zenon
  <2>3. string_idx < Len(Text)
    BY <2>2, Zenon DEF KeyPlace
  <2>4. /\ 2 * (string_idx + 1) + 0 = (2 * string_idx + 1) + 1
        /\ string_idx + 1 \in 0 .. Len(Text)
    BY <1>t, <2>3
  <2>5. /\ Position = 2 * string_idx + 1
        /\ Position' = IF blocked' THEN Position ELSE Position + 1
    BY <1>0, <2>1, <2>2, <2>4, Zenon
  <2>6. ReportOf(program, Position) = NoKey
    BY <1>t, <2>3, <2>5, StrokeOf, Zenon
  <2>7. KeyPlace'
    BY <1>t, <2>1, <2>2, <2>3, <2>4, Zenon DEF KeyPlace
  <2> QED
    BY <1>0, <2>1, <2>5, <2>6, <2>7, FlowTransmit, Zenon
<1>4. ASSUME pc \notin {"press", "release"}, pc' # "release",
             UNCHANGED <<stream, blocked>>,
             string_idx' = string_idx
                 \/ (string_idx' = 0 /\ string_idx \in {0, Len(Text)})
      PROVE  FlowInv'
  <2>1. Position = 2 * string_idx /\ Position' = 2 * string_idx'
        /\ Position' \in Int
    BY <1>t, <1>0, <1>4
  <2>2. Alike(program, Position, Position')
    <3>1. CASE string_idx' = string_idx
      BY <2>1, <3>1, AlikeSame, Zenon
    <3>2. CASE string_idx' = 0 /\ string_idx \in {0, Len(Text)}
      <4>1. Position' = 0
        BY <2>1, <3>2
      <4> QED
        BY <2>1, <3>2, <4>1, TextCycle, Zenon
    <3> QED
      BY <1>4, <3>1, <3>2, Zenon
  <2> QED
    BY <1>0, <1>4, <2>1, <2>2, FlowGo, Zenon
<1>5. CASE KeyboardWhile
  <2>1. /\ pc = "while" /\ pc' \in {"wait", "stop"}
        /\ interrupted => pc' = "stop"
        /\ UNCHANGED <<stream, blocked, string_idx, interrupted>>
    BY <1>5, Zenon DEF KeyboardWhile, While, Go, keyboardVars
  <2>2. KeyPlace'
    BY <2>1, Zenon DEF KeyPlace
  <2> QED
    BY <1>4, <2>1, <2>2, Zenon
<1>6. CASE KeyboardWaits
  <2>1. /\ pc = "wait" /\ pc' \in {"poll", "type"} /\ string_idx' = 0
        /\ UNCHANGED <<stream, blocked, interrupted>>
    BY <1>6, Zenon DEF KeyboardWaits, Go
  <2>2. string_idx \in {0, Len(Text)}
    BY <2>1, Zenon DEF KeyPlace
  <2>3. 0 \in 0 .. Len(Text)
    BY <1>t
  <2>4. KeyPlace'
    BY <2>1, <2>3, Zenon DEF KeyPlace
  <2> QED
    BY <1>4, <2>1, <2>2, <2>4, Zenon
<1>7. CASE KeyboardPolls
  <2>1. /\ pc = "poll" /\ pc' \in {"type", "wait"}
        /\ UNCHANGED <<stream, blocked, string_idx, interrupted>>
    BY <1>7, Zenon DEF KeyboardPolls, Go
  <2>2. KeyPlace'
    BY <2>1, Zenon DEF KeyPlace
  <2> QED
    BY <1>4, <2>1, <2>2, Zenon
<1>8. CASE KeyboardTypes
  <2>1. /\ pc = "type"
        /\ pc' = IF string_idx < Len(Text) /\ ~interrupted
                 THEN "press" ELSE "while"
        /\ UNCHANGED <<stream, blocked, string_idx, interrupted>>
    BY <1>8, Zenon DEF KeyboardTypes, Go, keyboardVars
  <2>2. string_idx < Len(Text) \/ string_idx = Len(Text)
    BY <1>t
  <2>3. KeyPlace'
    BY <2>1, <2>2, Zenon DEF KeyPlace
  <2> QED
    BY <1>4, <2>1, <2>3, Zenon
<1>9. CASE Stop /\ UNCHANGED keyboardVars
  <2>1. /\ pc = "stop" /\ pc' = "done"
        /\ UNCHANGED <<stream, blocked, string_idx, interrupted>>
    BY <1>9, Zenon DEF Stop, Go, keyboardVars
  <2>2. KeyPlace'
    BY <2>1, Zenon DEF KeyPlace
  <2> QED
    BY <1>4, <2>1, <2>2, Zenon
<1>10. KeyboardNext => (Around /\ UNCHANGED string_idx) \/ KeyboardMain
  BY Zenon
     DEF KeyboardNext, KeyboardSetConfiguration, KeyboardOtherRequest,
         KeyboardResetEnds, keyboardVars, Around
<1> QED
  BY <1>1, <1>2, <1>3, <1>5, <1>6, <1>7, <1>8, <1>9, <1>10, Zenon
     DEF KeyboardMain

-----------------------------------------------------------------------------
(* The circle of the mouse                                                 *)

\* The circle's points, and that a signed byte holds the way from each to the
\* next, and from the last to the first.
LEMMA CirclePoints ==
    /\ \A j \in 1 .. 62 : pos_x[j] \in Int /\ pos_y[j] \in Int
    /\ \A j \in 1 .. 61 : /\ pos_x[j + 1] - pos_x[j] \in -128 .. 127
                          /\ pos_y[j + 1] - pos_y[j] \in -128 .. 127
    /\ pos_x[1] - pos_x[62] \in -128 .. 127
    /\ pos_y[1] - pos_y[62] \in -128 .. 127
<1>1. /\ \A j \in 1 .. 62 : pos_x[j] \in Int
      /\ \A j \in 1 .. 61 : pos_x[j + 1] - pos_x[j] \in -128 .. 127
      /\ pos_x[1] - pos_x[62] \in -128 .. 127
  BY SMT DEF pos_x
<1>2. /\ \A j \in 1 .. 62 : pos_y[j] \in Int
      /\ \A j \in 1 .. 61 : pos_y[j + 1] - pos_y[j] \in -128 .. 127
      /\ pos_y[1] - pos_y[62] \in -128 .. 127
  BY SMT DEF pos_y
<1> QED
  BY <1>1, <1>2, ZenonT(40)

\* A point is a pair of integers, and the next is a signed byte away.
LEMMA NextPoint ==
    ASSUME NEW k \in Int
    PROVE  /\ Point(k)[1] \in Int /\ Point(k)[2] \in Int
           /\ Point(k + 1)[1] - Point(k)[1] \in -128 .. 127
           /\ Point(k + 1)[2] - Point(k)[2] \in -128 .. 127
<1> DEFINE j == (k % NUMBER_OF_STEPS) + 1
           n == ((k + 1) % NUMBER_OF_STEPS) + 1
<1>1. /\ j \in 1 .. 62
      /\ \/ j \in 1 .. 61 /\ n = j + 1
         \/ j = 62 /\ n = 1
  BY SMT DEF NUMBER_OF_STEPS
<1>2. /\ Point(k)[1] = pos_x[j] /\ Point(k)[2] = pos_y[j]
      /\ Point(k + 1)[1] = pos_x[n] /\ Point(k + 1)[2] = pos_y[n]
  BY Zenon DEF Point
<1> HIDE DEF j, n
<1>3. /\ pos_x[j] \in Int /\ pos_y[j] \in Int
      /\ pos_x[n] - pos_x[j] \in -128 .. 127
      /\ pos_y[n] - pos_y[j] \in -128 .. 127
  <2>1. pos_x[j] \in Int /\ pos_y[j] \in Int
    BY <1>1, CirclePoints, Zenon
  <2>2. CASE j \in 1 .. 61 /\ n = j + 1
    BY <2>1, <2>2, CirclePoints, Zenon
  <2>3. CASE j = 62 /\ n = 1
    BY <2>1, <2>3, CirclePoints, Zenon
  <2> QED
    BY <1>1, <2>2, <2>3, Zenon
<1> QED
  BY <1>2, <1>3, Zenon

\* The host reads the distance that main has cut to a byte.
LEMMA SignedByte ==
    ASSUME NEW d \in -128 .. 127
    PROVE  Signed(d % 256) = d
BY SMT DEF Signed

\* From the last step the circle goes on with the first.
PointsAlike(k, m) == \A d \in Int : Point(m + d) = Point(k + d)

\* A full turn leads to the same point.
LEMMA CircleCloses ==
    ASSUME NEW s \in 0 .. 61
    PROVE  /\ PointsAlike(s, NextStep(s) - 1)
           /\ NextStep(s) \in 0 .. 61
<1>1. NextStep(s) = (IF s = 61 THEN 0 ELSE s + 1)
  BY SMT DEF NextStep, NUMBER_OF_STEPS
<1>2. ASSUME NEW d \in Int
      PROVE  ((NextStep(s) - 1) + d) % 62 = (s + d) % 62
  BY <1>1, SMT
<1>3. NextStep(s) \in 0 .. 61
  BY <1>1, SMT
<1> QED
  BY <1>2, <1>3, Zenon DEF PointsAlike, Point, NUMBER_OF_STEPS

\* Then the reports are alike too.
LEMMA MovesAlike ==
    ASSUME NEW k \in Int, NEW m \in Int, PointsAlike(k, m)
    PROVE  Alike("mouse", k, m)
<1> SUFFICES ASSUME NEW d \in Int
             PROVE  Move(m + d) = Move(k + d)
  BY Zenon DEF Alike, ReportOf
<1>1. d + 1 \in Int /\ (m + d) + 1 = m + (d + 1) /\ (k + d) + 1 = k + (d + 1)
  BY SMT
<1>2. Point(m + d) = Point(k + d) /\ Point(m + (d + 1)) = Point(k + (d + 1))
  BY <1>1, Zenon DEF PointsAlike
<1> QED
  BY <1>1, <1>2, Zenon DEF Move

\* The way from one point to another.
Between(a, b) == <<Point(b)[1] - Point(a)[1], Point(b)[2] - Point(a)[2]>>

\* It is nothing from a point to itself.
LEMMA BetweenSame == ASSUME NEW k \in Int PROVE Between(k, k) = <<0, 0>>
<1>1. Point(k)[1] - Point(k)[1] = 0 /\ Point(k)[2] - Point(k)[2] = 0
  BY NextPoint, SMT
<1> QED
  BY <1>1, ZenonT(40) DEF Between

\* A fetched report moves the pointer to the next point.
LEMMA BetweenNext ==
    ASSUME NEW a \in Int, NEW b \in Int
    PROVE  Between(a, b + 1) =
               <<Between(a, b)[1] + Signed(Move(b)[1]),
                 Between(a, b)[2] + Signed(Move(b)[2])>>
<1>1. /\ Signed(Move(b)[1]) = Point(b + 1)[1] - Point(b)[1]
      /\ Signed(Move(b)[2]) = Point(b + 1)[2] - Point(b)[2]
  BY NextPoint, SignedByte, ZenonT(40) DEF Move
<1>2. b + 1 \in Int
  OBVIOUS
<1>3. /\ Point(a)[1] \in Int /\ Point(a)[2] \in Int
      /\ Point(b)[1] \in Int /\ Point(b)[2] \in Int
      /\ Point(b + 1)[1] \in Int /\ Point(b + 1)[2] \in Int
  BY <1>2, NextPoint, Zenon
<1>4. /\ Between(a, b)[1] = Point(b)[1] - Point(a)[1]
      /\ Between(a, b)[2] = Point(b)[2] - Point(a)[2]
  BY Zenon DEF Between
<1>5. ASSUME NEW u \in Int, NEW v \in Int, NEW w \in Int
      PROVE  w - u = (v - u) + (w - v)
  OBVIOUS
<1>6. /\ Point(b + 1)[1] - Point(a)[1] =
             Between(a, b)[1] + Signed(Move(b)[1])
      /\ Point(b + 1)[2] - Point(a)[2] =
             Between(a, b)[2] + Signed(Move(b)[2])
  BY <1>1, <1>3, <1>4, <1>5, SMT
<1> QED
  BY <1>6, Zenon DEF Between

\* How far a transmit brings the stream.
LEMMA TransmitCounts ==
    ASSUME FlowInv, NEW from, NEW to,
           Transmit(from, to, ReportOf(program, Position))
    PROVE  \/ blocked' = TRUE /\ accepted' = accepted
           \/ /\ blocked' = FALSE
              /\ Len(accepted'[1]) = Len(accepted[1]) + 1
           \/ /\ blocked' = FALSE /\ accepted' = accepted
              /\ stopped \/ accepted[1] = <<>>
<1> DEFINE r == ReportOf(program, Position)
           R == Reports(program)
<1>1. /\ accepted \in [{1} -> Seq(R)] /\ accepted[1] \in Seq(R) /\ r \in R
  BY Zenon DEF FlowInv, FlowType, Reports
<1>2. Len(accepted[1] \o <<r>>) = Len(accepted[1]) + 1
  <2> HIDE DEF r, R
  <2> QED
    BY <1>1
<1>3. CASE /\ ~blocked /\ Library!Accept(1, <<r>>)
           /\ pc' = to /\ blocked' = FALSE
  <2>1. accepted'[1] = accepted[1] \o <<r>>
    BY <1>1, <1>3, Zenon DEF Library!Accept
  <2> QED
    BY <1>2, <1>3, <2>1, Zenon
<1>4. CASE /\ ~blocked /\ Library!Wait("main", 1, <<r>>)
           /\ pc' = from /\ blocked' = TRUE
  BY <1>4, Zenon DEF Library!Wait
<1>5. CASE /\ blocked /\ Library!AcceptWaiting("main", 1)
           /\ pc' = to /\ blocked' = FALSE
  <2>1. /\ waiting["main"].ep = 1
        /\ accepted' = [accepted EXCEPT ![1] = @ \o waiting["main"].data]
    BY <1>5, Zenon DEF Library!AcceptWaiting
  <2>2. waiting["main"] # Library!NotWaiting
    BY <2>1 DEF Library!NotWaiting
  <2>3. waiting["main"] = [ep |-> 1, data |-> <<r>>]
    BY <2>2, Zenon DEF FlowInv
  <2>4. waiting["main"].data = <<r>>
    BY <2>3
  <2>5. accepted'[1] = accepted[1] \o <<r>>
    BY <1>1, <2>1, <2>4, Zenon
  <2> QED
    BY <1>2, <1>5, <2>5, Zenon
<1>6. CASE /\ Failed \/ (stopped /\ ~blocked)
           /\ pc' = to /\ blocked' = FALSE
           /\ UNCHANGED stream
  BY <1>6, Zenon DEF FlowInv, stream
<1> QED
  BY <1>3, <1>4, <1>5, <1>6, Zenon DEF Transmit

\* Where on its circle the mouse is, and the report it is about to transmit.
StepPlace ==
    /\ step_counter \in 0 .. 61
    /\ pc = "transmit" => out_buffer = Move(Position)
    /\ session \in Nat

\* The host's pointer is where the fetched reports lead.
PointerInv ==
    ~stopped /\ host \in {"attaching", "attached"} =>
        LET start == Position - Len(accepted[1])
        IN pointer = Between(start, start + Len(delivered[1]))

\* A turn leads to the next step of the circle, and leaves the stream.
LEMMA MouseTurns ==
    ASSUME FlowInv, StepPlace, program = "mouse", program' = program,
           MouseMoves
    PROVE  /\ FlowInv' /\ StepPlace'
           /\ Position \in Int /\ Position' \in Int
           /\ PointsAlike(Position, Position')
           /\ UNCHANGED <<stream, host>>
<1>0. /\ Position = IF pc = "transmit" THEN step_counter - 1 ELSE step_counter
      /\ Position' = IF pc' = "transmit" THEN step_counter' - 1
                     ELSE step_counter'
      /\ Places(program) = {"transmit"}
  BY Zenon DEF Position, Places
<1>1. /\ pc = "while" /\ UNCHANGED <<stream, host, session, blocked>>
      /\ pc' = IF interrupted THEN "stop" ELSE "transmit"
  BY Zenon DEF MouseMoves, While, Go
<1>2. step_counter \in 0 .. 61 /\ step_counter \in Int /\ session \in Nat
  BY SMT DEF StepPlace
<1>3. CASE interrupted
  <2>1. /\ UNCHANGED <<step_counter, out_buffer>> /\ pc' = "stop"
    BY <1>1, <1>3, Zenon DEF MouseMoves
  <2>2. Position' = Position /\ Position' \in Int
    BY <1>0, <1>1, <1>2, <2>1, Zenon
  <2>3. PointsAlike(Position, Position')
    BY <2>2, Zenon DEF PointsAlike
  <2>4. StepPlace'
    BY <1>1, <1>2, <2>1, Zenon DEF StepPlace
  <2> QED
    BY <1>0, <1>1, <2>2, <2>3, <2>4, AlikeSame, FlowGo, Zenon
<1>4. CASE ~interrupted
  <2> DEFINE old == step_counter
             new == NextStep(step_counter)
  <2>1. /\ step_counter' = new /\ pc' = "transmit"
        /\ out_buffer' = <<(pos_x[new + 1] - pos_x[old + 1]) % 256,
                           (pos_y[new + 1] - pos_y[old + 1]) % 256>>
    BY <1>1, <1>4, Zenon DEF MouseMoves
  <2>2. /\ PointsAlike(old, new - 1) /\ new \in 0 .. 61
    BY <1>2, CircleCloses, Zenon
  <2>3. Position = old /\ Position' = new - 1
    BY <1>0, <1>1, <2>1, Zenon
  <2>4. /\ new - 1 \in Int /\ (new - 1) + 1 = new /\ 0 \in Int
        /\ (new - 1) + 0 = new - 1 /\ old + 0 = old
        /\ old % 62 = old /\ new % 62 = new
    BY <1>2, <2>2, SMT
  <2>5. /\ Point(new - 1) = Point(old)
    BY <2>2, <2>4, Zenon DEF PointsAlike
  <2>6. /\ Point(old)[1] = pos_x[old + 1] /\ Point(old)[2] = pos_y[old + 1]
        /\ Point(new)[1] = pos_x[new + 1] /\ Point(new)[2] = pos_y[new + 1]
    BY <2>4, Zenon DEF Point, NUMBER_OF_STEPS
  <2>7. out_buffer' = Move(new - 1)
    BY <2>1, <2>4, <2>5, <2>6, ZenonT(40) DEF Move
  <2>8. StepPlace'
    BY <1>1, <1>2, <2>1, <2>2, <2>3, <2>7, Zenon DEF StepPlace
  <2>9. PointsAlike(Position, Position') /\ Alike(program, Position, Position')
    BY <1>2, <2>2, <2>3, <2>4, MovesAlike, Zenon
  <2> QED
    BY <1>0, <1>1, <1>2, <2>3, <2>4, <2>8, <2>9, FlowGo, Zenon
<1> QED
  BY <1>3, <1>4, Zenon

\* The mouse goes around its circle.
LEMMA MouseOrder ==
    ASSUME FlowInv, StepPlace, PointerInv, program = "mouse",
           program' = program, MouseNext
    PROVE  FlowInv' /\ StepPlace' /\ PointerInv'
<1>0. /\ Position = IF pc = "transmit" THEN step_counter - 1 ELSE step_counter
      /\ Position' = IF pc' = "transmit" THEN step_counter' - 1
                     ELSE step_counter'
      /\ Places(program) = {"transmit"}
      /\ \A k : ReportOf(program, k) = Move(k)
  BY Zenon DEF Position, Places, ReportOf
<1>t. step_counter \in 0 .. 61 /\ step_counter \in Int /\ session \in Nat
  BY SMT DEF StepPlace
<1> DEFINE a == Len(accepted[1])
           n == Len(delivered[1])
<1>l. /\ a \in Nat /\ n \in Nat /\ Position \in Int
      /\ Position - a \in Int /\ (Position - a) + n \in Int
  <2>1. /\ accepted[1] \in Seq(Reports(program)) /\ Position \in Int
        /\ delivered[1] \in Seq(Reports(program))
    BY Zenon DEF FlowInv, FlowType
  <2> QED
    BY <2>1
<1>1. CASE /\ MouseNext /\ ~MouseMain
           /\ Around /\ UNCHANGED <<step_counter, out_buffer>>
  <2>1. /\ UNCHANGED <<pc, blocked>> /\ Position' = Position
    BY <1>0, <1>1, AroundLeavesMain, Zenon
  <2>2. FlowInv'
    BY <1>1, <2>1, FlowAround, Zenon
  <2>3. session' \in Nat
    <3>1. session' = session \/ session' = session + 1
      BY <1>1, WritesFrame, Zenon
         DEF Around, Server, AttachStarts, DetachStarts, Interrupt, WorkerEnds,
             Fetch, ResetEnds, Transfer, Control
    <3> QED
      BY <1>t, <3>1
  <2>4. StepPlace'
    BY <1>1, <1>t, <2>1, <2>3, Zenon DEF StepPlace
  <2>5. CASE MouseFetch
    <3>1. /\ Len(delivered'[1]) = n + 1
          /\ n + 1 \in 1 .. a
          /\ delivered'[1][n + 1] = accepted[1][n + 1]
      BY <2>1, <2>5, FlowDeliver, Zenon DEF MouseFetch, Fetch
    <3>2. /\ ~stopped /\ host = "attached"
          /\ UNCHANGED <<accepted, stopped, host>>
          /\ pointer' = <<pointer[1] + Signed(delivered'[1][n + 1][1]),
                          pointer[2] + Signed(delivered'[1][n + 1][2])>>
      BY <2>5, <3>1, Zenon DEF MouseFetch, Fetch, Serving, Library!Deliver
    <3> DEFINE start == Position - a
               here == start + n
    <3>3. /\ start \in Int /\ here \in Int
          /\ start + (n + 1) = here + 1
          /\ Position - a + (n + 1) - 1 = here
      BY <1>l
    <3>4. accepted[1][n + 1] = Move(here)
      <4>1. Flow(program, accepted[1], Position)
        BY <3>2, Zenon DEF FlowInv
      <4>2. accepted[1][n + 1]
            = ReportOf(program, Position - a + (n + 1) - 1)
        BY <3>1, <4>1, Zenon DEF Flow
      <4> QED
        BY <1>0, <3>3, <4>2, Zenon
    <3>5. pointer = Between(start, here)
      BY <3>2, Zenon DEF PointerInv
    <3> HIDE DEF start, here
    <3>6. pointer' = Between(start, here + 1)
      BY <3>1, <3>2, <3>3, <3>4, <3>5, BetweenNext, ZenonT(40)
    <3>7. PointerInv'
      BY <2>1, <3>1, <3>2, <3>3, <3>6, Zenon DEF PointerInv, start
    <3> QED
      BY <2>2, <2>4, <3>7, Zenon
  <2>6. CASE AttachStarts /\ MouseServer
    <3>1. /\ accepted'[1] = <<>> /\ delivered'[1] = <<>>
          /\ session' = session + 1
      BY <2>6, Zenon DEF AttachStarts, Library!Reset, Library!Empty
    <3>2. session' # session
      BY <1>t, <3>1
    <3>3. pointer' = <<0, 0>>
      BY <2>6, <3>2, Zenon DEF MouseServer
    <3>4. Len(<<>>) = 0 /\ Position - 0 = Position /\ Position + 0 = Position
      BY <1>l
    <3>5. PointerInv'
      BY <1>l, <2>1, <3>1, <3>3, <3>4, BetweenSame, Zenon DEF PointerInv
    <3> QED
      BY <2>2, <2>4, <3>5, Zenon
  <2>7. CASE \/ (DetachStarts \/ WorkerEnds) /\ MouseServer
    <3>1. PointerInv'
      BY <2>7, Zenon DEF DetachStarts, WorkerEnds, Library!Stop, PointerInv
    <3> QED
      BY <2>2, <2>4, <3>1, Zenon
  <2>8. CASE /\ UNCHANGED <<stream, pointer>>
             /\ host' \in {"attaching", "attached"} =>
                    host \in {"attaching", "attached"}
    <3>1. PointerInv'
      BY <2>1, <2>8, Zenon DEF PointerInv, stream
    <3> QED
      BY <2>2, <2>4, <3>1, Zenon
  <2>9. CASE Interrupt /\ MouseServer
    <3>1. session' = session /\ UNCHANGED <<stream, host>>
      BY <2>9, Zenon DEF Interrupt
    <3> QED
      BY <2>8, <2>9, <3>1, Zenon DEF MouseServer
  <2>10. CASE MouseResetEnds \/ MouseRequest
    BY <2>8, <2>10, Zenon
       DEF MouseResetEnds, MouseRequest, ResetEnds, Control, mouseVars
  <2>11. CASE (WriteEnds \/ ListDevice) /\ MouseServer
    <3>1. session' = session /\ UNCHANGED <<stream, host>>
      BY <2>11, Zenon DEF WriteEnds, ListDevice
    <3> QED
      BY <2>8, <2>11, <3>1, Zenon DEF MouseServer
  <2> QED
    BY <1>1, <2>5, <2>6, <2>7, <2>9, <2>10, <2>11, Zenon
       DEF MouseNext, MouseServer, Server
<1>2. CASE MouseMoves
  <2>1. /\ FlowInv' /\ StepPlace' /\ Position' \in Int
        /\ PointsAlike(Position, Position')
        /\ UNCHANGED <<accepted, delivered, stopped, host>>
    BY <1>2, MouseTurns, Zenon DEF stream
  <2>2. pointer' = pointer
    BY <1>2, Zenon DEF MouseMoves
  <2> DEFINE k == Position
             m == Position'
             d == -a
             e == n - a
  <2>3. /\ d \in Int /\ e \in Int
        /\ k - a = k + d /\ (k - a) + n = k + e
        /\ m - a = m + d /\ (m - a) + n = m + e
    <3> HIDE DEF k, m, a, n
    <3> QED
      BY <1>l, <2>1 DEF k, m
  <2>4. Point(m + d) = Point(k + d) /\ Point(m + e) = Point(k + e)
    BY <2>1, <2>3, Zenon DEF PointsAlike
  <2>5. Between(m - a, (m - a) + n) = Between(k - a, (k - a) + n)
    BY <2>3, <2>4, Zenon DEF Between
  <2>6. PointerInv'
    BY <2>1, <2>2, <2>5, Zenon DEF PointerInv
  <2> QED
    BY <2>1, <2>6, Zenon
<1>3. CASE MouseTransmits
  <2>1. /\ Transmit("transmit", "while", out_buffer)
        /\ UNCHANGED <<step_counter, out_buffer, pointer>>
    BY <1>3, Zenon DEF MouseTransmits, mouseVars
  <2>2. /\ pc = "transmit"
        /\ \/ blocked' = TRUE /\ pc' = "transmit"
           \/ blocked' = FALSE /\ pc' = "while"
    BY <2>1, TransmitGoes, Zenon
  <2>3. out_buffer = ReportOf(program, Position)
    BY <1>0, <2>2, Zenon DEF StepPlace
  <2>4. (step_counter - 1) + 1 = step_counter
    BY <1>t
  <2>5. Position' = IF blocked' THEN Position ELSE Position + 1
    BY <1>0, <2>1, <2>2, <2>4, Zenon
  <2>6. FlowInv'
    BY <1>0, <2>1, <2>2, <2>3, <2>5, FlowTransmit, Zenon
  <2>7. UNCHANGED <<stopped, delivered, host, session>>
    BY <2>1, TransmitFrame, Zenon
  <2>8. StepPlace'
    BY <1>0, <1>t, <2>1, <2>2, <2>7, Zenon DEF StepPlace
  <2>9. \/ blocked' = TRUE /\ accepted' = accepted
        \/ blocked' = FALSE /\ Len(accepted'[1]) = a + 1
        \/ /\ blocked' = FALSE /\ accepted' = accepted
           /\ stopped \/ accepted[1] = <<>>
    BY <2>1, <2>3, TransmitCounts, Zenon
  <2>10. CASE Position' - Len(accepted'[1]) = Position - a
    BY <2>1, <2>6, <2>7, <2>8, <2>10, Zenon DEF PointerInv
  <2>11. CASE blocked' = TRUE /\ accepted' = accepted
    BY <2>5, <2>10, <2>11, Zenon
  <2>12. CASE blocked' = FALSE /\ Len(accepted'[1]) = a + 1
    <3>1. (Position + 1) - (a + 1) = Position - a
      BY <1>l
    <3> QED
      BY <2>5, <2>10, <2>12, <3>1, Zenon
  <2>13. CASE /\ blocked' = FALSE /\ accepted' = accepted
              /\ accepted[1] = <<>>
    <3>1. a = 0
      BY <2>13
    <3>2. n = 0
      <4>1. n <= a
        BY Zenon DEF FlowInv
      <4> QED
        BY <1>l, <3>1, <4>1
    <3>3. /\ (Position - 0) + 0 = Position /\ Position + 1 \in Int
          /\ ((Position + 1) - 0) + 0 = Position + 1
          /\ Position - 0 = Position /\ (Position + 1) - 0 = Position + 1
      BY <1>l
    <3>4. /\ Between(Position, Position) = <<0, 0>>
          /\ Between(Position + 1, Position + 1) = <<0, 0>>
      BY <1>l, <3>3, BetweenSame, Zenon
    <3> QED
      BY <2>1, <2>5, <2>6, <2>7, <2>8, <2>13, <3>1, <3>2, <3>3, <3>4, Zenon
         DEF PointerInv
  <2>14. CASE stopped
    BY <2>6, <2>7, <2>8, <2>14, Zenon DEF PointerInv
  <2> QED
    BY <2>9, <2>11, <2>12, <2>13, <2>14, Zenon
<1>4. CASE Stop /\ UNCHANGED mouseVars
  <2>1. /\ pc = "stop" /\ pc' = "done"
        /\ UNCHANGED <<stream, host, session, blocked>>
        /\ UNCHANGED <<step_counter, out_buffer, pointer>>
    BY <1>4, Zenon DEF Stop, Go, mouseVars
  <2>2. Position' = Position
    BY <1>0, <2>1, Zenon
  <2>3. StepPlace'
    BY <1>t, <2>1, Zenon DEF StepPlace
  <2>4. PointerInv'
    BY <2>1, <2>2, Zenon DEF PointerInv, stream
  <2> QED
    BY <1>0, <1>l, <2>1, <2>2, <2>3, <2>4, AlikeSame, FlowGo, Zenon
<1>5. MouseMain \/ (Around /\ UNCHANGED <<step_counter, out_buffer>>)
  BY Zenon
     DEF MouseNext, MouseServer, MouseFetch, MouseRequest, MouseResetEnds,
         mouseVars, Around
<1> QED
  BY <1>1, <1>2, <1>3, <1>4, <1>5, Zenon DEF MouseMain

-----------------------------------------------------------------------------
(* All reports                                                             *)

\* Every program but the microphone goes through its reports in order.
OrderInv ==
    program # "audio" =>
        /\ FlowInv
        /\ program = "bulk" => msg_counter \in Nat
        /\ program = "cdc" => tick_counter \in Nat
        /\ program = "keyboard" => KeyPlace
        /\ program = "mouse" => StepPlace /\ PointerInv

\* It does from the start.
LEMMA OrderInit == ExamplesInit => OrderInv
<1> SUFFICES ASSUME ExamplesInit, program # "audio"
             PROVE  OrderInv
  BY Zenon DEF OrderInv
<1>1. /\ accepted = [ep \in {1} |-> <<>>] /\ delivered = [ep \in {1} |-> <<>>]
      /\ waiting = [t \in {"main"} |-> Library!NotWaiting]
      /\ accepted[1] = <<>> /\ delivered[1] = <<>>
      /\ waiting["main"] = Library!NotWaiting
      /\ pc = "while" /\ ~blocked /\ host = "none" /\ session = 0
      /\ program \in {"bulk", "cdc", "keyboard", "mouse"}
  BY Zenon DEF ExamplesInit, AppInit, Library!Init, Library!Empty
<1>2. /\ msg_counter = 0 /\ tick_counter = 0 /\ string_idx = 0
      /\ step_counter = 0
  BY Zenon DEF ExamplesInit, BulkInit, CdcInit, KeyboardInit, MouseInit
<1>3. /\ 0 \in Nat /\ 0 \in 0 .. 61 /\ 0 \in 0 .. Len(Text)
      /\ 2 * 0 + 0 \in Int /\ 0 \in Int /\ 0 + 1 \in Int
      /\ 0 <= 0 /\ 1 .. 0 = {}
  BY TextLength
<1>4. Position \in Int
  BY <1>1, <1>2, <1>3, Zenon DEF Position
<1>5. /\ \A k : Flow(program, <<>>, k)
      /\ <<>> \in Seq(Reports(program)) /\ Len(<<>>) = 0
  BY EmptyFlow, Zenon
<1>6. FlowInv
  BY <1>1, <1>3, <1>4, <1>5, Zenon DEF FlowInv, FlowType, Failed
<1>7. KeyPlace /\ (StepPlace /\ PointerInv)
  BY <1>1, <1>2, <1>3, Zenon DEF KeyPlace, StepPlace, PointerInv
<1> QED
  BY <1>2, <1>3, <1>6, <1>7, Zenon DEF OrderInv

\* Every step keeps it.
LEMMA OrderKept ==
    ASSUME OrderInv, [ExamplesNext]_exampleVars
    PROVE  OrderInv'
<1>1. CASE Bulk /\ BulkNext
  BY <1>1, BulkOrder, Zenon DEF Bulk, OrderInv
<1>2. CASE Cdc /\ CdcNext
  BY <1>2, CdcOrder, Zenon DEF Cdc, OrderInv
<1>3. CASE Keyboard /\ KeyboardNext
  BY <1>3, KeyboardOrder, Zenon DEF Keyboard, OrderInv
<1>4. CASE Mouse /\ MouseNext
  BY <1>4, MouseOrder, Zenon DEF Mouse, OrderInv
<1>5. CASE Audio /\ AudioNext
  BY <1>5, Zenon DEF Audio, OrderInv
<1>6. CASE UNCHANGED exampleVars
  <2>1. UNCHANGED <<program, stream, host, session, interrupted, pc, blocked,
                    msg_counter, tick_counter, string_idx, step_counter,
                    out_buffer, pointer>>
    BY <1>6, Zenon DEF exampleVars, appVars, mainVars, bulkVars, cdcVars,
       keyboardVars, mouseVars
  <2>2. Position' = Position
    BY <2>1, Zenon DEF Position
  <2>3. FlowInv => FlowInv'
    BY <2>1, <2>2, FlowSame, Zenon
  <2>4. KeyPlace => KeyPlace'
    BY <2>1, Zenon DEF KeyPlace
  <2>5. StepPlace /\ PointerInv => StepPlace' /\ PointerInv'
    BY <2>1, <2>2, Zenon DEF StepPlace, PointerInv, stream
  <2> QED
    BY <2>1, <2>3, <2>4, <2>5, Zenon DEF OrderInv
<1> QED
  BY <1>1, <1>2, <1>3, <1>4, <1>5, <1>6, Zenon DEF ExamplesNext

\* What the host has fetched are consecutive reports.
LEMMA DeliveredFlow ==
    ASSUME FlowInv
    PROVE  /\ delivered[1] \in Seq(Reports(program))
           /\ \E k \in Int : Flow(program, delivered[1], k)
<1>1. /\ accepted[1] \in Seq(Reports(program))
      /\ delivered[1] \in Seq(Reports(program))
  BY Zenon DEF FlowInv, FlowType
<1>2. PICK k \in Int : Flow(program, accepted[1], k)
  BY Zenon DEF FlowInv
<1> QED
  BY <1>1, <1>2, PrefixFlow, Zenon DEF FlowInv

\* usbip_device_transmit as the programs call it: what main transmits while a
\* host is attached is neither lost nor repeated.  Answers and ticks arrive
\* with consecutive numbers and keys in the order of the text, for every text
\* and any number of hosts.
THEOREM ReportsArriveInOrder == ExamplesSpec => []ReportsInOrder
<1>1. OrderInv => ReportsInOrder
  <2> SUFFICES ASSUME OrderInv PROVE ReportsInOrder
    OBVIOUS
  <2> DEFINE s == delivered[1]
  <2>1. ASSUME program \in {"bulk", "cdc"}, NEW i \in 1 .. Len(s) - 1
        PROVE  s[i + 1] = s[i] + 1
    <3>1. FlowInv
      BY <2>1, Zenon DEF OrderInv
    <3>2. /\ s \in Seq(Reports(program))
          /\ \E k \in Int : Flow(program, s, k)
      BY <3>1, DeliveredFlow, Zenon
    <3>3. PICK k \in Int : Flow(program, s, k)
      BY <3>2, Zenon
    <3>4. \A m : ReportOf(program, m) = m
      BY <2>1, Zenon DEF ReportOf
    <3> HIDE DEF s
    <3>5. /\ Len(s) \in Nat /\ i \in 1 .. Len(s) /\ i + 1 \in 1 .. Len(s)
      BY <2>1, <3>2
    <3>6. /\ s[i] = k - Len(s) + i - 1
          /\ s[i + 1] = k - Len(s) + (i + 1) - 1
      BY <3>3, <3>4, <3>5, Zenon DEF Flow
    <3> QED
      BY <3>5, <3>6
  <2>2. KeysInOrder
    <3> SUFFICES ASSUME program = "keyboard"
                 PROVE  \E start \in 0 .. 2 * Len(Text) - 1 :
                            \A i \in DOMAIN delivered[1] :
                                delivered[1][i]
                                = Stroke((start + i - 1) % (2 * Len(Text)))
      BY Zenon DEF KeysInOrder
    <3>1. FlowInv
      BY Zenon DEF OrderInv
    <3>2. /\ s \in Seq(Reports(program))
          /\ \E k \in Int : Flow(program, s, k)
      BY <3>1, DeliveredFlow, Zenon
    <3>3. PICK k \in Int : Flow(program, s, k)
      BY <3>2, Zenon
    <3> DEFINE m == 2 * Len(Text)
               l == Len(s)
               start == (k - l) % m
    <3>4. m \in Nat \ {0}
      BY TextLength, Zenon
    <3>5. l \in Nat /\ DOMAIN s = 1 .. l /\ k - l \in Int
      <4> HIDE DEF s
      <4> QED
        BY <3>2
    <3>6. start \in 0 .. m - 1
      BY <3>4, <3>5, DivMod, Zenon
    <3>7. ASSUME NEW i \in DOMAIN s
          PROVE  s[i] = Stroke((start + i - 1) % m)
      <4>1. i \in 1 .. l
        BY <3>5, <3>7, Zenon
      <4>2. s[i] = Stroke((k - l + i - 1) % m)
        BY <3>3, <4>1, Zenon DEF Flow, ReportOf
      <4>3. i - 1 \in Int
        BY <4>1
      <4>4. (((k - l) % m) + (i - 1)) % m = ((k - l) + (i - 1)) % m
        BY <3>4, <3>5, <4>3, EarlyRemainder, Zenon
      <4>5. /\ (k - l) + (i - 1) = k - l + i - 1
            /\ start + (i - 1) = start + i - 1
        <5> HIDE DEF start, m
        <5> QED
          BY <3>5, <3>6, <4>1
      <4> QED
        BY <4>2, <4>4, <4>5, Zenon
    <3> QED
      BY <3>6, <3>7, Zenon
  <2> QED
    BY <2>1, <2>2, Zenon DEF ReportsInOrder
<1> QED
  BY <1>1, OrderInit, OrderKept, PTL DEF ExamplesSpec

\* The reports' bytes and main's step_counter: a host's pointer is always at
\* the point of the circle that its fetched reports lead to, whichever report
\* its predecessor missed and however long main waited.
THEOREM PointerStaysOnCircle == ExamplesSpec => []PointerOnCircle
<1>1. OrderInv => PointerOnCircle
  <2> SUFFICES ASSUME OrderInv, program = "mouse", host = "attached", ~stopped
               PROVE  LET here == (step_counter - InFlight) % NUMBER_OF_STEPS
                          start == (here - Len(delivered[1])) % NUMBER_OF_STEPS
                      IN pointer = <<pos_x[here + 1] - pos_x[start + 1],
                                     pos_y[here + 1] - pos_y[start + 1]>>
    BY Zenon DEF PointerOnCircle, ServedBy, Serving
  <2>1. FlowInv /\ StepPlace /\ PointerInv
    BY Zenon DEF OrderInv
  <2> DEFINE a == Len(accepted[1])
             n == Len(delivered[1])
             p == Position
             h == step_counter - InFlight
             g == (p - a) + n
  <2>2. pointer = Between(p - a, g)
    BY <2>1, Zenon DEF PointerInv
  <2>3. a \in Nat /\ n \in Nat /\ p \in Int /\ step_counter \in Int
    <3>1. /\ accepted[1] \in Seq(Reports(program)) /\ Position \in Int
          /\ delivered[1] \in Seq(Reports(program))
      BY <2>1, Zenon DEF FlowInv, FlowType
    <3>2. step_counter \in Int
      BY <2>1, SMT DEF StepPlace
    <3> QED
      BY <3>1, <3>2
  <2>4. p = IF pc = "transmit" THEN step_counter - 1 ELSE step_counter
    BY Zenon DEF Position
  <2>5. InFlight = (a - n) + (IF pc = "transmit" /\ ~Failed THEN 1 ELSE 0)
    BY Zenon DEF InFlight
  <2>6. /\ h \in Int /\ h - n \in Int
        /\ pointer = Between(h - n, h)
    <3>1. CASE ~Failed
      <4>1. h = g /\ h \in Int /\ h - n = p - a
        <5> HIDE DEF p, a, n
        <5> QED
          BY <2>3, <2>4, <2>5, <3>1, SMT
      <4>2. h - n \in Int
        <5> HIDE DEF h, g, p, a, n
        <5> QED
          BY <2>3, <4>1
      <4> QED
        BY <2>2, <4>1, <4>2, Zenon
    <3>2. CASE Failed
      <4>1. accepted[1] = <<>>
        BY <2>1, <3>2, Zenon DEF FlowInv
      <4>2. a = 0
        BY <4>1
      <4>3. n <= a
        BY <2>1, Zenon DEF FlowInv
      <4>4. n = 0
        <5> HIDE DEF a, n
        <5> QED
          BY <2>3, <4>2, <4>3
      <4>5. /\ h \in Int /\ h - n = h /\ p - a = p /\ g = p
        <5> HIDE DEF p, a, n
        <5> QED
          BY <2>3, <2>5, <3>2, <4>2, <4>4, SMT
      <4> QED
        BY <2>2, <2>3, <4>5, BetweenSame, Zenon
    <3> QED
      BY <3>1, <3>2, Zenon
  <2> HIDE DEF h, n
  <2> DEFINE here == h % 62
             start == (here - n) % 62
  <2>7. start = (h - n) % 62
    BY <2>3, <2>6, SMT
  <2> HIDE DEF start
  <2>8. /\ Point(h)[1] = pos_x[here + 1] /\ Point(h)[2] = pos_y[here + 1]
        /\ Point(h - n)[1] = pos_x[start + 1]
        /\ Point(h - n)[2] = pos_y[start + 1]
    BY <2>7, Zenon DEF Point, NUMBER_OF_STEPS
  <2>9. pointer = <<pos_x[here + 1] - pos_x[start + 1],
                    pos_y[here + 1] - pos_y[start + 1]>>
    BY <2>6, <2>8, Zenon DEF Between
  <2> QED
    BY <2>9, Zenon DEF start, h, n, NUMBER_OF_STEPS
<1> QED
  BY <1>1, OrderInit, OrderKept, PTL DEF ExamplesSpec

=============================================================================
