------------------------------ MODULE Examples ------------------------------
(***************************************************************************)
(* The example programs side by side: a behaviour is one of one of them.   *)
(***************************************************************************)
EXTENDS BulkDevice, CdcDevice, KeyboardDevice, MouseDevice, AudioDevice

exampleVars == <<program, appVars, bulkVars, cdcVars, keyboardVars, mouseVars,
                 audioVars>>

ExamplesInit ==
    /\ program \in {"bulk", "cdc", "keyboard", "mouse", "audio"}
    /\ AppInit
    /\ BulkInit /\ CdcInit /\ KeyboardInit /\ MouseInit /\ AudioInit

Bulk == /\ program = "bulk"
        /\ UNCHANGED <<program, cdcVars, keyboardVars, mouseVars, audioVars>>
Cdc == /\ program = "cdc"
       /\ UNCHANGED <<program, bulkVars, keyboardVars, mouseVars, audioVars>>
Keyboard == /\ program = "keyboard"
            /\ UNCHANGED <<program, bulkVars, cdcVars, mouseVars, audioVars>>
Mouse == /\ program = "mouse"
         /\ UNCHANGED <<program, bulkVars, cdcVars, keyboardVars, audioVars>>
Audio == /\ program = "audio"
         /\ UNCHANGED <<program, bulkVars, cdcVars, keyboardVars, mouseVars>>

ExamplesNext ==
    \/ Bulk /\ BulkNext
    \/ Cdc /\ CdcNext
    \/ Keyboard /\ KeyboardNext
    \/ Mouse /\ MouseNext
    \/ Audio /\ AudioNext

Main ==
    \/ Bulk /\ BulkMain
    \/ Cdc /\ CdcMain
    \/ Keyboard /\ KeyboardMain
    \/ Mouse /\ MouseMain
    \/ Audio /\ AudioMain

\* What the server thread does whatever the host does.  Every pass ends at the
\* loop's condition, so that passes which serve other requests, and writes the
\* client takes, only delay it: strong fairness.  A write that the client never
\* takes disables it for good.
Worker ==
    \/ Bulk /\ (BulkResetEnds \/ (WorkerEnds /\ UNCHANGED bulkVars))
    \/ Cdc /\ (CdcResetCallback \/ (WorkerEnds /\ UNCHANGED cdcVars))
    \/ Keyboard /\ (KeyboardResetEnds \/ (WorkerEnds /\ UNCHANGED keyboardVars))
    \/ Mouse /\ (MouseResetEnds \/ (WorkerEnds /\ UNCHANGED mouseVars))
    \/ Audio /\ (AudioResetCallback \/ (WorkerEnds /\ UNCHANGED audioVars))

\* The host keeps a transfer pending on the IN endpoint, which every pass tries
\* to complete.
HostReads ==
    \/ Bulk /\ Fetch /\ UNCHANGED bulkVars
    \/ Keyboard /\ Fetch /\ UNCHANGED keyboardVars

ExamplesSpec == ExamplesInit /\ [][ExamplesNext]_exampleVars

FairExamplesSpec ==
    /\ ExamplesSpec
    /\ WF_exampleVars(Main)
    /\ SF_exampleVars(Worker)
    /\ SF_exampleVars(HostReads)

-----------------------------------------------------------------------------
(* Properties of all of them                                               *)

\* What main transmits while a host is attached is neither lost nor repeated:
\* ticks and answers, which are numbered, arrive with consecutive numbers, and
\* keys in the order of the text, each going down and up.
ReportsInOrder ==
    /\ program \in {"bulk", "cdc"} =>
           \A i \in 1 .. Len(delivered[1]) - 1 :
               delivered[1][i + 1] = delivered[1][i] + 1
    /\ KeysInOrder

\* A host that stays, keeps a transfer pending and takes what is written gets
\* the answer to its input from the bulk device, and from the keyboard a whole text
\* when it has configured it.
HostIsServed == []<>~writing => InputIsAnswered /\ TextIsTyped

\* After the third Ctrl-C main ends, wherever it is: in a transmit that waits
\* for a host that does not read, in the keyboard's inner loop or in the
\* middle of a text.  It needs a client that takes what is written, or goes: a
\* worker that stays in a write sets no device_stopped and is not joined.
MainEnds == []<>~writing => (interrupted ~> pc = "done")

=============================================================================
