----------------------------- MODULE BulkDevice -----------------------------
(* The bulk device, src/usb_bulk/usb_bulk_device.c.  It has no reset       *)
(* callback.                                                               *)
EXTENDS Application

CONSTANTS BulkLength,       \* lengths of OUT transfers
          MaxBulkTransfers  \* bound: OUT transfers of one host

ASSUME BulkAssumption ==
    MaxBulkTransfers \in Nat /\ BulkLength \subseteq Nat

BULK_INPUT_BUFFER_LENGTH == 512

VARIABLES bulk_input_pos,   \* input_buffer_pos
          msg_counter,
          bulk_transfers    \* history: OUT transfers of this host

bulkVars == <<bulk_input_pos, msg_counter, bulk_transfers>>

BulkInit ==
    /\ bulk_input_pos = 0
    /\ msg_counter = 0
    /\ bulk_transfers = 0

\* control_data only prints
BulkRequest ==
    /\ Control(<<>>)
    /\ UNCHANGED bulkVars

bulk_endpoint_data(data_length) ==
    /\ Transfer
    /\ bulk_transfers < MaxBulkTransfers
    /\ bulk_transfers' = bulk_transfers + 1
    /\ bulk_input_pos' =
         IF bulk_input_pos + data_length <= BULK_INPUT_BUFFER_LENGTH
         THEN bulk_input_pos + data_length
         ELSE bulk_input_pos
    /\ UNCHANGED msg_counter

\* there is no callback: only the history changes
BulkResetEnds ==
    /\ ResetEnds
    /\ bulk_transfers' = 0
    /\ UNCHANGED <<bulk_input_pos, msg_counter>>

BulkWhile == While("input") /\ UNCHANGED bulkVars

\* The critical section: input is printed and forgotten, and asks for a reply.
BulkPrints_KeepsInput ==
    /\ IF bulk_input_pos > 0
       THEN /\ Go("input", "reply")
            /\ msg_counter' = msg_counter + 1
       ELSE /\ Go("input", "while")
            /\ UNCHANGED msg_counter
    /\ UNCHANGED <<bulk_input_pos, bulk_transfers>>
BulkPrints ==
    /\ IF bulk_input_pos > 0
       THEN /\ Go("input", "reply")
            /\ bulk_input_pos' = 0
            /\ msg_counter' = msg_counter + 1
       ELSE /\ Go("input", "while")
            /\ UNCHANGED <<bulk_input_pos, msg_counter>>
    /\ UNCHANGED bulk_transfers

BulkTransmits ==
    /\ Transmit("reply", "while", msg_counter)
    /\ UNCHANGED bulkVars

BulkMain == BulkWhile \/ BulkPrints \/ BulkTransmits
                \/ (Stop /\ UNCHANGED bulkVars)

BulkNext ==
    \/ (Server \/ Fetch) /\ UNCHANGED bulkVars
    \/ BulkRequest
    \/ \E data_length \in BulkLength : bulk_endpoint_data(data_length)
    \/ BulkResetEnds
    \/ BulkMain

-----------------------------------------------------------------------------
(* Properties                                                              *)

\* A host gets no more answers than it sent transfers, and two: the answer
\* that main was about to transmit when the host came, and one answer to all
\* the input an earlier host left in the buffer, which no reset empties.
AnswersNeedInput ==
    ServedBy("bulk") => Len(accepted[1]) <= bulk_transfers + 2

\* Input of a host that reads and stays is printed, main gets its answer off,
\* and the host fetches it.
InputIsAnswered ==
    /\ (ServedBy("bulk") /\ bulk_input_pos > 0)
           ~> (~ServedBy("bulk") \/ interrupted \/ (bulk_input_pos = 0 /\ pc = "reply"))
    /\ (ServedBy("bulk") /\ pc = "reply") ~> (~ServedBy("bulk") \/ pc # "reply")
    /\ (ServedBy("bulk") /\ ~Library!Drained(1))
           ~> (~ServedBy("bulk") \/ Library!Drained(1))

=============================================================================
