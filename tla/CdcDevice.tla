----------------------------- MODULE CdcDevice -----------------------------
(* The serial port, src/usb_cdc/usb_cdc_device.c.                          *)
EXTENDS Application

CONSTANTS LineState,       \* values of SET_CONTROL_LINE_STATE
          LineCoding,      \* line codings a host sets
          CdcLength,       \* lengths of its OUT transfers
          MaxTicks,        \* bound: ticks one host fetches
          MaxCdcTransfers  \* bound: OUT transfers of one host

ASSUME CdcAssumption ==
    /\ MaxTicks \in Nat /\ MaxCdcTransfers \in Nat
    /\ CdcLength \subseteq Nat

CDC_INPUT_BUFFER_LENGTH == 10

VARIABLES DTR,
          RTS,
          line_coding,     \* the other fields of cdc_state
          cdc_input_pos,   \* input_buffer_pos
          cdc_input_from,  \* history: the hosts whose bytes are in input_buffer
          tick_counter,
          terminal,        \* history: this host holds DTR up
          heard,           \* history: ticks there were when it let DTR fall
          cdc_transfers    \* history: OUT transfers of this host

cdcInput == <<cdc_input_pos, cdc_input_from, cdc_transfers>>
cdcLine == <<DTR, RTS, line_coding, terminal, heard>>
cdcVars == <<cdcInput, cdcLine, tick_counter>>

CdcInit ==
    /\ DTR = FALSE
    /\ RTS = FALSE
    /\ line_coding = "zero"
    /\ cdc_input_pos = 0
    /\ cdc_input_from = {}
    /\ tick_counter = 0
    /\ terminal = FALSE
    /\ heard = 0
    /\ cdc_transfers = 0

-----------------------------------------------------------------------------
(* Callbacks                                                               *)

\* control_data; a line coding that is not 7 bytes long is ignored
CDC_SET_LINE_CODING(coding, data_length) ==
    /\ Control(<<>>)
    /\ line_coding' = IF data_length = 7 THEN coding ELSE line_coding
    /\ UNCHANGED <<DTR, RTS, terminal, heard, cdcInput, tick_counter>>

CDC_SET_CONTROL_LINE_STATE(wValue) ==
    /\ Control(<<>>)
    /\ DTR' = (wValue % 2 = 1)
    /\ RTS' = ((wValue \div 2) % 2 = 1)
    /\ terminal' = DTR'
    /\ heard' = IF DTR' THEN 0
                ELSE IF terminal THEN Len(accepted[1]) ELSE heard
    /\ UNCHANGED <<line_coding, cdcInput, tick_counter>>

\* CDC_SEND_BREAK and everything else
CdcOtherRequest ==
    /\ Control(<<>>)
    /\ UNCHANGED cdcVars

\* a transfer that does not fit is dropped as a whole
cdc_endpoint_data(data_length) ==
    /\ Transfer
    /\ cdc_transfers < MaxCdcTransfers
    /\ cdc_transfers' = cdc_transfers + 1
    /\ IF cdc_input_pos + data_length <= CDC_INPUT_BUFFER_LENGTH
       THEN /\ cdc_input_pos' = cdc_input_pos + data_length
            /\ cdc_input_from' = IF data_length > 0
                                 THEN cdc_input_from \cup {session}
                                 ELSE cdc_input_from
       ELSE UNCHANGED <<cdc_input_pos, cdc_input_from>>
    /\ UNCHANGED <<cdcLine, tick_counter>>

cdc_reset_KeepsInput ==
    /\ DTR' = FALSE
    /\ RTS' = FALSE
    /\ UNCHANGED <<cdc_input_pos, cdc_input_from>>
cdc_reset_KeepsDTR ==
    /\ cdc_input_pos' = 0
    /\ cdc_input_from' = {}
    /\ UNCHANGED <<DTR, RTS>>
cdc_reset ==
    /\ DTR' = FALSE
    /\ RTS' = FALSE
    /\ cdc_input_pos' = 0
    /\ cdc_input_from' = {}

CdcResetCallback ==
    /\ ResetEnds
    /\ cdc_reset
    /\ terminal' = FALSE
    /\ heard' = 0
    /\ cdc_transfers' = 0
    /\ UNCHANGED <<line_coding, tick_counter>>

CdcFetch ==
    /\ Len(delivered[1]) < MaxTicks
    /\ Fetch
    /\ UNCHANGED cdcVars

-----------------------------------------------------------------------------
(* main                                                                    *)

CdcWhile == While("DTR") /\ UNCHANGED cdcVars

\* DTR is read outside the critical section.
CdcReadsDTR ==
    \/ /\ ~DTR
       /\ Go("DTR", "input")
       /\ UNCHANGED cdcVars
    \/ /\ DTR
       /\ Go("DTR", "tick")
       /\ tick_counter' = tick_counter + 1
       /\ UNCHANGED <<cdcInput, cdcLine>>

CdcTransmits ==
    /\ Transmit("tick", "input", tick_counter - 1)
    /\ UNCHANGED cdcVars

\* The critical section: input is printed and forgotten.
CdcPrints ==
    /\ Go("input", "while")
    /\ cdc_input_pos' = 0
    /\ cdc_input_from' = {}
    /\ UNCHANGED <<cdc_transfers, cdcLine, tick_counter>>

CdcMain == CdcWhile \/ CdcReadsDTR \/ CdcTransmits \/ CdcPrints
               \/ (Stop /\ UNCHANGED cdcVars)

CdcNext ==
    \/ Server /\ UNCHANGED cdcVars
    \/ CdcFetch
    \/ \E coding \in LineCoding, data_length \in {0, 7} :
           CDC_SET_LINE_CODING(coding, data_length)
    \/ \E wValue \in LineState : CDC_SET_CONTROL_LINE_STATE(wValue)
    \/ CdcOtherRequest
    \/ \E data_length \in CdcLength : cdc_endpoint_data(data_length)
    \/ CdcResetCallback
    \/ CdcMain

-----------------------------------------------------------------------------
(* Properties                                                              *)

\* "The main loop sends `Tick <n>` twice a second, but only while DTR is high"
\* (docs/usb_cdc_device.md:68): while a host keeps DTR low, the ticks are the
\* ones there were when it let DTR fall, and none if it never raised DTR.
TicksNeedTerminal ==
    ServedBy("cdc") /\ ~terminal => Len(accepted[1]) = heard

\* What remains of it: of the ticks that come while DTR is low there is at most
\* one, for which main had read DTR before the host, or the host before it, let
\* DTR fall.  It takes the reset callbacks of both the detach and the attach,
\* and the loss of the tick that was waiting, for the ticks to stop with the
\* host ("so the ticks stop with the host", docs/usb_cdc_device.md:72).
OneLateTick ==
    ServedBy("cdc") /\ ~terminal => Len(accepted[1]) <= heard + 1

\* What main will print while a host is served was sent by this host, and it
\* fits in the buffer.
InputOfThisHost ==
    /\ cdc_input_pos <= CDC_INPUT_BUFFER_LENGTH
    /\ ServedBy("cdc") => cdc_input_from \subseteq {session}

=============================================================================
