---------------------------- MODULE MouseDevice ----------------------------
(* The mouse, src/usb_mouse/usb_mouse_device.c.  It has no reset callback.  *)
EXTENDS Application, Integers

CONSTANT MaxReports   \* bound: reports each host fetches

ASSUME MouseAssumption == MaxReports \in [1 .. MaxSessions -> Nat]

NUMBER_OF_STEPS == 62

\* The points of the circle, one per step: 200 times the cosine and the sine
\* of the step's angle, cut to integers as the conversion to int16_t does.
pos_x ==
  <<200, 198, 195, 190, 183, 174, 164, 151, 137, 122, 105, 88, 69, 50, 30,
    10, -10, -30, -50, -69, -88, -105, -122, -137, -151, -164, -174, -183,
    -190, -195, -198, -199, -198, -195, -190, -183, -174, -164, -151, -137,
    -122, -105, -88, -69, -50, -30, -10, 10, 30, 50, 69, 88, 105, 122, 137,
    151, 164, 174, 183, 190, 195, 198>>
pos_y ==
  <<0, 20, 40, 59, 78, 97, 114, 130, 144, 158, 169, 179, 187, 193, 197, 199,
    199, 197, 193, 187, 179, 169, 158, 144, 130, 114, 97, 78, 59, 40, 20, 0,
    -20, -40, -59, -78, -97, -114, -130, -144, -158, -169, -179, -187, -193,
    -197, -199, -199, -197, -193, -187, -179, -169, -158, -144, -130, -114,
    -97, -78, -59, -40, -20>>

VARIABLES step_counter,
          out_buffer,   \* bytes 1 and 2 of the report
          pointer       \* history: how far the host has moved its pointer

mouseVars == <<step_counter, out_buffer, pointer>>

MouseInit ==
    /\ step_counter = 0
    /\ out_buffer = <<0, 0>>
    /\ pointer = <<0, 0>>

\* control_data: the HID report descriptor is all it answers
MouseRequest ==
    /\ Control(<<>>)
    /\ UNCHANGED mouseVars

\* the host reads a byte of a report as a signed number
Signed(byte) == IF byte < 128 THEN byte ELSE byte - 256

\* the pointer moves by the reports its host fetches
MouseServer ==
    /\ Server
    /\ pointer' = IF session' # session THEN <<0, 0>> ELSE pointer
    /\ UNCHANGED <<step_counter, out_buffer>>

MouseFetch ==
    /\ Fetch
    /\ Len(delivered[1]) < MaxReports[session]
    /\ LET report == delivered'[1][Len(delivered'[1])]
       IN pointer' = <<pointer[1] + Signed(report[1]),
                       pointer[2] + Signed(report[2])>>
    /\ UNCHANGED <<step_counter, out_buffer>>

\* there is no callback
MouseResetEnds == ResetEnds /\ UNCHANGED mouseVars

-----------------------------------------------------------------------------
(* main                                                                    *)

NextStep_FromOne(step) == IF step + 1 >= NUMBER_OF_STEPS THEN 1 ELSE step + 1
NextStep(step) == IF step + 1 >= NUMBER_OF_STEPS THEN 0 ELSE step + 1

\* the loop's head and the report, whose bytes hold the low 8 bits of the deltas
MouseMoves ==
    /\ While("transmit")
    /\ IF interrupted THEN UNCHANGED <<step_counter, out_buffer>>
       ELSE LET old == step_counter + 1
                new == NextStep(step_counter) + 1
            IN /\ step_counter' = NextStep(step_counter)
               /\ out_buffer' = <<(pos_x[new] - pos_x[old]) % 256,
                                  (pos_y[new] - pos_y[old]) % 256>>
    /\ UNCHANGED pointer

MouseTransmits ==
    /\ Transmit("transmit", "while", out_buffer)
    /\ UNCHANGED mouseVars

MouseMain == MouseMoves \/ MouseTransmits \/ (Stop /\ UNCHANGED mouseVars)

MouseNext ==
    \/ MouseServer
    \/ MouseFetch
    \/ MouseRequest
    \/ MouseResetEnds
    \/ MouseMain

-----------------------------------------------------------------------------
(* Properties                                                              *)

\* reports that are computed and will reach the host, but have not yet
InFlight ==
    Len(accepted[1]) - Len(delivered[1])
        + (IF pc = "transmit" /\ ~Failed THEN 1 ELSE 0)

\* The pointer is always at the point of the circle that as many steps as
\* the host fetched reports lead to, from the point it started at.  A report
\* that is lost, repeated or cut to a byte wrongly would let the circle drift;
\* after 62 reports the pointer is back where it was.
PointerOnCircle ==
    ServedBy("mouse") =>
        LET here == (step_counter - InFlight) % NUMBER_OF_STEPS
            start == (here - Len(delivered[1])) % NUMBER_OF_STEPS
        IN pointer = <<pos_x[here + 1] - pos_x[start + 1],
                       pos_y[here + 1] - pos_y[start + 1]>>

=============================================================================
