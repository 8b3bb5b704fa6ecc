---------------------------- MODULE AudioDevice ----------------------------
(* The microphone, src/usb_audio_input/usb_audio_input_device.c.  A sample *)
(* is its place in the pulse; its value, and the phase it is computed      *)
(* with, are floating point and left out.                                  *)
EXTENDS Application

CONSTANTS AUDIO_SAMPLES_PER_PACKET,
          PULSE_PERIOD_SAMPLES,
          PacketSpace,       \* max_length of an isochronous packet
          MaxSamples         \* bound: samples of one recording

ASSUME AudioAssumption ==
    /\ AUDIO_SAMPLES_PER_PACKET \in Nat
    /\ PULSE_PERIOD_SAMPLES \in Nat \ {0}
    /\ PacketSpace \subseteq Nat
    /\ MaxSamples \in Nat

AUDIO_BYTES_PER_SAMPLE == 2
AUDIO_STREAMING_INTERFACE == 1

VARIABLES streaming_alternate,
          sample_index,
          selected,     \* history: the alternate setting this host selected
          recorded      \* history: samples it got since

audioVars == <<streaming_alternate, sample_index, selected, recorded>>

AudioInit ==
    /\ streaming_alternate = 0
    /\ sample_index = 0
    /\ selected = 0
    /\ recorded = <<>>

\* next_sample, n times: the places in the pulse, and where it goes on
NextSamples(n) == [k \in 1 .. n |-> (sample_index + k - 1) % PULSE_PERIOD_SAMPLES]
IndexAfter(n) == (sample_index + n) % PULSE_PERIOD_SAMPLES

\* A host polls the streaming endpoint only after it has selected the
\* alternate setting that has it; the callback itself does not look.
iso_in_data(max_length) ==
    LET samples ==
          IF AUDIO_SAMPLES_PER_PACKET * AUDIO_BYTES_PER_SAMPLE > max_length
          THEN max_length \div AUDIO_BYTES_PER_SAMPLE
          ELSE AUDIO_SAMPLES_PER_PACKET
    IN /\ Transfer
       /\ selected # 0
       /\ Len(recorded) + samples <= MaxSamples
       /\ recorded' = recorded \o NextSamples(samples)
       /\ sample_index' = IndexAfter(samples)
       /\ UNCHANGED <<streaming_alternate, selected>>

\* the device's part of SET_INTERFACE
SelectAlternate_KeepsIndex(alternate) ==
    IF alternate # streaming_alternate
    THEN /\ streaming_alternate' = alternate
         /\ UNCHANGED sample_index
    ELSE UNCHANGED <<streaming_alternate, sample_index>>
SelectAlternate(alternate) ==
    IF alternate # streaming_alternate
    THEN /\ streaming_alternate' = alternate
         /\ sample_index' = 0
    ELSE UNCHANGED <<streaming_alternate, sample_index>>

AudioSetInterface(interface, alternate) ==
    /\ Control(<<>>)
    /\ IF interface = AUDIO_STREAMING_INTERFACE
       THEN /\ SelectAlternate(alternate)
            /\ selected' = alternate
            /\ recorded' = IF alternate = selected THEN recorded ELSE <<>>
       ELSE UNCHANGED audioVars

AudioGetInterface(interface) ==
    /\ Control(<<IF interface = AUDIO_STREAMING_INTERFACE
                 THEN streaming_alternate ELSE 0>>)
    /\ UNCHANGED audioVars

\* not SET_CONFIGURATION while it records, which would set the host back to
\* alternate setting 0 and the device not
AudioOtherRequest ==
    /\ Control(<<>>)
    /\ UNCHANGED audioVars

AudioResetCallback ==
    /\ ResetEnds
    /\ streaming_alternate' = 0
    /\ selected' = 0
    /\ recorded' = <<>>
    /\ UNCHANGED sample_index

AudioMain == (While("while") \/ Stop) /\ UNCHANGED audioVars

AudioNext ==
    \/ Server /\ UNCHANGED audioVars
    \/ \E max_length \in PacketSpace : iso_in_data(max_length)
    \/ \E interface, alternate \in {0, 1} : AudioSetInterface(interface, alternate)
    \/ \E interface \in {0, 1} : AudioGetInterface(interface)
    \/ AudioOtherRequest
    \/ AudioResetCallback
    \/ AudioMain

-----------------------------------------------------------------------------
(* Properties                                                              *)

\* The device has the alternate setting that its host selected, and answers
\* it; what the host records begins with a pulse, whichever host recorded
\* before and wherever in its pulse that recording was left, and goes on
\* without a gap over packets that had less room.  The hosts are ones that end
\* a recording by SET_INTERFACE or by leaving: SET_CONFIGURATION, which
\* control_data ignores, leaves the device recording, so a host that sent it
\* in a recording would go on in the middle of a pulse, against "every recording
\* begins with a pulse" (docs/usb_audio_input_device.md:84).
RecordingsBeginWithPulse ==
    ServedBy("audio") =>
        /\ streaming_alternate = selected
        /\ reply \in {<<>>, <<0>>, <<selected>>}
        /\ \A k \in DOMAIN recorded :
              recorded[k] = (k - 1) % PULSE_PERIOD_SAMPLES

=============================================================================
