--------------------------- MODULE KeyboardDevice ---------------------------
(* The keyboard, src/usb_keyboard/usb_keyboard_device.c.  It has no reset  *)
(* callback.                                                               *)
EXTENDS Application

CONSTANTS Text,              \* typing_string, a sequence of ASCII codes
          MaxConfigurations  \* bound: SET_CONFIGURATION requests of one host

ASSUME KeyboardAssumption ==
    /\ Text \in Seq(0 .. 127) /\ Text # <<>>
    /\ MaxConfigurations \in Nat

VARIABLES configuration_active,
          string_idx,
          configurations,    \* history: SET_CONFIGURATION requests of this host
          configured,        \* history: its last one set a configuration
          asked,             \* history: how many did, of all hosts
          texts              \* history: texts begun, for all hosts

keyboardHistory == <<configurations, configured, asked, texts>>
keyboardVars == <<configuration_active, string_idx, keyboardHistory>>

KeyboardInit ==
    /\ configuration_active = FALSE
    /\ string_idx = 0
    /\ configurations = 0
    /\ configured = FALSE
    /\ asked = 0
    /\ texts = 0

-----------------------------------------------------------------------------
(* ascii_to_hid                                                            *)

\* A key and its modifier are the character they type: the table gives no two
\* characters the same.
NoKey == 0
ascii_to_hid(c) == IF c \in {8, 9, 10} \cup 32 .. 126 THEN c ELSE NoKey

-----------------------------------------------------------------------------
(* Callbacks                                                               *)

KeyboardSetConfiguration(value) ==
    /\ Control(<<>>)
    /\ configurations < MaxConfigurations
    /\ configuration_active' = (value # 0)
    /\ configurations' = configurations + 1
    /\ configured' = (value # 0)
    /\ asked' = IF value # 0 THEN asked + 1 ELSE asked
    /\ UNCHANGED <<string_idx, texts>>

\* among them the HID report descriptor, which changes nothing
KeyboardOtherRequest ==
    /\ Control(<<>>)
    /\ UNCHANGED keyboardVars

\* there is no callback: only the history changes
KeyboardResetEnds ==
    /\ ResetEnds
    /\ configurations' = 0
    /\ configured' = FALSE
    /\ UNCHANGED <<configuration_active, string_idx, asked, texts>>

-----------------------------------------------------------------------------
(* main                                                                    *)

KeyboardWhile == While("wait") /\ UNCHANGED keyboardVars

\* the head of the inner loop; interrupted, it goes on to the text
KeyboardWaits_Forever ==
    /\ Go("wait", "poll")
    /\ string_idx' = 0
    /\ UNCHANGED <<configuration_active, keyboardHistory>>
KeyboardWaits ==
    /\ Go("wait", IF interrupted THEN "type" ELSE "poll")
    /\ string_idx' = 0
    /\ UNCHANGED <<configuration_active, keyboardHistory>>

\* the critical section
KeyboardPolls_KeepsFlag ==
    /\ Go("poll", IF configuration_active THEN "type" ELSE "wait")
    /\ UNCHANGED keyboardVars
KeyboardPolls_EatsFlag ==
    /\ Go("poll", "wait")
    /\ configuration_active' = FALSE
    /\ UNCHANGED <<string_idx, keyboardHistory>>
KeyboardPolls ==
    /\ Go("poll", IF configuration_active THEN "type" ELSE "wait")
    /\ configuration_active' = FALSE
    /\ UNCHANGED <<string_idx, keyboardHistory>>

\* the head of the loop over the text
KeyboardTypes ==
    /\ Go("type", IF string_idx < Len(Text) /\ ~interrupted
                  THEN "press" ELSE "while")
    /\ UNCHANGED keyboardVars

\* the key goes down
KeyboardPresses ==
    /\ Transmit("press", "release", ascii_to_hid(Text[string_idx + 1]))
    /\ texts' = IF string_idx = 0 /\ accepted' # accepted
                THEN texts + 1 ELSE texts
    /\ UNCHANGED <<configuration_active, string_idx,
                   configurations, configured, asked>>

\* and up
KeyboardReleases_Never ==
    /\ Go("release", "type")
    /\ string_idx' = string_idx + 1
    /\ UNCHANGED <<configuration_active, keyboardHistory>>
KeyboardReleases ==
    /\ Transmit("release", "type", NoKey)
    /\ string_idx' = IF pc' = "type" THEN string_idx + 1 ELSE string_idx
    /\ UNCHANGED <<configuration_active, keyboardHistory>>

KeyboardMain == KeyboardWhile \/ KeyboardWaits \/ KeyboardPolls
                    \/ KeyboardTypes \/ KeyboardPresses \/ KeyboardReleases
                    \/ (Stop /\ UNCHANGED keyboardVars)

KeyboardNext ==
    \/ (Server \/ Fetch) /\ UNCHANGED keyboardVars
    \/ \E value \in {0, 1} : KeyboardSetConfiguration(value)
    \/ KeyboardOtherRequest
    \/ KeyboardResetEnds
    \/ KeyboardMain

-----------------------------------------------------------------------------
(* Properties                                                              *)

\* what the host gets for one text, a key going down and up per character
Stroke(i) == IF i % 2 = 0 THEN ascii_to_hid(Text[i \div 2 + 1]) ELSE NoKey

\* The reports a host gets are a contiguous part of the text, over and over:
\* a host that attaches in the middle of a text gets the rest of it, but no
\* key stays down, is typed twice or is left out, whenever main waited.
KeysInOrder ==
    program = "keyboard" =>
        \E start \in 0 .. 2 * Len(Text) - 1 :
            \A i \in DOMAIN delivered[1] :
                delivered[1][i] = Stroke((start + i - 1) % (2 * Len(Text)))

\* "The keyboard types once per attach." (docs/usb_keyboard_device.md:26): a
\* host gets the reports of at most one text.
TypesOncePerAttach ==
    ServedBy("keyboard") => Len(accepted[1]) <= 2 * Len(Text)

\* What remains of it: every text that main types was asked for by a
\* SET_CONFIGURATION of its own.  The request may be of an earlier host, since
\* no reset clears the flag or stops main, but no request is typed twice, by
\* whatever hosts came and went between the flag and the text.
TextsNeedConfiguration ==
    program = "keyboard" => texts <= asked

\* For a host that stays and leaves the keyboard configured, main takes the
\* configuration up and begins a text for it, and it types a text once begun
\* to its end: all of it is fetched before the next begins.
TextIsTyped ==
    /\ (ServedBy("keyboard") /\ configuration_active)
           ~> (~ServedBy("keyboard") \/ interrupted \/ ~configuration_active)
    /\ (ServedBy("keyboard") /\ configured /\ pc = "poll"
            /\ configuration_active)
           ~> (~ServedBy("keyboard") \/ interrupted \/ ~configured
                   \/ (pc = "release" /\ string_idx = 0))
    /\ (ServedBy("keyboard") /\ pc = "release" /\ string_idx = 0)
           ~> (~ServedBy("keyboard") \/ interrupted
                   \/ (Library!Drained(1) /\ pc # "release"
                           /\ string_idx \in {0, Len(Text)}))

=============================================================================
