----------------------------- MODULE MCPwmManager -----------------------------
(***************************************************************************)
(* Instances of PwmManager for TLC: two of the four outputs, on two pins,  *)
(* and one channel.                                                        *)
(***************************************************************************)
EXTENDS PwmManager

OutputOf(m, p, inverted) ==
  [mode |-> m, pin |-> p, source |-> 0, rate |-> 50, invert |-> inverted,
   threshold |-> 1600, activeHigh |-> TRUE, failsafe |-> 1700]

Servo(pin) == OutputOf("SERVO", pin, FALSE)
Inverted(pin) == OutputOf("SERVO", pin, TRUE)
Digital(pin) == OutputOf("SWITCH", pin, FALSE)
Unused(pin) == OutputOf("DISABLED", pin, FALSE)

Section(o0, o1) == [i \in {0, 1} |-> IF i = 0 THEN o0 ELSE o1]

\* From the first section to the second output 0 leaves the pin that output 1
\* is given; the other way round output 0 takes it while output 1 still has it.
TwoOutputs == {0, 1}
HandedOn == {Section(Servo("a"), Digital("b")), Section(Unused("b"), Inverted("a"))}

OneRate == [r \in {50} |-> 1]
AllModes == {"HOLD_LAST", "STOP_PWM", "FAILSAFE_VALUES"}
Low == {[c \in Channels |-> PulseMin]}
=============================================================================
