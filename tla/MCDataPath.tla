------------------------------- MODULE MCDataPath -------------------------------
(***************************************************************************)
(* Instances of DataPath for TLC.  One SBUS receiver, which serviceTask    *)
(* moves to other pins, and an SBUS output.  One clock unit is a timeout,  *)
(* an interval and the longest step at the same time.                      *)
(***************************************************************************)
EXTENDS DataPath, SelectionValues

OneReceiver ==
  Pair({[Cfg(TRUE, "SBUS", 0) EXCEPT !.wire = w] : w \in Wires},
       {Cfg(FALSE, "NONE", 1)})

\* No delays: what they do is the subject of MCSelection.
Immediate == {SelectionOf(10, 0, 0, 1)}

Sticks == {[c \in {0} |-> 2000]}
Low == {[c \in {0} |-> 990]}
SbusOut == {[protocol |-> "SBUS", wire |-> "x", map |-> [c \in {0} |-> 0]]}
EachUnit ==
  [p \in {"NONE", "CRSF", "SBUS", "MAVLINK"} |-> IF p = "NONE" THEN 0 ELSE 1]
=============================================================================
