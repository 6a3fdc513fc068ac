--------------------------------- MODULE MCApp ---------------------------------
(***************************************************************************)
(* Instances of App for TLC: two SBUS receivers and an SBUS output; a      *)
(* saved configuration moves port 1 to other pins, or back.                *)
(***************************************************************************)
EXTENDS App, SelectionValues

Wired(i, w) == [Cfg(TRUE, "SBUS", i) EXCEPT !.wire = w]

SbusTwoWires == Pair({Wired(0, "w")}, {Wired(1, "w"), Wired(1, "v")})

\* No delays: what they do is the subject of MCSelection.
Immediate == {SelectionOf(10, 0, 0, 1)}

Sticks == {[c \in {0} |-> 2000]}
Low == {[c \in {0} |-> 990]}
SbusOut == {[protocol |-> "SBUS", wire |-> "x", map |-> [c \in {0} |-> 0]]}
EachUnit ==
  [p \in {"NONE", "CRSF", "SBUS", "MAVLINK"} |-> IF p = "NONE" THEN 0 ELSE 1]

TwoRouters ==
  {[receivers |-> [i \in Rx!Ports |-> Wired(i, IF i = 0 THEN "w" ELSE w)],
    selection |-> s, output |-> o, mode |-> "HOLD_LAST", values |-> v] :
     w \in Wires, s \in Immediate, o \in SbusOut, v \in Low}
=============================================================================
