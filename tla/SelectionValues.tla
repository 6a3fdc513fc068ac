--------------------------- MODULE SelectionValues ---------------------------
(***************************************************************************)
(* Values for the constants of the instances of ReceiverManager.  One      *)
(* clock unit stands for about 250 ms: configLoadDefaults has a switch     *)
(* delay of 200 ms, a link timeout of 300 ms and a minimum active time of  *)
(* 500 ms.                                                                 *)
(***************************************************************************)
EXTENDS Integers

Cfg(enabled, protocol, priority) ==
  [enabled |-> enabled, protocol |-> protocol, priority |-> priority, wire |-> "w"]

SelectionOf(hysteresis, delay, min, timeout) ==
  [hysteresis |-> hysteresis, switchDelay |-> delay, minActive |-> min,
   linkTimeout |-> timeout]

Pair(c0, c1) == [i \in {0, 1} |-> IF i = 0 THEN c0 ELSE c1]

EqualSbus == Pair({Cfg(TRUE, "SBUS", 1)}, {Cfg(TRUE, "SBUS", 1)})
Reconfigured ==
  Pair({Cfg(TRUE, "SBUS", 0), Cfg(FALSE, "SBUS", 0), Cfg(TRUE, "NONE", 0)},
       {Cfg(TRUE, "SBUS", 1), Cfg(TRUE, "CRSF", 1)})

Perfect == {<<100, 100>>}
Graded == {<<50, 50>>, <<100, 100>>}

Defaults == {SelectionOf(10, 1, 2, 2)}
TwoSelections == {SelectionOf(10, 1, 2, 2), SelectionOf(0, 0, 1, 1)}
SlowSelection == {SelectionOf(10, 2, 1, 2)}
=============================================================================
