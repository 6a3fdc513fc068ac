------------------------------ MODULE MCPortAge ------------------------------
(* Instances of PortAge for TLC: one clock unit stands for about 250 ms.   *)
EXTENDS PortAge

Cfg(enabled, protocol) ==
  [enabled |-> enabled, protocol |-> protocol, priority |-> 0, wire |-> "w"]

AnyConfig ==
  {Cfg(FALSE, "SBUS"), [Cfg(TRUE, "SBUS") EXCEPT !.wire = "x"]}
    \cup {Cfg(TRUE, p) : p \in Protocols}

Reported == {<<0, 0>>, <<50, 100>>, <<100, 50>>}
=============================================================================
