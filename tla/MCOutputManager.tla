--------------------------- MODULE MCOutputManager ---------------------------
(* Instances of OutputManager for TLC: one clock unit stands for about     *)
(* 5 ms.                                                                   *)
EXTENDS OutputWire

Intervals ==
  [p \in Protocols |-> CASE p = "NONE" -> 0 [] p = "CRSF" -> 1
                         [] p = "SBUS" -> 2 [] p = "MAVLINK" -> 3]

Frame(a, b) == [c \in Channels |-> IF c = 0 THEN a ELSE b]

Out(p, w, m) == [protocol |-> p, wire |-> w, map |-> m]

Identity == Frame(0, 1)
Crossed == Frame(1, 0)
OutOfRange == Frame(1, 16)

\* Another protocol, with other UART settings and a map that names no
\* channel, and no output at all.
Several ==
  {Out("CRSF", "w", Crossed), Out("SBUS", "x", OutOfRange), Out("NONE", "w", Identity)}

\* The centred frame, which a lost link brings too, and one with different
\* channels.
Sticks == {Centred, Frame(988, 2012)}
Low == {Frame(900, 991)}
=============================================================================
