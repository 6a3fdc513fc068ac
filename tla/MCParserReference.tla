--------------------------- MODULE MCParserReference ---------------------------
(***************************************************************************)
(* Instances of ParserReference for TLC.  CRSF: 4 is the address byte, a   *)
(* frame has 4 or 5 bytes.  SBUS: 4 is the header, which is a plausible    *)
(* flag byte too, 0 the footer, 1 the flag of a lost frame, 2 a reserved   *)
(* bit.  MAVLink: 3 is STX, 2 the flag of a signed frame.                  *)
(***************************************************************************)
EXTENDS ParserReference

Alphabets ==
  [p \in {"CRSF", "SBUS", "MAVLINK"} |->
     CASE p = "CRSF" -> 0 .. 4 [] p = "SBUS" -> {0, 1, 2, 4} [] p = "MAVLINK" -> 0 .. 3]
Limits == [p \in DOMAIN Alphabets |-> IF p = "SBUS" THEN 9 ELSE 8]
=============================================================================
