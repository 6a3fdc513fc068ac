--------------------------- MODULE MCTelemetryRouter ---------------------------
(* Instances of TelemetryRouter for TLC: one clock unit stands for 200 ms. *)
EXTENDS TelemetryRouter

Setting(p, out, measured, override) ==
  [port |-> [i \in Ports |-> IF i = 0 THEN p ELSE "SBUS"], output |-> out,
   measured |-> measured, override |-> override]

\* A CRSF and an SBUS receiver, or two SBUS ones; an output with telemetry and
\* one without.
SomeSettings ==
  {Setting("CRSF", "MAVLINK", TRUE, TRUE), Setting("CRSF", "SBUS", FALSE, TRUE),
   Setting("SBUS", "CRSF", TRUE, FALSE)}
=============================================================================
