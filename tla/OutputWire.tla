------------------------------ MODULE OutputWire ------------------------------
(***************************************************************************)
(* What the flight controller reads of the frames OutputManager writes, if *)
(* it reads them as the router's own parsers do.                           *)
(***************************************************************************)
EXTENDS OutputManager, Codec

\* What may go out: sticks, mapped as one configuration asks for, failsafe
\* values, or the centred frame.
Meant ==
  {Centred}
    \cup {Mapped(c.map, f) : c \in OutputConfigs, f \in Received}
    \cup {[c \in Channels |-> ClampPulse(v[c])] : v \in FailsafeSets}

\* f reads as itself, in CRSF and SBUS and in MAVLink.
ReadsAsItself(f) ==
  /\ Unpacked(Packed(f)) = f
  /\ Overridden(Centred, Trimmed(Override(f)), TrimmedLength(Override(f))) = f

Readable == {f \in Meant : ReadsAsItself(f)}

\* Every frame that goes out is one that was meant, and reads so at the other
\* end, to the microsecond and whatever protocol carries it: the 11 bits of
\* CRSF and SBUS are enough to round twice, no channel spills into its
\* neighbour, and the zeros MAVLink trims are not of a channel
\* (mavlink_generator.cpp:65).  The tests ask for 1 us at seven pulses
\* (test_crsf_generator.cpp:30).
FrameSurvives == wire.frame \in Readable
=============================================================================
