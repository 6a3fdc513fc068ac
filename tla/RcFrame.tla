-------------------------------- MODULE RcFrame --------------------------------
(***************************************************************************)
(* The protocol-neutral RC frame every module of the router exchanges      *)
(* (protocols/protocol_types.h), reduced to its channels: a frame is a     *)
(* function from channels to pulse widths in microseconds.                 *)
(***************************************************************************)
EXTENDS Integers

CONSTANT ChannelCount   \* RC_CHANNEL_COUNT: 16 in the code

ASSUME ChannelCountAssumption == ChannelCount \in Nat \ {0}

PulseMin == 988
PulseMid == 1500
PulseMax == 2012
Pulses == PulseMin .. PulseMax

Channels == 0 .. ChannelCount - 1
RcFrames == [Channels -> Pulses]

\* rcFrameInit: every channel centred.
Centred == [c \in Channels |-> PulseMid]

\* clampPulseUs.
ClampPulse(us) ==
  IF us < PulseMin THEN PulseMin ELSE IF us > PulseMax THEN PulseMax ELSE us

\* ChannelMapper::setMap and apply: output channel c carries the input
\* channel map[c], and its own when the map names no channel.
Mapped(map, frame) ==
  [c \in Channels |-> frame[IF map[c] \in Channels THEN map[c] ELSE c]]
=============================================================================
