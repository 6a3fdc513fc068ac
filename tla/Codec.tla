--------------------------------- MODULE Codec ---------------------------------
(***************************************************************************)
(* The channels of a frame on the wire.  CRSF and SBUS pack raw values of  *)
(* 11 bits one after the other into bytes, lowest bit first; MAVLink sends *)
(* microseconds in two bytes each and leaves out the zeros at the end of a *)
(* payload.  The generators write what the parsers read; header, flags and *)
(* checksum around it are the subject of FrameParsers.                     *)
(***************************************************************************)
EXTENDS RcFrame

RawMin == 172
RawMax == 1811

\* Mutant: the raw value is cut off instead of rounded.
UsToRawTruncated(us) == ((ClampPulse(us) - PulseMin) * 1639) \div 1024 + RawMin

\* usToCrsfRaw and usToSbusRaw, which end with a clamp that changes nothing.
UsToRaw(us) == ((ClampPulse(us) - PulseMin) * 1639 + 512) \div 1024 + RawMin

\* crsfRawToUs and sbusRawToUs.
RawToUs(raw) ==
  LET r == IF raw < RawMin THEN RawMin ELSE IF raw > RawMax THEN RawMax ELSE raw
  IN  ClampPulse(((r - RawMin) * 1024 + 819) \div 1639 + PulseMin)

-----------------------------------------------------------------------------
(* CRSF and SBUS.  A payload is the set of its bits that are 1, each the   *)
(* pair of its byte and its number there.                                  *)

Bits == 0 .. 10
Weight == <<1, 2, 4, 8, 16, 32, 64, 128, 256, 512, 1024>>

\* v & (1u << b)
Bit(v, b) == (v \div Weight[b + 1]) % 2 = 1

\* v |= 1u << b for every bit of set.
Number(set) ==
  LET w(b) == IF b \in set THEN Weight[b + 1] ELSE 0
  IN  w(0) + w(1) + w(2) + w(3) + w(4) + w(5) + w(6) + w(7) + w(8) + w(9) + w(10)

\* Where bit b of channel c is.
Place(c, b) == <<(11 * c + b) \div 8, (11 * c + b) % 8>>

Packed(frame) ==
  {Place(x[1], x[2]) : x \in {y \in Channels \X Bits : Bit(UsToRaw(frame[y[1]]), y[2])}}

Unpacked(payload) ==
  [c \in Channels |-> RawToUs(Number({b \in Bits : Place(c, b) \in payload}))]

-----------------------------------------------------------------------------
(* MAVLink: RC_CHANNELS_OVERRIDE.                                          *)

\* The message has two bytes of target and 18 channels.
Slots == 18
OverrideSize == 2 + 2 * Slots

ASSUME SlotsAssumption == ChannelCount <= Slots

Value(frame, slot) == IF slot \in Channels THEN frame[slot] ELSE 0

\* The payload of MavlinkGenerator::buildRcFrame before it is trimmed; both
\* bytes of the target are 1.
Override(frame) ==
  [i \in 0 .. OverrideSize - 1 |->
     IF i < 2 THEN 1
     ELSE LET v == Value(frame, (i - 2) \div 2)
          IN  IF i % 2 = 0 THEN v % 256 ELSE v \div 256]

\* Mutant: one byte too many is trimmed.
TrimmedLengthShort(payload) ==
  CHOOSE n \in 0 .. OverrideSize :
    /\ \A i \in DOMAIN payload : i > n => payload[i] = 0
    /\ payload[n] # 0

\* mavlinkTrimTrailingZeros.
TrimmedLength(payload) ==
  CHOOSE n \in 0 .. OverrideSize :
    /\ \A i \in DOMAIN payload : i >= n => payload[i] = 0
    /\ n = 0 \/ payload[n - 1] # 0

Trimmed(payload) == [i \in 0 .. TrimmedLength(payload) - 1 |-> payload[i]]

\* decodeRcChannelsOverride of a payload of length bytes: a channel that is
\* not in it, or that it leaves alone, keeps the pulse it has in old.
Overridden(old, payload, length) ==
  [c \in Channels |->
     IF length < 2 \/ c >= (length - 2) \div 2 THEN old[c]
     ELSE LET v == payload[2 + 2 * c] + 256 * payload[3 + 2 * c]
          IN  IF v \in {0, 65535} THEN old[c] ELSE ClampPulse(v)]
=============================================================================
