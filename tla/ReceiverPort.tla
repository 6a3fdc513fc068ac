---------------------------- MODULE ReceiverPort ----------------------------
(***************************************************************************)
(* One receiver port (receiver/receiver_port.cpp) with the parser its      *)
(* protocol selects, as operators over a record.  The bytes of a UART are  *)
(* abstracted to the frames the parser accepts from them; the byte level   *)
(* is a subject of its own.                                                *)
(*                                                                         *)
(* The code keeps three parsers per port.  Only the one cfg.protocol       *)
(* selects is fed and read, and a change of protocol resets all three      *)
(* (ReceiverPort::reapply), so the other two are always in their reset     *)
(* state and one parser state is enough.                                   *)
(*                                                                         *)
(*   cfg        the ReceiverPortConfig last set; wire stands for its pins  *)
(*              and its effective baud rate, frame format and inversion    *)
(*   began      began_: the UART was opened                                *)
(*   seen       frames_decoded_ > 0 (CRSF, SBUS), has_frame_ (MAVLink):    *)
(*              the channels are a received frame, not the centred reset   *)
(*              values                                                     *)
(*   frameValid frame_.valid                                               *)
(*   valid, failsafe, lq, rssi, last   the LinkQuality of the parser; last *)
(*              is last_frame_ms, which last_frame_ms_ always equals       *)
(*   hbSeen, hbLast   heartbeat_seen_ and last_heartbeat_ms_ (MAVLink)     *)
(*                                                                         *)
(* Counters that are only reported (bytes_read_, frames_received,          *)
(* crc_errors) are left out.                                               *)
(***************************************************************************)
EXTENDS WrapClock

CONSTANTS
  Qualities,      \* the <<lq, rssi>> percentages the receivers report
  ParserTimeout,  \* 500 ms: silence after which CRSF and SBUS drop the link
  HbFresh,        \* 1500 ms: heartbeat age up to which MAVLink reports 100 %
  HbStale,        \* 3000 ms: heartbeat age from which it reports failsafe
  Priorities,     \* the priorities a port can be given (uint8_t)
  Wires           \* UART pins and parameters, as opaque values

ASSUME ReceiverPortAssumption ==
  /\ Qualities \subseteq (0 .. 255) \X (0 .. 100)
  /\ ParserTimeout \in Nat
  /\ HbFresh \in Nat
  /\ HbStale \in Nat
  /\ HbFresh < HbStale
  /\ Priorities \subseteq Nat

Protocols == {"NONE", "CRSF", "SBUS", "MAVLINK"}

PortConfig == [enabled : BOOLEAN, protocol : Protocols,
               priority : Priorities, wire : Wires]

Port == [cfg : PortConfig, began : BOOLEAN, seen : BOOLEAN,
         frameValid : BOOLEAN, valid : BOOLEAN, failsafe : BOOLEAN,
         lq : 0 .. 255, rssi : 0 .. 255, last : Stamp,
         hbSeen : BOOLEAN, hbLast : Stamp]

-----------------------------------------------------------------------------
(* Opening and reconfiguring a port.                                       *)

\* ReceiverPort::reapply: every parser is reset.  On the target the UART
\* always opens (Esp32UartPort::begin returns true).
Reapply(cfg) ==
  [cfg |-> cfg, began |-> TRUE, seen |-> FALSE, frameValid |-> FALSE,
   valid |-> FALSE, failsafe |-> FALSE, lq |-> 0, rssi |-> 0, last |-> 0,
   hbSeen |-> FALSE, hbLast |-> 0]

NeedsRebegin(p, next) ==
  \/ ~p.began
  \/ next.protocol # p.cfg.protocol
  \/ next.wire # p.cfg.wire

\* ReceiverPort::setConfig
SetPortConfig(p, next) ==
  IF NeedsRebegin(p, next) THEN Reapply(next) ELSE [p EXCEPT !.cfg = next]

-----------------------------------------------------------------------------
(* The frames a parser accepts.                                            *)

NoFrame == [kind |-> "none", lq |-> 0, rssi |-> 0, failsafe |-> FALSE]

\* The frames of each protocol that change what the port reports.
CrsfFrames ==
  {[NoFrame EXCEPT !.kind = "rc"]}
    \cup {[NoFrame EXCEPT !.kind = "stats", !.lq = q[1], !.rssi = q[2]] :
            q \in Qualities}

\* An SBUS frame comes with the quality SbusParser::recomputeLinkQuality
\* gives its window after it.
SbusFrames ==
  {[kind |-> "rc", lq |-> q[1], rssi |-> q[1], failsafe |-> f] :
      q \in {r \in Qualities : r[1] <= 100}, f \in BOOLEAN}

MavlinkFrames ==
  {[NoFrame EXCEPT !.kind = k] : k \in {"override", "heartbeat"}}
    \cup {[NoFrame EXCEPT !.kind = "rc", !.rssi = q[2]] : q \in Qualities}

Frames(protocol) ==
  {NoFrame} \cup (IF protocol = "CRSF" THEN CrsfFrames
                 ELSE IF protocol = "SBUS" THEN SbusFrames
                 ELSE IF protocol = "MAVLINK" THEN MavlinkFrames
                 ELSE {})

Frame == [kind : {"none", "rc", "stats", "override", "heartbeat"},
          lq : 0 .. 255, rssi : 0 .. 255, failsafe : BOOLEAN]

\* CrsfParser::decodeRcChannels: the quality and the failsafe flag of the
\* link are left as the last LINK_STATISTICS frame set them.
CrsfRc(p, now) ==
  [p EXCEPT !.seen = TRUE, !.frameValid = TRUE, !.valid = TRUE, !.last = now]

\* CrsfParser::decodeLinkStatistics: valid is set, last_frame_ms is not.
CrsfStats(p, f) ==
  [p EXCEPT !.lq = f.lq, !.rssi = f.rssi, !.failsafe = (f.lq = 0), !.valid = TRUE]

\* SbusParser::decodeFrame
SbusRc(p, f, now) ==
  [p EXCEPT !.seen = TRUE, !.frameValid = TRUE, !.valid = TRUE, !.last = now,
            !.lq = f.lq, !.rssi = f.rssi, !.failsafe = f.failsafe]

\* MavlinkParser::updateHeartbeatFreshness
HeartbeatFreshness(p, now) ==
  LET age == Elapsed(now, p.hbLast)
  IN  IF ~p.hbSeen \/ age >= HbStale
        THEN [p EXCEPT !.lq = 0, !.failsafe = TRUE]
      ELSE IF age <= HbFresh
        THEN [p EXCEPT !.lq = 100, !.failsafe = FALSE]
      ELSE [p EXCEPT !.lq = 100 - ((age - HbFresh) * 100) \div (HbStale - HbFresh),
                     !.failsafe = FALSE]

\* MavlinkParser::decodeHeartbeat
Heartbeat(p, now) ==
  HeartbeatFreshness([p EXCEPT !.hbSeen = TRUE, !.hbLast = now], now)

\* MavlinkParser::decodeRcChannels
MavlinkRc(p, f, now) ==
  [p EXCEPT !.seen = TRUE, !.frameValid = TRUE, !.valid = TRUE, !.last = now,
            !.rssi = f.rssi]

\* MavlinkParser::decodeRcChannelsOverride
MavlinkOverride(p, now) ==
  [p EXCEPT !.seen = TRUE, !.frameValid = TRUE, !.valid = TRUE, !.last = now]

\* The parser of the port takes one complete frame.
Receive(p, f, now) ==
  CASE f.kind = "rc" /\ p.cfg.protocol = "CRSF"    -> CrsfRc(p, now)
    [] f.kind = "rc" /\ p.cfg.protocol = "SBUS"    -> SbusRc(p, f, now)
    [] f.kind = "rc" /\ p.cfg.protocol = "MAVLINK" -> MavlinkRc(p, f, now)
    [] f.kind = "stats"                            -> CrsfStats(p, f)
    [] f.kind = "override"                         -> MavlinkOverride(p, now)
    [] f.kind = "heartbeat"                        -> Heartbeat(p, now)
    [] OTHER                                       -> p

-----------------------------------------------------------------------------
(* The periodic update of a port.                                          *)

\* Mutant: the timeout drops the frame but leaves the link valid.
SilenceTickKeepsLink(p, now) ==
  IF ~(p.last = 0 /\ ~p.seen) /\ Elapsed(now, p.last) > ParserTimeout
  THEN [p EXCEPT !.frameValid = FALSE, !.failsafe = TRUE]
  ELSE p

\* Mutant: the timeout drops the link but leaves the frame valid.
SilenceTickKeepsFrame(p, now) ==
  IF ~(p.last = 0 /\ ~p.seen) /\ Elapsed(now, p.last) > ParserTimeout
  THEN [p EXCEPT !.valid = FALSE, !.failsafe = TRUE]
  ELSE p

\* CrsfParser::tick and SbusParser::tick
SilenceTick(p, now) ==
  IF ~(p.last = 0 /\ ~p.seen) /\ Elapsed(now, p.last) > ParserTimeout
  THEN [p EXCEPT !.frameValid = FALSE, !.valid = FALSE, !.failsafe = TRUE]
  ELSE p

\* The tick of the parser cfg.protocol selects.
Tick(p, now) ==
  CASE p.cfg.protocol \in {"CRSF", "SBUS"} -> SilenceTick(p, now)
    [] p.cfg.protocol = "MAVLINK"          -> HeartbeatFreshness(p, now)
    [] OTHER                               -> p

Running(p) == p.cfg.enabled /\ p.began

\* ReceiverPort::update: the frames drained from the UART, then the tick.  A
\* port that is disabled or closed does neither.  One update drains at most
\* 256 bytes; the batch is up to two frames, f and g.
PumpPort(p, f, g, now) ==
  IF Running(p) THEN Tick(Receive(Receive(p, f, now), g, now), now) ELSE p

\* What one update of the port can drain.
Batches(p, two) ==
  IF Running(p)
  THEN Frames(p.cfg.protocol)
         \X (IF two THEN Frames(p.cfg.protocol) ELSE {NoFrame})
  ELSE {<<NoFrame, NoFrame>>}

\* ReceiverPort::isAlive.  With protocol NONE getLinkQuality returns the
\* empty quality, which the reset parser state equals.
IsAlive(p, now, timeout) == p.valid /\ Elapsed(now, p.last) < timeout
=============================================================================
