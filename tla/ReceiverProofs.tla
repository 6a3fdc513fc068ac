---------------------------- MODULE ReceiverProofs ----------------------------
(***************************************************************************)
(* Proofs about the receivers: a port over time, and the selection between *)
(* two of them, for every configuration, every timeout, every width of the *)
(* clock and every sequence of frames.                                     *)
(***************************************************************************)
EXTENDS PortAge, SelectionHistory, WrapClockProofs

\* The frames that carry channels.
Channels(f) == f.kind \in {"rc", "override"}

-----------------------------------------------------------------------------
(* Frames and what they do to a port.                                      *)

LEMMA FrameType ==
  ASSUME NEW pr \in Protocols, NEW f \in Frames(pr)
  PROVE  /\ f \in Frame
         /\ pr = "NONE" => f.kind = "none"
         /\ pr = "CRSF" => f.kind \in {"none", "rc", "stats"}
         /\ pr = "SBUS" => f.kind \in {"none", "rc"}
         /\ pr = "MAVLINK" => f.kind \in {"none", "rc", "override", "heartbeat"}
<1>1. NoFrame \in Frame /\ NoFrame.kind = "none"
  BY SMT DEF NoFrame, Frame
<1>a. \A a, b \in 0 .. 255 :
        /\ [NoFrame EXCEPT !.kind = "stats", !.lq = a, !.rssi = b] \in Frame
        /\ [NoFrame EXCEPT !.kind = "stats", !.lq = a, !.rssi = b].kind = "stats"
        /\ [NoFrame EXCEPT !.kind = "rc", !.rssi = b] \in Frame
        /\ [NoFrame EXCEPT !.kind = "rc", !.rssi = b].kind = "rc"
  BY <1>1, Zenon DEF Frame
<1>2. ASSUME f \in CrsfFrames PROVE f \in Frame /\ f.kind \in {"rc", "stats"}
  <2>1. CASE f = [NoFrame EXCEPT !.kind = "rc"]
    BY <1>1, <2>1, SMT DEF Frame
  <2>2. ASSUME NEW q \in Qualities,
               f = [NoFrame EXCEPT !.kind = "stats", !.lq = q[1], !.rssi = q[2]]
        PROVE  f \in Frame /\ f.kind = "stats"
    <3>1. q[1] \in 0 .. 255 /\ q[2] \in 0 .. 255
      BY ReceiverPortAssumption, SMT
    <3> QED BY <1>a, <2>2, <3>1, Zenon
  <2> QED BY <1>2, <2>1, <2>2 DEF CrsfFrames
<1>3. ASSUME f \in SbusFrames PROVE f \in Frame /\ f.kind = "rc"
  <2>1. PICK q \in Qualities, b \in BOOLEAN :
          q[1] <= 100 /\ f = [kind |-> "rc", lq |-> q[1], rssi |-> q[1], failsafe |-> b]
    BY <1>3 DEF SbusFrames
  <2>2. q[1] \in 0 .. 255
    BY ReceiverPortAssumption, SMT
  <2> QED BY <2>1, <2>2 DEF Frame
<1>4. ASSUME f \in MavlinkFrames PROVE f \in Frame /\ f.kind \in {"rc", "override", "heartbeat"}
  <2>1. ASSUME NEW k \in {"override", "heartbeat"}, f = [NoFrame EXCEPT !.kind = k]
        PROVE  f \in Frame /\ f.kind = k
    BY <1>1, <2>1, SMT DEF Frame
  <2>2. ASSUME NEW q \in Qualities, f = [NoFrame EXCEPT !.kind = "rc", !.rssi = q[2]]
        PROVE  f \in Frame /\ f.kind = "rc"
    <3>1. q[2] \in 0 .. 255 /\ 0 \in 0 .. 255
      BY ReceiverPortAssumption, SMT
    <3> QED BY <1>a, <2>2, <3>1, Zenon
  <2> QED BY <1>4, <2>1, <2>2 DEF MavlinkFrames
<1> QED BY <1>1, <1>2, <1>3, <1>4 DEF Frames, Protocols

\* The quality derived from the age of a heartbeat is a percentage.
LEMMA FadeType ==
  ASSUME NEW x \in Nat, NEW y \in Nat, x < y
  PROVE  100 - (x * 100) \div y \in 0 .. 100
<1> DEFINE q == (x * 100) \div y
<1>1. q \in Int /\ y * q <= x * 100 /\ x * 100 < y * q + y
  BY SMT
<1>2. q >= 0
  BY SMT
<1>3. q <= 100
  BY <1>1, SMT
<1> QED BY <1>1, <1>2, <1>3, SMT
\* The age of the heartbeat moves the quality and the failsafe flag only.
LEMMA HeartbeatTick ==
  ASSUME NEW p \in Port, NEW t \in Stamp
  PROVE  LET q == HeartbeatFreshness(p, t)
         IN  /\ q \in Port
             /\ q.cfg = p.cfg /\ q.began = p.began /\ q.seen = p.seen /\ q.last = p.last
             /\ q.frameValid = p.frameValid /\ q.valid = p.valid
<1> DEFINE age == Elapsed(t, p.hbLast)
<1>1. p.hbLast \in Stamp
  BY DEF Port
<1>2. age \in Nat
  BY <1>1, WrapAssumption, SMT DEF Elapsed, Stamp
<1> HIDE DEF age
<1>3. CASE ~p.hbSeen \/ age >= HbStale
  <2>1. HeartbeatFreshness(p, t) = [p EXCEPT !.lq = 0, !.failsafe = TRUE]
    BY <1>3 DEF HeartbeatFreshness, age
  <2>2. 0 \in 0 .. 255
    BY SMT
  <2> QED BY <2>1, <2>2, Zenon DEF Port
<1>4. CASE ~(~p.hbSeen \/ age >= HbStale) /\ age <= HbFresh
  <2>1. HeartbeatFreshness(p, t) = [p EXCEPT !.lq = 100, !.failsafe = FALSE]
    BY <1>4 DEF HeartbeatFreshness, age
  <2>2. 100 \in 0 .. 255
    BY SMT
  <2> QED BY <2>1, <2>2, Zenon DEF Port
<1>5. CASE ~(~p.hbSeen \/ age >= HbStale) /\ ~(age <= HbFresh)
  <2> DEFINE fade == 100 - ((age - HbFresh) * 100) \div (HbStale - HbFresh)
  <2>1. HeartbeatFreshness(p, t) = [p EXCEPT !.lq = fade, !.failsafe = FALSE]
    BY <1>5 DEF HeartbeatFreshness, age
  <2>2. age - HbFresh \in Nat /\ HbStale - HbFresh \in Nat /\ age - HbFresh < HbStale - HbFresh
    BY <1>2, <1>5, ReceiverPortAssumption, SMT
  <2>3. fade \in 0 .. 100
    BY <2>2, FadeType
  <2> HIDE DEF fade
  <2>4. fade \in 0 .. 255
    BY <2>3, SMT
  <2> QED BY <2>1, <2>4, Zenon DEF Port
<1> QED BY <1>3, <1>4, <1>5

\* A frame leaves the configuration alone; only a frame of channels moves the
\* time of the last one, and on SBUS there is no other kind.
LEMMA ReceiveFacts ==
  ASSUME NEW p \in Port, NEW f \in Frames(p.cfg.protocol), NEW t \in Stamp
  PROVE  LET q == Receive(p, f, t)
         IN  /\ q \in Port
             /\ q.cfg = p.cfg /\ q.began = p.began
             /\ Channels(f) => q.seen /\ q.valid /\ q.last = t
             /\ ~Channels(f) => /\ q.seen = p.seen /\ q.last = p.last
                                /\ q.frameValid = p.frameValid
                                /\ p.valid => q.valid
                                /\ p.cfg.protocol = "SBUS" => q = p
<1> DEFINE q == Receive(p, f, t)
<1>0. p.cfg.protocol \in Protocols
  BY DEF Port, PortConfig
<1>1. /\ f \in Frame
      /\ p.cfg.protocol = "NONE" => f.kind = "none"
      /\ p.cfg.protocol = "CRSF" => f.kind \in {"none", "rc", "stats"}
      /\ p.cfg.protocol = "SBUS" => f.kind \in {"none", "rc"}
      /\ p.cfg.protocol = "MAVLINK" => f.kind \in {"none", "rc", "override", "heartbeat"}
  BY <1>0, FrameType
<1>2. CASE f.kind = "rc" /\ p.cfg.protocol = "CRSF"
  <2>1. q = [p EXCEPT !.seen = TRUE, !.frameValid = TRUE, !.valid = TRUE, !.last = t]
    BY <1>2 DEF Receive, CrsfRc
  <2> QED BY <1>2, <2>1, Zenon DEF Port, Channels
<1>3. CASE f.kind = "rc" /\ p.cfg.protocol = "SBUS"
  <2>1. q = SbusRc(p, f, t)
    BY <1>3 DEF Receive
  <2>2. f.lq \in 0 .. 255 /\ f.rssi \in 0 .. 255 /\ f.failsafe \in BOOLEAN
    BY <1>1 DEF Frame
  <2>3. SbusRc(p, f, t) \in Port
    BY <2>2, ZenonT(30) DEF Port, SbusRc
  <2>4. /\ q.cfg = p.cfg /\ q.began = p.began /\ q.seen = TRUE /\ q.valid = TRUE
        /\ q.last = t
    BY <2>1, Zenon DEF Port, SbusRc
  <2>5. Channels(f)
    BY <1>3 DEF Channels
  <2> QED BY <2>1, <2>3, <2>4, <2>5
<1>4. CASE f.kind = "rc" /\ p.cfg.protocol = "MAVLINK"
  <2>1. q = MavlinkRc(p, f, t)
    BY <1>4 DEF Receive
  <2>2. f.rssi \in 0 .. 255
    BY <1>1 DEF Frame
  <2> QED BY <1>4, <2>1, <2>2, Zenon DEF Port, Channels, MavlinkRc
<1>5. CASE f.kind = "stats"
  <2>1. q = CrsfStats(p, f)
    BY <1>5 DEF Receive
  <2>2. f.lq \in 0 .. 255 /\ f.rssi \in 0 .. 255 /\ (f.lq = 0) \in BOOLEAN
    BY <1>1 DEF Frame
  <2>3. p.cfg.protocol # "SBUS" /\ ~Channels(f)
    BY <1>1, <1>5 DEF Channels
  <2> QED BY <2>1, <2>2, <2>3, Zenon DEF Port, CrsfStats
<1>6. CASE f.kind = "override"
  <2>1. q = MavlinkOverride(p, t)
    BY <1>6 DEF Receive
  <2> QED BY <1>6, <2>1, Zenon DEF Port, Channels, MavlinkOverride
<1>7. CASE f.kind = "heartbeat"
  <2> DEFINE r == [p EXCEPT !.hbSeen = TRUE, !.hbLast = t]
  <2>1. q = HeartbeatFreshness(r, t)
    BY <1>7 DEF Receive, Heartbeat
  <2>2. /\ r \in Port /\ r.cfg = p.cfg /\ r.began = p.began /\ r.seen = p.seen
        /\ r.last = p.last /\ r.frameValid = p.frameValid /\ r.valid = p.valid
    BY Zenon DEF Port
  <2>3. p.cfg.protocol # "SBUS" /\ ~Channels(f)
    BY <1>1, <1>7 DEF Channels
  <2> HIDE DEF r
  <2> QED BY <2>1, <2>2, <2>3, HeartbeatTick
<1>8. CASE f.kind = "none"
  BY <1>8 DEF Receive, Channels
<1> QED
  BY <1>0, <1>1, <1>2, <1>3, <1>4, <1>5, <1>6, <1>7, <1>8 DEF Protocols

\* A tick never makes a link valid; on SBUS it drops one that is silent.
LEMMA TickFacts ==
  ASSUME NEW p \in Port, NEW t \in Stamp
  PROVE  LET q == Tick(p, t)
         IN  /\ q \in Port
             /\ q.cfg = p.cfg /\ q.began = p.began /\ q.seen = p.seen /\ q.last = p.last
             /\ q.valid => p.valid
             /\ q.frameValid => p.frameValid
             /\ p.frameValid /\ p.valid /\ q.frameValid => q.valid
             /\ (p.cfg.protocol = "SBUS" /\ p.seen /\ q.valid)
                  => ~(Elapsed(t, p.last) > ParserTimeout)
<1>0. p.cfg.protocol \in Protocols
  BY DEF Port, PortConfig
<1>1. CASE p.cfg.protocol \in {"CRSF", "SBUS"}
  <2>1. Tick(p, t) = SilenceTick(p, t)
    BY <1>1 DEF Tick
  <2>2. CASE ~(p.last = 0 /\ ~p.seen) /\ Elapsed(t, p.last) > ParserTimeout
    <3>1. Tick(p, t) = [p EXCEPT !.frameValid = FALSE, !.valid = FALSE, !.failsafe = TRUE]
      BY <2>1, <2>2 DEF SilenceTick
    <3> QED BY <3>1, Zenon DEF Port
  <2>3. CASE ~(~(p.last = 0 /\ ~p.seen) /\ Elapsed(t, p.last) > ParserTimeout)
    <3>1. Tick(p, t) = p
      BY <2>1, <2>3 DEF SilenceTick
    <3> QED BY <2>3, <3>1, Zenon
  <2> QED BY <2>2, <2>3
<1>2. CASE p.cfg.protocol = "MAVLINK"
  <2>1. Tick(p, t) = HeartbeatFreshness(p, t)
    BY <1>2 DEF Tick
  <2> QED BY <1>2, <2>1, HeartbeatTick
<1>3. CASE p.cfg.protocol = "NONE"
  BY <1>3 DEF Tick
<1> QED BY <1>0, <1>1, <1>2, <1>3 DEF Protocols
\* One update of a port, with whatever it drains.
LEMMA PumpFacts ==
  ASSUME NEW p \in Port, NEW b \in Batches(p, TRUE), NEW t \in Stamp
  PROVE  LET q == PumpPort(p, b[1], b[2], t)
             some == \E i \in {1, 2} : b[i].kind \in {"rc", "override"}
         IN  /\ q \in Port /\ q.cfg = p.cfg
             /\ some => Running(p) /\ q.seen /\ q.last = t
             /\ ~some => /\ q.seen = p.seen /\ q.last = p.last
                         /\ p.cfg.protocol = "SBUS" /\ q.valid => p.valid
             /\ (p.frameValid => p.valid /\ p.seen) => (q.frameValid => q.valid /\ q.seen)
             /\ (Running(p) /\ p.cfg.protocol = "SBUS" /\ q.seen /\ q.valid)
                  => ~(Elapsed(t, q.last) > ParserTimeout)
<1>1. CASE ~Running(p)
  <2>1. b[1] = NoFrame /\ b[2] = NoFrame
    BY <1>1 DEF Batches
  <2>2. ~\E i \in {1, 2} : b[i].kind \in {"rc", "override"}
    <3>1. NoFrame.kind = "none"
      BY DEF NoFrame
    <3> QED BY <2>1, <3>1
  <2>3. PumpPort(p, b[1], b[2], t) = p
    BY <1>1 DEF PumpPort
  <2> QED BY <1>1, <2>2, <2>3
<1>2. CASE Running(p)
  <2> DEFINE f == b[1]
             g == b[2]
             m == Receive(p, f, t)
             n == Receive(m, g, t)
             q == Tick(n, t)
  <2>1. f \in Frames(p.cfg.protocol) /\ g \in Frames(p.cfg.protocol)
    BY <1>2 DEF Batches
  <2>2. PumpPort(p, b[1], b[2], t) = q
    BY <1>2 DEF PumpPort
  <2>3. (\E i \in {1, 2} : b[i].kind \in {"rc", "override"}) <=> Channels(f) \/ Channels(g)
    BY DEF Channels
  <2> HIDE DEF f, g
  <2>4. /\ m \in Port /\ m.cfg = p.cfg /\ m.began = p.began
        /\ Channels(f) => m.seen /\ m.valid /\ m.last = t
        /\ ~Channels(f) => /\ m.seen = p.seen /\ m.last = p.last
                           /\ m.frameValid = p.frameValid
                           /\ p.valid => m.valid
                           /\ p.cfg.protocol = "SBUS" => m = p
    BY <2>1, ReceiveFacts
  <2> HIDE DEF m
  <2>5. g \in Frames(m.cfg.protocol)
    BY <2>1, <2>4
  <2>6. /\ n \in Port /\ n.cfg = m.cfg /\ n.began = m.began
        /\ Channels(g) => n.seen /\ n.valid /\ n.last = t
        /\ ~Channels(g) => /\ n.seen = m.seen /\ n.last = m.last
                           /\ n.frameValid = m.frameValid
                           /\ m.valid => n.valid
                           /\ m.cfg.protocol = "SBUS" => n = m
    BY <2>4, <2>5, ReceiveFacts
  <2> HIDE DEF n
  <2>7. /\ q \in Port
        /\ q.cfg = n.cfg /\ q.began = n.began /\ q.seen = n.seen /\ q.last = n.last
        /\ q.valid => n.valid
        /\ q.frameValid => n.frameValid
        /\ n.frameValid /\ n.valid /\ q.frameValid => q.valid
        /\ (n.cfg.protocol = "SBUS" /\ n.seen /\ q.valid)
             => ~(Elapsed(t, n.last) > ParserTimeout)
    BY <2>6, TickFacts
  <2> HIDE DEF q
  <2>8. Channels(f) \/ Channels(g) => q.seen /\ q.last = t
    BY <2>4, <2>6, <2>7
  <2>9. ~(Channels(f) \/ Channels(g))
          => /\ q.seen = p.seen /\ q.last = p.last
             /\ p.cfg.protocol = "SBUS" /\ q.valid => p.valid
    BY <2>4, <2>6, <2>7
  <2>10. (p.frameValid => p.valid /\ p.seen) => (q.frameValid => q.valid /\ q.seen)
    <3>1. (p.frameValid => p.valid /\ p.seen) => (m.frameValid => m.valid /\ m.seen)
      BY <2>4
    <3>2. (m.frameValid => m.valid /\ m.seen) => (n.frameValid => n.valid /\ n.seen)
      BY <2>6
    <3>3. (n.frameValid => n.valid /\ n.seen) => (q.frameValid => q.valid /\ q.seen)
      BY <2>7
    <3> QED BY <3>1, <3>2, <3>3
  <2>11. (p.cfg.protocol = "SBUS" /\ q.seen /\ q.valid)
           => ~(Elapsed(t, q.last) > ParserTimeout)
    BY <2>4, <2>6, <2>7
  <2> QED BY <1>2, <2>2, <2>3, <2>4, <2>6, <2>7, <2>8, <2>9, <2>10, <2>11
<1> QED BY <1>1, <1>2

\* A port that is opened, or opened anew, has not received anything.
LEMMA ReapplyFacts ==
  ASSUME NEW c \in PortConfig
  PROVE  /\ Reapply(c) \in Port
         /\ ~Reapply(c).seen /\ ~Reapply(c).valid /\ ~Reapply(c).frameValid
<1>1. 0 \in Stamp /\ 0 \in 0 .. 255
  BY WrapAssumption, SMT DEF Stamp
<1> QED BY <1>1, Zenon DEF Reapply, Port


\* A port configuration leads to a well-typed port, opened anew or not.
LEMMA ConfigType ==
  ASSUME NEW c \in PortConfig, NEW p \in Port
  PROVE  Reapply(c) \in Port /\ SetPortConfig(p, c) \in Port
<1>1. Reapply(c) \in Port
  BY WrapAssumption, SMT DEF Reapply, Port, Stamp
<1>2. [p EXCEPT !.cfg = c] \in Port
  BY DEF Port
<1> QED BY <1>1, <1>2 DEF SetPortConfig

-----------------------------------------------------------------------------
(* One port over time.                                                     *)

\* The age of the link as isAlive computes it.
Age == Elapsed(clock, port.last)


\* Why the age of a link is its real age.  From a frame of channels on, the
\* unsigned difference is exact until the silence has lasted for a whole turn
\* of the clock; an SBUS port whose every update ran its parser is never
\* silent for so long and still valid.
PortInv ==
  /\ FrameNeedsLink
  /\ port.seen => silence = Wrap \/ silence = Age
  /\ (port.cfg.protocol = "SBUS" /\ port.seen /\ port.valid /\ watched)
       => silence <= ParserTimeout

LEMMA PortInit == AgeInit => AgeTypeOK /\ PortInv
<1> SUFFICES ASSUME AgeInit PROVE AgeTypeOK /\ PortInv
  OBVIOUS
<1>1. PICK c \in Configs : port = Reapply(c)
  BY DEF AgeInit
<1>2. c \in PortConfig
  BY PortAgeAssumption, Zenon
<1>3. port \in Port /\ ~port.seen /\ ~port.valid /\ ~port.frameValid
  BY <1>1, <1>2, ReapplyFacts
<1>4. 0 \in Stamp /\ Wrap \in 0 .. Wrap
  BY WrapAssumption, SMT DEF Stamp
<1> QED BY <1>3, <1>4 DEF AgeInit, AgeTypeOK, PortInv, FrameNeedsLink

LEMMA PortStep == AgeTypeOK /\ PortInv /\ [AgeNext]_ageVars => AgeTypeOK' /\ PortInv'
<1> SUFFICES ASSUME AgeTypeOK, PortInv, [AgeNext]_ageVars PROVE AgeTypeOK' /\ PortInv'
  OBVIOUS
<1>0. /\ clock \in Stamp /\ port \in Port /\ silence \in 0 .. Wrap /\ watched \in BOOLEAN
      /\ Wrap \in Nat \ {0} /\ ParserTimeout \in Nat /\ AgeMaxStep \in Nat
      /\ ParserTimeout + AgeMaxStep < Wrap
  BY WrapAssumption, ReceiverPortAssumption, PortAgeAssumption DEF AgeTypeOK
<1>l. port.last \in Stamp
  BY <1>0 DEF Port
<1>1. ASSUME NEW d \in 0 .. AgeMaxStep, NEW b \in Batches(port, TRUE), AgeUpdate(d, b)
      PROVE  AgeTypeOK' /\ PortInv'
  <2> DEFINE some == \E i \in {1, 2} : b[i].kind \in {"rc", "override"}
  <2>0. d \in Nat /\ d <= AgeMaxStep
    BY <1>0, SMT
  <2>1. clock' = Later(clock, d) /\ clock' \in Stamp
    BY <1>0, <1>1, <2>0, LaterType DEF AgeUpdate
  <2>2. /\ port' \in Port /\ port'.cfg = port.cfg
        /\ some => Running(port) /\ port'.seen /\ port'.last = clock'
        /\ ~some => /\ port'.seen = port.seen /\ port'.last = port.last
                    /\ port.cfg.protocol = "SBUS" /\ port'.valid => port.valid
        /\ (port.frameValid => port.valid /\ port.seen)
             => (port'.frameValid => port'.valid /\ port'.seen)
        /\ (Running(port) /\ port.cfg.protocol = "SBUS" /\ port'.seen /\ port'.valid)
             => ~(Elapsed(clock', port'.last) > ParserTimeout)
    <3>1. port' = PumpPort(port, b[1], b[2], clock')
      BY <1>1 DEF AgeUpdate
    <3> DEFINE t == clock'
               q == PumpPort(port, b[1], b[2], t)
    <3>2. t \in Stamp
      BY <2>1
    <3> HIDE DEF t
    <3>3. /\ q \in Port /\ q.cfg = port.cfg
          /\ some => Running(port) /\ q.seen /\ q.last = t
          /\ ~some => /\ q.seen = port.seen /\ q.last = port.last
                      /\ port.cfg.protocol = "SBUS" /\ q.valid => port.valid
          /\ (port.frameValid => port.valid /\ port.seen)
               => (q.frameValid => q.valid /\ q.seen)
          /\ (Running(port) /\ port.cfg.protocol = "SBUS" /\ q.seen /\ q.valid)
               => ~(Elapsed(t, q.last) > ParserTimeout)
      BY <1>0, <3>2, PumpFacts
    <3> HIDE DEF some
    <3>4. port' = q /\ clock' = t
      BY <3>1 DEF t
    <3> HIDE DEF q
    <3> QED BY <3>3, <3>4
  <2>3. /\ some => silence' = 0 /\ watched' = TRUE
        /\ ~some => /\ silence' = IF silence + d < Wrap THEN silence + d ELSE Wrap
                    /\ watched' = (watched /\ Running(port))
    BY <1>1 DEF AgeUpdate
  <2> HIDE DEF some
  <2>4. silence' \in 0 .. Wrap /\ watched' \in BOOLEAN
    <3>1. silence' \in 0 .. Wrap
      BY <1>0, <2>0, <2>3, SMT
    <3>2. watched' \in BOOLEAN
      BY <1>1, Zenon DEF AgeUpdate
    <3> QED BY <3>1, <3>2
  <2>5. FrameNeedsLink'
    BY <2>2 DEF PortInv, FrameNeedsLink
  <2>6. CASE some
    <3>1. Age' = 0 /\ silence' = 0
      BY <2>1, <2>2, <2>3, <2>6, ElapsedSame DEF Age
    <3>2. 0 <= ParserTimeout
      BY <1>0, SMT
    <3> QED BY <2>1, <2>2, <2>4, <2>5, <3>1, <3>2 DEF AgeTypeOK, PortInv
  <2>7. CASE ~some
    <3>1. Age' = Elapsed(Later(clock, d), port.last) /\ Age = Elapsed(clock, port.last)
      BY <2>1, <2>2, <2>7 DEF Age
    <3>2. port'.seen => silence' = Wrap \/ silence' = Age'
      <4>1. ASSUME port.seen, silence + d < Wrap PROVE silence' = Age'
        <5>1. silence = Age
          BY <1>0, <2>0, <4>1, SMT DEF PortInv
        <5>2. Elapsed(clock, port.last) + d < Wrap
          BY <3>1, <4>1, <5>1
        <5>3. Age' = Age + d
          BY <1>0, <1>l, <2>0, <3>1, <5>2, ElapsedExact
        <5> QED BY <2>3, <2>7, <4>1, <5>1, <5>3
      <4> QED BY <2>2, <2>3, <2>7, <4>1
    <3>3. ASSUME port.cfg.protocol = "SBUS", port'.seen, port'.valid, watched'
          PROVE  silence' <= ParserTimeout
      <4>1. watched /\ Running(port) /\ port.valid /\ port.seen
        BY <2>2, <2>3, <2>7, <3>3
      <4>2. silence <= ParserTimeout
        BY <3>3, <4>1 DEF PortInv
      <4>3. silence' # Wrap
        BY <1>0, <2>0, <2>3, <2>7, <4>2, SMT
      <4>4. silence' = Elapsed(clock', port'.last)
        BY <3>2, <3>3, <4>3 DEF Age
      <4>5. ~(silence' > ParserTimeout)
        BY <2>2, <3>3, <4>1, <4>4
      <4> QED BY <1>0, <2>4, <4>5, SMT
    <3> QED BY <2>1, <2>2, <2>4, <2>5, <3>2, <3>3 DEF AgeTypeOK, PortInv
  <2> QED BY <2>6, <2>7
<1>2. ASSUME NEW c \in Configs, AgeSetConfig(c) PROVE AgeTypeOK' /\ PortInv'
  <2>1. c \in PortConfig
    BY PortAgeAssumption, Zenon
  <2>2. port' = SetPortConfig(port, c) /\ UNCHANGED <<clock, silence, watched>>
    BY <1>2 DEF AgeSetConfig
  <2>3. CASE NeedsRebegin(port, c)
    <3>1. port' = Reapply(c)
      BY <2>2, <2>3 DEF SetPortConfig
    <3> QED BY <1>0, <2>1, <2>2, <3>1, ReapplyFacts DEF AgeTypeOK, PortInv, FrameNeedsLink
  <2>4. CASE ~NeedsRebegin(port, c)
    <3>1. port' = [port EXCEPT !.cfg = c]
      BY <2>2, <2>4 DEF SetPortConfig
    <3>2. /\ port' \in Port /\ port'.seen = port.seen /\ port'.valid = port.valid
          /\ port'.frameValid = port.frameValid /\ port'.last = port.last /\ port'.cfg = c
      BY <1>0, <2>1, <3>1, Zenon DEF Port
    <3>3. c.protocol = port.cfg.protocol
      BY <2>4 DEF NeedsRebegin
    <3>4. Age' = Age
      BY <2>2, <3>2 DEF Age
    <3> QED BY <1>0, <2>2, <3>2, <3>3, <3>4 DEF AgeTypeOK, PortInv, FrameNeedsLink
  <2> QED BY <2>3, <2>4
<1>3. CASE UNCHANGED ageVars
  BY <1>3 DEF ageVars, AgeTypeOK, PortInv, FrameNeedsLink, Age
<1> QED BY <1>1, <1>2, <1>3 DEF AgeNext

\* No frame, silence or reconfiguration takes a port out of its types.
THEOREM PortTypeCorrect == AgeSpec => []AgeTypeOK
<1> QED BY PortInit, PortStep, PTL DEF AgeSpec

\* A valid frame always comes with a valid link that has delivered one.
THEOREM FramesNeedLinks == AgeSpec => []FrameNeedsLink
<1>1. PortInv => FrameNeedsLink
  BY DEF PortInv
<1> QED BY <1>1, PortInit, PortStep, PTL DEF AgeSpec

\* For every link timeout and width of the clock: a port that counts as alive
\* has delivered channels within the timeout, but for a link that was silent
\* for a whole turn of the clock.
THEOREM LinksAreRecent == AgeSpec => []AliveIsRecent
<1>1. AgeTypeOK /\ PortInv => AliveIsRecent
  <2> SUFFICES ASSUME AgeTypeOK, PortInv, port.seen, IsAlive(port, clock, LinkTimeout)
               PROVE  \/ silence < LinkTimeout
                      \/ silence = Wrap /\ (port.cfg.protocol # "SBUS" \/ ~watched)
    BY DEF AliveIsRecent
  <2>1. port.valid /\ Age < LinkTimeout
    BY DEF IsAlive, Age
  <2>2. CASE silence = Age
    BY <2>1, <2>2
  <2>3. CASE silence = Wrap
    <3>1. ~(Wrap <= ParserTimeout)
      BY WrapAssumption, ReceiverPortAssumption, PortAgeAssumption, SMT
    <3> QED BY <2>1, <2>3, <3>1 DEF PortInv
  <2> QED BY <2>2, <2>3 DEF PortInv
<1> QED BY <1>1, PortInit, PortStep, PTL DEF AgeSpec

-----------------------------------------------------------------------------
(* Type correctness of the selection.                                      *)

\* Both ports stay well typed through the drain and the tick.
LEMMA PumpedType ==
  ASSUME TypeOK, NEW t \in Stamp,
         NEW b0 \in Batches(ports[0], FALSE), NEW b1 \in Batches(ports[1], FALSE)
  PROVE  Pumped(b0, b1, t) \in [Ports -> Port]
<1>1. \A p \in Port : Batches(p, FALSE) \subseteq Batches(p, TRUE)
  BY DEF Batches, Frames
<1>2. ports[0] \in Port /\ ports[1] \in Port
  BY DEF TypeOK, Ports
<1>3. b0 \in Batches(ports[0], TRUE) /\ b1 \in Batches(ports[1], TRUE)
  BY <1>1, <1>2
<1>4. /\ PumpPort(ports[0], b0[1], b0[2], t) \in Port
      /\ PumpPort(ports[1], b1[1], b1[2], t) \in Port
  BY <1>2, <1>3, PumpFacts
<1> QED BY <1>4, SMT DEF Pumped, Ports

LEMMA InitType == HInit => TypeOK
<1> SUFFICES ASSUME HInit PROVE TypeOK
  OBVIOUS
<1>1. ports \in [Ports -> Port]
  <2>1. PICK c0 \in PortConfigs[0], c1 \in PortConfigs[1] :
          ports = [i \in Ports |-> Reapply(IF i = 0 THEN c0 ELSE c1)]
    BY DEF HInit, Init
  <2>2. c0 \in PortConfig /\ c1 \in PortConfig
    BY ReceiverManagerAssumption DEF Ports
  <2>3. Reapply(c0) \in Port /\ Reapply(c1) \in Port
    <3>1. \A c \in PortConfig : Reapply(c) \in Port
      BY WrapAssumption, SMT DEF Reapply, Port, Stamp
    <3> QED BY <2>2, <3>1
  <2> QED BY <2>1, <2>3, SMT DEF Ports
<1>2. 0 \in Stamp /\ 0 \in 0 .. Horizon /\ Never \in -1 .. Horizon
  BY WrapAssumption, HorizonAssumption, SMT DEF Stamp, Never
<1>3. now \in Stamp /\ sel \in Selections /\ state \in States
      /\ active \in Ports \cup {NoPort} /\ activeSince \in Stamp
      /\ challenger \in Ports \cup {NoPort} /\ challengerSince \in Stamp
  BY <1>2 DEF HInit, Init, States
<1>4. aliveSeen \in SUBSET Ports /\ judge \in Selections /\ fresh \in BOOLEAN
      /\ held \in 0 .. Horizon /\ streak \in -1 .. Horizon
  BY <1>2 DEF HInit, Init
<1> QED BY <1>1, <1>3, <1>4 DEF TypeOK

\* The reading and the ports an update leaves behind, and the range of its
\* step.
LEMMA UpdateFacts ==
  ASSUME TypeOK, NEW d \in 0 .. MaxStep,
         NEW b0 \in Batches(ports[0], FALSE), NEW b1 \in Batches(ports[1], FALSE),
         Update(d, b0, b1)
  PROVE  /\ d \in Nat
         /\ now' = Later(now, d)
         /\ now' \in Stamp
         /\ ports' \in [Ports -> Port]
         /\ sel' = sel
         /\ Select(ports', now')
<1>1. d \in Nat
  BY ReceiverManagerAssumption, SMT
<1>2. now' = Later(now, d) /\ ports' = Pumped(b0, b1, now') /\ sel' = sel
      /\ Select(ports', now')
  BY DEF Update
<1>3. now' \in Stamp
  BY <1>1, <1>2, LaterType DEF TypeOK
<1> QED BY <1>1, <1>2, <1>3, PumpedType

LEMMA SelectType ==
  ASSUME TypeOK, now' \in Stamp, Select(ports', now')
  PROVE  /\ state' \in States
         /\ active' \in Ports \cup {NoPort}
         /\ activeSince' \in Stamp
         /\ challenger' \in Ports \cup {NoPort}
         /\ challengerSince' \in Stamp
<1> 0 \in Stamp
  BY WrapAssumption, SMT DEF Stamp
<1> USE DEF TypeOK, States, Ports, NoPort
<1>1. CASE StayNoLink(ports', now')
  BY <1>1 DEF StayNoLink
<1>2. CASE Lock(ports', now')
  BY <1>2 DEF Lock, Best
<1>3. CASE Failover(ports', now')
  BY <1>3, SMT DEF Failover, Other
<1>4. CASE LoseLink(ports', now')
  BY <1>4 DEF LoseLink
<1>5. CASE Hold(ports', now')
  BY <1>5 DEF Hold
<1>6. CASE Evaluate(ports', now')
  BY <1>6, SMT DEF Evaluate, Other, BetterSince
<1>7. CASE Switch(ports', now')
  BY <1>7, SMT DEF Switch, Other
<1> QED BY <1>1, <1>2, <1>3, <1>4, <1>5, <1>6, <1>7 DEF Select

LEMMA StepType == TypeOK /\ [HNext]_hvars => TypeOK'
<1> SUFFICES ASSUME TypeOK, [HNext]_hvars PROVE TypeOK'
  OBVIOUS
<1>1. ASSUME NEW d \in 0 .. MaxStep, HUpdate(d) PROVE TypeOK'
  <2>1. PICK b0 \in Batches(ports[0], FALSE), b1 \in Batches(ports[1], FALSE) :
          Update(d, b0, b1) /\ Observe(d)
    BY <1>1 DEF HUpdate
  <2>2. /\ d \in Nat /\ now' \in Stamp /\ ports' \in [Ports -> Port]
        /\ sel' = sel /\ Select(ports', now')
    BY <2>1, UpdateFacts
  <2>3. aliveSeen' \in SUBSET Ports /\ judge' \in Selections /\ fresh' \in BOOLEAN
    BY <2>1 DEF Observe, Alive, TypeOK
  <2>4. held' \in 0 .. Horizon /\ streak' \in -1 .. Horizon
    BY <2>1, <2>2, HorizonAssumption, SMT
    DEF Observe, Count, HeldNow, StreakNow, Never, TypeOK
  <2> QED BY <2>2, <2>3, <2>4, SelectType DEF TypeOK
<1>2. ASSUME NEW i \in Ports, NEW c \in PortConfigs[i], HConfigurePort(i, c)
      PROVE  TypeOK'
  <2>1. ports' = [ports EXCEPT ![i] = SetPortConfig(ports[i], c)]
        /\ UNCHANGED <<now, sel, fsm, history>>
    BY <1>2 DEF HConfigurePort, ConfigurePort
  <2>2. SetPortConfig(ports[i], c) \in Port
    BY ReceiverManagerAssumption, ConfigType DEF TypeOK
  <2>3. ports' \in [Ports -> Port]
    BY <2>1, <2>2 DEF TypeOK
  <2> QED BY <2>1, <2>3 DEF TypeOK, fsm, history
<1>3. ASSUME NEW s \in Selections, HConfigureSelection(s) PROVE TypeOK'
  BY <1>3 DEF HConfigureSelection, ConfigureSelection, TypeOK, fsm, history
<1>4. CASE UNCHANGED hvars
  BY <1>4 DEF TypeOK, hvars, vars, fsm, history
<1> QED BY <1>1, <1>2, <1>3, <1>4 DEF HNext

\* Every variable of the selection keeps its range, whatever the receivers
\* send, the web UI configures and the clock does.
THEOREM TypeCorrect == HSpec => []TypeOK
<1>1. HInit => TypeOK
  BY InitType
<1>2. TypeOK /\ [HNext]_hvars => TypeOK'
  BY StepType
<1> QED BY <1>1, <1>2, PTL DEF HSpec

-----------------------------------------------------------------------------
(* The selection.                                                          *)

\* The observer's count is a duration, and reaches every bound up to Horizon
\* that the duration it counts reaches.
LEMMA CountFacts ==
  ASSUME NEW x \in 0 .. Horizon, NEW d \in Nat, NEW e \in Int,
         x = Horizon \/ e <= x + d
  PROVE  /\ Count(x, d) \in 0 .. Horizon
         /\ Count(x, d) = Horizon \/ e <= Count(x, d)
BY HorizonAssumption, SMT DEF Count

\* What one update comes to, ps being the ports it pumped and t its time.
Outcome(ps, t) ==
  /\ (active' = NoPort) <=> (Alive(ps, t) = {})
  /\ active' # NoPort => active' \in Alive(ps, t)
  /\ (state' = "NO_LINK") <=> (active' = NoPort)
  /\ (challenger' # NoPort) <=> (/\ state' = "EVALUATING"
                                /\ active' # NoPort
                                /\ challenger' = Other(active'))
  /\ challenger' # NoPort => Evaluate(ps, t)
  /\ (active # NoPort /\ active' # active /\ active \in Alive(ps, t))
       => Switch(ps, t)
  /\ (active # NoPort /\ active' = active) => activeSince' = activeSince
  /\ (active' # NoPort /\ active' # active) => activeSince' = t

\* Every case of the update has that outcome.
LEMMA SelectOutcome ==
  ASSUME TypeOK, ChallengerIsRival, Select(ports', now')
  PROVE  Outcome(ports', now')
<1> DEFINE A == Alive(ports', now')
<1>0. A \subseteq {0, 1} /\ active \in {0, 1, -1} /\ Ports = {0, 1} /\ NoPort = -1
  BY DEF Alive, TypeOK, Ports, NoPort
<1>1. CASE StayNoLink(ports', now')
  <2>1. /\ A = {} /\ active = NoPort /\ active' = NoPort /\ state' = "NO_LINK"
        /\ challenger' = challenger
    BY <1>1 DEF StayNoLink
  <2>2. challenger' = NoPort
    BY <2>1 DEF ChallengerIsRival
  <2> QED BY <2>1, <2>2 DEF Outcome
<1>2. CASE Lock(ports', now')
  <2>1. /\ A # {} /\ active = NoPort /\ active' = Best(ports', A) /\ state' = "LOCKED"
        /\ challenger' = NoPort /\ activeSince' = now'
    BY <1>2 DEF Lock
  <2>2. Best(ports', A) \in A
    <3> HIDE DEF A
    <3> QED BY <1>0, <2>1 DEF Best
  <2>3. active' \in {0, 1}
    BY <2>1, <2>2, <1>0
  <2> QED BY <2>1, <2>2, <2>3, <1>0 DEF Outcome
<1>3. CASE Failover(ports', now')
  <2>1. /\ active \in {0, 1} /\ active \notin A /\ Other(active) \in A
        /\ active' = Other(active) /\ state' = "SWITCHING" /\ challenger' = NoPort
        /\ activeSince' = now'
    BY <1>0, <1>3 DEF Failover
  <2> QED BY <2>1, <1>0 DEF Outcome
<1>4. CASE LoseLink(ports', now')
  BY <1>0, <1>4 DEF LoseLink, Outcome
<1>5. CASE Hold(ports', now')
  BY <1>0, <1>5 DEF Hold, Outcome
<1>6. CASE Evaluate(ports', now')
  <2>1. /\ active \in {0, 1} /\ A = Ports /\ active' = active /\ state' = "EVALUATING"
        /\ challenger' = Other(active) /\ activeSince' = activeSince
    BY <1>0, <1>6 DEF Evaluate
  <2> QED BY <2>1, <1>0, <1>6, SMT DEF Other, Outcome
<1>7. CASE Switch(ports', now')
  <2>1. /\ active \in {0, 1} /\ A = Ports /\ active' = Other(active)
        /\ state' = "SWITCHING" /\ challenger' = NoPort /\ activeSince' = now'
    BY <1>0, <1>7 DEF Switch
  <2> QED BY <2>1, <1>0, <1>7, SMT DEF Other, Outcome
<1> QED BY <1>1, <1>2, <1>3, <1>4, <1>5, <1>6, <1>7 DEF Select

\* The observer's counts when the update takes the timers one step further.
LEMMA TimersStep ==
  ASSUME TypeOK, SelectionInv, NEW d \in Nat, now' = Later(now, d), now' \in Stamp,
         sel' = sel, Select(ports', now'), Observe(d)
  PROVE  /\ active # NoPort
              => held' = Horizon \/ Elapsed(now', activeSince) <= held'
         /\ RivalBetter(ports', now')
              => /\ streak' # Never
                 /\ streak' = Horizon \/ Elapsed(now', BetterSince(now')) <= streak'
<1>1. ASSUME active # NoPort
      PROVE  held' = Horizon \/ Elapsed(now', activeSince) <= held'
  <2>1. held' = Count(HeldNow, d)
    BY <1>1 DEF Observe
  <2>2. HeldNow \in 0 .. Horizon
    BY HorizonAssumption, SMT DEF HeldNow, TypeOK
  <2>3. HeldNow = Horizon \/ Elapsed(now, activeSince) <= HeldNow
    BY <1>1 DEF SelectionInv, TimersAreSound
  <2>4. /\ Elapsed(now', activeSince) <= Elapsed(now, activeSince) + d
        /\ Elapsed(now, activeSince) \in Int /\ Elapsed(now', activeSince) \in Int
    BY ElapsedGrows DEF TypeOK
  <2>5. HeldNow = Horizon \/ Elapsed(now', activeSince) <= HeldNow + d
    BY <2>2, <2>3, <2>4, HorizonAssumption, SMT
  <2> QED BY <2>1, <2>2, <2>4, <2>5, CountFacts
<1>2. ASSUME RivalBetter(ports', now')
      PROVE  /\ streak' # Never
             /\ streak' = Horizon \/ Elapsed(now', BetterSince(now')) <= streak'
  <2>1. streak' = IF StreakNow = Never THEN 0 ELSE Count(StreakNow, d)
    BY <1>2 DEF Observe
  <2>2. StreakNow \in 0 .. Horizon \/ StreakNow = Never
    BY HorizonAssumption, SMT DEF StreakNow, TypeOK, Never
  <2>3. CASE challenger = Other(active)
    <3>1. challenger # NoPort
      BY <2>3, <1>2, SMT DEF RivalBetter, Other, NoPort, Ports, TypeOK
    <3>2. /\ StreakNow = streak /\ streak # Never
          /\ streak = Horizon \/ Elapsed(now, challengerSince) <= streak
      BY <3>1 DEF SelectionInv, TimersAreSound, StreakNow
    <3>3. /\ Elapsed(now', challengerSince) <= Elapsed(now, challengerSince) + d
          /\ Elapsed(now, challengerSince) \in Int /\ Elapsed(now', challengerSince) \in Int
      BY ElapsedGrows DEF TypeOK
    <3>4. streak = Horizon \/ Elapsed(now', challengerSince) <= streak + d
      BY <3>2, <3>3, <2>2, HorizonAssumption, SMT
    <3>5. streak' = Count(streak, d) /\ streak \in 0 .. Horizon
      BY <2>1, <2>2, <3>2
    <3>6. /\ Count(streak, d) \in 0 .. Horizon
          /\ Count(streak, d) = Horizon \/ Elapsed(now', challengerSince) <= Count(streak, d)
      BY <3>3, <3>4, <3>5, CountFacts
    <3> QED BY <2>3, <3>5, <3>6, SMT DEF BetterSince, Never
  <2>4. CASE challenger # Other(active)
    <3>1. Elapsed(now', BetterSince(now')) = 0
      BY <2>4, ElapsedSame DEF BetterSince
    <3>2. streak' \in 0 .. Horizon
      BY <2>1, <2>2, CountFacts, HorizonAssumption, SMT DEF Count
    <3> QED BY <3>1, <3>2, SMT DEF Never
  <2> QED BY <2>3, <2>4
<1> QED BY <1>1, <1>2

LEMMA SelectionInvInit == HInit => SelectionInv
BY DEF HInit, Init, SelectionInv, ActiveIsAlive, ChallengerIsRival,
       StateMatchesSelection, TimersAreSound

LEMMA SelectionInvStep ==
  TypeOK /\ SelectionInv /\ [HNext]_hvars => SelectionInv'
<1> SUFFICES ASSUME TypeOK, SelectionInv, [HNext]_hvars PROVE SelectionInv'
  OBVIOUS
<1>1. ASSUME NEW d \in 0 .. MaxStep, HUpdate(d) PROVE SelectionInv'
  <2>1. PICK b0 \in Batches(ports[0], FALSE), b1 \in Batches(ports[1], FALSE) :
          Update(d, b0, b1) /\ Observe(d)
    BY <1>1 DEF HUpdate
  <2>2. /\ d \in Nat /\ now' = Later(now, d) /\ now' \in Stamp
        /\ sel' = sel /\ Select(ports', now')
    BY <2>1, UpdateFacts
  <2>3. Outcome(ports', now')
    BY <2>2, SelectOutcome DEF SelectionInv
  <2>4. /\ active # NoPort
             => held' = Horizon \/ Elapsed(now', activeSince) <= held'
        /\ RivalBetter(ports', now')
             => /\ streak' # Never
                /\ streak' = Horizon \/ Elapsed(now', BetterSince(now')) <= streak'
    BY <2>1, <2>2, TimersStep
  <2>5. aliveSeen' = Alive(ports', now') /\ fresh' = (active' # active)
    BY <2>1 DEF Observe
  <2>6. ActiveIsAlive'
    BY <2>3, <2>5 DEF Outcome, ActiveIsAlive
  <2>7. ChallengerIsRival' /\ StateMatchesSelection'
    BY <2>3 DEF Outcome, ChallengerIsRival, StateMatchesSelection
  <2>8. ASSUME active' # NoPort
        PROVE  HeldNow' = Horizon \/ Elapsed(now', activeSince') <= HeldNow'
    <3>1. CASE fresh'
      <4>1. Elapsed(now', activeSince') = 0
        BY <2>2, <2>3, <2>5, <2>8, <3>1, ElapsedSame DEF Outcome
      <4>2. HeldNow' = 0
        BY <3>1 DEF HeldNow
      <4> QED BY <4>1, <4>2, SMT
    <3>2. CASE ~fresh'
      <4>1. active # NoPort /\ activeSince' = activeSince
        BY <2>3, <2>5, <2>8, <3>2 DEF Outcome
      <4>2. HeldNow' = held'
        BY <3>2 DEF HeldNow
      <4> QED BY <4>1, <4>2, <2>4
    <3> QED BY <3>1, <3>2
  <2>9. ASSUME challenger' # NoPort
        PROVE  /\ ~fresh' /\ streak' # Never
               /\ streak' = Horizon \/ Elapsed(now', challengerSince') <= streak'
    <3>1. Evaluate(ports', now')
      BY <2>3, <2>9 DEF Outcome
    <3>2. RivalBetter(ports', now')
      BY <3>1 DEF Evaluate, RivalBetter
    <3>3. ~fresh' /\ challengerSince' = BetterSince(now')
      BY <2>5, <3>1 DEF Evaluate
    <3> QED BY <2>4, <3>2, <3>3
  <2> QED BY <2>6, <2>7, <2>8, <2>9 DEF SelectionInv, TimersAreSound
<1>2. ASSUME NEW i \in Ports, NEW c \in PortConfigs[i], HConfigurePort(i, c)
      PROVE  SelectionInv'
  BY <1>2 DEF HConfigurePort, ConfigurePort, fsm, history, SelectionInv, ActiveIsAlive,
              ChallengerIsRival, StateMatchesSelection, TimersAreSound, HeldNow
<1>3. ASSUME NEW s \in Selections, HConfigureSelection(s) PROVE SelectionInv'
  BY <1>3 DEF HConfigureSelection, ConfigureSelection, fsm, history, SelectionInv,
              ActiveIsAlive, ChallengerIsRival, StateMatchesSelection, TimersAreSound,
              HeldNow
<1>4. CASE UNCHANGED hvars
  BY <1>4 DEF hvars, vars, fsm, history, SelectionInv, ActiveIsAlive, ChallengerIsRival,
              StateMatchesSelection, TimersAreSound, HeldNow
<1> QED BY <1>1, <1>2, <1>3, <1>4 DEF HNext

\* The inductive invariant of the selection.
THEOREM SelectionInvariant == HSpec => []SelectionInv
<1>1. HInit => TypeOK /\ SelectionInv
  BY InitType, SelectionInvInit
<1>2. TypeOK /\ SelectionInv /\ [HNext]_hvars => (TypeOK /\ SelectionInv)'
  BY StepType, SelectionInvStep
<1> QED BY <1>1, <1>2, PTL DEF HSpec

\* The outputs are driven from a live link exactly when there is one.
THEOREM ActivePortAlive == HSpec => []ActiveIsAlive
<1>1. SelectionInv => ActiveIsAlive
  BY DEF SelectionInv
<1> QED BY <1>1, SelectionInvariant, PTL

\* One step of the specification leaves a live port only as configured.
LEMMA EarnedStep ==
  ASSUME TypeOK, SelectionInv, [HNext]_hvars,
         active # NoPort, active' = Other(active), active \in aliveSeen'
  PROVE  held' >= judge'.minActive /\ streak' >= judge'.switchDelay
<1>0. active' # active
  BY SMT DEF TypeOK, Ports, Other, NoPort
<1>1. PICK d \in 0 .. MaxStep : HUpdate(d)
  BY <1>0 DEF HNext, hvars, vars, fsm, HConfigurePort, ConfigurePort,
              HConfigureSelection, ConfigureSelection
<1>2. PICK b0 \in Batches(ports[0], FALSE), b1 \in Batches(ports[1], FALSE) :
        Update(d, b0, b1) /\ Observe(d)
  BY <1>1 DEF HUpdate
<1>3. /\ d \in Nat /\ now' = Later(now, d) /\ now' \in Stamp
      /\ sel' = sel /\ Select(ports', now')
  BY <1>2, UpdateFacts
<1>4. judge' = sel /\ sel \in Selections /\ active \in Alive(ports', now')
  BY <1>2 DEF Observe, TypeOK
<1>5. Switch(ports', now')
  BY <1>0, <1>3, <1>4, SelectOutcome DEF SelectionInv, Outcome
<1>6. /\ held' = Horizon \/ Elapsed(now', activeSince) <= held'
      /\ streak' = Horizon \/ Elapsed(now', BetterSince(now')) <= streak'
  BY <1>2, <1>3, <1>5, TimersStep DEF Switch, RivalBetter
<1>7. /\ Elapsed(now', activeSince) >= sel.minActive
      /\ Elapsed(now', BetterSince(now')) >= sel.switchDelay
  BY <1>5 DEF Switch, DelaysElapsed
<1>8. /\ Horizon >= sel.minActive /\ Horizon >= sel.switchDelay
      /\ sel.minActive \in Int /\ sel.switchDelay \in Int /\ Horizon \in Int
  BY <1>4, HorizonAssumption, ReceiverManagerAssumption, SMT DEF Selection
<1>9. held' \in Int /\ streak' \in Int
  <2>1. TypeOK'
    BY StepType
  <2> QED BY <2>1, HorizonAssumption, SMT DEF TypeOK
<1>10. Elapsed(now', activeSince) \in Int /\ Elapsed(now', BetterSince(now')) \in Int
  BY <1>3, ElapsedGrows DEF TypeOK, BetterSince
<1> QED BY <1>4, <1>6, <1>7, <1>8, <1>9, <1>10, SMT

\* However often the clock wraps, a live port is left only after minActive
\* milliseconds of real time, for a rival that was better throughout the last
\* switchDelay milliseconds of it.
THEOREM SwitchesAreEarned == HSpec => SwitchIsEarned
<1>1. TypeOK /\ SelectionInv /\ [HNext]_hvars
        => [ (/\ active # NoPort
              /\ active' = Other(active)
              /\ active \in aliveSeen')
             => (/\ held' >= judge'.minActive
                 /\ streak' >= judge'.switchDelay) ]_hvars
  BY EarnedStep
<1> QED BY <1>1, TypeCorrect, SelectionInvariant, PTL DEF HSpec, SwitchIsEarned

-----------------------------------------------------------------------------
(* Promptness.                                                             *)

\* Why a switch comes no later than configured, for which TimersAreSound is
\* not enough: the timers may not show less than the real time either.  They
\* do not while they are below the width of the clock; a streak has its
\* challenger; and it is no longer than the active port was held, so that
\* the clock cannot have wrapped since it began if it has not for that one.
PromptInv ==
  /\ (active # NoPort /\ HeldNow # Horizon /\ HeldNow < Wrap)
       => Elapsed(now, activeSince) = HeldNow
  /\ StreakNow <= HeldNow
  /\ StreakNow # Never
       => /\ active # NoPort /\ challenger = Other(active)
          /\ (streak # Horizon /\ streak < Wrap) => Elapsed(now, challengerSince) = streak

\* A count below Horizon is the duration itself, and a longer duration counts
\* for no less.
LEMMA CountExact ==
  ASSUME NEW x \in 0 .. Horizon, NEW y \in 0 .. Horizon, NEW d \in Nat, x <= y
  PROVE  /\ Count(x, d) # Horizon => Count(x, d) = x + d /\ x # Horizon
         /\ Count(x, d) <= Count(y, d)
         /\ 0 <= Count(y, d)
BY HorizonAssumption, SMT DEF Count

\* A timer that shows the real time since its start goes on doing so below
\* the width of the clock.
LEMMA TimerExact ==
  ASSUME NEW t \in Stamp, NEW start \in Stamp, NEW x \in 0 .. Horizon, NEW d \in Nat,
         x # Horizon /\ x < Wrap => Elapsed(t, start) = x,
         Count(x, d) # Horizon, Count(x, d) < Wrap
  PROVE  Elapsed(Later(t, d), start) = Count(x, d)
<1>1. Count(x, d) = x + d /\ x # Horizon
  BY CountExact, HorizonAssumption, SMT
<1>2. x + d < Wrap /\ x < Wrap
  BY <1>1, WrapAssumption, HorizonAssumption, SMT
<1>3. Elapsed(t, start) + d < Wrap
  BY <1>1, <1>2
<1> QED BY <1>1, <1>2, <1>3, ElapsedExact

\* The observer's counts have their types for the port that is active now.
LEMMA NowType ==
  ASSUME TypeOK
  PROVE  /\ HeldNow \in 0 .. Horizon
         /\ StreakNow \in 0 .. Horizon \/ StreakNow = Never
BY HorizonAssumption, SMT DEF HeldNow, StreakNow, TypeOK, Never

\* An update that finds the rival better and does not switch has timed it.
LEMMA RivalIsTimed ==
  ASSUME TypeOK, Select(ports', now'), RivalBetter(ports', now'), active' = active
  PROVE  Evaluate(ports', now')
<1>1. active \in {0, 1} /\ active \in Alive(ports', now') /\ Alive(ports', now') = Ports
  BY DEF RivalBetter, TypeOK, Ports, NoPort
<1>2. Other(active) # active /\ Other(active) \in Alive(ports', now')
  BY <1>1, SMT DEF Other, Ports
<1>3. ~StayNoLink(ports', now') /\ ~LoseLink(ports', now')
  BY <1>1 DEF StayNoLink, LoseLink
<1>4. ~Lock(ports', now')
  BY DEF Lock, RivalBetter
<1>5. ~Failover(ports', now') /\ ~Hold(ports', now')
  BY <1>1 DEF Failover, Hold, RivalBetter
<1>6. ~Switch(ports', now')
  BY <1>2 DEF Switch
<1> QED BY <1>3, <1>4, <1>5, <1>6 DEF Select

\* A timed rival is judged by counts that show what the code computes.
LEMMA PromptUpdate ==
  ASSUME TypeOK, SelectionInv, PromptInv, NEW d \in Nat,
         now' = Later(now, d), now' \in Stamp, sel' = sel,
         Select(ports', now'), Observe(d), TypeOK'
  PROVE  PromptInv' /\ (Wrap <= Horizon => SwitchIsPrompt')
<1>0. /\ HeldNow \in 0 .. Horizon
      /\ StreakNow \in 0 .. Horizon \/ StreakNow = Never
      /\ Never = -1 /\ Horizon \in Nat /\ Wrap \in Nat
  BY NowType, HorizonAssumption, WrapAssumption DEF Never
<1>1. Outcome(ports', now')
  BY SelectOutcome DEF SelectionInv
<1>2. fresh' = (active' # active)
  BY DEF Observe
<1>3. CASE fresh'
  <2>1. HeldNow' = 0 /\ StreakNow' = Never
    BY <1>3 DEF HeldNow, StreakNow
  <2>2. active' # NoPort => Elapsed(now', activeSince') = 0
    BY <1>1, <1>2, <1>3, ElapsedSame DEF Outcome
  <2>3. SwitchIsPrompt'
    BY <1>3 DEF SwitchIsPrompt
  <2> QED BY <1>0, <2>1, <2>2, <2>3, SMT DEF PromptInv
<1>4. CASE ~fresh'
  <2>1. /\ active' = active /\ HeldNow' = held' /\ StreakNow' = streak'
        /\ active # NoPort => activeSince' = activeSince
    BY <1>1, <1>2, <1>4 DEF HeldNow, StreakNow, Outcome
  <2>2. held' = IF active = NoPort THEN 0 ELSE Count(HeldNow, d)
    BY DEF Observe
  <2>3. ASSUME active' # NoPort, held' # Horizon, held' < Wrap
        PROVE  Elapsed(now', activeSince') = held'
    <3>1. held' = Count(HeldNow, d) /\ activeSince' = activeSince
      BY <2>1, <2>2, <2>3
    <3>2. HeldNow # Horizon /\ HeldNow < Wrap => Elapsed(now, activeSince) = HeldNow
      BY <2>1, <2>3 DEF PromptInv
    <3>3. now \in Stamp /\ activeSince \in Stamp
      BY DEF TypeOK
    <3> QED BY <1>0, <2>3, <3>1, <3>2, <3>3, TimerExact
  <2>4. streak' \in -1 .. Horizon /\ held' \in 0 .. Horizon
    BY DEF TypeOK
  <2>5. ASSUME streak' # Never
        PROVE  /\ Evaluate(ports', now') /\ active # NoPort
               /\ streak' = IF StreakNow = Never THEN 0 ELSE Count(StreakNow, d)
    <3>1. RivalBetter(ports', now')
      BY <2>5 DEF Observe
    <3> QED BY <2>1, <3>1, RivalIsTimed DEF Observe, RivalBetter
  <2>6. streak' <= held'
    <3>1. CASE streak' = Never
      BY <3>1, <2>4, <1>0, SMT
    <3>2. CASE streak' # Never /\ StreakNow = Never
      BY <3>2, <2>4, <2>5, SMT
    <3>3. CASE streak' # Never /\ StreakNow # Never
      <4>1. streak' = Count(StreakNow, d) /\ held' = Count(HeldNow, d)
        BY <2>2, <2>5, <3>3
      <4>2. StreakNow <= HeldNow
        BY DEF PromptInv
      <4> QED BY <1>0, <3>3, <4>1, <4>2, CountExact
    <3> QED BY <3>1, <3>2, <3>3
  <2>7. ASSUME streak' # Never
        PROVE  /\ active' # NoPort /\ challenger' = Other(active')
               /\ challengerSince' = BetterSince(now')
               /\ (streak' # Horizon /\ streak' < Wrap)
                    => Elapsed(now', challengerSince') = streak'
    <3>1. /\ active' # NoPort /\ challenger' = Other(active')
          /\ challengerSince' = BetterSince(now')
      BY <2>1, <2>5, <2>7 DEF Evaluate
    <3>2. ASSUME streak' # Horizon, streak' < Wrap
          PROVE  Elapsed(now', challengerSince') = streak'
      <4>1. CASE challenger = Other(active)
        <5>1. challenger # NoPort
          BY <4>1, <2>5, <2>7, SMT DEF Other, NoPort, Ports, TypeOK
        <5>2. StreakNow = streak /\ streak # Never
          BY <5>1 DEF SelectionInv, TimersAreSound, StreakNow
        <5>3. streak' = Count(streak, d) /\ streak \in 0 .. Horizon
          BY <1>0, <2>5, <2>7, <5>2
        <5>4. (streak # Horizon /\ streak < Wrap) => Elapsed(now, challengerSince) = streak
          BY <5>2 DEF PromptInv
        <5>5. challengerSince' = challengerSince /\ now \in Stamp /\ challengerSince \in Stamp
          BY <3>1, <4>1 DEF BetterSince, TypeOK
        <5> QED BY <3>2, <5>3, <5>4, <5>5, TimerExact
      <4>2. CASE challenger # Other(active)
        <5>1. StreakNow = Never
          BY <4>2 DEF PromptInv
        <5>2. streak' = 0 /\ challengerSince' = now'
          BY <2>5, <2>7, <3>1, <4>2, <5>1 DEF BetterSince
        <5> QED BY <5>2, ElapsedSame
      <4> QED BY <4>1, <4>2
    <3> QED BY <3>1, <3>2
  <2>8. PromptInv'
    BY <2>1, <2>3, <2>6, <2>7 DEF PromptInv
  <2>9. ASSUME Wrap <= Horizon, streak' # Never, held' < Wrap
        PROVE  streak' < judge'.switchDelay \/ held' < judge'.minActive
    <3>1. held' # Horizon /\ streak' # Horizon /\ streak' < Wrap
      BY <1>0, <2>4, <2>6, <2>9, SMT
    <3>2. /\ Elapsed(now', activeSince) = held'
          /\ Elapsed(now', BetterSince(now')) = streak'
      BY <2>1, <2>3, <2>5, <2>7, <2>9, <3>1
    <3>3. \/ ~(Elapsed(now', BetterSince(now')) >= sel.switchDelay)
          \/ ~(Elapsed(now', activeSince) >= sel.minActive)
      BY <2>5, <2>9 DEF Evaluate, DelaysElapsed
    <3>4. judge' = sel /\ sel.switchDelay \in Int /\ sel.minActive \in Int
      <4>1. sel \in Selection
        BY ReceiverManagerAssumption DEF TypeOK
      <4> QED BY <4>1, SMT DEF Observe, Selection
    <3> QED BY <2>4, <3>2, <3>3, <3>4, SMT
  <2> QED BY <2>8, <2>9 DEF SwitchIsPrompt
<1> QED BY <1>3, <1>4

LEMMA PromptStep ==
  ASSUME TypeOK, SelectionInv, PromptInv, Wrap <= Horizon => SwitchIsPrompt, [HNext]_hvars
  PROVE  PromptInv' /\ (Wrap <= Horizon => SwitchIsPrompt')
<1>1. ASSUME NEW d \in 0 .. MaxStep, HUpdate(d)
      PROVE  PromptInv' /\ (Wrap <= Horizon => SwitchIsPrompt')
  <2>1. PICK b0 \in Batches(ports[0], FALSE), b1 \in Batches(ports[1], FALSE) :
          Update(d, b0, b1) /\ Observe(d)
    BY <1>1 DEF HUpdate
  <2>2. /\ d \in Nat /\ now' = Later(now, d) /\ now' \in Stamp
        /\ sel' = sel /\ Select(ports', now')
    BY <2>1, UpdateFacts
  <2> QED BY <2>1, <2>2, StepType, PromptUpdate
<1> USE DEF PromptInv, SwitchIsPrompt, HeldNow, StreakNow, fsm, history
<1>2. ASSUME NEW i \in Ports, NEW c \in PortConfigs[i], HConfigurePort(i, c)
      PROVE  PromptInv' /\ (Wrap <= Horizon => SwitchIsPrompt')
  BY <1>2 DEF HConfigurePort, ConfigurePort
<1>3. ASSUME NEW s \in Selections, HConfigureSelection(s)
      PROVE  PromptInv' /\ (Wrap <= Horizon => SwitchIsPrompt')
  BY <1>3 DEF HConfigureSelection, ConfigureSelection
<1>4. CASE UNCHANGED hvars
  BY <1>4 DEF hvars, vars
<1> QED BY <1>1, <1>2, <1>3, <1>4 DEF HNext

LEMMA PromptInit == HInit => PromptInv /\ SwitchIsPrompt
<1> SUFFICES ASSUME HInit PROVE PromptInv /\ SwitchIsPrompt
  OBVIOUS
<1>1. active = NoPort /\ HeldNow = 0 /\ StreakNow = Never /\ streak = Never
  BY DEF HInit, Init, HeldNow, StreakNow
<1> QED BY <1>1, SMT DEF PromptInv, SwitchIsPrompt, Never

\* For every clock and every pair of delays, changed at any moment: an update
\* that finds the rival better for switchDelay and the active port held for
\* minActive of real time switches.  The observer must count past the width of
\* the clock, or a port held for longer than that would not be told from one
\* held for Horizon.
THEOREM SwitchesArePrompt ==
  ASSUME Wrap <= Horizon
  PROVE  HSpec => []SwitchIsPrompt
<1>1. HInit => PromptInv /\ (Wrap <= Horizon => SwitchIsPrompt)
  BY PromptInit
<1>2. TypeOK /\ SelectionInv /\ PromptInv /\ (Wrap <= Horizon => SwitchIsPrompt)
        /\ [HNext]_hvars
        => (PromptInv /\ (Wrap <= Horizon => SwitchIsPrompt))'
  BY PromptStep
<1>3. Wrap <= Horizon
  OBVIOUS
<1> QED BY <1>1, <1>2, <1>3, TypeCorrect, SelectionInvariant, PTL DEF HSpec
=============================================================================
