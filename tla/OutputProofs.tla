----------------------------- MODULE OutputProofs -----------------------------
(***************************************************************************)
(* Proofs about the frames to the flight controller, for every frame       *)
(* interval, every configuration and every width of the clock; and that    *)
(* they survive the wire, for every number of channels the formats have    *)
(* room for.                                                               *)
(***************************************************************************)
EXTENDS OutputWire, WrapClockProofs

Wire == [frame : RcFrames, protocol : Protocols, flagged : BOOLEAN,
         mode : Modes, link : BOOLEAN, gap : 0 .. Horizon]

-----------------------------------------------------------------------------
(* Frames.                                                                 *)

\* A clamped pulse is a pulse.
LEMMA ClampType ==
  ASSUME NEW us \in Int
  PROVE  ClampPulse(us) \in Pulses
BY SMT DEF ClampPulse, Pulses, PulseMin, PulseMax

\* The channel map permutes, repeats or drops channels, and nothing else.
LEMMA MappedType ==
  ASSUME NEW map, NEW f \in RcFrames
  PROVE  Mapped(map, f) \in RcFrames
BY DEF Mapped, RcFrames

LEMMA CentredType == Centred \in RcFrames
<1>1. PulseMid \in Pulses
  BY SMT DEF PulseMid, Pulses, PulseMin, PulseMax
<1> QED BY <1>1 DEF Centred, RcFrames

LEMMA ValuesType ==
  ASSUME NEW v \in FailsafeSets
  PROVE  [c \in Channels |-> ClampPulse(v[c])] \in RcFrames
<1>1. v \in [Channels -> Nat]
  BY OutputAssumption, Zenon
<1>2. \A c \in Channels : v[c] \in Int
  BY <1>1, SMT
<1> QED BY <1>2, ClampType DEF RcFrames

\* A bounded count stays a count.
LEMMA CountType ==
  ASSUME NEW x \in 0 .. Horizon, NEW d \in Nat
  PROVE  /\ Count(x, d) \in 0 .. Horizon
         /\ Count(x, d) = x + d \/ Count(x, d) = Horizon
         /\ Count(x, d) <= x + d
BY OutputClockAssumption, SMT DEF Count

\* The interval of the protocol in use.
LEMMA IntervalFacts ==
  ASSUME NEW p \in Protocols
  PROVE  /\ Interval[p] \in Nat
         /\ Interval[p] = 0 <=> p = "NONE"
         /\ Interval[p] + MaxStep < Horizon
         /\ Interval[p] + MaxStep <= Wrap
BY OutputClockAssumption, SMT

-----------------------------------------------------------------------------
(* Type correctness.                                                       *)

LEMMA InitType == Init => TypeOK
<1> SUFFICES ASSUME Init PROVE TypeOK
  OBVIOUS
<1>1. 0 \in Stamp /\ Horizon \in 0 .. Horizon /\ 0 \in 0 .. Horizon /\ 0 \in Nat
  BY WrapAssumption, OutputClockAssumption, SMT DEF Stamp
<1>2. NothingWritten \in Wire
  BY <1>1, CentredType, ZenonT(30) DEF NothingWritten, Wire, Protocols, Modes
<1> QED BY <1>1, <1>2, CentredType DEF Init, TypeOK, Wire

\* What is written is well typed, whatever frame it carries.
LEMMA WriteType ==
  ASSUME TypeOK, NEW t \in Stamp, NEW d \in Nat, NEW f \in RcFrames,
         NEW l \in BOOLEAN, NEW flag \in BOOLEAN, Write(t, d, f, l, flag)
  PROVE  lastSend' \in Stamp /\ hasSent' \in BOOLEAN /\ wire' \in Wire /\ since' \in 0 .. Horizon
<1>1. Count(since, d) \in 0 .. Horizon /\ 0 \in 0 .. Horizon
  <2>1. since \in 0 .. Horizon
    BY DEF TypeOK
  <2>2. 0 \in 0 .. Horizon
    BY OutputClockAssumption, SMT
  <2> QED BY <2>1, <2>2, CountType
<1>2. (Sbus /\ flag) \in BOOLEAN /\ cfg.protocol \in Protocols
  <2>1. cfg \in OutputConfig
    BY OutputAssumption, Zenon DEF TypeOK
  <2> QED BY <2>1 DEF OutputConfig
<1>3. wire' \in Wire
  BY <1>1, <1>2, ZenonT(30) DEF TypeOK, Write, Wire
<1> QED BY <1>1, <1>3 DEF Write

\* The frame and the sending state after each case of update().
LEMMA CaseType ==
  ASSUME TypeOK, NEW t \in Stamp, NEW d \in Nat, NEW l \in BOOLEAN, NEW f \in RcFrames,
         \/ Wait(t, d)
         \/ l /\ SendLive(t, d, f)
         \/ ~l /\ (\/ SendHold(t, d)
                   \/ SendValues(t, d)
                   \/ SendFinal(t, d, f)
                   \/ StaySilent(t, d))
  PROVE  /\ lastSend' \in Stamp /\ hasSent' \in BOOLEAN /\ wire' \in Wire
         /\ since' \in 0 .. Horizon
         /\ lastGood' \in RcFrames /\ liveFrame' \in RcFrames
         /\ hasGood' \in BOOLEAN /\ stopSent' \in BOOLEAN /\ sbusFlag' \in BOOLEAN
         /\ finals' \in Nat
<1>0. /\ lastSend \in Stamp /\ hasSent \in BOOLEAN /\ wire \in Wire /\ since \in 0 .. Horizon
      /\ lastGood \in RcFrames /\ liveFrame \in RcFrames /\ hasGood \in BOOLEAN
      /\ stopSent \in BOOLEAN /\ sbusFlag \in BOOLEAN /\ finals \in Nat
  BY DEF TypeOK, Wire
<1>1. CASE Wait(t, d)
  BY <1>0, <1>1, CountType DEF Wait, NoWrite
<1>2. CASE SendLive(t, d, f)
  <2>1. lastGood' \in RcFrames /\ Write(t, d, lastGood', TRUE, sbusFlag)
    BY <1>2, MappedType DEF SendLive
  <2>2. lastSend' \in Stamp /\ hasSent' \in BOOLEAN /\ wire' \in Wire /\ since' \in 0 .. Horizon
    BY <1>0, <2>1, WriteType
  <2> QED BY <1>0, <1>2, <2>1, <2>2 DEF SendLive
<1>3. CASE SendHold(t, d)
  <2> DEFINE g == IF hasGood THEN lastGood ELSE Centred
  <2>1. g \in RcFrames
    BY <1>0, CentredType
  <2>2. Write(t, d, g, FALSE, sbusFlag)
    BY <1>3 DEF SendHold
  <2> HIDE DEF g
  <2>3. lastSend' \in Stamp /\ hasSent' \in BOOLEAN /\ wire' \in Wire /\ since' \in 0 .. Horizon
    BY <1>0, <2>1, <2>2, WriteType
  <2> QED BY <1>0, <1>3, <2>3 DEF SendHold
<1>4. CASE SendValues(t, d)
  <2> DEFINE g == [c \in Channels |-> ClampPulse(values[c])]
  <2>1. g \in RcFrames
    BY ValuesType DEF TypeOK
  <2>2. Write(t, d, g, FALSE, sbusFlag)
    BY <1>4 DEF SendValues
  <2> HIDE DEF g
  <2>3. lastSend' \in Stamp /\ hasSent' \in BOOLEAN /\ wire' \in Wire /\ since' \in 0 .. Horizon
    BY <1>0, <2>1, <2>2, WriteType
  <2> QED BY <1>0, <1>4, <2>3 DEF SendValues
<1>5. CASE SendFinal(t, d, f)
  <2> DEFINE g == IF hasGood THEN lastGood ELSE f
  <2>1. g \in RcFrames /\ sbusFlag' \in BOOLEAN
    BY <1>0, <1>5 DEF SendFinal
  <2>2. Write(t, d, g, FALSE, sbusFlag')
    BY <1>5 DEF SendFinal
  <2> HIDE DEF g
  <2>3. lastSend' \in Stamp /\ hasSent' \in BOOLEAN /\ wire' \in Wire /\ since' \in 0 .. Horizon
    BY <1>0, <2>1, <2>2, WriteType
  <2>4. finals' \in Nat
    BY <1>0, <1>5, SMT DEF SendFinal
  <2> QED BY <1>0, <1>5, <2>1, <2>3, <2>4 DEF SendFinal
<1>6. CASE StaySilent(t, d)
  BY <1>0, <1>6, CountType DEF StaySilent, NoWrite
<1> QED BY <1>1, <1>2, <1>3, <1>4, <1>5, <1>6

\* An update, with any frame.
LEMMA UpdateType ==
  ASSUME TypeOK, NEW d \in 0 .. MaxStep, NEW l \in BOOLEAN, NEW f \in RcFrames,
         Update(d, l, f)
  PROVE  TypeOK'
<1>1. d \in Nat
  BY OutputClockAssumption, SMT
<1>2. now' \in Stamp
  BY <1>1, LaterType DEF Update, TypeOK
<1>3. 0 \in 0 .. Horizon /\ Count(calm, d) \in 0 .. Horizon
  <2>1. calm \in 0 .. Horizon
    BY DEF TypeOK
  <2>2. 0 \in 0 .. Horizon
    BY OutputClockAssumption, SMT
  <2> QED BY <1>1, <2>1, <2>2, CountType
<1>4. calm' \in 0 .. Horizon /\ link' \in BOOLEAN
  BY <1>3 DEF Update
<1>5. cfg' \in OutputConfigs /\ mode' \in Modes /\ values' \in FailsafeSets
  BY DEF Update, settings, TypeOK
<1>6. /\ lastSend' \in Stamp /\ hasSent' \in BOOLEAN /\ wire' \in Wire
      /\ since' \in 0 .. Horizon
      /\ lastGood' \in RcFrames /\ liveFrame' \in RcFrames
      /\ hasGood' \in BOOLEAN /\ stopSent' \in BOOLEAN /\ sbusFlag' \in BOOLEAN
      /\ finals' \in Nat
  <2>1. \/ Wait(now', d)
        \/ l /\ SendLive(now', d, f)
        \/ ~l /\ (\/ SendHold(now', d) \/ SendValues(now', d)
                  \/ SendFinal(now', d, f) \/ StaySilent(now', d))
    BY DEF Update
  <2> QED BY <1>1, <1>2, <2>1, CaseType
<1> QED BY <1>2, <1>4, <1>5, <1>6 DEF TypeOK, Wire

LEMMA StepType == TypeOK /\ [Next]_vars => TypeOK'
<1> SUFFICES ASSUME TypeOK, [Next]_vars PROVE TypeOK'
  OBVIOUS
<1>1. ASSUME NEW d \in 0 .. MaxStep, NEW l \in BOOLEAN, NEW f \in Received, Update(d, l, f)
      PROVE  TypeOK'
  <2>1. f \in RcFrames
    BY OutputAssumption, Zenon
  <2> QED BY <1>1, <2>1, UpdateType
<1>2. ASSUME NEW c \in OutputConfigs, SetConfig(c) PROVE TypeOK'
  <2>1. stopSent' \in BOOLEAN /\ finals' \in Nat
    <3>1. stopSent \in BOOLEAN /\ finals \in Nat /\ FALSE \in BOOLEAN /\ 0 \in Nat
      BY DEF TypeOK
    <3> QED BY <1>2, <3>1 DEF SetConfig, Rebegin
  <2>2. calm' \in 0 .. Horizon
    BY <1>2, OutputClockAssumption, SMT DEF SetConfig
  <2> QED BY <1>2, <2>1, <2>2 DEF SetConfig, TypeOK
<1>3. ASSUME NEW m \in Modes, NEW v \in FailsafeSets, SetFailsafe(m, v) PROVE TypeOK'
  <2>1. calm' \in 0 .. Horizon
    BY <1>3, OutputClockAssumption, SMT DEF SetFailsafe
  <2> QED BY <1>3, <2>1 DEF SetFailsafe, sending, TypeOK
<1>4. CASE UNCHANGED vars
  BY <1>4 DEF vars, settings, sending, stopwatch, TypeOK
<1> QED BY <1>1, <1>2, <1>3, <1>4 DEF Next

\* Every variable of the output keeps its range, whatever is received and
\* configured.
THEOREM TypeCorrect == Spec => []TypeOK
<1> QED BY InitType, StepType, PTL DEF Spec

-----------------------------------------------------------------------------
(* The inductive invariant.                                                *)

LEMMA OutputInvInit == Init => OutputInv
<1> SUFFICES ASSUME Init PROVE OutputInv
  OBVIOUS
<1>1. RateKept /\ SendTimed /\ OneFinalFrame
  BY DEF Init, RateKept, SendTimed, OneFinalFrame
<1> QED BY <1>1 DEF Init, OutputInv

\* The arithmetic facts of the stopwatch and of the rate limit.
LEMMA ClockFacts ==
  ASSUME TypeOK
  PROVE  /\ now \in Stamp /\ lastSend \in Stamp
         /\ since \in 0 .. Horizon /\ calm \in 0 .. Horizon
         /\ cfg.protocol \in Protocols
         /\ Interval[cfg.protocol] \in Nat /\ Horizon \in Nat /\ MaxStep \in Nat
         /\ Interval[cfg.protocol] = 0 <=> cfg.protocol = "NONE"
         /\ Interval[cfg.protocol] + MaxStep < Horizon
         /\ Interval[cfg.protocol] + MaxStep <= Wrap
<1>1. cfg \in OutputConfig
  BY OutputAssumption, Zenon DEF TypeOK
<1>2. cfg.protocol \in Protocols
  BY <1>1 DEF OutputConfig
<1>3. Horizon \in Nat /\ MaxStep \in Nat
  BY OutputClockAssumption
<1> QED BY <1>2, <1>3, IntervalFacts DEF TypeOK

\* A frame that is due is due in real time.
LEMMA WrittenInTime ==
  ASSUME TypeOK, SendTimed, NEW d \in Nat, ~Throttled(Later(now, d))
  PROVE  Count(since, d) >= Interval[cfg.protocol]
<1> DEFINE I == Interval[cfg.protocol]
           e == Elapsed(Later(now, d), lastSend)
<1>1. /\ Count(since, d) \in 0 .. Horizon
      /\ Count(since, d) = since + d \/ Count(since, d) = Horizon
  BY ClockFacts, CountType
<1>2. I \in Nat /\ I < Horizon /\ Horizon \in Nat /\ since \in 0 .. Horizon
  BY ClockFacts, SMT
<1>3. CASE hasSent
  <2>1. e \in Int /\ e <= Elapsed(now, lastSend) + d /\ Elapsed(now, lastSend) \in Int
    BY ClockFacts, ElapsedGrows
  <2>2. since = Horizon \/ Elapsed(now, lastSend) <= since
    BY <1>3 DEF SendTimed
  <2>3. ~(e < I)
    BY <1>3 DEF Throttled
  <2>4. Count(since, d) >= I
    <3> HIDE DEF I, e
    <3> QED BY <1>1, <1>2, <2>1, <2>2, <2>3, SMT
  <2> QED BY <2>4
<1>4. CASE ~hasSent
  <2>1. since = Horizon
    BY <1>4 DEF SendTimed
  <2>2. Count(since, d) >= I
    <3> HIDE DEF I
    <3> QED BY <1>1, <1>2, <2>1, SMT
  <2> QED BY <2>2
<1> QED BY <1>3, <1>4

\* The rate limit and its clock, after a frame was written.
LEMMA WriteTimed ==
  ASSUME TypeOK, SendTimed, NEW d \in Nat, NEW f, NEW l, NEW flag,
         now' = Later(now, d), ~Throttled(now'), Write(now', d, f, l, flag)
  PROVE  RateKept' /\ SendTimed'
<1>1. wire'.gap = Count(since, d) /\ wire'.protocol = cfg.protocol
  BY DEF Write
<1>2. Count(since, d) >= Interval[cfg.protocol]
  BY WrittenInTime
<1>3. hasSent' /\ since' = 0 /\ Elapsed(now', lastSend') = 0
  BY ClockFacts, LaterType, ElapsedSame DEF Write
<1> QED BY <1>1, <1>2, <1>3, SMT DEF RateKept, SendTimed

\* The same when none was.
LEMMA NoWriteTimed ==
  ASSUME TypeOK, RateKept, SendTimed, NEW d \in Nat, now' = Later(now, d), NoWrite(d)
  PROVE  RateKept' /\ SendTimed'
<1>1. RateKept'
  BY DEF NoWrite, RateKept
<1>2. /\ since' \in 0 .. Horizon
      /\ since' = since + d \/ since' = Horizon
      /\ since \in 0 .. Horizon /\ Horizon \in Nat
  BY ClockFacts, CountType DEF NoWrite
<1>3. /\ Elapsed(now', lastSend) \in Int /\ Elapsed(now, lastSend) \in Int
      /\ Elapsed(now', lastSend) <= Elapsed(now, lastSend) + d
  BY ClockFacts, ElapsedGrows
<1>4. since = Horizon => since' = Horizon
  BY <1>2, SMT DEF NoWrite, Count
<1>5. SendTimed'
  <2>1. hasSent' = hasSent /\ lastSend' = lastSend
    BY DEF NoWrite
  <2>2. CASE hasSent
    <3>1. since = Horizon \/ Elapsed(now, lastSend) <= since
      BY <2>2 DEF SendTimed
    <3>2. since' = Horizon \/ Elapsed(now', lastSend) <= since'
      BY <1>2, <1>3, <1>4, <3>1, SMT
    <3> QED BY <2>1, <2>2, <3>2 DEF SendTimed
  <2>3. CASE ~hasSent
    BY <1>4, <2>1, <2>3 DEF SendTimed
  <2> QED BY <2>2, <2>3
<1> QED BY <1>1, <1>5

\* While the frame that was written holds back the next one, its age is exact.
LEMMA WaitedExactly ==
  ASSUME TypeOK, NEW d \in 0 .. MaxStep, now' = Later(now, d),
         Elapsed(now, lastSend) < Interval[cfg.protocol]
  PROVE  Elapsed(now', lastSend) = Elapsed(now, lastSend) + d
<1> DEFINE I == Interval[cfg.protocol]
           e == Elapsed(now, lastSend)
<1>1. I + MaxStep <= Wrap /\ I \in Nat /\ MaxStep \in Nat /\ Wrap \in Nat /\ d \in Nat
  BY ClockFacts, WrapAssumption, SMT
<1>2. e \in Nat
  BY ClockFacts, WrapAssumption, SMT DEF Elapsed, Stamp
<1>3. e + d < Wrap
  <2>1. e < I
    OBVIOUS
  <2> HIDE DEF I, e
  <2> QED BY <1>1, <1>2, <2>1, SMT
<1> QED BY <1>1, <1>3, ClockFacts, ElapsedExact

\* Waiting under the same link keeps what is settled settled.
LEMMA WaitKeeps ==
  ASSUME TypeOK, Settled, NEW d \in 0 .. MaxStep, now' = Later(now, d),
         Wait(now', d), link' = link, UNCHANGED settings, cfg.protocol # "NONE"
  PROVE  Settled'
<1> DEFINE I == Interval[cfg.protocol]
           e == Elapsed(now, lastSend)
           e1 == Elapsed(now', lastSend)
<1>1. /\ I \in Nat /\ I > 0 /\ I < Horizon
      /\ Horizon \in Nat /\ Wrap \in Nat /\ d \in Nat
      /\ since \in 0 .. Horizon
  BY ClockFacts, WrapAssumption, SMT
<1>2. hasSent /\ e1 < I
  BY <1>1 DEF Wait, Throttled
<1>3. e1 \in Nat
  <2>1. now' \in Stamp
    BY <1>1, ClockFacts, LaterType
  <2> QED BY <2>1, ClockFacts, WrapAssumption, SMT DEF Elapsed, Stamp
<1>4. e < I => e1 = e + d
  BY WaitedExactly
<1>5. /\ hasSent' = hasSent /\ lastSend' = lastSend /\ wire' = wire
      /\ since' = Count(since, d) /\ stopSent' = stopSent /\ liveFrame' = liveFrame
      /\ cfg' = cfg /\ mode' = mode /\ values' = values
  BY DEF Wait, NoWrite, settings
<1>6. (link \/ mode # "STOP_PWM") => since' = e1 /\ since' < I
  <2>1. (link \/ mode # "STOP_PWM") => since = e /\ since < I
    BY DEF Settled, Flowing
  <2> HIDE DEF I, e, e1
  <2> QED BY <1>1, <1>2, <1>3, <1>4, <1>5, <2>1, SMT DEF Count
<1>7. ~link => FailsafeReached'
  BY <1>5, <1>6 DEF Settled, FailsafeReached, Flowing, Modes
<1> QED BY <1>2, <1>5, <1>6, <1>7 DEF Settled, Flowing

\* Waiting keeps what is settled settled, and a frame that is due gets nearer.
LEMMA WaitSettles ==
  ASSUME TypeOK, OutputInv, NEW d \in 0 .. MaxStep, NEW l \in BOOLEAN,
         now' = Later(now, d), Wait(now', d), link' = l, UNCHANGED settings,
         calm' = IF l = link THEN Count(calm, d) ELSE 0,
         cfg.protocol # "NONE"
  PROVE  Settled' \/ HeldBack' \/ calm' = 0
<1> DEFINE I == Interval[cfg.protocol]
           e == Elapsed(now, lastSend)
           e1 == Elapsed(now', lastSend)
<1>1. /\ I \in Nat /\ I > 0 /\ I + MaxStep < Horizon /\ I + MaxStep <= Wrap
      /\ Horizon \in Nat /\ MaxStep \in Nat /\ Wrap \in Nat /\ d \in Nat /\ d <= MaxStep
      /\ since \in 0 .. Horizon /\ calm \in 0 .. Horizon
  BY ClockFacts, WrapAssumption, SMT
<1>2. hasSent /\ e1 < I
  BY <1>1 DEF Wait, Throttled
<1>3. /\ e \in Nat /\ e1 \in Nat
  <2>1. now' \in Stamp
    BY <1>1, ClockFacts, LaterType
  <2> QED BY <2>1, ClockFacts, WrapAssumption, SMT DEF Elapsed, Stamp
<1>4. e < I => e1 = e + d
  BY WaitedExactly
<1>5. /\ hasSent' = hasSent /\ lastSend' = lastSend /\ wire' = wire
      /\ since' = Count(since, d) /\ stopSent' = stopSent /\ liveFrame' = liveFrame
      /\ cfg' = cfg /\ mode' = mode /\ values' = values
  BY DEF Wait, NoWrite, settings
<1>6. CASE l # link
  BY <1>6
<1>7. CASE l = link /\ Settled
  BY <1>7, WaitKeeps
<1>8. CASE l = link /\ HeldBack
  <2>1. calm' <= calm + d
    BY <1>1, <1>8, CountType
  <2>2. e < I /\ calm <= MaxStep + e
    BY <1>8 DEF HeldBack
  <2>3. calm' <= MaxStep + e1
    <3>1. calm' \in Int
      BY <1>1, <1>8, CountType, SMT
    <3> HIDE DEF I, e, e1
    <3> QED BY <1>1, <1>3, <1>4, <2>1, <2>2, <3>1, SMT
  <2> QED BY <1>2, <1>5, <2>3 DEF HeldBack
<1>9. CASE l = link /\ calm = 0
  <2>1. calm' <= calm + d /\ calm' \in Int
    BY <1>1, <1>9, CountType, SMT
  <2>2. calm' <= MaxStep + e1
    <3> HIDE DEF e1
    <3> QED BY <1>1, <1>3, <1>9, <2>1, SMT
  <2> QED BY <1>2, <1>5, <2>2 DEF HeldBack
<1> QED BY <1>6, <1>7, <1>8, <1>9 DEF OutputInv

\* A frame written under a valid link, or as the failsafe mode asks, settles.
LEMMA WriteSettles ==
  ASSUME TypeOK, NEW d \in Nat, NEW f, NEW l \in BOOLEAN, NEW flag,
         now' = Later(now, d), Write(now', d, f, l, flag),
         link' = l, UNCHANGED settings, cfg.protocol # "NONE",
         ~l => /\ mode = "HOLD_LAST" => f = liveFrame'
               /\ mode = "FAILSAFE_VALUES" => f = [c \in Channels |-> ClampPulse(values[c])]
               /\ mode = "STOP_PWM" => stopSent'
  PROVE  Settled'
<1>1. /\ hasSent' /\ since' = 0 /\ Elapsed(now', lastSend') = 0
      /\ wire'.link = l /\ wire'.frame = f
  BY ClockFacts, LaterType, ElapsedSame DEF Write
<1>2. cfg' = cfg /\ mode' = mode /\ values' = values
  BY DEF settings
<1>3. Interval[cfg.protocol] > 0
  BY ClockFacts, SMT
<1>4. Flowing'
  BY <1>1, <1>2, <1>3 DEF Flowing
<1>5. ~link' => FailsafeReached'
  BY <1>1, <1>2, <1>4 DEF FailsafeReached
<1> QED BY <1>1, <1>4, <1>5 DEF Settled

\* An update that finds a frame due settles what there is to settle.
LEMMA DueSettles ==
  ASSUME TypeOK, OutputInv, NEW d \in Nat, NEW l \in BOOLEAN, NEW f,
         Update(d, l, f), ~Throttled(now'), cfg.protocol # "NONE"
  PROVE  Settled'
<1>0. now' = Later(now, d) /\ link' = l /\ UNCHANGED settings
      /\ cfg' = cfg /\ mode' = mode /\ values' = values
  BY DEF Update, settings
<1>i. /\ lastGood = liveFrame
      /\ hasGood \/ lastGood = Centred
  BY DEF OutputInv
<1>1. CASE l /\ SendLive(now', d, f)
  <2>1. Write(now', d, lastGood', TRUE, sbusFlag)
    BY <1>1 DEF SendLive
  <2> QED BY <1>0, <1>1, <2>1, WriteSettles
<1>2. CASE ~l /\ SendHold(now', d)
  <2> DEFINE g == IF hasGood THEN lastGood ELSE Centred
  <2>1. Write(now', d, g, FALSE, sbusFlag) /\ mode = "HOLD_LAST" /\ liveFrame' = liveFrame
    BY <1>2 DEF SendHold
  <2>2. g = liveFrame'
    BY <1>i, <2>1
  <2> HIDE DEF g
  <2> QED BY <1>0, <1>2, <2>1, <2>2, WriteSettles
<1>3. CASE ~l /\ SendValues(now', d)
  <2> DEFINE g == [c \in Channels |-> ClampPulse(values[c])]
  <2>1. Write(now', d, g, FALSE, sbusFlag) /\ mode = "FAILSAFE_VALUES"
    BY <1>3 DEF SendValues
  <2>2. g = [c \in Channels |-> ClampPulse(values[c])]
    OBVIOUS
  <2> HIDE DEF g
  <2> QED BY <1>0, <1>3, <2>1, <2>2, WriteSettles
<1>4. CASE ~l /\ SendFinal(now', d, f)
  <2> DEFINE g == IF hasGood THEN lastGood ELSE f
  <2>1. Write(now', d, g, FALSE, sbusFlag') /\ mode = "STOP_PWM" /\ stopSent'
    BY <1>4 DEF SendFinal
  <2> HIDE DEF g
  <2> QED BY <1>0, <1>4, <2>1, WriteSettles
<1>5. CASE ~l /\ StaySilent(now', d)
  <2>1. stopSent' /\ mode' = "STOP_PWM"
    BY <1>0, <1>5 DEF StaySilent
  <2> QED BY <1>0, <1>5, <2>1 DEF Settled, FailsafeReached
<1>6. ~Wait(now', d)
  BY DEF Wait
<1> QED BY <1>1, <1>2, <1>3, <1>4, <1>5, <1>6 DEF Update

\* An update, with any frame, keeps the invariant.
LEMMA UpdateInv ==
  ASSUME TypeOK, OutputInv, NEW d \in 0 .. MaxStep, NEW l \in BOOLEAN,
         NEW f \in RcFrames, Update(d, l, f)
  PROVE  OutputInv'
<1>0. /\ d \in Nat /\ now' = Later(now, d) /\ link' = l /\ UNCHANGED settings
      /\ calm' = IF l = link THEN Count(calm, d) ELSE 0
      /\ l \/ f = Centred
      /\ cfg' = cfg /\ mode' = mode /\ values' = values
  <2>1. d \in Nat
    BY OutputClockAssumption, SMT
  <2> QED BY <2>1 DEF Update, settings
<1>i. /\ RateKept /\ SendTimed /\ OneFinalFrame
      /\ lastGood = liveFrame
      /\ hasGood \/ lastGood = Centred
      /\ finals \in Nat /\ stopSent \in BOOLEAN
  BY DEF OutputInv, TypeOK
<1>d. (~Throttled(now') /\ cfg.protocol # "NONE") => Settled'
  BY <1>0, DueSettles
<1>1. CASE Wait(now', d)
  <2>1. RateKept' /\ SendTimed'
    BY <1>0, <1>i, <1>1, NoWriteTimed DEF Wait
  <2>2. OneFinalFrame'
    BY <1>i, <1>1 DEF Wait, OneFinalFrame
  <2>3. cfg'.protocol # "NONE" => Settled' \/ HeldBack' \/ calm' = 0
    BY <1>0, <1>1, WaitSettles
  <2> QED BY <1>i, <1>1, <2>1, <2>2, <2>3 DEF Wait, OutputInv
<1>2. CASE l /\ SendLive(now', d, f)
  <2>1. Write(now', d, lastGood', TRUE, sbusFlag) /\ ~Throttled(now')
    BY <1>2 DEF SendLive
  <2>2. RateKept' /\ SendTimed'
    BY <1>0, <1>i, <2>1, WriteTimed
  <2>4. OneFinalFrame' /\ lastGood' = liveFrame' /\ hasGood'
    BY <1>2 DEF SendLive, OneFinalFrame
  <2> QED BY <1>0, <1>d, <2>1, <2>2, <2>4 DEF OutputInv
<1>3. CASE ~l /\ SendHold(now', d)
  <2> DEFINE g == IF hasGood THEN lastGood ELSE Centred
  <2>1. Write(now', d, g, FALSE, sbusFlag) /\ ~Throttled(now') /\ mode = "HOLD_LAST"
    BY <1>3 DEF SendHold
  <2>2. /\ lastGood' = lastGood /\ liveFrame' = liveFrame /\ hasGood' = hasGood
        /\ stopSent' = stopSent /\ finals' = finals
    BY <1>3 DEF SendHold
  <2> HIDE DEF g
  <2>4. RateKept' /\ SendTimed'
    BY <1>0, <1>i, <2>1, WriteTimed
  <2> QED BY <1>0, <1>d, <1>i, <2>1, <2>2, <2>4 DEF OutputInv, OneFinalFrame
<1>4. CASE ~l /\ SendValues(now', d)
  <2> DEFINE g == [c \in Channels |-> ClampPulse(values[c])]
  <2>1. Write(now', d, g, FALSE, sbusFlag) /\ ~Throttled(now') /\ mode = "FAILSAFE_VALUES"
    BY <1>4 DEF SendValues
  <2>2. /\ lastGood' = lastGood /\ liveFrame' = liveFrame /\ hasGood' = hasGood
        /\ stopSent' = stopSent /\ finals' = finals
    BY <1>4 DEF SendValues
  <2> HIDE DEF g
  <2>4. RateKept' /\ SendTimed'
    BY <1>0, <1>i, <2>1, WriteTimed
  <2> QED BY <1>0, <1>d, <1>i, <2>1, <2>2, <2>4 DEF OutputInv, OneFinalFrame
<1>5. CASE ~l /\ SendFinal(now', d, f)
  <2> DEFINE g == IF hasGood THEN lastGood ELSE f
  <2>1. Write(now', d, g, FALSE, sbusFlag') /\ ~Throttled(now') /\ mode = "STOP_PWM"
    BY <1>5 DEF SendFinal
  <2>2. /\ lastGood' = lastGood /\ liveFrame' = liveFrame /\ hasGood' = hasGood
        /\ stopSent' = TRUE /\ finals' = finals + 1 /\ stopSent = FALSE
    BY <1>i, <1>5 DEF SendFinal
  <2> HIDE DEF g
  <2>3. RateKept' /\ SendTimed'
    BY <1>0, <1>i, <2>1, WriteTimed
  <2>5. OneFinalFrame'
    BY <1>i, <2>2, SMT DEF OneFinalFrame
  <2> QED BY <1>0, <1>d, <1>i, <2>1, <2>2, <2>3, <2>5 DEF OutputInv
<1>6. CASE ~l /\ StaySilent(now', d)
  <2>1. RateKept' /\ SendTimed'
    BY <1>0, <1>i, <1>6, NoWriteTimed DEF StaySilent
  <2>2. /\ lastGood' = lastGood /\ liveFrame' = liveFrame /\ hasGood' = hasGood
        /\ stopSent' /\ stopSent' = stopSent /\ finals' = finals /\ mode' = "STOP_PWM"
    BY <1>0, <1>6 DEF StaySilent
  <2>3. cfg.protocol # "NONE" => Settled'
    BY <1>d, <1>6 DEF StaySilent
  <2> QED BY <1>0, <1>i, <2>1, <2>2, <2>3 DEF OutputInv, OneFinalFrame
<1> QED BY <1>1, <1>2, <1>3, <1>4, <1>5, <1>6 DEF Update

LEMMA OutputInvStep == TypeOK /\ OutputInv /\ [Next]_vars => OutputInv'
<1> SUFFICES ASSUME TypeOK, OutputInv, [Next]_vars PROVE OutputInv'
  OBVIOUS
<1>1. ASSUME NEW d \in 0 .. MaxStep, NEW l \in BOOLEAN, NEW f \in Received, Update(d, l, f)
      PROVE  OutputInv'
  <2>1. f \in RcFrames
    BY OutputAssumption, Zenon
  <2> QED BY <1>1, <2>1, UpdateInv
<1>2. ASSUME NEW c \in OutputConfigs, SetConfig(c) PROVE OutputInv'
  BY <1>2 DEF SetConfig, Rebegin, OutputInv, RateKept, SendTimed, OneFinalFrame
<1>3. ASSUME NEW m \in Modes, NEW v \in FailsafeSets, SetFailsafe(m, v) PROVE OutputInv'
  BY <1>3 DEF SetFailsafe, sending, OutputInv, RateKept, SendTimed, OneFinalFrame
<1>4. CASE UNCHANGED vars
  BY <1>4 DEF vars, settings, sending, stopwatch, OutputInv, RateKept, SendTimed,
              OneFinalFrame, Settled, HeldBack, Flowing, FailsafeReached
<1> QED BY <1>1, <1>2, <1>3, <1>4 DEF Next

\* The inductive invariant of the output.
THEOREM OutputInvariant == Spec => []OutputInv
<1>1. Init => TypeOK /\ OutputInv
  BY InitType, OutputInvInit
<1>2. TypeOK /\ OutputInv /\ [Next]_vars => (TypeOK /\ OutputInv)'
  BY StepType, OutputInvStep
<1> QED BY <1>1, <1>2, PTL DEF Spec

\* Frames are never closer than the frame interval of their protocol.
THEOREM FramesKeepRate == Spec => []RateKept
<1>1. OutputInv => RateKept
  BY DEF OutputInv
<1> QED BY <1>1, OutputInvariant, PTL

\* The final frame of STOP_PWM is neither repeated nor skipped in an outage.
THEOREM FinalFrameIsOne == Spec => []OneFinalFrame
<1>1. OutputInv => OneFinalFrame
  BY DEF OutputInv
<1> QED BY <1>1, OutputInvariant, PTL

\* One update and one frame interval after the last change, the flight
\* controller gets live frames or what the failsafe mode asks for.
THEOREM FailsafeConverges == Spec => []OutputConverges
<1>1. TypeOK /\ OutputInv => OutputConverges
  <2> SUFFICES ASSUME TypeOK, OutputInv, cfg.protocol # "NONE",
                      calm >= Interval[cfg.protocol] + MaxStep
               PROVE  IF link THEN Flowing /\ wire.link ELSE FailsafeReached
    BY DEF OutputConverges
  <2> DEFINE I == Interval[cfg.protocol]
             e == Elapsed(now, lastSend)
  <2>1. I \in Nat /\ I > 0 /\ MaxStep \in Nat /\ calm \in Int
    BY ClockFacts, SMT
  <2>2. calm # 0
    <3> HIDE DEF I
    <3>1. calm >= I + MaxStep
      BY DEF I
    <3> QED BY <2>1, <3>1, SMT
  <2>3. ~HeldBack
    <3>1. e \in Int
      BY ClockFacts, WrapAssumption, SMT DEF Elapsed, Stamp
    <3>2. calm >= I + MaxStep
      OBVIOUS
    <3>3. HeldBack => e < I /\ calm <= MaxStep + e
      BY DEF HeldBack
    <3> HIDE DEF I, e
    <3> QED BY <2>1, <3>1, <3>2, <3>3, SMT
  <2>4. Settled
    BY <2>2, <2>3 DEF OutputInv
  <2> QED BY <2>4 DEF Settled
<1> QED BY <1>1, TypeCorrect, OutputInvariant, PTL
-----------------------------------------------------------------------------
(* The SBUS failsafe bit.                                                  *)

\* Why the bit outlives an outage by one frame only: it is never set while the
\* last frame was one of SBUS under a valid link.
FlagInv == sbusFlag => ~(wire.link /\ wire.protocol = "SBUS")

\* What each case of update() does with the bit, and what it writes.
LEMMA FlagUpdate ==
  ASSUME FlagInv, NEW d, NEW l \in BOOLEAN, NEW f, Update(d, l, f)
  PROVE  /\ FlagInv'
         /\ (<<lastSend, hasSent>>' # <<lastSend, hasSent>> /\ wire'.link /\ wire'.flagged)
              => sbusFlag
<1>1. CASE Wait(now', d)
  BY <1>1 DEF Wait, NoWrite, FlagInv
<1>2. CASE l /\ SendLive(now', d, f)
  <2>1. /\ wire'.protocol = cfg.protocol
        /\ wire'.flagged => sbusFlag
        /\ sbusFlag' => cfg.protocol # "SBUS"
    BY <1>2 DEF SendLive, Write, Sbus
  <2> QED BY <2>1 DEF FlagInv
<1>3. CASE SendHold(now', d) \/ SendValues(now', d) \/ SendFinal(now', d, f)
  <2>1. ~wire'.link
    BY <1>3 DEF SendHold, SendValues, SendFinal, Write
  <2> QED BY <2>1 DEF FlagInv
<1>4. CASE StaySilent(now', d)
  BY <1>4 DEF StaySilent, NoWrite, FlagInv
<1> QED BY <1>1, <1>2, <1>3, <1>4 DEF Update

LEMMA FlagStep ==
  ASSUME FlagInv, [Next]_vars
  PROVE  /\ FlagInv'
         /\ (<<lastSend, hasSent>>' # <<lastSend, hasSent>> /\ wire'.link /\ wire'.flagged)
              => sbusFlag
<1>1. ASSUME NEW d \in 0 .. MaxStep, NEW l \in BOOLEAN, NEW f \in Received, Update(d, l, f)
      PROVE  /\ FlagInv'
             /\ (<<lastSend, hasSent>>' # <<lastSend, hasSent>> /\ wire'.link /\ wire'.flagged)
                  => sbusFlag
  BY <1>1, FlagUpdate
<1>2. (\E c \in OutputConfigs : SetConfig(c)) => UNCHANGED <<lastSend, hasSent, sbusFlag, wire>>
  BY DEF SetConfig
<1>3. (\E m \in Modes, v \in FailsafeSets : SetFailsafe(m, v))
        => UNCHANGED <<lastSend, hasSent, sbusFlag, wire>>
  BY DEF SetFailsafe, sending
<1>4. UNCHANGED vars => UNCHANGED <<lastSend, hasSent, sbusFlag, wire>>
  BY DEF vars, sending, stopwatch
<1>5. UNCHANGED <<lastSend, hasSent, sbusFlag, wire>>
        => FlagInv' /\ <<lastSend, hasSent>>' = <<lastSend, hasSent>>
  BY DEF FlagInv
<1> QED BY <1>1, <1>2, <1>3, <1>4, <1>5 DEF Next

\* However often the link comes and goes and the output is moved to another
\* protocol and back: a frame of a valid link says failsafe only if the frame
\* before it was not an SBUS frame of a valid link.
THEOREM FlagsAreCleared == Spec => FlagIsCleared
<1>1. Init => FlagInv
  BY DEF Init, FlagInv
<1>2. FlagInv /\ [Next]_vars => FlagInv'
  BY FlagStep
<1>3. FlagInv /\ [Next]_vars
        => [ (/\ <<lastSend, hasSent>>' # <<lastSend, hasSent>>
              /\ wire'.link /\ wire'.flagged)
             => ~(wire.link /\ wire.protocol = "SBUS") ]_vars
  BY FlagStep DEF FlagInv
<1> QED BY <1>1, <1>2, <1>3, PTL DEF Spec, FlagIsCleared

-----------------------------------------------------------------------------
(* CRSF and SBUS.                                                          *)

LEMMA RawFits ==
  ASSUME NEW us \in Pulses
  PROVE  UsToRaw(us) \in Nat /\ UsToRaw(us) >= 172 /\ UsToRaw(us) <= 1811
BY SMT DEF UsToRaw, ClampPulse, Pulses, PulseMin, PulseMax, RawMin

\* Rounding to 11 bits and back is exact: a raw value is less than a microsecond
\* wide.
LEMMA RoundedTwice ==
  ASSUME NEW us \in Pulses
  PROVE  RawToUs(UsToRaw(us)) = us
<1> DEFINE x == us - 988
           r == (x * 1639 + 512) \div 1024
           y == (r * 1024 + 819) \div 1639
<1>1. x \in 0 .. 1024 /\ us = x + 988
  BY SMT DEF Pulses, PulseMin, PulseMax
<1>2. UsToRaw(us) = r + 172
  BY SMT DEF UsToRaw, ClampPulse, Pulses, PulseMin, PulseMax, RawMin
<1>3. r \in Int /\ 1024 * r <= x * 1639 + 512 /\ x * 1639 + 512 < 1024 * r + 1024
  BY <1>1, SMT
<1>4. r + 172 \in 172 .. 1811
  BY <1>2, RawFits, SMT
<1> HIDE DEF r
<1>5. y \in Int /\ 1639 * y <= r * 1024 + 819 /\ r * 1024 + 819 < 1639 * y + 1639
  BY <1>3, SMT
<1>6. RawToUs(r + 172) = ClampPulse(y + 988)
  BY <1>3, <1>4, SMT DEF RawToUs, RawMin, RawMax, PulseMin
<1> HIDE DEF y, x
<1>7. y = x
  BY <1>1, <1>3, <1>5, SMT
<1> QED BY <1>1, <1>2, <1>6, <1>7, SMT DEF ClampPulse, PulseMin, PulseMax

\* Halving a number again and again gives its bits.
LEMMA SumOfBits ==
  ASSUME NEW v \in Nat, v < 2048
  PROVE  v = (v % 2) + 2 * ((v \div 2) % 2) + 4 * ((v \div 4) % 2)
             + 8 * ((v \div 8) % 2) + 16 * ((v \div 16) % 2)
             + 32 * ((v \div 32) % 2) + 64 * ((v \div 64) % 2)
             + 128 * ((v \div 128) % 2) + 256 * ((v \div 256) % 2)
             + 512 * ((v \div 512) % 2) + 1024 * ((v \div 1024) % 2)
<1>1. v = 2 * (v \div 2) + (v % 2)
  BY SMT
<1>2. (v \div 2) = 2 * (v \div 4) + ((v \div 2) % 2)
  BY SMT
<1>3. (v \div 4) = 2 * (v \div 8) + ((v \div 4) % 2)
  BY SMT
<1>4. (v \div 8) = 2 * (v \div 16) + ((v \div 8) % 2)
  BY SMT
<1>5. (v \div 16) = 2 * (v \div 32) + ((v \div 16) % 2)
  BY SMT
<1>6. (v \div 32) = 2 * (v \div 64) + ((v \div 32) % 2)
  BY SMT
<1>7. (v \div 64) = 2 * (v \div 128) + ((v \div 64) % 2)
  BY SMT
<1>8. (v \div 128) = 2 * (v \div 256) + ((v \div 128) % 2)
  BY SMT
<1>9. (v \div 256) = 2 * (v \div 512) + ((v \div 256) % 2)
  BY SMT
<1>10. (v \div 512) = 2 * (v \div 1024) + ((v \div 512) % 2)
  BY SMT
<1>11. (v \div 1024) = ((v \div 1024) % 2)
  BY SMT
<1> QED BY <1>1, <1>2, <1>3, <1>4, <1>5, <1>6, <1>7, <1>8, <1>9, <1>10, <1>11, SMT

\* A number of 11 bits is the sum of its bits.
LEMMA NumberOfBits ==
  ASSUME NEW v \in Nat, v < 2048
  PROVE  Number({b \in Bits : Bit(v, b)}) = v
<1> DEFINE S == {b \in Bits : Bit(v, b)}
           w(b) == IF b \in S THEN Weight[b + 1] ELSE 0
<1>0. w(0) = (v % 2)
  <2>1. 0 \in S <=> (v % 2) = 1
    BY SMT DEF Bits, Bit, Weight
  <2>2. Weight[0 + 1] = 1
    BY SMT DEF Weight
  <2>3. (v % 2) \in {0, 1}
    BY SMT
  <2> HIDE DEF S
  <2> QED BY <2>1, <2>2, <2>3
<1>1. w(1) = 2 * ((v \div 2) % 2)
  <2>1. 1 \in S <=> ((v \div 2) % 2) = 1
    BY SMT DEF Bits, Bit, Weight
  <2>2. Weight[1 + 1] = 2
    BY SMT DEF Weight
  <2>3. ((v \div 2) % 2) \in {0, 1}
    BY SMT
  <2> HIDE DEF S
  <2> QED BY <2>1, <2>2, <2>3
<1>2. w(2) = 4 * ((v \div 4) % 2)
  <2>1. 2 \in S <=> ((v \div 4) % 2) = 1
    BY SMT DEF Bits, Bit, Weight
  <2>2. Weight[2 + 1] = 4
    BY SMT DEF Weight
  <2>3. ((v \div 4) % 2) \in {0, 1}
    BY SMT
  <2> HIDE DEF S
  <2> QED BY <2>1, <2>2, <2>3
<1>3. w(3) = 8 * ((v \div 8) % 2)
  <2>1. 3 \in S <=> ((v \div 8) % 2) = 1
    BY SMT DEF Bits, Bit, Weight
  <2>2. Weight[3 + 1] = 8
    BY SMT DEF Weight
  <2>3. ((v \div 8) % 2) \in {0, 1}
    BY SMT
  <2> HIDE DEF S
  <2> QED BY <2>1, <2>2, <2>3
<1>4. w(4) = 16 * ((v \div 16) % 2)
  <2>1. 4 \in S <=> ((v \div 16) % 2) = 1
    BY SMT DEF Bits, Bit, Weight
  <2>2. Weight[4 + 1] = 16
    BY SMT DEF Weight
  <2>3. ((v \div 16) % 2) \in {0, 1}
    BY SMT
  <2> HIDE DEF S
  <2> QED BY <2>1, <2>2, <2>3
<1>5. w(5) = 32 * ((v \div 32) % 2)
  <2>1. 5 \in S <=> ((v \div 32) % 2) = 1
    BY SMT DEF Bits, Bit, Weight
  <2>2. Weight[5 + 1] = 32
    BY SMT DEF Weight
  <2>3. ((v \div 32) % 2) \in {0, 1}
    BY SMT
  <2> HIDE DEF S
  <2> QED BY <2>1, <2>2, <2>3
<1>6. w(6) = 64 * ((v \div 64) % 2)
  <2>1. 6 \in S <=> ((v \div 64) % 2) = 1
    BY SMT DEF Bits, Bit, Weight
  <2>2. Weight[6 + 1] = 64
    BY SMT DEF Weight
  <2>3. ((v \div 64) % 2) \in {0, 1}
    BY SMT
  <2> HIDE DEF S
  <2> QED BY <2>1, <2>2, <2>3
<1>7. w(7) = 128 * ((v \div 128) % 2)
  <2>1. 7 \in S <=> ((v \div 128) % 2) = 1
    BY SMT DEF Bits, Bit, Weight
  <2>2. Weight[7 + 1] = 128
    BY SMT DEF Weight
  <2>3. ((v \div 128) % 2) \in {0, 1}
    BY SMT
  <2> HIDE DEF S
  <2> QED BY <2>1, <2>2, <2>3
<1>8. w(8) = 256 * ((v \div 256) % 2)
  <2>1. 8 \in S <=> ((v \div 256) % 2) = 1
    BY SMT DEF Bits, Bit, Weight
  <2>2. Weight[8 + 1] = 256
    BY SMT DEF Weight
  <2>3. ((v \div 256) % 2) \in {0, 1}
    BY SMT
  <2> HIDE DEF S
  <2> QED BY <2>1, <2>2, <2>3
<1>9. w(9) = 512 * ((v \div 512) % 2)
  <2>1. 9 \in S <=> ((v \div 512) % 2) = 1
    BY SMT DEF Bits, Bit, Weight
  <2>2. Weight[9 + 1] = 512
    BY SMT DEF Weight
  <2>3. ((v \div 512) % 2) \in {0, 1}
    BY SMT
  <2> HIDE DEF S
  <2> QED BY <2>1, <2>2, <2>3
<1>10. w(10) = 1024 * ((v \div 1024) % 2)
  <2>1. 10 \in S <=> ((v \div 1024) % 2) = 1
    BY SMT DEF Bits, Bit, Weight
  <2>2. Weight[10 + 1] = 1024
    BY SMT DEF Weight
  <2>3. ((v \div 1024) % 2) \in {0, 1}
    BY SMT
  <2> HIDE DEF S
  <2> QED BY <2>1, <2>2, <2>3
<1>11. Number(S) = w(0) + w(1) + w(2) + w(3) + w(4) + w(5) + w(6) + w(7)
                      + w(8) + w(9) + w(10)
  BY DEF Number
<1> HIDE DEF w
<1>12. Number(S) = (v % 2) + 2 * ((v \div 2) % 2) + 4 * ((v \div 4) % 2)
                      + 8 * ((v \div 8) % 2) + 16 * ((v \div 16) % 2)
                      + 32 * ((v \div 32) % 2) + 64 * ((v \div 64) % 2)
                      + 128 * ((v \div 128) % 2) + 256 * ((v \div 256) % 2)
                      + 512 * ((v \div 512) % 2) + 1024 * ((v \div 1024) % 2)
  BY <1>0, <1>1, <1>2, <1>3, <1>4, <1>5, <1>6, <1>7, <1>8, <1>9, <1>10, <1>11
<1>13. v = (v % 2) + 2 * ((v \div 2) % 2) + 4 * ((v \div 4) % 2)
                      + 8 * ((v \div 8) % 2) + 16 * ((v \div 16) % 2)
                      + 32 * ((v \div 32) % 2) + 64 * ((v \div 64) % 2)
                      + 128 * ((v \div 128) % 2) + 256 * ((v \div 256) % 2)
                      + 512 * ((v \div 512) % 2) + 1024 * ((v \div 1024) % 2)
  BY SumOfBits
<1>14. Number(S) = v
  BY <1>12, <1>13
<1> QED BY <1>14 DEF S

\* No two bits of a frame are in the same place.
LEMMA PlacesDiffer ==
  ASSUME NEW c \in Channels, NEW d \in Channels, NEW b \in Bits, NEW e \in Bits,
         Place(c, b) = Place(d, e)
  PROVE  c = d /\ b = e
<1> DEFINE m == 11 * c + b
           n == 11 * d + e
<1>1. /\ c \in Nat /\ d \in Nat /\ b \in 0 .. 10 /\ e \in 0 .. 10
  BY ChannelCountAssumption, SMT DEF Channels, Bits
<1>2. m \div 8 = n \div 8 /\ m % 8 = n % 8
  BY DEF Place
<1>3. m \in Nat /\ n \in Nat
  BY <1>1, SMT
<1>4. m = 11 * c + b /\ n = 11 * d + e
  OBVIOUS
<1> HIDE DEF m, n
<1>5. m = n
  BY <1>2, <1>3, SMT
<1> QED BY <1>1, <1>4, <1>5, SMT

\* What CRSF and SBUS carry of a frame is the frame.
LEMMA PackedReads ==
  ASSUME NEW f \in RcFrames
  PROVE  Unpacked(Packed(f)) = f
<1>1. ASSUME NEW c \in Channels
      PROVE  RawToUs(Number({b \in Bits : Place(c, b) \in Packed(f)})) = f[c]
  <2> DEFINE v == UsToRaw(f[c])
  <2>1. f[c] \in Pulses
    BY DEF RcFrames
  <2>2. v \in Nat /\ v < 2048
    BY <2>1, RawFits, SMT
  <2>3. ASSUME NEW b \in Bits PROVE Place(c, b) \in Packed(f) <=> Bit(v, b)
    <3>1. ASSUME Bit(v, b) PROVE Place(c, b) \in Packed(f)
      <4>1. <<c, b>> \in {y \in Channels \X Bits : Bit(UsToRaw(f[y[1]]), y[2])}
        BY <3>1
      <4> QED BY <4>1 DEF Packed
    <3>2. ASSUME Place(c, b) \in Packed(f) PROVE Bit(v, b)
      <4>1. PICK y \in Channels \X Bits :
              Bit(UsToRaw(f[y[1]]), y[2]) /\ Place(c, b) = Place(y[1], y[2])
        BY <3>2 DEF Packed
      <4>2. y[1] = c /\ y[2] = b
        BY <4>1, PlacesDiffer
      <4> QED BY <4>1, <4>2
    <3> QED BY <3>1, <3>2
  <2>4. {b \in Bits : Place(c, b) \in Packed(f)} = {b \in Bits : Bit(v, b)}
    BY <2>3
  <2> HIDE DEF v
  <2>5. Number({b \in Bits : Bit(v, b)}) = v
    BY <2>2, NumberOfBits
  <2>6. Number({b \in Bits : Place(c, b) \in Packed(f)}) = v
    BY <2>4, <2>5
  <2> QED BY <2>1, <2>6, RoundedTwice DEF v
<1>2. Unpacked(Packed(f)) = [c \in Channels |-> f[c]]
  BY <1>1 DEF Unpacked
<1> QED BY <1>2 DEF RcFrames
-----------------------------------------------------------------------------
(* MAVLink.                                                                *)

\* A channel is two bytes, of which the second is not 0.
LEMMA TwoBytes ==
  ASSUME NEW us \in Pulses
  PROVE  /\ (us % 256) + 256 * (us \div 256) = us
         /\ us \div 256 # 0 /\ us \notin {0, 65535} /\ ClampPulse(us) = us
<1>1. us \in Nat /\ us >= 988 /\ us <= 2012
  BY SMT DEF Pulses, PulseMin, PulseMax
<1> QED BY <1>1, SMT DEF ClampPulse, PulseMin, PulseMax

LEMMA OverrideBytes ==
  ASSUME NEW f \in RcFrames
  PROVE  /\ DOMAIN Override(f) = 0 .. 37
         /\ \A c \in Channels : /\ Override(f)[2 + 2 * c] = f[c] % 256
                               /\ Override(f)[3 + 2 * c] = f[c] \div 256
         /\ \A i \in 0 .. 37 : i >= 2 + 2 * ChannelCount => Override(f)[i] = 0
<1>0. ChannelCount \in Nat /\ ChannelCount >= 1 /\ ChannelCount <= 18
  BY ChannelCountAssumption, SlotsAssumption, SMT DEF Slots
<1>1. Override(f) = [i \in 0 .. 37 |->
         IF i < 2 THEN 1
         ELSE IF i % 2 = 0 THEN Value(f, (i - 2) \div 2) % 256
                           ELSE Value(f, (i - 2) \div 2) \div 256]
  BY SMT DEF Override, OverrideSize, Slots
<1>2. ASSUME NEW c \in Channels
      PROVE  /\ Override(f)[2 + 2 * c] = f[c] % 256
             /\ Override(f)[3 + 2 * c] = f[c] \div 256
  <2>1. c \in Nat /\ c <= 17
    BY <1>0, SMT DEF Channels
  <2>2. /\ 2 + 2 * c \in 0 .. 37 /\ 3 + 2 * c \in 0 .. 37
        /\ ~(2 + 2 * c < 2) /\ ~(3 + 2 * c < 2)
        /\ (2 + 2 * c) % 2 = 0 /\ (3 + 2 * c) % 2 # 0
        /\ ((2 + 2 * c) - 2) \div 2 = c /\ ((3 + 2 * c) - 2) \div 2 = c
    BY <2>1, SMT
  <2>3. Value(f, c) = f[c]
    BY DEF Value
  <2>6. /\ Value(f, ((2 + 2 * c) - 2) \div 2) = f[c]
        /\ Value(f, ((3 + 2 * c) - 2) \div 2) = f[c]
    <3>1. /\ ((2 + 2 * c) - 2) \div 2 = c
          /\ ((3 + 2 * c) - 2) \div 2 = c
      BY <2>2
    <3>2. ASSUME NEW j, j = c PROVE Value(f, j) = f[c]
      BY <2>3, <3>2, Zenon
    <3> QED BY <3>1, <3>2, Zenon
  <2>4. Override(f)[2 + 2 * c] = Value(f, ((2 + 2 * c) - 2) \div 2) % 256
    BY <1>1, <2>2, Zenon
  <2>5. Override(f)[3 + 2 * c] = Value(f, ((3 + 2 * c) - 2) \div 2) \div 256
    BY <1>1, <2>2, Zenon
  <2>7. Override(f)[2 + 2 * c] = f[c] % 256
    BY <2>4, <2>6, Zenon
  <2>8. Override(f)[3 + 2 * c] = f[c] \div 256
    BY <2>5, <2>6, Zenon
  <2> QED BY <2>7, <2>8
<1>3. ASSUME NEW i \in 0 .. 37, i >= 2 + 2 * ChannelCount PROVE Override(f)[i] = 0
  <2>1. ~(i < 2) /\ (i - 2) \div 2 \notin Channels
    BY <1>0, <1>3, SMT DEF Channels
  <2>2. Value(f, (i - 2) \div 2) = 0
    BY <2>1 DEF Value
  <2>3. 0 % 256 = 0 /\ 0 \div 256 = 0
    BY SMT
  <2> QED BY <1>1, <2>1, <2>2, <2>3, Zenon
<1> QED BY <1>1, <1>2, <1>3

\* What is trimmed is exactly what is not a channel.
LEMMA TrimmedToChannels ==
  ASSUME NEW f \in RcFrames
  PROVE  TrimmedLength(Override(f)) = 2 + 2 * ChannelCount
<1> DEFINE P == Override(f)
           len == 2 + 2 * ChannelCount
           Fits(n) == /\ \A i \in DOMAIN P : i >= n => P[i] = 0
                      /\ n = 0 \/ P[n - 1] # 0
<1>0. ChannelCount \in Nat /\ ChannelCount >= 1 /\ ChannelCount <= 18
  BY ChannelCountAssumption, SlotsAssumption, SMT DEF Slots
<1>1. DOMAIN P = 0 .. 37 /\ \A i \in 0 .. 37 : i >= len => P[i] = 0
  BY OverrideBytes
<1>2. P[len - 1] # 0
  <2>1. ChannelCount - 1 \in Channels /\ 3 + 2 * (ChannelCount - 1) = len - 1
    BY <1>0, SMT DEF Channels
  <2>2. P[3 + 2 * (ChannelCount - 1)] = f[ChannelCount - 1] \div 256
    BY <2>1, OverrideBytes
  <2>3. f[ChannelCount - 1] \in Pulses
    BY <2>1 DEF RcFrames
  <2> HIDE DEF len, P
  <2> QED BY <2>1, <2>2, <2>3, TwoBytes
<1>3. len \in 0 .. 38 /\ Fits(len)
  BY <1>0, <1>1, <1>2, SMT
<1>4. ASSUME NEW n \in 0 .. 38, Fits(n) PROVE n = len
  <2> HIDE DEF P
  <2>1. len - 1 \in 0 .. 37
    BY <1>0, SMT
  <2>2. ~(len - 1 >= n)
    BY <1>1, <1>2, <1>4, <2>1
  <2>3. n # 0
    BY <1>0, <2>2, SMT
  <2>4. P[n - 1] # 0 /\ n - 1 \in 0 .. 37
    BY <1>4, <2>3, SMT
  <2>5. ~(n - 1 >= len)
    BY <1>1, <2>4
  <2> QED BY <1>0, <2>2, <2>5, SMT
<1>5. TrimmedLength(P) = CHOOSE n \in 0 .. 38 : Fits(n)
  BY SMT DEF TrimmedLength, OverrideSize, Slots
<1> HIDE DEF Fits, len
<1>6. (CHOOSE n \in 0 .. 38 : Fits(n)) = len
  BY <1>3, <1>4, Zenon
<1> QED BY <1>5, <1>6 DEF len

\* What MAVLink carries of a frame is the frame, whatever was there before.
LEMMA OverrideReads ==
  ASSUME NEW f \in RcFrames, NEW old
  PROVE  Overridden(old, Trimmed(Override(f)), TrimmedLength(Override(f))) = f
<1> DEFINE P == Override(f)
           T == Trimmed(P)
           len == 2 + 2 * ChannelCount
<1>0. ChannelCount \in Nat /\ ChannelCount >= 1
  BY ChannelCountAssumption, SMT
<1>1. TrimmedLength(P) = len
  BY TrimmedToChannels
<1>2. T = [i \in 0 .. len - 1 |-> P[i]]
  BY <1>1 DEF Trimmed
<1>3. ~(len < 2) /\ (len - 2) \div 2 = ChannelCount
  BY <1>0, SMT
<1>4. ASSUME NEW c \in Channels
      PROVE  /\ ~(len < 2 \/ c >= (len - 2) \div 2)
             /\ T[2 + 2 * c] + 256 * T[3 + 2 * c] = f[c]
             /\ f[c] \notin {0, 65535} /\ ClampPulse(f[c]) = f[c]
  <2>1. c \in Nat /\ c < ChannelCount
    BY <1>0, SMT DEF Channels
  <2>2. 2 + 2 * c \in 0 .. len - 1 /\ 3 + 2 * c \in 0 .. len - 1
    BY <1>0, <2>1, SMT
  <2>3. P[2 + 2 * c] = f[c] % 256 /\ P[3 + 2 * c] = f[c] \div 256
    BY OverrideBytes
  <2>4. T[2 + 2 * c] = f[c] % 256 /\ T[3 + 2 * c] = f[c] \div 256
    BY <1>2, <2>2, <2>3, Zenon
  <2>5. f[c] \in Pulses
    BY DEF RcFrames
  <2>6. ~(c >= ChannelCount)
    BY <1>0, <2>1, SMT
  <2> HIDE DEF len, T, P
  <2>7. ~(len < 2 \/ c >= (len - 2) \div 2)
    BY <1>3, <2>6
  <2> QED BY <2>4, <2>5, <2>7, TwoBytes
<1> HIDE DEF T, P, len
<1>5. Overridden(old, T, len) = [c \in Channels |-> f[c]]
  BY <1>4 DEF Overridden
<1>6. Overridden(old, T, TrimmedLength(P)) = f
  BY <1>1, <1>5 DEF RcFrames
<1> QED BY <1>6 DEF T, P

\* Every frame reads as itself, with 16 channels or any other number MAVLink
\* has room for: a router that feeds a router changes no channel.
THEOREM FramesReadAsThemselves ==
  ASSUME NEW f \in RcFrames
  PROVE  ReadsAsItself(f)
BY PackedReads, OverrideReads DEF ReadsAsItself
-----------------------------------------------------------------------------
(* What goes out.                                                          *)

\* What is held to be sent again was meant too.
WireInv == wire.frame \in Meant /\ lastGood \in Meant

LEMMA MeantType == Meant \subseteq RcFrames
BY CentredType, MappedType, ValuesType, OutputAssumption DEF Meant, OutputConfig

LEMMA WireInit == Init => WireInv
BY DEF Init, WireInv, Meant, NothingWritten

LEMMA WireStep == TypeOK /\ WireInv /\ [Next]_vars => WireInv'
<1> SUFFICES ASSUME TypeOK, WireInv, [Next]_vars PROVE WireInv'
  OBVIOUS
<1> USE DEF WireInv
<1>1. ASSUME NEW t, NEW d, NEW g, NEW l, NEW flag, g \in Meant, Write(t, d, g, l, flag)
      PROVE  wire'.frame \in Meant
  BY <1>1 DEF Write
<1>2. ASSUME NEW d \in 0 .. MaxStep, NEW l \in BOOLEAN, NEW f \in Received, Update(d, l, f)
      PROVE  WireInv'
  <2>1. Centred \in Meant /\ Mapped(cfg.map, f) \in Meant
        /\ [c \in Channels |-> ClampPulse(values[c])] \in Meant
    BY DEF Meant, TypeOK
  <2>2. CASE Wait(now', d)
    BY <2>2 DEF Wait, NoWrite
  <2>3. CASE SendLive(now', d, f)
    BY <1>1, <2>1, <2>3 DEF SendLive
  <2>4. CASE SendHold(now', d)
    BY <1>1, <2>1, <2>4 DEF SendHold
  <2>5. CASE SendValues(now', d)
    BY <1>1, <2>1, <2>5 DEF SendValues
  <2>6. CASE ~l /\ SendFinal(now', d, f)
    <3>1. f \in Meant
      BY <1>2, <2>1, <2>6 DEF Update
    <3> QED BY <1>1, <2>6, <3>1 DEF SendFinal
  <2>7. CASE StaySilent(now', d)
    BY <2>7 DEF StaySilent, NoWrite
  <2> QED BY <1>2, <2>2, <2>3, <2>4, <2>5, <2>6, <2>7 DEF Update
<1>3. ASSUME NEW c \in OutputConfigs, SetConfig(c) PROVE WireInv'
  BY <1>3 DEF SetConfig
<1>4. ASSUME NEW m \in Modes, NEW v \in FailsafeSets, SetFailsafe(m, v) PROVE WireInv'
  BY <1>4 DEF SetFailsafe, sending
<1>5. CASE UNCHANGED vars
  BY <1>5 DEF vars, sending, stopwatch
<1> QED BY <1>2, <1>3, <1>4, <1>5 DEF Next

\* Whatever the configuration, the failsafe and the link do, every frame that
\* goes out is one that was meant, and reads so at the other end.
THEOREM FramesSurvive == Spec => []FrameSurvives
<1>1. WireInv => FrameSurvives
  BY MeantType, FramesReadAsThemselves DEF WireInv, FrameSurvives, Readable
<1> QED BY <1>1, TypeCorrect, InitType, StepType, WireInit, WireStep, PTL DEF Spec
=============================================================================
