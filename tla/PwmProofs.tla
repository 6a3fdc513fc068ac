------------------------------ MODULE PwmProofs ------------------------------
(***************************************************************************)
(* Proofs about the direct outputs, for any number of outputs and pins,    *)
(* every set of saved sections, every interval and width of the clock.     *)
(***************************************************************************)
EXTENDS PwmManager, WrapClockProofs

-----------------------------------------------------------------------------
(* The invariants.                                                         *)

\* A servo's channel remembers the pin of its output.
Remembers(i) == cfg[i].mode = "SERVO" => hw.pin[i] = cfg[i].pin

IsPulsing(i) == on[i] /\ cfg[i].mode = "SERVO"

\* Output i has the pin it should have, and no pin between release and reuse.
HasPin(i) ==
  \A p \in Pins :
    hw.bus[p] = i <=> (svc # <<"reuse", i>> /\ IsPulsing(i) /\ cfg[i].pin = p)

\* The pin of output i is that of no other, and no other channel drives it.
Alone(i) ==
  cfg[i].mode # "DISABLED"
    => \A j \in Outputs \ {i} : ~Uses(cfg, j, cfg[i].pin) /\ hw.bus[cfg[i].pin] # j

PinInv ==
  \A i \in Outputs : Remembers(i) /\ (i \notin crossed => HasPin(i) /\ Alone(i))

\* The time since the last change that may have gone by without a turn of
\* output i.
Passed(i) == turn = Done \/ i < turn
Room(i) == IF Passed(i) THEN 0 ELSE MaxStep

Age(i) == Elapsed(now, last[i])
Gap(i) == Interval[cfg[i].rate]

\* Output i is written in its interval, with what it should carry.
InRhythm(i) ==
  /\ written[i] /\ since[i] = Age(i)
  /\ Age(i) < Gap(i) + Room(i)
  /\ ~link => AtFailsafe(i)

\* The change came within an interval of a write and waits for its end.
HeldBack(i) == Age(i) < Gap(i) + Room(i) /\ calm <= MaxStep + Age(i)

OnTheWay(i) ==
  cfg[i].mode # "DISABLED"
    => /\ calm > Room(i) => (on[i] <=> ~Stopped)
       /\ (link \/ mode = "FAILSAFE_VALUES")
            => (InRhythm(i) \/ HeldBack(i) \/ calm <= Room(i))

WayInv == \A i \in Outputs : OnTheWay(i)

-----------------------------------------------------------------------------
(* Numbers and sections.                                                   *)

\* A clamped pulse is a pulse.
LEMMA ClampIsPulse ==
  ASSUME NEW us \in Int
  PROVE  ClampPulse(us) \in Pulses
BY SMT DEF ClampPulse, Pulses, PulseMin, PulseMax

\* A servo that is not inverted gets the very pulse it is given.
LEMMA WidthKept ==
  ASSUME NEW c, ~c.invert, NEW us \in Pulses
  PROVE  Width(c, us) = us
BY SMT DEF Width, ClampPulse, Pulses, PulseMin, PulseMax

\* A bounded count stays a count.
LEMMA CountFacts ==
  ASSUME NEW x \in 0 .. Horizon, NEW d \in Nat
  PROVE  /\ Count(x, d) \in 0 .. Horizon
         /\ Count(x, d) = x + d \/ Count(x, d) = Horizon
         /\ Count(x, d) <= x + d
         /\ x + d < Horizon => Count(x, d) = x + d
BY PwmClockAssumption, SMT DEF Count

\* What a section says of an output.
LEMMA SectionFacts ==
  ASSUME NEW c \in PwmOutput
  PROVE  /\ c.mode \in {"DISABLED", "SERVO", "SWITCH"}
         /\ c.pin \in Pins /\ c.source \in Channels /\ c.failsafe \in Pulses
         /\ c.threshold \in Nat /\ c.invert \in BOOLEAN /\ c.activeHigh \in BOOLEAN
         /\ Interval[c.rate] \in Nat \ {0}
         /\ Interval[c.rate] + MaxStep < Horizon
         /\ Interval[c.rate] + MaxStep <= Wrap
BY PwmClockAssumption DEF PwmOutput

\* The outputs are taken in order, from the first to the last.
LEMMA TurnFacts ==
  ASSUME NEW i \in Outputs
  PROVE  /\ i \in Nat /\ 0 \in Outputs /\ Done \notin Outputs
         /\ Free \notin Outputs /\ Gpio \notin Outputs
         /\ \A j \in Outputs : j \in Nat /\ (i + 1 \notin Outputs => j <= i)
<1>1. /\ Outputs \subseteq Nat
      /\ \E n \in Outputs : Outputs = 0 .. n
  BY PwmAssumption
<1>2. PICK n \in Outputs : Outputs = 0 .. n
  BY <1>1
<1>3. n \in Nat /\ i \in Nat
  BY <1>1, <1>2
<1> QED BY <1>1, <1>2, <1>3, SMT DEF Done, Free, Gpio

\* The value an output is written from.
LEMMA SourceType ==
  ASSUME TypeOK, NEW i \in Outputs
  PROVE  (IF link THEN frame[cfg[i].source] ELSE cfg[i].failsafe) \in Pulses
<1>1. cfg[i] \in PwmOutput /\ frame \in [Channels -> Pulses]
  BY DEF TypeOK, RcFrames
<1> QED BY <1>1, SectionFacts

-----------------------------------------------------------------------------
(* The hardware.                                                           *)

\* What an attached output leaves of the pins and channels; on a pin that no
\* other output drives nothing is left to chance.
LEMMA AttachFacts ==
  ASSUME NEW h \in Hardware, NEW i \in Outputs, NEW c \in PwmOutput,
         c.mode # "DISABLED", NEW g \in Attach(h, i, c)
  PROVE  /\ g \in Hardware
         /\ g.width = h.width /\ g.level = h.level
         /\ \A j \in Outputs :
              g.pin[j] = IF j = i /\ c.mode = "SERVO" THEN c.pin ELSE h.pin[j]
         /\ \A p \in Pins :
              \/ g.bus[p] = h.bus[p]
              \/ p = c.pin /\ g.bus[p] = IF c.mode = "SERVO" THEN i ELSE Gpio
         /\ h.bus[c.pin] \in {i, Free, Gpio}
              => g.bus[c.pin] = IF c.mode = "SERVO" THEN i ELSE Gpio
<1>1. /\ c.pin \in Pins /\ c.mode \in {"DISABLED", "SERVO", "SWITCH"}
      /\ Free \notin Outputs /\ Gpio \notin Outputs
  BY SectionFacts, TurnFacts
<1>2. CASE c.mode = "SERVO"
  <2> DEFINE noted == [h EXCEPT !.pin[i] = c.pin]
             taken == [noted EXCEPT !.bus[c.pin] = i]
  <2>1. g = taken \/ (h.bus[c.pin] \in Outputs /\ g = noted)
    BY <1>2 DEF Attach, AttachPwm
  <2>2. /\ noted \in Hardware /\ noted.width = h.width /\ noted.level = h.level
        /\ noted.bus = h.bus /\ noted.pin = [h.pin EXCEPT ![i] = c.pin]
    BY <1>1 DEF Hardware
  <2>3. /\ taken \in Hardware /\ taken.width = h.width /\ taken.level = h.level
        /\ taken.bus = [h.bus EXCEPT ![c.pin] = i] /\ taken.pin = [h.pin EXCEPT ![i] = c.pin]
    BY <1>1 DEF Hardware
  <2>4. h.bus \in [Pins -> Outputs \cup {Free, Gpio}] /\ h.pin \in [Outputs -> Pins]
    BY DEF Hardware
  <2> HIDE DEF noted, taken
  <2> QED BY <1>1, <1>2, <2>1, <2>2, <2>3, <2>4
<1>3. CASE c.mode = "SWITCH"
  <2>1. g = [h EXCEPT !.bus[c.pin] = Gpio]
    BY <1>3 DEF Attach, AttachDigital
  <2>2. /\ g \in Hardware /\ g.width = h.width /\ g.level = h.level
        /\ g.bus = [h.bus EXCEPT ![c.pin] = Gpio] /\ g.pin = h.pin
    BY <1>1, <2>1 DEF Hardware
  <2>3. h.bus \in [Pins -> Outputs \cup {Free, Gpio}]
    BY DEF Hardware
  <2> QED BY <1>1, <1>3, <2>2, <2>3
<1> QED BY <1>1, <1>2, <1>3

\* A servo's pin falls silent; a switch goes low.
LEMMA DetachFacts ==
  ASSUME NEW h \in Hardware, NEW i \in Outputs, NEW c \in PwmOutput
  PROVE  LET g == Detach(h, i, c) IN
         /\ g \in Hardware
         /\ g.width = h.width /\ g.pin = h.pin
         /\ \A p \in Pins : p # c.pin => g.level[p] = h.level[p]
         /\ \A p \in Pins :
              g.bus[p] = IF c.mode = "SERVO" /\ p = h.pin[i] /\ h.bus[p] \in Outputs
                         THEN Free ELSE h.bus[p]
<1>1. c.pin \in Pins
  BY SectionFacts
<1>2. /\ h.bus \in [Pins -> Outputs \cup {Free, Gpio}] /\ h.pin \in [Outputs -> Pins]
      /\ h.level \in [Pins -> BOOLEAN]
  BY DEF Hardware
<1>3. CASE c.mode = "SERVO" /\ h.bus[h.pin[i]] \in Outputs
  <2> DEFINE g == [h EXCEPT !.bus[h.pin[i]] = Free]
  <2>1. Detach(h, i, c) = g
    BY <1>3 DEF Detach
  <2>2. /\ g \in Hardware /\ g.width = h.width /\ g.pin = h.pin /\ g.level = h.level
        /\ g.bus = [h.bus EXCEPT ![h.pin[i]] = Free]
    BY <1>2 DEF Hardware
  <2> HIDE DEF g
  <2> QED BY <1>2, <1>3, <2>1, <2>2
<1>4. CASE c.mode = "SERVO" /\ h.bus[h.pin[i]] \notin Outputs
  BY <1>2, <1>4 DEF Detach
<1>5. CASE c.mode # "SERVO"
  <2> DEFINE g == [h EXCEPT !.level[c.pin] = FALSE]
  <2>1. Detach(h, i, c) = g
    BY <1>5 DEF Detach, WriteDigital
  <2>2. /\ g \in Hardware /\ g.width = h.width /\ g.pin = h.pin /\ g.bus = h.bus
        /\ g.level = [h.level EXCEPT ![c.pin] = FALSE]
    BY <1>1, <1>2 DEF Hardware
  <2> HIDE DEF g
  <2> QED BY <1>2, <1>5, <2>1, <2>2
<1> QED BY <1>3, <1>4, <1>5

\* A write reaches the channel or the pin of its output, and no other.
LEMMA WriteFacts ==
  ASSUME NEW h \in Hardware, NEW i \in Outputs, NEW c \in PwmOutput, NEW us \in Pulses
  PROVE  LET g == WriteTo(h, i, c, us) IN
         /\ g \in Hardware
         /\ g.bus = h.bus /\ g.pin = h.pin
         /\ \A j \in Outputs : j # i => g.width[j] = h.width[j]
         /\ \A p \in Pins : p # c.pin => g.level[p] = h.level[p]
         /\ c.mode = "SERVO" => g.width[i] = Width(c, us)
         /\ c.mode # "SERVO" => g.level[c.pin] = Level(c, us)
<1>1. c.pin \in Pins
  BY SectionFacts
<1>2. h.width \in [Outputs -> Pulses \cup {0}] /\ h.level \in [Pins -> BOOLEAN]
  BY DEF Hardware
<1>3. CASE c.mode = "SERVO"
  <2> DEFINE w == Width(c, us)
             g == [h EXCEPT !.width[i] = w]
  <2>1. WriteTo(h, i, c, us) = g
    BY <1>3 DEF WriteTo, WritePulse
  <2>2. w \in Pulses
    <3>1. (IF c.invert THEN PulseMin + PulseMax - us ELSE us) \in Int
      BY SMT DEF Pulses, PulseMin, PulseMax
    <3> QED BY <3>1, ClampIsPulse DEF Width
  <2> HIDE DEF w
  <2>3. /\ g \in Hardware /\ g.bus = h.bus /\ g.pin = h.pin /\ g.level = h.level
        /\ g.width = [h.width EXCEPT ![i] = w]
    BY <1>2, <2>2 DEF Hardware
  <2> HIDE DEF g
  <2> QED BY <1>2, <1>3, <2>1, <2>3 DEF w
<1>4. CASE c.mode # "SERVO"
  <2> DEFINE l == Level(c, us)
             g == [h EXCEPT !.level[c.pin] = l]
  <2>1. WriteTo(h, i, c, us) = g
    BY <1>4 DEF WriteTo, WriteDigital
  <2>2. l \in BOOLEAN
    BY DEF Level
  <2> HIDE DEF l
  <2>3. /\ g \in Hardware /\ g.bus = h.bus /\ g.pin = h.pin /\ g.width = h.width
        /\ g.level = [h.level EXCEPT ![c.pin] = l]
    BY <1>1, <1>2, <2>2 DEF Hardware
  <2> HIDE DEF g
  <2> QED BY <1>1, <1>2, <1>4, <2>1, <2>3 DEF l
<1> QED BY <1>3, <1>4

\* What Drive(i) does: the output is on, with the hardware g it was found with
\* or attached to, and is then left as it is or written.
LEMMA DriveFacts ==
  ASSUME TypeOK, NEW i \in Outputs, Drive(i)
  PROVE  /\ cfg[i].mode # "DISABLED" /\ ~Stopped /\ turn = i
         /\ on' = [on EXCEPT ![i] = TRUE]
         /\ \E g \in Hardware, wr \in BOOLEAN :
              /\ IF on[i] THEN g = hw /\ wr = written[i] ELSE g \in Attach(hw, i, cfg[i]) /\ ~wr
              /\ \/ /\ Held \/ (wr /\ Age(i) < Gap(i))
                    /\ hw' = g /\ written' = [written EXCEPT ![i] = wr]
                    /\ UNCHANGED <<last, since>>
                 \/ /\ ~Held
                    /\ hw' = WriteTo(g, i, cfg[i], IF link THEN frame[cfg[i].source]
                                                           ELSE cfg[i].failsafe)
                    /\ written' = [written EXCEPT ![i] = TRUE]
                    /\ last' = [last EXCEPT ![i] = now]
                    /\ since' = [since EXCEPT ![i] = 0]
<1>1. PICK wr \in BOOLEAN, h \in {hw} \cup Attach(hw, i, cfg[i]) :
        /\ Recovered(i, wr, h)
        /\ IF Held \/ (wr /\ Elapsed(now, last[i]) < Interval[cfg[i].rate])
           THEN /\ hw' = h
                /\ written' = [written EXCEPT ![i] = wr]
                /\ UNCHANGED <<last, since>>
           ELSE /\ hw' = WriteTo(h, i, cfg[i], IF link THEN frame[cfg[i].source]
                                                       ELSE cfg[i].failsafe)
                /\ written' = [written EXCEPT ![i] = TRUE]
                /\ last' = [last EXCEPT ![i] = now]
                /\ since' = [since EXCEPT ![i] = 0]
  BY DEF Drive
<1>2. hw \in Hardware /\ cfg[i] \in PwmOutput /\ cfg[i].mode # "DISABLED"
  BY DEF TypeOK, Drive
<1>3. h \in Hardware
  BY <1>1, <1>2, AttachFacts
<1>4. on[i] \in BOOLEAN
  BY DEF TypeOK
<1>5. IF on[i] THEN h = hw /\ wr = written[i] ELSE h \in Attach(hw, i, cfg[i]) /\ ~wr
  BY <1>1, <1>4 DEF Recovered
<1> QED BY <1>1, <1>2, <1>3, <1>5 DEF Drive, Age, Gap

-----------------------------------------------------------------------------
(* Type correctness.                                                       *)

LEMMA InitType == Init => TypeOK
<1> SUFFICES ASSUME Init PROVE TypeOK
  OBVIOUS
<1>1. 0 \in Stamp /\ Horizon \in 0 .. Horizon /\ 0 \in 0 .. Horizon
  BY WrapAssumption, PwmClockAssumption, SMT DEF Stamp
<1>2. Centred \in RcFrames
  BY SMT DEF Centred, RcFrames, Pulses, PulseMin, PulseMid, PulseMax
<1>3. \A i \in Outputs : cfg[i] \in PwmOutput
  BY PwmAssumption DEF Init
<1>4. hw \in Hardware
  <2>1. PICK bus \in [Pins -> Outputs \cup {Free, Gpio}] :
          hw = [bus |-> bus,
                pin |-> [i \in Outputs |-> cfg[i].pin],
                width |-> [i \in Outputs |-> 0],
                level |-> [p \in Pins |-> FALSE]]
    BY DEF Init
  <2>2. \A i \in Outputs : cfg[i].pin \in Pins
    BY <1>3, SectionFacts
  <2> QED BY <2>1, <2>2 DEF Hardware
<1>5. cfg \in [Outputs -> PwmOutput]
  BY PwmAssumption DEF Init
<1>6. Sharing(cfg) \subseteq Outputs
  BY DEF Sharing
<1> QED BY <1>1, <1>2, <1>4, <1>5, <1>6 DEF Init, TypeOK, Idle

LEMMA BeginUpdateType ==
  ASSUME TypeOK, NEW d \in 0 .. MaxStep, NEW l \in BOOLEAN, NEW f \in Received,
         BeginUpdate(d, l, f)
  PROVE  TypeOK'
<1>1. d \in Nat /\ f \in RcFrames /\ 0 \in 0 .. Horizon
  BY PwmClockAssumption, PwmAssumption, SMT
<1>2. now' \in Stamp
  BY <1>1, LaterType DEF TypeOK, BeginUpdate
<1>3. calm' \in 0 .. Horizon /\ since' \in [Outputs -> 0 .. Horizon]
  BY <1>1, CountFacts DEF TypeOK, BeginUpdate
<1>4. turn' \in Outputs \cup {Done}
  <2>1. \E n \in Outputs : Outputs = 0 .. n
    BY PwmAssumption
  <2>2. 0 \in Outputs
    BY <2>1, TurnFacts
  <2> QED BY <2>2 DEF BeginUpdate
<1> QED BY <1>1, <1>2, <1>3, <1>4 DEF TypeOK, BeginUpdate, outputs, service

LEMMA PassType ==
  ASSUME TypeOK, NEW i \in Outputs, Pass(i)
  PROVE  turn' \in Outputs \cup {Done} /\ crossed' \subseteq Outputs
BY DEF Pass, TypeOK

\* One turn of output i, with or without a write.
LEMMA TurnType ==
  ASSUME TypeOK, NEW i \in Outputs, SkipDisabled(i) \/ StopOutput(i) \/ Drive(i)
  PROVE  TypeOK'
<1>1. /\ turn' \in Outputs \cup {Done} /\ crossed' \subseteq Outputs
      /\ UNCHANGED <<now, link, frame, cfg, mode, service, calm>>
  BY PassType DEF Pass, SkipDisabled, StopOutput, Drive
<1>2. /\ on' \in [Outputs -> BOOLEAN] /\ written' \in [Outputs -> BOOLEAN]
      /\ last' \in [Outputs -> Stamp] /\ since' \in [Outputs -> 0 .. Horizon]
      /\ hw' \in Hardware
  <2>1. CASE SkipDisabled(i)
    BY <2>1 DEF SkipDisabled, TypeOK
  <2>2. CASE StopOutput(i)
    <3>1. hw' \in Hardware
      BY <2>2, DetachFacts DEF StopOutput, TypeOK
    <3> QED BY <2>2, <3>1 DEF StopOutput, TypeOK
  <2>3. CASE Drive(i)
    <3>1. on' = [on EXCEPT ![i] = TRUE]
      BY <2>3, DriveFacts
    <3>2. PICK g \in Hardware, wr \in BOOLEAN :
            \/ /\ hw' = g /\ written' = [written EXCEPT ![i] = wr]
               /\ UNCHANGED <<last, since>>
            \/ /\ hw' = WriteTo(g, i, cfg[i], IF link THEN frame[cfg[i].source]
                                                      ELSE cfg[i].failsafe)
               /\ written' = [written EXCEPT ![i] = TRUE]
               /\ last' = [last EXCEPT ![i] = now]
               /\ since' = [since EXCEPT ![i] = 0]
      BY <2>3, DriveFacts
    <3>3. hw' \in Hardware
      BY <3>2, SourceType, WriteFacts DEF TypeOK
    <3>4. 0 \in 0 .. Horizon
      BY PwmClockAssumption, SMT
    <3> QED BY <3>1, <3>2, <3>3, <3>4 DEF TypeOK
  <2> QED BY <2>1, <2>2, <2>3
<1> QED BY <1>1, <1>2 DEF TypeOK, service

\* After output i serviceTask goes on to the next, or to the failsafe mode.
LEMMA FollowingType ==
  ASSUME NEW i \in Outputs
  PROVE  /\ Following(i) \in {"release"} \X Outputs \cup {<<"mode", 0>>}
         /\ \A j \in Outputs : Following(i) # <<"reuse", j>>
BY DEF Following

LEMMA ServiceType ==
  ASSUME TypeOK, ServiceTask
  PROVE  TypeOK'
<1>0. 0 \in 0 .. Horizon
  BY PwmClockAssumption, SMT
<1>1. ASSUME NEW s \in PwmConfigs, BeginApply(s)
      PROVE  TypeOK'
  <2>1. \E n \in Outputs : Outputs = 0 .. n
    BY PwmAssumption
  <2>2. 0 \in Outputs
    BY <2>1, TurnFacts
  <2> QED BY <1>1, <2>2 DEF TypeOK, BeginApply, outputs
<1>2. ASSUME NEW i \in Outputs
      PROVE  target[i] \in PwmOutput
  BY PwmAssumption DEF TypeOK
<1>3. ASSUME NEW i \in Outputs, Keep(i)
      PROVE  TypeOK'
  <2>1. svc' \in {"release", "reuse"} \X Outputs \cup {Idle, <<"mode", 0>>}
    BY <1>3, FollowingType DEF Keep
  <2>2. cfg' \in [Outputs -> PwmOutput] /\ \A j \in Outputs : \E s \in PwmConfigs : cfg'[j] = s[j]
    BY <1>2, <1>3 DEF Keep, TypeOK
  <2> QED BY <1>0, <1>3, <2>1, <2>2 DEF TypeOK, Keep
<1>4. ASSUME NEW i \in Outputs, Release(i)
      PROVE  TypeOK'
  <2>1. /\ Detach(hw, i, cfg[i]) \in Hardware /\ hw \in Hardware
        /\ on \in [Outputs -> BOOLEAN]
    BY DetachFacts DEF TypeOK
  <2>2. (on' = on /\ hw' = hw) \/ (on' = [on EXCEPT ![i] = FALSE] /\ hw' = Detach(hw, i, cfg[i]))
    BY <1>4 DEF Release
  <2>3. hw' \in Hardware /\ on' \in [Outputs -> BOOLEAN]
    BY <2>1, <2>2
  <2> QED BY <1>0, <1>4, <2>3 DEF TypeOK, Release
<1>5. ASSUME NEW i \in Outputs, Reuse(i)
      PROVE  TypeOK'
  <2>1. svc' \in {"release", "reuse"} \X Outputs \cup {Idle, <<"mode", 0>>}
    BY <1>5, FollowingType DEF Reuse
  <2>2. cfg' \in [Outputs -> PwmOutput] /\ \A j \in Outputs : \E s \in PwmConfigs : cfg'[j] = s[j]
    BY <1>2, <1>5 DEF Reuse, TypeOK
  <2>3. hw' \in Hardware
    BY <1>2, <1>5, AttachFacts DEF Reuse, TypeOK
  <2>4. crossed' \subseteq Outputs
    BY <1>5 DEF Reuse, Crossing, Rivals, TypeOK
  <2> QED BY <1>0, <1>5, <2>1, <2>2, <2>3, <2>4 DEF TypeOK, Reuse
<1>6. ASSUME NEW m \in PwmModes, SetFailsafeMode(m)
      PROVE  TypeOK'
  BY <1>0, <1>6 DEF TypeOK, SetFailsafeMode, outputs
<1> QED BY <1>1, <1>3, <1>4, <1>5, <1>6 DEF ServiceTask

LEMMA StepType ==
  ASSUME TypeOK, [Next]_vars
  PROVE  TypeOK'
<1>1. CASE UNCHANGED vars
  BY <1>1 DEF TypeOK, vars, outputs, service
<1> QED BY <1>1, BeginUpdateType, TurnType, ServiceType DEF Next, OutputTask

\* Every variable of the direct outputs keeps its range, however updates and
\* the application of settings mix.
THEOREM TypeCorrect == Spec => []TypeOK
BY InitType, StepType, PTL DEF Spec

-----------------------------------------------------------------------------
(* The pins.                                                               *)

\* A step that only concerns output k: it gives a pin to nobody but k, and no
\* pin that an output which is not in doubt uses.
MovesOnly(k) ==
  /\ \A p \in Pins :
       \/ hw'.bus[p] = hw.bus[p]
       \/ /\ hw'.bus[p] \in {k, Free, Gpio}
          /\ \A j \in Outputs \ {k} : j \notin crossed' => ~Uses(cfg, j, p)
  /\ \A j \in Outputs \ {k} :
       /\ hw'.pin[j] = hw.pin[j] /\ on'[j] = on[j] /\ cfg'[j] = cfg[j]
       /\ svc' = <<"reuse", j>> <=> svc = <<"reuse", j>>
       /\ j \notin crossed'
            => j \notin crossed /\ (cfg[j].mode = "DISABLED" \/ ~Uses(cfg', k, cfg[j].pin))

\* What only concerns output k leaves the others their pins.
LEMMA OthersKeepPins ==
  ASSUME TypeOK, PinInv, NEW k \in Outputs, MovesOnly(k),
         Remembers(k)', k \notin crossed' => HasPin(k)' /\ Alone(k)'
  PROVE  PinInv'
<1> SUFFICES ASSUME NEW i \in Outputs \ {k}
             PROVE  Remembers(i)' /\ (i \notin crossed' => HasPin(i)' /\ Alone(i)')
  BY DEF PinInv
<1>1. hw'.pin[i] = hw.pin[i] /\ on'[i] = on[i] /\ cfg'[i] = cfg[i]
  BY DEF MovesOnly
<1>2. Remembers(i)'
  BY <1>1 DEF PinInv, Remembers
<1>3. \A j \in Outputs : j # Free /\ j # Gpio
  BY TurnFacts
<1>4. ASSUME i \notin crossed'
      PROVE  HasPin(i)' /\ Alone(i)'
  <2>1. /\ i \notin crossed /\ HasPin(i) /\ Alone(i)
        /\ cfg[i].mode = "DISABLED" \/ ~Uses(cfg', k, cfg[i].pin)
    BY <1>4 DEF MovesOnly, PinInv
  <2>2. svc' = <<"reuse", i>> <=> svc = <<"reuse", i>>
    BY DEF MovesOnly
  <2>3. \A p \in Pins : hw'.bus[p] = hw.bus[p] \/ (hw'.bus[p] # i /\ ~Uses(cfg, i, p))
    BY <1>3, <1>4 DEF MovesOnly
  <2>4. HasPin(i)'
    BY <1>1, <2>1, <2>2, <2>3 DEF HasPin, IsPulsing, Uses
  <2>5. ASSUME cfg[i].mode # "DISABLED"
        PROVE  hw'.bus[cfg[i].pin] = hw.bus[cfg[i].pin]
    <3>1. cfg[i].pin \in Pins
      BY SectionFacts DEF TypeOK
    <3> QED BY <2>3, <2>5, <3>1 DEF Uses
  <2>6. Alone(i)'
    <3> SUFFICES ASSUME cfg[i].mode # "DISABLED", NEW j \in Outputs \ {i}
                 PROVE  ~Uses(cfg', j, cfg[i].pin) /\ hw'.bus[cfg[i].pin] # j
      BY <1>1 DEF Alone
    <3>1. ~Uses(cfg, j, cfg[i].pin) /\ hw'.bus[cfg[i].pin] # j
      BY <2>1, <2>5 DEF Alone
    <3>2. ~Uses(cfg', j, cfg[i].pin)
      BY <2>1, <3>1 DEF MovesOnly, Uses
    <3> QED BY <3>1, <3>2
  <2> QED BY <2>4, <2>6
<1> QED BY <1>2, <1>4

\* What an output does to the one pin it uses concerns no other.
LEMMA OwnPinMoves ==
  ASSUME PinInv, NEW k \in Outputs, cfg[k].mode # "DISABLED", crossed \subseteq crossed',
         \A p \in Pins : \/ hw'.bus[p] = hw.bus[p]
                         \/ p = cfg[k].pin /\ hw'.bus[p] \in {k, Free, Gpio},
         cfg' = cfg,
         \A j \in Outputs \ {k} :
           /\ hw'.pin[j] = hw.pin[j] /\ on'[j] = on[j]
           /\ svc' = <<"reuse", j>> <=> svc = <<"reuse", j>>
  PROVE  MovesOnly(k)
<1>1. ASSUME NEW j \in Outputs \ {k}, j \notin crossed'
      PROVE  /\ j \notin crossed /\ ~Uses(cfg, j, cfg[k].pin)
             /\ cfg[j].mode = "DISABLED" \/ ~Uses(cfg, k, cfg[j].pin)
  <2>1. j \notin crossed /\ Alone(j)
    BY <1>1 DEF PinInv
  <2> QED BY <2>1 DEF Alone, Uses
<1> QED BY <1>1 DEF MovesOnly

\* A servo that is detached frees its own pin, and it had no other.
LEMMA DetachMoves ==
  ASSUME TypeOK, PinInv, NEW i \in Outputs
  PROVE  LET g == Detach(hw, i, cfg[i]) IN
         /\ g.pin = hw.pin
         /\ \A p \in Pins : \/ g.bus[p] = hw.bus[p]
                            \/ p = cfg[i].pin /\ g.bus[p] = Free
         /\ (i \notin crossed) => \A p \in Pins : g.bus[p] # i
<1> DEFINE g == Detach(hw, i, cfg[i])
<1>1. hw \in Hardware /\ cfg[i] \in PwmOutput /\ i # Free
  BY TurnFacts DEF TypeOK
<1>2. /\ g.pin = hw.pin
      /\ \A p \in Pins :
           g.bus[p] = IF cfg[i].mode = "SERVO" /\ p = hw.pin[i] /\ hw.bus[p] \in Outputs
                      THEN Free ELSE hw.bus[p]
  BY <1>1, DetachFacts
<1> HIDE DEF g
<1>3. cfg[i].mode = "SERVO" => hw.pin[i] = cfg[i].pin
  BY DEF PinInv, Remembers
<1>4. ASSUME i \notin crossed
      PROVE  \A p \in Pins : g.bus[p] # i
  <2>1. HasPin(i)
    BY <1>4 DEF PinInv
  <2> QED BY <1>1, <1>2, <1>3, <2>1 DEF HasPin, IsPulsing
<1>5. \A p \in Pins : g.bus[p] = hw.bus[p] \/ (p = cfg[i].pin /\ g.bus[p] = Free)
  BY <1>2, <1>3
<1> QED BY <1>2, <1>4, <1>5 DEF g

LEMMA PinInit ==
  ASSUME Init
  PROVE  PinInv
<1>1. TypeOK
  BY InitType
<1>2. /\ \A p \in Pins : hw.bus[p] \in AttachedBus(cfg, p)
      /\ \A i \in Outputs : hw.pin[i] = cfg[i].pin
  BY DEF Init
<1>3. /\ svc = Idle /\ crossed = Sharing(cfg)
      /\ \A i \in Outputs : on[i] <=> cfg[i].mode # "DISABLED"
  BY DEF Init
<1>4. \A i \in Outputs : i # Free /\ i # Gpio /\ svc # <<"reuse", i>> /\ cfg[i].pin \in Pins
  BY <1>1, <1>3, TurnFacts, SectionFacts DEF Idle, TypeOK
<1>5. ASSUME NEW i \in Outputs, NEW p \in Pins, hw.bus[p] = i
      PROVE  cfg[i].mode = "SERVO" /\ cfg[i].pin = p
  <2>1. i \in AttachedBus(cfg, p) /\ i # Free /\ i # Gpio
    BY <1>2, <1>4, <1>5
  <2> QED BY <2>1 DEF AttachedBus
<1>6. ASSUME NEW i \in Outputs, i \notin crossed
      PROVE  HasPin(i) /\ Alone(i)
  <2>1. ASSUME cfg[i].mode # "DISABLED"
        PROVE  \A j \in Outputs \ {i} : ~Uses(cfg, j, cfg[i].pin)
    BY <1>3, <1>6, <2>1 DEF Sharing, Uses
  <2>2. Alone(i)
    BY <1>4, <1>5, <2>1 DEF Alone, Uses
  <2>3. ASSUME cfg[i].mode = "SERVO"
        PROVE  hw.bus[cfg[i].pin] = i
    <3>1. \A j \in Outputs \ {i} : ~(cfg[j].mode \in {"SERVO", "SWITCH"} /\ cfg[j].pin = cfg[i].pin)
      BY <2>1, <2>3 DEF Uses
    <3>2. AttachedBus(cfg, cfg[i].pin) = {i}
      BY <2>3, <3>1 DEF AttachedBus
    <3> QED BY <1>2, <1>4, <3>2
  <2>4. HasPin(i)
    BY <1>3, <1>4, <1>5, <2>3 DEF HasPin, IsPulsing
  <2> QED BY <2>2, <2>4
<1> QED BY <1>2, <1>6 DEF PinInv, Remembers

LEMMA PinTurn ==
  ASSUME TypeOK, PinInv, NEW i \in Outputs,
         SkipDisabled(i) \/ StopOutput(i) \/ Drive(i)
  PROVE  PinInv'
<1>1. /\ crossed \subseteq crossed' /\ cfg' = cfg /\ svc' = svc
      /\ i \notin crossed' => i \notin crossed /\ svc # <<"reuse", i>>
  BY DEF SkipDisabled, StopOutput, Drive, Pass, service
<1>2. /\ on \in [Outputs -> BOOLEAN] /\ hw \in Hardware /\ cfg[i] \in PwmOutput
      /\ i # Free /\ i # Gpio
  BY TurnFacts DEF TypeOK
<1>3. \A j \in Outputs \ {i} : on'[j] = on[j]
  <2>1. on' = on \/ on' = [on EXCEPT ![i] = FALSE] \/ on' = [on EXCEPT ![i] = TRUE]
    BY DriveFacts DEF SkipDisabled, StopOutput
  <2> QED BY <1>2, <2>1
<1>4. i \notin crossed' => HasPin(i) /\ Alone(i)
  BY <1>1 DEF PinInv
<1>5. CASE SkipDisabled(i)
  <2>1. on' = on /\ hw' = hw
    BY <1>5 DEF SkipDisabled
  <2>2. ASSUME NEW j \in Outputs
        PROVE  Remembers(j)' /\ (j \notin crossed' => HasPin(j)' /\ Alone(j)')
    BY <1>1, <2>1 DEF PinInv, Remembers, HasPin, Alone, IsPulsing, Uses
  <2> QED BY <2>2 DEF PinInv
<1>6. CASE StopOutput(i)
  <2>1. /\ on'[i] = FALSE /\ hw' = IF on[i] THEN Detach(hw, i, cfg[i]) ELSE hw
        /\ cfg[i].mode # "DISABLED"
    BY <1>2, <1>6 DEF StopOutput
  <2>2. /\ hw'.pin = hw.pin
        /\ \A p \in Pins : hw'.bus[p] = hw.bus[p] \/ (p = cfg[i].pin /\ hw'.bus[p] = Free)
    BY <2>1, DetachMoves
  <2>3. i \notin crossed' => \A p \in Pins : hw'.bus[p] # i
    BY <1>1, <1>4, <2>1, DetachMoves DEF HasPin, IsPulsing
  <2>4. MovesOnly(i)
    BY <1>1, <1>3, <2>1, <2>2, OwnPinMoves
  <2>5. Remembers(i)'
    BY <1>1, <2>2 DEF PinInv, Remembers
  <2>6. i \notin crossed' => HasPin(i)' /\ Alone(i)'
    <3>1. cfg[i].pin \in Pins /\ \A j \in Outputs : j # Free
      BY <1>2, SectionFacts, TurnFacts
    <3>2. i \notin crossed' => HasPin(i)'
      BY <2>1, <2>3 DEF HasPin, IsPulsing
    <3>3. i \notin crossed' => Alone(i)'
      BY <1>1, <1>4, <2>2, <3>1 DEF Alone, Uses
    <3> QED BY <3>2, <3>3
  <2> QED BY <2>4, <2>5, <2>6, OthersKeepPins
<1>7. CASE Drive(i)
  <2>1. cfg[i].mode # "DISABLED" /\ on'[i] /\ cfg[i].mode \in {"SERVO", "SWITCH"}
    BY <1>2, <1>7, DriveFacts, SectionFacts
  <2>2. PICK g \in Hardware :
          /\ IF on[i] THEN g = hw ELSE g \in Attach(hw, i, cfg[i])
          /\ hw' = g \/ hw' = WriteTo(g, i, cfg[i], IF link THEN frame[cfg[i].source]
                                                            ELSE cfg[i].failsafe)
    BY <1>7, DriveFacts
  <2>3. hw'.bus = g.bus /\ hw'.pin = g.pin
    BY <1>2, <2>2, SourceType, WriteFacts
  <2>4. /\ \A p \in Pins : hw'.bus[p] = hw.bus[p] \/ (p = cfg[i].pin /\ hw'.bus[p] \in {i, Gpio})
        /\ \A j \in Outputs \ {i} : hw'.pin[j] = hw.pin[j]
        /\ on[i] => hw'.bus = hw.bus
    BY <1>2, <2>1, <2>2, <2>3, AttachFacts
  <2>5. MovesOnly(i)
    BY <1>1, <1>3, <2>1, <2>4, OwnPinMoves
  <2>6. Remembers(i)'
    BY <1>1, <1>2, <2>1, <2>2, <2>3, AttachFacts DEF PinInv, Remembers
  <2>7. ASSUME i \notin crossed'
        PROVE  HasPin(i)'
    <3>1. svc' # <<"reuse", i>> /\ HasPin(i) /\ Alone(i)
      BY <1>1, <1>4, <2>7
    <3>2. CASE on[i]
      BY <1>1, <2>1, <2>4, <3>1, <3>2 DEF HasPin, IsPulsing
    <3>3. CASE ~on[i]
      <4>1. \A p \in Pins : hw.bus[p] # i
        BY <3>1, <3>3 DEF HasPin, IsPulsing
      <4>2. cfg[i].pin \in Pins /\ hw.bus[cfg[i].pin] \in {i, Free, Gpio}
        BY <1>2, <2>1, <3>1, SectionFacts DEF Alone, Hardware
      <4>3. hw'.bus[cfg[i].pin] = IF cfg[i].mode = "SERVO" THEN i ELSE Gpio
        BY <1>2, <2>1, <2>2, <2>3, <3>3, <4>2, AttachFacts
      <4> QED BY <1>1, <1>2, <2>1, <2>4, <3>1, <4>1, <4>2, <4>3 DEF HasPin, IsPulsing
    <3> QED BY <3>2, <3>3
  <2>8. ASSUME i \notin crossed'
        PROVE  Alone(i)'
    <3>1. cfg[i].pin \in Pins /\ \A j \in Outputs : j # Gpio
      BY <1>2, SectionFacts, TurnFacts
    <3> QED BY <1>1, <1>4, <2>4, <2>8, <3>1 DEF Alone, Uses
  <2> QED BY <2>5, <2>6, <2>7, <2>8, OthersKeepPins
<1> QED BY <1>5, <1>6, <1>7

LEMMA PinService ==
  ASSUME TypeOK, PinInv, ServiceTask
  PROVE  PinInv'
<1>1. \A i \in Outputs : /\ cfg[i] \in PwmOutput /\ target[i] \in PwmOutput
                         /\ i # Free /\ i # Gpio
  <2>1. \A i \in Outputs : target[i] \in PwmOutput
    BY PwmAssumption DEF TypeOK
  <2> QED BY <2>1, TurnFacts DEF TypeOK
<1>2. on \in [Outputs -> BOOLEAN] /\ cfg \in [Outputs -> PwmOutput] /\ hw \in Hardware
  BY DEF TypeOK
<1>3. ASSUME \A i \in Outputs : svc # <<"reuse", i>> /\ svc' # <<"reuse", i>>,
             UNCHANGED <<cfg, on, hw, crossed>>
      PROVE  PinInv'
  BY <1>3 DEF PinInv, Remembers, HasPin, Alone, IsPulsing, Uses
<1>4. ASSUME NEW s \in PwmConfigs, BeginApply(s)
      PROVE  PinInv'
  BY <1>3, <1>4 DEF BeginApply, outputs, Idle
<1>5. ASSUME NEW m \in PwmModes, SetFailsafeMode(m)
      PROVE  PinInv'
  BY <1>3, <1>5 DEF SetFailsafeMode, outputs, Idle
<1>6. ASSUME NEW i \in Outputs, Keep(i)
      PROVE  PinInv'
  <2>1. /\ cfg' = [cfg EXCEPT ![i] = target[i]] /\ UNCHANGED <<on, hw, crossed>>
        /\ cfg[i].mode = target[i].mode /\ cfg[i].pin = target[i].pin
        /\ \A j \in Outputs : svc # <<"reuse", j>> /\ svc' # <<"reuse", j>>
    BY <1>6, FollowingType DEF Keep
  <2>2. \A j \in Outputs : cfg'[j].mode = cfg[j].mode /\ cfg'[j].pin = cfg[j].pin
    BY <1>2, <2>1
  <2>3. ASSUME NEW j \in Outputs
        PROVE  Remembers(j)' /\ (j \notin crossed' => HasPin(j)' /\ Alone(j)')
    BY <2>1, <2>2 DEF PinInv, Remembers, HasPin, Alone, IsPulsing, Uses
  <2> QED BY <2>3 DEF PinInv
<1>7. ASSUME NEW i \in Outputs, Release(i)
      PROVE  PinInv'
  <2>1. /\ svc = <<"release", i>> /\ svc' = <<"reuse", i>> /\ UNCHANGED <<cfg, crossed>>
        /\ IF cfg[i].mode = "DISABLED" THEN UNCHANGED <<on, hw>>
           ELSE on' = [on EXCEPT ![i] = FALSE] /\ hw' = Detach(hw, i, cfg[i])
    BY <1>7 DEF Release
  <2>2. \A j \in Outputs \ {i} : on'[j] = on[j] /\ (svc' = <<"reuse", j>> <=> svc = <<"reuse", j>>)
    BY <1>2, <2>1
  <2>3. /\ hw'.pin = hw.pin
        /\ \A p \in Pins :
             hw'.bus[p] = hw.bus[p] \/ (cfg[i].mode # "DISABLED" /\ p = cfg[i].pin /\ hw'.bus[p] = Free)
    BY <2>1, DetachMoves
  <2>4. ASSUME i \notin crossed'
        PROVE  \A p \in Pins : hw'.bus[p] # i
    <3>1. HasPin(i) /\ i \notin crossed
      BY <2>1, <2>4 DEF PinInv
    <3>2. CASE cfg[i].mode = "DISABLED"
      BY <2>1, <3>1, <3>2 DEF HasPin, IsPulsing
    <3>3. CASE cfg[i].mode # "DISABLED"
      BY <2>1, <3>1, <3>3, DetachMoves
    <3> QED BY <3>2, <3>3
  <2>5. MovesOnly(i)
    <3>1. CASE cfg[i].mode = "DISABLED"
      BY <2>1, <2>2, <3>1 DEF MovesOnly, Uses
    <3>2. CASE cfg[i].mode # "DISABLED"
      BY <2>1, <2>2, <2>3, <3>2, OwnPinMoves
    <3> QED BY <3>1, <3>2
  <2>6. Remembers(i)'
    BY <2>1, <2>3 DEF PinInv, Remembers
  <2>7. i \notin crossed' => HasPin(i)'
    BY <2>1, <2>4 DEF HasPin
  <2>8. ASSUME i \notin crossed'
        PROVE  Alone(i)'
    <3>1. cfg[i].pin \in Pins /\ Alone(i) /\ \A j \in Outputs : j # Free
      BY <1>1, <2>1, <2>8, SectionFacts DEF PinInv
    <3> QED BY <2>1, <2>3, <3>1 DEF Alone, Uses
  <2> QED BY <2>5, <2>6, <2>7, <2>8, OthersKeepPins
<1>8. ASSUME NEW i \in Outputs, Reuse(i)
      PROVE  PinInv'
  <2> DEFINE c == target[i]
  <2>1. /\ svc = <<"reuse", i>> /\ crossed' = Crossing(i)
        /\ cfg' = [cfg EXCEPT ![i] = c] /\ on' = [on EXCEPT ![i] = c.mode # "DISABLED"]
        /\ IF c.mode = "DISABLED" THEN UNCHANGED hw ELSE hw' \in Attach(hw, i, c)
        /\ \A j \in Outputs : svc' # <<"reuse", j>>
    BY <1>8, FollowingType DEF Reuse
  <2>2. /\ \A j \in Outputs \ {i} : /\ on'[j] = on[j] /\ cfg'[j] = cfg[j]
                                    /\ svc # <<"reuse", j>>
        /\ cfg'[i] = c /\ on'[i] = (c.mode # "DISABLED")
    BY <1>2, <2>1
  <2>3. c \in PwmOutput /\ c.pin \in Pins /\ c.mode \in {"DISABLED", "SERVO", "SWITCH"}
    BY <1>1, SectionFacts
  <2> HIDE DEF c
  <2>4. /\ \A p \in Pins : \/ hw'.bus[p] = hw.bus[p]
                           \/ /\ c.mode # "DISABLED" /\ p = c.pin
                              /\ hw'.bus[p] = IF c.mode = "SERVO" THEN i ELSE Gpio
        /\ \A j \in Outputs \ {i} : hw'.pin[j] = hw.pin[j]
        /\ c.mode = "SERVO" => hw'.pin[i] = c.pin
        /\ c.mode # "DISABLED" /\ hw.bus[c.pin] \in {i, Free, Gpio}
             => hw'.bus[c.pin] = IF c.mode = "SERVO" THEN i ELSE Gpio
    <3>1. CASE c.mode = "DISABLED"
      BY <2>1, <3>1
    <3>2. CASE c.mode # "DISABLED"
      <4>1. hw' \in Attach(hw, i, c)
        BY <2>1, <3>2
      <4> QED BY <1>2, <2>3, <3>2, <4>1, AttachFacts
    <3> QED BY <3>1, <3>2
  <2>5. ASSUME NEW j \in Outputs \ {i}, j \notin crossed'
        PROVE  j \notin crossed /\ (c.mode # "DISABLED" => ~Uses(cfg, j, c.pin))
    BY <2>1, <2>5 DEF Crossing, Rivals, c
  <2>6. MovesOnly(i)
    <3>1. ASSUME NEW j \in Outputs \ {i}, j \notin crossed'
          PROVE  ~Uses(cfg', i, cfg[j].pin) \/ cfg[j].mode = "DISABLED"
      BY <2>2, <2>5, <3>1 DEF Uses
    <3> QED BY <2>1, <2>2, <2>4, <2>5, <3>1 DEF MovesOnly
  <2>7. Remembers(i)'
    BY <2>2, <2>4 DEF Remembers
  <2>8. ASSUME i \notin crossed'
        PROVE  /\ \A p \in Pins : hw.bus[p] # i
               /\ c.mode # "DISABLED"
                    => \A j \in Outputs \ {i} : hw.bus[c.pin] # j /\ ~Uses(cfg, j, c.pin)
    <3>1. c.mode # "DISABLED" => Rivals(i, c.pin) = {}
      BY <2>1, <2>8 DEF Crossing, c
    <3>2. i \notin crossed \/ \A p \in Pins : hw.bus[p] # i
      BY <2>1, <2>8 DEF Crossing
    <3>3. \A p \in Pins : hw.bus[p] # i
      BY <2>1, <3>2 DEF PinInv, HasPin
    <3> QED BY <3>1, <3>3 DEF Rivals
  <2>9. ASSUME i \notin crossed'
        PROVE  HasPin(i)'
    <3>1. c.mode # "DISABLED" => hw.bus[c.pin] \in {i, Free, Gpio}
      BY <1>2, <2>3, <2>8, <2>9 DEF Hardware
    <3>2. \A p \in Pins : hw'.bus[p] = i <=> (c.mode = "SERVO" /\ c.pin = p)
      BY <1>1, <2>3, <2>4, <2>8, <2>9, <3>1
    <3> QED BY <2>1, <2>2, <3>2 DEF HasPin, IsPulsing
  <2>10. ASSUME i \notin crossed'
         PROVE  Alone(i)'
    BY <1>1, <2>2, <2>3, <2>4, <2>8, <2>10 DEF Alone, Uses
  <2> QED BY <2>6, <2>7, <2>9, <2>10, OthersKeepPins
<1> QED BY <1>4, <1>5, <1>6, <1>7, <1>8 DEF ServiceTask

LEMMA PinStep ==
  ASSUME TypeOK, PinInv, [Next]_vars
  PROVE  PinInv'
<1>1. ASSUME UNCHANGED <<cfg, on, hw, svc, crossed>>
      PROVE  PinInv'
  BY <1>1 DEF PinInv, Remembers, HasPin, Alone, IsPulsing, Uses
<1>2. CASE UNCHANGED vars
  BY <1>1, <1>2 DEF vars, outputs, service
<1>3. ASSUME NEW d, NEW l, NEW f, BeginUpdate(d, l, f)
      PROVE  PinInv'
  BY <1>1, <1>3 DEF BeginUpdate, outputs, service
<1> QED BY <1>2, <1>3, PinTurn, PinService DEF Next, OutputTask

\* Whatever sections are saved, pins that several outputs share or hand on
\* included: an output that is not in crossed pulses on its own pin if it is a
\* servo that is on, and on none otherwise, for any number of outputs.
THEOREM PulsesFollow == Spec => []PinsFollow
<1>1. PinInv => PinsFollow
  BY DEF PinInv, HasPin, IsPulsing, PinsFollow
<1>2. Init => PinInv
  BY PinInit
<1>3. TypeOK /\ PinInv /\ [Next]_vars => PinInv'
  BY PinStep
<1> QED BY <1>1, <1>2, <1>3, TypeCorrect, PTL DEF Spec

-----------------------------------------------------------------------------
(* Convergence.                                                            *)

\* The numbers OnTheWay compares.
LEMMA WayTypes ==
  ASSUME TypeOK, NEW i \in Outputs
  PROVE  /\ Age(i) \in Nat /\ Room(i) \in Nat /\ MaxStep \in Nat
         /\ Gap(i) \in Nat \ {0} /\ Gap(i) + MaxStep < Horizon /\ Gap(i) + MaxStep <= Wrap
         /\ calm \in 0 .. Horizon /\ since[i] \in 0 .. Horizon /\ Horizon \in Nat
         /\ now \in Stamp /\ last[i] \in Stamp
<1>1. now \in Stamp /\ last[i] \in Stamp /\ cfg[i] \in PwmOutput
  BY DEF TypeOK
<1>2. Age(i) \in Nat
  BY <1>1, WrapAssumption, SMT DEF Age, Elapsed, Stamp
<1>3. MaxStep \in Nat /\ Horizon \in Nat /\ 0 \in Nat
  BY PwmClockAssumption
<1>4. Room(i) \in Nat
  BY <1>3 DEF Room
<1> QED BY <1>1, <1>2, <1>3, <1>4, SectionFacts DEF Gap, TypeOK

\* After a change every output has its way before it.
LEMMA NewlyChanged ==
  /\ calm = 0 => WayInv
  /\ calm' = 0 => WayInv'
<1>1. MaxStep \in Nat
  BY PwmClockAssumption
<1>2. ASSUME NEW i \in Outputs, calm = 0
      PROVE  calm <= Room(i) /\ ~(calm > Room(i))
  BY <1>1, <1>2, SMT DEF Room
<1>3. ASSUME NEW i \in Outputs, calm' = 0
      PROVE  calm' <= Room(i)' /\ ~(calm' > Room(i)')
  BY <1>1, <1>3, SMT DEF Room
<1> QED BY <1>2, <1>3 DEF WayInv, OnTheWay

\* Time passes, and every output has its turn before it again.
LEMMA WayBegins ==
  ASSUME TypeOK, WayInv, NEW d \in 0 .. MaxStep, NEW l \in BOOLEAN, NEW f \in Received,
         BeginUpdate(d, l, f)
  PROVE  WayInv'
<1>1. CASE l # link
  BY <1>1, NewlyChanged DEF BeginUpdate
<1>2. CASE l = link
  <2> SUFFICES ASSUME NEW i \in Outputs
               PROVE  OnTheWay(i)'
    BY DEF WayInv
  <2>1. /\ UNCHANGED <<mode, cfg, on, written, last, hw, link>>
        /\ turn = Done /\ turn' = 0 /\ now' = Later(now, d)
        /\ calm' = Count(calm, d) /\ since'[i] = Count(since[i], d)
    BY <1>2 DEF BeginUpdate, outputs
  <2>2. Room(i) = 0 /\ Room(i)' = MaxStep /\ Gap(i)' = Gap(i)
    <3>1. i \in Nat /\ 0 # Done
      BY TurnFacts
    <3>2. ~Passed(i)'
      BY <2>1, <3>1, SMT DEF Passed
    <3> QED BY <2>1, <3>2 DEF Room, Passed, Gap
  <2>3. d \in Nat /\ d <= MaxStep
    BY PwmClockAssumption, SMT
  <2>4. calm' <= calm + d /\ calm' \in 0 .. Horizon
    BY <2>1, <2>3, WayTypes, CountFacts
  <2>5. Age(i) < Gap(i) => Age(i)' = Age(i) + d
    <3>1. Age(i) < Gap(i) => Age(i) + d < Wrap
      BY <2>3, WayTypes, WrapAssumption, SMT
    <3> QED BY <2>1, <2>3, <3>1, WayTypes, ElapsedExact DEF Age
  <2>6. since[i] < Gap(i) => since'[i] = since[i] + d
    <3>1. since[i] < Gap(i) => since[i] + d < Horizon
      BY <2>3, WayTypes, SMT
    <3> QED BY <2>1, <2>3, <3>1, WayTypes, CountFacts
  <2>7. (Stopped <=> Stopped') /\ (AtFailsafe(i) <=> AtFailsafe(i)')
    BY <2>1 DEF Stopped, AtFailsafe
  <2>8. InRhythm(i) => InRhythm(i)'
    <3> SUFFICES ASSUME InRhythm(i) PROVE InRhythm(i)'
      OBVIOUS
    <3>1. written[i] /\ since[i] = Age(i) /\ Age(i) < Gap(i) /\ (~link => AtFailsafe(i))
      BY <2>2, WayTypes, SMT DEF InRhythm
    <3>2. since'[i] = Age(i)' /\ Age(i)' < Gap(i)' + Room(i)'
      BY <2>2, <2>3, <2>5, <2>6, <3>1, WayTypes, SMT
    <3> QED BY <2>1, <2>7, <3>1, <3>2 DEF InRhythm
  <2>9. HeldBack(i) => HeldBack(i)'
    <3> SUFFICES ASSUME HeldBack(i) PROVE HeldBack(i)'
      OBVIOUS
    <3>1. Age(i) < Gap(i) /\ calm <= MaxStep + Age(i)
      BY <2>2, WayTypes, SMT DEF HeldBack
    <3>2. Age(i)' < Gap(i)' + Room(i)' /\ calm' <= MaxStep + Age(i)'
      BY <2>2, <2>3, <2>4, <2>5, <3>1, WayTypes, SMT
    <3> QED BY <3>2 DEF HeldBack
  <2>10. calm <= Room(i) => calm' <= Room(i)'
    BY <2>2, <2>3, <2>4, WayTypes, SMT
  <2>11. calm' > Room(i)' => calm > Room(i)
    BY <2>2, <2>3, <2>4, WayTypes, SMT
  <2> QED BY <2>1, <2>7, <2>8, <2>9, <2>10, <2>11 DEF WayInv, OnTheWay
<1> QED BY <1>1, <1>2

\* The turn of output i is its own, and no output other than i is passed by it.
LEMMA TurnPasses ==
  ASSUME NEW i \in Outputs, turn = i, Pass(i)
  PROVE  /\ Room(i) = MaxStep /\ Room(i)' = 0
         /\ \A j \in Outputs \ {i} : Room(j)' = Room(j)
<1>1. \A j \in Outputs : j \in Nat /\ j # Done /\ (i + 1 \notin Outputs => j <= i)
  BY TurnFacts
<1>2. turn' = IF i + 1 \in Outputs THEN i + 1 ELSE Done
  BY DEF Pass
<1>3. ~Passed(i) /\ Passed(i)'
  BY <1>1, <1>2, SMT DEF Passed
<1>4. \A j \in Outputs \ {i} : Passed(j)' <=> Passed(j)
  BY <1>1, <1>2, SMT DEF Passed
<1> QED BY <1>3, <1>4 DEF Room

\* The turn of output i writes no channel of another, and no other pin.
LEMMA TurnWrites ==
  ASSUME TypeOK, NEW i \in Outputs, SkipDisabled(i) \/ StopOutput(i) \/ Drive(i)
  PROVE  /\ \A j \in Outputs \ {i} :
              /\ hw'.width[j] = hw.width[j] /\ on'[j] = on[j]
              /\ written'[j] = written[j] /\ last'[j] = last[j] /\ since'[j] = since[j]
         /\ \A p \in Pins : ~Uses(cfg, i, p) => hw'.level[p] = hw.level[p]
<1>1. hw \in Hardware /\ cfg[i] \in PwmOutput
  BY DEF TypeOK
<1>2. /\ on \in [Outputs -> BOOLEAN] /\ written \in [Outputs -> BOOLEAN]
      /\ last \in [Outputs -> Stamp] /\ since \in [Outputs -> 0 .. Horizon]
  BY DEF TypeOK
<1>3. CASE SkipDisabled(i)
  BY <1>3 DEF SkipDisabled
<1>4. CASE StopOutput(i)
  <2>1. /\ on' = [on EXCEPT ![i] = FALSE] /\ UNCHANGED <<written, last, since>>
        /\ hw' = IF on[i] THEN Detach(hw, i, cfg[i]) ELSE hw
        /\ cfg[i].mode # "DISABLED"
    BY <1>4 DEF StopOutput
  <2>2. hw'.width = hw.width /\ \A p \in Pins : p # cfg[i].pin => hw'.level[p] = hw.level[p]
    BY <1>1, <2>1, DetachFacts
  <2> QED BY <1>2, <2>1, <2>2 DEF Uses
<1>5. CASE Drive(i)
  <2>1. cfg[i].mode # "DISABLED" /\ on' = [on EXCEPT ![i] = TRUE]
    BY <1>5, DriveFacts
  <2>2. PICK g \in Hardware, wr \in BOOLEAN :
          /\ IF on[i] THEN g = hw ELSE g \in Attach(hw, i, cfg[i])
          /\ \/ /\ hw' = g /\ written' = [written EXCEPT ![i] = wr]
                /\ UNCHANGED <<last, since>>
             \/ /\ hw' = WriteTo(g, i, cfg[i], IF link THEN frame[cfg[i].source]
                                                       ELSE cfg[i].failsafe)
                /\ written' = [written EXCEPT ![i] = TRUE]
                /\ last' = [last EXCEPT ![i] = now]
                /\ since' = [since EXCEPT ![i] = 0]
    BY <1>5, DriveFacts
  <2>3. g.width = hw.width /\ g.level = hw.level
    BY <1>1, <2>1, <2>2, AttachFacts
  <2>4. /\ \A j \in Outputs \ {i} : hw'.width[j] = hw.width[j]
        /\ \A p \in Pins : p # cfg[i].pin => hw'.level[p] = hw.level[p]
    BY <1>1, <2>2, <2>3, SourceType, WriteFacts
  <2> QED BY <1>2, <2>1, <2>2, <2>4 DEF Uses
<1> QED BY <1>3, <1>4, <1>5

\* Where the link is good or the mode is FAILSAFE_VALUES, the turn of an
\* output writes it or finds it within its interval.
LEMMA DriveSettles ==
  ASSUME TypeOK, NEW i \in Outputs, Drive(i), OnTheWay(i)
  PROVE  OnTheWay(i)'
<1>1. /\ cfg[i].mode # "DISABLED" /\ ~Stopped /\ on' = [on EXCEPT ![i] = TRUE] /\ turn = i
      /\ UNCHANGED <<now, link, frame, cfg, mode, calm>> /\ Pass(i)
  BY DriveFacts DEF Drive, Pass
<1>2. on'[i] /\ ~Stopped'
  BY <1>1 DEF TypeOK, Stopped
<1>3. Room(i) = MaxStep /\ Room(i)' = 0 /\ Gap(i)' = Gap(i)
  BY <1>1, TurnPasses DEF Gap
<1>4. ASSUME link \/ mode = "FAILSAFE_VALUES"
      PROVE  InRhythm(i)' \/ HeldBack(i)' \/ calm' <= Room(i)'
  <2>1. PICK g \in Hardware, wr \in BOOLEAN :
          /\ IF on[i] THEN g = hw /\ wr = written[i] ELSE g \in Attach(hw, i, cfg[i]) /\ ~wr
          /\ \/ /\ Held \/ (wr /\ Age(i) < Gap(i))
                /\ hw' = g /\ written' = [written EXCEPT ![i] = wr]
                /\ UNCHANGED <<last, since>>
             \/ /\ ~Held
                /\ hw' = WriteTo(g, i, cfg[i], IF link THEN frame[cfg[i].source]
                                                       ELSE cfg[i].failsafe)
                /\ written' = [written EXCEPT ![i] = TRUE]
                /\ last' = [last EXCEPT ![i] = now]
                /\ since' = [since EXCEPT ![i] = 0]
    BY DriveFacts
  <2>2. ~Held
    BY <1>4 DEF Held
  <2>3. CASE /\ wr /\ Age(i) < Gap(i)
             /\ hw' = g /\ written' = [written EXCEPT ![i] = wr]
             /\ UNCHANGED <<last, since>>
    <3>1. on[i] /\ written[i] /\ hw' = hw /\ written'[i]
      BY <2>1, <2>3 DEF TypeOK
    <3>2. Age(i)' = Age(i) /\ Age(i)' < Gap(i)' + Room(i)'
      <4>1. Age(i)' = Age(i)
        BY <1>1, <2>3 DEF Age
      <4> QED BY <1>3, <2>3, <4>1, WayTypes, SMT
    <3>3. InRhythm(i) => InRhythm(i)'
      BY <1>1, <2>3, <3>1, <3>2 DEF InRhythm, AtFailsafe
    <3>4. HeldBack(i) \/ calm <= Room(i) => HeldBack(i)'
      <4>1. HeldBack(i) \/ calm <= Room(i) => calm' <= MaxStep + Age(i)'
        BY <1>1, <1>3, <3>2, WayTypes, SMT DEF HeldBack
      <4> QED BY <3>2, <4>1 DEF HeldBack
    <3> QED BY <1>1, <1>4, <3>3, <3>4 DEF OnTheWay
  <2>4. CASE /\ hw' = WriteTo(g, i, cfg[i], IF link THEN frame[cfg[i].source]
                                                    ELSE cfg[i].failsafe)
             /\ written' = [written EXCEPT ![i] = TRUE]
             /\ last' = [last EXCEPT ![i] = now]
             /\ since' = [since EXCEPT ![i] = 0]
    <3>1. written'[i] /\ last'[i] = now /\ since'[i] = 0
      BY <2>4 DEF TypeOK
    <3>2. Age(i)' = 0 /\ 0 < Gap(i)' + Room(i)'
      <4>1. Age(i)' = 0
        BY <1>1, <3>1, WayTypes, ElapsedSame DEF Age
      <4> QED BY <1>3, <4>1, WayTypes, SMT
    <3>3. ~link' => AtFailsafe(i)'
      <4>1. cfg[i] \in PwmOutput
        BY DEF TypeOK
      <4>2. cfg[i].failsafe \in Pulses
        BY <4>1, SectionFacts
      <4>3. ~cfg[i].invert => Width(cfg[i], cfg[i].failsafe) = cfg[i].failsafe
        BY <4>2, WidthKept
      <4> QED BY <1>1, <2>4, <4>1, <4>2, <4>3, WriteFacts DEF AtFailsafe
    <3> QED BY <3>1, <3>2, <3>3 DEF InRhythm
  <2> QED BY <2>1, <2>2, <2>3, <2>4
<1> QED BY <1>1, <1>2, <1>4 DEF OnTheWay

LEMMA WayTurns ==
  ASSUME TypeOK, WayInv, NEW i \in Outputs,
         SkipDisabled(i) \/ StopOutput(i) \/ Drive(i)
  PROVE  WayInv'
<1>1. /\ UNCHANGED <<now, link, cfg, mode, calm>> /\ turn = i /\ Pass(i)
  BY DEF SkipDisabled, StopOutput, Drive, Pass
<1>2. OnTheWay(i)'
  <2>1. CASE SkipDisabled(i)
    BY <1>1, <2>1 DEF SkipDisabled, OnTheWay
  <2>2. CASE StopOutput(i)
    <3>1. Stopped /\ on'[i] = FALSE
      BY <2>2 DEF StopOutput, TypeOK
    <3> QED BY <1>1, <3>1 DEF OnTheWay, Stopped
  <2>3. CASE Drive(i)
    BY <2>3, DriveSettles DEF WayInv
  <2> QED BY <2>1, <2>2, <2>3
<1>3. ASSUME NEW j \in Outputs \ {i}
      PROVE  OnTheWay(j)'
  <2>1. Room(j)' = Room(j)
    BY <1>1, TurnPasses
  <2>2. cfg[j] \in PwmOutput /\ cfg[j].pin \in Pins
    BY SectionFacts DEF TypeOK
  <2>3. /\ on'[j] = on[j] /\ written'[j] = written[j] /\ last'[j] = last[j]
        /\ since'[j] = since[j] /\ hw'.width[j] = hw.width[j]
    BY TurnWrites
  <2>4. (Stopped' <=> Stopped) /\ Age(j)' = Age(j) /\ Gap(j)' = Gap(j)
    BY <1>1, <2>3 DEF Stopped, Age, Gap
  <2>5. ASSUME cfg[j].mode # "DISABLED", j \notin Sharing(cfg)
        PROVE  hw'.level[cfg[j].pin] = hw.level[cfg[j].pin]
    <3>1. ~Uses(cfg, i, cfg[j].pin)
      BY <2>5 DEF Sharing, Uses
    <3> QED BY <2>2, <3>1, TurnWrites DEF Uses
  <2>6. cfg[j].mode # "DISABLED" /\ AtFailsafe(j) => AtFailsafe(j)'
    BY <1>1, <2>3, <2>5 DEF AtFailsafe
  <2> QED BY <1>1, <2>1, <2>3, <2>4, <2>6 DEF WayInv, OnTheWay, InRhythm, HeldBack
<1> QED BY <1>2, <1>3 DEF WayInv

LEMMA WayStep ==
  ASSUME TypeOK, WayInv, [Next]_vars
  PROVE  WayInv'
<1>1. ASSUME UNCHANGED <<now, link, turn, cfg, mode, on, written, last, hw, calm, since>>
      PROVE  WayInv'
  BY <1>1 DEF WayInv, OnTheWay, InRhythm, HeldBack, AtFailsafe, Stopped, Age, Gap, Room, Passed
<1>2. CASE UNCHANGED vars
  BY <1>1, <1>2 DEF vars, outputs
<1>3. CASE ServiceTask
  <2>1. calm' = 0 \/ \E s \in PwmConfigs : BeginApply(s)
    BY <1>3 DEF ServiceTask, Keep, Release, Reuse, SetFailsafeMode
  <2> QED BY <1>1, <2>1, NewlyChanged DEF BeginApply, outputs
<1> QED BY <1>2, <1>3, WayBegins, WayTurns DEF Next, OutputTask

\* An interval and an update after any change of link or settings every output
\* is off, held, live or written with the failsafe value configured for it
\* (exactly that one, except for an inverted servo and a switch that shares its
\* pin), for any number of outputs, whatever pins they share, and every interval
\* and width of the clock.
THEOREM UpdatesConverge == Spec => []PwmConverges
<1>1. TypeOK /\ WayInv => PwmConverges
  <2> SUFFICES ASSUME TypeOK, WayInv, NEW i \in Outputs,
                      cfg[i].mode # "DISABLED", turn = Done, calm >= Gap(i) + MaxStep
               PROVE  IF Stopped THEN ~on[i]
                      ELSE /\ on[i]
                           /\ ~Held => since[i] < Gap(i)
                           /\ (~link /\ ~Held) => AtFailsafe(i)
    BY DEF PwmConverges, Gap
  <2>1. OnTheWay(i) /\ Room(i) = 0
    BY DEF WayInv, Room, Passed
  <2>2. calm > Room(i) /\ ~(calm <= Room(i)) /\ ~HeldBack(i)
    BY <2>1, WayTypes, SMT DEF HeldBack
  <2>3. on[i] <=> ~Stopped
    BY <2>1, <2>2 DEF OnTheWay
  <2>4. ASSUME ~Stopped, ~Held
        PROVE  since[i] < Gap(i) /\ (~link => AtFailsafe(i))
    <3>1. mode \in {"HOLD_LAST", "STOP_PWM", "FAILSAFE_VALUES"}
      BY PwmAssumption DEF TypeOK
    <3>2. link \/ mode = "FAILSAFE_VALUES"
      BY <2>4, <3>1 DEF Stopped, Held
    <3>3. InRhythm(i)
      BY <2>1, <2>2, <3>2 DEF OnTheWay
    <3> QED BY <2>1, <3>3, WayTypes, SMT DEF InRhythm
  <2> QED BY <2>3, <2>4
<1>2. Init => WayInv
  BY NewlyChanged DEF Init
<1>3. TypeOK /\ WayInv /\ [Next]_vars => WayInv'
  BY WayStep
<1> QED BY <1>1, <1>2, <1>3, TypeCorrect, PTL DEF Spec
=============================================================================
