------------------------------ MODULE PwmManager ------------------------------
(***************************************************************************)
(* The direct servo and switch outputs (pwm/pwm_manager.cpp) over the      *)
(* ESP32's LEDC channels and GPIO pins (hal/gpio_output.cpp).  outputTask  *)
(* calls update(), which takes the outputs one after the other;            *)
(* serviceTask, on the other core, calls setConfig() for one output after  *)
(* the other and setFailsafeMode().  No lock separates them, so an update  *)
(* can come between the release of an output and its new configuration.    *)
(***************************************************************************)
EXTENDS WrapClock, RcFrame

CONSTANTS
  Outputs,     \* 0 .. PWM_PIN_COUNT - 1; output i owns LEDC channel i
  Pins,        \* the pins they can be given
  Interval,    \* Interval[r]: the write interval of update rate r
  PwmConfigs,  \* the pwm sections that can be saved
  PwmModes,    \* the failsafe modes that can be saved
  Received,    \* the frames the receivers deliver
  MaxStep,     \* the largest number of milliseconds between two updates
  Horizon      \* where the stopwatch stops counting

\* PWMPinConfig.
PwmOutput ==
  [mode : {"DISABLED", "SERVO", "SWITCH"}, pin : Pins, source : Channels,
   rate : DOMAIN Interval, invert : BOOLEAN, threshold : Nat,
   activeHigh : BOOLEAN, failsafe : Pulses]

ASSUME PwmAssumption ==
  /\ Outputs \subseteq Nat /\ \E n \in Outputs : Outputs = 0 .. n
  /\ Received \subseteq RcFrames
  /\ PwmModes \subseteq {"HOLD_LAST", "STOP_PWM", "FAILSAFE_VALUES"}
  /\ PwmConfigs \subseteq [Outputs -> PwmOutput]

\* The stopwatches count past every interval, and no update is so late that
\* the clock wraps within one.
ASSUME PwmClockAssumption ==
  /\ MaxStep \in Nat /\ Horizon \in Nat
  /\ \A r \in DOMAIN Interval :
       /\ Interval[r] \in Nat \ {0}
       /\ Interval[r] + MaxStep < Horizon
       /\ Interval[r] + MaxStep <= Wrap

VARIABLES
  now,      \* millis() at this update
  link,     \* link_valid, as this update was given it
  frame,    \* the frame it was given
  turn,     \* the output update() takes next, or Done
  cfg,      \* cfg_[]
  mode,     \* failsafe_mode_
  on,       \* output_active_[]
  written,  \* has_written_[]
  last,     \* last_write_ms_[]
  hw,       \* the pins and the channels
  svc,      \* what serviceTask does next: <<step, output>>
  target,   \* the section being applied
  calm,     \* history: real time since link or configuration changed
  since,    \* history: since[i], real time since output i was written
  crossed   \* history: the outputs whose pin is in doubt, see Rivals

outputs == <<cfg, on, written, last, hw>>
service == <<svc, target>>
vars == <<now, link, frame, turn, mode, outputs, service, calm, since, crossed>>

Idle == <<"idle", 0>>
Done == -1
Free == -1
Gpio == -2
Count(x, d) == IF x + d < Horizon THEN x + d ELSE Horizon

-----------------------------------------------------------------------------
(* The pins.  hw.bus[p] is what drives pin p: a channel, Gpio or Free.     *)
(* hw.pin is the pin Esp32GpioOutput remembers for each channel,           *)
(* hw.width the pulse width it was last given, hw.level the GPIO levels.   *)

Hardware == [bus : [Pins -> Outputs \cup {Free, Gpio}], pin : [Outputs -> Pins],
             width : [Outputs -> Pulses \cup {0}], level : [Pins -> BOOLEAN]]

\* ledcAttachChannel on a pin that another channel drives either takes the
\* pin over or refuses it; attachPwm does not look at its answer.
AttachPwm(h, i, c) ==
  LET noted == [h EXCEPT !.pin[i] = c.pin]
  IN  {[noted EXCEPT !.bus[c.pin] = i]}
        \cup (IF h.bus[c.pin] \in Outputs THEN {noted} ELSE {})

AttachDigital(h, c) == [h EXCEPT !.bus[c.pin] = Gpio]

\* attachOutput never fails on the target: the hardware states it can leave.
Attach(h, i, c) ==
  IF c.mode = "SERVO" THEN AttachPwm(h, i, c) ELSE {AttachDigital(h, c)}

WriteDigital(h, p, level) == [h EXCEPT !.level[p] = level]

\* writePulseUs, up to the resolution of the duty cycle.  Its test of
\* attached_[i] never fails: a servo is only written while on[i].
WritePulse(h, i, us) == [h EXCEPT !.width[i] = us]

\* Mutant: a servo's pulses go on.
DetachKeepsPulses(h, i, c) ==
  IF c.mode = "SERVO" THEN h ELSE WriteDigital(h, c.pin, FALSE)

\* detachOutput.  ledcDetach frees the pin the channel was attached to,
\* whichever channel drives it by now.
Detach(h, i, c) ==
  IF c.mode = "SERVO"
  THEN IF h.bus[h.pin[i]] \in Outputs THEN [h EXCEPT !.bus[h.pin[i]] = Free] ELSE h
  ELSE WriteDigital(h, c.pin, FALSE)

\* The pulse width of a servo for the source value us.
Width(c, us) == ClampPulse(IF c.invert THEN PulseMin + PulseMax - us ELSE us)

Level(c, us) == (us >= c.threshold) = c.activeHigh

\* writeOutput.
WriteTo(h, i, c, us) ==
  IF c.mode = "SERVO" THEN WritePulse(h, i, Width(c, us))
                      ELSE WriteDigital(h, c.pin, Level(c, us))

-----------------------------------------------------------------------------
(* outputTask.                                                             *)

\* A new update(), d milliseconds after the one before.
BeginUpdate(d, l, f) ==
  /\ turn = Done
  /\ now' = Later(now, d)
  /\ link' = l /\ frame' = f
  /\ turn' = 0
  /\ calm' = IF l = link THEN Count(calm, d) ELSE 0
  /\ since' = [i \in Outputs |-> Count(since[i], d)]
  /\ UNCHANGED <<mode, outputs, service, crossed>>

\* Mutant: the loop over the outputs goes one past the last.
PassTooFar(i) ==
  /\ turn' = IF i \in Outputs THEN i + 1 ELSE Done
  /\ crossed' = IF svc = <<"reuse", i>> THEN crossed \cup {i} ELSE crossed
  /\ UNCHANGED <<now, link, frame, cfg, mode, service, calm>>

\* The turn of output i is over.
Pass(i) ==
  /\ turn' = IF i + 1 \in Outputs THEN i + 1 ELSE Done
  /\ crossed' = IF svc = <<"reuse", i>> THEN crossed \cup {i} ELSE crossed
  /\ UNCHANGED <<now, link, frame, cfg, mode, service, calm>>

Stopped == ~link /\ mode = "STOP_PWM"
Held == ~link /\ mode = "HOLD_LAST"

SkipDisabled(i) ==
  /\ turn = i
  /\ cfg[i].mode = "DISABLED"
  /\ Pass(i)
  /\ UNCHANGED <<on, written, last, hw, since>>

StopOutput(i) ==
  /\ turn = i
  /\ cfg[i].mode # "DISABLED"
  /\ Stopped
  /\ hw' = IF on[i] THEN Detach(hw, i, cfg[i]) ELSE hw
  /\ on' = [on EXCEPT ![i] = FALSE]
  /\ Pass(i)
  /\ UNCHANGED <<written, last, since>>

\* An output that is off is attached again before anything else: wr and hs
\* are has_written_ and the hardware once it is.
Recovered(i, wr, h) ==
  IF on[i] THEN wr = written[i] /\ h = hw
           ELSE wr = FALSE /\ h \in Attach(hw, i, cfg[i])

\* Mutant: an output that was stopped stays off.
DriveOnly(i) ==
  /\ turn = i
  /\ cfg[i].mode # "DISABLED"
  /\ ~Stopped
  /\ hw' = IF on[i] /\ ~Held
           THEN WriteTo(hw, i, cfg[i], IF link THEN frame[cfg[i].source]
                                               ELSE cfg[i].failsafe)
           ELSE hw
  /\ since' = IF on[i] /\ ~Held THEN [since EXCEPT ![i] = 0] ELSE since
  /\ Pass(i)
  /\ UNCHANGED <<on, written, last>>

Drive(i) ==
  /\ turn = i
  /\ cfg[i].mode # "DISABLED"
  /\ ~Stopped
  /\ \E wr \in BOOLEAN, h \in {hw} \cup Attach(hw, i, cfg[i]) :
       /\ Recovered(i, wr, h)
       /\ IF Held \/ (wr /\ Elapsed(now, last[i]) < Interval[cfg[i].rate])
          THEN /\ hw' = h
               /\ written' = [written EXCEPT ![i] = wr]
               /\ UNCHANGED <<last, since>>
          ELSE /\ hw' = WriteTo(h, i, cfg[i], IF link THEN frame[cfg[i].source]
                                                      ELSE cfg[i].failsafe)
               /\ written' = [written EXCEPT ![i] = TRUE]
               /\ last' = [last EXCEPT ![i] = now]
               /\ since' = [since EXCEPT ![i] = 0]
  /\ on' = [on EXCEPT ![i] = TRUE]
  /\ Pass(i)

OutputTask ==
  \/ \E d \in 0 .. MaxStep, l \in BOOLEAN, f \in Received : BeginUpdate(d, l, f)
  \/ \E i \in Outputs : SkipDisabled(i) \/ StopOutput(i) \/ Drive(i)

-----------------------------------------------------------------------------
(* serviceTask: the pwm part of App::applyConfigToModules.                 *)

BeginApply(s) ==
  /\ svc = Idle
  /\ target' = s
  /\ svc' = <<"release", 0>>
  /\ UNCHANGED <<now, link, frame, turn, mode, outputs, calm, since, crossed>>

Following(i) == IF i + 1 \in Outputs THEN <<"release", i + 1>> ELSE <<"mode", 0>>

\* setConfig(i) where neither mode nor pin changes.
Keep(i) ==
  /\ svc = <<"release", i>>
  /\ cfg[i].mode = target[i].mode /\ cfg[i].pin = target[i].pin
  /\ cfg' = [cfg EXCEPT ![i] = target[i]]
  /\ svc' = Following(i)
  /\ calm' = 0
  /\ UNCHANGED <<now, link, frame, turn, mode, on, written, last, hw, target, since, crossed>>

\* setConfig(i), first half: the old mode lets go of the old pin.
Release(i) ==
  /\ svc = <<"release", i>>
  /\ cfg[i].mode # target[i].mode \/ cfg[i].pin # target[i].pin
  /\ IF cfg[i].mode = "DISABLED" THEN UNCHANGED <<on, hw>>
     ELSE on' = [on EXCEPT ![i] = FALSE] /\ hw' = Detach(hw, i, cfg[i])
  /\ svc' = <<"reuse", i>>
  /\ calm' = 0
  /\ UNCHANGED <<now, link, frame, turn, cfg, mode, written, last, target, since, crossed>>

\* Output i of section c is in use, on pin p.
Uses(c, i, p) == c[i].mode # "DISABLED" /\ c[i].pin = p

\* The outputs that have pin p, or whose channel drives it, as output i is
\* given it.  Nothing keeps two outputs off one pin (pwmFromJson stores any
\* number), and an output that moves to the pin of a later one takes it before
\* that one is moved.
Rivals(i, p) ==
  {j \in Outputs \ {i} : hw.bus[p] = j \/ Uses(cfg, j, p)}

\* Output i and its rivals are in doubt from then on.  An output leaves them
\* when it is given a pin without rivals while its channel drives none.
Crossing(i) ==
  LET rivals == IF target[i].mode = "DISABLED" THEN {} ELSE Rivals(i, target[i].pin)
  IN  IF rivals # {} THEN crossed \cup rivals \cup {i}
      ELSE IF \A p \in Pins : hw.bus[p] # i THEN crossed \ {i}
      ELSE crossed

\* setConfig(i), second half.
Reuse(i) ==
  /\ svc = <<"reuse", i>>
  /\ cfg' = [cfg EXCEPT ![i] = target[i]]
  /\ written' = [written EXCEPT ![i] = FALSE]
  /\ on' = [on EXCEPT ![i] = target[i].mode # "DISABLED"]
  /\ IF target[i].mode = "DISABLED" THEN UNCHANGED hw
     ELSE hw' \in Attach(hw, i, target[i])
  /\ svc' = Following(i)
  /\ crossed' = Crossing(i)
  /\ calm' = 0
  /\ UNCHANGED <<now, link, frame, turn, mode, last, target, since>>

SetFailsafeMode(m) ==
  /\ svc = <<"mode", 0>>
  /\ mode' = m
  /\ svc' = Idle
  /\ calm' = 0
  /\ UNCHANGED <<now, link, frame, turn, outputs, target, since, crossed>>

ServiceTask ==
  \/ \E s \in PwmConfigs : BeginApply(s)
  \/ \E i \in Outputs : Keep(i) \/ Release(i) \/ Reuse(i)
  \/ \E m \in PwmModes : SetFailsafeMode(m)

-----------------------------------------------------------------------------
\* The outputs that share a pin with another one in section c.
Sharing(c) ==
  {i \in Outputs : \E j \in Outputs \ {i} : Uses(c, i, c[i].pin) /\ Uses(c, j, c[i].pin)}

\* What can drive pin p once PwmManager::begin attached the outputs of c in
\* order: a servo after the last switch, whichever of them got it.
AttachedBus(c, p) ==
  LET on_p(m) == {i \in Outputs : c[i].mode = m /\ c[i].pin = p}
      servos == {i \in on_p("SERVO") : \A j \in on_p("SWITCH") : j < i}
  IN  IF servos # {} THEN servos
      ELSE IF on_p("SWITCH") # {} THEN {Gpio} ELSE {Free}

Init ==
  /\ now = 0
  /\ link = FALSE /\ frame = Centred
  /\ turn = Done
  /\ target \in PwmConfigs /\ cfg = target
  /\ mode \in PwmModes
  /\ on = [i \in Outputs |-> cfg[i].mode # "DISABLED"]
  /\ written = [i \in Outputs |-> FALSE]
  /\ last = [i \in Outputs |-> 0]
  /\ \E bus \in [Pins -> Outputs \cup {Free, Gpio}] :
       /\ \A p \in Pins : bus[p] \in AttachedBus(cfg, p)
       /\ hw = [bus |-> bus,
                pin |-> [i \in Outputs |-> cfg[i].pin],
                width |-> [i \in Outputs |-> 0],
                level |-> [p \in Pins |-> FALSE]]
  /\ svc = Idle
  /\ calm = 0
  /\ since = [i \in Outputs |-> Horizon]
  /\ crossed = Sharing(cfg)

Next == OutputTask \/ ServiceTask

Spec == Init /\ [][Next]_vars

-----------------------------------------------------------------------------
TypeOK ==
  /\ now \in Stamp /\ last \in [Outputs -> Stamp]
  /\ link \in BOOLEAN /\ frame \in RcFrames
  /\ turn \in Outputs \cup {Done}
  /\ cfg \in [Outputs -> PwmOutput]
  /\ \A i \in Outputs : \E s \in PwmConfigs : cfg[i] = s[i]
  /\ target \in PwmConfigs /\ mode \in PwmModes
  /\ on \in [Outputs -> BOOLEAN] /\ written \in [Outputs -> BOOLEAN]
  /\ hw \in Hardware
  /\ svc \in {"release", "reuse"} \X Outputs \cup {Idle, <<"mode", 0>>}
  /\ calm \in 0 .. Horizon /\ since \in [Outputs -> 0 .. Horizon]
  /\ crossed \subseteq Outputs

\* Whatever is saved, in whatever order and however updates come in between:
\* a servo that is switched on pulses on its own pin and on no other, and an
\* output that is off, disabled, a switch or being moved pulses on none ("live
\* re-apply of any config the web UI just saved", app.cpp:324).  So two
\* outputs may hand a pin on, as long as the one that had it goes first.  The
\* exceptions are the outputs in crossed, where the code fails: one that an
\* update() met between its release and its reuse, and attached to its old pin
\* again; one that was given a pin another output still had, and that other
\* one: two servos that exchange their pins in one save are among them, and
\* one of those falls silent.  They end when the output is next given a pin of
\* its own while its channel drives none.
PinsFollow ==
  \A i \in Outputs \ crossed, p \in Pins :
    svc # <<"reuse", i>>
      => (hw.bus[p] = i <=> on[i] /\ cfg[i].mode = "SERVO" /\ cfg[i].pin = p)

\* A servo carries exactly the failsafe_us it was configured with, a switch
\* the level that makes of it.  An inverted servo is excepted: the code mirrors
\* its failsafe_us like a stick, where the checklist wants the exact value of
\* "every output channel" (test/system/CHECKLIST.md:81-82).  So is a switch
\* that shares its pin with another output in use.
AtFailsafe(i) ==
  IF cfg[i].mode = "SERVO" THEN cfg[i].invert \/ hw.width[i] = cfg[i].failsafe
  ELSE i \in Sharing(cfg) \/ hw.level[cfg[i].pin] = Level(cfg[i], cfg[i].failsafe)

\* "Failsafe must always converge ... and recovery must be automatic"
\* (2026-08-03-esp32-rc-router.md:25) for the direct outputs: an interval and
\* an update after the last change of link or configuration every output is
\* off under STOP_PWM, on under HOLD_LAST, with the link back written in every
\* interval, and under FAILSAFE_VALUES written too, with the value configured
\* for it, apart from an inverted servo and a shared pin (AtFailsafe).
PwmConverges ==
  \A i \in Outputs :
    (cfg[i].mode # "DISABLED" /\ turn = Done
       /\ calm >= Interval[cfg[i].rate] + MaxStep)
      => IF Stopped THEN ~on[i]
         ELSE /\ on[i]
              /\ ~Held => since[i] < Interval[cfg[i].rate]
              /\ (~link /\ ~Held) => AtFailsafe(i)
=============================================================================
