----------------------------- MODULE OutputManager -----------------------------
(***************************************************************************)
(* The frames to the flight controller (output/output_manager.cpp).        *)
(* outputTask calls update() with the frame and the link state it has just *)
(* copied; serviceTask calls setConfig() and setFailsafe() when the web UI *)
(* saved a configuration.  wire, since, calm, finals and liveFrame are     *)
(* history variables: what the flight controller and a stopwatch see.      *)
(***************************************************************************)
EXTENDS WrapClock, RcFrame

CONSTANTS
  Interval,       \* frameIntervalMs: 4 CRSF, 14 SBUS, 20 MAVLINK, 0 NONE
  Received,       \* the frames the receivers deliver
  OutputConfigs,  \* the OutputConfig records that can be set
  FailsafeSets,   \* the failsafe_channels arrays that can be set
  MaxStep,        \* the largest number of milliseconds between two updates
  Horizon         \* where the stopwatch stops counting

Protocols == {"NONE", "CRSF", "SBUS", "MAVLINK"}
Modes == {"HOLD_LAST", "STOP_PWM", "FAILSAFE_VALUES"}

\* wire stands for the UART settings: baud, pins and inversion.
OutputConfig == [protocol : Protocols, wire : STRING, map : [Channels -> 0 .. 255]]

ASSUME OutputAssumption ==
  /\ Received \subseteq RcFrames
  /\ OutputConfigs \subseteq OutputConfig
  /\ FailsafeSets \subseteq [Channels -> Nat]

\* The stopwatch counts past an interval and an update, and an update is
\* never so late that millis() wraps within one interval.
ASSUME OutputClockAssumption ==
  /\ MaxStep \in Nat /\ Horizon \in Nat
  /\ Interval \in [Protocols -> Nat]
  /\ \A p \in Protocols : /\ Interval[p] = 0 <=> p = "NONE"
                         /\ Interval[p] + MaxStep < Horizon
                         /\ Interval[p] + MaxStep <= Wrap

VARIABLES
  now,        \* millis() at the last update
  cfg,        \* cfg_, and with cfg.map the state of mapper_
  mode,       \* failsafe_mode_
  values,     \* failsafe_values_
  lastGood,   \* last_good_frame_
  hasGood,    \* has_last_good_frame_
  lastSend,   \* last_send_ms_
  hasSent,    \* has_sent_once_
  stopSent,   \* stop_pwm_flag_sent_
  sbusFlag,   \* SbusGenerator::failsafe_ of sbus_
  link,       \* link_valid, as the last update was given it
  wire,       \* the last frame written to the UART
  since,      \* real time since it was written
  calm,       \* real time since the link or the configuration changed
  finals,     \* frames sent under STOP_PWM in this outage, on this UART
  liveFrame   \* the last frame written while the link was valid

settings == <<cfg, mode, values>>
sending == <<lastGood, hasGood, lastSend, hasSent, stopSent, sbusFlag>>
stopwatch == <<link, wire, since, calm, finals, liveFrame>>
vars == <<now, settings, sending, stopwatch>>

Sbus == cfg.protocol = "SBUS"
Count(x, d) == IF x + d < Horizon THEN x + d ELSE Horizon

-----------------------------------------------------------------------------
(* The cases of OutputManager::update, at time t, d milliseconds after the *)
(* update before.                                                          *)

\* Mutant: the rate limit lets a frame out one millisecond early.
ThrottledEarly(t) ==
  \/ Interval[cfg.protocol] = 0
  \/ hasSent /\ Elapsed(t, lastSend) + 1 < Interval[cfg.protocol]

\* Mutant: the rate limit is a millisecond longer than the interval.
ThrottledLate(t) ==
  \/ Interval[cfg.protocol] = 0
  \/ hasSent /\ Elapsed(t, lastSend) <= Interval[cfg.protocol]

Throttled(t) ==
  \/ Interval[cfg.protocol] = 0
  \/ hasSent /\ Elapsed(t, lastSend) < Interval[cfg.protocol]

\* encode and uart_.write: f goes out in the format of the protocol, with
\* the SBUS failsafe bit given.
Write(t, d, f, l, flag) ==
  /\ lastSend' = t
  /\ hasSent' = TRUE
  /\ wire' = [frame |-> f, protocol |-> cfg.protocol, flagged |-> Sbus /\ flag,
              mode |-> mode, link |-> l, gap |-> Count(since, d)]
  /\ since' = 0

NoWrite(d) ==
  /\ UNCHANGED <<lastSend, hasSent, wire>>
  /\ since' = Count(since, d)

\* Nothing is due: not even the link is looked at.
Wait(t, d) ==
  /\ Throttled(t)
  /\ NoWrite(d)
  /\ UNCHANGED <<lastGood, hasGood, stopSent, sbusFlag, finals, liveFrame>>

\* Mutant: the last good frame is kept before the channel map is applied.
SendLiveUnmapped(t, d, f) ==
  /\ ~Throttled(t)
  /\ stopSent' = FALSE
  /\ lastGood' = f
  /\ hasGood' = TRUE
  /\ Write(t, d, Mapped(cfg.map, f), TRUE, sbusFlag)
  /\ sbusFlag' = (sbusFlag /\ ~Sbus)
  /\ finals' = 0
  /\ liveFrame' = Mapped(cfg.map, f)

\* Mutant: the stop latch survives the return of the link.
SendLiveKeepsLatch(t, d, f) ==
  /\ ~Throttled(t)
  /\ lastGood' = Mapped(cfg.map, f)
  /\ hasGood' = TRUE
  /\ Write(t, d, lastGood', TRUE, sbusFlag)
  /\ sbusFlag' = (sbusFlag /\ ~Sbus)
  /\ finals' = 0
  /\ liveFrame' = lastGood'
  /\ UNCHANGED stopSent

\* Mutant: the failsafe bit of the generator is never cleared.
SendLiveKeepsFlag(t, d, f) ==
  /\ ~Throttled(t)
  /\ stopSent' = FALSE
  /\ lastGood' = Mapped(cfg.map, f)
  /\ hasGood' = TRUE
  /\ Write(t, d, lastGood', TRUE, sbusFlag)
  /\ finals' = 0
  /\ liveFrame' = lastGood'
  /\ UNCHANGED sbusFlag

\* The link is valid.  The SBUS failsafe bit is cleared after this frame was
\* encoded, so the first one may still carry it.
SendLive(t, d, f) ==
  /\ ~Throttled(t)
  /\ stopSent' = FALSE
  /\ lastGood' = Mapped(cfg.map, f)
  /\ hasGood' = TRUE
  /\ Write(t, d, lastGood', TRUE, sbusFlag)
  /\ sbusFlag' = (sbusFlag /\ ~Sbus)
  /\ finals' = 0
  /\ liveFrame' = lastGood'

SendHold(t, d) ==
  /\ ~Throttled(t)
  /\ mode = "HOLD_LAST"
  /\ Write(t, d, IF hasGood THEN lastGood ELSE Centred, FALSE, sbusFlag)
  /\ UNCHANGED <<lastGood, hasGood, stopSent, sbusFlag, finals, liveFrame>>

SendValues(t, d) ==
  /\ ~Throttled(t)
  /\ mode = "FAILSAFE_VALUES"
  /\ Write(t, d, [c \in Channels |-> ClampPulse(values[c])], FALSE, sbusFlag)
  /\ UNCHANGED <<lastGood, hasGood, stopSent, sbusFlag, finals, liveFrame>>

\* Mutant: nothing latches the final frame.
SendFinalAgain(t, d, f) ==
  /\ ~Throttled(t)
  /\ mode = "STOP_PWM"
  /\ ~stopSent
  /\ sbusFlag' = (sbusFlag \/ Sbus)
  /\ Write(t, d, IF hasGood THEN lastGood ELSE f, FALSE, sbusFlag')
  /\ finals' = finals + 1
  /\ UNCHANGED <<lastGood, hasGood, stopSent, liveFrame>>

\* The one frame of STOP_PWM before silence.
SendFinal(t, d, f) ==
  /\ ~Throttled(t)
  /\ mode = "STOP_PWM"
  /\ ~stopSent
  /\ stopSent' = TRUE
  /\ sbusFlag' = (sbusFlag \/ Sbus)
  /\ Write(t, d, IF hasGood THEN lastGood ELSE f, FALSE, sbusFlag')
  /\ finals' = finals + 1
  /\ UNCHANGED <<lastGood, hasGood, liveFrame>>

\* STOP_PWM after its final frame.
StaySilent(t, d) ==
  /\ ~Throttled(t)
  /\ mode = "STOP_PWM"
  /\ stopSent
  /\ NoWrite(d)
  /\ sbusFlag' = (sbusFlag /\ ~Sbus)
  /\ UNCHANGED <<lastGood, hasGood, stopSent, finals, liveFrame>>

\* OutputManager::update.  Without a link ReceiverManager::activeFrame is the
\* centred empty_frame_.
Update(d, l, f) ==
  /\ now' = Later(now, d)
  /\ l \/ f = Centred
  /\ \/ Wait(now', d)
     \/ l /\ SendLive(now', d, f)
     \/ ~l /\ (\/ SendHold(now', d)
               \/ SendValues(now', d)
               \/ SendFinal(now', d, f)
               \/ StaySilent(now', d))
  /\ link' = l
  /\ calm' = IF l = link THEN Count(calm, d) ELSE 0
  /\ UNCHANGED settings

\* applyUartConfig and what setConfig resets with it.
Rebegin(c) ==
  IF c.protocol # cfg.protocol \/ c.wire # cfg.wire
  THEN stopSent' = FALSE /\ finals' = 0
  ELSE UNCHANGED <<stopSent, finals>>

SetConfig(c) ==
  /\ cfg' = c
  /\ Rebegin(c)
  /\ calm' = 0
  /\ UNCHANGED <<now, mode, values, lastGood, hasGood, lastSend, hasSent,
                 sbusFlag, link, wire, since, liveFrame>>

SetFailsafe(m, v) ==
  /\ mode' = m
  /\ values' = v
  /\ calm' = 0
  /\ UNCHANGED <<now, cfg, sending, link, wire, since, finals, liveFrame>>

-----------------------------------------------------------------------------
NothingWritten == [frame |-> Centred, protocol |-> "NONE", flagged |-> FALSE,
                   mode |-> "HOLD_LAST", link |-> FALSE, gap |-> Horizon]

\* After OutputManager::begin and setFailsafe in App::setup.
Init ==
  /\ now = 0
  /\ cfg \in OutputConfigs
  /\ mode \in Modes
  /\ values \in FailsafeSets
  /\ lastGood = Centred
  /\ hasGood = FALSE
  /\ lastSend = 0
  /\ hasSent = FALSE
  /\ stopSent = FALSE
  /\ sbusFlag = FALSE
  /\ link = FALSE
  /\ wire = NothingWritten
  /\ since = Horizon
  /\ calm = 0
  /\ finals = 0
  /\ liveFrame = Centred

Next ==
  \/ \E d \in 0 .. MaxStep, l \in BOOLEAN : \E f \in Received : Update(d, l, f)
  \/ \E c \in OutputConfigs : SetConfig(c)
  \/ \E m \in Modes, v \in FailsafeSets : SetFailsafe(m, v)

Spec == Init /\ [][Next]_vars

-----------------------------------------------------------------------------
TypeOK ==
  /\ now \in Stamp /\ lastSend \in Stamp
  /\ cfg \in OutputConfigs
  /\ mode \in Modes
  /\ values \in FailsafeSets
  /\ lastGood \in RcFrames /\ liveFrame \in RcFrames
  /\ hasGood \in BOOLEAN /\ hasSent \in BOOLEAN /\ stopSent \in BOOLEAN
  /\ sbusFlag \in BOOLEAN /\ link \in BOOLEAN
  /\ wire \in [frame : RcFrames, protocol : Protocols, flagged : BOOLEAN,
               mode : Modes, link : BOOLEAN, gap : 0 .. Horizon]
  /\ since \in 0 .. Horizon /\ calm \in 0 .. Horizon
  /\ finals \in Nat

\* No two frames are closer in real time than the frame interval of the
\* protocol the second one went out in, whatever the clock does and even when
\* the protocol changed between them (the rate limit of update()).
RateKept == hasSent => wire.gap >= Interval[wire.protocol]

\* STOP_PWM is silent exactly when one final frame went out in this outage
\* and on this UART (output_manager.cpp:135): no change of the failsafe mode
\* or of the channel map, and no return of the link too short to be seen,
\* brings a second one or the silence without it.
OneFinalFrame == finals = IF stopSent THEN 1 ELSE 0

\* A frame was written within the last frame interval.
Flowing == since < Interval[cfg.protocol]

\* The flight controller is being told what the failsafe mode asks for.
FailsafeReached ==
  /\ mode = "HOLD_LAST" => Flowing /\ ~wire.link /\ wire.frame = liveFrame
  /\ mode = "FAILSAFE_VALUES"
       => Flowing /\ ~wire.link /\ wire.frame = [c \in Channels |-> ClampPulse(values[c])]
  /\ mode = "STOP_PWM" => stopSent

\* "Failsafe must always converge ... and recovery must be automatic" within
\* one update and one frame interval of the last change of the link or of the
\* configuration: from then on the flight controller gets what the failsafe
\* mode asks for, or live frames, one in every interval
\* (2026-08-03-esp32-rc-router.md:25).
OutputConverges ==
  (cfg.protocol # "NONE" /\ calm >= Interval[cfg.protocol] + MaxStep)
    => IF link THEN Flowing /\ wire.link ELSE FailsafeReached

\* The rate limit never takes less real time for more: what makes RateKept
\* inductive.
SendTimed ==
  IF hasSent THEN since = Horizon \/ Elapsed(now, lastSend) <= since
             ELSE since = Horizon

\* What the flight controller gets is what was asked for, and flows.
Settled ==
  /\ (link \/ mode # "STOP_PWM")
       => /\ hasSent
          /\ Flowing
          /\ since = Elapsed(now, lastSend)
          /\ wire.link = link
  /\ ~link => FailsafeReached

\* The next frame is still held back by the rate limit.
HeldBack ==
  /\ hasSent
  /\ Elapsed(now, lastSend) < Interval[cfg.protocol]
  /\ calm <= MaxStep + Elapsed(now, lastSend)

\* The inductive invariant of OutputManager: the rate limit's clock is sound,
\* the latch counts, the held frame is the last live one, and a change of the
\* link or the configuration is settled, or held back, or new.
OutputInv ==
  /\ RateKept
  /\ SendTimed
  /\ OneFinalFrame
  /\ lastGood = liveFrame
  /\ hasGood \/ lastGood = Centred
  /\ cfg.protocol # "NONE" => Settled \/ HeldBack \/ calm = 0

\* A frame of a valid link carries the SBUS failsafe bit only when the frame
\* before it was not such a frame: the bit of the final frame of STOP_PWM
\* outlives the outage by one frame at most ("clear the failsafe flag once we
\* resume normal transmission", output_manager.cpp:160).
FlagIsCleared ==
  [][ (/\ <<lastSend, hasSent>>' # <<lastSend, hasSent>>
       /\ wire'.link /\ wire'.flagged)
      => ~(wire.link /\ wire.protocol = "SBUS") ]_vars
=============================================================================
