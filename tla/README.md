# A verification project for esp32-rc-router

The firmware in `src/src/` takes the frames of two RC receivers (CRSF, SBUS or
MAVLink), picks one of them, and gives it to a flight controller over a UART
and to four servo or switch outputs. It is configured over a web page while it
runs. This directory holds TLA+ models of the parts that decide, the TLC
configurations that check them, and proofs, checked by TLAPS, of what matters
most.

* `PROJECT.json` maps every definition to the lines it models, and lists the
  runs, the mutants each property detects, the findings, hazards and theorems.
* To check a run: `tlc -config <run>.cfg <Module>`. To check the proofs:
  `tlapm <Module>Proofs.tla`.

Paths below are relative to `src/src/` unless they start with `test/`, `data/`
or `docs/`, which are directories of the repository.

## 1. The system

### Tasks and shared state

| Task | Runs | Does | Shares |
|---|---|---|---|
| `rxTask` | core 1, priority 5, every 1 ms | `ReceiverManager::update`, then publishes the winning frame | `shared_frame_` (spinlock), the ports |
| `outputTask` | core 1, priority 5, every frame interval | copies `shared_frame_`, then `OutputManager::update`, `PwmManager::update` | `shared_frame_` (spinlock) |
| `serviceTask` | core 0, priority 1, every 20 ms | voltage, telemetry, `applyPending`, `applyConfigToModules`, status snapshot, LED | everything, without a lock |
| AsyncWebServer | its own task | HTTP handlers | `pending_config_`, `pending_`, `config_`, without a lock |

The only lock in the program is the spinlock around `shared_frame_`. The rest
relies on word-sized flags and on the order of assignments (web/web_server.h:24-31).

### Components

| Component | State | Operations | What makes it correct |
|---|---|---|---|
| Receiver port (`receiver/receiver_port`) | configuration, `began_`, the parsers | `begin`, `setConfig`, `update`, `isAlive` | alive only if frames came recently; no valid frame without a link |
| Parsers (`protocols/*/…_parser`) | buffers, frame, link quality, telemetry ring | `push`, `tick`, `reset`, telemetry | accept exactly the valid frames; drop the link when silent |
| Selection (`receiver/receiver_manager`) | state, active port and its time, challenger and its time | `update`, `setConfig` | active iff something is alive; switches neither early, late nor never |
| Output (`output/output_manager`) | settings, last good frame, send time, STOP_PWM latch, SBUS flag | `update`, `setConfig`, `setFailsafe` | frame rate; failsafe reached and left in bounded time |
| PWM (`pwm/pwm_manager`, `hal/gpio_output`) | per output: configuration, active, last write; channels and pins | `update`, `setConfig`, `setFailsafeMode` | no stray pulse, no silent servo, same convergence |
| Configuration (`config/*`, `web/web_server`) | `config_`, NVS blob, `pending_config_`, `pending_` | POST handlers, `applyPending`, `save`, `load`, `factoryReset` | an accepted setting is kept; a boot finds a good blob |
| JSON (`web/config_json`) | none | `xxxFromJson`, `xxxToJson` | what is stored is usable, whatever number is posted; what is shown can be sent back |
| Application (`app/app`) | `shared_frame_`, status snapshot | the task loops, `applyConfigToModules` | silence and live links reach the flight controller in time; no task crashes |
| Telemetry (`telemetry/telemetry_router`, the rings of the parsers) | per parser a ring with head and count; override, last injection, three counters | `enqueueTelemetry`, `popTelemetry`, `update`, `setVoltageOverride` | a full ring gives up its oldest packet only; each packet is counted once; injections keep their period |
| Generators (`protocols/*/…_generator`) | the SBUS failsafe bit | `buildRcFrame`, `encode` | what goes out is read as it was meant |
| Voltage monitor, logger, LED, OTA, UART, network | see `PROJECT.json` | | not modelled, section 7 |

### What is hard

* The two cores: reconfiguration in the middle of an update, of a publication,
  of another save.
* Unsigned 32-bit time: every timeout is a difference of two readings of a
  clock that wraps after 49.7 days.
* Timers that must survive some events and not others: challenger, minimum
  active time, the rate limit across protocols, the STOP_PWM latch.
* Power loss and failed flash writes between the steps of a save.
* Queues that two cores work on without a lock, and that are full.
* Garbage on a wire: finding the next true frame without losing it.
* One resource claimed twice: pins that move from one output to another.

`PROJECT.json` lists each hazard with its line and with the property that
covers it, or with why none does.

## 2. The modules

| Module | Models | Used by |
|---|---|---|
| `WrapClock` | `millis()` of width `Wrap`, `Later`, unsigned `Elapsed` | all with time |
| `ReceiverPort` | a port and its parser as operators on a record | `PortAge`, `ReceiverManager` |
| `PortAge` | one port over time (`AgeSpec`), with the real silence as history | `MCPortAge`, proofs |
| `FrameParsers` | the bytes of each protocol: buffers, resynchronisation, the loss window of SBUS | `ParserReference` |
| `ParserReference` | which frames a stream holds, defined on the whole stream | `MCParserReference`, proofs |
| `ReceiverManager` | two ports and the selection machine; `FairSpec` | `SelectionHistory`, `DataPath` |
| `SelectionHistory` | what an observer with an endless clock notes; the safety properties | `MCSelection`, proofs |
| `RcFrame` | frames of channels, the pulse clamp, the channel map | outputs |
| `Codec` | channels to bytes and back, in 11 bits and in MAVLink's payload | `OutputWire` |
| `OutputManager` | frames to the flight controller, with what it and a stopwatch see | `OutputWire`, `DataPath`, proofs |
| `OutputWire` | how the frames of `OutputManager` read at the other end | `MCOutputManager`, proofs |
| `PwmManager` | servo and switch outputs on channels and pins, two tasks | `MCPwmManager`, proofs |
| `ConfigJson` | what becomes of a posted number: refused, narrowed, clamped | `ConfigService` |
| `ConfigService` | web server, `applyPending`, configuration, flash, reboot | `MCConfigService`, proofs |
| `LossyQueue` | the abstract telemetry queue | `TelemetryRing` |
| `TelemetryRing` | the ring of a parser, by loads and stores of head and count, two tasks | its run, proofs |
| `TelemetryRouter` | draining, forwarding and injecting, two tasks | `MCTelemetryRouter`, proofs |
| `DataPath` | `rxTask` and `outputTask` from receivers to flight controller, composed of `ReceiverManager` and `OutputManager` | `MCDataPath`, `App`, proofs |
| `App` | `serviceTask` beside the two: applying a configuration, reading the status | `MCApp` |
| `WrapClockProofs`, `ReceiverProofs`, `OutputProofs`, `DataPathProofs`, `PwmProofs`, `ConfigProofs`, `ParserProofs`, `TelemetryRouterProofs` | theorems | |
| `SelectionValues`, `MC…` | values of the constants for TLC | runs |

How state and actions correspond to the code:

* **Receiver side.** A port is a record; comments in `ReceiverPort` name the
  field of the C++ object behind each component. The bytes that one `update`
  drains are a batch of at most two frames the parser accepts (`Batches`): two
  are enough for every order of kinds the code tells apart (channels after
  statistics, an override after a heartbeat), because each kind overwrites what
  it sets. `ReceiverManager!Update` is the whole of `update()`: both ports are
  pumped, and then exactly one of the seven cases of `Select` applies, in the
  order of the code's early returns. `ConfigurePort` and `ConfigureSelection`
  are the two `setConfig` calls of `applyConfigToModules`; each is one step.
* **Output side.** `OutputManager!Update` is one action of six cases: not due,
  live, HOLD_LAST, FAILSAFE_VALUES, the final frame, silence. `SetConfig`
  includes the UART being opened again and the reset of the latch that goes
  with it. The variables `wire`, `since`, `calm`, `finals` and `liveFrame` are
  history: the code never reads them.
* **PWM.** One step of `outputTask` is one output's turn of the loop in
  `update()`; `setConfig()` is the two halves `Release` and `Reuse`, because an
  update that comes in between finds the output off. `hw` is the state of the
  ESP32: who drives each pin, what pulse each channel has. Nothing in the code
  keeps two outputs off one pin, and the model does not either. `crossed` is
  history: the outputs whose pin is in doubt. An output gets there when an update
  meets it between its two halves, or, with its rivals (`Rivals`), when it is given
  a pin that another output has or drives; it leaves when it is given a pin
  without rivals while its channel drives none.
* **Configuration.** Each assignment that a task on the other core can observe
  is an action. A `RouterConfig` is two of its sections and the content its
  checksum was computed of, so that it can be torn between the two sections. A
  section is one number, a factor or a pulse, which `ConfigJson` takes from a POST
  as `configFromJson` and `configValidate` do. `Reboot` may happen at any step.
* **Numbers.** `ConfigJson` has one kind for each way in which the code treats a
  number: those it refuses, those it narrows with `as<uint8_t>()`, `as<uint16_t>()`
  or `as<int8_t>()` and clamps afterwards, and those it clamps only.
* **Parsers.** `FrameParsers` pushes one byte at a time into the buffer of a
  parser and runs the drain loop, the window or the state machine of the code to
  its end (`CrsfDrain` repeats `CrsfTurn` once for each byte it may take). The formats are scaled down by constants: frames of three to five
  bytes, a checksum that is a sum, few byte values. What a frame means is
  `ReceiverPort` (which fields it changes) and `Codec` (its channels).
* **Telemetry.** `TelemetryRing` has one step for every load and every store of
  `head` and `count`, for `rxTask` (enqueue) and `serviceTask` (pop, reset), but for
  the two loads that compute the slot a packet goes to, which are one step
  (`Locate`): where an overlapped operation writes matters to no property. The order
  is that of each parser's code: CRSF overwrites a full ring and moves the head
  afterwards, MAVLink makes room first. In `TelemetryRouter` the queues are
  whole; its steps are those of `update()`: choose the port, forward or drop one
  packet, end the drain, inject.
* **Tasks.** In `DataPath` `rxTask`'s update and its publication are two steps,
  and so are `outputTask`'s copy and its update with it; each module of the path
  is taken as it is, `OutputManager` by EXTENDS and `ReceiverManager` as the
  instance `Rx`, with a reading of the one clock each. `App` adds `serviceTask`:
  `applyConfigToModules` is one step per call, its status snapshot one step per
  reading of the selection, including the dereference of a null pointer.

## 3. The runs

| Run | Question | Result |
|---|---|---|
| `port` | Is a port that counts as alive one that was heard within the timeout? | yes, apart from the wrap named in the property |
| `selection` | Is the active port alive, are challengers never stale, are switches neither early nor late? | yes |
| `selection_liveness` | Does the better of two live links get selected for good, and does the selection come to rest? | yes, unless a margin is 0 |
| `output` | Do frames keep their rate, does every change of link or settings reach the flight controller in time, and does it read what was meant? | yes |
| `pwm` | Is no pin left pulsing or silent, do outputs converge, to the exact failsafe value? | yes, apart from an output that an update met between release and reuse, outputs given a pin another one still had, and the failsafe value of an inverted servo (and of a switch on a shared pin) |
| `config` | Is everything accepted kept, within limits, and the flash loadable at every moment? | yes, if no handler runs into `applyPending`, and with a flash that does not fail; a factory reset leaves the flash empty until its write is done |
| `data_path` | Does silence on the air reach the flight controller as failsafe, and a live link as live frames, within the periods of the tasks? | yes |
| `telemetry_ring` | Does a ring that two tasks use without a lock implement a queue? | yes, while their operations do not overlap and after the first drain that follows; the CRSF count is always sound |
| `telemetry` | Is each packet counted once, do injections keep their period? | yes |
| `parsers` | Does each parser accept exactly the frames in the stream, whatever stands between them? | yes |
| `config_lost` | Is a POST never lost? | **no**: in `applyPending`'s window |
| `app_panic` | Does `serviceTask` never crash? | **no**: `activePort()` read twice |

The refinement is in `telemetry_ring`: `IsLossyQueue` says that `TelemetryRing`
implements the specification of `LossyQueue` under the mapping of a ring to the
sequence of its counted slots. An operation of the queue happens at one store of
the code (of `head` or `count`), and all the other steps stutter.

Every property of a passing run has a mutant in `PROJECT.json`: a change of one
definition that a plausible bug would make, under which TLC finds the property
violated. The mutant operators stand before the definition they change.

### Bounds, and why they are enough

* **Clock.** `Wrap` is 2 to 13 instead of 2^32; a unit stands for 250 ms on
  the receiver side and 5 ms on the output side. Every delay is below `Wrap`, as
  it is in the code (validated delays are at most 10 s), and the ratios between
  the delays are near the defaults. So small a `Wrap` makes the clock wrap within
  every outage and every evaluation, which is the interesting case; the proofs
  cover every `Wrap`.
* **Steps.** An update comes 0 .. `MaxStep` units after the one before, so
  updates can be late by as much as the shortest delay, and two can fall into one
  reading of the clock.
* **Horizon.** Real time is counted up to `Horizon`, beyond every delay; after
  that only "long ago" is left. It keeps the history finite. `SilenceLimit` does
  the same in `DataPath`.
* **Ports, outputs, channels.** Two ports, as in the code. Two of four PWM
  outputs on two pins, which is enough for a pin that is handed on: from the first
  section to the second it is free when it is taken, on the way back the other
  output still has it. With exactly these two sections, one rate and one received
  frame the run has 2.8 million states; the proofs are for any number of outputs,
  and for every section, shared and exchanged pins among them. One or two channels of 16: each is treated alike; two are needed for a map that crosses them, and a map
  entry of 16 tests the entry that names no channel.
* **Qualities.** `linkScore` is linear up to a cap; values at 0, at half and at
  full scale give every outcome of a comparison with the margin (worse, better but
  inside, outside, both 0, capped).
* **Configurations.** One to three per run, chosen to differ in what the code
  compares: protocol, wire, enabled; delays that grow and shrink; servo to switch
  to nothing.
* **Batches.** At most two frames per update for `PortAge` and one per port for
  the runs with two ports (one millisecond is shorter than a frame).
* **Bytes.** `StreamLimit` is 9 bytes for SBUS and 8 for the others: two whole
  frames with garbage before, between or behind them, a false start inside a true
  frame, and a frame cut short. All streams over alphabets of four or five bytes
  are tried, in which the header byte is also a plausible payload byte.
* **Rings.** `Capacity` is 3 and `CountWrap` 6 (8 and 2^8 or 2^32 in the code):
  enough for an index and a count that wrap, and for a full ring that is overwritten
  while it is read. The router's queues hold 2, its counters have 2 values, so
  that they wrap.
* **Numbers posted.** A factor that is accepted and one that is refused; a failsafe
  pulse above the limit and one of 65536 + 1500, which narrows to 1500. The proofs
  are for every number.
* **Codec.** Failsafe pulses and sticks of the run `output` include 991 us, which a
  conversion that truncates would change; the proof is for every pulse.
* **Data path.** One of the two receivers and fixed output settings: a second
  receiver, or settings that change while the run lasts, multiply its 400 thousand
  states past any use. Failover between two receivers is the subject of
  `selection`, changes of the output settings of `output`. A receiver is moved to
  other pins, not disabled: a disabled port counts as alive again one wrap later
  (section 5), and with a clock that wraps after 3 units that happens at once.

`MaxStep`, `RxMaxStep`, `AgeMaxStep`, `Horizon`, `SilenceLimit`, `StreamLimit`,
`Capacity`, `CountWrap` and the sets of configurations are the only bounds; no run
uses a state constraint or symmetry, and no definition is replaced.

Two runs set `CHECK_DEADLOCK FALSE`: in `app_panic` the state "panic", the crash it
finds, has no successor, and in `parsers` a stream ends at `StreamLimit`.

### Fairness

`BetterPortWins` and `SelectionSettles` are the liveness properties. `FairSpec`
requires that `update()` is called again and again with time passing (weak fairness
of an update with d >= 1). The code justifies it: `rxTask` delays itself by 1 ms after
each update, so `millis()` advances between two; no task of the program has a higher
priority than its 5, and `outputTask`, the one with the same priority on its core,
delays itself too (app/app.cpp:221-224, 264, 297); the watchdog reboots when it
stops. Nothing is assumed of receivers, web page or scores: the premises of the
properties say that a port keeps being the better one, or that scores stay.

The bounded-time properties (`OutputConverges`, `PwmConverges`, `SwitchIsPrompt`,
`InjectionIsPeriodic` and those of `DataPath`) need no fairness: they say what holds
once an amount of time has passed, and time passes only with updates. In `DataPath`
no update of `outputTask` comes more than `MaxStep` after the one before, because
it delays itself by one interval at a priority no other task exceeds.

## 4. What is proved

For every clock width, every set of configurations, every interval, number of
channels, capacity and sequence of frames that satisfy the named assumptions:

* `WrapClockProofs`: a later reading is a reading; `Elapsed` of two equal
  readings is 0 and grows by at most the time that passed; and as long as less
  than a width of the clock has passed it is exact (`ElapsedExact`).
* `ReceiverProofs`, of a port: `PortTypeCorrect`; `FramesNeedLinks`; `LinksAreRecent`:
  a port that counts as alive was heard within the timeout of real time, or has been
  silent for a whole turn of the clock in one of the cases where the code lets it.
* `ReceiverProofs`, of the selection: `TypeCorrect`; `SelectionInvariant`; `ActivePortAlive`;
  `SwitchesAreEarned`: a live port is left only after `minActive` of *real* time
  and for a rival that was better for `switchDelay` of *real* time;
  `SwitchesArePrompt`: and it is left as soon as both have passed.
* `OutputProofs`: `TypeCorrect`; `OutputInvariant`; `FramesKeepRate`;
  `FinalFrameIsOne`: one final frame for each outage under STOP_PWM;
  `FailsafeConverges`: an interval and an update after any change the flight
  controller gets what it should; `FlagsAreCleared`: a live frame says failsafe
  only if the frame before it was not a live SBUS frame; `FramesReadAsThemselves`: every frame of 988 to 2012 us per channel is
  read as it was written, in the three protocols; `FramesSurvive`: so is every
  frame `OutputManager` writes, and it is one that was meant.
* `DataPathProofs`, of `rxTask`, `outputTask` and `serviceTask` in every interleaving:
  `PathTypeCorrect`; `LiveFramesReturn`: a port that stays active reaches the flight
  controller within an update of `rxTask`, two of `outputTask` and a frame interval;
  `LossIsPublished` and `SilenceArrivesInTime`: so does the failsafe after a silence of
  the longest link timeout, as long as the clock does not wrap under a port that can
  keep a link without a frame; `SbusSilenceArrives`: with SBUS receivers without that
  condition; `ReceiversKeepTheirSpec`: what the tasks do to the receivers together is a
  behaviour of `ReceiverManager`.
* `PwmProofs`, for any number of outputs and whatever pins they share: `TypeCorrect`;
  `UpdatesConverge`; `PulsesFollow`: of the outputs that are not in `crossed` exactly
  the servos that are on pulse, each its own pin.
* `ConfigProofs`: `StoredIsUsable` and `ExportedIsImported` for every number there
  is; `TypeCorrect`; `SettingsStayInLimits`; `FlashCanBeLoaded`, wherever
  power is lost, also in the middle of a save, as long as no write fails and no reset
  is at work or ran into `applyPending`; `FlashFollows`: it holds what RAM holds, when idle; `AcceptedIsAlwaysKept`.
* `ParserProofs`, of the parsers, for every stream of bytes, whatever garbage is in it, and
  formats of any size: `ParserTypeCorrect`: what a parser collects stays shorter than
  its longest frame; `FramesAreExact`: after each byte the three parsers have accepted
  exactly the frames of the reference, counted its errors and kept its open bytes;
  `QualityIsTheShare`: the quality of SBUS is the share of the frames in its window.
* `ParserProofs`, of the telemetry ring, for every capacity and width of the count:
  `RingTypeCorrect`; `CountAlwaysFits`; `RingImplementsQueue`, the refinement.
* `TelemetryRouterProofs`: `TypeCorrect`; `PacketsAreCounted`; `InjectionsKeepApart`
  and `InjectionsKeepComing`: an interval of real time apart, and never later.

Assumptions, each beside the constants it speaks of and evaluated by TLC in the runs
of those modules: constants have their types and sizes are positive
(`WrapAssumption`, `ChannelCountAssumption`, `FrameParsersAssumption`, `ReceiverPortAssumption`,
`ReceiverManagerAssumption`, `OutputAssumption`, `ConfigAssumption`,
`NoBlobAssumption`, `SavedAssumption`, `TelemetryRingAssumption`, which also says
that the count can hold one more than the capacity); observers count past every
delay (`HorizonAssumption`); no update is so late that the clock wraps within an
interval or a timeout (`OutputClockAssumption`, `TelemetryRouterAssumption`,
`PortAgeAssumption`, `DataPathAssumption`: at most 500 ms against 49 days; the last
also says that `rxTask` is the faster of the two tasks); the outputs are numbered from 0
(`PwmAssumption`, `PwmClockAssumption`); and there are at most the 18 channels
MAVLink has room for (`SlotsAssumption`; the program has 16). Three assumptions are
of single theorems and stand in their statements: `Wrap <= Horizon` of `SwitchesArePrompt`, whose observer must count past a whole
turn of the clock to tell that it has turned; `LastsATurn` of `LossIsPublished` and
`SilenceArrivesInTime`; and `EndsLinks` of `SbusSilenceArrives` (below).

**Port.** `isAlive` reads an unsigned difference, so that a link looks young again
after a whole turn of the clock. `PortInv` says when it does not: from a frame of
channels on the difference *is* the real silence until that has lasted a whole
turn, and an SBUS port whose every update ran its parser has given up its link
long before.

**Selection.** `SwitchIsEarned` is not inductive: a step that switches is judged
by `challengerSince`, a reading of a wrapping clock, while the property speaks of
real time. `SelectionInv` adds what links them (`TimersAreSound`): a running timer
never shows more than the real time since its start, because the unsigned
difference only ever loses whole wraps; and a challenger is timed only while its
streak has lasted (`ChallengerIsRival`, with `~fresh`: nothing of an old challenger
survives a switch). `ActiveIsAlive` and `StateMatchesSelection` say which of the
seven cases can be the next. The step lemma has one case per disjunct of `Select`.
`PromptInv` is the opposite bound: below the width of the clock the timers do not
show *less* than the real time, and a streak is no longer than the hold, so that
the clock cannot have turned within the one and not the other.

**Output.** `OutputConverges` needs the middle of the journey: `OutputInv` says
that while there is an output a change of link or settings is either done
(`Settled`), still held back by the rate limit with a bounded `calm` (`HeldBack`),
or no update has run since (`calm = 0`). `SendTimed` is the real-time reading of
the rate limit, which `RateKept` needs across a wrap and a change of protocol;
`lastGood = liveFrame` makes HOLD_LAST hold the right frame. `FlagInv` ties the bit
of the SBUS generator to the frame before, whatever protocol that had.

**Data path.** The properties speak of both ends of the path, so the invariants
follow a change on its way. `Timed`: `millis()` is at most `MaxStep` ahead of the last
update of the output, and the copy was taken in between. `Linked` (a live link) and
`Alerted` (a silence) bound how old what is published, copied and given to the output
can be: at the receivers nothing, in `shared_frame_` a period of `rxTask`, in the copy
its own age more, at the output `Lag`. `LinkOnAir` and `LossOnAir` add the wait for the
rate limit: what is due settles (`DueSettles`), what waits has the time it waited
counted (`UpdateOutcome`). `Linked` needs nothing of the ports. `Alerted` needs that an
alive port was heard (`Heard`), which is false once the clock passes its last frame for
a second time. `PortsInv` says when it does not: the parser of SBUS ends the link within
`ParserTimeout` if every update runs it (`EndsLinks`: all configurations of the port are
enabled ones of SBUS or NONE, or none is enabled), and any port is sound until
`millis()` goes back to 0 (`LastsATurn`). The exceptions are the code's: CRSF link
statistics, MAVLink, and a port that is disabled keep a link (section 5).

**PWM.** `PinInv`: a channel remembers the pin of its servo (`Remembers`), so that
`detach` frees that one; and an output that is not in `crossed` has exactly its pin,
none between its release and its reuse (`HasPin`), and no other output has or drives
that pin (`Alone`). The second is what makes the first inductive: the first step that
would break `Alone` puts both outputs into `crossed`, and a step for one output moves
the pins of the others only if they are in there (`MovesOnly`, `OthersKeepPins`). No
assumption about the pins of a section is made. `WayInv` follows the loop
of `update()`: an output whose turn is still to come may lag by one step (`Room`),
and after its turn it is in rhythm, held back with a bounded `calm`, or newly changed.

**Codec.** A pulse becomes an 11-bit number by a scaling of 1639/1024 and back;
since that scaling stretches, rounding twice returns the pulse (`RoundedTwice`).
`NumberOfBits` says that the sum of eleven bits is the number they were taken of,
`PlacesDiffer` that no two channels share a bit, so that what is packed can be
read (`PackedReads`). In MAVLink two bytes give the pulse back (`TwoBytes`), and
trimming trailing zeros never cuts into a channel, because no pulse is 0
(`TrimmedToChannels`). `WireInv` then carries "was meant" through the held frame.

**Parsers.** The reference looks at a whole stream, a parser at its buffer, and what ties
them is a number of places. `Settled` says that the first n places of the stream are
decided, once and for all: whatever starts there is complete and ends there. That is
local: more bytes change neither what is free nor what is taken among them
(`SettledStays`), although the reference asks of each place about all places before.
`OpenAt` says that the next place cannot be decided yet; then the reference is what the
first n places say (`ReferenceIsSettled`). `ParserInv` gives the parser such an n: its
frames and errors are those of the n places, and its buffer is the rest of the stream
(`At`). Every way in which the code takes bytes off the buffer is one of two steps to a
larger n: passing over places where nothing starts, or where a candidate fails
(`AtSkip`), and taking a candidate whole (`AtTake`). What else a parser remembers must
agree with the stream: that `crc_error_counted_` of SBUS says whether the last rejected
candidate reaches over the open place (`SbusSync`), so that a hunt is one error; that the
state of MAVLink tells how much of its frame is there (`MavlinkSync`). CRSF's loop is
followed turn by turn (`CrsfTurnDecides`): it either ends or decides a place, so it has
ended after as many turns as there are bytes. Induction over the stream, over the places
and over the turns of the loop is done by the least exception: if not all numbers had the
property, there would be a least one that had it not (`LeastNumber`).

`ShareInv` adds the window. Of two frames the later one has fewer frames after it
(`Newer`), so that number is a frame's age, and `Slot` the place of that age in the ring
of flags; a new frame makes the others older and leaves them where they are
(`SlotAges`). Hence the recent frames and the filled slots correspond one to one, the
lost ones to the set flags (`WindowIsShare`).

**Configuration.** `LimitsInv`: what is about to be installed is already valid,
because `configValidate` ran on the copy. `FlashInv`: only between installing and
sealing does `config_` carry a checksum of something else, and only a factory reset
that ran into `applyPending` can write it out then; outside a save and a reset the
flash holds what RAM holds, unless a write failed, so that a save begins with a good
blob and leaves it there until it replaces it. `KeptInv` follows what is owed
to the browser through the handler (`StagedIsDue`), through `pending_config_` and
the copy section by section (`OwedIsUnderway`) to the modules (`OwedIsApplied`).

**Telemetry.** `CrsfInv`: `rxTask` alone counts up, from a count it found too small,
`serviceTask` alone counts down, from a count that was not 0, and a stale value that
one of them stores is in range all the same. It is false of MAVLink, where both
count down. `RingInv` says what an operation that is not overlapped finds at each
of its steps; with it each step of the ring maps to a step of the queue or to a
stutter (`MapStep`, one case per step). `TimerInv`: a wrapping clock only ever makes
the last injection look too young, so nothing is early; that it is not too late
needs that the age is exact from the first injection on.

`SelectionInv` and `OutputInv` are invariants of the runs `selection` and
`output` too.

### What only TLC shows

`BetterPortWins` and `SelectionSettles`: liveness is out of the prover's reach. The two
violations are TLC's as well, and with them everything about `App`. Every invariant and
every other action or temporal property of the passing runs is a theorem.

## 5. Findings

Each is a run that TLC refutes, with the trace it prints:

1. `config_lost` (web/web_server.cpp:39). `pending_ = false` comes after the copy
   and the flash write; a POST accepted in between is answered "ok" and lost.
   `data/app.js:255-259` posts two sections at once.
2. `app_panic` (app/app.cpp:335). `activePort()` is tested and then called again,
   while `rxTask` on the other core may lose the link.

Seen while modelling, without a run of their own:

* The margin of the selection is a percentage of the active score; where it rounds to
  0 (a score of 0 in failsafe, a low score with a low percentage), `>=` holds for
  two equal links, and the router alternates between them after every delay
  (receiver/receiver_manager.cpp:112). `SelectionSettles` excepts it.
* The SBUS failsafe bit is cleared after the next frame was encoded, so with the link
  back at once the first live frame says failsafe (output/output_manager.cpp:158).
  `FlagIsCleared` says that a live frame has the bit only if the frame before it was
  not a live SBUS frame.
* Two servos that exchange pins in one save: `setConfig(0)` gives channel 0 the pin
  that channel 1 drives, and `setConfig(1)` then detaches it; one servo is silent
  until it is moved, or stopped and started again (hal/gpio_output.cpp:57). The same
  may happen to any output that takes a pin which a later one still has. `PinsFollow`
  excepts these outputs (`crossed`); without that TLC refutes it in the run `pwm`.
* MAVLink's ring counts down on both cores: emptied by `serviceTask` between
  `rxTask`'s test for full and its decrement, its `uint8_t` count becomes 255, and up
  to that many packets that never were are forwarded
  (protocols/mavlink/mavlink_parser.cpp:269-272). `CountFits` excepts it.
* A MAVLink message is forwarded as its payload only, without its header, cut off at
  64 bytes.
* The first battery injection comes with the first update that finds the override on
  and 500 ms of uptime, at once when the override is switched on later: no call
  "establishes the baseline", as the comment at telemetry/telemetry_router.cpp:143-146
  has it.
* Only the active port is drained; what waits in the other one goes out as if it
  were new when that one is selected (telemetry/telemetry_router.cpp:130). The
  drain loop has no bound.
* MAVLink's battery voltage is decivolts times 10 where millivolts need times 100
  (protocols/mavlink/mavlink_generator.cpp:80).
* An RC_CHANNELS whose sender trims trailing zeros, as MAVLink 2 senders do, is
  ignored when its rssi is 0 (protocols/mavlink/mavlink_parser.cpp:199-202). A CRSF
  frame of channels with too short a length byte is decoded as if it had 22 bytes
  (protocols/crsf/crsf_parser.cpp:128).
* Numbers are narrowed before they are clamped, so 67036 us is stored as 1500 and
  not as the limit; `switch_threshold_us` and pins are not clamped at all
  (web/config_json.cpp:268).
* `calibrate` changes the voltage monitor at once, before anything is saved.
* An update between `detachOutput` and the new `cfg_` re-attaches the old pin, which
  then pulses beside the new one (pwm/pwm_manager.cpp:62, 97). `PinsFollow` excepts
  such an output too; without that TLC refutes it.
* A new update rate changes the write interval but not the LEDC frequency
  (pwm/pwm_manager.cpp:72).
* `failsafe_us` of an inverted servo is mirrored like a stick
  (pwm/pwm_manager.cpp:121), where `test/system/CHECKLIST.md`:81-82 wants "the exact"
  value on "every output channel". `PwmConverges` asks for the exact value and excepts
  inverted servos (`AtFailsafe`).
* A port reset between update and publication has its centred channels published
  under a valid link for one period (app/app.cpp:259).
* A MAVLink link, a port that only gets CRSF statistics, and a port that was
  disabled count as alive again for a timeout one whole wrap after their last
  frame (receiver/receiver_port.cpp:119); `AliveIsRecent` states the exception.
* `rssi_threshold_percent` and `lq_threshold_percent` are stored and shown, and
  never used (config/config_types.h:29-30). A saved log level waits for a reboot
  (app/app.cpp:96-108). `sendBattery`, the OTA handler and `ingestFromFc`, which
  telemetry/telemetry_router.h:16-22 says App calls, are never called.

## 6. Limits of the models

* `setConfig` against `update` of the same object is one step against one step in
  `ReceiverPort` and `OutputManager`; the code takes no lock there. Where a run
  splits them (PWM, DataPath, App, ConfigService, TelemetryRing) the text says so.
* Three levels of a parser are checked one by one: bytes to frames, frames to a
  port's state, channels to bits. That they fit together is read from the code:
  a frame that `FrameParsers` accepts is one that `ReceiverPort` receives.
* The checksum of `FrameParsers` is a sum, for which a corrupted frame may pass as
  with any checksum; the reference uses the same one, and the proofs nothing of it
  but that it is a function of the bytes.
* Copying a telemetry packet is one step: a torn packet is not told from a wrong one.
* A configuration is torn between two sections, not inside one.
* The selection section has no form on the web page, so that
  `ReceiverManager::setConfig` is called with what it has, except after a factory
  reset of settings an older firmware left; the runs change it at any time.
* On the target `Esp32UartPort::begin` and `attachOutput` cannot fail, so their
  error paths are left out.

## 7. What is not modelled

* The logger: a ring of whole lines, read by no other part. The voltage monitor:
  a filter in floating point. LED patterns: derived from the selection state, read
  by nothing. OTA: unreachable in this version.
* UART, WiFi, mDNS and LittleFS wrappers: library code. The web page: its only effect
  is the POSTs `ConfigService` takes in any order.
* Of modelled parts: `ingestFromFc` and `sendBattery`, which nothing calls; the
  encodings of a battery packet; booleans, strings and addresses in JSON;
  `statusToJson`; the watchdog.

## 8. Plan

Written: receiver ports, parsers, selection, output with its codec, PWM,
configuration with its numbers, telemetry ring and router, the application tasks
end to end; proofs of all but `App` and liveness.

What is left, in this order:

1. `setConfig` of `OutputManager` and `ReceiverPort` split at the points where the
   other task can come in, and `sendTelemetry` on the same UART.
2. `DataPath` with two receivers and with output settings that change, once a
   smaller state (no `values`, no `liveFrame`) makes room for it; the same path to
   `PwmManager`.
3. The logger's ring and the LED pattern.
