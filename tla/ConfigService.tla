----------------------------- MODULE ConfigService -----------------------------
(***************************************************************************)
(* How a configuration gets from the web page to the modules and to the    *)
(* flash: the POST handlers of WebServerManager on the task of the async   *)
(* web server, applyPending() and App::applyConfigToModules on             *)
(* serviceTask, ConfigManager between them, and the reboots that cut any   *)
(* of it short.  The two tasks run on different cores and no lock guards   *)
(* pending_config_ or config_, so every copy of a configuration that the   *)
(* other task can change meanwhile takes one step per section.             *)
(***************************************************************************)
EXTENDS ConfigJson

CONSTANTS
  Posts,       \* what can be posted: pairs of a section and a number
  Factors,     \* what VoltageMonitor::calibrate can come to
  NoBlob,      \* what NVS holds after eraseAll
  Flashes      \* the kinds of flash: TRUE one whose writes can fail

\* Two of the sections of RouterConfig, in the order they have in memory, each
\* with one field: calibration_factor, and one of failsafe_channels.
Sections == {"voltage", "system"}
Field == [voltage |-> "factor", system |-> "pulse"]
Content == [Sections -> Int]

\* A RouterConfig: its sections, and in crc the content crc32 was computed of.
Config == [content : Content, crc : Content]

ASSUME ConfigAssumption ==
  /\ Posts \subseteq Sections \X Int
  /\ Factors \subseteq Allowed("factor")
  /\ Flashes \subseteq BOOLEAN

\* configValidate.
Valid(content) == Validated(Field, content)

Intact(c) == c.crc = c.content
Sealed(content) == [content |-> content, crc |-> content]

\* configLoadDefaults.
Defaults == Sealed([voltage |-> 1000, system |-> 1500])

ASSUME NoBlobAssumption == NoBlob \notin Config

VARIABLES
  config,         \* ConfigManager::config_
  store,          \* the blob in NVS, or NoBlob
  pendingConfig,  \* WebServerManager::pending_config_
  pending,        \* pending_
  svc,            \* where serviceTask is in applyPending
  merged,         \* applyPending's copy of pending_config_
  saved,          \* what save() returned to it
  web,            \* where the web server's task is in a handler
  job,            \* the section being posted, and what it should become
  staged,         \* the handler's copy
  applied,        \* what App::applyConfigToModules last gave the modules
  flashFails,     \* whether a write to the flash can fail, for good
  owed,           \* history: the content the browsers were told is accepted
  reset,          \* history: a factory reset since the modules were configured
  clean           \* history: no handler has run into applyPending since a boot
                  \*          that could save what it loaded

\* merged, saved, job and staged are local to a function: they have their first
\* values while it does not need them.
ram == <<config, pendingConfig, pending, svc, merged, saved, web, job, staged, applied>>
vars == <<ram, store, owed, reset, clean, flashFails>>

ServiceSteps == {"idle", "copy", "copying", "install", "seal", "write", "clear", "apply"}
WebSteps == {"idle", "put", "putting", "arm", "erase", "defaults", "seal", "write"}

\* factoryReset is between its erasure of the flash and its write.
Resetting == web \in {"defaults", "seal", "write"}

\* serviceTask is between its copy of pending_config_ and pending_ = false.
Applying == svc \notin {"idle", "copy", "apply"}

-----------------------------------------------------------------------------
(* serviceTask: applyPending, then applyConfigToModules.                   *)

SeePending ==
  /\ svc = "idle" /\ pending
  /\ svc' = "copy"
  /\ UNCHANGED <<config, pendingConfig, pending, merged, saved, web, job, staged,
                 applied, store, owed, reset, clean>>

\* RouterConfig merged = pending_config_, one section after the other.
CopyVoltage ==
  /\ svc = "copy"
  /\ merged' = [merged EXCEPT !.content["voltage"] = pendingConfig.content["voltage"]]
  /\ svc' = "copying"
  /\ UNCHANGED <<config, pendingConfig, pending, saved, web, job, staged, applied,
                 store, owed, reset, clean>>

\* Mutant: applyPending leaves it to save() to validate.
CopySystemRaw ==
  /\ svc = "copying"
  /\ merged' = [content |-> [merged.content EXCEPT !["system"] =
                               pendingConfig.content["system"]],
                crc |-> pendingConfig.crc]
  /\ svc' = "install"
  /\ UNCHANGED <<config, pendingConfig, pending, saved, web, job, staged, applied,
                 store, owed, reset, clean>>

\* The second section, then configValidate(merged).
CopySystem ==
  /\ svc = "copying"
  /\ merged' = [content |-> Valid([merged.content EXCEPT !["system"] =
                                     pendingConfig.content["system"]]),
                crc |-> pendingConfig.crc]
  /\ svc' = "install"
  /\ UNCHANGED <<config, pendingConfig, pending, saved, web, job, staged, applied,
                 store, owed, reset, clean>>

\* cfg_.mutableConfig() = merged.
Install ==
  /\ svc = "install"
  /\ config' = merged
  /\ merged' = Defaults
  /\ svc' = "seal"
  /\ UNCHANGED <<pendingConfig, pending, saved, web, job, staged, applied,
                 store, owed, reset, clean>>

\* Mutant: the checksum covers the whole structure, itself included.
SealWhole ==
  /\ svc = "seal"
  /\ config' = [config EXCEPT !.crc = config]
  /\ svc' = "write"
  /\ UNCHANGED <<pendingConfig, pending, merged, saved, web, job, staged, applied,
                 store, owed, reset, clean>>

\* Mutant: save() makes room for the blob before it writes it.
SealErasing ==
  /\ svc = "seal"
  /\ config' = Sealed(Valid(config.content))
  /\ store' = NoBlob
  /\ svc' = "write"
  /\ UNCHANGED <<pendingConfig, pending, merged, saved, web, job, staged, applied,
                 owed, reset, clean>>

\* ConfigManager::save, up to config_.crc32 = configCrc32(config_).
Seal ==
  /\ svc = "seal"
  /\ config' = Sealed(Valid(config.content))
  /\ svc' = "write"
  /\ UNCHANGED <<pendingConfig, pending, merged, saved, web, job, staged, applied,
                 store, owed, reset, clean>>

\* store_.writeBlob: NVS keeps the old blob when it fails.
WriteBlob ==
  /\ svc = "write"
  /\ \/ store' = config /\ saved' = TRUE
     \/ flashFails /\ store' = store /\ saved' = FALSE
  /\ svc' = "clear"
  /\ UNCHANGED <<config, pendingConfig, pending, merged, web, job, staged, applied,
                 owed, reset, clean>>

ClearPending ==
  /\ svc = "clear"
  /\ pending' = FALSE
  /\ svc' = IF saved THEN "apply" ELSE "idle"
  /\ saved' = FALSE
  /\ UNCHANGED <<config, pendingConfig, merged, web, job, staged, applied,
                 store, owed, reset, clean>>

Apply ==
  /\ svc = "apply"
  /\ applied' = config.content
  /\ reset' = (reset /\ Resetting)
  /\ svc' = "idle"
  /\ UNCHANGED <<config, pendingConfig, pending, merged, saved, web, job, staged,
                 store, owed, clean>>

Service ==
  \/ SeePending \/ CopyVoltage \/ CopySystem \/ Install
  \/ Seal \/ WriteBlob \/ ClearPending \/ Apply

-----------------------------------------------------------------------------
(* The handlers of the web server, which runs them one at a time.          *)

\* Mutant: every handler starts from the saved configuration.
StageFromConfig == config

\* RouterConfig staged = pending_ ? pending_config_ : cfg_.config().  While
\* pending_ is false serviceTask does not touch config_.
Stage == IF pending THEN pendingConfig ELSE config

\* A POST of a section; one that xxxFromJson refuses changes nothing.
BeginPost(s, n) ==
  /\ web = "idle"
  /\ Accepted(Field[s], n)
  /\ job' = <<s, Stored(Field[s], n)>>
  /\ staged' = [Stage EXCEPT !.content = FromJson(Field, @, [t \in {s} |-> n])]
  /\ web' = "put"
  /\ UNCHANGED <<config, pendingConfig, pending, svc, merged, saved, applied, store,
                 owed, reset, clean>>

\* A POST without the section it is for is accepted too, and saves again what
\* is there.
BeginEmptyPost ==
  /\ web = "idle"
  /\ staged' = Stage
  /\ job' = <<"system", Clamped("pulse", Stage.content["system"])>>
  /\ web' = "put"
  /\ UNCHANGED <<config, pendingConfig, pending, svc, merged, saved, applied, store,
                 owed, reset, clean>>

\* handlePostVoltageCalibrate: VoltageMonitor takes the factor at once, and it
\* is saved like a posted one.
BeginCalibrate(f) ==
  /\ web = "idle"
  /\ applied' = [applied EXCEPT !["voltage"] = f]
  /\ job' = <<"voltage", f>>
  /\ staged' = [Stage EXCEPT !.content["voltage"] = f]
  /\ web' = "put"
  /\ UNCHANGED <<config, pendingConfig, pending, svc, merged, saved, store, owed,
                 reset, clean>>

\* pending_config_ = staged, one section after the other.
PutVoltage ==
  /\ web = "put"
  /\ pendingConfig' = [pendingConfig EXCEPT !.content["voltage"] = staged.content["voltage"]]
  /\ web' = "putting"
  /\ clean' = (clean /\ svc \in {"idle", "apply"})
  /\ UNCHANGED <<config, pending, svc, merged, saved, job, staged, applied, store, owed, reset>>

PutSystem ==
  /\ web = "putting"
  /\ pendingConfig' = staged
  /\ web' = "arm"
  /\ clean' = (clean /\ svc \in {"idle", "apply"})
  /\ UNCHANGED <<config, pending, svc, merged, saved, job, staged, applied, store, owed, reset>>

\* pending_ = true and the answer to the browser.
Arm ==
  /\ web = "arm"
  /\ pending' = TRUE
  /\ owed' = [owed EXCEPT ![job[1]] = job[2]]
  /\ web' = "idle"
  /\ clean' = (clean /\ ~Applying)
  /\ job' = <<"voltage", 0>> /\ staged' = Defaults
  /\ UNCHANGED <<config, pendingConfig, svc, merged, saved, applied, store, reset>>

\* ConfigManager::factoryReset, called by the handler itself.
EraseAll ==
  /\ web = "idle"
  /\ store' = NoBlob
  /\ web' = "defaults"
  /\ clean' = (clean /\ ~pending)
  /\ reset' = TRUE
  /\ UNCHANGED <<config, pendingConfig, pending, svc, merged, saved, job, staged,
                 applied, owed>>

LoadDefaults ==
  /\ web = "defaults"
  /\ config' = Defaults
  /\ web' = "seal"
  /\ UNCHANGED <<pendingConfig, pending, svc, merged, saved, job, staged, applied,
                 store, owed, reset, clean>>

SealDefaults ==
  /\ web = "seal"
  /\ config' = Sealed(Valid(config.content))
  /\ web' = "write"
  /\ UNCHANGED <<pendingConfig, pending, svc, merged, saved, job, staged, applied,
                 store, owed, reset, clean>>

\* The answer is OK whether or not the blob could be written.
WriteDefaults ==
  /\ web = "write"
  /\ \/ store' = config
     \/ flashFails /\ store' = store
  /\ owed' = Defaults.content
  /\ web' = "idle"
  /\ UNCHANGED <<config, pendingConfig, pending, svc, merged, saved, job, staged,
                 applied, reset, clean>>

Web ==
  \/ \E p \in Posts : BeginPost(p[1], p[2])
  \/ BeginEmptyPost
  \/ \E f \in Factors : BeginCalibrate(f)
  \/ PutVoltage \/ PutSystem \/ Arm
  \/ EraseAll \/ LoadDefaults \/ SealDefaults \/ WriteDefaults

-----------------------------------------------------------------------------
\* Mutant: a blob is loaded without a look at its checksum.
LoadedUnchecked(blob) == IF blob = NoBlob THEN Defaults ELSE blob

\* What ConfigManager::begin makes of the blob it finds.
Loaded(blob) ==
  IF blob = NoBlob THEN Defaults
  ELSE IF Intact(blob) THEN [blob EXCEPT !.content = Valid(blob.content)]
  ELSE Defaults

\* Power loss, the restart handler or the watchdog, and App::setup after it:
\* begin() saves the defaults it falls back on.
Reboot ==
  /\ config' = Loaded(store)
  /\ \/ store' = config'
     \/ flashFails /\ store' = store
  /\ pendingConfig' = Defaults
  /\ pending' = FALSE
  /\ svc' = "idle"
  /\ merged' = Defaults
  /\ saved' = FALSE
  /\ web' = "idle"
  /\ job' = <<"voltage", 0>>
  /\ staged' = Defaults
  /\ applied' = config'.content
  /\ owed' = config'.content
  /\ reset' = FALSE
  /\ clean' = (store' = config')

Init ==
  /\ config = Defaults
  /\ store = Defaults
  /\ pendingConfig = Defaults
  /\ pending = FALSE
  /\ svc = "idle"
  /\ merged = Defaults
  /\ saved = FALSE
  /\ web = "idle"
  /\ job = <<"voltage", 0>>
  /\ staged = Defaults
  /\ applied = Defaults.content
  /\ owed = Defaults.content
  /\ flashFails \in Flashes
  /\ reset = FALSE
  /\ clean = TRUE

Next == (Service \/ Web \/ Reboot) /\ UNCHANGED flashFails

Spec == Init /\ [][Next]_vars

-----------------------------------------------------------------------------
TypeOK ==
  /\ config \in Config /\ pendingConfig \in Config
  /\ merged \in Config /\ staged \in Config
  /\ store \in Config \cup {NoBlob}
  /\ pending \in BOOLEAN /\ saved \in BOOLEAN
  /\ reset \in BOOLEAN /\ clean \in BOOLEAN /\ flashFails \in Flashes
  /\ svc \in ServiceSteps /\ web \in WebSteps
  /\ job \in Sections \X Int
  /\ applied \in Content /\ owed \in Content

Quiet == svc = "idle" /\ web = "idle" /\ ~pending

\* What was accepted is what ConfigManager has, what the flash holds and what
\* the modules run, once both tasks are done, unless a handler ran into
\* applyPending: in particular a POST that arrives while another one still
\* waits loses neither of them (the pending_ ? pending_config_ :
\* cfg_.config() of every handler).  Only a factory reset leaves the modules
\* as they are, until the reboot it asks for.
AcceptedIsKept ==
  (Quiet /\ clean) => /\ config.content = owed
                      /\ flashFails \/ store = config
                      /\ flashFails \/ reset \/ applied = owed

\* No task ever finds a setting outside its limits in what ConfigManager
\* hands out, however a POST, a save and a factory reset overlap: the web
\* page and applyConfigToModules read config_ at any time ("applyPending ...
\* runs configValidate()", web_server.h:34).
InLimits == Valid(config.content) = config.content /\ Valid(applied) = applied

\* Once both tasks are done the flash holds what the router works with, and
\* the next boot will accept it: also when a factory reset and applyPending
\* wrote over each other.
FlashFollowsRam == (Quiet /\ ~flashFails) => Intact(config) /\ store = config

\* Whenever power is lost, also in the middle of a save, the next boot finds a
\* blob it accepts.  Only a factory reset leaves the flash empty, until its
\* write is done; a save never does.  The exceptions are a flash that fails, to
\* which a reset may lose the blob for good, and a reset that ran into
\* applyPending (~clean): until that is through with its save there may be a
\* blob with a checksum that is not its own, and for good if that save fails.
FlashIsLoadable ==
  /\ store = NoBlob => flashFails \/ Resetting
  /\ (store # NoBlob /\ ~Intact(store)) => ~clean /\ (flashFails \/ svc \in {"seal", "write"})

\* Nothing that was accepted is lost: pending_config_ is "never" copied
\* "concurrently with a new HTTP write" (web_server.h:29), and "every changed
\* setting survived" (CHECKLIST.md:161).
AcceptedIsNeverLost == Quiet => config.content = owed
=============================================================================
