---------------------------------- MODULE App ----------------------------------
(***************************************************************************)
(* The three tasks of app/app.cpp.  To rxTask and outputTask, which are in *)
(* DataPath, it adds serviceTask, on the other core, which applies a saved *)
(* configuration in the order of applyConfigToModules and reads the        *)
(* selection for the web page, in as many steps as another task can come   *)
(* between.                                                                *)
(***************************************************************************)
EXTENDS DataPath

CONSTANT
  RouterConfigs    \* the RouterConfig records that can be saved: receivers,
                   \* selection, output, and failsafe mode and values of system

VARIABLES
  svc,      \* what serviceTask does next: "poll", a call of Applying, "protocol"
            \* or "link" of the status, or nothing any more: "panic"
  next,     \* config_manager_.config(), in force or being applied
  status    \* status_snapshot_: what it takes from the selection

service == <<svc, next, status>>
avars == <<dvars, service>>

\* The calls of applyConfigToModules, in their order, then the status.
Applying == <<"port 0", "port 1", "selection", "output", "failsafe", "port?">>

GoOn == \E k \in 1 .. 5 : svc = Applying[k] /\ svc' = Applying[k + 1]

-----------------------------------------------------------------------------
(* serviceTask.                                                            *)

\* applyPending() returned true: the new configuration is c.
BeginApply(c) ==
  /\ svc = "poll"
  /\ next' = c
  /\ svc' = "port 0"
  /\ UNCHANGED <<dvars, status>>

NothingPending ==
  /\ svc = "poll"
  /\ svc' = "port?"
  /\ UNCHANGED <<dvars, next, status>>

ApplyPort(i) ==
  /\ svc = (IF i = 0 THEN "port 0" ELSE "port 1")
  /\ Rx!ConfigurePort(i, next.receivers[i])
  /\ GoOn
  /\ UNCHANGED <<shared, rx, copy, observer, vars, next, status>>

ApplySelection ==
  /\ svc = "selection"
  /\ Rx!ConfigureSelection(next.selection)
  /\ GoOn
  /\ UNCHANGED <<shared, rx, copy, observer, vars, next, status>>

ApplyOutput ==
  /\ svc = "output"
  /\ SetConfig(next.output)
  /\ GoOn
  /\ UNCHANGED <<path, next, status>>

\* The sections it applies after these belong to modules of their own.
ApplyFailsafe ==
  /\ svc = "failsafe"
  /\ SetFailsafe(next.mode, next.values)
  /\ GoOn
  /\ UNCHANGED <<path, next, status>>

\* activePort() is called twice: to be compared with nullptr and, if it was
\* not null, to be dereferenced.
StatusPort ==
  /\ svc = "port?"
  /\ IF active = Rx!NoPort
     THEN /\ status' = [status EXCEPT !.protocol = "NONE"]
          /\ svc' = "link"
     ELSE /\ svc' = "protocol"
          /\ UNCHANGED status
  /\ UNCHANGED <<dvars, next>>

StatusProtocol ==
  /\ svc = "protocol"
  /\ IF active = Rx!NoPort
     THEN /\ svc' = "panic"
          /\ UNCHANGED status
     ELSE /\ status' = [status EXCEPT !.protocol = ports[active].cfg.protocol]
          /\ svc' = "link"
  /\ UNCHANGED <<dvars, next>>

\* activeLink() without an active port is empty_lq_, which no one marks as in
\* failsafe.
StatusLink ==
  /\ svc = "link"
  /\ status' = [status EXCEPT !.failsafe = active # Rx!NoPort /\ ports[active].failsafe]
  /\ svc' = "poll"
  /\ UNCHANGED <<dvars, next>>

ServiceTask ==
  \/ \E c \in RouterConfigs : BeginApply(c)
  \/ NothingPending
  \/ \E i \in Rx!Ports : ApplyPort(i)
  \/ ApplySelection \/ ApplyOutput \/ ApplyFailsafe
  \/ StatusPort \/ StatusProtocol \/ StatusLink

-----------------------------------------------------------------------------
AInit ==
  /\ DInit
  /\ svc = "poll"
  /\ next \in RouterConfigs
  /\ \A i \in Rx!Ports : ports[i].cfg = next.receivers[i]
  /\ sel = next.selection
  /\ <<cfg, mode, values>> = <<next.output, next.mode, next.values>>
  /\ status = [protocol |-> "NONE", failsafe |-> FALSE]

\* A panic restarts all of it.
ANext ==
  /\ svc # "panic"
  /\ \/ (RxTask \/ OutputTask) /\ UNCHANGED service
     \/ ServiceTask

ASpec == AInit /\ [][ANext]_avars

-----------------------------------------------------------------------------
\* Nothing makes serviceTask dereference the null activePort(): "zero
\* unexpected reboots" (CHECKLIST.md:167).
NoPanic == svc # "panic"
=============================================================================
