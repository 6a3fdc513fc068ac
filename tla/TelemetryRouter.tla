---------------------------- MODULE TelemetryRouter ----------------------------
(***************************************************************************)
(* Telemetry between the receivers and the flight controller               *)
(* (telemetry/telemetry_router.cpp).  serviceTask drains the queue of the  *)
(* active receiver into the output UART and puts battery packets of its    *)
(* own into the active receiver; meanwhile rxTask fills the queues and     *)
(* changes the active receiver.  A queue is what TelemetryRing implements; *)
(* a packet is its length, of which only 0 is told from the rest.          *)
(***************************************************************************)
EXTENDS WrapClock, Sequences

CONSTANTS
  Interval,    \* kInjectionIntervalMs: 500
  MaxStep,     \* the largest number of milliseconds between two updates
  Capacity,    \* the packets a queue holds
  CountWrap,   \* the values of a counter: 2^32 in the code
  Saved,       \* the settings that can be saved
  Horizon      \* where the stopwatch stops counting

ASSUME TelemetryRouterAssumption ==
  /\ Interval \in Nat \ {0} /\ MaxStep \in Nat
  /\ Capacity \in Nat \ {0} /\ CountWrap \in Nat \ {0}
  /\ Horizon \in Nat /\ Interval + MaxStep < Horizon
  /\ Interval + MaxStep <= Wrap

Ports == {0, 1}
NoPort == -1
Protocols == {"CRSF", "SBUS", "MAVLINK"}
Lengths == {0, 1}

\* What serviceTask can set: the protocols of the ports and of the output,
\* whether the voltage is measured, and whether it replaces telemetry.
Settings == [port : [Ports -> Protocols], output : Protocols,
             measured : BOOLEAN, override : BOOLEAN]

ASSUME SavedAssumption == Saved \subseteq Settings

VARIABLES
  now,             \* now_ms of the update
  active,          \* active_index_ of the ReceiverManager
  queues,          \* the telemetry queue of each port
  set,             \* the settings in force
  step,            \* what serviceTask does next
  source,          \* active, the port update() drains
  lastInjection,   \* last_injection_ms_
  forwarded, overridden, dropped,   \* packets_forwarded_ and so on
  handled,         \* history: packets popped or due to be injected
  since,           \* history: real time since the last injection
  gap,             \* history: since, just before that injection
  on               \* history: real time the override has been on

counters == <<forwarded, overridden, dropped, handled>>
stopwatch == <<since, gap, on>>
vars == <<now, active, queues, set, step, source, lastInjection, counters, stopwatch>>

Count(x, d) == IF x + d < Horizon THEN x + d ELSE Horizon
Plus1(n) == (n + 1) % CountWrap

-----------------------------------------------------------------------------
(* rxTask.                                                                 *)

\* A port takes a telemetry packet; SBUS has none.
ReceivePacket(i, len) ==
  /\ set.port[i] # "SBUS"
  /\ queues' = [queues EXCEPT ![i] =
                  Append(IF Len(@) = Capacity THEN Tail(@) ELSE @, len)]
  /\ UNCHANGED <<now, active, set, step, source, lastInjection, counters, stopwatch>>

SelectPort(a) ==
  /\ a # active
  /\ active' = a
  /\ UNCHANGED <<now, queues, set, step, source, lastInjection, counters, stopwatch>>

-----------------------------------------------------------------------------
(* serviceTask: TelemetryRouter::update.                                   *)

BeginUpdate(d) ==
  /\ step = "update"
  /\ now' = Later(now, d)
  /\ source' = active
  /\ step' = IF active = NoPort THEN "inject" ELSE "drain"
  /\ since' = Count(since, d)
  /\ on' = IF set.override THEN Count(on, d) ELSE 0
  /\ UNCHANGED <<active, queues, set, lastInjection, counters, gap>>

\* What OutputManager::sendTelemetry reports of len bytes: SBUS takes none,
\* and a UART that is not open does not either.
Sent(len) == IF set.output = "SBUS" THEN {0} ELSE {0, len}

\* Mutant: a packet the output does not take is not counted.
ForwardUncounted ==
  /\ step = "drain"
  /\ queues[source] # <<>>
  /\ queues' = [queues EXCEPT ![source] = Tail(@)]
  /\ handled' = Plus1(handled)
  /\ \E sent \in Sent(Head(queues[source])) :
       IF sent = Head(queues[source])
       THEN forwarded' = Plus1(forwarded)
       ELSE UNCHANGED forwarded
  /\ UNCHANGED <<now, active, set, step, source, lastInjection, overridden, dropped,
                 stopwatch>>

\* One turn of the loop: popTelemetry, sendTelemetry and the count.
Forward ==
  /\ step = "drain"
  /\ queues[source] # <<>>
  /\ queues' = [queues EXCEPT ![source] = Tail(@)]
  /\ handled' = Plus1(handled)
  /\ \E sent \in Sent(Head(queues[source])) :
       IF sent = Head(queues[source])
       THEN forwarded' = Plus1(forwarded) /\ UNCHANGED dropped
       ELSE dropped' = Plus1(dropped) /\ UNCHANGED forwarded
  /\ UNCHANGED <<now, active, set, step, source, lastInjection, overridden, stopwatch>>

EndDrain ==
  /\ step = "drain"
  /\ queues[source] = <<>>
  /\ step' = "inject"
  /\ UNCHANGED <<now, active, queues, set, source, lastInjection, counters, stopwatch>>

\* injectBatteryToActiveReceiver can only succeed with an active port, a
\* measured voltage and a protocol that has telemetry.
CanInject ==
  /\ active # NoPort
  /\ set.measured
  /\ set.port[active] # "SBUS"

\* Mutant: the deadline is computed instead of the unsigned difference.
InjectionIsDueAfter == set.override /\ now >= lastInjection + Interval

InjectionIsDue == set.override /\ Elapsed(now, lastInjection) >= Interval

\* Mutant: the time of an injection is noted only when it succeeded.
InjectRetrying ==
  /\ step = "inject"
  /\ InjectionIsDue
  /\ handled' = Plus1(handled)
  /\ \/ /\ CanInject
        /\ overridden' = Plus1(overridden) /\ UNCHANGED dropped
        /\ lastInjection' = now
     \/ dropped' = Plus1(dropped) /\ UNCHANGED <<overridden, lastInjection>>
  /\ gap' = since
  /\ since' = 0
  /\ step' = "apply"
  /\ UNCHANGED <<now, active, queues, set, source, forwarded, on>>

\* The attempt counts for the interval even when nothing could be written: a
\* UART that is not open takes nothing.
Inject ==
  /\ step = "inject"
  /\ InjectionIsDue
  /\ handled' = Plus1(handled)
  /\ \/ CanInject /\ overridden' = Plus1(overridden) /\ UNCHANGED dropped
     \/ dropped' = Plus1(dropped) /\ UNCHANGED overridden
  /\ lastInjection' = now
  /\ gap' = since
  /\ since' = 0
  /\ step' = "apply"
  /\ UNCHANGED <<now, active, queues, set, source, forwarded, on>>

NoInjection ==
  /\ step = "inject"
  /\ ~InjectionIsDue
  /\ step' = "apply"
  /\ UNCHANGED <<now, active, queues, set, source, lastInjection, counters, stopwatch>>

\* App::applyConfigToModules, if a configuration is waiting: a port whose
\* protocol changes starts with an empty queue.
Apply(s) ==
  /\ step = "apply"
  /\ set' = s
  /\ queues' = [i \in Ports |-> IF s.port[i] = set.port[i] THEN queues[i] ELSE <<>>]
  /\ on' = IF s.override THEN on ELSE 0
  /\ step' = "update"
  /\ UNCHANGED <<now, active, source, lastInjection, counters, since, gap>>

-----------------------------------------------------------------------------
\* After TelemetryRouter::begin in App::setup.
Init ==
  /\ now = 0
  /\ active = NoPort
  /\ queues = [i \in Ports |-> <<>>]
  /\ set \in Saved
  /\ step = "update"
  /\ source = NoPort
  /\ lastInjection = 0
  /\ forwarded = 0 /\ overridden = 0 /\ dropped = 0 /\ handled = 0
  /\ since = Horizon
  /\ gap = Horizon
  /\ on = 0

Next ==
  \/ \E i \in Ports, len \in Lengths : ReceivePacket(i, len)
  \/ \E a \in Ports \cup {NoPort} : SelectPort(a)
  \/ \E d \in 0 .. MaxStep : BeginUpdate(d)
  \/ Forward \/ EndDrain \/ Inject \/ NoInjection
  \/ \E s \in Saved : Apply(s)

Spec == Init /\ [][Next]_vars

-----------------------------------------------------------------------------
TypeOK ==
  /\ now \in Stamp /\ lastInjection \in Stamp
  /\ active \in Ports \cup {NoPort}
  /\ \A i \in Ports : Len(queues[i]) <= Capacity
  /\ set \in Saved
  /\ step \in {"update", "drain", "inject", "apply"}
  /\ step = "drain" => source \in Ports
  /\ {forwarded, overridden, dropped, handled} \subseteq 0 .. CountWrap - 1
  /\ {since, gap, on} \subseteq 0 .. Horizon

\* Every packet that leaves a queue and every injection that was due is
\* counted exactly once, as forwarded, overridden or dropped, on every path
\* through update() and however active changes under it.
EachIsCountedOnce == handled = (forwarded + overridden + dropped) % CountWrap

\* Two injections are never closer in real time than the interval, also
\* when the override was off or millis() wrapped in between.
InjectionsAreSpaced == gap >= Interval

\* "every 500 ms, if override is enabled" (telemetry_router.h:30): an interval
\* and an update after the override was switched on, the last injection is
\* never an interval ago when an update is done.
InjectionIsPeriodic ==
  (step \in {"apply", "update"} /\ on >= Interval + MaxStep) => since < Interval
=============================================================================
