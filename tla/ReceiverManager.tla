--------------------------- MODULE ReceiverManager ---------------------------
(***************************************************************************)
(* The selection state machine (receiver/receiver_manager.cpp): which of   *)
(* the two receiver ports drives the outputs.  rxTask calls update() every *)
(* millisecond; serviceTask calls setConfig() on a port and on the manager *)
(* when the web UI saved a new configuration.                              *)
(***************************************************************************)
EXTENDS ReceiverPort

CONSTANTS
  Selections,     \* the SelectionConfig records that can be set
  PortConfigs,    \* PortConfigs[i]: the configurations port i can be given
  MaxStep         \* the largest number of milliseconds between two updates

Ports == {0, 1}
NoPort == -1
Other(i) == 1 - i

Selection == [hysteresis : 0 .. 100, switchDelay : Nat,
              minActive : Nat, linkTimeout : Nat]

ASSUME ReceiverManagerAssumption ==
  /\ Selections \subseteq Selection
  /\ PortConfigs \in [Ports -> SUBSET PortConfig]
  /\ MaxStep \in Nat

VARIABLES
  now,              \* millis() at the last update
  ports,            \* ports_[]
  sel,              \* cfg_
  state,            \* state_
  active,           \* active_index_
  activeSince,      \* active_since_ms_
  challenger,       \* challenger_index_
  challengerSince   \* challenger_better_since_ms_

fsm == <<state, active, activeSince, challenger, challengerSince>>
vars == <<now, ports, sel, fsm>>

States == {"NO_LINK", "LOCKED", "EVALUATING", "SWITCHING"}

-----------------------------------------------------------------------------
(* Scores.                                                                 *)

\* linkScore.  0 .. 255 for lq and rssi gives at most 2395, capped at 1000.
LinkScore(p) ==
  LET sum == p.lq * 6 + p.rssi * 3 + (IF p.cfg.priority = 0 THEN 100 ELSE 0)
  IN  IF ~p.valid \/ p.failsafe THEN 0
      ELSE IF sum > 1000 THEN 1000
      ELSE sum

\* Mutant: a challenger need not beat the margin.
BetterWithoutMargin(ps, j, i) == LinkScore(ps[j]) >= LinkScore(ps[i])

\* better, in ReceiverManager::update: port j reaches the score of port i
\* plus the hysteresis margin.
Better(ps, j, i) ==
  LET score == LinkScore(ps[i])
  IN  LinkScore(ps[j]) >= score + (score * sel.hysteresis) \div 100

Alive(ps, t) == {i \in Ports : IsAlive(ps[i], t, sel.linkTimeout)}

\* The port the loop over the ports settles on when none is active: the
\* better score, and port 0 when they are equal.
Best(ps, alive) ==
  IF alive = {1} \/ (alive = Ports /\ LinkScore(ps[1]) > LinkScore(ps[0]))
  THEN 1 ELSE 0

-----------------------------------------------------------------------------
(* The cases of ReceiverManager::update, once both ports were pumped: ps   *)
(* is their new state and t the time of the update.                        *)

\* No port is active and none is alive.
StayNoLink(ps, t) ==
  /\ active = NoPort
  /\ Alive(ps, t) = {}
  /\ state' = "NO_LINK"
  /\ UNCHANGED <<active, activeSince, challenger, challengerSince>>

\* No port is active: the best live one is taken at once.
Lock(ps, t) ==
  /\ active = NoPort
  /\ Alive(ps, t) # {}
  /\ active' = Best(ps, Alive(ps, t))
  /\ activeSince' = t
  /\ challenger' = NoPort
  /\ challengerSince' = 0
  /\ state' = "LOCKED"

\* Mutant: a failover that leaves the challenger timer running.
FailoverKeepsChallenger(ps, t) ==
  /\ active # NoPort
  /\ active \notin Alive(ps, t)
  /\ Other(active) \in Alive(ps, t)
  /\ active' = Other(active)
  /\ activeSince' = t
  /\ state' = "SWITCHING"
  /\ UNCHANGED <<challenger, challengerSince>>

\* The active port is dead and the other alive: switch at once, minActive
\* notwithstanding.
Failover(ps, t) ==
  /\ active # NoPort
  /\ active \notin Alive(ps, t)
  /\ Other(active) \in Alive(ps, t)
  /\ active' = Other(active)
  /\ activeSince' = t
  /\ challenger' = NoPort
  /\ challengerSince' = 0
  /\ state' = "SWITCHING"

\* Mutant: the last active port stays active.
LoseLinkKeepsActive(ps, t) ==
  /\ active # NoPort
  /\ Alive(ps, t) = {}
  /\ challenger' = NoPort
  /\ challengerSince' = 0
  /\ state' = "NO_LINK"
  /\ UNCHANGED <<active, activeSince>>

\* Both ports are dead.
LoseLink(ps, t) ==
  /\ active # NoPort
  /\ Alive(ps, t) = {}
  /\ active' = NoPort
  /\ challenger' = NoPort
  /\ challengerSince' = 0
  /\ state' = "NO_LINK"
  /\ UNCHANGED activeSince

\* Mutant: a dip of the rival leaves the challenger timer running.
HoldKeepsChallenger(ps, t) ==
  /\ active \in Alive(ps, t)
  /\ ~ (Alive(ps, t) = Ports /\ Better(ps, Other(active), active))
  /\ state' = "LOCKED"
  /\ UNCHANGED <<active, activeSince, challenger, challengerSince>>

\* The active port is alive and the other one dead or not better.
Hold(ps, t) ==
  /\ active \in Alive(ps, t)
  /\ ~ (Alive(ps, t) = Ports /\ Better(ps, Other(active), active))
  /\ challenger' = NoPort
  /\ challengerSince' = 0
  /\ state' = "LOCKED"
  /\ UNCHANGED <<active, activeSince>>

\* Mutant: the challenger timer restarts with every update.
BetterSinceRestarts(t) == t

\* challenger_better_since_ms_ once a challenger other than the one being
\* timed, if any, has been noted.
BetterSince(t) == IF challenger = Other(active) THEN challengerSince ELSE t

\* Both delays of the selection have passed.
DelaysElapsed(t) ==
  /\ Elapsed(t, BetterSince(t)) >= sel.switchDelay
  /\ Elapsed(t, activeSince) >= sel.minActive

\* Both are alive and the other one is better, not for long enough.
Evaluate(ps, t) ==
  /\ active # NoPort
  /\ Alive(ps, t) = Ports
  /\ Better(ps, Other(active), active)
  /\ ~DelaysElapsed(t)
  /\ challenger' = Other(active)
  /\ challengerSince' = BetterSince(t)
  /\ state' = "EVALUATING"
  /\ UNCHANGED <<active, activeSince>>

\* Both are alive and the other one has been better for long enough.
Switch(ps, t) ==
  /\ active # NoPort
  /\ Alive(ps, t) = Ports
  /\ Better(ps, Other(active), active)
  /\ DelaysElapsed(t)
  /\ active' = Other(active)
  /\ activeSince' = t
  /\ challenger' = NoPort
  /\ challengerSince' = 0
  /\ state' = "SWITCHING"

Select(ps, t) ==
  \/ StayNoLink(ps, t)
  \/ Lock(ps, t)
  \/ Failover(ps, t)
  \/ LoseLink(ps, t)
  \/ Hold(ps, t)
  \/ Evaluate(ps, t)
  \/ Switch(ps, t)

Pumped(b0, b1, t) ==
  [i \in Ports |-> LET b == IF i = 0 THEN b0 ELSE b1
                   IN  PumpPort(ports[i], b[1], b[2], t)]

\* ReceiverManager::update, d milliseconds after the one before, with b0 and
\* b1 the frames waiting on the two ports: at most one on each, d = 0 giving
\* bursts.
Update(d, b0, b1) ==
  /\ now' = Later(now, d)
  /\ ports' = Pumped(b0, b1, now')
  /\ Select(ports', now')
  /\ UNCHANGED sel

AnyUpdate(d) ==
  \E b0 \in Batches(ports[0], FALSE), b1 \in Batches(ports[1], FALSE) :
    Update(d, b0, b1)

\* ReceiverPort::setConfig, called by App::applyConfigToModules.
ConfigurePort(i, cfg) ==
  /\ ports' = [ports EXCEPT ![i] = SetPortConfig(ports[i], cfg)]
  /\ UNCHANGED <<now, sel, fsm>>

\* ReceiverManager::setConfig: none of the running timers is touched.
ConfigureSelection(s) ==
  /\ sel' = s
  /\ UNCHANGED <<now, ports, fsm>>

-----------------------------------------------------------------------------
\* After ReceiverPort::begin and ReceiverManager::begin in App::setup.
Init ==
  /\ now = 0
  /\ \E c0 \in PortConfigs[0], c1 \in PortConfigs[1] :
       ports = [i \in Ports |-> Reapply(IF i = 0 THEN c0 ELSE c1)]
  /\ sel \in Selections
  /\ state = "NO_LINK"
  /\ active = NoPort
  /\ activeSince = 0
  /\ challenger = NoPort
  /\ challengerSince = 0

Next ==
  \/ \E d \in 0 .. MaxStep : AnyUpdate(d)
  \/ \E i \in Ports : \E c \in PortConfigs[i] : ConfigurePort(i, c)
  \/ \E s \in Selections : ConfigureSelection(s)

Spec == Init /\ [][Next]_vars

\* No task has a higher priority than rxTask and every task delays itself after
\* its work, so update() runs again and again and millis() advances meanwhile
\* (App::createTasks, App::rxTaskLoop).
FairSpec == Spec /\ WF_vars(\E d \in 1 .. MaxStep : AnyUpdate(d))

-----------------------------------------------------------------------------
\* Port j is alive, and beats the live port i by more than the margin.
Beats(j, i) ==
  LET score == LinkScore(ports[i])
  IN  /\ Alive(ports, now) = Ports
      /\ LinkScore(ports[j]) > score + (score * sel.hysteresis) \div 100

\* A port that keeps beating the other, live one is selected in the end and
\* stays selected: neither delay can be restarted for ever
\* (ReceiverManager::update, the challenger timer).
BetterPortWins ==
  \A j \in Ports : <>[]Beats(j, Other(j)) => <>[](active = j)

Scores(ps) == [i \in Ports |-> LinkScore(ps[i])]

\* Both links are alive, and the margin of neither score rounds to 0.
BothHaveMargin ==
  /\ Alive(ports, now) = Ports
  /\ \A i \in Ports : LinkScore(ports[i]) * sel.hysteresis >= 100

\* Between two live links whose scores stay as they are the selection comes
\* to rest: it does not alternate between them, unless a margin is 0, which
\* the comparison of ReceiverManager::update then lets each of them reach.
SelectionSettles ==
  (<>[]BothHaveMargin /\ <>[][Scores(ports') = Scores(ports)]_vars)
    => \E i \in Ports : <>[](active = i)
=============================================================================
