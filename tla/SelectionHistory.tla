--------------------------- MODULE SelectionHistory ---------------------------
(***************************************************************************)
(* ReceiverManager with history variables: what an observer with a clock   *)
(* that never wraps would note of each update.  They constrain nothing;    *)
(* the properties of the selection are stated with them.                   *)
(***************************************************************************)
EXTENDS ReceiverManager

CONSTANT Horizon   \* where the observer stops counting milliseconds

\* The observer counts past every delay that can be configured.
ASSUME HorizonAssumption ==
  /\ Horizon \in Nat
  /\ \A s \in Selections : s.switchDelay <= Horizon /\ s.minActive <= Horizon

VARIABLES
  aliveSeen,  \* the ports found alive by the last update
  judge,      \* the SelectionConfig that update went by
  fresh,      \* TRUE when that update changed the active port
  held,       \* real time the port active before it had been active
  streak      \* real time its rival had been continuously better, or Never

history == <<aliveSeen, judge, fresh, held, streak>>
hvars == <<vars, history>>

Never == -1

\* The observer's count of a duration, d milliseconds later.
Count(x, d) == IF x + d < Horizon THEN x + d ELSE Horizon

\* What held and streak amount to for the port that is active now.
HeldNow == IF fresh THEN 0 ELSE held
StreakNow == IF fresh THEN Never ELSE streak

RivalBetter(ps, t) ==
  /\ active # NoPort
  /\ Alive(ps, t) = Ports
  /\ Better(ps, Other(active), active)

HInit ==
  /\ Init
  /\ aliveSeen = {}
  /\ judge = sel
  /\ fresh = FALSE
  /\ held = 0
  /\ streak = Never

Observe(d) ==
  /\ aliveSeen' = Alive(ports', now')
  /\ judge' = sel
  /\ fresh' = (active' # active)
  /\ held' = IF active = NoPort THEN 0 ELSE Count(HeldNow, d)
  /\ streak' = IF ~RivalBetter(ports', now') THEN Never
               ELSE IF StreakNow = Never THEN 0
               ELSE Count(StreakNow, d)

HUpdate(d) ==
  \E b0 \in Batches(ports[0], FALSE), b1 \in Batches(ports[1], FALSE) :
    /\ Update(d, b0, b1)
    /\ Observe(d)

HConfigurePort(i, cfg) == ConfigurePort(i, cfg) /\ UNCHANGED history
HConfigureSelection(s) == ConfigureSelection(s) /\ UNCHANGED history

HNext ==
  \/ \E d \in 0 .. MaxStep : HUpdate(d)
  \/ \E i \in Ports : \E c \in PortConfigs[i] : HConfigurePort(i, c)
  \/ \E s \in Selections : HConfigureSelection(s)

HSpec == HInit /\ [][HNext]_hvars

-----------------------------------------------------------------------------
TypeOK ==
  /\ now \in Stamp
  /\ ports \in [Ports -> Port]
  /\ sel \in Selections
  /\ state \in States
  /\ active \in Ports \cup {NoPort}
  /\ activeSince \in Stamp
  /\ challenger \in Ports \cup {NoPort}
  /\ challengerSince \in Stamp
  /\ aliveSeen \in SUBSET Ports
  /\ judge \in Selections
  /\ fresh \in BOOLEAN
  /\ held \in 0 .. Horizon
  /\ streak \in -1 .. Horizon

\* After every update a port is active exactly when one is alive, and the
\* active one is alive: the manager neither drives the outputs from a dead
\* link nor reports no link while there is one (ReceiverManager::update).
ActiveIsAlive ==
  /\ (active = NoPort) <=> (aliveSeen = {})
  /\ active # NoPort => active \in aliveSeen

\* The challenger being timed is never the active port, and it is timed only
\* while the machine says EVALUATING: no stale challenger survives a switch,
\* a lock or the loss of the link, from where its old start time would cut
\* the next switch delay short.
ChallengerIsRival ==
  challenger # NoPort <=> /\ state = "EVALUATING"
                          /\ active # NoPort
                          /\ challenger = Other(active)

\* The state the web page and the LED show agrees with the selection.
StateMatchesSelection == (state = "NO_LINK") <=> (active = NoPort)

\* The running timers never overstate the real time that passed, and a
\* challenger is timed only while its streak lasts: what makes SwitchIsEarned
\* inductive.
TimersAreSound ==
  /\ active # NoPort
       => HeldNow = Horizon \/ Elapsed(now, activeSince) <= HeldNow
  /\ challenger # NoPort
       => /\ ~fresh
          /\ streak # Never
          /\ streak = Horizon \/ Elapsed(now, challengerSince) <= streak

SelectionInv ==
  /\ ActiveIsAlive
  /\ ChallengerIsRival
  /\ StateMatchesSelection
  /\ TimersAreSound

\* A live active port is left only for a rival that every update found better
\* for switchDelay milliseconds of real time, and only once the active port
\* was held for minActive, however the clock wraps in between
\* (config_types.h:32-33).
SwitchIsEarned ==
  [][ (/\ active # NoPort
       /\ active' = Other(active)
       /\ active \in aliveSeen')
      => (/\ held' >= judge'.minActive
          /\ streak' >= judge'.switchDelay) ]_hvars

\* The opposite bound: an update that finds the rival better for switchDelay
\* and the active port held for minActive switches, unless the active port
\* has been held for so long that millis() has wrapped since.
SwitchIsPrompt ==
  (~fresh /\ streak # Never /\ held < Wrap)
    => (streak < judge.switchDelay \/ held < judge.minActive)
=============================================================================
