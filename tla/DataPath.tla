-------------------------------- MODULE DataPath --------------------------------
(***************************************************************************)
(* From the receivers to the flight controller (app/app.cpp): rxTask runs  *)
(* ReceiverManager::update and publishes the winning frame; outputTask     *)
(* copies it and runs OutputManager::update; serviceTask, on the other     *)
(* core, gives ports and selection new settings at any moment.  Each task  *)
(* takes as many steps as another one can come between.  There is one      *)
(* millis(), which advances with rxTask, the faster of the two.            *)
(***************************************************************************)
EXTENDS OutputManager

CONSTANTS
  \* Those of ReceiverManager.
  Qualities, ParserTimeout, HbFresh, HbStale, Priorities, Wires,
  Selections, PortConfigs,
  RxMaxStep,       \* the largest number of milliseconds between two updates of
                   \* the receivers
  SilenceLimit     \* where the observer of the receivers stops counting

VARIABLES
  clock,    \* millis()
  shared,   \* shared_frame_: whether its channels were received, link_valid
  rx,       \* what rxTask does next: "update" or "publish"
  copy,     \* outputTask's copy of shared_frame_, once due, with its now
  silence,  \* history: real time since either port took any frame
  served    \* history: real time for which every update left a port active

\* The variables of ReceiverManager, whose now is the clock.
VARIABLES ports, sel, state, active, activeSince, challenger, challengerSince

Rx == INSTANCE ReceiverManager WITH now <- clock, MaxStep <- RxMaxStep

observer == <<silence, served>>
receivers == <<clock, ports, sel, state, active, activeSince, challenger, challengerSince>>
path == <<receivers, shared, rx, copy, observer>>
dvars == <<path, vars>>

\* An update of rxTask is published, the next loop of outputTask copies it and
\* the one after that is past the rate limit.
Slack == Interval[cfg.protocol] + RxMaxStep + 2 * MaxStep

\* rxTask is the faster of the two.  The observer counts past the longest link
\* timeout and the slack that follows it.
ASSUME DataPathAssumption ==
  /\ Selections \subseteq Rx!Selection
  /\ PortConfigs \in [Rx!Ports -> SUBSET Rx!PortConfig]
  /\ RxMaxStep \in Nat /\ RxMaxStep <= MaxStep /\ MaxStep < Wrap
  /\ ParserTimeout \in Nat /\ ParserTimeout + RxMaxStep < Wrap
  /\ SilenceLimit \in Nat
  /\ \A s \in Selections, c \in OutputConfigs :
       s.linkTimeout + Interval[c.protocol] + RxMaxStep + 2 * MaxStep <= SilenceLimit

Counted(x, d) == IF x + d < SilenceLimit THEN x + d ELSE SilenceLimit

-----------------------------------------------------------------------------
(* rxTask.                                                                 *)

\* Time passes; outputTask, of the same priority on the same core, is not kept
\* waiting for longer than MaxStep.
RxUpdate(d) ==
  /\ rx = "update"
  /\ Elapsed(clock, now) + d <= MaxStep
  /\ \E b0 \in Rx!Batches(ports[0], FALSE), b1 \in Rx!Batches(ports[1], FALSE) :
       /\ Rx!Update(d, b0, b1)
       /\ silence' = IF {b0, b1} = {<<Rx!NoFrame, Rx!NoFrame>>} THEN Counted(silence, d) ELSE 0
  /\ served' = IF Rx!NoPort \in {active, active'} THEN 0 ELSE Counted(served, d)
  /\ rx' = "publish"
  /\ UNCHANGED <<shared, copy, vars>>

Winner ==
  [received |-> active # Rx!NoPort /\ ports[active].frameValid,
   link |-> active # Rx!NoPort]

\* Mutant: link_valid is only ever raised.
RxPublishSticky ==
  /\ rx = "publish"
  /\ shared' = [Winner EXCEPT !.link = @ \/ shared.link]
  /\ rx' = "update"
  /\ UNCHANGED <<receivers, copy, observer, vars>>

\* The critical section: activeFrame() and hasValidLink(), read when it runs.
\* The spinlock keeps outputTask out of it, not serviceTask.
RxPublish ==
  /\ rx = "publish"
  /\ shared' = Winner
  /\ rx' = "update"
  /\ UNCHANGED <<receivers, copy, observer, vars>>

-----------------------------------------------------------------------------
(* outputTask.                                                             *)

NoCopy == [due |-> FALSE, at |-> 0, received |-> FALSE, link |-> FALSE]

\* millis() and, in the critical section, the frame and the link.
OutCopy ==
  /\ ~copy.due
  /\ copy' = [due |-> TRUE, at |-> clock, received |-> shared.received, link |-> shared.link]
  /\ UNCHANGED <<receivers, shared, rx, observer, vars>>

\* OutputManager::update with the copy; PwmManager::update, which is given the
\* same one, is a module of its own.
OutUpdate ==
  /\ copy.due
  /\ \E f \in IF copy.received THEN Received ELSE {Centred} :
       Update(Elapsed(copy.at, now), copy.link, f)
  /\ copy' = NoCopy
  /\ UNCHANGED <<receivers, shared, rx, observer>>

-----------------------------------------------------------------------------
\* serviceTask: the calls of applyConfigToModules for ports and selection, in
\* any order; App has their order.
Reconfigure ==
  /\ \/ \E i \in Rx!Ports : \E c \in PortConfigs[i] : Rx!ConfigurePort(i, c)
     \/ \E s \in Selections : Rx!ConfigureSelection(s)
  /\ UNCHANGED <<shared, rx, copy, observer, vars>>

DInit ==
  /\ Rx!Init
  /\ shared = [received |-> FALSE, link |-> FALSE]
  /\ rx = "update"
  /\ copy = NoCopy
  /\ silence = 0
  /\ served = 0
  /\ Init

RxTask == (\E d \in 0 .. RxMaxStep : RxUpdate(d)) \/ RxPublish
OutputTask == OutCopy \/ OutUpdate

DNext == RxTask \/ OutputTask \/ Reconfigure

DSpec == DInit /\ [][DNext]_dvars

-----------------------------------------------------------------------------
DTypeOK ==
  /\ clock \in Stamp
  /\ copy \in [due : BOOLEAN, at : Stamp, received : BOOLEAN, link : BOOLEAN]
  /\ shared \in [received : BOOLEAN, link : BOOLEAN]
  /\ shared.received => shared.link
  /\ copy.received => copy.link
  /\ rx \in {"update", "publish"}
  /\ silence \in 0 .. SilenceLimit /\ served \in 0 .. SilenceLimit
  /\ TypeOK

Dark(d) == \A s \in Selections : silence >= s.linkTimeout + d

\* When both receivers have been silent for the longest link timeout, the very
\* next publication tells outputTask so, whatever serviceTask does to the
\* ports, the manager and their configuration in between: the first half of
\* "failsafe must always converge" (2026-08-03-esp32-rc-router.md:25).  The
\* silence of a whole wrap that AliveIsRecent excepts is excepted here as well,
\* by giving the ports configurations it does not happen to.
LinkLossIsPublished == (rx = "update" /\ shared.link) => ~Dark(0)

\* The whole of it: once the air has been silent for a link timeout, an update
\* of rxTask, two of outputTask and a frame interval, the flight controller
\* gets what the failsafe mode asks for, though outputTask may work on a copy
\* taken before the loss and the ports may be reset meanwhile.
SilenceReachesFc == (cfg.protocol # "NONE" /\ Dark(Slack)) => FailsafeReached

\* "... and recovery must be automatic" (2026-08-03-esp32-rc-router.md:25):
\* when a port has been active for as long, the flight controller gets live
\* frames, one in every interval.
LinkReachesFc == (cfg.protocol # "NONE" /\ served >= Slack) => Flowing /\ wire.link
=============================================================================
