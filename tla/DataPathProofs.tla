---------------------------- MODULE DataPathProofs ----------------------------
(***************************************************************************)
(* Proofs about the way from the receivers to the flight controller, for   *)
(* every configuration of receivers and output, every period of the tasks  *)
(* and every width of the clock.                                           *)
(***************************************************************************)
EXTENDS DataPath, OutputProofs

\* How far millis() is ahead of the last update of the output.
Lag == Elapsed(clock, now)

\* How long before that update a frame was last written.
Waited == Elapsed(now, lastSend)

\* A silence of x ms is not d ms longer than every link timeout.
Recent(x, d) == \E s \in Selections : x < s.linkTimeout + d

-----------------------------------------------------------------------------
(* The clock and the observer.                                             *)

LEMMA ReadingFacts ==
  ASSUME NEW t \in Stamp, NEW s \in Stamp
  PROVE  Elapsed(t, s) \in Nat /\ Elapsed(t, s) < Wrap
BY WrapAssumption, SMT DEF Elapsed, Stamp

\* Going forward by the difference of two readings leads from one to the other.
LEMMA LaterElapsed ==
  ASSUME NEW t \in Stamp, NEW s \in Stamp
  PROVE  Later(s, Elapsed(t, s)) = t
BY WrapAssumption, SMT DEF Later, Elapsed, Stamp

\* ReceiverManager's clock is that of the output.
LEMMA RxClock ==
  ASSUME NEW t, NEW d
  PROVE  Rx!Later(t, d) = Later(t, d) /\ Rx!Elapsed(t, d) = Elapsed(t, d)
BY DEF Rx!Later, Rx!Elapsed, Later, Elapsed

LEMMA CountedFacts ==
  ASSUME NEW x \in 0 .. SilenceLimit, NEW d \in Nat
  PROVE  Counted(x, d) \in 0 .. SilenceLimit /\ Counted(x, d) <= x + d
BY DataPathAssumption, SMT DEF Counted

LEMMA TimeoutType ==
  ASSUME NEW s \in Selections
  PROVE  s.linkTimeout \in Nat
<1>1. s \in Rx!Selection
  BY DataPathAssumption, Zenon
<1> QED BY <1>1 DEF Rx!Selection

\* A silence that grows by no more than its allowance stays within it.
LEMMA RecentGrows ==
  ASSUME NEW x \in Int, NEW y \in Int, NEW a \in Int, NEW c \in Int, NEW d \in Int,
         Recent(x, a), y <= x + d, a + d <= c
  PROVE  Recent(y, c)
<1>1. PICK s \in Selections : x < s.linkTimeout + a
  BY DEF Recent
<1>2. y < s.linkTimeout + c
  BY <1>1, TimeoutType, SMT
<1> QED BY <1>2 DEF Recent

LEMMA DarkIsNotRecent ==
  ASSUME NEW d \in Int, silence \in Int
  PROVE  Dark(d) <=> ~Recent(silence, d)
<1>1. \A s \in Selections : silence >= s.linkTimeout + d <=> ~(silence < s.linkTimeout + d)
  BY TimeoutType, SMT
<1> QED BY <1>1 DEF Dark, Recent

-----------------------------------------------------------------------------
(* The receivers.                                                          *)

\* After an update of ReceiverManager the active port, if any, is alive.
LEMMA SelectedIsAlive ==
  ASSUME active \in Rx!Ports \cup {Rx!NoPort},
         NEW d, NEW b0, NEW b1, Rx!Update(d, b0, b1)
  PROVE  /\ clock' = Later(clock, d) /\ sel' = sel
         /\ active' \in Rx!Ports \cup {Rx!NoPort}
         /\ active' # Rx!NoPort
              => ports'[active'].valid
                 /\ Elapsed(clock', ports'[active'].last) < sel.linkTimeout
<1> DEFINE A == Rx!Alive(ports', clock')
<1>1. /\ clock' = Later(clock, d) /\ sel' = sel /\ Rx!Select(ports', clock')
  BY RxClock DEF Rx!Update
<1>2. A \subseteq {0, 1} /\ Rx!Ports = {0, 1}
  BY DEF Rx!Alive, Rx!Ports
<1>3. ASSUME active' \in A
      PROVE  ports'[active'].valid /\ Elapsed(clock', ports'[active'].last) < sel.linkTimeout
  BY <1>3, RxClock DEF Rx!Alive, Rx!IsAlive
<1>4. active' = Rx!NoPort \/ active' \in A
  <2>1. CASE Rx!StayNoLink(ports', clock')
    BY <2>1 DEF Rx!StayNoLink
  <2>2. CASE Rx!Lock(ports', clock')
    <3>1. A # {} /\ active' = Rx!Best(ports', A)
      BY <2>2 DEF Rx!Lock
    <3> HIDE DEF A
    <3> QED BY <1>2, <3>1 DEF Rx!Best
  <2>3. CASE Rx!Failover(ports', clock')
    BY <2>3 DEF Rx!Failover
  <2>4. CASE Rx!LoseLink(ports', clock')
    BY <2>4 DEF Rx!LoseLink
  <2>5. CASE Rx!Hold(ports', clock')
    BY <2>5 DEF Rx!Hold
  <2>6. CASE Rx!Evaluate(ports', clock')
    BY <2>6 DEF Rx!Evaluate
  <2>7. CASE Rx!Switch(ports', clock')
    <3>1. active \in {0, 1} /\ A = {0, 1} /\ active' = 1 - active
      BY <1>2, <2>7 DEF Rx!Switch, Rx!Other
    <3> HIDE DEF A
    <3>2. 1 - active \in {0, 1}
      BY <3>1, SMT
    <3> QED BY <3>1, <3>2
  <2> QED BY <1>1, <2>1, <2>2, <2>3, <2>4, <2>5, <2>6, <2>7 DEF Rx!Select
<1> HIDE DEF A
<1> QED BY <1>1, <1>2, <1>3, <1>4

-----------------------------------------------------------------------------
(* Types and time.                                                         *)

\* millis() is never further ahead of the output than MaxStep, and outputTask's
\* copy was taken on the way.
Timed ==
  /\ Lag <= MaxStep
  /\ copy.due => Elapsed(copy.at, now) + Elapsed(clock, copy.at) = Lag

BaseInv ==
  /\ active \in Rx!Ports \cup {Rx!NoPort}
  /\ sel \in Selections
  /\ OutputInv
  /\ Timed

LEMMA BaseInit == DInit => DTypeOK /\ BaseInv
<1> SUFFICES ASSUME DInit PROVE DTypeOK /\ BaseInv
  OBVIOUS
<1>1. TypeOK /\ OutputInv
  BY InitType, OutputInvInit DEF DInit
<1>2. 0 \in Stamp /\ 0 \in 0 .. SilenceLimit /\ 0 <= MaxStep
  BY WrapAssumption, DataPathAssumption, OutputClockAssumption, SMT DEF Stamp
<1>3. clock = 0 /\ now = 0 /\ Lag = 0
  BY <1>2, ElapsedSame DEF DInit, Rx!Init, Init, Lag
<1>4. DTypeOK
  BY <1>1, <1>2, <1>3 DEF DTypeOK, DInit, NoCopy
<1>5. Timed
  BY <1>2, <1>3 DEF Timed, DInit, NoCopy
<1> QED BY <1>1, <1>4, <1>5 DEF BaseInv, DInit, Rx!Init

\* The output does not move while another task does.
LEMMA OutputStays ==
  ASSUME TypeOK, OutputInv, UNCHANGED vars
  PROVE  TypeOK' /\ OutputInv'
BY StepType, OutputInvStep

\* What an update of the receivers does to the clock and to the observer.
LEMMA RxStep ==
  ASSUME DTypeOK, BaseInv, NEW d \in 0 .. RxMaxStep, RxUpdate(d)
  PROVE  /\ d \in Nat /\ clock' = Later(clock, d) /\ clock' \in Stamp /\ sel' = sel
         /\ Lag' = Lag + d /\ Lag' <= MaxStep /\ Waited' = Waited
         /\ copy.due => Elapsed(clock', copy.at) = Elapsed(clock, copy.at) + d
         /\ silence' \in 0 .. SilenceLimit /\ silence' <= silence + d
         /\ served' \in 0 .. SilenceLimit /\ served' <= served + d
         /\ served' > 0 => active # Rx!NoPort /\ active' # Rx!NoPort
         /\ active' \in Rx!Ports \cup {Rx!NoPort}
         /\ active' # Rx!NoPort
              => ports'[active'].valid
                 /\ Elapsed(clock', ports'[active'].last) < sel.linkTimeout
         /\ rx = "update" /\ rx' = "publish"
         /\ UNCHANGED <<shared, copy, vars>>
<1>1. /\ d \in Nat /\ 0 \in 0 .. SilenceLimit
      /\ MaxStep \in Nat /\ Wrap \in Nat /\ MaxStep < Wrap
  BY DataPathAssumption, OutputClockAssumption, WrapAssumption, SMT
<1>2. PICK b0 \in Rx!Batches(ports[0], FALSE), b1 \in Rx!Batches(ports[1], FALSE) :
        /\ Rx!Update(d, b0, b1)
        /\ silence' = IF {b0, b1} = {<<Rx!NoFrame, Rx!NoFrame>>} THEN Counted(silence, d) ELSE 0
  BY DEF RxUpdate
<1>3. /\ clock' = Later(clock, d) /\ sel' = sel
      /\ active' \in Rx!Ports \cup {Rx!NoPort}
      /\ active' # Rx!NoPort
           => ports'[active'].valid
              /\ Elapsed(clock', ports'[active'].last) < sel.linkTimeout
  BY <1>2, SelectedIsAlive DEF BaseInv
<1>4. /\ silence \in 0 .. SilenceLimit /\ served \in 0 .. SilenceLimit
      /\ clock \in Stamp /\ now \in Stamp /\ copy.at \in Stamp
  BY DEF DTypeOK, TypeOK
<1>5. /\ Counted(silence, d) \in 0 .. SilenceLimit /\ Counted(silence, d) <= silence + d
      /\ Counted(served, d) \in 0 .. SilenceLimit /\ Counted(served, d) <= served + d
  BY <1>1, <1>4, CountedFacts
<1>6. /\ silence' \in 0 .. SilenceLimit /\ silence' <= silence + d
      /\ served' \in 0 .. SilenceLimit /\ served' <= served + d
  BY <1>1, <1>2, <1>4, <1>5, SMT DEF RxUpdate
<1>7. served' > 0 => active # Rx!NoPort /\ active' # Rx!NoPort
  BY DEF RxUpdate
<1>8. now' = now /\ lastSend' = lastSend /\ copy' = copy
  BY DEF RxUpdate, vars, sending
<1>9. Lag' = Lag + d /\ Lag' <= MaxStep
  <2>1. Lag + d <= MaxStep /\ Lag \in Nat
    BY <1>4, ReadingFacts DEF RxUpdate, Lag
  <2>2. Elapsed(clock, now) + d < Wrap
    BY <1>1, <2>1, SMT DEF Lag
  <2>3. Lag' = Lag + d
    BY <1>1, <1>3, <1>4, <1>8, <2>2, ElapsedExact DEF Lag
  <2> QED BY <2>1, <2>3
<1>10. ASSUME copy.due PROVE Elapsed(clock', copy.at) = Elapsed(clock, copy.at) + d
  <2>1. Elapsed(copy.at, now) \in Nat /\ Elapsed(clock, copy.at) \in Nat /\ Lag \in Nat
    BY <1>4, ReadingFacts DEF Lag
  <2>2. Elapsed(copy.at, now) + Elapsed(clock, copy.at) = Lag
    BY <1>10 DEF BaseInv, Timed
  <2>3. Elapsed(clock, copy.at) + d < Wrap
    BY <1>1, <1>9, <2>1, <2>2, SMT
  <2> QED BY <1>1, <1>3, <1>4, <2>3, ElapsedExact
<1>11. clock' \in Stamp
  BY <1>1, <1>3, <1>4, LaterType
<1>12. Waited' = Waited
  BY <1>8 DEF Waited
<1> QED BY <1>1, <1>3, <1>6, <1>7, <1>9, <1>10, <1>11, <1>12 DEF RxUpdate

\* What an update of the output does, outputTask's copy being as old as it is.
LEMMA OutStep ==
  ASSUME DTypeOK, BaseInv, OutUpdate
  PROVE  /\ copy.due /\ copy' = NoCopy
         /\ now' = copy.at /\ link' = copy.link /\ copy.link \in BOOLEAN
         /\ Lag' = Elapsed(clock, copy.at) /\ Lag' \in Nat /\ Lag' <= Lag
         /\ Elapsed(copy.at, now) + Lag' = Lag
         /\ \E d \in 0 .. MaxStep, f \in RcFrames :
              d = Elapsed(copy.at, now) /\ Update(d, copy.link, f)
         /\ UNCHANGED <<receivers, shared, rx, observer>>
<1> DEFINE d == Elapsed(copy.at, now)
<1>1. PICK f \in RcFrames : Update(d, copy.link, f)
  <2>1. PICK f \in IF copy.received THEN Received ELSE {Centred} : Update(d, copy.link, f)
    BY DEF OutUpdate
  <2>2. f \in RcFrames
    BY <2>1, CentredType, OutputAssumption
  <2> QED BY <2>1, <2>2
<1>2. clock \in Stamp /\ now \in Stamp /\ copy.at \in Stamp /\ copy.link \in BOOLEAN
  BY DEF DTypeOK, TypeOK
<1>3. d \in Nat /\ Elapsed(clock, copy.at) \in Nat /\ Lag \in Nat
  BY <1>2, ReadingFacts DEF Lag
<1>4. d + Elapsed(clock, copy.at) = Lag /\ Lag <= MaxStep
  BY DEF BaseInv, Timed, OutUpdate
<1>5. d \in 0 .. MaxStep /\ Elapsed(clock, copy.at) <= Lag
  BY <1>3, <1>4, OutputClockAssumption, SMT
<1>6. now' = copy.at /\ link' = copy.link
  BY <1>1, <1>2, LaterElapsed DEF Update
<1>7. clock' = clock
  BY DEF OutUpdate, receivers
<1>8. Lag' = Elapsed(clock, copy.at)
  BY <1>6, <1>7 DEF Lag
<1> HIDE DEF d
<1>9. \E e \in 0 .. MaxStep, g \in RcFrames : e = d /\ Update(e, copy.link, g)
  BY <1>1, <1>5
<1> QED BY <1>2, <1>3, <1>4, <1>5, <1>6, <1>8, <1>9 DEF OutUpdate, d

LEMMA BaseStep == DTypeOK /\ BaseInv /\ [DNext]_dvars => DTypeOK' /\ BaseInv'
<1> SUFFICES ASSUME DTypeOK, BaseInv, [DNext]_dvars PROVE DTypeOK' /\ BaseInv'
  OBVIOUS
<1>0. UNCHANGED vars => TypeOK' /\ OutputInv'
  BY OutputStays DEF DTypeOK, BaseInv
<1>1. ASSUME NEW d \in 0 .. RxMaxStep, RxUpdate(d) PROVE DTypeOK' /\ BaseInv'
  <2>1. TypeOK' /\ OutputInv' /\ now' = now
    BY <1>0, <1>1, RxStep DEF vars
  <2>2. DTypeOK'
    BY <1>1, <2>1, RxStep DEF DTypeOK
  <2>3. Timed'
    <3>1. ASSUME copy.due PROVE Elapsed(copy.at, now) + Elapsed(clock', copy.at) = Lag'
      <4>1. Elapsed(copy.at, now) + Elapsed(clock, copy.at) = Lag
        BY <3>1 DEF BaseInv, Timed
      <4>2. /\ Lag' = Lag + d /\ d \in Nat
            /\ Elapsed(clock', copy.at) = Elapsed(clock, copy.at) + d
        BY <1>1, <3>1, RxStep
      <4>3. /\ Elapsed(copy.at, now) \in Nat /\ Elapsed(clock, copy.at) \in Nat
        BY ReadingFacts DEF DTypeOK, TypeOK
      <4> QED BY <4>1, <4>2, <4>3, SMT
    <3>2. Lag' <= MaxStep /\ copy' = copy
      BY <1>1, RxStep
    <3> QED BY <2>1, <3>1, <3>2 DEF Timed
  <2>4. sel' \in Selections /\ active' \in Rx!Ports \cup {Rx!NoPort}
    BY <1>1, RxStep DEF BaseInv
  <2> QED BY <2>1, <2>2, <2>3, <2>4 DEF BaseInv
<1>2. CASE RxPublish
  <2>1. TypeOK' /\ OutputInv'
    BY <1>0, <1>2 DEF RxPublish
  <2>2. shared' \in [received : BOOLEAN, link : BOOLEAN]
        /\ (shared'.received => shared'.link)
    <3> DEFINE r == active # Rx!NoPort /\ ports[active].frameValid
    <3>1. shared' = [received |-> r, link |-> active # Rx!NoPort] /\ r \in BOOLEAN
      BY <1>2, Zenon DEF RxPublish, Winner
    <3> QED BY <3>1
  <2> QED BY <1>2, <2>1, <2>2
       DEF RxPublish, receivers, observer, vars, DTypeOK, BaseInv, Timed, Lag
<1>3. CASE OutCopy
  <2>1. TypeOK' /\ OutputInv'
    BY <1>0, <1>3 DEF OutCopy
  <2>2. /\ copy' = [due |-> TRUE, at |-> clock, received |-> shared.received,
                    link |-> shared.link]
        /\ clock' = clock /\ now' = now
    BY <1>3 DEF OutCopy, receivers, vars
  <2>3. Elapsed(clock, now) + Elapsed(clock, clock) = Lag
    BY ElapsedSame, ReadingFacts, SMT DEF Lag, DTypeOK, TypeOK
  <2> QED BY <1>3, <2>1, <2>2, <2>3
       DEF OutCopy, receivers, observer, DTypeOK, BaseInv, Timed, Lag
<1>4. CASE OutUpdate
  <2>1. TypeOK' /\ OutputInv'
    BY <1>4, OutStep, UpdateType, UpdateInv DEF DTypeOK, BaseInv
  <2>2. copy' = NoCopy /\ 0 \in Stamp
    BY <1>4, OutStep, WrapAssumption, SMT DEF Stamp
  <2>3. Timed'
    <3>1. Lag' <= Lag /\ Lag' \in Nat /\ Lag \in Nat /\ Lag <= MaxStep
      BY <1>4, OutStep, ReadingFacts DEF Lag, DTypeOK, TypeOK, BaseInv, Timed
    <3>2. Lag' <= MaxStep
      BY <3>1, OutputClockAssumption, SMT
    <3> QED BY <2>2, <3>2 DEF Timed, NoCopy
  <2> QED BY <1>4, <2>1, <2>2, <2>3 DEF OutUpdate, receivers, observer, DTypeOK, BaseInv, NoCopy
<1>5. CASE Reconfigure
  <2>1. TypeOK' /\ OutputInv' /\ UNCHANGED <<clock, active, shared, rx, copy, observer, vars>>
    BY <1>0, <1>5
       DEF Reconfigure, Rx!ConfigurePort, Rx!ConfigureSelection, Rx!fsm
  <2>2. sel' \in Selections
    BY <1>5 DEF Reconfigure, Rx!ConfigurePort, Rx!ConfigureSelection, BaseInv
  <2> QED BY <2>1, <2>2 DEF vars, observer, DTypeOK, BaseInv, Timed, Lag
<1>6. CASE UNCHANGED dvars
  BY <1>0, <1>6 DEF dvars, path, receivers, vars, observer, DTypeOK, BaseInv, Timed, Lag
<1> QED BY <1>1, <1>2, <1>3, <1>4, <1>5, <1>6 DEF DNext, RxTask, OutputTask

\* The clock, the two copies of the frame and the output have the types the code
\* gives them, and neither copy holds received channels without a link: so the
\* output is updated with what it can be given (RxPublish, OutCopy, OutUpdate).
THEOREM PathTypeCorrect == DSpec => []DTypeOK
<1>1. DInit => DTypeOK /\ BaseInv
  BY BaseInit
<1>2. DTypeOK /\ BaseInv /\ [DNext]_dvars => (DTypeOK /\ BaseInv)'
  BY BaseStep
<1> QED BY <1>1, <1>2, PTL DEF DSpec

-----------------------------------------------------------------------------
(* The link on its way to the flight controller.                           *)

\* While a port stays active, what says that none is cannot be older than
\* millis() is ahead of it.
Linked ==
  /\ served > 0 => active # Rx!NoPort /\ shared.link
  /\ rx = "update" => (shared.link <=> active # Rx!NoPort)
  /\ (copy.due /\ ~copy.link) => served <= Elapsed(clock, copy.at)
  /\ ~link => served <= Lag

LEMMA LinkedInit == DInit => Linked
<1> SUFFICES ASSUME DInit PROVE Linked
  OBVIOUS
<1>1. served = 0 /\ Lag \in Nat /\ 0 \in Stamp
  BY WrapAssumption, ReadingFacts, SMT DEF DInit, Init, Rx!Init, Lag, Stamp
<1> QED BY <1>1, SMT DEF DInit, Rx!Init, Linked, NoCopy, Init

LEMMA LinkedStep == DTypeOK /\ BaseInv /\ Linked /\ [DNext]_dvars => Linked'
<1> SUFFICES ASSUME DTypeOK, BaseInv, Linked, [DNext]_dvars PROVE Linked'
  OBVIOUS
<1>0. /\ served \in Nat /\ Elapsed(clock, copy.at) \in Nat /\ Lag \in Nat
      /\ clock \in Stamp /\ shared.link \in BOOLEAN
  BY ReadingFacts, DataPathAssumption, SMT DEF DTypeOK, TypeOK, Lag
<1>1. ASSUME NEW d \in 0 .. RxMaxStep, RxUpdate(d) PROVE Linked'
  <2>1. /\ d \in Nat /\ Lag' = Lag + d
        /\ copy.due => Elapsed(clock', copy.at) = Elapsed(clock, copy.at) + d
        /\ served' \in 0 .. SilenceLimit /\ served' <= served + d
        /\ served' > 0 => active # Rx!NoPort /\ active' # Rx!NoPort
        /\ rx = "update" /\ rx' = "publish"
        /\ shared' = shared /\ copy' = copy /\ link' = link
    BY <1>1, RxStep DEF vars, stopwatch
  <2>2. served' \in Int
    BY <2>1, SMT
  <2>3. served' > 0 => active' # Rx!NoPort /\ shared'.link
    BY <2>1 DEF Linked
  <2>4. ASSUME copy.due, ~copy.link PROVE served' <= Elapsed(clock', copy.at)
    <3>1. served <= Elapsed(clock, copy.at)
      BY <2>4 DEF Linked
    <3> QED BY <1>0, <2>1, <2>2, <2>4, <3>1, SMT
  <2>5. ASSUME ~link PROVE served' <= Lag'
    <3>1. served <= Lag
      BY <2>5 DEF Linked
    <3> QED BY <1>0, <2>1, <2>2, <3>1, SMT
  <2> QED BY <2>1, <2>3, <2>4, <2>5 DEF Linked
<1>2. CASE RxPublish
  <2>1. shared'.link <=> active # Rx!NoPort
    BY <1>2 DEF RxPublish, Winner
  <2> QED BY <1>2, <2>1 DEF RxPublish, receivers, observer, vars, stopwatch, Linked, Lag
<1>3. CASE OutCopy
  <2>1. /\ copy'.at = clock /\ copy'.link = shared.link /\ clock' = clock
        /\ served' = served /\ Elapsed(clock, clock) = 0
    BY <1>0, <1>3, ElapsedSame DEF OutCopy, receivers, observer
  <2>2. ~shared.link => served <= 0
    BY <1>0, SMT DEF Linked
  <2> QED BY <1>3, <2>1, <2>2
       DEF OutCopy, receivers, observer, vars, stopwatch, Linked, Lag
<1>4. CASE OutUpdate
  <2>1. /\ copy.due /\ copy' = NoCopy /\ link' = copy.link
        /\ Lag' = Elapsed(clock, copy.at)
        /\ served' = served /\ active' = active /\ shared' = shared /\ rx' = rx
    BY <1>4, OutStep DEF receivers, observer
  <2> QED BY <2>1 DEF Linked, NoCopy
<1>5. CASE Reconfigure
  BY <1>5 DEF Reconfigure, Rx!ConfigurePort, Rx!ConfigureSelection, Rx!fsm, observer,
              vars, stopwatch, Linked, Lag
<1>6. CASE UNCHANGED dvars
  BY <1>6 DEF dvars, path, receivers, observer, vars, stopwatch, Linked, Lag
<1> QED BY <1>1, <1>2, <1>3, <1>4, <1>5, <1>6 DEF DNext, RxTask, OutputTask

\* A valid port has a last frame no older than its clock shows.
Heard ==
  \A i \in Rx!Ports :
    ports[i].valid => /\ ports[i].last \in Stamp
                      /\ silence <= Elapsed(clock, ports[i].last)

\* What says that a port is active was so within a link timeout, and since
\* then no more time has passed than it took on its way.
Alerted ==
  /\ (rx = "publish" /\ active # Rx!NoPort) => Recent(silence, 0)
  /\ shared.link => Recent(silence, IF rx = "update" THEN 0 ELSE RxMaxStep)
  /\ (copy.due /\ copy.link) => Recent(silence, RxMaxStep + Elapsed(clock, copy.at))
  /\ link => Recent(silence, RxMaxStep + Lag)

LEMMA AlertedInit == DInit => Alerted
BY DEF DInit, Alerted, NoCopy, Init

LEMMA AlertedStep ==
  DTypeOK /\ BaseInv /\ Heard' /\ Alerted /\ [DNext]_dvars => Alerted'
<1> SUFFICES ASSUME DTypeOK, BaseInv, Heard', Alerted, [DNext]_dvars PROVE Alerted'
  OBVIOUS
<1>0. /\ silence \in Int /\ Elapsed(clock, copy.at) \in Int /\ Lag \in Int
      /\ RxMaxStep \in Nat /\ clock \in Stamp /\ shared.link \in BOOLEAN
      /\ rx \in {"update", "publish"}
  BY ReadingFacts, DataPathAssumption, SMT DEF DTypeOK, TypeOK, Lag
<1>s. shared.link => Recent(silence, RxMaxStep)
  <2>1. ASSUME shared.link, rx = "update" PROVE Recent(silence, RxMaxStep)
    <3>1. Recent(silence, 0)
      BY <2>1 DEF Alerted
    <3>2. /\ silence <= silence + 0 /\ 0 + 0 <= RxMaxStep
          /\ 0 \in Int /\ RxMaxStep \in Int
      BY <1>0, SMT
    <3> QED BY <1>0, <3>1, <3>2, RecentGrows
  <2> QED BY <1>0, <2>1 DEF Alerted
<1>1. ASSUME NEW d \in 0 .. RxMaxStep, RxUpdate(d) PROVE Alerted'
  <2>1. /\ d \in Nat /\ Lag' = Lag + d
        /\ copy.due => Elapsed(clock', copy.at) = Elapsed(clock, copy.at) + d
        /\ silence' \in 0 .. SilenceLimit /\ silence' <= silence + d
        /\ active' \in Rx!Ports \cup {Rx!NoPort}
        /\ active' # Rx!NoPort
             => ports'[active'].valid
                /\ Elapsed(clock', ports'[active'].last) < sel.linkTimeout
        /\ rx = "update" /\ rx' = "publish"
        /\ shared' = shared /\ copy' = copy /\ link' = link
    BY <1>1, RxStep DEF vars, stopwatch
  <2>2. /\ d \in Int /\ d <= RxMaxStep /\ RxMaxStep \in Int /\ 0 \in Int
        /\ silence \in Int /\ silence' \in Int /\ silence' <= silence + d
    BY <1>0, <2>1, SMT
  <2>3. ASSUME active' # Rx!NoPort PROVE Recent(silence', 0)
    <3> DEFINE e == Elapsed(clock', ports'[active'].last)
    <3>1. silence' <= e /\ e < sel.linkTimeout /\ ports'[active'].last \in Stamp
      BY <2>1, <2>3 DEF Heard
    <3>2. sel \in Selections /\ sel.linkTimeout \in Nat
      BY TimeoutType DEF BaseInv
    <3>3. e \in Nat
      BY <1>1, <3>1, RxStep, ReadingFacts
    <3> HIDE DEF e
    <3>4. silence' < sel.linkTimeout + 0
      BY <2>2, <3>1, <3>2, <3>3, SMT
    <3> QED BY <3>2, <3>4 DEF Recent
  <2>4. ASSUME shared.link PROVE Recent(silence', RxMaxStep)
    <3>1. Recent(silence, 0)
      BY <2>1, <2>4 DEF Alerted
    <3>2. 0 + d <= RxMaxStep
      BY <2>2, SMT
    <3> QED BY <1>0, <2>2, <3>1, <3>2, RecentGrows
  <2>5. ASSUME copy.due, copy.link PROVE Recent(silence', RxMaxStep + Elapsed(clock', copy.at))
    <3>1. Recent(silence, RxMaxStep + Elapsed(clock, copy.at))
      BY <2>5 DEF Alerted
    <3>2. /\ RxMaxStep + Elapsed(clock, copy.at) \in Int
          /\ RxMaxStep + Elapsed(clock', copy.at) \in Int
          /\ (RxMaxStep + Elapsed(clock, copy.at)) + d
               <= RxMaxStep + Elapsed(clock', copy.at)
      BY <1>0, <2>1, <2>2, <2>5, SMT
    <3> QED BY <1>0, <2>2, <3>1, <3>2, RecentGrows
  <2>6. ASSUME link PROVE Recent(silence', RxMaxStep + Lag')
    <3>1. Recent(silence, RxMaxStep + Lag)
      BY <2>6 DEF Alerted
    <3>2. Lag' = Lag + d
      BY <2>1
    <3>3. Lag \in Int
      BY <1>0
    <3>4. /\ RxMaxStep + Lag \in Int /\ RxMaxStep + (Lag + d) \in Int
          /\ (RxMaxStep + Lag) + d <= RxMaxStep + (Lag + d)
      BY <2>2, <3>3, SMT
    <3> QED BY <1>0, <2>2, <3>1, <3>2, <3>4, RecentGrows
  <2> QED BY <2>1, <2>3, <2>4, <2>5, <2>6 DEF Alerted, Recent
<1>2. CASE RxPublish
  <2>1. /\ shared'.link => active # Rx!NoPort
        /\ rx = "publish" /\ rx' = "update"
    BY <1>2 DEF RxPublish, Winner
  <2> QED BY <1>2, <2>1
       DEF RxPublish, receivers, observer, vars, stopwatch, Alerted, Lag, Recent
<1>3. CASE OutCopy
  <2>1. /\ copy'.at = clock /\ copy'.link = shared.link /\ clock' = clock
        /\ RxMaxStep + Elapsed(clock, clock) = RxMaxStep
    BY <1>0, <1>3, ElapsedSame, SMT DEF OutCopy, receivers
  <2> QED BY <1>3, <1>s, <2>1
       DEF OutCopy, receivers, observer, vars, stopwatch, Alerted, Lag, Recent
<1>4. CASE OutUpdate
  <2>1. /\ copy.due /\ copy' = NoCopy /\ link' = copy.link
        /\ Lag' = Elapsed(clock, copy.at)
        /\ silence' = silence /\ active' = active /\ shared' = shared /\ rx' = rx
    BY <1>4, OutStep DEF receivers, observer
  <2> QED BY <2>1 DEF Alerted, NoCopy, Recent
<1>5. CASE Reconfigure
  BY <1>5 DEF Reconfigure, Rx!ConfigurePort, Rx!ConfigureSelection, Rx!fsm, observer,
              vars, stopwatch, Alerted, Lag, Recent
<1>6. CASE UNCHANGED dvars
  BY <1>6 DEF dvars, path, receivers, observer, vars, stopwatch, Alerted, Lag, Recent
<1> QED BY <1>1, <1>2, <1>3, <1>4, <1>5, <1>6 DEF DNext, RxTask, OutputTask

-----------------------------------------------------------------------------
(* The link at the flight controller.                                      *)

\* A change of the link that has not settled is held back by the rate limit, and
\* what it says is no older than the way it came by and the wait.
LinkOnAir ==
  (cfg.protocol # "NONE" /\ link) =>
    \/ Settled
    \/ /\ hasSent /\ Waited < Interval[cfg.protocol]
       /\ served <= MaxStep + Lag + Waited

\* Without a link, or nothing has gone out yet.
LossOnAir ==
  (cfg.protocol # "NONE" /\ ~link) =>
    \/ Settled
    \/ ~hasSent /\ silence <= Lag
    \/ /\ hasSent /\ Waited < Interval[cfg.protocol]
       /\ Recent(silence, RxMaxStep + MaxStep + Lag + Waited)

LEMMA OnAirInit == DInit => LinkOnAir /\ LossOnAir
<1> SUFFICES ASSUME DInit PROVE LinkOnAir /\ LossOnAir
  OBVIOUS
<1>1. silence = 0 /\ Lag \in Nat
  BY WrapAssumption, ReadingFacts, SMT DEF DInit, Init, Rx!Init, Lag, Stamp
<1>2. silence <= Lag
  BY <1>1, SMT
<1> QED BY <1>2 DEF DInit, Init, LinkOnAir, LossOnAir

\* An update of the output settles what it is given, or waits, and then the
\* waiting started with a change of the link.
LEMMA UpdateOutcome ==
  ASSUME DTypeOK, BaseInv, OutUpdate, cfg.protocol # "NONE"
  PROVE  /\ cfg' = cfg
         /\ \/ Settled'
            \/ /\ hasSent /\ hasSent'
               /\ Waited' < Interval[cfg.protocol]
               /\ link' = link => ~Settled
               /\ Waited < Interval[cfg.protocol] => Lag' + Waited' = Lag + Waited
<1>1. PICK d \in 0 .. MaxStep, f \in RcFrames :
        d = Elapsed(copy.at, now) /\ Update(d, copy.link, f)
  BY OutStep
<1>2. /\ d \in Nat /\ TypeOK /\ OutputInv /\ copy.link \in BOOLEAN
      /\ now' = Later(now, d) /\ UNCHANGED settings /\ cfg' = cfg
  BY <1>1, OutStep, OutputClockAssumption, SMT DEF DTypeOK, BaseInv, Update, settings
<1>3. CASE ~Throttled(now')
  BY <1>1, <1>2, <1>3, DueSettles
<1>4. CASE Throttled(now')
  <2>1. Wait(now', d)
    BY <1>1, <1>4 DEF Update, SendLive, SendHold, SendValues, SendFinal, StaySilent
  <2>2. Interval[cfg.protocol] # 0
    BY <1>2, IntervalFacts, OutputAssumption DEF TypeOK, OutputConfig
  <2>3. /\ hasSent /\ hasSent' = hasSent /\ lastSend' = lastSend
        /\ Elapsed(now', lastSend) < Interval[cfg.protocol]
    BY <1>4, <2>1, <2>2 DEF Throttled, Wait, NoWrite
  <2>4. Waited' = Elapsed(now', lastSend)
    BY <2>3 DEF Waited
  <2>5. link' = link /\ Settled => Settled'
    BY <1>2, <2>1, WaitKeeps
  <2>6. ASSUME Waited < Interval[cfg.protocol] PROVE Lag' + Waited' = Lag + Waited
    <3>1. Waited' = Waited + d
      BY <1>2, <2>4, <2>6, WaitedExactly DEF Waited
    <3>2. d + Lag' = Lag /\ Lag' \in Nat
      BY <1>1, OutStep
    <3>3. Waited \in Nat
      BY ReadingFacts DEF Waited, DTypeOK, TypeOK
    <3> QED BY <1>2, <3>1, <3>2, <3>3, SMT
  <2> QED BY <1>2, <2>3, <2>4, <2>5, <2>6
<1> QED BY <1>2, <1>3, <1>4

LEMMA OnAirTypes ==
  ASSUME DTypeOK, BaseInv
  PROVE  /\ silence \in Int /\ served \in Int /\ Lag \in Nat /\ Waited \in Nat
         /\ RxMaxStep \in Nat /\ MaxStep \in Nat /\ Lag <= MaxStep /\ link \in BOOLEAN
BY ReadingFacts, DataPathAssumption, OutputClockAssumption, SMT
   DEF DTypeOK, BaseInv, Timed, TypeOK, Lag, Waited

\* Only rxTask makes time pass, and only outputTask makes a frame go out.
LEMMA OnAirStays ==
  ASSUME UNCHANGED <<clock, observer, vars>>
  PROVE  (LinkOnAir => LinkOnAir') /\ (LossOnAir => LossOnAir')
BY DEF observer, vars, settings, sending, stopwatch, LinkOnAir, LossOnAir, Settled,
       Flowing, FailsafeReached, Lag, Waited, Recent

LEMMA OtherSteps ==
  ASSUME RxPublish \/ OutCopy \/ Reconfigure \/ UNCHANGED dvars
  PROVE  UNCHANGED <<clock, observer, vars>>
BY DEF RxPublish, OutCopy, receivers, Reconfigure, Rx!ConfigurePort,
       Rx!ConfigureSelection, dvars, path

LEMMA OnAirWhileTimePasses ==
  ASSUME DTypeOK, BaseInv, NEW d \in 0 .. RxMaxStep, RxUpdate(d)
  PROVE  (LinkOnAir => LinkOnAir') /\ (LossOnAir => LossOnAir')
<1>0. /\ silence \in Int /\ served \in Int /\ Lag \in Nat /\ Waited \in Nat
      /\ RxMaxStep \in Nat /\ MaxStep \in Nat
  BY OnAirTypes
<1>1. /\ d \in Nat /\ Lag' = Lag + d /\ Waited' = Waited
      /\ silence' \in 0 .. SilenceLimit /\ silence' <= silence + d
      /\ served' \in 0 .. SilenceLimit /\ served' <= served + d
      /\ UNCHANGED vars
  BY RxStep
<1>2. silence' \in Int /\ served' \in Int /\ d \in Int
  BY <1>1, SMT
<1>3. cfg' = cfg /\ hasSent' = hasSent /\ link' = link /\ (Settled => Settled')
  BY <1>1 DEF vars, settings, sending, stopwatch, Settled, Flowing, FailsafeReached
<1>4. ASSUME served <= MaxStep + Lag + Waited PROVE served' <= MaxStep + Lag' + Waited'
  BY <1>0, <1>1, <1>2, <1>4, SMT
<1>5. silence <= Lag => silence' <= Lag'
  BY <1>0, <1>1, <1>2, SMT
<1>6. ASSUME Recent(silence, RxMaxStep + MaxStep + Lag + Waited)
      PROVE  Recent(silence', RxMaxStep + MaxStep + Lag' + Waited')
  <2>1. /\ RxMaxStep + MaxStep + Lag + Waited \in Int
        /\ RxMaxStep + MaxStep + Lag' + Waited' \in Int
        /\ (RxMaxStep + MaxStep + Lag + Waited) + d <= RxMaxStep + MaxStep + Lag' + Waited'
    BY <1>0, <1>1, SMT
  <2> QED BY <1>0, <1>1, <1>2, <1>6, <2>1, RecentGrows
<1> QED BY <1>1, <1>3, <1>4, <1>5, <1>6 DEF LinkOnAir, LossOnAir

\* The link that is settled, or held back, after an update of the output.
LEMMA OnAirAfterUpdate ==
  ASSUME DTypeOK, BaseInv, OutUpdate
  PROVE  /\ (Linked /\ LinkOnAir) => LinkOnAir'
         /\ (Alerted /\ LossOnAir) => LossOnAir'
<1> DEFINE I == Interval[cfg.protocol]
<1>0. /\ silence \in Int /\ served \in Int /\ Lag \in Nat /\ Waited \in Nat
      /\ RxMaxStep \in Nat /\ MaxStep \in Nat /\ Lag <= MaxStep /\ link \in BOOLEAN
  BY OnAirTypes
<1>1. /\ link' = copy.link /\ copy.link \in BOOLEAN /\ Lag' \in Nat
      /\ silence' = silence /\ served' = served
  BY OutStep DEF observer
<1>2. cfg' = cfg /\ Waited' \in Nat
  <2>1. cfg' = cfg
    BY DEF OutUpdate, Update, settings
  <2>2. now' \in Stamp /\ lastSend' \in Stamp
    BY BaseStep DEF DNext, OutputTask, DTypeOK, TypeOK
  <2> QED BY <2>1, <2>2, ReadingFacts DEF Waited
<1>3. CASE cfg.protocol = "NONE" \/ Settled'
  BY <1>2, <1>3 DEF LinkOnAir, LossOnAir
<1>4. CASE /\ cfg.protocol # "NONE"
           /\ hasSent /\ hasSent'
           /\ Waited' < I
           /\ link' = link => ~Settled
           /\ Waited < I => Lag' + Waited' = Lag + Waited
  <2>1. ASSUME Linked, LinkOnAir, link' PROVE served <= MaxStep + Lag' + Waited'
    <3>1. CASE link
      <4>1. served <= MaxStep + Lag + Waited /\ Lag' + Waited' = Lag + Waited
        BY <1>4, <2>1, <3>1, <1>0, <1>1 DEF LinkOnAir
      <4>2. ASSUME NEW lag \in Nat, NEW waited \in Nat, lag + waited = Lag + Waited
            PROVE  served <= MaxStep + lag + waited
        BY <1>0, <4>1, <4>2, SMT
      <4> QED BY <1>1, <1>2, <4>1, <4>2
    <3>2. CASE ~link
      <4>1. served <= Lag
        BY <2>1, <3>2 DEF Linked
      <4>2. ASSUME NEW lag \in Nat, NEW waited \in Nat
            PROVE  served <= MaxStep + lag + waited
        BY <1>0, <4>1, SMT
      <4> QED BY <1>1, <1>2, <4>2
    <3> QED BY <3>1, <3>2
  <2>2. ASSUME Alerted, LossOnAir, ~link'
        PROVE  Recent(silence, RxMaxStep + MaxStep + Lag' + Waited')
    <3>1. CASE ~link
      <4>1. Recent(silence, RxMaxStep + MaxStep + Lag + Waited) /\ Lag' + Waited' = Lag + Waited
        BY <1>4, <2>2, <3>1, <1>0, <1>1 DEF LossOnAir
      <4>2. ASSUME NEW lag \in Nat, NEW waited \in Nat, lag + waited = Lag + Waited
            PROVE  RxMaxStep + MaxStep + lag + waited = RxMaxStep + MaxStep + Lag + Waited
        BY <1>0, <4>2, SMT
      <4>3. RxMaxStep + MaxStep + Lag' + Waited' = RxMaxStep + MaxStep + Lag + Waited
        BY <1>1, <1>2, <4>1, <4>2
      <4> QED BY <4>1, <4>3
    <3>2. CASE link
      <4>1. Recent(silence, RxMaxStep + Lag)
        BY <2>2, <3>2 DEF Alerted
      <4>2. ASSUME NEW lag \in Nat, NEW waited \in Nat
            PROVE  /\ RxMaxStep + MaxStep + lag + waited \in Int
                   /\ (RxMaxStep + Lag) + 0 <= RxMaxStep + MaxStep + lag + waited
        BY <1>0, SMT
      <4>3. RxMaxStep + Lag \in Int /\ silence <= silence + 0 /\ 0 \in Int
        BY <1>0, SMT
      <4>4. /\ RxMaxStep + MaxStep + Lag' + Waited' \in Int
            /\ (RxMaxStep + Lag) + 0 <= RxMaxStep + MaxStep + Lag' + Waited'
        BY <1>1, <1>2, <4>2
      <4> QED BY <1>0, <4>1, <4>3, <4>4, RecentGrows
    <3> QED BY <3>1, <3>2
  <2> QED BY <1>1, <1>2, <1>4, <2>1, <2>2 DEF LinkOnAir, LossOnAir
<1> QED BY <1>2, <1>3, <1>4, UpdateOutcome

LEMMA OnAirStep ==
  ASSUME DTypeOK, BaseInv, [DNext]_dvars
  PROVE  /\ (Linked /\ LinkOnAir) => LinkOnAir'
         /\ (Alerted /\ LossOnAir) => LossOnAir'
<1>1. ASSUME NEW d \in 0 .. RxMaxStep, RxUpdate(d)
      PROVE  (LinkOnAir => LinkOnAir') /\ (LossOnAir => LossOnAir')
  BY <1>1, OnAirWhileTimePasses
<1>2. CASE RxPublish \/ OutCopy \/ Reconfigure \/ UNCHANGED dvars
  BY <1>2, OtherSteps, OnAirStays
<1> QED BY <1>1, <1>2, OnAirAfterUpdate DEF DNext, RxTask, OutputTask

-----------------------------------------------------------------------------
(* A port and the frames it hears.                                         *)

PortFields == {"cfg", "began", "seen", "frameValid", "valid", "failsafe",
               "lq", "rssi", "last", "hbSeen", "hbLast"}

\* A tick can end a link, and does nothing else that matters here; that of
\* SBUS ends a link that was silent for too long.
LEMMA TickFacts ==
  ASSUME NEW p, DOMAIN p = PortFields, NEW t
  PROVE  LET q == Rx!Tick(p, t)
         IN  /\ DOMAIN q = PortFields
             /\ q.cfg = p.cfg /\ q.began = p.began /\ q.seen = p.seen /\ q.last = p.last
             /\ q.valid => p.valid
             /\ (p.cfg.protocol = "SBUS" /\ p.seen /\ q.valid)
                  => ~(Elapsed(t, p.last) > ParserTimeout)
<1> DEFINE q == Rx!Tick(p, t)
<1>0. Rx!Elapsed(t, p.last) = Elapsed(t, p.last)
  BY RxClock
<1>1. CASE p.cfg.protocol \in {"CRSF", "SBUS"}
  <2>1. q = Rx!SilenceTick(p, t)
    BY <1>1 DEF Rx!Tick
  <2>2. CASE q = p
    <3>1. (p.seen /\ q.valid) => ~(Elapsed(t, p.last) > ParserTimeout)
      <4>1. ASSUME p.seen, Elapsed(t, p.last) > ParserTimeout PROVE ~q.valid
        <5>1. q = [p EXCEPT !.frameValid = FALSE, !.valid = FALSE, !.failsafe = TRUE]
          BY <1>0, <2>1, <4>1 DEF Rx!SilenceTick
        <5> QED BY <5>1, Zenon DEF PortFields
      <4> QED BY <4>1
    <3> QED BY <2>2, <3>1
  <2>3. CASE q = [p EXCEPT !.frameValid = FALSE, !.valid = FALSE, !.failsafe = TRUE]
    BY <2>3, Zenon DEF PortFields
  <2> QED BY <2>1, <2>2, <2>3 DEF Rx!SilenceTick
<1>2. CASE p.cfg.protocol = "MAVLINK"
  <2>1. q = Rx!HeartbeatFreshness(p, t)
    BY <1>2 DEF Rx!Tick
  <2>2. \E a, b : q = [p EXCEPT !.lq = a, !.failsafe = b]
    BY <2>1 DEF Rx!HeartbeatFreshness
  <2> QED BY <1>2, <2>2, Zenon DEF PortFields
<1>3. CASE p.cfg.protocol \notin {"CRSF", "SBUS", "MAVLINK"}
  BY <1>3 DEF Rx!Tick
<1> QED BY <1>1, <1>2, <1>3

\* A frame leaves the configuration alone and sets the time to now, if at all;
\* one that SBUS can bring starts a link.
LEMMA ReceiveFacts ==
  ASSUME NEW p, DOMAIN p = PortFields, NEW t, NEW f \in Rx!Frames(p.cfg.protocol)
  PROVE  LET q == Rx!Receive(p, f, t)
         IN  /\ DOMAIN q = PortFields
             /\ q.cfg = p.cfg /\ q.began = p.began
             /\ q.last \in {p.last, t}
             /\ p.cfg.protocol = "SBUS" => q = p \/ (q.seen /\ q.last = t)
             /\ p.cfg.protocol = "NONE" => q = p
             /\ f = Rx!NoFrame => q = p
<1> DEFINE q == Rx!Receive(p, f, t)
<1>1. f = Rx!NoFrame => q = p
  BY DEF Rx!Receive, Rx!NoFrame
<1>2. p.cfg.protocol = "NONE" => f = Rx!NoFrame
  BY DEF Rx!Frames
<1>3. p.cfg.protocol = "SBUS" => f = Rx!NoFrame \/ f.kind = "rc"
  BY DEF Rx!Frames, Rx!SbusFrames
<1>4. CASE q \in {Rx!CrsfRc(p, t), Rx!SbusRc(p, f, t), Rx!MavlinkRc(p, f, t),
                  Rx!MavlinkOverride(p, t)}
  <2>1. /\ DOMAIN q = PortFields /\ q.cfg = p.cfg /\ q.began = p.began
        /\ q.last = t /\ q.seen
    BY <1>4, Zenon DEF PortFields, Rx!CrsfRc, Rx!SbusRc, Rx!MavlinkRc, Rx!MavlinkOverride
  <2> QED BY <1>1, <1>2, <2>1
<1>5. CASE q = p
  BY <1>1, <1>5
<1>6. CASE f.kind = "stats" /\ q = Rx!CrsfStats(p, f)
  <2>1. /\ DOMAIN q = PortFields /\ q.cfg = p.cfg /\ q.began = p.began /\ q.last = p.last
    BY <1>6, Zenon DEF PortFields, Rx!CrsfStats
  <2> QED BY <1>1, <1>2, <1>3, <1>6, <2>1 DEF Rx!NoFrame
<1>7. CASE f.kind = "heartbeat" /\ q = Rx!Heartbeat(p, t)
  <2>1. \E a, b : q = [[p EXCEPT !.hbSeen = TRUE, !.hbLast = t] EXCEPT !.lq = a, !.failsafe = b]
    BY <1>7 DEF Rx!Heartbeat, Rx!HeartbeatFreshness
  <2>2. /\ DOMAIN q = PortFields /\ q.cfg = p.cfg /\ q.began = p.began /\ q.last = p.last
    BY <2>1, Zenon DEF PortFields
  <2> QED BY <1>1, <1>2, <1>3, <1>7, <2>2 DEF Rx!NoFrame
<1> QED BY <1>4, <1>5, <1>6, <1>7 DEF Rx!Receive

\* Port i is never used, or only with configurations whose parser ends the link
\* by itself when no frame comes: CRSF does not while it has only seen
\* statistics, MAVLink never does, and a port that is switched off keeps a link.
EndsLinks(i) ==
  \/ \A c \in PortConfigs[i] : c.enabled /\ c.protocol \in {"SBUS", "NONE"}
  \/ \A c \in PortConfigs[i] : ~c.enabled

\* The clock has not passed the last frame of port i for a second time: the
\* parser ends the link long before, or the clock has not turned yet.
PortInv(i) ==
  /\ DOMAIN ports[i] = PortFields
  /\ ports[i].last \in Stamp
  /\ ports[i].began
  /\ ports[i].cfg \in PortConfigs[i]
  /\ ports[i].valid => silence <= Elapsed(clock, ports[i].last)
  /\ EndsLinks(i) \/ ports[i].last <= clock
  /\ (EndsLinks(i) /\ ports[i].valid)
       => /\ ports[i].cfg.enabled /\ ports[i].cfg.protocol = "SBUS"
          /\ ports[i].seen
          /\ Elapsed(clock, ports[i].last) <= ParserTimeout

PortsInv == DOMAIN ports = Rx!Ports /\ \A i \in Rx!Ports : PortInv(i)

LEMMA PortsInit == DInit => PortsInv
<1> SUFFICES ASSUME DInit PROVE PortsInv
  OBVIOUS
<1>1. PICK c0 \in PortConfigs[0], c1 \in PortConfigs[1] :
        ports = [i \in Rx!Ports |-> Rx!Reapply(IF i = 0 THEN c0 ELSE c1)]
  BY DEF DInit, Rx!Init
<1>2. 0 \in Stamp /\ clock = 0 /\ 0 <= clock
  BY WrapAssumption, SMT DEF Stamp, DInit, Rx!Init
<1>3. ASSUME NEW i \in Rx!Ports PROVE PortInv(i)
  <2>1. PICK c \in PortConfigs[i] : ports[i] = Rx!Reapply(c)
    BY <1>1 DEF Rx!Ports
  <2> QED BY <1>2, <2>1 DEF PortInv, Rx!Reapply, PortFields
<1> QED BY <1>1, <1>3 DEF PortsInv

\* The clock goes forward without passing the last frame of a port again.
LEMMA ForwardElapsed ==
  ASSUME NEW t \in Stamp, NEW s \in Stamp, NEW d \in Nat, s <= t, d < Wrap,
         t <= Later(t, d)
  PROVE  s <= Later(t, d) /\ Elapsed(Later(t, d), s) = Elapsed(t, s) + d
<1>1. Wrap \in Nat /\ t \in Nat /\ s \in Nat /\ t < Wrap
  BY WrapAssumption, SMT DEF Stamp
<1>2. t + d < Wrap
  <2>1. ASSUME t + d >= Wrap PROVE FALSE
    <3>1. (t + d) % Wrap = (t + d) - Wrap
      BY <1>1, <2>1, SMT
    <3> QED BY <1>1, <3>1, SMT DEF Later
  <2> QED BY <1>1, <2>1, SMT
<1>3. Later(t, d) = t + d
  BY <1>1, <1>2, SMT DEF Later
<1>4. (t - s) % Wrap = t - s /\ ((t + d) - s) % Wrap = (t + d) - s
  BY <1>1, <1>2, SMT
<1> QED BY <1>1, <1>3, <1>4, SMT DEF Elapsed

\* One port in an update of the receivers that brings it the frame f, or none.
LEMMA PumpInv ==
  ASSUME DTypeOK, NEW i \in Rx!Ports, PortInv(i), NEW d \in 0 .. RxMaxStep,
         clock' = Later(clock, d), EndsLinks(i) \/ clock <= clock',
         NEW f,
         f \in IF Rx!Running(ports[i]) THEN Rx!Frames(ports[i].cfg.protocol)
                                       ELSE {Rx!NoFrame},
         ports'[i] = Rx!PumpPort(ports[i], f, Rx!NoFrame, clock'),
         silence' \in Nat, silence' <= silence + d,
         f # Rx!NoFrame => silence' = 0
  PROVE  PortInv(i)'
<1> DEFINE p == ports[i]
           r == Rx!Receive(p, f, clock')
           q == ports'[i]
<1>0. /\ d \in Nat /\ d < Wrap /\ Wrap \in Nat /\ ParserTimeout \in Nat
      /\ ParserTimeout + d < Wrap /\ silence \in Nat /\ clock \in Stamp
  BY DataPathAssumption, OutputClockAssumption, WrapAssumption, SMT DEF DTypeOK
<1>1. clock' \in Stamp
  BY <1>0, LaterType
<1>2. DOMAIN p = PortFields /\ p.last \in Stamp /\ p.began /\ p.cfg \in PortConfigs[i]
  BY DEF PortInv
<1>3. ASSUME p.valid
      PROVE  /\ Elapsed(clock', p.last) = Elapsed(clock, p.last) + d
             /\ silence' <= Elapsed(clock', p.last)
  <2>1. Elapsed(clock', p.last) = Elapsed(clock, p.last) + d
    <3>1. CASE EndsLinks(i)
      <4>1. Elapsed(clock, p.last) <= ParserTimeout /\ Elapsed(clock, p.last) \in Nat
        BY <1>0, <1>2, <1>3, <3>1, ReadingFacts DEF PortInv
      <4>2. Elapsed(clock, p.last) + d < Wrap
        BY <1>0, <4>1, SMT
      <4> QED BY <1>0, <1>2, <4>2, ElapsedExact
    <3>2. CASE ~EndsLinks(i)
      BY <1>0, <1>2, <3>2, ForwardElapsed DEF PortInv
    <3> QED BY <3>1, <3>2
  <2>2. silence <= Elapsed(clock, p.last) /\ Elapsed(clock, p.last) \in Nat
    BY <1>0, <1>2, <1>3, ReadingFacts DEF PortInv
  <2>3. silence' <= Elapsed(clock, p.last) + d
    BY <1>0, <2>2, SMT
  <2> QED BY <2>1, <2>3
<1>4. ASSUME ~EndsLinks(i) PROVE p.last <= clock' /\ clock' <= clock'
  <2>1. p.last <= clock /\ clock <= clock'
    BY <1>4 DEF PortInv
  <2> QED BY <1>0, <1>1, <1>2, <2>1, SMT DEF Stamp
<1>5. CASE ~Rx!Running(p)
  <2>1. q = p
    BY <1>5 DEF Rx!PumpPort
  <2>2. ~p.cfg.enabled
    BY <1>2, <1>5 DEF Rx!Running
  <2>3. ~(EndsLinks(i) /\ p.valid)
    BY <2>2 DEF PortInv
  <2> QED BY <1>2, <1>3, <1>4, <2>1, <2>3 DEF PortInv
<1>6. CASE Rx!Running(p)
  <2>1. f \in Rx!Frames(p.cfg.protocol)
    BY <1>6
  <2>2. /\ DOMAIN r = PortFields
        /\ r.cfg = p.cfg /\ r.began = p.began /\ r.last \in {p.last, clock'}
        /\ p.cfg.protocol = "SBUS" => r = p \/ (r.seen /\ r.last = clock')
        /\ p.cfg.protocol = "NONE" => r = p
        /\ f = Rx!NoFrame => r = p
    <3>1. PICK x, t, y : x = ports[i] /\ t = clock' /\ y = Rx!Receive(x, f, t)
      OBVIOUS
    <3>2. DOMAIN x = PortFields /\ f \in Rx!Frames(x.cfg.protocol)
      BY <1>2, <2>1, <3>1
    <3>3. /\ DOMAIN y = PortFields
          /\ y.cfg = x.cfg /\ y.began = x.began /\ y.last \in {x.last, t}
          /\ x.cfg.protocol = "SBUS" => y = x \/ (y.seen /\ y.last = t)
          /\ x.cfg.protocol = "NONE" => y = x
          /\ f = Rx!NoFrame => y = x
      BY <3>1, <3>2, ReceiveFacts
    <3> QED BY <3>1, <3>3
  <2> HIDE DEF r
  <2>3. q = Rx!Tick(r, clock')
    <3>1. Rx!Receive(r, Rx!NoFrame, clock') = r
      BY DEF Rx!Receive, Rx!NoFrame
    <3> QED BY <1>6, <3>1 DEF Rx!PumpPort, r
  <2>4. /\ DOMAIN q = PortFields
        /\ q.cfg = r.cfg /\ q.began = r.began /\ q.seen = r.seen /\ q.last = r.last
        /\ q.valid => r.valid
        /\ (r.cfg.protocol = "SBUS" /\ r.seen /\ q.valid)
             => ~(Elapsed(clock', r.last) > ParserTimeout)
    BY <2>2, <2>3, TickFacts
  <2> HIDE DEF q
  <2>5. q.last \in Stamp /\ Elapsed(clock', q.last) \in Nat
    <3>1. q.last \in Stamp
      BY <1>1, <1>2, <2>2, <2>4
    <3> QED BY <1>1, <3>1, ReadingFacts
  <2>6. ASSUME q.valid PROVE silence' <= Elapsed(clock', q.last)
    <3>1. CASE f = Rx!NoFrame
      BY <1>3, <2>2, <2>4, <2>6, <3>1
    <3>2. CASE f # Rx!NoFrame
      <4>1. silence' = 0
        BY <3>2
      <4> QED BY <2>5, <4>1, SMT
    <3> QED BY <3>1, <3>2
  <2>7. EndsLinks(i) \/ q.last <= clock'
    BY <1>4, <2>2, <2>4
  <2>8. ASSUME EndsLinks(i), q.valid
        PROVE  /\ q.cfg.enabled /\ q.cfg.protocol = "SBUS"
               /\ q.seen /\ Elapsed(clock', q.last) <= ParserTimeout
    <3>1. p.cfg.enabled
      BY <1>6 DEF Rx!Running
    <3>2. p.cfg.protocol \in {"SBUS", "NONE"}
      BY <1>2, <2>8, <3>1 DEF EndsLinks
    <3>3. p.cfg.protocol = "SBUS"
      BY <2>2, <2>4, <2>8, <3>2 DEF PortInv
    <3>4. r.seen
      BY <2>2, <2>4, <2>8, <3>3 DEF PortInv
    <3>5. ~(Elapsed(clock', q.last) > ParserTimeout)
      BY <2>2, <2>4, <2>8, <3>3, <3>4
    <3>6. Elapsed(clock', q.last) <= ParserTimeout
      BY <1>0, <2>5, <3>5, SMT
    <3> QED BY <2>2, <2>4, <3>1, <3>3, <3>4, <3>6
  <2> QED BY <1>2, <2>2, <2>4, <2>5, <2>6, <2>7, <2>8 DEF PortInv, q
<1> QED BY <1>5, <1>6

LEMMA PortsStep ==
  ASSUME DTypeOK, PortsInv, [DNext]_dvars,
         \A i \in Rx!Ports : EndsLinks(i) \/ clock <= clock'
  PROVE  PortsInv'
<1> USE DEF PortsInv
<1>0. silence \in Nat
  BY DataPathAssumption, SMT DEF DTypeOK
<1>1. ASSUME NEW d \in 0 .. RxMaxStep, RxUpdate(d) PROVE PortsInv'
  <2>1. PICK b0 \in Rx!Batches(ports[0], FALSE), b1 \in Rx!Batches(ports[1], FALSE) :
          /\ Rx!Update(d, b0, b1)
          /\ silence' = IF {b0, b1} = {<<Rx!NoFrame, Rx!NoFrame>>}
                        THEN Counted(silence, d) ELSE 0
    BY <1>1 DEF RxUpdate
  <2>2. /\ clock' = Later(clock, d)
        /\ ports' = Rx!Pumped(b0, b1, clock')
    BY <2>1, RxClock DEF Rx!Update
  <2>3. silence' \in Nat /\ silence' <= silence + d
    <3>1. /\ silence \in 0 .. SilenceLimit /\ d \in Nat /\ SilenceLimit \in Nat
      BY DataPathAssumption, SMT DEF DTypeOK
    <3>2. Counted(silence, d) \in 0 .. SilenceLimit /\ Counted(silence, d) <= silence + d
      BY <3>1, CountedFacts
    <3> QED BY <2>1, <3>1, <3>2, SMT
  <2>4. ASSUME NEW i \in Rx!Ports PROVE PortInv(i)'
    <3> DEFINE b == IF i = 0 THEN b0 ELSE b1
    <3>1. b \in Rx!Batches(ports[i], FALSE)
      BY <2>1 DEF Rx!Ports
    <3>2. /\ b[1] \in IF Rx!Running(ports[i]) THEN Rx!Frames(ports[i].cfg.protocol)
                                              ELSE {Rx!NoFrame}
          /\ b[2] = Rx!NoFrame
          /\ b = <<b[1], b[2]>>
      <4> HIDE DEF b
      <4>1. CASE Rx!Running(ports[i])
        <5>1. b \in Rx!Frames(ports[i].cfg.protocol) \X {Rx!NoFrame}
          BY <3>1, <4>1 DEF Rx!Batches
        <5> QED BY <4>1, <5>1
      <4>2. CASE ~Rx!Running(ports[i])
        <5>1. b = <<Rx!NoFrame, Rx!NoFrame>>
          BY <3>1, <4>2 DEF Rx!Batches
        <5> QED BY <4>2, <5>1
      <4> QED BY <4>1, <4>2
    <3>3. ports'[i] = Rx!PumpPort(ports[i], b[1], Rx!NoFrame, clock')
      BY <2>2, <3>2 DEF Rx!Pumped
    <3>4. b[1] # Rx!NoFrame => silence' = 0
      BY <2>1, <3>2
    <3> HIDE DEF b
    <3>5. PortInv(i) /\ (EndsLinks(i) \/ clock <= clock')
      OBVIOUS
    <3> QED BY <2>2, <2>3, <3>2, <3>3, <3>4, <3>5, PumpInv
  <2> QED BY <2>2, <2>4 DEF Rx!Pumped
<1>2. ASSUME NEW j \in Rx!Ports, NEW c \in PortConfigs[j], Reconfigure, Rx!ConfigurePort(j, c)
      PROVE  PortsInv'
  <2>1. /\ ports' = [ports EXCEPT ![j] = Rx!SetPortConfig(ports[j], c)]
        /\ clock' = clock /\ silence' = silence
    BY <1>2 DEF Rx!ConfigurePort, Reconfigure, observer
  <2>2. PortInv(j)'
    <3>1. ports'[j] = Rx!SetPortConfig(ports[j], c) /\ PortInv(j)
      BY <2>1
    <3>2. CASE ports'[j] = Rx!Reapply(c)
      <4>1. 0 \in Stamp /\ (clock \in Stamp => 0 <= clock)
        BY WrapAssumption, SMT DEF Stamp
      <4> QED BY <2>1, <3>2, <4>1 DEF DTypeOK, PortInv, Rx!Reapply, PortFields
    <3>3. CASE /\ ports'[j] = [ports[j] EXCEPT !.cfg = c]
               /\ c.protocol = ports[j].cfg.protocol
      <4>1. /\ DOMAIN ports'[j] = PortFields /\ ports'[j].last = ports[j].last
            /\ ports'[j].began = ports[j].began /\ ports'[j].valid = ports[j].valid
            /\ ports'[j].seen = ports[j].seen /\ ports'[j].cfg = c
        <5>1. DOMAIN ports[j] = PortFields
          BY <3>1 DEF PortInv
        <5> QED BY <3>3, <5>1, Zenon DEF PortFields
      <4>2. EndsLinks(j) /\ ports[j].valid => c.enabled
        BY <3>1 DEF PortInv, EndsLinks
      <4> QED BY <2>1, <3>1, <3>3, <4>1, <4>2 DEF PortInv
    <3> QED BY <3>1, <3>2, <3>3 DEF Rx!SetPortConfig, Rx!NeedsRebegin
  <2>3. ASSUME NEW i \in Rx!Ports, i # j PROVE PortInv(i)'
    BY <2>1, <2>3 DEF PortInv
  <2> QED BY <2>1, <2>2, <2>3
<1>3. ASSUME UNCHANGED <<clock, ports, silence>> PROVE PortsInv'
  BY <1>3 DEF PortInv
<1>4. CASE RxPublish \/ OutputTask \/ UNCHANGED dvars
  BY <1>3, <1>4 DEF RxPublish, OutputTask, OutCopy, OutUpdate, dvars, path, receivers, observer
<1>5. ASSUME NEW s \in Selections, Reconfigure, Rx!ConfigureSelection(s) PROVE PortsInv'
  BY <1>3, <1>5 DEF Rx!ConfigureSelection, Reconfigure, observer
<1>6. CASE Reconfigure
  BY <1>2, <1>5, <1>6 DEF Reconfigure
<1> QED BY <1>1, <1>4, <1>6 DEF DNext, RxTask

-----------------------------------------------------------------------------
(* The properties.                                                         *)

\* What the invariants mean for the flight controller.
LEMMA SlackFacts ==
  ASSUME DTypeOK, BaseInv, cfg.protocol # "NONE"
  PROVE  /\ Interval[cfg.protocol] \in Nat \ {0}
         /\ Slack = Interval[cfg.protocol] + RxMaxStep + 2 * MaxStep /\ Slack \in Nat
<1>1. cfg.protocol \in Protocols
  BY OutputAssumption DEF DTypeOK, TypeOK, OutputConfig
<1>2. Interval[cfg.protocol] \in Nat \ {0}
  BY <1>1, IntervalFacts, SMT
<1>3. Slack \in Nat
  BY <1>2, DataPathAssumption, OutputClockAssumption, SMT DEF Slack
<1> QED BY <1>2, <1>3 DEF Slack

LEMMA LinkArrives ==
  ASSUME DTypeOK, BaseInv, Linked, LinkOnAir
  PROVE  LinkReachesFc
<1> SUFFICES ASSUME cfg.protocol # "NONE", served >= Slack
             PROVE  Flowing /\ wire.link
  BY DEF LinkReachesFc
<1> DEFINE I == Interval[cfg.protocol]
<1>1. /\ served \in Int /\ Lag \in Nat /\ Waited \in Nat /\ RxMaxStep \in Nat
      /\ MaxStep \in Nat /\ Lag <= MaxStep /\ link \in BOOLEAN
      /\ I \in Nat /\ I > 0 /\ Slack = I + RxMaxStep + 2 * MaxStep
  BY OnAirTypes, SlackFacts, SMT
<1> HIDE DEF I
<1>2. link
  <2>1. ~(served <= Lag)
    BY <1>1, SMT
  <2> QED BY <1>1, <2>1 DEF Linked
<1>3. ~(Waited < I /\ served <= MaxStep + Lag + Waited)
  BY <1>1, SMT
<1>4. Settled
  BY <1>2, <1>3 DEF LinkOnAir, I
<1> QED BY <1>2, <1>4 DEF Settled

LEMMA SilenceArrives ==
  ASSUME DTypeOK, BaseInv, Alerted, LossOnAir
  PROVE  SilenceReachesFc
<1> SUFFICES ASSUME cfg.protocol # "NONE", ~Recent(silence, Slack)
             PROVE  FailsafeReached
  BY SlackFacts, OnAirTypes, DarkIsNotRecent, SMT DEF SilenceReachesFc
<1> DEFINE I == Interval[cfg.protocol]
<1>1. /\ silence \in Int /\ Lag \in Nat /\ Waited \in Nat /\ RxMaxStep \in Nat
      /\ MaxStep \in Nat /\ Lag <= MaxStep /\ link \in BOOLEAN
      /\ I \in Nat /\ I > 0 /\ Slack = I + RxMaxStep + 2 * MaxStep
  BY OnAirTypes, SlackFacts, SMT
<1> HIDE DEF I
<1>2. ASSUME NEW a \in Int, Recent(silence, a), a <= Slack PROVE FALSE
  <2>1. silence <= silence + 0 /\ a + 0 <= Slack /\ 0 \in Int /\ Slack \in Int
    BY <1>1, <1>2, SMT
  <2> QED BY <1>1, <1>2, <2>1, RecentGrows
<1>3. ~link
  <2>1. RxMaxStep + Lag \in Int /\ RxMaxStep + Lag <= Slack
    BY <1>1, SMT
  <2> QED BY <1>2, <2>1 DEF Alerted
<1>4. ~(silence <= Lag)
  <2>1. ASSUME silence <= Lag PROVE FALSE
    <3>1. sel \in Selections /\ sel.linkTimeout \in Nat
      BY TimeoutType DEF BaseInv
    <3>2. silence < sel.linkTimeout + Slack
      BY <1>1, <2>1, <3>1, SMT
    <3> QED BY <3>1, <3>2 DEF Recent
  <2> QED BY <2>1
<1>5. ~(Waited < I /\ Recent(silence, RxMaxStep + MaxStep + Lag + Waited))
  <2>1. ASSUME Waited < I
        PROVE  /\ RxMaxStep + MaxStep + Lag + Waited \in Int
               /\ RxMaxStep + MaxStep + Lag + Waited <= Slack
    BY <1>1, <2>1, SMT
  <2> QED BY <1>2, <2>1
<1>6. Settled
  BY <1>3, <1>4, <1>5 DEF LossOnAir, I
<1> QED BY <1>3, <1>6 DEF Settled

LEMMA LossIsNews ==
  ASSUME DTypeOK, Alerted
  PROVE  LinkLossIsPublished
<1> SUFFICES ASSUME rx = "update", shared.link PROVE ~Dark(0)
  BY DEF LinkLossIsPublished
<1>1. Recent(silence, 0)
  BY DEF Alerted
<1>2. 0 \in Int /\ silence \in Int
  BY DataPathAssumption, SMT DEF DTypeOK
<1> QED BY <1>1, <1>2, DarkIsNotRecent

\* When a port has been active for long enough the flight controller gets live
\* frames, one in every interval, whatever serviceTask does meanwhile and
\* however often the clock wraps.
THEOREM LiveFramesReturn == DSpec => []LinkReachesFc
<1>1. DInit => DTypeOK /\ BaseInv /\ Linked /\ LinkOnAir
  BY BaseInit, LinkedInit, OnAirInit
<1>2. DTypeOK /\ BaseInv /\ Linked /\ LinkOnAir /\ [DNext]_dvars
        => (DTypeOK /\ BaseInv /\ Linked /\ LinkOnAir)'
  BY BaseStep, LinkedStep, OnAirStep
<1>3. DTypeOK /\ BaseInv /\ Linked /\ LinkOnAir => LinkReachesFc
  BY LinkArrives
<1> QED BY <1>1, <1>2, <1>3, PTL DEF DSpec

\* As long as a valid port is one that was heard, a silence of both receivers
\* is published, and reaches the flight controller as the failsafe mode asks.
LEMMA HeardSilenceArrives ==
  DSpec /\ []Heard => [](LinkLossIsPublished /\ SilenceReachesFc)
<1> DEFINE Inv == DTypeOK /\ BaseInv /\ Alerted /\ LossOnAir
<1>1. DInit => Inv
  BY BaseInit, AlertedInit, OnAirInit
<1>2. Inv /\ Heard' /\ [DNext]_dvars => Inv'
  BY BaseStep, AlertedStep, OnAirStep
<1>3. Inv => LinkLossIsPublished /\ SilenceReachesFc
  BY LossIsNews, SilenceArrives
<1> HIDE DEF Inv
<1> QED BY <1>1, <1>2, <1>3, PTL DEF DSpec

\* No port that can keep a link without a frame sees millis() wrap.
LastsATurn == [][\A i \in Rx!Ports : EndsLinks(i) \/ clock <= clock']_dvars

LEMMA ValidPortsWereHeard == DSpec /\ LastsATurn => []Heard
<1> DEFINE Inv == DTypeOK /\ BaseInv /\ PortsInv
<1>1. DInit => Inv
  BY BaseInit, PortsInit
<1>2. Inv /\ [DNext]_dvars /\ [\A i \in Rx!Ports : EndsLinks(i) \/ clock <= clock']_dvars => Inv'
  <2> SUFFICES ASSUME Inv, [DNext]_dvars,
                      [\A i \in Rx!Ports : EndsLinks(i) \/ clock <= clock']_dvars
               PROVE  Inv'
    OBVIOUS
  <2>1. DTypeOK' /\ BaseInv'
    BY BaseStep
  <2>2. CASE \A i \in Rx!Ports : EndsLinks(i) \/ clock <= clock'
    BY <2>1, <2>2, PortsStep
  <2>3. CASE UNCHANGED dvars
    BY <2>1, <2>3 DEF dvars, path, receivers, observer, PortsInv, PortInv
  <2> QED BY <2>2, <2>3
<1>3. Inv => Heard
  BY DEF PortsInv, PortInv, Heard
<1> HIDE DEF Inv
<1> QED BY <1>1, <1>2, <1>3, PTL DEF DSpec, LastsATurn

\* A silence of both receivers for the longest link timeout is in the very next
\* publication of rxTask, whatever serviceTask does to ports and selection:
\* until millis() wraps for the first time, and from then on as well with
\* receivers that end their links.
THEOREM LossIsPublished == DSpec /\ LastsATurn => []LinkLossIsPublished
BY HeardSilenceArrives, ValidPortsWereHeard, PTL

\* And an update of rxTask, two of outputTask and a frame interval later the
\* flight controller gets what the failsafe mode asks for, though outputTask
\* may have copied the frame before the loss.
THEOREM SilenceArrivesInTime == DSpec /\ LastsATurn => []SilenceReachesFc
BY HeardSilenceArrives, ValidPortsWereHeard, PTL

\* SBUS receivers end their links, however often the clock wraps.
THEOREM SbusSilenceArrives ==
  ASSUME \A i \in Rx!Ports : EndsLinks(i)
  PROVE  DSpec => [](LinkLossIsPublished /\ SilenceReachesFc)
<1>1. [DNext]_dvars => [\A i \in Rx!Ports : EndsLinks(i) \/ clock <= clock']_dvars
  OBVIOUS
<1> QED BY <1>1, LossIsPublished, SilenceArrivesInTime, PTL DEF DSpec, LastsATurn

-----------------------------------------------------------------------------
(* The receivers on their own.                                             *)

LEMMA PathUpdatesReceivers == [DNext]_dvars => [Rx!Next]_(Rx!vars)
<1> SUFFICES ASSUME [DNext]_dvars PROVE [Rx!Next]_(Rx!vars)
  OBVIOUS
<1>1. ASSUME NEW d \in 0 .. RxMaxStep, RxUpdate(d) PROVE Rx!AnyUpdate(d)
  BY <1>1 DEF RxUpdate, Rx!AnyUpdate
<1>2. Reconfigure => Rx!Next
  BY DEF Reconfigure, Rx!Next
<1>3. RxPublish \/ OutputTask \/ UNCHANGED dvars => UNCHANGED Rx!vars
  BY DEF RxPublish, OutputTask, OutCopy, OutUpdate, dvars, path, receivers, Rx!vars, Rx!fsm
<1> QED BY <1>1, <1>2, <1>3 DEF DNext, RxTask, Rx!Next

\* What the three tasks do to the receivers together is what ReceiverManager
\* says on its own: its properties hold between rxTask and serviceTask too.
THEOREM ReceiversKeepTheirSpec == DSpec => Rx!Spec
<1>1. DInit => Rx!Init
  BY DEF DInit
<1> QED BY <1>1, PathUpdatesReceivers, PTL DEF DSpec, Rx!Spec
=============================================================================
