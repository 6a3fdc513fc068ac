------------------------- MODULE TelemetryRouterProofs -------------------------
(***************************************************************************)
(* Proofs about the telemetry router, for every interval, every queue      *)
(* length and every width of the clock and of the counters.                *)
(***************************************************************************)
EXTENDS TelemetryRouter, WrapClockProofs

Counter == 0 .. CountWrap - 1
Times == 0 .. Horizon

\* A bounded count of time stays one, and is exact below its bound.
LEMMA CountTime ==
  ASSUME NEW x \in Times, NEW d \in Nat
  PROVE  /\ Count(x, d) \in Times
         /\ Count(x, d) = x + d \/ Count(x, d) = Horizon
         /\ Count(x, d) <= x + d
BY TelemetryRouterAssumption, SMT DEF Count, Times

LEMMA Plus1Type ==
  ASSUME NEW n \in Counter
  PROVE  Plus1(n) \in Counter
BY TelemetryRouterAssumption, SMT DEF Plus1, Counter

-----------------------------------------------------------------------------
(* Type correctness.                                                       *)

\* The queues hold packets, and no more of them than they have room for.
QueuesOK ==
  /\ queues \in [Ports -> Seq(Lengths)]
  /\ \A i \in Ports : Len(queues[i]) <= Capacity

RouterTypeOK ==
  /\ QueuesOK
  /\ now \in Stamp /\ lastInjection \in Stamp
  /\ active \in Ports \cup {NoPort}
  /\ set \in Saved
  /\ step \in {"update", "drain", "inject", "apply"}
  /\ step = "drain" => source \in Ports
  /\ forwarded \in Counter /\ overridden \in Counter
  /\ dropped \in Counter /\ handled \in Counter
  /\ since \in Times /\ gap \in Times /\ on \in Times

LEMMA RouterTypeImplies == RouterTypeOK => TypeOK
BY DEF RouterTypeOK, TypeOK, QueuesOK, Counter, Times

LEMMA InitType == Init => RouterTypeOK
<1> SUFFICES ASSUME Init PROVE RouterTypeOK
  OBVIOUS
<1>1. 0 \in Stamp /\ 0 \in Counter /\ 0 \in Times /\ Horizon \in Times
  BY WrapAssumption, TelemetryRouterAssumption, SMT DEF Stamp, Counter, Times
<1>2. QueuesOK
  <2>1. <<>> \in Seq(Lengths) /\ Len(<<>>) = 0 /\ 0 <= Capacity
    BY TelemetryRouterAssumption, SMT
  <2> QED BY <2>1 DEF Init, QueuesOK
<1> QED BY <1>1, <1>2 DEF Init, RouterTypeOK

\* A queue that takes a packet, giving up its oldest when it is full.
LEMMA TakeIn ==
  ASSUME NEW q \in Seq(Lengths), Len(q) <= Capacity, NEW len \in Lengths
  PROVE  /\ Append(IF Len(q) = Capacity THEN Tail(q) ELSE q, len) \in Seq(Lengths)
         /\ Len(Append(IF Len(q) = Capacity THEN Tail(q) ELSE q, len)) <= Capacity
<1>1. CASE Len(q) = Capacity
  <2>1. q # <<>>
    BY <1>1, TelemetryRouterAssumption, SMT
  <2>2. Tail(q) \in Seq(Lengths) /\ Len(Tail(q)) = Len(q) - 1
    BY <2>1, SMT
  <2> DEFINE t == Tail(q)
  <2> HIDE DEF t
  <2>3. Append(t, len) \in Seq(Lengths) /\ Len(Append(t, len)) = Len(t) + 1
    BY <2>2, SMT DEF t
  <2> QED BY <1>1, <2>2, <2>3, TelemetryRouterAssumption, SMT DEF t
<1>2. CASE Len(q) < Capacity
  BY <1>2, TelemetryRouterAssumption, SMT
<1> QED BY <1>1, <1>2, TelemetryRouterAssumption, SMT

LEMMA TypeStep == RouterTypeOK /\ [Next]_vars => RouterTypeOK'
<1> SUFFICES ASSUME RouterTypeOK, [Next]_vars PROVE RouterTypeOK'
  OBVIOUS
<1> USE DEF RouterTypeOK, counters, stopwatch
<1>1. ASSUME NEW i \in Ports, NEW len \in Lengths, ReceivePacket(i, len) PROVE RouterTypeOK'
  <2>1. QueuesOK'
    BY <1>1, TakeIn DEF ReceivePacket, QueuesOK
  <2> QED BY <1>1, <2>1 DEF ReceivePacket
<1>2. ASSUME NEW a \in Ports \cup {NoPort}, SelectPort(a) PROVE RouterTypeOK'
  BY <1>2 DEF SelectPort, QueuesOK
<1>3. ASSUME NEW d \in 0 .. MaxStep, BeginUpdate(d) PROVE RouterTypeOK'
  <2>1. d \in Nat /\ 0 \in Times
    BY TelemetryRouterAssumption, SMT DEF Times
  <2>2. now' \in Stamp /\ since' \in Times /\ on' \in Times
    BY <1>3, <2>1, LaterType, CountTime DEF BeginUpdate
  <2>3. step' = "drain" => source' \in Ports
    BY <1>3 DEF BeginUpdate
  <2> QED BY <1>3, <2>2, <2>3 DEF BeginUpdate, QueuesOK
<1>4. ASSUME Forward PROVE RouterTypeOK'
  <2>1. source \in Ports
    BY <1>4 DEF Forward
  <2>2. QueuesOK'
    <3>1. queues[source] \in Seq(Lengths) /\ queues[source] # <<>>
      BY <1>4, <2>1 DEF Forward, QueuesOK
    <3>2. Tail(queues[source]) \in Seq(Lengths)
          /\ Len(Tail(queues[source])) <= Len(queues[source])
      BY <3>1, SMT
    <3>3. Len(Tail(queues[source])) <= Capacity
      BY <2>1, <3>1, <3>2, TelemetryRouterAssumption, SMT DEF QueuesOK
    <3> QED BY <1>4, <2>1, <3>2, <3>3 DEF Forward, QueuesOK
  <2>3. handled' \in Counter /\ forwarded' \in Counter /\ dropped' \in Counter
    BY <1>4, Plus1Type DEF Forward
  <2> QED BY <1>4, <2>2, <2>3 DEF Forward
<1>5. ASSUME EndDrain PROVE RouterTypeOK'
  BY <1>5 DEF EndDrain, QueuesOK
<1>6. ASSUME Inject PROVE RouterTypeOK'
  <2>1. handled' \in Counter /\ overridden' \in Counter /\ dropped' \in Counter
    BY <1>6, Plus1Type DEF Inject
  <2>2. 0 \in Times
    BY TelemetryRouterAssumption, SMT DEF Times
  <2> QED BY <1>6, <2>1, <2>2 DEF Inject, QueuesOK
<1>7. ASSUME NoInjection PROVE RouterTypeOK'
  BY <1>7 DEF NoInjection, QueuesOK
<1>8. ASSUME NEW s \in Saved, Apply(s) PROVE RouterTypeOK'
  <2>1. QueuesOK'
    <3>1. <<>> \in Seq(Lengths) /\ Len(<<>>) <= Capacity
      BY TelemetryRouterAssumption, SMT
    <3> QED BY <1>8, <3>1 DEF Apply, QueuesOK
  <2>2. on' \in Times
    BY <1>8, TelemetryRouterAssumption, SMT DEF Apply, Times
  <2> QED BY <1>8, <2>1, <2>2 DEF Apply
<1>9. CASE UNCHANGED vars
  BY <1>9 DEF vars, QueuesOK
<1> QED BY <1>1, <1>2, <1>3, <1>4, <1>5, <1>6, <1>7, <1>8, <1>9 DEF Next

\* Neither task ever finds a telemetry queue longer than its ring or a drain
\* without a port to drain.
THEOREM TypeCorrect == Spec => []TypeOK
<1> QED BY InitType, TypeStep, RouterTypeImplies, PTL DEF Spec

-----------------------------------------------------------------------------
(* The counters.                                                           *)

\* A remainder, for numbers as small as a sum of three counters and one.
LEMMA SmallMod ==
  ASSUME NEW n \in Nat, n < 3 * CountWrap
  PROVE  n % CountWrap = IF n < CountWrap THEN n
                         ELSE IF n < 2 * CountWrap THEN n - CountWrap
                         ELSE n - 2 * CountWrap
BY TelemetryRouterAssumption, SMT

\* Counting one of three wrapping counters counts their wrapping sum.
LEMMA SumCounts ==
  ASSUME NEW x \in Counter, NEW y \in Counter, NEW z \in Counter
  PROVE  Plus1((x + y + z) % CountWrap) = (Plus1(x) + y + z) % CountWrap
<1> DEFINE n == x + y + z
<1>0. CountWrap \in Nat /\ CountWrap > 0 /\ x \in Nat /\ y \in Nat /\ z \in Nat
      /\ x < CountWrap /\ y < CountWrap /\ z < CountWrap /\ n \in Nat /\ n = x + y + z
  BY TelemetryRouterAssumption, SMT DEF Counter
<1> HIDE DEF n
<1>1. n % CountWrap = IF n < CountWrap THEN n
                      ELSE IF n < 2 * CountWrap THEN n - CountWrap ELSE n - 2 * CountWrap
  BY <1>0, SmallMod, SMT
<1>2. Plus1(x) = IF x + 1 < CountWrap THEN x + 1 ELSE 0
  BY <1>0, SmallMod, SMT DEF Plus1
<1>3. (n + 1) % CountWrap = IF n + 1 < CountWrap THEN n + 1
                            ELSE IF n + 1 < 2 * CountWrap THEN n + 1 - CountWrap
                            ELSE n + 1 - 2 * CountWrap
  BY <1>0, SmallMod, SMT
<1>4. Plus1(n % CountWrap) = (n + 1) % CountWrap
  <2> DEFINE r == n % CountWrap
  <2>1. r \in Nat /\ r < CountWrap
    BY <1>0, <1>1, SMT
  <2>2. r = IF n < CountWrap THEN n
            ELSE IF n < 2 * CountWrap THEN n - CountWrap ELSE n - 2 * CountWrap
    BY <1>1
  <2> HIDE DEF r
  <2>3. Plus1(r) = IF r + 1 < CountWrap THEN r + 1 ELSE 0
    BY <1>0, <2>1, SmallMod, SMT DEF Plus1
  <2>4. Plus1(r) = (n + 1) % CountWrap
    BY <1>0, <1>3, <2>1, <2>2, <2>3, SMT
  <2> QED BY <2>4 DEF r
<1>5. (Plus1(x) + y + z) % CountWrap = (n + 1) % CountWrap
  <2>1. CASE x + 1 < CountWrap
    BY <1>0, <1>2, <2>1, SMT
  <2>2. CASE x + 1 = CountWrap
    <3>1. (y + z) % CountWrap = IF y + z < CountWrap THEN y + z ELSE y + z - CountWrap
      BY <1>0, SmallMod, SMT
    <3>2. Plus1(x) + y + z = y + z
      BY <1>0, <1>2, <2>2, SMT
    <3> QED BY <1>0, <1>3, <2>2, <3>1, <3>2, SMT
  <2> QED BY <1>0, <2>1, <2>2, SMT
<1> QED BY <1>4, <1>5 DEF n

LEMMA CountedStep ==
  RouterTypeOK /\ EachIsCountedOnce /\ [Next]_vars => EachIsCountedOnce'
<1> SUFFICES ASSUME RouterTypeOK, EachIsCountedOnce, [Next]_vars PROVE EachIsCountedOnce'
  OBVIOUS
<1>0. /\ forwarded \in Counter /\ overridden \in Counter /\ dropped \in Counter
      /\ forwarded \in Int /\ overridden \in Int /\ dropped \in Int
      /\ handled = (forwarded + overridden + dropped) % CountWrap
  BY SMT DEF RouterTypeOK, EachIsCountedOnce, Counter
<1>f. ASSUME handled' = Plus1(handled), forwarded' = Plus1(forwarded),
             UNCHANGED <<overridden, dropped>>
      PROVE  EachIsCountedOnce'
  BY <1>0, <1>f, SumCounts DEF EachIsCountedOnce
<1>o. ASSUME handled' = Plus1(handled), overridden' = Plus1(overridden),
             UNCHANGED <<forwarded, dropped>>
      PROVE  EachIsCountedOnce'
  <2>1. Plus1((overridden + forwarded + dropped) % CountWrap)
          = (Plus1(overridden) + forwarded + dropped) % CountWrap
    BY <1>0, SumCounts
  <2>2. /\ overridden + forwarded + dropped = forwarded + overridden + dropped
        /\ Plus1(overridden) + forwarded + dropped = forwarded + Plus1(overridden) + dropped
    BY <1>0, Plus1Type, SMT DEF Counter
  <2> QED BY <1>0, <1>o, <2>1, <2>2 DEF EachIsCountedOnce
<1>d. ASSUME handled' = Plus1(handled), dropped' = Plus1(dropped),
             UNCHANGED <<forwarded, overridden>>
      PROVE  EachIsCountedOnce'
  <2>1. Plus1((dropped + forwarded + overridden) % CountWrap)
          = (Plus1(dropped) + forwarded + overridden) % CountWrap
    BY <1>0, SumCounts
  <2>2. /\ dropped + forwarded + overridden = forwarded + overridden + dropped
        /\ Plus1(dropped) + forwarded + overridden = forwarded + overridden + Plus1(dropped)
    BY <1>0, Plus1Type, SMT DEF Counter
  <2> QED BY <1>0, <1>d, <2>1, <2>2 DEF EachIsCountedOnce
<1>u. ASSUME UNCHANGED counters PROVE EachIsCountedOnce'
  BY <1>u DEF counters, EachIsCountedOnce
<1>1. ASSUME NEW i \in Ports, NEW len \in Lengths, ReceivePacket(i, len)
      PROVE  EachIsCountedOnce'
  BY <1>1, <1>u DEF ReceivePacket
<1>2. ASSUME NEW a \in Ports \cup {NoPort}, SelectPort(a) PROVE EachIsCountedOnce'
  BY <1>2, <1>u DEF SelectPort
<1>3. ASSUME NEW d \in 0 .. MaxStep, BeginUpdate(d) PROVE EachIsCountedOnce'
  BY <1>3, <1>u DEF BeginUpdate
<1>4. ASSUME Forward PROVE EachIsCountedOnce'
  <2>1. PICK sent \in Sent(Head(queues[source])) :
          IF sent = Head(queues[source])
          THEN forwarded' = Plus1(forwarded) /\ UNCHANGED dropped
          ELSE dropped' = Plus1(dropped) /\ UNCHANGED forwarded
    BY <1>4 DEF Forward
  <2>2. handled' = Plus1(handled) /\ UNCHANGED overridden
    BY <1>4 DEF Forward
  <2> QED BY <2>1, <2>2, <1>f, <1>d
<1>5. ASSUME EndDrain PROVE EachIsCountedOnce'
  BY <1>5, <1>u DEF EndDrain
<1>6. ASSUME Inject PROVE EachIsCountedOnce'
  BY <1>6, <1>o, <1>d DEF Inject
<1>7. ASSUME NoInjection PROVE EachIsCountedOnce'
  BY <1>7, <1>u DEF NoInjection
<1>8. ASSUME NEW s \in Saved, Apply(s) PROVE EachIsCountedOnce'
  BY <1>8, <1>u DEF Apply
<1>9. CASE UNCHANGED vars
  BY <1>9, <1>u DEF vars
<1> QED BY <1>1, <1>2, <1>3, <1>4, <1>5, <1>6, <1>7, <1>8, <1>9 DEF Next

LEMMA CountedInit == Init => EachIsCountedOnce
BY TelemetryRouterAssumption, SMT DEF Init, EachIsCountedOnce

\* Every packet taken from a queue and every injection that was due is counted
\* exactly once, also when the counters wrap.
THEOREM PacketsAreCounted == Spec => []EachIsCountedOnce
<1> QED BY InitType, TypeStep, CountedInit, CountedStep, PTL DEF Spec
-----------------------------------------------------------------------------
(* The injection timer.                                                    *)

Age == Elapsed(now, lastInjection)

\* Why the timer works.  A clock that wraps makes the last injection look
\* younger than it is, never older, so an injection that is due was due in
\* real time.  While the override is on the age is exact from the first
\* injection on, and until then at most a step behind the time the override
\* has been on: in either case it cannot grow past the width of the clock.
TimerInv ==
  /\ Age <= since \/ since = Horizon
  /\ gap >= Interval
  /\ ~set.override => on = 0
  /\ set.override => /\ since = Age \/ on <= Age + MaxStep
                     /\ step \in {"apply", "update"} => on = 0 \/ Age < Interval

LEMMA TimerInit == Init => TimerInv
<1> SUFFICES ASSUME Init PROVE TimerInv
  OBVIOUS
<1>1. 0 \in Stamp
  BY WrapAssumption, SMT DEF Stamp
<1>2. Age = 0
  BY <1>1, ElapsedSame DEF Init, Age
<1> QED BY <1>2, TelemetryRouterAssumption, SMT DEF Init, TimerInv

LEMMA TimerStep == RouterTypeOK /\ TimerInv /\ [Next]_vars => TimerInv'
<1> SUFFICES ASSUME RouterTypeOK, TimerInv, [Next]_vars PROVE TimerInv'
  OBVIOUS
<1>0. /\ now \in Stamp /\ lastInjection \in Stamp /\ Age \in Nat
      /\ since \in 0 .. Horizon /\ on \in 0 .. Horizon /\ gap \in 0 .. Horizon
      /\ Interval \in Nat \ {0} /\ MaxStep \in Nat /\ Horizon \in Nat
      /\ Interval + MaxStep < Horizon /\ Interval + MaxStep <= Wrap
  <2>1. Age \in Nat
    BY WrapAssumption, SMT DEF RouterTypeOK, Age, Elapsed, Stamp
  <2> QED BY <2>1, TelemetryRouterAssumption, SMT DEF RouterTypeOK, Times
<1>u. ASSUME UNCHANGED <<now, lastInjection, since, gap, on, set>>,
             step' \in {"apply", "update"} => step \in {"apply", "update"}
      PROVE  TimerInv'
  BY <1>u DEF TimerInv, Age
<1>1. ASSUME NEW i \in Ports, NEW len \in Lengths, ReceivePacket(i, len) PROVE TimerInv'
  BY <1>1, <1>u DEF ReceivePacket, stopwatch
<1>2. ASSUME NEW a \in Ports \cup {NoPort}, SelectPort(a) PROVE TimerInv'
  BY <1>2, <1>u DEF SelectPort, stopwatch
<1>3. ASSUME NEW d \in 0 .. MaxStep, BeginUpdate(d) PROVE TimerInv'
  <2>0. d \in Nat /\ d <= MaxStep
    BY TelemetryRouterAssumption, SMT
  <2>1. /\ step = "update" /\ step' \notin {"apply", "update"}
        /\ now' = Later(now, d) /\ lastInjection' = lastInjection /\ set' = set /\ gap' = gap
        /\ since' = Count(since, d)
        /\ on' = IF set.override THEN Count(on, d) ELSE 0
    BY <1>3 DEF BeginUpdate
  <2>2. Age' = Elapsed(Later(now, d), lastInjection)
    BY <2>1 DEF Age
  <2>3. Age' \in Nat /\ Age' <= Age + d
    <3>1. Later(now, d) \in Stamp
      BY <1>0, <2>0, LaterType
    <3>2. Age' \in Nat
      BY <1>0, <2>2, <3>1, WrapAssumption, SMT DEF Elapsed, Stamp
    <3> QED BY <1>0, <2>0, <2>2, <3>2, ElapsedGrows DEF Age
  <2>4. Age < Interval => Age' = Age + d
    <3>1. Age < Interval => Age + d < Wrap
      BY <1>0, <2>0, WrapAssumption, SMT
    <3> QED BY <1>0, <2>0, <2>2, <3>1, ElapsedExact DEF Age
  <2>5. /\ since' \in 0 .. Horizon
        /\ since' = since + d \/ since' = Horizon
        /\ since + d < Horizon => since' = since + d
    BY <1>0, <2>0, <2>1, SMT DEF Count
  <2>6. set.override => on' \in 0 .. Horizon /\ on' <= on + d
    BY <1>0, <2>0, <2>1, SMT DEF Count
  <2>7. Age' <= since' \/ since' = Horizon
    BY <1>0, <2>0, <2>3, <2>5, SMT DEF TimerInv
  <2>8. set.override => since' = Age' \/ on' <= Age' + MaxStep
    <3> SUFFICES ASSUME set.override PROVE since' = Age' \/ on' <= Age' + MaxStep
      OBVIOUS
    <3>1. on = 0 \/ Age < Interval
      BY <2>1 DEF TimerInv
    <3>2. CASE on = 0
      BY <1>0, <2>0, <2>3, <2>6, <3>2, SMT
    <3>3. CASE Age < Interval /\ since = Age
      BY <1>0, <2>0, <2>4, <2>5, <3>3, SMT
    <3>4. CASE Age < Interval /\ on <= Age + MaxStep
      BY <1>0, <2>0, <2>4, <2>6, <3>4, SMT
    <3> QED BY <3>1, <3>2, <3>3, <3>4 DEF TimerInv
  <2> QED BY <2>1, <2>7, <2>8 DEF TimerInv
<1>4. ASSUME Forward PROVE TimerInv'
  BY <1>4, <1>u DEF Forward, stopwatch
<1>5. ASSUME EndDrain PROVE TimerInv'
  BY <1>5, <1>u DEF EndDrain, stopwatch
<1>6. ASSUME Inject PROVE TimerInv'
  <2>1. /\ set.override /\ Age >= Interval /\ lastInjection' = now /\ now' = now
        /\ gap' = since /\ since' = 0 /\ set' = set /\ on' = on
    BY <1>6 DEF Inject, InjectionIsDue, Age
  <2>2. Age' = 0
    BY <1>0, <2>1, ElapsedSame DEF Age
  <2>3. gap' >= Interval
    BY <1>0, <2>1, SMT DEF TimerInv
  <2> QED BY <1>0, <2>1, <2>2, <2>3, SMT DEF TimerInv
<1>7. ASSUME NoInjection PROVE TimerInv'
  <2>1. set.override => Age < Interval
    BY <1>0, <1>7, SMT DEF NoInjection, InjectionIsDue, Age
  <2>2. UNCHANGED <<Age, since, gap, on, set>>
    BY <1>7 DEF NoInjection, Age, stopwatch
  <2> QED BY <2>1, <2>2 DEF TimerInv
<1>8. ASSUME NEW s \in Saved, Apply(s) PROVE TimerInv'
  <2>1. /\ step = "apply" /\ set' = s /\ UNCHANGED <<Age, since, gap>>
        /\ on' = IF s.override THEN on ELSE 0
    BY <1>8 DEF Apply, Age
  <2>2. CASE set.override
    BY <2>1, <2>2 DEF TimerInv
  <2>3. CASE ~set.override
    <3>1. on = 0 /\ on' = 0
      BY <2>1, <2>3 DEF TimerInv
    <3>2. 0 <= Age + MaxStep
      BY <1>0, SMT
    <3> QED BY <2>1, <3>1, <3>2 DEF TimerInv
  <2> QED BY <2>2, <2>3
<1>9. CASE UNCHANGED vars
  BY <1>9, <1>u DEF vars, stopwatch
<1> QED BY <1>1, <1>2, <1>3, <1>4, <1>5, <1>6, <1>7, <1>8, <1>9 DEF Next

LEMMA TimerImplies ==
  RouterTypeOK /\ TimerInv => InjectionsAreSpaced /\ InjectionIsPeriodic
<1> SUFFICES ASSUME RouterTypeOK, TimerInv PROVE InjectionsAreSpaced /\ InjectionIsPeriodic
  OBVIOUS
<1>0. /\ Age \in Nat /\ on \in Nat /\ Interval \in Nat \ {0} /\ MaxStep \in Nat
  <2>1. Age \in Nat
    BY WrapAssumption, SMT DEF RouterTypeOK, Age, Elapsed, Stamp
  <2> QED BY <2>1, TelemetryRouterAssumption, SMT DEF RouterTypeOK, Times
<1>1. ASSUME step \in {"apply", "update"}, on >= Interval + MaxStep PROVE since < Interval
  <2>1. on # 0
    BY <1>0, <1>1, SMT
  <2>2. set.override /\ Age < Interval
    BY <1>1, <2>1 DEF TimerInv
  <2>3. since = Age \/ on <= Age + MaxStep
    BY <2>2 DEF TimerInv
  <2> QED BY <1>0, <1>1, <2>2, <2>3, SMT
<1> QED BY <1>1 DEF TimerInv, InjectionsAreSpaced, InjectionIsPeriodic

\* Injections are at least an interval of real time apart, whatever the clock
\* reads when the override is switched on.
THEOREM InjectionsKeepApart == Spec => []InjectionsAreSpaced
<1> QED BY InitType, TypeStep, TimerInit, TimerStep, TimerImplies, PTL DEF Spec

\* Once the override has been on for an interval and a step, the last injection
\* was never longer ago than that.
THEOREM InjectionsKeepComing == Spec => []InjectionIsPeriodic
<1> QED BY InitType, TypeStep, TimerInit, TimerStep, TimerImplies, PTL DEF Spec
=============================================================================
