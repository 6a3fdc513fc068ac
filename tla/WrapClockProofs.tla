--------------------------- MODULE WrapClockProofs ---------------------------
(***************************************************************************)
(* What the unsigned differences of a wrapping clock amount to: the lemmas *)
(* every proof about a timer of the router rests on.                       *)
(***************************************************************************)
EXTENDS WrapClock, TLAPS

\* The later reading is a reading.
LEMMA LaterType ==
  ASSUME NEW t \in Stamp, NEW d \in Nat
  PROVE  Later(t, d) \in Stamp
BY WrapAssumption, SMT DEF Stamp, Later

\* A reading is 0 ms from itself.
LEMMA ElapsedSame ==
  ASSUME NEW t \in Stamp
  PROVE  Elapsed(t, t) = 0
BY WrapAssumption, SMT DEF Stamp, Elapsed

\* The unsigned difference grows by at most the time that passes: a clock that
\* wraps can only make a timer look younger.
LEMMA ElapsedGrows ==
  ASSUME NEW t \in Stamp, NEW since \in Stamp, NEW d \in Nat
  PROVE  /\ Elapsed(t, since) \in Int
         /\ Elapsed(Later(t, d), since) \in Int
         /\ Elapsed(Later(t, d), since) <= Elapsed(t, since) + d
BY WrapAssumption, SMT DEF Stamp, Later, Elapsed

\* A difference that does not reach the width of the clock is exact: it grows
\* by the time that passes.
LEMMA ElapsedExact ==
  ASSUME NEW t \in Stamp, NEW since \in Stamp, NEW d \in Nat,
         Elapsed(t, since) + d < Wrap
  PROVE  Elapsed(Later(t, d), since) = Elapsed(t, since) + d
BY WrapAssumption, SMT DEF Stamp, Later, Elapsed
=============================================================================
