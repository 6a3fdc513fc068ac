----------------------------- MODULE ParserProofs -----------------------------
(***************************************************************************)
(* Proofs about the parsers.  First how they find frames, for every stream *)
(* of bytes, every alphabet and formats of any size; then the ring they    *)
(* keep telemetry in, for every capacity, every width of the count and     *)
(* however the loads and stores of the two tasks mix.                      *)
(***************************************************************************)
EXTENDS ParserReference, TelemetryRing, FiniteSetTheorems, SequenceTheorems, TLAPS

-----------------------------------------------------------------------------
(* Induction over the places of a stream is done with the least place that *)
(* would be an exception.                                                  *)

\* A set of numbers that is not empty has a least one.
LEMMA LeastNumber ==
  ASSUME NEW T \in SUBSET Nat, T # {}
  PROVE  \E x \in T : \A y \in T : x <= y
<1> DEFINE R == OpToRel(<, Nat)
<1>1. IsWellFoundedOn(R, Nat)
  BY NatLessThanWellFounded
<1>2. \A x, y \in Nat : y < x => <<y, x>> \in R
  BY DEF OpToRel
<1> HIDE DEF R
<1>3. PICK x \in T : \A y \in T : ~ (<<y, x>> \in R)
  BY <1>1, WFMin
<1>4. ASSUME NEW y \in T PROVE x <= y
  <2>1. x \in Nat /\ y \in Nat /\ ~ (<<y, x>> \in R)
    BY <1>3
  <2>2. ~(y < x)
    BY <2>1, <1>2, Zenon
  <2> QED BY <2>1, <2>2
<1> QED BY <1>4

\* Min of a set of numbers is in it and least.
LEMMA MinIsLeast ==
  ASSUME NEW T \in SUBSET Nat, T # {}
  PROVE  Min(T) \in T /\ \A y \in T : Min(T) <= y
BY LeastNumber, Zenon DEF Min

\* So is Max, if the numbers have a bound.
LEMMA MaxIsGreatest ==
  ASSUME NEW n \in Nat, NEW T \in SUBSET (0 .. n), T # {}
  PROVE  Max(T) \in T /\ \A y \in T : y <= Max(T)
<1> DEFINE U == {n - x : x \in T}
<1>1. U \in SUBSET Nat /\ U # {}
  <2>1. \A x \in T : n - x \in Nat
    OBVIOUS
  <2>2. U \subseteq Nat
    BY <2>1
  <2> QED BY <2>2
<1>2. PICK u \in U : \A v \in U : u <= v
  <2> HIDE DEF U
  <2> QED BY <1>1, LeastNumber
<1>3. PICK x \in T : u = n - x
  BY <1>2
<1>4. \A y \in T : x >= y
  <2> TAKE y \in T
  <2>1. n - y \in U
    OBVIOUS
  <2>2. n - x <= n - y
    BY <2>1, <1>2, <1>3
  <2> QED BY <2>2
<1>5. \E z \in T : \A y \in T : z >= y
  BY <1>4
<1>6. Max(T) \in T /\ \A y \in T : Max(T) >= y
  BY <1>5, Zenon DEF Max
<1> QED BY <1>6

-----------------------------------------------------------------------------
(* Parts of a stream.                                                      *)

\* A part of a stream is a stream of its length.
LEMMA PartType ==
  ASSUME NEW S, NEW s \in Seq(S), NEW i \in Nat \ {0}, NEW m \in Nat,
         i <= m + 1, m <= Len(s)
  PROVE  /\ SubSeq(s, i, m) \in Seq(S)
         /\ Len(SubSeq(s, i, m)) = m - i + 1
         /\ \A k \in 1 .. m - i + 1 : SubSeq(s, i, m)[k] = s[i + k - 1]
<1>1. \A k \in i .. m : s[k] \in S
  BY LenProperties
<1> QED BY <1>1, SubSeqProperties

\* A part of a part is a part.
LEMMA PartOfPart ==
  ASSUME NEW S, NEW s \in Seq(S), NEW n \in Nat, NEW e \in n .. Len(s),
         NEW i \in Nat \ {0}, NEW m \in Nat, i <= m + 1, n + m <= e
  PROVE  SubSeq(SubSeq(s, n + 1, e), i, m) = SubSeq(s, n + i, n + m)
<1> DEFINE t == SubSeq(s, n + 1, e)
           u == SubSeq(t, i, m)
           v == SubSeq(s, n + i, n + m)
<1>0. Len(s) \in Nat /\ e \in Nat /\ n <= e /\ e <= Len(s)
  BY LenProperties
<1>1. /\ t \in Seq(S) /\ Len(t) = e - n
      /\ \A k \in 1 .. e - n : t[k] = s[n + k]
  <2>1. n + 1 \in Nat \ {0} /\ n + 1 <= e + 1
    BY <1>0
  <2> QED BY <1>0, <2>1, PartType
<1>2. v \in Seq(S) /\ Len(v) = m - i + 1 /\ \A k \in 1 .. m - i + 1 : v[k] = s[n + i + k - 1]
  <2>1. n + i \in Nat \ {0} /\ n + m \in Nat /\ n + i <= n + m + 1 /\ n + m <= Len(s)
    BY <1>0
  <2> QED BY <1>0, <2>1, PartType
<1> HIDE DEF t
<1>3. u \in Seq(S) /\ Len(u) = m - i + 1 /\ \A k \in 1 .. m - i + 1 : u[k] = t[i + k - 1]
  <2>1. m <= Len(t) /\ t \in Seq(S) /\ i <= m + 1
    BY <1>0, <1>1
  <2> QED BY <2>1, PartType, SMT
<1> HIDE DEF u, v
<1>4. ASSUME NEW k \in 1 .. Len(u) PROVE u[k] = v[k]
  <2>1. k \in 1 .. m - i + 1 /\ i + k - 1 \in 1 .. e - n
    BY <1>0, <1>3
  <2>2. n + (i + k - 1) = n + i + k - 1
    BY <2>1
  <2> QED BY <2>1, <2>2, <1>1, <1>2, <1>3
<1>5. u = v
  BY <1>2, <1>3, <1>4, SeqEqual
<1> QED BY <1>5 DEF u, v, t

\* A byte more at the end of a stream is one more at the end of its last part.
LEMMA PartGrows ==
  ASSUME NEW S, NEW s \in Seq(S), NEW b \in S, NEW n \in 0 .. Len(s)
  PROVE  Append(SubSeq(s, n + 1, Len(s)), b) = SubSeq(Append(s, b), n + 1, Len(s) + 1)
<1> DEFINE t == SubSeq(s, n + 1, Len(s))
           s2 == Append(s, b)
           u == Append(t, b)
           v == SubSeq(s2, n + 1, Len(s) + 1)
<1>0. Len(s) \in Nat
  BY LenProperties
<1>1. /\ t \in Seq(S) /\ Len(t) = Len(s) - n
      /\ \A k \in 1 .. Len(s) - n : t[k] = s[n + k]
  <2>1. n + 1 \in Nat \ {0} /\ n + 1 <= Len(s) + 1
    BY <1>0
  <2> QED BY <1>0, <2>1, PartType
<1>2. /\ s2 \in Seq(S) /\ Len(s2) = Len(s) + 1 /\ s2[Len(s) + 1] = b
      /\ \A k \in 1 .. Len(s) : s2[k] = s[k]
  BY AppendProperties
<1> HIDE DEF t, s2
<1>3. /\ u \in Seq(S) /\ Len(u) = Len(t) + 1 /\ u[Len(t) + 1] = b
      /\ \A k \in 1 .. Len(t) : u[k] = t[k]
  BY <1>1, AppendProperties
<1>4. /\ v \in Seq(S) /\ Len(v) = Len(s) - n + 1
      /\ \A k \in 1 .. Len(s) - n + 1 : v[k] = s2[n + k]
  <2>1. n + 1 \in Nat \ {0} /\ Len(s) + 1 \in Nat /\ n + 1 <= Len(s) + 1 + 1 /\ Len(s) + 1 <= Len(s2)
    BY <1>0, <1>2
  <2> QED BY <1>0, <1>2, <2>1, PartType
<1> HIDE DEF u, v
<1>5. ASSUME NEW k \in 1 .. Len(u) PROVE u[k] = v[k]
  <2>1. CASE k = Len(t) + 1
    BY <2>1, <1>0, <1>1, <1>2, <1>3, <1>4
  <2>2. CASE k # Len(t) + 1
    <3>1. k \in 1 .. Len(t) /\ n + k \in 1 .. Len(s) /\ k \in 1 .. Len(s) - n + 1
      BY <2>2, <1>0, <1>1, <1>3
    <3> QED BY <3>1, <1>1, <1>2, <1>3, <1>4
  <2> QED BY <2>1, <2>2
<1>6. Len(u) = Len(v)
  BY <1>0, <1>1, <1>3, <1>4
<1>7. u = v
  BY <1>3, <1>4, <1>5, <1>6, SeqEqual
<1> QED BY <1>7 DEF u, v, t, s2

\* What a stream holds already stays as it is.
LEMMA PartStays ==
  ASSUME NEW S, NEW s \in Seq(S), NEW b \in S, NEW i \in Nat \ {0}, NEW m \in Nat,
         i <= m + 1, m <= Len(s)
  PROVE  SubSeq(Append(s, b), i, m) = SubSeq(s, i, m)
<1> DEFINE s2 == Append(s, b)
           u == SubSeq(s2, i, m)
           v == SubSeq(s, i, m)
<1>0. Len(s) \in Nat
  BY LenProperties
<1>1. /\ s2 \in Seq(S) /\ Len(s2) = Len(s) + 1
      /\ \A k \in 1 .. Len(s) : s2[k] = s[k]
  BY AppendProperties
<1>2. v \in Seq(S) /\ Len(v) = m - i + 1 /\ \A k \in 1 .. m - i + 1 : v[k] = s[i + k - 1]
  BY PartType
<1> HIDE DEF s2
<1>3. u \in Seq(S) /\ Len(u) = m - i + 1 /\ \A k \in 1 .. m - i + 1 : u[k] = s2[i + k - 1]
  <2>1. m <= Len(s2)
    BY <1>0, <1>1
  <2> QED BY <1>1, <2>1, PartType
<1> HIDE DEF u, v
<1>4. ASSUME NEW k \in 1 .. Len(u) PROVE u[k] = v[k]
  <2>1. k \in 1 .. m - i + 1 /\ i + k - 1 \in 1 .. Len(s)
    BY <1>0, <1>3
  <2> QED BY <2>1, <1>1, <1>2, <1>3
<1>5. u = v
  BY <1>2, <1>3, <1>4, SeqEqual
<1> QED BY <1>5 DEF u, v, s2

-----------------------------------------------------------------------------
(* The reference: its recursion defines a function, which a longer stream  *)
(* does not change where it is settled.                                    *)

\* What Free says of the place i, given what f says of those before it.
FreeAt(p, s, f, i) ==
  \A j \in 1 .. i - 1 : (Takes(p, s, j) /\ i < j + Total(p, s, j)) => ~f[j]

\* The recursion in Free has a solution on every prefix, and so on the stream.
LEMMA FreeIsDefined ==
  ASSUME NEW p, NEW s, Len(s) \in Nat
  PROVE  /\ Free(p, s) \in [1 .. Len(s) -> BOOLEAN]
         /\ \A i \in 1 .. Len(s) : Free(p, s)[i] = FreeAt(p, s, Free(p, s), i)
<1> DEFINE n == Len(s)
           Solves(f, m) == f = [i \in 1 .. m |-> FreeAt(p, s, f, i)]
           Unsolved == {m \in 0 .. n : ~ \E f : Solves(f, m)}
<1>1. Unsolved = {}
  <2> SUFFICES ASSUME Unsolved # {} PROVE FALSE
    OBVIOUS
  <2>1. PICK m \in Unsolved : \A k \in Unsolved : m <= k
    <3>1. Unsolved \in SUBSET Nat
      OBVIOUS
    <3> HIDE DEF Unsolved
    <3> QED BY <3>1, LeastNumber
  <2>2. m # 0
    <3>1. Solves([i \in {} |-> TRUE], 0)
      OBVIOUS
    <3> QED BY <3>1
  <2>3. m \in 1 .. n /\ m - 1 \in 0 .. n
    BY <2>1, <2>2
  <2>4. m - 1 \notin Unsolved
    <3> HIDE DEF Unsolved
    <3> QED BY <2>1, <2>3
  <2>5. PICK f : Solves(f, m - 1)
    BY <2>3, <2>4
  <2> DEFINE g == [i \in 1 .. m |-> IF i = m THEN FreeAt(p, s, f, m) ELSE f[i]]
  <2>6. ASSUME NEW i \in 1 .. m PROVE g[i] = FreeAt(p, s, g, i)
    <3>1. \A j \in 1 .. i - 1 : g[j] = f[j]
      BY <2>3
    <3>2. FreeAt(p, s, g, i) = FreeAt(p, s, f, i)
      <4> HIDE DEF g
      <4> QED BY <3>1, Zenon DEF FreeAt
    <3>3. CASE i = m
      BY <3>2, <3>3, Zenon
    <3>4. CASE i # m
      <4>1. i \in 1 .. m - 1 /\ g[i] = f[i]
        BY <2>3, <3>4
      <4>2. f[i] = FreeAt(p, s, f, i)
        BY <4>1, <2>5, Zenon
      <4> HIDE DEF g
      <4> QED BY <4>1, <4>2, <3>2, Zenon
    <3> QED BY <3>3, <3>4
  <2>7. Solves(g, m)
    <3>1. g = [i \in 1 .. m |-> g[i]]
      BY Zenon
    <3> HIDE DEF g
    <3> QED BY <2>6, <3>1, Zenon
  <2> QED BY <2>7, Zenon
<1>2. \E f : Solves(f, n)
  <2>1. n \in 0 .. n
    OBVIOUS
  <2> QED BY <1>1, <2>1
<1>3. Free(p, s) = CHOOSE f : Solves(f, n)
  BY DEF Free, FreeAt, Places
<1>4. Solves(Free(p, s), n)
  BY <1>2, <1>3, Zenon
<1>5. \A i \in 1 .. n : FreeAt(p, s, Free(p, s), i) \in BOOLEAN
  BY DEF FreeAt
<1> HIDE DEF n
<1>6. Free(p, s) \in [1 .. n -> BOOLEAN]
  BY <1>4, <1>5, Zenon
<1>7. \A i \in 1 .. n : Free(p, s)[i] = FreeAt(p, s, Free(p, s), i)
  BY <1>4, Zenon
<1> QED BY <1>6, <1>7 DEF n

\* Which of the first n places are free follows from what is taken at the free
\* ones of them.
LEMMA FreeIsLocal ==
  ASSUME NEW p, NEW s, NEW u, Len(s) \in Nat, Len(u) \in Nat,
         NEW n \in Nat, n <= Len(s), n <= Len(u),
         \A j \in 1 .. n : Free(p, s)[j] =>
           /\ Takes(p, s, j) <=> Takes(p, u, j)
           /\ Takes(p, s, j) => Total(p, s, j) = Total(p, u, j)
  PROVE  \A i \in 1 .. n : Free(p, u)[i] = Free(p, s)[i]
<1> DEFINE f == Free(p, s)
           g == Free(p, u)
           Differ == {i \in 1 .. n : g[i] # f[i]}
<1>1. \A i \in 1 .. n : f[i] = FreeAt(p, s, f, i) /\ g[i] = FreeAt(p, u, g, i)
  <2>1. 1 .. n \subseteq 1 .. Len(s) /\ 1 .. n \subseteq 1 .. Len(u)
    OBVIOUS
  <2> QED BY <2>1, FreeIsDefined, Zenon
<1> HIDE DEF f, g
<1>2. Differ = {}
  <2> SUFFICES ASSUME Differ # {} PROVE FALSE
    OBVIOUS
  <2>1. PICK i \in Differ : \A k \in Differ : i <= k
    <3>1. Differ \in SUBSET Nat
      OBVIOUS
    <3> HIDE DEF Differ
    <3> QED BY <3>1, LeastNumber
  <2>2. i \in 1 .. n /\ g[i] # f[i]
    OBVIOUS
  <2>3. ASSUME NEW j \in 1 .. i - 1 PROVE j \in 1 .. n /\ g[j] = f[j]
    <3>1. j \in 1 .. n /\ ~(i <= j)
      BY <2>2
    <3>2. j \notin Differ
      <4> HIDE DEF Differ
      <4> QED BY <3>1, <2>1
    <3> QED BY <3>1, <3>2
  <2>4. FreeAt(p, u, g, i) = FreeAt(p, s, f, i)
    <3>1. \A j \in 1 .. i - 1 : f[j] =>
            /\ Takes(p, s, j) <=> Takes(p, u, j)
            /\ Takes(p, s, j) => Total(p, s, j) = Total(p, u, j)
      BY <2>3 DEF f
    <3> QED BY <2>3, <3>1, Zenon DEF FreeAt
  <2> QED BY <2>2, <2>4, <1>1, Zenon
<1> QED BY <1>2 DEF f, g

\* The first n places are decided: a candidate at a free one of them is
\* complete, and what is taken ends within them.
Settled(p, s, n) ==
  \A i \in 1 .. n :
    (Free(p, s)[i] /\ Total(p, s, i) # 0) =>
      /\ Complete(p, s, i)
      /\ Takes(p, s, i) => i + Total(p, s, i) <= n + 1

\* Nothing taken covers the place behind them.
LEMMA FrontIsFree ==
  ASSUME NEW p, NEW s, Len(s) \in Nat, NEW n \in Nat, n < Len(s), Settled(p, s, n),
         \A i \in 1 .. n : Total(p, s, i) \in Nat
  PROVE  Free(p, s)[n + 1]
<1>1. n + 1 \in 1 .. Len(s)
  OBVIOUS
<1>2. Free(p, s)[n + 1] = FreeAt(p, s, Free(p, s), n + 1)
  BY <1>1, FreeIsDefined
<1>3. ASSUME NEW j \in 1 .. n, Takes(p, s, j), n + 1 < j + Total(p, s, j), Free(p, s)[j]
      PROVE  FALSE
  <2>1. Total(p, s, j) # 0 /\ Total(p, s, j) \in Nat
    BY <1>3 DEF Takes, Complete
  <2>2. j + Total(p, s, j) <= n + 1
    BY <2>1, <1>3 DEF Settled
  <2> QED BY <2>1, <2>2, <1>3
<1>4. (n + 1) - 1 = n
  OBVIOUS
<1> QED BY <1>2, <1>3, <1>4, Zenon DEF FreeAt

GoodOf(p, s, n) == Good(p, s, Free(p, s), n)
BadOf(p, s, n) == Bad(p, s, Free(p, s), n)

Streams(p) == {s \in Seq(Bytes[p]) : Len(s) <= StreamLimit[p]}

\* The bytes of a stream.
LEMMA StreamType ==
  ASSUME NEW p \in Protocols, NEW s \in Streams(p)
  PROVE  /\ s \in Seq(Bytes[p]) /\ Len(s) \in Nat /\ Len(s) <= StreamLimit[p]
         /\ StreamLimit[p] \in Nat
         /\ \A i \in 1 .. Len(s) : s[i] \in Bytes[p] /\ s[i] \in 0 .. 255
<1>1. s \in Seq(Bytes[p]) /\ Len(s) <= StreamLimit[p]
  BY DEF Streams
<1>2. Bytes[p] \subseteq 0 .. 255 /\ StreamLimit[p] \in Nat
  BY FrameParsersAssumption
<1>3. Len(s) \in Nat /\ \A i \in 1 .. Len(s) : s[i] \in Bytes[p]
  BY <1>1, LenProperties
<1> QED BY <1>1, <1>2, <1>3

\* The sizes of the formats.
LEMMA SizesType ==
  /\ CrsfMaxLength \in Nat /\ CrsfMaxLength >= 2
  /\ SbusSize \in Nat /\ SbusSize >= 3 /\ LqWindow \in Nat /\ LqWindow >= 1
  /\ HeaderSize \in Nat /\ HeaderSize >= 2
  /\ CrcSize \in Nat /\ CrcSize >= 1 /\ SignatureSize \in Nat /\ SignatureSize >= 1
BY FrameParsersAssumption

\* The length of a candidate is a number.
LEMMA TotalType ==
  ASSUME NEW p \in Protocols, NEW s \in Streams(p), NEW i \in 1 .. Len(s)
  PROVE  Total(p, s, i) \in Nat
<1> USE SizesType
<1>1. /\ Len(s) \in Nat /\ Unknown(p) \in Nat
      /\ \A k \in 1 .. Len(s) : s[k] \in 0 .. 255
  BY StreamType DEF Unknown
<1>2. CASE p = "CRSF"
  <2>1. Total(p, s, i) = CrsfTotalAt(s, i)
    BY <1>2 DEF Total
  <2>2. ASSUME i + 1 <= Len(s) PROVE s[i + 1] \in 0 .. 255
    <3>1. i + 1 \in 1 .. Len(s)
      BY <2>2, <1>1
    <3> QED BY <3>1, <1>1
  <2> QED BY <1>1, <1>2, <2>1, <2>2 DEF CrsfTotalAt
<1>3. CASE p = "SBUS"
  BY <1>3 DEF Total, SbusTotalAt
<1>4. CASE p = "MAVLINK"
  <2>1. Total(p, s, i) = MavlinkTotalAt(s, i)
    BY <1>4 DEF Total
  <2>2. ASSUME i + 2 <= Len(s) PROVE s[i + 1] \in 0 .. 255
    <3>1. i + 1 \in 1 .. Len(s)
      BY <2>2, <1>1
    <3> QED BY <3>1, <1>1
  <2> DEFINE signature == IF s[i + 2] \in Signed THEN SignatureSize ELSE 0
  <2>3. HeaderSize \in Nat /\ CrcSize \in Nat /\ signature \in Nat
    OBVIOUS
  <2>4. MavlinkTotalAt(s, i) = IF s[i] # Stx THEN 0
                               ELSE IF i + 2 > Len(s) THEN Unknown(p)
                               ELSE 1 + HeaderSize + s[i + 1] + CrcSize + signature
    BY <1>4 DEF MavlinkTotalAt
  <2> HIDE DEF signature
  <2>5. ASSUME i + 2 <= Len(s) PROVE s[i + 1] \in Nat
    <3>1. \A x \in 0 .. 255 : x \in Nat
      OBVIOUS
    <3> QED BY <2>2, <2>5, <3>1, Zenon
  <2> QED BY <1>1, <2>1, <2>3, <2>4, <2>5
<1> QED BY <1>2, <1>3, <1>4 DEF Protocols

\* The place behind what is settled is free.
LEMMA FreeFront ==
  ASSUME NEW p \in Protocols, NEW s \in Streams(p), NEW n \in Nat, n < Len(s), Settled(p, s, n)
  PROVE  Free(p, s)[n + 1]
<1>1. Len(s) \in Nat /\ 1 .. n \subseteq 1 .. Len(s)
  BY StreamType
<1>2. \A i \in 1 .. n : Total(p, s, i) \in Nat
  BY <1>1, TotalType
<1> QED BY <1>1, <1>2, FrontIsFree

\* A candidate that is not taken, and places where none starts, are passed over.
LEMMA SkipSettles ==
  ASSUME NEW p \in Protocols, NEW s \in Streams(p), NEW n \in Nat, NEW m \in Nat,
         n < m, m <= Len(s), Settled(p, s, n),
         Total(p, s, n + 1) = 0 \/ (Complete(p, s, n + 1) /\ ~Takes(p, s, n + 1)),
         \A i \in n + 2 .. m : Total(p, s, i) = 0
  PROVE  /\ Settled(p, s, m)
         /\ GoodOf(p, s, m) = GoodOf(p, s, n)
         /\ BadOf(p, s, m) = IF Total(p, s, n + 1) = 0 THEN BadOf(p, s, n)
                             ELSE BadOf(p, s, n) \cup {n + 1}
<1>1. Len(s) \in Nat
  BY StreamType
<1>2. Free(p, s)[n + 1]
  BY <1>1, FreeFront
<1>3. \A i \in 1 .. m : i \in 1 .. n \/ i = n + 1 \/ (i \in n + 2 .. m /\ Total(p, s, i) = 0)
  BY SMT
<1>4. 1 .. n \subseteq 1 .. m /\ n + 1 \in 1 .. m /\ n + 1 \notin 1 .. n
  OBVIOUS
<1>5. \A i : Takes(p, s, i) <=> (Complete(p, s, i) /\ (p = "MAVLINK" \/ Passes(p, Candidate(p, s, i))))
  BY DEF Takes
<1>6. \A i : Total(p, s, i) = 0 => ~Complete(p, s, i)
  BY DEF Complete
<1>7. Settled(p, s, m)
  <2>1. SUFFICES ASSUME NEW i \in 1 .. m, Free(p, s)[i], Total(p, s, i) # 0
                 PROVE  /\ Complete(p, s, i)
                        /\ Takes(p, s, i) => i + Total(p, s, i) <= m + 1
    BY DEF Settled
  <2>2. CASE i \in 1 .. n
    <3>1. Complete(p, s, i) /\ (Takes(p, s, i) => i + Total(p, s, i) <= n + 1)
      BY <2>1, <2>2 DEF Settled
    <3>2. Total(p, s, i) \in Nat
      BY <2>2, <1>1, TotalType
    <3> QED BY <3>1, <3>2
  <2>3. CASE i = n + 1
    BY <2>1, <2>3
  <2> QED BY <1>3, <2>1, <2>2, <2>3
<1>8. GoodOf(p, s, m) = GoodOf(p, s, n)
  <2>1. ASSUME NEW i \in GoodOf(p, s, m) PROVE i \in GoodOf(p, s, n)
    <3>1. i \in 1 .. m /\ Free(p, s)[i] /\ Complete(p, s, i) /\ Passes(p, Candidate(p, s, i))
      BY <2>1 DEF GoodOf, Good
    <3>2. i \in 1 .. n
      BY <3>1, <1>3, <1>5, <1>6
    <3> QED BY <3>1, <3>2 DEF GoodOf, Good
  <2>2. GoodOf(p, s, n) \subseteq GoodOf(p, s, m)
    BY <1>4, Zenon DEF GoodOf, Good
  <2> QED BY <2>1, <2>2
<1>9. BadOf(p, s, n) \subseteq BadOf(p, s, m)
  BY <1>4, Zenon DEF BadOf, Bad
<1>10. ASSUME NEW i \in BadOf(p, s, m)
       PROVE  i \in BadOf(p, s, n) \/ (i = n + 1 /\ Total(p, s, n + 1) # 0)
  <2>1. /\ i \in 1 .. m /\ Free(p, s)[i] /\ Complete(p, s, i) /\ ~Passes(p, Candidate(p, s, i))
        /\ p = "MAVLINK" => ~IsSigned(Candidate(p, s, i))
    BY <1>10 DEF BadOf, Bad
  <2>2. i \in 1 .. n \/ (i = n + 1 /\ Total(p, s, n + 1) # 0)
    BY <2>1, <1>3, <1>6
  <2> QED BY <2>1, <2>2 DEF BadOf, Bad
<1>11. ASSUME Total(p, s, n + 1) # 0 PROVE n + 1 \in BadOf(p, s, m)
  <2>1. Complete(p, s, n + 1) /\ ~Passes(p, Candidate(p, s, n + 1)) /\ p # "MAVLINK"
    BY <1>11, <1>5
  <2> QED BY <2>1, <1>2, <1>4 DEF BadOf, Bad
<1>12. BadOf(p, s, m) = IF Total(p, s, n + 1) = 0 THEN BadOf(p, s, n)
                        ELSE BadOf(p, s, n) \cup {n + 1}
  BY <1>9, <1>10, <1>11
<1> QED BY <1>7, <1>8, <1>12

\* What is decided with a candidate that is taken.
GoodWith(p, s, n) ==
  IF Passes(p, Candidate(p, s, n + 1)) THEN GoodOf(p, s, n) \cup {n + 1} ELSE GoodOf(p, s, n)
BadWith(p, s, n) ==
  IF \/ Passes(p, Candidate(p, s, n + 1))
     \/ p = "MAVLINK" /\ IsSigned(Candidate(p, s, n + 1))
  THEN BadOf(p, s, n) ELSE BadOf(p, s, n) \cup {n + 1}

\* What is taken is passed over as a whole.
LEMMA TakeSettles ==
  ASSUME NEW p \in Protocols, NEW s \in Streams(p), NEW n \in Nat, NEW m \in Nat,
         n < Len(s), Settled(p, s, n), Takes(p, s, n + 1), m = n + Total(p, s, n + 1)
  PROVE  /\ m <= Len(s) /\ n < m
         /\ Settled(p, s, m)
         /\ GoodOf(p, s, m) = GoodWith(p, s, n)
         /\ BadOf(p, s, m) = BadWith(p, s, n)
<1>1. Len(s) \in Nat /\ n + 1 \in 1 .. Len(s)
  BY StreamType
<1>2. Free(p, s)[n + 1]
  BY <1>1, FreeFront
<1>3. Total(p, s, n + 1) \in Nat
  BY <1>1, TotalType
<1>4. Complete(p, s, n + 1) /\ Total(p, s, n + 1) # 0 /\ n + 1 + Total(p, s, n + 1) - 1 <= Len(s)
  BY DEF Takes, Complete
<1>5. m <= Len(s) /\ n < m
  BY <1>1, <1>3, <1>4
<1>6. ASSUME NEW i \in n + 2 .. m PROVE ~Free(p, s)[i]
  <2>1. i \in 1 .. Len(s) /\ n + 1 \in 1 .. i - 1 /\ i < n + 1 + Total(p, s, n + 1)
    BY <1>1, <1>3, <1>5
  <2>2. Free(p, s)[i] = FreeAt(p, s, Free(p, s), i)
    BY <1>1, <2>1, FreeIsDefined
  <2> QED BY <1>2, <2>1, <2>2, Zenon DEF FreeAt
<1>7. \A i \in 1 .. m : i \in 1 .. n \/ i = n + 1 \/ ~Free(p, s)[i]
  <2>1. \A i \in 1 .. m : i \in 1 .. n \/ i = n + 1 \/ i \in n + 2 .. m
    OBVIOUS
  <2> QED BY <1>6, <2>1
<1>8. 1 .. n \subseteq 1 .. m /\ n + 1 \in 1 .. m /\ n + 1 \notin 1 .. n
  BY <1>5
<1>9. Settled(p, s, m)
  <2>1. SUFFICES ASSUME NEW i \in 1 .. m, Free(p, s)[i], Total(p, s, i) # 0
                 PROVE  /\ Complete(p, s, i)
                        /\ Takes(p, s, i) => i + Total(p, s, i) <= m + 1
    BY DEF Settled
  <2>2. CASE i \in 1 .. n
    <3>1. Complete(p, s, i) /\ (Takes(p, s, i) => i + Total(p, s, i) <= n + 1)
      BY <2>1, <2>2 DEF Settled
    <3>2. Total(p, s, i) \in Nat
      BY <2>2, <1>1, TotalType
    <3> QED BY <3>1, <3>2, <1>5
  <2>3. CASE i = n + 1
    BY <2>1, <2>3, <1>3, <1>4
  <2> QED BY <1>7, <2>1, <2>2, <2>3
<1>10. GoodOf(p, s, m) = IF Passes(p, Candidate(p, s, n + 1))
                         THEN GoodOf(p, s, n) \cup {n + 1} ELSE GoodOf(p, s, n)
  <2>1. ASSUME NEW i \in GoodOf(p, s, m)
        PROVE  i \in GoodOf(p, s, n) \/ (i = n + 1 /\ Passes(p, Candidate(p, s, n + 1)))
    <3>1. i \in 1 .. m /\ Free(p, s)[i] /\ Complete(p, s, i) /\ Passes(p, Candidate(p, s, i))
      BY <2>1 DEF GoodOf, Good
    <3>2. i \in 1 .. n \/ i = n + 1
      BY <3>1, <1>7
    <3> QED BY <3>1, <3>2 DEF GoodOf, Good
  <2>2. GoodOf(p, s, n) \subseteq GoodOf(p, s, m)
    BY <1>8, Zenon DEF GoodOf, Good
  <2>3. Passes(p, Candidate(p, s, n + 1)) => n + 1 \in GoodOf(p, s, m)
    BY <1>2, <1>4, <1>8 DEF GoodOf, Good
  <2> QED BY <2>1, <2>2, <2>3
<1>11. BadOf(p, s, m) = IF \/ Passes(p, Candidate(p, s, n + 1))
                           \/ p = "MAVLINK" /\ IsSigned(Candidate(p, s, n + 1))
                        THEN BadOf(p, s, n) ELSE BadOf(p, s, n) \cup {n + 1}
  <2> DEFINE Counts(i) == /\ ~Passes(p, Candidate(p, s, i))
                          /\ p = "MAVLINK" => ~IsSigned(Candidate(p, s, i))
  <2>1. ASSUME NEW i \in BadOf(p, s, m)
        PROVE  i \in BadOf(p, s, n) \/ (i = n + 1 /\ Counts(n + 1))
    <3>1. i \in 1 .. m /\ Free(p, s)[i] /\ Complete(p, s, i) /\ Counts(i)
      BY <2>1 DEF BadOf, Bad
    <3>2. i \in 1 .. n \/ i = n + 1
      BY <3>1, <1>7
    <3> QED BY <3>1, <3>2 DEF BadOf, Bad
  <2>2. BadOf(p, s, n) \subseteq BadOf(p, s, m)
    BY <1>8, Zenon DEF BadOf, Bad
  <2>3. Counts(n + 1) => n + 1 \in BadOf(p, s, m)
    BY <1>2, <1>4, <1>8 DEF BadOf, Bad
  <2>4. CASE Counts(n + 1)
    BY <2>1, <2>2, <2>3, <2>4
  <2>5. CASE ~Counts(n + 1)
    BY <2>1, <2>2, <2>5
  <2> QED BY <2>4, <2>5
<1> QED BY <1>5, <1>9, <1>10, <1>11, Zenon DEF GoodWith, BadWith

\* A byte more leaves complete candidates as they are, and starts none where
\* none started.
LEMMA CandidateStays ==
  ASSUME NEW p \in Protocols, NEW s \in Streams(p), NEW b \in Bytes[p],
         Len(s) < StreamLimit[p], NEW i \in 1 .. Len(s)
  PROVE  /\ Total(p, s, i) = 0 => Total(p, Append(s, b), i) = 0
         /\ Complete(p, s, i) =>
              /\ Total(p, Append(s, b), i) = Total(p, s, i)
              /\ Complete(p, Append(s, b), i)
              /\ Candidate(p, Append(s, b), i) = Candidate(p, s, i)
<1> DEFINE u == Append(s, b)
<1>1. /\ s \in Seq(Bytes[p]) /\ Len(s) \in Nat /\ StreamLimit[p] \in Nat
  BY StreamType
<1>2. /\ Len(u) = Len(s) + 1
      /\ \A k \in 1 .. Len(s) : u[k] = s[k]
  BY <1>1, AppendProperties
<1> HIDE DEF u
<1>3. Total(p, s, i) \in Nat
  BY TotalType
<1>4. ASSUME Complete(p, s, i) PROVE Total(p, s, i) # Unknown(p) /\ Total(p, s, i) # 0
  BY <1>1, <1>3, <1>4 DEF Complete, Unknown
<1>5. /\ Total(p, s, i) = 0 => Total(p, u, i) = 0
      /\ Complete(p, s, i) => Total(p, u, i) = Total(p, s, i)
  <2>1. CASE p = "CRSF"
    <3>1. Total(p, s, i) = CrsfTotalAt(s, i) /\ Total(p, u, i) = CrsfTotalAt(u, i)
      BY <2>1 DEF Total
    <3>2. CASE s[i] \in CrsfSync /\ i + 1 > Len(s)
      <4>1. Total(p, s, i) = Unknown(p)
        BY <3>1, <3>2, <2>1 DEF CrsfTotalAt
      <4> QED BY <4>1, <1>1, <1>4 DEF Unknown
    <3>3. CASE s[i] \notin CrsfSync \/ i + 1 <= Len(s)
      <4>1. u[i] = s[i] /\ (i + 1 <= Len(s) => u[i + 1] = s[i + 1] /\ i + 1 <= Len(u))
        BY <1>1, <1>2
      <4>2. CrsfTotalAt(u, i) = CrsfTotalAt(s, i)
        BY <4>1, <3>3, <1>1, <1>2 DEF CrsfTotalAt
      <4> QED BY <4>2, <3>1
    <3> QED BY <3>2, <3>3, <1>1
  <2>2. CASE p = "SBUS"
    BY <2>2, <1>2 DEF Total, SbusTotalAt
  <2>3. CASE p = "MAVLINK"
    <3>1. Total(p, s, i) = MavlinkTotalAt(s, i) /\ Total(p, u, i) = MavlinkTotalAt(u, i)
      BY <2>3 DEF Total
    <3>2. CASE s[i] = Stx /\ i + 2 > Len(s)
      <4>1. Total(p, s, i) = Unknown(p)
        BY <3>1, <3>2, <2>3 DEF MavlinkTotalAt
      <4> QED BY <4>1, <1>1, <1>4 DEF Unknown
    <3>3. CASE s[i] # Stx \/ i + 2 <= Len(s)
      <4>1. /\ u[i] = s[i]
            /\ i + 2 <= Len(s) => u[i + 1] = s[i + 1] /\ u[i + 2] = s[i + 2] /\ i + 2 <= Len(u)
        <5>1. i + 2 <= Len(s) => i + 1 \in 1 .. Len(s) /\ i + 2 \in 1 .. Len(s)
          BY <1>1
        <5> QED BY <5>1, <1>1, <1>2
      <4>2. MavlinkTotalAt(u, i) = MavlinkTotalAt(s, i)
        BY <4>1, <3>3, <1>1, <1>2 DEF MavlinkTotalAt
      <4> QED BY <4>2, <3>1
    <3> QED BY <3>2, <3>3, <1>1
  <2> QED BY <2>1, <2>2, <2>3 DEF Protocols
<1>6. ASSUME Complete(p, s, i)
      PROVE  Complete(p, u, i) /\ Candidate(p, u, i) = Candidate(p, s, i)
  <2>1. Total(p, u, i) = Total(p, s, i)
    BY <1>5, <1>6
  <2>2. i + Total(p, s, i) - 1 <= Len(s) /\ Total(p, s, i) # 0
    BY <1>6 DEF Complete
  <2>3. Complete(p, u, i)
    BY <1>1, <1>2, <1>3, <2>1, <2>2 DEF Complete
  <2>4. /\ i \in Nat \ {0} /\ i + Total(p, s, i) - 1 \in Nat
        /\ i <= i + Total(p, s, i) - 1 + 1
    BY <1>3
  <2>5. SubSeq(u, i, i + Total(p, s, i) - 1) = SubSeq(s, i, i + Total(p, s, i) - 1)
    BY <1>1, <2>2, <2>4, PartStays DEF u
  <2> QED BY <2>1, <2>3, <2>5 DEF Candidate, Part
<1> QED BY <1>5, <1>6 DEF u

\* A stream that is not at its limit can grow by a byte.
LEMMA GrowsType ==
  ASSUME NEW p \in Protocols, NEW s \in Streams(p), NEW b \in Bytes[p], Len(s) < StreamLimit[p]
  PROVE  /\ Append(s, b) \in Streams(p) /\ Len(Append(s, b)) = Len(s) + 1
         /\ \A k \in 1 .. Len(s) : Append(s, b)[k] = s[k]
         /\ Append(s, b)[Len(s) + 1] = b
<1>1. s \in Seq(Bytes[p]) /\ Len(s) \in Nat /\ StreamLimit[p] \in Nat
  BY StreamType
<1>2. /\ Append(s, b) \in Seq(Bytes[p]) /\ Len(Append(s, b)) = Len(s) + 1
      /\ \A k \in 1 .. Len(s) : Append(s, b)[k] = s[k]
      /\ Append(s, b)[Len(s) + 1] = b
  BY <1>1, AppendProperties
<1>3. Len(Append(s, b)) <= StreamLimit[p]
  BY <1>1, <1>2
<1> QED BY <1>2, <1>3 DEF Streams

\* So a byte more changes nothing of what is settled.
LEMMA SettledStays ==
  ASSUME NEW p \in Protocols, NEW s \in Streams(p), NEW b \in Bytes[p],
         Len(s) < StreamLimit[p], NEW n \in 0 .. Len(s), Settled(p, s, n)
  PROVE  /\ Settled(p, Append(s, b), n)
         /\ GoodOf(p, Append(s, b), n) = GoodOf(p, s, n)
         /\ BadOf(p, Append(s, b), n) = BadOf(p, s, n)
<1> DEFINE u == Append(s, b)
<1>1. Len(s) \in Nat /\ Len(u) = Len(s) + 1 /\ n \in Nat /\ n <= Len(s) /\ n <= Len(u)
  BY StreamType, GrowsType
<1>2. \A i \in 1 .. n :
        /\ Total(p, s, i) = 0 => Total(p, u, i) = 0
        /\ Complete(p, s, i) => /\ Total(p, u, i) = Total(p, s, i)
                                /\ Complete(p, u, i)
                                /\ Candidate(p, u, i) = Candidate(p, s, i)
  <2>1. 1 .. n \subseteq 1 .. Len(s)
    BY <1>1
  <2> QED BY <2>1, CandidateStays
<1> HIDE DEF u
<1>3. \A i : Total(p, u, i) = 0 => ~Complete(p, u, i)
  BY DEF Complete
<1>4. \A i : Total(p, s, i) = 0 => ~Complete(p, s, i)
  BY DEF Complete
<1>5. ASSUME NEW j \in 1 .. n, Free(p, s)[j]
      PROVE  /\ Complete(p, s, j) <=> Complete(p, u, j)
             /\ Takes(p, s, j) <=> Takes(p, u, j)
             /\ Complete(p, s, j) => Total(p, s, j) = Total(p, u, j)
             /\ Complete(p, s, j) => Candidate(p, u, j) = Candidate(p, s, j)
             /\ Takes(p, s, j) => Complete(p, s, j)
             /\ Total(p, s, j) = 0 <=> Total(p, u, j) = 0
  <2>1. CASE Total(p, s, j) = 0
    <3>1. Total(p, u, j) = 0
      BY <2>1, <1>2
    <3> QED BY <2>1, <3>1, <1>3, <1>4 DEF Takes
  <2>2. CASE Total(p, s, j) # 0
    <3>1. Complete(p, s, j)
      BY <2>2, <1>5 DEF Settled
    <3>2. /\ Total(p, u, j) = Total(p, s, j) /\ Complete(p, u, j)
          /\ Candidate(p, u, j) = Candidate(p, s, j)
      BY <3>1, <1>2
    <3> QED BY <3>1, <3>2 DEF Takes
  <2> QED BY <2>1, <2>2
<1>6. \A i \in 1 .. n : Free(p, u)[i] = Free(p, s)[i]
  BY <1>1, <1>5, FreeIsLocal
<1>7. Settled(p, u, n)
  BY <1>5, <1>6 DEF Settled
<1>8. GoodOf(p, u, n) = GoodOf(p, s, n)
  BY <1>5, <1>6 DEF GoodOf, Good
<1>9. BadOf(p, u, n) = BadOf(p, s, n)
  BY <1>5, <1>6 DEF BadOf, Bad
<1> QED BY <1>7, <1>8, <1>9 DEF u

\* The first n places are decided and the next one is open, or there is none.
OpenAt(p, s, n) ==
  n = Len(s) \/ (n < Len(s) /\ Total(p, s, n + 1) # 0 /\ ~Complete(p, s, n + 1))

\* What is left of a stream behind the first n places.
Rest(s, n) == SubSeq(s, n + 1, Len(s))

\* Then the reference says what was decided.
LEMMA ReferenceIsSettled ==
  ASSUME NEW p \in Protocols, NEW s \in Streams(p), NEW n \in 0 .. Len(s),
         Settled(p, s, n), OpenAt(p, s, n)
  PROVE  /\ Reference(p, s).starts = GoodOf(p, s, n)
         /\ Reference(p, s).errors = Errors(p, BadOf(p, s, n))
         /\ Reference(p, s).buf = Rest(s, n)
<1> DEFINE openSet == {Len(s) + 1} \cup
             {i \in 1 .. Len(s) : Total(p, s, i) # 0 /\ ~Complete(p, s, i) /\ Free(p, s)[i]}
<1>1. Len(s) \in Nat /\ n \in Nat /\ n <= Len(s)
  BY StreamType
<1>2. n + 1 \in openSet
  <2>1. CASE n = Len(s)
    BY <2>1
  <2>2. CASE n # Len(s)
    <3>1. n < Len(s) /\ Total(p, s, n + 1) # 0 /\ ~Complete(p, s, n + 1) /\ n + 1 \in 1 .. Len(s)
      BY <2>2, <1>1 DEF OpenAt
    <3>2. Free(p, s)[n + 1]
      BY <3>1, <1>1, FreeFront
    <3> QED BY <3>1, <3>2
  <2> QED BY <2>1, <2>2
<1>3. \A i \in openSet : n + 1 <= i
  <2> SUFFICES ASSUME NEW i \in openSet, i <= n PROVE FALSE
    BY <1>1
  <2>1. i \in 1 .. n /\ Total(p, s, i) # 0 /\ ~Complete(p, s, i) /\ Free(p, s)[i]
    BY <1>1
  <2> QED BY <2>1 DEF Settled
<1>4. openSet \in SUBSET Nat
  BY <1>1
<1>5. Open(p, s, Free(p, s)) = Min(openSet)
  BY DEF Open, Places
<1> HIDE DEF openSet
<1>6. Min(openSet) \in openSet /\ Min(openSet) <= n + 1 /\ Min(openSet) \in Nat
  BY <1>2, <1>4, MinIsLeast
<1>7. Open(p, s, Free(p, s)) = n + 1
  BY <1>1, <1>3, <1>5, <1>6
<1>8. n + 1 - 1 = n
  OBVIOUS
<1> QED BY <1>7, <1>8 DEF Reference, GoodOf, BadOf, Rest

-----------------------------------------------------------------------------
(* What a parser and the reference have in common while the parser is at   *)
(* work: it has decided the first n places as the reference does and holds *)
(* the rest.                                                               *)

States == {"WAIT_STX", "WAIT_LEN", "WAIT_HEADER", "WAIT_PAYLOAD", "WAIT_CRC", "WAIT_SIGNATURE"}

\* The values a parser's state can have.
ParserStates(p) ==
  [buf : Seq(Bytes[p]), state : States, starts : SUBSET Nat, errors : Nat, counted : BOOLEAN,
   lost : [0 .. LqWindow - 1 -> BOOLEAN], lqIndex : 0 .. LqWindow - 1,
   lqFilled : 0 .. LqWindow, lq : 0 .. 100]

\* The parser is where the reference is after the first n places.
At(p, s, n, st) ==
  /\ n \in 0 .. Len(s)
  /\ st.buf = Rest(s, n)
  /\ Settled(p, s, n)
  /\ st.starts = GoodOf(p, s, n)
  /\ st.errors = Errors(p, BadOf(p, s, n))

\* The bytes of the rest, and the rest of the rest.
LEMMA RestIs ==
  ASSUME NEW p \in Protocols, NEW s \in Streams(p), NEW n \in 0 .. Len(s)
  PROVE  /\ Rest(s, n) \in Seq(Bytes[p]) /\ Len(Rest(s, n)) = Len(s) - n
         /\ \A k \in 1 .. Len(s) - n : Rest(s, n)[k] = s[n + k]
         /\ \A k \in 0 .. Len(s) - n : SubSeq(Rest(s, n), k + 1, Len(s) - n) = Rest(s, n + k)
         /\ Rest(s, n) = <<>> <=> n = Len(s)
<1> DEFINE S == Bytes[p]
           rest == Rest(s, n)
<1>1. s \in Seq(S) /\ Len(s) \in Nat /\ n \in Nat /\ n <= Len(s)
  BY StreamType
<1>2. rest = SubSeq(s, n + 1, Len(s))
  BY DEF Rest
<1> HIDE DEF S, rest
<1>3. /\ rest \in Seq(S) /\ Len(rest) = Len(s) - n
      /\ \A k \in 1 .. Len(s) - n : rest[k] = s[n + k]
  <2>1. n + 1 \in Nat \ {0} /\ n + 1 <= Len(s) + 1
    BY <1>1
  <2> QED BY <1>1, <1>2, <2>1, PartType
<1>4. ASSUME NEW k \in 0 .. Len(s) - n
      PROVE  SubSeq(rest, k + 1, Len(s) - n) = Rest(s, n + k)
  <2>1. /\ k + 1 \in Nat \ {0} /\ Len(s) - n \in Nat /\ k + 1 <= Len(s) - n + 1
        /\ n + (Len(s) - n) = Len(s) /\ n + (k + 1) = n + k + 1 /\ n + (Len(s) - n) <= Len(s)
        /\ Len(s) \in n .. Len(s)
    BY <1>1
  <2>2. SubSeq(SubSeq(s, n + 1, Len(s)), k + 1, Len(s) - n) = SubSeq(s, n + (k + 1), n + (Len(s) - n))
    BY <1>1, <2>1, PartOfPart
  <2> QED BY <1>2, <2>1, <2>2 DEF Rest
<1>5. rest = <<>> <=> Len(rest) = 0
  BY <1>3, EmptySeq
<1>6. Len(rest) = 0 <=> n = Len(s)
  BY <1>1, <1>3
<1> QED BY <1>3, <1>4, <1>5, <1>6 DEF S, rest

\* Places are finitely many; a new one is one more.
LEMMA BadType ==
  ASSUME NEW p, NEW s, NEW n \in Nat
  PROVE  /\ BadOf(p, s, n) \subseteq 1 .. n /\ GoodOf(p, s, n) \subseteq 1 .. n
         /\ IsFiniteSet(BadOf(p, s, n)) /\ IsFiniteSet(GoodOf(p, s, n))
         /\ Cardinality(BadOf(p, s, n)) \in Nat
<1>1. BadOf(p, s, n) \subseteq 1 .. n /\ GoodOf(p, s, n) \subseteq 1 .. n
  BY DEF BadOf, Bad, GoodOf, Good
<1>2. IsFiniteSet(1 .. n)
  BY FS_Interval
<1>3. IsFiniteSet(BadOf(p, s, n)) /\ IsFiniteSet(GoodOf(p, s, n))
  BY <1>1, <1>2, FS_Subset
<1> QED BY <1>1, <1>3, FS_CardinalityType

\* For CRSF and MAVLink every bad candidate is an error.
LEMMA OneError ==
  ASSUME NEW p \in {"CRSF", "MAVLINK"}, NEW s, NEW n \in Nat
  PROVE  /\ Errors(p, BadOf(p, s, n)) \in Nat
         /\ Errors(p, BadOf(p, s, n) \cup {n + 1}) = Errors(p, BadOf(p, s, n)) + 1
<1>1. n + 1 \notin 1 .. n
  OBVIOUS
<1>2. /\ BadOf(p, s, n) \subseteq 1 .. n /\ IsFiniteSet(BadOf(p, s, n))
      /\ Cardinality(BadOf(p, s, n)) \in Nat
  BY BadType
<1>3. Cardinality(BadOf(p, s, n) \cup {n + 1}) = Cardinality(BadOf(p, s, n)) + 1
  BY <1>1, <1>2, FS_AddElement
<1> QED BY <1>2, <1>3 DEF Errors

\* A parser goes on from n to m with the reference: it passes over places, or
\* it takes a candidate.
Skips(p, s, n, m, st, next) ==
  /\ m \in n + 1 .. Len(s)
  /\ Total(p, s, n + 1) = 0 \/ (Complete(p, s, n + 1) /\ ~Takes(p, s, n + 1))
  /\ \A i \in n + 2 .. m : Total(p, s, i) = 0
  /\ next.buf = Rest(s, m) /\ next.starts = st.starts
  /\ next.errors = IF Total(p, s, n + 1) = 0 THEN st.errors
                   ELSE Errors(p, BadOf(p, s, n) \cup {n + 1})

Accepts(p, s, n, m, st, next) ==
  /\ n < Len(s) /\ Takes(p, s, n + 1) /\ m = n + Total(p, s, n + 1)
  /\ next.buf = Rest(s, m)
  /\ next.starts = IF Passes(p, Candidate(p, s, n + 1)) THEN st.starts \cup {n + 1}
                   ELSE st.starts
  /\ next.errors = IF \/ Passes(p, Candidate(p, s, n + 1))
                      \/ p = "MAVLINK" /\ IsSigned(Candidate(p, s, n + 1))
                   THEN st.errors ELSE Errors(p, BadOf(p, s, n) \cup {n + 1})

\* A parser that passes over places stays with the reference.
LEMMA AtSkip ==
  ASSUME NEW p \in Protocols, NEW s \in Streams(p), NEW st, NEW n \in 0 .. Len(s),
         At(p, s, n, st), NEW m, NEW next, Skips(p, s, n, m, st, next)
  PROVE  /\ At(p, s, m, next)
         /\ BadOf(p, s, m) = IF Total(p, s, n + 1) = 0 THEN BadOf(p, s, n)
                             ELSE BadOf(p, s, n) \cup {n + 1}
<1>0. /\ m \in n + 1 .. Len(s)
      /\ Total(p, s, n + 1) = 0 \/ (Complete(p, s, n + 1) /\ ~Takes(p, s, n + 1))
      /\ \A i \in n + 2 .. m : Total(p, s, i) = 0
      /\ next.buf = Rest(s, m) /\ next.starts = st.starts
      /\ next.errors = IF Total(p, s, n + 1) = 0 THEN st.errors
                       ELSE Errors(p, BadOf(p, s, n) \cup {n + 1})
  BY DEF Skips
<1>1. Len(s) \in Nat
  BY StreamType
<1>2. n \in Nat /\ m \in Nat /\ n < m /\ m <= Len(s) /\ m \in 0 .. Len(s)
  BY <1>0, <1>1
<1>3. Settled(p, s, n) /\ st.starts = GoodOf(p, s, n) /\ st.errors = Errors(p, BadOf(p, s, n))
  BY DEF At
<1>4. /\ Settled(p, s, m) /\ GoodOf(p, s, m) = GoodOf(p, s, n)
      /\ BadOf(p, s, m) = IF Total(p, s, n + 1) = 0 THEN BadOf(p, s, n)
                          ELSE BadOf(p, s, n) \cup {n + 1}
  BY <1>0, <1>2, <1>3, SkipSettles
<1> QED BY <1>0, <1>2, <1>3, <1>4 DEF At

\* A parser that takes a candidate whole does too.
LEMMA AtTake ==
  ASSUME NEW p \in Protocols, NEW s \in Streams(p), NEW st, NEW n \in 0 .. Len(s),
         At(p, s, n, st), NEW m, NEW next, Accepts(p, s, n, m, st, next)
  PROVE  At(p, s, m, next) /\ m \in n + 1 .. Len(s) /\ BadOf(p, s, m) = BadWith(p, s, n)
<1>0. /\ n < Len(s) /\ Takes(p, s, n + 1) /\ m = n + Total(p, s, n + 1)
      /\ next.buf = Rest(s, m)
  BY DEF Accepts
<1>1. Len(s) \in Nat /\ n \in Nat /\ n + 1 \in 1 .. Len(s)
  BY <1>0, StreamType
<1>2. Total(p, s, n + 1) \in Nat
  BY <1>1, TotalType
<1>3. m \in Nat
  BY <1>0, <1>1, <1>2
<1>4. Settled(p, s, n) /\ st.starts = GoodOf(p, s, n) /\ st.errors = Errors(p, BadOf(p, s, n))
  BY DEF At
<1>5. /\ m <= Len(s) /\ n < m
      /\ Settled(p, s, m)
      /\ GoodOf(p, s, m) = GoodWith(p, s, n)
      /\ BadOf(p, s, m) = BadWith(p, s, n)
  BY <1>0, <1>1, <1>3, <1>4, TakeSettles
<1>6. m \in 0 .. Len(s) /\ m \in n + 1 .. Len(s)
  BY <1>1, <1>3, <1>5
<1>7. next.starts = GoodOf(p, s, m)
  BY <1>4, <1>5 DEF GoodWith, Accepts
<1>8. next.errors = Errors(p, BadOf(p, s, m))
  BY <1>4, <1>5 DEF BadWith, Accepts
<1> QED BY <1>0, <1>5, <1>6, <1>7, <1>8 DEF At

-----------------------------------------------------------------------------
(* CRSF: the front of the buffer and the loop of drainBuffer.              *)

\* What the front of the buffer tells is what the reference says of the place
\* it is from.
LEMMA CrsfFront ==
  ASSUME NEW p \in {"CRSF"}, NEW s \in Streams(p), NEW n \in 0 .. Len(s), n < Len(s)
  PROVE  /\ CrsfImplausible(Rest(s, n)) => Total(p, s, n + 1) = 0
         /\ ~CrsfImplausible(Rest(s, n)) /\ CrsfIncomplete(Rest(s, n)) => OpenAt(p, s, n)
         /\ ~CrsfImplausible(Rest(s, n)) /\ ~CrsfIncomplete(Rest(s, n)) =>
              /\ Total(p, s, n + 1) = CrsfTotal(Rest(s, n))
              /\ CrsfTotal(Rest(s, n)) \in 1 .. Len(Rest(s, n))
              /\ Complete(p, s, n + 1)
              /\ CrsfChecks(Rest(s, n)) <=> Passes(p, Candidate(p, s, n + 1))
<1> DEFINE buf == Rest(s, n)
           T == CrsfTotal(buf)
<1>1. p \in Protocols
  BY DEF Protocols
<1>2. /\ s \in Seq(Bytes[p]) /\ Len(s) \in Nat /\ n \in Nat /\ Len(s) <= StreamLimit[p]
      /\ StreamLimit[p] \in Nat
      /\ \A k \in 1 .. Len(s) : s[k] \in 0 .. 255
  BY <1>1, StreamType
<1>3. /\ Len(buf) = Len(s) - n /\ \A k \in 1 .. Len(s) - n : buf[k] = s[n + k]
  BY <1>1, RestIs
<1> HIDE DEF buf
<1>4. n + 1 \in 1 .. Len(s) /\ buf[1] = s[n + 1]
  BY <1>2, <1>3
<1>5. n + 1 + 1 <= Len(s) <=> Len(buf) >= 2
  BY <1>2, <1>3
<1>6. Len(buf) >= 2 => buf[2] = s[n + 1 + 1] /\ buf[2] \in Nat
  <2> SUFFICES ASSUME Len(buf) >= 2 PROVE buf[2] = s[n + 1 + 1] /\ buf[2] \in Nat
    OBVIOUS
  <2>1. 2 \in 1 .. Len(s) - n /\ n + 2 = n + 1 + 1 /\ n + 2 \in 1 .. Len(s)
    BY <1>2, <1>3
  <2>2. buf[2] = s[n + 2] /\ s[n + 2] \in 0 .. 255
    BY <2>1, <1>2, <1>3, Zenon
  <2>3. \A x \in 0 .. 255 : x \in Nat
    OBVIOUS
  <2> QED BY <2>1, <2>2, <2>3, Zenon
<1>7. Total(p, s, n + 1) = IF buf[1] \notin CrsfSync THEN 0
                           ELSE IF Len(buf) < 2 THEN Unknown(p)
                           ELSE IF buf[2] \in 2 .. CrsfMaxLength THEN T ELSE 0
  <2>1. Total(p, s, n + 1) = CrsfTotalAt(s, n + 1)
    BY DEF Total
  <2>2. n + 1 + 1 > Len(s) <=> Len(buf) < 2
    BY <1>2, <1>3
  <2> QED BY <1>4, <1>6, <2>1, <2>2, <1>2, <1>3 DEF CrsfTotalAt, CrsfTotal
<1>8. CrsfImplausible(buf) => Total(p, s, n + 1) = 0
  <2> SUFFICES ASSUME CrsfImplausible(buf) PROVE Total(p, s, n + 1) = 0
    OBVIOUS
  <2>1. buf[1] \notin CrsfSync \/ (Len(buf) >= 2 /\ buf[2] \notin 2 .. CrsfMaxLength)
    BY DEF CrsfImplausible
  <2>2. Len(buf) >= 2 => ~(Len(buf) < 2)
    BY <1>2, <1>3
  <2> QED BY <1>7, <2>1, <2>2, Zenon
<1>9. ~CrsfImplausible(buf) /\ CrsfIncomplete(buf) => OpenAt(p, s, n)
  <2> SUFFICES ASSUME ~CrsfImplausible(buf), CrsfIncomplete(buf) PROVE OpenAt(p, s, n)
    OBVIOUS
  <2>1. buf[1] \in CrsfSync /\ (Len(buf) >= 2 => buf[2] \in 2 .. CrsfMaxLength)
    BY DEF CrsfImplausible
  <2>2. CASE Len(buf) < 2
    <3>1. Total(p, s, n + 1) = Unknown(p)
      BY <1>7, <2>1, <2>2
    <3> QED BY <1>2, <3>1 DEF OpenAt, Complete, Unknown
  <2>3. CASE ~(Len(buf) < 2)
    <3>1. Len(buf) >= 2 /\ Len(buf) < T
      BY <1>2, <1>3, <2>3 DEF CrsfIncomplete
    <3>2. Total(p, s, n + 1) = T
      BY <1>7, <2>1, <2>3, <3>1
    <3>3. T \in Nat /\ T # 0
      BY <1>6, <3>1 DEF CrsfTotal
    <3> HIDE DEF T
    <3> QED BY <1>2, <1>3, <3>1, <3>2, <3>3 DEF OpenAt, Complete
  <2> QED BY <2>2, <2>3
<1>10. ASSUME ~CrsfImplausible(buf), ~CrsfIncomplete(buf)
       PROVE  /\ Total(p, s, n + 1) = T
              /\ T \in 1 .. Len(buf)
              /\ Complete(p, s, n + 1)
              /\ CrsfChecks(buf) <=> Passes(p, Candidate(p, s, n + 1))
  <2>1. buf[1] \in CrsfSync /\ (Len(buf) >= 2 => buf[2] \in 2 .. CrsfMaxLength)
    BY <1>10 DEF CrsfImplausible
  <2>2. ~(Len(buf) < 2) /\ ~(Len(buf) < T)
    BY <1>10 DEF CrsfIncomplete
  <2>3. Len(buf) >= 2
    BY <1>2, <1>3, <2>2
  <2>4. buf[2] \in 2 .. CrsfMaxLength
    BY <2>1, <2>3
  <2>5. Total(p, s, n + 1) = T
    BY <1>7, <2>1, <2>2, <2>4, Zenon
  <2>6. T \in Nat /\ T >= 4
    <3>1. T = 2 + buf[2]
      BY DEF CrsfTotal
    <3> HIDE DEF T
    <3>2. \A x \in 2 .. CrsfMaxLength : 2 + x \in Nat /\ 2 + x >= 4
      BY SizesType
    <3> QED BY <2>4, <3>1, <3>2, Zenon
  <2>7. T <= Len(buf) /\ T \in 1 .. Len(buf) /\ n + T <= Len(s)
    <3> HIDE DEF T
    <3> QED BY <1>2, <1>3, <2>2, <2>6
  <2>8. Complete(p, s, n + 1)
    <3> HIDE DEF T
    <3> QED BY <1>2, <2>5, <2>6, <2>7 DEF Complete
  <2> DEFINE c == SubSeq(s, n + 1, n + T)
  <2>9. Candidate(p, s, n + 1) = c
    <3>1. n + 1 + T - 1 = n + T
      <4> HIDE DEF T
      <4> QED BY <1>2, <2>6
    <3> QED BY <2>5, <3>1 DEF Candidate, Part
  <2>10. c[2] = buf[2] /\ c[T] = buf[T]
    <3> HIDE DEF T
    <3> DEFINE i == n + 1
               e == n + T
    <3>1. /\ i \in Nat \ {0} /\ e \in Nat /\ i <= e + 1 /\ e - i + 1 = T
          /\ s \in Seq(Bytes[p]) /\ e <= Len(s)
      BY <1>2, <2>6, <2>7
    <3> HIDE DEF i, e
    <3>2. \A k \in 1 .. e - i + 1 : SubSeq(s, i, e)[k] = s[i + k - 1]
      BY <3>1, PartType
    <3>3. \A k \in 1 .. T : c[k] = s[n + k]
      <4>1. \A k \in 1 .. T : SubSeq(s, i, e)[k] = s[i + k - 1]
        BY <3>1, <3>2, Zenon
      <4>2. \A k \in 1 .. T : i + k - 1 = n + k
        BY <1>2, <2>6 DEF i
      <4> QED BY <4>1, <4>2, Zenon DEF i, e
    <3>4. 2 \in 1 .. T /\ T \in 1 .. T /\ 2 \in 1 .. Len(s) - n /\ T \in 1 .. Len(s) - n
      BY <1>2, <1>3, <2>6, <2>7
    <3> QED BY <1>3, <3>3, <3>4
  <2>11. CrsfTotal(c) = T
    <3>1. CrsfTotal(c) = 2 + c[2] /\ T = 2 + buf[2]
      BY DEF CrsfTotal
    <3> QED BY <2>10, <3>1
  <2>12. SubSeq(c, 3, T - 1) = SubSeq(buf, 3, T - 1)
    <3> HIDE DEF T
    <3> DEFINE e == n + T
               m == T - 1
    <3>1. /\ e \in n .. Len(s) /\ Len(s) \in n .. Len(s)
          /\ 3 \in Nat \ {0} /\ m \in Nat /\ 3 <= m + 1
          /\ n + m <= e /\ n + m <= Len(s)
          /\ s \in Seq(Bytes[p]) /\ n \in Nat
      BY <1>2, <2>6, <2>7
    <3> HIDE DEF e, m, c
    <3>2. SubSeq(SubSeq(s, n + 1, e), 3, m) = SubSeq(s, n + 3, n + m)
      BY <3>1, PartOfPart
    <3>3. SubSeq(SubSeq(s, n + 1, Len(s)), 3, m) = SubSeq(s, n + 3, n + m)
      BY <3>1, PartOfPart
    <3>4. buf = SubSeq(s, n + 1, Len(s))
      BY DEF buf, Rest
    <3> QED BY <3>2, <3>3, <3>4, Zenon DEF c, e, m
  <2> HIDE DEF c
  <2>13. CrsfChecks(c) <=> CrsfChecks(buf)
    <3>1. CrsfChecks(c) <=> c[T] = Checksum(SubSeq(c, 3, T - 1))
      BY <2>11 DEF CrsfChecks
    <3>2. CrsfChecks(buf) <=> buf[T] = Checksum(SubSeq(buf, 3, T - 1))
      BY DEF CrsfChecks
    <3> HIDE DEF T
    <3> QED BY <2>10, <2>12, <3>1, <3>2
  <2>14. Passes(p, c) <=> CrsfChecks(c)
    BY DEF Passes
  <2> QED BY <2>5, <2>7, <2>8, <2>9, <2>13, <2>14
<1> QED BY <1>8, <1>9, <1>10 DEF buf

\* What the steps of a parser change in its state.
LEMMA StateType ==
  ASSUME NEW p, NEW st \in ParserStates(p)
  PROVE  /\ \A i \in Nat : [st EXCEPT !.starts = @ \cup {i}] \in ParserStates(p)
         /\ \A i \in Nat : [st EXCEPT !.starts = @ \cup {i}] =
                             [st EXCEPT !.starts = st.starts \cup {i}]
         /\ [st EXCEPT !.errors = @ + 1] \in ParserStates(p)
         /\ \A b \in Seq(Bytes[p]) : [st EXCEPT !.buf = b] \in ParserStates(p)
<1>1. st.starts \in SUBSET Nat /\ st.errors \in Nat /\ st.errors + 1 \in Nat
  BY DEF ParserStates
<1>2. \A i \in Nat : st.starts \cup {i} \in SUBSET Nat
  BY <1>1
<1>3. \A i \in Nat : [st EXCEPT !.starts = @ \cup {i}] \in ParserStates(p)
  BY <1>2 DEF ParserStates
<1>4. [st EXCEPT !.errors = @ + 1] \in ParserStates(p)
  BY <1>1 DEF ParserStates
<1>5. \A b \in Seq(Bytes[p]) : [st EXCEPT !.buf = b] \in ParserStates(p)
  BY DEF ParserStates
<1> QED BY <1>3, <1>4, <1>5

\* The first k bytes of the buffer taken off.
LEMMA ShiftedType ==
  ASSUME NEW p \in Protocols, NEW s \in Streams(p), NEW st \in ParserStates(p),
         NEW n \in 0 .. Len(s), st.buf = Rest(s, n), NEW k \in 0 .. Len(s) - n
  PROVE  /\ Shifted(st, k) \in ParserStates(p)
         /\ Shifted(st, k) = [st EXCEPT !.buf = Rest(s, n + k)]
<1>1. Len(s) \in Nat /\ n + k \in 0 .. Len(s)
  BY StreamType
<1>2. /\ Len(Rest(s, n)) = Len(s) - n /\ SubSeq(Rest(s, n), k + 1, Len(s) - n) = Rest(s, n + k)
      /\ Rest(s, n + k) \in Seq(Bytes[p])
  BY <1>1, RestIs
<1>3. Shifted(st, k) = [st EXCEPT !.buf = Rest(s, n + k)]
  BY <1>2 DEF Shifted
<1> QED BY <1>2, <1>3, StateType

\* A turn of the loop decides one place or more, or the loop is over and the
\* front of the buffer is open.
LEMMA CrsfTurnDecides ==
  ASSUME NEW p \in {"CRSF"}, NEW s \in Streams(p), NEW st \in ParserStates(p),
         NEW n \in 0 .. Len(s), At(p, s, n, st)
  PROVE  /\ CrsfTurn(st, Len(s)) \in ParserStates(p)
         /\ \/ CrsfTurn(st, Len(s)) = st /\ OpenAt(p, s, n)
            \/ \E m \in n + 1 .. Len(s) : At(p, s, m, CrsfTurn(st, Len(s)))
<1> DEFINE buf == st.buf
           turn == CrsfTurn(st, Len(s))
           T == CrsfTotal(buf)
<1>0. p \in Protocols /\ p \in {"CRSF", "MAVLINK"} /\ p # "MAVLINK"
  BY DEF Protocols
<1>1. s \in Seq(Bytes[p]) /\ Len(s) \in Nat /\ n \in Nat
  BY <1>0, StreamType
<1>2. buf = Rest(s, n) /\ st.errors = Errors(p, BadOf(p, s, n))
  BY DEF At
<1>3. Len(buf) = Len(s) - n /\ (buf = <<>> <=> n = Len(s))
  BY <1>0, <1>2, RestIs
<1>4. CASE buf = <<>>
  <2>1. turn = st
    BY <1>4 DEF CrsfTurn
  <2> QED BY <1>3, <1>4, <2>1 DEF OpenAt
<1>5. CASE buf # <<>>
  <2>1. n < Len(s) /\ n + 1 \in n + 1 .. Len(s) /\ n + 1 \in Nat
    BY <1>1, <1>3, <1>5
  <2>2. /\ CrsfImplausible(buf) => Total(p, s, n + 1) = 0
        /\ ~CrsfImplausible(buf) /\ CrsfIncomplete(buf) => OpenAt(p, s, n)
        /\ ~CrsfImplausible(buf) /\ ~CrsfIncomplete(buf) =>
             /\ Total(p, s, n + 1) = T /\ T \in 1 .. Len(buf) /\ Complete(p, s, n + 1)
             /\ CrsfChecks(buf) <=> Passes(p, Candidate(p, s, n + 1))
    BY <1>2, <2>1, CrsfFront
  <2>3. ASSUME NEW k \in 0 .. Len(s) - n
        PROVE  /\ Shifted(st, k) \in ParserStates(p)
               /\ Shifted(st, k) = [st EXCEPT !.buf = Rest(s, n + k)]
    <3>1. st.buf = Rest(s, n)
      BY <1>2
    <3> QED BY <1>0, <3>1, ShiftedType
  <2>4. 1 \in 0 .. Len(s) - n
    BY <1>1, <2>1
  <2>5. /\ Shifted(st, 1) \in ParserStates(p)
        /\ Shifted(st, 1) = [st EXCEPT !.buf = Rest(s, n + 1)]
    BY <2>3, <2>4
  <2>6. \A i \in n + 2 .. n + 1 : Total(p, s, i) = 0
    BY <1>1
  <2>7. CASE CrsfImplausible(buf)
    <3>1. turn = Shifted(st, 1)
      BY <1>5, <2>7 DEF CrsfTurn
    <3>2. /\ turn.buf = Rest(s, n + 1) /\ turn.starts = st.starts
          /\ turn.errors = st.errors
      BY <2>5, <3>1 DEF ParserStates
    <3>3. At(p, s, n + 1, turn)
      <4> HIDE DEF turn
      <4>1. Skips(p, s, n, n + 1, st, turn)
        BY <2>1, <2>2, <2>6, <2>7, <3>2 DEF Skips
      <4> QED BY <1>0, <4>1, AtSkip
    <3> QED BY <2>1, <2>5, <3>1, <3>3
  <2>8. CASE ~CrsfImplausible(buf) /\ CrsfIncomplete(buf)
    <3>1. turn = st
      BY <1>5, <2>8 DEF CrsfTurn
    <3> QED BY <2>2, <2>8, <3>1
  <2>9. CASE ~CrsfImplausible(buf) /\ ~CrsfIncomplete(buf)
    <3>1. turn = IF CrsfChecks(buf)
                 THEN [Shifted(st, T) EXCEPT !.starts = @ \cup {FrontOf(st, Len(s))}]
                 ELSE [Shifted(st, 1) EXCEPT !.errors = @ + 1]
      BY <1>5, <2>9, Zenon DEF CrsfTurn
    <3> HIDE DEF T
    <3>2. /\ Total(p, s, n + 1) = T /\ T \in 1 .. Len(buf) /\ Complete(p, s, n + 1)
          /\ CrsfChecks(buf) <=> Passes(p, Candidate(p, s, n + 1))
      BY <2>2, <2>9
    <3>3. CASE CrsfChecks(buf)
      <4>1. Takes(p, s, n + 1) /\ Passes(p, Candidate(p, s, n + 1))
        BY <3>2, <3>3 DEF Takes
      <4>2. FrontOf(st, Len(s)) = n + 1
        BY <1>1, <1>3 DEF FrontOf
      <4>3. T \in 0 .. Len(s) - n
        BY <1>1, <1>3, <3>2
      <4>4. /\ Shifted(st, T) \in ParserStates(p)
            /\ Shifted(st, T) = [st EXCEPT !.buf = Rest(s, n + T)]
        BY <2>3, <4>3
      <4>5. turn = [Shifted(st, T) EXCEPT !.starts = @ \cup {n + 1}]
        BY <3>1, <3>3, <4>2
      <4>6. turn \in ParserStates(p)
        <5> DEFINE shifted == Shifted(st, T)
                   i == n + 1
        <5>1. shifted \in ParserStates(p) /\ turn = [shifted EXCEPT !.starts = @ \cup {i}] /\ i \in Nat
          BY <2>1, <4>4, <4>5
        <5> HIDE DEF shifted, turn, i
        <5> QED BY <5>1, StateType
      <4>7. /\ turn.buf = Rest(s, n + T) /\ turn.starts = st.starts \cup {n + 1}
            /\ turn.errors = st.errors
        BY <4>4, <4>5 DEF ParserStates
      <4> DEFINE m == n + T
      <4>8. m = n + Total(p, s, n + 1)
        BY <3>2
      <4> HIDE DEF turn
      <4>9. turn.buf = Rest(s, m)
        BY <4>7
      <4> HIDE DEF m
      <4>10. At(p, s, m, turn) /\ m \in n + 1 .. Len(s)
        <5>1. Accepts(p, s, n, m, st, turn)
          BY <1>0, <2>1, <4>1, <4>7, <4>8, <4>9 DEF Accepts
        <5> QED BY <1>0, <5>1, AtTake
      <4> QED BY <4>6, <4>10 DEF turn
    <3>4. CASE ~CrsfChecks(buf)
      <4>1. ~Takes(p, s, n + 1) /\ Total(p, s, n + 1) # 0
        <5>1. Total(p, s, n + 1) # 0
          BY <1>1, <1>3, <3>2
        <5> QED BY <1>0, <3>2, <3>4, <5>1 DEF Takes
      <4>2. turn = [Shifted(st, 1) EXCEPT !.errors = @ + 1]
        BY <3>1, <3>4
      <4>3. turn \in ParserStates(p)
        <5> DEFINE shifted == Shifted(st, 1)
        <5>1. shifted \in ParserStates(p) /\ turn = [shifted EXCEPT !.errors = @ + 1]
          BY <2>5, <4>2
        <5> HIDE DEF shifted, turn
        <5> QED BY <5>1, StateType
      <4>4. /\ turn.buf = Rest(s, n + 1) /\ turn.starts = st.starts
            /\ turn.errors = st.errors + 1
        BY <2>5, <4>2 DEF ParserStates
      <4>5. turn.errors = Errors(p, BadOf(p, s, n) \cup {n + 1})
        BY <1>0, <1>1, <1>2, <4>4, OneError
      <4>6. At(p, s, n + 1, turn)
        <5> HIDE DEF turn
        <5>1. Skips(p, s, n, n + 1, st, turn)
          BY <2>1, <2>6, <3>2, <4>1, <4>4, <4>5 DEF Skips
        <5> QED BY <1>0, <5>1, AtSkip
      <4> QED BY <2>1, <4>3, <4>6
    <3> QED BY <3>3, <3>4
  <2> QED BY <2>7, <2>8, <2>9
<1> QED BY <1>4, <1>5

\* f[k] is the state after k turns of the loop, and CrsfDrain the last of them.
IsDrain(f, st, read, n) ==
  /\ f[0] = st
  /\ \A k \in 1 .. n : f[k] = CrsfTurn(f[k - 1], read)
  /\ CrsfDrain(st, read) = f[n]

\* The recursion in CrsfDrain has a solution.
LEMMA CrsfAfter ==
  ASSUME NEW st, NEW read, Len(st.buf) \in Nat
  PROVE  \E f : IsDrain(f, st, read, Len(st.buf))
<1> DEFINE n == Len(st.buf)
           Turn(t) == CrsfTurn(t, read)
           Solves(f, m) == f = [k \in 0 .. m |-> IF k = 0 THEN st ELSE Turn(f[k - 1])]
           Unsolved == {m \in 0 .. n : ~ \E f : Solves(f, m)}
<1> HIDE DEF Turn
<1>1. Unsolved = {}
  <2> SUFFICES ASSUME Unsolved # {} PROVE FALSE
    OBVIOUS
  <2>1. PICK m \in Unsolved : \A k \in Unsolved : m <= k
    <3>1. Unsolved \in SUBSET Nat
      OBVIOUS
    <3> HIDE DEF Unsolved
    <3> QED BY <3>1, LeastNumber
  <2>2. m # 0
    <3>1. Solves([k \in 0 .. 0 |-> st], 0)
      OBVIOUS
    <3> QED BY <3>1
  <2>3. m \in 1 .. n /\ m - 1 \in 0 .. n
    BY <2>1, <2>2
  <2>4. m - 1 \notin Unsolved
    <3> HIDE DEF Unsolved
    <3> QED BY <2>1, <2>3
  <2>5. PICK f : Solves(f, m - 1)
    BY <2>3, <2>4
  <2> DEFINE g == [k \in 0 .. m |-> IF k = m THEN Turn(f[m - 1]) ELSE f[k]]
  <2>6. ASSUME NEW k \in 0 .. m PROVE g[k] = IF k = 0 THEN st ELSE Turn(g[k - 1])
    <3>1. k # 0 => k - 1 \in 0 .. m - 1 /\ k - 1 \in 0 .. m /\ k - 1 # m
      BY <2>3
    <3>2. k # 0 => g[k - 1] = f[k - 1]
      BY <3>1, Zenon
    <3>3. CASE k = m
      <4>1. g[k] = Turn(f[m - 1]) /\ k # 0
        BY <2>3, <3>3
      <4> HIDE DEF g
      <4> QED BY <3>2, <3>3, <4>1, Zenon
    <3>4. CASE k # m
      <4>1. k \in 0 .. m - 1 /\ g[k] = f[k]
        BY <2>3, <3>4
      <4>2. f[k] = IF k = 0 THEN st ELSE Turn(f[k - 1])
        BY <4>1, <2>5, Zenon
      <4> HIDE DEF g
      <4> QED BY <3>2, <4>1, <4>2, Zenon
    <3> QED BY <3>3, <3>4
  <2>7. Solves(g, m)
    <3>1. g = [k \in 0 .. m |-> g[k]]
      BY Zenon
    <3> HIDE DEF g
    <3> QED BY <2>6, <3>1, Zenon
  <2> QED BY <2>7, Zenon
<1>2. \E f : Solves(f, n)
  <2>1. n \in 0 .. n
    OBVIOUS
  <2> QED BY <1>1, <2>1
<1> DEFINE f == CHOOSE f : Solves(f, n)
<1>3. CrsfDrain(st, read) = f[n]
  BY DEF CrsfDrain, Turn
<1>4. Solves(f, n)
  BY <1>2, Zenon
<1> HIDE DEF f, n
<1>5. n \in Nat
  BY DEF n
<1>6. f[0] = st
  <2>1. 0 \in 0 .. n
    BY <1>5
  <2> QED BY <1>4, <2>1, Zenon
<1>7. ASSUME NEW k \in 1 .. n PROVE f[k] = Turn(f[k - 1])
  <2>1. k \in 0 .. n /\ k # 0
    BY <1>5
  <2> QED BY <1>4, <2>1, Zenon
<1> QED BY <1>3, <1>6, <1>7, Zenon DEF n, Turn, IsDrain

\* When the loop is over everything is decided that can be.
LEMMA CrsfDrains ==
  ASSUME NEW p \in {"CRSF"}, NEW s \in Streams(p), NEW st \in ParserStates(p),
         NEW n \in 0 .. Len(s), At(p, s, n, st)
  PROVE  /\ CrsfDrain(st, Len(s)) \in ParserStates(p)
         /\ \E m \in 0 .. Len(s) : At(p, s, m, CrsfDrain(st, Len(s))) /\ OpenAt(p, s, m)
<1> DEFINE last == Len(s) - n
<1>0. p \in Protocols
  BY DEF Protocols
<1>1. Len(s) \in Nat /\ n \in Nat /\ last \in Nat
  BY <1>0, StreamType
<1>2. Len(st.buf) = last
  BY <1>0, RestIs DEF At
<1>9. Len(st.buf) \in Nat
  BY <1>1, <1>2
<1>10. PICK f : IsDrain(f, st, Len(s), Len(st.buf))
  BY <1>9, CrsfAfter
<1>3. /\ f[0] = st
      /\ \A k \in 1 .. last : f[k] = CrsfTurn(f[k - 1], Len(s))
      /\ CrsfDrain(st, Len(s)) = f[last]
  <2> HIDE DEF last
  <2> QED BY <1>2, <1>10 DEF IsDrain
<1> DEFINE Fine(k) == /\ f[k] \in ParserStates(p)
                      /\ \E m \in 0 .. Len(s) :
                           /\ At(p, s, m, f[k])
                           /\ \/ m >= n + k
                              \/ OpenAt(p, s, m) /\ CrsfTurn(f[k], Len(s)) = f[k]
           Unfine == {k \in 0 .. last : ~Fine(k)}
<1>4. Unfine = {}
  <2> SUFFICES ASSUME Unfine # {} PROVE FALSE
    OBVIOUS
  <2>1. PICK k \in Unfine : \A j \in Unfine : k <= j
    <3>1. Unfine \in SUBSET Nat
      OBVIOUS
    <3> HIDE DEF Unfine
    <3> QED BY <3>1, LeastNumber
  <2>2. k # 0
    <3>1. n >= n + 0
      BY <1>1
    <3>2. Fine(0)
      BY <1>3, <3>1
    <3> QED BY <3>2
  <2>3. k \in 1 .. last /\ k - 1 \in 0 .. last /\ k - 1 < k
    BY <1>1, <2>1, <2>2
  <2>4. k - 1 \notin Unfine
    <3> HIDE DEF Unfine
    <3> QED BY <2>1, <2>3
  <2>5. Fine(k - 1)
    BY <2>3, <2>4
  <2>6. f[k] = CrsfTurn(f[k - 1], Len(s))
    BY <1>3, <2>3
  <2>7. PICK m \in 0 .. Len(s) :
          /\ At(p, s, m, f[k - 1])
          /\ \/ m >= n + (k - 1)
             \/ OpenAt(p, s, m) /\ CrsfTurn(f[k - 1], Len(s)) = f[k - 1]
    BY <2>5
  <2>8. /\ f[k] \in ParserStates(p)
        /\ \/ f[k] = f[k - 1] /\ OpenAt(p, s, m)
           \/ \E i \in m + 1 .. Len(s) : At(p, s, i, f[k])
    BY <2>5, <2>6, <2>7, CrsfTurnDecides
  <2>9. CASE f[k] = f[k - 1] /\ OpenAt(p, s, m)
    BY <2>6, <2>7, <2>8, <2>9
  <2>10. CASE f[k] # f[k - 1] \/ ~OpenAt(p, s, m)
    <3>1. PICK i \in m + 1 .. Len(s) : At(p, s, i, f[k])
      BY <2>8, <2>10
    <3>2. m >= n + (k - 1)
      BY <2>6, <2>7, <2>10
    <3>3. i \in 0 .. Len(s) /\ i >= n + k
      BY <1>1, <2>3, <3>1, <3>2
    <3>4. Fine(k)
      BY <2>8, <3>1, <3>3
    <3> QED BY <3>4
  <2> QED BY <2>9, <2>10
<1>5. Fine(last)
  BY <1>1, <1>4
<1>6. PICK m \in 0 .. Len(s) : At(p, s, m, f[last]) /\ (m >= n + last \/ OpenAt(p, s, m))
  BY <1>5
<1>7. m >= n + last => OpenAt(p, s, m)
  BY <1>1 DEF OpenAt
<1> QED BY <1>3, <1>5, <1>6, <1>7

\* A byte is appended to the buffer.
LEMMA AtGrows ==
  ASSUME NEW p \in Protocols, NEW s \in Streams(p), NEW b \in Bytes[p], Len(s) < StreamLimit[p],
         NEW st \in ParserStates(p), NEW n \in 0 .. Len(s), At(p, s, n, st)
  PROVE  /\ n \in 0 .. Len(Append(s, b))
         /\ Append(st.buf, b) = Rest(Append(s, b), n)
         /\ [st EXCEPT !.buf = Append(st.buf, b)] \in ParserStates(p)
         /\ At(p, Append(s, b), n, [st EXCEPT !.buf = Append(st.buf, b)])
<1> DEFINE u == Append(s, b)
           more == [st EXCEPT !.buf = Append(st.buf, b)]
<1>1. s \in Seq(Bytes[p]) /\ Len(s) \in Nat /\ u \in Streams(p) /\ Len(u) = Len(s) + 1
  BY StreamType, GrowsType
<1>2. n \in 0 .. Len(u)
  BY <1>1
<1>3. Append(st.buf, b) = Rest(u, n)
  <2>1. Append(SubSeq(s, n + 1, Len(s)), b) = SubSeq(u, n + 1, Len(s) + 1)
    BY <1>1, PartGrows
  <2> HIDE DEF u
  <2> QED BY <1>1, <2>1 DEF At, Rest
<1>4. Append(st.buf, b) \in Seq(Bytes[p])
  <2>1. Rest(u, n) \in Seq(Bytes[p])
    <3> HIDE DEF u
    <3> QED BY <1>1, <1>2, RestIs
  <2> QED BY <1>3, <2>1
<1>5. more \in ParserStates(p)
  BY <1>4, StateType
<1>6. more.buf = Rest(u, n) /\ more.starts = st.starts /\ more.errors = st.errors
  BY <1>3 DEF ParserStates
<1>7. Settled(p, u, n) /\ GoodOf(p, u, n) = GoodOf(p, s, n) /\ BadOf(p, u, n) = BadOf(p, s, n)
  <2>1. Settled(p, s, n)
    BY DEF At
  <2> QED BY <2>1, SettledStays
<1>8. At(p, u, n, more)
  <2>1. st.starts = GoodOf(p, s, n) /\ st.errors = Errors(p, BadOf(p, s, n))
    BY DEF At
  <2> HIDE DEF u, more
  <2> QED BY <1>2, <1>6, <1>7, <2>1 DEF At
<1> QED BY <1>2, <1>3, <1>5, <1>8

\* An open front is shorter than the longest frame.
LEMMA CrsfFits ==
  ASSUME NEW p \in {"CRSF"}, NEW s \in Streams(p), NEW n \in 0 .. Len(s), OpenAt(p, s, n)
  PROVE  Len(Rest(s, n)) < CrsfCapacity
<1>0. p \in Protocols
  BY DEF Protocols
<1>1. /\ Len(s) \in Nat /\ n \in Nat /\ n <= Len(s)
      /\ Len(Rest(s, n)) = Len(s) - n
  BY <1>0, StreamType, RestIs
<1>2. CASE n = Len(s)
  BY <1>1, <1>2, SizesType DEF CrsfCapacity
<1>3. CASE n # Len(s)
  <2>1. n < Len(s) /\ Total(p, s, n + 1) # 0 /\ ~Complete(p, s, n + 1) /\ n + 1 \in 1 .. Len(s)
    BY <1>1, <1>3 DEF OpenAt
  <2>2. Total(p, s, n + 1) = CrsfTotalAt(s, n + 1)
    BY DEF Total
  <2>3. CASE n + 1 + 1 > Len(s)
    BY <1>1, <2>3, SizesType DEF CrsfCapacity
  <2>4. CASE ~(n + 1 + 1 > Len(s))
    <3>1. Total(p, s, n + 1) = 2 + s[n + 1 + 1] /\ s[n + 1 + 1] \in 2 .. CrsfMaxLength
      BY <2>1, <2>2, <2>4 DEF CrsfTotalAt
    <3>2. ~(n + 1 + Total(p, s, n + 1) - 1 <= Len(s))
      BY <2>1 DEF Complete
    <3> DEFINE t == s[n + 1 + 1]
    <3>3. t \in 2 .. CrsfMaxLength /\ ~(n + 1 + (2 + t) - 1 <= Len(s))
      BY <3>1, <3>2
    <3> HIDE DEF t
    <3> QED BY <1>1, <3>3, SizesType DEF CrsfCapacity
  <2> QED BY <2>3, <2>4
<1> QED BY <1>2, <1>3

\* CrsfParser::push decides what the new byte allows to decide.
LEMMA CrsfPushDecides ==
  ASSUME NEW p \in {"CRSF"}, NEW s \in Streams(p), NEW b \in Bytes[p], Len(s) < StreamLimit[p],
         NEW st \in ParserStates(p), NEW n \in 0 .. Len(s), At(p, s, n, st), OpenAt(p, s, n)
  PROVE  LET u == Append(s, b)
             next == CrsfPush(st, b, Len(u))
         IN  /\ next \in ParserStates(p)
             /\ \E m \in 0 .. Len(u) : At(p, u, m, next) /\ OpenAt(p, u, m)
<1> DEFINE u == Append(s, b)
           more == [st EXCEPT !.buf = Append(st.buf, b)]
<1>0. p \in Protocols
  BY DEF Protocols
<1>1. Len(st.buf) < CrsfCapacity
  BY CrsfFits DEF At
<1>2. CrsfPush(st, b, Len(u)) = CrsfDrain(more, Len(u))
  BY <1>1 DEF CrsfPush
<1>3. u \in Streams(p) /\ more \in ParserStates(p) /\ n \in 0 .. Len(u) /\ At(p, u, n, more)
  BY <1>0, GrowsType, AtGrows
<1> HIDE DEF u, more
<1> QED BY <1>2, <1>3, CrsfDrains DEF u

-----------------------------------------------------------------------------
(* SBUS: accepting a frame, or looking for the next header in a rejected   *)
(* one.                                                                    *)

\* The rejected candidates of a hunt are one error.
LEMMA HuntErrors ==
  ASSUME NEW p \in {"SBUS"}, NEW n \in Nat, NEW bad \in SUBSET (1 .. n)
  PROVE  /\ Errors(p, bad) \in Nat
         /\ Errors(p, bad \cup {n + 1}) = IF bad \cap (n + 2 - SbusSize .. n) = {}
                                          THEN Errors(p, bad) + 1 ELSE Errors(p, bad)
<1> DEFINE Before(i) == i - SbusSize + 1 .. i - 1
           W == n + 2 - SbusSize .. n
           Hunts(B) == {i \in B : B \cap Before(i) = {}}
           more == bad \cup {n + 1}
<1>1. Errors(p, bad) = Cardinality(Hunts(bad)) /\ Errors(p, more) = Cardinality(Hunts(more))
  BY DEF Errors
<1>2. \A i \in bad : i \in Nat /\ i <= n
  OBVIOUS
<1>3. \A i \in bad : n + 1 \notin Before(i)
  BY <1>2, SizesType
<1>4. Before(n + 1) = W /\ n + 1 \notin W /\ n + 1 \notin bad
  BY <1>2, SizesType
<1> HIDE DEF Before, W
<1>5. Hunts(bad) \subseteq bad /\ Hunts(more) \subseteq more
  OBVIOUS
<1>6. \A i \in bad : i \in Hunts(more) <=> i \in Hunts(bad)
  <2> SUFFICES ASSUME NEW i \in bad PROVE i \in Hunts(more) <=> i \in Hunts(bad)
    OBVIOUS
  <2>1. more \cap Before(i) = bad \cap Before(i)
    BY <1>3
  <2> QED BY <2>1
<1>7. n + 1 \in Hunts(more) <=> bad \cap W = {}
  <2>1. more \cap W = bad \cap W
    BY <1>4
  <2>2. n + 1 \in Hunts(more) <=> more \cap Before(n + 1) = {}
    BY Zenon
  <2> QED BY <1>4, <2>1, <2>2, Zenon
<1>8. IsFiniteSet(Hunts(bad)) /\ n + 1 \notin Hunts(bad) /\ Cardinality(Hunts(bad)) \in Nat
  <2> HIDE DEF Hunts
  <2>1. IsFiniteSet(1 .. n)
    BY FS_Interval
  <2>2. IsFiniteSet(Hunts(bad))
    BY <1>5, <2>1, FS_Subset
  <2> QED BY <1>4, <1>5, <2>2, FS_CardinalityType
<1> HIDE DEF Hunts
<1>9. CASE bad \cap W = {}
  <2>1. Hunts(more) = Hunts(bad) \cup {n + 1}
    BY <1>5, <1>6, <1>7, <1>9
  <2>2. Cardinality(Hunts(more)) = Cardinality(Hunts(bad)) + 1
    BY <1>8, <2>1, FS_AddElement
  <2> QED BY <1>1, <1>8, <1>9, <2>2 DEF W
<1>10. CASE bad \cap W # {}
  <2>1. Hunts(more) = Hunts(bad)
    BY <1>5, <1>6, <1>7, <1>10
  <2> QED BY <1>1, <1>8, <1>10, <2>1 DEF W
<1> QED BY <1>9, <1>10

\* The window of the last frames and the quality stay within their ranges.
LEMMA SbusQualityType ==
  ASSUME NEW p, NEW st \in ParserStates(p)
  PROVE  /\ SbusQuality(st) \in ParserStates(p)
         /\ SbusQuality(st).buf = st.buf /\ SbusQuality(st).starts = st.starts
         /\ SbusQuality(st).errors = st.errors
<1> DEFINE lost == [st.lost EXCEPT ![st.lqIndex] = st.buf[SbusSize - 1] \in SbusLost]
           filled == IF st.lqFilled < LqWindow THEN st.lqFilled + 1 ELSE LqWindow
           goneSet == {i \in 0 .. filled - 1 : lost[i]}
           gone == Cardinality(goneSet)
           share == (gone * 100) \div filled
           lqIndex == (st.lqIndex + 1) % LqWindow
<1>1. /\ st.lost \in [0 .. LqWindow - 1 -> BOOLEAN] /\ st.lqIndex \in 0 .. LqWindow - 1
      /\ st.lqFilled \in 0 .. LqWindow
  BY DEF ParserStates
<1>2. lost \in [0 .. LqWindow - 1 -> BOOLEAN]
  BY <1>1
<1>3. filled \in 1 .. LqWindow /\ filled \in 0 .. LqWindow /\ filled \in Nat /\ filled >= 1
  BY <1>1, SizesType
<1>4. lqIndex \in 0 .. LqWindow - 1
  BY <1>1, SizesType
<1>5. gone \in Nat /\ gone <= filled
  <2>1. IsFiniteSet(0 .. filled - 1) /\ Cardinality(0 .. filled - 1) = filled
    <3> HIDE DEF filled
    <3>1. 0 \in Int /\ filled - 1 \in Int /\ ~(0 > filled - 1) /\ filled - 1 - 0 + 1 = filled
      BY <1>3
    <3> QED BY <3>1, FS_Interval
  <2>2. goneSet \subseteq 0 .. filled - 1
    OBVIOUS
  <2> HIDE DEF goneSet, filled
  <2>3. IsFiniteSet(goneSet) /\ Cardinality(goneSet) <= Cardinality(0 .. filled - 1)
    BY <2>1, <2>2, FS_Subset
  <2>4. Cardinality(goneSet) \in Nat
    BY <2>3, FS_CardinalityType
  <2> QED BY <2>1, <2>3, <2>4
<1>6. 100 - share \in 0 .. 100
  <2> HIDE DEF gone, filled
  <2>1. share \in 0 .. 100
    BY <1>3, <1>5
  <2> HIDE DEF share
  <2> QED BY <2>1
<1>7. SbusQuality(st) = [st EXCEPT !.lost = lost, !.lqIndex = lqIndex, !.lqFilled = filled,
                                   !.lq = 100 - share]
  BY DEF SbusQuality
<1> HIDE DEF lost, filled, share, lqIndex
<1> DEFINE next == SbusQuality(st)
<1> HIDE DEF next
<1>8. next = [st EXCEPT !.lost = lost, !.lqIndex = lqIndex, !.lqFilled = filled,
                        !.lq = 100 - share]
  BY <1>7 DEF next
<1>9. next \in ParserStates(p)
  BY <1>2, <1>3, <1>4, <1>6, <1>8 DEF ParserStates
<1>10. next.buf = st.buf /\ next.starts = st.starts /\ next.errors = st.errors
  BY <1>8 DEF ParserStates
<1> QED BY <1>9, <1>10 DEF next

\* crc_error_counted_ says whether a hunt goes on: whether a candidate that was
\* rejected reaches over the first open place.
SbusSync(s, n, st) ==
  /\ st.counted <=> BadOf("SBUS", s, n) \cap (n + 2 - SbusSize .. n) # {}
  /\ n = Len(s) => ~st.counted

\* What the first byte that is not decided says of the place it comes from.
LEMMA SbusFront ==
  ASSUME NEW p \in {"SBUS"}, NEW s \in Streams(p), NEW n \in 0 .. Len(s)
  PROVE  /\ \A i : Total(p, s, i) = IF s[i] = SbusHeader THEN SbusSize ELSE 0
         /\ OpenAt(p, s, n) <=> (n = Len(s) \/ (s[n + 1] = SbusHeader /\ Len(s) < n + SbusSize))
         /\ (s[n + 1] = SbusHeader /\ Len(s) = n + SbusSize) =>
              /\ Complete(p, s, n + 1)
              /\ Candidate(p, s, n + 1) = Rest(s, n)
              /\ SbusChecks(Rest(s, n)) <=> Takes(p, s, n + 1)
              /\ Passes(p, Candidate(p, s, n + 1)) <=> Takes(p, s, n + 1)
<1>0. p \in Protocols /\ p # "MAVLINK"
  BY DEF Protocols
<1>1. Len(s) \in Nat /\ n \in Nat /\ n <= Len(s) /\ SbusSize \in Nat /\ SbusSize >= 3
  BY <1>0, StreamType, SizesType
<1>2. \A i : Total(p, s, i) = IF s[i] = SbusHeader THEN SbusSize ELSE 0
  BY DEF Total, SbusTotalAt
<1>3. Total(p, s, n + 1) = IF s[n + 1] = SbusHeader THEN SbusSize ELSE 0
  BY <1>2
<1>4. OpenAt(p, s, n) <=> (n = Len(s) \/ (s[n + 1] = SbusHeader /\ Len(s) < n + SbusSize))
  BY <1>1, <1>3 DEF OpenAt, Complete
<1>5. ASSUME s[n + 1] = SbusHeader, Len(s) = n + SbusSize
      PROVE  /\ Complete(p, s, n + 1)
             /\ Candidate(p, s, n + 1) = Rest(s, n)
             /\ SbusChecks(Rest(s, n)) <=> Takes(p, s, n + 1)
             /\ Passes(p, Candidate(p, s, n + 1)) <=> Takes(p, s, n + 1)
  <2>1. Total(p, s, n + 1) = SbusSize /\ n + 1 + SbusSize - 1 = Len(s)
    BY <1>1, <1>3, <1>5
  <2>2. Complete(p, s, n + 1)
    BY <1>1, <2>1 DEF Complete
  <2>3. Candidate(p, s, n + 1) = Rest(s, n)
    BY <2>1 DEF Candidate, Part, Rest
  <2>4. Passes(p, Rest(s, n)) <=> SbusChecks(Rest(s, n))
    BY DEF Passes
  <2> QED BY <1>0, <2>2, <2>3, <2>4 DEF Takes
<1> QED BY <1>2, <1>4, <1>5

\* An accepted frame.
LEMMA SbusAccepts ==
  ASSUME NEW p \in {"SBUS"}, NEW s \in Streams(p), NEW st \in ParserStates(p),
         NEW n \in 0 .. Len(s), At(p, s, n, st), s[n + 1] = SbusHeader, Len(s) = n + SbusSize,
         SbusChecks(Rest(s, n))
  PROVE  LET next == SbusAccept(st, Len(s))
         IN  /\ next \in ParserStates(p) /\ At(p, s, Len(s), next)
             /\ OpenAt(p, s, Len(s)) /\ SbusSync(s, Len(s), next)
<1> DEFINE next == SbusAccept(st, Len(s))
           quality == SbusQuality(st)
<1>0. p \in Protocols /\ p # "MAVLINK"
  BY DEF Protocols
<1>1. /\ Len(s) \in Nat /\ n \in Nat /\ n + 1 \in Nat /\ n < Len(s) /\ Len(s) \in 0 .. Len(s)
      /\ SbusSize \in Nat /\ SbusSize >= 3
  BY <1>0, StreamType, SizesType
<1>2. /\ Complete(p, s, n + 1) /\ Takes(p, s, n + 1) /\ Passes(p, Candidate(p, s, n + 1))
      /\ Len(s) = n + Total(p, s, n + 1)
  BY SbusFront
<1>3. /\ quality \in ParserStates(p) /\ quality.starts = st.starts
      /\ quality.errors = st.errors
  BY SbusQualityType
<1>4. FrontOf(st, Len(s)) = n + 1
  <2>1. Len(st.buf) = Len(s) - n
    BY <1>0, RestIs DEF At
  <2> QED BY <1>1, <2>1 DEF FrontOf
<1>5. next = [quality EXCEPT !.buf = <<>>, !.counted = FALSE, !.starts = @ \cup {n + 1}]
  BY <1>4 DEF SbusAccept
<1>6. Rest(s, Len(s)) = <<>> /\ Rest(s, Len(s)) \in Seq(Bytes[p])
  BY <1>0, <1>1, RestIs
<1> HIDE DEF quality, next
<1>7. next \in ParserStates(p)
  <2>1. quality.starts \cup {n + 1} \in SUBSET Nat
    BY <1>1, <1>3 DEF ParserStates
  <2>2. <<>> \in Seq(Bytes[p])
    BY <1>6
  <2> QED BY <1>3, <1>5, <2>1, <2>2 DEF ParserStates
<1>8. /\ next.buf = Rest(s, Len(s)) /\ next.starts = st.starts \cup {n + 1}
      /\ next.errors = st.errors /\ next.counted = FALSE
  BY <1>3, <1>5, <1>6 DEF ParserStates
<1>9. At(p, s, Len(s), next) /\ BadOf(p, s, Len(s)) = BadWith(p, s, n)
  <2>1. Accepts(p, s, n, Len(s), st, next)
    BY <1>1, <1>2, <1>8 DEF Accepts
  <2> QED BY <1>0, <2>1, AtTake
<1>10. BadOf(p, s, Len(s)) \cap (Len(s) + 2 - SbusSize .. Len(s)) = {}
  <2>1. BadOf(p, s, Len(s)) \subseteq 1 .. n
    BY <1>1, <1>2, <1>9, BadType DEF BadWith
  <2>2. \A i \in 1 .. n : i \notin Len(s) + 2 - SbusSize .. Len(s)
    BY <1>1
  <2> QED BY <2>1, <2>2
<1> QED BY <1>7, <1>8, <1>9, <1>10 DEF next, OpenAt, SbusSync

\* A rejected candidate.
LEMMA SbusRejects ==
  ASSUME NEW p \in {"SBUS"}, NEW s \in Streams(p), NEW st \in ParserStates(p),
         NEW n \in 0 .. Len(s), At(p, s, n, st), s[n + 1] = SbusHeader, Len(s) = n + SbusSize,
         ~SbusChecks(Rest(s, n)),
         st.counted <=> BadOf(p, s, n) \cap (n + 2 - SbusSize .. n) # {}
  PROVE  LET next == SbusReject(st)
         IN  /\ next \in ParserStates(p)
             /\ \E m \in 0 .. Len(s) :
                  At(p, s, m, next) /\ OpenAt(p, s, m) /\ SbusSync(s, m, next)
<1> DEFINE next == SbusReject(st)
           headers == {k \in 2 .. SbusSize : st.buf[k] = SbusHeader}
           bad == BadOf(p, s, n)
<1>0. p \in Protocols /\ p # "MAVLINK"
  BY DEF Protocols
<1>1. /\ Len(s) \in Nat /\ n \in Nat /\ n + 1 \in Nat /\ n < Len(s) /\ Len(s) \in 0 .. Len(s)
      /\ SbusSize \in Nat /\ SbusSize >= 3
  BY <1>0, StreamType, SizesType
<1>2. /\ Complete(p, s, n + 1) /\ ~Takes(p, s, n + 1)
      /\ \A i : Total(p, s, i) = IF s[i] = SbusHeader THEN SbusSize ELSE 0
  BY SbusFront
<1>3. /\ st.buf = Rest(s, n) /\ \A k \in 1 .. SbusSize : st.buf[k] = s[n + k]
      /\ Len(st.buf) = SbusSize
      /\ \A k \in 0 .. SbusSize : SubSeq(st.buf, k + 1, SbusSize) = Rest(s, n + k)
  <2>1. Len(s) - n = SbusSize /\ st.buf = Rest(s, n)
    BY <1>1 DEF At
  <2>2. /\ \A k \in 1 .. Len(s) - n : Rest(s, n)[k] = s[n + k]
        /\ Len(Rest(s, n)) = Len(s) - n
        /\ \A k \in 0 .. Len(s) - n : SubSeq(Rest(s, n), k + 1, Len(s) - n) = Rest(s, n + k)
    BY <1>0, RestIs
  <2> QED BY <2>1, <2>2
<1>4. /\ bad \subseteq 1 .. n /\ st.errors = Errors(p, bad) /\ Errors(p, bad) \in Nat
      /\ (IF st.counted THEN st.errors ELSE st.errors + 1) = Errors(p, bad \cup {n + 1})
  <2>1. bad \subseteq 1 .. n /\ st.errors = Errors(p, bad)
    BY <1>1, BadType DEF At
  <2> HIDE DEF bad
  <2>2. /\ Errors(p, bad) \in Nat
        /\ Errors(p, bad \cup {n + 1}) = IF bad \cap (n + 2 - SbusSize .. n) = {}
                                         THEN Errors(p, bad) + 1 ELSE Errors(p, bad)
    BY <1>1, <2>1, HuntErrors
  <2> QED BY <2>1, <2>2 DEF bad
<1>5. next = [st EXCEPT !.errors = IF st.counted THEN st.errors ELSE st.errors + 1,
                        !.counted = (headers # {}),
                        !.buf = IF headers = {} THEN <<>>
                                ELSE SubSeq(st.buf, Min(headers), SbusSize)]
  BY DEF SbusReject
<1>6. headers \in SUBSET Nat /\ headers \subseteq 2 .. SbusSize
  BY <1>1
<1> HIDE DEF next, headers
<1>7. ASSUME NEW m \in n + 1 .. Len(s), next.buf = Rest(s, m),
             \A i \in n + 2 .. m : s[i] # SbusHeader
      PROVE  /\ next \in ParserStates(p) /\ At(p, s, m, next)
             /\ BadOf(p, s, m) = bad \cup {n + 1}
  <2>1. m \in 0 .. Len(s)
    BY <1>1
  <2>2. Rest(s, m) \in Seq(Bytes[p])
    BY <1>0, <2>1, RestIs
  <2>3. next.starts = st.starts /\ next.errors = Errors(p, bad \cup {n + 1})
    BY <1>4, <1>5 DEF ParserStates
  <2>4. next \in ParserStates(p)
    <3> DEFINE errors == IF st.counted THEN st.errors ELSE st.errors + 1
               buf == IF headers = {} THEN <<>> ELSE SubSeq(st.buf, Min(headers), SbusSize)
               counted == headers # {}
    <3>1. next = [st EXCEPT !.errors = errors, !.counted = counted, !.buf = buf]
      BY <1>5
    <3>2. errors \in Nat /\ counted \in BOOLEAN
      BY <1>4
    <3> HIDE DEF errors, buf, counted
    <3>3. next.buf = buf
      BY <3>1 DEF ParserStates
    <3>4. buf \in Seq(Bytes[p])
      BY <1>7, <2>2, <3>3
    <3> QED BY <3>1, <3>2, <3>4 DEF ParserStates
  <2>5. Total(p, s, n + 1) # 0 /\ \A i \in n + 2 .. m : Total(p, s, i) = 0
    BY <1>1, <1>2, <1>7
  <2>6. Skips(p, s, n, m, st, next)
    BY <1>2, <1>7, <2>3, <2>5 DEF Skips
  <2>7. At(p, s, m, next) /\ BadOf(p, s, m) = IF Total(p, s, n + 1) = 0 THEN BadOf(p, s, n)
                                             ELSE BadOf(p, s, n) \cup {n + 1}
    BY <1>0, <2>6, AtSkip
  <2> QED BY <2>4, <2>5, <2>7
<1>8. CASE headers = {}
  <2>1. next.buf = <<>> /\ next.counted = FALSE
    BY <1>5, <1>8 DEF ParserStates
  <2>2. Rest(s, Len(s)) = <<>> /\ Len(s) \in n + 1 .. Len(s)
    BY <1>0, <1>1, RestIs
  <2>3. ASSUME NEW i \in n + 2 .. Len(s) PROVE s[i] # SbusHeader
    <3>1. i - n \in 2 .. SbusSize /\ i - n \in 1 .. SbusSize /\ n + (i - n) = i
      BY <1>1
    <3>2. st.buf[i - n] # SbusHeader
      BY <1>8, <3>1 DEF headers
    <3>3. st.buf[i - n] = s[n + (i - n)]
      BY <1>3, <3>1
    <3> QED BY <3>1, <3>2, <3>3
  <2>4. /\ next \in ParserStates(p) /\ At(p, s, Len(s), next)
        /\ BadOf(p, s, Len(s)) = bad \cup {n + 1}
    BY <1>7, <2>1, <2>2, <2>3
  <2>5. (bad \cup {n + 1}) \cap (Len(s) + 2 - SbusSize .. Len(s)) = {}
    <3>1. \A i \in 1 .. n : i \notin Len(s) + 2 - SbusSize .. Len(s)
      BY <1>1
    <3>2. n + 1 \notin Len(s) + 2 - SbusSize .. Len(s)
      BY <1>1
    <3> HIDE DEF bad
    <3> QED BY <1>4, <3>1, <3>2
  <2>6. OpenAt(p, s, Len(s)) /\ SbusSync(s, Len(s), next)
    BY <2>1, <2>4, <2>5 DEF OpenAt, SbusSync
  <2> QED BY <1>1, <2>4, <2>6 DEF next
<1>9. CASE headers # {}
  <2> DEFINE k == Min(headers)
             m == n + k - 1
  <2>1. k \in headers /\ \A j \in headers : k <= j
    BY <1>6, <1>9, MinIsLeast
  <2>2. /\ next.buf = SubSeq(st.buf, k, SbusSize) /\ next.counted = TRUE
    BY <1>5, <1>9 DEF ParserStates
  <2>3. k \in 2 .. SbusSize /\ k \in 1 .. SbusSize /\ st.buf[k] = SbusHeader
    BY <2>1 DEF headers
  <2> HIDE DEF k
  <2>4. /\ m \in n + 1 .. Len(s) /\ m \in 0 .. Len(s) /\ m < Len(s)
        /\ k - 1 \in 0 .. SbusSize /\ n + (k - 1) = m /\ k - 1 + 1 = k /\ m + 1 = n + k
        /\ Len(s) < m + SbusSize
    BY <1>1, <2>3
  <2>5. next.buf = Rest(s, m)
    <3>1. SubSeq(st.buf, k - 1 + 1, SbusSize) = Rest(s, n + (k - 1))
      BY <1>3, <2>4
    <3> QED BY <2>2, <2>4, <3>1
  <2>6. ASSUME NEW i \in n + 2 .. m PROVE s[i] # SbusHeader
    <3>1. i - n \in 2 .. SbusSize /\ i - n \in 1 .. SbusSize /\ n + (i - n) = i /\ ~(k <= i - n)
      BY <1>1, <2>3
    <3>2. i - n \notin headers
      BY <2>1, <3>1
    <3> QED BY <1>3, <3>1, <3>2 DEF headers
  <2>7. s[m + 1] = SbusHeader
    BY <1>3, <2>3, <2>4
  <2> HIDE DEF m
  <2>8. /\ next \in ParserStates(p) /\ At(p, s, m, next)
        /\ BadOf(p, s, m) = bad \cup {n + 1}
    BY <1>7, <2>4, <2>5, <2>6
  <2>9. OpenAt(p, s, m)
    BY <2>4, <2>7, SbusFront
  <2>10. n + 1 \in m + 2 - SbusSize .. m
    <3>1. k \in Nat /\ 2 <= k /\ k <= SbusSize
      BY <1>1, <2>3
    <3> QED BY <1>1, <3>1 DEF m
  <2>11. SbusSync(s, m, next)
    BY <2>2, <2>4, <2>8, <2>10 DEF SbusSync
  <2> QED BY <2>4, <2>8, <2>9, <2>11 DEF next
<1> QED BY <1>8, <1>9

\* SbusParser::push decides what the new byte allows to decide.
LEMMA SbusPushDecides ==
  ASSUME NEW p \in {"SBUS"}, NEW s \in Streams(p), NEW b \in Bytes[p], Len(s) < StreamLimit[p],
         NEW st \in ParserStates(p), NEW n \in 0 .. Len(s), At(p, s, n, st), OpenAt(p, s, n),
         SbusSync(s, n, st)
  PROVE  LET u == Append(s, b)
             next == SbusPush(st, b, Len(u))
         IN  /\ next \in ParserStates(p)
             /\ \E m \in 0 .. Len(u) :
                  At(p, u, m, next) /\ OpenAt(p, u, m) /\ SbusSync(u, m, next)
<1> DEFINE u == Append(s, b)
           next == SbusPush(st, b, Len(u))
           more == [st EXCEPT !.buf = Append(st.buf, b)]
<1>0. p \in Protocols /\ p = "SBUS"
  BY DEF Protocols
<1>1. /\ Len(s) \in Nat /\ n \in Nat /\ n <= Len(s) /\ SbusSize \in Nat /\ SbusSize >= 3
      /\ u \in Streams(p) /\ Len(u) = Len(s) + 1 /\ u[Len(s) + 1] = b
      /\ \A k \in 1 .. Len(s) : u[k] = s[k]
  BY <1>0, StreamType, SizesType, GrowsType
<1>2. /\ n \in 0 .. Len(u) /\ more \in ParserStates(p) /\ At(p, u, n, more)
      /\ Append(st.buf, b) = Rest(u, n)
  BY <1>0, AtGrows
<1>3. st.buf = <<>> <=> n = Len(s)
  BY <1>0, RestIs DEF At
<1>4. BadOf(p, u, n) = BadOf(p, s, n)
  BY <1>0, SettledStays DEF At
<1>5. more.buf = Rest(u, n) /\ more.counted = st.counted /\ more.starts = st.starts
      /\ more.errors = st.errors
  BY <1>2 DEF ParserStates
<1>6. Len(more.buf) = Len(u) - n
  <2> HIDE DEF u, more
  <2> QED BY <1>0, <1>1, <1>2, <1>5, RestIs
<1>7. next = CASE st.buf = <<>> /\ b # SbusHeader -> st
               [] st.buf = <<>> /\ b = SbusHeader -> more
               [] st.buf # <<>> /\ Len(more.buf) < SbusSize -> more
               [] OTHER -> IF SbusChecks(more.buf) THEN SbusAccept(more, Len(u))
                           ELSE SbusReject(more)
  BY DEF SbusPush
<1>8. /\ st.counted <=> BadOf(p, s, n) \cap (n + 2 - SbusSize .. n) # {}
      /\ n = Len(s) => ~st.counted
  BY DEF SbusSync
<1> HIDE DEF u, next, more
<1>9. CASE n = Len(s) /\ b # SbusHeader
  <2>1. next = st
    BY <1>3, <1>7, <1>9
  <2>2. n + 1 = Len(u) /\ n + 1 \in n + 1 .. Len(u) /\ n + 1 \in 0 .. Len(u)
    BY <1>1, <1>9
  <2>3. Total(p, u, n + 1) = 0
    BY <1>1, <1>2, <1>9, SbusFront
  <2>4. st.buf = Rest(u, n + 1)
    <3>1. Rest(u, n + 1) = <<>>
      BY <1>0, <1>1, <2>2, RestIs
    <3> QED BY <1>3, <1>9, <3>1
  <2>5. \A i \in n + 2 .. n + 1 : Total(p, u, i) = 0
    BY <1>1
  <2>6. Skips(p, u, n, n + 1, more, st)
    BY <1>5, <2>2, <2>3, <2>4, <2>5 DEF Skips
  <2>7. At(p, u, n + 1, st) /\ BadOf(p, u, n + 1) = BadOf(p, u, n)
    BY <1>0, <1>1, <1>2, <2>3, <2>6, AtSkip
  <2>8. BadOf(p, s, n) \cap (n + 1 + 2 - SbusSize .. n + 1) = {}
    <3>1. BadOf(p, s, n) \subseteq 1 .. n
      BY <1>1, BadType
    <3>2. \A i \in 1 .. n : i \in n + 1 + 2 - SbusSize .. n + 1 => i \in n + 2 - SbusSize .. n
      BY <1>1
    <3> QED BY <1>8, <1>9, <3>1, <3>2
  <2>9. SbusSync(u, n + 1, st)
    BY <1>4, <1>8, <1>9, <2>7, <2>8, <1>0 DEF SbusSync
  <2>10. OpenAt(p, u, n + 1)
    BY <2>2 DEF OpenAt
  <2> QED BY <2>1, <2>2, <2>7, <2>9, <2>10 DEF u, next
<1>10. ASSUME next = more, u[n + 1] = SbusHeader, Len(u) < n + SbusSize, n < Len(u)
       PROVE  /\ At(p, u, n, next) /\ OpenAt(p, u, n) /\ SbusSync(u, n, next)
              /\ next \in ParserStates(p)
  <2>1. OpenAt(p, u, n)
    BY <1>1, <1>2, <1>10, SbusFront
  <2>2. SbusSync(u, n, next)
    BY <1>0, <1>1, <1>2, <1>4, <1>5, <1>8, <1>10 DEF SbusSync
  <2> QED BY <1>2, <1>10, <2>1, <2>2
<1>11. CASE n = Len(s) /\ b = SbusHeader
  <2>1. next = more
    BY <1>3, <1>7, <1>11
  <2>2. u[n + 1] = SbusHeader /\ Len(u) < n + SbusSize /\ n < Len(u)
    BY <1>1, <1>11
  <2> QED BY <1>2, <1>10, <2>1, <2>2 DEF u, next
<1>12. CASE n # Len(s)
  <2>1. s[n + 1] = SbusHeader /\ Len(s) < n + SbusSize
    BY <1>1, <1>12, SbusFront
  <2>2. u[n + 1] = SbusHeader /\ n < Len(u)
    <3>1. n + 1 \in 1 .. Len(s) /\ n < Len(u)
      BY <1>1, <1>12
    <3> QED BY <1>1, <2>1, <3>1
  <2>3. CASE Len(u) < n + SbusSize
    <3>1. Len(more.buf) < SbusSize
      BY <1>1, <1>6, <2>3
    <3>2. next = more
      BY <1>3, <1>7, <1>12, <3>1
    <3> QED BY <1>2, <1>10, <2>2, <2>3, <3>2 DEF u, next
  <2>4. CASE ~(Len(u) < n + SbusSize)
    <3>1. Len(u) = n + SbusSize /\ ~(Len(more.buf) < SbusSize)
      <4>1. Len(u) = n + SbusSize
        BY <1>1, <2>1, <2>4
      <4>2. Len(more.buf) = SbusSize
        BY <1>1, <1>6, <4>1
      <4> QED BY <1>1, <4>1, <4>2
    <3>2. next = IF SbusChecks(Rest(u, n)) THEN SbusAccept(more, Len(u)) ELSE SbusReject(more)
      BY <1>3, <1>5, <1>7, <1>12, <3>1
    <3>3. more.counted <=> BadOf(p, u, n) \cap (n + 2 - SbusSize .. n) # {}
      BY <1>4, <1>5, <1>8
    <3>4. CASE SbusChecks(Rest(u, n))
      <4>1. Len(u) \in 0 .. Len(u)
        BY <1>1
      <4> QED BY <1>1, <1>2, <2>2, <3>1, <3>2, <3>4, <4>1, SbusAccepts DEF u, next
    <3>5. CASE ~SbusChecks(Rest(u, n))
      BY <1>1, <1>2, <2>2, <3>1, <3>2, <3>3, <3>5, SbusRejects DEF u, next
    <3> QED BY <3>4, <3>5
  <2> QED BY <2>3, <2>4
<1> QED BY <1>9, <1>11, <1>12

-----------------------------------------------------------------------------
(* MAVLink: the states of the parser and what they say of the bytes.       *)

\* How far the parser is tells what it has collected.
MavlinkSync(st) ==
  /\ Len(st.buf) > 0 => st.buf[1] = Stx
  /\ \/ st.state = "WAIT_STX" /\ Len(st.buf) = 0
     \/ st.state = "WAIT_LEN" /\ Len(st.buf) = 1
     \/ st.state = "WAIT_HEADER" /\ Len(st.buf) >= 2 /\ Len(st.buf) < 1 + HeaderSize
     \/ /\ st.state = "WAIT_PAYLOAD"
        /\ Len(st.buf) >= 1 + HeaderSize /\ Len(st.buf) < BodySize(st.buf)
     \/ /\ st.state = "WAIT_CRC" /\ Len(st.buf) >= BodySize(st.buf)
        /\ Len(st.buf) >= 1 + HeaderSize /\ Len(st.buf) < BodySize(st.buf) + CrcSize
     \/ /\ st.state = "WAIT_SIGNATURE" /\ Len(st.buf) >= BodySize(st.buf) + CrcSize
        /\ Len(st.buf) >= 1 + HeaderSize /\ IsSigned(st.buf)
        /\ Len(st.buf) < BodySize(st.buf) + CrcSize + SignatureSize

\* The length of a whole frame, once the flags are there.
FullSize(buf) == BodySize(buf) + CrcSize + (IF IsSigned(buf) THEN SignatureSize ELSE 0)

\* What the collected bytes say of the place they come from.
LEMMA MavlinkFront ==
  ASSUME NEW p \in {"MAVLINK"}, NEW s \in Streams(p), NEW n \in 0 .. Len(s), n < Len(s)
  PROVE  LET rest == Rest(s, n)
         IN  /\ s[n + 1] # Stx => Total(p, s, n + 1) = 0
             /\ (s[n + 1] = Stx /\ Len(rest) < 3) => OpenAt(p, s, n)
             /\ Len(rest) >= 3 =>
                  /\ PayloadOf(rest) \in Bytes[p] /\ PayloadOf(rest) \in Nat
                  /\ BodySize(rest) = 1 + HeaderSize + PayloadOf(rest)
                  /\ BodySize(rest) \in Nat /\ FullSize(rest) \in Nat
             /\ (s[n + 1] = Stx /\ Len(rest) >= 3) =>
                  /\ Total(p, s, n + 1) = FullSize(rest)
                  /\ Len(rest) < FullSize(rest) => OpenAt(p, s, n)
                  /\ Len(rest) = FullSize(rest) =>
                       /\ Takes(p, s, n + 1) /\ Candidate(p, s, n + 1) = rest
                       /\ Len(s) = n + Total(p, s, n + 1)
                       /\ Passes(p, Candidate(p, s, n + 1)) <=> (~IsSigned(rest) /\ MavlinkChecks(rest))
<1> DEFINE rest == Rest(s, n)
           full == FullSize(rest)
           signature == IF IsSigned(rest) THEN SignatureSize ELSE 0
<1>0. p \in Protocols /\ p = "MAVLINK"
  BY DEF Protocols
<1>1. /\ Len(s) \in Nat /\ n \in Nat /\ n + 1 \in 1 .. Len(s)
      /\ HeaderSize \in Nat /\ HeaderSize >= 2 /\ CrcSize \in Nat /\ CrcSize >= 1
      /\ SignatureSize \in Nat /\ SignatureSize >= 1
      /\ \A k \in 1 .. Len(s) : s[k] \in Bytes[p] /\ s[k] \in 0 .. 255
      /\ Unknown(p) \in Nat /\ Unknown(p) > Len(s)
  BY <1>0, StreamType, SizesType DEF Unknown
<1>2. Len(rest) = Len(s) - n /\ \A k \in 1 .. Len(s) - n : rest[k] = s[n + k]
  BY <1>0, RestIs
<1>3. Total(p, s, n + 1) = MavlinkTotalAt(s, n + 1)
  BY <1>0 DEF Total
<1> HIDE DEF rest
<1>4. s[n + 1] # Stx => Total(p, s, n + 1) = 0
  BY <1>3 DEF MavlinkTotalAt
<1>5. ASSUME s[n + 1] = Stx, Len(rest) < 3 PROVE OpenAt(p, s, n)
  <2>1. n + 1 + 2 > Len(s)
    BY <1>1, <1>2, <1>5
  <2>2. Total(p, s, n + 1) = Unknown(p)
    BY <1>0, <1>3, <1>5, <2>1 DEF MavlinkTotalAt
  <2> QED BY <1>1, <2>2 DEF OpenAt, Complete
<1>6. ASSUME Len(rest) >= 3
      PROVE  /\ PayloadOf(rest) \in Bytes[p] /\ PayloadOf(rest) \in Nat
             /\ BodySize(rest) = 1 + HeaderSize + PayloadOf(rest)
             /\ BodySize(rest) \in Nat /\ FullSize(rest) \in Nat
             /\ PayloadOf(rest) = s[n + 2] /\ rest[3] = s[n + 3]
             /\ full = BodySize(rest) + CrcSize + signature /\ signature \in Nat /\ full >= 1 /\ full \in Nat
  <2>1. 2 \in 1 .. Len(s) - n /\ 3 \in 1 .. Len(s) - n /\ n + 2 \in 1 .. Len(s)
    BY <1>1, <1>2, <1>6
  <2>2. rest[2] = s[n + 2] /\ rest[3] = s[n + 3] /\ s[n + 2] \in Bytes[p] /\ s[n + 2] \in 0 .. 255
    BY <1>1, <1>2, <2>1
  <2>3. PayloadOf(rest) = s[n + 2] /\ PayloadOf(rest) \in Bytes[p] /\ PayloadOf(rest) \in Nat
    <3>1. \A x \in 0 .. 255 : x \in Nat
      OBVIOUS
    <3> QED BY <2>2, <3>1, Zenon DEF PayloadOf
  <2>4. BodySize(rest) = 1 + HeaderSize + PayloadOf(rest) /\ BodySize(rest) \in Nat
    <3>1. BodySize(rest) = 1 + HeaderSize + PayloadOf(rest)
      BY DEF BodySize
    <3> QED BY <1>1, <2>3, <3>1
  <2>5. signature \in Nat /\ full = BodySize(rest) + CrcSize + signature
    BY <1>1 DEF FullSize
  <2> HIDE DEF signature, full
  <2>6. full \in Nat /\ full >= 1
    BY <1>1, <2>4, <2>5
  <2> QED BY <2>2, <2>3, <2>4, <2>5, <2>6 DEF full
<1>7. ASSUME s[n + 1] = Stx, Len(rest) >= 3 PROVE Total(p, s, n + 1) = full
  <2>1. ~(n + 1 + 2 > Len(s)) /\ n + 1 + 1 = n + 2 /\ n + 1 + 2 = n + 3
    BY <1>1, <1>2, <1>7
  <2>2. MavlinkTotalAt(s, n + 1) = 1 + HeaderSize + s[n + 2] + CrcSize
                                    + (IF s[n + 3] \in Signed THEN SignatureSize ELSE 0)
    BY <1>7, <2>1 DEF MavlinkTotalAt
  <2>3. signature = IF s[n + 3] \in Signed THEN SignatureSize ELSE 0
    BY <1>6, <1>7 DEF IsSigned
  <2> HIDE DEF signature, full
  <2>4. full = 1 + HeaderSize + s[n + 2] + CrcSize + signature
    BY <1>1, <1>6, <1>7
  <2> QED BY <1>3, <2>2, <2>3, <2>4
<1>8. ASSUME s[n + 1] = Stx, Len(rest) >= 3, Len(rest) < full PROVE OpenAt(p, s, n)
  <2>1. full \in Nat /\ full >= 1
    BY <1>6, <1>8
  <2>2. Total(p, s, n + 1) = full
    BY <1>7, <1>8
  <2> HIDE DEF full
  <2>3. ~(n + 1 + full - 1 <= Len(s)) /\ full # 0
    BY <1>1, <1>2, <1>8, <2>1
  <2> QED BY <2>2, <2>3 DEF OpenAt, Complete
<1>9. ASSUME s[n + 1] = Stx, Len(rest) >= 3, Len(rest) = full
      PROVE  /\ Takes(p, s, n + 1) /\ Candidate(p, s, n + 1) = rest
             /\ Len(s) = n + Total(p, s, n + 1)
             /\ Passes(p, Candidate(p, s, n + 1)) <=> (~IsSigned(rest) /\ MavlinkChecks(rest))
  <2>5. full \in Nat /\ full >= 1
    BY <1>6, <1>9
  <2>6. Total(p, s, n + 1) = full
    BY <1>7, <1>9
  <2> HIDE DEF full
  <2>1. /\ Total(p, s, n + 1) = full /\ full \in Nat /\ full # 0
        /\ n + 1 + full - 1 = Len(s) /\ Len(s) = n + full
    <3>1. Len(s) - n = full
      BY <1>2, <1>9
    <3>2. Len(s) = n + full /\ n + 1 + full - 1 = Len(s)
      BY <1>1, <2>5, <3>1
    <3> QED BY <2>5, <2>6, <3>2
  <2>2. Takes(p, s, n + 1)
    BY <1>0, <1>1, <2>1 DEF Takes, Complete
  <2>3. Candidate(p, s, n + 1) = rest
    BY <2>1 DEF Candidate, Part, Rest, rest
  <2>4. Passes(p, rest) <=> (~IsSigned(rest) /\ MavlinkChecks(rest))
    BY <1>0 DEF Passes
  <2> QED BY <2>1, <2>2, <2>3, <2>4
<1> QED BY <1>4, <1>5, <1>6, <1>7, <1>8, <1>9 DEF rest

\* While a frame is being collected its place is open.
LEMMA MavlinkOpen ==
  ASSUME NEW p \in {"MAVLINK"}, NEW s \in Streams(p), NEW n \in 0 .. Len(s),
         NEW st, At(p, s, n, st), MavlinkSync(st)
  PROVE  OpenAt(p, s, n)
<1> DEFINE rest == Rest(s, n)
<1>0. p \in Protocols
  BY DEF Protocols
<1>1. /\ Len(s) \in Nat /\ n \in Nat /\ n <= Len(s) /\ st.buf = rest /\ Len(rest) = Len(s) - n
      /\ \A k \in 1 .. Len(s) - n : rest[k] = s[n + k]
      /\ HeaderSize \in Nat /\ HeaderSize >= 2 /\ CrcSize \in Nat /\ CrcSize >= 1
      /\ SignatureSize \in Nat /\ SignatureSize >= 1
  BY <1>0, StreamType, SizesType, RestIs DEF At
<1>2. CASE n = Len(s)
  BY <1>2 DEF OpenAt
<1>3. CASE n # Len(s)
  <2>1. n < Len(s) /\ Len(rest) >= 1 /\ rest[1] = s[n + 1]
    <3>1. n < Len(s) /\ Len(s) - n >= 1 /\ 1 \in 1 .. Len(s) - n
      BY <1>1, <1>3
    <3>2. Len(rest) >= 1
      BY <1>1, <3>1, Zenon
    <3>3. rest[1] = s[n + 1]
      BY <1>1, <3>1
    <3> QED BY <3>1, <3>2, <3>3
  <2>2. s[n + 1] = Stx
    BY <1>1, <2>1 DEF MavlinkSync
  <2>3. CASE Len(rest) < 3
    BY <2>1, <2>2, <2>3, MavlinkFront
  <2>4. CASE ~(Len(rest) < 3)
    <3>1. Len(rest) >= 3
      BY <1>1, <2>4
    <3>2. /\ PayloadOf(rest) \in Nat /\ BodySize(rest) = 1 + HeaderSize + PayloadOf(rest)
          /\ BodySize(rest) \in Nat
          /\ Len(rest) < FullSize(rest) => OpenAt(p, s, n)
      BY <2>1, <2>2, <3>1, MavlinkFront
    <3>3. /\ FullSize(rest) = BodySize(rest) + CrcSize + IF IsSigned(rest) THEN SignatureSize ELSE 0
      BY DEF FullSize
    <3> DEFINE size == Len(rest)
               body == BodySize(rest)
               full == FullSize(rest)
    <3>4. \/ size < 1 + HeaderSize \/ size < body \/ size < body + CrcSize
          \/ IsSigned(rest) /\ size < body + CrcSize + SignatureSize
      BY <1>1, <3>1 DEF MavlinkSync
    <3>5. /\ full >= body + CrcSize /\ (IsSigned(rest) => full = body + CrcSize + SignatureSize)
          /\ full \in Nat /\ body \in Nat /\ body >= 1 + HeaderSize /\ size \in Nat
      <4>1. body \in Nat /\ body >= 1 + HeaderSize /\ size \in Nat
        BY <1>1, <3>2
      <4> HIDE DEF body, size
      <4>2. full = body + CrcSize + IF IsSigned(rest) THEN SignatureSize ELSE 0
        BY <3>3 DEF body
      <4> HIDE DEF full
      <4> QED BY <1>1, <4>1, <4>2
    <3> HIDE DEF size, body, full
    <3>6. size < full
      BY <1>1, <3>4, <3>5
    <3> QED BY <3>2, <3>6 DEF size, full
  <2> QED BY <2>3, <2>4
<1> QED BY <1>2, <1>3

\* MavlinkParser::processByte decides what the new byte allows to decide.
LEMMA MavlinkPushDecides ==
  ASSUME NEW p \in {"MAVLINK"}, NEW s \in Streams(p), NEW b \in Bytes[p],
         Len(s) < StreamLimit[p], NEW st \in ParserStates(p), NEW n \in 0 .. Len(s),
         At(p, s, n, st), MavlinkSync(st)
  PROVE  LET u == Append(s, b)
             next == MavlinkPush(st, b, Len(u))
         IN  /\ next \in ParserStates(p)
             /\ \E m \in 0 .. Len(u) : At(p, u, m, next)
             /\ MavlinkSync(next)
<1> DEFINE u == Append(s, b)
           next == MavlinkPush(st, b, Len(u))
           more == [st EXCEPT !.buf = Append(st.buf, b)]
           rest == Rest(u, n)
           size == Len(st.buf)
           goto(state) == [more EXCEPT !.state = state]
           body == BodySize(rest)
<1>0. p \in Protocols /\ p \in {"CRSF", "MAVLINK"} /\ p = "MAVLINK"
  BY DEF Protocols
<1>1. /\ Len(s) \in Nat /\ n \in Nat /\ n <= Len(s)
      /\ HeaderSize \in Nat /\ HeaderSize >= 2 /\ CrcSize \in Nat /\ CrcSize >= 1
      /\ SignatureSize \in Nat /\ SignatureSize >= 1
      /\ u \in Streams(p) /\ Len(u) = Len(s) + 1 /\ u[Len(s) + 1] = b
      /\ \A k \in 1 .. Len(s) : u[k] = s[k]
  BY <1>0, StreamType, SizesType, GrowsType
<1>2. /\ n \in 0 .. Len(u) /\ more \in ParserStates(p) /\ At(p, u, n, more)
      /\ Append(st.buf, b) = rest
  BY <1>0, AtGrows
<1>3. st.buf = Rest(s, n) /\ size = Len(s) - n /\ \A k \in 1 .. size : st.buf[k] = s[n + k]
  <2>1. st.buf = Rest(s, n)
    BY DEF At
  <2>2. Len(Rest(s, n)) = Len(s) - n /\ \A k \in 1 .. Len(s) - n : Rest(s, n)[k] = s[n + k]
    BY <1>0, RestIs
  <2> QED BY <2>1, <2>2
<1>4. /\ more.buf = rest /\ more.state = st.state /\ more.starts = st.starts
      /\ more.errors = st.errors /\ st.state \in States
  BY <1>2 DEF ParserStates
<1>5. Len(rest) = Len(u) - n /\ \A k \in 1 .. Len(u) - n : rest[k] = u[n + k]
  <2> HIDE DEF u
  <2> QED BY <1>0, <1>1, <1>2, RestIs
<1>6. next = MavlinkStep(more, b, Len(u))
  BY DEF MavlinkPush
<1> HIDE DEF u, next, more, rest, size
<1>7. /\ size \in Nat /\ Len(rest) = size + 1 /\ n < Len(u) /\ n + 1 \in 0 .. Len(u)
      /\ \A k \in 1 .. size : rest[k] = st.buf[k]
      /\ rest[size + 1] = b
  <2>1. size \in Nat /\ Len(rest) = size + 1 /\ n < Len(u) /\ n + 1 \in 0 .. Len(u)
    BY <1>1, <1>3, <1>5
  <2>2. ASSUME NEW k \in 1 .. size PROVE rest[k] = st.buf[k]
    <3>1. k \in 1 .. Len(u) - n /\ n + k \in 1 .. Len(s)
      BY <1>1, <1>3
    <3> QED BY <1>1, <1>3, <1>5, <3>1
  <2>3. rest[size + 1] = b
    <3>1. size + 1 \in 1 .. Len(u) - n /\ n + (size + 1) = Len(s) + 1
      BY <1>1, <1>3
    <3> QED BY <1>1, <1>5, <3>1
  <2> QED BY <2>1, <2>2, <2>3
\* What was read of the header does not change.
<1>8. size >= 3 => BodySize(st.buf) = body /\ (IsSigned(st.buf) <=> IsSigned(rest))
  <2> SUFFICES ASSUME size >= 3
               PROVE  BodySize(st.buf) = body /\ (IsSigned(st.buf) <=> IsSigned(rest))
    OBVIOUS
  <2>1. rest[2] = st.buf[2] /\ rest[3] = st.buf[3]
    BY <1>7
  <2> QED BY <2>1 DEF BodySize, PayloadOf, IsSigned
\* The parser goes on collecting.
<1>9. ASSUME NEW q \in States, next = goto(q), rest[1] = Stx,
             \/ q = "WAIT_LEN" /\ Len(rest) = 1
             \/ q = "WAIT_HEADER" /\ Len(rest) >= 2 /\ Len(rest) < 1 + HeaderSize
             \/ q = "WAIT_PAYLOAD" /\ Len(rest) >= 1 + HeaderSize /\ Len(rest) < body
             \/ /\ q = "WAIT_CRC" /\ Len(rest) >= body /\ Len(rest) >= 1 + HeaderSize
                /\ Len(rest) < body + CrcSize
             \/ /\ q = "WAIT_SIGNATURE" /\ Len(rest) >= body + CrcSize /\ Len(rest) >= 1 + HeaderSize
                /\ IsSigned(rest) /\ Len(rest) < body + CrcSize + SignatureSize
      PROVE  /\ next \in ParserStates(p)
             /\ \E m \in 0 .. Len(u) : At(p, u, m, next)
             /\ MavlinkSync(next)
  <2>1. /\ next.buf = rest /\ next.state = q /\ next.starts = more.starts
        /\ next.errors = more.errors /\ next \in ParserStates(p)
    BY <1>2, <1>4, <1>9 DEF ParserStates
  <2>2. At(p, u, n, next)
    BY <1>2, <1>4, <2>1 DEF At
  <2>3. MavlinkSync(next)
    <3> HIDE DEF goto
    <3> QED BY <1>9, <2>1 DEF MavlinkSync
  <2> QED BY <1>2, <2>1, <2>2, <2>3
\* The frame is complete, and the parser starts again.
<1>10. ASSUME Len(rest) = FullSize(rest), size >= 3, rest[1] = Stx, next \in ParserStates(p),
              next.buf = <<>>, next.state = "WAIT_STX",
              next.starts = IF ~IsSigned(rest) /\ MavlinkChecks(rest) THEN more.starts \cup {n + 1}
                            ELSE more.starts,
              next.errors = IF (~IsSigned(rest) /\ MavlinkChecks(rest)) \/ IsSigned(rest)
                            THEN more.errors ELSE more.errors + 1
       PROVE  /\ \E m \in 0 .. Len(u) : At(p, u, m, next)
              /\ MavlinkSync(next)
  <2>1. u[n + 1] = Stx /\ Len(rest) >= 3
    <3>1. 1 \in 1 .. Len(u) - n /\ Len(rest) >= 3
      BY <1>1, <1>7, <1>10
    <3> QED BY <1>5, <1>10, <3>1
  <2>2. /\ Takes(p, u, n + 1) /\ Candidate(p, u, n + 1) = rest
        /\ Len(u) = n + Total(p, u, n + 1)
        /\ Passes(p, Candidate(p, u, n + 1)) <=> (~IsSigned(rest) /\ MavlinkChecks(rest))
    BY <1>1, <1>2, <1>7, <1>10, <2>1, MavlinkFront DEF rest
  <2>3. Len(u) \in 0 .. Len(u) /\ Rest(u, Len(u)) = <<>>
    <3>1. Len(u) \in 0 .. Len(u)
      BY <1>1
    <3> QED BY <1>0, <1>1, <3>1, RestIs
  <2>4. more.errors + 1 = Errors(p, BadOf(p, u, n) \cup {n + 1})
    BY <1>0, <1>1, <1>2, OneError DEF At
  <2>5. Accepts(p, u, n, Len(u), more, next)
    BY <1>0, <1>7, <1>10, <2>2, <2>3, <2>4 DEF Accepts
  <2>6. At(p, u, Len(u), next)
    BY <1>0, <1>1, <1>2, <2>5, AtTake
  <2>7. MavlinkSync(next)
    BY <1>10, EmptySeq DEF MavlinkSync
  <2> QED BY <2>3, <2>6, <2>7
<1>11. CASE st.state = "WAIT_STX"
  <2>1. size = 0 /\ Len(rest) = 1 /\ rest[1] = b /\ Len(u) = n + 1
    <3>1. size = 0
      BY <1>11 DEF MavlinkSync, size
    <3>2. Len(rest) = 1 /\ rest[1] = b
      BY <1>7, <3>1
    <3>3. Len(u) = n + 1
      BY <1>1, <1>3, <3>1
    <3> QED BY <3>1, <3>2, <3>3
  <2>2. next = IF b = Stx THEN goto("WAIT_LEN") ELSE [more EXCEPT !.buf = <<>>]
    BY <1>4, <1>6, <1>11 DEF MavlinkStep
  <2>3. CASE b = Stx
    BY <1>9, <2>1, <2>2, <2>3 DEF States, next, u
  <2>4. CASE b # Stx
    <3>1. Rest(u, n + 1) = <<>> /\ Rest(u, n + 1) \in Seq(Bytes[p])
      BY <1>0, <1>1, <1>7, <2>1, RestIs
    <3>2. next = [more EXCEPT !.buf = <<>>]
      BY <2>2, <2>4
    <3>3. next \in ParserStates(p)
      BY <1>2, <3>1, <3>2, StateType
    <3>4. /\ next.buf = <<>> /\ next.state = "WAIT_STX" /\ next.starts = more.starts
          /\ next.errors = more.errors
      BY <1>2, <1>4, <1>11, <3>2 DEF ParserStates
    <3>5. Total(p, u, n + 1) = 0
      <4>1. u[n + 1] = b
        BY <1>1, <2>1
      <4> QED BY <1>1, <1>2, <1>7, <2>4, <4>1, MavlinkFront
    <3>6. n + 1 \in n + 1 .. Len(u) /\ \A i \in n + 2 .. n + 1 : Total(p, u, i) = 0
      BY <1>1, <2>1
    <3>7. Skips(p, u, n, n + 1, more, next)
      BY <3>1, <3>4, <3>5, <3>6 DEF Skips
    <3>8. At(p, u, n + 1, next)
      BY <1>0, <1>1, <1>2, <3>7, AtSkip
    <3>9. MavlinkSync(next)
      BY <3>4, EmptySeq DEF MavlinkSync
    <3> QED BY <1>7, <3>3, <3>8, <3>9 DEF next, u
  <2> QED BY <2>3, <2>4
<1>12. CASE st.state # "WAIT_STX"
  <2>1. size >= 1 /\ rest[1] = Stx
    <3>1. size >= 1 /\ st.buf[1] = Stx
      <4>1. size >= 1
        BY <1>1, <1>7, <1>12 DEF MavlinkSync, size
      <4> QED BY <1>7, <4>1 DEF MavlinkSync, size
    <3>2. 1 \in 1 .. size
      BY <1>7, <3>1
    <3> QED BY <1>7, <3>1, <3>2
  <2>2. more = goto(st.state)
    BY <1>2, <1>4 DEF ParserStates
  <2>3. Len(rest) >= 3 => /\ PayloadOf(rest) \in Nat /\ body = 1 + HeaderSize + PayloadOf(rest)
                          /\ body \in Nat
                          /\ FullSize(rest) = body + CrcSize
                                              + (IF IsSigned(rest) THEN SignatureSize ELSE 0)
    BY <1>1, <1>2, <1>7, MavlinkFront DEF rest, FullSize
  <2> HIDE DEF body
  <2>4. CASE st.state = "WAIT_LEN"
    <3>1. size = 1 /\ Len(rest) = 2
      <4>1. size = 1
        BY <2>4 DEF MavlinkSync, size
      <4> QED BY <1>7, <4>1
    <3>2. next = goto("WAIT_HEADER")
      BY <1>4, <1>6, <2>4 DEF MavlinkStep
    <3> QED BY <1>1, <1>9, <2>1, <3>1, <3>2 DEF States, next, u
  <2>5. CASE st.state = "WAIT_HEADER"
    <3>1. size >= 2 /\ size < 1 + HeaderSize
      BY <2>5 DEF MavlinkSync, size
    <3>2. next = IF Len(rest) < 1 + HeaderSize THEN more
                 ELSE goto(IF PayloadOf(rest) = 0 THEN "WAIT_CRC" ELSE "WAIT_PAYLOAD")
      BY <1>4, <1>6, <2>5 DEF MavlinkStep
    <3>3. CASE Len(rest) < 1 + HeaderSize
      <4>1. next = goto("WAIT_HEADER") /\ Len(rest) >= 2
        BY <1>7, <2>2, <2>5, <3>1, <3>2, <3>3
      <4> QED BY <1>9, <2>1, <3>3, <4>1 DEF States, next, u
    <3>4. CASE ~(Len(rest) < 1 + HeaderSize)
      <4>1. Len(rest) = 1 + HeaderSize /\ Len(rest) >= 3
        BY <1>1, <1>7, <3>1, <3>4
      <4>2. PayloadOf(rest) \in Nat /\ body = 1 + HeaderSize + PayloadOf(rest)
        BY <2>3, <4>1
      <4>3. CASE PayloadOf(rest) = 0
        <5>1. next = goto("WAIT_CRC")
          BY <3>2, <3>4, <4>3
        <5>2. Len(rest) >= body /\ Len(rest) >= 1 + HeaderSize /\ Len(rest) < body + CrcSize
          BY <1>1, <4>1, <4>2, <4>3
        <5> QED BY <1>9, <2>1, <5>1, <5>2 DEF States, next, u
      <4>4. CASE PayloadOf(rest) # 0
        <5>1. next = goto("WAIT_PAYLOAD")
          BY <3>2, <3>4, <4>4
        <5>2. Len(rest) >= 1 + HeaderSize /\ Len(rest) < body
          BY <1>1, <4>1, <4>2, <4>4
        <5> QED BY <1>9, <2>1, <5>1, <5>2 DEF States, next, u
      <4> QED BY <4>3, <4>4
    <3> QED BY <3>3, <3>4
  <2>6. CASE st.state \in {"WAIT_PAYLOAD", "WAIT_CRC", "WAIT_SIGNATURE"}
    <3>1. size >= 1 + HeaderSize /\ size >= 3 /\ Len(rest) >= 3 /\ Len(rest) >= 1 + HeaderSize
      <4>1. size >= 1 + HeaderSize
        BY <2>6 DEF MavlinkSync, size
      <4> QED BY <1>1, <1>7, <4>1
    <3>2. BodySize(st.buf) = body /\ (IsSigned(st.buf) <=> IsSigned(rest)) /\ body \in Nat
      BY <1>8, <2>3, <3>1 DEF body
    <3>3. FullSize(rest) = body + CrcSize + (IF IsSigned(rest) THEN SignatureSize ELSE 0)
      BY <2>3, <3>1
    <3>4. CASE st.state = "WAIT_PAYLOAD"
      <4>1. size < body
        BY <3>2, <3>4 DEF MavlinkSync, size
      <4>2. next = IF Len(rest) < body THEN more ELSE goto("WAIT_CRC")
        BY <1>4, <1>6, <3>4 DEF MavlinkStep, body
      <4>3. CASE Len(rest) < body
        <5>1. next = goto("WAIT_PAYLOAD")
          BY <2>2, <3>4, <4>2, <4>3
        <5> QED BY <1>9, <2>1, <3>1, <4>3, <5>1 DEF States, next, u
      <4>4. CASE ~(Len(rest) < body)
        <5>1. next = goto("WAIT_CRC")
          BY <4>2, <4>4
        <5>2. Len(rest) >= body /\ Len(rest) < body + CrcSize
          BY <1>1, <1>7, <3>2, <4>1, <4>4
        <5> QED BY <1>9, <2>1, <3>1, <5>1, <5>2 DEF States, next, u
      <4> QED BY <4>3, <4>4
    <3>5. CASE st.state = "WAIT_CRC"
      <4>1. size >= body /\ size < body + CrcSize
        BY <3>2, <3>5 DEF MavlinkSync, size
      <4>2. next = IF Len(rest) < body + CrcSize THEN more
                   ELSE IF IsSigned(rest) THEN goto("WAIT_SIGNATURE")
                   ELSE FinishFrame(more, Len(u))
        BY <1>4, <1>6, <3>5 DEF MavlinkStep, body
      <4>3. CASE Len(rest) < body + CrcSize
        <5>1. next = goto("WAIT_CRC") /\ Len(rest) >= body
          BY <1>7, <2>2, <3>2, <3>5, <4>1, <4>2, <4>3
        <5> QED BY <1>9, <2>1, <3>1, <4>3, <5>1 DEF States, next, u
      <4>4. CASE ~(Len(rest) < body + CrcSize) /\ IsSigned(rest)
        <5>1. next = goto("WAIT_SIGNATURE")
          BY <4>2, <4>4
        <5>2. Len(rest) >= body + CrcSize /\ Len(rest) < body + CrcSize + SignatureSize
          BY <1>1, <1>7, <3>2, <4>1, <4>4
        <5> QED BY <1>9, <2>1, <3>1, <4>4, <5>1, <5>2 DEF States, next, u
      <4>5. CASE ~(Len(rest) < body + CrcSize) /\ ~IsSigned(rest)
        <5>1. Len(rest) = FullSize(rest)
          <6>1. Len(rest) = body + CrcSize
            BY <1>1, <1>7, <3>2, <4>1, <4>5
          <6> QED BY <1>1, <3>2, <3>3, <4>5, <6>1
        <5>2. FrontOf(more, Len(u)) = n + 1
          BY <1>1, <1>4, <1>5 DEF FrontOf
        <5>3. next = IF MavlinkChecks(rest)
                     THEN [more EXCEPT !.starts = @ \cup {n + 1}, !.state = "WAIT_STX", !.buf = <<>>]
                     ELSE [more EXCEPT !.errors = @ + 1, !.state = "WAIT_STX", !.buf = <<>>]
          BY <1>4, <4>2, <4>5, <5>2 DEF FinishFrame
        <5>4. /\ next.buf = <<>> /\ next.state = "WAIT_STX"
              /\ next.starts = IF MavlinkChecks(rest) THEN more.starts \cup {n + 1} ELSE more.starts
              /\ next.errors = IF MavlinkChecks(rest) THEN more.errors ELSE more.errors + 1
          BY <1>2, <5>3 DEF ParserStates
        <5>5. next \in ParserStates(p)
          <6>1. /\ more.starts \cup {n + 1} \in SUBSET Nat /\ more.errors + 1 \in Nat
                /\ "WAIT_STX" \in States
            BY <1>1, <1>2 DEF ParserStates, States
          <6>2. <<>> \in Seq(Bytes[p])
            BY EmptySeq
          <6> QED BY <1>2, <5>3, <6>1, <6>2 DEF ParserStates
        <5> QED BY <1>10, <2>1, <3>1, <4>5, <5>1, <5>4, <5>5 DEF next, u
      <4> QED BY <4>3, <4>4, <4>5
    <3>6. CASE st.state = "WAIT_SIGNATURE"
      <4>1. /\ size >= body + CrcSize /\ size < body + CrcSize + SignatureSize /\ IsSigned(rest)
        BY <3>2, <3>6 DEF MavlinkSync, size
      <4>2. next = IF Len(rest) < body + CrcSize + SignatureSize THEN more
                   ELSE [more EXCEPT !.state = "WAIT_STX", !.buf = <<>>]
        BY <1>4, <1>6, <3>6 DEF MavlinkStep, body
      <4>3. CASE Len(rest) < body + CrcSize + SignatureSize
        <5>1. next = goto("WAIT_SIGNATURE") /\ Len(rest) >= body + CrcSize
          BY <1>1, <1>7, <2>2, <3>2, <3>6, <4>1, <4>2, <4>3
        <5> QED BY <1>9, <2>1, <3>1, <4>1, <4>3, <5>1 DEF States, next, u
      <4>4. CASE ~(Len(rest) < body + CrcSize + SignatureSize)
        <5>1. Len(rest) = FullSize(rest)
          <6>1. Len(rest) = body + CrcSize + SignatureSize
            BY <1>1, <1>7, <3>2, <4>1, <4>4
          <6> QED BY <1>1, <3>2, <3>3, <4>1, <6>1
        <5>2. next = [more EXCEPT !.state = "WAIT_STX", !.buf = <<>>]
          BY <4>2, <4>4
        <5>3. /\ next.buf = <<>> /\ next.state = "WAIT_STX" /\ next.starts = more.starts
              /\ next.errors = more.errors
          BY <1>2, <5>2 DEF ParserStates
        <5>4. next \in ParserStates(p)
          <6>1. <<>> \in Seq(Bytes[p]) /\ "WAIT_STX" \in States
            BY EmptySeq DEF States
          <6> QED BY <1>2, <5>2, <6>1 DEF ParserStates
        <5> QED BY <1>10, <2>1, <3>1, <4>1, <5>1, <5>3, <5>4 DEF next, u
      <4> QED BY <4>3, <4>4
    <3> QED BY <2>6, <3>4, <3>5, <3>6
  <2> QED BY <1>4, <1>12, <2>4, <2>5, <2>6 DEF States
<1> QED BY <1>11, <1>12

-----------------------------------------------------------------------------
(* The inductive invariant of all three.                                   *)

\* The inductive invariant: the parser has decided the first n places as the
\* reference does, the next one is open, and what else it remembers of its
\* protocol fits.
InStep(p, s, st) ==
  /\ s \in Streams(p) /\ st \in ParserStates(p)
  /\ \E n \in 0 .. Len(s) :
       At(p, s, n, st) /\ OpenAt(p, s, n) /\ (p = "SBUS" => SbusSync(s, n, st))
  /\ p = "MAVLINK" => MavlinkSync(st)

ParserInv == protocol \in Protocols /\ InStep(protocol, stream, parser)

\* A parser that has seen nothing is in step.
LEMMA ResetInStep ==
  ASSUME NEW p \in Protocols
  PROVE  InStep(p, <<>>, Reset)
<1>1. /\ LqWindow \in Nat /\ LqWindow >= 1 /\ StreamLimit[p] \in Nat
  BY SizesType, FrameParsersAssumption
<1>2. <<>> \in Streams(p) /\ <<>> \in Seq(Bytes[p]) /\ Len(<<>>) = 0 /\ 0 \in 0 .. Len(<<>>)
  BY <1>1, EmptySeq DEF Streams
<1>3. Reset \in ParserStates(p)
  <2>1. /\ [i \in 0 .. LqWindow - 1 |-> FALSE] \in [0 .. LqWindow - 1 -> BOOLEAN]
        /\ 0 \in 0 .. LqWindow - 1 /\ 0 \in 0 .. LqWindow /\ 0 \in 0 .. 100
        /\ "WAIT_STX" \in States /\ {} \in SUBSET Nat
    BY <1>1 DEF States
  <2> QED BY <1>2, <2>1 DEF Reset, ParserStates
<1>4. GoodOf(p, <<>>, 0) = {} /\ BadOf(p, <<>>, 0) = {}
  BY BadType
<1>5. Errors(p, {}) = 0
  <2>1. Cardinality({}) = 0 /\ {i \in {} : {} \cap (i - SbusSize + 1 .. i - 1) = {}} = {}
    BY FS_EmptySet
  <2> QED BY <2>1 DEF Errors
<1>6. Rest(<<>>, 0) = <<>>
  BY <1>2, RestIs
<1>7. At(p, <<>>, 0, Reset)
  <2>1. Settled(p, <<>>, 0)
    <3>1. 1 .. 0 = {}
      OBVIOUS
    <3> QED BY <3>1, Zenon DEF Settled
  <2>2. Reset.buf = <<>> /\ Reset.starts = {} /\ Reset.errors = 0
    BY DEF Reset
  <2> QED BY <1>2, <1>4, <1>5, <1>6, <2>1, <2>2 DEF At
<1>8. OpenAt(p, <<>>, 0) /\ SbusSync(<<>>, 0, Reset) /\ MavlinkSync(Reset)
  <2>1. BadOf("SBUS", <<>>, 0) = {}
    BY BadType
  <2> QED BY <1>2, <2>1 DEF OpenAt, SbusSync, MavlinkSync, Reset
<1> QED BY <1>2, <1>3, <1>7, <1>8 DEF InStep

\* Every byte keeps a parser in step, garbage or not.
LEMMA PushInStep ==
  ASSUME NEW p \in Protocols, NEW s, NEW st, InStep(p, s, st),
         NEW b \in Bytes[p], Len(s) < StreamLimit[p]
  PROVE  InStep(p, Append(s, b), Push(p, st, b, Len(Append(s, b))))
<1> DEFINE u == Append(s, b)
           next == Push(p, st, b, Len(u))
<1>1. s \in Streams(p) /\ st \in ParserStates(p)
  BY DEF InStep
<1>2. PICK n \in 0 .. Len(s) :
        At(p, s, n, st) /\ OpenAt(p, s, n) /\ (p = "SBUS" => SbusSync(s, n, st))
  BY DEF InStep
<1>3. u \in Streams(p)
  BY <1>1, GrowsType
<1>4. CASE p = "CRSF"
  <2>1. /\ CrsfPush(st, b, Len(u)) \in ParserStates(p)
        /\ \E m \in 0 .. Len(u) : At(p, u, m, CrsfPush(st, b, Len(u))) /\ OpenAt(p, u, m)
    BY <1>1, <1>2, <1>4, CrsfPushDecides
  <2>2. next = CrsfPush(st, b, Len(u)) /\ p # "SBUS" /\ p # "MAVLINK"
    BY <1>4 DEF Push
  <2> HIDE DEF u, next
  <2>3. InStep(p, u, next)
    BY <1>3, <2>1, <2>2 DEF InStep
  <2> QED BY <2>3 DEF u, next
<1>5. CASE p = "SBUS"
  <2>1. /\ SbusPush(st, b, Len(u)) \in ParserStates(p)
        /\ \E m \in 0 .. Len(u) : /\ At(p, u, m, SbusPush(st, b, Len(u))) /\ OpenAt(p, u, m)
                                  /\ SbusSync(u, m, SbusPush(st, b, Len(u)))
    BY <1>1, <1>2, <1>5, SbusPushDecides
  <2>2. next = SbusPush(st, b, Len(u)) /\ p # "MAVLINK"
    BY <1>5 DEF Push
  <2> HIDE DEF u, next
  <2>3. InStep(p, u, next)
    BY <1>3, <2>1, <2>2 DEF InStep
  <2> QED BY <2>3 DEF u, next
<1>6. CASE p = "MAVLINK"
  <2>0. MavlinkSync(st)
    BY <1>6 DEF InStep
  <2>1. /\ MavlinkPush(st, b, Len(u)) \in ParserStates(p)
        /\ \E m \in 0 .. Len(u) : At(p, u, m, MavlinkPush(st, b, Len(u)))
        /\ MavlinkSync(MavlinkPush(st, b, Len(u)))
    BY <1>1, <1>2, <1>6, <2>0, MavlinkPushDecides
  <2>2. next = MavlinkPush(st, b, Len(u)) /\ p # "SBUS" /\ p \in {"MAVLINK"}
    BY <1>6 DEF Push
  <2> HIDE DEF u, next
  <2>3. PICK m \in 0 .. Len(u) : At(p, u, m, next)
    BY <2>1, <2>2
  <2>4. OpenAt(p, u, m)
    BY <1>3, <2>1, <2>2, <2>3, MavlinkOpen
  <2>5. InStep(p, u, next)
    BY <1>3, <2>1, <2>2, <2>3, <2>4 DEF InStep
  <2> QED BY <2>5 DEF u, next
<1> QED BY <1>4, <1>5, <1>6 DEF Protocols

\* So a parser is in step after any bytes.
LEMMA ParserInvariant == Spec => []ParserInv
<1>1. Init => ParserInv
  BY ResetInStep DEF Init, ParserInv
<1>2. ParserInv /\ [Next]_vars => ParserInv'
  <2> SUFFICES ASSUME ParserInv, [Next]_vars PROVE ParserInv'
    OBVIOUS
  <2>1. CASE UNCHANGED vars
    BY <2>1 DEF ParserInv, vars
  <2>2. ASSUME NEW b \in Bytes[protocol], Receive(b) PROVE ParserInv'
    <3>1. /\ protocol \in Protocols /\ InStep(protocol, stream, parser)
          /\ Len(stream) < StreamLimit[protocol]
          /\ stream' = Append(stream, b) /\ protocol' = protocol
          /\ parser' = Push(protocol, parser, b, Len(stream'))
      BY <2>2 DEF Receive, ParserInv
    <3>2. InStep(protocol, Append(stream, b), Push(protocol, parser, b, Len(Append(stream, b))))
      BY <3>1, PushInStep
    <3> QED BY <3>1, <3>2 DEF ParserInv
  <2> QED BY <2>1, <2>2 DEF Next
<1> QED BY <1>1, <1>2, PTL DEF Spec

\* After any bytes, garbage and corrupted frames included, drainBuffer, push and
\* processByte have accepted exactly the frames of the reference, counted its
\* errors and kept exactly the bytes from the first open place on: they get back
\* in step without losing an intact frame.
THEOREM FramesAreExact == Spec => []ParserIsExact
<1>1. ParserInv => ParserIsExact
  <2> SUFFICES ASSUME ParserInv PROVE ParserIsExact
    OBVIOUS
  <2>1. protocol \in Protocols /\ stream \in Streams(protocol)
    BY DEF ParserInv, InStep
  <2>2. PICK n \in 0 .. Len(stream) :
          At(protocol, stream, n, parser) /\ OpenAt(protocol, stream, n)
    BY DEF ParserInv, InStep
  <2>3. /\ Reference(protocol, stream).starts = GoodOf(protocol, stream, n)
        /\ Reference(protocol, stream).errors = Errors(protocol, BadOf(protocol, stream, n))
        /\ Reference(protocol, stream).buf = Rest(stream, n)
    BY <2>1, <2>2, ReferenceIsSettled DEF At
  <2> QED BY <2>2, <2>3 DEF At, ParserIsExact
<1> QED BY <1>1, ParserInvariant, PTL

\* What a parser is collecting is shorter than its longest frame.
LEMMA FrameFits ==
  ASSUME NEW p \in Protocols, NEW s, NEW st, InStep(p, s, st)
  PROVE  /\ p = "CRSF" => Len(st.buf) < CrsfCapacity
         /\ p = "SBUS" => Len(st.buf) < SbusSize
         /\ p = "MAVLINK" =>
              Len(st.buf) < 1 + HeaderSize + Max(Bytes[p]) + CrcSize + SignatureSize
<1>1. s \in Streams(p) /\ st \in ParserStates(p)
  BY DEF InStep
<1>2. PICK n \in 0 .. Len(s) : At(p, s, n, st) /\ OpenAt(p, s, n)
  BY DEF InStep
<1>3. /\ Len(s) \in Nat /\ n \in Nat /\ n <= Len(s) /\ st.buf = Rest(s, n)
      /\ Len(Rest(s, n)) = Len(s) - n
      /\ HeaderSize \in Nat /\ HeaderSize >= 2 /\ CrcSize \in Nat /\ CrcSize >= 1
      /\ SignatureSize \in Nat /\ SignatureSize >= 1 /\ SbusSize \in Nat /\ SbusSize >= 3
  BY <1>1, <1>2, StreamType, SizesType, RestIs DEF At
<1>4. ASSUME p = "CRSF" PROVE Len(st.buf) < CrsfCapacity
  BY <1>1, <1>2, <1>3, <1>4, CrsfFits
<1>5. ASSUME p = "SBUS" PROVE Len(st.buf) < SbusSize
  <2>1. n = Len(s) \/ Len(s) < n + SbusSize
    BY <1>1, <1>2, <1>5, SbusFront
  <2> QED BY <1>3, <2>1
<1>6. ASSUME p = "MAVLINK"
      PROVE  Len(st.buf) < 1 + HeaderSize + Max(Bytes[p]) + CrcSize + SignatureSize
  <2> DEFINE rest == Rest(s, n)
             most == Max(Bytes[p])
             size == Len(rest)
             payload == PayloadOf(rest)
  <2>1. Bytes[p] \in SUBSET (0 .. 255) /\ Bytes[p] # {}
    BY FrameParsersAssumption
  <2>2. most \in Bytes[p] /\ most \in Nat /\ \A y \in Bytes[p] : y <= most
    <3> DEFINE values == Bytes[p]
    <3>1. values \in SUBSET (0 .. 255) /\ values # {} /\ 255 \in Nat
      BY <2>1
    <3> HIDE DEF values
    <3>2. Max(values) \in values /\ \A y \in values : y <= Max(values)
      BY <3>1, MaxIsGreatest
    <3>3. Max(values) \in 0 .. 255
      BY <3>1, <3>2, Zenon
    <3>4. Max(values) \in Nat
      <4>1. \A x \in 0 .. 255 : x \in Nat
        OBVIOUS
      <4> QED BY <3>3, <4>1, Zenon
    <3> QED BY <3>2, <3>4 DEF values
  <2>3. Len(st.buf) = size /\ size = Len(s) - n
    BY <1>3, Zenon
  <2> HIDE DEF most, size
  <2>4. size \in Nat /\ most \in Nat
    <3>1. size \in Nat
      BY <1>3, <2>3
    <3> QED BY <2>2, <3>1, Zenon
  <2>5. CASE size < 3
    <3>1. size < 1 + HeaderSize + most + CrcSize + SignatureSize
      BY <1>3, <2>4, <2>5
    <3> QED BY <2>3, <3>1 DEF most
  <2>6. CASE ~(size < 3)
    <3>1. size >= 3 /\ n < Len(s)
      BY <1>3, <2>3, <2>4, <2>6
    <3>2. /\ payload \in Bytes[p] /\ payload \in Nat
          /\ BodySize(rest) = 1 + HeaderSize + payload
      BY <1>1, <1>6, <3>1, MavlinkFront DEF size
    <3>3. \/ size < 1 + HeaderSize \/ size < BodySize(rest) \/ size < BodySize(rest) + CrcSize
          \/ size < BodySize(rest) + CrcSize + SignatureSize
      <4>1. MavlinkSync(st) /\ st.buf = rest
        BY <1>3, <1>6 DEF InStep
      <4>2. size # 0 /\ size # 1
        BY <2>4, <3>1
      <4>3. Len(rest) # 0 /\ Len(rest) # 1
        BY <4>2 DEF size
      <4> QED BY <4>1, <4>3, Zenon DEF MavlinkSync, size
    <3>4. payload <= most
      BY <2>2, <3>2
    <3> HIDE DEF payload
    <3>5. size < 1 + HeaderSize + most + CrcSize + SignatureSize
      <4> DEFINE body == BodySize(rest)
      <4>1. body = 1 + HeaderSize + payload
        BY <3>2
      <4>2. \/ size < 1 + HeaderSize \/ size < body \/ size < body + CrcSize
            \/ size < body + CrcSize + SignatureSize
        BY <3>3
      <4> HIDE DEF body
      <4>3. payload \in Nat
        BY <3>2
      <4> QED BY <1>3, <2>4, <3>4, <4>1, <4>2, <4>3
    <3> QED BY <2>3, <3>5 DEF most
  <2> QED BY <2>5, <2>6
<1> QED BY <1>4, <1>5, <1>6

\* The values of the three parsers are of their types, and what one of them is
\* collecting is shorter than its longest frame: the overflow guard of
\* CrsfParser::push never cuts a frame short.
THEOREM ParserTypeCorrect == Spec => []TypeOK
<1>1. ParserInv => TypeOK
  <2> SUFFICES ASSUME ParserInv PROVE TypeOK
    OBVIOUS
  <2>1. protocol \in Protocols /\ InStep(protocol, stream, parser)
    BY DEF ParserInv
  <2>2. stream \in Streams(protocol) /\ parser \in ParserStates(protocol)
    BY <2>1 DEF InStep
  <2>3. Len(parser.buf) < Longest
    BY <2>1, FrameFits DEF Longest, Protocols
  <2>4. parser.starts \subseteq Places(stream)
    <3>1. PICK n \in 0 .. Len(stream) : At(protocol, stream, n, parser)
      BY <2>1 DEF InStep
    <3>2. parser.starts \subseteq 1 .. n /\ n \in Nat /\ n <= Len(stream) /\ Len(stream) \in Nat
      BY <2>1, <2>2, <3>1, BadType, StreamType DEF At
    <3> QED BY <3>2 DEF Places
  <2>5. stream \in Seq(Bytes[protocol])
    BY <2>1, <2>2, StreamType
  <2> QED BY <2>2, <2>3, <2>4, <2>5 DEF TypeOK, ParserStates, States
<1> QED BY <1>1, ParserInvariant, PTL

-----------------------------------------------------------------------------
(* The loss window of SBUS.                                                *)

\* Newer(S, i): how many of the places S come after i.
Newer(S, i) == Cardinality({j \in S : j > i})

\* It tells the places apart, and a later place has fewer after it.
LEMMA NewerOrders ==
  ASSUME NEW n \in Nat, NEW S \in SUBSET (1 .. n)
  PROVE  /\ IsFiniteSet(S) /\ Cardinality(S) \in Nat
         /\ \A i \in S : Newer(S, i) \in 0 .. Cardinality(S) - 1
         /\ \A i, j \in S : i < j => Newer(S, j) < Newer(S, i)
<1> DEFINE After(i) == {j \in S : j > i}
<1>1. IsFiniteSet(S) /\ Cardinality(S) \in Nat
  <2>1. IsFiniteSet(1 .. n)
    BY FS_Interval
  <2> QED BY <2>1, FS_Subset, FS_CardinalityType
<1>2. \A i \in S : i \in Nat
  OBVIOUS
<1>3. ASSUME NEW i \in S PROVE IsFiniteSet(After(i)) /\ Newer(S, i) \in 0 .. Cardinality(S) - 1
  <2>1. After(i) \in SUBSET S /\ After(i) # S
    BY <1>2
  <2> HIDE DEF After
  <2>2. /\ IsFiniteSet(After(i)) /\ Cardinality(After(i)) <= Cardinality(S)
        /\ Cardinality(S) # Cardinality(After(i))
    BY <1>1, <2>1, FS_Subset
  <2>3. Cardinality(After(i)) \in Nat
    BY <2>2, FS_CardinalityType
  <2>4. Cardinality(After(i)) \in 0 .. Cardinality(S) - 1
    BY <1>1, <2>2, <2>3
  <2> QED BY <2>2, <2>4 DEF After, Newer
<1>4. ASSUME NEW i \in S, NEW j \in S, i < j PROVE Newer(S, j) < Newer(S, i)
  <2>1. After(j) \in SUBSET After(i) /\ After(j) # After(i)
    <3>1. \A k \in S : k > j => k > i
      BY <1>2, <1>4
    <3>2. j \in After(i) /\ j \notin After(j)
      BY <1>2, <1>4
    <3>3. \A k \in After(j) : k \in S /\ k > i
      BY <3>1
    <3>4. After(j) \subseteq After(i)
      BY <3>3
    <3> QED BY <3>2, <3>4
  <2>2. IsFiniteSet(After(i)) /\ IsFiniteSet(After(j))
    BY <1>3
  <2> HIDE DEF After
  <2>3. /\ Cardinality(After(j)) <= Cardinality(After(i))
        /\ Cardinality(After(i)) # Cardinality(After(j))
    BY <2>1, <2>2, FS_Subset
  <2>4. Cardinality(After(i)) \in Nat /\ Cardinality(After(j)) \in Nat
    BY <2>2, FS_CardinalityType
  <2>5. Cardinality(After(j)) < Cardinality(After(i))
    BY <2>3, <2>4
  <2> QED BY <2>5 DEF After, Newer
<1> QED BY <1>1, <1>3, <1>4

\* A new last place makes every other one older by 1.
LEMMA NewerAges ==
  ASSUME NEW n \in Nat, NEW S \in SUBSET (1 .. n)
  PROVE  /\ Newer(S \cup {n + 1}, n + 1) = 0
         /\ \A i \in S : Newer(S \cup {n + 1}, i) = Newer(S, i) + 1
         /\ n + 1 \notin S /\ Cardinality(S \cup {n + 1}) = Cardinality(S) + 1
<1> DEFINE x == n + 1
<1>1. \A i \in S : i \in Nat /\ i < x
  OBVIOUS
<1>2. x \notin S /\ x \in Nat
  BY <1>1
<1>3. IsFiniteSet(S) /\ Cardinality(S) \in Nat
  BY NewerOrders
<1> HIDE DEF x
<1>4. Cardinality(S \cup {x}) = Cardinality(S) + 1
  BY <1>2, <1>3, FS_AddElement
<1>5. Newer(S \cup {x}, x) = 0
  <2>1. {j \in S \cup {x} : j > x} = {}
    <3>1. ~(x > x) /\ \A j \in S : ~(j > x)
      BY <1>1, <1>2
    <3> QED BY <3>1
  <2> QED BY <2>1, FS_EmptySet DEF Newer
<1>6. ASSUME NEW i \in S PROVE Newer(S \cup {x}, i) = Newer(S, i) + 1
  <2> DEFINE after == {j \in S : j > i}
  <2>1. {j \in S \cup {x} : j > i} = after \cup {x} /\ x \notin after /\ after \in SUBSET S
    BY <1>1, <1>2
  <2> HIDE DEF after
  <2>2. IsFiniteSet(after)
    BY <1>3, <2>1, FS_Subset
  <2>3. Cardinality(after \cup {x}) = Cardinality(after) + 1
    BY <2>1, <2>2, FS_AddElement
  <2>4. Newer(S \cup {x}, i) = Cardinality(after \cup {x})
    BY <2>1 DEF Newer
  <2>5. Newer(S, i) = Cardinality(after)
    BY DEF after, Newer
  <2> QED BY <2>3, <2>4, <2>5
<1> QED BY <1>2, <1>4, <1>5, <1>6 DEF x

\* The slot of the window that holds the frame of age a, if the next one goes
\* to the slot index.
Slot(index, a) == IF a < index THEN index - 1 - a ELSE index - 1 - a + LqWindow

\* Writing the next frame makes every other one a frame older, where it is.
LEMMA SlotAges ==
  ASSUME NEW index \in 0 .. LqWindow - 1
  PROVE  /\ Slot((index + 1) % LqWindow, 0) = index
         /\ \A a \in 0 .. LqWindow - 2 :
              /\ Slot((index + 1) % LqWindow, a + 1) = Slot(index, a)
              /\ Slot(index, a) # index /\ Slot(index, a) \in 0 .. LqWindow - 1
<1>1. LqWindow \in Nat /\ LqWindow >= 1 /\ index \in Nat /\ index < LqWindow
  BY SizesType
<1>2. (index + 1) % LqWindow = IF index + 1 = LqWindow THEN 0 ELSE index + 1
  BY <1>1
<1> DEFINE next == (index + 1) % LqWindow
<1> HIDE DEF next
<1>3. Slot(next, 0) = index
  BY <1>1, <1>2 DEF next, Slot
<1>4. ASSUME NEW a \in 0 .. LqWindow - 2
      PROVE  /\ Slot(next, a + 1) = Slot(index, a)
             /\ Slot(index, a) # index /\ Slot(index, a) \in 0 .. LqWindow - 1
  BY <1>1, <1>2 DEF next, Slot
<1> QED BY <1>3, <1>4 DEF next

\* The window holds whether the last frames were lost, and the quality is the
\* share of them.
Filled(st) == IF Cardinality(st.starts) < LqWindow THEN Cardinality(st.starts) ELSE LqWindow
Share(st) ==
  100 - (Cardinality({i \in 0 .. st.lqFilled - 1 : st.lost[i]}) * 100) \div st.lqFilled

QualitySync(s, st) ==
  /\ st.lqFilled = Filled(st)
  /\ Cardinality(st.starts) < LqWindow => st.lqIndex = Cardinality(st.starts)
  /\ \A i \in st.starts :
       Newer(st.starts, i) < st.lqFilled =>
         (st.lost[Slot(st.lqIndex, Newer(st.starts, i))] <=> s[i + SbusSize - 2] \in SbusLost)
  /\ st.starts # {} => st.lq = Share(st)

\* The quality is then the share of the last LqWindow frames: the filled part of
\* the window and those frames correspond one to one.
LEMMA WindowIsShare ==
  ASSUME NEW n \in Nat, NEW s, NEW st \in ParserStates("SBUS"), st.starts \subseteq 1 .. n,
         QualitySync(s, st), st.starts # {}
  PROVE  LET recent == {i \in st.starts : Newer(st.starts, i) < LqWindow}
             lost == {i \in recent : s[i + SbusSize - 2] \in SbusLost}
         IN  st.lq = 100 - (Cardinality(lost) * 100) \div Cardinality(recent)
<1> DEFINE S == st.starts
           size == Cardinality(S)
           filled == st.lqFilled
           index == st.lqIndex
           recent == {i \in S : Newer(S, i) < LqWindow}
           lost == {i \in recent : s[i + SbusSize - 2] \in SbusLost}
           marked == {i \in 0 .. filled - 1 : st.lost[i]}
           F == [i \in recent |-> Slot(index, Newer(S, i))]
           G == [i \in lost |-> F[i]]
<1>1. /\ size \in Nat /\ IsFiniteSet(S)
      /\ \A i \in S : Newer(S, i) \in 0 .. size - 1
      /\ \A i, j \in S : i < j => Newer(S, j) < Newer(S, i)
      /\ \A i \in S : i \in Nat
  <2> HIDE DEF S
  <2>1. S \in SUBSET (1 .. n)
    BY DEF S
  <2>2. \A i \in S : i \in Nat
    BY <2>1
  <2> QED BY <2>1, <2>2, NewerOrders
<1>2. /\ filled = IF size < LqWindow THEN size ELSE LqWindow
      /\ size < LqWindow => index = size
      /\ index \in 0 .. LqWindow - 1
      /\ LqWindow \in Nat /\ LqWindow >= 1
      /\ \A i \in S : Newer(S, i) < filled =>
           (st.lost[Slot(index, Newer(S, i))] <=> s[i + SbusSize - 2] \in SbusLost)
      /\ st.lq = Share(st)
  BY SizesType DEF QualitySync, Filled, ParserStates
<1> HIDE DEF S, size, filled, index
<1>3. size >= 1
  <2>1. size # 0
    BY <1>1, FS_EmptySet DEF S, size
  <2> QED BY <1>1, <2>1
<1>4. filled \in Nat /\ filled >= 1
  BY <1>1, <1>2, <1>3
<1>5. \A i \in S : Newer(S, i) < LqWindow <=> Newer(S, i) < filled
  BY <1>1, <1>2
<1>6. \A a \in 0 .. filled - 1 : Slot(index, a) \in 0 .. filled - 1
  BY <1>1, <1>2, <1>4 DEF Slot
<1>7. \A a, c \in 0 .. filled - 1 : Slot(index, a) = Slot(index, c) => a = c
  BY <1>1, <1>2, <1>4 DEF Slot
<1>8. \A i \in recent : i \in S /\ Newer(S, i) \in 0 .. filled - 1
  BY <1>1, <1>4, <1>5
<1>9. \A i, j \in S : Newer(S, i) = Newer(S, j) => i = j
  <2> SUFFICES ASSUME NEW i \in S, NEW j \in S, Newer(S, i) = Newer(S, j), i # j
               PROVE  FALSE
    OBVIOUS
  <2>1. i < j \/ j < i
    BY <1>1
  <2>2. Newer(S, i) < Newer(S, j) \/ Newer(S, j) < Newer(S, i)
    BY <1>1, <2>1
  <2>3. Newer(S, i) \in Nat /\ Newer(S, j) \in Nat
    BY <1>1
  <2> QED BY <2>2, <2>3
<1>10. \A a \in 0 .. size - 1 : \E i \in S : Newer(S, i) = a
  <2> DEFINE R == [i \in S |-> Newer(S, i)]
             ages == 0 .. size - 1
  <2>1. IsFiniteSet(ages) /\ Cardinality(ages) = Cardinality(S)
    <3>1. /\ IsFiniteSet(0 .. size - 1)
          /\ Cardinality(0 .. size - 1) = IF 0 > size - 1 THEN 0 ELSE size - 1 - 0 + 1
      <4>1. 0 \in Int /\ size - 1 \in Int
        BY <1>1
      <4> QED BY <4>1, FS_Interval
    <3> QED BY <1>1, <1>3, <3>1 DEF size
  <2>2. R \in Injection(S, ages)
    BY <1>1, <1>9 DEF Injection, IsInjective
  <2> HIDE DEF R, ages
  <2>3. R \in Surjection(S, ages)
    BY <2>1, <2>2, FS_Injection
  <2> QED BY <2>3 DEF Surjection, R, ages
<1>11. Cardinality(0 .. filled - 1) = filled /\ IsFiniteSet(0 .. filled - 1)
  <2>1. 0 \in Int /\ filled - 1 \in Int /\ ~(0 > filled - 1) /\ filled - 1 - 0 + 1 = filled
    BY <1>4
  <2> QED BY <2>1, FS_Interval
<1>12. recent \subseteq S /\ IsFiniteSet(recent)
  <2>1. recent \in SUBSET S
    OBVIOUS
  <2> HIDE DEF recent
  <2> QED BY <1>1, <2>1, FS_Subset
<1>13. Cardinality(recent) = filled
  <2> DEFINE R == [i \in recent |-> Newer(S, i)]
             ages == 0 .. filled - 1
  <2>1. R \in Injection(recent, ages)
    BY <1>8, <1>9 DEF Injection, IsInjective
  <2>2. ASSUME NEW a \in ages PROVE \E i \in recent : R[i] = a
    <3>1. a \in 0 .. size - 1 /\ a < LqWindow
      BY <1>1, <1>2, <1>4
    <3>2. PICK i \in S : Newer(S, i) = a
      BY <1>10, <3>1
    <3>3. i \in recent
      BY <3>1, <3>2
    <3> QED BY <3>2, <3>3
  <2>3. R \in Bijection(recent, ages)
    BY <2>1, <2>2 DEF Bijection, Surjection, Injection
  <2> HIDE DEF R, ages, recent
  <2>4. Cardinality(ages) = Cardinality(recent)
    BY <1>12, <2>3, FS_Bijection DEF ExistsBijection
  <2> QED BY <1>11, <2>4 DEF ages
<1>14. F \in Injection(recent, 0 .. filled - 1)
  <2>1. F \in [recent -> 0 .. filled - 1]
    BY <1>6, <1>8
  <2>2. ASSUME NEW i \in recent, NEW j \in recent, F[i] = F[j] PROVE i = j
    <3>1. Slot(index, Newer(S, i)) = Slot(index, Newer(S, j))
      BY <2>2
    <3>2. Newer(S, i) = Newer(S, j)
      BY <1>7, <1>8, <3>1
    <3> QED BY <1>8, <1>9, <3>2
  <2> HIDE DEF F
  <2> QED BY <2>1, <2>2 DEF Injection, IsInjective
<1>15. F \in Surjection(recent, 0 .. filled - 1)
  <2> HIDE DEF F, recent
  <2> QED BY <1>11, <1>13, <1>14, FS_Injection
<1>16. \A i \in recent : i \in lost <=> F[i] \in marked
  <2> SUFFICES ASSUME NEW i \in recent PROVE i \in lost <=> F[i] \in marked
    OBVIOUS
  <2>1. i \in S /\ Newer(S, i) < filled /\ F[i] \in 0 .. filled - 1
    BY <1>1, <1>5, <1>6, <1>8
  <2>2. st.lost[F[i]] <=> s[i + SbusSize - 2] \in SbusLost
    BY <1>2, <2>1
  <2> QED BY <2>1, <2>2
<1> HIDE DEF F, recent
<1>17. G \in Bijection(lost, marked)
  <2>1. lost \subseteq recent /\ marked \subseteq 0 .. filled - 1
    OBVIOUS
  <2> HIDE DEF lost, marked
  <2>2. G \in [lost -> marked] /\ \A i \in lost : G[i] = F[i]
    BY <1>16, <2>1
  <2>3. \A i, j \in lost : G[i] = G[j] => i = j
    BY <1>14, <2>1, <2>2 DEF Injection, IsInjective
  <2>4. \A a \in marked : \E i \in lost : G[i] = a
    BY <1>15, <1>16, <2>1, <2>2 DEF Surjection
  <2> HIDE DEF G
  <2> QED BY <2>2, <2>3, <2>4 DEF Bijection, Injection, Surjection, IsInjective
<1>18. Cardinality(marked) = Cardinality(lost)
  <2>1. lost \in SUBSET recent
    OBVIOUS
  <2> HIDE DEF lost, marked, G
  <2>2. IsFiniteSet(lost)
    BY <1>12, <2>1, FS_Subset
  <2> QED BY <1>17, <2>2, FS_Bijection DEF ExistsBijection
<1>19. st.lq = 100 - (Cardinality(lost) * 100) \div Cardinality(recent)
  <2>1. Share(st) = 100 - (Cardinality(marked) * 100) \div filled
    BY DEF Share, filled
  <2> HIDE DEF marked, lost
  <2> QED BY <1>2, <1>13, <1>18, <2>1
<1> QED BY <1>19 DEF S, recent

\* An accepted frame enters the window in the place of the oldest.
LEMMA AcceptSlides ==
  ASSUME NEW p \in {"SBUS"}, NEW s, NEW st \in ParserStates(p), NEW n \in Nat, NEW read,
         st.starts \subseteq 1 .. n, QualitySync(s, st), FrontOf(st, read) = n + 1,
         st.buf[SbusSize - 1] = s[n + 1 + SbusSize - 2]
  PROVE  QualitySync(s, SbusAccept(st, read))
<1> DEFINE next == SbusAccept(st, read)
           flag == st.buf[SbusSize - 1] \in SbusLost
           lost == [st.lost EXCEPT ![st.lqIndex] = flag]
           filled == IF st.lqFilled < LqWindow THEN st.lqFilled + 1 ELSE LqWindow
           index == (st.lqIndex + 1) % LqWindow
           quality == 100 - (Cardinality({i \in 0 .. filled - 1 : lost[i]}) * 100) \div filled
           S == st.starts
           size == Cardinality(S)
<1>1. /\ st.lost \in [0 .. LqWindow - 1 -> BOOLEAN] /\ st.lqIndex \in 0 .. LqWindow - 1
      /\ LqWindow \in Nat /\ LqWindow >= 1
      /\ st.lqFilled = IF size < LqWindow THEN size ELSE LqWindow
      /\ size < LqWindow => st.lqIndex = size
      /\ \A i \in S : Newer(S, i) < st.lqFilled =>
           (st.lost[Slot(st.lqIndex, Newer(S, i))] <=> s[i + SbusSize - 2] \in SbusLost)
  BY SizesType DEF ParserStates, QualitySync, Filled
<1>2. /\ size \in Nat /\ \A i \in S : Newer(S, i) \in 0 .. size - 1
      /\ Newer(S \cup {n + 1}, n + 1) = 0
      /\ \A i \in S : Newer(S \cup {n + 1}, i) = Newer(S, i) + 1
      /\ Cardinality(S \cup {n + 1}) = size + 1
  <2>1. S \in SUBSET (1 .. n)
    OBVIOUS
  <2> HIDE DEF S
  <2> QED BY <2>1, NewerOrders, NewerAges
<1>3. /\ next.starts = S \cup {n + 1} /\ next.lost = lost /\ next.lqFilled = filled
      /\ next.lqIndex = index /\ next.lq = quality
  <2> HIDE DEF lost, filled, index, quality, next
  <2>1. SbusQuality(st) = [st EXCEPT !.lost = lost, !.lqIndex = index, !.lqFilled = filled,
                                     !.lq = quality]
    BY DEF SbusQuality, lost, filled, index, quality
  <2>2. next = [SbusQuality(st) EXCEPT !.buf = <<>>, !.counted = FALSE, !.starts = @ \cup {n + 1}]
    BY DEF SbusAccept, next
  <2> QED BY <2>1, <2>2 DEF ParserStates
<1>4. /\ Slot(index, 0) = st.lqIndex
      /\ \A a \in 0 .. LqWindow - 2 :
           /\ Slot(index, a + 1) = Slot(st.lqIndex, a)
           /\ Slot(st.lqIndex, a) # st.lqIndex /\ Slot(st.lqIndex, a) \in 0 .. LqWindow - 1
  BY <1>1, SlotAges
<1> HIDE DEF next, S, size, quality
<1>5. next.lqFilled = Filled(next)
  BY <1>1, <1>2, <1>3 DEF Filled
<1>6. Cardinality(next.starts) < LqWindow => next.lqIndex = Cardinality(next.starts)
  <2>1. size + 1 < LqWindow => index = size + 1
    BY <1>1, <1>2
  <2> HIDE DEF index
  <2> QED BY <1>2, <1>3, <2>1
<1>7. ASSUME NEW i \in S \cup {n + 1}, Newer(S \cup {n + 1}, i) < filled
      PROVE  lost[Slot(index, Newer(S \cup {n + 1}, i))] <=> s[i + SbusSize - 2] \in SbusLost
  <2>1. CASE i = n + 1
    <3>1. lost[st.lqIndex] = flag
      BY <1>1
    <3> HIDE DEF lost, index
    <3> QED BY <1>2, <1>4, <2>1, <3>1
  <2>2. CASE i \in S
    <3> DEFINE a == Newer(S, i)
    <3>1. a \in Nat /\ a + 1 < filled /\ Newer(S \cup {n + 1}, i) = a + 1
      BY <1>2, <1>7, <2>2
    <3>2. st.lost[Slot(st.lqIndex, a)] <=> s[i + SbusSize - 2] \in SbusLost
      <4>1. a < st.lqFilled
        <5> HIDE DEF a
        <5> QED BY <1>1, <1>2, <3>1
      <4> QED BY <1>1, <2>2, <4>1
    <3> HIDE DEF a
    <3>3. a \in 0 .. LqWindow - 2
      BY <1>1, <1>2, <3>1
    <3>4. Slot(index, a + 1) = Slot(st.lqIndex, a)
      BY <1>4, <3>3
    <3>5. lost[Slot(st.lqIndex, a)] = st.lost[Slot(st.lqIndex, a)]
      BY <1>1, <1>4, <3>3
    <3> HIDE DEF lost, index
    <3> QED BY <3>1, <3>2, <3>4, <3>5
  <2> QED BY <1>7, <2>1, <2>2
<1>8. next.lq = Share(next)
  BY <1>3 DEF Share, quality
<1> HIDE DEF lost, filled, index
<1>9. \A i \in next.starts : Newer(next.starts, i) < next.lqFilled =>
         (next.lost[Slot(next.lqIndex, Newer(next.starts, i))] <=> s[i + SbusSize - 2] \in SbusLost)
  BY <1>3, <1>7
<1> QED BY <1>5, <1>6, <1>8, <1>9 DEF QualitySync, next

\* An accepted frame lies within the stream.
LEMMA SbusWithin ==
  ASSUME NEW p \in {"SBUS"}, NEW s \in Streams(p), NEW n \in 0 .. Len(s)
  PROVE  \A i \in GoodOf(p, s, n) : i \in 1 .. n /\ i + SbusSize - 2 \in 1 .. Len(s)
<1>0. p \in Protocols
  BY DEF Protocols
<1>1. Len(s) \in Nat /\ n \in Nat /\ SbusSize \in Nat /\ SbusSize >= 3
  BY <1>0, StreamType, SizesType
<1>2. \A i : Total(p, s, i) = IF s[i] = SbusHeader THEN SbusSize ELSE 0
  BY <1>0, SbusFront
<1>3. ASSUME NEW i \in GoodOf(p, s, n) PROVE i \in 1 .. n /\ i + SbusSize - 2 \in 1 .. Len(s)
  <2>1. i \in 1 .. n /\ Total(p, s, i) # 0 /\ i + Total(p, s, i) - 1 <= Len(s)
    BY DEF GoodOf, Good, Complete
  <2>2. Total(p, s, i) = SbusSize
    BY <1>2, <2>1
  <2> QED BY <1>1, <2>1, <2>2
<1> QED BY <1>3

\* A byte keeps the window in step.
LEMMA PushKeepsShare ==
  ASSUME NEW p \in {"SBUS"}, NEW s \in Streams(p), NEW b \in Bytes[p], Len(s) < StreamLimit[p],
         NEW st \in ParserStates(p), NEW n \in 0 .. Len(s), At(p, s, n, st), OpenAt(p, s, n),
         QualitySync(s, st)
  PROVE  QualitySync(Append(s, b), SbusPush(st, b, Len(Append(s, b))))
<1> DEFINE u == Append(s, b)
           next == SbusPush(st, b, Len(u))
           more == [st EXCEPT !.buf = Append(st.buf, b)]
<1>0. p \in Protocols
  BY DEF Protocols
<1>1. /\ Len(s) \in Nat /\ n \in Nat /\ n <= Len(s) /\ SbusSize \in Nat /\ SbusSize >= 3
      /\ u \in Streams(p) /\ Len(u) = Len(s) + 1
      /\ \A k \in 1 .. Len(s) : u[k] = s[k]
  BY <1>0, StreamType, SizesType, GrowsType
<1>2. /\ n \in 0 .. Len(u) /\ more \in ParserStates(p) /\ At(p, u, n, more)
      /\ Append(st.buf, b) = Rest(u, n)
  BY <1>0, AtGrows
<1>3. \A i \in st.starts : i \in 1 .. n /\ u[i + SbusSize - 2] = s[i + SbusSize - 2]
  <2>1. st.starts = GoodOf(p, s, n)
    BY DEF At
  <2> QED BY <1>1, <2>1, SbusWithin
<1>4. QualitySync(u, st)
  <2> HIDE DEF u
  <2> QED BY <1>3 DEF QualitySync
<1>5. ASSUME NEW other, other.starts = st.starts, other.lost = st.lost,
             other.lqIndex = st.lqIndex, other.lqFilled = st.lqFilled, other.lq = st.lq
      PROVE  QualitySync(u, other)
  <2> HIDE DEF u
  <2> QED BY <1>4, <1>5 DEF QualitySync, Filled, Share
<1>6. QualitySync(u, more)
  <2>1. /\ more.starts = st.starts /\ more.lost = st.lost /\ more.lqIndex = st.lqIndex
        /\ more.lqFilled = st.lqFilled /\ more.lq = st.lq
    BY DEF ParserStates
  <2> HIDE DEF more
  <2> QED BY <1>5, <2>1
<1>7. QualitySync(u, SbusReject(more))
  <2>1. \E errors, counted, buf :
          SbusReject(more) = [more EXCEPT !.errors = errors, !.counted = counted, !.buf = buf]
    BY DEF SbusReject
  <2>2. /\ more.starts = st.starts /\ more.lost = st.lost /\ more.lqIndex = st.lqIndex
        /\ more.lqFilled = st.lqFilled /\ more.lq = st.lq
    BY DEF ParserStates
  <2> HIDE DEF more
  <2>3. LET other == SbusReject(more)
        IN  /\ other.starts = st.starts /\ other.lost = st.lost /\ other.lqIndex = st.lqIndex
            /\ other.lqFilled = st.lqFilled /\ other.lq = st.lq
    BY <1>2, <2>1, <2>2 DEF ParserStates
  <2> QED BY <1>5, <2>3
<1>8. more.buf = Rest(u, n) /\ more.starts = st.starts
  BY <1>2 DEF ParserStates
<1>9. Len(more.buf) = Len(u) - n /\ \A k \in 1 .. Len(u) - n : more.buf[k] = u[n + k]
  <2>1. /\ Len(Rest(u, n)) = Len(u) - n
        /\ \A k \in 1 .. Len(u) - n : Rest(u, n)[k] = u[n + k]
    <3> HIDE DEF u
    <3> QED BY <1>0, <1>1, <1>2, RestIs
  <2> HIDE DEF u, more
  <2> QED BY <1>8, <2>1
<1>10. next = CASE st.buf = <<>> /\ b # SbusHeader -> st
                [] st.buf = <<>> /\ b = SbusHeader -> more
                [] st.buf # <<>> /\ Len(more.buf) < SbusSize -> more
                [] OTHER -> IF SbusChecks(more.buf) THEN SbusAccept(more, Len(u))
                            ELSE SbusReject(more)
  BY DEF SbusPush
<1> HIDE DEF u, next, more
<1>11. ASSUME st.buf # <<>>, ~(Len(more.buf) < SbusSize)
       PROVE  QualitySync(u, SbusAccept(more, Len(u)))
  <2>1. n # Len(s)
    BY <1>0, <1>11, RestIs DEF At
  <2>2. Len(s) < n + SbusSize
    BY <2>1, SbusFront
  <2>3. Len(u) = n + SbusSize
    <3>1. ~(Len(u) - n < SbusSize)
      BY <1>9, <1>11, Zenon
    <3> QED BY <1>1, <2>2, <3>1
  <2>4. FrontOf(more, Len(u)) = n + 1
    BY <1>1, <1>9, <2>3 DEF FrontOf
  <2>5. more.buf[SbusSize - 1] = u[n + 1 + SbusSize - 2]
    <3>1. SbusSize - 1 \in 1 .. Len(u) - n /\ n + (SbusSize - 1) = n + 1 + SbusSize - 2
      BY <1>1, <2>3
    <3> QED BY <1>9, <3>1
  <2>6. more.starts \subseteq 1 .. n
    BY <1>3, <1>8
  <2> QED BY <1>1, <1>2, <1>6, <2>4, <2>5, <2>6, AcceptSlides
<1>12. next \in {st, more, SbusReject(more)} \/
         (/\ st.buf # <<>> /\ ~(Len(more.buf) < SbusSize)
          /\ next = SbusAccept(more, Len(u)))
  BY <1>10
<1> QED BY <1>4, <1>6, <1>7, <1>11, <1>12 DEF u, next

\* The inductive invariant of the window, on top of that of the frames.
ShareInv == ParserInv /\ (protocol = "SBUS" => QualitySync(stream, parser))

\* recomputeLinkQuality: whatever lies between the frames and however often the
\* window went round, the link quality of SBUS is the share of the last LqWindow
\* accepted frames that were not marked lost.
THEOREM QualityIsTheShare == Spec => []QualityIsShare
<1>1. Init => ShareInv
  <2> SUFFICES ASSUME Init PROVE ShareInv
    OBVIOUS
  <2>1. ParserInv
    BY ResetInStep DEF Init, ParserInv
  <2>2. parser.starts = {} /\ parser.lqFilled = 0 /\ parser.lqIndex = 0
    BY DEF Init, Reset
  <2>3. Cardinality({}) = 0 /\ 0 < LqWindow
    BY SizesType, FS_EmptySet
  <2> QED BY <2>1, <2>2, <2>3 DEF ShareInv, QualitySync, Filled
<1>2. ShareInv /\ ParserInv' /\ [Next]_vars => ShareInv'
  <2> SUFFICES ASSUME ShareInv, ParserInv', [Next]_vars PROVE ShareInv'
    OBVIOUS
  <2>1. CASE UNCHANGED vars
    BY <2>1 DEF ShareInv, vars
  <2>2. ASSUME NEW b \in Bytes[protocol], Receive(b) PROVE ShareInv'
    <3>1. /\ Len(stream) < StreamLimit[protocol]
          /\ stream' = Append(stream, b) /\ protocol' = protocol
          /\ parser' = Push(protocol, parser, b, Len(stream'))
          /\ stream \in Streams(protocol) /\ parser \in ParserStates(protocol)
      BY <2>2 DEF Receive, ShareInv, ParserInv, InStep
    <3>2. PICK n \in 0 .. Len(stream) :
            At(protocol, stream, n, parser) /\ OpenAt(protocol, stream, n)
      BY DEF ShareInv, ParserInv, InStep
    <3>3. ASSUME protocol = "SBUS" PROVE QualitySync(stream', parser')
      <4>1. QualitySync(Append(stream, b), SbusPush(parser, b, Len(Append(stream, b))))
        BY <3>1, <3>2, <3>3, PushKeepsShare DEF ShareInv
      <4>2. parser' = SbusPush(parser, b, Len(Append(stream, b)))
        BY <3>1, <3>3 DEF Push
      <4> QED BY <3>1, <4>1, <4>2
    <3> QED BY <3>1, <3>3 DEF ShareInv
  <2> QED BY <2>1, <2>2 DEF Next
<1>3. ShareInv => QualityIsShare
  <2> SUFFICES ASSUME ShareInv, protocol = "SBUS" PROVE QualityIsShare
    BY DEF QualityIsShare
  <2>1. /\ stream \in Streams(protocol) /\ parser \in ParserStates(protocol)
        /\ protocol \in Protocols /\ QualitySync(stream, parser)
    BY DEF ShareInv, ParserInv, InStep
  <2>2. PICK n \in 0 .. Len(stream) : At(protocol, stream, n, parser)
    BY DEF ShareInv, ParserInv, InStep
  <2>3. n \in Nat /\ parser.starts \subseteq 1 .. n
    <3>1. Len(stream) \in Nat /\ parser.starts = GoodOf(protocol, stream, n)
      BY <2>1, <2>2, StreamType DEF At
    <3> QED BY <3>1, BadType
  <2> DEFINE S == parser.starts
             recent == {i \in S : Newer(S, i) < LqWindow}
             lost == {i \in recent : stream[i + SbusSize - 2] \in SbusLost}
  <2>4. S # {} => parser.lq = 100 - (Cardinality(lost) * 100) \div Cardinality(recent)
    BY <2>1, <2>3, WindowIsShare
  <2>5. recent = {i \in parser.starts : Cardinality({j \in parser.starts : j > i}) < LqWindow}
    BY DEF Newer
  <2>6. recent # {} => S # {}
    OBVIOUS
  <2> QED BY <2>4, <2>5, <2>6 DEF QualityIsShare
<1> QED BY <1>1, <1>2, <1>3, ParserInvariant, PTL DEF Spec

-----------------------------------------------------------------------------
(* The telemetry ring: type correctness.                                   *)

Counts == 0 .. CountWrap - 1

\* The index arithmetic of the ring stays inside it.
LEMMA SlotType ==
  ASSUME NEW n \in Nat
  PROVE  n % Capacity \in Slots
BY TelemetryRingAssumption, SMT DEF Slots

\* The count wraps inside its width.
LEMMA CountType ==
  ASSUME NEW n \in Int
  PROVE  n % CountWrap \in Counts
BY TelemetryRingAssumption, SMT DEF Counts

\* A slot number fits the width of the count.
LEMMA SlotsFit == Slots \subseteq Counts
BY TelemetryRingAssumption, SMT DEF Slots, Counts

LEMMA GotoType ==
  ASSUME pc \in [Tasks -> Steps], NEW t \in Tasks, NEW s \in Steps, Goto(t, s)
  PROVE  pc' \in [Tasks -> Steps]
BY DEF Goto

LEMMA RingTypeStep == RingTypeOK /\ [RingNext]_ringVars => RingTypeOK'
<1> SUFFICES ASSUME RingTypeOK, [RingNext]_ringVars PROVE RingTypeOK'
  OBVIOUS
<1> USE DEF RingTypeOK, task
<1>a. "rxTask" \in Tasks /\ "serviceTask" \in Tasks
  BY DEF Tasks
<1>b. 0 \in Slots /\ 0 \in Counts
  BY TelemetryRingAssumption, SMT DEF Slots, Counts
<1>c. head \in Nat /\ count \in Nat /\ (head + count) \in Nat
  BY SMT DEF Slots
<1>1. ASSUME NEW t \in Tasks, LoadHead(t) PROVE RingTypeOK'
  <2>1. seen' \in [Tasks -> 0 .. CountWrap - 1]
    BY <1>1, SlotsFit DEF LoadHead, Counts
  <2>2. pc' \in [Tasks -> Steps]
    BY <1>1, GotoType DEF LoadHead, Steps
  <2> QED BY <1>1, <2>1, <2>2 DEF LoadHead
<1>2. ASSUME NEW t \in Tasks, StoreHead(t) PROVE RingTypeOK'
  <2>1. seen[t] + 1 \in Nat
    BY SMT
  <2>2. head' \in Slots
    BY <1>2, <2>1, SlotType DEF StoreHead
  <2>3. pc' \in [Tasks -> Steps]
    BY <1>2 DEF StoreHead, Goto, Steps
  <2> QED BY <1>2, <2>2, <2>3 DEF StoreHead
<1>3. ASSUME NEW t \in Tasks, LoadCount(t) PROVE RingTypeOK'
  BY <1>3 DEF LoadCount, Goto, Steps
<1>4. ASSUME NEW t \in Tasks, StoreLess(t) PROVE RingTypeOK'
  <2>1. seen[t] - 1 \in Int
    BY SMT
  <2>2. count' \in 0 .. CountWrap - 1
    BY <1>4, <2>1, CountType DEF StoreLess, Counts
  <2>3. pc' \in [Tasks -> Steps]
    BY <1>4 DEF StoreLess, Goto, Steps
  <2> QED BY <1>4, <2>2, <2>3 DEF StoreLess
<1>5. ASSUME NEW p \in Packets, BeginAdd(p) PROVE RingTypeOK'
  BY <1>5 DEF BeginAdd, Goto, Steps
<1>6. ASSUME IsFull PROVE RingTypeOK'
  BY <1>6 DEF IsFull, Goto, Steps
<1>7. ASSUME Locate PROVE RingTypeOK'
  <2>1. at' \in Slots
    BY <1>7, <1>c, SlotType DEF Locate
  <2>2. pc' \in [Tasks -> Steps]
    BY <1>7 DEF Locate, Goto, Steps
  <2> QED BY <1>7, <2>1, <2>2 DEF Locate
<1>8. ASSUME WriteSlot PROVE RingTypeOK'
  BY <1>8 DEF WriteSlot, Goto, Steps
<1>9. ASSUME Compare PROVE RingTypeOK'
  BY <1>9 DEF Compare, Goto, Steps
<1>10. ASSUME StoreMore PROVE RingTypeOK'
  <2>1. seen["rxTask"] + 1 \in Int
    BY <1>a, SMT
  <2>2. count' \in 0 .. CountWrap - 1
    BY <1>10, <2>1, CountType DEF StoreMore, Counts
  <2>3. pc' \in [Tasks -> Steps]
    BY <1>10 DEF StoreMore, Goto, Steps
  <2> QED BY <1>10, <2>2, <2>3 DEF StoreMore
<1>11. ASSUME BeginPop PROVE RingTypeOK'
  BY <1>11 DEF BeginPop, Goto, Steps
<1>12. ASSUME Read PROVE RingTypeOK'
  BY <1>12 DEF Read, Goto, Steps
<1>13. ASSUME ResetHead PROVE RingTypeOK'
  BY <1>13, <1>b DEF ResetHead, Goto, Steps
<1>14. ASSUME ResetCount PROVE RingTypeOK'
  BY <1>14, <1>b DEF ResetCount, Goto, Steps, Counts
<1>15. ASSUME StartOverlapping PROVE RingTypeOK'
  BY <1>15 DEF StartOverlapping
<1>16. ASSUME StopOverlapping PROVE RingTypeOK'
  BY <1>16 DEF StopOverlapping
<1>17. CASE UNCHANGED ringVars
  BY <1>17 DEF ringVars
<1> QED
  BY <1>1, <1>2, <1>3, <1>4, <1>5, <1>6, <1>7, <1>8, <1>9, <1>10, <1>11, <1>12,
     <1>13, <1>14, <1>15, <1>16, <1>17 DEF RingNext

LEMMA RingInitType == RingInit => RingTypeOK
<1>1. 0 \in Slots /\ 0 \in 0 .. CountWrap - 1
  BY TelemetryRingAssumption, SMT DEF Slots
<1> QED BY <1>1, Zenon DEF RingInit, RingTypeOK, Steps

\* Whatever the tasks do to each other, every index of the ring is one of its
\* slots: popTelemetry and pushTelemetry never touch memory outside it.
THEOREM RingTypeCorrect == RingSpec => []RingTypeOK
<1> QED BY RingInitType, RingTypeStep, PTL DEF RingSpec

-----------------------------------------------------------------------------
(* The count of a CRSF ring.                                               *)

\* Why a CRSF ring cannot be counted beyond its size: rxTask alone counts up,
\* and stores one more than a count it found too small; serviceTask alone
\* counts down, and stores one less than a count that was not 0 when it
\* looked and has not been counted down since.
CrsfInv ==
  Crsf => /\ count <= Capacity
          /\ pc["rxTask"] \notin {"isFull", "loadLess", "storeLess"}
          /\ pc["rxTask"] = "loadMore" => count < Capacity
          /\ pc["rxTask"] = "storeMore" => seen["rxTask"] < Capacity
          /\ pc["serviceTask"] \in {"idle", "read", "loadHead", "storeHead",
                                    "loadLess", "storeLess", "reset"}
          /\ pc["serviceTask"] \in {"read", "loadHead", "storeHead", "loadLess"}
               => count > 0
          /\ pc["serviceTask"] = "storeLess" => seen["serviceTask"] \in 1 .. Capacity

LEMMA CrsfStep == RingTypeOK /\ CrsfInv /\ [RingNext]_ringVars => CrsfInv'
<1> SUFFICES ASSUME RingTypeOK, CrsfInv, [RingNext]_ringVars, Crsf' PROVE CrsfInv'
  BY DEF CrsfInv
<1>0. Crsf
  BY DEF Crsf, RingNext, ringVars, task, LoadHead, StoreHead, LoadCount, StoreLess, BeginAdd, IsFull,
         Locate, WriteSlot, Compare, StoreMore, BeginPop, Read, ResetHead, ResetCount,
         StartOverlapping, StopOverlapping
<1>a. "rxTask" \in Tasks /\ "serviceTask" \in Tasks
  BY DEF Tasks
<1>b. /\ pc \in [Tasks -> Steps] /\ seen \in [Tasks -> 0 .. CountWrap - 1]
      /\ count \in 0 .. CountWrap - 1 /\ Capacity \in Nat \ {0} /\ CountWrap \in Nat
      /\ CountWrap > Capacity
  BY TelemetryRingAssumption DEF RingTypeOK
<1>c. \A t \in Tasks : t = "rxTask" \/ t = "serviceTask"
  BY DEF Tasks
<1> USE <1>0, <1>a, <1>b, <1>c DEF CrsfInv, Goto, task, Crsf
<1>1. ASSUME NEW t \in Tasks, LoadHead(t) PROVE CrsfInv'
  BY <1>1, SMT DEF LoadHead, Goto
<1>2. ASSUME NEW t \in Tasks, StoreHead(t) PROVE CrsfInv'
  BY <1>2, SMT DEF StoreHead, Goto
<1>3. ASSUME NEW t \in Tasks, LoadCount(t) PROVE CrsfInv'
  BY <1>3, SMT DEF LoadCount, Goto
<1>4. ASSUME NEW t \in Tasks, StoreLess(t) PROVE CrsfInv'
  <2>1. t = "serviceTask" /\ seen[t] \in 1 .. Capacity
    BY <1>4, SMT DEF StoreLess
  <2>2. count' = seen[t] - 1
    BY <1>4, <2>1, SMT DEF StoreLess
  <2> QED BY <1>4, <2>1, <2>2, SMT DEF StoreLess, Goto
<1>5. ASSUME NEW p \in Packets, BeginAdd(p) PROVE CrsfInv'
  BY <1>5, SMT DEF BeginAdd, Goto
<1>6. ASSUME IsFull PROVE CrsfInv'
  BY <1>6 DEF IsFull
<1>7. ASSUME Locate PROVE CrsfInv'
  BY <1>7, SMT DEF Locate, Goto
<1>8. ASSUME WriteSlot PROVE CrsfInv'
  BY <1>8, SMT DEF WriteSlot, Goto
<1>9. ASSUME Compare PROVE CrsfInv'
  BY <1>9, SMT DEF Compare, Goto
<1>10. ASSUME StoreMore PROVE CrsfInv'
  <2>1. seen["rxTask"] < Capacity
    BY <1>10 DEF StoreMore
  <2>2. count' = seen["rxTask"] + 1
    BY <1>10, <2>1, SMT DEF StoreMore
  <2> QED BY <1>10, <2>1, <2>2, SMT DEF StoreMore, Goto
<1>11. ASSUME BeginPop PROVE CrsfInv'
  BY <1>11, SMT DEF BeginPop, Goto
<1>12. ASSUME Read PROVE CrsfInv'
  BY <1>12, SMT DEF Read, Goto
<1>13. ASSUME ResetHead PROVE CrsfInv'
  BY <1>13, SMT DEF ResetHead, Goto
<1>14. ASSUME ResetCount PROVE CrsfInv'
  BY <1>14, SMT DEF ResetCount, Goto
<1>15. ASSUME StartOverlapping PROVE CrsfInv'
  BY <1>15 DEF StartOverlapping
<1>16. ASSUME StopOverlapping PROVE CrsfInv'
  BY <1>16 DEF StopOverlapping
<1>17. CASE UNCHANGED ringVars
  BY <1>17 DEF ringVars
<1> QED
  BY <1>1, <1>2, <1>3, <1>4, <1>5, <1>6, <1>7, <1>8, <1>9, <1>10, <1>11, <1>12,
     <1>13, <1>14, <1>15, <1>16, <1>17 DEF RingNext

LEMMA CrsfInit == RingInit => CrsfInv
BY TelemetryRingAssumption, SMT DEF RingInit, CrsfInv, Tasks

\* A CRSF ring never counts more packets than it has slots, however the steps
\* of rxTask and serviceTask mix.
THEOREM CountAlwaysFits == RingSpec => []CountFits
<1>1. CrsfInv => CountFits
  BY DEF CrsfInv, CountFits
<1> QED BY <1>1, RingInitType, RingTypeStep, CrsfInit, CrsfStep, PTL DEF RingSpec
-----------------------------------------------------------------------------
(* The packets of a ring that starts at slot first.                        *)

RingOf(first, length, s) == [i \in 1 .. length |-> s[(first + i - 1) % Capacity]]

Values == Packets \cup {Nothing}

\* What wrapping around does to a slot number.
LEMMA WrapAround ==
  ASSUME NEW f \in Slots, NEW k \in 0 .. Capacity
  PROVE  (f + k) % Capacity = IF f + k < Capacity THEN f + k ELSE f + k - Capacity
BY TelemetryRingAssumption, SMT DEF Slots

\* It does not matter whether the first slot is wrapped at once or later.
LEMMA WrapTwice ==
  ASSUME NEW f \in Slots, NEW k \in Slots
  PROVE  (((f + 1) % Capacity) + k) % Capacity = (f + 1 + k) % Capacity
<1>0. Capacity \in Nat \ {0} /\ f \in Nat /\ f < Capacity /\ k \in Nat /\ k < Capacity
  BY TelemetryRingAssumption, SMT DEF Slots
<1>1. CASE f + 1 < Capacity
  BY <1>0, <1>1, SMT
<1>2. CASE f + 1 = Capacity
  <2>1. (f + 1) % Capacity = 0
    BY <1>0, <1>2, SMT
  <2>2. (Capacity + k) % Capacity = k % Capacity
    BY <1>0, SMT
  <2> QED BY <1>0, <1>2, <2>1, <2>2, SMT
<1> QED BY <1>0, <1>1, <1>2, SMT

LEMMA RingType ==
  ASSUME NEW f \in Nat, NEW n \in Nat, NEW s \in [Slots -> Values]
  PROVE  RingOf(f, n, s) \in Seq(Values) /\ Len(RingOf(f, n, s)) = n
<1>1. \A i \in 1 .. n : f + i - 1 \in Nat
  BY SMT
<1>2. \A i \in 1 .. n : s[(f + i - 1) % Capacity] \in Values
  BY <1>1, SlotType
<1>3. RingOf(f, n, s) \in [1 .. n -> Values]
  BY <1>2 DEF RingOf
<1> QED BY <1>3, SMT

\* Moving the first slot on by one takes off the head.
LEMMA RingTail ==
  ASSUME NEW f \in Slots, NEW n \in Nat, n > 0, NEW s \in [Slots -> Values]
  PROVE  /\ RingOf(f, n, s) # <<>>
         /\ Head(RingOf(f, n, s)) = s[f]
         /\ RingOf(f + 1, n - 1, s) = Tail(RingOf(f, n, s))
<1> DEFINE q == RingOf(f, n, s)
           t == RingOf(f + 1, n - 1, s)
<1>0. f \in Nat /\ f + 1 \in Nat /\ n - 1 \in Nat
  BY SMT DEF Slots
<1>1. q \in Seq(Values) /\ Len(q) = n /\ t \in Seq(Values) /\ Len(t) = n - 1
  BY <1>0, RingType, Zenon
<1>2. \A i \in 1 .. n - 1 : t[i] = q[i + 1]
  BY <1>0, SMT DEF RingOf
<1>3. q[1] = s[f]
  <2>1. (f + 1 - 1) % Capacity = f
    BY TelemetryRingAssumption, SMT DEF Slots
  <2> QED BY <2>1, SMT DEF RingOf
<1> HIDE DEF q, t
<1>4. q # <<>> /\ Head(q) = q[1]
  BY <1>1, SMT
<1>5. Tail(q) \in Seq(Values) /\ Len(Tail(q)) = n - 1
  BY <1>1, <1>4, SMT
<1>6. \A i \in 1 .. n - 1 : Tail(q)[i] = q[i + 1]
  BY <1>1, <1>4, SMT
<1>7. t = Tail(q)
  BY <1>1, <1>2, <1>5, <1>6, SMT
<1> QED BY <1>3, <1>4, <1>7 DEF q, t

\* Counting one packet more appends it.
LEMMA RingAppend ==
  ASSUME NEW f \in Nat, NEW n \in Nat, NEW s \in [Slots -> Values]
  PROVE  RingOf(f, n + 1, s) = Append(RingOf(f, n, s), s[(f + n) % Capacity])
<1> DEFINE q == RingOf(f, n, s)
           r == RingOf(f, n + 1, s)
           x == s[(f + n) % Capacity]
<1>1. q \in Seq(Values) /\ Len(q) = n /\ r \in Seq(Values) /\ Len(r) = n + 1
  BY RingType, SMT
<1>2. x \in Values
  BY SlotType, SMT
<1>3. \A i \in 1 .. n : r[i] = q[i]
  BY SMT DEF RingOf
<1>4. r[n + 1] = x
  <2>1. f + (n + 1) - 1 = f + n
    BY SMT
  <2> QED BY <2>1, SMT DEF RingOf
<1> HIDE DEF q, r, x
<1> QED
  BY <1>1, <1>2, <1>3, <1>4, SMT DEF q, r, x

\* Wrapping the first slot changes nothing.
LEMMA RingWrap ==
  ASSUME NEW f \in Slots, NEW n \in 0 .. Capacity, NEW s
  PROVE  RingOf((f + 1) % Capacity, n, s) = RingOf(f + 1, n, s)
<1>1. (f + 1) % Capacity \in Int /\ f \in Int
  BY TelemetryRingAssumption, SMT DEF Slots
<1>2. ASSUME NEW i \in 1 .. n
      PROVE  (((f + 1) % Capacity) + i - 1) % Capacity = (f + 1 + i - 1) % Capacity
  <2>1. i - 1 \in Slots
    BY TelemetryRingAssumption, SMT DEF Slots
  <2>2. ((f + 1) % Capacity) + i - 1 = ((f + 1) % Capacity) + (i - 1) /\ f + 1 + i - 1 = f + 1 + (i - 1)
    BY <1>1, SMT
  <2> QED BY <2>1, <2>2, WrapTwice
<1> QED BY <1>2 DEF RingOf

\* A packet written behind the last one does not change the ring before it.
LEMMA RingWriteFree ==
  ASSUME NEW f \in Slots, NEW n \in Nat, n < Capacity,
         NEW s \in [Slots -> Values], NEW p
  PROVE  RingOf(f, n, [s EXCEPT ![(f + n) % Capacity] = p]) = RingOf(f, n, s)
<1>1. ASSUME NEW i \in 1 .. n
      PROVE  /\ (f + i - 1) % Capacity \in Slots
             /\ (f + i - 1) % Capacity # (f + n) % Capacity
  <2>1. i - 1 \in 0 .. Capacity /\ n \in 0 .. Capacity /\ f + i - 1 = f + (i - 1)
    BY TelemetryRingAssumption, SMT DEF Slots
  <2>2. (f + (i - 1)) % Capacity = IF f + (i - 1) < Capacity THEN f + (i - 1)
                                                        ELSE f + (i - 1) - Capacity
    BY <2>1, WrapAround
  <2>3. (f + n) % Capacity = IF f + n < Capacity THEN f + n ELSE f + n - Capacity
    BY <2>1, WrapAround
  <2> QED BY <2>1, <2>2, <2>3, TelemetryRingAssumption, SMT DEF Slots
<1> QED BY <1>1 DEF RingOf

\* The packet that overwrites the first one does not change the rest.
LEMMA RingWriteFull ==
  ASSUME NEW f \in Slots, NEW s \in [Slots -> Values], NEW p
  PROVE  RingOf(f + 1, Capacity - 1, [s EXCEPT ![(f + Capacity) % Capacity] = p])
           = RingOf(f + 1, Capacity - 1, s)
<1>1. ASSUME NEW i \in 1 .. Capacity - 1
      PROVE  /\ (f + 1 + i - 1) % Capacity \in Slots
             /\ (f + 1 + i - 1) % Capacity # (f + Capacity) % Capacity
  <2>1. i \in 0 .. Capacity /\ Capacity \in 0 .. Capacity /\ f + 1 + i - 1 = f + i
    BY TelemetryRingAssumption, SMT DEF Slots
  <2>2. (f + i) % Capacity = IF f + i < Capacity THEN f + i ELSE f + i - Capacity
    BY <2>1, WrapAround
  <2>3. (f + Capacity) % Capacity
          = IF f + Capacity < Capacity THEN f + Capacity ELSE f + Capacity - Capacity
    BY <2>1, WrapAround
  <2> QED BY <2>1, <2>2, <2>3, TelemetryRingAssumption, SMT DEF Slots
<1> QED BY <1>1 DEF RingOf

-----------------------------------------------------------------------------
(* While operations do not overlap.                                        *)

\* Why the mapping to a LossyQueue holds: an operation finds head and count as
\* it left them, the packet is in the slot it is counted in, and the ring is
\* full where room is made and not full where a packet is counted.
AddInv ==
  /\ pc["rxTask"] # "idle" => pc["serviceTask"] = "idle" /\ pkt \in Packets
  /\ pc["rxTask"] = "storeHead" => seen["rxTask"] = head
  /\ pc["rxTask"] \in {"storeLess", "storeMore"} => seen["rxTask"] = count
  /\ pc["rxTask"] \in {"write", "compare", "loadMore", "storeMore"}
       => at = (head + count) % Capacity
  /\ pc["rxTask"] \in {"compare", "loadMore", "storeMore"} => slots[at] = pkt
  /\ pc["rxTask"] \in {"loadMore", "storeMore"} => count < Capacity
  /\ pc["rxTask"] \in {"loadHead", "storeHead", "loadLess", "storeLess"} => count = Capacity
  /\ pc["rxTask"] # "reset" /\ pc["rxTask"] # "read"
  /\ Crsf => /\ pc["rxTask"] \notin {"isFull", "loadLess", "storeLess"}
             /\ pc["rxTask"] \in {"loadHead", "storeHead"} => slots[head] = pkt
  /\ ~Crsf => /\ pc["rxTask"] # "compare"
              /\ pc["rxTask"] \in {"locate", "write"} => count < Capacity

TakeInv ==
  /\ pc["serviceTask"] # "idle" => pc["rxTask"] = "idle"
  /\ pc["serviceTask"] = "storeHead" => seen["serviceTask"] = head
  /\ pc["serviceTask"] = "storeLess" => seen["serviceTask"] = count
  /\ pc["serviceTask"] \in {"idle", "read", "loadHead", "storeHead", "loadLess",
                            "storeLess", "reset"}
  /\ pc["serviceTask"] \in {"read", "loadHead", "storeHead", "loadLess", "storeLess"}
       => count > 0

RingInv == exclusive => count <= Capacity /\ AddInv /\ TakeInv

\* What the invariant says of types, as one fact for the steps below.
LEMMA RingTypes ==
  ASSUME RingTypeOK
  PROVE  /\ pc \in [Tasks -> Steps] /\ seen \in [Tasks -> Counts]
         /\ slots \in [Slots -> Values] /\ head \in Slots /\ at \in Slots
         /\ head \in Nat /\ head < Capacity /\ count \in Nat /\ count < CountWrap
         /\ (head + Capacity) % Capacity = head
         /\ Capacity \in Nat \ {0} /\ CountWrap \in Nat /\ CountWrap > Capacity
         /\ "rxTask" \in Tasks /\ "serviceTask" \in Tasks
         /\ \A t \in Tasks : t = "rxTask" \/ t = "serviceTask"
<1>1. (head + Capacity) % Capacity = head
  BY TelemetryRingAssumption, SMT DEF RingTypeOK, Slots
<1> QED
  BY <1>1, TelemetryRingAssumption, SMT DEF RingTypeOK, Values, Counts, Slots, Tasks

LEMMA RingInvInit == RingInit => RingInv
BY TelemetryRingAssumption, SMT DEF RingInit, RingInv, AddInv, TakeInv, Tasks

LEMMA RingInvStep == RingTypeOK /\ RingInv /\ [RingNext]_ringVars => RingInv'
<1> SUFFICES ASSUME RingTypeOK, RingInv, [RingNext]_ringVars, exclusive' PROVE RingInv'
  BY DEF RingInv
<1>r. /\ pc \in [Tasks -> Steps] /\ seen \in [Tasks -> Counts]
      /\ slots \in [Slots -> Values] /\ head \in Slots /\ at \in Slots
      /\ head \in Nat /\ head < Capacity /\ count \in Nat /\ count < CountWrap
      /\ (head + Capacity) % Capacity = head
      /\ Capacity \in Nat \ {0} /\ CountWrap \in Nat /\ CountWrap > Capacity
      /\ "rxTask" \in Tasks /\ "serviceTask" \in Tasks
      /\ \A t \in Tasks : t = "rxTask" \/ t = "serviceTask"
  BY RingTypes
<1> USE <1>r DEF RingInv, AddInv, TakeInv, Goto, Idle, MayBegin, task, Crsf
<1>1. ASSUME NEW t \in Tasks, LoadHead(t) PROVE RingInv'
  BY <1>1, SMT DEF LoadHead
<1>2. ASSUME NEW t \in Tasks, StoreHead(t) PROVE RingInv'
  BY <1>2, SMT DEF StoreHead
<1>3. ASSUME NEW t \in Tasks, LoadCount(t) PROVE RingInv'
  BY <1>3, SMT DEF LoadCount
<1>4. ASSUME NEW t \in Tasks, StoreLess(t) PROVE RingInv'
  <2>1. exclusive /\ seen[t] = count /\ count \in 1 .. Capacity
    BY <1>4, SMT DEF StoreLess
  <2>2. count' = count - 1
    BY <1>4, <2>1, SMT DEF StoreLess
  <2> QED BY <1>4, <2>1, <2>2, SMT DEF StoreLess
<1>5. ASSUME NEW p \in Packets, BeginAdd(p) PROVE RingInv'
  BY <1>5, SMT DEF BeginAdd
<1>6. ASSUME IsFull PROVE RingInv'
  BY <1>6, SMT DEF IsFull
<1>7. ASSUME Locate PROVE RingInv'
  BY <1>7, SMT DEF Locate
<1>8. ASSUME WriteSlot PROVE RingInv'
  BY <1>8, SMT DEF WriteSlot
<1>9. ASSUME Compare PROVE RingInv'
  BY <1>9, SMT DEF Compare
<1>10. ASSUME StoreMore PROVE RingInv'
  <2>1. exclusive /\ seen["rxTask"] = count /\ count < Capacity
    BY <1>10, SMT DEF StoreMore
  <2>2. count' = count + 1
    BY <1>10, <2>1, SMT DEF StoreMore
  <2> QED BY <1>10, <2>1, <2>2, SMT DEF StoreMore
<1>11. ASSUME BeginPop PROVE RingInv'
  BY <1>11, SMT DEF BeginPop
<1>12. ASSUME Read PROVE RingInv'
  BY <1>12, SMT DEF Read
<1>13. ASSUME ResetHead PROVE RingInv'
  BY <1>13, SMT DEF ResetHead
<1>14. ASSUME ResetCount PROVE RingInv'
  BY <1>14, SMT DEF ResetCount
<1>15. ASSUME StartOverlapping PROVE RingInv'
  BY <1>15 DEF StartOverlapping
<1>16. ASSUME StopOverlapping PROVE RingInv'
  BY <1>16, SMT DEF StopOverlapping
<1>17. CASE UNCHANGED ringVars
  BY <1>17 DEF ringVars
<1> QED
  BY <1>1, <1>2, <1>3, <1>4, <1>5, <1>6, <1>7, <1>8, <1>9, <1>10, <1>11, <1>12,
     <1>13, <1>14, <1>15, <1>16, <1>17 DEF RingNext
-----------------------------------------------------------------------------
(* The ring implements the queue.                                          *)

\* Contents, with its two parts named.
First == IF FirstIsGone THEN head + 1 ELSE head
Length == IF pc["serviceTask"] = "reset" THEN 0
          ELSE IF FirstIsGone \/ CountIsLate THEN count - 1 ELSE count

LEMMA ContentsAre == Contents = RingOf(First, Length, slots)
BY DEF Contents, First, Length, RingOf

LEMMA ContentsAreNext == Contents' = RingOf(First', Length', slots')
BY DEF Contents, First, Length, RingOf

\* The steps of the queue, in terms of the ring.
LEMMA ToStutter ==
  ASSUME exclusive, exclusive', Contents' = Contents, out' = out
  PROVE  [Queue!QNext]_(Queue!qvars)
BY DEF Queue!qvars

LEMMA ToAccept ==
  ASSUME exclusive, exclusive', pkt \in Packets, Len(Contents) < Capacity,
         Contents' = Append(Contents, pkt), out' = out
  PROVE  [Queue!QNext]_(Queue!qvars)
BY DEF Queue!QNext, Queue!Accept

LEMMA ToDrop ==
  ASSUME exclusive, exclusive', Len(Contents) = Capacity,
         Contents' = Tail(Contents), out' = out
  PROVE  [Queue!QNext]_(Queue!qvars)
BY DEF Queue!QNext, Queue!Drop

LEMMA ToTake ==
  ASSUME exclusive, exclusive', Contents # <<>>,
         Contents' = Tail(Contents), out' = Head(Contents)
  PROVE  [Queue!QNext]_(Queue!qvars)
BY DEF Queue!QNext, Queue!Take

\* A ring that begins, or stops, to keep its operations apart is empty or
\* mapped to an empty queue; a reset empties it.
LEMMA ToClear ==
  ASSUME exclusive' => Contents' = <<>> /\ out' = Nothing
  PROVE  [Queue!QNext]_(Queue!qvars)
BY DEF Queue!QNext, Queue!Clear

LEMMA EmptyRing == \A f, s : RingOf(f, 0, s) = <<>>
<1> TAKE f, s
<1>1. 1 .. 0 = {}
  BY SMT
<1> QED BY <1>1, SMT DEF RingOf

LEMMA MapStep ==
  RingTypeOK /\ RingTypeOK' /\ RingInv /\ [RingNext]_ringVars => [Queue!QNext]_(Queue!qvars)
<1> SUFFICES ASSUME RingTypeOK, RingInv, [RingNext]_ringVars, exclusive
             PROVE  [Queue!QNext]_(Queue!qvars)
  <2>1. ASSUME ~exclusive, ~exclusive' PROVE [Queue!QNext]_(Queue!qvars)
    BY <2>1, ToClear
  <2>2. ASSUME ~exclusive, exclusive', [RingNext]_ringVars PROVE [Queue!QNext]_(Queue!qvars)
    <3>1. StopOverlapping
      BY <2>2 DEF RingNext, ringVars, task, LoadHead, StoreHead, LoadCount, StoreLess, BeginAdd,
         IsFull, Locate, WriteSlot, Compare, StoreMore, BeginPop, Read, ResetHead,
         ResetCount, StartOverlapping
    <3>2. Length' = 0 /\ out' = Nothing
      BY <3>1 DEF StopOverlapping, Length, FirstIsGone, CountIsLate, Idle, Tasks
    <3> QED BY <3>2, ContentsAreNext, EmptyRing, ToClear
  <2> QED BY <2>1, <2>2
<1>r. /\ pc \in [Tasks -> Steps] /\ seen \in [Tasks -> Counts]
      /\ slots \in [Slots -> Values] /\ head \in Slots /\ at \in Slots
      /\ head \in Nat /\ head < Capacity /\ count \in Nat /\ count < CountWrap
      /\ (head + Capacity) % Capacity = head
      /\ Capacity \in Nat \ {0} /\ CountWrap \in Nat /\ CountWrap > Capacity
      /\ "rxTask" \in Tasks /\ "serviceTask" \in Tasks
      /\ \A t \in Tasks : t = "rxTask" \/ t = "serviceTask"
  BY RingTypes
<1>inv. count <= Capacity /\ AddInv /\ TakeInv
  BY DEF RingInv
<1> USE <1>r, <1>inv DEF AddInv, TakeInv, Goto, Idle, MayBegin, task, Crsf, First, Length,
         FirstIsGone, CountIsLate
\* The steps that leave the first packet, their number and the slots alone.
<1>s. ASSUME First' = First, Length' = Length, slots' = slots, out' = out, exclusive' = exclusive
      PROVE  [Queue!QNext]_(Queue!qvars)
  BY <1>s, ContentsAre, ContentsAreNext, ToStutter
<1>1. ASSUME NEW t \in Tasks, LoadHead(t) PROVE [Queue!QNext]_(Queue!qvars)
  <2>1. First' = First /\ Length' = Length /\ slots' = slots /\ out' = out /\ exclusive' = exclusive
    BY <1>1, SMT DEF LoadHead
  <2> QED BY <2>1, <1>s
<1>3. ASSUME NEW t \in Tasks, LoadCount(t) PROVE [Queue!QNext]_(Queue!qvars)
  <2>1. First' = First /\ Length' = Length /\ slots' = slots /\ out' = out /\ exclusive' = exclusive
    BY <1>3, SMT DEF LoadCount
  <2> QED BY <2>1, <1>s
<1>4. ASSUME NEW t \in Tasks, StoreLess(t) PROVE [Queue!QNext]_(Queue!qvars)
  <2>0. seen[t] = count /\ count \in 1 .. Capacity
    BY <1>4, SMT DEF StoreLess
  <2>1. count' = count - 1
    BY <1>4, <2>0, SMT DEF StoreLess
  <2>2. First' = First /\ Length' = Length /\ slots' = slots /\ out' = out /\ exclusive' = exclusive
    BY <1>4, <2>0, <2>1, SMT DEF StoreLess
  <2> QED BY <2>2, <1>s
<1>5. ASSUME NEW p \in Packets, BeginAdd(p) PROVE [Queue!QNext]_(Queue!qvars)
  <2>1. First' = First /\ Length' = Length /\ slots' = slots /\ out' = out /\ exclusive' = exclusive
    BY <1>5, SMT DEF BeginAdd
  <2> QED BY <2>1, <1>s
<1>6. ASSUME IsFull PROVE [Queue!QNext]_(Queue!qvars)
  <2>1. First' = First /\ Length' = Length /\ slots' = slots /\ out' = out /\ exclusive' = exclusive
    BY <1>6, SMT DEF IsFull
  <2> QED BY <2>1, <1>s
<1>7. ASSUME Locate PROVE [Queue!QNext]_(Queue!qvars)
  <2>1. First' = First /\ Length' = Length /\ slots' = slots /\ out' = out /\ exclusive' = exclusive
    BY <1>7, SMT DEF Locate
  <2> QED BY <2>1, <1>s
<1>9. ASSUME Compare PROVE [Queue!QNext]_(Queue!qvars)
  <2>1. First' = First /\ Length' = Length /\ slots' = slots /\ out' = out /\ exclusive' = exclusive
    BY <1>9, SMT DEF Compare
  <2> QED BY <2>1, <1>s
<1>11. ASSUME BeginPop PROVE [Queue!QNext]_(Queue!qvars)
  <2>1. First' = First /\ Length' = Length /\ slots' = slots /\ out' = out /\ exclusive' = exclusive
    BY <1>11, SMT DEF BeginPop
  <2> QED BY <2>1, <1>s
<1>14. ASSUME ResetCount PROVE [Queue!QNext]_(Queue!qvars)
  <2>1. First' = First /\ Length' = Length /\ slots' = slots /\ out' = out /\ exclusive' = exclusive
    BY <1>14, SMT DEF ResetCount
  <2> QED BY <2>1, <1>s
<1>17. ASSUME UNCHANGED ringVars PROVE [Queue!QNext]_(Queue!qvars)
  <2>1. First' = First /\ Length' = Length /\ slots' = slots /\ out' = out /\ exclusive' = exclusive
    BY <1>17 DEF ringVars
  <2> QED BY <2>1, <1>s
\* The steps that empty it.
<1>13. ASSUME ResetHead PROVE [Queue!QNext]_(Queue!qvars)
  <2>1. Length' = 0 /\ out' = Nothing
    BY <1>13, SMT DEF ResetHead
  <2> QED BY <2>1, ContentsAreNext, EmptyRing, ToClear
<1>15. ASSUME StartOverlapping PROVE [Queue!QNext]_(Queue!qvars)
  BY <1>15, ToClear DEF StartOverlapping
<1>16. ASSUME StopOverlapping PROVE [Queue!QNext]_(Queue!qvars)
  <2>1. Length' = 0 /\ out' = Nothing
    BY <1>16, SMT DEF StopOverlapping
  <2> QED BY <2>1, ContentsAreNext, EmptyRing, ToClear
\* The steps the queue sees.
<1>2. ASSUME NEW t \in Tasks, StoreHead(t) PROVE [Queue!QNext]_(Queue!qvars)
  <2>0. /\ seen[t] = head /\ head' = (head + 1) % Capacity /\ slots' = slots
        /\ out' = out /\ exclusive' /\ count' = count /\ count > 0
    BY <1>2, SMT DEF StoreHead
  <2>1. RingOf((head + 1) % Capacity, Length', slots) = RingOf(head + 1, Length', slots)
    <3>1. Length' \in 0 .. Capacity
      BY <1>2, <2>0, SMT DEF StoreHead
    <3> QED BY <3>1, RingWrap
  <2>2. CASE t = "serviceTask"
    <3>1. First = head + 1 /\ Length = count - 1 /\ First' = head' /\ Length' = count - 1
      BY <1>2, <2>0, <2>2, SMT DEF StoreHead
    <3> QED BY <2>0, <2>1, <3>1, ContentsAre, ContentsAreNext, ToStutter
  <2>3. CASE t = "rxTask" /\ Crsf
    <3>1. /\ First = head + 1 /\ Length = Capacity - 1 /\ First' = head' /\ Length' = Capacity
          /\ slots[head] = pkt /\ pkt \in Packets
      BY <1>2, <2>0, <2>3, SMT DEF StoreHead
    <3>2. /\ head + 1 \in Nat /\ Capacity - 1 \in Nat /\ (Capacity - 1) + 1 = Capacity
          /\ (head + 1) + (Capacity - 1) = head + Capacity
      BY SMT
    <3>3. RingOf(head + 1, (Capacity - 1) + 1, slots)
            = Append(RingOf(head + 1, Capacity - 1, slots),
                     slots[((head + 1) + (Capacity - 1)) % Capacity])
      BY <3>2, RingAppend
    <3>4. Contents' = Append(Contents, pkt)
      BY <2>0, <2>1, <3>1, <3>2, <3>3, ContentsAre, ContentsAreNext
    <3>5. Len(Contents) < Capacity
      <4>1. Len(Contents) = Capacity - 1
        BY <3>1, <3>2, ContentsAre, RingType
      <4> QED BY <4>1, SMT
    <3> QED BY <2>0, <3>1, <3>4, <3>5, ToAccept
  <2>4. CASE t = "rxTask" /\ ~Crsf
    <3>1. First = head /\ Length = Capacity /\ First' = head' /\ Length' = Capacity - 1
      BY <1>2, <2>0, <2>4, SMT DEF StoreHead
    <3>2. Capacity \in Nat /\ Capacity > 0
      BY SMT
    <3>t. RingOf(head + 1, Capacity - 1, slots) = Tail(RingOf(head, Capacity, slots))
      BY <3>2, RingTail
    <3>3. Contents' = Tail(Contents)
      BY <2>0, <2>1, <3>1, <3>t, ContentsAre, ContentsAreNext
    <3>4. Len(Contents) = Capacity
      BY <3>1, <3>2, ContentsAre, RingType
    <3> QED BY <2>0, <3>3, <3>4, ToDrop
  <2> QED BY <2>2, <2>3, <2>4
<1>8. ASSUME WriteSlot PROVE [Queue!QNext]_(Queue!qvars)
  <2>a. at = (head + count) % Capacity /\ slots' = [slots EXCEPT ![at] = pkt]
    BY <1>8 DEF WriteSlot
  <2>b. out' = out /\ exclusive' /\ count \in 0 .. Capacity
    BY <1>8, SMT DEF WriteSlot
  <2>0. /\ slots' = [slots EXCEPT ![(head + count) % Capacity] = pkt]
        /\ out' = out /\ exclusive' /\ count \in 0 .. Capacity
    BY <2>a, <2>b, Zenon
  <2>1. CASE count = Capacity
    <3>1. First = head /\ Length = Capacity /\ First' = head + 1 /\ Length' = Capacity - 1
      BY <1>8, <2>1, SMT DEF WriteSlot
    <3>2. Capacity \in Nat /\ Capacity > 0
      BY SMT
    <3>3. RingOf(head + 1, Capacity - 1, [slots EXCEPT ![(head + count) % Capacity] = pkt])
            = RingOf(head + 1, Capacity - 1, slots)
      BY <2>1, RingWriteFull, Zenon
    <3>t. RingOf(head + 1, Capacity - 1, slots) = Tail(RingOf(head, Capacity, slots))
      BY <3>2, RingTail
    <3>4. Contents' = Tail(Contents)
      BY <2>0, <3>1, <3>3, <3>t, ContentsAre, ContentsAreNext, Zenon
    <3>5. Len(Contents) = Capacity
      BY <3>1, <3>2, ContentsAre, RingType
    <3> QED BY <2>0, <3>4, <3>5, ToDrop
  <2>2. CASE count < Capacity
    <3>1. First = head /\ Length = count /\ First' = head /\ Length' = count
      BY <1>8, <2>2, SMT DEF WriteSlot
    <3>3. RingOf(head, count, [slots EXCEPT ![(head + count) % Capacity] = pkt])
            = RingOf(head, count, slots)
      <4>1. /\ head \in Slots /\ count \in Nat /\ count < Capacity
            /\ slots \in [Slots -> Values]
        BY <2>2, Zenon
      <4> HIDE <1>r, <1>inv
      <4> QED BY <4>1, RingWriteFree, Zenon
    <3> QED BY <2>0, <3>1, <3>3, ContentsAre, ContentsAreNext, ToStutter
  <2> QED BY <2>0, <2>1, <2>2, SMT
<1>10. ASSUME StoreMore PROVE [Queue!QNext]_(Queue!qvars)
  <2>0. /\ seen["rxTask"] = count /\ count < Capacity /\ slots' = slots /\ out' = out
        /\ exclusive' /\ pkt \in Packets /\ slots[(head + count) % Capacity] = pkt
    BY <1>10, SMT DEF StoreMore
  <2>1. count' = count + 1
    BY <1>10, <2>0, SMT DEF StoreMore
  <2>2. First = head /\ Length = count /\ First' = head /\ Length' = count + 1
    BY <1>10, <2>1, SMT DEF StoreMore
  <2>a. RingOf(head, count + 1, slots)
          = Append(RingOf(head, count, slots), slots[(head + count) % Capacity])
    BY RingAppend
  <2>3. Contents' = Append(Contents, pkt)
    BY <2>0, <2>2, <2>a, ContentsAre, ContentsAreNext, Zenon
  <2>b. Len(RingOf(head, count, slots)) = count
    BY RingType
  <2>4. Len(Contents) < Capacity
    BY <2>0, <2>2, <2>b, ContentsAre, Zenon
  <2> QED BY <2>0, <2>3, <2>4, ToAccept
<1>12. ASSUME Read PROVE [Queue!QNext]_(Queue!qvars)
  <2>1. /\ First = head /\ Length = count /\ First' = head + 1 /\ Length' = count - 1
        /\ count > 0 /\ out' = slots[head] /\ slots' = slots /\ exclusive'
    BY <1>12, SMT DEF Read
  <2>a. /\ RingOf(head, count, slots) # <<>>
        /\ Head(RingOf(head, count, slots)) = slots[head]
        /\ RingOf(head + 1, count - 1, slots) = Tail(RingOf(head, count, slots))
    <3>1. count > 0
      BY <2>1
    <3> QED BY <3>1, RingTail, Zenon
  <2>2. Contents # <<>> /\ Contents' = Tail(Contents) /\ out' = Head(Contents)
    BY <2>1, <2>a, ContentsAre, ContentsAreNext, Zenon
  <2> QED BY <2>1, <2>2, ToTake
<1> QED
  BY <1>1, <1>2, <1>3, <1>4, <1>5, <1>6, <1>7, <1>8, <1>9, <1>10, <1>11, <1>12,
     <1>13, <1>14, <1>15, <1>16, <1>17 DEF RingNext

LEMMA MapInit == RingInit => Queue!QInit
<1> SUFFICES ASSUME RingInit PROVE Queue!QInit
  OBVIOUS
<1>1. Length = 0 /\ out = Nothing
  BY DEF RingInit, Length, FirstIsGone, CountIsLate, Tasks
<1> QED BY <1>1, ContentsAre, EmptyRing DEF Queue!QInit

\* For every capacity and width of the count: as long as operations do not
\* overlap, and again from the first drain that ends after an overlap, the
\* ring is a queue that loses nothing but its oldest packet when it is full.
THEOREM RingImplementsQueue == RingSpec => IsLossyQueue
<1> QED
  BY RingInitType, RingTypeStep, RingInvInit, RingInvStep, MapInit, MapStep, PTL
  DEF RingSpec, IsLossyQueue, Queue!QSpec
=============================================================================
