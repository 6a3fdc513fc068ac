----------------------------- MODULE ConfigProofs -----------------------------
(***************************************************************************)
(* Proofs about the configuration: about its numbers, whatever is posted,  *)
(* and about its way from the web page to the modules and the flash, for   *)
(* every set of posts and every interleaving of the two tasks.             *)
(***************************************************************************)
EXTENDS ConfigService, TLAPS

-----------------------------------------------------------------------------
(* Numbers.                                                                *)

\* What is<uint32_t> admits as a baud rate.
Posted(k, n) == k = "baud" => n >= 0

LEMMA LimitsType ==
  ASSUME NEW k \in Clamping
  PROVE  Limits(k)[1] \in Nat /\ Limits(k)[2] \in Nat /\ Limits(k)[1] <= Limits(k)[2]
BY SMT DEF Clamping, Limits

LEMMA ClampIn ==
  ASSUME NEW k \in Clamping, NEW n \in Int
  PROVE  Clamp(n, Limits(k)) \in Limits(k)[1] .. Limits(k)[2]
<1> DEFINE lo == Limits(k)[1]
           hi == Limits(k)[2]
<1>1. lo \in Nat /\ hi \in Nat /\ lo <= hi
  BY LimitsType
<1>2. Clamp(n, Limits(k)) = IF n < lo THEN lo ELSE IF n > hi THEN hi ELSE n
  BY DEF Clamp
<1> HIDE DEF lo, hi
<1> QED BY <1>1, <1>2, SMT DEF lo, hi

\* What is usable of the kinds that are clamped, and of those refused.
LEMMA UsableClamping ==
  ASSUME NEW k \in Clamping
  PROVE  Usable(k) = Limits(k)[1] .. Limits(k)[2]
<1>1. k \notin {"signedPin", "pin", "level", "threshold", "baud"}
  BY DEF Clamping
<1> QED BY <1>1, SMT DEF Usable

LEMMA UsableRefusing ==
  ASSUME NEW k \in Refusing, k \notin Clamping
  PROVE  Usable(k) = Allowed(k)
<1>1. k \notin {"signedPin", "pin", "level", "threshold", "baud"}
  BY DEF Refusing
<1> QED BY <1>1, SMT DEF Usable

\* What the casts make of a number.
LEMMA NarrowedType ==
  ASSUME NEW k \in Kinds, NEW n \in Int
  PROVE  /\ Narrowed(k, n) \in Int
         /\ k = "signedPin" => Narrowed(k, n) \in -128 .. 127
         /\ k \in {"pin", "cells", "level"} => Narrowed(k, n) \in 0 .. 255
         /\ k \in {"rate", "threshold", "pulse"}
              => Narrowed(k, n) \in Nat /\ Narrowed(k, n) < 65536
         /\ k \notin {"signedPin", "pin", "cells", "level", "rate", "threshold", "pulse"}
              => Narrowed(k, n) = n
<1>a. /\ n % 65536 \in Nat /\ n % 65536 < 65536 /\ n % 256 \in 0 .. 255
      /\ ((n + 128) % 256) - 128 \in -128 .. 127
  BY SMT
<1>1. CASE k = "signedPin"
  <2>1. Narrowed(k, n) = ((n + 128) % 256) - 128
    BY <1>1 DEF Narrowed
  <2>2. Narrowed(k, n) \in -128 .. 127
    BY <1>a, <2>1
  <2>3. Narrowed(k, n) \in Int
    BY <2>2, SMT
  <2> QED BY <1>1, <2>2, <2>3
<1>2. CASE k \in {"pin", "cells", "level"}
  <2>1. Narrowed(k, n) = n % 256
    BY <1>2 DEF Narrowed
  <2>2. Narrowed(k, n) \in 0 .. 255
    BY <1>a, <2>1
  <2>3. Narrowed(k, n) \in Int
    BY <2>2, SMT
  <2> QED BY <1>2, <2>2, <2>3
<1>3. CASE k \in {"rate", "threshold", "pulse"}
  <2>1. Narrowed(k, n) = n % 65536
    BY <1>3 DEF Narrowed
  <2>2. Narrowed(k, n) \in Nat /\ Narrowed(k, n) < 65536
    BY <1>a, <2>1
  <2>3. Narrowed(k, n) \in Int
    BY <2>2, SMT
  <2> QED BY <1>3, <2>2, <2>3
<1>4. CASE k \notin {"signedPin", "pin", "cells", "level", "rate", "threshold", "pulse"}
  <2>1. Narrowed(k, n) = n
    BY <1>4 DEF Narrowed
  <2> QED BY <1>4, <2>1
<1> QED BY <1>1, <1>2, <1>3, <1>4

\* A number that fits its field is not changed by the cast.
LEMMA FitsField ==
  ASSUME NEW k \in Kinds, NEW n \in Int,
         k = "signedPin" => n \in -128 .. 127,
         k \in {"pin", "cells", "level"} => n \in 0 .. 255,
         k \in {"rate", "threshold", "pulse"} => n \in Nat /\ n < 65536
  PROVE  Narrowed(k, n) = n
<1>m. ASSUME NEW w \in Nat, n \in Nat, n < w PROVE n % w = n
  BY <1>m, SMT
<1>1. CASE k = "signedPin"
  <2>1. Narrowed(k, n) = ((n + 128) % 256) - 128
    BY <1>1 DEF Narrowed
  <2> QED BY <1>1, <2>1, SMT
<1>2. CASE k \in {"pin", "cells", "level"}
  <2>1. Narrowed(k, n) = n % 256 /\ n \in Nat /\ n < 256
    BY <1>2, SMT DEF Narrowed
  <2> QED BY <2>1, SMT
<1>3. CASE k \in {"rate", "threshold", "pulse"}
  <2>1. Narrowed(k, n) = n % 65536
    BY <1>3 DEF Narrowed
  <2>2. n % 65536 = n
    BY <1>3, SMT
  <2> QED BY <2>1, <2>2
<1>4. CASE k \notin {"signedPin", "pin", "cells", "level", "rate", "threshold", "pulse"}
  BY <1>4 DEF Narrowed
<1> QED BY <1>1, <1>2, <1>3, <1>4

\* Whatever number of a POST is accepted, what is kept of it is one the modules
\* are written for: narrowing to the width of the field before clamping loses
\* the number that was meant, and nothing else.
THEOREM StoredIsUsable ==
  ASSUME NEW k \in Kinds, NEW n \in Int, Posted(k, n), Accepted(k, n)
  PROVE  Stored(k, n) \in Usable(k)
<1>1. CASE k \in Clamping
  <2>1. Stored(k, n) = Clamp(Narrowed(k, n), Limits(k))
    BY <1>1 DEF Stored, Clamped
  <2>2. Narrowed(k, n) \in Int
    BY NarrowedType
  <2>3. Clamp(Narrowed(k, n), Limits(k)) \in Limits(k)[1] .. Limits(k)[2]
    BY <1>1, <2>2, ClampIn
  <2> QED BY <1>1, <2>1, <2>3, UsableClamping
<1>2. CASE k \notin Clamping
  <2>1. Stored(k, n) = Narrowed(k, n)
    BY <1>2 DEF Stored, Clamped
  <2>2. CASE k \in Refusing
    <3>1. k \notin {"signedPin", "pin", "cells", "level", "rate", "threshold", "pulse"}
      BY <2>2 DEF Refusing
    <3>2. Narrowed(k, n) = n /\ n \in Allowed(k)
      BY <2>2, <3>1, NarrowedType DEF Accepted
    <3> QED BY <1>2, <2>1, <2>2, <3>2, UsableRefusing
  <2>3. CASE k = "signedPin"
    BY <2>1, <2>3, NarrowedType DEF Usable, Clamping, Refusing
  <2>4. CASE k \in {"pin", "level"}
    BY <2>1, <2>4, NarrowedType DEF Usable, Clamping, Refusing
  <2>5. CASE k = "threshold"
    BY <2>1, <2>5, NarrowedType DEF Usable, Clamping, Refusing
  <2>6. CASE k = "baud"
    <3>1. n \in Nat
      BY <2>6, SMT DEF Posted
    <3> QED BY <2>1, <2>6, <3>1, NarrowedType DEF Usable, Clamping, Refusing
  <2> QED BY <1>2, <2>2, <2>3, <2>4, <2>5, <2>6 DEF Kinds, Refusing, Clamping
<1> QED BY <1>1, <1>2

\* A usable number survives: it is accepted when it is posted, and kept as it is.
LEMMA UsableIsKept ==
  ASSUME NEW k \in Kinds, NEW n \in Usable(k)
  PROVE  Accepted(k, n) /\ Stored(k, n) = n /\ Narrowed(k, n) = n /\ Clamped(k, n) = n
<1>1. CASE k \in Clamping
  <2> DEFINE lo == Limits(k)[1]
             hi == Limits(k)[2]
  <2>1. lo \in Nat /\ hi \in Nat
    BY <1>1, LimitsType
  <2>2. n \in lo .. hi
    BY <1>1, UsableClamping
  <2>3. hi < 65536 \/ k = "ratio"
    BY <1>1, SMT DEF Limits, Clamping
  <2>4. k = "cells" => hi < 256
    BY <1>1, SMT DEF Limits, Clamping
  <2>5. k = "ratio" => lo > 0
    BY <1>1, SMT DEF Limits, Clamping
  <2>6. k = "factor" => lo = 500 /\ hi = 2000
    BY <1>1, SMT DEF Limits, Clamping
  <2>7. Clamp(n, Limits(k)) = IF n < lo THEN lo ELSE IF n > hi THEN hi ELSE n
    BY DEF Clamp
  <2> HIDE DEF lo, hi
  <2>8. n \in Int /\ n \in Nat /\ ~(n < lo) /\ ~(n > hi)
    BY <2>1, <2>2, SMT
  <2>9. Clamped(k, n) = n
    BY <1>1, <2>7, <2>8 DEF Clamped
  <2>10. Narrowed(k, n) = n
    <3>1. k \in {"rate", "pulse"} => n < 65536
      BY <2>1, <2>2, <2>3, SMT
    <3>2. k = "cells" => n \in 0 .. 255
      BY <2>1, <2>2, <2>4, SMT
    <3>3. k \notin {"signedPin", "pin", "level", "threshold"}
      BY <1>1 DEF Clamping
    <3> QED BY <2>8, <3>1, <3>2, <3>3, FitsField
  <2>11. Accepted(k, n)
    <3>1. k = "factor" => n \in 500 .. 2000
      BY <2>2, <2>6
    <3>2. k = "ratio" => n > 0
      BY <2>1, <2>2, <2>5, SMT
    <3>3. k \in Refusing => k = "factor"
      BY <1>1 DEF Clamping, Refusing
    <3> QED BY <3>1, <3>2, <3>3 DEF Accepted, Allowed
  <2> QED BY <2>9, <2>10, <2>11 DEF Stored
<1>2. CASE k \notin Clamping
  <2>0. Clamped(k, n) = n /\ k # "ratio"
    BY <1>2 DEF Clamped, Clamping
  <2>1. CASE k \in Refusing
    <3>1. n \in Allowed(k)
      BY <1>2, <2>1, UsableRefusing
    <3>2. k \notin {"signedPin", "pin", "cells", "level", "rate", "threshold", "pulse"}
      BY <2>1 DEF Refusing
    <3>3. Narrowed(k, n) = n
      BY <3>2 DEF Narrowed
    <3> QED BY <2>0, <3>1, <3>3 DEF Accepted, Stored
  <2>2. CASE k \notin Refusing
    <3>1. /\ n \in Int
          /\ k = "signedPin" => n \in -128 .. 127
          /\ k \in {"pin", "cells", "level"} => n \in 0 .. 255
          /\ k \in {"rate", "threshold", "pulse"} => n \in Nat /\ n < 65536
      <4>1. CASE k = "signedPin"
        <5>1. n \in -128 .. 127
          BY <1>2, <2>2, <4>1 DEF Usable
        <5> QED BY <4>1, <5>1, SMT
      <4>2. CASE k \in {"pin", "level"}
        <5>1. n \in 0 .. 255
          BY <1>2, <2>2, <4>2 DEF Usable
        <5> QED BY <4>2, <5>1, SMT
      <4>3. CASE k = "threshold"
        <5>1. n \in {m \in Nat : m < 65536}
          BY <1>2, <2>2, <4>3 DEF Usable
        <5> QED BY <4>3, <5>1, SMT
      <4>4. CASE k = "baud"
        <5>1. n \in Nat
          BY <1>2, <2>2, <4>4 DEF Usable
        <5> QED BY <4>4, <5>1, SMT
      <4> QED BY <1>2, <2>2, <4>1, <4>2, <4>3, <4>4 DEF Kinds, Refusing, Clamping
    <3>2. Narrowed(k, n) = n
      BY <3>1, FitsField
    <3> QED BY <2>0, <2>2, <3>2 DEF Accepted, Stored
  <2> QED BY <2>1, <2>2
<1> QED BY <1>1, <1>2

\* A section, of whatever fields, that the modules can use survives an export
\* and an import, into a router with whatever settings: GET /api/config posted
\* back is accepted and changes every field to what it was.
THEOREM ExportedIsImported ==
  ASSUME NEW Fields, NEW kinds \in [Fields -> Kinds],
         NEW section, section = [f \in Fields |-> section[f]],
         \A f \in Fields : section[f] \in Usable(kinds[f]),
         NEW old, old = [f \in Fields |-> old[f]]
  PROVE  /\ Acceptable(kinds, ToJson(section))
         /\ Validated(kinds, FromJson(kinds, old, ToJson(section))) = section
<1>0. DOMAIN section = Fields /\ DOMAIN old = Fields
  OBVIOUS
<1>1. \A f \in Fields : /\ Accepted(kinds[f], section[f])
                       /\ Narrowed(kinds[f], section[f]) = section[f]
                       /\ Clamped(kinds[f], section[f]) = section[f]
  BY UsableIsKept
<1>2. Acceptable(kinds, ToJson(section))
  BY <1>0, <1>1 DEF Acceptable, ToJson
<1>3. FromJson(kinds, old, ToJson(section)) = [f \in Fields |-> section[f]]
  BY <1>0, <1>1, <1>2 DEF FromJson, ToJson
<1>4. Validated(kinds, section) = [f \in Fields |-> section[f]]
  BY <1>0, <1>1 DEF Validated
<1> QED BY <1>2, <1>3, <1>4
-----------------------------------------------------------------------------
(* Contents and configurations.                                            *)

LEMMA FieldKinds == Field["voltage"] = "factor" /\ Field["system"] = "pulse"
BY DEF Field

LEMMA SectionKind ==
  ASSUME NEW s \in Sections
  PROVE  Field[s] \in Clamping /\ Field[s] \in Kinds
BY FieldKinds DEF Sections, Clamping, Kinds

\* Clamping twice is clamping once.
LEMMA ClampedTwice ==
  ASSUME NEW k \in Clamping, NEW n \in Int
  PROVE  Clamped(k, n) \in Int /\ Clamped(k, Clamped(k, n)) = Clamped(k, n)
<1> DEFINE lo == Limits(k)[1]
           hi == Limits(k)[2]
<1>1. lo \in Nat /\ hi \in Nat /\ lo <= hi
  BY LimitsType
<1>2. \A m : Clamped(k, m) = IF m < lo THEN lo ELSE IF m > hi THEN hi ELSE m
  BY DEF Clamped, Clamp
<1> HIDE DEF lo, hi
<1> QED BY <1>1, <1>2, SMT

\* configValidate settles a content at once.
LEMMA ValidFacts ==
  ASSUME NEW c \in Content
  PROVE  /\ Valid(c) \in Content
         /\ Valid(Valid(c)) = Valid(c)
         /\ \A s \in Sections : Valid(c)[s] = Clamped(Field[s], c[s])
<1>1. Valid(c) = [s \in Sections |-> Clamped(Field[s], c[s])]
  BY DEF Valid, Validated, Content
<1>2. \A s \in Sections : /\ Clamped(Field[s], c[s]) \in Int
                         /\ Clamped(Field[s], Clamped(Field[s], c[s])) = Clamped(Field[s], c[s])
  BY SectionKind, ClampedTwice DEF Content
<1>3. Valid(c) \in Content
  BY <1>1, <1>2 DEF Content
<1>4. Valid(Valid(c)) = [s \in Sections |-> Clamped(Field[s], Valid(c)[s])]
  BY <1>3 DEF Valid, Validated, Content
<1> QED BY <1>1, <1>2, <1>3, <1>4

LEMMA SealedFacts ==
  ASSUME NEW c \in Content
  PROVE  Sealed(c) \in Config /\ Intact(Sealed(c)) /\ Sealed(c).content = c
BY DEF Sealed, Config, Intact

\* The defaults are a configuration, sealed and within the limits.
LEMMA DefaultsFacts ==
  /\ Defaults \in Config /\ Intact(Defaults)
  /\ Defaults.content \in Content /\ Valid(Defaults.content) = Defaults.content
<1> DEFINE d == [voltage |-> 1000, system |-> 1500]
<1>1. d \in Content
  BY SMT DEF Content, Sections
<1>2. d["voltage"] = 1000 /\ d["system"] = 1500
  BY SMT
<1>3. Clamped("factor", 1000) = 1000 /\ Clamped("pulse", 1500) = 1500
  BY SMT DEF Clamped, Clamp, Limits, Clamping
<1> HIDE DEF d
<1>4. \A s \in Sections : Valid(d)[s] = d[s]
  BY <1>1, <1>2, <1>3, ValidFacts, FieldKinds DEF Sections
<1>5. Valid(d) = d
  BY <1>1, <1>4, ValidFacts DEF Content
<1>6. Defaults = Sealed(d)
  BY DEF Defaults, d
<1> QED BY <1>1, <1>5, <1>6, SealedFacts

\* One section set to a number.
LEMMA SetSection ==
  ASSUME NEW c \in Content, NEW s \in Sections, NEW n \in Int
  PROVE  /\ [c EXCEPT ![s] = n] \in Content
         /\ Valid([c EXCEPT ![s] = n]) = [Valid(c) EXCEPT ![s] = Clamped(Field[s], n)]
<1> DEFINE d == [c EXCEPT ![s] = n]
<1>1. d \in Content
  BY DEF Content
<1>2. \A t \in Sections : Valid(d)[t] = Clamped(Field[t], IF t = s THEN n ELSE c[t])
  BY <1>1, ValidFacts DEF Content
<1>3. Valid(d) \in Content /\ Valid(c) \in Content
  BY <1>1, ValidFacts
<1>4. \A t \in Sections : Valid(d)[t] = [Valid(c) EXCEPT ![s] = Clamped(Field[s], n)][t]
  BY <1>2, <1>3, ValidFacts DEF Content
<1> HIDE DEF d
<1>5. Clamped(Field[s], n) \in Int
  BY SectionKind, ClampedTwice
<1>6. [Valid(c) EXCEPT ![s] = Clamped(Field[s], n)] \in Content
  BY <1>3, <1>5 DEF Content
<1>7. Valid(d) = [Valid(c) EXCEPT ![s] = Clamped(Field[s], n)]
  BY <1>3, <1>4, <1>6 DEF Content
<1> QED BY <1>1, <1>7 DEF d

\* An accepted post changes one section, to what is said to be stored of it.
LEMMA PostFacts ==
  ASSUME NEW c \in Content, NEW s \in Sections, NEW n \in Int, Accepted(Field[s], n)
  PROVE  LET d == FromJson(Field, c, [t \in {s} |-> n])
         IN  d \in Content /\ Valid(d) = [Valid(c) EXCEPT ![s] = Stored(Field[s], n)]
<1> DEFINE posted == [t \in {s} |-> n]
           m == Narrowed(Field[s], n)
<1>1. m \in Int
  BY SectionKind, NarrowedType
<1>2. Acceptable(Field, posted)
  BY DEF Acceptable
<1>3. FromJson(Field, c, posted) = [t \in Sections |-> IF t = s THEN m ELSE c[t]]
  BY <1>2 DEF FromJson, Content
<1>4. FromJson(Field, c, posted) = [c EXCEPT ![s] = m]
  BY <1>3 DEF Content
<1> QED BY <1>1, <1>4, SetSection DEF Stored

LEMMA StoredType ==
  ASSUME NEW s \in Sections, NEW n \in Int
  PROVE  Stored(Field[s], n) \in Int
BY SectionKind, NarrowedType, ClampedTwice DEF Stored
-----------------------------------------------------------------------------
(* Type correctness.                                                       *)

\* A configuration one of whose parts is replaced.
LEMMA ConfigWith ==
  ASSUME NEW c \in Config, NEW x \in Content, NEW s \in Sections, NEW n \in Int
  PROVE  /\ [c EXCEPT !.content = x] \in Config
         /\ [c EXCEPT !.content = x].content = x /\ [c EXCEPT !.content = x].crc = c.crc
         /\ [c EXCEPT !.content[s] = n] \in Config
         /\ [c EXCEPT !.content[s] = n].content = [c.content EXCEPT ![s] = n]
         /\ [c EXCEPT !.content[s] = n].crc = c.crc
         /\ [content |-> x, crc |-> c.crc] \in Config
         /\ c.content \in Content /\ c.crc \in Content
         /\ [c.content EXCEPT ![s] = n] \in Content
<1>1. c.content \in Content /\ c.crc \in Content
  BY DEF Config
<1>2. [c EXCEPT !.content = x] \in Config
  BY Zenon DEF Config
<1>3. [c EXCEPT !.content = x].content = x /\ [c EXCEPT !.content = x].crc = c.crc
  BY DEF Config
<1>4. [c.content EXCEPT ![s] = n] \in Content
  BY <1>1, SetSection
<1>5. [c EXCEPT !.content[s] = n] = [c EXCEPT !.content = [c.content EXCEPT ![s] = n]]
  BY Zenon
<1>6. /\ [c EXCEPT !.content[s] = n] \in Config
      /\ [c EXCEPT !.content[s] = n].content = [c.content EXCEPT ![s] = n]
      /\ [c EXCEPT !.content[s] = n].crc = c.crc
  BY <1>4, <1>5 DEF Config
<1>7. [content |-> x, crc |-> c.crc] \in Config
  BY <1>1 DEF Config
<1> QED BY <1>1, <1>2, <1>3, <1>4, <1>6, <1>7
\* What begin() makes of a blob is a configuration within the limits.
LEMMA LoadedFacts ==
  ASSUME NEW blob \in Config \cup {NoBlob}
  PROVE  /\ Loaded(blob) \in Config
         /\ Valid(Loaded(blob).content) = Loaded(blob).content
         /\ (blob = NoBlob \/ Valid(blob.content) = blob.content) => Intact(Loaded(blob))
<1>1. CASE blob = NoBlob
  BY <1>1, DefaultsFacts DEF Loaded
<1>2. CASE blob \in Config /\ blob # NoBlob /\ Intact(blob)
  <2> DEFINE l == [blob EXCEPT !.content = Valid(blob.content)]
  <2>1. Loaded(blob) = l
    BY <1>2 DEF Loaded
  <2>2. blob.content \in Content /\ blob.crc = blob.content
    BY <1>2 DEF Config, Intact
  <2>3. Valid(blob.content) \in Content
        /\ Valid(Valid(blob.content)) = Valid(blob.content)
    BY <2>2, ValidFacts
  <2>4. l \in Config /\ l.content = Valid(blob.content) /\ l.crc = blob.crc
    <3>1. "voltage" \in Sections /\ 0 \in Int
      BY DEF Sections
    <3> QED BY <1>2, <2>3, <3>1, ConfigWith, Zenon
  <2> HIDE DEF l
  <2> QED BY <1>2, <2>1, <2>2, <2>3, <2>4 DEF Intact
<1>3. CASE blob \in Config /\ blob # NoBlob /\ ~Intact(blob)
  BY <1>3, DefaultsFacts DEF Loaded
<1> QED BY <1>1, <1>2, <1>3

LEMMA StageType == TypeOK => Stage \in Config
BY DEF TypeOK, Stage

\* What a handler stages for an accepted post.
LEMMA PostStages ==
  ASSUME TypeOK, NEW s \in Sections, NEW n \in Int, BeginPost(s, n)
  PROVE  /\ staged' \in Config
         /\ Valid(staged'.content) = [Valid(Stage.content) EXCEPT ![s] = Stored(Field[s], n)]
<1> DEFINE c == Stage.content
           x == FromJson(Field, c, [t \in {s} |-> n])
<1>1. c \in Content /\ Stage \in Config
  BY StageType DEF Config
<1>2. Accepted(Field[s], n) /\ staged' = [Stage EXCEPT !.content = x]
  BY DEF BeginPost
<1> HIDE DEF c
<1>3. x \in Content /\ Valid(x) = [Valid(c) EXCEPT ![s] = Stored(Field[s], n)]
  BY <1>1, <1>2, PostFacts
<1> HIDE DEF x
<1>4. staged' \in Config /\ staged'.content = x
  BY <1>1, <1>2, <1>3, ConfigWith
<1> QED BY <1>3, <1>4 DEF c

LEMMA InitType == Init => TypeOK
<1> SUFFICES ASSUME Init PROVE TypeOK
  OBVIOUS
<1>1. <<"voltage", 0>> \in Sections \X Int
  BY DEF Sections
<1> QED BY <1>1, DefaultsFacts DEF Init, TypeOK, ServiceSteps, WebSteps

LEMMA TypeStep == TypeOK /\ [Next]_vars => TypeOK'
<1> SUFFICES ASSUME TypeOK, [Next]_vars PROVE TypeOK'
  OBVIOUS
<1>0. /\ config \in Config /\ pendingConfig \in Config /\ merged \in Config /\ staged \in Config
      /\ config.content \in Content /\ pendingConfig.content \in Content
      /\ merged.content \in Content /\ staged.content \in Content
      /\ Valid(config.content) \in Content
      /\ Stage \in Config /\ Stage.content \in Content
      /\ "voltage" \in Sections /\ "system" \in Sections
      /\ <<"voltage", 0>> \in Sections \X Int
  BY StageType, ValidFacts, SMT DEF TypeOK, Config, Sections
<1>f. UNCHANGED vars \/ UNCHANGED flashFails
  BY DEF Next, vars
<1> USE DefaultsFacts DEF ServiceSteps, WebSteps
<1>1. ASSUME SeePending, UNCHANGED flashFails PROVE TypeOK'
  BY <1>1 DEF SeePending, TypeOK
<1>2. ASSUME CopyVoltage, UNCHANGED flashFails PROVE TypeOK'
  <2>1. merged' = [merged EXCEPT !.content["voltage"] = pendingConfig.content["voltage"]]
    BY <1>2 DEF CopyVoltage
  <2>2. pendingConfig.content["voltage"] \in Int
    BY <1>0 DEF Content
  <2>3. merged' \in Config
    BY <1>0, <2>1, <2>2, ConfigWith
  <2> QED BY <1>2, <2>3 DEF CopyVoltage, TypeOK
<1>3. ASSUME CopySystem, UNCHANGED flashFails PROVE TypeOK'
  <2> DEFINE x == [merged.content EXCEPT !["system"] = pendingConfig.content["system"]]
  <2>1. merged' = [content |-> Valid(x), crc |-> pendingConfig.crc]
    BY <1>3 DEF CopySystem
  <2>2. pendingConfig.content["system"] \in Int
    BY <1>0 DEF Content
  <2>3. x \in Content
    BY <1>0, <2>2, SetSection
  <2> HIDE DEF x
  <2>4. Valid(x) \in Content
    BY <2>3, ValidFacts
  <2>5. merged' \in Config
    BY <1>0, <2>1, <2>4, ConfigWith
  <2> QED BY <1>3, <2>5 DEF CopySystem, TypeOK
<1>4. ASSUME Install, UNCHANGED flashFails PROVE TypeOK'
  BY <1>4 DEF Install, TypeOK
<1>5. ASSUME Seal, UNCHANGED flashFails PROVE TypeOK'
  BY <1>0, <1>5, SealedFacts DEF Seal, TypeOK
<1>6. ASSUME WriteBlob, UNCHANGED flashFails PROVE TypeOK'
  BY <1>6 DEF WriteBlob, TypeOK
<1>7. ASSUME ClearPending, UNCHANGED flashFails PROVE TypeOK'
  BY <1>7 DEF ClearPending, TypeOK
<1>8. ASSUME Apply, UNCHANGED flashFails PROVE TypeOK'
  BY <1>0, <1>8 DEF Apply, TypeOK
<1>9. ASSUME NEW p \in Posts, BeginPost(p[1], p[2]), UNCHANGED flashFails PROVE TypeOK'
  <2>1. p[1] \in Sections /\ p[2] \in Int
    BY ConfigAssumption
  <2>4. staged' \in Config
    BY <1>9, <2>1, PostStages
  <2>5. job' \in Sections \X Int
    BY <1>9, <2>1, StoredType DEF BeginPost
  <2> QED BY <1>9, <2>4, <2>5 DEF BeginPost, TypeOK
<1>10. ASSUME BeginEmptyPost, UNCHANGED flashFails PROVE TypeOK'
  <2>1. Stage.content["system"] \in Int /\ "pulse" \in Clamping
    BY <1>0 DEF Content, Clamping
  <2>2. Clamped("pulse", Stage.content["system"]) \in Int
    BY <2>1, ClampedTwice
  <2> QED BY <1>0, <1>10, <2>2 DEF BeginEmptyPost, TypeOK
<1>11. ASSUME NEW f \in Factors, BeginCalibrate(f), UNCHANGED flashFails PROVE TypeOK'
  <2>1. f \in Int
    BY ConfigAssumption, SMT DEF Allowed
  <2>2. staged' \in Config
    BY <1>0, <1>11, <2>1, ConfigWith DEF BeginCalibrate
  <2>3. applied' \in Content
    BY <1>0, <1>11, <2>1, SetSection DEF BeginCalibrate, TypeOK
  <2> QED BY <1>0, <1>11, <2>1, <2>2, <2>3 DEF BeginCalibrate, TypeOK
<1>12. ASSUME PutVoltage, UNCHANGED flashFails PROVE TypeOK'
  <2>1. staged.content["voltage"] \in Int
    BY <1>0 DEF Content
  <2>2. pendingConfig' \in Config
    BY <1>0, <1>12, <2>1, ConfigWith DEF PutVoltage
  <2> QED BY <1>12, <2>2 DEF PutVoltage, TypeOK
<1>13. ASSUME PutSystem, UNCHANGED flashFails PROVE TypeOK'
  BY <1>13 DEF PutSystem, TypeOK
<1>14. ASSUME Arm, UNCHANGED flashFails PROVE TypeOK'
  <2>1. owed' \in Content
    BY <1>14, SetSection DEF Arm, TypeOK
  <2> QED BY <1>0, <1>14, <2>1 DEF Arm, TypeOK
<1>15. ASSUME EraseAll, UNCHANGED flashFails PROVE TypeOK'
  BY <1>15 DEF EraseAll, TypeOK
<1>16. ASSUME LoadDefaults, UNCHANGED flashFails PROVE TypeOK'
  BY <1>16 DEF LoadDefaults, TypeOK
<1>17. ASSUME SealDefaults, UNCHANGED flashFails PROVE TypeOK'
  BY <1>0, <1>17, SealedFacts DEF SealDefaults, TypeOK
<1>18. ASSUME WriteDefaults, UNCHANGED flashFails PROVE TypeOK'
  BY <1>18 DEF WriteDefaults, TypeOK
<1>19. ASSUME Reboot, UNCHANGED flashFails PROVE TypeOK'
  <2>1. config' \in Config
    BY <1>19, LoadedFacts DEF Reboot, TypeOK
  <2>2. config'.content \in Content
    BY <2>1 DEF Config
  <2>3. store' \in Config \cup {NoBlob} /\ clean' \in BOOLEAN
    BY <1>19, <2>1 DEF Reboot, TypeOK
  <2> QED BY <1>0, <1>19, <2>1, <2>2, <2>3 DEF Reboot, TypeOK
<1>20. CASE UNCHANGED vars
  BY <1>20 DEF vars, ram, TypeOK
<1> QED
  BY <1>1, <1>2, <1>3, <1>4, <1>5, <1>6, <1>7, <1>8, <1>9, <1>10, <1>11, <1>12, <1>13,
     <1>14, <1>15, <1>16, <1>17, <1>18, <1>19, <1>20 DEF Next, Service, Web

\* Nothing a handler, applyPending or a reboot does takes a configuration out
\* of its types, whatever is posted.
THEOREM TypeCorrect == Spec => []TypeOK
<1> QED BY InitType, TypeStep, PTL DEF Spec
-----------------------------------------------------------------------------
(* Limits and the flash.                                                   *)

\* Why settings stay in their limits: configValidate runs on the copy before
\* it is installed, and on whatever is loaded or sealed.
LimitsInv ==
  /\ InLimits
  /\ svc = "install" => Valid(merged.content) = merged.content
  /\ store # NoBlob => Valid(store.content) = store.content

\* Why the next boot accepts what it finds: only between installing and sealing
\* does config_ have a checksum that is not its own, and the one who could
\* write it out then is a factory reset that ran into applyPending.
FlashInv ==
  /\ svc # "seal" => Intact(config)
  /\ (store # NoBlob /\ ~Intact(store)) => ~clean /\ (svc \in {"seal", "write"} \/ flashFails)
  /\ store = NoBlob => flashFails \/ Resetting
  /\ Resetting /\ pending => ~clean
  /\ svc \notin {"idle", "apply"} => pending
  /\ flashFails \/ store = config \/ svc \in {"seal", "write"} \/ Resetting

LEMMA SafeInit == Init => LimitsInv /\ FlashInv
BY DefaultsFacts, NoBlobAssumption DEF Init, LimitsInv, FlashInv, InLimits, Resetting

LEMMA SafeStep ==
  TypeOK /\ LimitsInv /\ FlashInv /\ [Next]_vars => LimitsInv' /\ FlashInv'
<1> SUFFICES ASSUME TypeOK, LimitsInv, FlashInv, [Next]_vars
             PROVE  LimitsInv' /\ FlashInv'
  OBVIOUS
<1>0. /\ config \in Config /\ pendingConfig \in Config /\ merged \in Config
      /\ config.content \in Content /\ pendingConfig.content \in Content
      /\ merged.content \in Content /\ applied \in Content
      /\ store \in Config \cup {NoBlob}
      /\ Valid(Valid(config.content)) = Valid(config.content)
      /\ Valid(config.content) \in Content
      /\ "voltage" \in Sections /\ "system" \in Sections
      /\ pending \in BOOLEAN /\ clean \in BOOLEAN
  BY ValidFacts, SMT DEF TypeOK, Config, Sections
<1> USE NoBlobAssumption DEF LimitsInv, FlashInv, InLimits, Resetting
\* The steps of a handler up to its answer.
<1>w. ASSUME UNCHANGED <<config, svc, merged, store, pending, applied, flashFails>>,
             web \in {"idle", "put", "putting"}, web' \in {"put", "putting", "arm"},
             clean' => clean
      PROVE  LimitsInv' /\ FlashInv'
  BY <1>w
<1>1. ASSUME SeePending, UNCHANGED flashFails PROVE LimitsInv' /\ FlashInv'
  BY <1>1 DEF SeePending
<1>2. ASSUME CopyVoltage, UNCHANGED flashFails PROVE LimitsInv' /\ FlashInv'
  BY <1>2 DEF CopyVoltage
<1>3. ASSUME CopySystem, UNCHANGED flashFails PROVE LimitsInv' /\ FlashInv'
  <2> DEFINE x == [merged.content EXCEPT !["system"] = pendingConfig.content["system"]]
  <2>1. merged'.content = Valid(x)
    BY <1>3 DEF CopySystem
  <2>2. pendingConfig.content["system"] \in Int
    BY <1>0 DEF Content
  <2>3. x \in Content
    BY <1>0, <2>2, SetSection
  <2> HIDE DEF x
  <2>4. Valid(merged'.content) = merged'.content
    BY <2>1, <2>3, ValidFacts
  <2> QED BY <1>3, <2>4 DEF CopySystem
<1>4. ASSUME Install, UNCHANGED flashFails PROVE LimitsInv' /\ FlashInv'
  BY <1>4 DEF Install
<1>5. ASSUME Seal, UNCHANGED flashFails PROVE LimitsInv' /\ FlashInv'
  BY <1>0, <1>5, SealedFacts DEF Seal
<1>6. ASSUME WriteBlob, UNCHANGED flashFails PROVE LimitsInv' /\ FlashInv'
  <2>1. CASE store' = config /\ saved' = TRUE
    BY <1>0, <1>6, <2>1 DEF WriteBlob
  <2>2. CASE flashFails /\ store' = store /\ saved' = FALSE
    BY <1>6, <2>2 DEF WriteBlob
  <2> QED BY <1>6, <2>1, <2>2 DEF WriteBlob
<1>7. ASSUME ClearPending, UNCHANGED flashFails PROVE LimitsInv' /\ FlashInv'
  BY <1>7 DEF ClearPending
<1>8. ASSUME Apply, UNCHANGED flashFails PROVE LimitsInv' /\ FlashInv'
  BY <1>8 DEF Apply
<1>9. ASSUME NEW p \in Posts, BeginPost(p[1], p[2]), UNCHANGED flashFails
      PROVE  LimitsInv' /\ FlashInv'
  BY <1>9, <1>w DEF BeginPost
<1>10. ASSUME BeginEmptyPost, UNCHANGED flashFails PROVE LimitsInv' /\ FlashInv'
  BY <1>10, <1>w DEF BeginEmptyPost
<1>11. ASSUME NEW f \in Factors, BeginCalibrate(f), UNCHANGED flashFails
       PROVE  LimitsInv' /\ FlashInv'
  <2>1. f \in Int /\ f \in 500 .. 2000
    BY ConfigAssumption, SMT DEF Allowed
  <2>2. Clamped(Field["voltage"], f) = f
    BY <2>1, FieldKinds, SMT DEF Clamped, Clamp, Limits, Clamping
  <2>3. Valid([applied EXCEPT !["voltage"] = f]) = [applied EXCEPT !["voltage"] = f]
    BY <1>0, <2>1, <2>2, SetSection
  <2> QED BY <1>11, <2>3 DEF BeginCalibrate
<1>12. ASSUME PutVoltage, UNCHANGED flashFails PROVE LimitsInv' /\ FlashInv'
  BY <1>0, <1>12, <1>w DEF PutVoltage
<1>13. ASSUME PutSystem, UNCHANGED flashFails PROVE LimitsInv' /\ FlashInv'
  BY <1>0, <1>13, <1>w DEF PutSystem
<1>14. ASSUME Arm, UNCHANGED flashFails PROVE LimitsInv' /\ FlashInv'
  BY <1>0, <1>14 DEF Arm
<1>15. ASSUME EraseAll, UNCHANGED flashFails PROVE LimitsInv' /\ FlashInv'
  BY <1>0, <1>15 DEF EraseAll
<1>16. ASSUME LoadDefaults, UNCHANGED flashFails PROVE LimitsInv' /\ FlashInv'
  BY <1>16, DefaultsFacts DEF LoadDefaults
<1>17. ASSUME SealDefaults, UNCHANGED flashFails PROVE LimitsInv' /\ FlashInv'
  BY <1>0, <1>17, SealedFacts DEF SealDefaults
<1>18. ASSUME WriteDefaults, UNCHANGED flashFails PROVE LimitsInv' /\ FlashInv'
  <2>1. CASE store' = config
    BY <1>0, <1>18, <2>1 DEF WriteDefaults
  <2>2. CASE flashFails /\ store' = store
    BY <1>18, <2>2 DEF WriteDefaults
  <2> QED BY <1>18, <2>1, <2>2 DEF WriteDefaults
<1>19. ASSUME Reboot, UNCHANGED flashFails PROVE LimitsInv' /\ FlashInv'
  <2>1. /\ config' \in Config /\ Valid(config'.content) = config'.content /\ Intact(config')
        /\ config' # NoBlob
    BY <1>0, <1>19, LoadedFacts DEF Reboot
  <2>2. /\ svc' = "idle" /\ pending' = FALSE /\ web' = "idle" /\ applied' = config'.content
        /\ clean' = (store' = config')
    BY <1>19 DEF Reboot
  <2>3. Intact(config)'
    BY <2>1 DEF Intact
  <2>4. CASE store' = config'
    BY <2>1, <2>2, <2>3, <2>4 DEF Intact
  <2>5. CASE flashFails /\ store' = store
    <3>1. store # NoBlob /\ ~Intact(store) => ~clean'
      BY <2>1, <2>2, <2>5
    <3> QED BY <1>19, <2>1, <2>2, <2>3, <2>5, <3>1 DEF Intact
  <2> QED BY <1>19, <2>4, <2>5 DEF Reboot
<1>20. CASE UNCHANGED vars
  BY <1>20 DEF vars, ram, Intact
<1> QED
  BY <1>1, <1>2, <1>3, <1>4, <1>5, <1>6, <1>7, <1>8, <1>9, <1>10, <1>11, <1>12, <1>13,
     <1>14, <1>15, <1>16, <1>17, <1>18, <1>19, <1>20 DEF Next, Service, Web

\* For every post and every overlap of the two tasks, settings outside their
\* limits are never what the web page or the modules get to see.
THEOREM SettingsStayInLimits == Spec => []InLimits
<1>1. LimitsInv => InLimits
  BY DEF LimitsInv
<1> QED BY <1>1, InitType, TypeStep, SafeInit, SafeStep, PTL DEF Spec

\* What FlashInv says of a boot, and of RAM once both tasks are done.
LEMMA FlashFacts == Spec => [](FlashIsLoadable /\ FlashFollowsRam)
<1>1. TypeOK /\ FlashInv => FlashIsLoadable /\ FlashFollowsRam
  BY DEF FlashInv, FlashIsLoadable, FlashFollowsRam, Quiet, Resetting, TypeOK
<1> QED BY <1>1, InitType, TypeStep, SafeInit, SafeStep, PTL DEF Spec

\* Whenever power is lost, in the middle of a save too, a boot finds a blob it
\* accepts or, in a factory reset, none; apart from a flash that fails and a
\* reset that ran into applyPending, as FlashIsLoadable says.
THEOREM FlashCanBeLoaded == Spec => []FlashIsLoadable
<1> QED BY FlashFacts, PTL

\* Once both tasks are done the flash holds what the router works with, unless
\* the flash fails.
THEOREM FlashFollows == Spec => []FlashFollowsRam
<1> QED BY FlashFacts, PTL
-----------------------------------------------------------------------------
(* What was accepted is kept.                                              *)

\* What the browsers will have been told once the handler has answered.
Due == [owed EXCEPT ![job[1]] = job[2]]

\* The handler stages what it owes, and arms what it staged.
StagedIsDue ==
  /\ web \in {"put", "putting", "arm"} => Valid(staged.content) = Due
  /\ web = "arm" => pendingConfig = staged

\* Between two handlers what is owed waits in pending_config_, or is config_;
\* applyPending carries it from the one to the other section by section.
OwedIsUnderway ==
  web = "idle" =>
    /\ pending => Valid(pendingConfig.content) = owed
    /\ (~pending \/ svc \in {"seal", "write", "clear"}) => config.content = owed
    /\ svc = "copying" => merged.content["voltage"] = pendingConfig.content["voltage"]
    /\ svc = "install" => merged.content = owed

\* The modules have it, or will be given it.
OwedIsApplied ==
  flashFails \/ reset \/ pending \/ svc = "apply" \/ web # "idle" \/ applied = owed

\* Why nothing accepted is lost while no handler runs into applyPending.
KeptInv ==
  /\ clean => /\ StagedIsDue /\ OwedIsUnderway /\ OwedIsApplied
              /\ web \in {"seal", "write"} => config.content = Defaults.content
  /\ svc = "clear" => saved \/ flashFails
  /\ Resetting => reset

LEMMA KeptInit == Init => KeptInv
BY DefaultsFacts
   DEF Init, KeptInv, StagedIsDue, OwedIsUnderway, OwedIsApplied, Resetting

\* What a handler starts from is, once validated, what is owed.
LEMMA StageIsOwed ==
  ASSUME TypeOK, LimitsInv, KeptInv, clean, web = "idle"
  PROVE  Valid(Stage.content) = owed
BY DEF LimitsInv, InLimits, KeptInv, OwedIsUnderway, Stage, TypeOK

\* A handler that stages what it will owe keeps the invariant.
LEMMA BeginKeeps ==
  ASSUME TypeOK, KeptInv, web = "idle", web' = "put",
         UNCHANGED <<config, pendingConfig, pending, svc, merged, saved, store,
                     owed, reset, clean, flashFails>>,
         clean => Valid(staged'.content) = Due'
  PROVE  KeptInv'
BY DEF KeptInv, StagedIsDue, OwedIsUnderway, OwedIsApplied, Resetting

LEMMA KeptStep ==
  TypeOK /\ LimitsInv /\ FlashInv /\ KeptInv /\ [Next]_vars => KeptInv'
<1> SUFFICES ASSUME TypeOK, LimitsInv, FlashInv, KeptInv, [Next]_vars PROVE KeptInv'
  OBVIOUS
<1>0. /\ config.content \in Content /\ pendingConfig.content \in Content
      /\ merged.content \in Content /\ Stage.content \in Content
      /\ Valid(config.content) = config.content
      /\ owed \in Content /\ clean \in BOOLEAN /\ pending \in BOOLEAN
      /\ svc \notin {"idle", "apply"} => pending
      /\ Resetting /\ pending => ~clean
  BY StageType, SMT DEF TypeOK, Config, LimitsInv, InLimits, FlashInv
<1> USE DEF KeptInv, StagedIsDue, OwedIsUnderway, OwedIsApplied, Resetting
<1>1. ASSUME SeePending, UNCHANGED flashFails PROVE KeptInv'
  BY <1>0, <1>1 DEF SeePending, Due
<1>2. ASSUME CopyVoltage, UNCHANGED flashFails PROVE KeptInv'
  <2>1. merged'.content = [merged.content EXCEPT !["voltage"] =
                             pendingConfig.content["voltage"]]
    <3>1. merged \in Config /\ pendingConfig.content["voltage"] \in Int
          /\ "voltage" \in Sections
      BY <1>0 DEF TypeOK, Content, Sections
    <3> QED BY <1>0, <1>2, <3>1, ConfigWith DEF CopyVoltage
  <2>2. merged'.content["voltage"] = pendingConfig.content["voltage"]
    BY <1>0, <2>1 DEF Content, Sections
  <2> QED BY <1>0, <1>2, <2>2 DEF CopyVoltage, Due
<1>3. ASSUME CopySystem, UNCHANGED flashFails PROVE KeptInv'
  <2> DEFINE x == [merged.content EXCEPT !["system"] = pendingConfig.content["system"]]
  <2>1. merged'.content = Valid(x)
    BY <1>3 DEF CopySystem
  <2>2. merged.content["voltage"] = pendingConfig.content["voltage"]
          => x = pendingConfig.content
    BY <1>0 DEF Content, Sections
  <2> HIDE DEF x
  <2>3. clean /\ web = "idle" => merged'.content = owed
    BY <1>0, <1>3, <2>1, <2>2 DEF CopySystem
  <2> QED BY <1>0, <1>3, <2>3 DEF CopySystem, Due
<1>4. ASSUME Install, UNCHANGED flashFails PROVE KeptInv'
  BY <1>0, <1>4 DEF Install, Due
<1>5. ASSUME Seal, UNCHANGED flashFails PROVE KeptInv'
  <2>1. config'.content = config.content
    BY <1>0, <1>5, SealedFacts DEF Seal
  <2> QED BY <1>0, <1>5, <2>1 DEF Seal, Due
<1>6. ASSUME WriteBlob, UNCHANGED flashFails PROVE KeptInv'
  BY <1>0, <1>6 DEF WriteBlob, Due
<1>7. ASSUME ClearPending, UNCHANGED flashFails PROVE KeptInv'
  BY <1>0, <1>7 DEF ClearPending, Due
<1>8. ASSUME Apply, UNCHANGED flashFails PROVE KeptInv'
  BY <1>0, <1>8 DEF Apply, Due
<1>9. ASSUME NEW p \in Posts, BeginPost(p[1], p[2]), UNCHANGED flashFails PROVE KeptInv'
  <2>1. p[1] \in Sections /\ p[2] \in Int
    BY ConfigAssumption
  <2>2. Valid(staged'.content) = [Valid(Stage.content) EXCEPT ![p[1]] = Stored(Field[p[1]], p[2])]
    BY <1>9, <2>1, PostStages
  <2>3. job' = <<p[1], Stored(Field[p[1]], p[2])>> /\ owed' = owed /\ web = "idle"
    BY <1>9 DEF BeginPost
  <2>4. clean => Valid(staged'.content) = Due'
    BY <2>2, <2>3, StageIsOwed DEF Due
  <2> QED BY <1>9, <2>4, BeginKeeps DEF BeginPost
<1>10. ASSUME BeginEmptyPost, UNCHANGED flashFails PROVE KeptInv'
  <2>1. /\ staged' = Stage /\ web = "idle" /\ owed' = owed
        /\ job' = <<"system", Clamped("pulse", Stage.content["system"])>>
    BY <1>10 DEF BeginEmptyPost
  <2>2. Valid(Stage.content)["system"] = Clamped("pulse", Stage.content["system"])
    BY <1>0, ValidFacts, FieldKinds DEF Sections
  <2>3. clean => Valid(staged'.content) = owed /\ owed["system"] = job'[2]
    BY <2>1, <2>2, StageIsOwed
  <2>4. clean => Due' = owed
    BY <1>0, <2>1, <2>3 DEF Due, Content, Sections
  <2> QED BY <1>10, <2>3, <2>4, BeginKeeps DEF BeginEmptyPost
<1>11. ASSUME NEW f \in Factors, BeginCalibrate(f), UNCHANGED flashFails PROVE KeptInv'
  <2>1. f \in Int /\ f \in 500 .. 2000
    BY ConfigAssumption, SMT DEF Allowed
  <2>2. Clamped(Field["voltage"], f) = f
    BY <2>1, FieldKinds, SMT DEF Clamped, Clamp, Limits, Clamping
  <2>3. /\ staged' = [Stage EXCEPT !.content["voltage"] = f]
        /\ job' = <<"voltage", f>> /\ owed' = owed /\ web = "idle"
    BY <1>11 DEF BeginCalibrate
  <2>4. Stage \in Config /\ "voltage" \in Sections
    BY StageType DEF Sections
  <2>5. staged'.content = [Stage.content EXCEPT !["voltage"] = f]
    BY <1>0, <2>1, <2>3, <2>4, ConfigWith
  <2>6. Valid(staged'.content) = [Valid(Stage.content) EXCEPT !["voltage"] = f]
    BY <1>0, <2>1, <2>2, <2>4, <2>5, SetSection
  <2>7. clean => Valid(staged'.content) = Due'
    BY <2>3, <2>6, StageIsOwed DEF Due
  <2> QED BY <1>11, <2>7, BeginKeeps DEF BeginCalibrate
<1>12. ASSUME PutVoltage, UNCHANGED flashFails PROVE KeptInv'
  BY <1>0, <1>12 DEF PutVoltage, Due
<1>13. ASSUME PutSystem, UNCHANGED flashFails PROVE KeptInv'
  BY <1>0, <1>13 DEF PutSystem, Due
<1>14. ASSUME Arm, UNCHANGED flashFails PROVE KeptInv'
  BY <1>0, <1>14 DEF Arm, Due, Applying
<1>15. ASSUME EraseAll, UNCHANGED flashFails PROVE KeptInv'
  BY <1>0, <1>15 DEF EraseAll, Due
<1>16. ASSUME LoadDefaults, UNCHANGED flashFails PROVE KeptInv'
  BY <1>0, <1>16 DEF LoadDefaults, Due
<1>17. ASSUME SealDefaults, UNCHANGED flashFails PROVE KeptInv'
  <2>1. config'.content = config.content
    BY <1>0, <1>17, SealedFacts DEF SealDefaults
  <2> QED BY <1>0, <1>17, <2>1 DEF SealDefaults, Due
<1>18. ASSUME WriteDefaults, UNCHANGED flashFails PROVE KeptInv'
  BY <1>0, <1>18 DEF WriteDefaults, Due
<1>19. ASSUME Reboot, UNCHANGED flashFails PROVE KeptInv'
  BY <1>0, <1>19 DEF Reboot, Due
<1>20. CASE UNCHANGED vars
  BY <1>20 DEF vars, ram, Due
<1> QED
  BY <1>1, <1>2, <1>3, <1>4, <1>5, <1>6, <1>7, <1>8, <1>9, <1>10, <1>11, <1>12, <1>13,
     <1>14, <1>15, <1>16, <1>17, <1>18, <1>19, <1>20 DEF Next, Service, Web

\* For every post, every calibration and every overlap of the two tasks in
\* which no handler runs into applyPending, what the browsers were told is
\* accepted is what the router works with, what the flash holds and what the
\* modules run, once both tasks are done.
THEOREM AcceptedIsAlwaysKept == Spec => []AcceptedIsKept
<1>1. TypeOK /\ FlashInv /\ KeptInv => AcceptedIsKept
  BY DEF FlashInv, KeptInv, OwedIsUnderway, OwedIsApplied, AcceptedIsKept, Quiet,
         Resetting, TypeOK
<1> QED
  BY <1>1, InitType, TypeStep, SafeInit, SafeStep, KeptInit, KeptStep, PTL DEF Spec
=============================================================================
