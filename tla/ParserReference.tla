---------------------------- MODULE ParserReference ----------------------------
(***************************************************************************)
(* What FrameParsers should find, defined on the whole stream at once and  *)
(* without a buffer: of the places where a frame could be taken the        *)
(* leftmost, then the leftmost that does not overlap it, and so on.        *)
(***************************************************************************)
EXTENDS FrameParsers

Places(s) == 1 .. Len(s)
Part(s, i, n) == SubSeq(s, i, i + n - 1)

\* Total(p, s, i): the length of the frame that would start at i of the stream
\* s of protocol p if its bytes are taken for what they say, 0 if none can
\* start there, and more than there can be if that is not known yet.
Unknown(p) == StreamLimit[p] + 1

CrsfTotalAt(s, i) ==
  IF s[i] \notin CrsfSync THEN 0
  ELSE IF i + 1 > Len(s) THEN Unknown("CRSF")
  ELSE IF s[i + 1] \in 2 .. CrsfMaxLength THEN 2 + s[i + 1] ELSE 0

SbusTotalAt(s, i) == IF s[i] = SbusHeader THEN SbusSize ELSE 0

MavlinkTotalAt(s, i) ==
  IF s[i] # Stx THEN 0
  ELSE IF i + 2 > Len(s) THEN Unknown("MAVLINK")
  ELSE 1 + HeaderSize + s[i + 1] + CrcSize
         + (IF s[i + 2] \in Signed THEN SignatureSize ELSE 0)

Total(p, s, i) ==
  CASE p = "CRSF"    -> CrsfTotalAt(s, i)
    [] p = "SBUS"    -> SbusTotalAt(s, i)
    [] p = "MAVLINK" -> MavlinkTotalAt(s, i)

\* The bytes of a complete candidate pass the checks of its protocol.
Passes(p, frame) ==
  CASE p = "CRSF"    -> CrsfChecks(frame)
    [] p = "SBUS"    -> SbusChecks(frame)
    [] p = "MAVLINK" -> ~IsSigned(frame) /\ MavlinkChecks(frame)

Candidate(p, s, i) == Part(s, i, Total(p, s, i))
Complete(p, s, i) == Total(p, s, i) # 0 /\ i + Total(p, s, i) - 1 <= Len(s)

\* The parser commits itself to the candidate at i: MAVLink does so as soon as
\* it is complete, CRSF and SBUS only if it passes.
Takes(p, s, i) ==
  Complete(p, s, i) /\ (p = "MAVLINK" \/ Passes(p, Candidate(p, s, i)))

\* The places that are not inside of anything taken before.
Free(p, s) ==
  LET free[i \in Places(s)] ==
        \A j \in 1 .. i - 1 :
          (Takes(p, s, j) /\ i < j + Total(p, s, j)) => ~free[j]
  IN  free

\* The first place that is still open: a frame may start there, and the bytes
\* so far do not tell.
Open(p, s, free) ==
  Min({Len(s) + 1}
        \cup {i \in Places(s) : Total(p, s, i) # 0 /\ ~Complete(p, s, i) /\ free[i]})

\* Of the first n places those where a frame is accepted, and those where a
\* candidate is rejected as an error; a signed MAVLink frame is neither.
Good(p, s, free, n) ==
  {i \in 1 .. n : free[i] /\ Complete(p, s, i) /\ Passes(p, Candidate(p, s, i))}
Bad(p, s, free, n) ==
  {i \in 1 .. n : /\ free[i] /\ Complete(p, s, i) /\ ~Passes(p, Candidate(p, s, i))
                  /\ p = "MAVLINK" => ~IsSigned(Candidate(p, s, i))}

\* A hunt of the SBUS parser goes on as long as the next rejected candidate
\* begins inside the one before, and is one error.
Errors(p, bad) ==
  IF p = "SBUS"
  THEN Cardinality({i \in bad : bad \cap (i - SbusSize + 1 .. i - 1) = {}})
  ELSE Cardinality(bad)

Reference(p, s) ==
  LET free == Free(p, s)
      open == Open(p, s, free)
  IN  [starts |-> Good(p, s, free, open - 1),
       errors |-> Errors(p, Bad(p, s, free, open - 1)),
       buf |-> SubSeq(s, open, Len(s))]

-----------------------------------------------------------------------------
\* The collected bytes always fit, one more included: no frame is cut short by
\* the guard against an overflow that "should not normally happen"
\* (crsf_parser.cpp:67), and none of the parsers waits for more bytes than its
\* longest frame has.
Longest ==
  CASE protocol = "CRSF"    -> CrsfCapacity
    [] protocol = "SBUS"    -> SbusSize
    [] protocol = "MAVLINK" -> 1 + HeaderSize + Max(Bytes[protocol]) + CrcSize + SignatureSize

TypeOK ==
  /\ stream \in Seq(Bytes[protocol])
  /\ Len(parser.buf) < Longest
  /\ parser.starts \subseteq Places(stream)
  /\ parser.errors \in Nat
  /\ parser.lq \in 0 .. 100
  /\ parser.state \in {"WAIT_STX", "WAIT_LEN", "WAIT_HEADER", "WAIT_PAYLOAD", "WAIT_CRC",
                       "WAIT_SIGNATURE"}

\* After any bytes, garbage and corrupted frames included, a parser has
\* accepted exactly the frames of the reference and holds exactly the bytes
\* from the first open place on: nothing that could start a frame is thrown
\* away with a bad candidate (crsf_parser.cpp:115, sbus_parser.cpp:65), and an
\* intact frame is lost only to a taken candidate it overlaps.  A hunt for the
\* next SBUS frame counts as one error (sbus_parser.cpp:74).
ParserIsExact ==
  LET reference == Reference(protocol, stream)
  IN  /\ parser.starts = reference.starts
      /\ parser.errors = reference.errors
      /\ parser.buf = reference.buf

\* The link quality of SBUS is the share of the last LqWindow frames that were
\* not marked lost, however often the window went round.
QualityIsShare ==
  LET recent == {i \in parser.starts :
                   Cardinality({j \in parser.starts : j > i}) < LqWindow}
      lost == {i \in recent : stream[i + SbusSize - 2] \in SbusLost}
  IN  (protocol = "SBUS" /\ recent # {})
        => parser.lq = 100 - (Cardinality(lost) * 100) \div Cardinality(recent)
=============================================================================
