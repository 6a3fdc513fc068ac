----------------------------- MODULE FrameParsers -----------------------------
(***************************************************************************)
(* The byte level of the three parsers: how each of them finds frames in   *)
(* the bytes of a UART and gets back in step after a corrupted one         *)
(* (CrsfParser::drainBuffer, SbusParser::push, MavlinkParser::processByte).*)
(* The formats are scaled down by the constants: fewer byte values, frames *)
(* of a few bytes, a checksum that is a sum.  stream is a history variable *)
(* with every byte so far; starts holds the places of the frames accepted, *)
(* counted in bytes of the stream.                                         *)
(***************************************************************************)
EXTENDS Integers, Sequences, FiniteSets, FiniteSetsExt, Functions

CONSTANTS
  StreamLimit,     \* bound: StreamLimit[p] bytes arrive for protocol p
  Bytes,           \* Bytes[p]: the byte values of protocol p
  ChecksumWrap,    \* the values of a checksum
  CrsfSync,        \* CRSF_SYNC, CRSF_ADDR_TRANSMITTER, CRSF_ADDR_RECEIVER
  CrsfMaxLength,   \* the largest length byte: 62
  SbusHeader,      \* SBUS_HEADER: 0x0F
  SbusFooter,      \* SBUS_FOOTER: 0x00
  SbusReserved,    \* the flag bytes with a reserved bit set
  SbusLost,        \* the flag bytes with frame_lost set
  SbusSize,        \* SBUS_FRAME_SIZE: 25
  LqWindow,        \* SBUS_LQ_WINDOW: 32
  Stx,             \* MAVLINK_STX_V2: 0xFD
  Signed,          \* the incompat_flags with MAVLINK_INCOMPAT_FLAG_SIGNED
  HeaderSize,      \* the bytes of header_buf_: 9, length and flags first
  CrcSize,         \* the bytes of crc_buf_: 2
  SignatureSize    \* MAVLINK_SIGNATURE_LEN: 13

Protocols == {"CRSF", "SBUS", "MAVLINK"}

ASSUME FrameParsersAssumption ==
  /\ StreamLimit \in [Protocols -> Nat]
  /\ Bytes \in [Protocols -> (SUBSET (0 .. 255)) \ {{}}]
  /\ CrsfMaxLength \in Nat /\ CrsfMaxLength >= 2
  /\ SbusSize \in Nat /\ SbusSize >= 3 /\ LqWindow \in Nat \ {0}
  /\ HeaderSize \in Nat /\ HeaderSize >= 2
  /\ CrcSize \in Nat \ {0} /\ SignatureSize \in Nat \ {0}

VARIABLES
  protocol,   \* the parser at work
  stream,     \* history: the bytes pushed so far
  parser      \* its state, as a record

vars == <<protocol, stream, parser>>

\* The state of the parsers in one record: the bytes of the frame being
\* collected (buf_ of CRSF and SBUS; STX, header, payload, checksum and
\* signature of MAVLink), the state of the MAVLink parser, the frames and
\* errors so far, and of SBUS crc_error_counted_ and the loss window.
Reset ==
  [buf |-> <<>>, state |-> "WAIT_STX", starts |-> {}, errors |-> 0,
   counted |-> FALSE, lost |-> [i \in 0 .. LqWindow - 1 |-> FALSE],
   lqIndex |-> 0, lqFilled |-> 0, lq |-> 0]

\* crsfCrc8 and mavlinkCrc16, of which only this matters: changing one byte
\* changes it.
Checksum(bytes) == SumFunction(bytes) % ChecksumWrap

-----------------------------------------------------------------------------
(* CRSF: address, length, type, payload, checksum.                         *)

\* shiftBufLeft
Shifted(st, n) == [st EXCEPT !.buf = SubSeq(@, n + 1, Len(@))]

\* read is the number of bytes pushed so far: a frame at the front of the
\* buffer starts where the buffer does.
FrontOf(st, read) == read - Len(st.buf) + 1

CrsfTotal(buf) == 2 + buf[2]
CrsfChecks(buf) == buf[CrsfTotal(buf)] = Checksum(SubSeq(buf, 3, CrsfTotal(buf) - 1))

\* Mutant: a length larger than the buffer is waited for.
CrsfImplausibleShort(buf) ==
  \/ buf[1] \notin CrsfSync
  \/ Len(buf) >= 2 /\ buf[2] < 2

\* The front of the buffer cannot be a frame.
CrsfImplausible(buf) ==
  \/ buf[1] \notin CrsfSync
  \/ Len(buf) >= 2 /\ buf[2] \notin 2 .. CrsfMaxLength

\* The front of the buffer may be a frame, and more bytes are needed.
CrsfIncomplete(buf) == Len(buf) < 2 \/ Len(buf) < CrsfTotal(buf)

\* Mutant: a candidate that fails its checksum is dropped whole.
CrsfTurnDropping(st, read) ==
  CASE st.buf = <<>>            -> st
    [] st.buf # <<>> /\ CrsfImplausible(st.buf)
                                -> Shifted(st, 1)
    [] st.buf # <<>> /\ ~CrsfImplausible(st.buf) /\ CrsfIncomplete(st.buf)
                                -> st
    [] OTHER -> LET rest == Shifted(st, CrsfTotal(st.buf))
                IN  IF CrsfChecks(st.buf)
                    THEN [rest EXCEPT !.starts = @ \cup {FrontOf(st, read)}]
                    ELSE [rest EXCEPT !.errors = @ + 1]

\* A turn of the loop in drainBuffer: frames are taken off the front of the
\* buffer; of anything else only the first byte goes.  Where the loop ends a
\* turn changes nothing.
CrsfTurn(st, read) ==
  CASE st.buf = <<>>            -> st
    [] st.buf # <<>> /\ CrsfImplausible(st.buf)
                                -> Shifted(st, 1)
    [] st.buf # <<>> /\ ~CrsfImplausible(st.buf) /\ CrsfIncomplete(st.buf)
                                -> st
    [] OTHER -> IF CrsfChecks(st.buf)
                THEN [Shifted(st, CrsfTotal(st.buf)) EXCEPT
                        !.starts = @ \cup {FrontOf(st, read)}]
                ELSE [Shifted(st, 1) EXCEPT !.errors = @ + 1]

\* CrsfParser::drainBuffer.  Each turn but the last takes a byte at least, so
\* that there are no more of them than bytes.
CrsfDrain(st, read) ==
  LET after[n \in 0 .. Len(st.buf)] ==
        IF n = 0 THEN st ELSE CrsfTurn(after[n - 1], read)
  IN  after[Len(st.buf)]

CrsfCapacity == 2 + CrsfMaxLength

\* CrsfParser::push: a full buffer gives up its oldest byte first.
CrsfPush(st, b, read) ==
  LET room == IF Len(st.buf) < CrsfCapacity THEN st ELSE Shifted(st, 1)
  IN  CrsfDrain([room EXCEPT !.buf = Append(@, b)], read)

-----------------------------------------------------------------------------
(* SBUS: header, channels, flags, footer; WAIT_HEADER is the empty buffer. *)

\* SbusParser::isValidFrameCandidate
SbusChecks(buf) == buf[SbusSize] = SbusFooter /\ buf[SbusSize - 1] \notin SbusReserved

\* Mutant: a frame marked as lost is never taken out of the window.
SbusQualitySticky(st) ==
  LET lost == [st.lost EXCEPT ![st.lqIndex] = @ \/ st.buf[SbusSize - 1] \in SbusLost]
      filled == IF st.lqFilled < LqWindow THEN st.lqFilled + 1 ELSE LqWindow
      gone == Cardinality({i \in 0 .. filled - 1 : lost[i]})
  IN  [st EXCEPT !.lost = lost, !.lqIndex = (@ + 1) % LqWindow,
                 !.lqFilled = filled, !.lq = 100 - (gone * 100) \div filled]

\* SbusParser::decodeFrame and recomputeLinkQuality: the share of the frames
\* in the window that were not marked as lost.
SbusQuality(st) ==
  LET lost == [st.lost EXCEPT ![st.lqIndex] = st.buf[SbusSize - 1] \in SbusLost]
      filled == IF st.lqFilled < LqWindow THEN st.lqFilled + 1 ELSE LqWindow
      gone == Cardinality({i \in 0 .. filled - 1 : lost[i]})
  IN  [st EXCEPT !.lost = lost, !.lqIndex = (@ + 1) % LqWindow,
                 !.lqFilled = filled, !.lq = 100 - (gone * 100) \div filled]

SbusAccept(st, read) ==
  [SbusQuality(st) EXCEPT !.buf = <<>>, !.counted = FALSE,
                          !.starts = @ \cup {FrontOf(st, read)}]

\* Mutant: every rejected candidate is an error.
SbusRejectCounting(st) ==
  LET next == {k \in 2 .. SbusSize : st.buf[k] = SbusHeader}
  IN  [st EXCEPT !.errors = @ + 1, !.counted = (next # {}),
                 !.buf = IF next = {} THEN <<>> ELSE SubSeq(@, Min(next), SbusSize)]

\* A rejected candidate: the window moves to the next header byte in it, if
\* there is one.  The whole hunt is one error.
SbusReject(st) ==
  LET next == {k \in 2 .. SbusSize : st.buf[k] = SbusHeader}
  IN  [st EXCEPT !.errors = IF st.counted THEN @ ELSE @ + 1,
                 !.counted = (next # {}),
                 !.buf = IF next = {} THEN <<>> ELSE SubSeq(@, Min(next), SbusSize)]

\* SbusParser::push
SbusPush(st, b, read) ==
  LET more == [st EXCEPT !.buf = Append(@, b)]
  IN  CASE st.buf = <<>> /\ b # SbusHeader -> st
        [] st.buf = <<>> /\ b = SbusHeader -> more
        [] st.buf # <<>> /\ Len(more.buf) < SbusSize -> more
        [] OTHER -> IF SbusChecks(more.buf) THEN SbusAccept(more, read) ELSE SbusReject(more)

-----------------------------------------------------------------------------
(* MAVLink: STX, header, payload, checksum and, if the flags say so, a     *)
(* signature.                                                              *)

PayloadOf(buf) == buf[2]
IsSigned(buf) == buf[3] \in Signed
BodySize(buf) == 1 + HeaderSize + PayloadOf(buf)

\* The checksum is the low-order byte first; the others of the scaled-down
\* one are 0.
MavlinkChecks(buf) ==
  /\ buf[BodySize(buf) + 1] = Checksum(SubSeq(buf, 2, BodySize(buf)))
  /\ \A i \in 2 .. CrcSize : buf[BodySize(buf) + i] = 0

\* MavlinkParser::finishFrame
FinishFrame(st, read) ==
  IF MavlinkChecks(st.buf)
  THEN [st EXCEPT !.starts = @ \cup {FrontOf(st, read)}, !.state = "WAIT_STX", !.buf = <<>>]
  ELSE [st EXCEPT !.errors = @ + 1, !.state = "WAIT_STX", !.buf = <<>>]

\* MavlinkParser::processByte, the byte b already appended to st.buf.
MavlinkStep(st, b, read) ==
  LET size == Len(st.buf)
      goto(state) == [st EXCEPT !.state = state]
  IN  CASE st.state = "WAIT_STX" ->
             IF b = Stx THEN goto("WAIT_LEN") ELSE [st EXCEPT !.buf = <<>>]
        [] st.state = "WAIT_LEN" -> goto("WAIT_HEADER")
        [] st.state = "WAIT_HEADER" ->
             IF size < 1 + HeaderSize THEN st
             ELSE goto(IF PayloadOf(st.buf) = 0 THEN "WAIT_CRC" ELSE "WAIT_PAYLOAD")
        [] st.state = "WAIT_PAYLOAD" ->
             IF size < BodySize(st.buf) THEN st ELSE goto("WAIT_CRC")
        [] st.state = "WAIT_CRC" ->
             IF size < BodySize(st.buf) + CrcSize THEN st
             ELSE IF IsSigned(st.buf) THEN goto("WAIT_SIGNATURE")
             ELSE FinishFrame(st, read)
        [] st.state = "WAIT_SIGNATURE" ->
             IF size < BodySize(st.buf) + CrcSize + SignatureSize THEN st
             ELSE [st EXCEPT !.state = "WAIT_STX", !.buf = <<>>]

MavlinkPush(st, b, read) == MavlinkStep([st EXCEPT !.buf = Append(@, b)], b, read)

-----------------------------------------------------------------------------
Push(p, st, b, read) ==
  CASE p = "CRSF"    -> CrsfPush(st, b, read)
    [] p = "SBUS"    -> SbusPush(st, b, read)
    [] p = "MAVLINK" -> MavlinkPush(st, b, read)

\* A byte arrives: ReceiverPort::update hands all that are waiting to push().
Receive(b) ==
  /\ Len(stream) < StreamLimit[protocol]
  /\ stream' = Append(stream, b)
  /\ parser' = Push(protocol, parser, b, Len(stream'))
  /\ UNCHANGED protocol

Init ==
  /\ protocol \in Protocols
  /\ stream = <<>>
  /\ parser = Reset

Next == \E b \in Bytes[protocol] : Receive(b)

Spec == Init /\ [][Next]_vars
=============================================================================
