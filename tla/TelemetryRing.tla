----------------------------- MODULE TelemetryRing -----------------------------
(***************************************************************************)
(* The ring in which a parser keeps telemetry packets: rxTask adds to it   *)
(* (CrsfParser::enqueueTelemetry, MavlinkParser::pushTelemetry) and        *)
(* serviceTask, on the other core, takes from it (popTelemetry) and resets *)
(* it (ReceiverPort::reapply).  No lock protects head and count, so every  *)
(* load and every store of them is a step.  Only where the two are loaded  *)
(* to compute a slot (Locate) both loads are one step, as nothing is said  *)
(* of the slot an overlapped operation writes.  Copying a packet is one    *)
(* step: a torn packet is not told from a wrong one.                       *)
(*                                                                         *)
(* exclusive says that at present the operations of the two tasks happen   *)
(* not to overlap.  Nothing in the code sees to it; it tells what the ring *)
(* promises then from what is left of that once they do overlap.           *)
(***************************************************************************)
EXTENDS Integers, Sequences

CONSTANTS
  Packets,     \* the packets a receiver can send
  Nothing,     \* a slot that was never written
  Capacity,    \* CRSF_TELEMETRY_QUEUE_SIZE, MAVLINK_TELEMETRY_RING: 8
  CountWrap    \* values of the count: 2^8 (MAVLink) or 2^32 (CRSF)

ASSUME TelemetryRingAssumption ==
  /\ Capacity \in Nat \ {0}
  /\ CountWrap \in Nat /\ CountWrap > Capacity
  /\ Nothing \notin Packets

VARIABLES
  owner,       \* the parser the ring belongs to
  exclusive,
  slots,       \* telem_queue_, telemetry_ring_
  head,        \* telem_head_, telemetry_head_
  count,       \* telem_count_, telemetry_count_
  pc,          \* pc[t]: what task t does next
  seen,        \* seen[t]: the value it loaded last
  pkt,         \* the packet rxTask is adding
  at,          \* the slot it goes to
  out          \* history: the packet popTelemetry handed out last

ringVars == <<owner, exclusive, slots, head, count, pc, seen, pkt, at, out>>
task == <<owner, exclusive, pkt, out>>

Tasks == {"rxTask", "serviceTask"}
Slots == 0 .. Capacity - 1
Steps == {"idle", "isFull", "locate", "write", "compare", "loadHead", "storeHead",
          "loadLess", "storeLess", "loadMore", "storeMore", "read", "reset"}

Crsf == owner = "CRSF"
Goto(t, step) == pc' = [pc EXCEPT ![t] = step]
Idle(t) == pc[t] = "idle"

\* Task t may begin an operation.
MayBegin(t) == Idle(t) /\ (exclusive => \A u \in Tasks : Idle(u))

-----------------------------------------------------------------------------
(* Steps of both tasks.                                                    *)

LoadHead(t) ==
  /\ pc[t] = "loadHead"
  /\ seen' = [seen EXCEPT ![t] = head]
  /\ Goto(t, "storeHead")
  /\ UNCHANGED <<task, slots, head, count, at>>

\* Making room in a full CRSF ring ends with the advance of the head; all
\* other operations go on with the count.
StoreHead(t) ==
  /\ pc[t] = "storeHead"
  /\ head' = (seen[t] + 1) % Capacity
  /\ Goto(t, IF Crsf /\ t = "rxTask" THEN "idle" ELSE "loadLess")
  /\ UNCHANGED <<task, slots, count, seen, at>>

LoadCount(t) ==
  /\ pc[t] \in {"loadLess", "loadMore"}
  /\ seen' = [seen EXCEPT ![t] = count]
  /\ Goto(t, IF pc[t] = "loadLess" THEN "storeLess" ELSE "storeMore")
  /\ UNCHANGED <<task, slots, head, count, at>>

\* Mutant: a signed count, decremented below zero.
StoreLessSigned(t) ==
  /\ pc[t] = "storeLess"
  /\ count' = seen[t] - 1
  /\ Goto(t, IF t = "rxTask" THEN "locate" ELSE "idle")
  /\ UNCHANGED <<task, slots, head, seen, at>>

StoreLess(t) ==
  /\ pc[t] = "storeLess"
  /\ count' = (seen[t] - 1) % CountWrap
  /\ Goto(t, IF t = "rxTask" THEN "locate" ELSE "idle")
  /\ UNCHANGED <<task, slots, head, seen, at>>

-----------------------------------------------------------------------------
(* rxTask adds a packet.                                                   *)

\* CRSF writes the slot first; MAVLink makes room first.
BeginAdd(p) ==
  /\ MayBegin("rxTask")
  /\ pkt' = p
  /\ Goto("rxTask", IF Crsf THEN "locate" ELSE "isFull")
  /\ UNCHANGED <<owner, exclusive, slots, head, count, seen, at, out>>

\* Mutant: room is made one packet too late.
IsFullLate ==
  /\ pc["rxTask"] = "isFull"
  /\ Goto("rxTask", IF count > Capacity THEN "loadHead" ELSE "locate")
  /\ UNCHANGED <<task, slots, head, count, seen, at>>

IsFull ==
  /\ pc["rxTask"] = "isFull"
  /\ Goto("rxTask", IF count = Capacity THEN "loadHead" ELSE "locate")
  /\ UNCHANGED <<task, slots, head, count, seen, at>>

Locate ==
  /\ pc["rxTask"] = "locate"
  /\ at' = (head + count) % Capacity
  /\ Goto("rxTask", "write")
  /\ UNCHANGED <<task, slots, head, count, seen>>

WriteSlot ==
  /\ pc["rxTask"] = "write"
  /\ slots' = [slots EXCEPT ![at] = pkt]
  /\ Goto("rxTask", IF Crsf THEN "compare" ELSE "loadMore")
  /\ UNCHANGED <<task, head, count, seen, at>>

\* Mutant: a full CRSF ring is counted beyond its size.
CompareNever ==
  /\ pc["rxTask"] = "compare"
  /\ Goto("rxTask", "loadMore")
  /\ UNCHANGED <<task, slots, head, count, seen, at>>

\* CRSF: the packet is counted, or the oldest one was overwritten.
Compare ==
  /\ pc["rxTask"] = "compare"
  /\ Goto("rxTask", IF count < Capacity THEN "loadMore" ELSE "loadHead")
  /\ UNCHANGED <<task, slots, head, count, seen, at>>

StoreMore ==
  /\ pc["rxTask"] = "storeMore"
  /\ count' = (seen["rxTask"] + 1) % CountWrap
  /\ Goto("rxTask", "idle")
  /\ UNCHANGED <<task, slots, head, seen, at>>

-----------------------------------------------------------------------------
(* serviceTask takes packets and resets the ring.                          *)

\* popTelemetry: an empty ring answers false, a step without effect.
BeginPop ==
  /\ MayBegin("serviceTask")
  /\ count # 0
  /\ Goto("serviceTask", "read")
  /\ UNCHANGED <<task, slots, head, count, seen, at>>

Read ==
  /\ pc["serviceTask"] = "read"
  /\ out' = slots[head]
  /\ Goto("serviceTask", "loadHead")
  /\ UNCHANGED <<owner, exclusive, slots, head, count, seen, pkt, at>>

\* CrsfParser::reset and MavlinkParser::reset: the head, then the count.
ResetHead ==
  /\ MayBegin("serviceTask")
  /\ head' = 0
  /\ out' = Nothing
  /\ Goto("serviceTask", "reset")
  /\ UNCHANGED <<owner, exclusive, slots, count, seen, pkt, at>>

ResetCount ==
  /\ pc["serviceTask"] = "reset"
  /\ count' = 0
  /\ Goto("serviceTask", "idle")
  /\ UNCHANGED <<task, slots, head, seen, at>>

-----------------------------------------------------------------------------
(* The environment: from some time on operations overlap, or no longer do. *)

StartOverlapping ==
  /\ \A t \in Tasks : Idle(t)
  /\ exclusive' = FALSE
  /\ UNCHANGED <<owner, slots, head, count, pc, seen, pkt, at, out>>

\* serviceTask found the ring empty, which ends each of its drains.
StopOverlapping ==
  /\ \A t \in Tasks : Idle(t)
  /\ count = 0
  /\ exclusive' = TRUE
  /\ out' = Nothing
  /\ UNCHANGED <<owner, slots, head, count, pc, seen, pkt, at>>

-----------------------------------------------------------------------------
RingInit ==
  /\ owner \in {"CRSF", "MAVLINK"}
  /\ exclusive = TRUE
  /\ slots = [i \in Slots |-> Nothing]
  /\ head = 0
  /\ count = 0
  /\ pc = [t \in Tasks |-> "idle"]
  /\ seen = [t \in Tasks |-> 0]
  /\ pkt = Nothing
  /\ at = 0
  /\ out = Nothing

RingNext ==
  \/ \E t \in Tasks : LoadHead(t) \/ StoreHead(t) \/ LoadCount(t) \/ StoreLess(t)
  \/ \E p \in Packets : BeginAdd(p)
  \/ IsFull \/ Locate \/ WriteSlot \/ Compare \/ StoreMore
  \/ BeginPop \/ Read \/ ResetHead \/ ResetCount
  \/ StartOverlapping \/ StopOverlapping

RingSpec == RingInit /\ [][RingNext]_ringVars

-----------------------------------------------------------------------------
RingTypeOK ==
  /\ owner \in {"CRSF", "MAVLINK"}
  /\ exclusive \in BOOLEAN
  /\ slots \in [Slots -> Packets \cup {Nothing}]
  /\ head \in Slots
  /\ count \in 0 .. CountWrap - 1
  /\ pc \in [Tasks -> Steps]
  /\ seen \in [Tasks -> 0 .. CountWrap - 1]
  /\ pkt \in Packets \cup {Nothing}
  /\ at \in Slots
  /\ out \in Packets \cup {Nothing}

\* However the steps of the two tasks mix, a CRSF ring never counts more
\* packets than it has slots, so what it mixes up is gone once serviceTask has
\* drained it.  A MAVLink ring decrements the count to make room, and counts
\* up to CountWrap - 1 packets when serviceTask emptied it since "isFull".
CountFits == Crsf => count <= Capacity

-----------------------------------------------------------------------------
(* The ring is a LossyQueue while its operations do not overlap.           *)

\* A full CRSF ring has its oldest packet overwritten before the head moves,
\* and serviceTask has copied the first packet before it moves it.
FirstIsGone ==
  \/ /\ Crsf /\ count = Capacity
     /\ pc["rxTask"] \in {"compare", "loadHead", "storeHead"}
  \/ pc["serviceTask"] \in {"loadHead", "storeHead"}

\* The head has moved past a packet that is still counted.
CountIsLate == \E t \in Tasks : pc[t] \in {"loadLess", "storeLess"}

Contents ==
  LET first == IF FirstIsGone THEN head + 1 ELSE head
      length == IF pc["serviceTask"] = "reset" THEN 0
                ELSE IF FirstIsGone \/ CountIsLate THEN count - 1 ELSE count
  IN  [i \in 1 .. length |-> slots[(first + i - 1) % Capacity]]

Queue == INSTANCE LossyQueue WITH
           queue <- IF exclusive THEN Contents ELSE <<>>,
           taken <- IF exclusive THEN out ELSE Nothing

\* As long as the operations of rxTask and serviceTask do not overlap, packets
\* come out in order and once, and a full ring gives up its oldest: both ways
\* of making room, before the write (MAVLink) and after it (CRSF), implement
\* the overwrite policy (mavlink_parser.cpp:270, crsf_parser.cpp:205).  This is
\* so again from the first drain that ends after an overlap, whatever head,
\* slots and lost counts the overlap has left.
IsLossyQueue == Queue!QSpec
=============================================================================
