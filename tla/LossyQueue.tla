------------------------------ MODULE LossyQueue ------------------------------
(***************************************************************************)
(* What a telemetry queue of a receiver promises: packets come out in the  *)
(* order they went in, each at most once, and a full queue makes room by   *)
(* giving up its oldest packet ("Ring full: drop the oldest entry to make  *)
(* room (documented overwrite policy)", mavlink_parser.cpp:270).           *)
(***************************************************************************)
EXTENDS Naturals, Sequences

CONSTANTS
  Packets,    \* the packets a receiver can send
  Capacity,   \* how many of them the queue holds
  Nothing     \* what was handed out before the first packet

VARIABLES
  queue,   \* the waiting packets, the oldest first
  taken    \* the packet handed out last

qvars == <<queue, taken>>

Accept(p) ==
  /\ Len(queue) < Capacity
  /\ queue' = Append(queue, p)
  /\ UNCHANGED taken

Drop ==
  /\ Len(queue) = Capacity
  /\ queue' = Tail(queue)
  /\ UNCHANGED taken

Take ==
  /\ queue # <<>>
  /\ taken' = Head(queue)
  /\ queue' = Tail(queue)

\* The queue starts anew: its parser was reset.
Clear == queue' = <<>> /\ taken' = Nothing

QInit == queue = <<>> /\ taken = Nothing

QNext == (\E p \in Packets : Accept(p)) \/ Drop \/ Take \/ Clear

QSpec == QInit /\ [][QNext]_qvars
=============================================================================
