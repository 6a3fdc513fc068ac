------------------------------ MODULE WrapClock ------------------------------
(***************************************************************************)
(* The millisecond clock of the router.  Every deadline in the code is an  *)
(* unsigned 32-bit difference of two millis() readings, for instance       *)
(* now_ms - lq.last_frame_ms in ReceiverPort::isAlive.  The counter        *)
(* returns to 0 after Wrap readings (2^32 in the code), and so does the    *)
(* difference.                                                             *)
(***************************************************************************)
EXTENDS Integers

CONSTANT Wrap   \* the number of readings of the counter: 2^32 in the code

ASSUME WrapAssumption == Wrap \in Nat \ {0}

Stamp == 0 .. Wrap - 1

\* The unsigned difference now - since.
Elapsed(now, since) == (now - since) % Wrap

\* Mutant: a counter that does not wrap.
LaterUnwrapped(now, d) == now + d

\* The reading d milliseconds after now.
Later(now, d) == (now + d) % Wrap
=============================================================================
