------------------------ MODULE MCReceiverManager ------------------------
(* Instances for TLC: the liveness of the selection. *)
EXTENDS ReceiverManager, SelectionValues
=============================================================================
