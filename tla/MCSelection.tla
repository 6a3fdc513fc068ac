------------------------ MODULE MCSelection ------------------------
(* Instances for TLC: the safety properties of the selection. *)
EXTENDS SelectionHistory, SelectionValues
=============================================================================
