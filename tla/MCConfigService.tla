---------------------------- MODULE MCConfigService ----------------------------
(***************************************************************************)
(* Instances of ConfigService for TLC.  Of the failsafe pulses one is      *)
(* above its limit and one is 65536 + 1500, which is narrowed to 1500; the *)
(* second factor is refused.                                               *)
(***************************************************************************)
EXTENDS ConfigService

Posted ==
  {<<"voltage", 1500>>, <<"voltage", 3000>>, <<"system", 3000>>, <<"system", 67036>>}
=============================================================================
