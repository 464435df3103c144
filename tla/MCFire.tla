-------------------------------- MODULE MCFire --------------------------------
(***************************************************************************)
(* Instances of firing for TLC: the cfgs scale the source's durations.     *)
(***************************************************************************)
EXTENDS Fire
=============================================================================
