------------------------------- MODULE MCVerify -------------------------------
(***************************************************************************)
(* Instances of the leader check for TLC: the cfg scales the durations.    *)
(***************************************************************************)
EXTENDS Verify
=============================================================================
