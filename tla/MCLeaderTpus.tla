----------------------------- MODULE MCLeaderTpus -----------------------------
(***************************************************************************)
(* Instances of the leader TPUs for TLC: the cfg scales the durations.     *)
(***************************************************************************)
EXTENDS LeaderTpus
=============================================================================
