------------------------------ MODULE MCLeaders ------------------------------
(***************************************************************************)
(* Instances of the refresher for TLC: the cfg scales the durations.       *)
(***************************************************************************)
EXTENDS Leaders
=============================================================================
