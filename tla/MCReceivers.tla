----------------------------- MODULE MCReceivers -----------------------------
(***************************************************************************)
(* Instances of the receivers for TLC: two sockets, and few datagrams.     *)
(***************************************************************************)
EXTENDS Receivers
=============================================================================
