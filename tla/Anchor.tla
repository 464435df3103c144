-------------------------------- MODULE Anchor --------------------------------
(***************************************************************************)
(* Where the packet path is anchored (pipeline.rs, anchor).  Slot numbers  *)
(* come off the wire as they are claimed: the anchor goes forward to any   *)
(* higher slot, and back to one so far below that what it is on cannot     *)
(* have been the cluster's own progress.                                   *)
(***************************************************************************)
EXTENDS Integers

CONSTANT MAX_SLOT_ADVANCE

ASSUME AnchorAssumption == MAX_SLOT_ADVANCE \in Nat

Moves_AnyOther(slot, number) == slot # number

Moves(slot, number) == slot > number \/ slot + MAX_SLOT_ADVANCE < number

\* The anchor once a shred of the slot has come.
Anchored(slot, number) == IF Moves(slot, number) THEN slot ELSE number
=============================================================================
