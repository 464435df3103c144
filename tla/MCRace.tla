-------------------------------- MODULE MCRace --------------------------------
(***************************************************************************)
(* Instances of the race for TLC: the slots leaders laid down.             *)
(***************************************************************************)
EXTENDS Race

\* The wallet, and ours behind it, in two pieces of the first batch; a batch of
\* somebody else's, which may be missing; and ours again.  The whole slot is too
\* many to pair.
Split ==
  << [first |-> 0, last |-> 1, opens |-> 0,
      entries |-> << [ends |-> 0, payers |-> <<"target">>],
                     [ends |-> 1, payers |-> <<"other", "searcher">>] >>],
     [first |-> 2, last |-> 2, opens |-> 2,
      entries |-> << [ends |-> 2, payers |-> <<"other">>] >>],
     [first |-> 3, last |-> 3, opens |-> 3,
      entries |-> << [ends |-> 3, payers |-> <<"searcher">>] >>] >>

\* A batch that declares nothing and ends in a padding shred; and behind it
\* both in one entry, which the leader may run in any order.
Together ==
  << [first |-> 0, last |-> 1, opens |-> 0, entries |-> <<>>],
     [first |-> 2, last |-> 2, opens |-> 2,
      entries |-> << [ends |-> 2, payers |-> <<"searcher", "target">>] >>] >>

\* Two batches of two shreds: the one in front may be filled after the slot
\* was reported for the first piece of the one behind it.
Straggling ==
  << [first |-> 0, last |-> 1, opens |-> 0,
      entries |-> << [ends |-> 0, payers |-> <<"searcher">>] >>],
     [first |-> 2, last |-> 3, opens |-> 2,
      entries |-> << [ends |-> 2, payers |-> <<"other">>],
                     [ends |-> 3, payers |-> <<"target">>] >>] >>

TwoSlots == [s \in {"a", "b"} |-> IF s = "a" THEN Split ELSE Together]

LateSlots == [s \in {"a", "b"} |-> IF s = "a" THEN Straggling ELSE Together]
===============================================================================
