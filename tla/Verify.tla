-------------------------------- MODULE Verify --------------------------------
(***************************************************************************)
(* Whether a shred came from the leader of its slot (verify.rs), judged    *)
(* against the schedule a thread keeps swapping under it.                  *)
(*                                                                         *)
(* A shred is its slot and the root its bytes hash to: the one its leader  *)
(* signed, another ("altered"), or none ("unrooted", shred::signed finds   *)
(* no proof in it).  Shreds of one erasure batch share a root, so a shred  *)
(* may come again.                                                         *)
(*                                                                         *)
(* check takes the lock on the schedule twice, once for the leader and, if *)
(* there is none, once for the edges of the window.  The refresher may     *)
(* swap the window between the two, so they are two steps.                 *)
(***************************************************************************)
EXTENDS Schedule, AgedMap

CONSTANTS
  LATE,                \* Slots a shred may trail the cluster by on arrival
  FAR,                 \* Bound: how far ahead of the cluster a shred may claim to be
  RETENTION,
  MAX_VERIFIED_ROOTS,
  DELAY                \* Ticks check may be held up between its two looks

\* A shred is not later, nor check held up longer, than the backfill covers at
\* one end of a window and its width at the other.
ASSUME VerifyAssumption ==
  /\ {LATE, FAR, RETENTION, MAX_VERIFIED_ROOTS, DELAY} \subseteq Nat
  /\ DELAY < (BACKFILL_SLOTS - LATE) * SLOT
  /\ DELAY <= (Width - BACKFILL_SLOTS - LAG - 1) * SLOT

VARIABLES
  verified,  \* Verifier.verified: an aged map of <<slot, root>>
  held,      \* the shred check found no leader for, or NoShred
  ago,       \* time since it took `now`
  said       \* the verdict just given, or Nothing

verifyVars == <<cluster, window, verified, held, ago, said>>

NoShred == [slot |-> 0, root |-> "none"]
Nothing == [shred |-> NoShred, verdict |-> "none"]

\* A signature the leader made over its root fits no other leader and no other
\* root.
Matches(shred, leader) == shred.root = "leaders" /\ LeaderOf(shred.slot) = leader

----------------------------------------------------------------------------
Seen_BySlot(shred) == shred.slot
Seen(shred) == <<shred.slot, shred.root>>

Swept == Sweep(verified, RETENTION, MAX_VERIFIED_ROOTS)

Say(shred, verdict) == said' = [shred |-> shred, verdict |-> verdict]

\* No leader: the edges are asked next.
Unanswered(shred) ==
  /\ ~HasLeader(shred.slot)
  /\ verified' = Swept
  /\ held' = shred /\ ago' = 0
  /\ said' = Nothing

\* Nothing in the shred a signature could be made over.
Unrooted(shred) ==
  /\ HasLeader(shred.slot) /\ shred.root = "unrooted"
  /\ verified' = Swept
  /\ Say(shred, "unknown")
  /\ UNCHANGED <<held, ago>>

Accepted(shred) ==
  Seen(shred) \in Keys(Swept) \/ Matches(shred, Leader(shred.slot))

Signed(shred) ==
  /\ HasLeader(shred.slot) /\ shred.root # "unrooted" /\ Accepted(shred)
  /\ verified' = Upsert(Swept, Seen(shred), TRUE)
  /\ Say(shred, "signed")
  /\ UNCHANGED <<held, ago>>

Mismatched(shred) ==
  /\ HasLeader(shred.slot) /\ shred.root # "unrooted" /\ ~Accepted(shred)
  /\ verified' = Swept
  /\ Say(shred, "forged")
  /\ UNCHANGED <<held, ago>>

Check(shred) ==
  /\ held = NoShred
  /\ Unanswered(shred) \/ Unrooted(shred) \/ Signed(shred) \/ Mismatched(shred)
  /\ UNCHANGED <<cluster, window>>

\* The second look, at the window there is by now.
Judge ==
  /\ held # NoShred
  /\ Say(held, IF Implausible(held.slot, ago) THEN "forged" ELSE "unknown")
  /\ held' = NoShred /\ ago' = 0
  /\ UNCHANGED <<cluster, window, verified>>

----------------------------------------------------------------------------
InitVerify ==
  /\ InitSchedule
  /\ verified = New
  /\ held = NoShred /\ ago = 0 /\ said = Nothing

\* What the wire brings: shreds the leader of a slot the cluster is at or has
\* just left signed, and others.
Arrives ==
  \/ \E late \in 0..Min({LATE, tip}) : Check([slot |-> tip - late, root |-> "leaders"])
  \/ \E slot \in {tip, tip + FAR}, root \in {"altered", "unrooted"} :
       Check([slot |-> slot, root |-> root])

Elapses ==
  /\ Tick
  /\ held # NoShred => ago < DELAY
  /\ verified' = Elapsed(verified, 1, RETENTION)
  /\ ago' = IF held = NoShred THEN 0 ELSE ago + 1
  /\ said' = Nothing /\ UNCHANGED held

Around == (Swap \/ Advance) /\ said' = Nothing /\ UNCHANGED <<verified, held, ago>>

NextVerify == Arrives \/ Judge \/ Elapses \/ Around

VerifySpec == InitVerify /\ [][NextVerify]_verifyVars

----------------------------------------------------------------------------
\* A shred its leader made is never called forged: whether the RPC is slow,
\* behind or dead for good, and whatever window is swapped in while the shred
\* is judged.  The exception is a straggler of an epoch the RPC has left, for
\* the window is not backfilled past an epoch's start.
HonestNeverForged ==
  said.shred.root = "leaders" /\ said.verdict = "forged" =>
    said.shred.slot < tip - (tip % EPOCH)

\* A shred is called signed only if its root is the one its leader signed,
\* whatever was verified before it for its slot and has been dropped since.
SignedIsGenuine == said.verdict = "signed" => said.shred.root = "leaders"
=============================================================================
