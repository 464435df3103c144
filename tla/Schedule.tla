------------------------------- MODULE Schedule -------------------------------
(***************************************************************************)
(* The window of the leader schedule as the packet path sees it            *)
(* (leaders.rs): who leads a slot, and which slots nobody can be           *)
(* producing now, read off the window's edges.  The window is swapped for  *)
(* another at any time; what is promised of it is that it was fetched a    *)
(* short while ago, around the slot the cluster was at, give or take the   *)
(* lag of the RPC.  Leaders is the thread that keeps the promise.          *)
(*                                                                         *)
(* Time is counted in ticks, and an instant is how long ago it was.  The   *)
(* cluster's slots take from SLOT to SLOW ticks; the window is carried     *)
(* forward as though each took SLOT.  A leader holds TURN slots and is     *)
(* named by the first of them.                                             *)
(***************************************************************************)
EXTENDS Integers, Sequences, FiniteSetsExt

CONSTANTS
  SLOT,            \* SLOT_DURATION
  SLOW,            \* The longest the cluster takes over a slot
  TURN,            \* Slots a leader holds in a row
  EPOCH,           \* slots_in_epoch
  WINDOW_SLOTS,
  BACKFILL_SLOTS,
  RPC_TIMEOUT,
  LAG,             \* Slots the RPC may be behind the cluster
  FIRST_SLOTS,     \* Where the cluster may be when we start
  LAST_SLOT        \* Bound: time stops at the end of this slot

\* Slots fetched at a time.
Width == Min({WINDOW_SLOTS, EPOCH})

ASSUME ScheduleAssumption ==
  /\ {SLOT, TURN, EPOCH, WINDOW_SLOTS} \subseteq Nat \ {0}
  /\ {SLOW, BACKFILL_SLOTS, RPC_TIMEOUT, LAG, LAST_SLOT} \subseteq Nat
  /\ FIRST_SLOTS \subseteq 0..LAST_SLOT
  /\ SLOT <= SLOW
  /\ BACKFILL_SLOTS + LAG + 1 < Width

VARIABLES
  tip, phase,    \* the slot the cluster is producing, and how far into it time is
  window         \* Schedule.window

cluster == <<tip, phase>>

----------------------------------------------------------------------------
(* Window.                                                                  *)

NoWindow == [start |-> 0, leaders |-> <<>>, age |-> 0]

LeaderOf(slot) == slot - (slot % TURN)

HasLeader(slot) ==
  window # NoWindow /\ slot >= window.start /\ slot - window.start < Len(window.leaders)

Leader(slot) == window.leaders[slot - window.start + 1]

\* Slots the cluster can have advanced from the RPC's answer to `ago` ticks
\* before now: none if the answer is younger than that.
ElapsedSlots(ago) == Max({0, window.age - ago}) \div SLOT

Implausible_Frozen(slot, ago) ==
  /\ window # NoWindow
  /\ slot < window.start \/ slot > window.start + Len(window.leaders)

\* No window says nothing.
Implausible(slot, ago) ==
  /\ window # NoWindow
  /\ \/ slot < window.start
     \/ slot > window.start + Len(window.leaders) + ElapsedSlots(ago)

----------------------------------------------------------------------------
(* fetch: what it makes of the RPC's answers.                               *)

\* What get_epoch_info says of a slot.
EpochInfo(slot) == [absolute_slot |-> slot, slot_index |-> slot % EPOCH]

EpochStart(info) == info.absolute_slot - info.slot_index

\* Backfilled, but not past the start of the epoch.
Start(info) == Max({0, info.absolute_slot - BACKFILL_SLOTS, EpochStart(info)})

\* The window of a pass whose `now` was `since` ticks ago.
Fetched(info, since) ==
  [start   |-> Start(info),
   leaders |-> [i \in 1..Width |-> LeaderOf(Start(info) + i - 1)],
   age     |-> since]

----------------------------------------------------------------------------
InitSchedule ==
  /\ tip \in FIRST_SLOTS /\ phase = 0
  /\ window = NoWindow

\* The cluster can be x slots past what it was `age` ago: one it may have begun
\* at once, and it took SLOT or more over each of the others.
Trails(x, age) == x <= 0 \/ (x - 1) * SLOT + phase <= age

\* The slots an RPC that answered at most `since` ago may have named.
Named(since) == {slot \in 0..tip : Trails(tip - LAG - slot, since)}

Advance ==
  /\ phase >= SLOT /\ tip < LAST_SLOT
  /\ tip' = tip + 1 /\ phase' = 0
  /\ UNCHANGED window

Tick ==
  /\ phase < SLOW
  /\ phase' = phase + 1
  /\ window' = IF window = NoWindow THEN window ELSE [window EXCEPT !.age = @ + 1]
  /\ UNCHANGED tip

Swap ==
  /\ UNCHANGED cluster
  /\ \E since \in 0..(2 * RPC_TIMEOUT) : \E slot \in Named(since) :
       window' = Fetched(EpochInfo(slot), since)

NextSchedule == Advance \/ Tick \/ Swap

ScheduleSpec == InitSchedule /\ [][NextSchedule]_<<tip, phase, window>>
=============================================================================
