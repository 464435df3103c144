------------------------------ MODULE LeaderTpus ------------------------------
(***************************************************************************)
(* Sending straight to the leader (tpu.rs): a thread polls the RPC for     *)
(* who leads the next slots and where the validators take transactions,    *)
(* and keeps connections to the leaders coming up warm; the fire path      *)
(* reads what it holds.                                                    *)
(*                                                                         *)
(* A pass of the thread is its sleep and up to four requests, and goes by  *)
(* the slot it read when it woke.  That slot is the packet path's anchor   *)
(* (SlotMetrics.current): the slot on the wire, or one that a shred of     *)
(* nobody's claimed.  The RPC is behind the wire, and has the schedule of  *)
(* the epoch it has rooted and of the next; the rest it refuses.           *)
(*                                                                         *)
(* Time is counted in ticks.  A validator holds TURN slots in a row, and   *)
(* is named by the order of its turn.                                      *)
(***************************************************************************)
EXTENDS Anchor, Sequences, FiniteSetsExt

CONSTANTS
  POLL_INTERVAL, RPC_TIMEOUT, NODES_REFRESH,
  WINDOW_SLOTS, WARM_SLOTS,
  FANOUT,        \* config.tpu_fanout_slots
  SLOT,          \* The shortest a slot takes the cluster
  TURN,
  EPOCH,         \* slots_in_epoch
  LAG,           \* Slots the RPC may be behind the wire
  ROOTED,        \* and what it has rooted
  VALIDATORS,    \* How many take turns
  UNPUBLISHED,   \* Those of them whose listing has no TPU address
  STRAYS,        \* Slots a shred of nobody's may claim
  FIRST_SLOTS,   \* Where the wire may be when we start
  LAST_SLOT      \* Bound: time stops at the end of this slot

ASSUME LeaderTpusAssumption ==
  /\ {POLL_INTERVAL, WINDOW_SLOTS, WARM_SLOTS, FANOUT, SLOT, TURN, EPOCH, VALIDATORS}
       \subseteq Nat \ {0}
  /\ {RPC_TIMEOUT, NODES_REFRESH, LAG, ROOTED, LAST_SLOT} \subseteq Nat
  /\ WARM_SLOTS <= WINDOW_SLOTS
  /\ LAG <= ROOTED /\ ROOTED + WARM_SLOTS <= EPOCH
  /\ STRAYS \subseteq Nat \ {0} /\ FIRST_SLOTS \subseteq 1..LAST_SLOT

VARIABLES
  tip, phase,    \* the slot on the wire, and how far into it time is
  current,       \* SlotMetrics.current: 0 until the packet path is anchored
  window,        \* State.window
  nodes,         \* State.nodes: the validators with an address
  fetched,       \* time since they were listed; past NODES_REFRESH if never
  warm,          \* what the last pass warmed: [slot, nodes, to], the slot it went by,
                 \* the nodes it knew, and the validators it has connections to
  thread,        \* where the thread is
  waited,        \* how long it has been there
  slot,          \* the slot it goes by in this pass
  count,         \* the slots it has asked for
  failed,        \* history: passes in a row that got no window though one was due, or went
                 \* by a slot nobody was at; MANY at most
  exit

wire  == <<tip, phase, current>>
held  == <<window, nodes, fetched>>
pass  == <<thread, waited, slot, count>>
vars  == <<wire, held, warm, pass, failed, exit>>

MANY == 2

----------------------------------------------------------------------------
(* Window.                                                                  *)

NoWindow == [start |-> 0, leaders |-> <<>>]

Covers(w, s) == w # NoWindow /\ s >= w.start /\ s - w.start < Len(w.leaders)

LeaderIn(w, s) == w.leaders[s - w.start + 1]

RefreshDue_NoFloor(s) ==
  \/ s < window.start
  \/ Max({0, window.start + Len(window.leaders) - s}) <= Len(window.leaders) \div 4

\* A quarter of the window is left, or no more than is kept warm.
RefreshDue(s) ==
  \/ s < window.start
  \/ Max({0, window.start + Len(window.leaders) - s})
       <= Max({Len(window.leaders) \div 4, WARM_SLOTS})

\* addresses: the leaders of s and the n - 1 slots behind it, those that are
\* known and published where they take transactions.
Addresses(w, listed, s, n) ==
  {LeaderIn(w, t) : t \in {t \in s..(s + n - 1) : Covers(w, t) /\ LeaderIn(w, t) \in listed}}

----------------------------------------------------------------------------
(* The RPC.                                                                 *)

LeaderOf(s) == (s \div TURN) % VALIDATORS

\* nodes: those the listing has a TPU address for.
Published == (0..(VALIDATORS - 1)) \ UNPUBLISHED

\* Where the schedules end that an RPC has with root rooted.
Computed(root) == (root - (root % EPOCH)) + 2 * EPOCH

Roots == Max({0, tip - ROOTED})..tip

\* fetch's window, as get_slot_leaders answers.
Listing(start, n) == [start |-> start, leaders |-> [i \in 1..n |-> LeaderOf(start + i - 1)]]

----------------------------------------------------------------------------
Init ==
  /\ tip \in FIRST_SLOTS /\ phase = 0 /\ current = 0
  /\ window = NoWindow /\ nodes = {} /\ fetched = NODES_REFRESH + 1
  /\ warm = [slot |-> 0, nodes |-> {}, to |-> {}]
  /\ thread = "sleeping" /\ waited = 0 /\ slot = 0 /\ count = 0
  /\ failed = 0 /\ exit = FALSE

Awake == thread = "sleeping" /\ waited = POLL_INTERVAL

\* The exit flag is looked at between passes only.
Again ==
  /\ thread' = IF exit THEN "gone" ELSE "sleeping"
  /\ waited' = 0 /\ slot' = 0 /\ count' = 0

\* The packet path is not anchored yet.
Idle ==
  /\ Awake /\ current = 0
  /\ Again
  /\ UNCHANGED <<wire, held, warm, failed, exit>>

Warmed_OneTurn(s, w, listed) == Addresses(w, listed, s, 1)

Warmed(s, w, listed) == Addresses(w, listed, s, WARM_SLOTS)

\* A pass that goes by s ends with warming the leaders coming up.
\* A window is published a moment before; below a tick, they are one step.
Finish(s, w, listed, served) ==
  /\ warm' = [slot |-> s, nodes |-> listed, to |-> Warmed(s, w, listed)]
  /\ failed' = IF served /\ s \notin STRAYS THEN 0 ELSE Min({failed + 1, MANY})
  /\ Again

\* The full window is asked for, if one is due for the slot this pass goes by.
Onward(s, listed) ==
  /\ IF window = NoWindow \/ RefreshDue(s)
     THEN thread' = "asking" /\ waited' = 0 /\ slot' = s /\ count' = WINDOW_SLOTS
          /\ UNCHANGED <<warm, failed>>
     ELSE Finish(s, window, listed, TRUE)
  /\ UNCHANGED <<wire, window, exit>>

Wake ==
  /\ Awake /\ current # 0
  /\ IF fetched > NODES_REFRESH
     THEN /\ thread' = "listing" /\ waited' = 0 /\ slot' = current
          /\ UNCHANGED <<wire, window, warm, count, failed, exit>>
     ELSE Onward(current, nodes)
  /\ UNCHANGED <<nodes, fetched>>

\* get_cluster_nodes answers, or does not and what is held stays.
Listed == thread = "listing" /\ nodes' = Published /\ fetched' = 0 /\ Onward(slot, Published)
NotListed == thread = "listing" /\ UNCHANGED <<nodes, fetched>> /\ Onward(slot, nodes)

\* The full window is refused, or the request fails.
NotGranted ==
  /\ thread = "asking"
  /\ thread' = "locating" /\ waited' = 0
  /\ UNCHANGED <<wire, held, warm, slot, count, failed, exit>>

Remaining_Full(ends) == IF ends <= slot THEN WARM_SLOTS ELSE WINDOW_SLOTS

\* Up to where the epoch the RPC is in ends; past it, the horizon.
Remaining(ends) == IF ends <= slot THEN WARM_SLOTS ELSE Min({ends - slot, WINDOW_SLOTS})

\* get_epoch_info says where the RPC believes the cluster is.
Located(at) ==
  /\ thread = "locating"
  /\ at \in Max({0, tip - LAG})..tip
  /\ count' = Remaining(at - (at % EPOCH) + EPOCH)
  /\ thread' = "clamping" /\ waited' = 0
  /\ UNCHANGED <<wire, held, warm, slot, failed, exit>>

\* get_slot_leaders answers in full or not at all.
Granted ==
  /\ thread \in {"asking", "clamping"}
  /\ \E root \in Roots : slot + count <= Computed(root)
  /\ window' = Listing(slot, count)
  /\ Finish(slot, Listing(slot, count), nodes, TRUE)
  /\ UNCHANGED <<wire, nodes, fetched, exit>>

\* The RPC does not say where it is, or refuses the clamped window too.
Denied ==
  /\ thread \in {"locating", "clamping"}
  /\ Finish(slot, window, nodes, FALSE)
  /\ UNCHANGED <<wire, held, exit>>

----------------------------------------------------------------------------
(* The wire and the clock.                                                  *)

Advance ==
  /\ phase = SLOT /\ tip < LAST_SLOT
  /\ tip' = tip + 1 /\ phase' = 0
  /\ current' = Anchored(tip + 1, current)
  /\ UNCHANGED <<held, warm, pass, failed, exit>>

\* A shred of the slot on the wire, or of a slot that only it claims.
Shred(s) ==
  /\ current' = Anchored(s, current)
  /\ UNCHANGED <<tip, phase, held, warm, pass, failed, exit>>

\* Neither a sleep nor a request outlasts its time.
Patience == IF thread = "sleeping" THEN POLL_INTERVAL ELSE RPC_TIMEOUT

Tick ==
  /\ phase' = Min({phase + 1, SLOT})
  /\ fetched' = Min({fetched + 1, NODES_REFRESH + 1})
  /\ IF thread = "gone" THEN UNCHANGED waited
     ELSE waited < Patience /\ waited' = waited + 1
  /\ UNCHANGED <<tip, current, window, nodes, warm, thread, slot, count, failed, exit>>

Stop == ~exit /\ exit' = TRUE /\ UNCHANGED <<wire, held, warm, pass, failed>>

Pass == Idle \/ Wake \/ Listed \/ NotListed \/ NotGranted \/ (\E at \in 0..tip : Located(at))
          \/ Granted \/ Denied

Next == Pass \/ Advance \/ (\E s \in STRAYS \cup {tip} : Shred(s)) \/ Tick \/ Stop

Spec == Init /\ [][Next]_vars

----------------------------------------------------------------------------
\* Everything has its type; the thread goes by a slot exactly while in a pass.
TypeOK ==
  /\ tip \in 1..LAST_SLOT /\ phase \in 0..SLOT
  /\ current \in {0} \cup (1..tip) \cup STRAYS
  /\ window \in [start : Nat, leaders : Seq(0..(VALIDATORS - 1))]
  /\ nodes \subseteq (0..(VALIDATORS - 1)) \ UNPUBLISHED /\ fetched \in 0..(NODES_REFRESH + 1)
  /\ thread \in {"sleeping", "listing", "asking", "locating", "clamping", "gone"}
  /\ waited \in 0..Max({POLL_INTERVAL, RPC_TIMEOUT})
  /\ slot \in (1..tip) \cup STRAYS \cup {0} /\ count \in 0..WINDOW_SLOTS
  /\ (slot = 0) = (thread \in {"sleeping", "gone"})
  /\ failed \in 0..MANY /\ exit \in BOOLEAN

\* The clamped range "always exists": whatever the RPC has rooted, it has the
\* schedule of the slots a pass falls back to, with the wire already in the
\* next epoch, with the RPC already in it, or with neither.
ClampExists ==
  thread = "clamping" /\ slot \notin STRAYS =>
    \A root \in Roots : slot + count <= Computed(root)

\* Slots the wire can move through in so many ticks.
SlotsIn(ticks) == (ticks \div SLOT) + 1

PassTicks == POLL_INTERVAL + 4 * RPC_TIMEOUT

\* The window outlasts the pass that brought it, and what is left when it is
\* due outlasts the pass that found it was not yet, each with a pass that
\* fails and another behind it.
Lasts(w) ==
  /\ SlotsIn(4 * RPC_TIMEOUT + 2 * PassTicks) < Len(w.leaders)
  /\ SlotsIn(RPC_TIMEOUT + 2 * PassTicks) < Max({Len(w.leaders) \div 4, WARM_SLOTS})

\* What a send for a trigger of one of the slots just behind goes to.
Aimed == \A s \in Max({1, tip - FANOUT + 1})..tip :
           LeaderOf(tip) \in Addresses(window, nodes, s, FANOUT) \cup UNPUBLISHED

\* "One failed fetch costs a retry rather than a blind stretch of slots": while
\* no more than one pass in a row has failed, however long its requests took,
\* a send finds the leader of the slot on the wire -- if the window is one that
\* lasts, which the one clamped to the last slots of an epoch is not.
OneFailureSurvived ==
  /\ window # NoWindow /\ window.start \notin STRAYS /\ Lasts(window)
  /\ failed <= 1 /\ nodes # {} /\ ~exit
  => Aimed

\* A send finds its connections up: the leaders of the slots it goes to were
\* warmed by the last pass, as far as they are known, though that pass went by
\* a slot read before its requests and the next is under way.  This takes an
\* RPC that answers, or fails, quickly.
AimWarm ==
  /\ warm.slot \notin STRAYS \cup {0} /\ warm.nodes = nodes /\ ~exit
  /\ SlotsIn(PassTicks + 4 * RPC_TIMEOUT) + FANOUT <= WARM_SLOTS
  => \A s \in tip..(tip + FANOUT - 1) :
       Covers(window, s) /\ LeaderOf(s) \in nodes => LeaderOf(s) \in warm.to
=============================================================================
