------------------------------- MODULE Leaders -------------------------------
(***************************************************************************)
(* The thread that keeps the window of the leader schedule (leaders.rs,    *)
(* spawn and fetch): it looks at the window every POLL_INTERVAL and, when  *)
(* it is running out, asks the RPC where the cluster is and then for the   *)
(* leaders around there.  Either request may fail or be late.              *)
(*                                                                         *)
(* The thread's own copy of the window and the published one are swapped   *)
(* together and are one variable.                                          *)
(***************************************************************************)
EXTENDS Schedule

CONSTANT POLL_INTERVAL

ASSUME LeadersAssumption == POLL_INTERVAL \in Nat \ {0}

VARIABLES
  thread,   \* where the thread is
  waited,   \* how long it has been there
  since,    \* time since the `now` of the pass it is in
  epoch,    \* what get_epoch_info answered in this pass
  failed,   \* history: fetches failed in a row, MANY at most
  exit

pass == <<thread, waited, since, epoch, failed>>
vars == <<cluster, window, pass, exit>>

\* Where the count of failures in a row stops.
MANY == 2

NoEpoch == [absolute_slot |-> 0, slot_index |-> 0]

RefreshDue_Unshifted ==
  Max({0, Len(window.leaders) - ElapsedSlots(0)}) <= Len(window.leaders) \div 4

\* Less than a quarter of the window is left, by the clock.
RefreshDue ==
  LET consumed == BACKFILL_SLOTS + ElapsedSlots(0) IN
  Max({0, Len(window.leaders) - consumed}) <= Len(window.leaders) \div 4

\* The first pass is made at once.
Init ==
  /\ InitSchedule
  /\ thread = "sleeping" /\ waited = POLL_INTERVAL
  /\ since = 0 /\ epoch = NoEpoch /\ failed = 0
  /\ exit = FALSE

Awake == thread = "sleeping" /\ waited = POLL_INTERVAL

Leave ==
  /\ Awake /\ exit
  /\ thread' = "gone" /\ waited' = 0
  /\ UNCHANGED <<cluster, window, since, epoch, failed, exit>>

Ask ==
  /\ Awake /\ ~exit
  /\ window = NoWindow \/ RefreshDue
  /\ thread' = "locating" /\ waited' = 0
  /\ UNCHANGED <<cluster, window, since, epoch, failed, exit>>

Keep ==
  /\ Awake /\ ~exit
  /\ window # NoWindow /\ ~RefreshDue
  /\ waited' = 0
  /\ UNCHANGED <<cluster, window, thread, since, epoch, failed, exit>>

\* get_epoch_info says where the RPC believes the cluster is.
Located(slot) ==
  /\ thread = "locating"
  /\ slot \in Max({0, tip - LAG})..tip
  /\ epoch' = EpochInfo(slot)
  /\ thread' = "listing" /\ waited' = 0
  /\ UNCHANGED <<cluster, window, since, failed, exit>>

\* Back to sleep, whatever the pass came to.
Done ==
  /\ thread' = "sleeping" /\ waited' = 0 /\ since' = 0 /\ epoch' = NoEpoch
  /\ UNCHANGED <<cluster, exit>>

\* get_slot_leaders answers in full or refuses.
Listed ==
  /\ thread = "listing"
  /\ window' = Fetched(epoch, since)
  /\ failed' = 0
  /\ Done

Failed_InPlace ==
  /\ thread \in {"locating", "listing"}
  /\ failed' = Min({failed + 1, MANY})
  /\ waited' = 0 /\ UNCHANGED <<cluster, window, thread, since, epoch, exit>>

\* Either request is refused or runs into its timeout.
Failed ==
  /\ thread \in {"locating", "listing"}
  /\ failed' = Min({failed + 1, MANY})
  /\ Done /\ UNCHANGED window

Moves == Advance /\ UNCHANGED <<pass, exit>>

\* Neither a sleep nor a request outlasts its time.
Patience == IF thread = "sleeping" THEN POLL_INTERVAL ELSE RPC_TIMEOUT

Waits ==
  /\ Tick
  /\ IF thread = "gone" THEN UNCHANGED waited
     ELSE waited < Patience /\ waited' = waited + 1
  /\ since' = IF thread \in {"locating", "listing"} THEN since + 1 ELSE since
  /\ UNCHANGED <<thread, epoch, failed, exit>>

Stop == ~exit /\ exit' = TRUE /\ UNCHANGED <<cluster, window, pass>>

Next ==
  \/ Leave \/ Ask \/ Keep \/ (\E slot \in 0..tip : Located(slot)) \/ Listed \/ Failed
  \/ Moves \/ Waits \/ Stop

Spec == Init /\ [][Next]_vars

----------------------------------------------------------------------------
\* The window in hand was fetched within one pass, around the slot the cluster
\* was at: what the packet path is promised.
KeepsItsPromise == ScheduleSpec

\* Slots of the window that are used up when it comes due for a refresh.
DueAfter == Width - (Width \div 4) - BACKFILL_SLOTS

\* Two passes that take all the time they may fit into the quarter of the window
\* then left, less what the RPC may be behind.
TwoPassesFit ==
  /\ 2 * RPC_TIMEOUT <= DueAfter * SLOT
  /\ 2 * (POLL_INTERVAL + 2 * RPC_TIMEOUT) < ((Width \div 4) - LAG - 1) * SLOT

\* One failed fetch costs a retry, not a blind stretch: while no more than one
\* has failed since the window in hand was fetched, the leader of the slot the
\* cluster is at is known, wherever in the epoch it is and however slow the RPC
\* and far behind.
OneFailureSurvived ==
  TwoPassesFit /\ window # NoWindow /\ failed <= 1 /\ ~exit => HasLeader(tip)
=============================================================================
