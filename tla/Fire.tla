--------------------------------- MODULE Fire ---------------------------------
(***************************************************************************)
(* Firing back (fire.rs).  The parser thread hands over the watched        *)
(* wallet's transactions as triggers and reports our own transactions      *)
(* coming back out of the shreds; the sender thread answers the trigger    *)
(* left waiting; a third thread fetches the blockhash that signs.          *)
(*                                                                         *)
(* The lock around the waiting trigger and the one around the pending list *)
(* are held for a swap and a scan, so each of their critical sections is   *)
(* one step; everything else interleaves, time included.  A transaction of *)
(* ours is its nonce.  Time is counted in ticks and an instant is how long *)
(* ago it was, up to where no comparison of the source tells the           *)
(* difference any more.                                                    *)
(*                                                                         *)
(* No critical section can panic, so Handover::Lost, the poisoned lock,    *)
(* is not reached.                                                         *)
(***************************************************************************)
EXTENDS Integers, Sequences, FiniteSets, SequencesExt

CONSTANTS
  MAX_TRIGGER_AGE,  \* How old a trigger may be and still be answered
  COOLDOWN,         \* config.fire_cooldown
  MAX_PENDING,      \* Fires that may wait to be seen in a block
  PENDING_TTL,      \* How long a fire is waited for
  VALIDITY,         \* How long the cluster includes a transaction of ours
  SLOT,             \* How long a slot lasts
  LAG,              \* Slots by which a watched transaction may surface late
  LAST_SLOT,        \* Bound: time stops at the end of this slot
  TRIGGERS          \* Bound: watched transactions in a behaviour

ASSUME FireAssumption ==
  /\ {MAX_TRIGGER_AGE, COOLDOWN, PENDING_TTL, VALIDITY, LAG, LAST_SLOT, TRIGGERS}
       \subseteq Nat
  /\ MAX_PENDING \in Nat \ {0}
  /\ SLOT \in Nat \ {0}

VARIABLES
  \* shared between the parser thread and the sender
  latest,     \* Latest: the one trigger waiting, or NoTrigger
  pending,    \* Fire.pending: nonces sent and not yet seen, oldest first
  exit,       \* the flag every thread polls
  \* the sender thread
  sender,     \* where it is
  hand,       \* the trigger it is dealing with, or NoTrigger
  fired,      \* the nonce of its last fire
  cooling,    \* time since that, the cooldown at most; as much if it never was
  \* the blockhash thread
  hash,       \* it holds a blockhash
  asking,     \* it waits for the RPC to name the latest
  \* FireMetrics
  triggered, outcomes,
  landed, lost,   \* the nonces counted under sniper.fire.landed as either
  \* history
  forgotten,  \* nonces taken off the pending list because the send failed
  answered,   \* nonce |-> the slot of the trigger it answers
  since,      \* nonce |-> time since it was sent
  \* the cluster
  away,       \* nonces that left this machine
  seen,       \* nonces that came back out of the shreds
  slot, phase \* the slot being built, and how far into it time is

hashVars    == <<hash, asking>>
senderVars  == <<sender, hand, fired, cooling>>
sentVars    == <<pending, landed, lost, forgotten, answered, since>>
clusterVars == <<away, seen>>
clockVars   == <<slot, phase>>
vars == <<latest, exit, hashVars, triggered, outcomes, senderVars, sentVars,
          clusterVars, clockVars>>

NoTrigger == [slot |-> -1, age |-> 0]

Older(age, cap) == IF age < cap THEN age + 1 ELSE cap

Aged(trigger) ==
  IF trigger = NoTrigger THEN NoTrigger
  ELSE [trigger EXCEPT !.age = Older(@, MAX_TRIGGER_AGE + 1)]

Counted(outcome) == [outcomes EXCEPT ![outcome] = @ + 1]

----------------------------------------------------------------------------
Init ==
  /\ latest = NoTrigger /\ hand = NoTrigger
  /\ pending = <<>>
  /\ exit = FALSE
  /\ sender = "checking"
  /\ fired = 0 /\ cooling = COOLDOWN
  /\ hash = FALSE /\ asking = FALSE
  /\ triggered = 0
  /\ outcomes = [o \in {"sent", "failed", "skipped", "stale"} |-> 0]
  /\ landed = {} /\ lost = {} /\ forgotten = {}
  /\ answered = <<>> /\ since = <<>>
  /\ away = {} /\ seen = {}
  /\ slot = 0 /\ phase = 0

----------------------------------------------------------------------------
(* The parser thread.                                                       *)

Overtaken_Uncounted == outcomes

\* The trigger a new one takes the place of was never answered.
Overtaken == IF latest = NoTrigger THEN outcomes ELSE Counted("stale")

\* Fire::trigger: the newest replaces the one waiting, and wakes the sender.
Trigger(of) ==
  /\ triggered < TRIGGERS
  /\ triggered' = triggered + 1
  /\ latest' = [slot |-> of, age |-> 0]
  /\ outcomes' = Overtaken
  /\ sender' = IF sender = "asleep" THEN "checking" ELSE sender
  /\ UNCHANGED <<exit, hashVars, hand, fired, cooling, sentVars, clusterVars, clockVars>>

Unlisted_Oldest(list, n) == IF n \in ToSet(list) THEN Tail(list) ELSE list

\* The list without the one entry that matches, if any does.
Unlisted(list, n) ==
  IF n \in ToSet(list)
  THEN RemoveAt(list, CHOOSE k \in DOMAIN list : list[k] = n)
  ELSE list

\* Fire::landed: one of ours came back.  What is no longer listed is not ours
\* to report.
Landed(n) ==
  /\ n \in away /\ since[n] <= VALIDITY
  /\ seen' = seen \cup {n}
  /\ pending' = Unlisted(pending, n)
  /\ landed' = landed \cup ({n} \cap ToSet(pending))
  /\ UNCHANGED <<latest, exit, hashVars, triggered, outcomes, senderVars, lost,
                 forgotten, answered, since, away, clockVars>>

----------------------------------------------------------------------------
(* The sender thread.                                                       *)

\* Latest::take prefers a waiting trigger to the exit flag.
Take ==
  /\ sender = "checking" /\ latest # NoTrigger
  /\ sender' = "judging"
  /\ hand' = latest
  /\ latest' = NoTrigger
  /\ UNCHANGED <<exit, hashVars, triggered, outcomes, fired, cooling, sentVars,
                 clusterVars, clockVars>>


Leave ==
  /\ sender = "checking" /\ latest = NoTrigger /\ exit
  /\ sender' = "done"
  /\ UNCHANGED <<latest, exit, hashVars, triggered, outcomes, hand, fired, cooling,
                 sentVars, clusterVars, clockVars>>

Sleep ==
  /\ sender = "checking" /\ latest = NoTrigger /\ ~exit
  /\ sender' = "asleep"
  /\ UNCHANGED <<latest, exit, hashVars, triggered, outcomes, hand, fired, cooling,
                 sentVars, clusterVars, clockVars>>

Wake_OnSignalOnly ==
  /\ sender = "asleep" /\ latest # NoTrigger
  /\ sender' = "checking"
  /\ UNCHANGED <<latest, exit, hashVars, triggered, outcomes, hand, fired, cooling,
                 sentVars, clusterVars, clockVars>>

\* WAKE_INTERVAL has passed with no trigger.
Wake ==
  /\ sender = "asleep"
  /\ sender' = "checking"
  /\ UNCHANGED <<latest, exit, hashVars, triggered, outcomes, hand, fired, cooling,
                 sentVars, clusterVars, clockVars>>

\* Why the trigger in hand is not answered, in the order it is asked.
CoolingDown_OneShort == cooling < COOLDOWN - 1

CoolingDown == cooling < COOLDOWN

Refusal ==
  CASE hand.age > MAX_TRIGGER_AGE -> "stale"
    [] hand.age <= MAX_TRIGGER_AGE /\ CoolingDown -> "skipped"
    [] hand.age <= MAX_TRIGGER_AGE /\ ~CoolingDown /\ ~hash -> "failed"
    [] OTHER -> "none"

Refuse ==
  /\ sender = "judging" /\ Refusal # "none"
  /\ outcomes' = Counted(Refusal)
  /\ sender' = "checking"
  /\ hand' = NoTrigger
  /\ UNCHANGED <<latest, exit, hashVars, triggered, fired, cooling, sentVars,
                 clusterVars, clockVars>>

WrittenOff_AtCap(list, ages) ==
  Min({k \in 0..Len(list) :
         /\ Len(list) - k < MAX_PENDING
         /\ k < Len(list) => ages[list[k + 1]] <= PENDING_TTL})

WrittenOff_AgeOnly(list, ages) ==
  Min({k \in 0..Len(list) : k < Len(list) => ages[list[k + 1]] <= PENDING_TTL})

\* remember: how many of the oldest are popped before one in time is at the
\* front and the cap is kept.
WrittenOff(list, ages) ==
  Min({k \in 0..Len(list) :
         /\ Len(list) - k <= MAX_PENDING
         /\ k < Len(list) => ages[list[k + 1]] <= PENDING_TTL})

\* The fire is listed before it is sent: it may be in a block, and back here,
\* before the send returns.
Commit ==
  LET n    == fired + 1
      list == Append(pending, n)
      ages == Append(since, 0)
      k    == WrittenOff(list, ages)
  IN  /\ sender = "judging" /\ Refusal = "none"
      /\ sender' = "sending"
      /\ fired' = n
      /\ cooling' = 0
      /\ answered' = Append(answered, hand.slot)
      /\ since' = ages
      /\ pending' = SubSeq(list, k + 1, Len(list))
      /\ lost' = lost \cup {list[j] : j \in 1..k}
      /\ UNCHANGED <<latest, exit, hashVars, triggered, outcomes, hand, landed,
                     forgotten, clusterVars, clockVars>>

\* The send returns well only if the transaction left.
Succeed ==
  /\ sender = "sending" /\ fired \in away
  /\ outcomes' = Counted("sent")
  /\ sender' = "checking"
  /\ hand' = NoTrigger
  /\ UNCHANGED <<latest, exit, hashVars, triggered, fired, cooling, sentVars,
                 clusterVars, clockVars>>

\* It returns an error whether or not it left: the RPC call also ends at
\* RPC_TIMEOUT, however far the request got.
Fail ==
  /\ sender = "sending"
  /\ outcomes' = Counted("failed")
  /\ sender' = "checking"
  /\ hand' = NoTrigger
  /\ pending' = Unlisted(pending, fired)
  /\ forgotten' = forgotten \cup ({fired} \cap ToSet(pending))
  /\ UNCHANGED <<latest, exit, hashVars, triggered, fired, cooling, landed, lost,
                 answered, since, clusterVars, clockVars>>

----------------------------------------------------------------------------
(* Everything around.                                                       *)

\* Blockhash::spawn's loop looks at the exit flag before it asks, and only then.
Ask ==
  /\ ~asking /\ ~exit
  /\ asking' = TRUE
  /\ UNCHANGED <<latest, exit, hash, triggered, outcomes, senderVars, sentVars,
                 clusterVars, clockVars>>

\* get_latest_blockhash returned.  A refresh that failed leaves what is held.
Refresh ==
  /\ asking
  /\ asking' = FALSE
  /\ hash' \in {hash, TRUE}
  /\ UNCHANGED <<latest, exit, triggered, outcomes, senderVars, sentVars,
                 clusterVars, clockVars>>

\* The transaction being sent reaches the RPC node, or a leader.
Depart ==
  /\ sender = "sending"
  /\ away' = away \cup {fired}
  /\ UNCHANGED <<latest, exit, hashVars, triggered, outcomes, senderVars, sentVars,
                 seen, clockVars>>

\* A signal handler, or the parser thread once the receivers hung up.
Stop ==
  /\ exit' = TRUE
  /\ UNCHANGED <<latest, hashVars, triggered, outcomes, senderVars, sentVars,
                 clusterVars, clockVars>>

Tick ==
  /\ slot < LAST_SLOT \/ phase < SLOT - 1
  /\ phase' = (phase + 1) % SLOT
  /\ slot' = IF phase = SLOT - 1 THEN slot + 1 ELSE slot
  /\ latest' = Aged(latest)
  /\ hand' = Aged(hand)
  /\ cooling' = Older(cooling, COOLDOWN)
  /\ since' = [n \in DOMAIN since |-> Older(since[n], PENDING_TTL + 1)]
  /\ UNCHANGED <<exit, hashVars, triggered, outcomes, sender, fired, pending, landed,
                 lost, forgotten, answered, clusterVars>>

SenderStep == Take \/ Leave \/ Sleep \/ Wake \/ Refuse \/ Commit \/ Succeed \/ Fail

Next ==
  \/ \E of \in {s \in (slot - LAG)..slot : s >= 0} : Trigger(of)
  \/ \E n \in away : Landed(n)
  \/ SenderStep
  \/ Ask \/ Refresh \/ Depart \/ Stop \/ Tick

\* The sender is a thread that runs: a condvar wait ends within WAKE_INTERVAL
\* and a send within its timeout.
Spec == Init /\ [][Next]_vars /\ WF_vars(SenderStep)

----------------------------------------------------------------------------
\* Everything is of the kind its declaration says, and the sender holds a
\* trigger exactly while it deals with one.
TypeOK ==
  /\ latest.age \in 0..(MAX_TRIGGER_AGE + 1) /\ latest.slot \in {-1} \cup 0..slot
  /\ hand.age \in 0..(MAX_TRIGGER_AGE + 1) /\ hand.slot \in {-1} \cup 0..slot
  /\ (sender \in {"judging", "sending"}) = (hand # NoTrigger)
  /\ sender \in {"checking", "asleep", "judging", "sending", "done"}
  /\ cooling \in 0..COOLDOWN
  /\ Len(answered) = fired /\ Len(since) = fired
  /\ Len(pending) <= MAX_PENDING
  /\ away \subseteq 1..fired /\ seen \subseteq away

Waiting(trigger) == IF trigger = NoTrigger THEN 0 ELSE 1

\* Every trigger ends in exactly one outcome: the counters of
\* sniper.fire.sends add up to sniper.fire.triggers, but for the one waiting
\* and the one in the sender's hand -- overtaken ones, ones that aged while a
\* send was out, and ones handed over during shutdown included.
Accounted ==
  triggered = outcomes["sent"] + outcomes["failed"] + outcomes["skipped"]
                + outcomes["stale"] + Waiting(latest) + Waiting(hand)

\* Every fire is in exactly one place: still pending, counted landed, counted
\* lost, or forgotten for a failed send -- whichever of the landing and the
\* send's return came first.
FiresAccounted ==
  LET listed == ToSet(pending)
  IN  /\ listed \cup landed \cup lost \cup forgotten = 1..fired
      /\ listed \cap landed = {} /\ listed \cap lost = {} /\ listed \cap forgotten = {}
      /\ landed \cap lost = {} /\ landed \cap forgotten = {} /\ lost \cap forgotten = {}
      /\ IsInjective(pending)

\* A transaction of ours that came back is matched, unless its send was
\* reported failed: the list never gives one up while it can still land.
\* This needs a cooldown long enough for the cap: MAX_PENDING fires must take
\* longer than a transaction stays valid, as they do at the default.
LandingMatched ==
  MAX_PENDING * COOLDOWN > VALIDITY /\ PENDING_TTL >= VALIDITY =>
    seen \subseteq landed \cup forgotten

AnswersTo(s) == {n \in 1..fired : answered[n] = s}

\* A slot is answered no more often than the cooldown fits into the time its
\* triggers can surface and wait for the sender.  That is more than once, for
\* all that is said of FIRE_COOLDOWN_MS: "a cooldown just under a slot keeps it
\* to one answer per slot without needing to track slots" (config.rs:74-75), "at
\* most one answer per slot" (src/README.md:170).  At the defaults two fires
\* 300 ms apart, the first as a slot of 400 ms begins, both answer that slot.
AnswersPerSlotBounded ==
  COOLDOWN > 0 => \A s \in 0..slot :
    Cardinality(AnswersTo(s)) <=
      ((LAG + 1) * SLOT - 1 + MAX_TRIGGER_AGE) \div COOLDOWN + 1


\* A sniper that is stopping gets its sender home, asleep or in a send as it
\* may be.
StopsOnExit == exit ~> sender = "done"
=============================================================================
