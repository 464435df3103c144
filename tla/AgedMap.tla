------------------------------- MODULE AgedMap -------------------------------
(***************************************************************************)
(* A map whose entries age out on the clock (aged.rs).  The assembler, the *)
(* erasure sets and the race tracker each keep one.                        *)
(*                                                                         *)
(* An entry of the source carries the instant it was last touched and is   *)
(* only ever asked how long ago that was, so an entry here carries its     *)
(* AGE.  Ages stop growing at the retention, and the time since the last   *)
(* sweep at SWEEP_INTERVAL: no comparison the source makes tells larger    *)
(* values apart, because a sweep takes every expired entry before the cap  *)
(* compares the rest with one another.                                     *)
(*                                                                         *)
(* A map is a record: entries is a function from the keys held to          *)
(* [age, value], since is the time since the last sweep.                   *)
(***************************************************************************)
EXTENDS Integers, FiniteSets, FiniteSetsExt, Functions

CONSTANT SWEEP_INTERVAL     \* How often a map is swept while under its cap

ASSUME SweepIntervalAssumption == SWEEP_INTERVAL \in Nat

New == [entries |-> [k \in {} |-> 0], since |-> 0]

Keys(m) == DOMAIN m.entries

\* The map dt later: Instant::now() of the next call.
Elapsed(m, dt, retention) ==
  [entries |-> [k \in Keys(m) |->
                  [age   |-> Min({m.entries[k].age + dt, retention}),
                   value |-> m.entries[k].value]],
   since   |-> Min({m.since + dt, SWEEP_INTERVAL})]

----------------------------------------------------------------------------
(* sweep: the interval gate, the entries past retention, then the cap.      *)

SweepDue(m, cap) == m.since >= SWEEP_INTERVAL \/ Cardinality(Keys(m)) > cap

\* Handed to the caller's callback on their way out.
Expired(m, retention) == {k \in Keys(m) : m.entries[k].age >= retention}

\* The entries given up on are the ones just touched.
OverCap_Newest(m, retention, cap) ==
  LET kept == Keys(m) \ Expired(m, retention)
  IN  {k \in kept :
         Cardinality({j \in kept : m.entries[j].age > m.entries[k].age}) >= cap}

\* The cutoff is the cap-th most recent touch, and an entry as recent as the
\* cutoff stays, so what goes is what at least cap survivors are fresher than.
\* The callback never hears of these.
OverCap(m, retention, cap) ==
  LET kept == Keys(m) \ Expired(m, retention)
  IN  {k \in kept :
         Cardinality({j \in kept : m.entries[j].age < m.entries[k].age}) >= cap}

Dropped(m, retention, cap) ==
  Expired(m, retention) \cup OverCap(m, retention, cap)

Sweep(m, retention, cap) ==
  IF SweepDue(m, cap)
  THEN [entries |-> RestrictDomain(m.entries,
                                   LAMBDA k : k \notin Dropped(m, retention, cap)),
        since   |-> 0]
  ELSE m

----------------------------------------------------------------------------
(* upsert hands out the value to be changed in place, so storing what the   *)
(* caller made of it is one step here.                                      *)

ValueOf(m, k, create) == IF k \in Keys(m) THEN m.entries[k].value ELSE create

Upsert(m, k, value) ==
  [entries |-> [j \in Keys(m) \cup {k} |->
                  IF j = k THEN [age |-> 0, value |-> value] ELSE m.entries[j]],
   since   |-> m.since]
=============================================================================
