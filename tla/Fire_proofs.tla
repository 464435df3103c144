------------------------------ MODULE Fire_proofs ------------------------------
(***************************************************************************)
(* Proofs about firing, for every cooldown, cap, timing and number of      *)
(* triggers: the accounts of triggers and of fires, that no landing is     *)
(* missed while the pending list is as long as the cooldown makes it need, *)
(* and how often a slot is answered.                                       *)
(***************************************************************************)
EXTENDS Fire, SequenceTheorems, FiniteSetTheorems, WellFoundedInduction, TLAPS

----------------------------------------------------------------------------
(* That Min of FiniteSetsExt has something to choose.                     *)

\* A non-empty set of naturals has a smallest member, and Min is it.
LEMMA MinExists ==
  ASSUME NEW S, S \subseteq Nat, S # {}
  PROVE  Min(S) \in S /\ \A x \in S : Min(S) <= x
<1>1. PICK u \in S : \A y \in S : ~(<<y, u>> \in OpToRel(<, Nat))
  BY WFMin, NatLessThanWellFounded, Zenon
<1>2. \A y \in S : u <= y
  <2>1. \A y \in S : ~(y < u)
    BY <1>1 DEF OpToRel
  <2>2. QED BY <2>1
<1>3. QED BY <1>1, <1>2 DEF Min

----------------------------------------------------------------------------
Outcomes == {"sent", "failed", "skipped", "stale"}

----------------------------------------------------------------------------
(* The pending list.                                                        *)

\* The nonces listed grow from the front to the back.
Spread(list) ==
  \A i, j \in 1..Len(list) : i < j => list[j] - list[i] >= j - i

\* Taking an entry out leaves the others, in order.
LEMMA UnlistedSound ==
  ASSUME NEW f \in Nat, NEW list \in Seq(1..f), Spread(list), NEW n
  PROVE  LET u == Unlisted(list, n) IN
         /\ u \in Seq(1..f)
         /\ Len(u) <= Len(list)
         /\ Spread(u)
         /\ ToSet(u) = ToSet(list) \ {n}
<1> DEFINE u == Unlisted(list, n)
<1>1. Len(list) \in Nat /\ DOMAIN list = 1..Len(list)
      /\ \A i \in 1..Len(list) : list[i] \in 1..f
  BY LenProperties
<1>2. CASE n \notin ToSet(list)
  BY <1>2 DEF Unlisted
<1>3. CASE n \in ToSet(list)
  <2>1. PICK k \in 1..Len(list) : list[k] = n /\ u = RemoveAt(list, k)
    <3>1. \E k \in DOMAIN list : list[k] = n
      BY <1>3 DEF ToSet
    <3>2. QED BY <1>1, <1>3, <3>1 DEF Unlisted
  <2>2. /\ u \in Seq(1..f) /\ Len(u) = Len(list) - 1
        /\ \A i \in 1..(Len(list) - 1) : u[i] = IF i < k THEN list[i] ELSE list[i + 1]
    <3> DEFINE front == SubSeq(list, 1, k - 1)
               back  == SubSeq(list, k + 1, Len(list))
    <3>1. front \in Seq(1..f) /\ Len(front) = k - 1
          /\ \A i \in 1..(k - 1) : front[i] = list[i]
      BY <1>1, SubSeqProperties
    <3>2. back \in Seq(1..f) /\ Len(back) = Len(list) - k
          /\ \A i \in 1..(Len(list) - k) : back[i] = list[k + i]
      <4>1. \A i \in (k + 1)..Len(list) : list[i] \in 1..f
        BY <1>1
      <4>2. /\ back \in Seq(1..f)
            /\ Len(back) = IF k + 1 <= Len(list) THEN Len(list) - (k + 1) + 1 ELSE 0
            /\ \A i \in 1..(Len(list) - (k + 1) + 1) : back[i] = list[(k + 1) + i - 1]
        BY <1>1, <4>1, SubSeqProperties
      <4>3. \A i \in 1..(Len(list) - k) : (k + 1) + i - 1 = k + i
        OBVIOUS
      <4> HIDE DEF back
      <4>4. Len(back) = Len(list) - k
        <5> DEFINE len == Len(list)
        <5>1. Len(back) = IF k + 1 <= len THEN len - (k + 1) + 1 ELSE 0
          BY <4>2
        <5>2. len \in Nat /\ k \in Nat /\ k <= len
          BY <1>1
        <5> HIDE DEF len
        <5>3. Len(back) = len - k
          BY <5>1, <5>2
        <5>4. QED BY <5>3 DEF len
      <4>5. ASSUME NEW i \in 1..(Len(list) - k) PROVE back[i] = list[k + i]
        <5>1. i \in 1..(Len(list) - (k + 1) + 1)
          BY <1>1
        <5>2. QED BY <4>2, <4>3, <5>1
      <4>6. QED BY <4>2, <4>4, <4>5
    <3>3. u = front \o back
      BY <2>1 DEF RemoveAt
    <3> HIDE DEF front, back, u
    <3>4. u \in Seq(1..f) /\ Len(u) = Len(list) - 1
      <4>1. u \in Seq(1..f) /\ Len(u) = Len(front) + Len(back)
        BY <3>1, <3>2, <3>3, ConcatProperties
      <4>2. k \in Nat /\ Len(list) \in Nat
        BY <1>1
      <4>3. (k - 1) + (Len(list) - k) = Len(list) - 1
        BY <4>2
      <4>4. QED BY <3>1, <3>2, <4>1, <4>3
    <3>5. \A i \in 1..(Len(list) - 1) :
            u[i] = IF i < k THEN front[i] ELSE back[i - (k - 1)]
      <4>1. SUFFICES ASSUME NEW i \in 1..(Len(list) - 1)
                     PROVE  u[i] = IF i < k THEN front[i] ELSE back[i - (k - 1)]
        OBVIOUS
      <4>2. u[i] = IF i <= Len(front) THEN front[i] ELSE back[i - Len(front)]
        <5>1. i \in 1..(Len(front) + Len(back))
          BY <1>1, <3>1, <3>2
        <5>2. u[i] = IF i <= Len(front) THEN front[i] ELSE back[i - Len(front)]
          BY <3>1, <3>2, <3>3, <5>1, ConcatProperties
        <5>3. QED BY <5>2
      <4>3. QED BY <3>1, <4>2
    <3>6. ASSUME NEW i \in 1..(Len(list) - 1)
          PROVE  u[i] = IF i < k THEN list[i] ELSE list[i + 1]
      <4>1. CASE i < k
        BY <3>1, <3>5, <4>1
      <4>2. CASE ~(i < k)
        <5>1. i - (k - 1) \in 1..(Len(list) - k) /\ k + (i - (k - 1)) = i + 1
          BY <1>1, <4>2
        <5>2. QED BY <3>2, <3>5, <4>2, <5>1
      <4>3. QED BY <4>1, <4>2
    <3>7. QED BY <3>4, <3>6
  <2> HIDE DEF u
  <2>3. Spread(u)
    <3>1. SUFFICES ASSUME NEW i \in 1..Len(u), NEW j \in 1..Len(u), i < j
                   PROVE  u[j] - u[i] >= j - i
      BY DEF Spread
    <3>2. i \in 1..(Len(list) - 1) /\ j \in 1..(Len(list) - 1)
      BY <2>2
    <3>3. /\ list[i] \in Int /\ list[j] \in Int
          /\ list[i + 1] \in Int /\ list[j + 1] \in Int
      BY <1>1, <3>2
    <3>4. /\ list[j] - list[i] >= j - i
          /\ list[j + 1] - list[i] >= j - i
          /\ list[j + 1] - list[i + 1] >= j - i
      <4>1. /\ i \in 1..Len(list) /\ j \in 1..Len(list) /\ i + 1 \in 1..Len(list)
            /\ j + 1 \in 1..Len(list) /\ i < j + 1 /\ i + 1 < j + 1
        BY <1>1, <3>1, <3>2
      <4>2. list[j] - list[i] >= j - i
        BY <3>1, <4>1 DEF Spread
      <4>3. list[j + 1] - list[i] >= (j + 1) - i
        BY <4>1 DEF Spread
      <4>4. list[j + 1] - list[i + 1] >= (j + 1) - (i + 1)
        BY <4>1 DEF Spread
      <4>5. j - i >= 0 /\ (j + 1) - i >= j - i /\ (j + 1) - (i + 1) = j - i
        BY <3>1, <3>2
      <4> DEFINE a == list[i]  b == list[i + 1]  c == list[j]  d == list[j + 1]
      <4>6. a \in Int /\ b \in Int /\ c \in Int /\ d \in Int
        BY <3>3
      <4>7. c - a >= j - i /\ d - a >= (j + 1) - i /\ d - b >= (j + 1) - (i + 1)
        BY <4>2, <4>3, <4>4
      <4> HIDE DEF a, b, c, d
      <4>8. c - a >= j - i /\ d - a >= j - i /\ d - b >= j - i
        BY <3>2, <4>5, <4>6, <4>7
      <4>9. QED BY <4>8 DEF a, b, c, d
    <3>5. CASE j < k
      BY <2>2, <3>1, <3>2, <3>4, <3>5
    <3>6. CASE i < k /\ ~(j < k)
      BY <2>2, <3>1, <3>2, <3>4, <3>6
    <3>7. CASE ~(i < k)
      <4>1. i \in Int /\ j \in Int /\ k \in Int
        BY <3>2, <2>1
      <4>2. ~(j < k)
        BY <3>1, <3>7, <4>1
      <4>3. u[i] = list[i + 1] /\ u[j] = list[j + 1]
        BY <2>2, <3>2, <3>7, <4>2
      <4>4. QED BY <3>4, <4>3
    <3>8. QED BY <3>5, <3>6, <3>7
  <2>4. \A i \in 1..Len(list) : list[i] = n => i = k
    BY <1>1, <2>1 DEF Spread
  <2>5. ToSet(u) = ToSet(list) \ {n}
    <3>1. DOMAIN u = 1..(Len(list) - 1)
      BY <2>2, LenProperties
    <3>2. ASSUME NEW m \in ToSet(u) PROVE m \in ToSet(list) \ {n}
      <4>1. PICK i \in 1..(Len(list) - 1) : u[i] = m
        BY <3>1 DEF ToSet
      <4>2. PICK j \in 1..Len(list) : list[j] = m /\ j # k
        <5>1. CASE i < k
          BY <1>1, <2>2, <4>1, <5>1
        <5>2. CASE ~(i < k)
          <6>1. i + 1 \in 1..Len(list) /\ i + 1 # k /\ list[i + 1] = m
            BY <1>1, <2>2, <4>1, <5>2
          <6>2. QED BY <6>1
        <5>3. QED BY <5>1, <5>2
      <4>3. QED BY <1>1, <2>4, <4>2 DEF ToSet
    <3>3. ASSUME NEW m \in ToSet(list) \ {n} PROVE m \in ToSet(u)
      <4>1. PICK i \in 1..Len(list) : list[i] = m /\ i # k
        BY <1>1, <2>1 DEF ToSet
      <4>2. CASE i < k
        <5>1. i \in 1..(Len(list) - 1) /\ u[i] = m
          BY <1>1, <2>2, <4>1, <4>2
        <5>2. QED BY <3>1, <5>1 DEF ToSet
      <4>3. CASE i > k
        <5>1. i - 1 \in 1..(Len(list) - 1) /\ u[i - 1] = m
          BY <1>1, <2>2, <4>1, <4>3, SMTT(60)
        <5>2. QED BY <3>1, <5>1 DEF ToSet
      <4>4. QED BY <4>1, <4>2, <4>3
    <3>4. QED BY <3>2, <3>3
  <2>6. QED BY <1>1, <2>2, <2>3, <2>5 DEF u
<1>4. QED BY <1>2, <1>3

\* The loop of remember stops, within the cap, and each it pops was too old or
\* one too many.
LEMMA WrittenOffSound ==
  ASSUME NEW list, NEW ages, Len(list) \in Nat
  PROVE  LET k == WrittenOff(list, ages) IN
         /\ k \in 0..Len(list)
         /\ Len(list) - k <= MAX_PENDING
         /\ \A j \in 1..k : \/ Len(list) - j >= MAX_PENDING
                            \/ ~(ages[list[j]] <= PENDING_TTL)
<1> DEFINE S == {k \in 0..Len(list) :
                   /\ Len(list) - k <= MAX_PENDING
                   /\ k < Len(list) => ages[list[k + 1]] <= PENDING_TTL}
           k == WrittenOff(list, ages)
<1>1. MAX_PENDING \in Nat
  BY FireAssumption
<1>2. Len(list) \in S /\ S \subseteq Nat
  BY <1>1
<1>3. Min(S) \in S /\ \A x \in S : Min(S) <= x
  <2> HIDE DEF S
  <2>1. QED BY <1>2, MinExists
<1>4. k = Min(S)
  BY DEF WrittenOff
<1>5. k \in S /\ \A x \in S : k <= x
  BY <1>3, <1>4
<1> HIDE DEF k
<1>6. ASSUME NEW j \in 1..k
      PROVE  Len(list) - j >= MAX_PENDING \/ ~(ages[list[j]] <= PENDING_TTL)
  <2>1. j - 1 \in 0..Len(list) /\ j - 1 < k /\ j - 1 < Len(list) /\ (j - 1) + 1 = j
    BY <1>5
  <2>2. j - 1 \notin S
    BY <1>5, <2>1
  <2>3. ~(Len(list) - (j - 1) <= MAX_PENDING) \/ ~(ages[list[j]] <= PENDING_TTL)
    BY <2>1, <2>2
  <2>4. QED BY <1>1, <2>1, <2>3
<1>7. QED BY <1>5, <1>6 DEF k

----------------------------------------------------------------------------
(* Triggers.                                                                *)

TriggerShaped(trigger, now) ==
  trigger # NoTrigger =>
    trigger \in [slot : 0..now, age : 0..(MAX_TRIGGER_AGE + 1)]

\* The sender has a trigger exactly while it deals with one, and what became
\* of the triggers adds up.
TriggerInv ==
  /\ slot \in Nat
  /\ TriggerShaped(latest, slot) /\ TriggerShaped(hand, slot)
  /\ sender \in {"checking", "asleep", "judging", "sending", "done"}
  /\ (sender \in {"judging", "sending"}) <=> (hand # NoTrigger)
  /\ outcomes \in [Outcomes -> Nat]
  /\ triggered \in Nat
  /\ Accounted

\* A tick ages a trigger and leaves it one.
LEMMA AgedShaped ==
  ASSUME NEW trigger, NEW now \in Nat, NEW then \in Nat, now <= then,
         TriggerShaped(trigger, now)
  PROVE  TriggerShaped(Aged(trigger), then) /\ Waiting(Aged(trigger)) = Waiting(trigger)
<1>1. CASE trigger = NoTrigger
  BY <1>1 DEF Aged, TriggerShaped
<1>2. CASE trigger # NoTrigger
  <2>1. trigger.slot \in 0..now /\ trigger.age \in 0..(MAX_TRIGGER_AGE + 1)
        /\ trigger = [slot |-> trigger.slot, age |-> trigger.age]
    BY <1>2 DEF TriggerShaped
  <2>2. Aged(trigger) = [slot |-> trigger.slot,
                         age |-> Older(trigger.age, MAX_TRIGGER_AGE + 1)]
    BY <1>2, <2>1 DEF Aged
  <2>3. Older(trigger.age, MAX_TRIGGER_AGE + 1) \in 0..(MAX_TRIGGER_AGE + 1)
    BY <2>1, FireAssumption DEF Older
  <2>4. Aged(trigger) \in [slot : 0..then, age : 0..(MAX_TRIGGER_AGE + 1)]
    BY <2>1, <2>2, <2>3
  <2>5. Aged(trigger) # NoTrigger
    <3>1. Aged(trigger).slot # -1
      BY <2>1, <2>2
    <3>2. NoTrigger.slot = -1
      BY DEF NoTrigger
    <3>3. QED BY <3>1, <3>2
  <2>6. QED BY <1>2, <2>4, <2>5 DEF TriggerShaped, Waiting
<1>3. QED BY <1>1, <1>2

\* One more of an outcome is one more in their sum.
LEMMA CountedSound ==
  ASSUME outcomes \in [Outcomes -> Nat], NEW o \in Outcomes
  PROVE  /\ Counted(o) \in [Outcomes -> Nat]
         /\ Counted(o)["sent"] + Counted(o)["failed"] + Counted(o)["skipped"]
              + Counted(o)["stale"]
            = outcomes["sent"] + outcomes["failed"] + outcomes["skipped"]
                + outcomes["stale"] + 1
<1>1. Counted(o) \in [Outcomes -> Nat]
  BY DEF Counted
<1>2. \A p \in Outcomes : Counted(o)[p] = IF p = o THEN outcomes[o] + 1 ELSE outcomes[p]
  BY DEF Counted
<1> DEFINE c == Counted(o)
<1> HIDE DEF c
<1>3. /\ outcomes["sent"] \in Nat /\ outcomes["failed"] \in Nat
      /\ outcomes["skipped"] \in Nat /\ outcomes["stale"] \in Nat
  BY DEF Outcomes
<1>4. /\ c["sent"] = IF o = "sent" THEN outcomes["sent"] + 1 ELSE outcomes["sent"]
      /\ c["failed"] = IF o = "failed" THEN outcomes["failed"] + 1 ELSE outcomes["failed"]
      /\ c["skipped"] = IF o = "skipped" THEN outcomes["skipped"] + 1 ELSE outcomes["skipped"]
      /\ c["stale"] = IF o = "stale" THEN outcomes["stale"] + 1 ELSE outcomes["stale"]
  BY <1>2 DEF c, Outcomes
<1>5. o \in {"sent", "failed", "skipped", "stale"}
  BY DEF Outcomes
<1>6. c["sent"] + c["failed"] + c["skipped"] + c["stale"]
        = outcomes["sent"] + outcomes["failed"] + outcomes["skipped"]
            + outcomes["stale"] + 1
  BY <1>3, <1>4, <1>5
<1>7. QED BY <1>1, <1>6 DEF c

LEMMA TriggerInit == Init => TriggerInv
<1> SUFFICES ASSUME Init PROVE TriggerInv
  OBVIOUS
<1>1. outcomes \in [Outcomes -> Nat]
      /\ outcomes["sent"] = 0 /\ outcomes["failed"] = 0 /\ outcomes["skipped"] = 0
      /\ outcomes["stale"] = 0
  BY DEF Init, Outcomes
<1>2. Waiting(latest) = 0 /\ Waiting(hand) = 0 /\ triggered = 0
  BY DEF Init, Waiting
<1>3. Accounted
  BY <1>1, <1>2 DEF Accounted
<1>4. QED BY <1>1, <1>3 DEF Init, TriggerInv, TriggerShaped

LEMMA TriggerStep == TriggerInv /\ [Next]_vars => TriggerInv'
<1> SUFFICES ASSUME TriggerInv, [Next]_vars PROVE TriggerInv'
  OBVIOUS
<1> USE DEF TriggerInv
<1>1. Waiting(latest) \in {0, 1} /\ Waiting(hand) \in {0, 1}
  BY DEF Waiting
<1>2. /\ outcomes["sent"] \in Nat /\ outcomes["failed"] \in Nat
      /\ outcomes["skipped"] \in Nat /\ outcomes["stale"] \in Nat
  BY DEF Outcomes
<1>3. \A trigger : TriggerShaped(trigger, slot) /\ trigger # NoTrigger => trigger.slot \in Nat
  BY DEF TriggerShaped
<1>4. ASSUME NEW of \in {s \in (slot - LAG)..slot : s >= 0}, Trigger(of)
      PROVE  TriggerInv'
  <2>1. of \in 0..slot
    BY FireAssumption
  <2>2. latest' # NoTrigger /\ TriggerShaped(latest', slot')
    <3>1. latest' = [slot |-> of, age |-> 0]
      BY <1>4 DEF Trigger
    <3>2. latest' \in [slot : 0..slot, age : 0..(MAX_TRIGGER_AGE + 1)]
      BY <2>1, <3>1, FireAssumption
    <3>3. latest'.slot # NoTrigger.slot
      BY <2>1, <3>1 DEF NoTrigger
    <3>4. slot' = slot
      BY <1>4 DEF Trigger, clockVars
    <3>5. QED BY <3>2, <3>3, <3>4 DEF TriggerShaped
  <2>3. /\ triggered' = triggered + 1 /\ outcomes' = Overtaken /\ hand' = hand
        /\ slot' = slot
        /\ sender' = IF sender = "asleep" THEN "checking" ELSE sender
    BY <1>4 DEF Trigger, clockVars
  <2>4. outcomes' \in [Outcomes -> Nat]
        /\ outcomes'["sent"] + outcomes'["failed"] + outcomes'["skipped"]
             + outcomes'["stale"]
           = outcomes["sent"] + outcomes["failed"] + outcomes["skipped"]
               + outcomes["stale"] + Waiting(latest)
    <3>1. CASE latest = NoTrigger
      BY <1>2, <2>3, <3>1 DEF Overtaken, Waiting
    <3>2. CASE latest # NoTrigger
      BY <2>3, <3>2, CountedSound DEF Overtaken, Waiting, Outcomes
    <3>3. QED BY <3>1, <3>2
  <2>5. Accounted'
    <3>1. Waiting(latest') = 1 /\ Waiting(hand') = Waiting(hand)
      BY <2>2, <2>3 DEF Waiting
    <3>2. /\ outcomes'["sent"] \in Nat /\ outcomes'["failed"] \in Nat
          /\ outcomes'["skipped"] \in Nat /\ outcomes'["stale"] \in Nat
      BY <2>4 DEF Outcomes
    <3>3. QED BY <1>1, <1>2, <2>3, <2>4, <3>1, <3>2 DEF Accounted
  <2>6. TriggerShaped(hand', slot')
    BY <2>3
  <2>7. (sender' \in {"judging", "sending"}) <=> (hand' # NoTrigger)
    BY <2>3
  <2>8. QED BY <2>2, <2>3, <2>4, <2>5, <2>6, <2>7
<1>5. CASE Take
  <2>1. hand' = latest /\ latest' = NoTrigger /\ hand = NoTrigger /\ latest # NoTrigger
        /\ outcomes' = outcomes /\ triggered' = triggered /\ slot' = slot
        /\ sender' = "judging"
    BY <1>5 DEF Take, clockVars
  <2>2. Waiting(latest) = 1 /\ Waiting(hand) = 0 /\ Waiting(latest') = 0 /\ Waiting(hand') = 1
    BY <2>1 DEF Waiting
  <2>3. Accounted'
    BY <1>1, <1>2, <2>1, <2>2 DEF Accounted
  <2>4. QED BY <2>1, <2>3 DEF TriggerShaped
<1>6. ASSUME NEW o \in Outcomes, outcomes' = Counted(o), sender \in {"judging", "sending"},
             sender' = "checking", hand' = NoTrigger,
             UNCHANGED <<latest, triggered, slot>>
      PROVE  TriggerInv'
  <2>1. Waiting(hand) = 1 /\ Waiting(hand') = 0 /\ Waiting(latest') = Waiting(latest)
    BY <1>6 DEF Waiting
  <2>2. outcomes' \in [Outcomes -> Nat]
    BY <1>6, CountedSound
  <2>3. /\ outcomes'["sent"] \in Nat /\ outcomes'["failed"] \in Nat
        /\ outcomes'["skipped"] \in Nat /\ outcomes'["stale"] \in Nat
    BY <2>2 DEF Outcomes
  <2>4. Accounted'
    BY <1>1, <1>2, <1>6, <2>1, <2>3, CountedSound DEF Accounted
  <2>5. QED BY <1>6, <2>2, <2>4 DEF TriggerShaped
<1>7. CASE Refuse
  BY <1>6, <1>7 DEF Refuse, Refusal, Outcomes, clockVars
<1>8. CASE Succeed \/ Fail
  BY <1>6, <1>8 DEF Succeed, Fail, Outcomes, clockVars
<1>9. CASE Tick
  <2>1. /\ latest' = Aged(latest) /\ hand' = Aged(hand) /\ slot' \in {slot, slot + 1}
        /\ UNCHANGED <<sender, outcomes, triggered>>
    BY <1>9 DEF Tick
  <2>2. TriggerShaped(latest', slot') /\ Waiting(latest') = Waiting(latest)
    BY <2>1, AgedShaped
  <2>3. TriggerShaped(hand', slot') /\ Waiting(hand') = Waiting(hand)
    BY <2>1, AgedShaped
  <2>4. Accounted'
    BY <2>1, <2>2, <2>3 DEF Accounted
  <2>5. (hand' = NoTrigger) <=> (hand = NoTrigger)
    BY <2>3 DEF Waiting
  <2>6. QED BY <2>1, <2>2, <2>3, <2>4, <2>5
<1>10. ASSUME UNCHANGED <<latest, hand, outcomes, triggered, slot>>,
              sender' \in {"checking", "asleep", "judging", "sending", "done"},
              (sender' \in {"judging", "sending"}) <=> (sender \in {"judging", "sending"})
       PROVE  TriggerInv'
  BY <1>10 DEF Accounted
<1>11. CASE Leave \/ Sleep \/ Wake \/ Commit
  BY <1>10, <1>11 DEF Leave, Sleep, Wake, Commit, clockVars
<1>12. CASE \/ \E n \in away : Landed(n)
            \/ Ask \/ Refresh \/ Depart \/ Stop \/ UNCHANGED vars
  BY <1>10, <1>12 DEF Landed, Ask, Refresh, Depart, Stop, vars, senderVars, clockVars
<1>13. QED BY <1>4, <1>5, <1>7, <1>8, <1>9, <1>11, <1>12 DEF Next, SenderStep

\* Every trigger handed over ends in exactly one of the outcomes counted, or
\* is the one waiting or the one the sender deals with.
THEOREM TriggersAccounted == Spec => []Accounted
<1>1. TriggerInv => Accounted
  BY DEF TriggerInv
<1>2. QED BY <1>1, TriggerInit, TriggerStep, PTL DEF Spec

----------------------------------------------------------------------------
(* Fires.                                                                   *)

\* What the list holds was fired, oldest first, and never more than the cap.
Listing ==
  /\ fired \in Nat
  /\ pending \in Seq(1..fired)
  /\ Len(pending) <= MAX_PENDING
  /\ Spread(pending)

\* The histories run along with the nonces.
Histories ==
  /\ since \in Seq(0..(PENDING_TTL + 1)) /\ Len(since) = fired
  /\ answered \in Seq(Int) /\ Len(answered) = fired
  /\ cooling \in 0..COOLDOWN
  /\ away \subseteq 1..fired /\ seen \subseteq away
  /\ sender = "sending" => fired > 0

\* Every fire is listed or in one of the three counted places, and in one only.
Placed(listed, in, out, off) ==
  /\ listed \cup in \cup out \cup off = 1..fired
  /\ listed \cap in = {} /\ listed \cap out = {} /\ listed \cap off = {}
  /\ in \cap out = {} /\ in \cap off = {} /\ out \cap off = {}

FireInv == Listing /\ Histories /\ Placed(ToSet(pending), landed, lost, forgotten)

LEMMA OlderSound ==
  ASSUME NEW cap \in Nat, NEW age \in 0..cap
  PROVE  Older(age, cap) \in 0..cap
BY DEF Older

\* A list that grows holds no nonce twice.
LEMMA SpreadInjective ==
  ASSUME NEW f \in Nat, NEW list \in Seq(1..f), Spread(list)
  PROVE  IsInjective(list)
<1>1. DOMAIN list = 1..Len(list) /\ Len(list) \in Nat
      /\ \A i \in 1..Len(list) : list[i] \in 1..f
  BY LenProperties
<1>2. SUFFICES ASSUME NEW i \in DOMAIN list, NEW j \in DOMAIN list, list[i] = list[j], i # j
               PROVE  FALSE
  BY DEF IsInjective
<1>3. ASSUME NEW a \in 1..Len(list), NEW b \in 1..Len(list), list[a] = list[b], a < b
      PROVE  FALSE
  <2>1. list[b] - list[a] >= b - a
    BY <1>3 DEF Spread
  <2>2. list[a] \in Int
    BY <1>1, <1>3
  <2>3. list[b] - list[a] = 0
    BY <1>3, <2>2
  <2>4. QED BY <1>1, <1>3, <2>1, <2>3
<1>4. i \in 1..Len(list) /\ j \in 1..Len(list) /\ (i < j \/ j < i)
  BY <1>1, <1>2
<1>5. QED BY <1>2, <1>3, <1>4

\* Listing the next nonce keeps the list growing.
LEMMA AppendSpread ==
  ASSUME NEW f \in Nat, NEW list \in Seq(1..f), Spread(list)
  PROVE  LET grown == Append(list, f + 1) IN
         /\ grown \in Seq(1..(f + 1))
         /\ Len(grown) = Len(list) + 1
         /\ grown[Len(grown)] = f + 1
         /\ Spread(grown)
         /\ ToSet(grown) = ToSet(list) \cup {f + 1}
<1> DEFINE grown == Append(list, f + 1)
<1>1. Len(list) \in Nat /\ DOMAIN list = 1..Len(list)
      /\ \A i \in 1..Len(list) : list[i] \in 1..f
  BY LenProperties
<1>2. list \in Seq(1..(f + 1))
  <2>1. \A i \in 1..Len(list) : list[i] \in 1..(f + 1)
    BY <1>1
  <2>2. QED BY <1>1, <2>1
<1>3. /\ grown \in Seq(1..(f + 1))
      /\ Len(grown) = Len(list) + 1
      /\ \A i \in 1..Len(list) : grown[i] = list[i]
      /\ grown[Len(list) + 1] = f + 1
  BY <1>2, AppendProperties
<1> HIDE DEF grown
<1>4. DOMAIN grown = 1..(Len(list) + 1)
  BY <1>3, LenProperties
<1>5. \A i \in 1..Len(list) : f + 1 - list[i] >= Len(list) + 1 - i
  <2>1. CASE Len(list) = 0
    BY <2>1
  <2>2. CASE Len(list) > 0
    <3>1. SUFFICES ASSUME NEW i \in 1..Len(list)
                   PROVE  f + 1 - list[i] >= Len(list) + 1 - i
      OBVIOUS
    <3>2. Len(list) \in 1..Len(list)
      BY <1>1, <2>2
    <3> DEFINE a == list[i]  z == list[Len(list)]  len == Len(list)
    <3>3. a \in 1..f /\ z \in 1..f /\ len \in Nat /\ i \in 1..len
      BY <1>1, <3>2
    <3>4. i < len => z - a >= len - i
      BY <3>2 DEF Spread
    <3>5. i = len => z = a
      OBVIOUS
    <3> HIDE DEF a, z, len
    <3>6. f + 1 - a >= len + 1 - i
      BY <3>3, <3>4, <3>5
    <3>7. QED BY <3>6 DEF a, len
  <2>3. QED BY <1>1, <2>1, <2>2
<1>6. Spread(grown)
  <2>1. SUFFICES ASSUME NEW i \in 1..Len(grown), NEW j \in 1..Len(grown), i < j
                 PROVE  grown[j] - grown[i] >= j - i
    BY DEF Spread
  <2>2. i \in 1..Len(list) /\ grown[i] = list[i]
    <3>1. Len(list) \in Nat /\ Len(grown) = Len(list) + 1
      BY <1>1, <1>3
    <3>2. i \in 1..Len(list)
      BY <2>1, <3>1
    <3>3. QED BY <1>3, <3>2
  <2>3. CASE j = Len(list) + 1
    <3>1. grown[j] = f + 1
      BY <1>3, <2>3
    <3>2. f + 1 - list[i] >= j - i
      BY <1>5, <2>2, <2>3
    <3>3. QED BY <2>2, <3>1, <3>2
  <2>4. CASE j # Len(list) + 1
    <3>1. Len(list) \in Nat /\ Len(grown) = Len(list) + 1
      BY <1>1, <1>3
    <3>2. j \in 1..Len(list)
      BY <2>4, <3>1
    <3>3. grown[j] = list[j]
      BY <1>3, <3>2
    <3>4. list[j] - list[i] >= j - i
      BY <2>1, <2>2, <3>2 DEF Spread
    <3>5. QED BY <2>2, <3>3, <3>4
  <2>5. QED BY <2>3, <2>4
<1>7. ToSet(grown) = ToSet(list) \cup {f + 1}
  <2>1. ASSUME NEW m \in ToSet(grown) PROVE m \in ToSet(list) \cup {f + 1}
    <3>1. PICK i \in 1..(Len(list) + 1) : grown[i] = m
      BY <1>4 DEF ToSet
    <3>2. CASE i = Len(list) + 1
      BY <1>3, <3>1, <3>2
    <3>3. CASE i # Len(list) + 1
      <4>1. i \in 1..Len(list)
        BY <1>1, <3>1, <3>3
      <4>2. QED BY <1>1, <1>3, <3>1, <4>1 DEF ToSet
    <3>4. QED BY <3>2, <3>3
  <2>2. ASSUME NEW m \in ToSet(list) \cup {f + 1} PROVE m \in ToSet(grown)
    <3>1. CASE m = f + 1
      <4>1. Len(list) + 1 \in DOMAIN grown
        BY <1>1, <1>4
      <4>2. QED BY <1>3, <3>1, <4>1 DEF ToSet
    <3>2. CASE m \in ToSet(list)
      <4>1. PICK i \in 1..Len(list) : list[i] = m
        BY <1>1, <3>2 DEF ToSet
      <4>2. i \in DOMAIN grown /\ grown[i] = m
        BY <1>1, <1>3, <1>4, <4>1
      <4>3. QED BY <4>2 DEF ToSet
    <3>3. QED BY <2>2, <3>1, <3>2
  <2>3. QED BY <2>1, <2>2
<1>8. QED BY <1>3, <1>6, <1>7 DEF grown

\* Popping the oldest leaves the others, in order, and what was popped is what
\* is missing.
LEMMA PoppedSound ==
  ASSUME NEW f \in Nat, NEW list \in Seq(1..f), Spread(list), NEW k \in 0..Len(list)
  PROVE  LET rest   == SubSeq(list, k + 1, Len(list))
             popped == {list[j] : j \in 1..k} IN
         /\ rest \in Seq(1..f)
         /\ Len(rest) = Len(list) - k
         /\ Spread(rest)
         /\ ToSet(rest) \cup popped = ToSet(list)
         /\ ToSet(rest) \cap popped = {}
<1> DEFINE rest   == SubSeq(list, k + 1, Len(list))
           popped == {list[j] : j \in 1..k}
           len    == Len(list)
<1>1. len \in Nat /\ k \in 0..len /\ DOMAIN list = 1..len
      /\ \A i \in 1..len : list[i] \in 1..f
  BY LenProperties
<1>2. /\ rest \in Seq(1..f)
      /\ Len(rest) = IF k + 1 <= len THEN len - (k + 1) + 1 ELSE 0
      /\ \A i \in 1..(len - (k + 1) + 1) : rest[i] = list[(k + 1) + i - 1]
  <2>1. \A i \in (k + 1)..Len(list) : list[i] \in 1..f
    BY <1>1
  <2>2. QED BY <1>1, <2>1, SubSeqProperties
<1>3. \A a, b \in 1..len : a < b => list[b] - list[a] >= b - a
  BY DEF Spread
<1> HIDE DEF rest, len
<1>4. Len(rest) = len - k
  BY <1>1, <1>2
<1>5. \A i \in 1..(len - k) : k + i \in 1..len /\ rest[i] = list[k + i]
  <2>1. SUFFICES ASSUME NEW i \in 1..(len - k)
                 PROVE  k + i \in 1..len /\ rest[i] = list[k + i]
    OBVIOUS
  <2>2. i \in 1..(len - (k + 1) + 1) /\ (k + 1) + i - 1 = k + i /\ k + i \in 1..len
    BY <1>1
  <2>3. QED BY <1>2, <2>2
<1>6. DOMAIN rest = 1..(len - k)
  BY <1>2, <1>4, LenProperties
<1>7. Spread(rest)
  <2>1. SUFFICES ASSUME NEW i \in 1..Len(rest), NEW j \in 1..Len(rest), i < j
                 PROVE  rest[j] - rest[i] >= j - i
    BY DEF Spread
  <2>2. /\ k + i \in 1..len /\ k + j \in 1..len
        /\ rest[i] = list[k + i] /\ rest[j] = list[k + j]
    BY <1>4, <1>5
  <2>3. k + i < k + j /\ (k + j) - (k + i) = j - i
    BY <1>1, <2>1
  <2>4. QED BY <1>3, <2>2, <2>3
<1>8. \A a, b \in 1..len : list[a] = list[b] => a = b
  <2>1. SUFFICES ASSUME NEW a \in 1..len, NEW b \in 1..len, list[a] = list[b], a < b
                 PROVE  FALSE
    BY <1>1
  <2>2. list[b] - list[a] >= b - a /\ list[a] \in Int
    BY <1>1, <1>3, <2>1
  <2>3. list[b] - list[a] = 0
    BY <2>1, <2>2
  <2>4. QED BY <1>1, <2>1, <2>2, <2>3
<1>9. ToSet(rest) \cup popped = ToSet(list)
  <2>1. ASSUME NEW m \in ToSet(rest) PROVE m \in ToSet(list)
    <3>1. PICK i \in 1..(len - k) : rest[i] = m
      BY <1>6 DEF ToSet
    <3>2. k + i \in DOMAIN list /\ list[k + i] = m
      BY <1>1, <1>5, <3>1
    <3>3. QED BY <3>2 DEF ToSet
  <2>2. ASSUME NEW m \in popped PROVE m \in ToSet(list)
    <3>1. PICK j \in 1..k : list[j] = m
      OBVIOUS
    <3>2. j \in DOMAIN list
      BY <1>1
    <3>3. QED BY <3>1, <3>2 DEF ToSet
  <2>3. ASSUME NEW m \in ToSet(list) PROVE m \in ToSet(rest) \cup popped
    <3>1. PICK i \in 1..len : list[i] = m
      BY <1>1 DEF ToSet
    <3>2. CASE i <= k
      BY <1>1, <3>1, <3>2
    <3>3. CASE i > k
      <4>1. i - k \in 1..(len - k) /\ k + (i - k) = i
        BY <1>1, <3>1, <3>3
      <4>2. rest[i - k] = m /\ i - k \in DOMAIN rest
        BY <1>5, <1>6, <3>1, <4>1
      <4>3. QED BY <4>2 DEF ToSet
    <3>4. QED BY <1>1, <3>1, <3>2, <3>3
  <2>4. QED BY <2>1, <2>2, <2>3
<1>10. ToSet(rest) \cap popped = {}
  <2>1. SUFFICES ASSUME NEW m \in ToSet(rest), m \in popped PROVE FALSE
    OBVIOUS
  <2>2. PICK i \in 1..(len - k) : rest[i] = m
    BY <1>6, <2>1 DEF ToSet
  <2>3. PICK j \in 1..k : list[j] = m
    BY <2>1
  <2>4. k + i \in 1..len /\ j \in 1..len /\ list[k + i] = list[j] /\ k + i # j
    BY <1>1, <1>5, <2>2, <2>3
  <2>5. QED BY <1>8, <2>4
<1>11. QED BY <1>2, <1>4, <1>7, <1>9, <1>10 DEF rest, len

\* What moves from the list to one of the places leaves every fire in one.
LEMMA PlacedMoves ==
  ASSUME NEW listed, NEW in, NEW out, NEW off, Placed(listed, in, out, off), NEW S,
         S \subseteq listed
  PROVE  /\ Placed(listed \ S, in \cup S, out, off)
         /\ Placed(listed \ S, in, out \cup S, off)
         /\ Placed(listed \ S, in, out, off \cup S)
<1>1. (listed \ S) \cup S = listed
  OBVIOUS
<1>2. /\ (listed \ S) \cup (in \cup S) \cup out \cup off = 1..fired
      /\ (listed \ S) \cup in \cup (out \cup S) \cup off = 1..fired
      /\ (listed \ S) \cup in \cup out \cup (off \cup S) = 1..fired
  <2> DEFINE all == 1..fired
  <2>1. listed \cup in \cup out \cup off = all
    BY DEF Placed
  <2> HIDE DEF all
  <2>2. (listed \ S) \cup (in \cup S) \cup out \cup off = all
    BY <2>1
  <2>3. (listed \ S) \cup in \cup (out \cup S) \cup off = all
    BY <2>1
  <2>4. (listed \ S) \cup in \cup out \cup (off \cup S) = all
    BY <2>1
  <2>5. QED BY <2>2, <2>3, <2>4 DEF all
<1>3. /\ listed \cap in = {} /\ listed \cap out = {} /\ listed \cap off = {}
      /\ in \cap out = {} /\ in \cap off = {} /\ out \cap off = {}
  BY DEF Placed
<1>4. /\ (listed \ S) \cap S = {} /\ (listed \ S) \cap in = {}
      /\ (listed \ S) \cap out = {} /\ (listed \ S) \cap off = {}
      /\ S \cap in = {} /\ S \cap out = {} /\ S \cap off = {}
  BY <1>3
<1>5. Placed(listed \ S, in \cup S, out, off)
  <2>1. /\ (listed \ S) \cap (in \cup S) = {}
        /\ (in \cup S) \cap out = {} /\ (in \cup S) \cap off = {}
    BY <1>3, <1>4
  <2>2. QED BY <1>2, <1>3, <1>4, <2>1 DEF Placed
<1>6. Placed(listed \ S, in, out \cup S, off)
  <2>1. /\ (listed \ S) \cap (out \cup S) = {}
        /\ in \cap (out \cup S) = {} /\ (out \cup S) \cap off = {}
    BY <1>3, <1>4
  <2>2. QED BY <1>2, <1>3, <1>4, <2>1 DEF Placed
<1>7. Placed(listed \ S, in, out, off \cup S)
  <2>1. /\ (listed \ S) \cap (off \cup S) = {}
        /\ in \cap (off \cup S) = {} /\ out \cap (off \cup S) = {}
    BY <1>3, <1>4
  <2>2. QED BY <1>2, <1>3, <1>4, <2>1 DEF Placed
<1>8. QED BY <1>5, <1>6, <1>7

\* Taking one nonce off the list, if it is on it, into one of the places.
LEMMA UnlistedMoves ==
  ASSUME FireInv, NEW n
  PROVE  LET list == Unlisted(pending, n)
             gone == {n} \cap ToSet(pending) IN
         /\ list \in Seq(1..fired) /\ Len(list) <= MAX_PENDING /\ Spread(list)
         /\ Placed(ToSet(list), landed \cup gone, lost, forgotten)
         /\ Placed(ToSet(list), landed, lost, forgotten \cup gone)
<1> DEFINE list == Unlisted(pending, n)
           gone == {n} \cap ToSet(pending)
<1>1. fired \in Nat /\ pending \in Seq(1..fired) /\ Len(pending) <= MAX_PENDING
      /\ Spread(pending) /\ Placed(ToSet(pending), landed, lost, forgotten)
  BY DEF FireInv, Listing
<1>2. /\ list \in Seq(1..fired) /\ Len(list) <= Len(pending) /\ Spread(list)
      /\ ToSet(list) = ToSet(pending) \ {n}
  BY <1>1, UnlistedSound
<1> HIDE DEF list
<1>3. Len(list) <= MAX_PENDING
  BY <1>1, <1>2, LenProperties, FireAssumption
<1>4. ToSet(list) = ToSet(pending) \ gone /\ gone \subseteq ToSet(pending)
  BY <1>2
<1> HIDE DEF gone
<1>5. /\ Placed(ToSet(list), landed \cup gone, lost, forgotten)
      /\ Placed(ToSet(list), landed, lost, forgotten \cup gone)
  <2> DEFINE listed == ToSet(pending)
  <2>1. Placed(listed, landed, lost, forgotten) /\ gone \subseteq listed
    BY <1>1, <1>4
  <2> HIDE DEF listed
  <2>2. /\ Placed(listed \ gone, landed \cup gone, lost, forgotten)
        /\ Placed(listed \ gone, landed, lost, forgotten \cup gone)
    BY <2>1, PlacedMoves
  <2>3. QED BY <1>4, <2>2 DEF listed
<1>6. QED BY <1>2, <1>3, <1>5 DEF list, gone

LEMMA FireInit == Init => FireInv
<1> SUFFICES ASSUME Init PROVE FireInv
  OBVIOUS
<1>1. /\ pending = <<>> /\ fired = 0 /\ since = <<>> /\ answered = <<>>
      /\ landed = {} /\ lost = {} /\ forgotten = {} /\ away = {} /\ seen = {}
      /\ cooling = COOLDOWN /\ sender = "checking"
  BY DEF Init
<1>2. Listing
  BY <1>1, EmptySeq, FireAssumption DEF Listing, Spread
<1>3. Histories
  BY <1>1, EmptySeq, FireAssumption DEF Histories
<1>4. ToSet(pending) = {} /\ 1..fired = {}
  BY <1>1 DEF ToSet
<1>5. Placed(ToSet(pending), landed, lost, forgotten)
  BY <1>1, <1>4 DEF Placed
<1>6. QED BY <1>2, <1>3, <1>5 DEF FireInv

\* Committing a fire lists it, and moves what is popped to the lost.
LEMMA CommitSound ==
  ASSUME TriggerInv, FireInv, Commit
  PROVE  /\ FireInv'
         /\ fired' = fired + 1 /\ cooling' = 0 /\ since' = Append(since, 0)
         /\ UNCHANGED <<landed, forgotten, away, seen>>
         /\ \A m \in lost' \ lost :
              \/ fired + 1 - m >= MAX_PENDING
              \/ ~(since'[m] <= PENDING_TTL)
         /\ lost \subseteq lost'
<1> DEFINE list == Append(pending, fired + 1)
           ages == Append(since, 0)
           k    == WrittenOff(list, ages)
           popped == {list[j] : j \in 1..k}
<1>1. /\ sender' = "sending" /\ fired' = fired + 1 /\ cooling' = 0
      /\ answered' = Append(answered, hand.slot) /\ since' = ages
      /\ pending' = SubSeq(list, k + 1, Len(list))
      /\ lost' = lost \cup popped
      /\ landed' = landed /\ forgotten' = forgotten /\ away' = away /\ seen' = seen
  BY DEF Commit, clusterVars
<1>2. /\ fired \in Nat /\ pending \in Seq(1..fired) /\ Spread(pending)
      /\ Placed(ToSet(pending), landed, lost, forgotten)
      /\ since \in Seq(0..(PENDING_TTL + 1)) /\ Len(since) = fired
      /\ answered \in Seq(Int) /\ Len(answered) = fired
      /\ away \subseteq 1..fired /\ seen \subseteq away
  BY DEF FireInv, Listing, Histories
<1>3. /\ list \in Seq(1..(fired + 1)) /\ Len(list) = Len(pending) + 1
      /\ list[Len(list)] = fired + 1 /\ Spread(list)
      /\ ToSet(list) = ToSet(pending) \cup {fired + 1}
  BY <1>2, AppendSpread
<1> HIDE DEF list
<1>4. Len(list) \in Nat
  BY <1>3, LenProperties
<1>5. /\ k \in 0..Len(list) /\ Len(list) - k <= MAX_PENDING
      /\ \A j \in 1..k : \/ Len(list) - j >= MAX_PENDING
                         \/ ~(ages[list[j]] <= PENDING_TTL)
  <2> HIDE DEF ages
  <2>1. QED BY <1>4, WrittenOffSound
<1> HIDE DEF k
<1>6. fired + 1 \in Nat
  BY <1>2
<1>7. /\ pending' \in Seq(1..(fired + 1)) /\ Len(pending') = Len(list) - k
      /\ Spread(pending')
      /\ ToSet(pending') \cup popped = ToSet(list)
      /\ ToSet(pending') \cap popped = {}
  BY <1>1, <1>3, <1>5, <1>6, PoppedSound
<1>8. Listing'
  BY <1>1, <1>5, <1>6, <1>7 DEF Listing
<1>9. Histories'
  <2>1. ages \in Seq(0..(PENDING_TTL + 1)) /\ Len(ages) = fired + 1
    <3>1. 0 \in 0..(PENDING_TTL + 1)
      BY FireAssumption
    <3>2. QED BY <1>2, <3>1, AppendProperties
  <2>2. answered' \in Seq(Int) /\ Len(answered') = fired + 1
    <3>1. hand.slot \in Int
      <4>1. CASE hand = NoTrigger
        BY <4>1 DEF NoTrigger
      <4>2. CASE hand # NoTrigger
        BY <4>2 DEF TriggerInv, TriggerShaped
      <4>3. QED BY <4>1, <4>2
    <3>2. QED BY <1>1, <1>2, <3>1, AppendProperties
  <2>3. away' \subseteq 1..fired' /\ fired' > 0
    BY <1>1, <1>2
  <2>4. QED BY <1>1, <1>2, <2>1, <2>2, <2>3, FireAssumption DEF Histories
<1>10. Placed(ToSet(pending), landed, lost, forgotten)'
  <2> DEFINE all == 1..fired
             more == 1..(fired + 1)
             listed == ToSet(list)
             before == ToSet(pending)
             after == ToSet(pending')
  <2>1. /\ before \cup landed \cup lost \cup forgotten = all
        /\ before \cap landed = {} /\ before \cap lost = {} /\ before \cap forgotten = {}
        /\ landed \cap lost = {} /\ landed \cap forgotten = {} /\ lost \cap forgotten = {}
    BY <1>2 DEF Placed
  <2>2. more = all \cup {fired + 1} /\ fired + 1 \notin all
    <3>1. fired \in Nat
      BY <1>2
    <3>2. \A x : x \in 1..(fired + 1) <=> x \in 1..fired \/ x = fired + 1
      BY <3>1
    <3>3. fired + 1 \notin 1..fired
      BY <3>1
    <3>4. QED BY <3>2, <3>3
  <2>3. listed = before \cup {fired + 1} /\ after \cup popped = listed /\ after \cap popped = {}
    BY <1>3, <1>7
  <2> HIDE DEF all, more, listed, before, after, popped
  <2> DEFINE n == fired + 1
  <2> HIDE DEF n
  <2>4. more = all \cup {n} /\ n \notin all /\ listed = before \cup {n}
    BY <2>2, <2>3 DEF n
  <2>5. n \notin landed /\ n \notin lost /\ n \notin forgotten
    BY <2>1, <2>4
  <2>6. /\ listed \cap landed = {} /\ listed \cap lost = {} /\ listed \cap forgotten = {}
        /\ listed \cup landed \cup lost \cup forgotten = more
    BY <2>1, <2>4, <2>5
  <2>7. after \subseteq listed /\ popped \subseteq listed
    BY <2>3
  <2>8. /\ after \cap landed = {} /\ after \cap (lost \cup popped) = {}
        /\ after \cap forgotten = {} /\ landed \cap (lost \cup popped) = {}
        /\ (lost \cup popped) \cap forgotten = {}
    BY <2>1, <2>3, <2>6, <2>7
  <2>9. after \cup landed \cup (lost \cup popped) \cup forgotten = more
    BY <2>3, <2>6
  <2>10. QED BY <1>1, <2>1, <2>8, <2>9 DEF Placed, after, more
<1>11. ASSUME NEW m \in lost' \ lost
       PROVE  fired + 1 - m >= MAX_PENDING \/ ~(ages[m] <= PENDING_TTL)
  <2>1. PICK j \in 1..k : m = list[j]
    BY <1>1, <1>11
  <2>2. CASE ~(ages[list[j]] <= PENDING_TTL)
    BY <2>1, <2>2
  <2>3. CASE Len(list) - j >= MAX_PENDING
    <3> DEFINE a == list[j]  z == list[Len(list)]  len == Len(list)
    <3>1. j \in 1..len /\ len \in 1..len /\ len \in Nat
      BY <1>4, <1>5
    <3>2. a \in 1..(fired + 1) /\ z = fired + 1 /\ j < len
      <4>1. a \in 1..(fired + 1)
        BY <1>3, <3>1, LenProperties
      <4>2. j < len
        <5>1. len - j >= MAX_PENDING /\ MAX_PENDING >= 1 /\ MAX_PENDING \in Nat
          BY <2>3, FireAssumption
        <5> HIDE DEF len
        <5>2. QED BY <3>1, <5>1
      <4>3. QED BY <1>3, <4>1, <4>2
    <3>3. z - a >= len - j
      BY <1>3, <3>1, <3>2 DEF Spread
    <3>4. len - j >= MAX_PENDING
      BY <2>3
    <3> HIDE DEF a, z, len
    <3>5. fired + 1 - a >= MAX_PENDING
      BY <1>2, <3>1, <3>2, <3>3, <3>4, FireAssumption
    <3>6. QED BY <2>1, <3>5 DEF a
  <2>4. QED BY <1>5, <2>2, <2>3
<1>12. FireInv'
  BY <1>1, <1>8, <1>9, <1>10 DEF FireInv, Placed
<1>13. QED BY <1>1, <1>11, <1>12

LEMMA FireStep == TriggerInv /\ FireInv /\ [Next]_vars => FireInv'
<1> SUFFICES ASSUME TriggerInv, FireInv, [Next]_vars PROVE FireInv'
  OBVIOUS
<1>1. Listing /\ Histories /\ Placed(ToSet(pending), landed, lost, forgotten)
  BY DEF FireInv
<1>2. ASSUME UNCHANGED <<pending, fired, since, answered, cooling, away, landed, lost, forgotten>>,
             seen' \subseteq away, sender' = "sending" => sender = "sending"
      PROVE  FireInv'
  <2>1. Listing'
    BY <1>1, <1>2 DEF Listing
  <2>2. Histories'
    BY <1>1, <1>2 DEF Histories
  <2>3. Placed(ToSet(pending), landed, lost, forgotten)'
    BY <1>1, <1>2 DEF Placed
  <2>4. QED BY <2>1, <2>2, <2>3 DEF FireInv
<1>3. ASSUME NEW of, Trigger(of) PROVE FireInv'
  BY <1>1, <1>2, <1>3 DEF Trigger, sentVars, clusterVars, Histories
<1>4. ASSUME NEW n \in away, Landed(n) PROVE FireInv'
  <2>1. /\ pending' = Unlisted(pending, n)
        /\ landed' = landed \cup ({n} \cap ToSet(pending))
        /\ lost' = lost /\ forgotten' = forgotten /\ fired' = fired
        /\ seen' = seen \cup {n}
        /\ UNCHANGED <<since, answered, cooling, away, sender>>
    BY <1>4 DEF Landed, senderVars
  <2>2. /\ pending' \in Seq(1..fired) /\ Len(pending') <= MAX_PENDING /\ Spread(pending')
        /\ Placed(ToSet(pending'), landed', lost', forgotten')
    BY <2>1, UnlistedMoves
  <2>3. Histories'
    BY <1>1, <1>4, <2>1 DEF Histories
  <2>4. QED BY <1>1, <2>1, <2>2, <2>3 DEF FireInv, Listing, Placed
<1>5. CASE Take \/ Leave \/ Sleep \/ Wake \/ Refuse
  BY <1>1, <1>2, <1>5 DEF Take, Leave, Sleep, Wake, Refuse, sentVars, clusterVars, Histories
<1>6. CASE Commit
  BY <1>6, CommitSound
<1>7. CASE Succeed
  BY <1>1, <1>2, <1>7 DEF Succeed, sentVars, clusterVars, Histories
<1>8. CASE Fail
  <2>1. /\ pending' = Unlisted(pending, fired)
        /\ forgotten' = forgotten \cup ({fired} \cap ToSet(pending))
        /\ lost' = lost /\ landed' = landed /\ fired' = fired
        /\ sender' = "checking"
        /\ UNCHANGED <<since, answered, cooling, away, seen>>
    BY <1>8 DEF Fail, clusterVars
  <2>2. /\ pending' \in Seq(1..fired) /\ Len(pending') <= MAX_PENDING /\ Spread(pending')
        /\ Placed(ToSet(pending'), landed', lost', forgotten')
    BY <2>1, UnlistedMoves
  <2>3. Histories'
    BY <1>1, <2>1 DEF Histories
  <2>4. QED BY <1>1, <2>1, <2>2, <2>3 DEF FireInv, Listing, Placed
<1>9. CASE Ask \/ Refresh \/ Stop
  BY <1>1, <1>2, <1>9 DEF Ask, Refresh, Stop, senderVars, sentVars, clusterVars, Histories
<1>10. CASE Depart
  <2>1. /\ UNCHANGED <<pending, fired, since, answered, cooling, seen, landed, lost, forgotten,
                       sender>>
        /\ away' = away \cup {fired} /\ sender = "sending"
    BY <1>10 DEF Depart, senderVars, sentVars
  <2>2. fired \in 1..fired
    BY <1>1, <2>1 DEF Listing, Histories
  <2>3. Listing'
    BY <1>1, <2>1 DEF Listing
  <2>4. Histories'
    BY <1>1, <2>1, <2>2 DEF Histories
  <2>5. QED BY <1>1, <2>1, <2>3, <2>4 DEF FireInv, Placed
<1>11. CASE Tick
  <2>1. /\ UNCHANGED <<pending, fired, answered, away, seen, landed, lost, forgotten, sender>>
        /\ cooling' = Older(cooling, COOLDOWN)
        /\ since' = [n \in DOMAIN since |-> Older(since[n], PENDING_TTL + 1)]
    BY <1>11 DEF Tick, clusterVars
  <2>2. DOMAIN since = 1..fired /\ \A n \in 1..fired : since[n] \in 0..(PENDING_TTL + 1)
    BY <1>1, LenProperties DEF Histories
  <2>3. PENDING_TTL + 1 \in Nat /\ COOLDOWN \in Nat
    BY FireAssumption
  <2>4. \A n \in 1..fired : Older(since[n], PENDING_TTL + 1) \in 0..(PENDING_TTL + 1)
    BY <2>2, <2>3, OlderSound
  <2>5. since' \in Seq(0..(PENDING_TTL + 1)) /\ Len(since') = fired
    <3>1. since' \in [1..fired -> 0..(PENDING_TTL + 1)]
      BY <2>1, <2>2, <2>4
    <3>2. fired \in Nat
      BY <1>1 DEF Listing
    <3>3. since' \in Seq(0..(PENDING_TTL + 1))
      <4> DEFINE S == 0..(PENDING_TTL + 1)
      <4>1. since' \in [1..fired -> S]
        BY <3>1
      <4> HIDE DEF S
      <4>2. since' \in UNION {[1..n -> S] : n \in Nat}
        BY <3>2, <4>1, Zenon
      <4>3. since' \in Seq(S)
        BY <4>2, SeqDef, Zenon
      <4>4. QED BY <4>3 DEF S
    <3>4. DOMAIN since' = 1..fired /\ DOMAIN since' = 1..Len(since') /\ Len(since') \in Nat
      BY <3>1, <3>3, LenProperties
    <3>5. QED BY <3>2, <3>3, <3>4
  <2>6. cooling' \in 0..COOLDOWN
    BY <1>1, <2>1, <2>3, OlderSound DEF Histories
  <2>7. Listing'
    BY <1>1, <2>1 DEF Listing
  <2>8. Histories'
    BY <1>1, <2>1, <2>5, <2>6 DEF Histories
  <2>9. QED BY <1>1, <2>1, <2>7, <2>8 DEF FireInv, Placed
<1>12. CASE UNCHANGED vars
  BY <1>1, <1>2, <1>12 DEF vars, senderVars, sentVars, clusterVars, Histories
<1>13. QED
  BY <1>3, <1>4, <1>5, <1>6, <1>7, <1>8, <1>9, <1>10, <1>11, <1>12 DEF Next, SenderStep

LEMMA FireInvariant == Spec => [](TriggerInv /\ FireInv)
BY TriggerInit, TriggerStep, FireInit, FireStep, PTL DEF Spec

\* Type correctness of firing.
THEOREM FireTyped == Spec => []TypeOK
<1>1. TriggerInv /\ FireInv => TypeOK
  <2> SUFFICES ASSUME TriggerInv, FireInv PROVE TypeOK
    OBVIOUS
  <2>1. ASSUME NEW trigger, TriggerShaped(trigger, slot)
        PROVE  trigger.age \in 0..(MAX_TRIGGER_AGE + 1) /\ trigger.slot \in {-1} \cup 0..slot
    <3>1. CASE trigger = NoTrigger
      BY <3>1, FireAssumption DEF NoTrigger
    <3>2. CASE trigger # NoTrigger
      BY <2>1, <3>2 DEF TriggerShaped
    <3>3. QED BY <3>1, <3>2
  <2>2. QED BY <2>1 DEF TypeOK, TriggerInv, FireInv, Listing, Histories
<1>2. QED BY <1>1, FireInvariant, PTL

\* Every fire is in exactly one of the places, whichever of its landing, its
\* send's return and its being written off came first.
THEOREM EveryFireAccounted == Spec => []FiresAccounted
<1>1. FireInv => FiresAccounted
  <2> SUFFICES ASSUME FireInv PROVE FiresAccounted
    OBVIOUS
  <2>1. IsInjective(pending)
    BY SpreadInjective DEF FireInv, Listing
  <2>2. QED BY <2>1 DEF FireInv, Placed, FiresAccounted
<1>2. QED BY <1>1, FireInvariant, PTL

----------------------------------------------------------------------------
(* Landings.                                                                *)

\* Two fires are a cooldown apart for every nonce between them, as long as the
\* age of the older is told; and the last is at least as old as the cooldown
\* has run.
Spacing ==
  /\ \A m, n \in 1..fired : m < n =>
       \/ since[m] >= since[n] + (n - m) * COOLDOWN
       \/ since[m] = PENDING_TTL + 1
  /\ fired > 0 => since[fired] >= cooling \/ since[fired] = PENDING_TTL + 1

\* The list is long enough for what the cooldown lets through.
Ample == MAX_PENDING * COOLDOWN > VALIDITY /\ PENDING_TTL >= VALIDITY

\* A fire written off can no longer land, and none that did was missed.
LandingInv ==
  Ample =>
    /\ \A n \in lost : since[n] > VALIDITY
    /\ seen \subseteq landed \cup forgotten

\* What the two invariants say of ages and places, by name.
LEMMA FireFacts ==
  ASSUME FireInv
  PROVE  /\ fired \in Nat
         /\ \A n \in 1..fired : since[n] \in 0..(PENDING_TTL + 1)
         /\ DOMAIN since = 1..fired
         /\ cooling \in 0..COOLDOWN
         /\ lost \subseteq 1..fired
         /\ away \subseteq 1..fired
         /\ ToSet(pending) \cup landed \cup lost \cup forgotten = 1..fired
BY LenProperties DEF FireInv, Listing, Histories, Placed

\* The sender fires only once the cooldown is over.
LEMMA CommitCooled ==
  ASSUME TriggerInv, FireInv, Commit
  PROVE  cooling = COOLDOWN
<1>1. hand # NoTrigger
  BY DEF Commit, TriggerInv
<1>2. hand.age \in Int /\ MAX_TRIGGER_AGE \in Int
  BY <1>1, FireAssumption DEF TriggerInv, TriggerShaped
<1>3. Refusal = "none"
  BY DEF Commit
<1>4. ~(hand.age > MAX_TRIGGER_AGE) => hand.age <= MAX_TRIGGER_AGE
  BY <1>2
<1>5. hand.age <= MAX_TRIGGER_AGE => ~(hand.age > MAX_TRIGGER_AGE)
  BY <1>2
<1>6. ~CoolingDown
  <2>1. SUFFICES ASSUME CoolingDown PROVE FALSE
    OBVIOUS
  <2>2. CASE hand.age > MAX_TRIGGER_AGE
    <3>1. Refusal = "stale"
      BY <1>5, <2>2, Zenon DEF Refusal
    <3>2. QED BY <1>3, <3>1
  <2>3. CASE ~(hand.age > MAX_TRIGGER_AGE)
    <3>1. Refusal = "skipped"
      BY <1>4, <2>1, <2>3, Zenon DEF Refusal
    <3>2. QED BY <1>3, <3>1
  <2>4. QED BY <2>2, <2>3
<1>7. cooling \in 0..COOLDOWN /\ COOLDOWN \in Nat
  BY FireAssumption DEF FireInv, Histories
<1>8. QED BY <1>6, <1>7 DEF CoolingDown

LEMMA SpacingStep == TriggerInv /\ FireInv /\ Spacing /\ [Next]_vars => Spacing'
<1> SUFFICES ASSUME TriggerInv, FireInv, Spacing, [Next]_vars PROVE Spacing'
  OBVIOUS
<1> USE FireFacts
<1>1. COOLDOWN \in Nat /\ PENDING_TTL \in Nat
  BY FireAssumption
<1>2. ASSUME UNCHANGED <<since, fired, cooling>> PROVE Spacing'
  BY <1>2 DEF Spacing
<1>3. CASE Commit
  <2>1. fired' = fired + 1 /\ cooling' = 0 /\ since' = Append(since, 0)
    BY <1>3, CommitSound
  <2>2. /\ since'[fired + 1] = 0
        /\ \A n \in 1..fired : since'[n] = since[n]
    BY <2>1, AppendProperties DEF FireInv, Listing, Histories
  <2>3. cooling = COOLDOWN
    BY <1>3, CommitCooled
  <2>4. ASSUME NEW m \in 1..fired', NEW n \in 1..fired', m < n
        PROVE  \/ since'[m] >= since'[n] + (n - m) * COOLDOWN
               \/ since'[m] = PENDING_TTL + 1
    <3>1. m \in 1..fired /\ since'[m] = since[m]
      BY <2>1, <2>2, <2>4
    <3>2. CASE n \in 1..fired
      BY <2>2, <2>4, <3>1, <3>2 DEF Spacing
    <3>3. CASE n = fired + 1
      <4> DEFINE a == since[m]  z == since[fired]
      <4>1. fired \in 1..fired /\ a \in 0..(PENDING_TTL + 1) /\ z \in 0..(PENDING_TTL + 1)
        BY <3>1
      <4>2. z >= COOLDOWN \/ z = PENDING_TTL + 1
        BY <2>3, <4>1 DEF Spacing
      <4>3. m = fired \/ a >= z + (fired - m) * COOLDOWN \/ a = PENDING_TTL + 1
        BY <3>1, <4>1 DEF Spacing
      <4>4. m = fired => a = z
        OBVIOUS
      <4>5. (n - m) * COOLDOWN = (fired - m) * COOLDOWN + COOLDOWN
            /\ (fired - m) * COOLDOWN \in Nat
        BY <1>1, <3>1, <3>3
      <4> DEFINE gap == (fired - m) * COOLDOWN
      <4>6. m = fired => gap = 0
        BY <1>1
      <4> HIDE DEF a, z, gap
      <4>7. a >= gap + COOLDOWN \/ a = PENDING_TTL + 1
        BY <1>1, <4>1, <4>2, <4>3, <4>4, <4>5, <4>6 DEF gap
      <4>8. (n - m) * COOLDOWN = gap + COOLDOWN
        BY <4>5 DEF gap
      <4>9. since'[n] = 0 /\ since'[m] = a
        BY <2>2, <3>1, <3>3 DEF a
      <4>10. 0 + (gap + COOLDOWN) = gap + COOLDOWN
        BY <1>1, <4>5 DEF gap
      <4>11. QED BY <4>7, <4>8, <4>9, <4>10
    <3>4. QED BY <2>1, <3>2, <3>3
  <2>5. fired' > 0 => since'[fired'] >= cooling' \/ since'[fired'] = PENDING_TTL + 1
    BY <2>1, <2>2
  <2>6. QED BY <2>4, <2>5 DEF Spacing
<1>4. CASE Tick
  <2>1. /\ fired' = fired /\ cooling' = Older(cooling, COOLDOWN)
        /\ since' = [n \in DOMAIN since |-> Older(since[n], PENDING_TTL + 1)]
    BY <1>4 DEF Tick
  <2>2. \A n \in 1..fired : since'[n] = Older(since[n], PENDING_TTL + 1)
    BY <2>1
  <2>3. ASSUME NEW m \in 1..fired', NEW n \in 1..fired', m < n
        PROVE  \/ since'[m] >= since'[n] + (n - m) * COOLDOWN
               \/ since'[m] = PENDING_TTL + 1
    <3> DEFINE gap == (n - m) * COOLDOWN
    <3>1. m \in 1..fired /\ n \in 1..fired
      BY <2>1
    <3>2. gap \in Nat
      BY <1>1, <2>3, <3>1
    <3>3. since[m] >= since[n] + gap \/ since[m] = PENDING_TTL + 1
      BY <2>3, <3>1 DEF Spacing
    <3> HIDE DEF gap
    <3>4. Older(since[m], PENDING_TTL + 1) >= Older(since[n], PENDING_TTL + 1) + gap
          \/ Older(since[m], PENDING_TTL + 1) = PENDING_TTL + 1
      BY <1>1, <3>1, <3>2, <3>3 DEF Older
    <3>5. QED BY <2>2, <3>1, <3>4 DEF gap
  <2>4. fired' > 0 => since'[fired'] >= cooling' \/ since'[fired'] = PENDING_TTL + 1
    <3>1. SUFFICES ASSUME fired > 0
                   PROVE  since'[fired] >= cooling' \/ since'[fired] = PENDING_TTL + 1
      BY <2>1
    <3>2. fired \in 1..fired
      BY <3>1
    <3>3. since[fired] >= cooling \/ since[fired] = PENDING_TTL + 1
      BY <3>1 DEF Spacing
    <3>4. QED BY <1>1, <2>1, <2>2, <3>2, <3>3 DEF Older
  <2>5. QED BY <2>3, <2>4 DEF Spacing
<1>5. ASSUME NEW of, Trigger(of) PROVE Spacing'
  BY <1>2, <1>5 DEF Trigger, sentVars
<1>6. ASSUME NEW n, Landed(n) PROVE Spacing'
  BY <1>2, <1>6 DEF Landed, senderVars
<1>7. CASE Take \/ Leave \/ Sleep \/ Wake \/ Refuse \/ Succeed \/ Fail
  BY <1>2, <1>7 DEF Take, Leave, Sleep, Wake, Refuse, Succeed, Fail, sentVars
<1>8. CASE Ask \/ Refresh \/ Depart \/ Stop \/ UNCHANGED vars
  BY <1>2, <1>8 DEF Ask, Refresh, Depart, Stop, vars, senderVars, sentVars
<1>9. QED
  BY <1>3, <1>4, <1>5, <1>6, <1>7, <1>8 DEF Next, SenderStep

LEMMA LandingStep ==
  TriggerInv /\ FireInv /\ Spacing /\ LandingInv /\ [Next]_vars /\ FireInv' /\ Spacing'
    => LandingInv'
<1> SUFFICES ASSUME TriggerInv, FireInv, Spacing, LandingInv, [Next]_vars, FireInv',
                    Spacing', Ample
             PROVE  /\ \A n \in lost' : since'[n] > VALIDITY
                    /\ seen' \subseteq landed' \cup forgotten'
  BY DEF LandingInv, Ample
<1>1. /\ COOLDOWN \in Nat /\ PENDING_TTL \in Nat /\ VALIDITY \in Nat /\ MAX_PENDING \in Nat
  BY FireAssumption
<1>2. /\ \A n \in lost : since[n] > VALIDITY
      /\ seen \subseteq landed \cup forgotten
  BY DEF LandingInv
<1>3. MAX_PENDING * COOLDOWN > VALIDITY /\ PENDING_TTL >= VALIDITY
  BY DEF Ample
<1>4. CASE UNCHANGED <<lost, since, seen, landed>> /\ forgotten \subseteq forgotten'
  BY <1>2, <1>4
<1>5. ASSUME NEW n \in away, Landed(n)
      PROVE  /\ \A m \in lost' : since'[m] > VALIDITY
             /\ seen' \subseteq landed' \cup forgotten'
  <2>1. /\ since[n] <= VALIDITY /\ seen' = seen \cup {n}
        /\ landed' = landed \cup ({n} \cap ToSet(pending))
        /\ lost' = lost /\ forgotten' = forgotten /\ since' = since
    BY <1>5 DEF Landed
  <2>2. n \in 1..fired /\ since[n] \in Int
    BY FireFacts
  <2>3. n \notin lost
    BY <1>1, <1>2, <2>1, <2>2
  <2>4. n \in ToSet(pending) \cup landed \cup forgotten
    BY <2>2, <2>3, FireFacts
  <2>5. QED BY <1>2, <2>1, <2>4
<1>6. CASE Commit
  <2>1. /\ fired' = fired + 1 /\ since' = Append(since, 0)
        /\ UNCHANGED <<landed, forgotten, seen>>
        /\ \A m \in lost' \ lost :
             fired + 1 - m >= MAX_PENDING \/ ~(since'[m] <= PENDING_TTL)
    BY <1>6, CommitSound
  <2>2. /\ fired \in Nat /\ lost \subseteq 1..fired /\ lost' \subseteq 1..fired'
        /\ \A m \in 1..fired' : since'[m] \in 0..(PENDING_TTL + 1)
    <3>1. fired \in Nat /\ lost \subseteq 1..fired
      BY FireFacts
    <3>2. lost' \subseteq 1..fired'
      BY DEF FireInv, Placed
    <3>3. since' \in Seq(0..(PENDING_TTL + 1)) /\ Len(since') = fired'
      BY DEF FireInv, Histories
    <3>4. \A m \in 1..fired' : since'[m] \in 0..(PENDING_TTL + 1)
      BY <3>3, LenProperties
    <3>5. QED BY <3>1, <3>2, <3>4
  <2>3. /\ since'[fired + 1] = 0 /\ \A m \in 1..fired : since'[m] = since[m]
    BY <2>1, AppendProperties DEF FireInv, Listing, Histories
  <2>4. ASSUME NEW m \in lost' PROVE since'[m] > VALIDITY
    <3>1. CASE m \in lost
      BY <1>2, <2>2, <2>3, <3>1
    <3>2. CASE ~(since'[m] <= PENDING_TTL)
      BY <1>1, <1>3, <2>2, <2>4, <3>2
    <3>3. CASE fired + 1 - m >= MAX_PENDING
      <4>1. m \in 1..(fired + 1) /\ fired + 1 \in 1..(fired + 1) /\ m < fired + 1
        BY <2>1, <2>2, <2>4, <3>3, FireAssumption
      <4>2. since'[m] >= 0 + ((fired + 1) - m) * COOLDOWN \/ since'[m] = PENDING_TTL + 1
        <5>1. \A i, j \in 1..fired' : i < j =>
                since'[i] >= since'[j] + (j - i) * COOLDOWN \/ since'[i] = PENDING_TTL + 1
          BY DEF Spacing
        <5>2. m \in 1..fired' /\ fired + 1 \in 1..fired' /\ since'[fired + 1] = 0
          BY <2>1, <2>3, <4>1
        <5> DEFINE z == fired + 1
        <5>3. m \in 1..fired' /\ z \in 1..fired' /\ m < z /\ since'[z] = 0
          BY <4>1, <5>2
        <5> HIDE DEF z
        <5>4. since'[m] >= since'[z] + (z - m) * COOLDOWN \/ since'[m] = PENDING_TTL + 1
          BY <5>1, <5>3
        <5>5. since'[m] >= 0 + (z - m) * COOLDOWN \/ since'[m] = PENDING_TTL + 1
          BY <5>3, <5>4
        <5>6. QED BY <5>5 DEF z
      <4>3. ((fired + 1) - m) * COOLDOWN >= MAX_PENDING * COOLDOWN
        <5> DEFINE gap == (fired + 1) - m
        <5>1. gap \in Nat /\ gap >= MAX_PENDING
          BY <1>1, <2>2, <3>3, <4>1
        <5> HIDE DEF gap
        <5>2. gap * COOLDOWN >= MAX_PENDING * COOLDOWN
          BY <1>1, <5>1
        <5>3. QED BY <5>2 DEF gap
      <4> DEFINE age == since'[m]  spaced == ((fired + 1) - m) * COOLDOWN
                 span == MAX_PENDING * COOLDOWN
      <4>4. age \in Int /\ spaced \in Int /\ span \in Int
        <5>1. age \in Int
          <6>1. since'[m] \in 0..(PENDING_TTL + 1)
            BY <2>2, <2>4
          <6>2. QED BY <6>1
        <5>2. spaced \in Int
          BY <1>1, <2>2, <4>1
        <5>3. span \in Int
          BY <1>1
        <5>4. QED BY <5>1, <5>2, <5>3
      <4>5. (age >= 0 + spaced \/ age = PENDING_TTL + 1) /\ spaced >= span /\ span > VALIDITY
        BY <1>3, <4>2, <4>3
      <4> HIDE DEF age, spaced, span
      <4>6. age > VALIDITY
        BY <1>1, <1>3, <4>4, <4>5
      <4>7. QED BY <4>6 DEF age
    <3>4. QED BY <2>1, <2>4, <3>1, <3>2, <3>3
  <2>5. QED BY <1>2, <2>1, <2>4
<1>7. CASE Tick
  <2>1. /\ UNCHANGED <<lost, seen, landed, forgotten>>
        /\ since' = [n \in DOMAIN since |-> Older(since[n], PENDING_TTL + 1)]
    BY <1>7 DEF Tick, clusterVars
  <2>2. ASSUME NEW n \in lost PROVE since'[n] > VALIDITY
    <3>1. n \in 1..fired /\ since[n] \in 0..(PENDING_TTL + 1) /\ n \in DOMAIN since
      BY FireFacts
    <3>2. since'[n] = Older(since[n], PENDING_TTL + 1) /\ since[n] > VALIDITY
      BY <1>2, <2>1, <3>1
    <3>3. QED BY <1>1, <1>3, <3>1, <3>2 DEF Older
  <2>3. QED BY <1>2, <2>1, <2>2
<1>8. CASE \E of : Trigger(of)
  BY <1>4, <1>8 DEF Trigger, sentVars, clusterVars
<1>9. CASE Take \/ Leave \/ Sleep \/ Wake \/ Refuse \/ Succeed
  BY <1>4, <1>9 DEF Take, Leave, Sleep, Wake, Refuse, Succeed, sentVars, clusterVars
<1>10. CASE Fail
  BY <1>4, <1>10 DEF Fail, clusterVars
<1>11. CASE Ask \/ Refresh \/ Depart \/ Stop \/ UNCHANGED vars
  BY <1>4, <1>11 DEF Ask, Refresh, Depart, Stop, vars, sentVars, clusterVars
<1>12. QED
  BY <1>5, <1>6, <1>7, <1>8, <1>9, <1>10, <1>11 DEF Next, SenderStep

\* No transaction of ours that comes back goes unmatched, at any cooldown the
\* cap on the pending list was sized for, unless its send was reported failed.
THEOREM LandingsAreMatched == Spec => []LandingMatched
<1>1. Init => Spacing /\ LandingInv
  <2>1. Init => fired = 0 /\ lost = {} /\ seen = {} /\ 1..fired = {}
    BY DEF Init
  <2>2. QED BY <2>1 DEF Spacing, LandingInv
<1>2. TriggerInv /\ FireInv /\ Spacing /\ LandingInv /\ [Next]_vars
        => (TriggerInv /\ FireInv /\ Spacing /\ LandingInv)'
  BY TriggerStep, FireStep, SpacingStep, LandingStep
<1>3. LandingInv => LandingMatched
  BY DEF LandingInv, Ample, LandingMatched
<1>4. QED BY <1>1, <1>2, <1>3, TriggerInit, FireInit, PTL DEF Spec

----------------------------------------------------------------------------
(* Answers per slot.                                                        *)

\* The tick a slot starts with, and the tick it is.
StartOf(s) == s * SLOT
Clock == StartOf(slot) + phase

\* A trigger that is not too old yet was handed over while its slot, or one of
\* the LAG slots behind it, was being built.
Surfaced(trigger, now) ==
  trigger # NoTrigger /\ trigger.age <= MAX_TRIGGER_AGE =>
    /\ StartOf(trigger.slot) <= now - trigger.age
    /\ now - trigger.age < StartOf(trigger.slot + LAG + 1)

\* When the fires were: a cooldown apart, the last no later than it has been
\* cooling since, and each in time for the trigger it answers.
FiredAt(at) ==
  /\ \A m, n \in 1..fired : m < n => at[n] - at[m] >= COOLDOWN
  /\ \A n \in 1..fired :
       /\ at[n] + cooling <= Clock
       /\ StartOf(answered[n]) <= at[n]
       /\ at[n] < StartOf(answered[n] + LAG + 1) + MAX_TRIGGER_AGE

\* The state keeps no times; that there are some is invariant.
PaceInv ==
  /\ phase \in 0..(SLOT - 1)
  /\ Surfaced(latest, Clock) /\ Surfaced(hand, Clock)
  /\ \E at \in [1..fired -> 0..Clock] : FiredAt(at)

\* Slots start one after the other.
LEMMA StartsInOrder ==
  /\ \A s \in Int : StartOf(s) \in Int /\ StartOf(s + 1) = StartOf(s) + SLOT
  /\ \A s, t \in Int : s <= t => StartOf(s) <= StartOf(t)
  /\ \A s \in Nat : StartOf(s) \in Nat
<1>1. SLOT \in Nat
  BY FireAssumption
<1>2. ASSUME NEW s \in Int PROVE StartOf(s) \in Int /\ StartOf(s + 1) = StartOf(s) + SLOT
  BY <1>1 DEF StartOf
<1>3. ASSUME NEW s \in Int, NEW t \in Int, s <= t PROVE StartOf(s) <= StartOf(t)
  <2>1. (t - s) * SLOT \in Nat
    <3>1. t - s \in Nat
      BY <1>3
    <3>2. QED BY <1>1, <3>1
  <2>2. t * SLOT = s * SLOT + (t - s) * SLOT
    BY <1>1
  <2>3. s * SLOT \in Int
    BY <1>1
  <2>4. QED BY <2>1, <2>2, <2>3 DEF StartOf
<1>4. \A s \in Nat : StartOf(s) \in Nat
  BY <1>1 DEF StartOf
<1>5. QED BY <1>2, <1>3, <1>4

\* A tick ages a trigger by as much as the clock moves.
LEMMA AgedSurfaced ==
  ASSUME NEW trigger, TriggerShaped(trigger, slot), NEW now \in Nat,
         Surfaced(trigger, now)
  PROVE  Surfaced(Aged(trigger), now + 1)
<1> DEFINE MAX == MAX_TRIGGER_AGE
<1>1. MAX \in Nat /\ LAG \in Nat
  BY FireAssumption
<1>2. CASE trigger = NoTrigger
  <2>1. Aged(trigger) = NoTrigger
    BY <1>2 DEF Aged
  <2>2. QED BY <2>1 DEF Surfaced
<1>3. CASE trigger # NoTrigger
  <2>1. trigger \in [slot : 0..slot, age : 0..(MAX + 1)]
    BY <1>3 DEF TriggerShaped
  <2>2. Aged(trigger) = [trigger EXCEPT !.age = Older(trigger.age, MAX + 1)]
    BY <1>3 DEF Aged
  <2>3. /\ Aged(trigger).slot = trigger.slot
        /\ Aged(trigger).age = Older(trigger.age, MAX + 1)
    BY <2>1, <2>2
  <2> DEFINE s == trigger.slot  a == trigger.age  b == Aged(trigger).age
  <2>4. a \in 0..(MAX + 1)
    BY <2>1
  <2>5. b = Older(a, MAX + 1)
    BY <2>3
  <2>6. a <= MAX => StartOf(s) <= now - a /\ now - a < StartOf(s + LAG + 1)
    BY <1>3 DEF Surfaced
  <2> HIDE DEF s, a, b, MAX
  <2>7. b <= MAX => a <= MAX /\ b = a + 1
    BY <1>1, <2>4, <2>5 DEF Older
  <2>8. b <= MAX => (now + 1) - b = now - a
    BY <2>4, <2>7, <1>1
  <2>9. b <= MAX => StartOf(s) <= (now + 1) - b /\ (now + 1) - b < StartOf(s + LAG + 1)
    BY <2>6, <2>7, <2>8
  <2>10. QED
    BY <2>3, <2>9 DEF s, b, MAX, Surfaced
<1>4. QED BY <1>2, <1>3

\* A trigger handed over now is of a slot that surfaces now.
LEMMA HandedSurfaced ==
  ASSUME NEW of \in {s \in (slot - LAG)..slot : s >= 0}, slot \in Nat,
         phase \in 0..(SLOT - 1)
  PROVE  Surfaced([slot |-> of, age |-> 0], Clock)
<1>1. LAG \in Nat /\ SLOT \in Nat
  BY FireAssumption
<1>2. of \in Int /\ of <= slot /\ slot + 1 <= of + LAG + 1
  BY <1>1
<1>3. StartOf(of) <= StartOf(slot) /\ StartOf(slot + 1) <= StartOf(of + LAG + 1)
  BY <1>1, <1>2, StartsInOrder
<1>4. /\ StartOf(of) \in Int /\ StartOf(slot) \in Int /\ StartOf(of + LAG + 1) \in Int
      /\ StartOf(slot + 1) = StartOf(slot) + SLOT
  BY <1>1, <1>2, StartsInOrder
<1>5. Clock = StartOf(slot) + phase
  BY DEF Clock
<1>6. StartOf(of) <= Clock - 0 /\ Clock - 0 < StartOf(of + LAG + 1)
  BY <1>1, <1>3, <1>4, <1>5
<1>7. QED BY <1>6 DEF Surfaced

\* A fire commits only if its trigger is young enough.
LEMMA CommitYoung ==
  ASSUME TriggerInv, Commit
  PROVE  hand # NoTrigger /\ hand.age <= MAX_TRIGGER_AGE
<1>1. hand # NoTrigger
  BY DEF Commit, TriggerInv
<1>2. hand.age \in Int /\ MAX_TRIGGER_AGE \in Int
  BY <1>1, FireAssumption DEF TriggerInv, TriggerShaped
<1>3. Refusal = "none"
  BY DEF Commit
<1>4. SUFFICES ASSUME hand.age > MAX_TRIGGER_AGE PROVE FALSE
  BY <1>1, <1>2
<1>5. ~(hand.age <= MAX_TRIGGER_AGE)
  BY <1>2, <1>4
<1>6. Refusal = "stale"
  BY <1>4, <1>5, Zenon DEF Refusal
<1>7. QED BY <1>3, <1>6

\* The clock is a natural number, and only a tick moves it, by one.
LEMMA ClockTicks ==
  ASSUME slot \in Nat, phase \in 0..(SLOT - 1)
  PROVE  /\ Clock \in Nat
         /\ Tick => Clock' = Clock + 1 /\ phase' \in 0..(SLOT - 1)
         /\ UNCHANGED clockVars => Clock' = Clock /\ phase' = phase
<1>1. SLOT \in Nat \ {0}
  BY FireAssumption
<1>2. StartOf(slot) \in Nat /\ StartOf(slot + 1) = StartOf(slot) + SLOT
  BY StartsInOrder
<1>3. Clock \in Nat
  BY <1>1, <1>2 DEF Clock
<1>4. ASSUME Tick PROVE Clock' = Clock + 1 /\ phase' \in 0..(SLOT - 1)
  <2>1. phase' = (phase + 1) % SLOT /\ slot' = IF phase = SLOT - 1 THEN slot + 1 ELSE slot
    BY <1>4 DEF Tick
  <2>2. CASE phase = SLOT - 1
    <3>1. phase' = 0
      BY <1>1, <2>1, <2>2
    <3>2. slot' = slot + 1
      BY <2>1, <2>2
    <3>3. Clock' = StartOf(slot + 1) + 0
      BY <3>1, <3>2 DEF Clock, StartOf
    <3>4. QED BY <1>1, <1>2, <2>2, <3>1, <3>3 DEF Clock
  <2>3. CASE phase # SLOT - 1
    <3>1. phase' = phase + 1
      BY <1>1, <2>1, <2>3
    <3>2. slot' = slot
      BY <2>1, <2>3
    <3>3. Clock' = StartOf(slot) + (phase + 1)
      BY <3>1, <3>2 DEF Clock, StartOf
    <3>4. QED BY <1>1, <1>2, <2>3, <3>1, <3>3 DEF Clock
  <2>4. QED BY <2>2, <2>3
<1>5. UNCHANGED clockVars => Clock' = Clock /\ phase' = phase
  BY DEF clockVars, Clock, StartOf
<1>6. QED BY <1>3, <1>4, <1>5
\* What a fire adds to the times of the fires is now.
LEMMA CommitPaced ==
  ASSUME TriggerInv, FireInv, PaceInv, Commit
  PROVE  PaceInv'
<1>1. PICK at \in [1..fired -> 0..Clock] : FiredAt(at)
  BY DEF PaceInv
<1> DEFINE now  == Clock
           s    == hand.slot
<1>2. /\ fired \in Nat /\ COOLDOWN \in Nat /\ LAG \in Nat /\ MAX_TRIGGER_AGE \in Nat
      /\ slot \in Nat /\ phase \in 0..(SLOT - 1) /\ cooling = COOLDOWN
  BY FireAssumption, FireFacts, CommitCooled DEF TriggerInv, PaceInv
<1>3. now \in Nat
  BY <1>2, ClockTicks
<1>4. UNCHANGED clockVars /\ latest' = latest /\ hand' = hand
  BY DEF Commit
<1>5. Clock' = now /\ phase' = phase
  BY <1>2, <1>4, ClockTicks
<1>6. fired' = fired + 1 /\ cooling' = 0 /\ answered' = Append(answered, s)
  BY DEF Commit
<1>7. /\ answered'[fired + 1] = s
      /\ \A n \in 1..fired : answered'[n] = answered[n]
  <2>1. answered \in Seq(Int) /\ Len(answered) = fired
    BY DEF FireInv, Histories
  <2>2. s \in Int
    BY CommitYoung DEF TriggerInv, TriggerShaped
  <2> HIDE DEF s
  <2>3. QED BY <1>2, <1>6, <2>1, <2>2, AppendProperties
<1>8. /\ StartOf(s) <= now - hand.age
      /\ now - hand.age < StartOf(s + LAG + 1)
      /\ hand.age \in 0..MAX_TRIGGER_AGE /\ s \in Int
  <2>1. hand # NoTrigger /\ hand.age <= MAX_TRIGGER_AGE
    BY CommitYoung
  <2>2. hand.age \in 0..MAX_TRIGGER_AGE /\ s \in Int
    BY <1>2, <2>1 DEF TriggerInv, TriggerShaped
  <2>3. Surfaced(hand, now)
    BY DEF PaceInv
  <2>4. QED BY <2>1, <2>2, <2>3 DEF Surfaced
<1>9. StartOf(s) \in Int /\ StartOf(s + LAG + 1) \in Int
  <2>1. s \in Int /\ s + LAG + 1 \in Int
    BY <1>2, <1>8
  <2> HIDE DEF s
  <2>2. QED BY <2>1, StartsInOrder
<1>10. StartOf(s) <= now /\ now < StartOf(s + LAG + 1) + MAX_TRIGGER_AGE
  BY <1>2, <1>3, <1>8, <1>9
<1>11. PICK then \in [1..(fired + 1) -> 0..now] :
         /\ then[fired + 1] = now
         /\ \A n \in 1..fired : then[n] = at[n]
  <2> DEFINE f == [n \in 1..(fired + 1) |-> IF n = fired + 1 THEN now ELSE at[n]]
  <2>1. /\ f \in [1..(fired + 1) -> 0..now]
        /\ f[fired + 1] = now
        /\ \A n \in 1..fired : f[n] = at[n]
    BY <1>2, <1>3
  <2>2. QED BY <2>1
<1>12. /\ \A m, n \in 1..fired : m < n => at[n] - at[m] >= COOLDOWN
       /\ \A n \in 1..fired :
            /\ at[n] + COOLDOWN <= now
            /\ StartOf(answered[n]) <= at[n]
            /\ at[n] < StartOf(answered[n] + LAG + 1) + MAX_TRIGGER_AGE
  BY <1>1, <1>2 DEF FiredAt
<1>13. \A n \in 1..fired : at[n] \in Nat
  BY <1>1, <1>3
<1> HIDE DEF now, s
<1>14. ASSUME NEW m \in 1..(fired + 1), NEW n \in 1..(fired + 1), m < n
       PROVE  then[n] - then[m] >= COOLDOWN
  <2>1. m \in 1..fired /\ then[m] = at[m] /\ at[m] + COOLDOWN <= now /\ at[m] \in Nat
    BY <1>2, <1>11, <1>12, <1>13, <1>14
  <2>2. CASE n = fired + 1
    BY <1>2, <1>3, <1>11, <2>1, <2>2
  <2>3. CASE n \in 1..fired
    BY <1>11, <1>12, <1>14, <2>1, <2>3
  <2>4. QED BY <1>2, <2>2, <2>3
<1>15. ASSUME NEW n \in 1..(fired + 1)
       PROVE  /\ then[n] + 0 <= now
              /\ StartOf(answered'[n]) <= then[n]
              /\ then[n] < StartOf(answered'[n] + LAG + 1) + MAX_TRIGGER_AGE
  <2>1. CASE n = fired + 1
    BY <1>3, <1>7, <1>10, <1>11, <2>1
  <2>2. CASE n \in 1..fired
    <3>1. then[n] = at[n] /\ at[n] \in Nat /\ at[n] + COOLDOWN <= now
          /\ answered'[n] = answered[n]
      BY <1>7, <1>11, <1>12, <1>13, <2>2
    <3>2. then[n] + 0 <= now
      BY <1>2, <1>3, <3>1
    <3>3. QED BY <1>12, <2>2, <3>1, <3>2
  <2>3. QED BY <1>2, <2>1, <2>2
<1>16. FiredAt(then)'
  <2>1. \A m, n \in 1..fired' : m < n => then[n] - then[m] >= COOLDOWN
    BY <1>6, <1>14
  <2>2. \A n \in 1..fired' :
          /\ then[n] + cooling' <= Clock'
          /\ StartOf(answered'[n]) <= then[n]
          /\ then[n] < StartOf(answered'[n] + LAG + 1) + MAX_TRIGGER_AGE
    BY <1>5, <1>6, <1>15
  <2>3. QED BY <2>1, <2>2 DEF FiredAt, StartOf
<1>17. then \in [1..fired' -> 0..Clock']
  BY <1>5, <1>6, <1>11
<1>18. Surfaced(latest, Clock)' /\ Surfaced(hand, Clock)'
  <2>1. Surfaced(latest, now) /\ Surfaced(hand, now)
    BY DEF PaceInv, now
  <2>2. QED BY <1>4, <1>5, <2>1 DEF Surfaced, StartOf
<1>19. QED BY <1>2, <1>5, <1>16, <1>17, <1>18 DEF PaceInv

\* Time moves the clock, and nothing else that the times depend on but what
\* it cools and ages.
LEMMA TickPaced ==
  ASSUME TriggerInv, FireInv, PaceInv, Tick
  PROVE  PaceInv'
<1>1. PICK at \in [1..fired -> 0..Clock] : FiredAt(at)
  BY DEF PaceInv
<1>2. fired \in Nat /\ COOLDOWN \in Nat /\ cooling \in 0..COOLDOWN
  BY FireAssumption, FireFacts
<1>3. Clock \in Nat /\ Clock' = Clock + 1 /\ phase' \in 0..(SLOT - 1)
  BY ClockTicks DEF TriggerInv, PaceInv
<1>4. /\ fired' = fired /\ answered' = answered
      /\ cooling' = Older(cooling, COOLDOWN)
      /\ latest' = Aged(latest) /\ hand' = Aged(hand)
  BY DEF Tick
<1>5. cooling' \in Nat /\ cooling' <= cooling + 1
  BY <1>2, <1>4 DEF Older
<1>6. Surfaced(latest, Clock)' /\ Surfaced(hand, Clock)'
  <2>1. Surfaced(Aged(latest), Clock + 1) /\ Surfaced(Aged(hand), Clock + 1)
    BY <1>3, AgedSurfaced DEF TriggerInv, PaceInv
  <2>2. QED BY <1>3, <1>4, <2>1 DEF Surfaced, StartOf
<1>7. at \in [1..fired' -> 0..Clock']
  BY <1>3, <1>4
<1>8. \A n \in 1..fired : at[n] \in Nat /\ at[n] + cooling <= Clock
  BY <1>1, <1>3 DEF FiredAt
<1>9. \A n \in 1..fired : at[n] + cooling' <= Clock'
  BY <1>2, <1>3, <1>5, <1>8
<1>10. FiredAt(at)'
  <2>1. \A m, n \in 1..fired' : m < n => at[n] - at[m] >= COOLDOWN
    BY <1>1, <1>4 DEF FiredAt
  <2>2. \A n \in 1..fired' :
          /\ at[n] + cooling' <= Clock'
          /\ StartOf(answered'[n]) <= at[n]
          /\ at[n] < StartOf(answered'[n] + LAG + 1) + MAX_TRIGGER_AGE
    BY <1>1, <1>4, <1>9 DEF FiredAt
  <2>3. QED BY <2>1, <2>2 DEF FiredAt, StartOf
<1>11. QED BY <1>3, <1>6, <1>7, <1>10 DEF PaceInv

LEMMA PaceStep == TriggerInv /\ FireInv /\ PaceInv /\ [Next]_vars => PaceInv'
<1> SUFFICES ASSUME TriggerInv, FireInv, PaceInv, [Next]_vars PROVE PaceInv'
  OBVIOUS
<1>1. slot \in Nat /\ phase \in 0..(SLOT - 1)
  BY DEF TriggerInv, PaceInv
<1>2. Surfaced(NoTrigger, Clock)
  BY DEF Surfaced
<1>3. ASSUME UNCHANGED clockVars, UNCHANGED <<fired, cooling, answered>>,
             Surfaced(latest', Clock), Surfaced(hand', Clock)
      PROVE  PaceInv'
  <2>1. Clock' = Clock /\ phase' = phase
    BY <1>1, <1>3, ClockTicks
  <2>2. Surfaced(latest, Clock)' /\ Surfaced(hand, Clock)'
    BY <1>3, <2>1 DEF Surfaced, StartOf
  <2>3. \A at : FiredAt(at) => FiredAt(at)'
    BY <1>3, <2>1 DEF FiredAt, StartOf
  <2>4. QED BY <1>1, <1>3, <2>1, <2>2, <2>3 DEF PaceInv
<1>4. Surfaced(latest, Clock) /\ Surfaced(hand, Clock)
  BY DEF PaceInv
<1>5. ASSUME NEW of \in {s \in (slot - LAG)..slot : s >= 0}, Trigger(of)
      PROVE  PaceInv'
  <2>1. Surfaced([slot |-> of, age |-> 0], Clock)
    BY <1>1, HandedSurfaced
  <2>2. latest' = [slot |-> of, age |-> 0]
    BY <1>5 DEF Trigger
  <2>3. Surfaced(latest', Clock)
    BY <2>1, <2>2
  <2>4. QED BY <1>3, <1>4, <1>5, <2>3 DEF Trigger, sentVars
<1>6. ASSUME NEW n, Landed(n) PROVE PaceInv'
  BY <1>3, <1>4, <1>6 DEF Landed, senderVars
<1>7. CASE Take
  BY <1>2, <1>3, <1>4, <1>7 DEF Take, sentVars
<1>8. CASE Leave \/ Sleep \/ Wake
  BY <1>3, <1>4, <1>8 DEF Leave, Sleep, Wake, sentVars
<1>9. CASE Refuse \/ Succeed
  BY <1>2, <1>3, <1>4, <1>9 DEF Refuse, Succeed, sentVars
<1>10. CASE Fail
  BY <1>2, <1>3, <1>4, <1>10 DEF Fail
<1>11. CASE Ask \/ Refresh \/ Depart \/ Stop \/ UNCHANGED vars
  BY <1>3, <1>4, <1>11
     DEF Ask, Refresh, Depart, Stop, vars, senderVars, sentVars
<1>12. QED
  BY <1>5, <1>6, <1>7, <1>8, <1>9, <1>10, <1>11, CommitPaced, TickPaced
     DEF Next, SenderStep

LEMMA PaceInit == Init => PaceInv
<1> SUFFICES ASSUME Init PROVE PaceInv
  OBVIOUS
<1>1. SLOT \in Nat \ {0} /\ phase = 0 /\ latest = NoTrigger /\ hand = NoTrigger /\ fired = 0
  BY FireAssumption DEF Init
<1>2. 1..fired = {}
  BY <1>1
<1>3. FiredAt([n \in 1..fired |-> 0])
  BY <1>2 DEF FiredAt
<1>4. [n \in 1..fired |-> 0] \in [1..fired -> 0..Clock]
  BY <1>2
<1>5. Surfaced(latest, Clock) /\ Surfaced(hand, Clock)
  BY <1>1 DEF Surfaced
<1>6. phase \in 0..(SLOT - 1)
  BY <1>1
<1>7. QED BY <1>3, <1>4, <1>5, <1>6 DEF PaceInv
\* Instants a cooldown apart fall into different cooldowns of a stretch.
LEMMA ApartInCooldowns ==
  ASSUME NEW c \in Nat \ {0}, NEW w \in Nat, NEW x \in 0..w, NEW y \in 0..w
  PROVE  /\ x \div c \in 0..(w \div c)
         /\ y - x >= c => x \div c # y \div c
<1>1. ASSUME NEW z \in Nat
      PROVE  /\ z \div c \in Nat
             /\ (z \div c) * c <= z /\ z < ((z \div c) + 1) * c
  <2>1. /\ z = c * (z \div c) + (z % c) /\ z \div c \in Int /\ z % c \in 0..(c - 1)
    OBVIOUS
  <2>2. z \div c \in Nat
    OBVIOUS
  <2> DEFINE q == z \div c  r == z % c
  <2> HIDE DEF q, r
  <2>3. q * c <= z /\ z < (q + 1) * c
    BY <2>1 DEF q, r
  <2>4. QED BY <2>2, <2>3 DEF q
<1> DEFINE p == x \div c  q == y \div c  k == w \div c
<1>2. /\ p \in Nat /\ p * c <= x /\ x < (p + 1) * c
      /\ q \in Nat /\ q * c <= y /\ y < (q + 1) * c
      /\ k \in Nat /\ k * c <= w /\ w < (k + 1) * c
  BY <1>1
<1> HIDE DEF p, q, k
<1>3. p <= k
  <2>1. SUFFICES ASSUME k + 1 <= p PROVE FALSE
    BY <1>2
  <2>2. (k + 1) * c <= p * c
    BY <1>2, <2>1
  <2>3. QED BY <1>2, <2>2
<1>4. ASSUME y - x >= c PROVE p # q
  <2>1. SUFFICES ASSUME p = q PROVE FALSE
    OBVIOUS
  <2>2. (q + 1) * c = q * c + c /\ q * c \in Nat
    BY <1>2
  <2>3. p * c = q * c
    BY <2>1
  <2>4. QED BY <1>2, <1>4, <2>2, <2>3
<1>5. QED BY <1>2, <1>3, <1>4 DEF p, q, k

\* As many instants fit into a stretch, a cooldown apart.
LEMMA FitInStretch ==
  ASSUME NEW c \in Nat \ {0}, NEW w \in Nat, NEW from \in Int, NEW f \in Nat,
         NEW S \in SUBSET (1..f), NEW at, \A n \in S : at[n] \in from..(from + w),
         \A m, n \in S : m < n => at[n] - at[m] >= c
  PROVE  Cardinality(S) <= w \div c + 1
<1> DEFINE k == w \div c
           g == [n \in S |-> (at[n] - from) \div c]
<1>1. k \in Nat
  BY ApartInCooldowns
<1>2. ASSUME NEW n \in S PROVE at[n] - from \in 0..w
  <2>1. at[n] \in from..(from + w)
    OBVIOUS
  <2>2. QED BY <2>1
<1>3. g \in [S -> 0..k]
  <2>1. ASSUME NEW n \in S PROVE (at[n] - from) \div c \in 0..k
    <3>1. \A x \in 0..w : x \div c \in 0..k
      BY ApartInCooldowns
    <3>2. QED BY <1>2, <3>1
  <2>2. QED BY <2>1
<1>4. ASSUME NEW m \in S, NEW n \in S, m < n PROVE g[m] # g[n]
  <2> DEFINE x == at[m] - from  y == at[n] - from
  <2>1. x \in 0..w /\ y \in 0..w
    BY <1>2
  <2>2. y - x >= c
    <3>1. at[n] - at[m] >= c
      BY <1>4
    <3>2. at[m] \in Int /\ at[n] \in Int
      <4>1. at[m] \in from..(from + w) /\ at[n] \in from..(from + w)
        OBVIOUS
      <4>2. QED BY <4>1
    <3>3. QED BY <3>1, <3>2
  <2> HIDE DEF x, y
  <2>3. x \div c # y \div c
    BY <2>1, <2>2, ApartInCooldowns
  <2>4. QED BY <2>3 DEF x, y
<1>5. g \in Injection(S, 0..k)
  <2>1. ASSUME NEW m \in S, NEW n \in S, g[m] = g[n] PROVE m = n
    <3>1. m \in Int /\ n \in Int
      OBVIOUS
    <3>2. m < n \/ n < m \/ m = n
      BY <3>1
    <3>3. QED BY <1>4, <2>1, <3>2
  <2> HIDE DEF g, k
  <2>2. QED BY <1>3, <2>1 DEF Injection, IsInjective
<1> HIDE DEF g, k
<1>6. IsFiniteSet(0..k) /\ Cardinality(0..k) = k + 1
  BY <1>1, FS_Interval
<1>7. Cardinality(S) <= Cardinality(0..k)
  BY <1>5, <1>6, FS_Injection
<1>8. QED BY <1>6, <1>7 DEF k

\* For all durations: no slot is answered more often than the cooldown fits
\* into the time its triggers can surface and wait for the sender.
THEOREM SlotsAreAnsweredInMeasure == Spec => []AnswersPerSlotBounded
<1>1. ASSUME TriggerInv, FireInv, PaceInv PROVE AnswersPerSlotBounded
  <2>1. SUFFICES ASSUME COOLDOWN > 0, NEW s \in 0..slot
                 PROVE  Cardinality(AnswersTo(s)) <=
                          ((LAG + 1) * SLOT - 1 + MAX_TRIGGER_AGE) \div COOLDOWN + 1
    BY DEF AnswersPerSlotBounded
  <2> DEFINE w == (LAG + 1) * SLOT - 1 + MAX_TRIGGER_AGE
             S == AnswersTo(s)
             from == StartOf(s)
  <2>2. PICK at \in [1..fired -> 0..Clock] : FiredAt(at)
    BY <1>1 DEF PaceInv
  <2>3. /\ COOLDOWN \in Nat \ {0} /\ LAG \in Nat /\ SLOT \in Nat \ {0}
        /\ MAX_TRIGGER_AGE \in Nat /\ slot \in Nat
    BY <1>1, <2>1, FireAssumption DEF TriggerInv
  <2>4. s \in Nat /\ s + LAG + 1 \in Nat /\ from \in Nat /\ fired \in Nat
    <3>1. s \in Nat /\ s + LAG + 1 \in Nat
      BY <2>3
    <3>2. from \in Nat
      BY <3>1, StartsInOrder
    <3>3. fired \in Nat
      BY <1>1, FireFacts
    <3>4. QED BY <3>1, <3>2, <3>3
  <2>5. w \in Nat /\ StartOf(s + LAG + 1) + MAX_TRIGGER_AGE = from + w + 1
    <3>1. (s + LAG + 1) * SLOT = s * SLOT + (LAG + 1) * SLOT
      BY <2>3, <2>4
    <3>2. (LAG + 1) * SLOT = LAG * SLOT + SLOT /\ LAG * SLOT \in Nat
      BY <2>3
    <3>3. s * SLOT \in Nat
      BY <2>3, <2>4
    <3>4. QED BY <2>3, <3>1, <3>2, <3>3 DEF StartOf
  <2>6. S \in SUBSET (1..fired)
    BY DEF AnswersTo
  <2>7. ASSUME NEW n \in S PROVE at[n] \in from..(from + w)
    <3>1. n \in 1..fired /\ answered[n] = s
      BY DEF AnswersTo
    <3>2. from <= at[n] /\ at[n] < StartOf(s + LAG + 1) + MAX_TRIGGER_AGE
      BY <2>2, <3>1 DEF FiredAt
    <3>3. at[n] \in Int
      BY <2>2, <3>1
    <3> HIDE DEF w, from
    <3>4. QED BY <2>4, <2>5, <3>2, <3>3
  <2>8. \A m, n \in S : m < n => at[n] - at[m] >= COOLDOWN
    BY <2>2, <2>6 DEF FiredAt
  <2> HIDE DEF w, S, from
  <2>9. Cardinality(S) <= w \div COOLDOWN + 1
    <3>1. COOLDOWN \in Nat \ {0} /\ w \in Nat /\ from \in Int /\ fired \in Nat
      BY <2>3, <2>4, <2>5
    <3>2. \A n \in S : at[n] \in from..(from + w)
      BY <2>7
    <3>3. QED BY <2>6, <2>8, <3>1, <3>2, FitInStretch, Zenon
  <2>10. QED BY <2>9 DEF w, S
<1>2. QED
  BY <1>1, TriggerInit, TriggerStep, FireInit, FireStep, PaceInit, PaceStep, PTL DEF Spec
=============================================================================
