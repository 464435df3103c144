--------------------------- MODULE LeaderTpus_proofs ---------------------------
(***************************************************************************)
(* Proofs about the thread that follows the leaders' TPUs, for every       *)
(* duration, lag, epoch, width of window and number of slots kept warm:    *)
(* that the range it falls back to is always there, that one failed pass   *)
(* costs no send its leader, and that what a send goes to was warmed.      *)
(***************************************************************************)
EXTENDS LeaderTpus, TLAPS

----------------------------------------------------------------------------
(* What Max, Min, products and division make of an order.                 *)

\* The smaller of two integers is one of them and no larger than the other.
LEMMA MinOfTwo ==
  ASSUME NEW a \in Int, NEW b \in Int
  PROVE  Min({a, b}) \in {a, b} /\ Min({a, b}) <= a /\ Min({a, b}) <= b
<1>1. \E x \in {a, b} : \A y \in {a, b} : x <= y
  <2>1. CASE a <= b BY <2>1
  <2>2. CASE b < a BY <2>2
  <2>3. QED BY <2>1, <2>2
<1>2. QED BY <1>1 DEF Min

\* The larger of two integers is one of them and no smaller than either.
LEMMA MaxOfTwo ==
  ASSUME NEW a \in Int, NEW b \in Int
  PROVE  Max({a, b}) \in {a, b} /\ Max({a, b}) >= a /\ Max({a, b}) >= b
<1>1. \E x \in {a, b} : \A y \in {a, b} : x >= y
  <2>1. CASE a >= b BY <2>1
  <2>2. CASE b > a BY <2>2
  <2>3. QED BY <2>1, <2>2
<1>2. QED BY <1>1 DEF Max

\* What division leaves over is less than what was divided by.
LEMMA Division ==
  ASSUME NEW a \in Nat, NEW k \in Nat \ {0}
  PROVE  /\ a \div k \in Nat
         /\ (a \div k) * k <= a
         /\ a < (a \div k) * k + k
OBVIOUS

\* A product keeps the order of what is multiplied.
LEMMA Monotone ==
  ASSUME NEW x \in Int, NEW y \in Int, NEW k \in Nat \ {0}, x <= y
  PROVE  x * k <= y * k
<1>1. (y - x) * k >= 0
  OBVIOUS
<1>2. (y - x) * k = y * k - x * k
  OBVIOUS
<1>3. x * k \in Int /\ y * k \in Int
  OBVIOUS
<1>4. QED BY <1>1, <1>2, <1>3

\* One more of what is divided by leaves the same over.
LEMMA AnotherWhole ==
  ASSUME NEW a \in Nat, NEW k \in Nat \ {0}
  PROVE  (a + k) % k = a % k
<1> DEFINE q == a \div k
           p == (a + k) \div k
<1>1. q \in Nat /\ q * k <= a /\ a < q * k + k
  BY Division
<1>2. p \in Nat /\ p * k <= a + k /\ a + k < p * k + k
  <2> DEFINE b == a + k
  <2>1. b \in Nat
    OBVIOUS
  <2> HIDE DEF b
  <2>2. b \div k \in Nat /\ (b \div k) * k <= b /\ b < (b \div k) * k + k
    BY <2>1, Division
  <2>3. QED BY <2>2 DEF b
<1>3. a % k = a - q * k /\ (a + k) % k = (a + k) - p * k
  OBVIOUS
<1> HIDE DEF p, q
<1>4. p = q + 1
  <2>1. (q + 1) * k = q * k + k /\ (p + 1) * k = p * k + k /\ q * k \in Int /\ p * k \in Int
    BY <1>1, <1>2
  <2>2. (q + 2) * k = q * k + k + k
    BY <1>1
  <2>3. ~(p >= q + 2)
    <3>1. p >= q + 2 => (q + 2) * k <= p * k
      BY <1>1, <1>2, Monotone
    <3>2. QED BY <1>1, <1>2, <2>1, <2>2, <3>1
  <2>4. ~(p <= q)
    <3>1. p <= q => (p + 1) * k <= (q + 1) * k
      BY <1>1, <1>2, Monotone
    <3>2. QED BY <1>1, <1>2, <2>1, <3>1
  <2>5. QED BY <1>1, <1>2, <2>3, <2>4
<1>5. p * k = q * k + k
  BY <1>1, <1>4
<1>6. QED BY <1>1, <1>3, <1>5

\* As many as fit into a whole are no more than the whole divided by one of them.
LEMMA WholeFits ==
  ASSUME NEW x \in Int, NEW a \in Nat, NEW k \in Nat \ {0}, x * k <= a
  PROVE  x <= a \div k
<1> DEFINE q == a \div k
<1>1. q \in Nat /\ a < q * k + k
  BY Division
<1> HIDE DEF q
<1>2. SUFFICES ASSUME x >= q + 1 PROVE FALSE
  BY <1>1 DEF q
<1>3. (q + 1) * k <= x * k
  BY <1>1, <1>2, Monotone
<1>4. (q + 1) * k = q * k + k
  BY <1>1
<1>5. x * k \in Int /\ q * k \in Int
  BY <1>1
<1>6. QED BY <1>1, <1>3, <1>4, <1>5

\* Nor does rounding down to a multiple change the order.
LEMMA RoundedInOrder ==
  ASSUME NEW a \in Nat, NEW b \in Nat, NEW k \in Nat \ {0}, a <= b
  PROVE  a - (a % k) <= b - (b % k)
<1> DEFINE p == a \div k
           q == b \div k
<1>1. a - (a % k) = p * k /\ b - (b % k) = q * k
  OBVIOUS
<1>2. p \in Nat /\ p * k <= a
  BY Division
<1>3. q \in Nat
  BY Division
<1>4. p * k \in Int
  BY <1>2
<1>5. p * k <= b
  <2> HIDE DEF p
  <2>1. QED BY <1>2, <1>4
<1>6. p <= q
  <2> HIDE DEF p
  <2>1. QED BY <1>2, <1>5, WholeFits
<1>7. p * k <= q * k
  <2> HIDE DEF p, q
  <2>1. QED BY <1>2, <1>3, <1>6, Monotone
<1>8. QED BY <1>1, <1>7

----------------------------------------------------------------------------
LEMMA TpuConstants ==
  /\ POLL_INTERVAL \in Nat \ {0} /\ RPC_TIMEOUT \in Nat /\ NODES_REFRESH \in Nat
  /\ WINDOW_SLOTS \in Nat \ {0} /\ WARM_SLOTS \in Nat \ {0} /\ WARM_SLOTS <= WINDOW_SLOTS
  /\ FANOUT \in Nat \ {0} /\ SLOT \in Nat \ {0} /\ TURN \in Nat \ {0} /\ VALIDATORS \in Nat \ {0}
  /\ EPOCH \in Nat \ {0} /\ LAG \in Nat /\ ROOTED \in Nat
  /\ LAG <= ROOTED /\ ROOTED + WARM_SLOTS <= EPOCH
  /\ LAST_SLOT \in Nat /\ STRAYS \subseteq Nat \ {0} /\ FIRST_SLOTS \subseteq 1..LAST_SLOT
BY LeaderTpusAssumption

----------------------------------------------------------------------------
(* What the operations return.                                              *)

Validators == 0..(VALIDATORS - 1)

LEMMA LeaderTyped == \A s \in Nat : LeaderOf(s) \in Validators
<1> SUFFICES ASSUME NEW s \in Nat PROVE LeaderOf(s) \in Validators
  OBVIOUS
<1> DEFINE turn == s \div TURN
<1>1. turn \in Nat /\ VALIDATORS \in Nat \ {0}
  BY TpuConstants, Division
<1> HIDE DEF turn
<1>2. turn % VALIDATORS \in 0..(VALIDATORS - 1)
  BY <1>1
<1>3. QED BY <1>2 DEF LeaderOf, Validators, turn

LEMMA ListingTyped ==
  ASSUME NEW start \in Nat, NEW n \in Nat
  PROVE  /\ Listing(start, n) \in [start : Nat, leaders : Seq(Validators)]
         /\ Listing(start, n).start = start /\ Len(Listing(start, n).leaders) = n
<1> DEFINE leaders == [i \in 1..n |-> LeaderOf(start + i - 1)]
<1>1. \A i \in 1..n : LeaderOf(start + i - 1) \in Validators
  <2>1. \A i \in 1..n : start + i - 1 \in Nat
    OBVIOUS
  <2>2. QED BY <2>1, LeaderTyped
<1>2. leaders \in Seq(Validators) /\ Len(leaders) = n
  BY <1>1
<1>3. QED BY <1>2 DEF Listing

\* fetch asks for no less than it keeps warm past the epoch's end, and for
\* nothing past the end before it.
LEMMA RemainingBounds ==
  ASSUME NEW ends \in Nat, slot \in Nat
  PROVE  /\ Remaining(ends) \in 1..WINDOW_SLOTS
         /\ ends <= slot => Remaining(ends) = WARM_SLOTS
         /\ ends > slot  => slot + Remaining(ends) <= ends
<1>1. CASE ends <= slot
  BY <1>1, TpuConstants DEF Remaining
<1>2. CASE ends > slot
  <2> DEFINE left == ends - slot
  <2>1. left \in Int /\ WINDOW_SLOTS \in Int
    BY TpuConstants
  <2> HIDE DEF left
  <2>2. /\ Min({left, WINDOW_SLOTS}) \in {left, WINDOW_SLOTS}
        /\ Min({left, WINDOW_SLOTS}) <= left /\ Min({left, WINDOW_SLOTS}) <= WINDOW_SLOTS
    BY <2>1, MinOfTwo, Zenon
  <2>3. ~(ends <= slot)
    BY <1>2
  <2>4. Remaining(ends) = Min({left, WINDOW_SLOTS})
    BY <2>3 DEF Remaining, left
  <2>5. QED BY <1>2, <2>2, <2>4, TpuConstants DEF left
<1>3. QED BY <1>1, <1>2

LEMMA FailedCounted ==
  ASSUME NEW n \in 0..MANY
  PROVE  /\ Min({n + 1, MANY}) \in 0..MANY
         /\ Min({n + 1, MANY}) <= 1 => n = 0
         /\ Min({n + 1, MANY}) # 0
<1>1. n + 1 \in Int /\ MANY \in Int
  BY DEF MANY
<1>2. Min({n + 1, MANY}) \in {n + 1, MANY} /\ Min({n + 1, MANY}) <= MANY
  BY <1>1, MinOfTwo, Zenon
<1>3. QED BY <1>1, <1>2 DEF MANY

LEMMA AnchoredOr == \A s, n : Anchored(s, n) \in {s, n}
BY DEF Anchored

----------------------------------------------------------------------------
(* Types.                                                                   *)

InPass == thread \in {"listing", "asking", "locating", "clamping"}

LEMMA TpuInit == Init => TypeOK
<1> SUFFICES ASSUME Init PROVE TypeOK
  OBVIOUS
<1>1. window \in [start : Nat, leaders : Seq(0..(VALIDATORS - 1))]
  BY DEF Init, NoWindow
<1>2. Max({POLL_INTERVAL, RPC_TIMEOUT}) \in Nat
  <2>1. POLL_INTERVAL \in Int /\ RPC_TIMEOUT \in Int
    BY TpuConstants
  <2>2. Max({POLL_INTERVAL, RPC_TIMEOUT}) \in {POLL_INTERVAL, RPC_TIMEOUT}
    BY <2>1, MaxOfTwo, Zenon
  <2>3. QED BY <2>2, TpuConstants
<1>3. waited \in 0..Max({POLL_INTERVAL, RPC_TIMEOUT})
  BY <1>2 DEF Init
<1>4. tip \in 1..LAST_SLOT /\ phase \in 0..SLOT /\ fetched \in 0..(NODES_REFRESH + 1)
  BY TpuConstants DEF Init
<1>5. current = 0 /\ slot = 0 /\ thread = "sleeping" /\ exit = FALSE
  BY DEF Init
<1>6. nodes = {} /\ count \in 0..WINDOW_SLOTS /\ failed \in 0..MANY
  BY TpuConstants DEF Init, MANY
<1>7. QED BY <1>1, <1>3, <1>4, <1>5, <1>6 DEF TypeOK

\* What the end of a pass leaves behind it.
LEMMA FinishTyped ==
  ASSUME NEW s, NEW w, NEW listed, NEW served, failed \in 0..MANY, Finish(s, w, listed, served)
  PROVE  /\ thread' \in {"sleeping", "gone"} /\ (thread' = "gone" => exit)
         /\ waited' = 0 /\ slot' = 0 /\ count' = 0
         /\ failed' \in 0..MANY
         /\ served /\ s \notin STRAYS => failed' = 0
         /\ ~(served /\ s \notin STRAYS) => (failed' <= 1 => failed = 0) /\ failed' # 0
<1>1. /\ thread' = (IF exit THEN "gone" ELSE "sleeping") /\ waited' = 0 /\ slot' = 0 /\ count' = 0
      /\ failed' = IF served /\ s \notin STRAYS THEN 0 ELSE Min({failed + 1, MANY})
  BY DEF Finish, Again
<1>2. QED BY <1>1, FailedCounted DEF MANY

\* A pass with its addresses looked up asks for a window, or ends.
LEMMA OnwardTyped ==
  ASSUME TypeOK, NEW s \in (1..tip) \cup STRAYS, NEW listed, Onward(s, listed)
  PROVE  /\ UNCHANGED <<tip, phase, current, window, exit>>
         /\ thread' \in {"asking", "sleeping", "gone"} /\ waited' = 0
         /\ IF thread' = "asking" THEN slot' = s /\ count' = WINDOW_SLOTS /\ UNCHANGED <<warm, failed>>
            ELSE slot' = 0 /\ count' = 0 /\ ~(window = NoWindow \/ RefreshDue(s))
                 /\ Finish(s, window, listed, TRUE)
         /\ failed' \in 0..MANY /\ (thread' = "gone" => exit)
<1>1. failed \in 0..MANY
  BY DEF TypeOK
<1>2. CASE window = NoWindow \/ RefreshDue(s)
  BY <1>1, <1>2 DEF Onward, wire
<1>3. CASE ~(window = NoWindow \/ RefreshDue(s))
  <2>1. Finish(s, window, listed, TRUE) /\ UNCHANGED <<tip, phase, current, window, exit>>
    BY <1>3 DEF Onward, wire
  <2>2. /\ thread' \in {"sleeping", "gone"} /\ (thread' = "gone" => exit)
        /\ waited' = 0 /\ slot' = 0 /\ count' = 0 /\ failed' \in 0..MANY
    BY <1>1, <2>1, FinishTyped
  <2>3. QED BY <1>3, <2>1, <2>2
<1>4. QED BY <1>2, <1>3

LEMMA PatienceBound ==
  /\ POLL_INTERVAL <= Max({POLL_INTERVAL, RPC_TIMEOUT})
  /\ RPC_TIMEOUT <= Max({POLL_INTERVAL, RPC_TIMEOUT})
  /\ Max({POLL_INTERVAL, RPC_TIMEOUT}) \in Nat
<1>1. POLL_INTERVAL \in Int /\ RPC_TIMEOUT \in Int
  BY TpuConstants
<1>2. /\ Max({POLL_INTERVAL, RPC_TIMEOUT}) \in {POLL_INTERVAL, RPC_TIMEOUT}
      /\ Max({POLL_INTERVAL, RPC_TIMEOUT}) >= POLL_INTERVAL
      /\ Max({POLL_INTERVAL, RPC_TIMEOUT}) >= RPC_TIMEOUT
  BY <1>1, MaxOfTwo, Zenon
<1>3. QED BY <1>2, TpuConstants

\* TypeOK of the state after, when the clock, the wire and the listing were
\* left alone or moved within their bounds.
Typed(tip1, current1, window1, nodes1, thread1, slot1) ==
  /\ current1 \in {0} \cup (1..tip1) \cup STRAYS
  /\ window1 \in [start : Nat, leaders : Seq(Validators)]
  /\ nodes1 \subseteq Validators \ UNPUBLISHED
  /\ thread1 \in {"sleeping", "listing", "asking", "locating", "clamping", "gone"}
  /\ slot1 \in (1..tip1) \cup STRAYS \cup {0}
  /\ slot1 = 0 <=> thread1 \in {"sleeping", "gone"}

Counted ==
  /\ tip \in 1..LAST_SLOT /\ phase \in 0..SLOT /\ fetched \in 0..(NODES_REFRESH + 1)
  /\ waited \in 0..Max({POLL_INTERVAL, RPC_TIMEOUT})
  /\ count \in 0..WINDOW_SLOTS /\ failed \in 0..MANY /\ exit \in BOOLEAN

LEMMA TypeSplit ==
  /\ TypeOK <=> Counted /\ Typed(tip, current, window, nodes, thread, slot)
  /\ TypeOK' <=> Counted' /\ Typed(tip', current', window', nodes', thread', slot')
<1>1. TypeOK <=> Counted /\ Typed(tip, current, window, nodes, thread, slot)
  BY DEF TypeOK, Counted, Typed, Validators
<1>2. TypeOK' <=> Counted' /\ Typed(tip', current', window', nodes', thread', slot')
  BY DEF TypeOK, Counted, Typed, Validators
<1>3. QED BY <1>1, <1>2

LEMMA TypeStep == TypeOK /\ [Next]_vars => TypeOK'
<1> USE TpuConstants, PatienceBound
<1> SUFFICES ASSUME Counted, Typed(tip, current, window, nodes, thread, slot), [Next]_vars
             PROVE  Counted' /\ Typed(tip', current', window', nodes', thread', slot')
  BY TypeSplit
<1>0. TypeOK
  BY TypeSplit
<1>1. CASE Idle
  BY <1>1 DEF Idle, Awake, Again, wire, held, Typed, Counted
<1>2. ASSUME NEW s \in (1..tip) \cup STRAYS, NEW listed, Onward(s, listed), 
             nodes' \subseteq Validators \ UNPUBLISHED, fetched' \in 0..(NODES_REFRESH + 1)
      PROVE  Counted' /\ Typed(tip', current', window', nodes', thread', slot')
  <2>1. /\ UNCHANGED <<tip, phase, current, window, exit>>
        /\ thread' \in {"asking", "sleeping", "gone"} /\ waited' = 0
        /\ failed' \in 0..MANY
        /\ IF thread' = "asking" THEN slot' = s /\ count' = WINDOW_SLOTS
           ELSE slot' = 0 /\ count' = 0
    BY <1>0, <1>2, OnwardTyped
  <2>2. Counted'
    BY <1>2, <2>1 DEF Counted
  <2>3. s # 0
    OBVIOUS
  <2>4. Typed(tip', current', window', nodes', thread', slot')
    BY <1>2, <2>1, <2>3 DEF Typed
  <2>5. QED BY <2>2, <2>4
<1>3. CASE Wake
  <2>1. current \in (1..tip) \cup STRAYS /\ UNCHANGED <<nodes, fetched>>
    BY <1>3 DEF Wake, Typed
  <2>2. CASE fetched > NODES_REFRESH
    <3>1. /\ thread' = "listing" /\ waited' = 0 /\ slot' = current
          /\ UNCHANGED <<tip, phase, current, window, count, failed, exit>>
      BY <1>3, <2>2 DEF Wake, wire
    <3>2. current # 0
      BY <2>1
    <3>3. QED BY <2>1, <3>1, <3>2 DEF Typed, Counted
  <2>3. CASE ~(fetched > NODES_REFRESH)
    <3>1. Onward(current, nodes)
      BY <1>3, <2>3 DEF Wake
    <3>2. nodes' \subseteq Validators \ UNPUBLISHED /\ fetched' \in 0..(NODES_REFRESH + 1)
      BY <2>1 DEF Typed, Counted
    <3>3. QED BY <1>2, <2>1, <3>1, <3>2
  <2>4. QED BY <2>2, <2>3
<1>4. thread = "listing" => slot \in (1..tip) \cup STRAYS
  BY DEF Typed
<1>5. CASE Listed
  <2>1. nodes' = Published /\ fetched' = 0 /\ Onward(slot, Published) /\ thread = "listing"
    BY <1>5 DEF Listed
  <2>2. nodes' \subseteq Validators \ UNPUBLISHED /\ fetched' \in 0..(NODES_REFRESH + 1)
    BY <2>1 DEF Published, Validators
  <2>3. QED BY <1>2, <1>4, <2>1, <2>2
<1>6. CASE NotListed
  <2>1. UNCHANGED <<nodes, fetched>> /\ Onward(slot, nodes) /\ thread = "listing"
    BY <1>6 DEF NotListed
  <2>2. nodes' \subseteq Validators \ UNPUBLISHED /\ fetched' \in 0..(NODES_REFRESH + 1)
    BY <2>1 DEF Typed, Counted
  <2>3. QED BY <1>2, <1>4, <2>1, <2>2
<1>7. CASE NotGranted
  BY <1>7 DEF NotGranted, wire, held, Typed, Counted
<1>8. ASSUME NEW at \in 0..tip, Located(at)
      PROVE  Counted' /\ Typed(tip', current', window', nodes', thread', slot')
  <2>1. at - (at % EPOCH) + EPOCH \in Nat /\ slot \in Nat
    BY DEF Typed, Counted
  <2>2. count' \in 0..WINDOW_SLOTS
    BY <1>8, <2>1, RemainingBounds DEF Located
  <2>3. QED BY <1>8, <2>2 DEF Located, wire, held, Typed, Counted
<1>9. CASE Granted
  <2>1. slot \in Nat /\ count \in Nat /\ failed \in 0..MANY
    BY DEF Typed, Counted
  <2>2. window' \in [start : Nat, leaders : Seq(Validators)]
    BY <1>9, <2>1, ListingTyped DEF Granted
  <2>3. /\ thread' \in {"sleeping", "gone"} /\ waited' = 0 /\ slot' = 0 /\ count' = 0
        /\ failed' \in 0..MANY
    BY <1>9, <2>1, FinishTyped DEF Granted
  <2>4. UNCHANGED <<tip, phase, current, nodes, fetched, exit>>
    BY <1>9 DEF Granted, wire
  <2>5. QED BY <2>2, <2>3, <2>4 DEF Typed, Counted
<1>10. CASE Denied
  <2>1. failed \in 0..MANY
    BY DEF Counted
  <2>2. /\ thread' \in {"sleeping", "gone"} /\ waited' = 0 /\ slot' = 0 /\ count' = 0
        /\ failed' \in 0..MANY
    BY <1>10, <2>1, FinishTyped DEF Denied
  <2>3. UNCHANGED <<tip, phase, current, window, nodes, fetched, exit>>
    BY <1>10 DEF Denied, wire, held
  <2>4. QED BY <2>2, <2>3 DEF Typed, Counted
<1>11. CASE Advance
  <2>1. current' \in {tip + 1, current} /\ tip' = tip + 1 /\ phase' = 0 /\ tip < LAST_SLOT
        /\ UNCHANGED <<window, nodes, fetched, thread, waited, slot, count, failed, exit>>
    BY <1>11, AnchoredOr DEF Advance, held, pass
  <2>2. QED BY <2>1 DEF Typed, Counted
<1>12. ASSUME NEW s \in STRAYS \cup {tip}, Shred(s)
       PROVE  Counted' /\ Typed(tip', current', window', nodes', thread', slot')
  <2>1. current' \in {s, current}
        /\ UNCHANGED <<tip, phase, window, nodes, fetched, thread, waited, slot, count, failed, exit>>
    BY <1>12, AnchoredOr DEF Shred, held, pass
  <2>2. QED BY <2>1 DEF Typed, Counted
<1>13. CASE Tick
  <2>1. phase' \in 0..SLOT /\ fetched' \in 0..(NODES_REFRESH + 1)
    <3>1. phase + 1 \in Int /\ SLOT \in Int /\ fetched + 1 \in Int /\ NODES_REFRESH + 1 \in Int
      BY DEF Counted
    <3>2. Min({phase + 1, SLOT}) \in {phase + 1, SLOT} /\ Min({phase + 1, SLOT}) <= SLOT
      BY <3>1, MinOfTwo, Zenon
    <3>3. /\ Min({fetched + 1, NODES_REFRESH + 1}) \in {fetched + 1, NODES_REFRESH + 1}
          /\ Min({fetched + 1, NODES_REFRESH + 1}) <= NODES_REFRESH + 1
      BY <3>1, MinOfTwo, Zenon
    <3>4. phase' = Min({phase + 1, SLOT}) /\ fetched' = Min({fetched + 1, NODES_REFRESH + 1})
      BY <1>13 DEF Tick
    <3>5. phase \in Nat /\ fetched \in Nat
      BY DEF Counted
    <3>6. phase' \in Nat /\ phase' <= SLOT
      BY <3>2, <3>4, <3>5
    <3>7. fetched' \in Nat /\ fetched' <= NODES_REFRESH + 1
      BY <3>3, <3>4, <3>5
    <3>8. QED BY <3>6, <3>7
  <2>2. waited' \in 0..Max({POLL_INTERVAL, RPC_TIMEOUT})
    <3>1. waited' = waited \/ (waited < Patience /\ waited' = waited + 1)
      BY <1>13 DEF Tick
    <3>2. Patience <= Max({POLL_INTERVAL, RPC_TIMEOUT}) /\ Patience \in Nat
      BY DEF Patience
    <3>3. QED BY <3>1, <3>2 DEF Counted
  <2>3. UNCHANGED <<tip, current, window, nodes, thread, slot, count, failed, exit>>
    BY <1>13 DEF Tick
  <2>4. QED BY <2>1, <2>2, <2>3 DEF Typed, Counted
<1>14. CASE Stop
  BY <1>14 DEF Stop, wire, held, pass, Typed, Counted
<1>15. CASE UNCHANGED vars
  BY <1>15 DEF vars, wire, held, pass, Typed, Counted
<1>16. QED
  BY <1>1, <1>3, <1>5, <1>6, <1>7, <1>8, <1>9, <1>10, <1>11, <1>12, <1>13, <1>14, <1>15
  DEF Next, Pass

\* The thread's state has its type, and it goes by a slot in its passes only.
THEOREM TpuTyped == Spec => []TypeOK
BY TpuInit, TypeStep, PTL DEF Spec

----------------------------------------------------------------------------
(* The clamped range.                                                       *)

\* What the RPC need not have rooted yet for the range to be there.
ClampInv ==
  thread = "clamping" /\ slot \notin STRAYS =>
    \A root \in Nat : root >= tip - ROOTED => slot + count <= Computed(root)

\* From where the RPC believes it is, to what it has rooted.
LEMMA ClampFits ==
  ASSUME NEW at \in Nat, NEW root \in Nat, slot \in Nat, tip \in Nat,
         slot <= tip, at <= tip, root >= tip - ROOTED
  PROVE  slot + Remaining(at - (at % EPOCH) + EPOCH) <= Computed(root)
<1> DEFINE ends == at - (at % EPOCH) + EPOCH
           opens == root - (root % EPOCH)
<1>1. ends \in Nat /\ ends <= at + EPOCH /\ opens \in Nat /\ root < opens + EPOCH
  BY TpuConstants
<1>2. /\ Remaining(ends) \in 1..WINDOW_SLOTS
      /\ ends <= slot => Remaining(ends) = WARM_SLOTS
      /\ ends > slot  => slot + Remaining(ends) <= ends
  BY <1>1, RemainingBounds
<1>3. Computed(root) = opens + 2 * EPOCH
  BY DEF Computed
<1>4. CASE ends <= slot
  <2> HIDE DEF ends, opens
  <2>1. QED BY <1>1, <1>2, <1>3, <1>4, TpuConstants DEF ends
<1>5. CASE ends > slot
  <2>1. ends <= opens + 2 * EPOCH
    <3> DEFINE next == root + EPOCH
               a == at % EPOCH
               n == next % EPOCH
               r == root % EPOCH
    <3>1. at <= next /\ next \in Nat
      BY TpuConstants
    <3>2. at - a <= next - n
      <4> HIDE DEF next
      <4>1. QED BY <3>1, TpuConstants, RoundedInOrder
    <3>3. n = r
      BY TpuConstants, AnotherWhole
    <3>4. a \in Nat /\ r \in Nat
      BY TpuConstants
    <3>5. ends = at - a + EPOCH /\ opens = root - r
      OBVIOUS
    <3> HIDE DEF a, n, r, ends, opens
    <3>6. EPOCH \in Nat
      BY TpuConstants
    <3>7. QED BY <3>2, <3>3, <3>4, <3>5, <3>6
  <2> HIDE DEF ends, opens
  <2>2. slot + Remaining(ends) <= Computed(root)
    BY <1>1, <1>2, <1>3, <1>5, <2>1, TpuConstants
  <2>3. QED BY <2>2 DEF ends
<1>6. QED BY <1>1, <1>4, <1>5

LEMMA ClampStep == TypeOK /\ ClampInv /\ [Next]_vars => ClampInv'
<1> SUFFICES ASSUME Counted, Typed(tip, current, window, nodes, thread, slot), ClampInv, [Next]_vars,
                    thread' = "clamping", slot' \notin STRAYS,
                    NEW root \in Nat, root >= tip' - ROOTED
             PROVE  slot' + count' <= Computed(root)
  BY TypeSplit DEF ClampInv, Computed
<1>1. ASSUME UNCHANGED <<thread, slot, count>>, tip' \in {tip, tip + 1}
      PROVE  slot' + count' <= Computed(root)
  <2>1. tip \in Nat /\ ROOTED \in Nat
    BY TpuConstants DEF Counted
  <2>2. root >= tip - ROOTED
    <3>1. CASE tip' = tip
      BY <3>1
    <3>2. CASE tip' = tip + 1
      <4>1. root >= (tip + 1) - ROOTED
        BY <3>2
      <4>2. QED BY <2>1, <4>1
    <3>3. QED BY <1>1, <3>1, <3>2
  <2>3. QED BY <1>1, <2>2 DEF ClampInv
<1>2. ASSUME NEW at \in 0..tip, Located(at) PROVE slot' + count' <= Computed(root)
  <2>1. slot' = slot /\ tip' = tip /\ count' = Remaining(at - (at % EPOCH) + EPOCH)
        /\ thread = "locating"
    BY <1>2 DEF Located, wire
  <2>2. slot \in Nat /\ slot <= tip /\ tip \in Nat /\ at \in Nat /\ at <= tip
    BY <2>1 DEF Typed, Counted
  <2>3. QED BY <2>1, <2>2, ClampFits
<1>3. ASSUME NEW s, NEW listed, Onward(s, listed) PROVE FALSE
  BY <1>3 DEF Onward, Finish, Again
<1>4. CASE Idle \/ Wake \/ Listed \/ NotListed
  BY <1>3, <1>4 DEF Idle, Again, Wake, Listed, NotListed
<1>5. CASE NotGranted \/ Granted \/ Denied
  BY <1>5 DEF NotGranted, Granted, Denied, Finish, Again
<1>6. CASE Advance
  BY <1>1, <1>6 DEF Advance, pass
<1>7. ASSUME NEW s, Shred(s) PROVE slot' + count' <= Computed(root)
  BY <1>1, <1>7 DEF Shred, pass
<1>8. CASE Tick
  BY <1>1, <1>8 DEF Tick
<1>9. CASE Stop \/ UNCHANGED vars
  BY <1>1, <1>9 DEF Stop, vars, wire, pass
<1>10. QED
  BY <1>2, <1>4, <1>5, <1>6, <1>7, <1>8, <1>9 DEF Next, Pass

\* "A range that always exists": wherever the boundary of an epoch lies between
\* the wire, the RPC and what it has rooted.
THEOREM ClampIsThere == Spec => []ClampExists
<1>1. Init => ClampInv
  BY DEF Init, ClampInv
<1>2. TypeOK /\ ClampInv => ClampExists
  <2> SUFFICES ASSUME TypeOK, ClampInv, thread = "clamping", slot \notin STRAYS,
                      NEW root \in Roots
               PROVE  slot + count <= Computed(root)
    BY DEF ClampExists
  <2>1. 0 \in Int /\ tip - ROOTED \in Int /\ tip \in Nat
    BY TpuConstants DEF TypeOK
  <2>2. Max({0, tip - ROOTED}) \in {0, tip - ROOTED} /\ Max({0, tip - ROOTED}) >= 0
        /\ Max({0, tip - ROOTED}) >= tip - ROOTED
    BY <2>1, MaxOfTwo, Zenon
  <2>3. root \in Nat /\ root >= tip - ROOTED
    BY <2>1, <2>2 DEF Roots
  <2>4. QED BY <2>3 DEF ClampInv
<1>3. QED BY <1>1, <1>2, TpuInit, TypeStep, ClampStep, PTL DEF Spec

----------------------------------------------------------------------------
(* How far the wire has got.                                                *)

\* That so much time has passed is no later than t past where slot s starts.
By(now, s, t) == now <= s * SLOT + t

Now == tip * SLOT + phase

\* What the requests before the one under way may have taken.
Spent(at) ==
  IF at = "asking" THEN RPC_TIMEOUT
  ELSE IF at = "locating" THEN 2 * RPC_TIMEOUT
  ELSE IF at = "clamping" THEN 3 * RPC_TIMEOUT ELSE 0

\* How long ago the last pass can have ended.
SinceLast ==
  IF thread = "sleeping" THEN waited ELSE POLL_INTERVAL + Spent(thread) + waited

Left(w) == Max({Len(w.leaders) \div 4, WARM_SLOTS})

\* A window was brought by a pass that ended so long ago, or found to be not
\* yet due by it.
Reached(now, w, t) ==
  \/ By(now, w.start + 1, 4 * RPC_TIMEOUT + t)
  \/ By(now, w.start + Len(w.leaders) - Left(w), RPC_TIMEOUT + t)

LEMMA ByLater ==
  ASSUME NEW now \in Int, NEW s \in Int, NEW t \in Int, By(now, s, t),
         NEW now1 \in Int, NEW t1 \in Int, now1 - now <= t1 - t
  PROVE  By(now1, s, t1)
<1> DEFINE start == s * SLOT
<1>1. start \in Int
  BY TpuConstants
<1>2. now <= start + t
  BY DEF By
<1> HIDE DEF start
<1>3. now1 <= start + t1
  BY <1>1, <1>2
<1>4. QED BY <1>3 DEF By, start

LEMMA ByFurther ==
  ASSUME NEW now \in Int, NEW s \in Int, NEW s1 \in Int, NEW t \in Int, By(now, s, t), s <= s1
  PROVE  By(now, s1, t)
<1> DEFINE start == s * SLOT
           start1 == s1 * SLOT
<1>1. start \in Int /\ start1 \in Int /\ start <= start1
  BY TpuConstants, Monotone
<1>2. now <= start + t
  BY DEF By
<1> HIDE DEF start, start1
<1>3. now <= start1 + t
  BY <1>1, <1>2
<1>4. QED BY <1>3 DEF By, start1

LEMMA LeftBounds ==
  ASSUME NEW w, Len(w.leaders) \in Nat
  PROVE  /\ Left(w) \in Nat /\ Left(w) >= WARM_SLOTS
         /\ Left(w) \in {Len(w.leaders) \div 4, WARM_SLOTS}
<1> DEFINE quarter == Len(w.leaders) \div 4
<1>1. quarter \in Nat /\ WARM_SLOTS \in Nat
  <2> DEFINE n == Len(w.leaders)
  <2>1. n \in Nat /\ 4 \in Nat \ {0}
    OBVIOUS
  <2> HIDE DEF n
  <2>2. n \div 4 \in Nat
    BY <2>1, Division
  <2>3. QED BY <2>2, TpuConstants DEF n
<1> HIDE DEF quarter
<1>2. quarter \in Int /\ WARM_SLOTS \in Int
  BY <1>1
<1>3. Max({quarter, WARM_SLOTS}) \in {quarter, WARM_SLOTS} /\ Max({quarter, WARM_SLOTS}) >= WARM_SLOTS
  BY <1>2, MaxOfTwo, Zenon
<1>4. QED BY <1>1, <1>3 DEF Left, quarter

LEMMA ReachedLater ==
  ASSUME NEW now \in Int, NEW w, w.start \in Nat, Len(w.leaders) \in Nat, NEW t \in Int,
         Reached(now, w, t),
         NEW now1 \in Int, NEW t1 \in Int, now1 - now <= t1 - t
  PROVE  Reached(now1, w, t1)
<1> DEFINE s == w.start + Len(w.leaders) - Left(w)
           r == w.start + 1
           a == 4 * RPC_TIMEOUT + t
           a1 == 4 * RPC_TIMEOUT + t1
           b == RPC_TIMEOUT + t
           b1 == RPC_TIMEOUT + t1
<1>1. s \in Int /\ r \in Int
  <2>1. Left(w) \in Nat
    BY LeftBounds
  <2>2. QED BY <2>1
<1>2. /\ a \in Int /\ a1 \in Int /\ now1 - now <= a1 - a
      /\ b \in Int /\ b1 \in Int /\ now1 - now <= b1 - b
  BY TpuConstants
<1>3. By(now, r, a) \/ By(now, s, b)
  BY DEF Reached
<1> HIDE DEF s, r, a, a1, b, b1
<1>4. By(now1, r, a1) \/ By(now1, s, b1)
  BY <1>1, <1>2, <1>3, ByLater
<1>5. QED BY <1>4 DEF Reached, s, r, a1, b1

\* What has not gone past where slot s ends by more than a time has not gone
\* further than that time takes it.
LEMMA ByBound ==
  ASSUME NEW x \in Nat, NEW p \in Nat, NEW s \in Int, NEW t \in Nat, By(x * SLOT + p, s, t)
  PROVE  x < s + SlotsIn(t)
<1>1. SLOT \in Nat \ {0} /\ x * SLOT \in Int /\ s * SLOT \in Int
  BY TpuConstants
<1>2. (x - s) * SLOT = x * SLOT - s * SLOT
  BY <1>1
<1>3. x * SLOT + p <= s * SLOT + t
  BY DEF By
<1>4. (x - s) * SLOT <= t
  <2> DEFINE a == x * SLOT
             b == s * SLOT
  <2>1. a + p <= b + t /\ a \in Int /\ b \in Int
    BY <1>1, <1>3
  <2> HIDE DEF a, b
  <2>2. a - b <= t
    BY <2>1
  <2>3. QED BY <1>2, <2>2 DEF a, b
<1>5. x - s <= t \div SLOT
  BY <1>1, <1>4, WholeFits
<1>6. QED BY <1>1, <1>5, Division DEF SlotsIn

----------------------------------------------------------------------------
(* What a pass leaves to the next.                                          *)

\* The anchor follows the wire, unless a stray has led it off.
WireInv == current \in {0, tip} \cup STRAYS

ThreadInv ==
  /\ IF thread = "gone" THEN exit ELSE waited <= Patience
  /\ InPass => current # 0

\* A pass goes by a slot the wire was at when it woke.
SlotInv ==
  InPass /\ slot \notin STRAYS => slot <= tip /\ By(Now, slot + 1, Spent(thread) + waited)

NodesInv == nodes \in {{}, Published}

HeldInv ==
  window # NoWindow => current # 0 /\ window = Listing(window.start, Len(window.leaders))

\* Each pass that failed cost its time.
WindowInv ==
  window # NoWindow /\ window.start \notin STRAYS /\ failed <= 1 /\ thread # "gone" =>
    /\ window.start <= tip
    /\ Reached(Now, window, (IF failed = 0 THEN 0 ELSE PassTicks) + SinceLast)

WarmInv ==
  /\ warm.slot \in Nat
  /\ warm.slot # 0 => current # 0 /\ warm.to = Warmed(warm.slot, window, warm.nodes)
  /\ warm.slot \notin STRAYS \cup {0} /\ thread # "gone" =>
       warm.slot <= tip /\ By(Now, warm.slot + 1, 4 * RPC_TIMEOUT + SinceLast)

TimeInv ==
  WireInv /\ ThreadInv /\ SlotInv /\ NodesInv /\ HeldInv /\ WindowInv /\ WarmInv

LEMMA TimeFacts ==
  ASSUME TypeOK
  PROVE  /\ tip \in Nat /\ phase \in Nat /\ phase <= SLOT /\ Now \in Nat /\ SinceLast \in Nat
         /\ waited \in Nat /\ slot \in Nat /\ Spent(thread) \in Nat
         /\ window.start \in Nat /\ Len(window.leaders) \in Nat /\ PassTicks \in Nat
         /\ InPass => slot # 0
<1>1. tip \in Nat /\ phase \in Nat /\ phase <= SLOT
  BY TpuConstants DEF TypeOK
<1>2. waited \in Nat
  BY PatienceBound DEF TypeOK
<1>3. Spent(thread) \in Nat
  BY TpuConstants DEF Spent
<1>4. SinceLast \in Nat
  BY <1>2, <1>3, TpuConstants DEF SinceLast
<1>5. Now \in Nat
  BY <1>1, TpuConstants DEF Now
<1>6. slot \in Nat /\ (InPass => slot # 0)
  BY <1>1, TpuConstants DEF TypeOK, InPass
<1>7. window.start \in Nat /\ Len(window.leaders) \in Nat
  BY DEF TypeOK
<1>8. QED BY <1>1, <1>2, <1>3, <1>4, <1>5, <1>6, <1>7, TpuConstants DEF PassTicks

LEMMA TimeInit == Init => TimeInv
<1> SUFFICES ASSUME Init PROVE TimeInv
  OBVIOUS
<1>1. current = 0 /\ window = NoWindow /\ nodes = {} /\ thread = "sleeping" /\ waited = 0
  BY DEF Init
<1>2. warm.slot = 0
  BY DEF Init
<1>3. QED
  BY <1>1, <1>2, TpuConstants DEF TimeInv, WireInv, ThreadInv, SlotInv, NodesInv, HeldInv,
                                  WindowInv, WarmInv, Patience, InPass

\* While a pass goes on, what the last left grows older by no more than what it
\* has taken.
LEMMA KeptSound ==
  ASSUME TypeOK, TypeOK', HeldInv, WindowInv, WarmInv,
         UNCHANGED <<window, warm, failed>>, thread # "gone", thread' # "gone",
         Now' - Now <= SinceLast' - SinceLast, tip <= tip', current # 0 => current' # 0,
         Now' \in Nat, SinceLast' \in Nat, tip' \in Nat
  PROVE  HeldInv' /\ WindowInv' /\ WarmInv'
<1>1. HeldInv'
  BY DEF HeldInv, Listing, LeaderOf
<1>2. WindowInv'
  <2> SUFFICES ASSUME window # NoWindow, window.start \notin STRAYS, failed <= 1
               PROVE  /\ window.start <= tip'
                      /\ Reached(Now', window, (IF failed = 0 THEN 0 ELSE PassTicks) + SinceLast')
    BY DEF WindowInv, Reached, By, Left, NoWindow, PassTicks
  <2> DEFINE t  == (IF failed = 0 THEN 0 ELSE PassTicks) + SinceLast
             t1 == (IF failed = 0 THEN 0 ELSE PassTicks) + SinceLast'
  <2>1. t \in Int /\ t1 \in Int /\ Now' - Now <= t1 - t /\ Now \in Int /\ Now' \in Int
    BY TimeFacts, SMTT(60)
  <2>2. window.start \in Nat /\ Len(window.leaders) \in Nat /\ tip \in Nat
    BY TimeFacts
  <2>3. window.start <= tip /\ Reached(Now, window, t)
    BY DEF WindowInv
  <2> HIDE DEF t, t1
  <2>4. Reached(Now', window, t1)
    BY <2>1, <2>2, <2>3, ReachedLater
  <2>5. QED BY <2>2, <2>3, <2>4 DEF t1
<1>3. WarmInv'
  <2>1. warm.slot # 0 => current' # 0 /\ warm.to = Warmed(warm.slot, window, warm.nodes)
    BY DEF WarmInv
  <2>2. ASSUME warm.slot \notin STRAYS \cup {0}
        PROVE  warm.slot <= tip' /\ By(Now', warm.slot + 1, 4 * RPC_TIMEOUT + SinceLast')
    <3> DEFINE t  == 4 * RPC_TIMEOUT + SinceLast
               t1 == 4 * RPC_TIMEOUT + SinceLast'
               s  == warm.slot + 1
    <3>1. t \in Int /\ t1 \in Int /\ Now' - Now <= t1 - t /\ Now \in Int /\ Now' \in Int
      <4> DEFINE q == 4 * RPC_TIMEOUT
                 z == SinceLast
                 z1 == SinceLast'
                 n == Now
                 n1 == Now'
      <4>1. n \in Nat /\ z \in Nat /\ q \in Nat /\ n1 \in Nat /\ z1 \in Nat /\ n1 - n <= z1 - z
        BY TimeFacts, TpuConstants
      <4> HIDE DEF q, z, z1, n, n1
      <4>2. q + z \in Int /\ q + z1 \in Int /\ n1 - n <= (q + z1) - (q + z)
        BY <4>1
      <4>3. QED BY <4>1, <4>2 DEF q, z, z1, n, n1
    <3>2. warm.slot <= tip /\ By(Now, s, t) /\ s \in Int /\ warm.slot \in Nat /\ tip \in Nat
      BY <2>2, TimeFacts DEF WarmInv
    <3> HIDE DEF t, t1, s
    <3>3. By(Now', s, t1)
      BY <3>1, <3>2, ByLater
    <3>4. QED BY <3>2, <3>3 DEF t1, s
  <2>3. warm' = warm /\ window' = window /\ warm.slot \in Nat
    BY DEF WarmInv
  <2>4. Warmed(warm.slot, window, warm.nodes)' = Warmed(warm.slot, window, warm.nodes)
    BY <2>3 DEF Warmed, Addresses, Covers, LeaderIn, NoWindow
  <2>5. QED BY <2>1, <2>2, <2>3, <2>4 DEF WarmInv, By
<1>4. QED BY <1>1, <1>2, <1>3

\* What a pass that ends has to have found.
LEMMA FinishSound ==
  ASSUME TypeOK, WindowInv, current # 0, thread # "gone", SinceLast <= PassTicks,
         UNCHANGED <<tip, phase, current, exit>>, WireInv,
         NEW s \in Nat \ {0}, NEW w, NEW listed, NEW served \in BOOLEAN,
         Finish(s, w, listed, served), window' = w,
         w # NoWindow => /\ w.start \in Nat /\ Len(w.leaders) \in Nat
                         /\ w = Listing(w.start, Len(w.leaders)),
         s \notin STRAYS => s <= tip /\ By(Now, s + 1, 4 * RPC_TIMEOUT),
         served /\ s \notin STRAYS /\ w # NoWindow /\ w.start \notin STRAYS =>
           w.start <= tip /\ Reached(Now, w, 0),
         ~(served /\ s \notin STRAYS) => w = window \/ w.start \in STRAYS
  PROVE  WireInv' /\ ThreadInv' /\ SlotInv' /\ HeldInv' /\ WindowInv' /\ WarmInv'
<1>1. failed \in 0..MANY
  BY DEF TypeOK
<1>2. /\ thread' \in {"sleeping", "gone"} /\ (thread' = "gone" => exit)
      /\ waited' = 0
      /\ served /\ s \notin STRAYS => failed' = 0
      /\ ~(served /\ s \notin STRAYS) => (failed' <= 1 => failed = 0) /\ failed' # 0
  BY <1>1, FinishTyped
<1>3. warm' = [slot |-> s, nodes |-> listed, to |-> Warmed(s, w, listed)]
  BY DEF Finish
<1>4. Now' = Now /\ Now \in Nat /\ tip \in Nat /\ SinceLast \in Nat /\ PassTicks \in Nat
  BY TimeFacts DEF Now
<1>5. thread' # "gone" => SinceLast' = 0 /\ thread' = "sleeping"
  BY <1>2 DEF SinceLast
<1>6. WireInv' /\ ThreadInv' /\ SlotInv'
  BY <1>2, TpuConstants DEF WireInv, ThreadInv, SlotInv, InPass, Patience
<1>7. HeldInv'
  BY DEF HeldInv, Listing, LeaderOf, NoWindow
<1>8. WindowInv'
  <2> SUFFICES ASSUME w # NoWindow, w.start \notin STRAYS, failed' <= 1, thread' # "gone"
               PROVE  /\ w.start <= tip
                      /\ Reached(Now, w, (IF failed' = 0 THEN 0 ELSE PassTicks) + 0)
    BY <1>4, <1>5 DEF WindowInv, Reached, By, Left, NoWindow, PassTicks
  <2>1. CASE served /\ s \notin STRAYS
    BY <1>2, <2>1
  <2>2. CASE ~(served /\ s \notin STRAYS)
    <3>1. w = window /\ failed = 0 /\ failed' # 0
      BY <1>2, <2>2
    <3>2. w.start <= tip /\ Reached(Now, w, 0 + SinceLast)
      BY <3>1 DEF WindowInv
    <3>3. Reached(Now, w, PassTicks + 0)
      <4> DEFINE t  == 0 + SinceLast
                 t1 == PassTicks + 0
      <4>1. t \in Int /\ t1 \in Int /\ Now - Now <= t1 - t /\ Now \in Int
        BY <1>4
      <4> HIDE DEF t, t1
      <4>2. Reached(Now, w, t1)
        BY <3>2, <4>1, ReachedLater DEF t
      <4>3. QED BY <4>2 DEF t1
    <3>4. QED BY <3>1, <3>2, <3>3
  <2>3. QED BY <2>1, <2>2
<1>9. WarmInv'
  <2>1. warm'.slot = s /\ warm'.to = Warmed(s, w, listed) /\ warm'.nodes = listed
    BY <1>3
  <2>2. s \notin STRAYS /\ thread' # "gone" => By(Now', s + 1, 4 * RPC_TIMEOUT + SinceLast')
    BY <1>4, <1>5, TpuConstants DEF By
  <2>3. Warmed(warm.slot, window, warm.nodes)' = Warmed(s, w, listed)
    BY <2>1 DEF Warmed, Addresses, Covers, LeaderIn, NoWindow
  <2>4. warm'.slot \in Nat /\ (warm'.slot # 0 => current' # 0 /\ warm'.to = Warmed(s, w, listed))
    BY <2>1
  <2>5. By(Now, warm.slot + 1, 4 * RPC_TIMEOUT + SinceLast)'
          <=> By(Now', s + 1, 4 * RPC_TIMEOUT + SinceLast')
    BY <2>1 DEF By
  <2>6. QED BY <2>1, <2>2, <2>3, <2>4, <2>5 DEF WarmInv
<1>10. QED BY <1>6, <1>7, <1>8, <1>9

\* With its addresses looked up, a pass asks for what is due, or what it holds
\* was found not to be.
LEMMA OnwardSound ==
  ASSUME TypeOK, TypeOK', TimeInv, thread # "gone", current # 0,
         SinceLast <= POLL_INTERVAL + RPC_TIMEOUT,
         NEW s \in (1..tip) \cup STRAYS, NEW listed, Onward(s, listed),
         s \notin STRAYS => s <= tip /\ By(Now, s + 1, RPC_TIMEOUT)
  PROVE  WireInv' /\ ThreadInv' /\ SlotInv' /\ HeldInv' /\ WindowInv' /\ WarmInv'
<1>1. s \in Nat \ {0}
  BY TpuConstants
<1>2. /\ UNCHANGED <<tip, phase, current, window, exit>>
      /\ thread' \in {"asking", "sleeping", "gone"} /\ waited' = 0
      /\ IF thread' = "asking" THEN slot' = s /\ count' = WINDOW_SLOTS /\ UNCHANGED <<warm, failed>>
         ELSE slot' = 0 /\ count' = 0 /\ ~(window = NoWindow \/ RefreshDue(s))
              /\ Finish(s, window, listed, TRUE)
  BY OnwardTyped
<1>3. /\ Now' = Now /\ Now \in Nat /\ tip \in Nat /\ SinceLast \in Nat /\ PassTicks \in Nat
      /\ RPC_TIMEOUT \in Nat /\ POLL_INTERVAL \in Nat
      /\ window.start \in Nat /\ Len(window.leaders) \in Nat
  BY <1>2, TimeFacts, TpuConstants DEF Now
<1>4. CASE thread' = "asking"
  <2>1. SinceLast' = POLL_INTERVAL + RPC_TIMEOUT + 0
    BY <1>2, <1>4 DEF SinceLast, Spent
  <2>2. HeldInv' /\ WindowInv' /\ WarmInv'
    <3>1. Now' - Now <= SinceLast' - SinceLast
      BY <1>3, <2>1
    <3>2. tip <= tip' /\ (current # 0 => current' # 0) /\ Now' \in Nat /\ SinceLast' \in Nat /\ tip' \in Nat
      BY <1>2, <1>3, <2>1
    <3>3. UNCHANGED <<window, warm, failed>> /\ thread' # "gone"
      BY <1>2, <1>4
    <3>4. QED BY <3>1, <3>2, <3>3, KeptSound DEF TimeInv
  <2>3. SlotInv'
    <3>1. slot' = s /\ Spent(thread)' + waited' = RPC_TIMEOUT + 0
      BY <1>2, <1>4 DEF Spent
    <3>2. s \notin STRAYS => s <= tip' /\ By(Now', s + 1, RPC_TIMEOUT + 0)
      BY <1>2, <1>3
    <3>3. QED BY <3>1, <3>2 DEF SlotInv, By
  <2>4. QED BY <1>2, <1>4, <2>2, <2>3, <1>3 DEF TimeInv, WireInv, ThreadInv, Patience, InPass
<1>5. CASE thread' # "asking"
  <2>1. Finish(s, window, listed, TRUE) /\ window # NoWindow /\ ~RefreshDue(s)
    BY <1>2, <1>5
  <2>2. s \notin STRAYS => s <= tip /\ By(Now, s + 1, 4 * RPC_TIMEOUT)
    <3> DEFINE t == 4 * RPC_TIMEOUT
    <3>1. t \in Int /\ Now - Now <= t - RPC_TIMEOUT /\ s + 1 \in Int /\ Now \in Int /\ RPC_TIMEOUT \in Int
      BY <1>1, <1>3
    <3> HIDE DEF t
    <3>2. s \notin STRAYS => By(Now, s + 1, t)
      BY <3>1, ByLater
    <3>3. QED BY <3>2 DEF t
  <2>3. s \notin STRAYS => window.start <= tip /\ Reached(Now, window, 0)
    <3> SUFFICES ASSUME s \notin STRAYS PROVE window.start <= tip /\ Reached(Now, window, 0)
      OBVIOUS
    <3> DEFINE over == window.start + Len(window.leaders) - s
               due  == window.start + Len(window.leaders) - Left(window)
    <3>1. ~(s < window.start) /\ ~(Max({0, over}) <= Left(window))
      BY <2>1 DEF RefreshDue, Left
    <3>2. over \in Int /\ 0 \in Int /\ Left(window) \in Nat
      <4>1. Left(window) \in Nat
        BY <1>3, LeftBounds
      <4>2. QED BY <1>1, <1>3, <4>1
    <3>3. Max({0, over}) \in {0, over} /\ Max({0, over}) >= 0
      <4> HIDE DEF over
      <4>1. QED BY <3>2, MaxOfTwo, Zenon
    <3>4. over > Left(window)
      <4> HIDE DEF over
      <4>1. QED BY <3>1, <3>2, <3>3
    <3>5. s + 1 <= due /\ s + 1 \in Int /\ due \in Int
      BY <1>1, <1>3, <3>2, <3>4
    <3> HIDE DEF due
    <3>6. By(Now, due, RPC_TIMEOUT)
      <4> DEFINE next == s + 1
      <4>1. Now \in Int /\ RPC_TIMEOUT \in Int /\ next \in Int /\ next <= due
            /\ By(Now, next, RPC_TIMEOUT)
        BY <1>3, <3>5
      <4> HIDE DEF next
      <4>2. QED BY <3>5, <4>1, ByFurther
    <3>7. By(Now, due, RPC_TIMEOUT + 0)
      BY <1>3, <3>6
    <3>8. Reached(Now, window, 0)
      BY <3>7 DEF Reached, due
    <3>9. window.start <= tip
      <4>1. window.start <= s /\ s <= tip
        BY <1>1, <1>3, <3>1
      <4>2. QED BY <1>1, <1>3, <4>1
    <3>10. QED BY <3>8, <3>9
  <2>4. SinceLast <= PassTicks
    BY <1>3 DEF PassTicks
  <2>5. window = Listing(window.start, Len(window.leaders))
    BY <2>1 DEF TimeInv, HeldInv
  <2>6. QED BY <1>1, <1>2, <1>3, <2>1, <2>2, <2>3, <2>4, <2>5, FinishSound DEF TimeInv
<1>6. QED BY <1>4, <1>5

LEMMA TimeStep == TypeOK /\ TimeInv /\ [Next]_vars => TimeInv'
<1> SUFFICES ASSUME TypeOK, TimeInv, [Next]_vars PROVE TimeInv'
  OBVIOUS
<1> USE TpuConstants
<1>1. TypeOK'
  BY TypeStep
<1>2. /\ tip \in Nat /\ phase \in Nat /\ phase <= SLOT /\ Now \in Nat /\ SinceLast \in Nat
      /\ waited \in Nat /\ slot \in Nat /\ Spent(thread) \in Nat
      /\ window.start \in Nat /\ Len(window.leaders) \in Nat /\ PassTicks \in Nat
      /\ InPass => slot # 0
  BY TimeFacts
<1>3. WireInv /\ ThreadInv /\ SlotInv /\ NodesInv /\ HeldInv /\ WindowInv /\ WarmInv
  BY DEF TimeInv
<1>4. InPass => slot \in (1..tip) \cup STRAYS
  BY DEF TypeOK, InPass
\* A step of the pass or of the clock that ends no pass.
<1>5. ASSUME UNCHANGED <<window, warm, failed>>, thread # "gone", thread' # "gone",
             Now' - Now <= SinceLast' - SinceLast, tip' \in {tip, tip + 1},
             current # 0 => current' # 0, Now' \in Nat, SinceLast' \in Nat
      PROVE  HeldInv' /\ WindowInv' /\ WarmInv'
  <2>1. tip <= tip' /\ tip' \in Nat
    BY <1>2, <1>5
  <2>2. QED BY <1>1, <1>3, <1>5, <2>1, KeptSound
<1>6. CASE Idle
  <2>1. current = 0 /\ UNCHANGED <<tip, phase, current, window, nodes, warm, failed, exit>>
    BY <1>6 DEF Idle, wire, held
  <2>2. window = NoWindow /\ warm.slot = 0
    BY <1>3, <2>1 DEF HeldInv, WarmInv
  <2>3. thread' = (IF exit THEN "gone" ELSE "sleeping") /\ waited' = 0
    BY <1>6 DEF Idle, Again
  <2>4. WireInv' /\ ThreadInv' /\ SlotInv' /\ NodesInv'
    BY <1>3, <2>1, <2>3 DEF WireInv, ThreadInv, SlotInv, NodesInv, Patience, InPass, Published
  <2>5. HeldInv' /\ WindowInv' /\ WarmInv'
    BY <2>1, <2>2 DEF HeldInv, WindowInv, WarmInv, NoWindow
  <2>6. QED BY <2>4, <2>5 DEF TimeInv
<1>7. CASE Wake
  <2>1. thread = "sleeping" /\ waited = POLL_INTERVAL /\ current # 0 /\ UNCHANGED <<nodes, fetched>>
    BY <1>7 DEF Wake, Awake
  <2>2. current \notin STRAYS => current = tip /\ By(Now, current + 1, 0)
    <3>1. (tip + 1) * SLOT = tip * SLOT + SLOT /\ tip * SLOT \in Int
      BY <1>2
    <3>2. By(Now, tip + 1, 0)
      <4> DEFINE start == tip * SLOT
      <4> HIDE DEF start
      <4>1. start + phase <= start + SLOT + 0
        BY <1>2, <3>1 DEF start
      <4>2. QED BY <3>1, <4>1 DEF By, Now, start
    <3>3. QED BY <1>3, <2>1, <3>2 DEF WireInv
  <2>3. NodesInv'
    BY <1>3, <2>1 DEF NodesInv, Published
  <2>4. CASE fetched > NODES_REFRESH
    <3>1. /\ thread' = "listing" /\ waited' = 0 /\ slot' = current
          /\ UNCHANGED <<tip, phase, current, window, warm, failed, exit>>
      BY <1>7, <2>4 DEF Wake, wire
    <3>2. SinceLast = POLL_INTERVAL /\ SinceLast' = POLL_INTERVAL + 0 + 0 /\ Now' = Now
      BY <2>1, <3>1 DEF SinceLast, Spent, Now
    <3>3. HeldInv' /\ WindowInv' /\ WarmInv'
      BY <1>2, <1>5, <2>1, <3>1, <3>2
    <3>4. SlotInv'
      <4>1. Spent(thread)' + waited' = 0
        BY <3>1 DEF Spent
      <4>2. slot' \notin STRAYS => slot' <= tip' /\ By(Now', slot' + 1, 0)
        BY <1>2, <2>2, <3>1, <3>2
      <4>3. QED BY <4>1, <4>2 DEF SlotInv, By
    <3>5. WireInv' /\ ThreadInv'
      BY <1>3, <2>1, <3>1 DEF WireInv, ThreadInv, Patience, InPass
    <3>6. QED BY <2>3, <3>3, <3>4, <3>5 DEF TimeInv
  <2>5. CASE ~(fetched > NODES_REFRESH)
    <3>1. Onward(current, nodes)
      BY <1>7, <2>5 DEF Wake
    <3>2. current \in (1..tip) \cup STRAYS
      BY <2>1 DEF TypeOK
    <3>3. SinceLast <= POLL_INTERVAL + RPC_TIMEOUT
      BY <2>1 DEF SinceLast
    <3>4. current \notin STRAYS => current <= tip /\ By(Now, current + 1, RPC_TIMEOUT)
      <4>1. By(Now, tip + 1, 0) => By(Now, tip + 1, RPC_TIMEOUT)
        <5> DEFINE s == tip + 1
        <5>1. s \in Int /\ Now - Now <= RPC_TIMEOUT - 0 /\ Now \in Int /\ RPC_TIMEOUT \in Int /\ 0 \in Int
          BY <1>2
        <5> HIDE DEF s
        <5>2. By(Now, s, 0) => By(Now, s, RPC_TIMEOUT)
          BY <5>1, ByLater
        <5>3. QED BY <5>2 DEF s
      <4>2. QED BY <1>2, <2>2, <4>1
    <3>5. thread # "gone" /\ current # 0
      BY <2>1
    <3>6. WireInv' /\ ThreadInv' /\ SlotInv' /\ HeldInv' /\ WindowInv' /\ WarmInv'
      BY <1>1, <3>1, <3>2, <3>3, <3>4, <3>5, OnwardSound
    <3>7. QED BY <2>3, <3>6 DEF TimeInv
  <2>6. QED BY <2>4, <2>5
<1>8. ASSUME NEW listed, thread = "listing", Onward(slot, listed)
      PROVE  WireInv' /\ ThreadInv' /\ SlotInv' /\ HeldInv' /\ WindowInv' /\ WarmInv'
  <2>1. InPass /\ current # 0 /\ waited <= RPC_TIMEOUT
    BY <1>3, <1>8 DEF InPass, ThreadInv, Patience
  <2>2. SinceLast <= POLL_INTERVAL + RPC_TIMEOUT /\ Spent(thread) = 0
    BY <1>2, <1>8, <2>1 DEF SinceLast, Spent
  <2>3. slot \notin STRAYS => slot <= tip /\ By(Now, slot + 1, RPC_TIMEOUT)
    <3> SUFFICES ASSUME slot \notin STRAYS PROVE slot <= tip /\ By(Now, slot + 1, RPC_TIMEOUT)
      OBVIOUS
    <3> DEFINE s == slot + 1
    <3>1. slot <= tip /\ By(Now, s, Spent(thread) + waited)
      BY <1>3, <2>1 DEF SlotInv
    <3>2. By(Now, s, waited)
      BY <1>2, <2>2, <3>1
    <3>3. s \in Int /\ Now - Now <= RPC_TIMEOUT - waited /\ Now \in Int /\ RPC_TIMEOUT \in Int /\ waited \in Int
      BY <1>2, <2>1
    <3> HIDE DEF s
    <3>4. By(Now, s, RPC_TIMEOUT)
      BY <3>2, <3>3, ByLater
    <3>5. QED BY <3>1, <3>4 DEF s
  <2>4. slot \in (1..tip) \cup STRAYS
    BY <1>4, <2>1
  <2>5. QED BY <1>1, <1>8, <2>1, <2>2, <2>3, <2>4, OnwardSound
<1>9. CASE Listed
  <2>1. thread = "listing" /\ nodes' = Published /\ Onward(slot, Published)
    BY <1>9 DEF Listed
  <2>2. NodesInv'
    BY <2>1 DEF NodesInv, Published
  <2>3. QED BY <1>8, <2>1, <2>2 DEF TimeInv
<1>10. CASE NotListed
  <2>1. thread = "listing" /\ nodes' = nodes /\ Onward(slot, nodes)
    BY <1>10 DEF NotListed
  <2>2. NodesInv'
    BY <1>3, <2>1 DEF NodesInv, Published
  <2>3. QED BY <1>8, <2>1, <2>2 DEF TimeInv
\* A request that is given up goes on to the next, within the same pass.
<1>11. ASSUME thread' \in {"locating", "clamping"}, InPass, Spent(thread') = Spent(thread) + RPC_TIMEOUT,
              waited' = 0, thread \in {"asking", "locating"},
              UNCHANGED <<tip, phase, current, window, nodes, warm, slot, failed, exit>>
       PROVE  TimeInv'
  <2>1. waited <= RPC_TIMEOUT /\ current # 0
    BY <1>3, <1>11 DEF ThreadInv, Patience, InPass
  <2>2. Now' = Now
    BY <1>11 DEF Now
  <2>3. SinceLast = POLL_INTERVAL + Spent(thread) + waited
        /\ SinceLast' = POLL_INTERVAL + (Spent(thread) + RPC_TIMEOUT) + 0
    BY <1>11 DEF SinceLast, Spent
  <2>4. HeldInv' /\ WindowInv' /\ WarmInv'
    <3>1. Now' - Now <= SinceLast' - SinceLast /\ SinceLast' \in Nat
      BY <1>2, <2>1, <2>2, <2>3
    <3>2. thread # "gone" /\ thread' # "gone"
      BY <1>11
    <3>3. QED BY <1>2, <1>5, <1>11, <2>2, <3>1, <3>2
  <2>5. SlotInv'
    <3> SUFFICES ASSUME slot \notin STRAYS
                 PROVE  slot <= tip /\ By(Now, slot + 1, Spent(thread') + 0)
      BY <1>11, <2>2 DEF SlotInv, By, Spent
    <3> DEFINE s == slot + 1
               t == Spent(thread) + waited
               t1 == Spent(thread') + 0
    <3>1. slot <= tip /\ By(Now, s, t)
      BY <1>3, <1>11 DEF SlotInv
    <3>2. s \in Int /\ t \in Int /\ t1 \in Int /\ Now - Now <= t1 - t /\ Now \in Int
      BY <1>2, <1>11, <2>1
    <3> HIDE DEF s, t, t1
    <3>3. By(Now, s, t1)
      BY <3>1, <3>2, ByLater
    <3>4. QED BY <3>1, <3>3 DEF s, t1
  <2>6. WireInv' /\ ThreadInv' /\ NodesInv'
    BY <1>3, <1>11, <2>1 DEF WireInv, ThreadInv, NodesInv, Published, Patience, InPass
  <2>7. QED BY <2>4, <2>5, <2>6 DEF TimeInv
<1>12. CASE NotGranted
  <2>1. Spent(thread') = Spent(thread) + RPC_TIMEOUT
    BY <1>12 DEF NotGranted, Spent
  <2>2. QED BY <1>11, <1>12, <2>1 DEF NotGranted, InPass, wire, held
<1>13. ASSUME NEW at \in 0..tip, Located(at) PROVE TimeInv'
  <2>1. Spent(thread') = Spent(thread) + RPC_TIMEOUT
    BY <1>13 DEF Located, Spent
  <2>2. QED BY <1>11, <1>13, <2>1 DEF Located, InPass, wire, held
\* Any request may be the last of its pass.
<1>14. ASSUME InPass
       PROVE  /\ thread # "gone" /\ current # 0 /\ slot \in Nat \ {0} /\ SinceLast <= PassTicks
              /\ slot \notin STRAYS => slot <= tip /\ By(Now, slot + 1, 4 * RPC_TIMEOUT)
  <2>1. thread # "gone" /\ current # 0 /\ waited <= RPC_TIMEOUT /\ Spent(thread) <= 3 * RPC_TIMEOUT
    BY <1>3, <1>14 DEF InPass, ThreadInv, Patience, Spent
  <2>2. SinceLast <= PassTicks
    BY <1>2, <1>14, <2>1 DEF SinceLast, PassTicks, InPass
  <2>3. ASSUME slot \notin STRAYS PROVE slot <= tip /\ By(Now, slot + 1, 4 * RPC_TIMEOUT)
    <3> DEFINE s == slot + 1
               t == Spent(thread) + waited
               t1 == 4 * RPC_TIMEOUT
    <3>1. slot <= tip /\ By(Now, s, t)
      BY <1>3, <1>14, <2>3 DEF SlotInv
    <3>2. s \in Int /\ t \in Int /\ t1 \in Int /\ Now - Now <= t1 - t /\ Now \in Int
      BY <1>2, <2>1
    <3> HIDE DEF s, t, t1
    <3>3. By(Now, s, t1)
      BY <3>1, <3>2, ByLater
    <3>4. QED BY <3>1, <3>3 DEF s, t1
  <2>4. QED BY <1>2, <1>14, <2>1, <2>2, <2>3
<1>15. CASE Granted
  <2> DEFINE w == Listing(slot, count)
  <2>1. Finish(slot, w, nodes, TRUE) /\ window' = w /\ InPass
        /\ UNCHANGED <<tip, phase, current, nodes, exit>>
    BY <1>15 DEF Granted, InPass, wire
  <2>2. count \in Nat
    BY DEF TypeOK
  <2>3. w.start = slot /\ Len(w.leaders) = count
    BY <1>2, <2>2, ListingTyped
  <2>4. slot \notin STRAYS => Reached(Now, w, 0)
    <3>1. slot \notin STRAYS => By(Now, slot + 1, 4 * RPC_TIMEOUT + 0)
      BY <1>14, <2>1
    <3> HIDE DEF w
    <3>2. QED BY <2>3, <3>1 DEF Reached
  <2> HIDE DEF w
  <2>5. w = Listing(w.start, Len(w.leaders))
    BY <2>3 DEF w
  <2>6. WireInv' /\ ThreadInv' /\ SlotInv' /\ HeldInv' /\ WindowInv' /\ WarmInv'
    BY <1>2, <1>3, <1>14, <2>1, <2>2, <2>3, <2>4, <2>5, FinishSound
  <2>7. NodesInv'
    BY <1>3, <2>1 DEF NodesInv, Published
  <2>8. QED BY <2>6, <2>7 DEF TimeInv
<1>16. CASE Denied
  <2>1. Finish(slot, window, nodes, FALSE) /\ InPass
        /\ UNCHANGED <<tip, phase, current, window, nodes, exit>>
    BY <1>16 DEF Denied, InPass, wire, held
  <2>2. window # NoWindow => window = Listing(window.start, Len(window.leaders))
    BY <1>3 DEF HeldInv
  <2>3. WireInv' /\ ThreadInv' /\ SlotInv' /\ HeldInv' /\ WindowInv' /\ WarmInv'
    BY <1>2, <1>3, <1>14, <2>1, <2>2, FinishSound
  <2>4. NodesInv'
    BY <1>3, <2>1 DEF NodesInv, Published
  <2>5. QED BY <2>3, <2>4 DEF TimeInv
\* The clock: a slot starts where the one before it ended.
<1>17. CASE Advance
  <2>1. /\ phase = SLOT /\ tip' = tip + 1 /\ phase' = 0 /\ current' = Anchored(tip + 1, current)
        /\ UNCHANGED <<window, nodes, warm, thread, waited, slot, failed, exit>>
    BY <1>17 DEF Advance, held, pass
  <2>2. Now' = Now
    <3>1. (tip + 1) * SLOT = tip * SLOT + SLOT /\ tip * SLOT \in Int
      BY <1>2
    <3>2. QED BY <2>1, <3>1 DEF Now
  <2>3. SinceLast' = SinceLast
    BY <2>1 DEF SinceLast, Spent
  <2>4. current' \in {tip + 1, current} /\ (current = tip \/ current = 0 => current' = tip + 1)
    <3>1. current' \in {tip + 1, current}
      BY <2>1, AnchoredOr
    <3>2. ASSUME current = tip \/ current = 0 PROVE current' = tip + 1
      <4>1. tip + 1 > current
        BY <1>2, <3>2
      <4>2. QED BY <2>1, <4>1 DEF Anchored, Moves
    <3>3. QED BY <3>1, <3>2
  <2>5. HeldInv' /\ WindowInv' /\ WarmInv'
    <3>1. CASE thread = "gone"
      <4>1. current # 0 => current' # 0
        BY <1>2, <2>4
      <4>2. HeldInv'
        BY <1>3, <2>1, <4>1 DEF HeldInv, Listing, LeaderOf, NoWindow
      <4>3. Warmed(warm.slot, window, warm.nodes)' = Warmed(warm.slot, window, warm.nodes)
        BY <2>1 DEF Warmed, Addresses, Covers, LeaderIn, NoWindow
      <4>4. QED BY <1>3, <2>1, <3>1, <4>1, <4>2, <4>3 DEF WindowInv, WarmInv
    <3>2. CASE thread # "gone"
      <4>1. current # 0 => current' # 0
        BY <1>2, <2>4
      <4>2. Now' - Now <= SinceLast' - SinceLast /\ SinceLast' \in Nat /\ Now' \in Nat
        BY <1>2, <2>2, <2>3
      <4>3. QED BY <1>5, <2>1, <3>2, <4>1, <4>2
    <3>3. QED BY <3>1, <3>2
  <2>6. WireInv' /\ ThreadInv' /\ NodesInv'
    BY <1>2, <1>3, <2>1, <2>4 DEF WireInv, ThreadInv, NodesInv, Published, Patience, InPass
  <2>7. SlotInv'
    <3>1. InPass /\ slot \notin STRAYS => slot <= tip + 1
      BY <1>2, <1>3 DEF SlotInv
    <3>2. QED BY <1>3, <2>1, <2>2, <3>1 DEF SlotInv, By, Spent, InPass
  <2>8. QED BY <2>5, <2>6, <2>7 DEF TimeInv
<1>18. ASSUME NEW s \in STRAYS \cup {tip}, Shred(s) PROVE TimeInv'
  <2>1. /\ current' = Anchored(s, current)
        /\ UNCHANGED <<tip, phase, window, nodes, warm, thread, waited, slot, failed, exit>>
    BY <1>18 DEF Shred, held, pass
  <2>2. current' \in {s, current}
    BY <2>1, AnchoredOr
  <2>3. s # 0
    BY DEF TypeOK
  <2>4. Now' = Now /\ SinceLast' = SinceLast
    BY <2>1 DEF Now, SinceLast, Spent
  <2>5. WireInv' /\ ThreadInv' /\ NodesInv' /\ SlotInv'
    BY <1>3, <2>1, <2>2, <2>3, <2>4 DEF WireInv, ThreadInv, NodesInv, SlotInv, Published, Patience,
                                      InPass, By, Spent
  <2>6. current # 0 => current' # 0
    BY <2>2, <2>3
  <2>7. HeldInv'
    BY <1>3, <2>1, <2>6 DEF HeldInv, Listing, LeaderOf, NoWindow
  <2>8. WindowInv'
    BY <1>3, <2>1, <2>4 DEF WindowInv, Reached, By, Left, NoWindow, PassTicks
  <2>9. WarmInv'
    <3>1. Warmed(warm.slot, window, warm.nodes)' = Warmed(warm.slot, window, warm.nodes)
      BY <2>1 DEF Warmed, Addresses, Covers, LeaderIn, NoWindow
    <3>2. QED BY <1>3, <2>1, <2>4, <2>6, <3>1 DEF WarmInv, By
  <2>10. QED BY <2>5, <2>7, <2>8, <2>9 DEF TimeInv
<1>19. CASE Tick
  <2>1. /\ phase' = Min({phase + 1, SLOT})
        /\ IF thread = "gone" THEN waited' = waited ELSE waited < Patience /\ waited' = waited + 1
        /\ UNCHANGED <<tip, current, window, nodes, warm, thread, slot, failed, exit>>
    BY <1>19 DEF Tick
  <2>2. phase' <= phase + 1 /\ phase' \in Nat
    <3>1. phase + 1 \in Int /\ SLOT \in Int
      BY <1>2
    <3>2. Min({phase + 1, SLOT}) \in {phase + 1, SLOT} /\ Min({phase + 1, SLOT}) <= phase + 1
      BY <3>1, MinOfTwo, Zenon
    <3>3. QED BY <1>2, <2>1, <3>2
  <2>3. Now' \in Nat /\ Now' - Now \in Int /\ Now' - Now <= 1
    <3> DEFINE start == tip * SLOT
               p1 == phase'
               n  == Now
               n1 == Now'
    <3>1. start \in Nat /\ phase \in Nat /\ p1 \in Nat /\ p1 <= phase + 1
          /\ n = start + phase /\ n1 = start + p1
      BY <1>2, <2>1, <2>2 DEF Now
    <3> HIDE DEF start, p1, n, n1
    <3>2. n1 \in Nat /\ n1 - n \in Int /\ n1 - n <= 1
      BY <3>1
    <3>3. QED BY <3>2 DEF n, n1
  <2>4. NodesInv' /\ WireInv' /\ ThreadInv'
    BY <1>2, <1>3, <2>1 DEF NodesInv, WireInv, ThreadInv, Published, Patience, InPass
  <2>5. CASE thread = "gone"
    <3>1. HeldInv'
      BY <1>3, <2>1 DEF HeldInv, Listing, LeaderOf, NoWindow
    <3>2. Warmed(warm.slot, window, warm.nodes)' = Warmed(warm.slot, window, warm.nodes)
      BY <2>1 DEF Warmed, Addresses, Covers, LeaderIn, NoWindow
    <3>3. WindowInv' /\ WarmInv' /\ SlotInv'
      BY <1>3, <2>1, <2>5, <3>2 DEF WindowInv, WarmInv, SlotInv, InPass
    <3>4. QED BY <2>4, <3>1, <3>3 DEF TimeInv
  <2>6. CASE thread # "gone"
    <3>1. SinceLast' = SinceLast + 1
      BY <1>2, <2>1, <2>6, <1>3 DEF SinceLast, Spent
    <3>2. HeldInv' /\ WindowInv' /\ WarmInv'
      <4> DEFINE d == Now' - Now
                 z == SinceLast
                 z1 == SinceLast'
      <4>1. d <= 1 /\ d \in Int /\ z \in Nat /\ z1 = z + 1
        BY <1>2, <2>3, <3>1
      <4> HIDE DEF d, z, z1
      <4>2. d <= z1 - z /\ z1 \in Nat
        BY <4>1
      <4>3. Now' - Now <= SinceLast' - SinceLast /\ SinceLast' \in Nat
        BY <4>2 DEF d, z, z1
      <4>4. QED BY <1>5, <2>1, <2>3, <2>6, <4>3
    <3>3. SlotInv'
      <4> SUFFICES ASSUME InPass, slot \notin STRAYS
                   PROVE  slot <= tip /\ By(Now', slot + 1, Spent(thread) + (waited + 1))
        BY <2>1, <2>6 DEF SlotInv, By, Spent, InPass
      <4> DEFINE s == slot + 1
                 t == Spent(thread) + waited
                 t1 == Spent(thread) + (waited + 1)
      <4>1. slot <= tip /\ By(Now, s, t)
        BY <1>3 DEF SlotInv
      <4>2. s \in Int /\ t \in Int /\ t1 \in Int /\ Now' - Now <= t1 - t /\ Now \in Int /\ Now' \in Int
        <5> DEFINE d == Now' - Now
                   a == Spent(thread)
        <5>1. d <= 1 /\ d \in Int /\ a \in Nat /\ waited \in Nat
          BY <1>2, <2>3
        <5> HIDE DEF d, a
        <5>2. d <= (a + (waited + 1)) - (a + waited)
          BY <5>1
        <5>3. QED BY <1>2, <2>3, <5>2 DEF d, a
      <4> HIDE DEF s, t, t1
      <4>3. By(Now', s, t1)
        BY <4>1, <4>2, ByLater
      <4>4. QED BY <4>1, <4>3 DEF s, t1
    <3>4. QED BY <2>4, <3>2, <3>3 DEF TimeInv
  <2>7. QED BY <2>5, <2>6
<1>20. ASSUME UNCHANGED <<wire, held, warm, pass, failed>>, exit' = exit \/ exit' = TRUE PROVE TimeInv'
  <2>1. /\ UNCHANGED <<tip, phase, current, window, nodes, warm, thread, waited, slot, failed>>
    BY <1>20 DEF wire, held, pass
  <2>2. Now' = Now /\ SinceLast' = SinceLast
    BY <2>1 DEF Now, SinceLast, Spent
  <2>3. WireInv' /\ ThreadInv' /\ NodesInv' /\ SlotInv'
    BY <1>3, <1>20, <2>1, <2>2 DEF WireInv, ThreadInv, NodesInv, SlotInv, Published, Patience, InPass,
                                  By, Spent
  <2>4. HeldInv' /\ WindowInv'
    BY <1>3, <2>1, <2>2 DEF HeldInv, Listing, LeaderOf, NoWindow, WindowInv, Reached, By, Left, PassTicks
  <2>5. WarmInv'
    <3>1. Warmed(warm.slot, window, warm.nodes)' = Warmed(warm.slot, window, warm.nodes)
      BY <2>1 DEF Warmed, Addresses, Covers, LeaderIn, NoWindow
    <3>2. QED BY <1>3, <2>1, <2>2, <3>1 DEF WarmInv, By
  <2>6. QED BY <2>3, <2>4, <2>5 DEF TimeInv
<1>21. CASE Stop \/ UNCHANGED vars
  BY <1>20, <1>21 DEF Stop, vars
<1>22. QED
  BY <1>6, <1>7, <1>9, <1>10, <1>12, <1>13, <1>15, <1>16, <1>17, <1>18, <1>19, <1>21 DEF Next, Pass

----------------------------------------------------------------------------
(* What a send finds.                                                       *)

\* What the window says of a slot it covers, which is so of it.
LEMMA LeaderFound ==
  ASSUME TypeOK, HeldInv, window # NoWindow,
         NEW x \in Nat, window.start <= x, x < window.start + Len(window.leaders)
  PROVE  Covers(window, x) /\ LeaderIn(window, x) = LeaderOf(x)
<1> DEFINE i == x - window.start + 1
           n == Len(window.leaders)
<1>1. window.start \in Nat /\ n \in Nat
  BY TimeFacts
<1>2. i \in 1..n /\ window.start + i - 1 = x /\ x - window.start < n
  BY <1>1
<1>3. window = Listing(window.start, n)
  BY DEF HeldInv
<1> HIDE DEF i, n
<1>4. window.leaders = [k \in 1..n |-> LeaderOf(window.start + k - 1)]
  <2>1. Listing(window.start, n).leaders = [k \in 1..n |-> LeaderOf(window.start + k - 1)]
    BY DEF Listing
  <2>2. QED BY <1>3, <2>1, Zenon
<1>5. window.leaders[i] = LeaderOf(window.start + i - 1)
  BY <1>2, <1>4
<1>6. QED BY <1>2, <1>5 DEF Covers, LeaderIn, i, n

\* No pass takes longer than its requests.
LEMMA PassBound ==
  ASSUME TypeOK, ThreadInv, thread # "gone"
  PROVE  SinceLast <= PassTicks
<1>1. waited \in Nat /\ POLL_INTERVAL \in Nat /\ RPC_TIMEOUT \in Nat
  BY TimeFacts, TpuConstants
<1>2. CASE thread = "sleeping"
  BY <1>1, <1>2 DEF ThreadInv, Patience, SinceLast, PassTicks
<1>3. CASE thread # "sleeping"
  <2>1. waited <= RPC_TIMEOUT /\ Spent(thread) <= 3 * RPC_TIMEOUT /\ Spent(thread) \in Nat
    BY <1>1, <1>3 DEF ThreadInv, Patience, Spent
  <2>2. QED BY <1>1, <1>3, <2>1 DEF SinceLast, PassTicks
<1>4. QED BY <1>2, <1>3

\* The window still covers the slot on the wire.
LEMMA WindowLasts ==
  ASSUME TypeOK, TimeInv, window # NoWindow, window.start \notin STRAYS, Lasts(window),
         failed <= 1, ~exit
  PROVE  window.start <= tip /\ tip < window.start + Len(window.leaders)
<1>1. thread # "gone"
  BY DEF TimeInv, ThreadInv
<1>2. /\ tip \in Nat /\ phase \in Nat /\ Now \in Nat /\ SinceLast \in Nat
      /\ window.start \in Nat /\ Len(window.leaders) \in Nat /\ PassTicks \in Nat
      /\ RPC_TIMEOUT \in Nat
  BY TimeFacts, TpuConstants
<1>3. SinceLast <= PassTicks
  BY <1>1, PassBound DEF TimeInv
<1> DEFINE t  == (IF failed = 0 THEN 0 ELSE PassTicks) + SinceLast
           t1 == 2 * PassTicks
<1>4. window.start <= tip /\ Reached(Now, window, t)
  BY <1>1 DEF TimeInv, WindowInv
<1>5. t \in Int /\ t1 \in Int /\ Now - Now <= t1 - t
  BY <1>2, <1>3
<1>6. Reached(Now, window, t1)
  <2> HIDE DEF t, t1
  <2>1. QED BY <1>2, <1>4, <1>5, ReachedLater
<1> DEFINE left == Left(window)
           len  == Len(window.leaders)
           a    == 4 * RPC_TIMEOUT + t1
           b    == RPC_TIMEOUT + t1
           r    == window.start + 1
           s    == window.start + len - left
<1>7. /\ left \in Nat /\ len \in Nat /\ a \in Nat /\ b \in Nat /\ r \in Int /\ s \in Int
      /\ tip * SLOT + phase = Now
  <2>1. left \in Nat
    BY <1>2, LeftBounds
  <2>2. QED BY <1>2, <2>1 DEF Now
<1>8. SlotsIn(a) < len /\ SlotsIn(b) < left
  BY DEF Lasts, Left
<1>9. By(Now, r, a) \/ By(Now, s, b)
  BY <1>6 DEF Reached
<1>10. tip < r + SlotsIn(a) \/ tip < s + SlotsIn(b)
  <2> HIDE DEF a, b, r, s
  <2>1. By(tip * SLOT + phase, r, a) \/ By(tip * SLOT + phase, s, b)
    BY <1>7, <1>9
  <2>2. QED BY <1>2, <1>7, <2>1, ByBound
<1>11. SlotsIn(a) \in Nat /\ SlotsIn(b) \in Nat
  <2> HIDE DEF a, b
  <2>1. QED BY <1>7, Division, TpuConstants DEF SlotsIn
<1>12. tip < window.start + len
  <2> DEFINE na == SlotsIn(a)
             nb == SlotsIn(b)
  <2>1. /\ na \in Nat /\ nb \in Nat /\ na < len /\ nb < left
        /\ tip < window.start + 1 + na \/ tip < window.start + len - left + nb
    BY <1>8, <1>10, <1>11
  <2> HIDE DEF na, nb, left, len
  <2>2. QED BY <1>2, <1>7, <2>1, SMTT(60)
<1>13. QED BY <1>4, <1>12

\* "One failed fetch costs a retry rather than a blind stretch of slots", for
\* every window that lasts.
THEOREM OneFailureIsSurvived == Spec => []OneFailureSurvived
<1>1. TypeOK /\ TimeInv => OneFailureSurvived
  <2> SUFFICES ASSUME TypeOK, TimeInv, window # NoWindow, window.start \notin STRAYS, Lasts(window),
                      failed <= 1, nodes # {}, ~exit,
                      NEW s \in Max({1, tip - FANOUT + 1})..tip
               PROVE  LeaderOf(tip) \in Addresses(window, nodes, s, FANOUT) \cup UNPUBLISHED
    BY DEF OneFailureSurvived, Aimed
  <2>1. tip \in Nat /\ FANOUT \in Nat
    BY TimeFacts, TpuConstants
  <2>2. Covers(window, tip) /\ LeaderIn(window, tip) = LeaderOf(tip)
    BY <2>1, WindowLasts, LeaderFound DEF TimeInv
  <2>3. nodes = Validators \ UNPUBLISHED
    BY DEF TimeInv, NodesInv, Published, Validators
  <2>4. LeaderOf(tip) \in Validators
    BY <2>1, LeaderTyped
  <2>5. tip \in s..(s + FANOUT - 1)
    <3> DEFINE f == tip - FANOUT + 1
    <3>1. 1 \in Int /\ f \in Int
      BY <2>1
    <3> HIDE DEF f
    <3>2. Max({1, f}) \in {1, f} /\ Max({1, f}) >= f
      BY <3>1, MaxOfTwo, Zenon
    <3>3. s \in Max({1, f})..tip
      BY DEF f
    <3>4. s \in Int /\ s >= f /\ s <= tip
      BY <2>1, <3>1, <3>2, <3>3
    <3>5. QED BY <2>1, <3>4 DEF f
  <2>6. QED BY <2>2, <2>3, <2>4, <2>5 DEF Addresses
<1>2. TypeOK /\ TimeInv /\ [Next]_vars => TypeOK' /\ TimeInv'
  BY TypeStep, TimeStep
<1>3. QED BY <1>1, <1>2, TpuInit, TimeInit, PTL DEF Spec

\* A send finds its connections up, for every number of slots kept warm that
\* outlasts two passes.
THEOREM AimIsWarm == Spec => []AimWarm
<1>1. TypeOK /\ TimeInv => AimWarm
  <2> DEFINE e == PassTicks + 4 * RPC_TIMEOUT
  <2> SUFFICES ASSUME TypeOK, TimeInv, warm.slot \notin STRAYS \cup {0}, warm.nodes = nodes, ~exit,
                      SlotsIn(e) + FANOUT <= WARM_SLOTS,
                      NEW s \in tip..(tip + FANOUT - 1), Covers(window, s), LeaderOf(s) \in nodes
               PROVE  LeaderOf(s) \in warm.to
    BY DEF AimWarm
  <2>1. /\ tip \in Nat /\ phase \in Nat /\ Now \in Nat /\ SinceLast \in Nat /\ PassTicks \in Nat
        /\ RPC_TIMEOUT \in Nat /\ FANOUT \in Nat /\ WARM_SLOTS \in Nat
    BY TimeFacts, TpuConstants
  <2>2. thread # "gone"
    BY DEF TimeInv, ThreadInv
  <2>3. SinceLast <= PassTicks
    BY <2>2, PassBound DEF TimeInv
  <2>4. warm.slot <= tip /\ By(Now, warm.slot + 1, 4 * RPC_TIMEOUT + SinceLast) /\ warm.slot \in Nat
        /\ warm.to = Warmed(warm.slot, window, warm.nodes)
    BY <2>2 DEF TimeInv, WarmInv
  <2>5. tip < warm.slot + 1 + SlotsIn(e)
    <3> DEFINE r == warm.slot + 1
               t == 4 * RPC_TIMEOUT + SinceLast
    <3>1. t \in Int /\ e \in Nat /\ Now - Now <= e - t /\ r \in Int /\ By(Now, r, t)
      BY <2>1, <2>3, <2>4
    <3>2. Now = tip * SLOT + phase
      BY DEF Now
    <3> HIDE DEF r, t, e
    <3>3. By(tip * SLOT + phase, r, e)
      BY <2>1, <3>1, <3>2, ByLater
    <3>4. tip < r + SlotsIn(e)
      BY <2>1, <3>1, <3>3, ByBound
    <3>5. QED BY <3>4 DEF r
  <2>6. SlotsIn(e) \in Nat
    <3>1. e \in Nat
      BY <2>1
    <3> HIDE DEF e
    <3>2. QED BY <3>1, Division, TpuConstants DEF SlotsIn
  <2>7. s \in warm.slot..(warm.slot + WARM_SLOTS - 1) /\ s \in Nat
    <3> DEFINE n == SlotsIn(e)
    <3>1. n \in Nat /\ tip < warm.slot + 1 + n /\ n + FANOUT <= WARM_SLOTS
      BY <2>5, <2>6
    <3> HIDE DEF n
    <3>2. QED BY <2>1, <2>4, <3>1
  <2>8. LeaderIn(window, s) = LeaderOf(s)
    <3>1. window # NoWindow /\ window.start \in Nat /\ Len(window.leaders) \in Nat
          /\ window.start <= s /\ s < window.start + Len(window.leaders)
      BY <2>7, TimeFacts DEF Covers
    <3>2. QED BY <2>7, <3>1, LeaderFound DEF TimeInv
  <2>9. LeaderOf(s) \in Addresses(window, nodes, warm.slot, WARM_SLOTS)
    BY <2>7, <2>8 DEF Addresses
  <2>10. QED BY <2>4, <2>9 DEF Warmed
<1>2. TypeOK /\ TimeInv /\ [Next]_vars => TypeOK' /\ TimeInv'
  BY TypeStep, TimeStep
<1>3. QED BY <1>1, <1>2, TpuInit, TimeInit, PTL DEF Spec
=============================================================================
