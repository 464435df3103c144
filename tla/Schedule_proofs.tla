---------------------------- MODULE Schedule_proofs ----------------------------
(***************************************************************************)
(* Proofs about the leader schedule, for every duration, lag, epoch, width *)
(* of window and cap: what a window says of the cluster; that the          *)
(* refresher keeps what Schedule promises the packet path, and that one    *)
(* failed fetch leaves no blind stretch; and that the check calls no shred *)
(* of a leader's forged and no other signed.                               *)
(***************************************************************************)
EXTENDS Leaders, Verify, TLAPS

----------------------------------------------------------------------------
(* What Max, Min, products and division make of an order.                 *)

\* The smaller of two integers is one of them and no larger than the other.
LEMMA MinOfTwo ==
  ASSUME NEW a \in Int, NEW b \in Int
  PROVE  Min({a, b}) \in {a, b} /\ Min({a, b}) <= a /\ Min({a, b}) <= b
<1>1. \E x \in {a, b} : \A y \in {a, b} : x <= y
  <2>1. CASE a <= b BY <2>1
  <2>2. CASE b < a BY <2>2
  <2>3. QED BY <2>1, <2>2
<1>2. QED BY <1>1 DEF Min

\* The larger of two integers is one of them and no smaller than either.
LEMMA MaxOfTwo ==
  ASSUME NEW a \in Int, NEW b \in Int
  PROVE  Max({a, b}) \in {a, b} /\ Max({a, b}) >= a /\ Max({a, b}) >= b
<1>1. \E x \in {a, b} : \A y \in {a, b} : x >= y
  <2>1. CASE a >= b BY <2>1
  <2>2. CASE b > a BY <2>2
  <2>3. QED BY <2>1, <2>2
<1>2. QED BY <1>1 DEF Max

\* And of three.
LEMMA MaxOfThree ==
  ASSUME NEW a \in Int, NEW b \in Int, NEW c \in Int
  PROVE  /\ Max({a, b, c}) \in {a, b, c}
         /\ Max({a, b, c}) >= a /\ Max({a, b, c}) >= b /\ Max({a, b, c}) >= c
<1>1. \E x \in {a, b, c} : \A y \in {a, b, c} : x >= y
  <2>1. CASE a >= b /\ a >= c BY <2>1
  <2>2. CASE b >= a /\ b >= c BY <2>2
  <2>3. CASE c >= a /\ c >= b BY <2>3
  <2>4. QED BY <2>1, <2>2, <2>3
<1>2. QED BY <1>1 DEF Max

\* What division leaves over is less than what was divided by.
LEMMA Division ==
  ASSUME NEW a \in Nat, NEW k \in Nat \ {0}
  PROVE  /\ a \div k \in Nat
         /\ (a \div k) * k <= a
         /\ a < (a \div k) * k + k
OBVIOUS

\* A product keeps the order of what is multiplied.
LEMMA Monotone ==
  ASSUME NEW x \in Int, NEW y \in Int, NEW k \in Nat \ {0}, x <= y
  PROVE  x * k <= y * k
<1>1. (y - x) * k >= 0
  OBVIOUS
<1>2. (y - x) * k = y * k - x * k
  OBVIOUS
<1>3. x * k \in Int /\ y * k \in Int
  OBVIOUS
<1>4. QED BY <1>1, <1>2, <1>3

\* As many as fit into a whole are no more than the whole divided by one of them.
LEMMA WholeFits ==
  ASSUME NEW x \in Int, NEW a \in Nat, NEW k \in Nat \ {0}, x * k <= a
  PROVE  x <= a \div k
<1> DEFINE q == a \div k
<1>1. q \in Nat /\ a < q * k + k
  BY Division
<1> HIDE DEF q
<1>2. SUFFICES ASSUME x >= q + 1 PROVE FALSE
  BY <1>1 DEF q
<1>3. (q + 1) * k <= x * k
  BY <1>1, <1>2, Monotone
<1>4. (q + 1) * k = q * k + k
  BY <1>1
<1>5. x * k \in Int /\ q * k \in Int
  BY <1>1
<1>6. QED BY <1>1, <1>3, <1>4, <1>5

\* Nor does rounding down to a multiple change the order.
LEMMA RoundedInOrder ==
  ASSUME NEW a \in Nat, NEW b \in Nat, NEW k \in Nat \ {0}, a <= b
  PROVE  a - (a % k) <= b - (b % k)
<1> DEFINE p == a \div k
           q == b \div k
<1>1. a - (a % k) = p * k /\ b - (b % k) = q * k
  OBVIOUS
<1>2. p \in Nat /\ p * k <= a
  BY Division
<1>3. q \in Nat
  BY Division
<1>4. p * k \in Int
  BY <1>2
<1>5. p * k <= b
  <2> HIDE DEF p
  <2>1. QED BY <1>2, <1>4
<1>6. p <= q
  <2> HIDE DEF p
  <2>1. QED BY <1>2, <1>5, WholeFits
<1>7. p * k <= q * k
  <2> HIDE DEF p, q
  <2>1. QED BY <1>2, <1>3, <1>6, Monotone
<1>8. QED BY <1>1, <1>7

----------------------------------------------------------------------------
(* The constants.                                                           *)

LEMMA ScheduleConstants ==
  /\ SLOT \in Nat \ {0} /\ EPOCH \in Nat \ {0}
  /\ RPC_TIMEOUT \in Nat /\ LAG \in Nat /\ BACKFILL_SLOTS \in Nat
  /\ FIRST_SLOTS \subseteq Nat
  /\ Width \in Nat \ {0} /\ BACKFILL_SLOTS + LAG + 1 < Width
<1>1. WINDOW_SLOTS \in Nat \ {0} /\ EPOCH \in Nat \ {0}
  BY ScheduleAssumption
<1>2. Width \in {WINDOW_SLOTS, EPOCH}
  BY <1>1, MinOfTwo DEF Width
<1>3. QED BY <1>1, <1>2, ScheduleAssumption

----------------------------------------------------------------------------
(* How far the cluster can have got.                                        *)

\* Time carries the bound along, and so does a slot the cluster took its time
\* over.
LEMMA TrailsOn ==
  ASSUME NEW x \in Int, NEW age \in Nat, NEW p \in Nat,
         x <= 0 \/ (x - 1) * SLOT + p <= age
  PROVE  /\ x <= 0 \/ (x - 1) * SLOT + (p + 1) <= age + 1
         /\ p >= SLOT => x + 1 <= 0 \/ ((x + 1) - 1) * SLOT + 0 <= age
<1>1. SLOT \in Nat
  BY ScheduleConstants
<1>2. (x - 1) * SLOT \in Int /\ x * SLOT \in Int /\ x * SLOT = (x - 1) * SLOT + SLOT
  BY <1>1
<1>3. x <= 0 => x + 1 <= 0 \/ x * SLOT = 0
  BY <1>1
<1>4. (x + 1) - 1 = x
  OBVIOUS
<1>5. QED BY <1>1, <1>2, <1>3, <1>4

\* The further something is behind, the longer it took.
LEMMA TrailsLess ==
  ASSUME NEW x \in Int, NEW y \in Int, x <= y, NEW a \in Nat, phase \in Nat, Trails(y, a)
  PROVE  Trails(x, a)
<1>1. (x - 1) * SLOT <= (y - 1) * SLOT
  BY ScheduleConstants, Monotone
<1>2. (x - 1) * SLOT \in Int /\ (y - 1) * SLOT \in Int
  BY ScheduleConstants
<1>3. QED BY <1>1, <1>2 DEF Trails

\* A slot the cluster cannot yet have reached is not trailed by that much.
LEMMA TrailsBound ==
  ASSUME NEW x \in Int, NEW age \in Nat, NEW n \in Nat, phase \in Nat,
         Trails(x, age), age < n * SLOT
  PROVE  x <= n
<1>1. SUFFICES ASSUME n <= x - 1 PROVE FALSE
  OBVIOUS
<1>2. n * SLOT <= (x - 1) * SLOT
  BY <1>1, ScheduleConstants, Monotone
<1>3. n * SLOT \in Int /\ (x - 1) * SLOT \in Int
  BY ScheduleConstants
<1>4. (x - 1) * SLOT + phase <= age
  BY <1>1 DEF Trails
<1>5. QED BY <1>2, <1>3, <1>4

----------------------------------------------------------------------------
(* Where fetch makes a window start.                                        *)

LEMMA StartBounds ==
  ASSUME NEW slot \in Nat
  PROVE  /\ Start(EpochInfo(slot)) \in 0..slot
         /\ Start(EpochInfo(slot)) \in {0, slot - BACKFILL_SLOTS, slot - (slot % EPOCH)}
         /\ Start(EpochInfo(slot)) >= slot - BACKFILL_SLOTS
         /\ Start(EpochInfo(slot)) >= slot - (slot % EPOCH)
<1> DEFINE b == slot - BACKFILL_SLOTS
           e == slot - (slot % EPOCH)
<1>1. b \in Int /\ b <= slot /\ e \in Int /\ e <= slot
  BY ScheduleConstants
<1>2. Start(EpochInfo(slot)) = Max({0, b, e})
  BY DEF Start, EpochStart, EpochInfo
<1> HIDE DEF e
<1>3. /\ Max({0, b, e}) \in {0, b, e} /\ Max({0, b, e}) >= 0
      /\ Max({0, b, e}) >= b /\ Max({0, b, e}) >= e
  <2>1. 0 \in Int
    OBVIOUS
  <2> HIDE DEF b
  <2>2. QED BY <1>1, <2>1, MaxOfThree, Zenon
<1>4. QED BY <1>1, <1>2, <1>3 DEF e

\* A window asked for later starts no earlier.
LEMMA StartsInOrder ==
  ASSUME NEW a \in Nat, NEW b \in Nat, a <= b
  PROVE  Start(EpochInfo(a)) <= Start(EpochInfo(b))
<1> DEFINE ea == a - (a % EPOCH)
           eb == b - (b % EPOCH)
           sa == Start(EpochInfo(a))
           sb == Start(EpochInfo(b))
<1>1. ea <= eb
  BY ScheduleConstants, RoundedInOrder
<1>2. sa \in {0, a - BACKFILL_SLOTS, ea} /\ sa \in Int
  BY StartBounds
<1>3. sb \in Int /\ sb >= 0 /\ sb >= b - BACKFILL_SLOTS /\ sb >= eb
  BY StartBounds
<1>4. ea \in Int /\ eb \in Int /\ BACKFILL_SLOTS \in Nat
  BY ScheduleConstants
<1> HIDE DEF ea, eb, sa, sb
<1>5. sa <= sb
  BY <1>1, <1>2, <1>3, <1>4
<1>6. QED BY <1>5 DEF sa, sb

----------------------------------------------------------------------------
(* The window in hand.                                                      *)

ClusterInv == tip \in Nat /\ phase \in Nat

\* A window starts behind the cluster: no further than what the RPC trailed by
\* and the backfill, and what the cluster has moved since; and no later than one
\* asked for now would.
WindowInv ==
  window # NoWindow =>
    /\ window = [start   |-> window.start,
                 leaders |-> [i \in 1..Width |-> LeaderOf(window.start + i - 1)],
                 age     |-> window.age]
    /\ window.start \in Nat /\ window.age \in Nat
    /\ window.start <= Start(EpochInfo(tip))
    /\ Trails(tip - LAG - BACKFILL_SLOTS - window.start, window.age)

ScheduleInv == ClusterInv /\ WindowInv

LEMMA WindowLength ==
  ASSUME WindowInv, window # NoWindow
  PROVE  Len(window.leaders) = Width
BY ScheduleConstants DEF WindowInv

LEMMA WindowBehind ==
  ASSUME ScheduleInv, window # NoWindow
  PROVE  window.start \in 0..tip
<1>1. Start(EpochInfo(tip)) \in 0..tip
  BY StartBounds DEF ScheduleInv, ClusterInv
<1>2. QED BY <1>1 DEF ScheduleInv, ClusterInv, WindowInv

LEMMA ScheduleInit == InitSchedule => ScheduleInv
BY ScheduleConstants DEF InitSchedule, ScheduleInv, ClusterInv, WindowInv

\* What is published starts where WindowInv says.
LEMMA SwapSound == ScheduleInv /\ Swap => WindowInv'
<1> SUFFICES ASSUME ScheduleInv, Swap PROVE WindowInv'
  OBVIOUS
<1>1. PICK past \in 0..(2 * RPC_TIMEOUT) : \E slot \in Named(past) :
             window' = Fetched(EpochInfo(slot), past)
  BY DEF Swap
<1>2. PICK slot \in Named(past) : window' = Fetched(EpochInfo(slot), past)
  BY <1>1
<1>3. slot \in 0..tip /\ Trails(tip - LAG - slot, past)
  BY <1>2 DEF Named
<1>4. past \in Nat /\ tip \in Nat /\ phase \in Nat /\ UNCHANGED <<tip, phase>>
  BY ScheduleConstants DEF Swap, cluster, ScheduleInv, ClusterInv
<1> DEFINE start == Start(EpochInfo(slot))
<1>5. start \in Nat /\ start >= slot - BACKFILL_SLOTS
  BY <1>3, <1>4, StartBounds
<1>6. start <= Start(EpochInfo(tip))
  BY <1>3, <1>4, StartsInOrder
<1>7. /\ window'.start = start /\ window'.age = past
      /\ window'.leaders = [i \in 1..Width |-> LeaderOf(start + i - 1)]
      /\ window' = [start |-> start, leaders |-> window'.leaders, age |-> past]
  BY <1>2 DEF Fetched
<1>8. Start(EpochInfo(tip))' = Start(EpochInfo(tip))
  BY <1>4
<1> HIDE DEF start
<1>9. Trails(tip - LAG - BACKFILL_SLOTS - start, past)
  <2>1. tip - LAG - BACKFILL_SLOTS - start <= tip - LAG - slot
        /\ tip - LAG - BACKFILL_SLOTS - start \in Int /\ tip - LAG - slot \in Int
    BY <1>3, <1>4, <1>5, ScheduleConstants
  <2>2. QED BY <1>3, <1>4, <2>1, TrailsLess
<1>10. Trails(tip - LAG - BACKFILL_SLOTS - window.start, window.age)'
  BY <1>4, <1>7, <1>9 DEF Trails
<1>11. [i \in 1..Width |-> LeaderOf(window.start + i - 1)]' = window'.leaders
  BY <1>7 DEF LeaderOf
<1>12. QED BY <1>4, <1>5, <1>6, <1>7, <1>8, <1>10, <1>11 DEF WindowInv

\* A slot the cluster moves on, in its time.
LEMMA AdvanceSound == ScheduleInv /\ Advance => WindowInv'
<1> SUFFICES ASSUME ScheduleInv, Advance, window # NoWindow PROVE WindowInv'
  BY DEF Advance, WindowInv, NoWindow
<1>1. tip' = tip + 1 /\ phase' = 0 /\ phase >= SLOT /\ window' = window
  BY DEF Advance
<1>2. tip \in Nat /\ phase \in Nat
  BY DEF ScheduleInv, ClusterInv
<1>3. WindowInv
  BY DEF ScheduleInv
<1> DEFINE x == tip - LAG - BACKFILL_SLOTS - window.start
<1>4. x \in Int /\ tip' - LAG - BACKFILL_SLOTS - window'.start = x + 1
  BY <1>1, <1>2, <1>3, ScheduleConstants, SMTT(60) DEF WindowInv
<1>5. Trails(x, window.age) /\ window.age \in Nat
  BY <1>3 DEF WindowInv
<1>6. x + 1 <= 0 \/ ((x + 1) - 1) * SLOT + 0 <= window.age
  BY <1>1, <1>2, <1>4, <1>5, TrailsOn DEF Trails
<1>7. Trails(tip - LAG - BACKFILL_SLOTS - window.start, window.age)'
  BY <1>1, <1>4, <1>6 DEF Trails
<1>8. window.start <= Start(EpochInfo(tip + 1))
  <2>1. Start(EpochInfo(tip)) <= Start(EpochInfo(tip + 1))
    BY <1>2, StartsInOrder
  <2>2. Start(EpochInfo(tip)) \in Int /\ Start(EpochInfo(tip + 1)) \in Int
    BY <1>2, StartBounds
  <2>3. QED BY <1>3, <2>1, <2>2 DEF WindowInv
<1>9. Start(EpochInfo(tip))' = Start(EpochInfo(tip + 1))
  BY <1>1
<1>10. [i \in 1..Width |-> LeaderOf(window.start + i - 1)]'
       = [i \in 1..Width |-> LeaderOf(window.start + i - 1)]
  BY <1>1 DEF LeaderOf
<1>11. QED BY <1>1, <1>3, <1>7, <1>8, <1>9, <1>10 DEF WindowInv

LEMMA TickSound == ScheduleInv /\ Tick => WindowInv'
<1> SUFFICES ASSUME ScheduleInv, Tick, window # NoWindow PROVE WindowInv'
  BY DEF Tick, WindowInv, NoWindow
<1>1. phase' = phase + 1 /\ tip' = tip /\ window' = [window EXCEPT !.age = @ + 1]
  BY DEF Tick
<1>2. tip \in Nat /\ phase \in Nat
  BY DEF ScheduleInv, ClusterInv
<1>3. WindowInv
  BY DEF ScheduleInv
<1>4. window' = [start |-> window.start, leaders |-> window.leaders, age |-> window.age + 1]
      /\ window.leaders = [i \in 1..Width |-> LeaderOf(window.start + i - 1)]
  BY <1>1, <1>3 DEF WindowInv
<1> DEFINE x == tip - LAG - BACKFILL_SLOTS - window.start
<1>5. x \in Int /\ tip' - LAG - BACKFILL_SLOTS - window'.start = x
  BY <1>1, <1>2, <1>3, <1>4, ScheduleConstants DEF WindowInv
<1>6. Trails(x, window.age) /\ window.age \in Nat /\ window.start \in Nat
  BY <1>3 DEF WindowInv
<1>7. x <= 0 \/ (x - 1) * SLOT + (phase + 1) <= window.age + 1
  BY <1>2, <1>5, <1>6, TrailsOn DEF Trails
<1>8. Trails(tip - LAG - BACKFILL_SLOTS - window.start, window.age)'
  BY <1>1, <1>4, <1>5, <1>7 DEF Trails
<1>9. window'.start = window.start /\ Start(EpochInfo(tip))' = Start(EpochInfo(tip))
  BY <1>1, <1>4
<1>10. [i \in 1..Width |-> LeaderOf(window.start + i - 1)]' = window'.leaders
  BY <1>4, <1>9 DEF LeaderOf
<1>11. QED BY <1>3, <1>4, <1>6, <1>8, <1>9, <1>10 DEF WindowInv

LEMMA ScheduleStep == ScheduleInv /\ [NextSchedule]_<<tip, phase, window>> => ScheduleInv'
<1> SUFFICES ASSUME ScheduleInv, [NextSchedule]_<<tip, phase, window>> PROVE ScheduleInv'
  OBVIOUS
<1>1. ClusterInv'
  BY DEF ScheduleInv, ClusterInv, NextSchedule, Advance, Tick, Swap, cluster
<1>2. CASE UNCHANGED <<tip, phase, window>>
  <2>1. WindowInv' <=> WindowInv
    BY <1>2 DEF WindowInv, Trails, LeaderOf, NoWindow
  <2>2. QED BY <1>1, <2>1 DEF ScheduleInv
<1>3. QED BY <1>1, <1>2, SwapSound, AdvanceSound, TickSound DEF ScheduleInv, NextSchedule

\* Whatever windows are swapped in and however slow the cluster is, the window in
\* hand starts where WindowInv says.
THEOREM WindowTracks == ScheduleSpec => []ScheduleInv
BY ScheduleInit, ScheduleStep, PTL DEF ScheduleSpec

----------------------------------------------------------------------------
(* The refresher.                                                          *)

LEMMA Constants ==
  /\ SLOT \in Nat \ {0} /\ EPOCH \in Nat \ {0} /\ POLL_INTERVAL \in Nat \ {0}
  /\ RPC_TIMEOUT \in Nat /\ LAG \in Nat /\ BACKFILL_SLOTS \in Nat
  /\ FIRST_SLOTS \subseteq Nat
  /\ Width \in Nat \ {0}
BY ScheduleConstants, LeadersAssumption

----------------------------------------------------------------------------
(* One pass over the RPC.                                                   *)

PassInv ==
  /\ tip \in Nat /\ phase \in Nat /\ waited \in Nat /\ since \in Nat
  /\ failed \in 0..MANY /\ exit \in BOOLEAN
  /\ thread \in {"sleeping", "locating", "listing", "gone"}
  /\ thread = "sleeping" => since = 0 /\ waited <= POLL_INTERVAL
  /\ thread = "locating" => since = waited /\ waited <= RPC_TIMEOUT
  /\ thread = "listing" =>
       /\ waited <= RPC_TIMEOUT /\ waited <= since /\ since <= RPC_TIMEOUT + waited
       /\ \E slot \in 0..tip : epoch = EpochInfo(slot) /\ Trails(tip - LAG - slot, waited)
  /\ thread = "gone" => exit

LEMMA PassInit == Init => PassInv
<1> SUFFICES ASSUME Init PROVE PassInv
  OBVIOUS
<1>1. tip \in Nat /\ phase = 0
  BY Constants DEF Init, InitSchedule
<1>2. POLL_INTERVAL \in Nat
  BY Constants
<1>3. waited \in Nat /\ waited <= POLL_INTERVAL /\ since = 0 /\ failed \in 0..MANY
  BY <1>2 DEF Init, MANY
<1>4. thread = "sleeping" /\ exit = FALSE
  BY DEF Init
<1>5. QED BY <1>1, <1>3, <1>4 DEF PassInv

\* Every step of the thread and of the cluster keeps PassInv.
LEMMA PassStep == PassInv /\ [Next]_vars => PassInv'
<1> USE Constants DEF PassInv
<1> SUFFICES ASSUME PassInv, [Next]_vars PROVE PassInv'
  OBVIOUS
<1>1. CASE Leave
  BY <1>1 DEF Leave, Awake, cluster
<1>2. CASE Ask
  BY <1>2 DEF Ask, Awake, cluster
<1>3. CASE Keep
  BY <1>3 DEF Keep, Awake, cluster
<1>4. ASSUME NEW slot \in 0..tip, Located(slot) PROVE PassInv'
  <2>1. slot >= tip - LAG
    <3>1. slot \in Max({0, tip - LAG})..tip
      BY <1>4 DEF Located
    <3>2. tip - LAG \in Int /\ 0 \in Int
      OBVIOUS
    <3>3. Max({0, tip - LAG}) >= tip - LAG /\ Max({0, tip - LAG}) \in {0, tip - LAG}
      BY <3>2, MaxOfTwo, Zenon
    <3>4. QED BY <3>1, <3>2, <3>3
  <2>2. epoch' = EpochInfo(slot) /\ UNCHANGED <<tip, phase, since, failed, exit>>
    BY <1>4 DEF Located, cluster
  <2>3. thread = "locating" /\ thread' = "listing" /\ waited' = 0
    BY <1>4 DEF Located
  <2>4. EpochInfo(slot)' = EpochInfo(slot)
    BY DEF EpochInfo
  <2>5. Trails(tip - LAG - slot, waited)'
    BY <2>1, <2>2 DEF Trails
  <2>6. QED BY <2>2, <2>3, <2>4, <2>5
<1>5. CASE Listed
  BY <1>5 DEF Listed, Done, cluster, MANY
<1>6. CASE Failed
  <2>1. Min({failed + 1, MANY}) \in 0..MANY
    <3>1. failed + 1 \in Nat /\ MANY \in Nat
      BY DEF MANY
    <3>2. Min({failed + 1, MANY}) \in {failed + 1, MANY} /\ Min({failed + 1, MANY}) <= MANY
      <4>1. failed + 1 \in Int /\ MANY \in Int
        BY <3>1
      <4>2. QED BY <4>1, MinOfTwo, Zenon
    <3>3. QED BY <3>1, <3>2
  <2>2. QED BY <1>6, <2>1 DEF Failed, Done, cluster
<1>7. CASE Moves
  <2>1. tip' = tip + 1 /\ phase' = 0 /\ phase >= SLOT
        /\ UNCHANGED <<thread, waited, since, epoch, failed, exit>>
    BY <1>7 DEF Moves, Advance, pass
  <2>2. ASSUME NEW slot \in 0..tip, Trails(tip - LAG - slot, waited)
        PROVE  Trails(tip - LAG - slot, waited)'
    <3> DEFINE x == tip - LAG - slot
    <3>1. x + 1 <= 0 \/ ((x + 1) - 1) * SLOT + 0 <= waited
      BY <2>1, <2>2, TrailsOn DEF Trails
    <3>2. tip' - LAG - slot = x + 1
      BY <2>1
    <3>3. QED BY <2>1, <3>1, <3>2 DEF Trails
  <2>3. QED BY <2>1, <2>2 DEF EpochInfo
<1>8. CASE Waits
  <2>1. phase' = phase + 1 /\ UNCHANGED <<tip, thread, epoch, failed, exit>>
    BY <1>8 DEF Waits, Tick
  <2>2. since' = IF thread \in {"locating", "listing"} THEN since + 1 ELSE since
    BY <1>8 DEF Waits
  <2>3. IF thread = "gone" THEN waited' = waited
        ELSE waited < Patience /\ waited' = waited + 1
    BY <1>8 DEF Waits
  <2>4. thread = "listing" => PassInv'
    <3> SUFFICES ASSUME thread = "listing" PROVE PassInv'
      OBVIOUS
    <3>1. waited < RPC_TIMEOUT /\ waited' = waited + 1 /\ since' = since + 1
      BY <2>2, <2>3 DEF Patience
    <3>2. PICK slot \in 0..tip : epoch = EpochInfo(slot) /\ Trails(tip - LAG - slot, waited)
      OBVIOUS
    <3>3. Trails(tip - LAG - slot, waited)'
      <4> DEFINE x == tip - LAG - slot
      <4>1. x <= 0 \/ (x - 1) * SLOT + (phase + 1) <= waited + 1
        BY <3>2, TrailsOn DEF Trails
      <4>2. QED BY <2>1, <3>1, <4>1 DEF Trails
    <3>4. EpochInfo(slot)' = EpochInfo(slot)
      BY DEF EpochInfo
    <3>5. QED BY <2>1, <3>1, <3>2, <3>3, <3>4
  <2>5. QED BY <2>1, <2>2, <2>3, <2>4 DEF Patience
<1>9. CASE Stop
  BY <1>9 DEF Stop, cluster, pass, EpochInfo, Trails
<1>10. CASE UNCHANGED vars
  BY <1>10 DEF vars, cluster, pass, EpochInfo, Trails
<1>11. QED BY <1>1, <1>2, <1>3, <1>4, <1>5, <1>6, <1>7, <1>8, <1>9, <1>10 DEF Next

\* A step of the thread is one of Schedule's, or leaves the window alone.
LEMMA PassPromised ==
  PassInv /\ [Next]_vars => [NextSchedule]_<<tip, phase, window>>
<1> SUFFICES ASSUME PassInv, [Next]_vars
             PROVE  NextSchedule \/ UNCHANGED <<tip, phase, window>>
  OBVIOUS
<1>1. CASE Listed
  <2>1. PICK slot \in 0..tip : epoch = EpochInfo(slot) /\ Trails(tip - LAG - slot, waited)
    BY <1>1 DEF Listed, PassInv
  <2>2. since \in 0..(2 * RPC_TIMEOUT) /\ waited <= since
    BY <1>1, Constants DEF Listed, PassInv
  <2>3. Trails(tip - LAG - slot, since)
    <3>1. (tip - LAG - slot - 1) * SLOT \in Int
      BY Constants DEF PassInv
    <3>2. QED BY <2>1, <2>2, <3>1 DEF Trails, PassInv
  <2>4. slot \in Named(since)
    BY <2>1, <2>3 DEF Named
  <2>5. window' = Fetched(EpochInfo(slot), since) /\ UNCHANGED cluster
    BY <1>1, <2>1 DEF Listed, Done
  <2>6. QED BY <2>2, <2>4, <2>5 DEF NextSchedule, Swap
<1>2. CASE Leave \/ Ask \/ Keep \/ (\E slot \in 0..tip : Located(slot)) \/ Failed \/ Stop
  BY <1>2 DEF Leave, Ask, Keep, Located, Failed, Done, Stop, cluster
<1>3. CASE Moves
  BY <1>3 DEF Moves, NextSchedule
<1>4. CASE Waits
  BY <1>4 DEF Waits, NextSchedule
<1>5. CASE UNCHANGED vars
  BY <1>5 DEF vars, cluster
<1>6. QED BY <1>1, <1>2, <1>3, <1>4, <1>5 DEF Next

\* The refresher keeps what Schedule promises the packet path: every window it
\* publishes is one that was fetched no longer ago than two requests take,
\* around a slot an RPC no further behind than LAG named in that time.
THEOREM PromiseKept == Spec => KeepsItsPromise
<1>1. Init => InitSchedule
  BY DEF Init
<1>2. QED
  BY <1>1, PassInit, PassStep, PassPromised, PTL DEF Spec, KeepsItsPromise, ScheduleSpec

----------------------------------------------------------------------------
(* The window in hand.                                                      *)

\* Time a pass may take, from the end of the one before.
PassTime == POLL_INTERVAL + 2 * RPC_TIMEOUT

\* A window gets no older than what makes it due, the passes that failed on it
\* and the one under way.
AgeInv ==
  TwoPassesFit /\ window # NoWindow /\ failed <= 1 /\ ~exit =>
    window.age <= DueAfter * SLOT + (IF failed = 0 THEN 0 ELSE PassTime)
                    + (IF thread = "sleeping" THEN waited ELSE POLL_INTERVAL + since)

LeadersInv == PassInv /\ ScheduleInv /\ AgeInv

LEMMA LeadersInit == Init => LeadersInv
<1>1. Init => PassInv
  BY PassInit
<1>2. Init => window = NoWindow
  BY DEF Init, InitSchedule
<1>3. Init => ScheduleInv
  BY ScheduleInit DEF Init
<1>4. QED BY <1>1, <1>2, <1>3 DEF LeadersInv, AgeInv

\* A window that is kept has not come due.
LEMMA KeptWindow ==
  ASSUME WindowInv, window # NoWindow, ~RefreshDue
  PROVE  window.age <= DueAfter * SLOT
<1> DEFINE q == window.age \div SLOT
           quarter == Width \div 4
<1>1. window.age \in Nat /\ Len(window.leaders) = Width /\ Width \in Nat
  BY WindowLength, Constants DEF WindowInv
<1>2. q \in Nat /\ window.age < q * SLOT + SLOT
  BY <1>1, Constants, Division
<1>3. quarter \in Nat
  BY <1>1
<1>4. ElapsedSlots(0) = q
  <2>1. Max({0, window.age - 0}) = window.age
    <3>1. 0 \in Int /\ window.age - 0 = window.age /\ window.age \in Int
      BY <1>1
    <3>2. /\ Max({0, window.age}) \in {0, window.age}
          /\ Max({0, window.age}) >= 0 /\ Max({0, window.age}) >= window.age
      BY <3>1, MaxOfTwo, Zenon
    <3>3. QED BY <1>1, <3>1, <3>2
  <2>2. QED BY <2>1 DEF ElapsedSlots
<1> HIDE DEF q, quarter
<1> DEFINE left == Width - (BACKFILL_SLOTS + q)
<1>5. ~(Max({0, left}) <= quarter)
  BY <1>1, <1>4 DEF RefreshDue, quarter
<1>6. left \in Int /\ 0 \in Int
  BY <1>1, <1>2, Constants
<1>7. Max({0, left}) \in {0, left}
  <2> HIDE DEF left
  <2>1. QED BY <1>6, MaxOfTwo, Zenon
<1>8. left > quarter
  <2> HIDE DEF left
  <2>1. QED BY <1>3, <1>5, <1>6, <1>7
<1>9. q + 1 <= DueAfter /\ DueAfter \in Int
  BY <1>1, <1>2, <1>3, <1>8, Constants DEF DueAfter, quarter
<1>10. (q + 1) * SLOT <= DueAfter * SLOT
  BY <1>2, <1>9, Constants, Monotone
<1>11. (q + 1) * SLOT = q * SLOT + SLOT /\ q * SLOT \in Int /\ DueAfter * SLOT \in Int
  BY <1>2, <1>9, Constants
<1>12. QED BY <1>1, <1>2, <1>10, <1>11, Constants

LEMMA AgeStep == PassInv /\ WindowInv /\ AgeInv /\ [Next]_vars => AgeInv'
<1> DEFINE due == DueAfter * SLOT
<1>1. due \in Int /\ PassTime \in Nat /\ POLL_INTERVAL \in Nat /\ RPC_TIMEOUT \in Nat
  <2>1. DueAfter \in Int
    BY Constants DEF DueAfter
  <2>2. QED BY <2>1, Constants DEF PassTime
<1> SUFFICES ASSUME PassInv, WindowInv, AgeInv, [Next]_vars,
                    TwoPassesFit', window' # NoWindow', (failed <= 1)', ~exit'
             PROVE  window'.age <= due + (IF failed' = 0 THEN 0 ELSE PassTime)
                       + (IF thread' = "sleeping" THEN waited' ELSE POLL_INTERVAL + since')
  BY DEF AgeInv, DueAfter, PassTime
<1>2. TwoPassesFit /\ NoWindow' = NoWindow
  BY DEF TwoPassesFit, NoWindow, DueAfter
<1>3. window # NoWindow => window.age \in Nat
  BY DEF WindowInv
<1>4. /\ failed \in 0..MANY /\ waited \in Nat /\ since \in Nat
      /\ thread = "sleeping" => since = 0
      /\ thread = "gone" => exit
  BY DEF PassInv
<1>5. window # NoWindow /\ failed <= 1 /\ ~exit =>
        window.age <= due + (IF failed = 0 THEN 0 ELSE PassTime)
                        + (IF thread = "sleeping" THEN waited ELSE POLL_INTERVAL + since)
  BY <1>2 DEF AgeInv
<1> HIDE DEF due
<1>6. CASE Leave
  <2>1. exit' = exit /\ exit
    BY <1>6 DEF Leave
  <2>2. QED BY <2>1
<1>7. CASE Ask
  BY <1>1, <1>2, <1>3, <1>4, <1>5, <1>7 DEF Ask, Awake
<1>8. CASE Keep
  <2>1. window.age <= due
    BY <1>8, KeptWindow DEF Keep, due
  <2>2. window' = window /\ waited' = 0 /\ thread' = "sleeping" /\ failed' = failed
    BY <1>8 DEF Keep, Awake
  <2>3. window.age \in Nat
    BY <1>3, <1>8 DEF Keep
  <2>4. QED BY <1>1, <2>1, <2>2, <2>3
<1>9. ASSUME NEW slot \in 0..tip, Located(slot)
      PROVE  window'.age <= due + (IF failed' = 0 THEN 0 ELSE PassTime)
                       + (IF thread' = "sleeping" THEN waited' ELSE POLL_INTERVAL + since')
  BY <1>1, <1>2, <1>3, <1>4, <1>5, <1>9 DEF Located
<1>10. CASE Listed
  <2>1. window'.age = since /\ failed' = 0 /\ thread' = "sleeping" /\ waited' = 0
    BY <1>10 DEF Listed, Done, Fetched
  <2>2. since <= 2 * RPC_TIMEOUT
    BY <1>1, <1>10 DEF Listed, PassInv
  <2>3. 2 * RPC_TIMEOUT <= due
    BY <1>2 DEF TwoPassesFit, due
  <2>4. QED BY <1>1, <1>4, <2>1, <2>2, <2>3
<1>11. CASE Failed
  <2>1. failed' = Min({failed + 1, MANY}) /\ thread' = "sleeping" /\ waited' = 0
        /\ window' = window /\ exit' = exit /\ thread # "sleeping"
    BY <1>11 DEF Failed, Done
  <2>2. since <= 2 * RPC_TIMEOUT
    BY <1>1, <1>11 DEF Failed, PassInv
  <2>3. failed = 0 /\ failed' = 1
    <3>1. failed + 1 \in Int /\ MANY \in Int /\ MANY = 2
      BY <1>4 DEF MANY
    <3>2. Min({failed + 1, MANY}) \in {failed + 1, MANY}
      BY <3>1, MinOfTwo, Zenon
    <3>3. QED BY <1>4, <2>1, <3>1, <3>2
  <2>4. window.age <= due + 0 + (POLL_INTERVAL + since)
    BY <1>2, <1>5, <2>1, <2>3
  <2>5. QED BY <1>1, <1>2, <1>3, <1>4, <2>1, <2>2, <2>3, <2>4 DEF PassTime
<1>12. CASE Moves
  BY <1>1, <1>2, <1>3, <1>4, <1>5, <1>12 DEF Moves, Advance, pass
<1>13. CASE Waits
  <2>1. window' = IF window = NoWindow THEN window ELSE [window EXCEPT !.age = @ + 1]
    BY <1>13 DEF Waits, Tick
  <2>2. UNCHANGED <<thread, failed, exit>>
    BY <1>13 DEF Waits
  <2>3. window # NoWindow
    BY <1>2, <2>1
  <2>4. window'.age = window.age + 1
    BY <2>1, <2>3 DEF WindowInv
  <2>5. IF thread = "sleeping" THEN waited' = waited + 1 ELSE since' = since + 1
    BY <1>4, <1>13, <2>2 DEF Waits, PassInv
  <2>6. QED BY <1>1, <1>3, <1>4, <1>5, <2>2, <2>3, <2>4, <2>5
<1>14. CASE Stop
  BY <1>14 DEF Stop
<1>15. CASE UNCHANGED vars
  BY <1>2, <1>5, <1>15 DEF vars, pass
<1>16. QED
  BY <1>6, <1>7, <1>8, <1>9, <1>10, <1>11, <1>12, <1>13, <1>14, <1>15 DEF Next

\* The age of the window bounds how far the cluster is past its start.
LEMMA WindowReaches == LeadersInv => OneFailureSurvived
<1> SUFFICES ASSUME PassInv, ScheduleInv, AgeInv,
                    TwoPassesFit, window # NoWindow, failed <= 1, ~exit
             PROVE  HasLeader(tip)
  BY DEF LeadersInv, OneFailureSurvived
<1> DEFINE quarter == Width \div 4
           due == DueAfter * SLOT
           margin == quarter - LAG - 1
           x == tip - LAG - BACKFILL_SLOTS - window.start
<1>1. /\ SLOT \in Nat \ {0} /\ LAG \in Nat /\ BACKFILL_SLOTS \in Nat /\ Width \in Nat
      /\ POLL_INTERVAL \in Nat /\ RPC_TIMEOUT \in Nat
  BY Constants
<1>2. quarter \in Nat
  BY <1>1
<1>3. /\ tip \in Nat /\ phase \in Nat /\ waited \in Nat /\ since \in Nat
      /\ thread = "sleeping" => waited <= POLL_INTERVAL
      /\ since <= 2 * RPC_TIMEOUT
  BY <1>1 DEF PassInv
<1>4. window.start \in 0..tip /\ window.age \in Nat /\ Len(window.leaders) = Width
      /\ Trails(x, window.age)
  BY WindowLength, WindowBehind DEF ScheduleInv, WindowInv
<1>5. DueAfter = Width - quarter - BACKFILL_SLOTS /\ DueAfter \in Int
  BY <1>1, <1>2 DEF DueAfter
<1>6. 2 * PassTime < margin * SLOT /\ PassTime \in Nat
  BY <1>1 DEF TwoPassesFit, PassTime
<1>7. window.age <= due + (IF failed = 0 THEN 0 ELSE PassTime)
                     + (IF thread = "sleeping" THEN waited ELSE POLL_INTERVAL + since)
  BY DEF AgeInv
<1> HIDE DEF quarter
<1>8. due \in Int /\ margin \in Int /\ margin * SLOT \in Int
  BY <1>1, <1>2, <1>5
<1>9. window.age <= due + 2 * PassTime
  <2>1. (IF thread = "sleeping" THEN waited ELSE POLL_INTERVAL + since) <= PassTime
    BY <1>1, <1>3 DEF PassTime
  <2>2. (IF thread = "sleeping" THEN waited ELSE POLL_INTERVAL + since) \in Nat
    BY <1>1, <1>3
  <2> HIDE DEF due
  <2>3. QED BY <1>4, <1>6, <1>7, <1>8, <2>1, <2>2
<1>10. due + margin * SLOT = (DueAfter + margin) * SLOT
  <2> HIDE DEF margin
  <2>1. QED BY <1>1, <1>5, <1>8
<1>11. window.age < (DueAfter + margin) * SLOT
  <2> HIDE DEF due
  <2>1. QED BY <1>4, <1>6, <1>8, <1>9, <1>10
<1>12. x <= 0 \/ x <= DueAfter + margin
  <2> DEFINE n == DueAfter + margin
  <2>1. x \in Int /\ n \in Int /\ window.age < n * SLOT
    <3>1. x \in Int /\ n \in Int
      BY <1>1, <1>3, <1>4, <1>5, <1>8, SMTT(60)
    <3>2. QED BY <1>11, <3>1
  <2> HIDE DEF x, n
  <2>2. CASE n \in Nat
    <3>1. x <= n
      BY <1>3, <1>4, <2>1, <2>2, TrailsBound
    <3>2. QED BY <3>1 DEF n
  <2>3. CASE n + 1 <= 0
    <3>1. n * SLOT <= 0 * SLOT
      BY <1>1, <2>1, <2>3, Monotone
    <3>2. n * SLOT \in Int
      BY <1>1, <2>1
    <3>3. QED BY <1>1, <1>4, <2>1, <3>1, <3>2
  <2>4. QED BY <2>1, <2>2, <2>3
<1>13. tip - window.start < Width
  <2>1. BACKFILL_SLOTS + LAG + 1 < Width
    BY ScheduleAssumption
  <2>2. QED BY <1>1, <1>2, <1>3, <1>4, <1>5, <1>12, <2>1
<1>14. QED BY <1>3, <1>4, <1>13 DEF HasLeader

\* One failed fetch leaves no blind stretch, for every window, lag and time-out
\* two passes that fail fit in.
THEOREM OneFailureIsSurvived == Spec => []OneFailureSurvived
<1>1. LeadersInv /\ [Next]_vars => LeadersInv'
  <2>1. PassInv /\ ScheduleInv /\ [Next]_vars => ScheduleInv'
    BY PassPromised, ScheduleStep
  <2>2. QED BY <2>1, PassStep, AgeStep DEF LeadersInv, ScheduleInv
<1>2. QED BY <1>1, LeadersInit, WindowReaches, PTL DEF Spec

----------------------------------------------------------------------------
(* The check.                                                              *)

LEMMA VerifyConstants ==
  /\ SLOT \in Nat \ {0} /\ EPOCH \in Nat \ {0}
  /\ RPC_TIMEOUT \in Nat /\ LAG \in Nat /\ BACKFILL_SLOTS \in Nat /\ Width \in Nat \ {0}
  /\ LATE \in Nat /\ DELAY \in Nat /\ FAR \in Nat
BY ScheduleConstants, VerifyAssumption

\* What the check does with the window: nothing.
LEMMA WindowLeftAlone == [NextVerify]_verifyVars => [NextSchedule]_<<tip, phase, window>>
<1> SUFFICES ASSUME [NextVerify]_verifyVars
             PROVE  NextSchedule \/ UNCHANGED <<tip, phase, window>>
  OBVIOUS
<1>1. CASE Arrives \/ Judge
  BY <1>1 DEF Arrives, Check, Judge, cluster
<1>2. CASE Elapses
  BY <1>2 DEF Elapses, NextSchedule
<1>3. CASE Around
  BY <1>3 DEF Around, NextSchedule
<1>4. CASE UNCHANGED verifyVars
  BY <1>4 DEF verifyVars, cluster
<1>5. QED BY <1>1, <1>2, <1>3, <1>4 DEF NextVerify

----------------------------------------------------------------------------
(* The roots kept.                                                          *)

\* Every root kept is one its leader signed.
RootsInv == \A k \in Keys(verified) : k[2] = "leaders"

LEMMA SweptRoots == Keys(Swept) \subseteq Keys(verified)
BY DEF Swept, Sweep, RestrictDomain, Restrict, Keys

LEMMA UpsertKeys ==
  ASSUME NEW m, NEW k, NEW value
  PROVE  Keys(Upsert(m, k, value)) = Keys(m) \cup {k}
BY DEF Upsert, Keys

LEMMA ElapsedKeys ==
  ASSUME NEW m, NEW dt, NEW retention
  PROVE  Keys(Elapsed(m, dt, retention)) = Keys(m)
BY DEF Elapsed, Keys

\* What is accepted has a root its leader signed.
LEMMA AcceptedGenuine ==
  ASSUME RootsInv, NEW shred, Accepted(shred)
  PROVE  shred.root = "leaders"
<1>1. CASE Seen(shred) \in Keys(Swept)
  <2>1. Seen(shred)[2] = "leaders"
    BY <1>1, SweptRoots DEF RootsInv
  <2>2. QED BY <2>1 DEF Seen
<1>2. CASE Matches(shred, Leader(shred.slot))
  BY <1>2 DEF Matches
<1>3. QED BY <1>1, <1>2 DEF Accepted

RootsSound == RootsInv /\ SignedIsGenuine

LEMMA RootsInit == InitVerify => RootsSound
BY DEF InitVerify, RootsSound, RootsInv, SignedIsGenuine, New, Keys, Nothing

LEMMA RootsStep == RootsSound /\ [NextVerify]_verifyVars => RootsSound'
<1> SUFFICES ASSUME RootsInv, SignedIsGenuine, [NextVerify]_verifyVars PROVE RootsSound'
  BY DEF RootsSound
<1>1. ASSUME NEW shred, Check(shred) PROVE RootsSound'
  <2>1. CASE Unanswered(shred)
    BY <2>1, SweptRoots DEF Unanswered, RootsSound, RootsInv, SignedIsGenuine, Nothing
  <2>2. CASE Unrooted(shred) \/ Mismatched(shred)
    BY <2>2, SweptRoots DEF Unrooted, Mismatched, Say, RootsSound, RootsInv, SignedIsGenuine
  <2>3. CASE Signed(shred)
    <3>1. shred.root = "leaders"
      BY <2>3, AcceptedGenuine DEF Signed
    <3>2. Keys(verified') = Keys(Swept) \cup {Seen(shred)}
      BY <2>3, UpsertKeys DEF Signed
    <3>3. \A k \in Keys(verified') : k[2] = "leaders"
      BY <3>1, <3>2, SweptRoots DEF RootsInv, Seen
    <3>4. Keys(verified)' = Keys(verified')
      BY DEF Keys
    <3>5. SignedIsGenuine'
      BY <2>3, <3>1 DEF Signed, Say, SignedIsGenuine
    <3>6. QED BY <3>3, <3>4, <3>5 DEF RootsSound, RootsInv
  <2>4. QED BY <1>1, <2>1, <2>2, <2>3 DEF Check
<1>2. CASE Arrives
  BY <1>1, <1>2 DEF Arrives
<1>3. CASE Judge
  BY <1>3 DEF Judge, Say, RootsSound, RootsInv, SignedIsGenuine, Keys
<1>4. CASE Elapses
  <2>1. Keys(verified)' = Keys(verified)
    BY <1>4, ElapsedKeys DEF Elapses, Keys
  <2>2. QED BY <1>4, <2>1 DEF Elapses, RootsSound, RootsInv, SignedIsGenuine, Nothing
<1>5. CASE Around
  BY <1>5 DEF Around, RootsSound, RootsInv, SignedIsGenuine, Nothing, Keys
<1>6. CASE UNCHANGED verifyVars
  BY <1>6 DEF verifyVars, RootsSound, RootsInv, SignedIsGenuine, Keys
<1>7. QED BY <1>2, <1>3, <1>4, <1>5, <1>6 DEF NextVerify

\* Only what a leader signed is called signed, whatever the cache keeps and drops
\* and whichever windows come and go.
THEOREM SignedAreGenuine == VerifySpec => []SignedIsGenuine
BY RootsInit, RootsStep, PTL DEF VerifySpec, RootsSound

----------------------------------------------------------------------------
(* The shreds leaders made.                                                 *)

\* A shred of a leader's waiting for its second look is of a slot the cluster was
\* at no longer ago than the check has been at it, give or take how late it came.
HeldInv ==
  /\ ago \in 0..DELAY
  /\ held = NoShred => ago = 0
  /\ held.root = "leaders" =>
       held.slot \in 0..tip /\ Trails(tip - LATE - held.slot, ago)

HonestInv == ScheduleInv /\ HeldInv /\ HonestNeverForged

\* A slot the cluster has been at, and not too long ago, is inside the edges of any
\* window there may be, unless it lies before the epoch.
LEMMA NotImplausible ==
  ASSUME ScheduleInv, NEW slot \in 0..tip, NEW past \in 0..DELAY,
         Trails(tip - LATE - slot, past), slot >= tip - (tip % EPOCH)
  PROVE  ~Implausible(slot, past)
<1> SUFFICES ASSUME window # NoWindow,
                    \/ slot < window.start
                    \/ slot > window.start + Len(window.leaders) + ElapsedSlots(past)
             PROVE  FALSE
  BY DEF Implausible
<1> DEFINE gone == Max({0, window.age - past})
           q == gone \div SLOT
           covered == BACKFILL_SLOTS - LATE
           ahead == Width - BACKFILL_SLOTS - LAG - 1
           x == tip - LAG - BACKFILL_SLOTS - window.start
           z == tip - window.start - Width
<1>1. /\ tip \in Nat /\ phase \in Nat /\ slot \in Int /\ slot <= tip /\ past \in Nat
      /\ past <= DELAY
  BY VerifyConstants DEF ScheduleInv, ClusterInv
<1>2. /\ window.start \in Nat /\ window.age \in Nat /\ Len(window.leaders) = Width
      /\ window.start <= Start(EpochInfo(tip)) /\ Trails(x, window.age)
  BY WindowLength DEF ScheduleInv, WindowInv
<1>3. covered \in Int /\ ahead \in Int /\ x \in Int /\ z \in Int
  BY <1>1, <1>2, VerifyConstants
<1>4. gone \in Nat /\ gone >= window.age - past
  <2>1. 0 \in Int /\ window.age - past \in Int
    BY <1>1, <1>2
  <2>2. gone \in {0, window.age - past} /\ gone >= 0 /\ gone >= window.age - past
    BY <2>1, MaxOfTwo, Zenon
  <2> HIDE DEF gone
  <2>3. QED BY <2>1, <2>2
<1>5. q \in Nat
  <2> HIDE DEF gone
  <2>1. QED BY <1>4, Division, VerifyConstants
<1>6. ElapsedSlots(past) = q
  BY DEF ElapsedSlots
\* The lower edge.
<1>7. covered \in Nat /\ past < covered * SLOT
  <2>1. DELAY < covered * SLOT
    BY VerifyAssumption
  <2> HIDE DEF covered
  <2>2. covered <= 0 => covered * SLOT <= 0 * SLOT
    BY <1>3, VerifyConstants, Monotone
  <2>3. covered * SLOT \in Int /\ 0 * SLOT = 0
    BY <1>3, VerifyConstants
  <2>4. QED BY <1>1, <1>3, <2>1, <2>2, <2>3, VerifyConstants
<1>8. tip - LATE - slot <= covered
  <2>1. tip - LATE - slot \in Int
    BY <1>1, VerifyConstants
  <2> HIDE DEF covered
  <2>2. QED BY <1>1, <1>7, <2>1, TrailsBound
<1>9. slot >= window.start
  <2>1. Start(EpochInfo(tip)) \in {0, tip - BACKFILL_SLOTS, tip - (tip % EPOCH)}
    BY <1>1, StartBounds
  <2>2. slot >= tip - BACKFILL_SLOTS
    BY <1>1, <1>8, VerifyConstants
  <2>3. tip - (tip % EPOCH) \in Int
    BY <1>1, VerifyConstants
  <2>4. QED BY <1>1, <1>2, <2>1, <2>2, <2>3, VerifyConstants
\* The upper one.
<1>10. z <= q
  <2>1. ahead \in Nat
    BY <1>3, ScheduleConstants
  <2>2. DELAY <= ahead * SLOT
    BY VerifyAssumption
  <2>3. x - 1 = z + ahead
    BY <1>1, <1>2, VerifyConstants, SMTT(60)
  <2>4. x <= 0 \/ (x - 1) * SLOT + phase <= window.age
    BY <1>2 DEF Trails
  <2> HIDE DEF x, z, ahead, gone
  <2>5. CASE x <= 0
    BY <1>3, <1>5, <2>1, <2>3, <2>5
  <2>6. CASE (x - 1) * SLOT + phase <= window.age
    <3>1. (x - 1) * SLOT = z * SLOT + ahead * SLOT
      BY <1>3, <2>3, VerifyConstants
    <3>2. z * SLOT \in Int /\ ahead * SLOT \in Int
      BY <1>3, VerifyConstants
    <3>3. z * SLOT <= gone
      BY <1>1, <1>2, <1>4, <2>2, <2>6, <3>1, <3>2, VerifyConstants
    <3>4. QED BY <1>3, <1>4, <3>3, WholeFits, VerifyConstants
  <2>7. QED BY <2>4, <2>5, <2>6
<1>11. slot <= window.start + Width + q
  <2> HIDE DEF q
  <2>1. QED BY <1>1, <1>2, <1>5, <1>10, VerifyConstants
<1>12. QED BY <1>1, <1>2, <1>5, <1>6, <1>9, <1>11, VerifyConstants

\* A leader's own shred has the leader the window names.
LEMMA OwnLeader ==
  ASSUME ScheduleInv, NEW shred, shred.slot \in 0..tip, shred.root = "leaders",
         HasLeader(shred.slot)
  PROVE  Accepted(shred)
<1>1. window # NoWindow /\ shred.slot >= window.start
      /\ shred.slot - window.start < Len(window.leaders)
  BY DEF HasLeader
<1>2. /\ window.start \in Nat /\ Len(window.leaders) = Width /\ Width \in Nat
      /\ window.leaders = [i \in 1..Width |-> LeaderOf(window.start + i - 1)]
  BY <1>1, WindowLength, VerifyConstants DEF ScheduleInv, WindowInv
<1>3. shred.slot \in Int
  BY DEF ScheduleInv, ClusterInv
<1> DEFINE i == shred.slot - window.start + 1
<1>4. i \in 1..Width /\ window.start + i - 1 = shred.slot
  BY <1>1, <1>2, <1>3
<1>5. window.leaders[i] = LeaderOf(window.start + i - 1)
  BY <1>2, <1>4
<1>6. QED BY <1>4, <1>5 DEF Accepted, Matches, Leader

LEMMA HonestInit == InitVerify => HonestInv
<1> SUFFICES ASSUME InitVerify PROVE HonestInv
  OBVIOUS
<1>1. ScheduleInv
  BY ScheduleInit DEF InitVerify
<1>2. HeldInv
  BY VerifyConstants DEF InitVerify, HeldInv, NoShred
<1>3. HonestNeverForged
  BY DEF InitVerify, HonestNeverForged, Nothing, NoShred
<1>4. QED BY <1>1, <1>2, <1>3 DEF HonestInv

\* What arrives signed by a leader is of a slot the cluster has just been at.
LEMMA CheckSound ==
  ASSUME HonestInv, NEW shred, Check(shred),
         shred.root = "leaders" => shred.slot \in 0..tip /\ tip - LATE - shred.slot <= 0
  PROVE  HeldInv' /\ HonestNeverForged'
<1>1. held = NoShred /\ ago = 0 /\ tip' = tip /\ phase' = phase
  BY DEF Check, cluster, HonestInv, HeldInv
<1>2. NoShred.root # "leaders" /\ NoShred' = NoShred
  BY DEF NoShred
<1>3. CASE Unanswered(shred)
  <2>1. held' = shred /\ ago' = 0 /\ said' = Nothing
    BY <1>3 DEF Unanswered
  <2>2. shred.root = "leaders" => Trails(tip - LATE - shred.slot, 0)'
    BY <1>1 DEF Trails
  <2>3. HeldInv'
    BY <1>1, <2>1, <2>2, VerifyConstants DEF HeldInv, Trails
  <2>4. HonestNeverForged'
    BY <2>1 DEF HonestNeverForged, Nothing, NoShred
  <2>5. QED BY <2>3, <2>4
<1>4. CASE ~Unanswered(shred)
  <2>1. Unrooted(shred) \/ Signed(shred) \/ Mismatched(shred)
    BY <1>4 DEF Check
  <2>2. held' = held /\ ago' = ago
    BY <2>1 DEF Unrooted, Signed, Mismatched
  <2>3. HeldInv'
    BY <1>1, <1>2, <2>2, VerifyConstants DEF HeldInv
  <2>4. Mismatched(shred) => shred.root # "leaders"
    BY OwnLeader DEF Mismatched, HonestInv
  <2>5. HonestNeverForged'
    <3>1. CASE Unrooted(shred)
      <4>1. said' = [shred |-> shred, verdict |-> "unknown"]
        BY <3>1 DEF Unrooted, Say
      <4>2. QED BY <4>1 DEF HonestNeverForged
    <3>2. CASE Signed(shred)
      <4>1. said' = [shred |-> shred, verdict |-> "signed"]
        BY <3>2 DEF Signed, Say
      <4>2. QED BY <4>1 DEF HonestNeverForged
    <3>3. CASE Mismatched(shred)
      <4>1. said' = [shred |-> shred, verdict |-> "forged"]
        BY <3>3 DEF Mismatched, Say
      <4>2. QED BY <2>4, <3>3, <4>1 DEF HonestNeverForged
    <3>4. QED BY <2>1, <3>1, <3>2, <3>3
  <2>6. QED BY <2>3, <2>5
<1>5. QED BY <1>3, <1>4

\* The second look finds no leader's shred outside the edges.
LEMMA JudgeSound == HonestInv /\ Judge => HeldInv' /\ HonestNeverForged'
<1> SUFFICES ASSUME HonestInv, Judge PROVE HeldInv' /\ HonestNeverForged'
  OBVIOUS
<1>1. held' = NoShred /\ ago' = 0 /\ tip' = tip
  BY DEF Judge, cluster
<1>2. HeldInv'
  BY <1>1, VerifyConstants DEF HeldInv, NoShred
<1>3. said' = [shred |-> held, verdict |-> IF Implausible(held.slot, ago) THEN "forged" ELSE "unknown"]
  BY DEF Judge, Say
<1>4. held.root = "leaders" /\ Implausible(held.slot, ago) => held.slot < tip - (tip % EPOCH)
  <2>1. SUFFICES ASSUME held.root = "leaders", held.slot >= tip - (tip % EPOCH)
                 PROVE  ~Implausible(held.slot, ago)
    <3>1. held.root = "leaders" => held.slot \in 0..tip /\ tip \in Nat
      BY DEF HonestInv, HeldInv, ScheduleInv, ClusterInv
    <3>2. tip \in Nat => tip - (tip % EPOCH) \in Int
      BY VerifyConstants
    <3>3. QED BY <2>1, <3>1, <3>2
  <2>2. QED BY <2>1, NotImplausible DEF HonestInv, HeldInv
<1>5. HonestNeverForged'
  BY <1>1, <1>3, <1>4 DEF HonestNeverForged
<1>6. QED BY <1>2, <1>5

LEMMA HonestStep == HonestInv /\ [NextVerify]_verifyVars => HonestInv'
<1> SUFFICES ASSUME HonestInv, [NextVerify]_verifyVars PROVE HonestInv'
  OBVIOUS
<1>1. ScheduleInv'
  BY WindowLeftAlone, ScheduleStep DEF HonestInv
<1>2. tip \in Nat /\ phase \in Nat /\ ago \in 0..DELAY
  BY DEF HonestInv, ScheduleInv, ClusterInv, HeldInv
<1>3. CASE Arrives
  <2>1. ASSUME NEW late \in 0..Min({LATE, tip}),
               Check([slot |-> tip - late, root |-> "leaders"])
        PROVE  HeldInv' /\ HonestNeverForged'
    <3> DEFINE shred == [slot |-> tip - late, root |-> "leaders"]
    <3>1. late \in Nat /\ late <= LATE /\ late <= tip
      <4>1. /\ Min({LATE, tip}) \in {LATE, tip}
            /\ Min({LATE, tip}) <= LATE /\ Min({LATE, tip}) <= tip
        <5>1. LATE \in Int /\ tip \in Int
          BY <1>2, VerifyConstants
        <5>2. QED BY <5>1, MinOfTwo, Zenon
      <4>2. QED BY <1>2, <4>1, VerifyConstants
    <3>2. tip - late \in 0..tip /\ tip - LATE - (tip - late) <= 0
      BY <1>2, <3>1, VerifyConstants
    <3>3. shred.slot \in 0..tip /\ tip - LATE - shred.slot <= 0 /\ Check(shred)
      BY <2>1, <3>2
    <3> HIDE DEF shred
    <3>4. QED BY <3>3, CheckSound
  <2>2. ASSUME NEW slot \in {tip, tip + FAR}, NEW root \in {"altered", "unrooted"},
               Check([slot |-> slot, root |-> root])
        PROVE  HeldInv' /\ HonestNeverForged'
    <3>1. root # "leaders"
      OBVIOUS
    <3> DEFINE shred == [slot |-> slot, root |-> root]
    <3>2. shred.root # "leaders" /\ Check(shred)
      BY <2>2, <3>1
    <3> HIDE DEF shred
    <3>3. QED BY <3>2, CheckSound
  <2>3. QED BY <1>1, <1>3, <2>1, <2>2 DEF Arrives, HonestInv
<1>4. CASE Judge
  BY <1>1, <1>4, JudgeSound DEF HonestInv
<1>5. CASE Elapses
  <2>1. /\ tip' = tip /\ phase' = phase + 1 /\ said' = Nothing /\ held' = held
        /\ ago' = IF held = NoShred THEN 0 ELSE ago + 1
        /\ held # NoShred => ago < DELAY
    BY <1>5 DEF Elapses, Tick
  <2>2. HonestNeverForged'
    BY <2>1 DEF HonestNeverForged, Nothing, NoShred
  <2>3. CASE held = NoShred
    <3>1. held' = NoShred /\ ago' = 0
      BY <2>1, <2>3
    <3>2. HeldInv'
      BY <3>1, VerifyConstants DEF HeldInv, NoShred
    <3>3. QED BY <1>1, <2>2, <3>2 DEF HonestInv
  <2>4. CASE held # NoShred
    <3>1. ago' = ago + 1 /\ ago < DELAY
      BY <2>1, <2>4
    <3>2. held.root = "leaders" => Trails(tip - LATE - held.slot, ago)'
      <4> SUFFICES ASSUME held.root = "leaders" PROVE Trails(tip - LATE - held.slot, ago)'
        OBVIOUS
      <4> DEFINE x == tip - LATE - held.slot
      <4>1. x \in Int /\ Trails(x, ago)
        BY <1>2, VerifyConstants DEF HonestInv, HeldInv
      <4>2. x <= 0 \/ (x - 1) * SLOT + (phase + 1) <= ago + 1
        BY <1>2, <4>1, TrailsOn DEF Trails
      <4>3. QED BY <2>1, <3>1, <4>2 DEF Trails
    <3>3. HeldInv'
      BY <1>2, <2>1, <2>4, <3>1, <3>2, VerifyConstants DEF HeldInv, HonestInv, NoShred
    <3>4. QED BY <1>1, <2>2, <3>3 DEF HonestInv
  <2>5. QED BY <2>3, <2>4
<1>6. CASE Around
  <2>1. said' = Nothing /\ held' = held /\ ago' = ago /\ (Swap \/ Advance)
    BY <1>6 DEF Around
  <2>2. HonestNeverForged'
    BY <2>1 DEF HonestNeverForged, Nothing, NoShred
  <2>3. CASE Swap
    <3>1. HeldInv'
      BY <2>1, <2>3 DEF Swap, cluster, HonestInv, HeldInv, Trails, NoShred
    <3>2. QED BY <1>1, <2>2, <3>1 DEF HonestInv
  <2>4. CASE Advance
    <3>1. tip' = tip + 1 /\ phase' = 0 /\ phase >= SLOT
      BY <2>4 DEF Advance
    <3>2. held.root = "leaders" =>
            Trails(tip - LATE - held.slot, ago)' /\ held.slot \in 0..(tip + 1)
      <4> SUFFICES ASSUME held.root = "leaders"
                   PROVE  Trails(tip - LATE - held.slot, ago)' /\ held.slot \in 0..(tip + 1)
        OBVIOUS
      <4> DEFINE x == tip - LATE - held.slot
      <4>1. x \in Int /\ Trails(x, ago) /\ held.slot \in 0..tip
        BY <1>2, VerifyConstants DEF HonestInv, HeldInv
      <4>2. x + 1 <= 0 \/ ((x + 1) - 1) * SLOT + 0 <= ago
        BY <1>2, <3>1, <4>1, TrailsOn DEF Trails
      <4>3. tip' - LATE - held'.slot = x + 1
        BY <1>2, <2>1, <3>1, <4>1, VerifyConstants
      <4>4. QED BY <1>2, <2>1, <3>1, <4>1, <4>2, <4>3 DEF Trails
    <3>3. HeldInv'
      BY <2>1, <3>1, <3>2 DEF HeldInv, HonestInv, NoShred
    <3>4. QED BY <1>1, <2>2, <3>3 DEF HonestInv
  <2>5. QED BY <2>1, <2>3, <2>4
<1>7. CASE UNCHANGED verifyVars
  <2>1. HeldInv' /\ HonestNeverForged'
    BY <1>7 DEF verifyVars, cluster, HonestInv, HeldInv, HonestNeverForged, Trails, NoShred
  <2>2. QED BY <1>1, <2>1 DEF HonestInv
<1>8. QED BY <1>3, <1>4, <1>5, <1>6, <1>7 DEF NextVerify

\* No shred of a leader's is called forged, for every window Schedule allows,
\* every lag of the RPC and every shred and check that are in time, but for the
\* stragglers of an epoch that has ended.
THEOREM HonestAreNeverForged == VerifySpec => []HonestNeverForged
BY HonestInit, HonestStep, PTL DEF VerifySpec, HonestInv
=============================================================================
