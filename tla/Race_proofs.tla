------------------------------ MODULE Race_proofs ------------------------------
(***************************************************************************)
(* What the race tracker says of a slot, for slots of any batches.         *)
(***************************************************************************)
EXTENDS Race, Ordered_proofs

----------------------------------------------------------------------------
(* What a leader laid down.                                                 *)

B(slot, k) == Slots[slot][k]

E(slot, k) == DOMAIN Slots[slot][k].entries

Payers(slot, k, e) == Slots[slot][k].entries[e].payers

Ends(slot, k, e) == Slots[slot][k].entries[e].ends

Role == {"target", "searcher", "other"}

LEMMA IsElement ==
  ASSUME NEW C, NEW s \in Seq(C), NEW k \in DOMAIN s
  PROVE  /\ Len(s) \in Nat /\ DOMAIN s = 1..Len(s) /\ k \in 1..Len(s)
         /\ s[k] \in C
OBVIOUS

LEMMA HasLength ==
  ASSUME NEW C, NEW s \in Seq(C)
  PROVE  Len(s) \in Nat /\ DOMAIN s = 1..Len(s)
OBVIOUS

LEMMA SlotShape ==
  ASSUME NEW slot \in DOMAIN Slots
  PROVE  /\ Len(Slots[slot]) \in Nat /\ DOMAIN Slots[slot] = 1..Len(Slots[slot])
         /\ \A k \in DOMAIN Slots[slot] :
              /\ k \in Nat
              /\ B(slot, k).first \in Nat /\ B(slot, k).opens \in Nat /\ B(slot, k).last \in Nat
              /\ B(slot, k).first <= B(slot, k).opens /\ B(slot, k).opens <= B(slot, k).last
              /\ B(slot, k).first = IF k = 1 THEN 0 ELSE B(slot, k - 1).last + 1
<1>1. /\ Slots[slot] \in Seq([first : Nat, last : Nat, opens : Nat,
                              entries : Seq([ends : Nat, payers : Seq(Role)])])
      /\ \A k \in DOMAIN Slots[slot] :
           /\ B(slot, k).first = IF k = 1 THEN 0 ELSE B(slot, k - 1).last + 1
           /\ B(slot, k).first <= B(slot, k).opens /\ B(slot, k).opens <= B(slot, k).last
  BY RaceAssumption DEF B, Role
<1>2. Len(Slots[slot]) \in Nat /\ DOMAIN Slots[slot] = 1..Len(Slots[slot])
  BY <1>1
<1> DEFINE Laid == [first : Nat, last : Nat, opens : Nat,
                    entries : Seq([ends : Nat, payers : Seq(Role)])]
<1>3. ASSUME NEW k \in DOMAIN Slots[slot]
      PROVE  /\ k \in Nat /\ B(slot, k).first \in Nat /\ B(slot, k).opens \in Nat
             /\ B(slot, k).last \in Nat
  <2>1. Slots[slot] \in Seq(Laid)
    BY <1>1
  <2>2. B(slot, k) \in Laid /\ k \in Nat
    <3> HIDE DEF Laid
    <3>1. QED BY <1>2, <2>1, IsElement DEF B
  <2>3. QED BY <2>2
<1>4. QED BY <1>1, <1>2, <1>3

LEMMA EntryShape ==
  ASSUME NEW slot \in DOMAIN Slots, NEW k \in DOMAIN Slots[slot]
  PROVE  /\ Len(B(slot, k).entries) \in Nat /\ E(slot, k) = 1..Len(B(slot, k).entries)
         /\ B(slot, k).entries \in Seq([ends : Nat, payers : Seq(Role)])
         /\ \A e \in E(slot, k) :
              /\ e \in Nat /\ Ends(slot, k, e) \in Nat /\ Payers(slot, k, e) \in Seq(Role)
              /\ DOMAIN Payers(slot, k, e) = 1..Len(Payers(slot, k, e))
              /\ Len(Payers(slot, k, e)) \in Nat
              /\ IF e = 1 THEN B(slot, k).opens <= Ends(slot, k, e)
                 ELSE e - 1 \in E(slot, k) /\ Ends(slot, k, e - 1) <= Ends(slot, k, e)
              /\ Ends(slot, k, e) <= B(slot, k).last
<1>1. /\ Slots[slot] \in Seq([first : Nat, last : Nat, opens : Nat,
                              entries : Seq([ends : Nat, payers : Seq(Role)])])
      /\ \A e \in E(slot, k) :
           Ends(slot, k, e) \in (IF e = 1 THEN B(slot, k).opens ELSE Ends(slot, k, e - 1))..B(slot, k).last
  BY RaceAssumption DEF B, Role, E, Ends
<1> DEFINE Entry == [ends : Nat, payers : Seq(Role)]
           Laid == [first : Nat, last : Nat, opens : Nat, entries : Seq(Entry)]
<1>2. B(slot, k).entries \in Seq(Entry) /\ B(slot, k).opens \in Nat /\ B(slot, k).last \in Nat
  <2>1. Slots[slot] \in Seq(Laid)
    BY <1>1
  <2>2. B(slot, k) \in Laid
    <3> HIDE DEF Laid
    <3>1. QED BY <2>1, IsElement DEF B
  <2>3. QED BY <2>2
<1>3. Len(B(slot, k).entries) \in Nat /\ E(slot, k) = 1..Len(B(slot, k).entries)
  BY <1>2 DEF E, B
<1>4. \A e \in E(slot, k) : e \in Nat /\ B(slot, k).entries[e] \in Entry
  <2> HIDE DEF Entry
  <2>1. QED BY <1>2, <1>3, IsElement DEF E, B
<1>5. \A e \in E(slot, k) : Ends(slot, k, e) \in Nat /\ Payers(slot, k, e) \in Seq(Role)
  BY <1>4 DEF Ends, Payers, B
<1>6. \A e \in E(slot, k) : /\ DOMAIN Payers(slot, k, e) = 1..Len(Payers(slot, k, e))
                            /\ Len(Payers(slot, k, e)) \in Nat
  BY <1>5
<1>7. ASSUME NEW e \in E(slot, k)
      PROVE  /\ IF e = 1 THEN B(slot, k).opens <= Ends(slot, k, e)
                ELSE e - 1 \in E(slot, k) /\ Ends(slot, k, e - 1) <= Ends(slot, k, e)
             /\ Ends(slot, k, e) <= B(slot, k).last
  <2>1. CASE e = 1
    BY <1>1, <1>2, <1>5, <2>1
  <2>2. CASE e # 1
    <3>1. e - 1 \in E(slot, k)
      BY <1>3, <2>2
    <3>2. Ends(slot, k, e - 1) \in Nat /\ Ends(slot, k, e) \in Nat
      BY <1>5, <3>1
    <3>3. QED BY <1>1, <1>2, <2>2, <3>1, <3>2
  <2>3. QED BY <2>1, <2>2
<1>8. QED BY <1>2, <1>3, <1>4, <1>5, <1>6, <1>7

\* The batches lie one behind the other.
LEMMA FirstsGrow ==
  ASSUME NEW slot \in DOMAIN Slots, NEW k \in DOMAIN Slots[slot], NEW l \in DOMAIN Slots[slot], k < l
  PROVE  B(slot, k).last < B(slot, l).first
<1> DEFINE Bad == {n \in DOMAIN Slots[slot] : k < n /\ ~(B(slot, k).last < B(slot, n).first)}
<1>1. SUFFICES ASSUME Bad # {} PROVE FALSE
  OBVIOUS
<1>2. Bad \subseteq Nat
  BY SlotShape
<1>3. PICK n \in Bad : \A j \in Bad : n <= j
  <2> HIDE DEF Bad
  <2>1. QED BY <1>1, <1>2, LeastNat
<1>4. /\ n \in DOMAIN Slots[slot] /\ k < n /\ ~(B(slot, k).last < B(slot, n).first)
      /\ n - 1 \notin Bad /\ n \in Nat /\ k \in Nat /\ n > 1
  <2>1. n \in DOMAIN Slots[slot] /\ k < n /\ ~(B(slot, k).last < B(slot, n).first)
    BY <1>3
  <2>2. n \in Nat /\ k \in Nat /\ k >= 1
    BY <2>1, SlotShape
  <2> HIDE DEF Bad
  <2>3. n - 1 \notin Bad
    BY <1>3, <2>2
  <2>4. QED BY <2>1, <2>2, <2>3
<1>5. n - 1 \in DOMAIN Slots[slot]
  BY <1>4, SlotShape
<1>6. /\ B(slot, n).first = B(slot, n - 1).last + 1
      /\ B(slot, n - 1).first <= B(slot, n - 1).opens /\ B(slot, n - 1).opens <= B(slot, n - 1).last
      /\ B(slot, n).first \in Nat /\ B(slot, n - 1).last \in Nat /\ B(slot, n - 1).first \in Nat
      /\ B(slot, n - 1).opens \in Nat /\ B(slot, k).last \in Nat
  <2> HIDE DEF Bad
  <2>1. QED BY <1>4, <1>5, SlotShape
<1>7. CASE k = n - 1
  BY <1>4, <1>6, <1>7
<1>8. CASE k # n - 1
  <2>1. k < n - 1
    BY <1>4, <1>8
  <2>2. B(slot, k).last < B(slot, n - 1).first
    BY <1>4, <1>5, <2>1
  <2>3. QED BY <1>4, <1>6, <2>2
<1>9. QED BY <1>7, <1>8

LEMMA EndsGrow ==
  ASSUME NEW slot \in DOMAIN Slots, NEW k \in DOMAIN Slots[slot],
         NEW e \in E(slot, k), NEW f \in E(slot, k), e <= f
  PROVE  Ends(slot, k, e) <= Ends(slot, k, f)
<1> DEFINE Bad == {n \in E(slot, k) : e <= n /\ ~(Ends(slot, k, e) <= Ends(slot, k, n))}
<1>1. SUFFICES ASSUME Bad # {} PROVE FALSE
  OBVIOUS
<1>2. Bad \subseteq Nat
  BY EntryShape
<1>3. PICK n \in Bad : \A j \in Bad : n <= j
  <2> HIDE DEF Bad
  <2>1. QED BY <1>1, <1>2, LeastNat
<1>4. n \in E(slot, k) /\ e <= n /\ ~(Ends(slot, k, e) <= Ends(slot, k, n))
  BY <1>3
<1>5. /\ n \in Nat /\ e \in Nat /\ e >= 1 /\ Ends(slot, k, e) \in Nat /\ Ends(slot, k, n) \in Nat
      /\ n # 1 => n - 1 \in E(slot, k) /\ Ends(slot, k, n - 1) <= Ends(slot, k, n)
  BY <1>4, EntryShape
<1>6. e # n
  BY <1>4, <1>5
<1>7. n - 1 \notin Bad
  <2> HIDE DEF Bad
  <2>1. QED BY <1>3, <1>5
<1>8. n - 1 \in E(slot, k) /\ Ends(slot, k, n - 1) <= Ends(slot, k, n) /\ e <= n - 1
  BY <1>4, <1>5, <1>6
<1>9. Ends(slot, k, e) <= Ends(slot, k, n - 1) /\ Ends(slot, k, n - 1) \in Nat
  BY <1>7, <1>8, EntryShape
<1>10. QED BY <1>4, <1>5, <1>8, <1>9

----------------------------------------------------------------------------
(* How far a batch is out.                                                  *)

\* The entries of a batch that are out when it has come to shred r.
Out(slot, k, r) == {e \in E(slot, k) : Ends(slot, k, e) <= r}

Whole(slot) == UNION {b.first..b.last : b \in Range(Slots[slot])}

LEMMA OutIsPrefix ==
  ASSUME NEW slot \in DOMAIN Slots, NEW k \in DOMAIN Slots[slot], NEW r \in Int
  PROVE  \E n \in 0..Len(B(slot, k).entries) : Out(slot, k, r) = 1..n
<1> DEFINE T == {e \in E(slot, k) : ~(Ends(slot, k, e) <= r)}
           N == Len(B(slot, k).entries)
<1>1. N \in Nat /\ E(slot, k) = 1..N /\ T \subseteq Nat
  BY EntryShape
<1>2. CASE T = {}
  <2>1. Out(slot, k, r) = 1..N
    BY <1>1, <1>2 DEF Out
  <2>2. QED BY <1>1, <2>1
<1>3. CASE T # {}
  <2>1. PICK m \in T : \A e \in T : m <= e
    <3> HIDE DEF T
    <3>1. QED BY <1>1, <1>3, LeastNat
  <2>2. m \in 1..N /\ m - 1 \in 0..N /\ m \in E(slot, k) /\ ~(Ends(slot, k, m) <= r)
    BY <1>1, <2>1
  <2>3. ASSUME NEW e \in E(slot, k), Ends(slot, k, e) <= r PROVE e \in 1..(m - 1)
    <3>1. ~(m <= e)
      <4>1. SUFFICES ASSUME m <= e PROVE FALSE
        OBVIOUS
      <4>2. Ends(slot, k, m) <= Ends(slot, k, e)
        BY <2>2, <4>1, EndsGrow
      <4>3. Ends(slot, k, m) \in Nat /\ Ends(slot, k, e) \in Nat
        BY <2>2, EntryShape
      <4>4. QED BY <2>2, <2>3, <4>2, <4>3
    <3>2. QED BY <1>1, <2>2, <3>1
  <2>4. ASSUME NEW e \in 1..(m - 1) PROVE e \in E(slot, k) /\ Ends(slot, k, e) <= r
    <3>1. e \in E(slot, k) /\ ~(m <= e)
      BY <1>1, <2>2
    <3>2. QED BY <2>1, <3>1
  <2>5. Out(slot, k, r) = 1..(m - 1)
    BY <2>3, <2>4 DEF Out
  <2>6. QED BY <2>2, <2>5
<1>4. QED BY <1>2, <1>3

LEMMA ReachBounds ==
  ASSUME NEW slot \in DOMAIN Slots, NEW k \in DOMAIN Slots[slot], NEW h
  PROVE  /\ Reach(slot, k, h) \in Int
         /\ B(slot, k).first - 1 <= Reach(slot, k, h) /\ Reach(slot, k, h) <= B(slot, k).last
         /\ Reach(slot, k, h) # B(slot, k).first - 1 =>
              Known(slot, k, h) /\ B(slot, k).first..Reach(slot, k, h) \subseteq h
         /\ \A i \in B(slot, k).first..B(slot, k).last :
              Known(slot, k, h) /\ B(slot, k).first..i \subseteq h => i <= Reach(slot, k, h)
<1> DEFINE b == B(slot, k)
           R == {b.first - 1} \cup
                  {i \in b.first..b.last : Known(slot, k, h) /\ b.first..i \subseteq h}
<1>1. b.first \in Nat /\ b.last \in Nat /\ b.first <= b.last
  BY SlotShape
<1>2. Reach(slot, k, h) = Max(R)
  BY DEF Reach, B
<1>3. R \subseteq -1..b.last /\ R # {}
  BY <1>1
<1>4. Max(R) \in R /\ \A x \in R : Max(R) >= x
  <2> HIDE DEF R
  <2>1. QED BY <1>1, <1>3, MaxExists
<1>5. \A x \in R : x \in Int /\ b.first - 1 <= x /\ x <= b.last
  BY <1>1
<1>6. \A x \in R : x # b.first - 1 => Known(slot, k, h) /\ b.first..x \subseteq h
  OBVIOUS
<1>7. b.first - 1 \in R
  OBVIOUS
<1>8. \A i \in b.first..b.last : Known(slot, k, h) /\ b.first..i \subseteq h => i \in R
  OBVIOUS
<1> HIDE DEF R, b
<1>9. QED BY <1>2, <1>4, <1>5, <1>6, <1>8 DEF b

LEMMA ReachGrows ==
  ASSUME NEW slot \in DOMAIN Slots, NEW k \in DOMAIN Slots[slot], NEW h, NEW g, h \subseteq g
  PROVE  Reach(slot, k, h) <= Reach(slot, k, g)
<1>1. /\ Reach(slot, k, h) \in Int /\ Reach(slot, k, g) \in Int
      /\ B(slot, k).first - 1 <= Reach(slot, k, g) /\ B(slot, k).first - 1 <= Reach(slot, k, h)
      /\ Reach(slot, k, h) <= B(slot, k).last
      /\ B(slot, k).first \in Nat /\ B(slot, k).last \in Nat
  BY ReachBounds, SlotShape
<1>2. CASE Reach(slot, k, h) = B(slot, k).first - 1
  BY <1>1, <1>2
<1>3. CASE Reach(slot, k, h) # B(slot, k).first - 1
  <2>1. Known(slot, k, h) /\ B(slot, k).first..Reach(slot, k, h) \subseteq h
    BY <1>3, ReachBounds
  <2>2. Known(slot, k, g) /\ B(slot, k).first..Reach(slot, k, h) \subseteq g
    BY <2>1 DEF Known
  <2>3. Reach(slot, k, h) \in B(slot, k).first..B(slot, k).last
    BY <1>1, <1>3
  <2>4. QED BY <2>2, <2>3, ReachBounds
<1>4. QED BY <1>2, <1>3

\* With every shred of the slot there, every batch is out to its last.
LEMMA ReachAll ==
  ASSUME NEW slot \in DOMAIN Slots, NEW k \in DOMAIN Slots[slot], NEW h, Whole(slot) \subseteq h
  PROVE  Reach(slot, k, h) = B(slot, k).last
<1>1. \A j \in DOMAIN Slots[slot] : B(slot, j).first..B(slot, j).last \subseteq h
  <2>1. \A j \in DOMAIN Slots[slot] : B(slot, j) \in Range(Slots[slot])
    BY DEF Range, B
  <2>2. QED BY <2>1 DEF Whole
<1>2. Known(slot, k, h)
  <2>1. CASE k = 1
    BY <2>1 DEF Known
  <2>2. CASE k # 1
    <3>1. k - 1 \in DOMAIN Slots[slot]
      BY <2>2, SlotShape
    <3>2. B(slot, k - 1).last \in B(slot, k - 1).first..B(slot, k - 1).last
      <4>1. /\ B(slot, k - 1).first \in Nat /\ B(slot, k - 1).opens \in Nat
            /\ B(slot, k - 1).last \in Nat
            /\ B(slot, k - 1).first <= B(slot, k - 1).opens
            /\ B(slot, k - 1).opens <= B(slot, k - 1).last
        BY <3>1, SlotShape
      <4>2. QED BY <4>1
    <3>3. QED BY <1>1, <3>1, <3>2 DEF Known, B
  <2>3. QED BY <2>1, <2>2
<1>3. /\ B(slot, k).first \in Nat /\ B(slot, k).last \in Nat /\ B(slot, k).first <= B(slot, k).last
      /\ Reach(slot, k, h) \in Int /\ Reach(slot, k, h) <= B(slot, k).last
  BY SlotShape, ReachBounds
<1>4. B(slot, k).last \in B(slot, k).first..B(slot, k).last
  BY <1>3
<1>5. B(slot, k).last <= Reach(slot, k, h)
  BY <1>1, <1>2, <1>4, ReachBounds
<1>6. QED BY <1>3, <1>5

----------------------------------------------------------------------------
(* Where the leader put each transaction.                                   *)

\* How many transactions each entry of a batch carries.
Counts(slot, k) == [e \in E(slot, k) |-> Len(Payers(slot, k, e))]

\* The transactions, and the entries, of the batches in front of a batch.
TxsAhead(slot, k) == SumOf([j \in 1..(k - 1) |-> SumOf(Counts(slot, j))])

EntriesAhead(slot, k) == SumOf([j \in 1..(k - 1) |-> Len(B(slot, j).entries)])

\* The transactions of a batch in front of an entry of it.
TxsWithin(slot, k, e) == SumOf([x \in 1..(e - 1) |-> Len(Payers(slot, k, x))])

LEMMA SumsAhead ==
  ASSUME NEW slot \in DOMAIN Slots, NEW k \in DOMAIN Slots[slot]
  PROVE  /\ SumOf(Counts(slot, k)) \in Nat
         /\ [j \in 1..(k - 1) |-> SumOf(Counts(slot, j))] \in [1..(k - 1) -> Nat]
         /\ [j \in 1..(k - 1) |-> Len(B(slot, j).entries)] \in [1..(k - 1) -> Nat]
         /\ TxsAhead(slot, k) \in Nat /\ EntriesAhead(slot, k) \in Nat
         /\ \A e \in E(slot, k) : TxsWithin(slot, k, e) \in Nat
<1>1. ASSUME NEW j \in DOMAIN Slots[slot]
      PROVE  SumOf(Counts(slot, j)) \in Nat /\ Len(B(slot, j).entries) \in Nat
  <2>1. Counts(slot, j) \in [E(slot, j) -> Nat] /\ E(slot, j) = 1..Len(B(slot, j).entries)
        /\ Len(B(slot, j).entries) \in Nat
    BY EntryShape DEF Counts
  <2>2. IsFiniteSet(E(slot, j))
    BY <2>1, FS_Interval
  <2>3. QED BY <2>1, <2>2, SumNat
<1>2. k \in Nat /\ \A j \in 1..(k - 1) : j \in DOMAIN Slots[slot]
  BY SlotShape
<1> DEFINE R == 1..(k - 1)
<1>3. IsFiniteSet(R)
  <2>1. k - 1 \in Int
    BY <1>2
  <2>2. QED BY <2>1, FS_Interval
<1>4. /\ [j \in R |-> SumOf(Counts(slot, j))] \in [R -> Nat]
      /\ [j \in R |-> Len(B(slot, j).entries)] \in [R -> Nat]
  BY <1>1, <1>2
<1>5. TxsAhead(slot, k) \in Nat /\ EntriesAhead(slot, k) \in Nat
  <2> HIDE DEF R
  <2>1. /\ SumOf([j \in R |-> SumOf(Counts(slot, j))]) \in Nat
        /\ SumOf([j \in R |-> Len(B(slot, j).entries)]) \in Nat
    BY <1>3, <1>4, SumNat
  <2>2. QED BY <2>1 DEF R, TxsAhead, EntriesAhead
<1>6. ASSUME NEW e \in E(slot, k) PROVE TxsWithin(slot, k, e) \in Nat
  <2> DEFINE Q == 1..(e - 1)
  <2>1. e \in Nat /\ \A x \in Q : x \in E(slot, k)
    BY EntryShape
  <2>2. IsFiniteSet(Q)
    <3>1. e - 1 \in Int
      BY <2>1
    <3>2. QED BY <3>1, FS_Interval
  <2>3. [x \in Q |-> Len(Payers(slot, k, x))] \in [Q -> Nat]
    BY <2>1, EntryShape
  <2> HIDE DEF Q
  <2>4. SumOf([x \in Q |-> Len(Payers(slot, k, x))]) \in Nat
    BY <2>2, <2>3, SumNat
  <2>5. QED BY <2>4 DEF Q, TxsWithin
<1>7. QED BY <1>1, <1>4, <1>5, <1>6

LEMMA FrontSlice ==
  ASSUME NEW C, NEW s \in Seq(C), NEW e \in 0..Len(s)
  PROVE  /\ SubSeq(s, 1, e) \in Seq(C) /\ Len(SubSeq(s, 1, e)) = e
         /\ \A x \in 1..e : SubSeq(s, 1, e)[x] = s[x]
<1>1. Len(s) \in Nat
  OBVIOUS
<1>2. PICK a \in Nat : a = 0
  OBVIOUS
<1>3. e \in Nat /\ a + e <= Len(s) /\ a + 1 = 1 /\ a + e = e
  BY <1>1, <1>2
<1>4. /\ SubSeq(s, a + 1, a + e) \in Seq(C) /\ Len(SubSeq(s, a + 1, a + e)) = e
      /\ \A x \in 1..e : SubSeq(s, a + 1, a + e)[x] = s[a + x]
  BY <1>3, SliceIs
<1>5. \A x \in 1..e : a + x = x
  BY <1>2, <1>3
<1>6. QED BY <1>3, <1>4, <1>5

\* The entries up to one, laid end to end.
Upto(slot, k, e) ==
  [j \in 1..k |-> IF j < k THEN Slots[slot][j].entries
                  ELSE SubSeq(Slots[slot][k].entries, 1, e)]

LEMMA UptoIs ==
  ASSUME NEW slot \in DOMAIN Slots, NEW k \in DOMAIN Slots[slot], NEW e \in E(slot, k)
  PROVE  LET C == [ends : Nat, payers : Seq(Role)]
             q == Upto(slot, k, e)
         IN  /\ q \in [1..k -> Seq(C)] /\ Len(q[k]) = e
             /\ \A x \in 1..e : q[k][x].payers = Payers(slot, k, x)
             /\ \A j \in 1..(k - 1) :
                  /\ Len(q[j]) = Len(B(slot, j).entries)
                  /\ \A x \in 1..Len(q[j]) : q[j][x].payers = Payers(slot, j, x)
<1> DEFINE C == [ends : Nat, payers : Seq(Role)]
           q == Upto(slot, k, e)
<1>1. k \in Nat /\ k >= 1 /\ \A j \in 1..k : j \in DOMAIN Slots[slot]
  BY SlotShape
<1>2. e \in 1..Len(B(slot, k).entries) /\ \A j \in 1..k : B(slot, j).entries \in Seq(C)
  <2>1. e \in 1..Len(B(slot, k).entries)
    BY EntryShape
  <2>2. \A j \in DOMAIN Slots[slot] : B(slot, j).entries \in Seq(C)
    BY EntryShape, Zenon
  <2>3. QED BY <1>1, <2>1, <2>2
<1> HIDE DEF C
<1>3. /\ SubSeq(B(slot, k).entries, 1, e) \in Seq(C) /\ Len(SubSeq(B(slot, k).entries, 1, e)) = e
      /\ \A x \in 1..e : SubSeq(B(slot, k).entries, 1, e)[x] = B(slot, k).entries[x]
  <2>1. B(slot, k).entries \in Seq(C) /\ e \in 1..Len(B(slot, k).entries)
    BY <1>1, <1>2
  <2>2. PICK s : s = B(slot, k).entries
    OBVIOUS
  <2>3. s \in Seq(C) /\ e \in 0..Len(s)
    BY <2>1, <2>2
  <2>4. /\ SubSeq(s, 1, e) \in Seq(C) /\ Len(SubSeq(s, 1, e)) = e
        /\ \A x \in 1..e : SubSeq(s, 1, e)[x] = s[x]
    BY <2>3, FrontSlice, Zenon
  <2>5. QED BY <2>2, <2>4, Zenon
<1>4. q[k] = SubSeq(B(slot, k).entries, 1, e)
  <2>1. k \in 1..k /\ ~(k < k)
    BY <1>1
  <2>2. QED BY <2>1, Zenon DEF Upto, B
<1>5. \A j \in 1..(k - 1) : j \in 1..k /\ q[j] = B(slot, j).entries
  BY <1>1 DEF Upto, B
<1>6. q \in [1..k -> Seq(C)]
  <2>1. \A j \in 1..k : q[j] \in Seq(C)
    <3>1. \A j \in 1..k : j = k \/ j \in 1..(k - 1)
      BY <1>1
    <3> HIDE DEF q
    <3>2. QED BY <1>2, <1>3, <1>4, <1>5, <3>1
  <2>2. q = [j \in 1..k |-> q[j]]
    BY DEF Upto
  <2> HIDE DEF q
  <2>3. QED BY <2>1, <2>2
<1> HIDE DEF q
<1>7. \A x \in 1..e : q[k][x].payers = Payers(slot, k, x)
  BY <1>3, <1>4 DEF Payers, B
<1>8. \A j \in 1..(k - 1) :
        /\ Len(q[j]) = Len(B(slot, j).entries)
        /\ \A x \in 1..Len(q[j]) : q[j][x].payers = Payers(slot, j, x)
  BY <1>5 DEF Payers, B
<1>9. QED BY <1>3, <1>4, <1>6, <1>7, <1>8 DEF q, C

\* What is laid end to end up to an entry: how many entries, and how many
\* transactions but for its own.
LEMMA AheadOf ==
  ASSUME NEW slot \in DOMAIN Slots, NEW k \in DOMAIN Slots[slot], NEW e \in E(slot, k)
  PROVE  LET f == FlattenSeq(Upto(slot, k, e))
         IN  /\ Len(f) = EntriesAhead(slot, k) + e /\ Len(f) \in Nat
             /\ SumOf([j \in 1..(Len(f) - 1) |-> Len(f[j].payers)])
                  = TxsAhead(slot, k) + TxsWithin(slot, k, e)
<1> DEFINE C == [ends : Nat, payers : Seq(Role)]
           q == Upto(slot, k, e)
           f == FlattenSeq(q)
<1>1. k \in Nat /\ k >= 1 /\ e \in Nat /\ e >= 1
      /\ (\A j \in 1..k : j \in DOMAIN Slots[slot]) /\ \A x \in 1..e : x \in E(slot, k)
  BY SlotShape, EntryShape
<1>2. /\ q \in [1..k -> Seq(C)] /\ Len(q[k]) = e
      /\ \A x \in 1..e : q[k][x].payers = Payers(slot, k, x)
      /\ \A j \in 1..(k - 1) :
           /\ Len(q[j]) = Len(B(slot, j).entries)
           /\ \A x \in 1..Len(q[j]) : q[j][x].payers = Payers(slot, j, x)
  <2> HIDE DEF C, q
  <2>1. QED BY UptoIs DEF C, q
<1> HIDE DEF q
<1>3. f \in Seq(C) /\ \E cut \in [0..k -> Nat] : PiecesLie(f, q, k, cut)
  <2> HIDE DEF C
  <2>1. QED BY <1>1, <1>2, FlattenLays
<1> HIDE DEF f
<1>4. PICK cut \in [0..k -> Nat] : PiecesLie(f, q, k, cut)
  BY <1>3
<1>5. /\ cut[0] = 0 /\ cut[k] = Len(f)
      /\ \A j \in 1..k : /\ cut[j] = cut[j - 1] + Len(q[j]) /\ cut[j] <= cut[k]
                         /\ \A x \in 1..Len(q[j]) : f[cut[j - 1] + x] = q[j][x]
  BY <1>4 DEF PiecesLie
<1>6. \A j \in 1..k : Len(q[j]) \in Nat /\ cut[j] \in Nat /\ cut[j - 1] \in Nat
  <2>1. \A j \in 1..k : q[j] \in Seq(C)
    BY <1>2
  <2> HIDE DEF C
  <2>2. \A j \in 1..k : j \in 0..k /\ j - 1 \in 0..k
    BY <1>1
  <2>3. QED BY <1>4, <2>1, <2>2, HasLength
<1>7. Len(f) = EntriesAhead(slot, k) + e /\ Len(f) \in Nat
  <2> DEFINE w == [j \in 1..k |-> Len(q[j])]
             front == [j \in 1..(k - 1) |-> Len(B(slot, j).entries)]
  <2>1. w \in [1..k -> Nat] /\ \A j \in 1..k : cut[j] = cut[j - 1] + w[j]
    BY <1>5, <1>6
  <2>2. cut[k] = SumOf(w)
    <3> HIDE DEF w
    <3>1. k \in Nat /\ cut \in [0..k -> Nat] /\ cut[0] = 0 /\ w \in [1..k -> Nat]
          /\ \A j \in 1..k : cut[j] = cut[j - 1] + w[j]
      BY <1>1, <1>4, <1>5, <2>1
    <3>2. QED BY <3>1, CutsAddUp, Zenon
  <2>3. w \in [1..k -> Int] /\ k # 0 /\ w[k] = e
    BY <1>1, <1>2, <2>1
  <2>4. /\ SumOf([i \in 1..(k - 1) |-> w[i]]) \in Int
        /\ SumOf(w) = w[k] + SumOf([i \in 1..(k - 1) |-> w[i]])
    <3> HIDE DEF w
    <3>1. QED BY <1>1, <2>3, SumLast
  <2>5. [i \in 1..(k - 1) |-> w[i]] = front
    <3>1. \A i \in 1..(k - 1) : i \in 1..k
      BY <1>1
    <3>2. QED BY <1>2, <3>1
  <2>6. SumOf(front) = EntriesAhead(slot, k)
    BY DEF EntriesAhead
  <2> HIDE DEF w, front
  <2>7. k \in 1..k
    BY <1>1
  <2>8. SumOf([i \in 1..(k - 1) |-> w[i]]) = EntriesAhead(slot, k)
    BY <2>5, <2>6
  <2>9. Len(f) = w[k] + EntriesAhead(slot, k) /\ EntriesAhead(slot, k) \in Int
    BY <1>5, <2>2, <2>4, <2>8
  <2>10. cut[k] \in Nat
    BY <1>6, <2>7
  <2>11. QED BY <1>1, <1>5, <2>3, <2>9, <2>10
<1> DEFINE v == [x \in 1..cut[k] |-> Len(f[x].payers)]
           u == [j \in 1..k |-> SumOf([x \in 1..Len(q[j]) |-> Len(q[j][x].payers)])]
<1>8. v \in [1..cut[k] -> Int]
  <2>1. ASSUME NEW x \in 1..cut[k] PROVE Len(f[x].payers) \in Int
    <3>1. x \in DOMAIN f
      BY <1>3, <1>5
    <3>2. f[x] \in C
      <4> HIDE DEF C
      <4>1. QED BY <1>3, <3>1, IsElement
    <3>3. f[x].payers \in Seq(Role)
      BY <3>2
    <3>4. QED BY <3>3, HasLength
  <2>2. QED BY <2>1
<1>9. ASSUME NEW j \in 1..k
      PROVE  /\ u[j] = SumOf([x \in 1..(cut[j] - cut[j - 1]) |-> v[cut[j - 1] + x]])
             /\ cut[j - 1] <= cut[j] /\ cut[j] <= cut[k]
  <2>1. cut[j] - cut[j - 1] = Len(q[j]) /\ cut[j] <= cut[k] /\ cut[j - 1] <= cut[j]
    BY <1>5, <1>6
  <2>2. \A x \in 1..Len(q[j]) : /\ cut[j - 1] + x \in 1..cut[k]
                                /\ f[cut[j - 1] + x] = q[j][x]
    <3>1. k \in 1..k
      BY <1>1
    <3>2. cut[k] \in Nat
      BY <1>6, <3>1
    <3>3. \A x \in 1..Len(q[j]) : cut[j - 1] + x \in 1..cut[k]
      BY <1>5, <1>6, <2>1, <3>2
    <3>4. QED BY <1>5, <3>3
  <2>3. [x \in 1..(cut[j] - cut[j - 1]) |-> v[cut[j - 1] + x]]
          = [x \in 1..Len(q[j]) |-> Len(q[j][x].payers)]
    BY <2>1, <2>2
  <2>4. QED BY <2>1, <2>3
<1>10. SumOf(v) = SumOf(u) /\ u \in [1..k -> Int]
  <2>1. u \in [1..k -> Int]
    <3>1. ASSUME NEW j \in 1..k PROVE u[j] \in Int
      <4> DEFINE R == 1..Len(q[j])
      <4>1. IsFiniteSet(R)
        <5>1. Len(q[j]) \in Int
          BY <1>6
        <5>2. QED BY <5>1, FS_Interval
      <4>2. [x \in R |-> Len(q[j][x].payers)] \in [R -> Nat]
        <5>1. ASSUME NEW x \in R PROVE Len(q[j][x].payers) \in Nat
          <6>1. q[j] \in Seq(C) /\ DOMAIN q[j] = 1..Len(q[j])
            <7>1. q[j] \in Seq(C)
              BY <1>2
            <7> HIDE DEF C
            <7>2. QED BY <7>1, HasLength
          <6>2. q[j][x] \in C
            <7> HIDE DEF C
            <7>1. QED BY <6>1, IsElement
          <6>3. q[j][x].payers \in Seq(Role)
            BY <6>2
          <6>4. QED BY <6>3, HasLength
        <5>2. QED BY <5>1
      <4> HIDE DEF R
      <4>3. SumOf([x \in R |-> Len(q[j][x].payers)]) \in Nat
        BY <4>1, <4>2, SumNat
      <4>4. QED BY <4>3 DEF R
    <3>2. u = [j \in 1..k |-> u[j]]
      OBVIOUS
    <3> HIDE DEF u
    <3>3. QED BY <3>1, <3>2
  <2> HIDE DEF u, v
  <2>2. /\ k \in Nat /\ cut \in [0..k -> Nat] /\ cut[0] = 0
        /\ \A j \in 1..k : cut[j - 1] <= cut[j]
        /\ \A j \in 1..k :
             u[j] = SumOf([x \in 1..(cut[j] - cut[j - 1]) |-> v[cut[j - 1] + x]])
    BY <1>1, <1>4, <1>5, <1>9
  <2>3. \A j \in 0..k : cut[j] <= cut[k]
    <3>1. \A j \in 0..k : j = 0 \/ j \in 1..k
      BY <1>1
    <3>2. k \in 1..k
      BY <1>1
    <3>3. cut[0] <= cut[k]
      BY <1>5, <1>6, <3>2
    <3>4. QED BY <1>5, <3>1, <3>3
  <2>4. SumOf(v) = SumOf(u)
    <3>1. Lays(k, cut, v, u)
      BY <1>8, <2>1, <2>2, <2>3 DEF Lays
    <3>2. QED BY <1>1, <3>1, SumsLaid
  <2>5. QED BY <2>1, <2>4 DEF u
<1> DEFINE n == cut[k]
<1>11. n \in Nat /\ n # 0 /\ n = cut[k - 1] + e /\ n \in 1..n /\ e \in 1..e
  <2>1. k \in 1..k
    BY <1>1
  <2>2. QED BY <1>1, <1>2, <1>5, <1>6, <2>1
<1>12. /\ SumOf(v) = v[n] + SumOf([i \in 1..(n - 1) |-> v[i]])
       /\ SumOf([i \in 1..(n - 1) |-> v[i]]) \in Int
  <2>1. v \in [1..n -> Int]
    BY <1>8
  <2> HIDE DEF v, n
  <2>2. QED BY <1>11, <2>1, SumLast
<1>13. [i \in 1..(n - 1) |-> v[i]] = [j \in 1..(Len(f) - 1) |-> Len(f[j].payers)]
  BY <1>5, <1>11
<1>14. /\ SumOf(u) = u[k] + SumOf([i \in 1..(k - 1) |-> u[i]])
       /\ SumOf([i \in 1..(k - 1) |-> u[i]]) \in Int
  <2> HIDE DEF u
  <2>1. k # 0
    BY <1>1
  <2>2. QED BY <1>1, <1>10, <2>1, SumLast
<1>15. SumOf([i \in 1..(k - 1) |-> u[i]]) = TxsAhead(slot, k)
  <2>1. ASSUME NEW j \in 1..(k - 1) PROVE u[j] = SumOf(Counts(slot, j))
    <3>1. j \in 1..k /\ j \in DOMAIN Slots[slot]
      BY <1>1
    <3>2. E(slot, j) = 1..Len(q[j])
      BY <1>2, <3>1, EntryShape
    <3>3. [x \in 1..Len(q[j]) |-> Len(q[j][x].payers)] = Counts(slot, j)
      BY <1>2, <3>2 DEF Counts
    <3>4. QED BY <3>1, <3>3
  <2> HIDE DEF u
  <2>2. [i \in 1..(k - 1) |-> u[i]] = [j \in 1..(k - 1) |-> SumOf(Counts(slot, j))]
    BY <2>1
  <2>3. QED BY <2>2 DEF TxsAhead
<1>16. u[k] = Len(Payers(slot, k, e)) + TxsWithin(slot, k, e)
  <2> DEFINE z == [x \in 1..e |-> Len(Payers(slot, k, x))]
  <2>1. u[k] = SumOf(z)
    <3>1. k \in 1..k
      BY <1>1
    <3>2. u[k] = SumOf([x \in 1..Len(q[k]) |-> Len(q[k][x].payers)])
      BY <3>1
    <3>3. [x \in 1..Len(q[k]) |-> Len(q[k][x].payers)] = z
      BY <1>2
    <3>4. QED BY <3>2, <3>3
  <2>2. z \in [1..e -> Int] /\ z[e] = Len(Payers(slot, k, e)) /\ e # 0
    BY <1>1, <1>11, EntryShape
  <2>3. SumOf(z) = z[e] + SumOf([x \in 1..(e - 1) |-> z[x]])
    <3> HIDE DEF z
    <3>1. QED BY <1>1, <2>2, SumLast
  <2>4. [x \in 1..(e - 1) |-> z[x]] = [x \in 1..(e - 1) |-> Len(Payers(slot, k, x))]
    BY <1>1
  <2> HIDE DEF z
  <2>5. SumOf([x \in 1..(e - 1) |-> z[x]]) = TxsWithin(slot, k, e)
    BY <2>4 DEF TxsWithin
  <2> HIDE DEF u
  <2>6. QED BY <2>1, <2>2, <2>3, <2>5
<1>17. v[n] = Len(Payers(slot, k, e))
  <2>1. k \in 1..k
    BY <1>1
  <2>2. f[cut[k - 1] + e] = q[k][e]
    BY <1>2, <1>5, <1>11, <2>1
  <2>3. v[n] = Len(f[n].payers)
    BY <1>11
  <2> HIDE DEF v
  <2>4. QED BY <1>2, <1>11, <2>2, <2>3
<1>18. SumOf([j \in 1..(Len(f) - 1) |-> Len(f[j].payers)])
         = TxsAhead(slot, k) + TxsWithin(slot, k, e)
  <2>1. /\ TxsAhead(slot, k) \in Nat /\ TxsWithin(slot, k, e) \in Nat
        /\ Len(Payers(slot, k, e)) \in Nat
    BY SumsAhead, EntryShape
  <2> DEFINE rest == SumOf([i \in 1..(n - 1) |-> v[i]])
  <2>2. rest = SumOf([j \in 1..(Len(f) - 1) |-> Len(f[j].payers)])
    BY <1>13
  <2>3. SumOf(v) = Len(Payers(slot, k, e)) + rest /\ rest \in Int
    BY <1>12, <1>17
  <2>4. SumOf(u) = Len(Payers(slot, k, e)) + TxsWithin(slot, k, e) + TxsAhead(slot, k)
    BY <1>14, <1>15, <1>16
  <2>5. SumOf(v) = SumOf(u)
    BY <1>10
  <2> HIDE DEF rest, u, v
  <2>6. rest = TxsAhead(slot, k) + TxsWithin(slot, k, e)
    BY <2>1, <2>3, <2>4, <2>5
  <2>7. QED BY <2>2, <2>6
<1>19. QED BY <1>7, <1>18 DEF f, q

\* The name a transaction goes by.
SignatureOf(slot, k, e, t) ==
  [slot |-> slot, life |-> lives[slot],
   transactions |-> TxsAhead(slot, k) + TxsWithin(slot, k, e) + t - 1,
   entries |-> (EntriesAhead(slot, k) + e) - 1]

LEMMA SignedIs ==
  ASSUME NEW slot \in DOMAIN Slots, NEW k \in DOMAIN Slots[slot], NEW e \in E(slot, k)
  PROVE  Signed(slot, k, e) =
           [t \in DOMAIN Payers(slot, k, e) |->
             [payer |-> Payers(slot, k, e)[t], signature |-> SignatureOf(slot, k, e, t)]]
<1> DEFINE f == FlattenSeq(Upto(slot, k, e))
           before == SumOf([j \in 1..(Len(f) - 1) |-> Len(f[j].payers)])
<1>1. Signed(slot, k, e) =
        [t \in DOMAIN Payers(slot, k, e) |->
          [payer |-> Payers(slot, k, e)[t],
           signature |-> [slot |-> slot, life |-> lives[slot],
                          transactions |-> before + t - 1,
                          entries |-> Len(f) - 1]]]
  BY DEF Signed, Upto, Payers
<1>2. Len(f) = EntriesAhead(slot, k) + e /\ before = TxsAhead(slot, k) + TxsWithin(slot, k, e)
  <2> HIDE DEF f
  <2>1. QED BY AheadOf DEF f
<1> HIDE DEF f, before
<1> DEFINE name(x, n, t) == [slot |-> slot, life |-> lives[slot],
                               transactions |-> x + t - 1, entries |-> n - 1]
<1>3. \A t : name(before, Len(f), t) = SignatureOf(slot, k, e, t)
  <2>1. \A t : name(TxsAhead(slot, k) + TxsWithin(slot, k, e), EntriesAhead(slot, k) + e, t)
                = SignatureOf(slot, k, e, t)
    BY Zenon DEF SignatureOf
  <2> HIDE DEF name
  <2>2. QED BY <1>2, <2>1
<1>4. Signed(slot, k, e) =
        [t \in DOMAIN Payers(slot, k, e) |->
          [payer |-> Payers(slot, k, e)[t], signature |-> name(before, Len(f), t)]]
  BY <1>1
<1> HIDE DEF name
<1>5. QED BY <1>3, <1>4

LEMMA AheadStep ==
  ASSUME NEW slot \in DOMAIN Slots, NEW k \in DOMAIN Slots[slot], k + 1 \in DOMAIN Slots[slot]
  PROVE  /\ EntriesAhead(slot, k + 1) = EntriesAhead(slot, k) + Len(B(slot, k).entries)
         /\ TxsAhead(slot, k + 1) = TxsAhead(slot, k) + SumOf(Counts(slot, k))
<1> DEFINE w == [j \in 1..k |-> Len(B(slot, j).entries)]
           u == [j \in 1..k |-> SumOf(Counts(slot, j))]
<1>1. k \in Nat /\ k # 0 /\ k + 1 - 1 = k /\ k \in 1..k
  BY SlotShape
<1>2. w \in [1..k -> Int] /\ u \in [1..k -> Int]
  <2>1. /\ [j \in 1..(k + 1 - 1) |-> SumOf(Counts(slot, j))] \in [1..(k + 1 - 1) -> Nat]
        /\ [j \in 1..(k + 1 - 1) |-> Len(B(slot, j).entries)] \in [1..(k + 1 - 1) -> Nat]
    <3>1. PICK n \in DOMAIN Slots[slot] : n = k + 1
      OBVIOUS
    <3>2. /\ [j \in 1..(n - 1) |-> SumOf(Counts(slot, j))] \in [1..(n - 1) -> Nat]
          /\ [j \in 1..(n - 1) |-> Len(B(slot, j).entries)] \in [1..(n - 1) -> Nat]
      BY SumsAhead
    <3>3. QED BY <3>1, <3>2
  <2>2. w \in [1..k -> Nat] /\ u \in [1..k -> Nat]
    BY <1>1, <2>1
  <2> HIDE DEF w, u
  <2>3. QED BY <2>2
<1>3. /\ SumOf(w) = w[k] + SumOf([i \in 1..(k - 1) |-> w[i]])
      /\ SumOf(u) = u[k] + SumOf([i \in 1..(k - 1) |-> u[i]])
  <2> HIDE DEF w, u
  <2>1. QED BY <1>1, <1>2, SumLast
<1>4. /\ [i \in 1..(k - 1) |-> w[i]] = [j \in 1..(k - 1) |-> Len(B(slot, j).entries)]
      /\ [i \in 1..(k - 1) |-> u[i]] = [j \in 1..(k - 1) |-> SumOf(Counts(slot, j))]
      /\ w[k] = Len(B(slot, k).entries) /\ u[k] = SumOf(Counts(slot, k))
  BY <1>1
<1>5. SumOf(w) = EntriesAhead(slot, k + 1) /\ SumOf(u) = TxsAhead(slot, k + 1)
  BY <1>1 DEF EntriesAhead, TxsAhead
<1> HIDE DEF w, u
<1>6. /\ SumOf([i \in 1..(k - 1) |-> w[i]]) = EntriesAhead(slot, k)
      /\ SumOf([i \in 1..(k - 1) |-> u[i]]) = TxsAhead(slot, k)
  BY <1>4 DEF EntriesAhead, TxsAhead
<1>7. /\ w[k] \in Nat /\ u[k] \in Nat /\ EntriesAhead(slot, k) \in Nat /\ TxsAhead(slot, k) \in Nat
  BY <1>4, SumsAhead, EntryShape
<1>8. QED BY <1>3, <1>4, <1>5, <1>6, <1>7

LEMMA AheadGrows ==
  ASSUME NEW slot \in DOMAIN Slots, NEW k \in DOMAIN Slots[slot], NEW l \in DOMAIN Slots[slot], k < l
  PROVE  EntriesAhead(slot, k) + Len(B(slot, k).entries) <= EntriesAhead(slot, l)
<1> DEFINE Holds(n) == EntriesAhead(slot, k) + Len(B(slot, k).entries) <= EntriesAhead(slot, n)
           Bad == {n \in DOMAIN Slots[slot] : k < n /\ ~Holds(n)}
<1>1. SUFFICES ASSUME Bad # {} PROVE FALSE
  OBVIOUS
<1>2. Bad \subseteq Nat
  BY SlotShape
<1>3. PICK n \in Bad : \A j \in Bad : n <= j
  <2> HIDE DEF Bad
  <2>1. QED BY <1>1, <1>2, LeastNat
<1>4. n \in DOMAIN Slots[slot] /\ k < n /\ ~Holds(n)
  BY <1>3
<1>5. n \in Nat /\ k \in Nat /\ k >= 1
  BY <1>4, SlotShape
<1>6. n - 1 \notin Bad
  <2> HIDE DEF Bad
  <2>1. QED BY <1>3, <1>5
<1>7. n - 1 \in DOMAIN Slots[slot] /\ (n - 1) + 1 = n
  BY <1>4, <1>5, SlotShape
<1>8. EntriesAhead(slot, n) = EntriesAhead(slot, n - 1) + Len(B(slot, n - 1).entries)
  <2>1. PICK m \in DOMAIN Slots[slot] : m = n - 1
    BY <1>7
  <2>2. m + 1 \in DOMAIN Slots[slot] /\ m + 1 = n
    BY <1>4, <1>7, <2>1
  <2>3. EntriesAhead(slot, m + 1) = EntriesAhead(slot, m) + Len(B(slot, m).entries)
    BY <2>2, AheadStep
  <2>4. QED BY <2>1, <2>2, <2>3
<1>9. /\ EntriesAhead(slot, n) \in Nat /\ EntriesAhead(slot, n - 1) \in Nat
      /\ EntriesAhead(slot, k) \in Nat /\ Len(B(slot, n - 1).entries) \in Nat
      /\ Len(B(slot, k).entries) \in Nat
  BY <1>4, <1>7, SumsAhead, EntryShape
<1>10. CASE k = n - 1
  <2> HIDE DEF Bad
  <2>1. QED BY <1>4, <1>8, <1>9, <1>10
<1>11. CASE k # n - 1
  <2>1. k < n - 1
    BY <1>4, <1>5, <1>11
  <2>2. Holds(n - 1)
    BY <1>6, <1>7, <2>1
  <2> HIDE DEF Bad
  <2>3. QED BY <1>4, <1>8, <1>9, <2>2
<1>12. QED BY <1>10, <1>11

\* It says of what batch and entry.
LEMMA SignaturesDiffer ==
  ASSUME NEW slot \in DOMAIN Slots, NEW k \in DOMAIN Slots[slot], NEW e \in E(slot, k), NEW t,
         NEW s \in DOMAIN Slots, NEW l \in DOMAIN Slots[s], NEW f \in E(s, l), NEW u,
         SignatureOf(slot, k, e, t) = SignatureOf(s, l, f, u)
  PROVE  slot = s /\ k = l /\ e = f
<1>1. slot = s /\ (EntriesAhead(slot, k) + e) - 1 = (EntriesAhead(s, l) + f) - 1
  <2>1. /\ SignatureOf(slot, k, e, t).slot = slot /\ SignatureOf(s, l, f, u).slot = s
        /\ SignatureOf(slot, k, e, t).entries = (EntriesAhead(slot, k) + e) - 1
        /\ SignatureOf(s, l, f, u).entries = (EntriesAhead(s, l) + f) - 1
    BY DEF SignatureOf
  <2>2. QED BY <2>1
<1>2. /\ EntriesAhead(slot, k) \in Nat /\ EntriesAhead(slot, l) \in Nat
      /\ k \in Nat /\ l \in Nat /\ e \in Nat /\ f \in Nat /\ e >= 1 /\ f >= 1
      /\ e <= Len(B(slot, k).entries) /\ f <= Len(B(slot, l).entries)
      /\ Len(B(slot, k).entries) \in Nat /\ Len(B(slot, l).entries) \in Nat
  <2>1. l \in DOMAIN Slots[slot] /\ f \in E(slot, l)
    BY <1>1
  <2>2. EntriesAhead(slot, k) \in Nat /\ EntriesAhead(slot, l) \in Nat /\ k \in Nat /\ l \in Nat
    BY <2>1, SumsAhead, SlotShape
  <2>3. /\ e \in 1..Len(B(slot, k).entries) /\ f \in 1..Len(B(slot, l).entries)
        /\ Len(B(slot, k).entries) \in Nat /\ Len(B(slot, l).entries) \in Nat
    BY <2>1, EntryShape
  <2>4. QED BY <2>2, <2>3
<1>3. ~(k < l)
  <2>1. SUFFICES ASSUME k < l PROVE FALSE
    OBVIOUS
  <2>2. EntriesAhead(slot, k) + Len(B(slot, k).entries) <= EntriesAhead(slot, l)
    BY <1>1, <2>1, AheadGrows
  <2>3. QED BY <1>1, <1>2, <2>2
<1>4. ~(l < k)
  <2>1. SUFFICES ASSUME l < k PROVE FALSE
    OBVIOUS
  <2>2. EntriesAhead(slot, l) + Len(B(slot, l).entries) <= EntriesAhead(slot, k)
    BY <1>1, <2>1, AheadGrows
  <2>3. QED BY <1>1, <1>2, <2>2
<1>5. k = l
  BY <1>2, <1>3, <1>4
<1>6. QED BY <1>1, <1>2, <1>5

----------------------------------------------------------------------------
(* What a piece brings.                                                     *)

HitOf(slot, k, e, t) ==
  [role |-> Payers(slot, k, e)[t], first_shred |-> B(slot, k).first,
   entry |-> e - 1, transaction |-> t - 1, signature |-> SignatureOf(slot, k, e, t)]

\* A transaction of either side, in one of these entries of a batch.
IsHit(slot, k, e, t, out) ==
  e \in out /\ t \in DOMAIN Payers(slot, k, e) /\ Payers(slot, k, e)[t] # "other"

\* A piece carries the entries a + 1 to c of its batch.
PieceFrom(piece, slot, k, a, c, now) ==
  /\ piece.first_shred = B(slot, k).first /\ piece.last_shred = now
  /\ DOMAIN piece.entries = 1..(c - a)
  /\ \A j \in 1..(c - a) : a + j \in E(slot, k) /\ piece.entries[j] = Signed(slot, k, a + j)

LEMMA PieceIs ==
  ASSUME NEW slot \in DOMAIN Slots, NEW k \in DOMAIN Slots[slot],
         NEW was \in Int, NEW now \in Int, was <= now
  PROVE  \E a \in Nat, c \in Nat :
           /\ a <= c /\ Out(slot, k, was) = 1..a /\ Out(slot, k, now) = 1..c
           /\ PieceFrom(Piece(slot, k, was, now), slot, k, a, c, now)
<1> DEFINE N == Len(B(slot, k).entries)
           fresh == {e \in E(slot, k) : Ends(slot, k, e) \in (was + 1)..now}
<1>1. N \in Nat /\ E(slot, k) = 1..N
  BY EntryShape
<1>2. PICK a \in 0..N : Out(slot, k, was) = 1..a
  BY OutIsPrefix
<1>3. PICK c \in 0..N : Out(slot, k, now) = 1..c
  BY OutIsPrefix
<1>4. \A e \in E(slot, k) : /\ Ends(slot, k, e) \in Nat
                            /\ Ends(slot, k, e) <= was => Ends(slot, k, e) <= now
                            /\ Ends(slot, k, e) \in (was + 1)..now
                                 <=> ~(Ends(slot, k, e) <= was) /\ Ends(slot, k, e) <= now
  BY EntryShape, SMTT(60)
<1>5. Out(slot, k, was) \subseteq Out(slot, k, now)
      /\ fresh = Out(slot, k, now) \ Out(slot, k, was)
  BY <1>4 DEF Out
<1>6. a \in Nat /\ c \in Nat /\ a <= c
  BY <1>1, <1>2, <1>3, <1>5
<1>7. fresh = (a + 1)..c
  BY <1>2, <1>3, <1>5, <1>6
<1>8. \A j \in 1..(c - a) : a + j \in E(slot, k)
  BY <1>1, <1>3, <1>6
<1>9. Ascending(fresh) = [j \in 1..(c - a) |-> a + j]
  <2>1. Ascending((a + 1)..c) = [j \in 1..(c - a) |-> a + j]
    BY <1>6, AscendingInterval
  <2> HIDE DEF fresh
  <2>2. QED BY <1>7, <2>1
<1>10. Piece(slot, k, was, now) =
         [first_shred |-> B(slot, k).first, last_shred |-> now,
          entries |-> [j \in DOMAIN Ascending(fresh) |-> Signed(slot, k, Ascending(fresh)[j])]]
  BY DEF Piece, B, E, Ends
<1> HIDE DEF fresh
<1>11. PieceFrom(Piece(slot, k, was, now), slot, k, a, c, now)
  <2>1. DOMAIN Ascending(fresh) = 1..(c - a)
        /\ \A j \in 1..(c - a) : Ascending(fresh)[j] = a + j
    BY <1>9
  <2>2. PICK s : s = Ascending(fresh)
    OBVIOUS
  <2>3. PICK piece : piece = Piece(slot, k, was, now)
    OBVIOUS
  <2>4. /\ piece.first_shred = B(slot, k).first /\ piece.last_shred = now
        /\ piece.entries = [j \in DOMAIN s |-> Signed(slot, k, s[j])]
    BY <1>10, <2>2, <2>3
  <2>5. /\ DOMAIN piece.entries = 1..(c - a)
        /\ \A j \in 1..(c - a) : piece.entries[j] = Signed(slot, k, a + j)
    BY <2>1, <2>2, <2>4
  <2>6. PieceFrom(piece, slot, k, a, c, now)
    BY <1>8, <2>4, <2>5 DEF PieceFrom
  <2>7. QED BY <2>3, <2>6
<1>12. QED BY <1>2, <1>3, <1>6, <1>11

\* Within the piece its entries are counted from the piece's first.
InPiece(slot, k, a, j, t) ==
  [role |-> Payers(slot, k, a + j)[t], first_shred |-> B(slot, k).first,
   entry |-> j - 1, transaction |-> t - 1, signature |-> SignatureOf(slot, k, a + j, t)]

LEMMA PieceHits ==
  ASSUME NEW slot \in DOMAIN Slots, NEW k \in DOMAIN Slots[slot],
         NEW a \in Nat, NEW c \in Nat, NEW now, NEW piece, PieceFrom(piece, slot, k, a, c, now),
         NEW hit
  PROVE  hit \in Hits(piece) <=>
           \E j \in 1..(c - a) : \E t \in DOMAIN Payers(slot, k, a + j) :
             Payers(slot, k, a + j)[t] # "other" /\ hit = InPiece(slot, k, a, j, t)
<1> DEFINE raw(e, t) == [role |-> piece.entries[e][t].payer, first_shred |-> piece.first_shred,
                         entry |-> e - 1, transaction |-> t - 1,
                         signature |-> piece.entries[e][t].signature]
<1>1. hit \in Hits(piece) <=>
        \E e \in DOMAIN piece.entries : \E t \in DOMAIN piece.entries[e] :
          hit = raw(e, t) /\ hit.role # "other"
  BY DEF Hits
<1>2. ASSUME NEW j \in 1..(c - a)
      PROVE  /\ DOMAIN piece.entries[j] = DOMAIN Payers(slot, k, a + j)
             /\ \A t \in DOMAIN Payers(slot, k, a + j) : raw(j, t) = InPiece(slot, k, a, j, t)
  <2>1. a + j \in E(slot, k) /\ piece.entries[j] = Signed(slot, k, a + j)
        /\ piece.first_shred = B(slot, k).first
    BY DEF PieceFrom
  <2>2. piece.entries[j] =
          [t \in DOMAIN Payers(slot, k, a + j) |->
             [payer |-> Payers(slot, k, a + j)[t], signature |-> SignatureOf(slot, k, a + j, t)]]
    <3>1. PICK e \in E(slot, k) : e = a + j
      BY <2>1
    <3>2. Signed(slot, k, e) =
            [t \in DOMAIN Payers(slot, k, e) |->
              [payer |-> Payers(slot, k, e)[t], signature |-> SignatureOf(slot, k, e, t)]]
      BY SignedIs
    <3>3. QED BY <2>1, <3>1, <3>2
  <2>3. \A t \in DOMAIN Payers(slot, k, a + j) :
          /\ piece.entries[j][t].payer = Payers(slot, k, a + j)[t]
          /\ piece.entries[j][t].signature = SignatureOf(slot, k, a + j, t)
    BY <2>2
  <2>4. DOMAIN piece.entries[j] = DOMAIN Payers(slot, k, a + j)
    BY <2>2
  <2>5. QED BY <2>1, <2>3, <2>4 DEF InPiece
<1>3. DOMAIN piece.entries = 1..(c - a)
  BY DEF PieceFrom
<1>4. \A j, t : InPiece(slot, k, a, j, t).role = Payers(slot, k, a + j)[t]
  BY DEF InPiece
<1> HIDE DEF raw
<1>5. ASSUME NEW j \in 1..(c - a), NEW t \in DOMAIN Payers(slot, k, a + j)
      PROVE  hit = raw(j, t) /\ hit.role # "other"
               <=> Payers(slot, k, a + j)[t] # "other" /\ hit = InPiece(slot, k, a, j, t)
  <2>1. raw(j, t) = InPiece(slot, k, a, j, t)
    BY <1>2
  <2>2. InPiece(slot, k, a, j, t).role = Payers(slot, k, a + j)[t]
    BY <1>4
  <2>3. QED BY <2>1, <2>2
<1>6. \A j \in 1..(c - a) : DOMAIN piece.entries[j] = DOMAIN Payers(slot, k, a + j)
  BY <1>2
<1>7. QED BY <1>1, <1>3, <1>5, <1>6

----------------------------------------------------------------------------
(* What the tracker has of a slot of whose batches so much is out.          *)

\* A span of a batch out to r has the entries that are out, and ends where
\* the batch does once that is out.
SpanRight(slot, k, span, r) ==
  /\ span.entries = [e \in Out(slot, k, r) |-> Len(Payers(slot, k, e))]
  /\ span.last_shred \in Int /\ span.last_shred <= r
  /\ r = B(slot, k).last => span.last_shred = B(slot, k).last

BatchRight(slot, k, held, r) ==
  IF B(slot, k).first \in DOMAIN held.batches
  THEN SpanRight(slot, k, held.batches[B(slot, k).first], r)
  ELSE Out(slot, k, r) = {} /\ r # B(slot, k).last

\* A hit of what is out.
OutHit(slot, hit, reach) ==
  \E k \in DOMAIN Slots[slot] : \E e \in Out(slot, k, reach[k]) :
    \E t : IsHit(slot, k, e, t, Out(slot, k, reach[k])) /\ hit = HitOf(slot, k, e, t)

\* reach[k] is how far the k-th batch has come.
HeldRight(slot, held, reach) ==
  /\ \A b \in DOMAIN held.batches : \E k \in DOMAIN Slots[slot] : b = B(slot, k).first
  /\ \A k \in DOMAIN Slots[slot] : BatchRight(slot, k, held, reach[k])
  /\ \A hit : hit \in held.hits <=> OutHit(slot, hit, reach)

LEMMA FirstsDiffer ==
  ASSUME NEW slot \in DOMAIN Slots, NEW k \in DOMAIN Slots[slot], NEW l \in DOMAIN Slots[slot],
         B(slot, k).first = B(slot, l).first
  PROVE  k = l
<1>1. /\ k \in Nat /\ l \in Nat
      /\ B(slot, k).first \in Nat /\ B(slot, k).last \in Nat /\ B(slot, k).first <= B(slot, k).last
      /\ B(slot, l).last \in Nat /\ B(slot, l).first <= B(slot, l).last
  <2>1. \A j \in DOMAIN Slots[slot] :
          /\ j \in Nat /\ B(slot, j).first \in Nat /\ B(slot, j).last \in Nat
          /\ B(slot, j).first <= B(slot, j).last
    BY SlotShape
  <2>2. QED BY <2>1
<1>2. ~(k < l)
  BY <1>1, FirstsGrow
<1>3. ~(l < k)
  BY <1>1, FirstsGrow
<1>4. QED BY <1>1, <1>2, <1>3

LEMMA SignedLength ==
  ASSUME NEW slot \in DOMAIN Slots, NEW k \in DOMAIN Slots[slot], NEW e \in E(slot, k)
  PROVE  Len(Signed(slot, k, e)) = Len(Payers(slot, k, e))
<1>1. DOMAIN Payers(slot, k, e) = 1..Len(Payers(slot, k, e)) /\ Len(Payers(slot, k, e)) \in Nat
  BY EntryShape
<1> DEFINE g(t) == [payer |-> Payers(slot, k, e)[t], signature |-> SignatureOf(slot, k, e, t)]
<1>2. Signed(slot, k, e) = [t \in 1..Len(Payers(slot, k, e)) |-> g(t)]
  BY <1>1, SignedIs
<1> HIDE DEF g
<1>3. QED BY <1>1, <1>2

\* Adding up a batch's pieces.
LEMMA CountsJoin ==
  ASSUME NEW a \in Nat, NEW c \in Nat, a <= c, NEW n \in [1..c -> Nat],
         NEW s, s = [e \in 1..a |-> n[e]], NEW t, t = [j \in 1..(c - a) |-> n[a + j]]
  PROVE  s \o t = n
<1>1. s \in Seq(Nat) /\ Len(s) = a
  <2>1. \A e \in 1..a : n[e] \in Nat
    OBVIOUS
  <2>2. QED BY <2>1
<1>2. t \in Seq(Nat) /\ Len(t) = c - a
  <2>1. \A j \in 1..(c - a) : n[a + j] \in Nat
    OBVIOUS
  <2>2. c - a \in Nat
    OBVIOUS
  <2>3. QED BY <2>1, <2>2
<1>3. /\ s \o t \in Seq(Nat) /\ Len(s \o t) = c
      /\ \A y \in 1..a : (s \o t)[y] = s[y]
      /\ \A x \in 1..(c - a) : (s \o t)[a + x] = t[x]
  BY <1>1, <1>2, Joined
<1>4. DOMAIN (s \o t) = 1..c
  BY <1>3, HasLength
<1>5. ASSUME NEW y \in 1..c PROVE (s \o t)[y] = n[y]
  <2>1. CASE y <= a
    BY <1>3, <2>1
  <2>2. CASE ~(y <= a)
    <3>1. y - a \in 1..(c - a) /\ a + (y - a) = y
      BY <2>2
    <3>2. (s \o t)[a + (y - a)] = t[y - a]
      BY <1>3, <3>1
    <3>3. t[y - a] = n[a + (y - a)]
      BY <3>1
    <3>4. QED BY <3>1, <3>2, <3>3
  <2>3. QED BY <2>1, <2>2
<1>6. s \o t = [y \in 1..c |-> (s \o t)[y]]
  BY <1>3, <1>4
<1>7. n = [y \in 1..c |-> n[y]]
  OBVIOUS
<1>8. QED BY <1>5, <1>6, <1>7

SpanBefore(held, piece) ==
  IF piece.first_shred \in DOMAIN held.batches
  THEN held.batches[piece.first_shred]
  ELSE [last_shred |-> piece.last_shred, entries |-> <<>>]

Grown(held, piece) ==
  [last_shred |-> Extended(SpanBefore(held, piece), piece.last_shred),
   entries    |-> SpanBefore(held, piece).entries \o
                    [e \in DOMAIN piece.entries |-> Len(piece.entries[e])]]

PlacedHits(span, piece) == {Placed(span, h) : h \in Hits(piece)}

\* A hit in the entries a + 1 to c of a batch.
HitBetween(slot, k, a, c, hit) ==
  \E e \in (a + 1)..c : \E t : IsHit(slot, k, e, t, (a + 1)..c) /\ hit = HitOf(slot, k, e, t)

\* A piece takes its batch from was to now: from a entries to c.
Brings(piece, slot, k, was, now, a, c) ==
  /\ slot \in DOMAIN Slots /\ k \in DOMAIN Slots[slot]
  /\ was \in Int /\ now \in Int /\ was < now
  /\ a \in Nat /\ c \in Nat /\ a <= c
  /\ Out(slot, k, was) = 1..a /\ Out(slot, k, now) = 1..c
  /\ PieceFrom(piece, slot, k, a, c, now)

LEMMA PieceBrings ==
  ASSUME NEW slot \in DOMAIN Slots, NEW k \in DOMAIN Slots[slot],
         NEW was \in Int, NEW now \in Int, was < now
  PROVE  \E a, c : Brings(Piece(slot, k, was, now), slot, k, was, now, a, c)
<1>1. PICK a \in Nat, c \in Nat :
        /\ a <= c /\ Out(slot, k, was) = 1..a /\ Out(slot, k, now) = 1..c
        /\ PieceFrom(Piece(slot, k, was, now), slot, k, a, c, now)
  BY PieceIs
<1>2. Brings(Piece(slot, k, was, now), slot, k, was, now, a, c)
  BY <1>1 DEF Brings
<1>3. QED BY <1>2

\* The span a piece leaves: what is out of the batch when the piece is.
LEMMA SpanGrows ==
  ASSUME NEW piece, NEW slot, NEW k, NEW was, NEW now, NEW a, NEW c,
         Brings(piece, slot, k, was, now, a, c), NEW held, BatchRight(slot, k, held, was)
  PROVE  Len(SpanBefore(held, piece).entries) = a /\ SpanRight(slot, k, Grown(held, piece), now)
<1> SUFFICES ASSUME slot \in DOMAIN Slots, k \in DOMAIN Slots[slot],
                    was \in Int, now \in Int, was < now, a \in Nat, c \in Nat, a <= c,
                    Out(slot, k, was) = 1..a, Out(slot, k, now) = 1..c,
                    PieceFrom(piece, slot, k, a, c, now)
             PROVE  /\ Len(SpanBefore(held, piece).entries) = a
                    /\ SpanRight(slot, k, Grown(held, piece), now)
  BY DEF Brings
<1> DEFINE span == SpanBefore(held, piece)
           n == [e \in 1..c |-> Len(Payers(slot, k, e))]
           brought == [e \in DOMAIN piece.entries |-> Len(piece.entries[e])]
<1>1. /\ piece.first_shred = B(slot, k).first /\ piece.last_shred = now
      /\ DOMAIN piece.entries = 1..(c - a)
      /\ \A j \in 1..(c - a) : a + j \in E(slot, k) /\ piece.entries[j] = Signed(slot, k, a + j)
  BY DEF PieceFrom
<1>2. n \in [1..c -> Nat]
  <2>1. \A e \in 1..c : e \in E(slot, k)
    BY DEF Out
  <2>2. QED BY <2>1, EntryShape
<1>3. span.entries = [e \in 1..a |-> n[e]] /\ span.last_shred \in Int /\ span.last_shred <= now
  <2>1. \A e \in 1..a : e \in 1..c
    OBVIOUS
  <2>2. CASE B(slot, k).first \in DOMAIN held.batches
    <3>1. SpanRight(slot, k, span, was)
      BY <1>1, <2>2 DEF BatchRight, SpanBefore
    <3> HIDE DEF span
    <3>2. span.entries = [e \in 1..a |-> Len(Payers(slot, k, e))]
          /\ span.last_shred \in Int /\ span.last_shred <= was
      BY <3>1 DEF SpanRight
    <3>3. QED BY <2>1, <3>2
  <2>3. CASE B(slot, k).first \notin DOMAIN held.batches
    <3>1. Out(slot, k, was) = {}
      BY <2>3 DEF BatchRight
    <3>2. 1..a = {}
      BY <3>1
    <3>3. span = [last_shred |-> now, entries |-> <<>>]
      BY <1>1, <2>3 DEF SpanBefore
    <3> HIDE DEF span
    <3>4. span.entries = <<>> /\ span.last_shred = now
      BY <3>3
    <3>5. <<>> = [e \in 1..a |-> n[e]]
      BY <3>2
    <3>6. QED BY <3>4, <3>5
  <2>4. QED BY <2>2, <2>3
<1>4. brought = [j \in 1..(c - a) |-> n[a + j]]
  <2>1. ASSUME NEW j \in 1..(c - a) PROVE Len(piece.entries[j]) = n[a + j]
    <3>1. PICK e \in E(slot, k) : e = a + j
      BY <1>1
    <3>2. piece.entries[j] = Signed(slot, k, e) /\ e \in 1..c
      BY <1>1, <3>1
    <3>3. QED BY <3>1, <3>2, SignedLength
  <2> HIDE DEF n
  <2>2. QED BY <1>1, <2>1
<1> HIDE DEF n, brought, span
<1>5. span.entries \o brought = n
  BY <1>2, <1>3, <1>4, CountsJoin
<1>6. Len(span.entries) = a
  BY <1>3
<1>7. Extended(span, piece.last_shred) = now
  <2>1. Max({span.last_shred, now}) \in {span.last_shred, now} /\ Max({span.last_shred, now}) >= now
    BY <1>3, MaxOfTwo
  <2>2. QED BY <1>1, <1>3, <2>1 DEF Extended
<1> DEFINE grown == [last_shred |-> Extended(span, piece.last_shred),
                     entries |-> span.entries \o brought]
<1>8. SpanRight(slot, k, grown, now)
  <2>1. grown.last_shred = now /\ grown.entries = n
    BY <1>5, <1>7
  <2>2. n = [e \in Out(slot, k, now) |-> Len(Payers(slot, k, e))]
    BY DEF n
  <2> HIDE DEF grown
  <2>3. QED BY <2>1, <2>2 DEF SpanRight
<1>9. QED BY <1>6, <1>8 DEF span, brought, Grown

\* The hits a piece leaves: those there were, and those of the entries in it.
LEMMA HitsGrow ==
  ASSUME NEW piece, NEW slot, NEW k, NEW was, NEW now, NEW a, NEW c,
         Brings(piece, slot, k, was, now, a, c), NEW span, Len(span.entries) = a, NEW hit
  PROVE  hit \in PlacedHits(span, piece) <=> HitBetween(slot, k, a, c, hit)
<1> SUFFICES ASSUME slot \in DOMAIN Slots, k \in DOMAIN Slots[slot],
                    a \in Nat, c \in Nat, a <= c, PieceFrom(piece, slot, k, a, c, now)
             PROVE  hit \in {Placed(span, h) : h \in Hits(piece)} <=>
                      \E e \in (a + 1)..c : \E t :
                        IsHit(slot, k, e, t, (a + 1)..c) /\ hit = HitOf(slot, k, e, t)
  BY DEF Brings, PlacedHits, HitBetween
<1>1. \A h : h \in Hits(piece) <=>
        \E j \in 1..(c - a) : \E t \in DOMAIN Payers(slot, k, a + j) :
          Payers(slot, k, a + j)[t] # "other" /\ h = InPiece(slot, k, a, j, t)
  BY PieceHits
<1>2. ASSUME NEW j \in 1..(c - a), NEW t
      PROVE  Placed(span, InPiece(slot, k, a, j, t)) = HitOf(slot, k, a + j, t)
  <2>1. (j - 1) + a = (a + j) - 1
    OBVIOUS
  <2>2. Placed(span, InPiece(slot, k, a, j, t)) =
          [role |-> Payers(slot, k, a + j)[t], first_shred |-> B(slot, k).first,
           entry |-> (j - 1) + a, transaction |-> t - 1,
           signature |-> SignatureOf(slot, k, a + j, t)]
    BY DEF Placed, InPiece
  <2>3. QED BY <2>1, <2>2 DEF HitOf
<1>3. ASSUME hit \in {Placed(span, h) : h \in Hits(piece)}
      PROVE  \E e \in (a + 1)..c : \E t :
               IsHit(slot, k, e, t, (a + 1)..c) /\ hit = HitOf(slot, k, e, t)
  <2>1. PICK h \in Hits(piece) : hit = Placed(span, h)
    BY <1>3
  <2>2. PICK j \in 1..(c - a) : \E t \in DOMAIN Payers(slot, k, a + j) :
          Payers(slot, k, a + j)[t] # "other" /\ h = InPiece(slot, k, a, j, t)
    BY <1>1, <2>1
  <2> PICK t \in DOMAIN Payers(slot, k, a + j) :
        Payers(slot, k, a + j)[t] # "other" /\ h = InPiece(slot, k, a, j, t)
    BY <2>2
  <2>3. a + j \in (a + 1)..c
    OBVIOUS
  <2>4. hit = HitOf(slot, k, a + j, t)
    BY <1>2, <2>1, <2>2
  <2>5. IsHit(slot, k, a + j, t, (a + 1)..c)
    BY <2>2, <2>3 DEF IsHit
  <2>6. QED BY <2>3, <2>4, <2>5
<1>4. ASSUME NEW e \in (a + 1)..c, NEW t, IsHit(slot, k, e, t, (a + 1)..c),
             hit = HitOf(slot, k, e, t)
      PROVE  hit \in {Placed(span, h) : h \in Hits(piece)}
  <2>1. PICK j \in 1..(c - a) : e = a + j
    <3>1. e - a \in 1..(c - a) /\ e = a + (e - a)
      OBVIOUS
    <3>2. QED BY <3>1
  <2>2. t \in DOMAIN Payers(slot, k, a + j) /\ Payers(slot, k, a + j)[t] # "other"
    BY <1>4, <2>1 DEF IsHit
  <2>3. InPiece(slot, k, a, j, t) \in Hits(piece)
    BY <1>1, <2>2
  <2>4. Placed(span, InPiece(slot, k, a, j, t)) = hit
    BY <1>2, <1>4, <2>1
  <2>5. QED BY <2>3, <2>4
<1>5. QED BY <1>3, <1>4

\* Recording a piece of a batch that had come to was is having it come to now.
LEMMA RecordedRight ==
  ASSUME NEW slot \in DOMAIN Slots, NEW k \in DOMAIN Slots[slot],
         NEW was \in Int, NEW now \in Int, was < now,
         NEW held, NEW reach, HeldRight(slot, held, reach), reach[k] = was,
         NEW reached, reached[k] = now,
         \A l \in DOMAIN Slots[slot] : l # k => reached[l] = reach[l]
  PROVE  HeldRight(slot, Recorded(held, Piece(slot, k, was, now)), reached)
<1>1. PICK piece : piece = Piece(slot, k, was, now)
  OBVIOUS
<1>2. PICK a, c : Brings(piece, slot, k, was, now, a, c)
  BY <1>1, PieceBrings
<1> DEFINE span == SpanBefore(held, piece)
           grown == Grown(held, piece)
           new == Recorded(held, piece)
           first == B(slot, k).first
<1>3. /\ a \in Nat /\ c \in Nat /\ a <= c
      /\ Out(slot, k, was) = 1..a /\ Out(slot, k, now) = 1..c /\ piece.first_shred = first
  BY <1>2 DEF Brings, PieceFrom
<1>4. Len(span.entries) = a /\ SpanRight(slot, k, grown, now)
  <2>1. BatchRight(slot, k, held, was)
    BY DEF HeldRight
  <2>2. QED BY <1>2, <2>1, SpanGrows
<1>5. new = [batches |-> [b \in DOMAIN held.batches \cup {first} |->
                            IF b = first THEN grown ELSE held.batches[b]],
             hits |-> held.hits \cup PlacedHits(span, piece)]
  BY <1>3 DEF Recorded, SpanBefore, Grown, PlacedHits
<1> HIDE DEF grown, span, new
<1>6. /\ DOMAIN new.batches = DOMAIN held.batches \cup {first}
      /\ new.batches[first] = grown
      /\ \A b \in DOMAIN held.batches : b # first => new.batches[b] = held.batches[b]
      /\ new.hits = held.hits \cup PlacedHits(span, piece)
  BY <1>5
<1>7. \A b \in DOMAIN new.batches : \E l \in DOMAIN Slots[slot] : b = B(slot, l).first
  BY <1>6 DEF HeldRight
<1>8. ASSUME NEW l \in DOMAIN Slots[slot] PROVE BatchRight(slot, l, new, reached[l])
  <2>1. CASE l = k
    BY <1>4, <1>6, <2>1 DEF BatchRight
  <2>2. CASE l # k
    <3>1. B(slot, l).first # first /\ reached[l] = reach[l]
      BY <2>2, FirstsDiffer
    <3>2. BatchRight(slot, l, held, reach[l])
      BY DEF HeldRight
    <3> HIDE DEF first
    <3>3. QED BY <1>6, <3>1, <3>2 DEF BatchRight
  <2>3. QED BY <2>1, <2>2
<1>9. ASSUME NEW hit PROVE hit \in new.hits <=> OutHit(slot, hit, reached)
  <2>1. hit \in held.hits <=> OutHit(slot, hit, reach)
    BY DEF HeldRight
  <2>2. hit \in PlacedHits(span, piece) <=>
          \E e \in (a + 1)..c : \E t :
            IsHit(slot, k, e, t, (a + 1)..c) /\ hit = HitOf(slot, k, e, t)
    <3>1. hit \in PlacedHits(span, piece) <=> HitBetween(slot, k, a, c, hit)
      BY <1>2, <1>4, HitsGrow
    <3>2. QED BY <3>1 DEF HitBetween
  <2>3. Out(slot, k, now) = Out(slot, k, was) \cup ((a + 1)..c)
    BY <1>3
  <2>4. ASSUME OutHit(slot, hit, reach) PROVE OutHit(slot, hit, reached)
    <3>1. PICK l \in DOMAIN Slots[slot] : \E e \in Out(slot, l, reach[l]) : \E t :
            IsHit(slot, l, e, t, Out(slot, l, reach[l])) /\ hit = HitOf(slot, l, e, t)
      BY <2>4 DEF OutHit
    <3>2. PICK e \in Out(slot, l, reach[l]) : \E t :
            IsHit(slot, l, e, t, Out(slot, l, reach[l])) /\ hit = HitOf(slot, l, e, t)
      BY <3>1
    <3>3. PICK t : IsHit(slot, l, e, t, Out(slot, l, reach[l])) /\ hit = HitOf(slot, l, e, t)
      BY <3>2
    <3>4. e \in Out(slot, l, reached[l])
      BY <2>3
    <3>5. IsHit(slot, l, e, t, Out(slot, l, reached[l]))
      BY <3>3, <3>4 DEF IsHit
    <3>6. QED BY <3>3, <3>4, <3>5 DEF OutHit
  <2>5. ASSUME NEW e \in (a + 1)..c, NEW t, IsHit(slot, k, e, t, (a + 1)..c),
               hit = HitOf(slot, k, e, t)
        PROVE  OutHit(slot, hit, reached)
    <3>1. e \in Out(slot, k, reached[k])
      BY <2>3
    <3>2. IsHit(slot, k, e, t, Out(slot, k, reached[k]))
      BY <2>5, <3>1 DEF IsHit
    <3>3. QED BY <2>5, <3>1, <3>2 DEF OutHit
  <2>6. ASSUME OutHit(slot, hit, reached), ~OutHit(slot, hit, reach)
        PROVE  \E e \in (a + 1)..c : \E t :
                 IsHit(slot, k, e, t, (a + 1)..c) /\ hit = HitOf(slot, k, e, t)
    <3>1. PICK l \in DOMAIN Slots[slot] : \E e \in Out(slot, l, reached[l]) : \E t :
            IsHit(slot, l, e, t, Out(slot, l, reached[l])) /\ hit = HitOf(slot, l, e, t)
      BY <2>6 DEF OutHit
    <3>2. PICK e \in Out(slot, l, reached[l]) : \E t :
            IsHit(slot, l, e, t, Out(slot, l, reached[l])) /\ hit = HitOf(slot, l, e, t)
      BY <3>1
    <3>3. PICK t : IsHit(slot, l, e, t, Out(slot, l, reached[l])) /\ hit = HitOf(slot, l, e, t)
      BY <3>2
    <3>4. e \notin Out(slot, l, reach[l])
      <4>1. SUFFICES ASSUME e \in Out(slot, l, reach[l]) PROVE FALSE
        OBVIOUS
      <4>2. IsHit(slot, l, e, t, Out(slot, l, reach[l]))
        BY <3>3, <4>1 DEF IsHit
      <4>3. QED BY <2>6, <3>3, <4>1, <4>2 DEF OutHit
    <3>5. l = k /\ e \in (a + 1)..c
      BY <2>3, <3>4
    <3>6. IsHit(slot, k, e, t, (a + 1)..c) /\ hit = HitOf(slot, k, e, t)
      BY <3>3, <3>5 DEF IsHit
    <3>7. QED BY <3>5, <3>6
  <2>7. QED BY <1>6, <2>1, <2>2, <2>4, <2>5, <2>6
<1>10. HeldRight(slot, new, reached)
  BY <1>7, <1>8, <1>9 DEF HeldRight
<1>11. QED BY <1>1, <1>10 DEF new

----------------------------------------------------------------------------
(* Gaps.                                                                    *)

\* No batch has come further than its last shred.
ReachFits(slot, reach) == \A k \in DOMAIN Slots[slot] : reach[k] \in Int /\ reach[k] <= B(slot, k).last

Between(held, low, high) == {b \in DOMAIN held.batches : low <= b /\ b <= high}

TiledOver(held, low, high) ==
  /\ high \in Between(held, low, high)
  /\ \A b \in Between(held, low, high) : b # low =>
       \E a \in Between(held, low, high) : a < b /\ held.batches[a].last_shred + 1 = b

LEMMA FirstsOrder ==
  ASSUME NEW slot \in DOMAIN Slots, NEW k \in DOMAIN Slots[slot], NEW l \in DOMAIN Slots[slot]
  PROVE  /\ B(slot, k).first < B(slot, l).first <=> k < l
         /\ B(slot, k).first <= B(slot, l).first <=> k <= l
         /\ B(slot, k).last < B(slot, l).last <=> k < l
<1>1. /\ k \in Nat /\ l \in Nat
      /\ B(slot, k).first \in Nat /\ B(slot, k).last \in Nat /\ B(slot, k).first <= B(slot, k).last
      /\ B(slot, l).first \in Nat /\ B(slot, l).last \in Nat /\ B(slot, l).first <= B(slot, l).last
  <2>1. \A j \in DOMAIN Slots[slot] :
          /\ j \in Nat /\ B(slot, j).first \in Nat /\ B(slot, j).last \in Nat
          /\ B(slot, j).first <= B(slot, j).last
    BY SlotShape
  <2>2. QED BY <2>1
<1>2. k < l => B(slot, k).last < B(slot, l).first
  BY FirstsGrow
<1>3. l < k => B(slot, l).last < B(slot, k).first
  BY FirstsGrow
<1>4. k = l \/ k < l \/ l < k
  BY <1>1
<1>5. QED BY <1>1, <1>2, <1>3, <1>4

\* Going back from the later batch, every batch is there and whole up to the
\* earlier one.
LEMMA TiledIsHeld ==
  ASSUME NEW slot \in DOMAIN Slots, NEW held, NEW reach,
         HeldRight(slot, held, reach), ReachFits(slot, reach),
         NEW k \in DOMAIN Slots[slot], NEW l \in DOMAIN Slots[slot], k <= l,
         TiledOver(held, B(slot, k).first, B(slot, l).first)
  PROVE  \A j \in k..l :
           /\ B(slot, j).first \in DOMAIN held.batches
           /\ j < l => held.batches[B(slot, j).first].last_shred = B(slot, j).last
<1> DEFINE low == B(slot, k).first
           high == B(slot, l).first
           range == Between(held, low, high)
           Holds(d) == /\ B(slot, l - d).first \in DOMAIN held.batches
                       /\ d # 0 => held.batches[B(slot, l - d).first].last_shred = B(slot, l - d).last
           Bad == {d \in 0..(l - k) : ~Holds(d)}
<1>1. k \in Nat /\ l \in Nat /\ k >= 1 /\ \A j \in k..l : j \in DOMAIN Slots[slot]
  BY SlotShape
<1>2. Bad = {}
  <2> SUFFICES ASSUME Bad # {} PROVE FALSE
    OBVIOUS
  <2>1. Bad \subseteq Nat
    BY <1>1
  <2>2. PICK d \in Bad : \A x \in Bad : d <= x
    <3> HIDE DEF Bad
    <3>1. QED BY <2>1, LeastNat
  <2>3. d \in 0..(l - k) /\ ~Holds(d) /\ d \in Nat
    BY <1>1, <2>2
  <2>4. d # 0
    <3>1. SUFFICES ASSUME d = 0 PROVE FALSE
      OBVIOUS
    <3>2. l - d = l
      BY <1>1, <3>1
    <3>3. high \in DOMAIN held.batches
      BY DEF TiledOver, Between
    <3>4. QED BY <2>3, <3>1, <3>2, <3>3
  <2>5. d - 1 \in 0..(l - k) /\ d - 1 \notin Bad
    <3>1. d - 1 \in 0..(l - k)
      BY <1>1, <2>3, <2>4
    <3> HIDE DEF Bad
    <3>2. QED BY <2>2, <2>3, <3>1
  <2>6. Holds(d - 1)
    BY <2>5
  <2>7. PICK j \in DOMAIN Slots[slot] : j = l - (d - 1) /\ k < j /\ j <= l /\ j - 1 = l - d
                                         /\ j - 1 \in DOMAIN Slots[slot]
    <3>1. l - (d - 1) \in k..l /\ k < l - (d - 1) /\ l - d \in k..l
          /\ l - (d - 1) <= l /\ (l - (d - 1)) - 1 = l - d
      BY <1>1, <2>3, <2>4
    <3>2. QED BY <1>1, <3>1
  <2> DEFINE b == B(slot, j).first
  <2>8. b \in range /\ b # low
    <3>1. b \in DOMAIN held.batches
      BY <2>6, <2>7
    <3>2. low < b /\ b <= high
      BY <1>1, <2>7, FirstsOrder
    <3>3. b \in Nat /\ low \in Nat
      BY SlotShape
    <3> HIDE DEF b, low, high
    <3>4. QED BY <3>1, <3>2, <3>3 DEF Between
  <2>9. PICK a \in range : a < b /\ held.batches[a].last_shred + 1 = b
    <3> HIDE DEF b
    <3>1. QED BY <2>8 DEF TiledOver
  <2>10. a \in DOMAIN held.batches
    BY DEF Between
  <2>11. PICK i \in DOMAIN Slots[slot] : a = B(slot, i).first
    BY <2>10 DEF HeldRight
  <2>12. i < j
    BY <2>9, <2>11, FirstsOrder
  <2>13. SpanRight(slot, i, held.batches[a], reach[i])
    BY <2>10, <2>11 DEF HeldRight, BatchRight
  <2>14. /\ held.batches[a].last_shred \in Int /\ held.batches[a].last_shred <= B(slot, i).last
    <3>1. B(slot, i).last \in Nat
      BY SlotShape
    <3>2. QED BY <2>13, <3>1 DEF SpanRight, ReachFits
  <2>15. b = B(slot, j - 1).last + 1 /\ B(slot, j - 1).last \in Nat /\ j \in Nat /\ i \in Nat
    <3>1. j \in Nat /\ i \in Nat /\ k \in Nat /\ k >= 1 /\ B(slot, j - 1).last \in Nat
      BY <1>1, <2>7, SlotShape
    <3>2. j # 1
      BY <2>7, <3>1
    <3>3. b = IF j = 1 THEN 0 ELSE B(slot, j - 1).last + 1
      BY SlotShape
    <3>4. QED BY <3>1, <3>2, <3>3
  <2>16. held.batches[a].last_shred = B(slot, j - 1).last
    <3> HIDE DEF b
    <3>1. QED BY <2>9, <2>14, <2>15
  <2>17. ~(i < j - 1)
    <3>1. SUFFICES ASSUME i < j - 1 PROVE FALSE
      OBVIOUS
    <3>2. B(slot, i).last < B(slot, j - 1).last
      BY <2>7, <3>1, FirstsOrder
    <3>3. B(slot, i).last \in Nat
      BY SlotShape
    <3>4. QED BY <2>14, <2>15, <2>16, <3>2, <3>3
  <2>18. i = l - d
    BY <2>7, <2>12, <2>15, <2>17
  <2>19. Holds(d)
    BY <2>7, <2>10, <2>11, <2>16, <2>18
  <2>20. QED BY <2>3, <2>19
<1>3. ASSUME NEW j \in k..l
      PROVE  /\ B(slot, j).first \in DOMAIN held.batches
             /\ j < l => held.batches[B(slot, j).first].last_shred = B(slot, j).last
  <2>1. l - j \in 0..(l - k) /\ l - (l - j) = j /\ (j < l => l - j # 0)
    BY <1>1
  <2>2. Holds(l - j)
    <3>1. l - j \notin Bad
      <4> HIDE DEF Bad
      <4>1. QED BY <1>2
    <3>2. QED BY <2>1, <3>1
  <2>3. QED BY <2>1, <2>2
<1>4. QED BY <1>3

LEMMA SpanCounts ==
  ASSUME NEW slot \in DOMAIN Slots, NEW k \in DOMAIN Slots[slot], NEW r \in Int,
         NEW span, SpanRight(slot, k, span, r)
  PROVE  /\ SumOf(span.entries) \in Nat /\ Len(span.entries) \in Nat
         /\ B(slot, k).last <= r =>
              span.entries = Counts(slot, k) /\ Len(span.entries) = Len(B(slot, k).entries)
<1>1. PICK n \in 0..Len(B(slot, k).entries) : Out(slot, k, r) = 1..n
  BY OutIsPrefix
<1>2. n \in Nat
  BY EntryShape
<1>3. span.entries = [e \in 1..n |-> Len(Payers(slot, k, e))]
  BY <1>1 DEF SpanRight
<1>4. \A e \in 1..n : e \in E(slot, k) /\ Len(Payers(slot, k, e)) \in Nat
  <2>1. \A e \in 1..n : e \in E(slot, k)
    BY <1>1 DEF Out
  <2>2. QED BY <2>1, EntryShape
<1>5. span.entries \in [1..n -> Nat] /\ Len(span.entries) = n
  BY <1>2, <1>3, <1>4
<1>6. SumOf(span.entries) \in Nat
  <2>1. IsFiniteSet(1..n)
    BY <1>2, FS_Interval
  <2>2. PICK R : R = 1..n
    OBVIOUS
  <2>3. IsFiniteSet(R) /\ span.entries \in [R -> Nat]
    BY <1>5, <2>1, <2>2
  <2>4. QED BY <2>3, SumNat
<1>7. ASSUME B(slot, k).last <= r
      PROVE  span.entries = Counts(slot, k) /\ Len(span.entries) = Len(B(slot, k).entries)
  <2>1. \A e \in E(slot, k) : Ends(slot, k, e) <= r
    <3>1. B(slot, k).last \in Nat
      BY SlotShape
    <3>2. \A e \in E(slot, k) : Ends(slot, k, e) <= B(slot, k).last /\ Ends(slot, k, e) \in Nat
      BY EntryShape
    <3>3. QED BY <1>7, <3>1, <3>2
  <2>2. Out(slot, k, r) = E(slot, k)
    BY <2>1 DEF Out
  <2>3. span.entries = Counts(slot, k)
    BY <2>2 DEF SpanRight, Counts
  <2>4. 1..n = 1..Len(B(slot, k).entries) /\ Len(B(slot, k).entries) \in Nat
    BY <1>1, <2>2, EntryShape
  <2>5. n = Len(B(slot, k).entries)
    BY <1>2, <2>4
  <2>6. QED BY <1>5, <2>3, <2>5
<1>8. QED BY <1>2, <1>5, <1>6, <1>7

\* The batches held before a shred, and what they add up to.
HeldBefore(held, x) == {b \in DOMAIN held.batches : b < x}

TxsHeld(held, x) == SumOf([b \in HeldBefore(held, x) |-> SumOf(held.batches[b].entries)])

EntriesHeld(held, x) == SumOf([b \in HeldBefore(held, x) |-> Len(held.batches[b].entries)])

LEMMA HeldSums ==
  ASSUME NEW slot \in DOMAIN Slots, NEW held, NEW reach,
         HeldRight(slot, held, reach), ReachFits(slot, reach), NEW x \in Nat
  PROVE  /\ IsFiniteSet(HeldBefore(held, x))
         /\ [b \in HeldBefore(held, x) |-> SumOf(held.batches[b].entries)]
              \in [HeldBefore(held, x) -> Nat]
         /\ [b \in HeldBefore(held, x) |-> Len(held.batches[b].entries)]
              \in [HeldBefore(held, x) -> Nat]
         /\ TxsHeld(held, x) \in Nat /\ EntriesHeld(held, x) \in Nat
<1> DEFINE S == HeldBefore(held, x)
<1>1. ASSUME NEW b \in S
      PROVE  b \in 0..x /\ SumOf(held.batches[b].entries) \in Nat /\ Len(held.batches[b].entries) \in Nat
  <2>1. b \in DOMAIN held.batches /\ b < x
    BY DEF HeldBefore
  <2>2. PICK k \in DOMAIN Slots[slot] : b = B(slot, k).first
    BY <2>1 DEF HeldRight
  <2>3. b \in Nat
    BY <2>2, SlotShape
  <2>4. SpanRight(slot, k, held.batches[b], reach[k]) /\ reach[k] \in Int
    BY <2>1, <2>2 DEF HeldRight, BatchRight, ReachFits
  <2>5. QED BY <2>1, <2>3, <2>4, SpanCounts
<1>2. IsFiniteSet(S)
  <2>1. IsFiniteSet(0..x)
    BY FS_Interval
  <2>2. S \subseteq 0..x
    BY <1>1
  <2>3. QED BY <2>1, <2>2, FS_Subset
<1>3. /\ [b \in S |-> SumOf(held.batches[b].entries)] \in [S -> Nat]
      /\ [b \in S |-> Len(held.batches[b].entries)] \in [S -> Nat]
  BY <1>1
<1> HIDE DEF S
<1>4. /\ SumOf([b \in S |-> SumOf(held.batches[b].entries)]) \in Nat
      /\ SumOf([b \in S |-> Len(held.batches[b].entries)]) \in Nat
  BY <1>2, <1>3, SumNat
<1>5. QED BY <1>2, <1>3, <1>4 DEF S, TxsHeld, EntriesHeld

\* Going over a batch that is whole adds what the leader put in it.
LEMMA HeldStep ==
  ASSUME NEW slot \in DOMAIN Slots, NEW held, NEW reach,
         HeldRight(slot, held, reach), ReachFits(slot, reach),
         NEW j \in DOMAIN Slots[slot], j + 1 \in DOMAIN Slots[slot],
         B(slot, j).first \in DOMAIN held.batches,
         held.batches[B(slot, j).first].last_shred = B(slot, j).last
  PROVE  /\ TxsHeld(held, B(slot, j + 1).first)
              = TxsHeld(held, B(slot, j).first) + SumOf(Counts(slot, j))
         /\ EntriesHeld(held, B(slot, j + 1).first)
              = EntriesHeld(held, B(slot, j).first) + Len(B(slot, j).entries)
<1>1. PICK x \in Nat : x = B(slot, j).first
  BY SlotShape
<1>2. PICK y \in Nat : y = B(slot, j + 1).first
  BY SlotShape
<1> DEFINE S == HeldBefore(held, y)
           f == [b \in S |-> SumOf(held.batches[b].entries)]
           g == [b \in S |-> Len(held.batches[b].entries)]
<1>3. x \in S /\ S \ {x} = HeldBefore(held, x)
  <2>1. PICK n \in DOMAIN Slots[slot] : n = j + 1
    OBVIOUS
  <2>2. x < y
    BY <1>1, <1>2, <2>1, SlotShape, FirstsOrder
  <2>3. ASSUME NEW b \in DOMAIN held.batches PROVE b < y /\ b # x <=> b < x
    <3>1. PICK i \in DOMAIN Slots[slot] : b = B(slot, i).first
      BY DEF HeldRight
    <3>2. /\ b < y <=> i < n
          /\ b < x <=> i < j
          /\ b = x <=> i = j
      BY <1>1, <1>2, <2>1, <3>1, FirstsOrder, FirstsDiffer
    <3>3. i \in Nat /\ j \in Nat
      BY SlotShape
    <3>4. QED BY <2>1, <3>2, <3>3
  <2>4. QED BY <1>1, <2>2, <2>3 DEF HeldBefore
<1>4. IsFiniteSet(S) /\ f \in [S -> Int] /\ g \in [S -> Int]
  <2>1. IsFiniteSet(S) /\ f \in [S -> Nat] /\ g \in [S -> Nat]
    BY HeldSums
  <2> HIDE DEF S, f, g
  <2>2. QED BY <2>1
<1>5. /\ SumOf(f) = f[x] + SumOf([b \in S \ {x} |-> f[b]])
      /\ SumOf(g) = g[x] + SumOf([b \in S \ {x} |-> g[b]])
  <2> HIDE DEF S, f, g
  <2>1. x \in S /\ IsFiniteSet(S) /\ f \in [S -> Int] /\ g \in [S -> Int]
    BY <1>3, <1>4
  <2>2. SumOf(f) = f[x] + SumOf([b \in S \ {x} |-> f[b]])
    BY <2>1, SumTake, ZenonT(60)
  <2>3. SumOf(g) = g[x] + SumOf([b \in S \ {x} |-> g[b]])
    BY <2>1, SumTake, ZenonT(60)
  <2>4. QED BY <2>2, <2>3
<1>6. /\ [b \in S \ {x} |-> f[b]] = [b \in HeldBefore(held, x) |-> SumOf(held.batches[b].entries)]
      /\ [b \in S \ {x} |-> g[b]] = [b \in HeldBefore(held, x) |-> Len(held.batches[b].entries)]
      /\ f[x] = SumOf(held.batches[x].entries) /\ g[x] = Len(held.batches[x].entries)
  BY <1>3
<1>7. held.batches[x].entries = Counts(slot, j)
      /\ Len(held.batches[x].entries) = Len(B(slot, j).entries)
  <2>1. SpanRight(slot, j, held.batches[x], reach[j]) /\ reach[j] \in Int
    BY <1>1 DEF HeldRight, BatchRight, ReachFits
  <2>2. B(slot, j).last <= reach[j]
    BY <1>1, <2>1 DEF SpanRight
  <2>3. QED BY <2>1, <2>2, SpanCounts
<1>8. SumOf(f) = TxsHeld(held, y) /\ SumOf(g) = EntriesHeld(held, y)
  BY DEF TxsHeld, EntriesHeld
<1> HIDE DEF S, f, g
<1>9. /\ SumOf([b \in S \ {x} |-> f[b]]) = TxsHeld(held, x)
      /\ SumOf([b \in S \ {x} |-> g[b]]) = EntriesHeld(held, x)
  BY <1>6 DEF TxsHeld, EntriesHeld
<1>10. /\ TxsHeld(held, x) \in Nat /\ EntriesHeld(held, x) \in Nat
       /\ SumOf(Counts(slot, j)) \in Nat /\ Len(B(slot, j).entries) \in Nat
  BY HeldSums, SumsAhead, EntryShape
<1>11. QED BY <1>1, <1>2, <1>5, <1>6, <1>7, <1>8, <1>9, <1>10

\* So what the leader put between two batches is what is held between them.
LEMMA TiledIsAligned ==
  ASSUME NEW slot \in DOMAIN Slots, NEW held, NEW reach,
         HeldRight(slot, held, reach), ReachFits(slot, reach),
         NEW k \in DOMAIN Slots[slot], NEW l \in DOMAIN Slots[slot], k <= l,
         TiledOver(held, B(slot, k).first, B(slot, l).first)
  PROVE  /\ TxsHeld(held, B(slot, l).first) - TxsAhead(slot, l)
              = TxsHeld(held, B(slot, k).first) - TxsAhead(slot, k)
         /\ EntriesHeld(held, B(slot, l).first) - EntriesAhead(slot, l)
              = EntriesHeld(held, B(slot, k).first) - EntriesAhead(slot, k)
<1> DEFINE Holds(n) == /\ TxsHeld(held, B(slot, n).first) - TxsAhead(slot, n)
                            = TxsHeld(held, B(slot, k).first) - TxsAhead(slot, k)
                       /\ EntriesHeld(held, B(slot, n).first) - EntriesAhead(slot, n)
                            = EntriesHeld(held, B(slot, k).first) - EntriesAhead(slot, k)
           Bad == {n \in k..l : ~Holds(n)}
<1>1. k \in Nat /\ l \in Nat /\ \A j \in k..l : j \in DOMAIN Slots[slot]
  BY SlotShape
<1>2. \A j \in k..l : /\ B(slot, j).first \in DOMAIN held.batches
                      /\ j < l => held.batches[B(slot, j).first].last_shred = B(slot, j).last
  BY TiledIsHeld
<1>3. Bad = {}
  <2> SUFFICES ASSUME Bad # {} PROVE FALSE
    OBVIOUS
  <2>1. Bad \subseteq Nat
    BY <1>1
  <2>2. PICK n \in Bad : \A j \in Bad : n <= j
    <3> HIDE DEF Bad
    <3>1. QED BY <2>1, LeastNat
  <2>3. n \in k..l /\ ~Holds(n) /\ n \in Nat
    BY <1>1
  <2>4. n # k
    BY <2>3
  <2>5. n - 1 \in k..l /\ n - 1 \notin Bad /\ n - 1 < l
    <3>1. n - 1 \in k..l /\ n - 1 < l
      BY <1>1, <2>3, <2>4
    <3> HIDE DEF Bad
    <3>2. QED BY <2>2, <2>3, <3>1
  <2>6. Holds(n - 1)
    BY <2>5
  <2>7. PICK j \in DOMAIN Slots[slot] : j = n - 1 /\ j + 1 = n /\ j + 1 \in DOMAIN Slots[slot]
    <3>1. (n - 1) + 1 = n /\ n \in DOMAIN Slots[slot] /\ n - 1 \in DOMAIN Slots[slot]
      BY <1>1, <2>3, <2>5
    <3>2. QED BY <3>1
  <2>8. /\ B(slot, j).first \in DOMAIN held.batches
        /\ held.batches[B(slot, j).first].last_shred = B(slot, j).last
    BY <1>2, <2>5, <2>7
  <2>9. /\ TxsHeld(held, B(slot, j + 1).first)
             = TxsHeld(held, B(slot, j).first) + SumOf(Counts(slot, j))
        /\ EntriesHeld(held, B(slot, j + 1).first)
             = EntriesHeld(held, B(slot, j).first) + Len(B(slot, j).entries)
    BY <2>7, <2>8, HeldStep
  <2>10. /\ EntriesAhead(slot, j + 1) = EntriesAhead(slot, j) + Len(B(slot, j).entries)
         /\ TxsAhead(slot, j + 1) = TxsAhead(slot, j) + SumOf(Counts(slot, j))
    BY <2>7, AheadStep
  <2>11. /\ TxsHeld(held, B(slot, j).first) \in Nat /\ EntriesHeld(held, B(slot, j).first) \in Nat
         /\ TxsAhead(slot, j) \in Nat /\ EntriesAhead(slot, j) \in Nat
         /\ SumOf(Counts(slot, j)) \in Nat /\ Len(B(slot, j).entries) \in Nat
    <3>1. B(slot, j).first \in Nat
      BY SlotShape
    <3>2. TxsHeld(held, B(slot, j).first) \in Nat /\ EntriesHeld(held, B(slot, j).first) \in Nat
      BY <3>1, HeldSums
    <3>3. QED BY <3>2, SumsAhead, EntryShape
  <2>12. /\ TxsHeld(held, B(slot, j + 1).first) - TxsAhead(slot, j + 1)
              = TxsHeld(held, B(slot, j).first) - TxsAhead(slot, j)
         /\ EntriesHeld(held, B(slot, j + 1).first) - EntriesAhead(slot, j + 1)
              = EntriesHeld(held, B(slot, j).first) - EntriesAhead(slot, j)
    BY <2>9, <2>10, <2>11
  <2>13. Holds(n)
    BY <2>6, <2>7, <2>12
  <2>14. QED BY <2>3, <2>13
<1>4. l \in k..l /\ l \notin Bad
  <2> HIDE DEF Bad
  <2>1. QED BY <1>1, <1>3
<1>5. QED BY <1>4

LEMMA PositionIs ==
  ASSUME NEW slot \in DOMAIN Slots, NEW held, NEW reach,
         HeldRight(slot, held, reach), ReachFits(slot, reach),
         NEW k \in DOMAIN Slots[slot], NEW e \in Out(slot, k, reach[k]), NEW t
  PROVE  /\ Position(held, HitOf(slot, k, e, t)).transactions
              = TxsHeld(held, B(slot, k).first) + TxsWithin(slot, k, e) + (t - 1)
         /\ Position(held, HitOf(slot, k, e, t)).entries
              = EntriesHeld(held, B(slot, k).first) + (e - 1)
<1>1. PICK n \in 0..Len(B(slot, k).entries) : Out(slot, k, reach[k]) = 1..n
  BY OutIsPrefix DEF ReachFits
<1>2. n \in Nat /\ e \in 1..n /\ e \in E(slot, k)
  BY <1>1, EntryShape DEF Out
<1>3. B(slot, k).first \in DOMAIN held.batches
      /\ SpanRight(slot, k, held.batches[B(slot, k).first], reach[k])
  <2>1. Out(slot, k, reach[k]) # {}
    OBVIOUS
  <2>2. QED BY <2>1 DEF HeldRight, BatchRight
<1>4. PICK counts : counts = held.batches[B(slot, k).first].entries
  OBVIOUS
<1>5. counts = [x \in 1..n |-> Len(Payers(slot, k, x))]
  BY <1>1, <1>3, <1>4 DEF SpanRight
<1>6. counts \in Seq(Nat) /\ Len(counts) = n /\ \A x \in 1..n : counts[x] = Len(Payers(slot, k, x))
  <2>1. \A x \in 1..n : x \in E(slot, k)
    BY <1>1 DEF Out
  <2>2. \A x \in 1..n : Len(Payers(slot, k, x)) \in Nat
    BY <2>1, EntryShape
  <2>3. QED BY <1>2, <1>5, <2>2
<1>7. PICK m \in 0..Len(counts) : m = e - 1
  BY <1>2, <1>6
<1>8. PICK s : s = SubSeq(counts, 1, m)
  OBVIOUS
<1>9. s \in Seq(Nat) /\ Len(s) = m /\ \A x \in 1..m : s[x] = counts[x]
  BY <1>6, <1>8, FrontSlice
<1>10. s = [x \in 1..(e - 1) |-> Len(Payers(slot, k, x))]
  <2>1. DOMAIN s = 1..(e - 1) /\ s = [x \in 1..(e - 1) |-> s[x]]
    BY <1>7, <1>9
  <2>2. \A x \in 1..(e - 1) : s[x] = Len(Payers(slot, k, x))
    BY <1>2, <1>6, <1>7, <1>9
  <2>3. QED BY <2>1, <2>2
<1>11. SumOf(SubSeq(counts, 1, e - 1)) = TxsWithin(slot, k, e)
  BY <1>7, <1>8, <1>10 DEF TxsWithin
<1>12. PICK hit : hit = HitOf(slot, k, e, t)
  OBVIOUS
<1>13. hit.first_shred = B(slot, k).first /\ hit.entry = e - 1 /\ hit.transaction = t - 1
  BY <1>12 DEF HitOf
<1>14. Position(held, hit) =
         [transactions |-> TxsHeld(held, B(slot, k).first) + SumOf(SubSeq(counts, 1, e - 1)) + (t - 1),
          entries |-> EntriesHeld(held, B(slot, k).first) + (e - 1)]
  BY <1>4, <1>13 DEF Position, TxsHeld, EntriesHeld, HeldBefore
<1>15. QED BY <1>11, <1>12, <1>14

\* The same with both ends, and with no batch between one and the next.
Covered(held, low, high) ==
  /\ TiledOver(held, low, high) /\ low \in Between(held, low, high)
  /\ \A a, c \in Between(held, low, high) : \A b \in Between(held, low, high) :
       a < b /\ held.batches[a].last_shred + 1 = b => ~(a < c /\ c < b)

LEMMA TiledIs ==
  ASSUME NEW held, NEW from \in Nat, NEW to \in Nat, NEW low \in Nat, NEW high \in Nat,
         low <= high, {from, to} = {low, high}
  PROVE  /\ Tiled(held, from, to) => TiledOver(held, low, high)
         /\ Covered(held, low, high) => Tiled(held, from, to)
<1>1. Min({from, to}) = low /\ Max({from, to}) = high
  <2>1. /\ Min({low, high}) \in {low, high} /\ Min({low, high}) <= low
        /\ Max({low, high}) \in {low, high} /\ Max({low, high}) >= high
    <3>1. low \in Int /\ high \in Int
      OBVIOUS
    <3>2. QED BY <3>1, MinOfTwo, MaxOfTwo, Zenon
  <2>2. Min({low, high}) = low /\ Max({low, high}) = high
    BY <2>1
  <2>3. QED BY <2>2, Zenon
<1>2. Tiled(held, from, to) <=>
        /\ high \in Between(held, low, high)
        /\ \A b \in Between(held, low, high) : b # low =>
             \E a \in Between(held, low, high) :
               a < b /\ held.batches[a].last_shred + 1 = b
                 /\ \A c \in Between(held, low, high) : ~(a < c /\ c < b)
        /\ low \in Between(held, low, high)
  BY <1>1 DEF Tiled, Between
<1>3. QED BY <1>2 DEF TiledOver, Covered

\* What the two positions are off by is the same when the batches tile.
LEMMA TiledOffsets ==
  ASSUME NEW slot \in DOMAIN Slots, NEW held, NEW reach,
         HeldRight(slot, held, reach), ReachFits(slot, reach),
         NEW k \in DOMAIN Slots[slot], NEW l \in DOMAIN Slots[slot],
         Tiled(held, B(slot, l).first, B(slot, k).first)
  PROVE  /\ TxsHeld(held, B(slot, l).first) - TxsAhead(slot, l)
              = TxsHeld(held, B(slot, k).first) - TxsAhead(slot, k)
         /\ EntriesHeld(held, B(slot, l).first) - EntriesAhead(slot, l)
              = EntriesHeld(held, B(slot, k).first) - EntriesAhead(slot, k)
<1>1. /\ k \in Nat /\ l \in Nat /\ B(slot, k).first \in Nat /\ B(slot, l).first \in Nat
  BY SlotShape
<1>2. CASE k <= l
  <2>1. B(slot, k).first <= B(slot, l).first
    BY <1>2, FirstsOrder
  <2>2. {B(slot, l).first, B(slot, k).first} = {B(slot, k).first, B(slot, l).first}
    OBVIOUS
  <2>3. TiledOver(held, B(slot, k).first, B(slot, l).first)
    BY <1>1, <2>1, <2>2, TiledIs, Zenon
  <2>4. QED BY <1>2, <2>3, TiledIsAligned
<1>3. CASE l <= k
  <2>1. B(slot, l).first <= B(slot, k).first
    BY <1>3, FirstsOrder
  <2>2. TiledOver(held, B(slot, l).first, B(slot, k).first)
    BY <1>1, <2>1, TiledIs
  <2>3. QED BY <1>3, <2>2, TiledIsAligned
<1>4. QED BY <1>1, <1>2, <1>3

\* A hit of one batch.
PairHit(slot, k, reach, hit) ==
  \E e, t : /\ e \in Out(slot, k, reach[k]) /\ IsHit(slot, k, e, t, Out(slot, k, reach[k]))
            /\ hit = HitOf(slot, k, e, t)

LEMMA HitIsOut ==
  ASSUME NEW slot \in DOMAIN Slots, NEW held, NEW reach, HeldRight(slot, held, reach),
         NEW hit \in held.hits
  PROVE  \E k \in DOMAIN Slots[slot] : PairHit(slot, k, reach, hit)
<1>1. OutHit(slot, hit, reach)
  BY DEF HeldRight
<1>2. QED BY <1>1 DEF OutHit, PairHit

\* Adding what is ahead to what is within on either side.
LEMMA SameOffset ==
  ASSUME NEW x \in Int, NEW y \in Int, NEW a \in Int, NEW b \in Int, x - a = y - b,
         NEW p \in Int, NEW q \in Int, NEW t \in Int, NEW u \in Int
  PROVE  /\ (x + p + (u - 1)) - (y + q + (t - 1)) = (a + p + u - 1) - (b + q + t - 1)
         /\ (x + (u - 1)) - (y + (t - 1)) = ((a + u) - 1) - ((b + t) - 1)
OBVIOUS

LEMMA LineTrue ==
  ASSUME NEW slot \in DOMAIN Slots, NEW held, NEW reach,
         HeldRight(slot, held, reach), ReachFits(slot, reach),
         NEW target \in held.hits, NEW searcher \in held.hits,
         Line(held, target, searcher).exact
  PROVE  TrueLine(Line(held, target, searcher))
<1> PICK k \in DOMAIN Slots[slot] : PairHit(slot, k, reach, target)
  BY HitIsOut
<1> PICK l \in DOMAIN Slots[slot] : PairHit(slot, l, reach, searcher)
  BY HitIsOut
<1>1. PICK e, t :
        e \in Out(slot, k, reach[k]) /\ IsHit(slot, k, e, t, Out(slot, k, reach[k]))
          /\ target = HitOf(slot, k, e, t)
  BY DEF PairHit
<1>2. PICK f, u :
        f \in Out(slot, l, reach[l]) /\ IsHit(slot, l, f, u, Out(slot, l, reach[l]))
          /\ searcher = HitOf(slot, l, f, u)
  BY DEF PairHit
<1>3. e \in E(slot, k) /\ f \in E(slot, l) /\ e \in Nat /\ f \in Nat /\ t \in Nat /\ u \in Nat
  <2>1. e \in E(slot, k) /\ f \in E(slot, l)
    BY <1>1, <1>2 DEF Out
  <2>2. t \in DOMAIN Payers(slot, k, e) /\ u \in DOMAIN Payers(slot, l, f)
    BY <1>1, <1>2 DEF IsHit
  <2>3. /\ DOMAIN Payers(slot, k, e) = 1..Len(Payers(slot, k, e))
        /\ DOMAIN Payers(slot, l, f) = 1..Len(Payers(slot, l, f))
        /\ e \in Nat /\ f \in Nat
    BY <2>1, EntryShape
  <2>4. QED BY <2>1, <2>2, <2>3
<1>4. /\ target.first_shred = B(slot, k).first /\ target.signature = SignatureOf(slot, k, e, t)
      /\ searcher.first_shred = B(slot, l).first /\ searcher.signature = SignatureOf(slot, l, f, u)
  BY <1>1, <1>2 DEF HitOf
<1>5. Tiled(held, B(slot, l).first, B(slot, k).first)
  BY <1>4 DEF Line
<1>6. /\ TxsHeld(held, B(slot, l).first) - TxsAhead(slot, l)
           = TxsHeld(held, B(slot, k).first) - TxsAhead(slot, k)
      /\ EntriesHeld(held, B(slot, l).first) - EntriesAhead(slot, l)
           = EntriesHeld(held, B(slot, k).first) - EntriesAhead(slot, k)
  BY <1>5, TiledOffsets
<1>7. /\ Position(held, target).transactions
           = TxsHeld(held, B(slot, k).first) + TxsWithin(slot, k, e) + (t - 1)
      /\ Position(held, target).entries = EntriesHeld(held, B(slot, k).first) + (e - 1)
  BY <1>1, PositionIs
<1>8. /\ Position(held, searcher).transactions
           = TxsHeld(held, B(slot, l).first) + TxsWithin(slot, l, f) + (u - 1)
      /\ Position(held, searcher).entries = EntriesHeld(held, B(slot, l).first) + (f - 1)
  BY <1>2, PositionIs
<1>9. /\ target.signature.transactions = TxsAhead(slot, k) + TxsWithin(slot, k, e) + t - 1
      /\ target.signature.entries = (EntriesAhead(slot, k) + e) - 1
      /\ searcher.signature.transactions = TxsAhead(slot, l) + TxsWithin(slot, l, f) + u - 1
      /\ searcher.signature.entries = (EntriesAhead(slot, l) + f) - 1
  BY <1>4 DEF SignatureOf
<1>10. /\ TxsAhead(slot, k) \in Nat /\ TxsAhead(slot, l) \in Nat
       /\ EntriesAhead(slot, k) \in Nat /\ EntriesAhead(slot, l) \in Nat
       /\ TxsWithin(slot, k, e) \in Nat /\ TxsWithin(slot, l, f) \in Nat
  BY <1>3, SumsAhead
<1>11. /\ TxsHeld(held, B(slot, k).first) \in Nat /\ TxsHeld(held, B(slot, l).first) \in Nat
       /\ EntriesHeld(held, B(slot, k).first) \in Nat /\ EntriesHeld(held, B(slot, l).first) \in Nat
  <2>1. B(slot, k).first \in Nat /\ B(slot, l).first \in Nat
    BY SlotShape
  <2>2. QED BY <2>1, HeldSums
<1>12. /\ Position(held, searcher).transactions - Position(held, target).transactions
            = searcher.signature.transactions - target.signature.transactions
       /\ Position(held, searcher).entries - Position(held, target).entries
            = searcher.signature.entries - target.signature.entries
  <2>1. /\ Position(held, searcher).transactions - Position(held, target).transactions
             = searcher.signature.transactions - target.signature.transactions
    BY <1>3, <1>6, <1>7, <1>8, <1>9, <1>10, <1>11, SameOffset
  <2>2. /\ Position(held, searcher).entries - Position(held, target).entries
             = searcher.signature.entries - target.signature.entries
    BY <1>3, <1>6, <1>7, <1>8, <1>9, <1>10, <1>11, SameOffset
  <2>3. QED BY <2>1, <2>2
<1>13. QED BY <1>12 DEF TrueLine, Line

\* With every batch out to its last shred nothing is missing between any two.
LEMMA WholeTiles ==
  ASSUME NEW slot \in DOMAIN Slots, NEW held, NEW reach, HeldRight(slot, held, reach),
         \A j \in DOMAIN Slots[slot] : reach[j] = B(slot, j).last,
         NEW k \in DOMAIN Slots[slot], NEW l \in DOMAIN Slots[slot]
  PROVE  Tiled(held, B(slot, k).first, B(slot, l).first)
<1>1. ASSUME NEW j \in DOMAIN Slots[slot]
      PROVE  /\ B(slot, j).first \in DOMAIN held.batches
             /\ held.batches[B(slot, j).first].last_shred = B(slot, j).last
             /\ j \in Nat /\ B(slot, j).first \in Nat /\ B(slot, j).last \in Nat
             /\ B(slot, j).first <= B(slot, j).last
  <2>1. BatchRight(slot, j, held, B(slot, j).last)
    BY DEF HeldRight
  <2>2. B(slot, j).first \in DOMAIN held.batches
        /\ held.batches[B(slot, j).first].last_shred = B(slot, j).last
    BY <2>1 DEF BatchRight, SpanRight
  <2>3. QED BY <2>2, SlotShape
<1>2. ASSUME NEW m \in DOMAIN Slots[slot], NEW n \in DOMAIN Slots[slot], m <= n,
             NEW low, low = B(slot, m).first, NEW high, high = B(slot, n).first
      PROVE  Covered(held, low, high)
  <2>1. low <= high /\ low \in Nat /\ high \in Nat
    BY <1>1, <1>2, FirstsOrder
  <2>2. low \in Between(held, low, high) /\ high \in Between(held, low, high)
    BY <1>1, <1>2, <2>1 DEF Between
  <2>3. ASSUME NEW b \in Between(held, low, high)
        PROVE  \E j \in DOMAIN Slots[slot] : b = B(slot, j).first
    BY DEF Between, HeldRight
  <2>4. ASSUME NEW b \in Between(held, low, high), b # low
        PROVE  \E a \in Between(held, low, high) : a < b /\ held.batches[a].last_shred + 1 = b
    <3>1. PICK j \in DOMAIN Slots[slot] : b = B(slot, j).first
      BY <2>3
    <3>2. m < j /\ j \in Nat /\ m \in Nat
      <4>1. low <= b
        BY DEF Between
      <4>2. m <= j
        BY <1>2, <3>1, <4>1, FirstsOrder
      <4>3. QED BY <1>1, <1>2, <2>4, <3>1, <4>2
    <3>3. PICK i \in DOMAIN Slots[slot] : i = j - 1
      <4>1. DOMAIN Slots[slot] = 1..Len(Slots[slot]) /\ Len(Slots[slot]) \in Nat
        BY SlotShape
      <4>2. QED BY <3>2, <4>1
    <3>4. B(slot, j).first = B(slot, i).last + 1
      <4>1. j # 1
        BY <3>2, SlotShape
      <4>2. QED BY <3>3, <4>1, SlotShape
    <3>5. /\ B(slot, i).first < b /\ low <= B(slot, i).first
          /\ b <= high
      <4>1. i < j /\ m <= i
        BY <3>2, <3>3
      <4>2. QED BY <1>2, <3>1, <4>1, FirstsOrder DEF Between
    <3>6. B(slot, i).first \in Between(held, low, high)
      BY <1>1, <2>1, <3>1, <3>5 DEF Between
    <3>7. QED BY <1>1, <3>1, <3>4, <3>5, <3>6
  <2>5. ASSUME NEW a \in Between(held, low, high), NEW c \in Between(held, low, high),
               NEW b \in Between(held, low, high),
               held.batches[a].last_shred + 1 = b, a < c, c < b
        PROVE  FALSE
    <3>1. PICK i \in DOMAIN Slots[slot] : a = B(slot, i).first
      BY <2>3
    <3>2. PICK j \in DOMAIN Slots[slot] : c = B(slot, j).first
      BY <2>3
    <3>3. i < j
      BY <2>5, <3>1, <3>2, FirstsOrder
    <3>4. B(slot, i).last < B(slot, j).first
      BY <3>3, FirstsGrow
    <3>5. b = B(slot, i).last + 1
      BY <1>1, <2>5, <3>1
    <3>6. QED BY <1>1, <2>5, <3>2, <3>4, <3>5
  <2>6. QED BY <2>2, <2>4, <2>5 DEF TiledOver, Covered
<1>3. PICK from \in Nat : from = B(slot, k).first
  BY <1>1
<1>4. PICK to \in Nat : to = B(slot, l).first
  BY <1>1
<1>5. CASE k <= l
  <2>1. from <= to /\ {from, to} = {from, to}
    BY <1>3, <1>4, <1>5, FirstsOrder
  <2>2. Tiled(held, from, to)
    <3>1. Covered(held, from, to)
      BY <1>2, <1>3, <1>4, <1>5
    <3>2. QED BY <2>1, <3>1, TiledIs, Zenon
  <2>3. QED BY <1>3, <1>4, <2>2
<1>6. CASE l <= k
  <2>1. to <= from /\ {from, to} = {to, from}
    BY <1>3, <1>4, <1>6, FirstsOrder
  <2>2. Tiled(held, from, to)
    <3>1. Covered(held, to, from)
      BY <1>2, <1>3, <1>4, <1>6
    <3>2. QED BY <2>1, <3>1, TiledIs, Zenon
  <2>3. QED BY <1>3, <1>4, <2>2
<1>7. QED BY <1>1, <1>5, <1>6

----------------------------------------------------------------------------
(* What a call to Tracker::batch does with the slots still open.            *)

Kept(m) == Sweep(m, SETTLE, MAX_SLOTS)

LEMMA SweepIs ==
  ASSUME NEW m
  PROVE  /\ Settled(m) \subseteq Keys(m) /\ Lost(m) \subseteq Keys(m) /\ Settled(m) \cap Lost(m) = {}
         /\ Keys(Kept(m)) = Keys(m) \ (Settled(m) \cup Lost(m))
         /\ \A s \in Keys(Kept(m)) : Kept(m).entries[s] = m.entries[s]
<1>1. CASE SweepDue(m, MAX_SLOTS)
  <2>1. /\ Settled(m) = Expired(m, SETTLE) /\ Lost(m) = OverCap(m, SETTLE, MAX_SLOTS)
        /\ Kept(m) = [entries |-> RestrictDomain(m.entries,
                                   LAMBDA k : k \notin Dropped(m, SETTLE, MAX_SLOTS)),
                      since |-> 0]
    BY <1>1 DEF Settled, Lost, Kept, Sweep
  <2>2. Kept(m).entries = [s \in {k \in Keys(m) : k \notin Settled(m) \cup Lost(m)} |-> m.entries[s]]
    BY <2>1 DEF RestrictDomain, Restrict, Keys, Dropped
  <2>3. Expired(m, SETTLE) \subseteq Keys(m)
    BY DEF Expired
  <2>4. OverCap(m, SETTLE, MAX_SLOTS) \subseteq Keys(m) \ Expired(m, SETTLE)
    BY DEF OverCap
  <2>5. QED BY <2>1, <2>2, <2>3, <2>4 DEF Keys
<1>2. CASE ~SweepDue(m, MAX_SLOTS)
  <2>1. Settled(m) = {} /\ Lost(m) = {} /\ Kept(m) = m
    BY <1>2 DEF Settled, Lost, Kept, Sweep
  <2>2. QED BY <2>1
<1>3. QED BY <1>1, <1>2

\* A hit of a slot waits to be reported under its signature.
WaitsIn(m, s, z) == s \in Keys(m) /\ \E h \in m.entries[s].value.hits : z = h.signature

Waiting(m, z) == \E s : WaitsIn(m, s, z)

\* at[s][k] is how far the k-th batch of a slot has come.
IsDecoded(at, z) == \E s \in DOMAIN Slots : \E hit : OutHit(s, hit, at[s]) /\ z = hit.signature

\* Or it was, in a life of its slot the assembler has let go of.
EverDecoded(at, z) == IsDecoded(at, z) \/ z \in past

\* What was decoded in lives gone by goes by their names.
PastGone ==
  /\ lives \in [DOMAIN Slots -> Nat]
  /\ \A z \in past : z.slot \in DOMAIN Slots /\ z.life \in Nat /\ z.life < lives[z.slot]

MapRight(m, gone, at) ==
  /\ Keys(m) \subseteq DOMAIN Slots
  /\ \A s \in DOMAIN Slots : ReachFits(s, at[s])
  /\ \A s \in DOMAIN Slots \ gone : HeldRight(s, ValueOf(m, s, NewSlot), at[s])
  /\ \A s, z : WaitsIn(m, s, z) => z.slot = s

Accounted(m, named, lost, at) ==
  \A z : /\ EverDecoded(at, z) <=> Waiting(m, z) \/ z \in named \/ z \in lost
         /\ ~(Waiting(m, z) /\ z \in named) /\ ~(Waiting(m, z) /\ z \in lost)
         /\ ~(z \in named /\ z \in lost)

SaidRight(lines) == \A r \in lines : r.line.exact /\ ~r.again => TrueLine(r.line)

AccountRight(account, at) ==
  /\ MapRight(account.slots, account.over, at)
  /\ Accounted(account.slots, account.told, account.dropped, at)
  /\ SaidRight(account.said)
  /\ PastGone

\* The account once the sweep of a call is through.
Swept(account) ==
  LET m == account.slots
      value(s) == m.entries[s].value
  IN  [slots   |-> Kept(m),
       said    |-> account.said \cup
                     UNION {{[line |-> l, again |-> s \in account.over] : l \in Paired(value(s))} :
                              s \in Settled(m)},
       told    |-> account.told \cup UNION {Named(value(s)) : s \in Settled(m)},
       dropped |-> account.dropped
                     \cup UNION {{h.signature : h \in value(s).hits} :
                                  s \in Lost(m) \cup {s \in Settled(m) : TooMany(value(s))}},
       over    |-> account.over \cup Settled(m) \cup Lost(m)]

LEMMA BatchIs ==
  ASSUME NEW account, NEW slot, NEW piece
  PROVE  LET after == Batch(account, slot, piece)
             swept == Swept(account)
         IN  /\ after.slots = Upsert(swept.slots, slot,
                                     Recorded(ValueOf(swept.slots, slot, NewSlot), piece))
             /\ after.said = swept.said /\ after.told = swept.told
             /\ after.dropped = swept.dropped /\ after.over = swept.over
BY DEF Batch, Swept, Kept

LEMMA SweptMap ==
  ASSUME NEW m, NEW gone, NEW at, MapRight(m, gone, at)
  PROVE  MapRight(Kept(m), gone \cup Settled(m) \cup Lost(m), at)
<1>1. Keys(Kept(m)) \subseteq DOMAIN Slots
  BY SweepIs DEF MapRight
<1>2. ASSUME NEW s \in DOMAIN Slots \ (gone \cup Settled(m) \cup Lost(m))
      PROVE  HeldRight(s, ValueOf(Kept(m), s, NewSlot), at[s])
  <2>1. ValueOf(Kept(m), s, NewSlot) = ValueOf(m, s, NewSlot)
    BY <1>2, SweepIs DEF ValueOf
  <2>2. QED BY <1>2, <2>1 DEF MapRight
<1>3. ASSUME NEW s, NEW z, WaitsIn(Kept(m), s, z) PROVE z.slot = s
  <2>1. WaitsIn(m, s, z)
    BY <1>3, SweepIs DEF WaitsIn
  <2>2. QED BY <2>1 DEF MapRight
<1>4. QED BY <1>1, <1>2, <1>3 DEF MapRight

LEMMA SweptSaid ==
  ASSUME NEW account, NEW at, MapRight(account.slots, account.over, at), SaidRight(account.said)
  PROVE  SaidRight(Swept(account).said)
<1> DEFINE m == account.slots
           value(s) == m.entries[s].value
<1>1. ASSUME NEW r \in Swept(account).said, r \notin account.said, r.line.exact, ~r.again
      PROVE  TrueLine(r.line)
  <2>1. PICK s \in Settled(m) :
          \E l \in Paired(value(s)) : r = [line |-> l, again |-> s \in account.over]
    BY <1>1 DEF Swept
  <2>2. PICK l \in Paired(value(s)) : r = [line |-> l, again |-> s \in account.over]
    BY <2>1
  <2>3. s \notin account.over /\ r.line = l
    BY <1>1, <2>2
  <2>4. s \in DOMAIN Slots /\ s \in Keys(m)
    BY <2>1, SweepIs DEF MapRight
  <2>5. HeldRight(s, value(s), at[s]) /\ ReachFits(s, at[s])
    <3>1. value(s) = ValueOf(m, s, NewSlot)
      BY <2>4 DEF ValueOf
    <3>2. QED BY <2>3, <2>4, <3>1 DEF MapRight
  <2>6. PICK target \in value(s).hits, searcher \in value(s).hits :
          l = Line(value(s), target, searcher)
    <3>1. PICK held : held = value(s)
      OBVIOUS
    <3>2. \E target \in Of(held, "target"), searcher \in Of(held, "searcher") :
            l = Line(held, target, searcher)
      BY <2>2, <3>1 DEF Paired
    <3>3. QED BY <3>1, <3>2 DEF Of
  <2>7. PICK held : held = value(s)
    OBVIOUS
  <2> HIDE DEF value
  <2>8. QED BY <1>1, <2>3, <2>4, <2>5, <2>6, <2>7, LineTrue
<1>2. QED BY <1>1 DEF SaidRight

\* What a sweep takes from what waits, it names in a report or drops.
LEMMA SweptAccounted ==
  ASSUME NEW account, NEW at, MapRight(account.slots, account.over, at),
         Accounted(account.slots, account.told, account.dropped, at)
  PROVE  Accounted(Swept(account).slots, Swept(account).told, Swept(account).dropped, at)
<1> DEFINE m == account.slots
           swept == Swept(account)
           Tells(s) == s \in Settled(m) /\ ~TooMany(m.entries[s].value)
           Drops(s) == s \in Lost(m) \/ (s \in Settled(m) /\ TooMany(m.entries[s].value))
<1>1. swept.slots = Kept(m)
  BY DEF Swept
<1>2. ASSUME NEW z
      PROVE  z \in swept.told <=> z \in account.told \/ \E s : Tells(s) /\ WaitsIn(m, s, z)
  <2>1. z \in swept.told <=>
          z \in account.told \/ \E s \in Settled(m) : z \in Named(m.entries[s].value)
    BY DEF Swept
  <2>2. ASSUME NEW s \in Settled(m)
        PROVE  z \in Named(m.entries[s].value) <=> Tells(s) /\ WaitsIn(m, s, z)
    <3>1. s \in Keys(m)
      BY SweepIs
    <3>2. QED BY <3>1 DEF Named, WaitsIn
  <2>3. QED BY <2>1, <2>2
<1>3. ASSUME NEW z
      PROVE  z \in swept.dropped <=> z \in account.dropped \/ \E s : Drops(s) /\ WaitsIn(m, s, z)
  <2> DEFINE gone == Lost(m) \cup {s \in Settled(m) : TooMany(m.entries[s].value)}
  <2>1. swept.dropped =
          account.dropped \cup UNION {{h.signature : h \in m.entries[s].value.hits} : s \in gone}
    BY DEF Swept
  <2>2. \A s : s \in gone <=> Drops(s)
    OBVIOUS
  <2>3. gone \subseteq Keys(m)
    BY SweepIs
  <2> HIDE DEF gone, m, swept, Drops
  <2>4. z \in swept.dropped <=>
          z \in account.dropped \/ \E s \in gone : \E h \in m.entries[s].value.hits : z = h.signature
    BY <2>1
  <2>5. QED BY <2>2, <2>3, <2>4 DEF WaitsIn
<1>4. ASSUME NEW z
      PROVE  Waiting(m, z) <=> Waiting(swept.slots, z) \/ \E s : (Tells(s) \/ Drops(s)) /\ WaitsIn(m, s, z)
  <2>1. \A s : Tells(s) \/ Drops(s) <=> s \in Settled(m) \cup Lost(m)
    OBVIOUS
  <2>2. \A s : WaitsIn(swept.slots, s, z) <=> WaitsIn(m, s, z) /\ s \notin Settled(m) \cup Lost(m)
    BY <1>1, SweepIs DEF WaitsIn
  <2>3. QED BY <2>1, <2>2 DEF Waiting
<1>5. ASSUME NEW s, NEW t, NEW z, WaitsIn(m, s, z), WaitsIn(m, t, z) PROVE s = t
  BY <1>5 DEF MapRight
<1>6. \A s : ~(Tells(s) /\ Drops(s))
  BY SweepIs
<1>7. \A s, z : WaitsIn(swept.slots, s, z) => WaitsIn(m, s, z) /\ ~Tells(s) /\ ~Drops(s)
  BY <1>1, SweepIs DEF WaitsIn
<1> HIDE DEF Tells, Drops
<1>8. SUFFICES ASSUME NEW z
               PROVE  /\ EverDecoded(at, z) <=>
                           Waiting(swept.slots, z) \/ z \in swept.told \/ z \in swept.dropped
                      /\ ~(Waiting(swept.slots, z) /\ z \in swept.told)
                      /\ ~(Waiting(swept.slots, z) /\ z \in swept.dropped)
                      /\ ~(z \in swept.told /\ z \in swept.dropped)
  BY DEF Accounted
<1>9. /\ EverDecoded(at, z) <=> Waiting(m, z) \/ z \in account.told \/ z \in account.dropped
      /\ ~(Waiting(m, z) /\ z \in account.told) /\ ~(Waiting(m, z) /\ z \in account.dropped)
      /\ ~(z \in account.told /\ z \in account.dropped)
  BY DEF Accounted
<1>10. \A s : WaitsIn(m, s, z) => Waiting(m, z)
  BY DEF Waiting
<1>11. Waiting(swept.slots, z) => \E s : WaitsIn(swept.slots, s, z)
  BY DEF Waiting
<1> HIDE DEF m, swept
<1>12. EverDecoded(at, z) <=> Waiting(swept.slots, z) \/ z \in swept.told \/ z \in swept.dropped
  BY <1>2, <1>3, <1>4, <1>9
<1>13. ~(Waiting(swept.slots, z) /\ z \in swept.told)
  BY <1>2, <1>5, <1>7, <1>9, <1>10, <1>11
<1>14. ~(Waiting(swept.slots, z) /\ z \in swept.dropped)
  BY <1>3, <1>5, <1>7, <1>9, <1>10, <1>11
<1>15. ~(z \in swept.told /\ z \in swept.dropped)
  BY <1>2, <1>3, <1>5, <1>6, <1>9, <1>10
<1>16. QED BY <1>12, <1>13, <1>14, <1>15

\* The signatures of what a piece brings, wherever its hits are placed.
Brought(slot, k, a, c, z) == \E hit : HitBetween(slot, k, a, c, hit) /\ z = hit.signature

LEMMA PlacedSigned ==
  ASSUME NEW piece, NEW slot, NEW k, NEW was, NEW now, NEW a, NEW c,
         Brings(piece, slot, k, was, now, a, c), NEW span, NEW z
  PROVE  (\E h \in PlacedHits(span, piece) : z = h.signature) <=> Brought(slot, k, a, c, z)
<1>1. ASSUME NEW h \in Hits(piece), NEW other PROVE Placed(other, h).signature = h.signature
  <2>1. /\ slot \in DOMAIN Slots /\ k \in DOMAIN Slots[slot] /\ a \in Nat /\ c \in Nat
        /\ PieceFrom(piece, slot, k, a, c, now)
    BY DEF Brings
  <2>2. PICK j \in 1..(c - a) : \E t \in DOMAIN Payers(slot, k, a + j) :
          Payers(slot, k, a + j)[t] # "other" /\ h = InPiece(slot, k, a, j, t)
    BY <2>1, PieceHits
  <2> PICK t \in DOMAIN Payers(slot, k, a + j) : h = InPiece(slot, k, a, j, t)
    BY <2>2
  <2>3. QED BY DEF Placed, InPiece
<1>2. \A other : (\E h \in PlacedHits(other, piece) : z = h.signature)
                   <=> (\E h \in Hits(piece) : z = h.signature)
  BY <1>1 DEF PlacedHits
<1>3. PICK other : Len(other.entries) = a
  <2>1. a \in Nat
    BY DEF Brings
  <2>2. PICK zeros : zeros = [i \in 1..a |-> 0]
    OBVIOUS
  <2>3. zeros \in Seq(Nat) /\ Len(zeros) = a
    BY <2>1, <2>2
  <2>4. [entries |-> zeros].entries = zeros
    OBVIOUS
  <2>5. QED BY <2>3, <2>4
<1>4. \A hit : hit \in PlacedHits(other, piece) <=> HitBetween(slot, k, a, c, hit)
  BY <1>3, HitsGrow
<1>5. QED BY <1>2, <1>4 DEF Brought

\* at goes on to after where one batch goes from was to now.
Advances(at, after, slot, k, was, now) ==
  /\ slot \in DOMAIN Slots /\ k \in DOMAIN Slots[slot]
  /\ was \in Int /\ now \in Int /\ was < now /\ now <= B(slot, k).last
  /\ at[slot][k] = was /\ after[slot][k] = now
  /\ \A l \in DOMAIN Slots[slot] : l # k => after[slot][l] = at[slot][l]
  /\ \A s \in DOMAIN Slots : s # slot => after[s] = at[s]

\* What is brought is new, and all that is.
LEMMA BroughtIsNew ==
  ASSUME NEW at, NEW after, NEW slot, NEW k, NEW was, NEW now, NEW a, NEW c, NEW piece,
         Advances(at, after, slot, k, was, now), Brings(piece, slot, k, was, now, a, c),
         \A s \in DOMAIN Slots : ReachFits(s, at[s]), PastGone, NEW z
  PROVE  /\ EverDecoded(after, z) <=> EverDecoded(at, z) \/ Brought(slot, k, a, c, z)
         /\ Brought(slot, k, a, c, z) => ~EverDecoded(at, z) /\ z.slot = slot
<1>1. /\ slot \in DOMAIN Slots /\ k \in DOMAIN Slots[slot] /\ a \in Nat /\ c \in Nat /\ a <= c
      /\ Out(slot, k, at[slot][k]) = 1..a /\ Out(slot, k, after[slot][k]) = 1..c
  BY DEF Advances, Brings
<1>2. ASSUME NEW hit
      PROVE  OutHit(slot, hit, after[slot]) <=>
               OutHit(slot, hit, at[slot]) \/ HitBetween(slot, k, a, c, hit)
  <2>1. \A e : e \in 1..c <=> e \in 1..a \/ e \in (a + 1)..c
    BY <1>1
  <2>2. \A l \in DOMAIN Slots[slot] : l # k => after[slot][l] = at[slot][l]
    BY DEF Advances
  <2>3. \A l \in DOMAIN Slots[slot] : l # k => Out(slot, l, after[slot][l]) = Out(slot, l, at[slot][l])
    BY <2>2
  <2>4. QED BY <1>1, <2>1, <2>3 DEF OutHit, HitBetween, IsHit
<1>3. ASSUME NEW s \in DOMAIN Slots, s # slot, NEW hit
      PROVE  OutHit(s, hit, after[s]) <=> OutHit(s, hit, at[s])
  BY <1>3 DEF Advances
<1>4. IsDecoded(after, z) <=> IsDecoded(at, z) \/ Brought(slot, k, a, c, z)
  BY <1>1, <1>2, <1>3 DEF IsDecoded, Brought
<1>5. ASSUME Brought(slot, k, a, c, z) PROVE ~EverDecoded(at, z) /\ z.slot = slot
  <2>1. PICK e \in (a + 1)..c : \E t : IsHit(slot, k, e, t, (a + 1)..c)
                                        /\ z = HitOf(slot, k, e, t).signature
    BY <1>5 DEF Brought, HitBetween
  <2>2. PICK t : IsHit(slot, k, e, t, (a + 1)..c) /\ z = HitOf(slot, k, e, t).signature
    BY <2>1
  <2>3. z = SignatureOf(slot, k, e, t)
    BY <2>2 DEF HitOf
  <2>4. e \in E(slot, k) /\ e \notin 1..a
    BY <1>1 DEF Out
  <2>5. ASSUME IsDecoded(at, z) PROVE FALSE
    <3>1. PICK s \in DOMAIN Slots : \E hit : OutHit(s, hit, at[s]) /\ z = hit.signature
      BY <2>5 DEF IsDecoded
    <3>2. PICK hit : OutHit(s, hit, at[s]) /\ z = hit.signature
      BY <3>1
    <3>3. PICK l \in DOMAIN Slots[s] : PairHit(s, l, at[s], hit)
      BY <3>2 DEF OutHit, PairHit
    <3>4. PICK f, u : f \in Out(s, l, at[s][l]) /\ hit = HitOf(s, l, f, u)
      BY <3>3 DEF PairHit
    <3>5. z = SignatureOf(s, l, f, u) /\ f \in E(s, l)
      BY <3>2, <3>4 DEF HitOf, Out
    <3>6. slot = s /\ k = l /\ e = f
      <4>1. /\ slot \in DOMAIN Slots /\ k \in DOMAIN Slots[slot] /\ e \in E(slot, k) /\ f \in E(s, l)
            /\ SignatureOf(slot, k, e, t) = SignatureOf(s, l, f, u)
        BY <1>1, <2>3, <2>4, <3>5
      <4>2. QED BY <4>1, SignaturesDiffer
    <3>7. QED BY <1>1, <2>4, <3>4, <3>6
  <2>6. z.slot = slot /\ z.life = lives[slot]
    BY <2>3 DEF SignatureOf
  <2>7. z \notin past
    BY <1>1, <2>6 DEF PastGone
  <2>8. QED BY <2>5, <2>6, <2>7 DEF EverDecoded
<1>6. QED BY <1>4, <1>5 DEF EverDecoded

LEMMA UpsertWaits ==
  ASSUME NEW m, NEW piece, NEW slot, NEW k, NEW was, NEW now, NEW a, NEW c,
         Brings(piece, slot, k, was, now, a, c), NEW held, held = ValueOf(m, slot, NewSlot),
         NEW s, NEW z
  PROVE  WaitsIn(Upsert(m, slot, Recorded(held, piece)), s, z) <=>
           WaitsIn(m, s, z) \/ (s = slot /\ Brought(slot, k, a, c, z))
<1> DEFINE grown == Recorded(held, piece)
           after == Upsert(m, slot, grown)
<1>1. /\ Keys(after) = Keys(m) \cup {slot}
      /\ after.entries[slot].value = grown
      /\ \A t \in Keys(m) : t # slot => after.entries[t] = m.entries[t]
  BY DEF Upsert, Keys
<1>2. CASE s # slot
  BY <1>1, <1>2 DEF WaitsIn
<1>3. CASE s = slot
  <2>1. grown.hits = held.hits \cup PlacedHits(SpanBefore(held, piece), piece)
    BY DEF Recorded, PlacedHits, SpanBefore
  <2> HIDE DEF grown, after
  <2>2. WaitsIn(after, slot, z) <=> \E h \in grown.hits : z = h.signature
    BY <1>1 DEF WaitsIn
  <2>3. (\E h \in held.hits : z = h.signature) <=> WaitsIn(m, slot, z)
    BY DEF WaitsIn, ValueOf, NewSlot
  <2>4. (\E h \in PlacedHits(SpanBefore(held, piece), piece) : z = h.signature)
          <=> Brought(slot, k, a, c, z)
    BY PlacedSigned
  <2>5. QED BY <1>3, <2>1, <2>2, <2>3, <2>4 DEF after, grown
<1>4. QED BY <1>2, <1>3

\* Tracker::batch keeps the account, whichever piece comes.
LEMMA BatchKeeps ==
  ASSUME NEW account, NEW at, NEW after, NEW slot, NEW k, NEW was, NEW now,
         Advances(at, after, slot, k, was, now), AccountRight(account, at)
  PROVE  AccountRight(Batch(account, slot, Piece(slot, k, was, now)), after)
<1>1. PICK piece : piece = Piece(slot, k, was, now)
  OBVIOUS
<1>2. /\ slot \in DOMAIN Slots /\ k \in DOMAIN Slots[slot] /\ was \in Int /\ now \in Int /\ was < now
      /\ now <= B(slot, k).last
      /\ at[slot][k] = was /\ after[slot][k] = now
      /\ \A l \in DOMAIN Slots[slot] : l # k => after[slot][l] = at[slot][l]
      /\ \A s \in DOMAIN Slots : s # slot => after[s] = at[s]
  BY DEF Advances
<1>3. PICK a, c : Brings(piece, slot, k, was, now, a, c)
  BY <1>1, <1>2, PieceBrings
<1>4. PICK swept : swept = Swept(account)
  OBVIOUS
<1>5. /\ MapRight(swept.slots, swept.over, at)
      /\ Accounted(swept.slots, swept.told, swept.dropped, at)
      /\ SaidRight(swept.said) /\ PastGone
  <2>1. /\ MapRight(account.slots, account.over, at) /\ SaidRight(account.said) /\ PastGone
        /\ Accounted(account.slots, account.told, account.dropped, at)
    BY DEF AccountRight
  <2>2. /\ swept.slots = Kept(account.slots)
        /\ swept.over = account.over \cup Settled(account.slots) \cup Lost(account.slots)
    BY <1>4 DEF Swept
  <2>3. MapRight(swept.slots, swept.over, at)
    BY <2>1, <2>2, SweptMap
  <2>4. Accounted(swept.slots, swept.told, swept.dropped, at)
    BY <1>4, <2>1, SweptAccounted
  <2>5. SaidRight(swept.said)
    BY <1>4, <2>1, SweptSaid
  <2>6. QED BY <2>1, <2>3, <2>4, <2>5
<1>6. PICK m : m = swept.slots
  OBVIOUS
<1>7. PICK held : held = ValueOf(m, slot, NewSlot)
  OBVIOUS
<1>8. PICK next : next = Upsert(m, slot, Recorded(held, piece))
  OBVIOUS
<1>9. PICK result : result = Batch(account, slot, piece)
  OBVIOUS
<1>10. /\ result.slots = next
       /\ result.said = swept.said /\ result.told = swept.told
       /\ result.dropped = swept.dropped /\ result.over = swept.over
  BY <1>4, <1>6, <1>7, <1>8, <1>9, BatchIs
<1>11. \A s, z : WaitsIn(next, s, z) <=>
                   WaitsIn(m, s, z) \/ (s = slot /\ Brought(slot, k, a, c, z))
  BY <1>3, <1>7, <1>8, UpsertWaits
<1>12. \A s \in DOMAIN Slots : ReachFits(s, at[s])
  BY <1>5 DEF MapRight
<1>13. \A z : /\ EverDecoded(after, z) <=> EverDecoded(at, z) \/ Brought(slot, k, a, c, z)
              /\ Brought(slot, k, a, c, z) => ~EverDecoded(at, z) /\ z.slot = slot
  BY <1>3, <1>5, <1>12, BroughtIsNew
<1>14. MapRight(next, swept.over, after)
  <2>1. Keys(next) \subseteq DOMAIN Slots
    BY <1>2, <1>5, <1>6, <1>8 DEF MapRight, Upsert, Keys
  <2>2. ASSUME NEW s \in DOMAIN Slots PROVE ReachFits(s, after[s])
    BY <1>2, <1>12 DEF ReachFits
  <2>3. ASSUME NEW s \in DOMAIN Slots \ swept.over
        PROVE  HeldRight(s, ValueOf(next, s, NewSlot), after[s])
    <3>1. HeldRight(s, ValueOf(m, s, NewSlot), at[s])
      BY <1>5, <1>6, <2>3 DEF MapRight
    <3>2. CASE s # slot
      <4>1. ValueOf(next, s, NewSlot) = ValueOf(m, s, NewSlot)
        BY <1>8, <3>2 DEF ValueOf, Upsert, Keys
      <4>2. QED BY <1>2, <3>1, <3>2, <4>1
    <3>3. CASE s = slot
      <4>1. ValueOf(next, slot, NewSlot) = Recorded(held, piece)
        BY <1>8 DEF ValueOf, Upsert, Keys
      <4>2. HeldRight(slot, held, at[slot])
        BY <1>7, <3>1, <3>3
      <4>3. HeldRight(slot, Recorded(held, piece), after[slot])
        BY <1>1, <1>2, <4>2, RecordedRight
      <4>4. QED BY <3>3, <4>1, <4>3
    <3>4. QED BY <3>2, <3>3
  <2>4. ASSUME NEW s, NEW z, WaitsIn(next, s, z) PROVE z.slot = s
    BY <1>5, <1>6, <1>11, <1>13, <2>4 DEF MapRight
  <2>5. QED BY <2>1, <2>2, <2>3, <2>4 DEF MapRight
<1>15. Accounted(next, swept.told, swept.dropped, after)
  <2>1. \A z : Waiting(next, z) <=> Waiting(m, z) \/ Brought(slot, k, a, c, z)
    BY <1>11 DEF Waiting
  <2>2. QED BY <1>5, <1>6, <1>13, <2>1 DEF Accounted
<1>16. AccountRight(result, after)
  BY <1>5, <1>10, <1>14, <1>15 DEF AccountRight
<1>17. QED BY <1>1, <1>9, <1>16

----------------------------------------------------------------------------
(* A shred, and the pieces it brings out.                                   *)

\* An advance that is not told changes nothing the account is about.
LEMMA UntoldIsQuiet ==
  ASSUME NEW slot \in DOMAIN Slots, NEW k \in DOMAIN Slots[slot], NEW was \in Int, NEW now \in Int,
         was < now, now <= B(slot, k).last, ~Told(B(slot, k), was, now)
  PROVE  Out(slot, k, now) = Out(slot, k, was) /\ now # B(slot, k).last
<1>1. PICK N \in Nat : N = Len(B(slot, k).entries) /\ E(slot, k) = 1..N
  BY EntryShape
<1>2. \A e \in E(slot, k) : Ends(slot, k, e) \in Nat /\ Ends(slot, k, e) <= B(slot, k).last
  BY EntryShape
<1>3. /\ ~\E e \in DOMAIN B(slot, k).entries : B(slot, k).entries[e].ends \in (was + 1)..now
      /\ DoneAt(B(slot, k)) \notin (was + 1)..now
      /\ ~(was < B(slot, k).last /\ now = B(slot, k).last /\ DoneAt(B(slot, k)) <= was)
  BY DEF Told
<1>4. \A e \in E(slot, k) : ~(was < Ends(slot, k, e) /\ Ends(slot, k, e) <= now)
  <2>1. \A e \in E(slot, k) : Ends(slot, k, e) \notin (was + 1)..now
    BY <1>3 DEF E, Ends, B
  <2>2. QED BY <1>2, <2>1
<1>5. Out(slot, k, now) = Out(slot, k, was)
  BY <1>2, <1>4 DEF Out
<1>6. DoneAt(B(slot, k)) \in Int /\ DoneAt(B(slot, k)) <= B(slot, k).last
  <2>1. CASE B(slot, k).entries = <<>>
    BY <2>1, SlotShape DEF DoneAt
  <2>2. CASE B(slot, k).entries # <<>>
    <3>1. N # 0
      <4>1. B(slot, k).entries \in Seq([ends : Nat, payers : Seq(Role)])
        BY EntryShape
      <4>2. PICK q \in Seq([ends : Nat, payers : Seq(Role)]) : q = B(slot, k).entries
        BY <4>1
      <4>3. Len(q) # 0
        BY <2>2, <4>2
      <4>4. QED BY <1>1, <4>2, <4>3
    <3>2. N \in E(slot, k)
      BY <1>1, <3>1
    <3>3. DoneAt(B(slot, k)) = Ends(slot, k, N)
      BY <1>1, <2>2 DEF DoneAt, Ends, B
    <3>4. QED BY <1>2, <3>2, <3>3
  <2>3. QED BY <2>1, <2>2
<1>7. B(slot, k).last \in Nat
  BY SlotShape
<1>8. now # B(slot, k).last
  BY <1>3, <1>6, <1>7
<1>9. QED BY <1>5, <1>8

\* at goes on to after, and nothing of it is told.
Quietly(at, after) ==
  \A s \in DOMAIN Slots : \A k \in DOMAIN Slots[s] :
    /\ at[s][k] \in Int /\ after[s][k] \in Int /\ after[s][k] <= B(s, k).last
    /\ \/ after[s][k] = at[s][k]
       \/ at[s][k] < after[s][k] /\ ~Told(B(s, k), at[s][k], after[s][k])

LEMMA QuietKeeps ==
  ASSUME NEW account, NEW at, NEW after, AccountRight(account, at), Quietly(at, after)
  PROVE  AccountRight(account, after)
<1>1. ASSUME NEW s \in DOMAIN Slots, NEW k \in DOMAIN Slots[s]
      PROVE  /\ Out(s, k, after[s][k]) = Out(s, k, at[s][k])
             /\ at[s][k] \in Int /\ after[s][k] \in Int /\ at[s][k] <= after[s][k]
             /\ after[s][k] = at[s][k] \/ after[s][k] # B(s, k).last
  BY UntoldIsQuiet DEF Quietly
<1>2. \A s \in DOMAIN Slots : \A hit : OutHit(s, hit, after[s]) <=> OutHit(s, hit, at[s])
  BY <1>1 DEF OutHit
<1>3. ASSUME NEW s \in DOMAIN Slots, NEW held, HeldRight(s, held, at[s])
      PROVE  HeldRight(s, held, after[s])
  <2>1. ASSUME NEW k \in DOMAIN Slots[s] PROVE BatchRight(s, k, held, after[s][k])
    <3>1. BatchRight(s, k, held, at[s][k])
      BY <1>3 DEF HeldRight
    <3>2. QED BY <1>1, <3>1 DEF BatchRight, SpanRight
  <2>2. QED BY <1>2, <1>3, <2>1 DEF HeldRight
<1>4. \A s \in DOMAIN Slots : ReachFits(s, after[s])
  BY DEF ReachFits, Quietly
<1>5. MapRight(account.slots, account.over, after)
  BY <1>3, <1>4 DEF AccountRight, MapRight
<1>6. \A z : EverDecoded(after, z) <=> EverDecoded(at, z)
  BY <1>2 DEF IsDecoded, EverDecoded
<1>7. Accounted(account.slots, account.told, account.dropped, after)
  BY <1>6 DEF AccountRight, Accounted
<1>8. QED BY <1>5, <1>7 DEF AccountRight

LEMMA MaxWithin ==
  ASSUME NEW n \in Nat, NEW S, S \subseteq 1..n, S # {}
  PROVE  Max(S) \in S /\ \A x \in S : Max(S) >= x
<1>1. S \subseteq -1..n
  OBVIOUS
<1>2. QED BY <1>1, MaxExists

\* The fold of FoldLeft, on every part of the sequence.
Folds(slot, g, base, ds) ==
  g = [T \in SUBSET (1..Len(ds)) |->
         IF T = {} THEN base ELSE Batch(g[T \ {Max(T)}], slot, ds[Max(T)])]

LEMMA FoldsExist ==
  ASSUME NEW slot, NEW base, NEW ds, Len(ds) \in Nat
  PROVE  \E g : Folds(slot, g, base, ds)
<1> DEFINE S == 1..Len(ds)
           Small(n) == {T \in SUBSET S : Cardinality(T) <= n}
           Good(g, n) == g = [T \in Small(n) |->
                                IF T = {} THEN base ELSE Batch(g[T \ {Max(T)}], slot, ds[Max(T)])]
           Bad == {n \in Nat : ~\E g : Good(g, n)}
<1>1. IsFiniteSet(S)
  BY FS_Interval
<1>2. \A T \in SUBSET S : IsFiniteSet(T) /\ Cardinality(T) \in Nat
  BY <1>1, FS_Subset, FS_CardinalityType
<1>3. \A T \in SUBSET S : T # {} => /\ Max(T) \in T /\ T \ {Max(T)} \in SUBSET S
                                    /\ Cardinality(T \ {Max(T)}) = Cardinality(T) - 1
  <2> SUFFICES ASSUME NEW T \in SUBSET S, T # {}
               PROVE  /\ Max(T) \in T /\ T \ {Max(T)} \in SUBSET S
                      /\ Cardinality(T \ {Max(T)}) = Cardinality(T) - 1
    OBVIOUS
  <2>1. Max(T) \in T
    BY MaxWithin
  <2>2. QED BY <1>2, <2>1, FS_RemoveElement
<1>4. Bad = {}
  <2> SUFFICES ASSUME Bad # {} PROVE FALSE
    OBVIOUS
  <2>1. Bad \subseteq Nat
    OBVIOUS
  <2> HIDE DEF Bad
  <2>2. PICK n \in Bad : \A k \in Bad : n <= k
    BY <2>1, LeastNat
  <2>3. n \in Nat
    BY <2>1, <2>2
  <2>4. CASE n = 0
    <3> DEFINE g == [T \in Small(0) |-> base]
    <3>1. \A T \in Small(0) : T = {}
      BY <1>2, FS_EmptySet
    <3>2. Good(g, 0)
      BY <3>1
    <3>3. QED BY <2>2, <2>4, <3>2 DEF Bad
  <2>5. CASE n # 0
    <3>1. n - 1 \in Nat /\ n - 1 \notin Bad
      BY <2>2, <2>3, <2>5
    <3>2. PICK h : Good(h, n - 1)
      BY <3>1 DEF Bad
    <3> DEFINE g == [T \in Small(n) |->
                       IF T = {} THEN base ELSE Batch(h[T \ {Max(T)}], slot, ds[Max(T)])]
    <3>3. \A T \in Small(n - 1) : T \in Small(n) /\ g[T] = h[T]
      <4> SUFFICES ASSUME NEW T \in Small(n - 1) PROVE T \in Small(n) /\ g[T] = h[T]
        OBVIOUS
      <4>1. T \in Small(n)
        BY <1>2, <2>3
      <4>2. h[T] = IF T = {} THEN base ELSE Batch(h[T \ {Max(T)}], slot, ds[Max(T)])
        <5> HIDE DEF Small
        <5>1. QED BY <3>2
      <4>3. g[T] = IF T = {} THEN base ELSE Batch(h[T \ {Max(T)}], slot, ds[Max(T)])
        <5> HIDE DEF Small
        <5>1. QED BY <4>1
      <4>4. QED BY <4>1, <4>2, <4>3
    <3>4. \A T \in Small(n) : T # {} => T \ {Max(T)} \in Small(n - 1)
      BY <1>2, <1>3, <2>3, <3>1, SMTT(60)
    <3>5. Good(g, n)
      <4> HIDE DEF Small
      <4>1. QED BY <3>3, <3>4
    <3> HIDE DEF g
    <3>6. QED BY <2>2, <3>5 DEF Bad
  <2>6. QED BY <2>4, <2>5
<1>5. Cardinality(S) \in Nat
  BY <1>2
<1>6. PICK g : Good(g, Cardinality(S))
  BY <1>4, <1>5
<1>7. Small(Cardinality(S)) = SUBSET S
  <2>1. \A T \in SUBSET S : Cardinality(T) <= Cardinality(S)
    BY <1>1, FS_Subset
  <2>2. QED BY <2>1
<1>8. Folds(slot, g, base, ds)
  BY <1>6, <1>7 DEF Folds
<1>9. QED BY <1>8

\* The account after each piece of a sequence.
Steps(slot, acc, base, ds) ==
  /\ acc[0] = base
  /\ \A n \in 1..Len(ds) : acc[n] = Batch(acc[n - 1], slot, ds[n])

LEMMA FoldedSteps ==
  ASSUME NEW slot, NEW base, NEW ds, Len(ds) \in Nat, NEW g, Folds(slot, g, base, ds)
  PROVE  \E acc : Steps(slot, acc, base, ds) /\ g[1..Len(ds)] = acc[Len(ds)]
<1> DEFINE N == Len(ds)
           acc == [n \in 0..N |-> g[1..n]]
<1>1. \A T \in SUBSET (1..N) :
        g[T] = IF T = {} THEN base ELSE Batch(g[T \ {Max(T)}], slot, ds[Max(T)])
  BY DEF Folds
<1>2. acc[0] = base
  <2>1. acc[0] = g[1..0] /\ 1..0 = {}
    OBVIOUS
  <2>2. QED BY <1>1, <2>1
<1>3. ASSUME NEW n \in 1..N PROVE acc[n] = Batch(acc[n - 1], slot, ds[n])
  <2> DEFINE T == 1..n
  <2>1. T \in SUBSET (1..N) /\ T # {} /\ n \in T /\ T \ {n} = 1..(n - 1)
        /\ n \in 0..N /\ n - 1 \in 0..N /\ n \in Nat
    <3>1. N \in Nat
      OBVIOUS
    <3> HIDE DEF N
    <3>2. n \in Nat /\ n >= 1 /\ n <= N
      BY <3>1, <1>3
    <3>3. T \subseteq 1..N /\ T # {} /\ n \in T
      <4>1. \A x \in T : x \in 1..N
        BY <3>1, <3>2
      <4>2. n \in T
        BY <3>2
      <4>3. QED BY <4>1, <4>2
    <3>4. T \ {n} = 1..(n - 1) /\ n \in 0..N /\ n - 1 \in 0..N
      BY <3>1, <3>2
    <3>5. QED BY <3>2, <3>3, <3>4
  <2>2. Max(T) = n
    <3>1. Max(T) \in T /\ \A x \in T : Max(T) >= x
      BY <2>1, MaxWithin
    <3>2. Max(T) <= n /\ Max(T) >= n /\ Max(T) \in Int
      BY <2>1, <3>1
    <3>3. QED BY <2>1, <3>2
  <2>3. acc[n] = g[T] /\ acc[n - 1] = g[1..(n - 1)]
    BY <2>1
  <2> HIDE DEF T, acc
  <2>4. QED BY <1>1, <2>1, <2>2, <2>3
<1>4. acc[N] = g[1..N]
  OBVIOUS
<1> HIDE DEF acc
<1>5. QED BY <1>2, <1>3, <1>4 DEF Steps

\* What Arrive makes of the account.
HandedOver(slot, base, ds) ==
  FoldLeft(LAMBDA account, piece : Batch(account, slot, piece), base, ds)

LEMMA FoldIs ==
  ASSUME NEW slot, NEW base, NEW ds, Len(ds) \in Nat, DOMAIN ds = 1..Len(ds)
  PROVE  \E acc : Steps(slot, acc, base, ds) /\ HandedOver(slot, base, ds) = acc[Len(ds)]
<1> DEFINE ItFolds(g) == g = [T \in SUBSET (1..Len(ds)) |->
                                IF T = {} THEN base ELSE Batch(g[T \ {Max(T)}], slot, ds[Max(T)])]
           g == CHOOSE g : ItFolds(g)
<1>1. HandedOver(slot, base, ds) = g[1..Len(ds)]
  BY Zenon DEF HandedOver, FoldLeft, MapThenFoldSet
<1>2. \A f : ItFolds(f) <=> Folds(slot, f, base, ds)
  BY DEF Folds
<1>3. Folds(slot, g, base, ds)
  <2> HIDE DEF ItFolds
  <2>1. QED BY <1>2, FoldsExist
<1>4. PICK acc : Steps(slot, acc, base, ds) /\ g[1..Len(ds)] = acc[Len(ds)]
  <2> HIDE DEF g
  <2>1. QED BY <1>3, FoldedSteps
<1>5. QED BY <1>1, <1>4

Was(slot, k) == Reach(slot, k, arrived[slot])

Now(slot, i, k) == Reach(slot, k, arrived[slot] \cup {i})

\* The batches a shred brings a piece of.
Moved(slot, i) ==
  {k \in DOMAIN Slots[slot] :
     Was(slot, k) # Now(slot, i, k) /\ Told(Slots[slot][k], Was(slot, k), Now(slot, i, k))}

\* ks goes through them, each once.
Lists(ks, n, moved) ==
  /\ n \in Nat /\ ks \in [1..n -> moved]
  /\ \A j, l \in 1..n : ks[j] = ks[l] => j = l
  /\ \A k \in moved : \E j \in 1..n : ks[j] = k

LEMMA PiecesAre ==
  ASSUME NEW slot \in DOMAIN Slots, NEW i
  PROVE  \E ks, n :
           /\ Lists(ks, n, Moved(slot, i))
           /\ Pieces(slot, i) = [j \in 1..n |-> Piece(slot, ks[j], Was(slot, ks[j]), Now(slot, i, ks[j]))]
<1> DEFINE S == Moved(slot, i)
           ks == Ascending(S)
           n == Cardinality(S)
<1>1. IsFiniteSet(S) /\ S \subseteq Nat
  <2>1. DOMAIN Slots[slot] = 1..Len(Slots[slot]) /\ Len(Slots[slot]) \in Nat
    BY SlotShape
  <2>2. IsFiniteSet(1..Len(Slots[slot]))
    BY <2>1, FS_Interval
  <2>3. S \subseteq 1..Len(Slots[slot])
    BY <2>1 DEF Moved
  <2> HIDE DEF S
  <2>4. IsFiniteSet(S)
    BY <2>2, <2>3, FS_Subset
  <2>5. QED BY <2>1, <2>3, <2>4
<1>2. n \in Nat /\ ks \in [1..n -> S]
      /\ (\A k \in S : \E j \in 1..n : ks[j] = k)
      /\ (\A j, l \in 1..n : j < l => ks[j] < ks[l])
  <2> HIDE DEF S
  <2>1. QED BY <1>1, AscendingIsSorted
<1>3. \A j, l \in 1..n : ks[j] = ks[l] => j = l
  <2>1. ASSUME NEW j \in 1..n, NEW l \in 1..n, ks[j] = ks[l] PROVE j = l
    <3>1. ks[j] \in Nat /\ ks[l] \in Nat
      <4> HIDE DEF S, ks, n
      <4>1. QED BY <1>1, <1>2
    <3> HIDE DEF S, ks, n
    <3>2. ~(j < l) /\ ~(l < j) /\ j \in Nat /\ l \in Nat
      BY <1>2, <2>1, <3>1
    <3>3. QED BY <3>2
  <2>2. QED BY <2>1
<1>4. Lists(ks, n, S)
  <2> HIDE DEF S, ks, n
  <2>1. QED BY <1>2, <1>3 DEF Lists
<1>5. DOMAIN ks = 1..n
  <2> HIDE DEF S, ks, n
  <2>1. QED BY <1>2
<1>6. Pieces(slot, i) = [j \in DOMAIN ks |-> Piece(slot, ks[j], Was(slot, ks[j]), Now(slot, i, ks[j]))]
  BY DEF Pieces, Moved, Was, Now
<1>7. QED BY <1>4, <1>5, <1>6

\* How far every batch is once the first n of the pieces are handed over.
Mid(slot, i, ks, n) ==
  [s \in DOMAIN Slots |-> [k \in DOMAIN Slots[s] |->
     IF s = slot /\ (\E j \in 1..n : ks[j] = k) THEN Now(s, i, k) ELSE Was(s, k)]]

LEMMA MidAdvances ==
  ASSUME NEW slot \in DOMAIN Slots, NEW i, NEW ks, NEW n, Lists(ks, n, Moved(slot, i)),
         NEW m \in 1..n
  PROVE  Advances(Mid(slot, i, ks, m - 1), Mid(slot, i, ks, m), slot, ks[m],
                  Was(slot, ks[m]), Now(slot, i, ks[m]))
<1> DEFINE k == ks[m]
<1>1. n \in Nat /\ k \in Moved(slot, i) /\ m \in Nat /\ m - 1 \in Nat
      /\ \A j \in 1..n : ks[j] = k => j = m
  BY DEF Lists
<1>2. k \in DOMAIN Slots[slot] /\ Was(slot, k) # Now(slot, i, k)
  BY <1>1 DEF Moved
<1>3. /\ Was(slot, k) \in Int /\ Now(slot, i, k) \in Int /\ Was(slot, k) <= Now(slot, i, k)
      /\ Now(slot, i, k) <= B(slot, k).last
  <2>1. arrived[slot] \subseteq arrived[slot] \cup {i}
    OBVIOUS
  <2>2. QED BY <1>2, <2>1, ReachBounds, ReachGrows DEF Was, Now
<1>4. \A j \in 1..m : j \in 1..n /\ (j = m \/ j \in 1..(m - 1))
  BY <1>1
<1>5. \A j \in 1..(m - 1) : j \in 1..m /\ j # m
  BY <1>1
<1>6. m \in 1..m
  BY <1>1
<1>7. ~\E j \in 1..(m - 1) : ks[j] = k
  BY <1>1, <1>4, <1>5
<1>8. \A l : l # k => ((\E j \in 1..m : ks[j] = l) <=> (\E j \in 1..(m - 1) : ks[j] = l))
  BY <1>4, <1>5
<1> HIDE DEF k
<1>9. /\ Mid(slot, i, ks, m - 1)[slot][k] = Was(slot, k)
      /\ Mid(slot, i, ks, m)[slot][k] = Now(slot, i, k)
  BY <1>2, <1>6, <1>7 DEF Mid, k
<1>10. \A l \in DOMAIN Slots[slot] : l # k =>
         Mid(slot, i, ks, m)[slot][l] = Mid(slot, i, ks, m - 1)[slot][l]
  BY <1>8 DEF Mid
<1>11. \A s \in DOMAIN Slots : s # slot => Mid(slot, i, ks, m)[s] = Mid(slot, i, ks, m - 1)[s]
  BY DEF Mid
<1>12. Was(slot, k) < Now(slot, i, k)
  BY <1>2, <1>3
<1>13. QED BY <1>2, <1>3, <1>9, <1>10, <1>11, <1>12 DEF Advances, k

\* How far every batch is.
Reached == [s \in DOMAIN Slots |-> [k \in DOMAIN Slots[s] |-> Was(s, k)]]

ReachedWith(slot, i) ==
  [s \in DOMAIN Slots |-> [k \in DOMAIN Slots[s] |-> IF s = slot THEN Now(s, i, k) ELSE Was(s, k)]]

\* Handing over the pieces of a shred keeps the account.
LEMMA PiecesKeep ==
  ASSUME NEW slot \in DOMAIN Slots, NEW i, NEW start, AccountRight(start, Reached)
  PROVE  AccountRight(HandedOver(slot, start, Pieces(slot, i)), ReachedWith(slot, i))
<1>1. PICK ks, n :
        /\ Lists(ks, n, Moved(slot, i))
        /\ Pieces(slot, i) = [j \in 1..n |-> Piece(slot, ks[j], Was(slot, ks[j]), Now(slot, i, ks[j]))]
  BY PiecesAre
<1>2. PICK ds : ds = Pieces(slot, i)
  OBVIOUS
<1>3. n \in Nat
  BY <1>1 DEF Lists
<1>4. Len(ds) = n /\ DOMAIN ds = 1..n
      /\ \A j \in 1..n : ds[j] = Piece(slot, ks[j], Was(slot, ks[j]), Now(slot, i, ks[j]))
  <2>1. PICK f : f = [j \in 1..n |-> Piece(slot, ks[j], Was(slot, ks[j]), Now(slot, i, ks[j]))]
    OBVIOUS
  <2>2. ds = f
    BY <1>1, <1>2, <2>1
  <2>3. DOMAIN f = 1..n
        /\ \A j \in 1..n : f[j] = Piece(slot, ks[j], Was(slot, ks[j]), Now(slot, i, ks[j]))
    BY <2>1
  <2>4. Len(f) = n
    BY <1>3, <2>1
  <2>5. QED BY <2>2, <2>3, <2>4
<1>5. PICK acc : Steps(slot, acc, start, ds) /\ HandedOver(slot, start, ds) = acc[Len(ds)]
  BY <1>3, <1>4, FoldIs
<1> DEFINE Holds(m) == AccountRight(acc[m], Mid(slot, i, ks, m))
           Bad == {m \in 0..n : ~Holds(m)}
<1>6. Holds(0)
  <2>1. acc[0] = start
    BY <1>5 DEF Steps
  <2>2. Mid(slot, i, ks, 0) = Reached
    BY DEF Mid, Reached
  <2>3. QED BY <2>1, <2>2
<1>7. ASSUME NEW m \in 1..n, Holds(m - 1) PROVE Holds(m)
  <2>1. acc[m] = Batch(acc[m - 1], slot, ds[m])
    BY <1>4, <1>5 DEF Steps
  <2>2. ds[m] = Piece(slot, ks[m], Was(slot, ks[m]), Now(slot, i, ks[m]))
    BY <1>4
  <2>3. Advances(Mid(slot, i, ks, m - 1), Mid(slot, i, ks, m), slot, ks[m],
                 Was(slot, ks[m]), Now(slot, i, ks[m]))
    BY <1>1, MidAdvances
  <2>4. AccountRight(Batch(acc[m - 1], slot, Piece(slot, ks[m], Was(slot, ks[m]), Now(slot, i, ks[m]))),
                     Mid(slot, i, ks, m))
    BY <1>7, <2>3, BatchKeeps
  <2>5. QED BY <2>1, <2>2, <2>4
<1> HIDE DEF Holds
<1>8. Bad = {}
  <2> SUFFICES ASSUME Bad # {} PROVE FALSE
    OBVIOUS
  <2>1. Bad \subseteq Nat
    OBVIOUS
  <2>2. PICK m \in Bad : \A j \in Bad : m <= j
    <3> HIDE DEF Bad
    <3>1. QED BY <2>1, LeastNat
  <2>3. m \in 1..n /\ ~Holds(m) /\ m - 1 \in 0..n
    BY <1>3, <1>6
  <2>4. m - 1 \notin Bad
    <3> HIDE DEF Bad
    <3>1. QED BY <2>2, <2>3
  <2>5. Holds(m - 1)
    BY <2>3, <2>4
  <2>6. QED BY <1>7, <2>3, <2>5
<1>9. Holds(n)
  BY <1>3, <1>8
<1>10. Quietly(Mid(slot, i, ks, n), ReachedWith(slot, i))
  <2>1. ASSUME NEW s \in DOMAIN Slots, NEW k \in DOMAIN Slots[s]
        PROVE  /\ Was(s, k) \in Int /\ Now(s, i, k) \in Int /\ Was(s, k) <= Now(s, i, k)
               /\ Was(s, k) <= B(s, k).last /\ Now(s, i, k) <= B(s, k).last
    <3>1. arrived[s] \subseteq arrived[s] \cup {i}
      OBVIOUS
    <3>2. QED BY <3>1, ReachBounds, ReachGrows DEF Was, Now
  <2>2. ASSUME NEW s \in DOMAIN Slots, NEW k \in DOMAIN Slots[s]
        PROVE  /\ Mid(slot, i, ks, n)[s][k] \in Int /\ ReachedWith(slot, i)[s][k] \in Int
               /\ ReachedWith(slot, i)[s][k] <= B(s, k).last
               /\ \/ ReachedWith(slot, i)[s][k] = Mid(slot, i, ks, n)[s][k]
                  \/ /\ Mid(slot, i, ks, n)[s][k] < ReachedWith(slot, i)[s][k]
                     /\ ~Told(B(s, k), Mid(slot, i, ks, n)[s][k], ReachedWith(slot, i)[s][k])
    <3>1. ReachedWith(slot, i)[s][k] = IF s = slot THEN Now(s, i, k) ELSE Was(s, k)
      BY DEF ReachedWith
    <3>2. CASE s = slot /\ \E j \in 1..n : ks[j] = k
      <4>1. Mid(slot, i, ks, n)[s][k] = Now(s, i, k)
        BY <3>2 DEF Mid
      <4>2. QED BY <2>1, <3>1, <3>2, <4>1
    <3>3. CASE ~(s = slot /\ \E j \in 1..n : ks[j] = k)
      <4>1. Mid(slot, i, ks, n)[s][k] = Was(s, k)
        BY <3>3 DEF Mid
      <4>2. CASE s # slot
        BY <2>1, <3>1, <4>1, <4>2
      <4>3. CASE s = slot
        <5>1. k \notin Moved(slot, i)
          BY <1>1, <3>3, <4>3 DEF Lists
        <5>2. Was(s, k) = Now(s, i, k) \/ ~Told(B(s, k), Was(s, k), Now(s, i, k))
          BY <4>3, <5>1 DEF Moved, B
        <5>3. QED BY <2>1, <3>1, <4>1, <4>3, <5>2
      <4>4. QED BY <4>2, <4>3
    <3>4. QED BY <3>2, <3>3
  <2>3. QED BY <2>2 DEF Quietly
<1>11. AccountRight(acc[n], ReachedWith(slot, i))
  BY <1>9, <1>10, QuietKeeps DEF Holds
<1>12. HandedOver(slot, start, Pieces(slot, i)) = acc[n]
  BY <1>2, <1>4, <1>5
<1>13. QED BY <1>11, <1>12

----------------------------------------------------------------------------
(* The invariant: the account agrees with how far every batch is.           *)

Account == [slots |-> slots, said |-> said, told |-> told, dropped |-> dropped, over |-> over]

RaceInv ==
  /\ arrived \in [DOMAIN Slots -> SUBSET Int]
  /\ AccountRight(Account, Reached)

LEMMA ReachNone ==
  ASSUME NEW slot \in DOMAIN Slots, NEW k \in DOMAIN Slots[slot]
  PROVE  /\ Reach(slot, k, {}) = B(slot, k).first - 1
         /\ Out(slot, k, Reach(slot, k, {})) = {} /\ Reach(slot, k, {}) # B(slot, k).last
<1>1. /\ B(slot, k).first \in Nat /\ B(slot, k).opens \in Nat /\ B(slot, k).last \in Nat
      /\ B(slot, k).first <= B(slot, k).opens /\ B(slot, k).opens <= B(slot, k).last
  BY SlotShape
<1>2. PICK r \in Int : r = Reach(slot, k, {})
  BY ReachBounds
<1>3. B(slot, k).first - 1 <= r /\ (r # B(slot, k).first - 1 => B(slot, k).first..r \subseteq {})
  BY <1>2, ReachBounds
<1>4. r = B(slot, k).first - 1
  <2>1. ASSUME r # B(slot, k).first - 1 PROVE FALSE
    <3>1. B(slot, k).first \in B(slot, k).first..r
      BY <1>1, <1>3, <2>1
    <3>2. QED BY <1>3, <2>1, <3>1
  <2>2. QED BY <2>1
<1>5. Out(slot, k, r) = {}
  <2>1. PICK n \in 0..Len(B(slot, k).entries) : Out(slot, k, r) = 1..n
    BY OutIsPrefix
  <2>2. Len(B(slot, k).entries) \in Nat
    BY EntryShape
  <2>3. n = 0
    <3>1. ASSUME n # 0 PROVE FALSE
      <4>1. 1 \in Out(slot, k, r)
        BY <2>1, <2>2, <3>1
      <4>2. 1 \in E(slot, k) /\ Ends(slot, k, 1) <= r
        BY <4>1 DEF Out
      <4>3. Ends(slot, k, 1) \in Nat /\ B(slot, k).opens <= Ends(slot, k, 1)
        BY <4>2, EntryShape
      <4>4. QED BY <1>1, <1>4, <4>2, <4>3
    <3>2. QED BY <3>1
  <2>4. QED BY <2>1, <2>3
<1>6. QED BY <1>1, <1>2, <1>4, <1>5

LEMMA RaceInvInit == Init => RaceInv
<1> SUFFICES ASSUME Init PROVE RaceInv
  OBVIOUS
<1>1. /\ slots = New /\ arrived = [s \in DOMAIN Slots |-> {}]
      /\ said = {} /\ told = {} /\ dropped = {} /\ over = {}
      /\ lives = [s \in DOMAIN Slots |-> 0] /\ past = {}
  BY DEF Init
<1>2. \A s \in DOMAIN Slots : \A k \in DOMAIN Slots[s] : Reached[s][k] = Reach(s, k, {})
  BY <1>1 DEF Reached, Was
<1>3. ASSUME NEW s \in DOMAIN Slots PROVE \A hit : ~OutHit(s, hit, Reached[s])
  BY <1>2, ReachNone DEF OutHit
<1>4. ASSUME NEW s \in DOMAIN Slots PROVE HeldRight(s, NewSlot, Reached[s])
  <2>1. DOMAIN NewSlot.batches = {} /\ NewSlot.hits = {}
    BY DEF NewSlot
  <2>2. \A k \in DOMAIN Slots[s] : BatchRight(s, k, NewSlot, Reached[s][k])
    BY <1>2, <2>1, ReachNone DEF BatchRight
  <2>3. QED BY <1>3, <2>1, <2>2 DEF HeldRight
<1>5. Keys(slots) = {}
  BY <1>1 DEF New, Keys
<1>6. MapRight(slots, over, Reached)
  <2>1. \A s \in DOMAIN Slots : ReachFits(s, Reached[s])
    BY <1>2, ReachBounds DEF ReachFits
  <2>2. \A s : ValueOf(slots, s, NewSlot) = NewSlot
    BY <1>5 DEF ValueOf
  <2>3. \A s, z : ~WaitsIn(slots, s, z)
    BY <1>5 DEF WaitsIn
  <2>4. QED BY <1>4, <1>5, <2>1, <2>2, <2>3 DEF MapRight
<1>7. Accounted(slots, told, dropped, Reached)
  BY <1>1, <1>3, <1>5 DEF Accounted, EverDecoded, IsDecoded, Waiting, WaitsIn
<1>8. SaidRight(said) /\ PastGone
  BY <1>1 DEF SaidRight, PastGone
<1>9. AccountRight(Account, Reached)
  BY <1>6, <1>7, <1>8 DEF AccountRight, Account
<1>10. QED BY <1>1, <1>9 DEF RaceInv

LEMMA ElapsedRight ==
  ASSUME NEW m, NEW gone, NEW at, NEW dt, MapRight(m, gone, at)
  PROVE  /\ MapRight(Elapsed(m, dt, SETTLE), gone, at)
         /\ \A z : Waiting(Elapsed(m, dt, SETTLE), z) <=> Waiting(m, z)
<1> DEFINE later == Elapsed(m, dt, SETTLE)
<1>1. /\ Keys(later) = Keys(m)
      /\ \A s \in Keys(m) : later.entries[s].value = m.entries[s].value
  BY DEF Elapsed, Keys
<1> HIDE DEF later
<1>2. \A s, z : WaitsIn(later, s, z) <=> WaitsIn(m, s, z)
  BY <1>1 DEF WaitsIn
<1>3. \A s : ValueOf(later, s, NewSlot) = ValueOf(m, s, NewSlot)
  BY <1>1 DEF ValueOf
<1>4. QED BY <1>1, <1>2, <1>3 DEF MapRight, Waiting, later

\* What is known of a slot is about the life it is in.
LEMMA LifeFrame ==
  ASSUME NEW s \in DOMAIN Slots, lives'[s] = lives[s], NEW r
  PROVE  /\ \A hit : OutHit(s, hit, r)' <=> OutHit(s, hit, r)
         /\ \A held : HeldRight(s, held, r)' <=> HeldRight(s, held, r)
<1>1. \A k, e, t : SignatureOf(s, k, e, t)' = SignatureOf(s, k, e, t)
  BY DEF SignatureOf
<1>2. \A k, e, t : HitOf(s, k, e, t)' = HitOf(s, k, e, t)
  BY <1>1 DEF HitOf
<1>3. \A hit : OutHit(s, hit, r)' <=> OutHit(s, hit, r)
  BY <1>2 DEF OutHit, IsHit
<1>4. \A held : HeldRight(s, held, r)' <=> HeldRight(s, held, r)
  BY <1>3 DEF HeldRight
<1>5. QED BY <1>3, <1>4

LEMMA AccountFrame ==
  ASSUME NEW account, NEW at, UNCHANGED <<lives, past>>, AccountRight(account, at)
  PROVE  AccountRight(account, at)'
<1>1. \A s \in DOMAIN Slots : lives'[s] = lives[s]
  OBVIOUS
<1>2. /\ \A s \in DOMAIN Slots : \A hit, r : OutHit(s, hit, r)' <=> OutHit(s, hit, r)
      /\ \A s \in DOMAIN Slots : \A held, r : HeldRight(s, held, r)' <=> HeldRight(s, held, r)
  BY <1>1, LifeFrame
<1>3. \A z : EverDecoded(at, z)' <=> EverDecoded(at, z)
  BY <1>2 DEF EverDecoded, IsDecoded
<1>4. MapRight(account.slots, account.over, at)'
  BY <1>2 DEF AccountRight, MapRight
<1>5. Accounted(account.slots, account.told, account.dropped, at)'
  BY <1>3 DEF AccountRight, Accounted
<1>6. SaidRight(account.said)' /\ PastGone'
  BY DEF AccountRight, PastGone
<1>7. QED BY <1>4, <1>5, <1>6 DEF AccountRight

\* What is out of a slot is what the account calls decoded.
LEMMA DecodedIs ==
  ASSUME NEW s \in DOMAIN Slots, NEW z
  PROVE  z \in DecodedOf(s) <=> \E hit : OutHit(s, hit, Reached[s]) /\ z = hit.signature
<1>1. ASSUME NEW k \in DOMAIN Slots[s]
      PROVE  Out(s, k, Reached[s][k]) =
               {e \in DOMAIN Slots[s][k].entries :
                  Slots[s][k].entries[e].ends <= Reach(s, k, arrived[s])}
  BY DEF Out, E, Ends, Reached, Was
<1>2. ASSUME NEW k \in DOMAIN Slots[s], NEW e \in Out(s, k, Reached[s][k])
      PROVE  (\E t : IsHit(s, k, e, t, Out(s, k, Reached[s][k])) /\ z = HitOf(s, k, e, t).signature)
               <=> (\E tx \in {tx \in Range(Signed(s, k, e)) : tx.payer # "other"} : z = tx.signature)
  <2>1. e \in E(s, k)
    BY DEF Out
  <2>2. Signed(s, k, e) =
          [t \in DOMAIN Payers(s, k, e) |->
            [payer |-> Payers(s, k, e)[t], signature |-> SignatureOf(s, k, e, t)]]
    BY <2>1, SignedIs
  <2>3. PICK f : f = Signed(s, k, e)
    OBVIOUS
  <2>4. /\ DOMAIN f = DOMAIN Payers(s, k, e)
        /\ \A t \in DOMAIN Payers(s, k, e) :
             f[t].payer = Payers(s, k, e)[t] /\ f[t].signature = SignatureOf(s, k, e, t)
    BY <2>2, <2>3
  <2>5. Range(f) = {f[t] : t \in DOMAIN f}
    BY DEF Range
  <2>6. (\E tx \in {tx \in Range(f) : tx.payer # "other"} : z = tx.signature)
          <=> \E t \in DOMAIN f : f[t].payer # "other" /\ z = f[t].signature
    BY <2>5
  <2>7. \A t : HitOf(s, k, e, t).signature = SignatureOf(s, k, e, t)
    BY DEF HitOf
  <2>8. QED BY <2>3, <2>4, <2>6, <2>7 DEF IsHit
<1>3. (\E hit : OutHit(s, hit, Reached[s]) /\ z = hit.signature) <=>
        \E k \in DOMAIN Slots[s] : \E e \in Out(s, k, Reached[s][k]) :
          \E t : IsHit(s, k, e, t, Out(s, k, Reached[s][k])) /\ z = HitOf(s, k, e, t).signature
  BY DEF OutHit
<1>4. z \in DecodedOf(s) <=>
        \E k \in DOMAIN Slots[s] :
          \E e \in {e \in DOMAIN Slots[s][k].entries :
                      Slots[s][k].entries[e].ends <= Reach(s, k, arrived[s])} :
            \E tx \in {tx \in Range(Signed(s, k, e)) : tx.payer # "other"} : z = tx.signature
  BY DEF DecodedOf
<1>5. QED BY <1>1, <1>2, <1>3, <1>4

\* The names of a slot's transactions tell the life it is in.
LEMMA DecodedNames ==
  ASSUME NEW s \in DOMAIN Slots, NEW z \in DecodedOf(s)
  PROVE  z.slot = s /\ z.life = lives[s]
<1>1. PICK hit : OutHit(s, hit, Reached[s]) /\ z = hit.signature
  BY DecodedIs
<1>2. PICK k, e, t : hit = HitOf(s, k, e, t)
  BY <1>1 DEF OutHit, IsHit
<1>3. z = SignatureOf(s, k, e, t)
  BY <1>1, <1>2 DEF HitOf
<1>4. QED BY <1>3 DEF SignatureOf

\* Where the assembler lets go of a slot, what was decoded of it stays on the
\* account, under names the slot's next life does not use.
LEMMA ForgetKeeps ==
  ASSUME RaceInv, NEW slot \in DOMAIN Slots, Forget(slot)
  PROVE  RaceInv'
<1>1. /\ arrived' = [arrived EXCEPT ![slot] = {}] /\ lives' = [lives EXCEPT ![slot] = @ + 1]
      /\ past' = past \cup DecodedOf(slot) /\ over' = over \cup {slot}
      /\ UNCHANGED <<slots, said, told, dropped>>
  BY DEF Forget
<1>2. /\ arrived \in [DOMAIN Slots -> SUBSET Int] /\ AccountRight(Account, Reached)
      /\ MapRight(slots, over, Reached) /\ Accounted(slots, told, dropped, Reached)
      /\ SaidRight(said) /\ PastGone
  BY DEF RaceInv, AccountRight, Account
<1>3. /\ \A s \in DOMAIN Slots : arrived'[s] = IF s = slot THEN {} ELSE arrived[s]
      /\ \A s \in DOMAIN Slots : lives'[s] = IF s = slot THEN lives[s] + 1 ELSE lives[s]
      /\ arrived' \in [DOMAIN Slots -> SUBSET Int] /\ lives' \in [DOMAIN Slots -> Nat]
  BY <1>1, <1>2 DEF PastGone
<1>4. PICK at : at = Reached'
  OBVIOUS
<1>5. \A s \in DOMAIN Slots : \A k \in DOMAIN Slots[s] :
        at[s][k] = IF s = slot THEN Reach(s, k, {}) ELSE Reached[s][k]
  <2>1. at = [s \in DOMAIN Slots |-> [k \in DOMAIN Slots[s] |-> Was(s, k)']]
    BY <1>4 DEF Reached
  <2>2. \A s \in DOMAIN Slots : \A k \in DOMAIN Slots[s] :
          Was(s, k)' = Reach(s, k, IF s = slot THEN {} ELSE arrived[s])
    BY <1>3 DEF Was
  <2>3. QED BY <2>1, <2>2 DEF Reached, Was
<1>6. \A s \in DOMAIN Slots : s # slot => at[s] = Reached[s]
  <2>1. at = [s \in DOMAIN Slots |-> [k \in DOMAIN Slots[s] |-> Was(s, k)']]
    BY <1>4 DEF Reached
  <2>2. \A s \in DOMAIN Slots : s # slot => \A k \in DOMAIN Slots[s] : Was(s, k)' = Was(s, k)
    BY <1>3 DEF Was
  <2>3. QED BY <2>1, <2>2 DEF Reached
<1>7. PastGone'
  <2>1. ASSUME NEW z \in past'
        PROVE  z.slot \in DOMAIN Slots /\ z.life \in Nat /\ z.life < lives'[z.slot]
    <3>1. CASE z \in past
      BY <1>2, <1>3, <3>1 DEF PastGone
    <3>2. CASE z \in DecodedOf(slot)
      <4>1. z.slot = slot /\ z.life = lives[slot]
        BY <3>2, DecodedNames
      <4>2. QED BY <1>2, <1>3, <4>1 DEF PastGone
    <3>3. QED BY <1>1, <3>1, <3>2
  <2>2. QED BY <1>3, <2>1 DEF PastGone
<1>8. /\ \A s \in DOMAIN Slots : s # slot => \A hit, r : OutHit(s, hit, r)' <=> OutHit(s, hit, r)
      /\ \A s \in DOMAIN Slots : s # slot => \A held, r : HeldRight(s, held, r)' <=> HeldRight(s, held, r)
  BY <1>3, LifeFrame
<1>9. \A hit : ~OutHit(slot, hit, at[slot])'
  BY <1>5, ReachNone DEF OutHit
<1>10. \A z : EverDecoded(at, z)' <=> EverDecoded(Reached, z)
  <2> SUFFICES ASSUME NEW z PROVE EverDecoded(at, z)' <=> EverDecoded(Reached, z)
    OBVIOUS
  <2>1. z \in past' <=> z \in past \/ \E hit : OutHit(slot, hit, Reached[slot]) /\ z = hit.signature
    BY <1>1, DecodedIs
  <2>2. IsDecoded(at, z)' <=> \E s \in DOMAIN Slots : \E hit : OutHit(s, hit, at[s])' /\ z = hit.signature
    BY DEF IsDecoded
  <2>3. IsDecoded(at, z)' <=>
          \E s \in DOMAIN Slots : s # slot /\ \E hit : OutHit(s, hit, Reached[s]) /\ z = hit.signature
    BY <1>6, <1>8, <1>9, <2>2
  <2>4. QED BY <2>1, <2>3 DEF EverDecoded, IsDecoded
<1>11. MapRight(slots, over, at)'
  <2>1. ASSUME NEW s \in DOMAIN Slots PROVE ReachFits(s, at[s])
    BY <1>2, <1>5, <1>6, ReachBounds DEF MapRight, ReachFits
  <2>2. ASSUME NEW s \in DOMAIN Slots \ over' PROVE HeldRight(s, ValueOf(slots, s, NewSlot), at[s])'
    <3>1. s # slot /\ s \notin over
      BY <1>1, <2>2
    <3>2. HeldRight(s, ValueOf(slots, s, NewSlot), at[s])
      BY <1>2, <1>6, <3>1 DEF MapRight
    <3>3. QED BY <1>1, <1>8, <3>1, <3>2
  <2>3. QED BY <1>1, <1>2, <2>1, <2>2 DEF MapRight
<1>12. Accounted(slots, told, dropped, at)'
  BY <1>1, <1>2, <1>10 DEF Accounted
<1>13. SaidRight(said)'
  BY <1>1, <1>2
<1>14. AccountRight(Account, Reached)'
  BY <1>4, <1>7, <1>11, <1>12, <1>13 DEF AccountRight, Account
<1>15. QED BY <1>3, <1>14 DEF RaceInv

LEMMA RaceInvNext == RaceInv /\ [Next]_vars => RaceInv'
<1> SUFFICES ASSUME RaceInv, [Next]_vars PROVE RaceInv'
  OBVIOUS
<1>1. CASE UNCHANGED vars
  <2>1. PICK account, at : account = Account /\ at = Reached
    OBVIOUS
  <2>2. Account' = Account /\ Reached' = Reached /\ UNCHANGED <<arrived, lives, past>>
    BY <1>1 DEF vars, Account, Reached, Was
  <2>3. AccountRight(account, at)'
    BY <2>1, <2>2, AccountFrame DEF RaceInv
  <2>4. QED BY <2>1, <2>2, <2>3 DEF RaceInv
<1>2. ASSUME NEW slot \in DOMAIN Slots, NEW dt \in Ticks, NEW i \in Whole(slot),
             Arrive(slot, i, dt)
      PROVE  RaceInv'
  <2> DEFINE start == [slots |-> Elapsed(slots, dt, SETTLE), said |-> {}, told |-> told,
                       dropped |-> dropped, over |-> over]
             ended == HandedOver(slot, start, Pieces(slot, i))
  <2>1. /\ slots' = ended.slots /\ said' = ended.said /\ told' = ended.told
        /\ dropped' = ended.dropped /\ over' = ended.over
        /\ arrived' = [arrived EXCEPT ![slot] = @ \cup {i}]
    BY <1>2, Zenon DEF Arrive, HandedOver
  <2>2. AccountRight(start, Reached)
    <3>1. /\ MapRight(slots, over, Reached) /\ Accounted(slots, told, dropped, Reached)
          /\ PastGone
      BY DEF RaceInv, AccountRight, Account
    <3>2. /\ MapRight(Elapsed(slots, dt, SETTLE), over, Reached)
          /\ \A z : Waiting(Elapsed(slots, dt, SETTLE), z) <=> Waiting(slots, z)
      BY <3>1, ElapsedRight
    <3>3. Accounted(Elapsed(slots, dt, SETTLE), told, dropped, Reached)
      BY <3>1, <3>2 DEF Accounted
    <3>4. SaidRight({})
      BY DEF SaidRight
    <3>5. QED BY <3>1, <3>2, <3>3, <3>4 DEF AccountRight
  <2> HIDE DEF start
  <2>3. AccountRight(ended, ReachedWith(slot, i))
    BY <2>2, PiecesKeep
  <2> HIDE DEF ended
  <2>4. i \in Int
    <3>1. PICK b \in Range(Slots[slot]) : i \in b.first..b.last
      BY DEF Whole
    <3>2. PICK k \in DOMAIN Slots[slot] : b = B(slot, k)
      BY <3>1 DEF Range, B
    <3>3. QED BY <3>1, <3>2, SlotShape
  <2>5. arrived \in [DOMAIN Slots -> SUBSET Int]
    BY DEF RaceInv
  <2>6. arrived' \in [DOMAIN Slots -> SUBSET Int]
    BY <2>1, <2>4, <2>5
  <2>7. Reached' = ReachedWith(slot, i)
    <3>1. \A s \in DOMAIN Slots :
            arrived'[s] = IF s = slot THEN arrived[s] \cup {i} ELSE arrived[s]
      BY <2>1, <2>5
    <3>2. ASSUME NEW s \in DOMAIN Slots, NEW k \in DOMAIN Slots[s]
          PROVE  Was(s, k)' = IF s = slot THEN Now(s, i, k) ELSE Was(s, k)
      BY <3>1 DEF Was, Now
    <3>3. Reached' = [s \in DOMAIN Slots |-> [k \in DOMAIN Slots[s] |-> Was(s, k)']]
      BY DEF Reached
    <3>4. QED BY <3>2, <3>3 DEF ReachedWith
  <2>8. PICK account, at : account = Account' /\ at = Reached'
    OBVIOUS
  <2>9. AccountRight(account, at)
    <3>1. /\ account.slots = ended.slots /\ account.said = ended.said
          /\ account.told = ended.told /\ account.dropped = ended.dropped
          /\ account.over = ended.over
      BY <2>1, <2>8 DEF Account
    <3>2. QED BY <2>3, <2>7, <2>8, <3>1 DEF AccountRight
  <2>10. UNCHANGED <<lives, past>>
    BY <1>2 DEF Arrive
  <2>11. AccountRight(account, at)'
    BY <2>9, <2>10, AccountFrame
  <2>12. QED BY <2>6, <2>8, <2>11 DEF RaceInv
<1>3. ASSUME NEW slot \in DOMAIN Slots, Forget(slot) PROVE RaceInv'
  BY <1>3, ForgetKeeps
<1>4. QED BY <1>1, <1>2, <1>3 DEF Next, Whole

LEMMA RaceInvHolds == Spec => []RaceInv
<1>1. QED BY RaceInvInit, RaceInvNext, PTL DEF Spec

----------------------------------------------------------------------------
(* What it gives.                                                           *)

\* A line called exact by Slot::position's caller (race.rs, Slot::report)
\* counts every transaction and entry the leader put between the two, in
\* whatever order the pieces were handed to Tracker::batch, over sweeps and
\* slots the cap dropped, unless the slot was let go and opened again, by the
\* tracker or by the assembler.
THEOREM ExactGapsHold == Spec => []ExactGaps
<1>1. RaceInv => ExactGaps
  BY DEF RaceInv, AccountRight, Account, SaidRight, ExactGaps
<1>2. QED BY <1>1, RaceInvHolds, PTL

\* Once the assembler has told of every shred of a slot still open, Slot::tiled
\* finds no hole between any two of its batches, whatever padding and empty
\* batches lie between them.
THEOREM WholeSlotsTile == Spec => []WholeSlotTiles
<1>1. RaceInv => WholeSlotTiles
  <2> SUFFICES ASSUME RaceInv, NEW slot \in Keys(slots) \ over, Whole(slot) \subseteq arrived[slot],
                      NEW from \in {b.first : b \in Range(Slots[slot])},
                      NEW to \in {b.first : b \in Range(Slots[slot])}
               PROVE  Tiled(slots.entries[slot].value, from, to)
    BY DEF WholeSlotTiles, Whole
  <2>1. MapRight(slots, over, Reached)
    BY DEF RaceInv, AccountRight, Account
  <2>2. slot \in DOMAIN Slots
    BY <2>1 DEF MapRight
  <2>3. HeldRight(slot, slots.entries[slot].value, Reached[slot])
    <3>1. ValueOf(slots, slot, NewSlot) = slots.entries[slot].value
      BY DEF ValueOf
    <3>2. QED BY <2>1, <2>2, <3>1 DEF MapRight
  <2>4. \A k \in DOMAIN Slots[slot] : Reached[slot][k] = B(slot, k).last
    BY <2>2, ReachAll DEF Reached, Was
  <2>5. PICK k \in DOMAIN Slots[slot] : from = B(slot, k).first
    BY DEF Range, B
  <2>6. PICK l \in DOMAIN Slots[slot] : to = B(slot, l).first
    BY DEF Range, B
  <2>7. Tiled(slots.entries[slot].value, B(slot, k).first, B(slot, l).first)
    BY <2>2, <2>3, <2>4, WholeTiles
  <2>8. QED BY <2>5, <2>6, <2>7
<1>2. QED BY <1>1, RaceInvHolds, PTL

\* However often the assembler lets go of slots that are then resent, every
\* decoding of a transaction of either side waits in a slot, was named in a
\* report, or went with a slot dropped or too crowded to pair, and only one of
\* these: Tracker::batch and the sweep of the aged map lose no hit and report
\* none more often than it was decoded, with any cap and any retention.
THEOREM HitsAreAccounted == Spec => []HitsAccounted
<1>1. RaceInv => HitsAccounted
  <2> SUFFICES ASSUME RaceInv PROVE HitsAccounted
    OBVIOUS
  <2> DEFINE waiting == UNION {{h.signature : h \in slots.entries[s].value.hits} : s \in Keys(slots)}
             decoded == past \cup UNION {DecodedOf(s) : s \in DOMAIN Slots}
  <2>1. Accounted(slots, told, dropped, Reached)
    BY DEF RaceInv, AccountRight, Account
  <2>2. \A z : z \in waiting <=> Waiting(slots, z)
    BY DEF Waiting, WaitsIn
  <2>3. \A z : z \in decoded <=> EverDecoded(Reached, z)
    <3>1. \A z : z \in decoded <=> z \in past \/ \E s \in DOMAIN Slots : z \in DecodedOf(s)
      OBVIOUS
    <3> HIDE DEF decoded
    <3>2. QED BY <3>1, DecodedIs DEF EverDecoded, IsDecoded
  <2>4. HitsAccounted <=>
          /\ waiting \cup told \cup dropped = decoded
          /\ waiting \cap told = {} /\ waiting \cap dropped = {} /\ told \cap dropped = {}
    BY DEF HitsAccounted
  <2> HIDE DEF waiting, decoded
  <2>5. \A z : z \in waiting \cup told \cup dropped <=> z \in decoded
    BY <2>1, <2>2, <2>3 DEF Accounted
  <2>6. waiting \cap told = {} /\ waiting \cap dropped = {} /\ told \cap dropped = {}
    BY <2>1, <2>2 DEF Accounted
  <2>7. QED BY <2>4, <2>5, <2>6
<1>2. QED BY <1>1, RaceInvHolds, PTL
=============================================================================
