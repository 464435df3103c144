--------------------------- MODULE Receivers_proofs ---------------------------
(***************************************************************************)
(* Proofs about the receivers, for any number of sockets, buffers and      *)
(* datagrams: no buffer is lost, no datagram is skipped, reordered or read *)
(* twice, and the gauge of the queue's depth does not drift.               *)
(***************************************************************************)
EXTENDS Receivers, FiniteSetTheorems, WellFoundedInduction, TLAPS

Batches ==
  [socket : Sockets, packets : [1..RECV_BATCH -> Nat], filled : 0..RECV_BATCH]

LEMMA ReceiversConstants ==
  /\ IsFiniteSet(Sockets) /\ "none" \notin Sockets
  /\ RECV_BATCH \in Nat \ {0} /\ POOL_BATCHES \in Nat \ {0}
  /\ NoBatch \notin Batches /\ NoBatch.socket \notin Sockets
BY ReceiversAssumption DEF NoBatch, Batches

----------------------------------------------------------------------------
(* Batches: what filling and clearing one makes of it.                      *)

LEMMA NewIsBatch == ASSUME NEW s \in Sockets PROVE NewBatch(s) \in Batches /\ NewBatch(s).socket = s
BY ReceiversConstants DEF NewBatch, Batches

LEMMA FilledIsBatch ==
  ASSUME NEW b \in Batches, NEW n \in 0..RECV_BATCH, NEW from \in Nat
  PROVE  /\ Filled(b, n, from) \in Batches
         /\ Filled(b, n, from).socket = b.socket
         /\ Filled(b, n, from).filled = n
         /\ \A i \in 1..n : Filled(b, n, from).packets[i] = from + i
<1> DEFINE p == [i \in 1..RECV_BATCH |-> IF i <= n THEN from + i ELSE b.packets[i]]
<1>1. RECV_BATCH \in Nat \ {0} /\ b.packets \in [1..RECV_BATCH -> Nat]
  BY ReceiversConstants DEF Batches
<1>2. p \in [1..RECV_BATCH -> Nat] /\ \A i \in 1..n : p[i] = from + i
  BY <1>1
<1>3. Filled(b, n, from) = [b EXCEPT !.packets = p, !.filled = n]
  BY DEF Filled
<1> HIDE DEF p
<1>4. QED BY <1>2, <1>3 DEF Batches

LEMMA ClearIsBatch ==
  ASSUME NEW b \in Batches
  PROVE  Clear(b) \in Batches /\ Clear(b).socket = b.socket
<1> DEFINE p == [i \in 1..RECV_BATCH |-> IF i <= b.filled THEN 0 ELSE b.packets[i]]
<1>1. RECV_BATCH \in Nat \ {0} /\ b.packets \in [1..RECV_BATCH -> Nat]
  BY ReceiversConstants DEF Batches
<1>2. p \in [1..RECV_BATCH -> Nat]
  BY <1>1
<1>3. Clear(b) = [b EXCEPT !.packets = p, !.filled = 0]
  BY DEF Clear
<1>4. 0 \in 0..RECV_BATCH
  BY <1>1
<1> HIDE DEF p
<1>5. QED BY <1>2, <1>3, <1>4 DEF Batches

----------------------------------------------------------------------------
(* Queues: what a batch behind the others, or the first one gone, makes of  *)
(* the places in one.                                                       *)

LEMMA QueuedFinite ==
  ASSUME NEW q \in Seq(Batches), NEW s
  PROVE  IsFiniteSet(Queued(q, s)) /\ Cardinality(Queued(q, s)) \in Nat
<1>1. IsFiniteSet(1..Len(q))
  BY FS_Interval
<1>2. Queued(q, s) \in SUBSET (1..Len(q))
  BY DEF Queued
<1>3. QED BY <1>1, <1>2, FS_Subset, FS_CardinalityType

LEMMA QueuedAppended ==
  ASSUME NEW q \in Seq(Batches), NEW b \in Batches, NEW s
  PROVE  Cardinality(Queued(Append(q, b), s)) = Cardinality(Queued(q, s)) + Counted(b, s)
<1>1. IsFiniteSet(Queued(q, s)) /\ Len(q) + 1 \notin Queued(q, s)
  <2>1. DOMAIN q = 1..Len(q) /\ Len(q) \in Nat
    OBVIOUS
  <2>2. Len(q) + 1 \notin Queued(q, s)
    BY <2>1 DEF Queued
  <2>3. QED BY <2>2, QueuedFinite
<1>2. CASE b.socket = s
  <2>1. Queued(Append(q, b), s) = Queued(q, s) \cup {Len(q) + 1}
    BY <1>2 DEF Queued
  <2>2. QED BY <1>1, <1>2, <2>1, FS_AddElement DEF Counted
<1>3. CASE b.socket # s
  <2>1. Queued(Append(q, b), s) = Queued(q, s)
    BY <1>3 DEF Queued
  <2>2. QED BY <1>3, <2>1, QueuedFinite DEF Counted
<1>4. QED BY <1>2, <1>3

LEMMA QueuedTaken ==
  ASSUME NEW q \in Seq(Batches), q # <<>>, NEW s
  PROVE  Cardinality(Queued(q, s)) = Cardinality(Queued(Tail(q), s)) + Counted(Head(q), s)
<1> DEFINE later == {k \in Queued(q, s) : k # 1}
           move == [k \in Queued(Tail(q), s) |-> k + 1]
<1>1. Tail(q) \in Seq(Batches) /\ Len(Tail(q)) = Len(q) - 1 /\ Len(q) \in Nat \ {0}
  OBVIOUS
<1>2. \A k \in 1..Len(Tail(q)) : Tail(q)[k] = q[k + 1]
  OBVIOUS
<1>3. move \in Bijection(Queued(Tail(q), s), later)
  <2>1. move \in [Queued(Tail(q), s) -> later]
    BY <1>1, <1>2 DEF Queued
  <2>2. \A k, l \in Queued(Tail(q), s) : move[k] = move[l] => k = l
    BY <1>1 DEF Queued
  <2>3. \A k \in later : \E l \in Queued(Tail(q), s) : move[l] = k
    <3> SUFFICES ASSUME NEW k \in later PROVE \E l \in Queued(Tail(q), s) : move[l] = k
      OBVIOUS
    <3>1. k - 1 \in Queued(Tail(q), s)
      BY <1>1, <1>2 DEF Queued
    <3>2. move[k - 1] = k
      BY <3>1, <1>1 DEF Queued
    <3>3. QED BY <3>1, <3>2
  <2> HIDE DEF move, later
  <2>4. QED BY <2>1, <2>2, <2>3 DEF Bijection, Injection, Surjection, IsInjective
<1>4. IsFiniteSet(later) /\ Cardinality(later) = Cardinality(Queued(Tail(q), s))
  <2>1. IsFiniteSet(Queued(Tail(q), s))
    BY <1>1, QueuedFinite
  <2> HIDE DEF move, later
  <2>2. ExistsBijection(Queued(Tail(q), s), later)
    BY <1>3 DEF ExistsBijection
  <2>3. QED BY <2>1, <2>2, FS_Bijection
<1>5. Cardinality(Queued(Tail(q), s)) \in Nat
  BY <1>1, QueuedFinite
<1>6. Head(q) = q[1] /\ 1 \in DOMAIN q
  BY <1>1
<1>7. CASE Head(q).socket = s
  <2>1. Queued(q, s) = later \cup {1} /\ 1 \notin later
    BY <1>6, <1>7 DEF Queued
  <2> HIDE DEF later
  <2>2. QED BY <1>4, <1>5, <1>7, <2>1, FS_AddElement DEF Counted
<1>8. CASE Head(q).socket # s
  <2>1. Queued(q, s) = later
    BY <1>6, <1>8 DEF Queued
  <2> HIDE DEF later
  <2>2. QED BY <1>4, <1>5, <1>8, <2>1 DEF Counted
<1>9. QED BY <1>7, <1>8

\* A place in a queue is of a batch that is there, and of a datagram it holds.
LEMMA InDatagrams ==
  ASSUME NEW q \in Seq(Batches), NEW at
  PROVE  at \in Datagrams(q) <=>
           \E k \in 1..Len(q), i \in 1..RECV_BATCH : at = <<k, i>> /\ i <= q[k].filled
<1>1. DOMAIN q = 1..Len(q)
  OBVIOUS
<1>2. QED BY <1>1 DEF Datagrams

LEMMA RowCounts ==
  ASSUME NEW k, NEW n \in Nat
  PROVE  IsFiniteSet({k} \X (1..n)) /\ Cardinality({k} \X (1..n)) = n
<1>1. IsFiniteSet({k}) /\ Cardinality({k}) = 1
  BY FS_Singleton
<1>2. IsFiniteSet(1..n) /\ Cardinality(1..n) = n
  BY FS_Interval
<1>3. IsFiniteSet({k} \X (1..n)) /\ Cardinality({k} \X (1..n)) = Cardinality({k}) * Cardinality(1..n)
  BY <1>1, <1>2, FS_Product, Zenon
<1>4. QED BY <1>1, <1>2, <1>3

LEMMA DatagramsFinite ==
  ASSUME NEW q \in Seq(Batches)
  PROVE  IsFiniteSet(Datagrams(q)) /\ Cardinality(Datagrams(q)) \in Nat
<1>1. IsFiniteSet(DOMAIN q) /\ IsFiniteSet(1..RECV_BATCH)
  <2>1. DOMAIN q = 1..Len(q) /\ Len(q) \in Nat
    OBVIOUS
  <2>2. QED BY <2>1, ReceiversConstants, FS_Interval
<1>2. IsFiniteSet((DOMAIN q) \X (1..RECV_BATCH))
  BY <1>1, FS_Product
<1>3. Datagrams(q) \in SUBSET ((DOMAIN q) \X (1..RECV_BATCH))
  BY DEF Datagrams
<1>4. QED BY <1>2, <1>3, FS_Subset, FS_CardinalityType

\* Two sets that share nothing.
LEMMA Disjoint ==
  ASSUME NEW S, NEW T, IsFiniteSet(S), IsFiniteSet(T), S \cap T = {}
  PROVE  IsFiniteSet(S \cup T) /\ Cardinality(S \cup T) = Cardinality(S) + Cardinality(T)
<1>1. Cardinality(S) \in Nat /\ Cardinality(T) \in Nat
  BY FS_CardinalityType
<1>2. Cardinality(S \cap T) = 0
  BY FS_EmptySet
<1>3. /\ IsFiniteSet(S \cup T)
      /\ Cardinality(S \cup T) = Cardinality(S) + Cardinality(T) - Cardinality(S \cap T)
  BY FS_Union, Zenon
<1>4. QED BY <1>1, <1>2, <1>3

LEMMA DatagramsAppended ==
  ASSUME NEW q \in Seq(Batches), NEW b \in Batches
  PROVE  Cardinality(Datagrams(Append(q, b))) = Cardinality(Datagrams(q)) + b.filled
<1> DEFINE row == {Len(q) + 1} \X (1..b.filled)
           qb == Append(q, b)
<1>1. /\ qb \in Seq(Batches) /\ Len(qb) = Len(q) + 1 /\ Len(q) \in Nat
      /\ qb[Len(q) + 1] = b /\ \A k \in 1..Len(q) : qb[k] = q[k]
  OBVIOUS
<1>2. b.filled \in 0..RECV_BATCH /\ RECV_BATCH \in Nat
  BY ReceiversConstants DEF Batches
<1>3. Datagrams(qb) = Datagrams(q) \cup row
  <2> HIDE DEF qb
  <2>1. ASSUME NEW at \in Datagrams(qb) PROVE at \in Datagrams(q) \cup row
    <3>1. PICK k \in 1..Len(qb), i \in 1..RECV_BATCH : at = <<k, i>> /\ i <= qb[k].filled
      BY <1>1, <2>1, InDatagrams, Zenon
    <3>2. CASE k = Len(q) + 1
      BY <1>1, <1>2, <3>1, <3>2
    <3>3. CASE k \in 1..Len(q)
      BY <1>1, <3>1, <3>3, InDatagrams
    <3>4. QED BY <1>1, <3>2, <3>3
  <2>2. ASSUME NEW at \in Datagrams(q) PROVE at \in Datagrams(qb)
    <3>1. PICK k \in 1..Len(q), i \in 1..RECV_BATCH : at = <<k, i>> /\ i <= q[k].filled
      BY <2>2, InDatagrams, Zenon
    <3>2. k \in 1..Len(qb) /\ qb[k] = q[k]
      BY <1>1
    <3>3. QED BY <1>1, <3>1, <3>2, InDatagrams
  <2>3. ASSUME NEW at \in row PROVE at \in Datagrams(qb)
    <3>1. PICK i \in 1..b.filled : at = <<Len(q) + 1, i>>
      BY <2>3
    <3>2. Len(q) + 1 \in 1..Len(qb) /\ i \in 1..RECV_BATCH /\ i <= qb[Len(q) + 1].filled
      BY <1>1, <1>2
    <3>3. QED BY <1>1, <3>1, <3>2, InDatagrams
  <2>4. QED BY <2>1, <2>2, <2>3
<1>4. Datagrams(q) \cap row = {}
  <2> SUFFICES ASSUME NEW at \in Datagrams(q), at \in row PROVE FALSE
    OBVIOUS
  <2>1. PICK k \in 1..Len(q), i \in 1..RECV_BATCH : at = <<k, i>> /\ i <= q[k].filled
    BY InDatagrams, Zenon
  <2>2. QED BY <1>1, <2>1
<1>5. IsFiniteSet(row) /\ Cardinality(row) = b.filled
  <2>1. b.filled \in Nat
    BY <1>2
  <2>2. QED BY <2>1, RowCounts
<1> HIDE DEF row, qb
<1>6. Cardinality(Datagrams(qb)) = Cardinality(Datagrams(q)) + b.filled
  BY <1>3, <1>4, <1>5, DatagramsFinite, Disjoint
<1>7. QED BY <1>6 DEF qb

LEMMA DatagramsTaken ==
  ASSUME NEW q \in Seq(Batches), q # <<>>
  PROVE  Cardinality(Datagrams(q)) = Cardinality(Datagrams(Tail(q))) + Head(q).filled
<1> DEFINE b == Head(q)
           t == Tail(q)
           row == {1} \X (1..b.filled)
           later == {at \in Datagrams(q) : at[1] # 1}
           move == [at \in Datagrams(t) |-> <<at[1] + 1, at[2]>>]
<1>1. /\ t \in Seq(Batches) /\ Len(t) = Len(q) - 1 /\ Len(q) \in Nat \ {0}
      /\ \A k \in 1..Len(t) : t[k] = q[k + 1]
      /\ b = q[1] /\ b \in Batches
  OBVIOUS
<1>2. b.filled \in 0..RECV_BATCH /\ RECV_BATCH \in Nat
  BY <1>1, ReceiversConstants DEF Batches
<1> HIDE DEF b, t
<1>3. \A at \in Datagrams(t) : /\ at = <<at[1], at[2]>> /\ at[1] \in 1..Len(t) /\ at[2] \in 1..RECV_BATCH
                               /\ <<at[1] + 1, at[2]>> \in later
  <2> SUFFICES ASSUME NEW at \in Datagrams(t)
               PROVE  /\ at = <<at[1], at[2]>> /\ at[1] \in 1..Len(t) /\ at[2] \in 1..RECV_BATCH
                      /\ <<at[1] + 1, at[2]>> \in later
    OBVIOUS
  <2>1. PICK k \in 1..Len(t), i \in 1..RECV_BATCH : at = <<k, i>> /\ i <= t[k].filled
    BY <1>1, InDatagrams, Zenon
  <2>2. k + 1 \in 1..Len(q) /\ i <= q[k + 1].filled /\ k + 1 # 1
    BY <1>1, <2>1
  <2>3. <<k + 1, i>> \in Datagrams(q)
    BY <2>2, InDatagrams
  <2>4. QED BY <2>1, <2>2, <2>3
<1>4. \A at \in later : \E from \in Datagrams(t) : at = <<from[1] + 1, from[2]>>
  <2> SUFFICES ASSUME NEW at \in later
               PROVE  \E from \in Datagrams(t) : at = <<from[1] + 1, from[2]>>
    OBVIOUS
  <2>1. PICK k \in 1..Len(q), i \in 1..RECV_BATCH : at = <<k, i>> /\ i <= q[k].filled
    BY InDatagrams, Zenon
  <2>2. k - 1 \in 1..Len(t) /\ t[k - 1] = q[k] /\ k = (k - 1) + 1
    BY <1>1, <2>1
  <2>3. <<k - 1, i>> \in Datagrams(t)
    BY <1>1, <2>1, <2>2, InDatagrams
  <2>4. QED BY <2>1, <2>2, <2>3
<1>5. move \in Bijection(Datagrams(t), later)
  <2>1. move \in [Datagrams(t) -> later]
    BY <1>3
  <2>2. \A x, y \in Datagrams(t) : move[x] = move[y] => x = y
    <3> SUFFICES ASSUME NEW x \in Datagrams(t), NEW y \in Datagrams(t), move[x] = move[y]
                 PROVE  x = y
      OBVIOUS
    <3>1. x[1] + 1 = y[1] + 1 /\ x[2] = y[2]
      OBVIOUS
    <3>2. x = <<x[1], x[2]>> /\ y = <<y[1], y[2]>> /\ x[1] \in Int /\ y[1] \in Int
      BY <1>1, <1>3
    <3>3. x[1] = y[1]
      BY <3>1, <3>2
    <3>4. QED BY <3>1, <3>2, <3>3
  <2>3. \A at \in later : \E from \in Datagrams(t) : move[from] = at
    BY <1>4
  <2> HIDE DEF move, later
  <2>4. QED BY <2>1, <2>2, <2>3 DEF Bijection, Injection, Surjection, IsInjective
<1>6. IsFiniteSet(later) /\ Cardinality(later) = Cardinality(Datagrams(t))
  <2>1. IsFiniteSet(Datagrams(t))
    BY <1>1, DatagramsFinite
  <2> HIDE DEF move, later
  <2>2. ExistsBijection(Datagrams(t), later)
    BY <1>5 DEF ExistsBijection
  <2>3. QED BY <2>1, <2>2, FS_Bijection
<1>7. Datagrams(q) = later \cup row /\ later \cap row = {}
  <2>1. ASSUME NEW at \in Datagrams(q), at[1] = 1 PROVE at \in row
    <3>1. PICK k \in 1..Len(q), i \in 1..RECV_BATCH : at = <<k, i>> /\ i <= q[k].filled
      BY <2>1, InDatagrams, Zenon
    <3>2. k = 1 /\ i \in 1..b.filled
      BY <1>1, <1>2, <2>1, <3>1
    <3>3. QED BY <3>1, <3>2
  <2>2. ASSUME NEW at \in row PROVE at \in Datagrams(q) /\ at[1] = 1
    <3>1. PICK i \in 1..b.filled : at = <<1, i>>
      BY <2>2
    <3>2. 1 \in 1..Len(q) /\ i \in 1..RECV_BATCH /\ i <= q[1].filled
      BY <1>1, <1>2
    <3>3. QED BY <3>1, <3>2, InDatagrams
  <2>3. QED BY <2>1, <2>2
<1>8. IsFiniteSet(row) /\ Cardinality(row) = b.filled
  <2>1. b.filled \in Nat
    BY <1>2
  <2>2. QED BY <2>1, RowCounts
<1> HIDE DEF row, later
<1>9. Cardinality(Datagrams(q)) = Cardinality(Datagrams(t)) + b.filled
  <2>1. Cardinality(later \cup row) = Cardinality(later) + Cardinality(row)
    BY <1>6, <1>7, <1>8, Disjoint, DatagramsFinite, <1>1
  <2>2. QED BY <1>6, <1>7, <1>8, <2>1
<1>10. QED BY <1>9 DEF b, t

----------------------------------------------------------------------------
(* What every state is like: where the buffers are while a thread is where  *)
(* it is.                                                                   *)

LEMMA ReceivedIs ==
  ASSUME NEW b \in Batches
  PROVE  /\ Received(b) \in Seq(Nat) /\ Len(Received(b)) = b.filled
         /\ \A i \in 1..b.filled : Received(b)[i] = b.packets[i]
<1>1. /\ b.packets \in [1..RECV_BATCH -> Nat] /\ b.filled \in 0..RECV_BATCH
      /\ RECV_BATCH \in Nat
  BY ReceiversConstants DEF Batches
<1>2. b.packets \in Seq(Nat) /\ Len(b.packets) = RECV_BATCH
  BY <1>1
<1>3. QED BY <1>1, <1>2 DEF Received

TypeInv ==
  /\ rx \in [Sockets -> {"top", "waiting", "reading", "sending", "gone"}]
  /\ held \in [Sockets -> Batches \cup {NoBatch}]
  /\ pool \in [Sockets -> Seq(Batches)]
  /\ kernel \in [Sockets -> Nat] /\ taken \in [Sockets -> Nat]
  /\ parser \in {"starting", "idle", "parsing", "done", "dead"}
  /\ current \in Batches \cup {NoBatch}
  /\ parsed \in [Sockets -> Seq(Nat)]
  /\ queue \in Seq(Batches) /\ depth \in Nat

PlaceInv ==
  /\ \A s \in Sockets :
       /\ rx[s] \in {"reading", "sending"} => held[s] # NoBatch
       /\ rx[s] \in {"waiting", "gone"} => held[s] = NoBatch
       /\ held[s] # NoBatch => held[s].socket = s
       /\ \A k \in DOMAIN pool[s] : pool[s][k].socket = s
  /\ (parser = "parsing") = (current # NoBatch)
  /\ dropped # {} => parser = "dead"
  /\ parser = "done" => queue = <<>> /\ \A s \in Sockets : rx[s] = "gone"

LEMMA ReceiversInit == Init => TypeInv /\ PlaceInv
<1> SUFFICES ASSUME Init PROVE TypeInv /\ PlaceInv
  OBVIOUS
<1>1. POOL_BATCHES \in Nat
  BY ReceiversConstants
<1>2. \A s \in Sockets : [k \in 1..POOL_BATCHES |-> NewBatch(s)] \in Seq(Batches)
  BY <1>1, NewIsBatch
<1>3. \A s \in Sockets : pool[s] = [k \in 1..POOL_BATCHES |-> NewBatch(s)]
  BY DEF Init
<1>4. TypeInv
  <2>1. pool \in [Sockets -> Seq(Batches)]
    BY <1>2 DEF Init
  <2>2. parsed \in [Sockets -> Seq(Nat)] /\ queue \in Seq(Batches)
    BY DEF Init
  <2>3. QED BY <2>1, <2>2 DEF Init, TypeInv
<1>5. \A s \in Sockets : \A k \in DOMAIN pool[s] : pool[s][k].socket = s
  BY <1>3, NewIsBatch
<1>6. QED BY <1>4, <1>5 DEF Init, PlaceInv

\* Taking the first of a pool, and putting one behind it.
LEMMA PoolTaken ==
  ASSUME NEW s, NEW p \in Seq(Batches), p # <<>>, \A k \in DOMAIN p : p[k].socket = s
  PROVE  /\ Head(p) \in Batches /\ Head(p).socket = s /\ Tail(p) \in Seq(Batches)
         /\ \A k \in DOMAIN Tail(p) : Tail(p)[k].socket = s
         /\ Len(Tail(p)) = Len(p) - 1
<1>1. /\ Head(p) \in Batches /\ Tail(p) \in Seq(Batches) /\ Head(p) = p[1] /\ 1 \in DOMAIN p
      /\ Len(Tail(p)) = Len(p) - 1 /\ DOMAIN Tail(p) = 1..(Len(p) - 1)
      /\ \A k \in 1..(Len(p) - 1) : Tail(p)[k] = p[k + 1] /\ k + 1 \in DOMAIN p
  OBVIOUS
<1>2. QED BY <1>1

LEMMA PoolGiven ==
  ASSUME NEW s, NEW p \in Seq(Batches), NEW b \in Batches, b.socket = s,
         \A k \in DOMAIN p : p[k].socket = s
  PROVE  /\ Append(p, b) \in Seq(Batches) /\ Len(Append(p, b)) = Len(p) + 1
         /\ \A k \in DOMAIN Append(p, b) : Append(p, b)[k].socket = s
OBVIOUS

\* Every step keeps both.
LEMMA ReceiversStep == TypeInv /\ PlaceInv /\ [Next]_vars => (TypeInv /\ PlaceInv)'
<1> SUFFICES ASSUME TypeInv, PlaceInv, [Next]_vars PROVE TypeInv' /\ PlaceInv'
  OBVIOUS
<1> USE DEF TypeInv, PlaceInv, socketVars, rxVars, parserVars
<1>1. NoBatch \notin Batches /\ RECV_BATCH \in Nat \ {0}
  BY ReceiversConstants
<1>2. \A s \in Sockets : <<>> \in Seq(Batches) /\ DOMAIN <<>> = {}
  OBVIOUS
<1>3. ASSUME NEW s \in Sockets, Return(s), parser # "done" PROVE TypeInv' /\ PlaceInv'
  <2>1. /\ rx' = [rx EXCEPT ![s] = "gone"] /\ held' = [held EXCEPT ![s] = NoBatch]
        /\ pool' = [pool EXCEPT ![s] = <<>>]
        /\ UNCHANGED <<kernel, taken, parser, current, parsed, dropped, queue, depth, exit>>
    BY <1>3 DEF Return
  <2>2. TypeInv'
    BY <2>1, <1>2
  <2>3. \A t \in Sockets : \A k \in DOMAIN pool'[t] : pool'[t][k].socket = t
    BY <2>1, <1>2
  <2>4. PlaceInv'
    BY <2>1, <2>3, <1>3
  <2>5. QED BY <2>2, <2>4
\* A buffer comes out of the pool.
<1>4. ASSUME NEW s \in Sockets, rx' = [rx EXCEPT ![s] = "reading"], rx[s] # "gone",
             pool[s] # <<>>, held' = [held EXCEPT ![s] = Head(pool[s])],
             pool' = [pool EXCEPT ![s] = Tail(@)],
             UNCHANGED <<socketVars, parserVars, queue, depth, exit>>
      PROVE  TypeInv' /\ PlaceInv'
  <2>1. /\ Head(pool[s]) \in Batches /\ Head(pool[s]).socket = s /\ Tail(pool[s]) \in Seq(Batches)
        /\ \A k \in DOMAIN Tail(pool[s]) : Tail(pool[s])[k].socket = s
    BY <1>4, PoolTaken
  <2>2. TypeInv'
    BY <1>4, <2>1
  <2>3. \A t \in Sockets : \A k \in DOMAIN pool'[t] : pool'[t][k].socket = t
    BY <1>4, <2>1
  <2>4. PlaceInv'
    BY <1>1, <1>4, <2>1, <2>3
  <2>5. QED BY <2>2, <2>4
\* Only where a receiver is changes, to where no buffer is asked of it.
<1>5. ASSUME NEW s \in Sockets, rx[s] # "gone", NEW where \in {"top", "waiting", "reading"},
             rx' = [rx EXCEPT ![s] = where], where = "waiting" => held[s] = NoBatch,
             where = "reading" => held[s] # NoBatch,
             UNCHANGED <<held, pool, socketVars, parserVars, queue, depth, exit>>
      PROVE  TypeInv' /\ PlaceInv'
  <2>1. TypeInv'
    BY <1>5
  <2>2. PlaceInv'
    BY <1>5
  <2>3. QED BY <2>1, <2>2
<1>6. ASSUME NEW s \in Sockets, Receive(s) PROVE TypeInv' /\ PlaceInv'
  <2> DEFINE n == IF kernel[s] < RECV_BATCH THEN kernel[s] ELSE RECV_BATCH
             b == Filled(held[s], n, taken[s])
  <2>1. n \in 0..RECV_BATCH /\ n \in Nat /\ n <= kernel[s] /\ kernel[s] - n \in Nat
    BY <1>1
  <2> HIDE DEF n
  <2>2. held[s] \in Batches /\ held[s].socket = s /\ taken[s] \in Nat
    BY <1>6 DEF Receive
  <2>3. b \in Batches /\ b.socket = s
    <3>1. Filled(held[s], n, taken[s]) \in Batches
      BY <2>1, <2>2, FilledIsBatch, Zenon
    <3>2. Filled(held[s], n, taken[s]).socket = held[s].socket
      BY <2>1, <2>2 DEF Filled, Batches
    <3>3. QED BY <2>2, <3>1, <3>2
  <2>4. /\ rx[s] = "reading" /\ rx' = [rx EXCEPT ![s] = "sending"] /\ held' = [held EXCEPT ![s] = b]
        /\ kernel' = [kernel EXCEPT ![s] = kernel[s] - n]
        /\ taken' = [taken EXCEPT ![s] = taken[s] + n] /\ depth' = depth + n
        /\ UNCHANGED <<pool, parserVars, queue, exit>>
    BY <1>6 DEF Receive, n
  <2> HIDE DEF b
  <2>5. TypeInv'
    BY <2>1, <2>3, <2>4
  <2>6. PlaceInv'
    BY <1>1, <2>3, <2>4
  <2>7. QED BY <2>5, <2>6
<1>7. ASSUME NEW s \in Sockets, Send(s) PROVE TypeInv' /\ PlaceInv'
  <2>1. held[s] \in Batches /\ Append(queue, held[s]) \in Seq(Batches)
    BY <1>7 DEF Send
  <2>2. TypeInv'
    BY <1>7, <2>1 DEF Send
  <2>3. PlaceInv'
    BY <1>7 DEF Send
  <2>4. QED BY <2>2, <2>3
<1>8. CASE Start
  BY <1>8 DEF Start
<1>9. CASE Parse
  <2>1. Head(queue) \in Batches /\ Tail(queue) \in Seq(Batches) /\ parser = "idle"
    BY <1>9 DEF Parse
  <2>2. Received(Head(queue)) \in Seq(Nat) /\ Head(queue).filled \in Nat /\ Head(queue).socket \in Sockets
    <3>1. Head(queue).filled \in 0..RECV_BATCH /\ Head(queue).socket \in Sockets
      BY <2>1 DEF Batches
    <3>2. QED BY <1>1, <2>1, <3>1, ReceivedIs
  <2>3. Popped(Head(queue)) \in Nat
    BY <2>2 DEF Popped
  <2>4. parsed' \in [Sockets -> Seq(Nat)]
    <3>1. parsed[Head(queue).socket] \o Received(Head(queue)) \in Seq(Nat)
      BY <2>2
    <3>2. QED BY <1>9, <3>1 DEF Parse
  <2>5. TypeInv'
    BY <1>9, <2>1, <2>3, <2>4 DEF Parse
  <2>6. PlaceInv'
    BY <1>1, <1>9, <2>1 DEF Parse
  <2>7. QED BY <2>5, <2>6
<1>10. CASE Recycle
  <2> DEFINE s == current.socket
  <2>1. current \in Batches /\ s \in Sockets /\ parser = "parsing"
    BY <1>10 DEF Recycle, Batches
  <2>2. Clear(current) \in Batches /\ Clear(current).socket = s
    BY <2>1, ClearIsBatch
  <2> HIDE DEF s
  <2>3. /\ Append(pool[s], Clear(current)) \in Seq(Batches)
        /\ \A k \in DOMAIN Append(pool[s], Clear(current)) :
             Append(pool[s], Clear(current))[k].socket = s
    <3>1. pool[s] \in Seq(Batches) /\ \A k \in DOMAIN pool[s] : pool[s][k].socket = s
      BY <2>1
    <3>2. QED BY <2>2, <3>1, PoolGiven
  <2>4. /\ pool' = IF rx[s] = "gone" THEN pool
                   ELSE [pool EXCEPT ![s] = Append(pool[s], Clear(current))]
        /\ parser' = "idle" /\ current' = NoBatch
        /\ UNCHANGED <<rxVars, socketVars, parsed, dropped, queue, depth, exit>>
    BY <1>10 DEF Recycle, Home, s
  <2>5. TypeInv'
    BY <2>1, <2>3, <2>4
  <2>6. \A t \in Sockets : \A k \in DOMAIN pool'[t] : pool'[t][k].socket = t
    BY <2>1, <2>3, <2>4
  <2>7. PlaceInv'
    BY <2>1, <2>4, <2>6
  <2>8. QED BY <2>5, <2>7
<1>11. CASE Finish
  BY <1>11 DEF Finish, HungUp
<1>12. CASE Die
  BY <1>12 DEF Die
<1>13. ASSUME NEW end \in {"batches", "pool"}, Drop(end) PROVE TypeInv' /\ PlaceInv'
  BY <1>13 DEF Drop
<1>14. ASSUME NEW s \in Sockets, Arrive(s) PROVE TypeInv' /\ PlaceInv'
  BY <1>14 DEF Arrive
<1>15. CASE Stop
  BY <1>15 DEF Stop
<1>16. CASE UNCHANGED vars
  BY <1>16 DEF vars
<1>17. ASSUME NEW s \in Sockets, ReceiverStep(s) \/ Fails(s) PROVE TypeInv' /\ PlaceInv'
  <2>1. CASE Leave(s)
    BY <2>1, <1>3 DEF Leave
  <2>2. CASE Pick(s)
    <3>1. CASE held[s] # NoBatch /\ UNCHANGED <<held, pool>>
      BY <2>2, <3>1, <1>5 DEF Pick
    <3>2. CASE held[s] = NoBatch /\ pool[s] # <<>> /\ held' = [held EXCEPT ![s] = Head(pool[s])]
                 /\ pool' = [pool EXCEPT ![s] = Tail(@)]
      BY <2>2, <3>2, <1>4 DEF Pick
    <3>3. QED BY <2>2, <3>1, <3>2 DEF Pick
  <2>3. CASE Exhausted(s)
    BY <2>3, <1>5 DEF Exhausted
  <2>4. CASE Returned(s)
    BY <2>4, <1>4 DEF Returned
  <2>5. CASE TimedOut(s)
    BY <2>5, <1>5 DEF TimedOut
  <2>6. CASE Disconnected(s)
    BY <2>6, <1>3 DEF Disconnected
  <2>7. CASE Quiet(s) \/ Fails(s)
    BY <2>7, <1>5 DEF Quiet, Fails, Spared
  <2>8. CASE Unsent(s)
    BY <2>8, <1>3 DEF Unsent
  <2>9. QED BY <1>6, <1>7, <1>17, <2>1, <2>2, <2>3, <2>4, <2>5, <2>6, <2>7, <2>8 DEF ReceiverStep
<1>18. QED
  BY <1>8, <1>9, <1>10, <1>11, <1>12, <1>13, <1>14, <1>15, <1>16, <1>17 DEF Next, ParserStep

----------------------------------------------------------------------------
(* No buffer is lost.                                                       *)

\* What a receiver can own is counted in numbers, and nothing is no buffer.
LEMMA Countable ==
  ASSUME TypeInv, NEW s \in Sockets
  PROVE  /\ Cardinality(Queued(queue, s)) \in Nat /\ Len(pool[s]) \in Nat
         /\ Counted(NoBatch, s) = 0 /\ \A b : Counted(b, s) \in {0, 1}
         /\ \A b : b.socket = s => Counted(b, s) = 1
         /\ \A b : b.socket # s => Counted(b, s) = 0
<1>1. Counted(NoBatch, s) = 0
  BY ReceiversConstants DEF Counted
<1>2. Len(pool[s]) \in Nat
  BY DEF TypeInv
<1>3. Cardinality(Queued(queue, s)) \in Nat
  BY QueuedFinite DEF TypeInv
<1>4. QED BY <1>1, <1>2, <1>3 DEF Counted

LEMMA KeptInit == Init => BuffersKept
<1> SUFFICES ASSUME Init, NEW s \in Sockets
             PROVE  /\ \A k \in DOMAIN pool[s] : pool[s][k].socket = s
                    /\ Cardinality(Queued(queue, s)) + Len(pool[s])
                         + Counted(held[s], s) + Counted(current, s) = POOL_BATCHES
  BY DEF BuffersKept
<1>1. TypeInv /\ PlaceInv
  BY ReceiversInit
<1>2. Queued(queue, s) = {} /\ held[s] = NoBatch /\ current = NoBatch
  BY DEF Init, Queued
<1>3. Cardinality(Queued(queue, s)) = 0
  BY <1>2, FS_EmptySet
<1>4. Len(pool[s]) = POOL_BATCHES
  BY ReceiversConstants DEF Init
<1>5. Counted(NoBatch, s) = 0 /\ POOL_BATCHES \in Nat
  BY <1>1, Countable, ReceiversConstants
<1>6. QED BY <1>1, <1>2, <1>3, <1>4, <1>5 DEF PlaceInv

LEMMA KeptStep == TypeInv /\ PlaceInv /\ BuffersKept /\ [Next]_vars => BuffersKept'
<1> SUFFICES ASSUME TypeInv, PlaceInv, BuffersKept, [Next]_vars PROVE BuffersKept'
  OBVIOUS
<1> SUFFICES ASSUME NEW s \in Sockets, rx'[s] # "gone", parser' # "dead"
             PROVE  /\ \A k \in DOMAIN pool'[s] : pool'[s][k].socket = s
                    /\ Cardinality(Queued(queue', s)) + Len(pool'[s])
                         + Counted(held'[s], s) + Counted(current', s) = POOL_BATCHES
  BY DEF BuffersKept
<1> DEFINE Kept == Cardinality(Queued(queue, s)) + Len(pool[s])
                     + Counted(held[s], s) + Counted(current, s) = POOL_BATCHES
<1>1. TypeInv' /\ PlaceInv'
  BY ReceiversStep
<1>2. \A k \in DOMAIN pool'[s] : pool'[s][k].socket = s
  BY <1>1 DEF PlaceInv
<1>3. /\ \A r \in Sockets : rx[r] \in {"top", "waiting", "reading", "sending", "gone"}
      /\ pool \in [Sockets -> Seq(Batches)] /\ held \in [Sockets -> Batches \cup {NoBatch}]
      /\ queue \in Seq(Batches) /\ current \in Batches \cup {NoBatch}
      /\ rx \in [Sockets -> {"top", "waiting", "reading", "sending", "gone"}]
      /\ pool[s] \in Seq(Batches) /\ \A k \in DOMAIN pool[s] : pool[s][k].socket = s
  BY DEF TypeInv, PlaceInv
<1>4. /\ Cardinality(Queued(queue, s)) \in Nat /\ Len(pool[s]) \in Nat
      /\ Counted(NoBatch, s) = 0 /\ \A b : Counted(b, s) \in {0, 1}
      /\ \A b : b.socket = s => Counted(b, s) = 1
      /\ \A b : b.socket # s => Counted(b, s) = 0
  BY Countable
<1>5. rx[s] # "gone" /\ parser # "dead" => Kept
  BY DEF BuffersKept
<1>6. ASSUME rx[s] # "gone", parser # "dead",
             UNCHANGED <<queue, current, pool[s], held[s]>> PROVE Kept'
  BY <1>5, <1>6
\* A buffer comes out of the receiver's own pool, or somebody else's.
<1>7. ASSUME parser # "dead", UNCHANGED <<queue, current>>, NEW t \in Sockets, rx[t] # "gone", rx[s] # "gone",
             held[t] = NoBatch, pool[t] # <<>>, held' = [held EXCEPT ![t] = Head(pool[t])],
             pool' = [pool EXCEPT ![t] = Tail(@)]
      PROVE  Kept'
  <2>1. CASE t # s
    BY <1>3, <1>6, <1>7, <2>1
  <2>2. CASE t = s
    <3>1. /\ Len(Tail(pool[s])) = Len(pool[s]) - 1 /\ Head(pool[s]).socket = s
      BY <1>3, <1>7, <2>2, PoolTaken
    <3>2. pool'[s] = Tail(pool[s]) /\ held'[s] = Head(pool[s]) /\ held[s] = NoBatch
      BY <1>3, <1>7, <2>2
    <3>3. Counted(held'[s], s) = 1 /\ Counted(held[s], s) = 0
      BY <1>4, <3>1, <3>2
    <3>4. Kept' <=> Cardinality(Queued(queue, s)) + Len(Tail(pool[s]))
                      + Counted(Head(pool[s]), s) + Counted(current, s) = POOL_BATCHES
      BY <1>7, <3>2
    <3>5. Counted(current, s) \in {0, 1}
      BY <1>4
    <3>6. QED BY <1>4, <1>5, <1>7, <3>1, <3>2, <3>3, <3>4, <3>5
  <2>3. QED BY <2>1, <2>2
<1>8. ASSUME NEW t \in Sockets, Receive(t), parser # "dead", rx[s] # "gone" PROVE Kept'
  <2>1. CASE t # s
    BY <1>3, <1>6, <1>8, <2>1 DEF Receive, parserVars
  <2>2. CASE t = s
    <3>1. held[s].socket = s /\ held'[s].socket = s
      <4>1. held'[s] # NoBatch /\ held[s] # NoBatch
        BY <1>1, <1>3, <1>8, <2>2 DEF PlaceInv, Receive
      <4>2. QED BY <1>1, <4>1 DEF PlaceInv
    <3>2. Counted(held'[s], s) = 1 /\ Counted(held[s], s) = 1
      BY <1>4, <3>1
    <3>3. UNCHANGED <<queue, current, pool>>
      BY <1>8 DEF Receive, parserVars
    <3>4. QED BY <1>5, <1>8, <3>2, <3>3
  <2>3. QED BY <2>1, <2>2
<1>9. ASSUME NEW t \in Sockets, Send(t), parser # "dead", rx[s] # "gone" PROVE Kept'
  <2>1. held[t] \in Batches /\ held[t].socket = t
    BY <1>3, <1>9 DEF Send, PlaceInv
  <2>2. /\ queue' = Append(queue, held[t]) /\ held' = [held EXCEPT ![t] = NoBatch]
        /\ UNCHANGED <<pool, current>>
    BY <1>9 DEF Send, parserVars
  <2>3. Cardinality(Queued(queue', s)) = Cardinality(Queued(queue, s)) + Counted(held[t], s)
    BY <1>3, <2>1, <2>2, QueuedAppended
  <2>4. Counted(held'[s], s) + Counted(held[t], s) = Counted(held[s], s)
    <3>1. CASE t = s
      BY <1>3, <1>4, <2>1, <2>2, <3>1
    <3>2. CASE t # s
      <4>1. Counted(held[t], s) = 0 /\ Counted(held[s], s) \in {0, 1}
        BY <1>4, <2>1, <3>2
      <4>2. held'[s] = held[s]
        BY <1>3, <2>2, <3>2
      <4>3. QED BY <4>1, <4>2
    <3>3. QED BY <3>1, <3>2
  <2>5. /\ Counted(held'[s], s) \in Nat /\ Counted(held[t], s) \in Nat /\ Counted(held[s], s) \in Nat
        /\ Counted(current, s) \in Nat
    BY <1>4
  <2>6. Kept' <=> Cardinality(Queued(queue', s)) + Len(pool[s])
                    + Counted(held'[s], s) + Counted(current, s) = POOL_BATCHES
    BY <2>2
  <2>7. QED BY <1>4, <1>5, <1>9, <2>3, <2>4, <2>5, <2>6
<1>10. ASSUME Parse PROVE Kept'
  <2>1. /\ current = NoBatch /\ queue # <<>> /\ current' = Head(queue) /\ queue' = Tail(queue)
        /\ UNCHANGED <<rx, held, pool>> /\ parser # "dead"
    BY <1>10 DEF Parse, PlaceInv, rxVars
  <2>2. Cardinality(Queued(queue, s)) = Cardinality(Queued(queue', s)) + Counted(current', s)
    BY <1>3, <2>1, QueuedTaken
  <2>3. /\ Counted(held[s], s) \in Nat /\ Counted(current', s) \in Nat /\ Counted(current, s) = 0
    BY <1>4, <2>1
  <2>4. Cardinality(Queued(queue', s)) \in Nat
    BY <1>1, QueuedFinite DEF TypeInv
  <2>5. Kept' <=> Cardinality(Queued(queue', s)) + Len(pool[s])
                    + Counted(held[s], s) + Counted(current', s) = POOL_BATCHES
    BY <2>1
  <2>6. QED BY <1>4, <1>5, <2>1, <2>2, <2>3, <2>4, <2>5
<1>11. ASSUME Recycle PROVE Kept'
  <2> DEFINE t == current.socket
  <2>1. /\ parser = "parsing" /\ current \in Batches /\ t \in Sockets /\ current' = NoBatch
        /\ UNCHANGED <<rx, held, queue>>
        /\ pool' = IF rx[t] = "gone" THEN pool
                   ELSE [pool EXCEPT ![t] = Append(pool[t], Clear(current))]
    BY <1>11 DEF Recycle, Home, PlaceInv, TypeInv, Batches, rxVars
  <2>2. Counted(current', s) = 0 /\ Counted(current, s) \in Nat /\ Counted(held[s], s) \in Nat
    BY <1>4, <2>1
  <2>3. CASE t = s
    <3>1. pool'[s] = Append(pool[s], Clear(current))
      BY <1>3, <2>1, <2>3
    <3>2. Clear(current) \in Batches /\ Len(Append(pool[s], Clear(current))) = Len(pool[s]) + 1
      BY <1>3, <2>1, ClearIsBatch
    <3>3. Counted(current, s) = 1
      BY <1>4, <2>3
    <3>4. Kept' <=> Cardinality(Queued(queue, s)) + Len(Append(pool[s], Clear(current)))
                      + Counted(held[s], s) + Counted(current', s) = POOL_BATCHES
      BY <2>1, <3>1
    <3>5. QED BY <1>4, <1>5, <2>1, <2>2, <3>2, <3>3, <3>4
  <2>4. CASE t # s
    <3>1. pool'[s] = pool[s] /\ Counted(current, s) = 0
      BY <1>3, <1>4, <2>1, <2>4
    <3>2. Kept' <=> Cardinality(Queued(queue, s)) + Len(pool[s])
                      + Counted(held[s], s) + Counted(current', s) = POOL_BATCHES
      BY <2>1, <3>1
    <3>3. QED BY <1>4, <1>5, <2>1, <2>2, <3>1, <3>2
  <2>5. QED BY <2>3, <2>4
<1>12. ASSUME NEW t \in Sockets, ReceiverStep(t) \/ Fails(t) \/ Arrive(t) PROVE Kept'
  <2>1. rx[s] # "gone" /\ parser' = parser /\ parser # "dead"
    BY <1>3, <1>12 DEF ReceiverStep, Fails, Arrive, Leave, Pick, Exhausted, Returned, TimedOut,
      Disconnected, Receive, Quiet, Spared, Send, Unsent, Return, rxVars, parserVars
  <2>2. CASE Leave(t) \/ Disconnected(t) \/ Unsent(t)
    <3>1. Return(t)
      BY <2>2 DEF Leave, Disconnected, Unsent
    <3>2. t # s
      BY <1>3, <3>1 DEF Return
    <3>3. QED BY <1>3, <1>6, <2>1, <3>1, <3>2 DEF Return, parserVars
  <2>3. CASE Pick(t) \/ Returned(t)
    <3>1. CASE UNCHANGED <<held, pool>>
      BY <1>6, <2>1, <2>3, <3>1 DEF Pick, Returned, parserVars
    <3>2. CASE held[t] = NoBatch /\ pool[t] # <<>> /\ held' = [held EXCEPT ![t] = Head(pool[t])]
                 /\ pool' = [pool EXCEPT ![t] = Tail(@)]
      BY <1>7, <2>1, <2>3, <3>2 DEF Pick, Returned, parserVars
    <3>3. Returned(t) => held[t] = NoBatch
      BY DEF Returned, PlaceInv
    <3>4. QED BY <2>3, <3>1, <3>2, <3>3 DEF Pick, Returned
  <2>4. CASE Exhausted(t) \/ TimedOut(t) \/ Quiet(t) \/ Fails(t) \/ Arrive(t)
    BY <1>6, <2>1, <2>4 DEF Exhausted, TimedOut, Quiet, Fails, Arrive, Spared, rxVars, parserVars
  <2>5. QED BY <1>8, <1>9, <1>12, <2>1, <2>2, <2>3, <2>4 DEF ReceiverStep
<1>13. ASSUME Start \/ Finish \/ Stop \/ UNCHANGED vars PROVE Kept'
  BY <1>6, <1>13 DEF Start, Finish, Stop, vars, rxVars, parserVars
<1>14. ASSUME Die \/ \E end \in {"batches", "pool"} : Drop(end) PROVE FALSE
  BY <1>14 DEF Die, Drop
<1>15. Kept'
  BY <1>10, <1>11, <1>12, <1>13, <1>14 DEF Next, ParserStep
<1>16. Cardinality(Queued(queue', s)) + Len(pool'[s])
          + Counted(held'[s], s) + Counted(current', s) = POOL_BATCHES
  BY <1>15, Zenon
<1>17. QED BY <1>2, <1>16

----------------------------------------------------------------------------
(* The gauge.                                                               *)

\* A step that leaves what is between the receivers and the parser as it is.
Calm ==
  /\ UNCHANGED <<queue, depth, parsed, taken>>
  /\ \A s \in Sockets : /\ (rx'[s] = "sending") <=> (rx[s] = "sending")
                        /\ rx[s] = "sending" => held'[s] = held[s]

\* While the parser lives, only three steps move datagrams towards it.
LEMMA Movements ==
  TypeInv /\ PlaceInv /\ [Next]_vars /\ parser' # "dead" =>
    /\ parser # "dead"
    /\ Calm \/ Parse \/ \E s \in Sockets : Receive(s) \/ Send(s)
<1> SUFFICES ASSUME TypeInv, PlaceInv, [Next]_vars, parser' # "dead"
             PROVE  /\ parser # "dead"
                    /\ Calm \/ Parse \/ \E s \in Sockets : Receive(s) \/ Send(s)
  OBVIOUS
<1>1. rx \in [Sockets -> {"top", "waiting", "reading", "sending", "gone"}]
      /\ held \in [Sockets -> Batches \cup {NoBatch}] /\ (dropped # {} => parser = "dead")
  BY DEF TypeInv, PlaceInv
<1>2. ASSUME NEW s \in Sockets, rx[s] # "sending", NEW where \in {"top", "waiting", "reading", "gone"},
             rx' = [rx EXCEPT ![s] = where],
             \A t \in Sockets \ {s} : held'[t] = held[t], UNCHANGED <<queue, depth, parsed, taken>>
      PROVE  Calm
  BY <1>1, <1>2 DEF Calm
<1>3. ASSUME UNCHANGED <<rx, held, queue, depth, parsed, taken>> PROVE Calm
  BY <1>3 DEF Calm
<1>4. CASE Start \/ Recycle \/ Finish \/ Stop \/ UNCHANGED vars
  BY <1>3, <1>4 DEF Start, Recycle, Finish, Stop, vars, rxVars, parserVars, socketVars
<1>5. ASSUME Die \/ \E end \in {"batches", "pool"} : Drop(end) PROVE FALSE
  BY <1>5 DEF Die, Drop
<1>6. ASSUME NEW s \in Sockets, Arrive(s) PROVE parser # "dead" /\ Calm
  BY <1>3, <1>6 DEF Arrive, rxVars, parserVars
<1>7. ASSUME NEW s \in Sockets, ReceiverStep(s) \/ Fails(s), ~Receive(s), ~Send(s)
      PROVE  parser # "dead" /\ Calm
  <2>1. parser # "dead" /\ dropped = {}
    BY <1>1, <1>7 DEF ReceiverStep, Fails, Leave, Pick, Exhausted, Returned, TimedOut,
      Disconnected, Receive, Quiet, Spared, Send, Unsent, Return, parserVars
  <2>2. CASE Leave(s) \/ Disconnected(s)
    BY <1>1, <1>2, <2>1, <2>2 DEF Leave, Disconnected, Return, parserVars, socketVars
  <2>3. CASE Pick(s) \/ Returned(s)
    <3>1. \A t \in Sockets \ {s} : held'[t] = held[t]
      BY <1>1, <2>3 DEF Pick, Returned
    <3>2. QED BY <1>2, <2>1, <2>3, <3>1 DEF Pick, Returned, parserVars, socketVars
  <2>4. CASE Exhausted(s) \/ TimedOut(s) \/ Quiet(s) \/ Fails(s)
    BY <1>2, <2>1, <2>4 DEF Exhausted, TimedOut, Quiet, Fails, Spared, parserVars, socketVars
  <2>5. ~Unsent(s)
    BY <2>1 DEF Unsent
  <2>6. QED BY <1>7, <2>2, <2>3, <2>4, <2>5 DEF ReceiverStep
<1>8. parser # "dead"
  <2>1. CASE Start \/ Recycle \/ Finish \/ Parse \/ Stop \/ UNCHANGED vars
    BY <2>1 DEF Start, Recycle, Finish, Parse, Stop, vars, parserVars
  <2>2. ASSUME NEW s \in Sockets, Receive(s) \/ Send(s) PROVE parser # "dead"
    BY <2>2 DEF Receive, Send, parserVars
  <2>3. QED BY <1>5, <1>6, <1>7, <2>1, <2>2 DEF Next, ParserStep
<1>9. QED BY <1>4, <1>5, <1>6, <1>7, <1>8 DEF Next, ParserStep

LEMMA HandsFinite ==
  \A S \in SUBSET (Sockets \X (1..RECV_BATCH)) : IsFiniteSet(S) /\ Cardinality(S) \in Nat
<1>1. IsFiniteSet(Sockets) /\ RECV_BATCH \in Nat
  BY ReceiversConstants
<1>2. IsFiniteSet(1..RECV_BATCH)
  BY <1>1, FS_Interval
<1>3. IsFiniteSet(Sockets \X (1..RECV_BATCH))
  BY <1>1, <1>2, FS_Product
<1>4. QED BY <1>3, FS_Subset, FS_CardinalityType

LEMMA RowInHands ==
  ASSUME NEW s \in Sockets, NEW n \in 0..RECV_BATCH
  PROVE  {s} \X (1..n) \in SUBSET (Sockets \X (1..RECV_BATCH))
<1>1. \A i \in 1..n : i \in 1..RECV_BATCH
  BY ReceiversConstants
<1> SUFFICES ASSUME NEW at \in {s} \X (1..n) PROVE at \in Sockets \X (1..RECV_BATCH)
  OBVIOUS
<1>2. QED BY <1>1

\* What a receiver read is in its hand, beside what the others hold.
LEMMA HandsGrow ==
  ASSUME NEW S \in SUBSET (Sockets \X (1..RECV_BATCH)), NEW s \in Sockets, NEW n \in 0..RECV_BATCH,
         \A at \in S : at[1] # s
  PROVE  Cardinality(S \cup ({s} \X (1..n))) = Cardinality(S) + n
<1>1. n \in Nat
  BY ReceiversConstants
<1>2. IsFiniteSet({s} \X (1..n)) /\ Cardinality({s} \X (1..n)) = n
  BY <1>1, RowCounts
<1>3. IsFiniteSet(S) /\ S \cap ({s} \X (1..n)) = {}
  BY HandsFinite
<1>4. QED BY <1>2, <1>3, Disjoint

LEMMA DepthInit == Init => DepthExact
<1> SUFFICES ASSUME Init PROVE depth = Cardinality(Datagrams(queue)) + Cardinality(InHand)
  BY DEF DepthExact
<1>1. Datagrams(queue) = {} /\ InHand = {}
  BY DEF Init, Datagrams, InHand
<1>2. QED BY <1>1, FS_EmptySet DEF Init

LEMMA DepthStep == TypeInv /\ PlaceInv /\ DepthExact /\ [Next]_vars => DepthExact'
<1> SUFFICES ASSUME TypeInv, PlaceInv, DepthExact, [Next]_vars, parser' # "dead"
             PROVE  depth' = Cardinality(Datagrams(queue')) + Cardinality(InHand')
  BY DEF DepthExact
<1>1. parser # "dead" /\ (Calm \/ Parse \/ \E s \in Sockets : Receive(s) \/ Send(s))
  BY Movements
<1>2. depth = Cardinality(Datagrams(queue)) + Cardinality(InHand)
  BY <1>1 DEF DepthExact
<1>3. /\ rx \in [Sockets -> {"top", "waiting", "reading", "sending", "gone"}]
      /\ held \in [Sockets -> Batches \cup {NoBatch}] /\ queue \in Seq(Batches) /\ depth \in Nat
      /\ kernel \in [Sockets -> Nat] /\ taken \in [Sockets -> Nat]
      /\ \A s \in Sockets : rx[s] \in {"reading", "sending"} => held[s] \in Batches
  BY DEF TypeInv, PlaceInv
<1>4. /\ InHand \in SUBSET (Sockets \X (1..RECV_BATCH)) /\ InHand' \in SUBSET (Sockets \X (1..RECV_BATCH))
      /\ Cardinality(InHand) \in Nat /\ Cardinality(InHand') \in Nat
  <2>1. InHand \in SUBSET (Sockets \X (1..RECV_BATCH)) /\ InHand' \in SUBSET (Sockets \X (1..RECV_BATCH))
    BY DEF InHand
  <2>2. QED BY <2>1, HandsFinite
<1>5. Cardinality(Datagrams(queue)) \in Nat
  BY <1>3, DatagramsFinite
<1>6. CASE Calm
  <2>1. InHand' = InHand
    BY <1>6 DEF Calm, InHand
  <2>2. QED BY <1>2, <1>6, <2>1 DEF Calm
<1>7. ASSUME NEW s \in Sockets, Receive(s) PROVE depth' = Cardinality(Datagrams(queue')) + Cardinality(InHand')
  <2> DEFINE n == IF kernel[s] < RECV_BATCH THEN kernel[s] ELSE RECV_BATCH
             b == Filled(held[s], n, taken[s])
  <2>1. n \in 0..RECV_BATCH
    BY <1>3, ReceiversConstants
  <2>2. /\ rx[s] = "reading" /\ rx' = [rx EXCEPT ![s] = "sending"] /\ held' = [held EXCEPT ![s] = b]
        /\ depth' = depth + n /\ queue' = queue
    BY <1>7 DEF Receive
  <2> HIDE DEF n
  <2>3. b.filled = n
    BY <1>3, <2>1, <2>2, FilledIsBatch
  <2> HIDE DEF b
  <2>4. InHand' = InHand \cup ({s} \X (1..n)) /\ \A at \in InHand : at[1] # s
    <3>1. ASSUME NEW r \in Sockets, NEW i \in 1..RECV_BATCH
          PROVE  (rx'[r] = "sending" /\ i <= held'[r].filled)
                   <=> ((rx[r] = "sending" /\ i <= held[r].filled) \/ (r = s /\ i \in 1..n))
      BY <1>3, <2>1, <2>2, <2>3
    <3>2. {s} \X (1..n) \in SUBSET (Sockets \X (1..RECV_BATCH))
      BY <2>1, RowInHands
    <3>3. QED BY <2>2, <3>1, <3>2 DEF InHand
  <2>5. Cardinality(InHand') = Cardinality(InHand) + n
    BY <1>4, <2>1, <2>4, HandsGrow
  <2>6. QED BY <1>2, <1>4, <1>5, <2>1, <2>2, <2>5
<1>8. ASSUME NEW s \in Sockets, Send(s) PROVE depth' = Cardinality(Datagrams(queue')) + Cardinality(InHand')
  <2> DEFINE n == held[s].filled
  <2>1. /\ rx[s] = "sending" /\ rx' = [rx EXCEPT ![s] = "top"] /\ held' = [held EXCEPT ![s] = NoBatch]
        /\ depth' = depth /\ queue' = Append(queue, held[s])
    BY <1>8 DEF Send
  <2>2. held[s] \in Batches /\ n \in 0..RECV_BATCH
    BY <1>3, <2>1 DEF Batches
  <2>3. Cardinality(Datagrams(queue')) = Cardinality(Datagrams(queue)) + n
    BY <1>3, <2>1, <2>2, DatagramsAppended
  <2>4. InHand = InHand' \cup ({s} \X (1..n)) /\ \A at \in InHand' : at[1] # s
    <3>1. ASSUME NEW r \in Sockets, NEW i \in 1..RECV_BATCH
          PROVE  (rx[r] = "sending" /\ i <= held[r].filled)
                   <=> ((rx'[r] = "sending" /\ i <= held'[r].filled) \/ (r = s /\ i \in 1..n))
      BY <1>3, <2>1, <2>2
    <3>2. {s} \X (1..n) \in SUBSET (Sockets \X (1..RECV_BATCH)) /\ rx'[s] # "sending"
      BY <1>3, <2>1, <2>2, RowInHands
    <3>3. QED BY <3>1, <3>2 DEF InHand
  <2> HIDE DEF n
  <2>5. Cardinality(InHand) = Cardinality(InHand') + n
    BY <1>4, <2>2, <2>4, HandsGrow
  <2>6. QED BY <1>2, <1>4, <1>5, <2>1, <2>2, <2>3, <2>5
<1>9. CASE Parse
  <2> DEFINE n == Head(queue).filled
  <2>1. /\ queue # <<>> /\ queue' = Tail(queue) /\ UNCHANGED <<rx, held>>
        /\ depth' = IF depth < n THEN 0 ELSE depth - n
    BY <1>9 DEF Parse, Popped, rxVars
  <2>2. Head(queue) \in Batches /\ Tail(queue) \in Seq(Batches) /\ n \in 0..RECV_BATCH
    <3>1. Head(queue) \in Batches /\ Tail(queue) \in Seq(Batches)
      BY <1>3, <2>1
    <3>2. QED BY <3>1 DEF Batches
  <2>3. Cardinality(Datagrams(queue)) = Cardinality(Datagrams(queue')) + n
    BY <1>3, <2>1, DatagramsTaken
  <2>4. Cardinality(Datagrams(queue')) \in Nat
    BY <2>1, <2>2, DatagramsFinite
  <2>5. InHand' = InHand
    BY <2>1 DEF InHand
  <2> HIDE DEF n
  <2>6. QED BY <1>2, <1>4, <2>1, <2>2, <2>3, <2>4, <2>5
<1>10. QED BY <1>1, <1>6, <1>7, <1>8, <1>9

----------------------------------------------------------------------------
(* The order of the datagrams.                                              *)

\* The marks that lay a socket's datagrams out along a queue: how many were
\* numbered before each batch, and behind the last.
Marks(base, q, s, from, to) ==
  /\ base[1] = from /\ base[Len(q) + 1] = to
  /\ \A k, l \in 1..(Len(q) + 1) : k <= l => base[k] <= base[l]
  /\ \A k \in 1..Len(q) :
       /\ q[k].socket # s => base[k + 1] = base[k]
       /\ q[k].socket = s => /\ base[k + 1] = base[k] + q[k].filled
                             /\ \A i \in 1..q[k].filled : q[k].packets[i] = base[k] + i

\* The queue holds the datagrams of a socket that follow "from", up to "to",
\* one behind the other.
Laid(q, s, from, to) ==
  \E base \in [1..(Len(q) + 1) -> from..to] : Marks(base, q, s, from, to)

LEMMA LaidEmpty == ASSUME NEW s, NEW n \in Nat PROVE Laid(<<>>, s, n, n)
<1> DEFINE base == [k \in 1..1 |-> n]
<1>1. base \in [1..(Len(<<>>) + 1) -> n..n] /\ Marks(base, <<>>, s, n, n)
  BY DEF Marks
<1>2. QED BY <1>1 DEF Laid

LEMMA LaidAppended ==
  ASSUME NEW q \in Seq(Batches), NEW s, NEW from \in Nat, NEW to \in Nat, Laid(q, s, from, to),
         NEW b \in Batches,
         b.socket = s => \A i \in 1..b.filled : b.packets[i] = to + i
  PROVE  Laid(Append(q, b), s, from, to + (IF b.socket = s THEN b.filled ELSE 0))
<1>1. PICK base \in [1..(Len(q) + 1) -> from..to] : Marks(base, q, s, from, to)
  BY DEF Laid
<1> DEFINE n == IF b.socket = s THEN b.filled ELSE 0
           more == [k \in 1..(Len(q) + 2) |-> IF k = Len(q) + 2 THEN to + n ELSE base[k]]
           qb == Append(q, b)
<1>2. /\ qb \in Seq(Batches) /\ Len(qb) = Len(q) + 1 /\ Len(q) \in Nat
      /\ qb[Len(q) + 1] = b /\ \A k \in 1..Len(q) : qb[k] = q[k]
  OBVIOUS
<1>3. b.filled \in Nat
  BY ReceiversConstants DEF Batches
<1>4. n \in Nat /\ (b.socket = s => n = b.filled) /\ (b.socket # s => n = 0)
  BY <1>3
<1> HIDE DEF n, qb
<1>5. \A k \in 1..(Len(q) + 1) : more[k] = base[k] /\ base[k] \in from..to
  BY <1>1, <1>2
<1>6. more[Len(q) + 2] = to + n
  BY <1>2
<1>7. more \in [1..(Len(q) + 2) -> from..(to + n)]
  BY <1>1, <1>2, <1>4, <1>5, <1>6, SMTT(60)
<1> HIDE DEF more
<1>8. base[1] = from /\ base[Len(q) + 1] = to
  BY <1>1 DEF Marks
<1>9. ASSUME NEW k \in 1..(Len(q) + 2), NEW l \in 1..(Len(q) + 2), k <= l PROVE more[k] <= more[l]
  <2>1. CASE l = Len(q) + 2
    BY <1>2, <1>4, <1>6, <1>7, <2>1
  <2>2. CASE l # Len(q) + 2
    <3>1. k \in 1..(Len(q) + 1) /\ l \in 1..(Len(q) + 1)
      BY <1>2, <1>9, <2>2
    <3>2. base[k] <= base[l]
      BY <1>1, <1>9, <3>1 DEF Marks
    <3>3. QED BY <1>5, <3>1, <3>2
  <2>3. QED BY <2>1, <2>2
<1>10. ASSUME NEW k \in 1..(Len(q) + 1)
       PROVE  /\ qb[k].socket # s => more[k + 1] = more[k]
              /\ qb[k].socket = s => /\ more[k + 1] = more[k] + qb[k].filled
                                     /\ \A i \in 1..qb[k].filled : qb[k].packets[i] = more[k] + i
  <2>1. CASE k = Len(q) + 1
    <3>1. more[k] = to /\ more[k + 1] = to + n /\ qb[k] = b
      BY <1>2, <1>5, <1>6, <1>8, <2>1
    <3>2. QED BY <1>4, <3>1
  <2>2. CASE k # Len(q) + 1
    <3>1. k \in 1..Len(q) /\ k + 1 \in 1..(Len(q) + 1)
      BY <1>2, <2>2
    <3>2. more[k] = base[k] /\ more[k + 1] = base[k + 1] /\ qb[k] = q[k]
      BY <1>2, <1>5, <3>1
    <3>3. QED BY <1>1, <3>1, <3>2 DEF Marks
  <2>3. QED BY <2>1, <2>2
<1>11. Marks(more, qb, s, from, to + n)
  <2>1. more[1] = from /\ more[Len(qb) + 1] = to + n
    BY <1>2, <1>5, <1>6, <1>8
  <2>2. Len(qb) + 1 = Len(q) + 2
    BY <1>2
  <2>3. QED BY <1>2, <1>9, <1>10, <2>1, <2>2 DEF Marks
<1>12. Laid(qb, s, from, to + n)
  BY <1>2, <1>7, <1>11 DEF Laid
<1>13. QED BY <1>12 DEF n, qb

LEMMA LaidTaken ==
  ASSUME NEW q \in Seq(Batches), q # <<>>, NEW s, NEW from \in Nat, NEW to \in Nat,
         Laid(q, s, from, to)
  PROVE  /\ Head(q).socket # s => Laid(Tail(q), s, from, to)
         /\ Head(q).socket = s =>
              /\ Laid(Tail(q), s, from + Head(q).filled, to)
              /\ \A i \in 1..Head(q).filled : Head(q).packets[i] = from + i
<1>1. PICK base \in [1..(Len(q) + 1) -> from..to] : Marks(base, q, s, from, to)
  BY DEF Laid
<1> DEFINE t == Tail(q)
           rest == [k \in 1..Len(q) |-> base[k + 1]]
<1>2. /\ t \in Seq(Batches) /\ Len(t) = Len(q) - 1 /\ Len(q) \in Nat \ {0}
      /\ \A k \in 1..Len(t) : t[k] = q[k + 1]
      /\ Head(q) = q[1] /\ q[1] \in Batches
  OBVIOUS
<1> HIDE DEF t
<1>3. base[1] = from /\ base[Len(q) + 1] = to
  BY <1>1 DEF Marks
<1>4. /\ q[1].socket # s => base[2] = from
      /\ q[1].socket = s => /\ base[2] = from + q[1].filled
                            /\ \A i \in 1..q[1].filled : q[1].packets[i] = from + i
  BY <1>1, <1>2, <1>3 DEF Marks
<1>5. \A k \in 1..Len(q) : base[k + 1] \in base[2]..to /\ rest[k] = base[k + 1]
  <2> SUFFICES ASSUME NEW k \in 1..Len(q) PROVE base[k + 1] \in base[2]..to
    OBVIOUS
  <2>1. 2 \in 1..(Len(q) + 1) /\ k + 1 \in 1..(Len(q) + 1) /\ 2 <= k + 1
    BY <1>2
  <2>2. base[2] <= base[k + 1] /\ base[k + 1] \in from..to /\ base[2] \in from..to
    BY <1>1, <2>1 DEF Marks
  <2>3. QED BY <2>2
<1>6. rest \in [1..(Len(t) + 1) -> base[2]..to]
  <2>1. Len(t) + 1 = Len(q)
    BY <1>2
  <2>2. QED BY <1>5, <2>1
<1> HIDE DEF rest
<1>7. Marks(rest, t, s, base[2], to)
  <2>1. rest[1] = base[2] /\ rest[Len(t) + 1] = to
    BY <1>2, <1>3, <1>5
  <2>2. ASSUME NEW k \in 1..(Len(t) + 1), NEW l \in 1..(Len(t) + 1), k <= l PROVE rest[k] <= rest[l]
    <3>1. k + 1 \in 1..(Len(q) + 1) /\ l + 1 \in 1..(Len(q) + 1) /\ k + 1 <= l + 1
      BY <1>2, <2>2
    <3>2. base[k + 1] <= base[l + 1]
      BY <1>1, <3>1 DEF Marks
    <3>3. QED BY <1>2, <1>5, <3>2
  <2>3. ASSUME NEW k \in 1..Len(t)
        PROVE  /\ t[k].socket # s => rest[k + 1] = rest[k]
               /\ t[k].socket = s => /\ rest[k + 1] = rest[k] + t[k].filled
                                     /\ \A i \in 1..t[k].filled : t[k].packets[i] = rest[k] + i
    <3>1. k + 1 \in 1..Len(q) /\ t[k] = q[k + 1] /\ k \in 1..Len(q)
      BY <1>2
    <3>2. rest[k] = base[k + 1] /\ rest[k + 1] = base[(k + 1) + 1]
      BY <1>5, <3>1
    <3>3. QED BY <1>1, <3>1, <3>2 DEF Marks
  <2>4. QED BY <2>1, <2>2, <2>3 DEF Marks
<1>8. Laid(t, s, base[2], to)
  BY <1>6, <1>7 DEF Laid
<1>9. QED BY <1>2, <1>4, <1>8 DEF t

\* A non-empty set of places in a queue has a last one.
LEMMA LastPlace ==
  ASSUME NEW n \in Nat, NEW S, S \subseteq 1..n, S # {}
  PROVE  \E k \in S : \A l \in S : l <= k
<1> DEFINE T == {u \in Nat : \A x \in S : x < u}
<1>1. n + 1 \in T
  OBVIOUS
<1>2. PICK u \in T : \A y \in T : ~(<<y, u>> \in OpToRel(<, Nat))
  <2>1. T \subseteq Nat /\ T # {}
    BY <1>1
  <2> HIDE DEF T
  <2>2. QED BY <2>1, WFMin, NatLessThanWellFounded, Zenon
<1>3. \A y \in T : ~(y < u)
  BY <1>2 DEF OpToRel
<1>4. u - 1 \in S
  <2>1. SUFFICES ASSUME u - 1 \notin S PROVE FALSE
    OBVIOUS
  <2>2. \A x \in S : x < u - 1
    BY <2>1
  <2>3. u - 1 \in Nat
    <3>1. PICK x \in S : TRUE
      OBVIOUS
    <3>2. QED BY <2>2, <3>1
  <2>4. u - 1 \in T
    BY <2>2, <2>3
  <2>5. QED BY <2>4, <1>3
<1>5. \A x \in S : x <= u - 1
  OBVIOUS
<1>6. QED BY <1>4, <1>5

\* The datagrams of a socket in a queue.
Mine(q, s) == {at \in Datagrams(q) : q[at[1]].socket = s}

LEMMA InMine ==
  ASSUME NEW q \in Seq(Batches), NEW s, NEW at
  PROVE  at \in Mine(q, s) <=>
           \E k \in 1..Len(q), i \in 1..RECV_BATCH :
             at = <<k, i>> /\ i <= q[k].filled /\ q[k].socket = s
<1>1. at \in Mine(q, s) <=> at \in Datagrams(q) /\ q[at[1]].socket = s
  BY DEF Mine
<1>2. \A k, i : at = <<k, i>> => at[1] = k
  OBVIOUS
<1>3. QED BY <1>1, <1>2, InDatagrams

\* Laid along a queue they are read in order, none missing.
LEMMA LaidReads ==
  ASSUME NEW q \in Seq(Batches), NEW s, NEW from \in Nat, NEW to \in Nat, Laid(q, s, from, to)
  PROVE  /\ from <= to
         /\ {q[at[1]].packets[at[2]] : at \in Mine(q, s)} = (from + 1)..to
         /\ \A x, y \in Mine(q, s) :
              Before(x, y) => q[x[1]].packets[x[2]] < q[y[1]].packets[y[2]]
<1>1. PICK base \in [1..(Len(q) + 1) -> from..to] : Marks(base, q, s, from, to)
  BY DEF Laid
<1>2. /\ base[1] = from /\ base[Len(q) + 1] = to /\ Len(q) \in Nat
      /\ \A k, l \in 1..(Len(q) + 1) : k <= l => base[k] <= base[l]
      /\ \A k \in 1..(Len(q) + 1) : base[k] \in from..to
  BY <1>1 DEF Marks
<1>3. \A k \in 1..Len(q) :
        /\ k \in 1..(Len(q) + 1) /\ k + 1 \in 1..(Len(q) + 1)
        /\ q[k].filled \in 0..RECV_BATCH /\ RECV_BATCH \in Nat
  <2> SUFFICES ASSUME NEW k \in 1..Len(q)
               PROVE  /\ k \in 1..(Len(q) + 1) /\ k + 1 \in 1..(Len(q) + 1)
                      /\ q[k].filled \in 0..RECV_BATCH /\ RECV_BATCH \in Nat
    OBVIOUS
  <2>1. q[k] \in Batches
    OBVIOUS
  <2>2. QED BY <1>2, <2>1, ReceiversConstants, SMTT(60) DEF Batches
<1>4. ASSUME NEW k \in 1..Len(q), NEW i \in 1..RECV_BATCH, i <= q[k].filled, q[k].socket = s
      PROVE  /\ q[k].packets[i] = base[k] + i
             /\ base[k + 1] = base[k] + q[k].filled
             /\ base[k] + i \in (from + 1)..to
  <2>1. i \in 1..q[k].filled
    BY <1>3, <1>4
  <2>2. q[k].packets[i] = base[k] + i /\ base[k + 1] = base[k] + q[k].filled
    BY <1>1, <1>4, <2>1 DEF Marks
  <2>3. base[k + 1] \in from..to /\ base[k] \in from..to
    BY <1>2, <1>3
  <2>4. QED BY <1>3, <2>1, <2>2, <2>3
<1>5. from <= to
  BY <1>2
<1>6. ASSUME NEW at \in Mine(q, s) PROVE q[at[1]].packets[at[2]] \in (from + 1)..to
  <2>1. PICK k \in 1..Len(q), i \in 1..RECV_BATCH :
          at = <<k, i>> /\ i <= q[k].filled /\ q[k].socket = s
    BY <1>6, InMine
  <2>2. q[k].packets[i] \in (from + 1)..to
    BY <1>4, <2>1
  <2>3. QED BY <2>1, <2>2
<1>7. ASSUME NEW v \in (from + 1)..to
      PROVE  \E at \in Mine(q, s) : v = q[at[1]].packets[at[2]]
  <2> DEFINE S == {k \in 1..(Len(q) + 1) : base[k] < v}
  <2>1. 1 \in S /\ Len(q) + 1 \notin S /\ S \subseteq 1..(Len(q) + 1)
    BY <1>2
  <2>2. PICK k \in S : \A l \in S : l <= k
    <3> HIDE DEF S
    <3>1. Len(q) + 1 \in Nat
      BY <1>2
    <3>2. QED BY <2>1, <3>1, LastPlace, Zenon
  <2>3. k \in 1..Len(q) /\ base[k] < v
    BY <1>2, <2>1
  <2>4. k + 1 \notin S /\ k + 1 \in 1..(Len(q) + 1)
    BY <1>2, <2>2, <2>3
  <2>5. base[k + 1] >= v /\ base[k + 1] \in from..to /\ base[k] \in from..to
    BY <1>2, <1>3, <2>3, <2>4
  <2>6. q[k].socket = s /\ base[k + 1] = base[k] + q[k].filled
    BY <1>1, <2>3, <2>5 DEF Marks
  <2> DEFINE i == v - base[k]
  <2>7. i \in 1..RECV_BATCH /\ i <= q[k].filled /\ base[k] + i = v
    BY <1>3, <2>3, <2>5, <2>6, SMTT(60)
  <2> HIDE DEF i, S
  <2>8. q[k].packets[i] = v
    BY <1>4, <2>3, <2>6, <2>7
  <2>9. <<k, i>> \in Mine(q, s)
    BY <2>3, <2>6, <2>7, InMine
  <2>10. QED BY <2>8, <2>9
<1>8. ASSUME NEW x \in Mine(q, s), NEW y \in Mine(q, s), Before(x, y)
      PROVE  q[x[1]].packets[x[2]] < q[y[1]].packets[y[2]]
  <2>1. PICK k \in 1..Len(q), i \in 1..RECV_BATCH :
          x = <<k, i>> /\ i <= q[k].filled /\ q[k].socket = s
    BY <1>8, InMine
  <2>2. PICK l \in 1..Len(q), j \in 1..RECV_BATCH :
          y = <<l, j>> /\ j <= q[l].filled /\ q[l].socket = s
    BY <1>8, InMine
  <2>3. k < l \/ (k = l /\ i < j)
    BY <1>8, <2>1, <2>2 DEF Before
  <2>4. /\ q[k].packets[i] = base[k] + i /\ base[k + 1] = base[k] + q[k].filled
        /\ q[l].packets[j] = base[l] + j
    BY <1>4, <2>1, <2>2
  <2>5. /\ base[k] \in Int /\ base[l] \in Int /\ base[k + 1] \in Int
        /\ q[k].filled \in Int
    BY <1>2, <1>3
  <2>6. k < l => base[k + 1] <= base[l]
    <3>1. k + 1 \in 1..(Len(q) + 1) /\ l \in 1..(Len(q) + 1) /\ (k < l => k + 1 <= l)
      BY <1>3, <2>1, <2>2
    <3>2. QED BY <1>2, <3>1
  <2>7. q[k].packets[i] < q[l].packets[j]
    BY <2>1, <2>3, <2>4, <2>5, <2>6, SMTT(60)
  <2>8. QED BY <2>1, <2>2, <2>7
<1>9. QED BY <1>5, <1>6, <1>7, <1>8

\* What is read from a socket and not parsed yet lies along the queue, the
\* batch in the receiver's hands last.
Way(s) ==
  /\ parsed[s] = [i \in 1..Len(parsed[s]) |-> i]
  /\ rx[s] # "sending" => Laid(queue, s, Len(parsed[s]), taken[s])
  /\ rx[s] = "sending" =>
       /\ held[s].filled <= taken[s]
       /\ Laid(queue, s, Len(parsed[s]), taken[s] - held[s].filled)
       /\ \A i \in 1..held[s].filled : held[s].packets[i] = taken[s] - held[s].filled + i

WayInv == parser # "dead" => \A s \in Sockets : Way(s)

\* It is what makes the order and the coverage hold.
LEMMA WayIsOrdered == TypeInv /\ PlaceInv /\ WayInv => NothingSkipped
<1> SUFFICES ASSUME TypeInv, PlaceInv, WayInv, parser # "dead", NEW s \in Sockets
             PROVE  /\ Len(parsed[s]) <= taken[s]
                    /\ parsed[s] = [i \in 1..Len(parsed[s]) |-> i]
                    /\ {Number(s, at) : at \in OnTheWay(s)} = (Len(parsed[s]) + 1)..taken[s]
                    /\ \A at, to \in OnTheWay(s) : Before(at, to) => Number(s, at) < Number(s, to)
                    /\ parser = "done" => OnTheWay(s) = {}
  BY DEF NothingSkipped
<1>1. Way(s)
  BY DEF WayInv
<1>2. /\ queue \in Seq(Batches) /\ Len(parsed[s]) \in Nat /\ taken[s] \in Nat
      /\ rx[s] = "sending" => held[s] \in Batches /\ held[s].socket = s
  BY DEF TypeInv, PlaceInv
<1>3. Trail(s) \in Seq(Batches) /\ Laid(Trail(s), s, Len(parsed[s]), taken[s])
  <2>1. CASE rx[s] # "sending"
    BY <1>1, <1>2, <2>1 DEF Way, Trail
  <2>2. CASE rx[s] = "sending"
    <3> DEFINE n == taken[s] - held[s].filled
    <3>1. /\ n \in Nat /\ n + held[s].filled = taken[s] /\ Laid(queue, s, Len(parsed[s]), n)
          /\ \A i \in 1..held[s].filled : held[s].packets[i] = n + i
      <4>1. held[s].filled \in 0..RECV_BATCH /\ RECV_BATCH \in Nat
        BY <1>2, <2>2, ReceiversConstants DEF Batches
      <4>2. QED BY <1>1, <1>2, <2>2, <4>1, SMTT(60) DEF Way
    <3> HIDE DEF n
    <3>2. Laid(Append(queue, held[s]), s, Len(parsed[s]),
               n + (IF held[s].socket = s THEN held[s].filled ELSE 0))
      <4>1. /\ held[s] \in Batches /\ queue \in Seq(Batches) /\ Len(parsed[s]) \in Nat
            /\ held[s].socket = s => \A i \in 1..held[s].filled : held[s].packets[i] = n + i
        BY <1>2, <2>2, <3>1
      <4>2. QED BY <3>1, <4>1, LaidAppended, Zenon
    <3>3. Trail(s) = Append(queue, held[s]) /\ Append(queue, held[s]) \in Seq(Batches)
      BY <1>2, <2>2 DEF Trail
    <3>4. QED BY <1>2, <2>2, <3>1, <3>2, <3>3
  <2>3. QED BY <2>1, <2>2
<1>4. OnTheWay(s) = Mine(Trail(s), s) /\ \A at : Number(s, at) = Trail(s)[at[1]].packets[at[2]]
  BY DEF OnTheWay, Mine, Number
<1>5. /\ Len(parsed[s]) <= taken[s]
      /\ {Number(s, at) : at \in OnTheWay(s)} = (Len(parsed[s]) + 1)..taken[s]
      /\ \A at, to \in OnTheWay(s) : Before(at, to) => Number(s, at) < Number(s, to)
  <2>1. /\ Len(parsed[s]) <= taken[s]
        /\ {Trail(s)[at[1]].packets[at[2]] : at \in Mine(Trail(s), s)} = (Len(parsed[s]) + 1)..taken[s]
        /\ \A x, y \in Mine(Trail(s), s) :
             Before(x, y) => Trail(s)[x[1]].packets[x[2]] < Trail(s)[y[1]].packets[y[2]]
    BY <1>2, <1>3, LaidReads, Zenon
  <2>2. QED BY <1>4, <2>1, SMTT(60)
<1>6. ASSUME parser = "done" PROVE OnTheWay(s) = {}
  <2>1. queue = <<>> /\ rx[s] = "gone"
    BY <1>6 DEF PlaceInv
  <2>2. QED BY <2>1 DEF OnTheWay, Trail, Datagrams
<1>7. QED BY <1>1, <1>5, <1>6 DEF Way

LEMMA WayInit == Init => WayInv
<1> SUFFICES ASSUME Init, NEW s \in Sockets PROVE Way(s)
  BY DEF WayInv
<1>1. parsed[s] = <<>> /\ queue = <<>> /\ taken[s] = 0 /\ rx[s] = "top"
  BY DEF Init
<1>2. Laid(<<>>, s, 0, 0)
  BY LaidEmpty
<1>3. Len(parsed[s]) = 0 /\ parsed[s] = [i \in 1..Len(parsed[s]) |-> i]
  BY <1>1
<1>4. QED BY <1>1, <1>2, <1>3 DEF Way

\* What follows the numbers so far makes them go on.
LEMMA Numbered ==
  ASSUME NEW p \in Seq(Nat), p = [i \in 1..Len(p) |-> i], NEW r \in Seq(Nat),
         \A i \in 1..Len(r) : r[i] = Len(p) + i
  PROVE  /\ Len(p \o r) = Len(p) + Len(r)
         /\ p \o r = [i \in 1..Len(p \o r) |-> i]
<1> DEFINE m == Len(p)
           n == Len(r)
           both == p \o r
<1>1. /\ m \in Nat /\ n \in Nat /\ both \in Seq(Nat) /\ Len(both) = m + n
      /\ \A i \in 1..(m + n) : both[i] = IF i <= m THEN p[i] ELSE r[i - m]
      /\ \A i \in 1..m : p[i] = i
  OBVIOUS
<1>2. \A i \in 1..(m + n) : both[i] = i
  <2> SUFFICES ASSUME NEW i \in 1..(m + n) PROVE both[i] = i
    OBVIOUS
  <2>1. CASE i <= m
    BY <1>1, <2>1
  <2>2. CASE i > m
    <3>1. i - m \in 1..n
      BY <1>1, <2>2
    <3>2. r[i - m] = m + (i - m)
      BY <3>1
    <3>3. QED BY <1>1, <2>2, <3>2
  <2>3. QED BY <1>1, <2>1, <2>2
<1> HIDE DEF both, m, n
<1>3. both = [i \in 1..Len(both) |-> i]
  BY <1>1, <1>2
<1>4. QED BY <1>1, <1>3 DEF both, m, n

LEMMA WayStep == TypeInv /\ PlaceInv /\ WayInv /\ [Next]_vars => WayInv'
<1> SUFFICES ASSUME TypeInv, PlaceInv, WayInv, [Next]_vars, parser' # "dead", NEW s \in Sockets
             PROVE  Way(s)'
  BY DEF WayInv
<1>1. parser # "dead" /\ (Calm \/ Parse \/ \E t \in Sockets : Receive(t) \/ Send(t))
  BY Movements
<1>2. Way(s)
  BY <1>1 DEF WayInv
<1>3. /\ rx \in [Sockets -> {"top", "waiting", "reading", "sending", "gone"}]
      /\ held \in [Sockets -> Batches \cup {NoBatch}] /\ queue \in Seq(Batches)
      /\ kernel \in [Sockets -> Nat] /\ taken \in [Sockets -> Nat]
      /\ parsed \in [Sockets -> Seq(Nat)] /\ Len(parsed[s]) \in Nat
      /\ \A t \in Sockets : rx[t] \in {"reading", "sending"} => held[t] \in Batches /\ held[t].socket = t
  BY DEF TypeInv, PlaceInv
<1>4. \A b \in Batches : b.filled \in 0..RECV_BATCH /\ b.filled \in Nat
  BY ReceiversConstants DEF Batches
\* Where a step leaves what is the socket's as it is.
<1>5. ASSUME rx'[s] = "sending" <=> rx[s] = "sending", rx[s] = "sending" => held'[s] = held[s],
             parsed'[s] = parsed[s], taken'[s] = taken[s],
             \A n \in Nat : Laid(queue, s, Len(parsed[s]), n) => Laid(queue', s, Len(parsed[s]), n)
      PROVE  Way(s)'
  <2>1. rx[s] = "sending" => held[s].filled \in Nat
    BY <1>3, <1>4
  <2>2. rx[s] = "sending" => taken[s] - held[s].filled \in Nat
    BY <1>2, <1>3, <2>1 DEF Way
  <2>3. taken[s] \in Nat
    BY <1>3
  <2>4. QED BY <1>2, <1>5, <2>2, <2>3 DEF Way
<1>6. CASE Calm
  BY <1>5, <1>6 DEF Calm
<1>7. ASSUME NEW t \in Sockets, Receive(t) PROVE Way(s)'
  <2> DEFINE n == IF kernel[t] < RECV_BATCH THEN kernel[t] ELSE RECV_BATCH
             b == Filled(held[t], n, taken[t])
  <2>1. n \in 0..RECV_BATCH /\ n \in Nat
    BY <1>3, ReceiversConstants
  <2>2. /\ rx[t] = "reading" /\ rx' = [rx EXCEPT ![t] = "sending"] /\ held' = [held EXCEPT ![t] = b]
        /\ taken' = [taken EXCEPT ![t] = taken[t] + n] /\ queue' = queue /\ parsed' = parsed
    BY <1>7 DEF Receive, parserVars
  <2> HIDE DEF n
  <2>3. b.filled = n /\ \A i \in 1..n : b.packets[i] = taken[t] + i
    <3>1. held[t] \in Batches /\ taken[t] \in Nat
      BY <1>3, <2>2
    <3>2. QED BY <2>1, <3>1, FilledIsBatch, Zenon
  <2> HIDE DEF b
  <2>4. CASE s # t
    BY <1>3, <1>5, <2>2, <2>4
  <2>5. CASE s = t
    <3>1. rx'[s] = "sending" /\ held'[s] = b /\ taken'[s] = taken[s] + n /\ rx[s] # "sending"
      BY <1>3, <2>2, <2>5
    <3>2. taken[s] \in Nat /\ taken'[s] - held'[s].filled = taken[s] /\ held'[s].filled <= taken'[s]
      BY <1>3, <2>1, <2>3, <3>1
    <3>3. Laid(queue', s, Len(parsed'[s]), taken[s]) /\ parsed'[s] = [i \in 1..Len(parsed'[s]) |-> i]
      BY <1>2, <2>2, <3>1 DEF Way
    <3>4. \A i \in 1..held'[s].filled : held'[s].packets[i] = taken[s] + i
      BY <2>3, <2>5, <3>1
    <3>5. QED BY <3>1, <3>2, <3>3, <3>4 DEF Way
  <2>6. QED BY <2>4, <2>5
<1>8. ASSUME NEW t \in Sockets, Send(t) PROVE Way(s)'
  <2>1. /\ rx[t] = "sending" /\ rx' = [rx EXCEPT ![t] = "top"] /\ held' = [held EXCEPT ![t] = NoBatch]
        /\ queue' = Append(queue, held[t]) /\ taken' = taken /\ parsed' = parsed
    BY <1>8 DEF Send, socketVars, parserVars
  <2>2. held[t] \in Batches /\ held[t].socket = t /\ held[t].filled \in Nat
    BY <1>3, <1>4, <2>1
  <2>3. CASE s # t
    <3>1. ASSUME NEW n \in Nat, Laid(queue, s, Len(parsed[s]), n)
          PROVE  Laid(queue', s, Len(parsed[s]), n)
      <4>1. held[t].socket # s
        BY <2>2, <2>3
      <4>2. Laid(queue', s, Len(parsed[s]), n + (IF held[t].socket = s THEN held[t].filled ELSE 0))
        BY <1>3, <2>1, <2>2, <3>1, <4>1, LaidAppended
      <4>3. QED BY <4>1, <4>2
    <3>2. QED BY <1>3, <1>5, <2>1, <2>3, <3>1
  <2>4. CASE s = t
    <3> DEFINE n == taken[s] - held[s].filled
    <3>1. /\ n \in Nat /\ n + held[s].filled = taken[s] /\ Laid(queue, s, Len(parsed[s]), n)
          /\ \A i \in 1..held[s].filled : held[s].packets[i] = n + i
      BY <1>2, <1>3, <2>1, <2>2, <2>4 DEF Way
    <3> HIDE DEF n
    <3>2. Laid(Append(queue, held[s]), s, Len(parsed[s]),
               n + (IF held[s].socket = s THEN held[s].filled ELSE 0))
      <4>1. /\ held[s] \in Batches /\ queue \in Seq(Batches) /\ Len(parsed[s]) \in Nat
            /\ held[s].socket = s => \A i \in 1..held[s].filled : held[s].packets[i] = n + i
        BY <1>3, <2>2, <2>4, <3>1
      <4>2. QED BY <3>1, <4>1, LaidAppended, Zenon
    <3>3. Laid(queue', s, Len(parsed'[s]), taken'[s])
      BY <2>1, <2>2, <2>4, <3>1, <3>2
    <3>4. rx'[s] # "sending"
      BY <1>3, <2>1, <2>4
    <3>5. parsed'[s] = [i \in 1..Len(parsed'[s]) |-> i]
      BY <1>2, <2>1 DEF Way
    <3>6. QED BY <3>3, <3>4, <3>5 DEF Way
  <2>5. QED BY <2>3, <2>4
<1>9. CASE Parse
  <2> DEFINE b == Head(queue)
             c == b.socket
  <2>1. /\ queue # <<>> /\ queue' = Tail(queue) /\ UNCHANGED <<rx, held, taken>>
        /\ parsed' = [parsed EXCEPT ![c] = parsed[c] \o Received(b)]
    BY <1>9 DEF Parse, rxVars, socketVars
  <2>2. b \in Batches
    BY <1>3, <2>1
  <2>3. ASSUME NEW n \in Nat, Laid(queue, s, Len(parsed[s]), n)
        PROVE  /\ c # s => Laid(queue', s, Len(parsed[s]), n)
               /\ c = s => /\ Laid(queue', s, Len(parsed[s]) + b.filled, n)
                           /\ \A i \in 1..b.filled : b.packets[i] = Len(parsed[s]) + i
    BY <1>3, <2>1, <2>3, LaidTaken, ZenonT(60)
  <2>4. CASE c # s
    <3>1. parsed'[s] = parsed[s]
      BY <1>3, <2>1, <2>4
    <3>2. QED BY <1>5, <2>1, <2>3, <2>4, <3>1
  <2>5. CASE c = s
    <3>1. PICK n \in Nat : Laid(queue, s, Len(parsed[s]), n)
      <4>1. CASE rx[s] # "sending"
        BY <1>2, <1>3, <4>1 DEF Way
      <4>2. CASE rx[s] = "sending"
        <5>1. held[s].filled \in Nat /\ held[s].filled <= taken[s] /\ taken[s] \in Nat
          BY <1>2, <1>3, <1>4, <4>2 DEF Way
        <5>2. taken[s] - held[s].filled \in Nat
          BY <5>1
        <5>3. QED BY <1>2, <4>2, <5>2 DEF Way
      <4>3. QED BY <4>1, <4>2
    <3>2. \A i \in 1..b.filled : b.packets[i] = Len(parsed[s]) + i
      BY <2>3, <2>5, <3>1
    <3>3. /\ Received(b) \in Seq(Nat) /\ Len(Received(b)) = b.filled
          /\ \A i \in 1..b.filled : Received(b)[i] = b.packets[i]
      BY <2>2, ReceivedIs
    <3>4. /\ parsed'[s] = parsed[s] \o Received(b) /\ parsed[s] \in Seq(Nat)
          /\ parsed[s] = [i \in 1..Len(parsed[s]) |-> i]
      BY <1>2, <1>3, <2>1, <2>5 DEF Way
    <3>5. /\ Len(parsed'[s]) = Len(parsed[s]) + b.filled
          /\ parsed'[s] = [i \in 1..Len(parsed'[s]) |-> i]
      <4>1. \A i \in 1..Len(Received(b)) : Received(b)[i] = Len(parsed[s]) + i
        BY <3>2, <3>3
      <4> HIDE DEF b, c
      <4>2. /\ Len(parsed[s] \o Received(b)) = Len(parsed[s]) + Len(Received(b))
            /\ parsed[s] \o Received(b) = [i \in 1..Len(parsed[s] \o Received(b)) |-> i]
        BY <3>3, <3>4, <4>1, Numbered
      <4>3. QED BY <3>3, <3>4, <4>2
    <3>6. \A n2 \in Nat : Laid(queue, s, Len(parsed[s]), n2) => Laid(queue', s, Len(parsed'[s]), n2)
      BY <2>3, <2>5, <3>5
    <3>7. rx[s] # "sending" => Laid(queue', s, Len(parsed'[s]), taken'[s])
      <4>1. taken[s] \in Nat
        BY <1>3
      <4>2. QED BY <1>2, <2>1, <3>6, <4>1 DEF Way
    <3>8. rx[s] = "sending" => Laid(queue', s, Len(parsed'[s]), taken'[s] - held'[s].filled)
      <4>1. SUFFICES ASSUME rx[s] = "sending" PROVE Laid(queue', s, Len(parsed'[s]), taken[s] - held[s].filled)
        BY <2>1
      <4>2. held[s].filled \in Nat /\ held[s].filled <= taken[s] /\ taken[s] \in Nat
        BY <1>2, <1>3, <1>4, <4>1 DEF Way
      <4>3. taken[s] - held[s].filled \in Nat
        BY <4>2
      <4>4. QED BY <1>2, <3>6, <4>1, <4>3 DEF Way
    <3>9. QED BY <1>2, <2>1, <3>5, <3>7, <3>8 DEF Way
  <2>6. QED BY <2>4, <2>5
<1>10. QED BY <1>1, <1>6, <1>7, <1>8, <1>9

----------------------------------------------------------------------------
(* What the specification promises.                                         *)

ReceiversInv == TypeInv /\ PlaceInv /\ BuffersKept /\ DepthExact /\ WayInv

LEMMA ReceiversInvariant == Spec => []ReceiversInv
<1>1. Init => ReceiversInv
  BY ReceiversInit, KeptInit, DepthInit, WayInit DEF ReceiversInv
<1>2. ReceiversInv /\ [Next]_vars => ReceiversInv'
  BY ReceiversStep, KeptStep, DepthStep, WayStep DEF ReceiversInv
<1>3. QED BY <1>1, <1>2, PTL DEF Spec

\* A receiver owns all its buffers, wherever they are, and no other's: neither
\* its loop nor the parser's way of handing them home (receiver.rs) loses one.
THEOREM BuffersAreKept == Spec => []BuffersKept
BY ReceiversInvariant, PTL DEF ReceiversInv

\* The gauge of the queue's depth, added to by the receivers and taken from,
\* saturating, by the parser, is the datagrams read and not parsed.
THEOREM DepthIsExact == Spec => []DepthExact
BY ReceiversInvariant, PTL DEF ReceiversInv

\* Each socket's datagrams are parsed once each, in the order they were read,
\* and those not parsed yet are on their way in that order, none missing.
THEOREM NothingIsSkipped == Spec => []NothingSkipped
<1>1. ReceiversInv => NothingSkipped
  BY WayIsOrdered DEF ReceiversInv
<1>2. QED BY <1>1, ReceiversInvariant, PTL
=============================================================================
