---------------------------- MODULE Ordered_proofs ----------------------------
(***************************************************************************)
(* What folds over finite sets and sequences compute: largest members,     *)
(* sums, the members in order, sequences laid end to end and slices of     *)
(* them.  No induction theorem can be applied to a fold here, so each is   *)
(* shown on a smallest set it would fail for.                              *)
(***************************************************************************)
EXTENDS Ordered, SequencesExt, FiniteSetTheorems, WellFoundedInduction, TLAPS

----------------------------------------------------------------------------
(* That Max and Min of FiniteSetsExt have something to choose.            *)

\* A non-empty set of integers between -1 and n has a largest member, and Max
\* is it.
LEMMA MaxExists ==
  ASSUME NEW n \in Nat, NEW S, S \subseteq -1..n, S # {}
  PROVE  Max(S) \in S /\ \A x \in S : Max(S) >= x
<1> DEFINE T == {u \in Nat : \A x \in S : x < u}
<1>1. n + 1 \in T
  OBVIOUS
<1>2. PICK u \in T : \A y \in T : ~(<<y, u>> \in OpToRel(<, Nat))
  <2>1. T \subseteq Nat /\ T # {}
    BY <1>1
  <2> HIDE DEF T
  <2>2. QED BY <2>1, WFMin, NatLessThanWellFounded, Zenon
<1>3. \A y \in T : ~(y < u)
  BY <1>2 DEF OpToRel
<1>4. u - 1 \in S
  <2>1. SUFFICES ASSUME u - 1 \notin S PROVE FALSE
    OBVIOUS
  <2>2. \A x \in S : x < u - 1
    BY <2>1
  <2>3. u - 1 \in Nat
    <3>1. PICK x \in S : TRUE
      OBVIOUS
    <3>2. QED BY <2>2, <3>1
  <2>4. u - 1 \in T
    BY <2>2, <2>3
  <2>5. QED BY <2>4, <1>3
<1>5. \A x \in S : u - 1 >= x
  OBVIOUS
<1>6. QED BY <1>4, <1>5 DEF Max

\* The smaller of two integers is one of them and no larger than the other.
LEMMA MinOfTwo ==
  ASSUME NEW a \in Int, NEW b \in Int
  PROVE  Min({a, b}) \in {a, b} /\ Min({a, b}) <= a /\ Min({a, b}) <= b
<1>1. \E x \in {a, b} : \A y \in {a, b} : x <= y
  <2>1. CASE a <= b BY <2>1
  <2>2. CASE b < a BY <2>2
  <2>3. QED BY <2>1, <2>2
<1>2. QED BY <1>1 DEF Min

LEMMA MaxOfTwo ==
  ASSUME NEW a \in Int, NEW b \in Int
  PROVE  Max({a, b}) \in {a, b} /\ Max({a, b}) >= a /\ Max({a, b}) >= b
<1>1. \E x \in {a, b} : \A y \in {a, b} : x >= y
  <2>1. CASE a >= b BY <2>1
  <2>2. CASE b > a BY <2>2
  <2>3. QED BY <2>1, <2>2
<1>2. QED BY <1>1 DEF Max

----------------------------------------------------------------------------
(* Sums over finite sets: what the fold of MapThenSumSet computes.          *)

PickOf(S) == CHOOSE x \in S : TRUE

\* g is the fold of f over each subset of S, the element to go first chosen
\* as MapThenSumSet does.
Sums(g, S, f) ==
  g = [T \in SUBSET S |-> IF T = {} THEN 0 ELSE f[PickOf(T)] + g[T \ {PickOf(T)}]]

LEMMA LeastNat ==
  ASSUME NEW S, S \subseteq Nat, S # {}
  PROVE  \E n \in S : \A k \in S : n <= k
<1>1. PICK n \in S : \A k \in S : ~(<<k, n>> \in OpToRel(<, Nat))
  BY WFMin, NatLessThanWellFounded, Zenon
<1>2. \A k \in S : ~(k < n)
  BY <1>1 DEF OpToRel
<1>3. QED BY <1>2

LEMMA PickIsIn == ASSUME NEW S, S # {} PROVE PickOf(S) \in S
BY DEF PickOf

\* One element less is one less in the count.
LEMMA OneLess ==
  ASSUME NEW T, IsFiniteSet(T), NEW x \in T
  PROVE  /\ IsFiniteSet(T \ {x}) /\ Cardinality(T \ {x}) \in Nat
         /\ Cardinality(T) \in Nat /\ Cardinality(T \ {x}) = Cardinality(T) - 1
<1>1. Cardinality(T) \in Nat
  BY FS_CardinalityType
<1>2. IsFiniteSet(T \ {x}) /\ Cardinality(T \ {x}) = Cardinality(T) - 1
  BY FS_RemoveElement
<1>3. Cardinality(T \ {x}) \in Nat
  BY <1>2, FS_CardinalityType
<1>4. QED BY <1>1, <1>2, <1>3

\* The subsets of a finite set on which something fails have a smallest among
\* them.
LEMMA Smallest ==
  ASSUME NEW S, IsFiniteSet(S), NEW Bad, Bad \subseteq SUBSET S, Bad # {}
  PROVE  \E T \in Bad : \A U \in Bad : Cardinality(T) <= Cardinality(U)
<1>1. \A T \in Bad : IsFiniteSet(T) /\ Cardinality(T) \in Nat
  BY FS_Subset, FS_CardinalityType
<1> DEFINE sizes == {Cardinality(T) : T \in Bad}
<1>2. sizes \subseteq Nat /\ sizes # {}
  BY <1>1
<1>3. PICK n \in sizes : \A k \in sizes : n <= k
  <2> HIDE DEF sizes
  <2>1. QED BY <1>2, LeastNat, Zenon
<1>4. PICK T \in Bad : n = Cardinality(T)
  BY <1>3
<1>5. QED BY <1>3, <1>4

LEMMA SumsExist ==
  ASSUME NEW S, IsFiniteSet(S), NEW f \in [S -> Int]
  PROVE  \E g : Sums(g, S, f)
<1> DEFINE Upto(n) == {T \in SUBSET S : Cardinality(T) <= n}
           Good(g, n) == g = [T \in Upto(n) |->
                                IF T = {} THEN 0 ELSE f[PickOf(T)] + g[T \ {PickOf(T)}]]
           Bad == {n \in Nat : ~\E g : Good(g, n)}
<1>1. \A T \in SUBSET S : IsFiniteSet(T) /\ Cardinality(T) \in Nat
  BY FS_Subset, FS_CardinalityType
<1>2. \A T \in SUBSET S : T # {} => /\ PickOf(T) \in T /\ T \ {PickOf(T)} \in SUBSET S
                                    /\ Cardinality(T \ {PickOf(T)}) = Cardinality(T) - 1
  <2> SUFFICES ASSUME NEW T \in SUBSET S, T # {}
               PROVE  /\ PickOf(T) \in T /\ T \ {PickOf(T)} \in SUBSET S
                      /\ Cardinality(T \ {PickOf(T)}) = Cardinality(T) - 1
    OBVIOUS
  <2>1. PickOf(T) \in T
    BY PickIsIn
  <2>2. QED BY <1>1, <2>1, OneLess
<1>3. Bad = {}
  <2> SUFFICES ASSUME Bad # {} PROVE FALSE
    OBVIOUS
  <2>1. Bad \subseteq Nat
    OBVIOUS
  <2> HIDE DEF Bad
  <2>2. PICK n \in Bad : \A k \in Bad : n <= k
    BY <2>1, LeastNat, Zenon
  <2>3. n \in Nat
    BY <2>1, <2>2
  <2>4. CASE n = 0
    <3> DEFINE g == [T \in Upto(0) |-> 0]
    <3>1. \A T \in Upto(0) : T = {}
      BY <1>1, FS_EmptySet
    <3>2. Good(g, 0)
      BY <3>1
    <3>3. QED BY <2>2, <2>4, <3>2 DEF Bad
  <2>5. CASE n # 0
    <3>1. n - 1 \in Nat /\ n - 1 \notin Bad
      BY <2>2, <2>3, <2>5
    <3>2. PICK h : Good(h, n - 1)
      BY <3>1 DEF Bad
    <3> DEFINE g == [T \in Upto(n) |->
                       IF T = {} THEN 0 ELSE f[PickOf(T)] + h[T \ {PickOf(T)}]]
    <3>3. \A T \in Upto(n - 1) : T \in Upto(n) /\ g[T] = h[T]
      <4> SUFFICES ASSUME NEW T \in Upto(n - 1) PROVE T \in Upto(n) /\ g[T] = h[T]
        OBVIOUS
      <4>1. T \in Upto(n)
        BY <1>1, <2>3
      <4>2. h[T] = IF T = {} THEN 0 ELSE f[PickOf(T)] + h[T \ {PickOf(T)}]
        <5> HIDE DEF Upto
        <5>1. QED BY <3>2
      <4>3. g[T] = IF T = {} THEN 0 ELSE f[PickOf(T)] + h[T \ {PickOf(T)}]
        <5> HIDE DEF Upto
        <5>1. QED BY <4>1
      <4>4. QED BY <4>1, <4>2, <4>3
    <3>4. \A T \in Upto(n) : T # {} => T \ {PickOf(T)} \in Upto(n - 1)
      BY <1>1, <1>2, <2>3, <3>1
    <3>5. Good(g, n)
      <4> HIDE DEF Upto
      <4>1. QED BY <3>3, <3>4
    <3> HIDE DEF g
    <3>6. QED BY <2>2, <3>5 DEF Bad
  <2>6. QED BY <2>4, <2>5
<1>4. Cardinality(S) \in Nat
  BY <1>1
<1>5. PICK g : Good(g, Cardinality(S))
  BY <1>3, <1>4
<1>6. Upto(Cardinality(S)) = SUBSET S
  <2>1. \A T \in SUBSET S : Cardinality(T) <= Cardinality(S)
    BY FS_Subset
  <2>2. QED BY <2>1
<1>7. Sums(g, S, f)
  BY <1>5, <1>6 DEF Sums
<1>8. QED BY <1>7

\* Whatever goes first, an element counts once.
LEMMA SumsTake ==
  ASSUME NEW S, IsFiniteSet(S), NEW f \in [S -> Int], NEW g, Sums(g, S, f)
  PROVE  /\ g[{}] = 0
         /\ \A T \in SUBSET S : g[T] \in Int
         /\ \A T \in SUBSET S : \A x \in T : g[T] = f[x] + g[T \ {x}]
<1>1. g[{}] = 0
  BY DEF Sums
<1>2. \A T \in SUBSET S : T # {} =>
        /\ PickOf(T) \in T /\ T \ {PickOf(T)} \in SUBSET S
        /\ Cardinality(T \ {PickOf(T)}) < Cardinality(T)
        /\ g[T] = f[PickOf(T)] + g[T \ {PickOf(T)}]
  <2> SUFFICES ASSUME NEW T \in SUBSET S, T # {}
               PROVE  /\ PickOf(T) \in T /\ T \ {PickOf(T)} \in SUBSET S
                      /\ Cardinality(T \ {PickOf(T)}) < Cardinality(T)
                      /\ g[T] = f[PickOf(T)] + g[T \ {PickOf(T)}]
    OBVIOUS
  <2>1. PickOf(T) \in T /\ IsFiniteSet(T)
    BY PickIsIn, FS_Subset
  <2>2. g[T] = f[PickOf(T)] + g[T \ {PickOf(T)}]
    BY DEF Sums
  <2>3. QED BY <2>1, <2>2, OneLess
<1>3. \A T \in SUBSET S : g[T] \in Int
  <2> DEFINE Bad == {T \in SUBSET S : g[T] \notin Int}
  <2> SUFFICES ASSUME Bad # {} PROVE FALSE
    OBVIOUS
  <2>1. PICK T \in Bad : \A U \in Bad : Cardinality(T) <= Cardinality(U)
    BY Smallest
  <2>2. T \in SUBSET S /\ g[T] \notin Int
    BY <2>1
  <2>3. T # {}
    BY <1>1, <2>2
  <2> DEFINE rest == T \ {PickOf(T)}
  <2>4. PickOf(T) \in T /\ rest \in SUBSET S /\ Cardinality(rest) < Cardinality(T)
        /\ g[T] = f[PickOf(T)] + g[rest]
    BY <1>2, <2>3, <2>2
  <2>5. Cardinality(rest) \in Nat /\ Cardinality(T) \in Nat
    BY <2>2, <2>4, FS_Subset, FS_CardinalityType
  <2>6. rest \notin Bad
    BY <2>1, <2>4, <2>5
  <2>7. g[rest] \in Int /\ f[PickOf(T)] \in Int
    BY <2>2, <2>4, <2>6
  <2> HIDE DEF rest
  <2>8. QED BY <2>2, <2>4, <2>7
<1>4. \A T \in SUBSET S : \A x \in T : g[T] = f[x] + g[T \ {x}]
  <2> DEFINE Bad == {T \in SUBSET S : \E x \in T : g[T] # f[x] + g[T \ {x}]}
  <2> SUFFICES ASSUME Bad # {} PROVE FALSE
    OBVIOUS
  <2>1. PICK T \in Bad : \A U \in Bad : Cardinality(T) <= Cardinality(U)
    BY Smallest
  <2>2. PICK x \in T : g[T] # f[x] + g[T \ {x}]
    BY <2>1
  <2>3. T \in SUBSET S /\ T # {} /\ IsFiniteSet(T)
    BY <2>1, <2>2, FS_Subset
  <2> DEFINE y == PickOf(T)
             both == (T \ {x}) \ {y}
  <2>4. y \in T /\ g[T] = f[y] + g[T \ {y}]
    BY <1>2, <2>3
  <2> HIDE DEF y
  <2>5. x # y
    BY <2>2, <2>4
  <2>6. /\ T \ {x} \in SUBSET S /\ T \ {x} \notin Bad
        /\ T \ {y} \in SUBSET S /\ T \ {y} \notin Bad
    <3>1. /\ Cardinality(T \ {x}) \in Nat /\ Cardinality(T \ {y}) \in Nat /\ Cardinality(T) \in Nat
          /\ Cardinality(T \ {x}) = Cardinality(T) - 1 /\ Cardinality(T \ {y}) = Cardinality(T) - 1
      BY <2>2, <2>3, <2>4, OneLess
    <3>2. T \ {x} \in SUBSET S /\ T \ {y} \in SUBSET S
      BY <2>3
    <3>3. \A U \in Bad : ~(Cardinality(U) < Cardinality(T))
      <4> HIDE DEF Bad
      <4>1. \A U \in Bad : Cardinality(U) \in Nat
        BY FS_Subset, FS_CardinalityType DEF Bad
      <4>2. QED BY <2>1, <3>1, <4>1
    <3> HIDE DEF Bad
    <3>4. QED BY <3>1, <3>2, <3>3
  <2>7. g[T \ {x}] = f[y] + g[both]
    BY <2>4, <2>5, <2>6
  <2>8. g[T \ {y}] = f[x] + g[both]
    <3>1. g[T \ {y}] = f[x] + g[(T \ {y}) \ {x}]
      BY <2>2, <2>5, <2>6
    <3>2. (T \ {y}) \ {x} = both
      OBVIOUS
    <3>3. QED BY <3>1, <3>2
  <2>9. f[x] \in Int /\ f[y] \in Int /\ g[both] \in Int
    BY <1>3, <2>2, <2>3, <2>4
  <2> HIDE DEF both, Bad
  <2>10. g[T] = f[y] + (f[x] + g[both]) /\ g[T \ {x}] = f[y] + g[both]
    BY <2>4, <2>7, <2>8
  <2>11. f[y] + (f[x] + g[both]) = f[x] + (f[y] + g[both])
    BY <2>9
  <2>12. QED BY <2>2, <2>10, <2>11
<1>5. QED BY <1>1, <1>3, <1>4

\* Functions that agree on a set sum to the same over it.
LEMMA SumsAgree ==
  ASSUME NEW S, IsFiniteSet(S), NEW f \in [S -> Int], NEW g, Sums(g, S, f),
         NEW R, IsFiniteSet(R), NEW e \in [R -> Int], NEW h, Sums(h, R, e),
         NEW U, U \subseteq S, U \subseteq R, \A x \in U : f[x] = e[x]
  PROVE  g[U] = h[U]
<1> DEFINE Bad == {T \in SUBSET U : g[T] # h[T]}
<1> SUFFICES ASSUME Bad # {} PROVE FALSE
  OBVIOUS
<1>1. IsFiniteSet(U)
  BY FS_Subset
<1>2. PICK T \in Bad : \A V \in Bad : Cardinality(T) <= Cardinality(V)
  BY <1>1, Smallest
<1>3. T \in SUBSET U /\ g[T] # h[T] /\ T \in SUBSET S /\ T \in SUBSET R /\ IsFiniteSet(T)
  BY <1>1, <1>2, FS_Subset
<1>4. T # {}
  BY <1>3, SumsTake
<1>5. PICK x \in T : TRUE
  BY <1>4
<1>6. g[T] = f[x] + g[T \ {x}] /\ h[T] = e[x] + h[T \ {x}] /\ f[x] = e[x]
  BY <1>3, <1>5, SumsTake
<1>7. T \ {x} \notin Bad
  <2>1. /\ Cardinality(T \ {x}) \in Nat /\ Cardinality(T) \in Nat
        /\ Cardinality(T \ {x}) = Cardinality(T) - 1
    BY <1>3, <1>5, OneLess
  <2>2. QED BY <1>2, <2>1
<1>8. QED BY <1>3, <1>6, <1>7

\* Nothing taken away adds to a sum of what is not negative.
LEMMA SumsGrow ==
  ASSUME NEW S, IsFiniteSet(S), NEW f \in [S -> Nat], NEW g, Sums(g, S, f),
         NEW U \in SUBSET S, NEW T \in SUBSET U
  PROVE  g[T] <= g[U] /\ g[T] \in Nat
<1>1. f \in [S -> Int] /\ IsFiniteSet(U)
  BY FS_Subset
<1> DEFINE Bad == {V \in SUBSET S : \E W \in SUBSET V : ~(g[W] <= g[V])}
<1>2. Bad = {}
  <2> SUFFICES ASSUME Bad # {} PROVE FALSE
    OBVIOUS
  <2>1. PICK V \in Bad : \A X \in Bad : Cardinality(V) <= Cardinality(X)
    BY Smallest
  <2>2. PICK W \in SUBSET V : ~(g[W] <= g[V])
    BY <2>1
  <2>3. V \in SUBSET S /\ W \in SUBSET S /\ IsFiniteSet(V) /\ g[V] \in Int /\ g[W] \in Int
    BY <1>1, <2>1, <2>2, FS_Subset, SumsTake
  <2>4. PICK x \in V : x \notin W
    BY <2>2, <2>3
  <2>5. g[V] = f[x] + g[V \ {x}] /\ f[x] \in Nat /\ V \ {x} \in SUBSET S /\ g[V \ {x}] \in Int
    BY <1>1, <2>3, <2>4, SumsTake
  <2>6. V \ {x} \notin Bad
    <3>1. /\ Cardinality(V \ {x}) \in Nat /\ Cardinality(V) \in Nat
          /\ Cardinality(V \ {x}) = Cardinality(V) - 1
      BY <2>3, <2>4, OneLess
    <3>2. QED BY <2>1, <3>1
  <2>7. g[W] <= g[V \ {x}]
    BY <2>2, <2>4, <2>5, <2>6
  <2>8. QED BY <2>2, <2>3, <2>5, <2>7
<1>3. g[T] <= g[U] /\ g[{}] <= g[T]
  BY <1>2
<1>4. g[{}] = 0 /\ g[T] \in Int
  BY <1>1, SumsTake
<1>5. QED BY <1>3, <1>4

\* SumOf of Ordered in those terms.
LEMMA SumIs ==
  ASSUME NEW S, IsFiniteSet(S), NEW f \in [S -> Int], NEW g, Sums(g, S, f)
  PROVE  SumOf(f) = g[S]
<1> DEFINE h == CHOOSE h : Sums(h, S, f)
<1>1. SumOf(f) = h[S]
  BY DEF SumOf, Sums, MapThenSumSet, MapThenFoldSet, PickOf
<1>2. Sums(h, S, f)
  BY SumsExist
<1> HIDE DEF h
<1>3. h[S] = g[S]
  BY <1>2, SumsAgree
<1>4. QED BY <1>1, <1>3

\* A sum over part of a set.
LEMMA SumOfPart ==
  ASSUME NEW S, IsFiniteSet(S), NEW f \in [S -> Int], NEW g, Sums(g, S, f), NEW T \in SUBSET S
  PROVE  /\ [x \in T |-> f[x]] \in [T -> Int] /\ IsFiniteSet(T)
         /\ SumOf([x \in T |-> f[x]]) = g[T] /\ g[T] \in Int
<1> DEFINE e == [x \in T |-> f[x]]
<1>1. e \in [T -> Int] /\ IsFiniteSet(T) /\ \A x \in T : f[x] = e[x]
  BY FS_Subset
<1> HIDE DEF e
<1>2. PICK h : Sums(h, T, e)
  BY <1>1, SumsExist
<1>3. SumOf(e) = h[T]
  BY <1>1, <1>2, SumIs
<1>4. g[T] = h[T]
  BY <1>1, <1>2, SumsAgree
<1>5. g[T] \in Int
  BY SumsTake
<1>6. QED BY <1>1, <1>3, <1>4, <1>5 DEF e

LEMMA SumNone == ASSUME NEW f, f = [x \in {} |-> f[x]] PROVE SumOf(f) = 0
<1>1. f \in [{} -> Int] /\ IsFiniteSet({})
  BY FS_EmptySet
<1>2. PICK g : Sums(g, {}, f)
  BY <1>1, SumsExist
<1>3. SumOf(f) = g[{}]
  BY <1>1, <1>2, SumIs
<1>4. g[{}] = 0
  BY <1>1, <1>2, SumsTake
<1>5. QED BY <1>3, <1>4

\* A sum is one of its terms and the sum of the others.
LEMMA SumTake ==
  ASSUME NEW S, IsFiniteSet(S), NEW f \in [S -> Int], NEW x \in S
  PROVE  /\ SumOf(f) \in Int /\ SumOf([y \in S \ {x} |-> f[y]]) \in Int
         /\ SumOf(f) = f[x] + SumOf([y \in S \ {x} |-> f[y]])
<1>1. PICK g : Sums(g, S, f)
  BY SumsExist
<1>2. SumOf(f) = g[S] /\ g[S] \in Int /\ g[S] = f[x] + g[S \ {x}]
  <2>1. SumOf(f) = g[S]
    BY <1>1, SumIs
  <2>2. S \in SUBSET S
    OBVIOUS
  <2>3. /\ \A T \in SUBSET S : g[T] \in Int
        /\ \A T \in SUBSET S : \A y \in T : g[T] = f[y] + g[T \ {y}]
    BY <1>1, SumsTake
  <2>4. QED BY <2>1, <2>2, <2>3
<1>3. S \ {x} \in SUBSET S
  OBVIOUS
<1>4. SumOf([y \in S \ {x} |-> f[y]]) = g[S \ {x}] /\ g[S \ {x}] \in Int
  BY <1>1, <1>3, SumOfPart
<1>5. QED BY <1>2, <1>4

LEMMA SumNat ==
  ASSUME NEW S, IsFiniteSet(S), NEW f \in [S -> Nat]
  PROVE  SumOf(f) \in Nat
<1>1. f \in [S -> Int]
  OBVIOUS
<1>2. PICK g : Sums(g, S, f)
  BY <1>1, SumsExist
<1>3. S \in SUBSET S
  OBVIOUS
<1>4. g[S] \in Nat
  BY <1>2, <1>3, SumsGrow
<1>5. QED BY <1>1, <1>2, <1>4, SumIs

\* What is apart is added up apart.
LEMMA SumSplit ==
  ASSUME NEW S, IsFiniteSet(S), NEW f \in [S -> Int], NEW A \in SUBSET S
  PROVE  /\ SumOf([x \in A |-> f[x]]) \in Int /\ SumOf([x \in S \ A |-> f[x]]) \in Int
         /\ SumOf(f) = SumOf([x \in A |-> f[x]]) + SumOf([x \in S \ A |-> f[x]])
<1> DEFINE B == S \ A
<1>1. IsFiniteSet(A) /\ IsFiniteSet(B) /\ A \cap B = {} /\ S = A \cup B
  BY FS_Subset
<1> HIDE DEF B
<1>2. PICK g : Sums(g, S, f)
  BY <1>1, SumsExist
<1>3. g[{}] = 0 /\ (\A T \in SUBSET S : g[T] \in Int)
      /\ \A T \in SUBSET S : \A x \in T : g[T] = f[x] + g[T \ {x}]
  <2>1. g[{}] = 0
    BY <1>2, SumsTake, Zenon
  <2>2. \A T \in SUBSET S : g[T] \in Int
    BY <1>2, SumsTake, Zenon
  <2>3. \A T \in SUBSET S : \A x \in T : g[T] = f[x] + g[T \ {x}]
    <3>1. ASSUME NEW T \in SUBSET S, NEW x \in T PROVE g[T] = f[x] + g[T \ {x}]
      BY <1>2, SumsTake
    <3>2. QED BY <3>1
  <2>4. QED BY <2>1, <2>2, <2>3
<1> DEFINE Bad == {T \in SUBSET B : g[A \cup T] # g[A] + g[T]}
<1>4. Bad = {}
  <2> SUFFICES ASSUME Bad # {} PROVE FALSE
    OBVIOUS
  <2>1. Bad \subseteq SUBSET B
    OBVIOUS
  <2>2. \E T \in Bad : \A U \in Bad : Cardinality(T) <= Cardinality(U)
    <3> HIDE DEF Bad
    <3>1. QED BY <1>1, <2>1, Smallest
  <2>3. PICK T \in Bad : \A U \in Bad : Cardinality(T) <= Cardinality(U)
    BY <2>2
  <2>4. T \in SUBSET B /\ g[A \cup T] # g[A] + g[T] /\ IsFiniteSet(T) /\ g[A] \in Int
    BY <1>1, <1>3, FS_Subset
  <2>5. T # {}
    <3>1. SUFFICES ASSUME T = {} PROVE FALSE
      OBVIOUS
    <3>2. A \cup T = A
      BY <3>1
    <3>3. g[T] = 0
      BY <1>3, <3>1
    <3>4. g[A \cup T] = g[A]
      BY <3>2, Zenon
    <3>5. g[A] \in Int /\ g[A \cup T] # g[A] + g[T]
      BY <2>4
    <3> HIDE DEF Bad
    <3>6. QED BY <3>3, <3>4, <3>5
  <2>6. PICK x \in T : TRUE
    BY <2>5
  <2> DEFINE R == T \ {x}
  <2>7. R \in SUBSET B /\ R \notin Bad
    <3>1. /\ Cardinality(R) \in Nat /\ Cardinality(T) \in Nat
          /\ Cardinality(R) = Cardinality(T) - 1
      BY <2>4, <2>6, OneLess
    <3> HIDE DEF Bad, R
    <3>2. R \notin Bad
      BY <2>3, <3>1
    <3>3. QED BY <2>4, <3>2 DEF R
  <2>8. g[A \cup R] = g[A] + g[R]
    BY <2>7
  <2>9. (A \cup T) \ {x} = A \cup R /\ x \in A \cup T
        /\ A \cup T \in SUBSET S /\ T \in SUBSET S /\ A \cup R \in SUBSET S /\ R \in SUBSET S
    BY <1>1, <2>4, <2>6
  <2> HIDE DEF R
  <2>10. g[A \cup T] = f[x] + g[A \cup R]
    BY <1>3, <2>9
  <2>11. g[T] = f[x] + g[R]
    BY <1>3, <2>6, <2>9 DEF R
  <2>12. f[x] \in Int /\ g[R] \in Int
    BY <1>3, <2>6, <2>9
  <2>13. QED BY <2>4, <2>8, <2>10, <2>11, <2>12
<1>5. g[A \cup B] = g[A] + g[B]
  BY <1>4
<1>6. /\ SumOf([x \in A |-> f[x]]) = g[A] /\ SumOf([x \in B |-> f[x]]) = g[B]
      /\ g[A] \in Int /\ g[B] \in Int
  BY <1>1, <1>2, SumOfPart
<1>7. SumOf(f) = g[S]
  BY <1>1, <1>2, SumIs
<1>8. QED BY <1>1, <1>5, <1>6, <1>7 DEF B

\* A sum does not depend on what its terms are called.
Renames(p, R, S) ==
  /\ p \in [R -> S] /\ \A x, y \in R : p[x] = p[y] => x = y
  /\ \A z \in S : \E x \in R : p[x] = z

LEMMA SumMoved ==
  ASSUME NEW R, IsFiniteSet(R), NEW S, NEW p, Renames(p, R, S), NEW f \in [S -> Int]
  PROVE  SumOf(f) = SumOf([x \in R |-> f[p[x]]]) /\ IsFiniteSet(S)
<1> DEFINE Im(T) == {p[x] : x \in T}
           e == [x \in R |-> f[p[x]]]
<1>1. /\ p \in [R -> S] /\ \A x, y \in R : p[x] = p[y] => x = y
      /\ \A z \in S : \E x \in R : p[x] = z
  BY DEF Renames
<1>2. Im(R) = S /\ IsFiniteSet(S)
  <2>1. Im(R) = S
    BY <1>1
  <2>2. IsFiniteSet({p[x] : x \in R})
    BY <1>1, <2>1, FS_Surjection DEF Surjection
  <2>3. QED BY <2>1, <2>2
<1>3. e \in [R -> Int] /\ \A x \in R : e[x] = f[p[x]]
  BY <1>1
<1> HIDE DEF e
<1>4. PICK g : Sums(g, S, f)
  BY <1>2, SumsExist
<1>5. PICK h : Sums(h, R, e)
  BY <1>3, SumsExist
<1>6. /\ g[{}] = 0 /\ h[{}] = 0
      /\ \A T \in SUBSET S : \A x \in T : g[T] = f[x] + g[T \ {x}]
      /\ \A T \in SUBSET R : \A x \in T : h[T] = e[x] + h[T \ {x}]
  <2>1. g[{}] = 0 /\ \A T \in SUBSET S : \A x \in T : g[T] = f[x] + g[T \ {x}]
    <3>1. IsFiniteSet(S) /\ Sums(g, S, f)
      BY <1>2, <1>4
    <3>2. QED BY <3>1, SumsTake
  <2>2. h[{}] = 0 /\ \A T \in SUBSET R : \A x \in T : h[T] = e[x] + h[T \ {x}]
    BY <1>3, <1>5, SumsTake
  <2>3. QED BY <2>1, <2>2
<1> DEFINE Bad == {T \in SUBSET R : g[Im(T)] # h[T]}
<1>7. Bad = {}
  <2> SUFFICES ASSUME Bad # {} PROVE FALSE
    OBVIOUS
  <2>1. Bad \subseteq SUBSET R
    OBVIOUS
  <2>2. \E T \in Bad : \A U \in Bad : Cardinality(T) <= Cardinality(U)
    <3> HIDE DEF Bad
    <3>1. QED BY <2>1, Smallest
  <2>3. PICK T \in Bad : \A U \in Bad : Cardinality(T) <= Cardinality(U)
    BY <2>2
  <2>4. T \in SUBSET R /\ g[Im(T)] # h[T] /\ IsFiniteSet(T)
    BY FS_Subset
  <2>5. T # {}
    <3>1. Im({}) = {}
      OBVIOUS
    <3>2. QED BY <1>6, <2>4, <3>1
  <2>6. PICK x \in T : TRUE
    BY <2>5
  <2> DEFINE U == T \ {x}
  <2>7. U \in SUBSET R /\ U \notin Bad
    <3>1. /\ Cardinality(U) \in Nat /\ Cardinality(T) \in Nat
          /\ Cardinality(U) = Cardinality(T) - 1
      BY <2>4, <2>6, OneLess
    <3> HIDE DEF Bad, U
    <3>2. U \notin Bad
      BY <2>3, <3>1
    <3>3. QED BY <2>4, <3>2 DEF U
  <2>8. g[Im(U)] = h[U]
    BY <2>7
  <2>9. Im(T) \ {p[x]} = Im(U) /\ p[x] \in Im(T) /\ Im(T) \in SUBSET S
    BY <1>1, <2>4, <2>6
  <2> HIDE DEF Im
  <2> DEFINE V == Im(T)
             y == p[x]
  <2>10. g[V] = f[y] + g[V \ {y}]
    <3>1. V \in SUBSET S /\ y \in V
      BY <2>9
    <3> HIDE DEF V, y
    <3>2. QED BY <1>6, <3>1
  <2>11. h[T] = e[x] + h[U]
    BY <1>6, <2>4, <2>6
  <2>12. V \ {y} = Im(U) /\ e[x] = f[y] /\ g[V] # h[T]
    BY <1>3, <2>4, <2>6, <2>9
  <2> HIDE DEF V, y, Bad, U
  <2>13. QED BY <2>8, <2>10, <2>11, <2>12
<1>8. g[S] = h[R]
  BY <1>2, <1>7
<1>9. SumOf(f) = g[S] /\ SumOf(e) = h[R]
  BY <1>2, <1>3, <1>4, <1>5, SumIs
<1>10. QED BY <1>2, <1>8, <1>9 DEF e

\* Nor on where they begin.
LEMMA SumShift ==
  ASSUME NEW a \in Nat, NEW l \in Nat, NEW D, D = (a + 1)..(a + l), NEW w \in [D -> Int]
  PROVE  SumOf(w) = SumOf([x \in 1..l |-> w[a + x]])
<1> DEFINE p == [x \in 1..l |-> a + x]
<1>1. IsFiniteSet(1..l)
  BY FS_Interval
<1>2. /\ p \in [1..l -> D] /\ \A x, y \in 1..l : p[x] = p[y] => x = y
      /\ \A z \in D : \E x \in 1..l : p[x] = z
  <2>1. \A z \in D : z - a \in 1..l /\ p[z - a] = z
    OBVIOUS
  <2>2. p \in [1..l -> D] /\ \A x, y \in 1..l : p[x] = p[y] => x = y
    OBVIOUS
  <2>3. QED BY <2>1, <2>2
<1>3. SumOf(w) = SumOf([x \in 1..l |-> w[p[x]]])
  <2> HIDE DEF p
  <2>1. PICK R : R = 1..l
    OBVIOUS
  <2>2. IsFiniteSet(R) /\ Renames(p, R, D)
    BY <1>1, <1>2, <2>1 DEF Renames
  <2>3. SumOf(w) = SumOf([x \in R |-> w[p[x]]])
    BY <2>2, SumMoved
  <2>4. QED BY <2>1, <2>3
<1>4. [x \in 1..l |-> w[p[x]]] = [x \in 1..l |-> w[a + x]]
  OBVIOUS
<1>5. QED BY <1>3, <1>4

LEMMA LessLast == ASSUME NEW m \in Nat, m # 0 PROVE (1..m) \ {m} = 1..(m - 1)
OBVIOUS

LEMMA SumLast ==
  ASSUME NEW m \in Nat, m # 0, NEW r \in [1..m -> Int]
  PROVE  /\ SumOf([i \in 1..(m - 1) |-> r[i]]) \in Int
         /\ SumOf(r) = r[m] + SumOf([i \in 1..(m - 1) |-> r[i]])
<1>1. PICK R : R = 1..m
  OBVIOUS
<1>2. IsFiniteSet(R) /\ r \in [R -> Int] /\ m \in R /\ R \ {m} = 1..(m - 1)
  BY <1>1, FS_Interval, LessLast
<1>3. /\ SumOf(r) = r[m] + SumOf([i \in R \ {m} |-> r[i]])
      /\ SumOf([i \in R \ {m} |-> r[i]]) \in Int
  BY <1>2, SumTake, ZenonT(60)
<1>4. QED BY <1>2, <1>3

\* A sum over 1..(a + l) is that of the first a and that of the l behind them.
LEMMA SumStep ==
  ASSUME NEW a \in Nat, NEW l \in Nat, NEW v \in [1..(a + l) -> Int]
  PROVE  /\ SumOf([x \in 1..a |-> v[x]]) \in Int /\ SumOf([x \in 1..l |-> v[a + x]]) \in Int
         /\ SumOf(v) = SumOf([x \in 1..a |-> v[x]]) + SumOf([x \in 1..l |-> v[a + x]])
<1> DEFINE A == 1..a
           D == (a + 1)..(a + l)
           w == [y \in D |-> v[y]]
<1>1. IsFiniteSet(1..(a + l)) /\ IsFiniteSet(1..l)
  <2>1. PICK d \in Int : d = a + l
    OBVIOUS
  <2>2. IsFiniteSet(1..d) /\ IsFiniteSet(1..l)
    BY FS_Interval
  <2>3. QED BY <2>1, <2>2
<1>2. A \in SUBSET (1..(a + l)) /\ (1..(a + l)) \ A = D
  OBVIOUS
<1>3. /\ SumOf([x \in A |-> v[x]]) \in Int /\ SumOf(w) \in Int
      /\ SumOf(v) = SumOf([x \in A |-> v[x]]) + SumOf(w)
  <2>1. PICK S : S = 1..(a + l)
    OBVIOUS
  <2>2. IsFiniteSet(S) /\ v \in [S -> Int] /\ A \in SUBSET S /\ S \ A = D
    BY <1>1, <1>2, <2>1
  <2> HIDE DEF A, D
  <2>3. /\ SumOf([x \in A |-> v[x]]) \in Int /\ SumOf([x \in S \ A |-> v[x]]) \in Int
        /\ SumOf(v) = SumOf([x \in A |-> v[x]]) + SumOf([x \in S \ A |-> v[x]])
    BY <2>2, SumSplit, ZenonT(60)
  <2>4. QED BY <2>2, <2>3
<1>4. w \in [D -> Int]
  OBVIOUS
<1>5. SumOf(w) = SumOf([x \in 1..l |-> w[a + x]])
  <2> HIDE DEF w
  <2>1. QED BY <1>4, SumShift
<1>6. [x \in 1..l |-> w[a + x]] = [x \in 1..l |-> v[a + x]]
  OBVIOUS
<1> HIDE DEF w
<1>7. QED BY <1>3, <1>5, <1>6

\* What lies end to end adds up to what the pieces add up to.
Lays(n, cut, v, u) ==
  /\ cut \in [0..n -> Nat] /\ cut[0] = 0 /\ v \in [1..cut[n] -> Int] /\ u \in [1..n -> Int]
  /\ \A j \in 0..n : cut[j] <= cut[n]
  /\ \A j \in 1..n :
       /\ cut[j - 1] <= cut[j]
       /\ u[j] = SumOf([x \in 1..(cut[j] - cut[j - 1]) |-> v[cut[j - 1] + x]])

LEMMA SumsLaid ==
  ASSUME NEW n \in Nat, NEW cut, NEW v, NEW u, Lays(n, cut, v, u)
  PROVE  SumOf(v) = SumOf(u)
<1> SUFFICES ASSUME cut \in [0..n -> Nat], cut[0] = 0,
                    \A j \in 1..n : cut[j - 1] <= cut[j], v \in [1..cut[n] -> Int],
                    \A j \in 0..n : cut[j] <= cut[n], u \in [1..n -> Int],
                    \A j \in 1..n :
                      u[j] = SumOf([x \in 1..(cut[j] - cut[j - 1]) |-> v[cut[j - 1] + x]])
             PROVE  SumOf(v) = SumOf(u)
  BY DEF Lays
<1> DEFINE Left(j) == SumOf([x \in 1..cut[j] |-> v[x]])
           Right(j) == SumOf([i \in 1..j |-> u[i]])
           Bad == {j \in 0..n : Left(j) # Right(j)}
<1>1. Bad = {}
  <2> SUFFICES ASSUME Bad # {} PROVE FALSE
    OBVIOUS
  <2>1. Bad \subseteq Nat
    OBVIOUS
  <2>2. PICK m \in Bad : \A j \in Bad : m <= j
    <3> HIDE DEF Bad
    <3>1. QED BY <2>1, LeastNat
  <2>3. m \in 0..n /\ Left(m) # Right(m)
    BY <2>2
  <2>4. m # 0
    <3>1. 1..cut[0] = {} /\ 1..0 = {}
      OBVIOUS
    <3>2. [x \in 1..cut[0] |-> v[x]] = [i \in 1..0 |-> u[i]]
      BY <3>1
    <3>3. QED BY <2>3, <3>2
  <2>5. m - 1 \in 0..n /\ m \in 1..n /\ m \in Nat
    BY <2>3, <2>4
  <2>6. m - 1 \notin Bad
    <3> HIDE DEF Bad
    <3>1. QED BY <2>2, <2>5
  <2>7. Left(m - 1) = Right(m - 1)
    BY <2>5, <2>6
  <2> DEFINE a == cut[m - 1]
             l == cut[m] - cut[m - 1]
             g == [x \in 1..(a + l) |-> v[x]]
             r == [i \in 1..m |-> u[i]]
  <2>8. a \in Nat /\ l \in Nat /\ a + l = cut[m] /\ cut[m] <= cut[n] /\ cut[n] \in Nat
    <3>1. cut[m] \in Nat /\ cut[m - 1] \in Nat /\ cut[n] \in Nat /\ cut[m - 1] <= cut[m]
          /\ cut[m] <= cut[n]
      BY <2>3, <2>5
    <3>2. QED BY <3>1, SMTT(60)
  <2> HIDE DEF a, l
  <2>9. g \in [1..(a + l) -> Int]
    <3>1. \A x \in 1..(a + l) : x \in 1..cut[n]
      BY <2>8
    <3>2. QED BY <3>1
  <2>10. \A x \in 1..a : x \in 1..(a + l) /\ g[x] = v[x]
    BY <2>8
  <2>11. \A x \in 1..l : a + x \in 1..(a + l) /\ g[a + x] = v[a + x]
    BY <2>8
  <2>12. [x \in 1..a |-> g[x]] = [x \in 1..a |-> v[x]]
         /\ [x \in 1..l |-> g[a + x]] = [x \in 1..l |-> v[a + x]]
    <3> HIDE DEF g
    <3>1. QED BY <2>10, <2>11
  <2>13. /\ SumOf([x \in 1..a |-> v[x]]) \in Int /\ SumOf([x \in 1..l |-> v[a + x]]) \in Int
         /\ SumOf(g) = SumOf([x \in 1..a |-> v[x]]) + SumOf([x \in 1..l |-> v[a + x]])
    <3> HIDE DEF g
    <3>1. /\ SumOf([x \in 1..a |-> g[x]]) \in Int /\ SumOf([x \in 1..l |-> g[a + x]]) \in Int
          /\ SumOf(g) = SumOf([x \in 1..a |-> g[x]]) + SumOf([x \in 1..l |-> g[a + x]])
      BY <2>8, <2>9, SumStep, Zenon
    <3>2. QED BY <2>12, <3>1
  <2>14. Left(m) = Left(m - 1) + u[m]
    <3>1. Left(m) = SumOf(g) /\ Left(m - 1) = SumOf([x \in 1..a |-> v[x]])
      BY <2>8 DEF a
    <3>2. u[m] = SumOf([x \in 1..l |-> v[a + x]])
      BY <2>5 DEF a, l
    <3> HIDE DEF g, Left
    <3>3. QED BY <2>13, <3>1, <3>2
  <2>15. r \in [1..m -> Int] /\ r[m] = u[m] /\ u[m] \in Int
    <3>1. m <= n /\ \A i \in 1..m : i \in 1..n
      BY <2>5
    <3>2. QED BY <2>5, <3>1
  <2>16. /\ SumOf(r) = r[m] + SumOf([i \in 1..(m - 1) |-> r[i]])
         /\ SumOf([i \in 1..(m - 1) |-> r[i]]) \in Int
    <3> HIDE DEF r
    <3>1. QED BY <2>4, <2>5, <2>15, SumLast
  <2>17. [i \in 1..(m - 1) |-> r[i]] = [i \in 1..(m - 1) |-> u[i]]
    BY <2>5
  <2>18. Right(m) = u[m] + Right(m - 1) /\ Right(m - 1) \in Int
    BY <2>15, <2>16, <2>17
  <2> HIDE DEF Left, Right
  <2>19. QED BY <2>3, <2>7, <2>14, <2>15, <2>18
<1>2. Left(n) = Right(n)
  <2>1. n \in 0..n /\ n \notin Bad
    <3> HIDE DEF Bad
    <3>1. QED BY <1>1
  <2>2. QED BY <2>1
<1>3. [x \in 1..cut[n] |-> v[x]] = v /\ [i \in 1..n |-> u[i]] = u
  OBVIOUS
<1>4. QED BY <1>2, <1>3

\* Where the last piece ends is what their lengths add up to.
LEMMA CutsAddUp ==
  ASSUME NEW n \in Nat, NEW cut \in [0..n -> Nat], cut[0] = 0, NEW w \in [1..n -> Nat],
         \A j \in 1..n : cut[j] = cut[j - 1] + w[j]
  PROVE  cut[n] = SumOf(w)
<1> DEFINE Right(j) == SumOf([i \in 1..j |-> w[i]])
           Bad == {j \in 0..n : cut[j] # Right(j)}
<1>1. Bad = {}
  <2> SUFFICES ASSUME Bad # {} PROVE FALSE
    OBVIOUS
  <2>1. Bad \subseteq Nat
    OBVIOUS
  <2>2. PICK m \in Bad : \A j \in Bad : m <= j
    <3> HIDE DEF Bad
    <3>1. QED BY <2>1, LeastNat
  <2>3. m \in 0..n /\ cut[m] # Right(m)
    BY <2>2
  <2>4. m # 0
    <3>1. [i \in 1..0 |-> w[i]] = [i \in {} |-> w[i]]
      OBVIOUS
    <3>2. [i \in {} |-> w[i]] = [x \in {} |-> [i \in {} |-> w[i]][x]]
      OBVIOUS
    <3>3. SumOf([i \in {} |-> w[i]]) = 0
      BY <3>2, SumNone
    <3>4. QED BY <2>3, <3>1, <3>3
  <2>5. m - 1 \in 0..n /\ m \in 1..n /\ m \in Nat
    BY <2>3, <2>4
  <2>6. m - 1 \notin Bad
    <3> HIDE DEF Bad
    <3>1. QED BY <2>2, <2>5
  <2>7. cut[m - 1] = Right(m - 1) /\ cut[m] = cut[m - 1] + w[m]
    BY <2>5, <2>6
  <2> DEFINE r == [i \in 1..m |-> w[i]]
  <2>8. r \in [1..m -> Int] /\ r[m] = w[m] /\ w[m] \in Int
    <3>1. m <= n /\ \A i \in 1..m : i \in 1..n
      BY <2>5
    <3>2. QED BY <2>5, <3>1
  <2>9. /\ SumOf(r) = r[m] + SumOf([i \in 1..(m - 1) |-> r[i]])
        /\ SumOf([i \in 1..(m - 1) |-> r[i]]) \in Int
    <3> HIDE DEF r
    <3>1. QED BY <2>4, <2>5, <2>8, SumLast
  <2>10. [i \in 1..(m - 1) |-> r[i]] = [i \in 1..(m - 1) |-> w[i]]
    BY <2>5
  <2>11. Right(m) = w[m] + Right(m - 1) /\ Right(m - 1) \in Int
    BY <2>8, <2>9, <2>10
  <2> HIDE DEF Right
  <2>12. QED BY <2>3, <2>7, <2>8, <2>11
<1>2. n \in 0..n /\ n \notin Bad
  <2> HIDE DEF Bad
  <2>1. QED BY <1>1
<1>3. cut[n] = Right(n) /\ [i \in 1..n |-> w[i]] = w
  BY <1>2
<1>4. QED BY <1>3

----------------------------------------------------------------------------
(* Going through a set of indices in order.                                 *)

Below(S, i) == {j \in S : j < i}

\* The k-th of a finite set is there, and behind those before it.
LEMMA AscendingIsSorted ==
  ASSUME NEW S, IsFiniteSet(S), S \subseteq Nat
  PROVE  /\ Cardinality(S) \in Nat
         /\ Ascending(S) \in [1..Cardinality(S) -> S]
         /\ \A k \in 1..Cardinality(S) : Cardinality(Below(S, Ascending(S)[k])) = k - 1
         /\ \A i \in S : \E k \in 1..Cardinality(S) : Ascending(S)[k] = i
         /\ \A k, l \in 1..Cardinality(S) : k < l => Ascending(S)[k] < Ascending(S)[l]
<1> DEFINE n == Cardinality(S)
           rank == [i \in S |-> Cardinality(Below(S, i)) + 1]
<1>1. n \in Nat
  BY FS_CardinalityType
<1>2. \A i \in S : IsFiniteSet(Below(S, i)) /\ Cardinality(Below(S, i)) \in Nat
  <2> SUFFICES ASSUME NEW i \in S
               PROVE  IsFiniteSet(Below(S, i)) /\ Cardinality(Below(S, i)) \in Nat
    OBVIOUS
  <2>1. Below(S, i) \in SUBSET S
    BY DEF Below
  <2>2. IsFiniteSet(Below(S, i))
    BY <2>1, FS_Subset
  <2>3. QED BY <2>2, FS_CardinalityType
<1>3. \A i, j \in S : i < j => Cardinality(Below(S, i)) < Cardinality(Below(S, j))
  <2> SUFFICES ASSUME NEW i \in S, NEW j \in S, i < j
               PROVE  Cardinality(Below(S, i)) < Cardinality(Below(S, j))
    OBVIOUS
  <2>1. i \in Below(S, j) /\ i \notin Below(S, i) /\ Below(S, i) \in SUBSET Below(S, j)
    <3>1. i \in Nat /\ j \in Nat /\ \A x \in S : x \in Nat
      OBVIOUS
    <3>2. \A x \in S : x < i => x < j
      BY <3>1
    <3>3. i \in Below(S, j) /\ i \notin Below(S, i)
      BY <3>1 DEF Below
    <3>4. \A x \in Below(S, i) : x \in Below(S, j)
      BY <3>2 DEF Below
    <3>5. QED BY <3>3, <3>4
  <2>2. /\ Cardinality(Below(S, i)) <= Cardinality(Below(S, j))
        /\ Cardinality(Below(S, j)) = Cardinality(Below(S, i)) => Below(S, j) = Below(S, i)
    BY <1>2, <2>1, FS_Subset
  <2>3. QED BY <1>2, <2>1, <2>2
<1>4. \A i \in S : Cardinality(Below(S, i)) < n
  <2> SUFFICES ASSUME NEW i \in S PROVE Cardinality(Below(S, i)) < n
    OBVIOUS
  <2>1. i \notin Below(S, i) /\ Below(S, i) \in SUBSET S
    BY DEF Below
  <2>2. /\ Cardinality(Below(S, i)) <= n
        /\ n = Cardinality(Below(S, i)) => S = Below(S, i)
    BY <2>1, FS_Subset
  <2>3. QED BY <1>1, <1>2, <2>1, <2>2
<1>5. rank \in [S -> 1..n]
  BY <1>1, <1>2, <1>4
<1>6. rank \in Injection(S, 1..n)
  <2>1. \A i, j \in S : rank[i] = rank[j] => i = j
    <3> SUFFICES ASSUME NEW i \in S, NEW j \in S, rank[i] = rank[j], i # j PROVE FALSE
      OBVIOUS
    <3>1. i < j \/ j < i
      OBVIOUS
    <3>2. Cardinality(Below(S, i)) = Cardinality(Below(S, j))
      BY <1>2
    <3>3. QED BY <1>2, <1>3, <3>1, <3>2
  <2> HIDE DEF rank
  <2>2. QED BY <1>5, <2>1 DEF Injection, IsInjective
<1>7. IsFiniteSet(1..n) /\ Cardinality(1..n) = n
  <2>1. /\ IsFiniteSet(1..n)
        /\ Cardinality(1..n) = IF 1 > n THEN 0 ELSE n - 1 + 1
    BY <1>1, FS_Interval
  <2>2. QED BY <1>1, <2>1
<1>8. rank \in Surjection(S, 1..n)
  <2> HIDE DEF rank
  <2>1. QED BY <1>6, <1>7, FS_Injection
<1>9. \A k \in 1..n : \E i \in S : Cardinality(Below(S, i)) = k - 1
  <2> SUFFICES ASSUME NEW k \in 1..n PROVE \E i \in S : Cardinality(Below(S, i)) = k - 1
    OBVIOUS
  <2>1. PICK i \in S : rank[i] = k
    <3> HIDE DEF rank
    <3>1. QED BY <1>8 DEF Surjection
  <2>2. QED BY <1>2, <2>1
<1>10. \A k \in 1..n : /\ Ascending(S)[k] \in S
                      /\ Cardinality(Below(S, Ascending(S)[k])) = k - 1
  <2> SUFFICES ASSUME NEW k \in 1..n
               PROVE  /\ Ascending(S)[k] \in S
                      /\ Cardinality(Below(S, Ascending(S)[k])) = k - 1
    OBVIOUS
  <2>1. Ascending(S)[k] = CHOOSE i \in S : Cardinality(Below(S, i)) = k - 1
    BY DEF Ascending, Below
  <2>2. QED BY <1>9, <2>1
<1>11. Ascending(S) \in [1..n -> S]
  <2>1. Ascending(S) = [k \in 1..n |-> Ascending(S)[k]]
    <3> DEFINE Kth(k) == CHOOSE i \in S : Cardinality({j \in S : j < i}) = k - 1
    <3>1. Ascending(S) = [k \in 1..n |-> Kth(k)]
      BY DEF Ascending
    <3> HIDE DEF Kth
    <3>2. QED BY <3>1
  <2>2. QED BY <1>10, <2>1
<1>12. \A i \in S : \E k \in 1..n : Ascending(S)[k] = i
  <2> SUFFICES ASSUME NEW i \in S PROVE \E k \in 1..n : Ascending(S)[k] = i
    OBVIOUS
  <2>1. rank[i] \in 1..n /\ rank[i] - 1 = Cardinality(Below(S, i))
    BY <1>2, <1>5
  <2>2. PICK k \in 1..n : k = rank[i]
    BY <2>1
  <2>3. Cardinality(Below(S, Ascending(S)[k])) = Cardinality(Below(S, i)) /\ Ascending(S)[k] \in S
    BY <1>10, <2>1, <2>2
  <2> DEFINE j == Ascending(S)[k]
  <2>4. j \in S /\ Cardinality(Below(S, j)) = Cardinality(Below(S, i))
    BY <2>3
  <2> HIDE DEF j
  <2>5. ~(j < i) /\ ~(i < j)
    BY <1>2, <1>3, <2>4
  <2>6. j = i
    BY <2>4, <2>5
  <2>7. QED BY <2>6 DEF j
<1>13. \A k, l \in 1..n : k < l => Ascending(S)[k] < Ascending(S)[l]
  <2> SUFFICES ASSUME NEW k \in 1..n, NEW l \in 1..n, k < l
               PROVE  Ascending(S)[k] < Ascending(S)[l]
    OBVIOUS
  <2> DEFINE i == Ascending(S)[k]
             j == Ascending(S)[l]
  <2>1. /\ i \in S /\ Cardinality(Below(S, i)) = k - 1
        /\ j \in S /\ Cardinality(Below(S, j)) = l - 1
    BY <1>10
  <2> HIDE DEF i, j
  <2>2. i # j /\ ~(j < i)
    BY <1>1, <1>3, <2>1
  <2>3. i < j
    BY <2>1, <2>2
  <2>4. QED BY <2>3 DEF i, j
<1>14. QED BY <1>1, <1>10, <1>11, <1>12, <1>13

LEMMA IntervalSize ==
  ASSUME NEW a \in Int, NEW c \in Int, a <= c
  PROVE  IsFiniteSet((a + 1)..c) /\ Cardinality((a + 1)..c) = c - a
<1>1. PICK d \in Int : d = a + 1
  OBVIOUS
<1>2. IsFiniteSet(d..c) /\ Cardinality(d..c) = IF d > c THEN 0 ELSE c - d + 1
  BY FS_Interval
<1>3. (IF d > c THEN 0 ELSE c - d + 1) = c - a
  BY <1>1
<1>4. QED BY <1>1, <1>2, <1>3

\* The numbers from one to another, in order.
LEMMA AscendingInterval ==
  ASSUME NEW a \in Nat, NEW b \in Nat, a <= b
  PROVE  Ascending((a + 1)..b) = [j \in 1..(b - a) |-> a + j]
<1> DEFINE S == (a + 1)..b
           n == b - a
<1>1. IsFiniteSet(S) /\ Cardinality(S) = n /\ n \in Nat /\ S \subseteq Nat
  <2>1. n \in Nat /\ S \subseteq Nat
    OBVIOUS
  <2>2. QED BY <2>1, IntervalSize
<1>2. /\ Ascending(S) \in [1..n -> S]
      /\ \A k \in 1..n : Cardinality(Below(S, Ascending(S)[k])) = k - 1
  <2> HIDE DEF S, n
  <2>1. QED BY <1>1, AscendingIsSorted
<1>3. ASSUME NEW k \in 1..n PROVE Ascending(S)[k] = a + k
  <2> DEFINE i == Ascending(S)[k]
  <2>1. i \in S /\ Cardinality(Below(S, i)) = k - 1
    <3> HIDE DEF S, n
    <3>1. QED BY <1>2, <1>3
  <2> HIDE DEF i
  <2>2. Below(S, i) = (a + 1)..(i - 1)
    BY <2>1 DEF Below
  <2>3. Cardinality((a + 1)..(i - 1)) = (i - 1) - a
    <3>1. a \in Int /\ i - 1 \in Int /\ a <= i - 1
      BY <2>1
    <3> HIDE DEF S, n
    <3>2. QED BY <3>1, IntervalSize
  <2>4. i = a + k
    BY <2>1, <2>2, <2>3
  <2>5. QED BY <2>4 DEF i
<1>4. QED
  <2> HIDE DEF S
  <2>1. Ascending(S) = [j \in 1..n |-> a + j]
    BY <1>2, <1>3
  <2>2. QED BY <2>1 DEF S

----------------------------------------------------------------------------
(* Laying sequences end to end.                                             *)

\* g joins the first i of q, for every i: the recursion of FlattenSeq.
Joins(g, q, n) == g = [i \in 1..n |-> IF i = 1 THEN q[i] ELSE g[i - 1] \o q[i]]

LEMMA JoinsExist ==
  ASSUME NEW n \in Nat, NEW q
  PROVE  \E g : Joins(g, q, n)
<1> DEFINE Bad == {k \in Nat : ~\E g : Joins(g, q, k)}
<1>1. Bad = {}
  <2> SUFFICES ASSUME Bad # {} PROVE FALSE
    OBVIOUS
  <2>1. Bad \subseteq Nat
    OBVIOUS
  <2> HIDE DEF Bad
  <2>2. PICK k \in Bad : \A l \in Bad : k <= l
    BY <2>1, LeastNat, Zenon
  <2>3. k \in Nat
    BY <2>1, <2>2
  <2>4. CASE k = 0
    <3>1. Joins([i \in 1..0 |-> 0], q, 0)
      BY DEF Joins
    <3>2. QED BY <2>2, <2>4, <3>1 DEF Bad
  <2>5. CASE k # 0
    <3>1. k - 1 \in Nat /\ k - 1 \notin Bad
      BY <2>2, <2>3, <2>5
    <3>2. PICK h : Joins(h, q, k - 1)
      BY <3>1 DEF Bad
    <3> DEFINE g == [i \in 1..k |-> IF i = 1 THEN q[i] ELSE h[i - 1] \o q[i]]
    <3>3. \A i \in 1..(k - 1) : i \in 1..k /\ g[i] = h[i]
      <4> SUFFICES ASSUME NEW i \in 1..(k - 1) PROVE i \in 1..k /\ g[i] = h[i]
        OBVIOUS
      <4>1. i \in 1..k
        BY <2>3
      <4>2. h[i] = IF i = 1 THEN q[i] ELSE h[i - 1] \o q[i]
        BY <3>2 DEF Joins
      <4>3. QED BY <4>1, <4>2
    <3>4. \A i \in 1..k : i # 1 => i - 1 \in 1..(k - 1)
      BY <2>3
    <3>5. Joins(g, q, k)
      BY <3>3, <3>4 DEF Joins
    <3> HIDE DEF g
    <3>6. QED BY <2>2, <3>5 DEF Bad
  <2>6. QED BY <2>4, <2>5
<1>2. QED BY <1>1

LEMMA Joined ==
  ASSUME NEW C, NEW s \in Seq(C), NEW t \in Seq(C)
  PROVE  /\ s \o t \in Seq(C) /\ Len(s \o t) = Len(s) + Len(t)
         /\ Len(s) \in Nat /\ Len(t) \in Nat
         /\ \A y \in 1..Len(s) : (s \o t)[y] = s[y]
         /\ \A x \in 1..Len(t) : (s \o t)[Len(s) + x] = t[x]
OBVIOUS

\* Where each piece lies in what they are joined to.
PiecesLie(f, q, n, cut) ==
  /\ cut[0] = 0 /\ cut[n] = Len(f)
  /\ \A k \in 1..n : /\ cut[k] = cut[k - 1] + Len(q[k]) /\ cut[k] <= cut[n]
                     /\ \A x \in 1..Len(q[k]) : f[cut[k - 1] + x] = q[k][x]

LEMMA FlattenLays ==
  ASSUME NEW C, NEW n \in Nat, NEW q \in [1..n -> Seq(C)]
  PROVE  /\ FlattenSeq(q) \in Seq(C)
         /\ \E cut \in [0..n -> Nat] : PiecesLie(FlattenSeq(q), q, n, cut)
<1>1. Len(q) = n /\ q \in Seq(Seq(C))
  OBVIOUS
<1>2. CASE n = 0
  <2>1. FlattenSeq(q) = q
    BY <1>1, <1>2 DEF FlattenSeq
  <2>2. q = <<>>
    BY <1>1, <1>2
  <2> DEFINE cut == [k \in 0..0 |-> 0]
  <2>3. cut \in [0..n -> Nat] /\ PiecesLie(FlattenSeq(q), q, n, cut)
    BY <1>2, <2>1, <2>2 DEF PiecesLie
  <2>4. QED BY <2>1, <2>2, <2>3
<1>3. CASE n # 0
  <2> DEFINE g == CHOOSE g : Joins(g, q, n)
  <2>1. FlattenSeq(q) = g[n]
    BY <1>1, <1>3 DEF FlattenSeq, Joins
  <2>2. Joins(g, q, n)
    BY JoinsExist
  <2> HIDE DEF g
  <2>3. \A i \in 1..n : g[i] = IF i = 1 THEN q[i] ELSE g[i - 1] \o q[i]
    BY <2>2 DEF Joins
  <2> DEFINE cut == [k \in 0..n |-> IF k = 0 THEN 0 ELSE Len(g[k])]
             Well(k) == /\ g[k] \in Seq(C)
                        /\ \A j \in 1..k :
                             /\ cut[j] \in Nat /\ cut[j - 1] \in Nat
                             /\ cut[j] = cut[j - 1] + Len(q[j]) /\ cut[j] <= Len(g[k])
                             /\ \A x \in 1..Len(q[j]) : g[k][cut[j - 1] + x] = q[j][x]
             Bad == {k \in 1..n : ~Well(k)}
  <2>4. \A k \in 0..n : cut[k] = IF k = 0 THEN 0 ELSE Len(g[k])
    OBVIOUS
  <2> HIDE DEF cut
  <2>5. Well(1)
    <3>1. g[1] = q[1] /\ q[1] \in Seq(C)
      BY <1>3, <2>3
    <3>2. cut[0] = 0 /\ cut[1] = Len(q[1])
      BY <1>3, <2>4, <3>1
    <3>3. QED BY <3>1, <3>2
  <2>6. ASSUME NEW k \in 2..n, Well(k - 1) PROVE Well(k)
    <3> DEFINE h == g[k - 1]
    <3>1. k \in 1..n /\ k - 1 \in 1..n /\ k # 1 /\ k # 0 /\ k - 1 # 0 /\ k \in 0..n /\ k - 1 \in 0..n
      BY <2>6
    <3>2. g[k] = h \o q[k] /\ q[k] \in Seq(C)
      BY <2>3, <3>1
    <3>3. h \in Seq(C)
      BY <2>6
    <3> HIDE DEF h
    <3>4. /\ g[k] \in Seq(C) /\ Len(g[k]) = Len(h) + Len(q[k])
          /\ Len(h) \in Nat /\ Len(q[k]) \in Nat
          /\ \A y \in 1..Len(h) : g[k][y] = h[y]
          /\ \A x \in 1..Len(q[k]) : g[k][Len(h) + x] = q[k][x]
      <4> DEFINE t == q[k]
      <4>1. t \in Seq(C)
        BY <3>2
      <4> HIDE DEF t
      <4>2. /\ h \o t \in Seq(C) /\ Len(h \o t) = Len(h) + Len(t)
            /\ Len(h) \in Nat /\ Len(t) \in Nat
            /\ \A y \in 1..Len(h) : (h \o t)[y] = h[y]
            /\ \A x \in 1..Len(t) : (h \o t)[Len(h) + x] = t[x]
        BY <3>3, <4>1, Joined
      <4>3. g[k] = h \o t
        BY <3>2 DEF t
      <4>4. QED BY <4>2, <4>3 DEF t
    <3>5. cut[k - 1] = Len(h) /\ cut[k] = Len(g[k])
      BY <2>4, <3>1 DEF h
    <3>6. /\ cut[k] \in Nat /\ cut[k - 1] \in Nat
          /\ cut[k] = cut[k - 1] + Len(q[k]) /\ cut[k] <= Len(g[k])
          /\ \A x \in 1..Len(q[k]) : g[k][cut[k - 1] + x] = q[k][x]
      BY <3>4, <3>5
    <3>7. ASSUME NEW j \in 1..k
          PROVE  /\ cut[j] \in Nat /\ cut[j - 1] \in Nat
                 /\ cut[j] = cut[j - 1] + Len(q[j]) /\ cut[j] <= Len(g[k])
                 /\ \A x \in 1..Len(q[j]) : g[k][cut[j - 1] + x] = q[j][x]
      <4>1. CASE j = k
        BY <3>6, <4>1
      <4>2. CASE j # k
        <5>1. /\ j \in 1..(k - 1) /\ q[j] \in Seq(C)
          BY <3>1, <3>7, <4>2
        <5>2. /\ cut[j] \in Nat /\ cut[j - 1] \in Nat
              /\ cut[j] = cut[j - 1] + Len(q[j]) /\ cut[j] <= Len(h)
              /\ \A x \in 1..Len(q[j]) : h[cut[j - 1] + x] = q[j][x]
          BY <2>6, <5>1 DEF h
        <5>3. \A x \in 1..Len(q[j]) : cut[j - 1] + x \in 1..Len(h)
          <6>1. Len(q[j]) \in Nat
            BY <5>1
          <6> HIDE DEF Well
          <6>2. QED BY <3>4, <5>2, <6>1, SMTT(60)
        <5>4. \A x \in 1..Len(q[j]) : g[k][cut[j - 1] + x] = q[j][x]
          BY <3>4, <5>2, <5>3
        <5>5. QED BY <3>4, <5>2, <5>4
      <4>3. QED BY <4>1, <4>2
    <3>8. QED BY <3>4, <3>7
  <2> HIDE DEF Well
  <2>7. \A k \in 1..n : Well(k)
    <3> SUFFICES ASSUME Bad # {} PROVE FALSE
      OBVIOUS
    <3>1. Bad \subseteq Nat
      OBVIOUS
    <3> HIDE DEF Bad
    <3>2. PICK k \in Bad : \A l \in Bad : k <= l
      BY <3>1, LeastNat, Zenon
    <3>3. k \in 1..n /\ ~Well(k)
      BY <3>2 DEF Bad
    <3>4. k # 1
      BY <2>5, <3>3
    <3>5. k \in 2..n /\ k - 1 \in 1..n /\ k - 1 \notin Bad
      BY <3>2, <3>3, <3>4
    <3>6. Well(k - 1)
      BY <3>5 DEF Bad
    <3>7. QED BY <2>6, <3>3, <3>5, <3>6
  <2>8. n \in 1..n /\ Well(n)
    BY <1>3, <2>7
  <2>9. /\ g[n] \in Seq(C) /\ Len(g[n]) \in Nat
        /\ \A j \in 1..n :
             /\ cut[j] \in Nat
             /\ cut[j] = cut[j - 1] + Len(q[j]) /\ cut[j] <= Len(g[n])
             /\ \A x \in 1..Len(q[j]) : g[n][cut[j - 1] + x] = q[j][x]
    BY <2>8, SMTT(60) DEF Well
  <2>10. cut[0] = 0 /\ cut[n] = Len(g[n])
    BY <1>3, <2>4
  <2>11. cut \in [0..n -> Nat]
    <3>1. \A k \in 0..n : cut[k] \in Nat
      <4> SUFFICES ASSUME NEW k \in 0..n PROVE cut[k] \in Nat
        OBVIOUS
      <4>1. k = 0 \/ k \in 1..n
        OBVIOUS
      <4>2. QED BY <2>9, <2>10, <4>1
    <3>2. QED BY <3>1 DEF cut
  <2>12. PiecesLie(g[n], q, n, cut)
    BY <2>9, <2>10 DEF PiecesLie
  <2>13. QED BY <2>1, <2>9, <2>11, <2>12
<1>4. QED BY <1>2, <1>3

LEMMA SliceIs ==
  ASSUME NEW C, NEW s \in Seq(C), NEW a \in Nat, NEW l \in Nat, a + l <= Len(s)
  PROVE  /\ SubSeq(s, a + 1, a + l) \in Seq(C) /\ Len(SubSeq(s, a + 1, a + l)) = l
         /\ \A x \in 1..l : SubSeq(s, a + 1, a + l)[x] = s[a + x] /\ a + x \in 1..Len(s)
<1>1. Len(s) \in Nat /\ \A x \in 1..l : a + x \in 1..Len(s)
  BY Z3
<1>2. SubSeq(s, a + 1, a + l) = [x \in 1..l |-> s[a + x]]
  <2>1. SubSeq(s, a + 1, a + l) = [x \in 1..((a + l) - (a + 1) + 1) |-> s[x + (a + 1) - 1]]
    OBVIOUS
  <2>2. (a + l) - (a + 1) + 1 = l /\ \A x \in 1..l : x + (a + 1) - 1 = a + x
    OBVIOUS
  <2>3. QED BY <2>1, <2>2
<1>3. \A x \in 1..l : s[a + x] \in C
  BY <1>1
<1> DEFINE t == SubSeq(s, a + 1, a + l)
<1>4. t = [x \in 1..l |-> s[a + x]]
  BY <1>2
<1> HIDE DEF t
<1>5. t \in [1..l -> C]
  BY <1>3, <1>4
<1>6. t \in Seq(C) /\ Len(t) = l
  BY <1>5
<1>7. QED BY <1>1, <1>4, <1>6 DEF t

\* A finite set of naturals has a largest member, and Max is it.
LEMMA FiniteMax ==
  ASSUME NEW S, IsFiniteSet(S), S \subseteq Nat, S # {}
  PROVE  Max(S) \in S /\ \A x \in S : Max(S) >= x
<1> DEFINE Largest(T, m) == m \in T /\ \A x \in T : m >= x
           Bad == {T \in SUBSET S : T # {} /\ ~\E m \in T : Largest(T, m)}
<1>1. Bad = {}
  <2> SUFFICES ASSUME Bad # {} PROVE FALSE
    OBVIOUS
  <2>1. Bad \subseteq SUBSET S
    OBVIOUS
  <2>2. \E T \in Bad : \A U \in Bad : Cardinality(T) <= Cardinality(U)
    <3> HIDE DEF Bad
    <3>1. QED BY <2>1, Smallest
  <2>3. PICK T \in Bad : \A U \in Bad : Cardinality(T) <= Cardinality(U)
    BY <2>2
  <2>4. T # {} /\ T \subseteq S /\ IsFiniteSet(T) /\ ~\E m \in T : Largest(T, m)
    BY FS_Subset
  <2>5. PICK x \in T : TRUE
    BY <2>4
  <2>6. /\ Cardinality(T \ {x}) \in Nat /\ Cardinality(T) \in Nat
        /\ Cardinality(T \ {x}) = Cardinality(T) - 1
    <3> HIDE DEF Largest, Bad
    <3>1. QED BY <2>4, <2>5, OneLess
  <2>7. T \ {x} \notin Bad
    <3> HIDE DEF Bad
    <3>1. QED BY <2>3, <2>6
  <2>8. CASE T \ {x} = {}
    <3>1. \A y \in T : y = x
      BY <2>8
    <3>2. Largest(T, x)
      BY <2>4, <3>1
    <3>3. QED BY <2>4, <2>5, <3>2
  <2>9. CASE T \ {x} # {}
    <3>1. PICK m \in T \ {x} : Largest(T \ {x}, m)
      BY <2>4, <2>7, <2>9
    <3>2. m \in Nat /\ x \in Nat /\ T \subseteq Nat
      BY <2>4, <2>5
    <3>3. Largest(T, m) \/ Largest(T, x)
      BY <3>1, <3>2
    <3>4. QED BY <2>4, <3>1, <3>3
  <2>10. QED BY <2>8, <2>9
<1>2. \E m \in S : Largest(S, m)
  BY <1>1
<1>3. QED BY <1>2 DEF Max

----------------------------------------------------------------------------
(* Slices of what was laid end to end.                                      *)

\* f is the pieces q end to end, and a and c are cuts of it.
Pieced(C, n, q, f, cut, a, c) ==
  /\ n \in Nat /\ q \in [1..n -> Seq(C)] /\ f \in Seq(C) /\ cut \in [0..n -> Nat]
  /\ PiecesLie(f, q, n, cut)
  /\ a \in 0..n /\ c \in a..n

\* The place y is one of a piece between the cuts a and c.
InSomePiece(q, cut, a, c, y) ==
  \E k \in (a + 1)..c : \E x \in 1..Len(q[k]) : y = cut[k - 1] + x

\* t has the pieces between the cuts a and c in their places.
HasPieces(t, q, cut, a, c) ==
  \A k \in (a + 1)..c : \A x \in 1..Len(q[k]) : t[(cut[k - 1] - cut[a]) + x] = q[k][x]

Slice(f, cut, a, c) == SubSeq(f, cut[a] + 1, cut[c])

\* The cuts between pieces come in order.
LEMMA CutsInOrder ==
  ASSUME NEW C, NEW n, NEW q, NEW f, NEW cut, NEW a, NEW c, Pieced(C, n, q, f, cut, a, c)
  PROVE  /\ cut[a] \in Nat /\ cut[c] \in Nat /\ cut[a] <= cut[c]
         /\ cut[c] <= Len(f) /\ Len(f) \in Nat
<1> USE DEF Pieced
<1> DEFINE Bad == {k \in Nat : k \in a..n /\ ~(cut[a] <= cut[k])}
<1>1. Bad = {}
  <2> SUFFICES ASSUME Bad # {} PROVE FALSE
    OBVIOUS
  <2>1. Bad \subseteq Nat
    OBVIOUS
  <2> HIDE DEF Bad
  <2>2. PICK k \in Bad : \A l \in Bad : k <= l
    BY <2>1, LeastNat, Zenon
  <2>3. k \in a..n /\ ~(cut[a] <= cut[k]) /\ k \in Nat
    BY <2>2 DEF Bad
  <2>4. a \in Nat /\ a \in 0..n /\ k \in 0..n /\ cut[a] \in Nat /\ cut[k] \in Nat
    BY <2>3
  <2>5. k # a /\ k - 1 \in a..n /\ k - 1 \in Nat /\ k \in 1..n /\ k - 1 \in 0..n
    BY <2>3, <2>4
  <2>6. cut[a] <= cut[k - 1] /\ cut[k - 1] \in Nat
    BY <2>2, <2>5 DEF Bad
  <2>7. cut[k] = cut[k - 1] + Len(q[k]) /\ Len(q[k]) \in Nat
    BY <2>5 DEF PiecesLie
  <2>8. QED BY <2>3, <2>4, <2>6, <2>7
<1>2. c \in Nat /\ cut[a] <= cut[c] /\ cut[a] \in Nat /\ cut[c] \in Nat
  <2>1. c \in Nat /\ c \in a..n /\ a \in 0..n /\ c \in 0..n
    OBVIOUS
  <2>2. c \notin Bad
    BY <1>1
  <2>3. QED BY <2>1, <2>2
<1>3. cut[n] = Len(f) /\ \A k \in 1..n : cut[k] <= cut[n]
  BY DEF PiecesLie
<1>4. cut[c] <= cut[n]
  <2>1. CASE c = 0
    <3>1. cut[0] = 0 /\ cut[n] \in Nat
      BY DEF PiecesLie
    <3>2. QED BY <2>1, <3>1
  <2>2. CASE c # 0
    BY <1>2, <1>3, <2>2
  <2>3. QED BY <2>1, <2>2
<1>5. QED BY <1>2, <1>3, <1>4

\* Every place between two cuts is a place of a piece between them.
LEMMA InOnePiece ==
  ASSUME NEW C, NEW n, NEW q, NEW f, NEW cut, NEW a, NEW c, Pieced(C, n, q, f, cut, a, c),
         NEW y \in Nat, cut[a] < y, y <= cut[c]
  PROVE  InSomePiece(q, cut, a, c, y)
<1> USE DEF Pieced, InSomePiece
<1> DEFINE S == {k \in Nat : k \in a..c /\ y <= cut[k]}
<1>1. S \subseteq Nat /\ c \in S
  <2>1. c \in Nat /\ cut[c] \in Nat /\ cut[a] \in Nat
    OBVIOUS
  <2>2. QED BY <2>1
<1>2. PICK k \in S : \A l \in S : k <= l
  <2> HIDE DEF S
  <2>1. S # {}
    BY <1>1
  <2>2. QED BY <1>1, <2>1, LeastNat, Zenon
<1>3. k \in a..c /\ y <= cut[k] /\ a \in Nat /\ cut[a] \in Nat /\ cut[a] < y /\ y \in Nat
  OBVIOUS
<1>4. k # a /\ k \in (a + 1)..c /\ k - 1 \in a..c /\ k - 1 \in Nat /\ k \in 1..n /\ k - 1 \in 0..n
  BY <1>3
<1>5. ~(y <= cut[k - 1]) /\ cut[k - 1] \in Nat
  BY <1>2, <1>4
<1>6. cut[k] = cut[k - 1] + Len(q[k]) /\ Len(q[k]) \in Nat
  BY <1>4 DEF PiecesLie
<1> DEFINE u == cut[k - 1]
           v == cut[k]
           w == Len(q[k])
<1>7. y - u \in 1..w /\ y = u + (y - u)
  <2>1. ~(y <= u) /\ u \in Nat /\ v = u + w /\ w \in Nat /\ y <= v /\ y \in Nat
    BY <1>3, <1>5, <1>6
  <2> HIDE DEF u, v, w
  <2>2. QED BY <2>1
<1>8. QED BY <1>4, <1>7

\* What has the pieces between two cuts in their places is the slice between
\* those cuts.
LEMMA SliceByPieces ==
  ASSUME NEW C, NEW n, NEW q, NEW f, NEW cut, NEW a, NEW c, Pieced(C, n, q, f, cut, a, c),
         NEW t \in Seq(C), Len(t) = cut[c] - cut[a], HasPieces(t, q, cut, a, c)
  PROVE  t = Slice(f, cut, a, c)
<1>1. /\ n \in Nat /\ q \in [1..n -> Seq(C)] /\ f \in Seq(C) /\ cut \in [0..n -> Nat]
      /\ PiecesLie(f, q, n, cut) /\ a \in 0..n /\ c \in a..n
  BY DEF Pieced
<1>2. cut[a] \in Nat /\ cut[c] \in Nat /\ cut[a] <= cut[c] /\ cut[c] <= Len(f) /\ a \in Nat /\ c \in 0..n
  BY <1>1, CutsInOrder
<1> DEFINE l == cut[c] - cut[a]
           s == SubSeq(f, cut[a] + 1, cut[a] + l)
<1>3. l \in Nat /\ cut[a] + l = cut[c] /\ cut[a] + l <= Len(f)
  BY <1>1, <1>2
<1>4. s \in Seq(C) /\ Len(s) = l /\ \A x \in 1..l : s[x] = f[cut[a] + x]
  <2> DEFINE o == cut[a]
  <2>1. o \in Nat /\ l \in Nat /\ o + l <= Len(f)
    BY <1>2, <1>3
  <2> HIDE DEF l, o
  <2>2. /\ SubSeq(f, o + 1, o + l) \in Seq(C) /\ Len(SubSeq(f, o + 1, o + l)) = l
        /\ \A x \in 1..l : SubSeq(f, o + 1, o + l)[x] = f[o + x] /\ o + x \in 1..Len(f)
    BY <1>1, <2>1, SliceIs
  <2>3. QED BY <2>2 DEF o
<1>5. ASSUME NEW y \in 1..l PROVE t[y] = s[y]
  <2>1. cut[a] + y \in Nat /\ cut[a] < cut[a] + y /\ cut[a] + y <= cut[c]
    BY <1>2
  <2>2. InSomePiece(q, cut, a, c, cut[a] + y)
    BY <2>1, InOnePiece
  <2> PICK k \in (a + 1)..c : \E x \in 1..Len(q[k]) : cut[a] + y = cut[k - 1] + x
    BY <2>2 DEF InSomePiece
  <2>3. PICK x \in 1..Len(q[k]) : cut[a] + y = cut[k - 1] + x
    OBVIOUS
  <2>4. k \in 1..n /\ k - 1 \in 0..n /\ k - 1 \in Nat
    BY <1>1, <1>2
  <2>5. f[cut[k - 1] + x] = q[k][x] /\ t[(cut[k - 1] - cut[a]) + x] = q[k][x]
    BY <1>1, <2>4 DEF PiecesLie, HasPieces
  <2>6. y = (cut[k - 1] - cut[a]) + x
    <3> DEFINE u == cut[k - 1]
               o == cut[a]
    <3>1. u \in Nat /\ o \in Nat /\ x \in Int /\ y \in Int /\ o + y = u + x
      BY <1>1, <1>2, <2>3, <2>4
    <3> HIDE DEF u, o
    <3>2. y = (u - o) + x
      BY <3>1
    <3>3. QED BY <3>2 DEF u, o
  <2>7. QED BY <1>4, <2>3, <2>5, <2>6
<1> HIDE DEF s, l
<1>6. Len(t) = l /\ t \in Seq(C)
  BY DEF l
<1>7. t = s
  BY <1>3, <1>4, <1>5, <1>6
<1>8. QED BY <1>3, <1>7 DEF s, Slice

\* r is the pieces of q between a and c.
PiecesFrom(C, q, a, c, r) ==
  r \in [1..(c - a) -> Seq(C)] /\ \A k \in 1..(c - a) : r[k] = q[a + k]

\* Joining only the pieces between two cuts gives the slice between them.
LEMMA SliceOfPieces ==
  ASSUME NEW C, NEW n, NEW q, NEW f, NEW cut, NEW a, NEW c, Pieced(C, n, q, f, cut, a, c),
         NEW r, PiecesFrom(C, q, a, c, r)
  PROVE  FlattenSeq(r) = Slice(f, cut, a, c)
<1>1. /\ n \in Nat /\ q \in [1..n -> Seq(C)] /\ f \in Seq(C) /\ cut \in [0..n -> Nat]
      /\ PiecesLie(f, q, n, cut) /\ a \in 0..n /\ c \in a..n
      /\ r \in [1..(c - a) -> Seq(C)] /\ \A k \in 1..(c - a) : r[k] = q[a + k]
  BY DEF Pieced, PiecesFrom
<1> DEFINE m == c - a
<1> USE <1>1
<1>2. m \in Nat /\ a \in Nat /\ c = a + m /\ \A k \in 1..m : a + k \in 1..n /\ (a + k) - 1 = a + (k - 1)
  OBVIOUS
<1>3. FlattenSeq(r) \in Seq(C) /\ \E h \in [0..m -> Nat] : PiecesLie(FlattenSeq(r), r, m, h)
  BY <1>2, FlattenLays
<1>4. PICK h \in [0..m -> Nat] : PiecesLie(FlattenSeq(r), r, m, h)
  BY <1>3
<1> HIDE DEF m
<1> DEFINE t == FlattenSeq(r)
           Bad == {k \in Nat : k \in 0..m /\ cut[a + k] # cut[a] + h[k]}
<1>5. Bad = {}
  <2> SUFFICES ASSUME Bad # {} PROVE FALSE
    OBVIOUS
  <2>1. Bad \subseteq Nat
    OBVIOUS
  <2> HIDE DEF Bad
  <2>2. PICK k \in Bad : \A l \in Bad : k <= l
    BY <2>1, LeastNat, Zenon
  <2>3. k \in 0..m /\ cut[a + k] # cut[a] + h[k] /\ k \in Nat
    BY <2>2 DEF Bad
  <2>4. cut[a] \in Nat /\ h[0] = 0 /\ a + 0 = a
    BY <1>2, <1>4 DEF PiecesLie
  <2>5. k # 0
    BY <2>3, <2>4
  <2>6. k - 1 \in 0..m /\ k - 1 \in Nat /\ k \in 1..m
    BY <1>2, <2>3, <2>5
  <2>7. cut[a + (k - 1)] = cut[a] + h[k - 1] /\ h[k - 1] \in Nat
    <3>1. k - 1 \notin Bad
      <4>1. \A j \in Bad : j \in Nat /\ k <= j
        BY <2>1, <2>2
      <4> HIDE DEF Bad
      <4>2. QED BY <2>6, <4>1
    <3>2. QED BY <2>6, <3>1 DEF Bad
  <2>8. h[k] = h[k - 1] + Len(r[k]) /\ r[k] = q[a + k]
    BY <1>4, <2>6 DEF PiecesLie, m
  <2>9. cut[a + k] = cut[a + (k - 1)] + Len(q[a + k])
    <3>1. a + k \in 1..n /\ (a + k) - 1 = a + (k - 1)
      BY <1>2, <2>6
    <3>2. cut[a + k] = cut[(a + k) - 1] + Len(q[a + k])
      BY <3>1 DEF PiecesLie
    <3>3. QED BY <3>1, <3>2
  <2>10. Len(q[a + k]) \in Nat
    BY <1>2, <2>6
  <2>11. cut[a + k] = (cut[a] + h[k - 1]) + Len(r[k]) /\ cut[a] + h[k] = cut[a] + (h[k - 1] + Len(r[k]))
    BY <2>7, <2>8, <2>9
  <2> DEFINE u == h[k - 1]
             w == Len(r[k])
             o == cut[a]
  <2>12. u \in Nat /\ w \in Nat /\ o \in Nat
    BY <2>4, <2>7, <2>8, <2>10
  <2> HIDE DEF u, w, o
  <2>13. (o + u) + w = o + (u + w)
    BY <2>12
  <2>14. QED BY <2>3, <2>11, <2>13 DEF u, w, o
<1>6. \A k \in 0..m : cut[a + k] = cut[a] + h[k] /\ h[k] \in Nat /\ k \in Nat
  <2> SUFFICES ASSUME NEW k \in 0..m PROVE cut[a + k] = cut[a] + h[k] /\ h[k] \in Nat /\ k \in Nat
    OBVIOUS
  <2>1. k \in Nat /\ h[k] \in Nat
    BY <1>2
  <2>2. k \notin Bad
    BY <1>5
  <2>3. QED BY <2>1, <2>2
<1>7. cut[a] \in Nat
  OBVIOUS
<1>8. Len(t) = cut[c] - cut[a]
  <2>1. Len(t) = h[m]
    BY <1>4 DEF PiecesLie
  <2>2. m \in 0..m
    BY <1>2
  <2>3. QED BY <1>2, <1>6, <1>7, <2>1, <2>2
<1>9. ASSUME NEW k \in (a + 1)..c, NEW x \in 1..Len(q[k])
      PROVE  t[(cut[k - 1] - cut[a]) + x] = q[k][x]
  <2> DEFINE j == k - a
  <2>1. j \in 1..m /\ k = a + j /\ k - 1 = a + (j - 1) /\ j - 1 \in 0..m
    BY <1>2
  <2> HIDE DEF j
  <2>2. r[j] = q[k]
    BY <2>1 DEF m
  <2>3. t[h[j - 1] + x] = r[j][x]
    BY <1>4, <2>1, <2>2 DEF PiecesLie
  <2>4. cut[k - 1] = cut[a] + h[j - 1] /\ h[j - 1] \in Nat
    BY <1>6, <2>1
  <2>5. cut[k - 1] - cut[a] = h[j - 1]
    <3> DEFINE u == h[j - 1]
               o == cut[a]
    <3>1. u \in Nat /\ o \in Nat /\ cut[k - 1] = o + u
      BY <1>7, <2>4
    <3> HIDE DEF u, o
    <3>2. (o + u) - o = u
      BY <3>1
    <3>3. QED BY <3>1, <3>2 DEF u, o
  <2>6. QED BY <2>2, <2>3, <2>5
<1>10. t \in Seq(C)
  BY <1>3
<1> HIDE DEF t
<1>11. HasPieces(t, q, cut, a, c)
  BY <1>9 DEF HasPieces
<1>12. t = Slice(f, cut, a, c)
  <2>1. Pieced(C, n, q, f, cut, a, c)
    OBVIOUS
  <2>2. QED BY ONLY <1>8, <1>10, <1>11, <2>1, SliceByPieces
<1>13. QED BY <1>12 DEF t

\* The members up to some place are in order what the first of all are.
LEMMA AscendingInitial ==
  ASSUME NEW S, IsFiniteSet(S), S \subseteq Nat, NEW l \in Int
  PROVE  LET T == {x \in S : x <= l} IN
         /\ IsFiniteSet(T) /\ T \subseteq S
         /\ Cardinality(T) \in Nat /\ Cardinality(S) \in Nat /\ Cardinality(T) <= Cardinality(S)
         /\ \A k \in 1..Cardinality(T) :
              k \in 1..Cardinality(S) /\ Ascending(T)[k] = Ascending(S)[k]
         /\ \A k \in 1..Cardinality(S) : k <= Cardinality(T) <=> Ascending(S)[k] <= l
<1> DEFINE T == {x \in S : x <= l}
<1>1. IsFiniteSet(T) /\ T \subseteq S /\ T \subseteq Nat
  BY FS_Subset
<1>2. Cardinality(T) \in Nat /\ Cardinality(S) \in Nat /\ Cardinality(T) <= Cardinality(S)
  BY <1>1, FS_Subset, FS_CardinalityType
<1>3. \A x \in T : Below(T, x) = Below(S, x)
  <2> SUFFICES ASSUME NEW x \in T PROVE Below(T, x) = Below(S, x)
    OBVIOUS
  <2>1. \A j \in S : j < x => j <= l
    OBVIOUS
  <2>2. QED BY <2>1 DEF Below
<1> HIDE DEF T
<1>4. /\ Ascending(T) \in [1..Cardinality(T) -> T]
      /\ \A k \in 1..Cardinality(T) : Cardinality(Below(T, Ascending(T)[k])) = k - 1
      /\ \A i \in T : \E k \in 1..Cardinality(T) : Ascending(T)[k] = i
  BY <1>1, AscendingIsSorted
<1>5. /\ Ascending(S) \in [1..Cardinality(S) -> S]
      /\ \A k \in 1..Cardinality(S) : Cardinality(Below(S, Ascending(S)[k])) = k - 1
      /\ \A i \in S : \E k \in 1..Cardinality(S) : Ascending(S)[k] = i
  BY AscendingIsSorted
<1>6. ASSUME NEW k \in 1..Cardinality(T)
      PROVE  k \in 1..Cardinality(S) /\ Ascending(T)[k] = Ascending(S)[k]
  <2>1. Ascending(T)[k] \in T /\ Ascending(T)[k] \in S
    BY <1>1, <1>4
  <2>2. PICK j \in 1..Cardinality(S) : Ascending(S)[j] = Ascending(T)[k]
    BY <1>5, <2>1
  <2>3. j - 1 = k - 1
    BY <1>3, <1>4, <1>5, <2>1, <2>2
  <2>4. j = k
    BY <1>2, <2>3
  <2>5. QED BY <2>2, <2>4
<1>7. ASSUME NEW k \in 1..Cardinality(S) PROVE k <= Cardinality(T) <=> Ascending(S)[k] <= l
  <2>1. ASSUME k <= Cardinality(T) PROVE Ascending(S)[k] <= l
    <3>1. k \in 1..Cardinality(T)
      BY <1>2, <2>1
    <3>2. Ascending(S)[k] \in T
      BY <1>4, <1>6, <3>1
    <3>3. QED BY <3>2 DEF T
  <2>2. ASSUME Ascending(S)[k] <= l PROVE k <= Cardinality(T)
    <3>1. Ascending(S)[k] \in S
      BY <1>5
    <3>2. Ascending(S)[k] \in T
      BY <2>2, <3>1 DEF T
    <3>3. PICK j \in 1..Cardinality(T) : Ascending(T)[j] = Ascending(S)[k]
      BY <1>4, <3>2
    <3>4. j \in 1..Cardinality(S) /\ Ascending(S)[j] = Ascending(S)[k]
      BY <1>6, <3>3
    <3>5. j - 1 = k - 1
      BY <1>5, <3>4
    <3>6. j = k
      BY <1>2, <3>5
    <3>7. QED BY <1>2, <3>3, <3>6
  <2>3. QED BY <2>1, <2>2
<1>8. QED BY <1>1, <1>2, <1>6, <1>7 DEF T
=============================================================================
