--------------------------- MODULE Pipeline_proofs ---------------------------
(***************************************************************************)
(* Proofs about the packet path and the erasure batches in it, for every   *)
(* set of codewords and productions, every schedule and every cap.         *)
(***************************************************************************)
EXTENDS Pipeline, FiniteSetTheorems, WellFoundedInduction, TLAPS

----------------------------------------------------------------------------
(* That Min of FiniteSetsExt has something to choose.                     *)

\* The smaller of two integers is one of them and no larger than the other.
LEMMA MinOfTwo ==
  ASSUME NEW a \in Int, NEW b \in Int
  PROVE  Min({a, b}) \in {a, b} /\ Min({a, b}) <= a /\ Min({a, b}) <= b
<1>1. \E x \in {a, b} : \A y \in {a, b} : x <= y
  <2>1. CASE a <= b BY <2>1
  <2>2. CASE b < a BY <2>2
  <2>3. QED BY <2>1, <2>2
<1>2. QED BY <1>1 DEF Min

\* A non-empty set of naturals has a smallest member, and Min is it.
LEMMA MinExists ==
  ASSUME NEW S, S \subseteq Nat, S # {}
  PROVE  Min(S) \in S /\ \A x \in S : Min(S) <= x
<1>1. PICK u \in S : \A y \in S : ~(<<y, u>> \in OpToRel(<, Nat))
  BY WFMin, NatLessThanWellFounded, Zenon
<1>2. \A y \in S : u <= y
  <2>1. \A y \in S : ~(y < u)
    BY <1>1 DEF OpToRel
  <2>2. QED BY <2>1
<1>3. QED BY <1>1, <1>2 DEF Min

----------------------------------------------------------------------------
(* The wire format.                                                         *)

LEMMA TrailerBounds ==
  ASSUME NEW v \in Variant
  PROVE  Trailer(v) \in 0..364
<1>1. v.proof \in 0..15 /\ v.resigned \in BOOLEAN
  BY DEF Variant
<1>2. CASE v.resigned
  BY <1>1, <1>2 DEF Trailer, PROOF_ENTRY, SIGNATURE
<1>3. CASE ~v.resigned
  BY <1>1, <1>3 DEF Trailer, PROOF_ENTRY, SIGNATURE
<1>4. QED BY <1>2, <1>3

\* Of every datagram that parses, whatever its fields claim, what is read lies
\* in the bytes its signature is over (parse_data, parse_coding against
\* proof_offset).
THEOREM ReadIsSigned ==
  ASSUME NEW p, NEW version,
         p.variant \in Variant, p.length \in Int, p.size \in Int
  PROVE  ReadsSigned(p, version)
<1> DEFINE t == Trailer(p.variant)
<1>1. t \in 0..364
  BY TrailerBounds
<1> HIDE DEF t
<1>2. ShardLen(p.variant) = 1107 - t
  BY <1>1 DEF t, ShardLen, MAX_SHARD, CODE_PAYLOAD, SIGNATURE, CODE_HEADERS, MERKLE_ROOT
<1>3. p.variant.type \in {"data", "coding", "other"}
  BY DEF Variant
<1>4. SUFFICES ASSUME Parsed(p, version)
               PROVE  /\ HeadersEnd(p) <= ShardEnd(p)
                      /\ ShardEnd(p) + MERKLE_ROOT = ProofOffset(p.variant)
                      /\ ShardEnd(p) <= p.length
                      /\ p.variant.type = "data" => p.size \in HeadersEnd(p)..ShardEnd(p)
  BY DEF ReadsSigned
<1>5. CASE p.variant.type = "data"
  <2>1. HeadersEnd(p) = 88 /\ ShardEnd(p) = 1171 - t
    BY <1>1, <1>2, <1>5 DEF HeadersEnd, ShardEnd, SIGNATURE, DATA_HEADERS
  <2>2. ProofOffset(p.variant) = 1203 - t
    BY <1>1, <1>5 DEF t, ProofOffset, DATA_PAYLOAD, CODE_PAYLOAD, CODE_HEADERS, SIGNATURE
  <2>3. DataSound(p, p.length - SIGNATURE, version)
    BY <1>4, <1>5 DEF Parsed
  <2>4. 1107 - t <= p.length - 64 /\ p.size - 64 \in 24..(1107 - t)
    BY <1>2, <2>3 DEF DataSound, SIGNATURE, DATA_HEADERS
  <2>5. QED BY <1>1, <2>1, <2>2, <2>4 DEF MERKLE_ROOT
<1>6. CASE p.variant.type = "coding"
  <2>1. HeadersEnd(p) = 89 /\ ShardEnd(p) = 1196 - t
    BY <1>1, <1>2, <1>6 DEF HeadersEnd, ShardEnd, SIGNATURE, CODE_HEADERS
  <2>2. ProofOffset(p.variant) = 1228 - t
    BY <1>1, <1>6 DEF t, ProofOffset, CODE_PAYLOAD
  <2>3. CodingSound(p, p.length - SIGNATURE, version)
    BY <1>4, <1>6 DEF Parsed
  <2>4. 25 + (1107 - t) <= p.length - 64
    BY <1>2, <2>3 DEF CodingSound, SIGNATURE, CODE_HEADERS
  <2>5. QED BY <1>1, <1>6, <2>1, <2>2, <2>4 DEF MERKLE_ROOT
<1>7. QED BY <1>3, <1>4, <1>5, <1>6 DEF Parsed

----------------------------------------------------------------------------
(* Codewords and the shreds of a batch.                                     *)

AllOf(w) == {[word |-> w, at |-> i] : i \in 0..(Words[w].num_data - 1)}

\* The shreds of a batch that may come.
Of(ws, k) == {s \in Shreds : s.word \in ws /\ Key(s) = k}

OnceIn(ws, k) == \A v, w \in ws : Words[v].key = k /\ Words[w].key = k => v = w

LEMMA WordSizes ==
  ASSUME NEW w \in DOMAIN Words
  PROVE  /\ Words[w].num_data \in Nat \ {0} /\ Words[w].num_coding \in Nat \ {0}
         /\ Total(w) \in Nat /\ Words[w] # NoLayout
BY ErasureAssumption DEF Total, NoLayout

LEMMA ShredTyped ==
  ASSUME NEW s \in Shreds
  PROVE  /\ s.word \in DOMAIN Words /\ s.at \in Nat /\ s.at < Total(s.word)
         /\ s = [word |-> s.word, at |-> s.at]
<1>1. PICK w \in DOMAIN Words : \E i \in 0..(Total(w) - 1) : s = [word |-> w, at |-> i]
  BY DEF Shreds
<1>2. Total(w) \in Nat
  BY WordSizes
<1>3. QED BY <1>1, <1>2

LEMMA OnlyOne ==
  ASSUME NEW w \in wire, OnceIn(wire, Words[w].key)
  PROVE  Only(Words[w].key) = w /\ AllData(Words[w].key) = AllOf(w)
BY DEF OnceIn, Only, AllData, AllOf

LEMMA AllCounted ==
  ASSUME NEW w \in DOMAIN Words
  PROVE  IsFiniteSet(AllOf(w)) /\ Cardinality(AllOf(w)) = Words[w].num_data
<1> DEFINE n == Words[w].num_data
           f == [i \in 0..(n - 1) |-> [word |-> w, at |-> i]]
<1>1. n \in Nat \ {0}
  BY WordSizes
<1> HIDE DEF n
<1>2. f \in Bijection(0..(n - 1), AllOf(w))
  BY DEF Bijection, Injection, Surjection, IsInjective, AllOf, n
<1>3. ExistsBijection(0..(n - 1), AllOf(w))
  BY <1>2 DEF ExistsBijection
<1>4. IsFiniteSet(0..(n - 1)) /\ Cardinality(0..(n - 1)) = n
  BY <1>1, FS_Interval
<1>5. QED BY <1>3, <1>4, FS_Bijection DEF n

\* As many shards as shreds they hold, if no shred is held twice.
LEMMA SameCount ==
  ASSUME NEW f, IsFiniteSet(DOMAIN f),
         \A i, j \in DOMAIN f : f[i] = f[j] => i = j
  PROVE  LET r == {f[i] : i \in DOMAIN f} IN
         IsFiniteSet(r) /\ Cardinality(r) = Cardinality(DOMAIN f)
<1> DEFINE r == {f[i] : i \in DOMAIN f}
           g == [i \in DOMAIN f |-> f[i]]
<1>1. g \in Bijection(DOMAIN f, r)
  BY DEF Bijection, Injection, Surjection, IsInjective
<1>2. ExistsBijection(DOMAIN f, r)
  BY <1>1 DEF ExistsBijection
<1>3. QED BY <1>2, FS_Bijection

----------------------------------------------------------------------------
(* One batch.                                                               *)

\* What an unresolved batch holds of the shreds that came of it.  Of two
\* productions of it, either may have the place.
Filled(ws, k, set, T) ==
  /\ set = [data |-> set.data, coding |-> set.coding, layout |-> set.layout, resolved |-> FALSE]
  /\ T \subseteq Of(ws, k)
  /\ IsFiniteSet(DOMAIN set.data) /\ IsFiniteSet(DOMAIN set.coding)
  /\ \A i \in DOMAIN set.data :
       set.data[i] \in T /\ IsData(set.data[i]) /\ set.data[i].at = i
  /\ \A p \in DOMAIN set.coding :
       /\ p \in Int /\ set.coding[p] \in T /\ ~IsData(set.coding[p])
       /\ set.coding[p].at = Words[set.coding[p].word].num_data + p
  /\ \A s \in T : IF IsData(s) THEN s.at \in DOMAIN set.data
                  ELSE s.at - Words[s.word].num_data \in DOMAIN set.coding
  /\ IF set.layout = NoLayout THEN \A s \in T : IsData(s)
     ELSE \E s \in T : ~IsData(s) /\ set.layout = Words[s.word]

LEMMA OrInserted ==
  ASSUME NEW f, NEW i, NEW s
  PROVE  LET g == OrInsert(f, i, s) IN
         /\ DOMAIN g = DOMAIN f \cup {i}
         /\ \A j \in DOMAIN g : IF j \in DOMAIN f THEN g[j] = f[j] ELSE j = i /\ g[j] = s
         /\ IsFiniteSet(DOMAIN f) => IsFiniteSet(DOMAIN g)
<1>1. IsFiniteSet(DOMAIN f) => IsFiniteSet(DOMAIN f \cup {i})
  BY FS_AddElement
<1>2. QED BY <1>1 DEF OrInsert

LEMMA OfTyped ==
  ASSUME NEW ws, NEW k, NEW s \in Of(ws, k)
  PROVE  /\ s \in Shreds /\ s.word \in ws /\ Key(s) = k
         /\ s.word \in DOMAIN Words /\ s.at \in Nat /\ s.at < Total(s.word)
         /\ s = [word |-> s.word, at |-> s.at]
         /\ Words[s.word].num_data \in Nat \ {0} /\ Words[s.word].num_coding \in Nat \ {0}
         /\ Words[s.word] # NoLayout
BY ShredTyped, WordSizes DEF Of

LEMMA NewFilled == \A ws, k : Filled(ws, k, NewSet, {})
BY FS_EmptySet DEF Filled, NewSet

LEMMA DataFilled ==
  ASSUME NEW ws, NEW k, NEW set, NEW T, Filled(ws, k, set, T),
         NEW s \in Of(ws, k), IsData(s)
  PROVE  Filled(ws, k, [set EXCEPT !.data = OrInsert(@, s.at, s)], T \cup {s})
<1> DEFINE g == OrInsert(set.data, s.at, s)
           given == [set EXCEPT !.data = OrInsert(@, s.at, s)]
<1>1. /\ DOMAIN g = DOMAIN set.data \cup {s.at}
      /\ \A j \in DOMAIN g : IF j \in DOMAIN set.data THEN g[j] = set.data[j] ELSE j = s.at /\ g[j] = s
      /\ IsFiniteSet(DOMAIN set.data) => IsFiniteSet(DOMAIN g)
  BY OrInserted
<1>2. /\ given = [data |-> g, coding |-> set.coding, layout |-> set.layout, resolved |-> FALSE]
      /\ given.data = g /\ given.coding = set.coding /\ given.layout = set.layout
  <2> HIDE DEF g
  <2>1. PICK a, b, c : set = [data |-> a, coding |-> b, layout |-> c, resolved |-> FALSE]
    BY DEF Filled
  <2>2. given = [set EXCEPT !.data = g]
    BY DEF g
  <2> HIDE DEF given
  <2>3. QED BY <2>1, <2>2
<1> HIDE DEF g, given
<1>3. IsFiniteSet(DOMAIN g) /\ IsFiniteSet(DOMAIN set.coding) /\ T \cup {s} \subseteq Of(ws, k)
  BY <1>1 DEF Filled
<1>4. \A i \in DOMAIN g : g[i] \in T \cup {s} /\ IsData(g[i]) /\ g[i].at = i
  BY <1>1 DEF Filled
<1>5. \A x \in T \cup {s} : IF IsData(x) THEN x.at \in DOMAIN g
                            ELSE x.at - Words[x.word].num_data \in DOMAIN set.coding
  BY <1>1 DEF Filled
<1>6. IF set.layout = NoLayout THEN \A x \in T \cup {s} : IsData(x)
      ELSE \E x \in T \cup {s} : ~IsData(x) /\ set.layout = Words[x.word]
  BY DEF Filled
<1>7. Filled(ws, k, given, T \cup {s})
  BY <1>2, <1>3, <1>4, <1>5, <1>6 DEF Filled
<1>8. QED BY <1>7 DEF given

LEMMA CodingFilled ==
  ASSUME NEW ws, NEW k, NEW set, NEW T, Filled(ws, k, set, T),
         NEW s \in Of(ws, k), ~IsData(s)
  PROVE  Filled(ws, k, [set EXCEPT !.layout = Words[s.word],
                          !.coding = OrInsert(@, s.at - Words[s.word].num_data, s)], T \cup {s})
<1> DEFINE p == s.at - Words[s.word].num_data
           g == OrInsert(set.coding, p, s)
           given == [set EXCEPT !.layout = Words[s.word],
                       !.coding = OrInsert(@, s.at - Words[s.word].num_data, s)]
<1>1. s.at \in Nat /\ Words[s.word].num_data \in Nat /\ Words[s.word] # NoLayout
  BY OfTyped
<1>2. /\ DOMAIN g = DOMAIN set.coding \cup {p}
      /\ \A j \in DOMAIN g : IF j \in DOMAIN set.coding THEN g[j] = set.coding[j] ELSE j = p /\ g[j] = s
      /\ IsFiniteSet(DOMAIN set.coding) => IsFiniteSet(DOMAIN g)
  <2> HIDE DEF p
  <2>1. QED BY OrInserted
<1>3. /\ given = [data |-> set.data, coding |-> g, layout |-> Words[s.word], resolved |-> FALSE]
      /\ given.data = set.data /\ given.coding = g /\ given.layout = Words[s.word]
  <2> HIDE DEF g
  <2>1. PICK a, b, c : set = [data |-> a, coding |-> b, layout |-> c, resolved |-> FALSE]
    BY DEF Filled
  <2>2. given = [set EXCEPT !.layout = Words[s.word], !.coding = g]
    BY DEF g
  <2> HIDE DEF given
  <2>3. QED BY <2>1, <2>2
<1>4. p \in Int /\ s.at = Words[s.word].num_data + p
  BY <1>1
<1>5. p = s.at - Words[s.word].num_data
  OBVIOUS
<1> HIDE DEF g, given, p
<1>6. IsFiniteSet(DOMAIN g) /\ IsFiniteSet(DOMAIN set.data) /\ T \cup {s} \subseteq Of(ws, k)
  BY <1>2 DEF Filled
<1>7. \A j \in DOMAIN g :
        /\ j \in Int /\ g[j] \in T \cup {s} /\ ~IsData(g[j])
        /\ g[j].at = Words[g[j].word].num_data + j
  BY <1>2, <1>4 DEF Filled
<1>8. \A x \in T \cup {s} : IF IsData(x) THEN x.at \in DOMAIN set.data
                            ELSE x.at - Words[x.word].num_data \in DOMAIN g
  BY <1>2, <1>5 DEF Filled
<1>9. \A i \in DOMAIN set.data : set.data[i] \in T \cup {s} /\ IsData(set.data[i]) /\ set.data[i].at = i
  BY DEF Filled
<1>10. Filled(ws, k, given, T \cup {s})
  BY <1>1, <1>3, <1>6, <1>7, <1>8, <1>9 DEF Filled
<1>11. QED BY <1>10 DEF given

\* Of a batch its leader produced once, everything held is in its place.
LEMMA InPlace ==
  ASSUME NEW ws, NEW k, NEW set, NEW T, Filled(ws, k, set, T), OnceIn(ws, k),
         NEW w \in ws, w \in DOMAIN Words, Words[w].key = k, set.layout = Words[w]
  PROVE  /\ \A i \in DOMAIN set.data :
              /\ i \in 0..(Words[w].num_data - 1)
              /\ set.data[i].at = i /\ set.data[i] = [word |-> w, at |-> i]
         /\ \A p \in DOMAIN set.coding :
              /\ p \in 0..(Words[w].num_coding - 1)
              /\ set.coding[p].at = Words[w].num_data + p
              /\ set.coding[p] = [word |-> w, at |-> Words[w].num_data + p]
         /\ HaveData(set) = DOMAIN set.data
         /\ Usable(set.coding, set.layout.num_coding, set.layout) = DOMAIN set.coding
         /\ \A i \in 0..(Words[w].num_data - 1) :
              [word |-> w, at |-> i] \in T <=> i \in DOMAIN set.data
<1> DEFINE d == Words[w].num_data
           c == Words[w].num_coding
<1>1. d \in Nat \ {0} /\ c \in Nat \ {0} /\ Total(w) = d + c
  BY WordSizes DEF Total
<1>2. \A s \in T : s.word = w /\ s.at \in Nat /\ s.at < d + c /\ s = [word |-> s.word, at |-> s.at]
  <2>1. SUFFICES ASSUME NEW s \in T
                 PROVE  /\ s.word = w /\ s.at \in Nat /\ s.at < d + c
                        /\ s = [word |-> s.word, at |-> s.at]
    OBVIOUS
  <2>2. s \in Of(ws, k)
    BY DEF Filled
  <2>3. s.word \in ws /\ Words[s.word].key = k
    BY <2>2, OfTyped DEF Key
  <2>4. s.word = w
    BY <2>3 DEF OnceIn
  <2>5. QED BY <1>1, <2>2, <2>4, OfTyped
<1> HIDE DEF d, c
<1>3. \A s \in T : IsData(s) <=> s.at < d
  BY <1>2 DEF IsData, d
<1>4. \A i \in DOMAIN set.data : set.data[i] \in T /\ IsData(set.data[i]) /\ set.data[i].at = i
  BY DEF Filled
<1>5. \A p \in DOMAIN set.coding :
        p \in Int /\ set.coding[p] \in T /\ ~IsData(set.coding[p]) /\ set.coding[p].at = d + p
  BY <1>2 DEF Filled, d
<1>6. \A i \in DOMAIN set.data : i \in 0..(d - 1) /\ set.data[i] = [word |-> w, at |-> i]
  BY <1>1, <1>2, <1>3, <1>4
<1>7. \A p \in DOMAIN set.coding : p \in 0..(c - 1) /\ set.coding[p] = [word |-> w, at |-> d + p]
  BY <1>1, <1>2, <1>3, <1>5
<1>8. HaveData(set) = DOMAIN set.data
  <2>1. \A i \in DOMAIN set.data : i < d /\ set.data[i].word = w
    BY <1>1, <1>2, <1>4, <1>6
  <2>2. QED BY <2>1 DEF HaveData, Usable, d
<1>9. Usable(set.coding, set.layout.num_coding, set.layout) = DOMAIN set.coding
  <2>1. \A p \in DOMAIN set.coding : p < c /\ set.coding[p].word = w
    BY <1>1, <1>2, <1>5, <1>7
  <2>2. QED BY <2>1 DEF Usable, c
<1>10. \A i \in 0..(d - 1) : [word |-> w, at |-> i] \in T <=> i \in DOMAIN set.data
  <2>1. SUFFICES ASSUME NEW i \in 0..(d - 1)
                 PROVE  [word |-> w, at |-> i] \in T <=> i \in DOMAIN set.data
    OBVIOUS
  <2>2. i \in DOMAIN set.data => [word |-> w, at |-> i] \in T
    BY <1>4, <1>6
  <2>3. ASSUME [word |-> w, at |-> i] \in T PROVE i \in DOMAIN set.data
    <3> DEFINE s == [word |-> w, at |-> i]
    <3>1. s.at = i /\ IsData(s)
      BY <1>1, <1>3, <2>3
    <3>2. s \in T /\ \A x \in T : IsData(x) => x.at \in DOMAIN set.data
      BY <2>3 DEF Filled
    <3> HIDE DEF s
    <3>3. QED BY <3>1, <3>2
  <2>4. QED BY <2>2, <2>3
<1>11. QED BY <1>4, <1>5, <1>6, <1>7, <1>8, <1>9, <1>10 DEF d, c

LEMMA TakenCounted ==
  ASSUME NEW ws, NEW k, NEW set, NEW T, Filled(ws, k, set, T), OnceIn(ws, k),
         NEW w \in ws, w \in DOMAIN Words, Words[w].key = k, set.layout = Words[w]
  PROVE  /\ Cardinality(T) \in Nat
         /\ Cardinality(HaveData(set)) \in Nat
         /\ Cardinality(Usable(set.coding, set.layout.num_coding, set.layout)) \in Nat
         /\ Cardinality(T) = Cardinality(HaveData(set))
              + Cardinality(Usable(set.coding, set.layout.num_coding, set.layout))
<1> DEFINE d == Words[w].num_data
           D == DOMAIN set.data
           C == DOMAIN set.coding
           TD == {set.data[i] : i \in DOMAIN set.data}
           TC == {set.coding[p] : p \in DOMAIN set.coding}
<1>1. d \in Nat \ {0}
  BY WordSizes
<1>2. /\ \A i \in D : i \in 0..(d - 1) /\ set.data[i].at = i /\ set.data[i] = [word |-> w, at |-> i]
      /\ \A p \in C : p \in Nat /\ set.coding[p].at = d + p /\ set.coding[p] = [word |-> w, at |-> d + p]
      /\ HaveData(set) = D
      /\ Usable(set.coding, set.layout.num_coding, set.layout) = C
  <2>1. \A i, n \in Int : i \in 0..n => i \in Nat
    OBVIOUS
  <2>2. QED BY InPlace
<1> HIDE DEF d
<1>3. IsFiniteSet(D) /\ IsFiniteSet(C)
  BY DEF Filled
<1>4. IsFiniteSet(TD) /\ Cardinality(TD) = Cardinality(D)
  <2>1. \A i, j \in D : set.data[i] = set.data[j] => i = j
    BY <1>2
  <2>2. QED BY <1>3, <2>1, SameCount
<1>5. IsFiniteSet(TC) /\ Cardinality(TC) = Cardinality(C)
  <2>1. \A i, j \in C : set.coding[i] = set.coding[j] => i = j
    <3>1. SUFFICES ASSUME NEW i \in C, NEW j \in C, set.coding[i] = set.coding[j] PROVE i = j
      OBVIOUS
    <3>2. d + i = d + j /\ i \in Nat /\ j \in Nat
      BY <1>2, <3>1
    <3>3. QED BY <1>1, <3>2
  <2>2. QED BY <1>3, <2>1, SameCount
<1>6. TD \cap TC = {}
  <2>1. SUFFICES ASSUME NEW i \in D, NEW p \in C, set.data[i] = set.coding[p] PROVE FALSE
    OBVIOUS
  <2>2. i = d + p /\ i \in 0..(d - 1) /\ p \in Nat
    BY <1>2, <2>1, ZenonT(60)
  <2>3. QED BY <1>1, <2>2
<1>7. T = TD \cup TC
  <2>1. TD \subseteq T /\ TC \subseteq T
    BY DEF Filled
  <2>2. ASSUME NEW s \in T PROVE s \in TD \cup TC
    <3>1. s \in Of(ws, k)
      BY DEF Filled
    <3>2. s.word = w
      BY <3>1, OfTyped DEF OnceIn, Key
    <3>3. s = [word |-> w, at |-> s.at] /\ s.at \in Nat
      BY <3>1, <3>2, OfTyped
    <3>4. CASE IsData(s)
      <4>1. s.at \in D
        BY <3>4 DEF Filled
      <4>2. QED BY <1>2, <3>3, <4>1
    <3>5. CASE ~IsData(s)
      <4>1. s.at - d \in C
        BY <3>2, <3>5 DEF Filled, d
      <4>2. set.coding[s.at - d] = [word |-> w, at |-> d + (s.at - d)]
        BY <1>2, <4>1
      <4>3. d + (s.at - d) = s.at
        BY <1>1, <3>3
      <4>4. QED BY <3>3, <4>1, <4>2, <4>3
    <3>6. QED BY <3>4, <3>5
  <2>3. QED BY <2>1, <2>2
<1> HIDE DEF TD, TC, D, C
<1>8. Cardinality(T) = Cardinality(D) + Cardinality(C) - 0
  <2>1. Cardinality(TD \cup TC) = Cardinality(TD) + Cardinality(TC) - Cardinality(TD \cap TC)
    BY <1>4, <1>5, FS_Union
  <2>2. QED BY <1>4, <1>5, <1>6, <1>7, <2>1, FS_EmptySet
<1>9. Cardinality(D) \in Nat /\ Cardinality(C) \in Nat
  BY <1>3, FS_CardinalityType
<1>10. QED BY <1>2, <1>8, <1>9

\* What is rebuilt of it is as its leader made it: the shards read are of one
\* codeword and in its places, as far as there are any.
LEMMA DecodedTrue ==
  ASSUME NEW ws, NEW k, NEW set, NEW T, Filled(ws, k, set, T), OnceIn(ws, k),
         NEW w \in ws, w \in DOMAIN Words, Words[w].key = k, set.layout = Words[w], T # {}
  PROVE  /\ \A i : Decoded(Shards(set), set.layout, i) = [word |-> w, at |-> i]
         /\ Missing(set) = (0..(Words[w].num_data - 1)) \ DOMAIN set.data
<1> DEFINE d == Words[w].num_data
           c == Words[w].num_coding
           D == DOMAIN set.data
           C == {d + p : p \in DOMAIN set.coding}
           shards == Shards(set)
<1>1. d \in Nat \ {0} /\ c \in Nat \ {0}
  BY WordSizes
<1>2. /\ set.layout.num_data = d /\ set.layout.num_coding = c /\ set.layout = Words[w]
  OBVIOUS
<1>3. /\ \A i \in D : /\ i \in 0..(d - 1) /\ set.data[i].word = w /\ set.data[i].at = i
                      /\ set.data[i] = [word |-> w, at |-> i]
      /\ \A p \in DOMAIN set.coding :
           /\ p \in 0..(c - 1) /\ set.coding[p].word = w /\ set.coding[p].at = d + p
           /\ set.coding[p] = [word |-> w, at |-> d + p]
  <2>1. \A v, i : [word |-> v, at |-> i].word = v
    OBVIOUS
  <2>2. QED BY InPlace, <2>1
<1>4. \A i \in D : i \in Nat /\ i < d /\ i < d + c
  <2>1. SUFFICES ASSUME NEW i \in D PROVE i \in Nat /\ i < d /\ i < d + c
    OBVIOUS
  <2> HIDE DEF d, c
  <2>2. i \in 0..(d - 1)
    BY <1>3
  <2>3. QED BY <1>1, <2>2
<1>5. \A p \in DOMAIN set.coding :
         d + p \in Nat /\ d + p < d + c /\ (d + p) - d = p /\ ~(d + p < d)
  <2>1. SUFFICES ASSUME NEW p \in DOMAIN set.coding
                 PROVE  d + p \in Nat /\ d + p < d + c /\ (d + p) - d = p /\ ~(d + p < d)
    OBVIOUS
  <2> HIDE DEF d, c
  <2>2. p \in 0..(c - 1)
    BY <1>3
  <2>3. QED BY <1>1, <2>2
<1> HIDE DEF d, c
<1>6. shards = [i \in D \cup C |-> IF i \in C THEN set.coding[i - d] ELSE set.data[i]]
  <2> DEFINE sd == {i \in DOMAIN set.data : Words[set.data[i].word].shard_len = set.layout.shard_len}
             sc == {p \in DOMAIN set.coding : Words[set.coding[p].word].shard_len = set.layout.shard_len}
             n  == set.layout.num_data + set.layout.num_coding
  <2>1. /\ n = d + c /\ set.layout.num_data = d
        /\ sc = DOMAIN set.coding /\ sd = D
    BY <1>2, <1>3
  <2>2. {i \in sd : i < n} = D /\ {set.layout.num_data + p : p \in {p \in sc : set.layout.num_data + p < n}} = C
    <3> HIDE DEF sd, sc, n
    <3>1. {i \in sd : i < n} = D
      BY <1>4, <2>1
    <3>2. {p \in sc : set.layout.num_data + p < n} = DOMAIN set.coding
      BY <1>5, <2>1
    <3>3. QED BY <2>1, <3>1, <3>2
  <2>3. shards = [i \in {i \in sd : i < n} \cup {set.layout.num_data + p : p \in {p \in sc : set.layout.num_data + p < n}} |->
                   IF i \in {set.layout.num_data + p : p \in {p \in sc : set.layout.num_data + p < n}}
                   THEN set.coding[i - set.layout.num_data] ELSE set.data[i]]
    BY Zenon DEF Shards
  <2> HIDE DEF sd, sc, n, C, D, shards
  <2>4. QED BY <2>1, <2>2, <2>3
<1>7. DOMAIN shards = D \cup C /\ D \cup C \subseteq Nat
  BY <1>6, <1>4, <1>5
<1>8. \A i \in D \cup C : shards[i].word = w /\ shards[i].at = i
  <2>1. SUFFICES ASSUME NEW i \in D \cup C PROVE shards[i].word = w /\ shards[i].at = i
    OBVIOUS
  <2>2. CASE i \in C
    <3>1. PICK p \in DOMAIN set.coding : i = d + p
      BY <2>2
    <3>2. i - d = p
      BY <1>5, <3>1
    <3>3. shards[i] = set.coding[p]
      BY <1>6, <2>2, <3>2
    <3>4. QED BY <1>3, <3>1, <3>3
  <2>3. CASE i \notin C
    <3>1. i \in D /\ shards[i] = set.data[i]
      BY <1>6, <2>3
    <3>2. QED BY <1>3, <3>1
  <2>4. QED BY <2>2, <2>3
<1>9. D \cup C # {}
  <2>1. PICK s \in T : TRUE
    OBVIOUS
  <2>2. D # {} \/ DOMAIN set.coding # {}
    BY <2>1 DEF Filled
  <2>3. QED BY <2>2
<1> HIDE DEF D, C
<1>10. ASSUME NEW i PROVE Decoded(shards, set.layout, i) = [word |-> w, at |-> i]
  <2> DEFINE first == {j \in DOMAIN shards :
                         Cardinality({l \in DOMAIN shards : l < j}) < set.layout.num_data}
             words == {shards[j].word : j \in first}
             low   == Min(D \cup C)
  <2>1. low \in D \cup C /\ \A x \in D \cup C : low <= x
    BY <1>7, <1>9, MinExists
  <2>2. low \in first
    <3> HIDE DEF low
    <3>1. \A x \in D \cup C : ~(x < low)
      BY <1>7, <2>1
    <3>2. {l \in DOMAIN shards : l < low} = {}
      BY <1>7, <3>1
    <3>3. Cardinality({l \in DOMAIN shards : l < low}) = 0
      BY <3>2, FS_EmptySet
    <3>4. QED BY <1>1, <1>2, <1>7, <2>1, <3>3
  <2>3. first \subseteq D \cup C
    BY <1>7
  <2> HIDE DEF first, low, shards
  <2>4. words = {w}
    BY <1>8, <2>2, <2>3
  <2>5. Cardinality(words) = 1
    BY <2>4, FS_Singleton
  <2>6. \A v \in words : Words[v] = set.layout
    BY <1>2, <2>4
  <2>7. \A j \in first : shards[j].at = j
    BY <1>8, <2>3
  <2>8. (CHOOSE v \in words : TRUE) = w
    BY <2>4
  <2>9. QED BY <2>5, <2>6, <2>7, <2>8 DEF Decoded, first
<1>11. Missing(set) = (0..(d - 1)) \ D
  <2>1. \A i \in 0..(d - 1) : i \notin C
    <3>1. \A i \in 0..(d - 1) : i < d
      BY <1>1
    <3>2. QED BY <1>5, <3>1 DEF C
  <2>2. Missing(set) = (0..(d - 1)) \ (D \cup C)
    BY <1>2, <1>7 DEF Missing
  <2>3. QED BY <2>1, <2>2
<1>12. QED BY <1>10, <1>11 DEF d, D

\* A batch as it stands between two calls.
Sound(ws, k, set, T, R) ==
  /\ T \subseteq Of(ws, k)
  /\ IF set.resolved
     THEN \E s \in T : /\ ~IsData(s)
                       /\ OnceIn(ws, k) => /\ R = AllOf(s.word) \ T
                                           /\ Cardinality(T) \in Nat
                                           /\ Cardinality(T) >= Words[s.word].num_data
     ELSE Filled(ws, k, set, T) /\ R = {} /\ (set.layout # NoLayout => ~Enough(set))

LEMMA RecoveredSound ==
  ASSUME NEW ws, NEW k, NEW set, NEW T, Filled(ws, k, set, T)
  PROVE  Sound(ws, k, Recover(set).set, T, Recover(set).out)
<1>1. T \subseteq Of(ws, k) /\ ~set.resolved
  <2>1. PICK a, b, c : set = [data |-> a, coding |-> b, layout |-> c, resolved |-> FALSE]
    BY DEF Filled
  <2>2. QED BY <2>1 DEF Filled
<1>2. Resolved(set).resolved
  BY DEF Resolved, NewSet
<1>3. CASE set.layout = NoLayout
  <2>1. Recover(set).set = set /\ Recover(set).out = {}
    BY <1>3 DEF Recover
  <2>2. QED BY <1>1, <1>3, <2>1 DEF Sound
<1>4. CASE set.layout # NoLayout
  <2>1. PICK s \in T : ~IsData(s) /\ set.layout = Words[s.word]
    BY <1>4 DEF Filled
  <2>2. PICK w \in ws :
               /\ w = s.word /\ w \in DOMAIN Words /\ Words[w].key = k
               /\ Words[w].num_data \in Nat \ {0}
               /\ set.layout = Words[w] /\ T # {}
    BY <1>1, <2>1, OfTyped DEF Key
  <2> DEFINE d == Words[w].num_data
             n == Cardinality(HaveData(set))
             m == Cardinality(Usable(set.coding, set.layout.num_coding, set.layout))
  <2>3. OnceIn(ws, k) => /\ Cardinality(T) \in Nat /\ n \in Nat /\ m \in Nat
                         /\ Cardinality(T) = n + m
    BY <2>2, TakenCounted
  <2>4. OnceIn(ws, k) => /\ HaveData(set) = DOMAIN set.data
                         /\ \A i \in DOMAIN set.data : i \in 0..(d - 1)
                         /\ \A i \in 0..(d - 1) : [word |-> w, at |-> i] \in T <=> i \in DOMAIN set.data
    <3>1. SUFFICES ASSUME OnceIn(ws, k)
                   PROVE  /\ HaveData(set) = DOMAIN set.data
                          /\ \A i \in DOMAIN set.data : i \in 0..(d - 1)
                          /\ \A i \in 0..(d - 1) :
                               [word |-> w, at |-> i] \in T <=> i \in DOMAIN set.data
      OBVIOUS
    <3>2. HaveData(set) = DOMAIN set.data
      BY <2>2, <3>1, InPlace
    <3>3. ASSUME NEW i \in DOMAIN set.data PROVE i \in 0..(d - 1)
      <4>1. i < d
        BY <2>2, <3>2 DEF HaveData, Usable
      <4>2. set.data[i] \in Of(ws, k) /\ set.data[i].at = i
        BY DEF Filled
      <4>3. i \in Nat
        BY <4>2, OfTyped
      <4>4. d \in Nat
        BY <2>2
      <4> HIDE DEF d
      <4>5. QED BY <4>1, <4>3, <4>4
    <3>4. \A i \in 0..(Words[w].num_data - 1) :
            [word |-> w, at |-> i] \in T <=> i \in DOMAIN set.data
      BY <2>2, <3>1, InPlace
    <3>5. QED BY <3>3, <3>2, <3>4
  <2>5. d \in Nat \ {0}
    BY <2>2
  <2>6. CASE n = d
    <3>1. Recover(set).set = Resolved(set) /\ Recover(set).out = {}
      BY <1>4, <2>2, <2>6 DEF Recover
    <3>2. ASSUME OnceIn(ws, k)
          PROVE  {} = AllOf(w) \ T /\ Cardinality(T) \in Nat /\ Cardinality(T) >= d
      <4>1. IsFiniteSet(0..(d - 1)) /\ Cardinality(0..(d - 1)) = d
        <5> HIDE DEF d
        <5>1. d - 1 \in Int /\ d - 1 - 0 + 1 = d /\ ~(0 > d - 1)
          BY <2>5
        <5>2. QED BY <5>1, FS_Interval
      <4>2. HaveData(set) \in SUBSET (0..(d - 1))
        BY <2>4, <3>2
      <4>3. HaveData(set) = 0..(d - 1)
        <5> HIDE DEF d
        <5>1. Cardinality(0..(d - 1)) = Cardinality(HaveData(set))
          BY <2>6, <4>1
        <5>2. QED BY <4>1, <4>2, <5>1, FS_Subset
      <4>4. AllOf(w) \subseteq T
        BY <2>4, <3>2, <4>3 DEF AllOf
      <4>5. Cardinality(T) \in Nat /\ Cardinality(T) >= d
        <5> HIDE DEF d, n, m
        <5>1. QED BY <2>2, <2>3, <2>6, <3>2
      <4>6. QED BY <4>4, <4>5
    <3> HIDE DEF n, m, d
    <3>3. QED BY <1>1, <1>2, <2>1, <2>2, <3>1, <3>2 DEF Sound, d
  <2>7. CASE n # d /\ ~Enough(set)
    <3>1. Recover(set).set = set /\ Recover(set).out = {}
      BY <1>4, <2>2, <2>7 DEF Recover
    <3>2. QED BY <1>1, <2>7, <3>1 DEF Sound
  <2>8. CASE n # d /\ Enough(set)
    <3>1. /\ Recover(set).set = Resolved(set)
          /\ Recover(set).out = {Decoded(Shards(set), set.layout, i) : i \in Missing(set)}
      BY <1>4, <2>2, <2>8 DEF Recover
    <3>2. ASSUME OnceIn(ws, k)
          PROVE  /\ Recover(set).out = AllOf(w) \ T
                 /\ Cardinality(T) \in Nat /\ Cardinality(T) >= d
      <4>1. /\ \A i : Decoded(Shards(set), set.layout, i) = [word |-> w, at |-> i]
            /\ Missing(set) = (0..(d - 1)) \ DOMAIN set.data
        BY <2>2, <3>2, DecodedTrue
      <4>2. Recover(set).out = {[word |-> w, at |-> i] : i \in (0..(d - 1)) \ DOMAIN set.data}
        BY <3>1, <4>1
      <4>3. Recover(set).out = AllOf(w) \ T
        BY <2>4, <3>2, <4>2 DEF AllOf
      <4>4. n + m >= d
        BY <2>2, <2>8 DEF Enough
      <4>5. Cardinality(T) \in Nat /\ Cardinality(T) >= d
        <5> HIDE DEF d, n, m
        <5>1. QED BY <2>2, <2>3, <3>2, <4>4
      <4>6. QED BY <4>3, <4>5
    <3> HIDE DEF n, m, d
    <3>3. QED BY <1>1, <1>2, <2>1, <2>2, <3>1, <3>2 DEF Sound, d
  <2>9. QED BY <2>6, <2>7, <2>8
<1>5. QED BY <1>3, <1>4

----------------------------------------------------------------------------
(* The batches held.                                                        *)

BatchesSound ==
  /\ wire \in Wires
  /\ IsFiniteSet(Keys(sets))
  /\ DOMAIN taken = Keys(sets) /\ DOMAIN rebuilt = Keys(sets)
  /\ \A k \in Keys(sets) : Sound(wire, k, sets.entries[k].value, taken[k], rebuilt[k])

\* A batch none of whose shreds was let through unchecked has its leader's.
OnlyProven == \A k \in Keys(sets) \ unproven : \A s \in taken[k] : Genuine(s)

RecoveryInv == BatchesSound /\ OnlyProven

LEMMA LaterKept ==
  ASSUME NEW dt
  PROVE  /\ Keys(Now(dt)) = Keys(sets)
         /\ \A k \in Keys(sets) : Now(dt).entries[k].value = sets.entries[k].value
BY DEF Now, Elapsed, Keys

LEMMA SweptKept ==
  ASSUME NEW dt
  PROVE  /\ Keys(Swept(dt)) \subseteq Keys(sets)
         /\ \A k \in Keys(Swept(dt)) : Swept(dt).entries[k].value = sets.entries[k].value
<1> DEFINE now  == Now(dt)
           kept == {k \in Keys(now) : k \notin Dropped(now, LIFETIME, MAX_FEC_SETS)}
<1>1. /\ Keys(now) = Keys(sets)
      /\ \A k \in Keys(sets) : now.entries[k].value = sets.entries[k].value
  BY LaterKept
<1>2. CASE ~SweepDue(now, MAX_FEC_SETS)
  BY <1>1, <1>2 DEF Swept, Sweep
<1>3. CASE SweepDue(now, MAX_FEC_SETS)
  <2>1. Swept(dt) = [entries |-> [k \in kept |-> now.entries[k]], since |-> 0]
    BY <1>3 DEF Swept, Sweep, RestrictDomain, Restrict, Keys
  <2> HIDE DEF now, kept
  <2>2. Keys(Swept(dt)) = kept /\ \A k \in kept : Swept(dt).entries[k] = now.entries[k]
    BY <2>1 DEF Keys
  <2>3. kept \subseteq Keys(now)
    BY DEF kept
  <2>4. QED BY <1>1, <2>2, <2>3
<1>4. QED BY <1>2, <1>3

\* What came of a batch, as an insert finds it.
Before(h, key) == IF key \in Keys(Swept(0)) THEN h[key] ELSE {}

LEMMA LiveSound ==
  ASSUME BatchesSound, NEW s
  PROVE  LET set == LiveSet(s, 0)
             T   == Before(taken, Key(s))
             R   == Before(rebuilt, Key(s))
         IN  IF set.resolved THEN Sound(wire, Key(s), set, T, R)
             ELSE Filled(wire, Key(s), set, T) /\ R = {}
<1>1. CASE Key(s) \in Keys(Swept(0))
  <2>1. LiveSet(s, 0) = sets.entries[Key(s)].value /\ Key(s) \in Keys(sets)
    BY <1>1, SweptKept DEF LiveSet, ValueOf
  <2>2. Before(taken, Key(s)) = taken[Key(s)] /\ Before(rebuilt, Key(s)) = rebuilt[Key(s)]
    BY <1>1 DEF Before
  <2>3. Sound(wire, Key(s), sets.entries[Key(s)].value, taken[Key(s)], rebuilt[Key(s)])
    BY <2>1 DEF BatchesSound
  <2>4. QED BY <2>1, <2>2, <2>3 DEF Sound
<1>2. CASE Key(s) \notin Keys(Swept(0))
  <2>1. LiveSet(s, 0) = NewSet /\ Before(taken, Key(s)) = {} /\ Before(rebuilt, Key(s)) = {}
    BY <1>2 DEF LiveSet, ValueOf, Before
  <2>2. ~NewSet.resolved
    BY DEF NewSet
  <2>3. QED BY <2>1, <2>2, NewFilled
<1>3. QED BY <1>1, <1>2

\* The histories of an insert.
LEMMA InsertedHistories ==
  ASSUME NEW h, NEW key, NEW held, NEW more, NEW k
  PROVE  LET r == Recorded(h, key, held, more) IN
         /\ DOMAIN r = held \cup {key}
         /\ k \in held /\ k # key => r[k] = h[k]
         /\ r[key] = (IF key \in held THEN h[key] ELSE {}) \cup more
BY DEF Recorded

LEMMA InsertedSound ==
  ASSUME BatchesSound, NEW s, NEW set, NEW given, set = LiveSet(s, 0),
         Inserted(s, 0, set, given),
         ~set.resolved => Filled(wire, Key(s), given, Before(taken, Key(s)) \cup {s})
  PROVE  BatchesSound'
<1> DEFINE key   == Key(s)
           swept == Swept(0)
           made  == IF set.resolved THEN [set |-> set, out |-> {}] ELSE Recover(given)
           T     == Before(taken, key)
           R     == Before(rebuilt, key)
           more  == IF set.resolved THEN {} ELSE {s}
<1>1. /\ sets' = Upsert(swept, key, made.set) /\ wire' = wire
      /\ taken' = Recorded(taken, key, Keys(swept), more)
      /\ rebuilt' = Recorded(rebuilt, key, Keys(swept), made.out)
  BY DEF Inserted
<1>2. Sound(wire, key, made.set, T \cup more, R \cup made.out)
  <2>1. CASE set.resolved
    <3>1. Sound(wire, key, set, T, R)
      BY <2>1, LiveSound
    <3>2. made.set = set /\ T \cup more = T /\ R \cup made.out = R
      BY <2>1
    <3> HIDE DEF made, T, R, more
    <3>3. QED BY <3>1, <3>2
  <2>2. CASE ~set.resolved
    <3>1. R = {} /\ Filled(wire, key, given, T \cup {s})
      BY <2>2, LiveSound
    <3>2. made = Recover(given) /\ more = {s}
      BY <2>2
    <3> HIDE DEF made, T, R, more
    <3>3. R \cup made.out = made.out
      BY <3>1
    <3>4. Sound(wire, key, Recover(given).set, T \cup {s}, Recover(given).out)
      BY <3>1, RecoveredSound
    <3>5. QED BY <3>2, <3>3, <3>4
  <2>3. QED BY <2>1, <2>2
<1> HIDE DEF made, more, swept
<1>3. /\ Keys(sets') = Keys(swept) \cup {key}
      /\ sets'.entries[key].value = made.set
      /\ \A k \in Keys(swept) : k # key => sets'.entries[k].value = sets.entries[k].value
  <2>1. \A k \in Keys(swept) : swept.entries[k].value = sets.entries[k].value
    BY SweptKept DEF swept
  <2> HIDE DEF key
  <2>2. \A m, v : LET u == Upsert(m, key, v) IN
          /\ Keys(u) = Keys(m) \cup {key} /\ u.entries[key].value = v
          /\ \A k \in Keys(m) : k # key => u.entries[k] = m.entries[k]
    BY DEF Upsert, Keys
  <2>3. QED BY <1>1, <2>1, <2>2
<1>4. /\ DOMAIN taken' = Keys(sets') /\ DOMAIN rebuilt' = Keys(sets')
      /\ taken'[key] = T \cup more /\ rebuilt'[key] = R \cup made.out
      /\ \A k \in Keys(swept) : k # key => taken'[k] = taken[k] /\ rebuilt'[k] = rebuilt[k]
  <2>1. T = Before(taken, key) /\ R = Before(rebuilt, key) /\ swept = Swept(0)
    BY DEF swept
  <2> HIDE DEF key, T, R
  <2>2. ASSUME NEW h, NEW x
        PROVE  LET r == Recorded(h, key, Keys(swept), x) IN
               /\ DOMAIN r = Keys(swept) \cup {key}
               /\ \A k \in Keys(swept) : k # key => r[k] = h[k]
               /\ r[key] = Before(h, key) \cup x
    <3>1. Before(h, key) = IF key \in Keys(swept) THEN h[key] ELSE {}
      BY <2>1 DEF Before
    <3>2. \A k \in Keys(swept) : k # key => h[k] \cup {} = h[k]
      OBVIOUS
    <3>3. QED BY <3>1, <3>2 DEF Recorded
  <2>3. /\ DOMAIN taken' = Keys(swept) \cup {key}
        /\ \A k \in Keys(swept) : k # key => taken'[k] = taken[k]
        /\ taken'[key] = Before(taken, key) \cup more
    BY <1>1, <2>2
  <2>4. /\ DOMAIN rebuilt' = Keys(swept) \cup {key}
        /\ \A k \in Keys(swept) : k # key => rebuilt'[k] = rebuilt[k]
        /\ rebuilt'[key] = Before(rebuilt, key) \cup made.out
    <3> DEFINE o == made.out
    <3>1. rebuilt' = Recorded(rebuilt, key, Keys(swept), o)
      BY <1>1
    <3> HIDE DEF o
    <3>2. /\ DOMAIN rebuilt' = Keys(swept) \cup {key}
          /\ \A k \in Keys(swept) : k # key => rebuilt'[k] = rebuilt[k]
          /\ rebuilt'[key] = Before(rebuilt, key) \cup o
      BY <2>2, <3>1
    <3>3. QED BY <3>2 DEF o
  <2>5. QED BY <1>3, <2>1, <2>3, <2>4
<1>5. ASSUME NEW k \in Keys(sets')
      PROVE  Sound(wire, k, sets'.entries[k].value, taken'[k], rebuilt'[k])
  <2>1. CASE k = key
    BY <1>2, <1>3, <1>4, <2>1
  <2>2. CASE k # key
    <3>1. k \in Keys(swept) /\ k \in Keys(sets)
      BY <1>3, <2>2, SweptKept DEF swept
    <3>2. taken'[k] = taken[k] /\ rebuilt'[k] = rebuilt[k]
      BY <1>4, <2>2, <3>1
    <3>3. QED BY <1>3, <2>2, <3>1, <3>2 DEF BatchesSound
  <2>3. QED BY <2>1, <2>2
<1>6. IsFiniteSet(Keys(sets'))
  <2>1. IsFiniteSet(Keys(swept))
    BY SweptKept, FS_Subset DEF BatchesSound, swept
  <2>2. QED BY <1>3, <2>1, FS_AddElement
<1>7. QED BY <1>1, <1>4, <1>5, <1>6 DEF BatchesSound

----------------------------------------------------------------------------
(* The steps.                                                               *)

LEMMA Arrives ==
  ASSUME wire \in Wires, NEW w \in wire, NEW i \in 0..(Total(w) - 1)
  PROVE  LET s == [word |-> w, at |-> i] IN s \in Of(wire, Key(s))
<1> DEFINE s == [word |-> w, at |-> i]
<1>1. w \in DOMAIN Words
  BY ErasureAssumption
<1>2. s \in Shreds /\ s.word = w
  BY <1>1 DEF Shreds
<1> HIDE DEF s
<1>3. s \in Of(wire, Key(s))
  BY <1>2 DEF Of
<1>4. QED BY <1>3 DEF s

LEMMA InsertsSound ==
  ASSUME BatchesSound, NEW s, s \in Of(wire, Key(s)), InsertData(s, 0) \/ InsertCoding(s, 0)
  PROVE  /\ BatchesSound'
         /\ \E set, given, T : /\ Inserted(s, 0, set, given)
                               /\ ~set.resolved => Filled(wire, Key(s), given, T)
<1> DEFINE set == LiveSet(s, 0)
           T   == Before(taken, Key(s))
<1>1. ~set.resolved => Filled(wire, Key(s), set, T)
  BY LiveSound
<1>2. CASE InsertData(s, 0)
  <2> DEFINE given == [set EXCEPT !.data = OrInsert(@, s.at, s)]
  <2>1. IsData(s) /\ Inserted(s, 0, set, given)
    BY <1>2, Zenon DEF InsertData
  <2>2. ~set.resolved => Filled(wire, Key(s), given, T \cup {s})
    BY <1>1, <2>1, DataFilled
  <2>3. set = LiveSet(s, 0) /\ T = Before(taken, Key(s))
    OBVIOUS
  <2> HIDE DEF set, given, T
  <2>4. QED BY <2>1, <2>2, <2>3, InsertedSound
<1>3. CASE InsertCoding(s, 0)
  <2> DEFINE given == [set EXCEPT !.layout = Words[s.word],
                                  !.coding = OrInsert(@, s.at - Words[s.word].num_data, s)]
  <2>1. ~IsData(s) /\ Inserted(s, 0, set, given)
    BY <1>3, Zenon DEF InsertCoding
  <2>2. ~set.resolved => Filled(wire, Key(s), given, T \cup {s})
    BY <1>1, <2>1, CodingFilled
  <2>3. set = LiveSet(s, 0) /\ T = Before(taken, Key(s))
    OBVIOUS
  <2> HIDE DEF set, given, T
  <2>4. QED BY <2>1, <2>2, <2>3, InsertedSound
<1>4. QED BY <1>2, <1>3

\* What an insert makes of the histories, and who has a word in them.
LEMMA InsertedProven ==
  ASSUME OnlyProven, NEW s, NEW set, NEW given, Inserted(s, 0, set, given),
         NEW proven \in BOOLEAN, proven => Genuine(s),
         unproven' = {k \in Keys(sets') : k \in unproven \/ (~proven /\ k = Key(s))}
  PROVE  OnlyProven'
<1> DEFINE more == IF set.resolved THEN {} ELSE {s}
           held == Keys(Swept(0))
<1>1. taken' = Recorded(taken, Key(s), held, more) /\ more \subseteq {s}
  BY DEF Inserted
<1>2. held \subseteq Keys(sets)
  BY SweptKept
<1> HIDE DEF more, held
<1>3. SUFFICES ASSUME NEW k \in Keys(sets'), k \notin unproven', NEW x \in taken'[k],
                      k \in DOMAIN taken'
               PROVE  Genuine(x)
  <2>1. Keys(sets') \subseteq DOMAIN taken'
    BY <1>1 DEF Inserted, Recorded, Upsert, Keys, held
  <2>2. QED BY <2>1 DEF OnlyProven, Genuine
<1>4. k \notin unproven /\ (k = Key(s) => proven)
  BY <1>3
<1>5. x \in (IF k \in held THEN taken[k] ELSE {}) \cup (IF k = Key(s) THEN more ELSE {})
  BY <1>1, <1>3 DEF Recorded
<1>6. CASE k \in held /\ x \in taken[k]
  BY <1>2, <1>4, <1>6 DEF OnlyProven
<1>7. CASE k = Key(s) /\ x = s
  BY <1>4, <1>7
<1>8. QED BY <1>1, <1>5, <1>6, <1>7

LEMMA VerdictMeans ==
  ASSUME NEW s \in Shreds, NEW verdict \in Verdicts(s) \ {"forged"}, verdict # "unknown"
  PROVE  Genuine(s)
<1>1. verdict = "signed" /\ Proven[s]
  BY DEF Verdicts
<1>2. s.word \in DOMAIN Words
  BY ShredTyped
<1>3. s.word # "none"
  BY <1>2, ErasureAssumption
<1>4. QED BY <1>1, <1>3 DEF Proven, Genuine

LEMMA PacketKeeps ==
  ASSUME RecoveryInv, NEW s, s \in Of(wire, Key(s)), Packet(s)
  PROVE  RecoveryInv'
<1>1. s \in Shreds
  BY DEF Of
<1>2. PICK verdict \in Verdicts(s) \ {"forged"} :
        /\ InsertData(s, 0) \/ InsertCoding(s, 0) \/ Refuse(s)
        /\ unproven' = {k \in Keys(sets') : k \in unproven \/ (verdict = "unknown" /\ k = Key(s))}
  BY DEF Packet
<1>3. CASE InsertData(s, 0) \/ InsertCoding(s, 0)
  <2>1. PICK set, given : Inserted(s, 0, set, given)
    BY <1>3, InsertsSound DEF RecoveryInv
  <2> DEFINE proven == verdict # "unknown"
  <2>2. proven \in BOOLEAN /\ (proven => Genuine(s))
    BY <1>1, VerdictMeans
  <2>3. unproven' = {k \in Keys(sets') : k \in unproven \/ (~proven /\ k = Key(s))}
    BY <1>2
  <2> HIDE DEF proven
  <2>4. OnlyProven'
    BY <2>1, <2>2, <2>3, InsertedProven DEF RecoveryInv
  <2>5. BatchesSound'
    BY <1>3, InsertsSound DEF RecoveryInv
  <2>6. QED BY <2>4, <2>5 DEF RecoveryInv
<1>4. CASE Refuse(s)
  <2>1. UNCHANGED <<sets, wire, taken, rebuilt>>
    BY <1>4 DEF Refuse
  <2>2. BatchesSound'
    <3>1. BatchesSound
      BY DEF RecoveryInv
    <3>2. BatchesSound' <=> BatchesSound
      BY <2>1, SMTT(60) DEF BatchesSound, Keys, Sound, Filled, Of, OnceIn
    <3>3. QED BY <3>1, <3>2
  <2>3. \A k \in Keys(sets') : k \notin unproven' => k \notin unproven
    BY <1>2
  <2>4. OnlyProven'
    BY <2>1, <2>3 DEF RecoveryInv, OnlyProven, Genuine
  <2>5. QED BY <2>2, <2>4 DEF RecoveryInv
<1>5. QED BY <1>2, <1>3, <1>4

LEMMA StepKeeps ==
  ASSUME RecoveryInv, [PipelineNext]_allVars
  PROVE  RecoveryInv'
<1>1. ASSUME UNCHANGED <<sets, wire, taken, rebuilt, unproven>>
      PROVE  RecoveryInv'
  <2>1. BatchesSound' = BatchesSound
    BY <1>1 DEF BatchesSound, Keys
  <2>2. OnlyProven' = OnlyProven
    BY <1>1 DEF OnlyProven, Keys
  <2>3. QED BY <2>1, <2>2 DEF RecoveryInv
<1>2. ASSUME NEW w \in wire, NEW i \in 0..(Total(w) - 1), Discard([word |-> w, at |-> i])
      PROVE  RecoveryInv'
  BY <1>1, <1>2 DEF Discard, history
<1>3. ASSUME NEW w \in wire, NEW i \in 0..(Total(w) - 1), Packet([word |-> w, at |-> i])
      PROVE  RecoveryInv'
  <2> DEFINE s == [word |-> w, at |-> i]
  <2>1. s \in Of(wire, Key(s)) /\ Packet(s)
    BY <1>3, Arrives DEF RecoveryInv, BatchesSound
  <2> HIDE DEF s
  <2>2. QED BY <2>1, PacketKeeps
<1>4. ASSUME NEW slots \in Windows, Schedule(slots) PROVE RecoveryInv'
  BY <1>1, <1>4 DEF Schedule, history
<1>5. ASSUME NEW dt \in Ticks, Wait(dt) PROVE RecoveryInv'
  <2>1. sets' = Now(dt) /\ UNCHANGED <<wire, taken, rebuilt, unproven>>
    BY <1>5 DEF Wait
  <2>2. /\ Keys(sets') = Keys(sets)
        /\ \A k \in Keys(sets) : sets'.entries[k].value = sets.entries[k].value
    BY <2>1, LaterKept
  <2>3. BatchesSound'
    BY <2>1, <2>2 DEF RecoveryInv, BatchesSound
  <2>4. OnlyProven'
    BY <2>1, <2>2 DEF RecoveryInv, OnlyProven
  <2>5. QED BY <2>3, <2>4 DEF RecoveryInv
<1>6. CASE UNCHANGED allVars
  BY <1>1, <1>6 DEF allVars, vars, history
<1>7. QED BY <1>2, <1>3, <1>4, <1>5, <1>6 DEF PipelineNext

LEMMA Recovers == PipelineSpec => []RecoveryInv
<1>1. PipelineInit => RecoveryInv
  <2>1. SUFFICES ASSUME PipelineInit PROVE RecoveryInv
    OBVIOUS
  <2>2. sets = New /\ wire \in Wires /\ taken = [k \in {} |-> {}] /\ rebuilt = [k \in {} |-> {}]
    BY <2>1 DEF PipelineInit, Init
  <2>3. Keys(sets) = {}
    BY <2>2 DEF Keys, New
  <2>4. QED BY <2>2, <2>3, FS_EmptySet DEF RecoveryInv, BatchesSound, OnlyProven
<1>2. RecoveryInv /\ [PipelineNext]_allVars => RecoveryInv'
  BY StepKeeps
<1>3. QED BY <1>1, <1>2, PTL DEF PipelineSpec

----------------------------------------------------------------------------
(* What follows of a sound batch.                                           *)

LEMMA Alone ==
  ASSUME NEW k, Once(k), NEW s, s \in Of(wire, k)
  PROVE  /\ OnceIn(wire, k) /\ s.word \in wire /\ s.word \in DOMAIN Words
         /\ Words[s.word].key = k
         /\ Only(k) = s.word /\ AllData(k) = AllOf(s.word)
         /\ Words[s.word].num_data \in Nat
         /\ Cardinality(AllData(k)) = Words[s.word].num_data
<1>1. OnceIn(wire, k)
  BY DEF Once, OnceIn
<1>2. s.word \in wire /\ s.word \in DOMAIN Words /\ Words[s.word].key = k
      /\ Words[s.word].num_data \in Nat
  BY OfTyped DEF Key
<1>3. Only(k) = s.word /\ AllData(k) = AllOf(s.word)
  BY <1>1, <1>2, OnlyOne
<1>4. QED BY <1>1, <1>2, <1>3, AllCounted

\* A batch left unresolved with a layout has too few shards, so too few shreds.
LEMMA LeftShort ==
  ASSUME NEW k, NEW set, NEW T, Sound(wire, k, set, T, {}), ~set.resolved, set.layout # NoLayout
  PROVE  /\ Cardinality(HaveData(set))
              + Cardinality(Usable(set.coding, set.layout.num_coding, set.layout))
                < set.layout.num_data
         /\ \E s \in T : ~IsData(s)
         /\ Once(k) => Cardinality(T) < Cardinality(AllData(k))
<1> DEFINE n == Cardinality(HaveData(set))
           m == Cardinality(Usable(set.coding, set.layout.num_coding, set.layout))
<1>1. Filled(wire, k, set, T) /\ ~Enough(set)
  BY DEF Sound
<1>2. PICK s \in T : ~IsData(s) /\ set.layout = Words[s.word]
  BY <1>1 DEF Filled
<1>3. s \in Of(wire, k)
  BY <1>1 DEF Filled
<1>4. s.word \in wire /\ s.word \in DOMAIN Words /\ Words[s.word].key = k
      /\ Words[s.word].num_data \in Nat
  BY <1>3, OfTyped DEF Key
<1>5. n \in Nat /\ m \in Nat
  <2>1. IsFiniteSet(DOMAIN set.data) /\ IsFiniteSet(DOMAIN set.coding)
    BY <1>1 DEF Filled
  <2>2. /\ HaveData(set) \subseteq DOMAIN set.data
        /\ Usable(set.coding, set.layout.num_coding, set.layout) \subseteq DOMAIN set.coding
    BY DEF HaveData, Usable
  <2>3. /\ IsFiniteSet(HaveData(set))
        /\ IsFiniteSet(Usable(set.coding, set.layout.num_coding, set.layout))
    BY <2>1, <2>2, FS_Subset
  <2>4. QED BY <2>3, FS_CardinalityType
<1>6. n + m < set.layout.num_data
  <2>1. ~(n + m >= set.layout.num_data) /\ set.layout.num_data \in Nat
    BY <1>1, <1>2, <1>4 DEF Enough
  <2> HIDE DEF n, m
  <2>2. QED BY <1>5, <2>1
<1>7. ASSUME Once(k) PROVE Cardinality(T) < Cardinality(AllData(k))
  <2>1. Cardinality(AllData(k)) = Words[s.word].num_data /\ OnceIn(wire, k)
    BY <1>3, <1>7, Alone
  <2>2. PICK w \in wire : w = s.word /\ w \in DOMAIN Words /\ Words[w].key = k /\ set.layout = Words[w]
    BY <1>2, <1>4
  <2>3. Cardinality(T) = n + m
    BY <1>1, <2>1, <2>2, TakenCounted
  <2>4. Cardinality(AllData(k)) = set.layout.num_data
    BY <1>2, <2>1
  <2>5. QED BY <1>6, <2>3, <2>4
<1>8. QED BY <1>2, <1>6, <1>7

LEMMA BatchSound ==
  ASSUME RecoveryInv, NEW k \in Keys(sets)
  PROVE  /\ Sound(wire, k, sets.entries[k].value, taken[k], rebuilt[k])
         /\ taken[k] \subseteq Of(wire, k)
         /\ ~sets.entries[k].value.resolved => /\ rebuilt[k] = {}
                                               /\ Filled(wire, k, sets.entries[k].value, taken[k])
BY DEF RecoveryInv, BatchesSound, Sound

LEMMA RebuiltExact == RecoveryInv => RebuildsWhatWasLost
<1>1. SUFFICES ASSUME RecoveryInv, NEW k \in Keys(sets), Once(k)
               PROVE  rebuilt[k] = IF sets.entries[k].value.resolved
                                   THEN AllData(k) \ taken[k] ELSE {}
  BY DEF RebuildsWhatWasLost
<1> DEFINE set == sets.entries[k].value
<1>2. CASE ~set.resolved
  BY <1>1, <1>2, BatchSound
<1>3. CASE set.resolved
  <2>1. PICK s \in taken[k] : OnceIn(wire, k) => rebuilt[k] = AllOf(s.word) \ taken[k]
    BY <1>1, <1>3, BatchSound DEF Sound
  <2>2. s \in Of(wire, k)
    BY <1>1, BatchSound
  <2>3. QED BY <1>1, <1>3, <2>1, <2>2, Alone
<1>4. QED BY <1>2, <1>3

LEMMA NoneWithheld == RecoveryInv => NothingWithheld
<1>1. SUFFICES ASSUME RecoveryInv, NEW k \in Keys(sets), NEW set, set = sets.entries[k].value
               PROVE  /\ ~set.resolved /\ set.layout # NoLayout =>
                           Cardinality(HaveData(set))
                             + Cardinality(Usable(set.coding, set.layout.num_coding, set.layout))
                               < set.layout.num_data
                      /\ Once(k) /\ ~set.resolved =>
                           \/ \A s \in taken[k] : IsData(s)
                           \/ Cardinality(taken[k]) < Cardinality(AllData(k))
  BY DEF NothingWithheld
<1>2. CASE ~set.resolved /\ set.layout # NoLayout
  <2>1. Sound(wire, k, set, taken[k], {})
    BY <1>1, <1>2, BatchSound
  <2>2. QED BY <1>2, <2>1, LeftShort
<1>3. CASE ~set.resolved /\ set.layout = NoLayout
  <2>1. \A s \in taken[k] : IsData(s)
    BY <1>1, <1>3, BatchSound DEF Filled
  <2>2. QED BY <1>3, <2>1
<1>4. QED BY <1>2, <1>3

LEMMA ReadsAreSigned == RecoveryInv => BytesSigned
<1>1. SUFFICES ASSUME RecoveryInv, NEW k \in Keys(sets), NEW s \in taken[k]
               PROVE  ReadsSigned(Datagrams[s], SHRED_VERSION)
  BY DEF BytesSigned
<1>2. s \in Shreds
  BY <1>1, BatchSound DEF Of
<1>3. s.word \in DOMAIN Words
  BY <1>2, ShredTyped
<1> DEFINE e == Envelopes[s.word]
           v == [type |-> IF IsData(s) THEN "data" ELSE "coding", resigned |-> e.resigned, proof |-> e.proof]
           p == Datagram(s)
<1>4. v \in Variant
  BY <1>3, PipelineAssumption DEF Variant
<1>5. p.variant = v /\ p.length = ProofOffset(v) + Trailer(v) - e.clipped /\ p.size = SIGNATURE + ShardLen(v)
  BY DEF Datagram
<1>6. e.clipped \in Nat
  BY <1>3, PipelineAssumption
<1> HIDE DEF v, p, e
<1>7. Trailer(v) \in Int
  BY <1>4, TrailerBounds
<1>8. ProofOffset(v) \in Int /\ ShardLen(v) \in Int
  BY <1>7 DEF ProofOffset, ShardLen, DATA_PAYLOAD, CODE_PAYLOAD, MAX_SHARD, SIGNATURE, CODE_HEADERS, MERKLE_ROOT
<1>9. p.variant \in Variant /\ p.length \in Int /\ p.size \in Int
  BY <1>4, <1>5, <1>6, <1>7, <1>8 DEF SIGNATURE
<1>10. Datagrams[s] = p
  BY <1>2 DEF Datagrams, p
<1>11. QED BY <1>9, <1>10, ReadIsSigned

\* Nobody but its leader has a word in a batch all of whose shreds were checked,
\* nor in what is rebuilt of it.
BatchesGenuine ==
  \A k \in Keys(sets) \ unproven :
    /\ \A s \in taken[k] : Genuine(s)
    /\ Once(k) => \A s \in rebuilt[k] : Genuine(s)

LEMMA AllGenuine == RecoveryInv => BatchesGenuine
<1>1. SUFFICES ASSUME RecoveryInv, NEW k \in Keys(sets), k \notin unproven
               PROVE  /\ \A s \in taken[k] : Genuine(s)
                      /\ Once(k) => \A s \in rebuilt[k] : Genuine(s)
  BY DEF BatchesGenuine
<1>2. \A s \in taken[k] : Genuine(s)
  BY <1>1 DEF RecoveryInv, OnlyProven
<1>3. ASSUME Once(k), NEW x \in rebuilt[k] PROVE Genuine(x)
  <2>1. sets.entries[k].value.resolved /\ x \in AllData(k)
    BY <1>1, <1>3, RebuiltExact DEF RebuildsWhatWasLost
  <2>2. PICK s \in taken[k] : TRUE
    BY <1>1, <2>1, BatchSound DEF Sound
  <2>3. AllData(k) = AllOf(s.word) /\ Genuine(s)
    BY <1>1, <1>2, <1>3, <2>2, BatchSound, Alone
  <2>4. x.word = s.word
    BY <2>1, <2>3 DEF AllOf
  <2>5. QED BY <2>3, <2>4 DEF Genuine
<1>4. QED BY <1>2, <1>3

\* A batch its leader produced once is rebuilt to exactly what was lost of it,
\* whichever of its shreds came, in any order and any number of times
\* (recover, reconstruct_data).
THEOREM RecoveryExact == PipelineSpec => []RebuildsWhatWasLost
BY Recovers, RebuiltExact, PTL

\* Recovery waits only while it has to, also for a batch two productions of a
\* slot mix in (insert_coding, recover).
THEOREM NothingIsWithheld == PipelineSpec => []NothingWithheld
BY Recovers, NoneWithheld, PTL

\* Of every shred taken into a batch, the bytes gone by are bytes its signature
\* is over (parse against proof_offset, in the packet path).
THEOREM BytesAreSigned == PipelineSpec => []BytesSigned
BY Recovers, ReadsAreSigned, PTL

\* Nobody but its leader has a word in a batch whose shreds were all checked,
\* nor in what is rebuilt of it without being checked again (forged, recovered).
THEOREM BatchesAreGenuine == PipelineSpec => []BatchesGenuine
BY Recovers, AllGenuine, PTL

----------------------------------------------------------------------------
(* Recovery failures.                                                       *)

Counted ==
  /\ \A k \in short' : Once(k) => FellShort(k)
  /\ \A k \in Keys(sets) \ Keys(sets') :
       FellShort(k) => k \in short' \/ Cardinality(Keys(sets)) > MAX_FEC_SETS

\* A batch that fell short is unresolved, and knows how many it is short of.
LEMMA ShortUnresolved ==
  ASSUME RecoveryInv, NEW k \in Keys(sets), FellShort(k)
  PROVE  ~sets.entries[k].value.resolved /\ sets.entries[k].value.layout # NoLayout
<1> DEFINE set == sets.entries[k].value
<1>1. Once(k) /\ Cardinality(taken[k]) < Cardinality(AllData(k))
  BY DEF FellShort
<1>2. ASSUME set.resolved PROVE FALSE
  <2>1. PICK s \in taken[k] : OnceIn(wire, k) => /\ Cardinality(taken[k]) \in Nat
                                                 /\ Cardinality(taken[k]) >= Words[s.word].num_data
    BY <1>2, BatchSound DEF Sound
  <2>2. s \in Of(wire, k)
    BY BatchSound
  <2>3. /\ OnceIn(wire, k) /\ Words[s.word].num_data \in Nat
        /\ Cardinality(AllData(k)) = Words[s.word].num_data
    BY <1>1, <2>2, Alone
  <2>4. QED BY <1>1, <2>1, <2>3
<1>3. ASSUME ~set.resolved, set.layout = NoLayout PROVE FALSE
  <2>1. \A s \in taken[k] : IsData(s)
    BY <1>3, BatchSound DEF Filled
  <2>2. QED BY <2>1 DEF FellShort
<1>4. QED BY <1>2, <1>3

\* The cap drops a batch only where there are more than it.
LEMMA CapDrops ==
  ASSUME NEW m, IsFiniteSet(Keys(m)), NEW retention, NEW cap \in Nat,
         NEW k \in OverCap(m, retention, cap),
         \A j \in Keys(m) : m.entries[j].age \in Nat
  PROVE  Cardinality(Keys(m)) > cap
<1> DEFINE kept  == Keys(m) \ Expired(m, retention)
           fresh == {j \in kept : m.entries[j].age < m.entries[k].age}
<1>1. k \in Keys(m) /\ Cardinality(fresh) >= cap
  BY DEF OverCap
<1>2. fresh \subseteq Keys(m) \ {k}
  OBVIOUS
<1> HIDE DEF fresh, kept
<1>3. IsFiniteSet(Keys(m) \ {k}) /\ Cardinality(Keys(m) \ {k}) = Cardinality(Keys(m)) - 1
  BY <1>1, FS_RemoveElement
<1>4. Cardinality(fresh) <= Cardinality(Keys(m) \ {k}) /\ IsFiniteSet(fresh)
  BY <1>2, <1>3, FS_Subset
<1>5. Cardinality(fresh) \in Nat /\ Cardinality(Keys(m)) \in Nat
  BY <1>4, FS_CardinalityType
<1>6. QED BY <1>1, <1>3, <1>4, <1>5

AgesTyped == \A k \in Keys(sets) : sets.entries[k].age \in Nat

LEMMA NowAged ==
  ASSUME AgesTyped, NEW dt \in Nat
  PROVE  \A k \in Keys(Now(dt)) : Now(dt).entries[k].age \in Nat
<1>1. SUFFICES ASSUME NEW k \in Keys(sets)
               PROVE  Min({sets.entries[k].age + dt, LIFETIME}) \in Nat
  BY DEF Now, Elapsed, Keys
<1> DEFINE a == sets.entries[k].age + dt
<1>2. a \in Nat /\ LIFETIME \in Nat
  BY ErasureAssumption DEF AgesTyped
<1> HIDE DEF a
<1>3. Min({a, LIFETIME}) \in {a, LIFETIME}
  BY <1>2, MinOfTwo, SMTT(60)
<1>4. QED BY <1>2, <1>3 DEF a

LEMMA SweptAged ==
  ASSUME NEW dt
  PROVE  \A k \in Keys(Swept(dt)) : k \in Keys(Now(dt)) /\ Swept(dt).entries[k] = Now(dt).entries[k]
<1> DEFINE now  == Now(dt)
           kept == {k \in Keys(now) : k \notin Dropped(now, LIFETIME, MAX_FEC_SETS)}
<1>1. CASE ~SweepDue(now, MAX_FEC_SETS)
  BY <1>1 DEF Swept, Sweep
<1>2. CASE SweepDue(now, MAX_FEC_SETS)
  <2>1. Swept(dt) = [entries |-> [k \in kept |-> now.entries[k]], since |-> 0]
    BY <1>2 DEF Swept, Sweep, RestrictDomain, Restrict, Keys
  <2> HIDE DEF now
  <2>2. QED BY <2>1 DEF Keys, now
<1>3. QED BY <1>1, <1>2

LEMMA StepAges ==
  ASSUME AgesTyped, [PipelineNext]_allVars
  PROVE  AgesTyped'
<1>1. ASSUME NEW s, NEW set, NEW given, Inserted(s, 0, set, given) PROVE AgesTyped'
  <2> DEFINE swept == Swept(0)
  <2>1. \A k \in Keys(swept) : swept.entries[k].age \in Nat
    BY NowAged, SweptAged
  <2>2. PICK v : sets' = Upsert(swept, Key(s), v)
    BY <1>1 DEF Inserted
  <2> HIDE DEF swept
  <2>3. QED BY <2>1, <2>2 DEF Upsert, AgesTyped, Keys
<1>2. ASSUME NEW s, InsertData(s, 0) PROVE AgesTyped'
  BY <1>1, <1>2 DEF InsertData
<1>3. ASSUME NEW s, InsertCoding(s, 0) PROVE AgesTyped'
  BY <1>1, <1>3 DEF InsertCoding
<1>4. CASE UNCHANGED sets
  BY <1>4 DEF AgesTyped, Keys
<1>5. ASSUME NEW s, Discard(s) \/ Packet(s) PROVE AgesTyped'
  BY <1>2, <1>3, <1>4, <1>5 DEF Discard, Packet, Refuse
<1>6. ASSUME NEW dt \in Ticks, Wait(dt) PROVE AgesTyped'
  <2>1. dt \in Nat /\ sets' = Now(dt)
    BY <1>6, ErasureAssumption DEF Wait
  <2>2. QED BY <2>1, NowAged DEF AgesTyped
<1>7. QED BY <1>4, <1>5, <1>6 DEF PipelineNext, Schedule, allVars, vars

LEMMA AgesAreTyped == PipelineSpec => []AgesTyped
<1>1. PipelineInit => AgesTyped
  BY DEF PipelineInit, Init, New, AgesTyped, Keys
<1>2. AgesTyped /\ [PipelineNext]_allVars => AgesTyped'
  BY StepAges
<1>3. QED BY <1>1, <1>2, PTL DEF PipelineSpec

\* What a sweep takes is expired, or goes by the cap.
LEMMA SweptAway ==
  ASSUME RecoveryInv, AgesTyped, NEW k \in Keys(sets), k \notin Keys(Swept(0))
  PROVE  k \in Lapsed(0) \/ Cardinality(Keys(sets)) > MAX_FEC_SETS
<1> DEFINE now  == Now(0)
           kept == {j \in Keys(now) : j \notin Dropped(now, LIFETIME, MAX_FEC_SETS)}
<1>1. Keys(now) = Keys(sets) /\ \A j \in Keys(now) : now.entries[j].age \in Nat
  BY LaterKept, NowAged
<1>2. SweepDue(now, MAX_FEC_SETS)
  BY <1>1 DEF Swept, Sweep
<1>3. k \in Dropped(now, LIFETIME, MAX_FEC_SETS)
  <2>1. Swept(0) = [entries |-> [j \in kept |-> now.entries[j]], since |-> 0]
    BY <1>2 DEF Swept, Sweep, RestrictDomain, Restrict, Keys
  <2> HIDE DEF now
  <2>2. Keys(Swept(0)) = kept
    BY <2>1 DEF Keys
  <2>3. QED BY <1>1, <2>2
<1>4. CASE k \in Expired(now, LIFETIME)
  BY <1>2, <1>4 DEF Lapsed
<1>5. CASE k \in OverCap(now, LIFETIME, MAX_FEC_SETS)
  <2>1. IsFiniteSet(Keys(now)) /\ MAX_FEC_SETS \in Nat
    BY <1>1, ErasureAssumption DEF RecoveryInv, BatchesSound
  <2> HIDE DEF now
  <2>2. Cardinality(Keys(now)) > MAX_FEC_SETS
    BY <1>1, <1>5, <2>1, CapDrops
  <2>3. QED BY <1>1, <2>2
<1>6. QED BY <1>3, <1>4, <1>5 DEF Dropped

LEMMA StepCounts ==
  ASSUME RecoveryInv, AgesTyped, [PipelineNext]_allVars
  PROVE  [Counted]_vars
<1>1. ASSUME Keys(sets') = Keys(sets), short' = {} PROVE Counted
  BY <1>1 DEF Counted
<1>2. ASSUME NEW s, NEW set, NEW given, Inserted(s, 0, set, given) PROVE Counted
  <2>1. short' = Short(0) /\ Keys(Swept(0)) \subseteq Keys(sets')
    BY <1>2 DEF Inserted, Upsert, Keys
  <2>2. ASSUME NEW k \in short', Once(k) PROVE FellShort(k)
    <3>1. /\ k \in Keys(sets) /\ ~sets.entries[k].value.resolved
          /\ sets.entries[k].value.layout # NoLayout
      BY <2>1, <2>2, LaterKept DEF Short, Lapsed, Expired
    <3>2. Sound(wire, k, sets.entries[k].value, taken[k], {})
      BY <3>1, BatchSound
    <3>3. /\ \E x \in taken[k] : ~IsData(x)
          /\ Cardinality(taken[k]) < Cardinality(AllData(k))
      BY <2>2, <3>1, <3>2, LeftShort
    <3>4. QED BY <2>2, <3>3 DEF FellShort
  <2>3. ASSUME NEW k \in Keys(sets), k \notin Keys(sets'), FellShort(k)
        PROVE  k \in short' \/ Cardinality(Keys(sets)) > MAX_FEC_SETS
    <3>1. k \in Lapsed(0) \/ Cardinality(Keys(sets)) > MAX_FEC_SETS
      BY <2>1, <2>3, SweptAway
    <3>2. ~sets.entries[k].value.resolved /\ sets.entries[k].value.layout # NoLayout
      BY <2>3, ShortUnresolved
    <3>3. QED BY <2>1, <3>1, <3>2 DEF Short
  <2>4. QED BY <2>2, <2>3 DEF Counted
<1>3. ASSUME NEW s, Packet(s) PROVE Counted
  <2>1. InsertData(s, 0) \/ InsertCoding(s, 0) \/ Refuse(s)
    BY <1>3 DEF Packet
  <2>2. CASE InsertData(s, 0)
    BY <1>2, <2>2 DEF InsertData
  <2>3. CASE InsertCoding(s, 0)
    BY <1>2, <2>3 DEF InsertCoding
  <2>4. CASE Refuse(s)
    BY <1>1, <2>4 DEF Refuse, Keys
  <2>5. QED BY <2>1, <2>2, <2>3, <2>4
<1>4. ASSUME NEW s, Discard(s) PROVE Counted
  BY <1>1, <1>4 DEF Discard, Keys
<1>5. ASSUME NEW slots, Schedule(slots) PROVE Counted
  BY <1>1, <1>5 DEF Schedule, Keys
<1>6. ASSUME NEW dt, Wait(dt) PROVE Counted
  BY <1>1, <1>6, LaterKept DEF Wait
<1>7. CASE UNCHANGED allVars
  BY <1>7 DEF allVars
<1>8. QED BY <1>3, <1>4, <1>5, <1>6, <1>7 DEF PipelineNext

\* sniper.recovery's failures are the batches that aged out with a coding shred
\* and too few shreds, and none is missed but where the cap drops batches
\* (live_set's sweep and its callback).
THEOREM FailuresAreCounted == PipelineSpec => FailuresCounted
<1>1. RecoveryInv /\ AgesTyped /\ [PipelineNext]_allVars => [Counted]_vars
  BY StepCounts
<1>2. PipelineSpec => [][Counted]_vars
  BY <1>1, Recovers, AgesAreTyped, PTL DEF PipelineSpec
<1>3. QED BY <1>2 DEF FailuresCounted, Counted

----------------------------------------------------------------------------
(* The folds: the data shreds of a packet, and the heights of a proof.      *)

Step(fold, st, d) == IF fold = "shreds" THEN DataShred(st, d) ELSE Up(st, d)

\* What a fold goes through.
Steps(fold, acc, base, ds) ==
  /\ acc[0] = base
  /\ \A n \in 1..Len(ds) : acc[n] = Step(fold, acc[n - 1], ds[n])

\* A non-empty set of numbers up to n has a largest member, and Max is it.
LEMMA MaxExists ==
  ASSUME NEW n \in Nat, NEW T \in SUBSET (1..n), T # {}
  PROVE  Max(T) \in T /\ \A x \in T : Max(T) >= x
<1> DEFINE R == {n - x : x \in T}
<1>1. R \subseteq Nat /\ R # {}
  <2>1. \A x \in T : n - x \in Nat
    OBVIOUS
  <2>2. QED BY <2>1
<1>2. Min(R) \in R /\ \A y \in R : Min(R) <= y
  <2> HIDE DEF R
  <2>1. QED BY <1>1, MinExists
<1>3. PICK t \in T : Min(R) = n - t
  BY <1>2
<1>4. \A x \in T : t >= x
  <2>1. SUFFICES ASSUME NEW x \in T PROVE t >= x
    OBVIOUS
  <2>2. n - x \in R
    OBVIOUS
  <2>3. n - t <= n - x
    BY <1>2, <1>3, <2>2
  <2>4. QED BY <2>3
<1>5. QED BY <1>3, <1>4 DEF Max

\* The fold of FoldLeft, on every part of the sequence.
Folds(fold, g, base, ds) ==
  g = [T \in SUBSET (1..Len(ds)) |->
         IF T = {} THEN base ELSE Step(fold, g[T \ {Max(T)}], ds[Max(T)])]

LEMMA FoldsExist ==
  ASSUME NEW fold, NEW base, NEW ds, Len(ds) \in Nat
  PROVE  \E g : Folds(fold, g, base, ds)
<1> DEFINE S == 1..Len(ds)
           Upto(n) == {T \in SUBSET S : Cardinality(T) <= n}
           Good(g, n) == g = [T \in Upto(n) |->
                                IF T = {} THEN base ELSE Step(fold, g[T \ {Max(T)}], ds[Max(T)])]
           Bad == {n \in Nat : ~\E g : Good(g, n)}
<1>1. IsFiniteSet(S)
  BY FS_Interval
<1>2. \A T \in SUBSET S : IsFiniteSet(T) /\ Cardinality(T) \in Nat
  BY <1>1, FS_Subset, FS_CardinalityType
<1>3. \A T \in SUBSET S : T # {} => /\ Max(T) \in T /\ T \ {Max(T)} \in SUBSET S
                                    /\ Cardinality(T \ {Max(T)}) = Cardinality(T) - 1
  <2> SUFFICES ASSUME NEW T \in SUBSET S, T # {}
               PROVE  /\ Max(T) \in T /\ T \ {Max(T)} \in SUBSET S
                      /\ Cardinality(T \ {Max(T)}) = Cardinality(T) - 1
    OBVIOUS
  <2>1. Max(T) \in T
    BY MaxExists
  <2>2. QED BY <1>2, <2>1, FS_RemoveElement
<1>4. Bad = {}
  <2> SUFFICES ASSUME Bad # {} PROVE FALSE
    OBVIOUS
  <2>1. Bad \subseteq Nat
    OBVIOUS
  <2> HIDE DEF Bad
  <2>2. PICK n \in Bad : \A k \in Bad : n <= k
    BY <2>1, MinExists
  <2>3. n \in Nat
    BY <2>1, <2>2
  <2>4. CASE n = 0
    <3> DEFINE g == [T \in Upto(0) |-> base]
    <3>1. \A T \in Upto(0) : T = {}
      BY <1>2, FS_EmptySet
    <3>2. Good(g, 0)
      BY <3>1
    <3>3. QED BY <2>2, <2>4, <3>2 DEF Bad
  <2>5. CASE n # 0
    <3>1. n - 1 \in Nat /\ n - 1 \notin Bad
      BY <2>2, <2>3, <2>5
    <3>2. PICK h : Good(h, n - 1)
      BY <3>1 DEF Bad
    <3> DEFINE g == [T \in Upto(n) |->
                       IF T = {} THEN base ELSE Step(fold, h[T \ {Max(T)}], ds[Max(T)])]
    <3>3. \A T \in Upto(n - 1) : T \in Upto(n) /\ g[T] = h[T]
      <4> SUFFICES ASSUME NEW T \in Upto(n - 1) PROVE T \in Upto(n) /\ g[T] = h[T]
        OBVIOUS
      <4>1. T \in Upto(n)
        BY <1>2, <2>3
      <4>2. h[T] = IF T = {} THEN base ELSE Step(fold, h[T \ {Max(T)}], ds[Max(T)])
        <5> HIDE DEF Upto
        <5>1. QED BY <3>2
      <4>3. g[T] = IF T = {} THEN base ELSE Step(fold, h[T \ {Max(T)}], ds[Max(T)])
        <5> HIDE DEF Upto
        <5>1. QED BY <4>1
      <4>4. QED BY <4>1, <4>2, <4>3
    <3>4. \A T \in Upto(n) : T # {} => T \ {Max(T)} \in Upto(n - 1)
      BY <1>2, <1>3, <2>3, <3>1, SMTT(60)
    <3>5. Good(g, n)
      <4> HIDE DEF Upto
      <4>1. QED BY <3>3, <3>4
    <3> HIDE DEF g
    <3>6. QED BY <2>2, <3>5 DEF Bad
  <2>6. QED BY <2>4, <2>5
<1>5. Cardinality(S) \in Nat
  BY <1>2
<1>6. PICK g : Good(g, Cardinality(S))
  BY <1>4, <1>5
<1>7. Upto(Cardinality(S)) = SUBSET S
  <2>1. \A T \in SUBSET S : Cardinality(T) <= Cardinality(S)
    BY <1>1, FS_Subset
  <2>2. QED BY <2>1
<1>8. Folds(fold, g, base, ds)
  BY <1>6, <1>7 DEF Folds
<1>9. QED BY <1>8

\* What it comes to is the last of it, of either fold: one that is it on every
\* part of the sequence is all there is to know.
LEMMA FoldedSteps ==
  ASSUME NEW fold, NEW base, NEW ds, Len(ds) \in Nat, NEW g, Folds(fold, g, base, ds)
  PROVE  \E acc : Steps(fold, acc, base, ds) /\ g[1..Len(ds)] = acc[Len(ds)]
<1> DEFINE N == Len(ds)
           acc == [n \in 0..N |-> g[1..n]]
<1>1. \A T \in SUBSET (1..N) :
        g[T] = IF T = {} THEN base ELSE Step(fold, g[T \ {Max(T)}], ds[Max(T)])
  BY DEF Folds
<1>2. acc[0] = base
  <2>1. acc[0] = g[1..0] /\ 1..0 = {}
    OBVIOUS
  <2>2. QED BY <1>1, <2>1
<1>3. ASSUME NEW n \in 1..N PROVE acc[n] = Step(fold, acc[n - 1], ds[n])
  <2> DEFINE T == 1..n
  <2>1. T \in SUBSET (1..N) /\ T # {} /\ n \in T /\ T \ {n} = 1..(n - 1)
        /\ n \in 0..N /\ n - 1 \in 0..N /\ n \in Nat
    <3>1. N \in Nat
      OBVIOUS
    <3> HIDE DEF N
    <3>2. n \in Nat /\ n >= 1 /\ n <= N
      BY <3>1, <1>3
    <3>3. T \subseteq 1..N /\ T # {} /\ n \in T
      <4>1. \A x \in T : x \in 1..N
        BY <3>1, <3>2
      <4>2. n \in T
        BY <3>2
      <4>3. QED BY <4>1, <4>2
    <3>4. T \ {n} = 1..(n - 1) /\ n \in 0..N /\ n - 1 \in 0..N
      BY <3>1, <3>2
    <3>5. QED BY <3>2, <3>3, <3>4
  <2>2. Max(T) = n
    <3>1. Max(T) \in T /\ \A x \in T : Max(T) >= x
      BY <2>1, MaxExists
    <3>2. Max(T) <= n /\ Max(T) >= n /\ Max(T) \in Int
      BY <2>1, <3>1
    <3>3. QED BY <2>1, <3>2
  <2>3. acc[n] = g[T] /\ acc[n - 1] = g[1..(n - 1)]
    BY <2>1
  <2> HIDE DEF T, acc
  <2>4. QED BY <1>1, <2>1, <2>2, <2>3
<1>4. acc[N] = g[1..N]
  OBVIOUS
<1> HIDE DEF acc
<1>5. QED BY <1>2, <1>3, <1>4 DEF Steps

LEMMA FoldSteps ==
  ASSUME NEW base, NEW ds, Len(ds) \in Nat, DOMAIN ds = 1..Len(ds)
  PROVE  \E acc : Steps("shreds", acc, base, ds) /\ FoldLeft(DataShred, base, ds) = acc[Len(ds)]
<1> DEFINE ShredFolds(g) == g = [T \in SUBSET (1..Len(ds)) |->
                                   IF T = {} THEN base ELSE DataShred(g[T \ {Max(T)}], ds[Max(T)])]
           g == CHOOSE g : ShredFolds(g)
<1>1. FoldLeft(DataShred, base, ds) = g[1..Len(ds)]
  BY DEF FoldLeft, MapThenFoldSet
<1>2. \A f : ShredFolds(f) <=> Folds("shreds", f, base, ds)
  BY DEF Folds, Step
<1>3. Folds("shreds", g, base, ds)
  <2> HIDE DEF ShredFolds
  <2>1. QED BY <1>2, FoldsExist
<1> HIDE DEF g
<1>4. QED BY <1>1, <1>3, FoldedSteps

LEMMA FoldHeights ==
  ASSUME NEW base, NEW ds, Len(ds) \in Nat, DOMAIN ds = 1..Len(ds)
  PROVE  \E acc : Steps("heights", acc, base, ds) /\ FoldLeft(Up, base, ds) = acc[Len(ds)]
<1> DEFINE UpFolds(g) == g = [T \in SUBSET (1..Len(ds)) |->
                                IF T = {} THEN base ELSE Up(g[T \ {Max(T)}], ds[Max(T)])]
           g == CHOOSE g : UpFolds(g)
<1>1. FoldLeft(Up, base, ds) = g[1..Len(ds)]
  BY DEF FoldLeft, MapThenFoldSet
<1>2. \A f : UpFolds(f) <=> Folds("heights", f, base, ds)
  BY DEF Folds, Step
<1>3. Folds("heights", g, base, ds)
  <2> HIDE DEF UpFolds
  <2>1. QED BY <1>2, FoldsExist
<1> HIDE DEF g
<1>4. QED BY <1>1, <1>3, FoldedSteps
----------------------------------------------------------------------------
(* The trees of codewords.                                                  *)

Leaves(w) == [i \in 1..Total(w) |-> <<"leaf", [word |-> w, at |-> i - 1]>>]

LEMMA TreeHeights ==
  ASSUME NEW w \in DOMAIN Words
  PROVE  /\ Tree(w)[0] = Leaves(w)
         /\ \A h \in 1..Envelopes[w].proof : Tree(w)[h] = Parents(Tree(w)[h - 1])
<1> DEFINE P == Envelopes[w].proof
           UpTo(f, n) == f = [h \in 0..n |-> IF h = 0 THEN Leaves(w) ELSE Parents(f[h - 1])]
           Bad == {n \in 0..P : ~\E f : UpTo(f, n)}
<1>1. P \in Nat
  BY PipelineAssumption
<1>2. Tree(w) = CHOOSE f : UpTo(f, P)
  BY DEF Tree, Leaves
<1>3. Bad = {}
  <2> SUFFICES ASSUME Bad # {} PROVE FALSE
    OBVIOUS
  <2>1. PICK n \in Bad : \A k \in Bad : n <= k
    <3>1. Bad \subseteq Nat
      BY <1>1
    <3> HIDE DEF Bad
    <3>2. QED BY <3>1, MinExists
  <2>2. n \in 0..P /\ n \in Nat /\ ~\E f : UpTo(f, n)
    BY <1>1, <2>1
  <2>3. CASE n = 0
    <3> DEFINE f == [h \in 0..0 |-> Leaves(w)]
    <3>1. UpTo(f, 0)
      <4>1. \A h \in 0..0 : h = 0
        OBVIOUS
      <4>2. QED BY <4>1, Zenon
    <3>2. QED BY <2>2, <2>3, <3>1
  <2>4. CASE n # 0
    <3>1. n - 1 \in 0..P /\ n - 1 \notin Bad
      BY <1>1, <2>1, <2>2, <2>4, SMTT(60)
    <3>2. PICK f : UpTo(f, n - 1)
      BY <3>1
    <3> DEFINE g == [h \in 0..n |-> IF h = 0 THEN Leaves(w) ELSE Parents(f[h - 1])]
    <3>3. ASSUME NEW h \in 1..n PROVE g[h - 1] = f[h - 1]
      <4>1. h - 1 \in 0..(n - 1) /\ h - 1 \in 0..n
        BY <2>2, <3>3
      <4>2. QED BY <3>2, <4>1
    <3>4. UpTo(g, n)
      <4>1. \A h \in 0..n : (IF h = 0 THEN Leaves(w) ELSE Parents(f[h - 1]))
                          = (IF h = 0 THEN Leaves(w) ELSE Parents(g[h - 1]))
        <5>1. \A h \in 0..n : h # 0 => h \in 1..n
          BY <2>2
        <5> HIDE DEF g
        <5>2. QED BY <3>3, <5>1
      <4>2. QED BY <4>1, Zenon
    <3> HIDE DEF g
    <3>5. QED BY <2>2, <3>4
  <2>5. QED BY <2>3, <2>4
<1>4. UpTo(Tree(w), P)
  <2>1. \E f : UpTo(f, P)
    BY <1>1, <1>3
  <2> HIDE DEF UpTo
  <2>2. QED BY <1>2, <2>1
<1>5. PICK t : t = Tree(w)
  OBVIOUS
<1>6. t = [h \in 0..P |-> IF h = 0 THEN Leaves(w) ELSE Parents(t[h - 1])]
  BY <1>4, <1>5
<1>7. t[0] = Leaves(w) /\ \A h \in 1..P : t[h] = Parents(t[h - 1])
  <2>1. \A h \in 0..P : t[h] = IF h = 0 THEN Leaves(w) ELSE Parents(t[h - 1])
    BY <1>6, Zenon
  <2> HIDE DEF P
  <2>2. QED BY <1>1, <2>1
<1>8. QED BY <1>5, <1>7

\* A height above another: its nodes, and where those of the other are under
\* them.
LEMMA ParentsOf ==
  ASSUME NEW nodes, Len(nodes) \in Nat \ {0}, NEW i \in Nat, i < Len(nodes)
  PROVE  LET up == Parents(nodes) IN
         /\ Len(up) \in Nat \ {0}
         /\ i \div 2 \in Nat /\ i \div 2 < Len(up)
         /\ up[i \div 2 + 1] = Up([node |-> nodes[i + 1], index |-> i], Sibling(nodes, i)).node
<1> DEFINE n == Len(nodes)
           m == (n + 1) \div 2
           j == i \div 2
           up == Parents(nodes)
<1>1. /\ m \in Nat \ {0} /\ j \in Nat /\ j < m /\ j + 1 \in 1..m
      /\ i % 2 = 0 => i = 2 * j
      /\ i % 2 # 0 => i = 2 * j + 1
  OBVIOUS
<1>2. up = [p \in 1..m |-> <<"node", nodes[2 * p - 1], nodes[Min({2 * p, n})]>>]
  BY DEF Parents
<1> HIDE DEF up, m
<1>3. Len(up) = m
  BY <1>1, <1>2
<1>4. up[j + 1] = <<"node", nodes[2 * (j + 1) - 1], nodes[Min({2 * (j + 1), n})]>>
  BY <1>1, <1>2
<1> HIDE DEF n, j
<1>5. n \in Nat /\ i + 1 <= n
  BY DEF n
<1>6. CASE i % 2 = 0
  <2>1. 2 * (j + 1) - 1 = i + 1 /\ 2 * (j + 1) = i + 2
    BY <1>1, <1>6
  <2>2. Sibling(nodes, i) = nodes[Min({i + 2, n})]
    BY <1>6 DEF Sibling, n
  <2>3. up[j + 1] = <<"node", nodes[i + 1], Sibling(nodes, i)>>
    BY <1>4, <2>1, <2>2
  <2>4. QED BY <1>1, <1>3, <1>6, <2>3 DEF Up, up, j, n
<1>7. CASE i % 2 # 0
  <2>1. 2 * (j + 1) - 1 = i /\ 2 * (j + 1) = i + 1
    BY <1>1, <1>7
  <2>2. Min({i, n}) = i /\ Min({i + 1, n}) = i + 1
    <3>1. i \in Int /\ n \in Int /\ i + 1 \in Int
      BY <1>5
    <3>2. Min({i, n}) \in {i, n} /\ Min({i, n}) <= i /\ Min({i, n}) <= n
      BY <3>1, MinOfTwo
    <3>3. PICK k \in Int : k = i + 1
      BY <3>1
    <3>4. Min({k, n}) \in {k, n} /\ Min({k, n}) <= k /\ Min({k, n}) <= n
      BY <3>1, <3>3, MinOfTwo
    <3>5. QED BY <1>5, <3>2, <3>3, <3>4
  <2>3. Sibling(nodes, i) = nodes[i]
    BY <1>7, <2>2 DEF Sibling, n
  <2>4. up[j + 1] = <<"node", Sibling(nodes, i), nodes[i + 1]>>
    BY <1>4, <2>1, <2>2, <2>3
  <2>5. QED BY <1>1, <1>3, <1>7, <2>4 DEF Up, up, j, n
<1>8. QED BY <1>6, <1>7

LEMMA Halves ==
  ASSUME NEW h \in 1..15
  PROVE  2^h = 2 * 2^(h - 1) /\ 2^(h - 1) \in Nat \ {0}
<1>1. h \in {1, 2, 3, 4, 5, 6, 7, 8, 9, 10, 11, 12, 13, 14, 15}
  OBVIOUS
<1>2. /\ 2^0 = 1 /\ 2^1 = 2 /\ 2^2 = 4 /\ 2^3 = 8 /\ 2^4 = 16 /\ 2^5 = 32
      /\ 2^6 = 64 /\ 2^7 = 128 /\ 2^8 = 256 /\ 2^9 = 512 /\ 2^10 = 1024
      /\ 2^11 = 2048 /\ 2^12 = 4096 /\ 2^13 = 8192 /\ 2^14 = 16384 /\ 2^15 = 32768
  OBVIOUS
<1>3. PICK g \in Int : g = h - 1
  OBVIOUS
<1>4. 2^h = 2 * 2^g /\ 2^g \in Nat \ {0}
  <2>1. CASE h = 1 /\ g = 0
    BY <1>2, <2>1
  <2>2. CASE h = 2 /\ g = 1
    BY <1>2, <2>2
  <2>3. CASE h = 3 /\ g = 2
    BY <1>2, <2>3
  <2>4. CASE h = 4 /\ g = 3
    BY <1>2, <2>4
  <2>5. CASE h = 5 /\ g = 4
    BY <1>2, <2>5
  <2>6. CASE h = 6 /\ g = 5
    BY <1>2, <2>6
  <2>7. CASE h = 7 /\ g = 6
    BY <1>2, <2>7
  <2>8. CASE h = 8 /\ g = 7
    BY <1>2, <2>8
  <2>9. CASE h = 9 /\ g = 8
    BY <1>2, <2>9
  <2>10. CASE h = 10 /\ g = 9
    BY <1>2, <2>10
  <2>11. CASE h = 11 /\ g = 10
    BY <1>2, <2>11
  <2>12. CASE h = 12 /\ g = 11
    BY <1>2, <2>12
  <2>13. CASE h = 13 /\ g = 12
    BY <1>2, <2>13
  <2>14. CASE h = 14 /\ g = 13
    BY <1>2, <2>14
  <2>15. CASE h = 15 /\ g = 14
    BY <1>2, <2>15
  <2>16. QED BY <1>1, <1>3, <2>1, <2>2, <2>3, <2>4, <2>5, <2>6, <2>7, <2>8, <2>9, <2>10, <2>11, <2>12, <2>13, <2>14, <2>15
<1>5. QED BY <1>3, <1>4

\* A leader's tree comes to one root.
OneRoot == \A w \in DOMAIN Words : Envelopes[w].leader => Len(Tree(w)[Envelopes[w].proof]) = 1

\* From any shred of a leader's, its proof leads to the root that is signed.
LEMMA ProofLeads ==
  ASSUME OneRoot, NEW s \in Shreds, Envelopes[s.word].leader
  PROVE  Root(Datagrams[s]) = SignedRoot(s.word)
<1> DEFINE w == s.word
           P == Envelopes[w].proof
           d == Datagram(s)
           base == [node |-> <<"leaf", s>>, index |-> s.at]
           proof == ProofOf(w, s.at)
<1>1. /\ w \in DOMAIN Words /\ s.at \in Nat /\ s.at < Total(w) /\ Total(w) \in Nat
      /\ s = [word |-> w, at |-> s.at] /\ Words[w].num_data \in Nat
  BY ShredTyped, WordSizes
<1>2. P \in 0..15
  BY <1>1, PipelineAssumption
<1>3. Datagrams[s] = d
  BY DEF Datagrams
<1>4. Leaf(d) = s.at
  <2>1. Key(s)[2] \in Nat
    BY <1>1, PipelineAssumption DEF Key
  <2>2. /\ d.variant.type = IF IsData(s) THEN "data" ELSE "coding"
        /\ d.index = Key(s)[2] + s.at /\ d.fec_set_index = Key(s)[2]
        /\ d.num_data = Words[w].num_data /\ d.position = s.at - Words[w].num_data
    BY DEF Datagram
  <2> HIDE DEF d
  <2>3. QED BY <1>1, <2>1, <2>2 DEF Leaf
<1>5. Root(d) = FoldLeft(Up, base, proof).node
  <2>1. d.bytes = s /\ d.proof = proof
    BY DEF Datagram
  <2> HIDE DEF d, proof
  <2>2. QED BY <1>4, <2>1 DEF Root
<1>6. PICK t : t = Tree(w)
  OBVIOUS
<1>7. t[0] = Leaves(w) /\ \A h \in 1..P : t[h] = Parents(t[h - 1])
  BY <1>1, <1>6, TreeHeights
<1>8. /\ Len(proof) = P /\ DOMAIN proof = 1..P
      /\ \A h \in 1..P : proof[h] = Sibling(t[h - 1], s.at \div 2^(h - 1))
  <2>1. proof = [h \in 1..P |-> Sibling(t[h - 1], s.at \div 2^(h - 1))]
    BY <1>6 DEF ProofOf
  <2> HIDE DEF proof, P
  <2>2. QED BY <1>2, <2>1
<1> HIDE DEF proof, P, w, d
<1>9. PICK acc : Steps("heights", acc, base, proof) /\ FoldLeft(Up, base, proof) = acc[P]
  <2>1. Len(proof) \in Nat /\ DOMAIN proof = 1..Len(proof)
    BY <1>2, <1>8
  <2> HIDE DEF base
  <2>2. \E acc : Steps("heights", acc, base, proof) /\ FoldLeft(Up, base, proof) = acc[Len(proof)]
    BY <2>1, FoldHeights
  <2>3. QED BY <1>8, <2>2
<1>10. acc[0] = base /\ \A h \in 1..P : acc[h] = Up(acc[h - 1], proof[h])
  BY <1>8, <1>9 DEF Steps, Step
<1> DEFINE On(h, at) ==
             /\ Len(t[h]) \in Nat \ {0}
             /\ at.index = s.at \div 2^h /\ at.index \in Nat /\ at.index < Len(t[h])
             /\ at.node = t[h][at.index + 1]
           Off == {h \in 0..P : ~On(h, acc[h])}
<1>11. On(0, acc[0])
  <2>1. t[0] = [i \in 1..Total(w) |-> <<"leaf", [word |-> w, at |-> i - 1]>>]
    BY <1>7 DEF Leaves
  <2>2. Len(t[0]) = Total(w)
    BY <1>1, <2>1
  <2>3. s.at + 1 \in 1..Total(w) /\ (s.at + 1) - 1 = s.at
    BY <1>1
  <2>4. t[0][s.at + 1] = <<"leaf", [word |-> w, at |-> s.at]>>
    BY <2>1, <2>3
  <2>5. s.at \div 2^0 = s.at
    BY <1>1
  <2>6. acc[0].index = s.at /\ acc[0].node = <<"leaf", s>>
    BY <1>10
  <2>7. acc[0].node = t[0][s.at + 1]
    BY <1>1, <2>4, <2>6, Zenon
  <2>8. QED BY <1>1, <2>2, <2>5, <2>6, <2>7
<1>12. ASSUME NEW h \in 1..P, On(h - 1, acc[h - 1]) PROVE On(h, acc[h])
  <2>1. PICK from, nodes, i : from = acc[h - 1] /\ nodes = t[h - 1] /\ i = s.at \div 2^(h - 1)
    OBVIOUS
  <2>2. /\ Len(nodes) \in Nat \ {0} /\ i \in Nat /\ i < Len(nodes)
        /\ from.index = i /\ from.node = nodes[i + 1]
    BY <1>12, <2>1
  <2>3. acc[h] = Up(from, Sibling(nodes, i)) /\ t[h] = Parents(nodes)
    BY <1>7, <1>8, <1>10, <2>1
  <2>4. /\ Len(t[h]) \in Nat \ {0}
        /\ i \div 2 \in Nat /\ i \div 2 < Len(t[h])
        /\ t[h][i \div 2 + 1] = Up([node |-> nodes[i + 1], index |-> i], Sibling(nodes, i)).node
    <3>1. Len(nodes) \in Nat \ {0} /\ i \in Nat /\ i < Len(nodes)
      BY <2>2
    <3>2. QED BY <2>3, <3>1, ParentsOf
  <2>5. /\ acc[h].index = i \div 2
        /\ acc[h].node = Up([node |-> nodes[i + 1], index |-> i], Sibling(nodes, i)).node
    BY <2>2, <2>3 DEF Up
  <2>6. i \div 2 = s.at \div 2^h
    <3>1. h \in 1..15
      BY <1>2, <1>12
    <3>2. 2^h = 2 * 2^(h - 1) /\ 2^(h - 1) \in Nat \ {0}
      BY <3>1, Halves
    <3>3. PICK x \in Nat \ {0} : x = 2^(h - 1)
      BY <3>2
    <3>4. (s.at \div x) \div 2 = s.at \div (2 * x)
      BY <1>1, <3>3
    <3>5. QED BY <2>1, <3>2, <3>3, <3>4
  <2>7. QED BY <2>4, <2>5, <2>6
<1> HIDE DEF On
<1>13. Off = {}
  <2> SUFFICES ASSUME Off # {} PROVE FALSE
    OBVIOUS
  <2>1. PICK h \in Off : \A k \in Off : h <= k
    <3>1. Off \subseteq Nat
      BY <1>2
    <3> HIDE DEF Off
    <3>2. QED BY <3>1, MinExists
  <2>2. h \in 0..P /\ ~On(h, acc[h]) /\ h # 0
    BY <1>11, <2>1
  <2>3. h \in 1..P /\ h - 1 \in 0..P /\ h - 1 \notin Off
    BY <1>2, <2>1, <2>2
  <2>4. QED BY <1>12, <2>2, <2>3
<1>14. On(P, acc[P])
  BY <1>2, <1>13
<1>15. Len(t[P]) = 1
  BY <1>1, <1>6 DEF OneRoot, P
<1>16. acc[P].index = 0 /\ acc[P].node = t[P][acc[P].index + 1]
  BY <1>14, <1>15 DEF On
<1>17. acc[P].node = t[P][1]
  BY <1>16
<1>18. QED BY <1>3, <1>5, <1>6, <1>9, <1>17 DEF SignedRoot, P, w

\* No shred of a leader's is refused.
LEMMA LeadersPass ==
  ASSUME OneRoot, NEW s \in Shreds, Envelopes[s.word].leader
  PROVE  "forged" \notin Verdicts(s)
<1>1. Proven[s]
  BY ProofLeads DEF Proven
<1>2. QED BY <1>1 DEF Verdicts

\* What bodies of one batch are read as, each with whether it is doubtful.
ReadOf(key, bodies) == {ReadAs(b[1], key, b[1].at, b[2]) : b \in bodies}

Reads(ds, key, bodies) == ds \in Seq(ReadOf(key, bodies))

\* What a body read of is read as, if it parses.
Covered(ds, key, x) ==
  \E j \in 1..Len(ds) : \E doubtful : ds[j] = ReadAs(x, key, x.at, doubtful)

BodySound(x) ==
  /\ x.word # "none"
  /\ LET d == Datagrams[x] IN DataSound(d, ShardLen(d.variant), SHRED_VERSION)

\* An order goes through everything it is of.
LEMMA OrderCovers ==
  ASSUME NEW S, IsFiniteSet(S), \A x \in S : x.at \in Nat, NEW o \in InOrder(S)
  PROVE  /\ Cardinality(S) \in Nat
         /\ o \in [1..Cardinality(S) -> S]
         /\ \A x \in S : \E n \in 1..Cardinality(S) : o[n] = x
<1> DEFINE N == Cardinality(S)
<1>1. N \in Nat
  BY FS_CardinalityType
<1>2. /\ o \in [1..N -> S]
      /\ \A m, n \in 1..N : m < n => o[m].at < o[n].at
  BY DEF InOrder
<1> HIDE DEF N
<1>3. ASSUME NEW m \in 1..N, NEW n \in 1..N, m < n PROVE o[m] # o[n]
  <2>1. o[m].at < o[n].at
    BY <1>2, <1>3
  <2>2. QED
    <3>1. o[m].at \in Nat
      BY <1>2
    <3>2. QED BY <2>1, <3>1
<1>4. o \in Injection(1..N, S)
  <2>1. \A m, n \in 1..N : o[m] = o[n] => m = n
    <3>1. \A m, n \in 1..N : m < n \/ n < m \/ m = n
      BY <1>1
    <3>2. QED BY <1>3, <3>1
  <2>2. QED BY <1>2, <2>1 DEF Injection, IsInjective
<1>5. IsFiniteSet(1..N) /\ Cardinality(1..N) = N
  BY <1>1, FS_Interval
<1>6. o \in Surjection(1..N, S)
  <2>1. Cardinality(1..N) = Cardinality(S)
    BY <1>5 DEF N
  <2>2. QED BY <1>4, <2>1, FS_Injection
<1>7. \A x \in S : \E n \in 1..N : o[n] = x
  BY <1>6 DEF Surjection
<1>8. QED BY <1>1, <1>2, <1>7 DEF N

LEMMA ReadingsRead ==
  ASSUME NEW bodies, IsFiniteSet(bodies), \A x \in bodies : x.at \in Nat, NEW key, NEW doubtful,
         NEW r \in Readings(bodies, key, doubtful)
  PROVE  /\ Reads(r, key, bodies \X {doubtful})
         /\ \A x \in bodies : BodySound(x) => Covered(r, key, x)
<1> DEFINE sound == {s \in bodies : BodySound(s)}
<1>1. PICK parsed \in SUBSET {s \in bodies : s.word = "none"} :
        \E o \in InOrder(sound \cup parsed) :
          r = [n \in DOMAIN o |-> ReadAs(o[n], key, o[n].at, doubtful)]
  BY DEF Readings, BodySound
<1> DEFINE S == sound \cup parsed
<1>2. PICK o \in InOrder(S) : r = [n \in DOMAIN o |-> ReadAs(o[n], key, o[n].at, doubtful)]
  BY <1>1
<1>3. IsFiniteSet(S) /\ S \subseteq bodies /\ sound \subseteq S
  <2>1. S \subseteq bodies
    OBVIOUS
  <2>2. QED BY <2>1, FS_Subset
<1> HIDE DEF S
<1> DEFINE N == Cardinality(S)
<1>4. /\ N \in Nat /\ o \in [1..N -> S]
      /\ \A x \in S : \E n \in 1..N : o[n] = x
  BY <1>3, OrderCovers
<1> HIDE DEF N
<1>5. DOMAIN r = 1..N /\ \A n \in 1..N : r[n] = ReadAs(o[n], key, o[n].at, doubtful)
  BY <1>2, <1>4
<1>6. \A n \in 1..N : r[n] \in ReadOf(key, bodies \X {doubtful})
  <2>1. \A j \in 1..N : o[j] \in bodies
    BY <1>3, <1>4
  <2>2. SUFFICES ASSUME NEW n \in 1..N PROVE r[n] \in ReadOf(key, bodies \X {doubtful})
    OBVIOUS
  <2> DEFINE b == <<o[n], doubtful>>
  <2>3. b \in bodies \X {doubtful} /\ b[1] = o[n] /\ b[2] = doubtful
    BY <2>1
  <2> HIDE DEF b
  <2>4. r[n] = ReadAs(b[1], key, b[1].at, b[2])
    BY <1>5, <2>3
  <2>5. QED BY <2>3, <2>4 DEF ReadOf
<1>7. /\ r \in Seq(ReadOf(key, bodies \X {doubtful}))
      /\ Len(r) = N
  <2>1. r \in [1..N -> ReadOf(key, bodies \X {doubtful})]
    BY <1>2, <1>4, <1>5, <1>6
  <2> DEFINE all == ReadOf(key, bodies \X {doubtful})
  <2> HIDE DEF all
  <2>2. r \in [1..N -> all]
    BY <2>1 DEF all
  <2>3. r \in Seq(all) /\ Len(r) = N
    BY <1>4, <2>2
  <2>4. QED BY <2>3 DEF all
<1>8. ASSUME NEW x \in bodies, BodySound(x) PROVE Covered(r, key, x)
  <2>1. x \in S
    BY <1>3, <1>8
  <2>2. PICK n \in 1..N : o[n] = x
    BY <1>4, <2>1
  <2>3. QED BY <1>5, <1>7, <2>2 DEF Covered
<1>9. QED BY <1>7, <1>8 DEF Reads

\* What a packet hands on: the shred it is, if data, and what is read of the
\* bodies it made it possible to rebuild.
Bodies(s, doubtful, recovered) == (IF IsData(s) THEN {<<s, doubtful>>} ELSE {}) \cup recovered

LEMMA HandedReads ==
  ASSUME NEW s, NEW bodies, NEW r, NEW doubtful,
         Reads(r, Key(s), bodies)
  PROVE  LET ds == Handed(Received(s, doubtful), r) IN
         /\ Reads(ds, Key(s), Bodies(s, doubtful, bodies))
         /\ IsData(s) => Covered(ds, Key(s), s)
         /\ \A x : Covered(r, Key(s), x) => Covered(ds, Key(s), x)
<1> DEFINE key == Key(s)
           one == ReadAs(s, Key(s), s.at, doubtful)
           all == ReadOf(key, Bodies(s, doubtful, bodies))
           got == Received(s, doubtful)
           ds  == got \o r
<1>1. r \in Seq(all)
  <2>1. ReadOf(key, bodies) \subseteq all
    BY DEF ReadOf, Bodies
  <2>2. QED BY <2>1 DEF Reads
<1>2. got \in Seq(all) /\ (IsData(s) => Len(got) = 1 /\ got[1] = one)
  <2>1. CASE IsData(s)
    <3>1. one \in all
      <4> DEFINE b == <<s, doubtful>>
      <4>1. b \in Bodies(s, doubtful, bodies) /\ b[1] = s /\ b[2] = doubtful
        BY <2>1 DEF Bodies
      <4> HIDE DEF b
      <4>2. one = ReadAs(b[1], key, b[1].at, b[2])
        BY <4>1
      <4>3. QED BY <4>1, <4>2 DEF ReadOf
    <3>2. got = <<one>>
      BY <2>1 DEF Received
    <3> HIDE DEF one, all, got
    <3>3. QED BY <3>1, <3>2
  <2>2. CASE ~IsData(s)
    <3>1. got = <<>>
      BY <2>2 DEF Received
    <3> HIDE DEF one, all, got
    <3>2. QED BY <2>2, <3>1
  <2>3. QED BY <2>1, <2>2
<1> HIDE DEF one, all, got
<1>3. /\ ds \in Seq(all)
      /\ Len(got) \in Nat /\ Len(r) \in Nat /\ Len(ds) = Len(got) + Len(r)
      /\ \A n \in 1..Len(got) : ds[n] = got[n]
      /\ \A n \in 1..Len(r) : ds[Len(got) + n] = r[n]
  BY <1>1, <1>2
<1> HIDE DEF ds
<1>4. ASSUME IsData(s) PROVE Covered(ds, key, s)
  <2>1. Len(got) = 1 /\ got[1] = one
    BY <1>2, <1>4
  <2>2. 1 \in 1..Len(ds) /\ ds[1] = one
    BY <1>3, <2>1
  <2>3. QED BY <2>2 DEF Covered, one
<1>5. ASSUME NEW x, Covered(r, key, x) PROVE Covered(ds, key, x)
  <2>1. PICK j \in 1..Len(r) : \E d : r[j] = ReadAs(x, key, x.at, d)
    BY <1>5 DEF Covered
  <2>2. Len(got) + j \in 1..Len(ds) /\ ds[Len(got) + j] = r[j]
    BY <1>3
  <2>3. QED BY <2>1, <2>2 DEF Covered
<1>6. ds = Handed(Received(s, doubtful), r)
  BY DEF Handed, ds, got
<1>7. QED BY <1>3, <1>4, <1>5, <1>6 DEF Reads, all
----------------------------------------------------------------------------
(* What a packet hands on.                                                  *)

\* A data shred of a batch, or what is nobody's.
BodyOf(x, k) ==
  /\ x = [word |-> x.word, at |-> x.at] /\ x.at \in Nat
  /\ x.word = "none" \/ (x.word \in wire /\ Words[x.word].key = k)

LEMMA DecodedOf ==
  ASSUME NEW k, NEW set, NEW T, Filled(wire, k, set, T), NEW i \in Nat
  PROVE  BodyOf(Decoded(Shards(set), set.layout, i), k)
<1> DEFINE shards == Shards(set)
           x == Decoded(shards, set.layout, i)
           first == {j \in DOMAIN shards :
                       Cardinality({m \in DOMAIN shards : m < j}) < set.layout.num_data}
           words == {shards[j].word : j \in first}
<1>1. \A j \in DOMAIN shards : shards[j] \in T
  <2>1. \A m \in DOMAIN set.data : set.data[m] \in T
    BY DEF Filled
  <2>2. \A p \in DOMAIN set.coding : p \in Int /\ set.coding[p] \in T
    BY DEF Filled
  <2> DEFINE d == set.layout.num_data
             n == d + set.layout.num_coding
             sized(f) == {m \in DOMAIN f : Words[f[m].word].shard_len = set.layout.shard_len}
             data   == {m \in sized(set.data) : m < n}
             coding == {d + p : p \in {p \in sized(set.coding) : d + p < n}}
  <2>3. shards = [m \in data \cup coding |-> IF m \in coding THEN set.coding[m - d] ELSE set.data[m]]
    BY DEF Shards
  <2>4. SUFFICES ASSUME NEW m \in data \cup coding
                 PROVE  (IF m \in coding THEN set.coding[m - d] ELSE set.data[m]) \in T
    <3> HIDE DEF shards, data, coding, d
    <3>1. QED BY <2>3
  <2>5. CASE m \notin coding
    BY <2>1, <2>4, <2>5
  <2>6. CASE m \in coding
    <3>1. set.layout = NoLayout \/ \E s \in Of(wire, k) : set.layout = Words[s.word]
      BY DEF Filled
    <3>2. d \in Int
      <4>1. NoLayout.num_data \in Int
        BY DEF NoLayout
      <4>2. QED BY <3>1, <4>1, OfTyped
    <3>3. PICK p \in DOMAIN set.coding : m = d + p
      BY <2>6
    <3> HIDE DEF d, coding
    <3>4. p \in Int
      BY <2>2
    <3>5. m - d = p
      BY <3>2, <3>3, <3>4
    <3>6. QED BY <2>2, <2>6, <3>5
  <2>7. QED BY <2>5, <2>6
<1>2. \A v \in words : v \in wire /\ Words[v].key = k
  <2>1. \A y \in T : y.word \in wire /\ Words[y.word].key = k
    BY OfTyped DEF Filled, Key
  <2> HIDE DEF shards
  <2>2. QED BY <1>1, <2>1
<1> DEFINE sound == /\ Cardinality(words) = 1
                    /\ \A w \in words : Words[w] = set.layout
                    /\ \A j \in first : shards[j].at = j
<1>3. x = [word |-> IF sound THEN CHOOSE w \in words : TRUE ELSE "none", at |-> i]
  BY DEF Decoded
<1>4. sound => (CHOOSE w \in words : TRUE) \in words
  <2> HIDE DEF words
  <2>1. Cardinality({}) = 0
    BY FS_EmptySet
  <2>2. QED BY <2>1
<1> HIDE DEF words, first, shards, x
<1>5. x.at = i /\ x = [word |-> x.word, at |-> x.at]
  BY <1>3
<1>6. x.word = IF sound THEN CHOOSE w \in words : TRUE ELSE "none"
  BY <1>3
<1> HIDE DEF sound
<1>7. BodyOf(x, k)
  BY <1>2, <1>4, <1>5, <1>6 DEF BodyOf
<1>8. QED BY <1>7 DEF x, shards

LEMMA RecoveredOf ==
  ASSUME NEW k, NEW set, NEW T, Filled(wire, k, set, T)
  PROVE  LET more == Recover(set).out IN
         IsFiniteSet(more) /\ \A x \in more : BodyOf(x, k)
<1> DEFINE N == set.layout.num_data
           all == {Decoded(Shards(set), set.layout, i) : i \in Missing(set)}
<1>1. \/ Recover(set).out = {}
      \/ set.layout # NoLayout /\ Recover(set).out = all
  BY DEF Recover
<1>2. CASE Recover(set).out = {}
  BY <1>2, FS_EmptySet
<1>3. CASE set.layout # NoLayout /\ Recover(set).out = all
  <2>1. N \in Nat
    <3>1. \E s \in Of(wire, k) : set.layout = Words[s.word]
      BY <1>3 DEF Filled
    <3>2. QED BY <3>1, OfTyped
  <2>2. Missing(set) \subseteq 0..(N - 1)
    BY DEF Missing
  <2>3. IsFiniteSet(Missing(set)) /\ Missing(set) \subseteq Nat
    <3> HIDE DEF N
    <3>1. IsFiniteSet(0..(N - 1)) /\ 0..(N - 1) \subseteq Nat
      BY <2>1, FS_Interval
    <3>2. QED BY <2>2, <3>1, FS_Subset
  <2>4. IsFiniteSet(all)
    <3> DEFINE M == Missing(set)
               f == [i \in M |-> Decoded(Shards(set), set.layout, i)]
    <3>1. f \in Surjection(M, all)
      BY DEF Surjection
    <3> HIDE DEF f, M
    <3>2. IsFiniteSet(M)
      BY <2>3 DEF M
    <3>3. QED BY <3>1, <3>2, FS_Surjection
  <2>5. \A x \in all : BodyOf(x, k)
    BY <2>3, DecodedOf
  <2>6. QED BY <1>3, <2>4, <2>5
<1>4. QED BY <1>1, <1>2, <1>3

\* What an insert returns: data shreds of the batch, among those rebuilt of it.
LEMMA OutOf ==
  ASSUME RecoveryInv, NEW s, s \in Of(wire, Key(s)),
         InsertData(s, 0) \/ InsertCoding(s, 0) \/ Refuse(s)
  PROVE  /\ IsFiniteSet(out') /\ \A x \in out' : BodyOf(x, Key(s))
         /\ wire' = wire
         /\ \A x \in out' : Key(s) \in Keys(sets') /\ x \in rebuilt'[Key(s)]
<1>1. CASE Refuse(s)
  BY <1>1, FS_EmptySet DEF Refuse
<1>2. CASE InsertData(s, 0) \/ InsertCoding(s, 0)
  <2>1. PICK set, given, T : /\ Inserted(s, 0, set, given)
                             /\ ~set.resolved => Filled(wire, Key(s), given, T)
    BY <1>2, InsertsSound DEF RecoveryInv
  <2>2. \/ set.resolved /\ out' = {}
        \/ ~set.resolved /\ out' = Recover(given).out
    BY <2>1 DEF Inserted
  <2>3. IsFiniteSet(out') /\ \A x \in out' : BodyOf(x, Key(s))
    BY <2>1, <2>2, RecoveredOf, FS_EmptySet
  <2>4. Key(s) \in Keys(sets') /\ rebuilt' = Recorded(rebuilt, Key(s), Keys(Swept(0)), out')
    BY <2>1 DEF Inserted, Upsert, Keys
  <2>5. \A x \in out' : x \in rebuilt'[Key(s)]
    BY <2>4 DEF Recorded
  <2>6. QED BY <2>1, <2>3, <2>4, <2>5 DEF Inserted
<1>3. QED BY <1>1, <1>2

\* The bodies a packet comes to: its own, and those rebuilt.
HandedBy(s, verdict) == Bodies(s, verdict = "unknown", out' \X {Key(s) \in unproven'})

\* Everything a packet hands on is of its batch, and it hands on what it is and
\* what of the rebuilt parses.
LEMMA PacketHands ==
  ASSUME RecoveryInv, NEW s, s \in Of(wire, Key(s)), Packet(s)
  PROVE  \E verdict \in Verdicts(s) \ {"forged"} : \E ds :
           /\ unproven' = {k \in Keys(sets') : k \in unproven \/ (verdict = "unknown" /\ k = Key(s))}
           /\ Reads(ds, Key(s), HandedBy(s, verdict))
           /\ IsData(s) => Covered(ds, Key(s), s)
           /\ \A x \in out' : BodySound(x) => Covered(ds, Key(s), x)
           /\ DataShreds(ds)
<1>1. PICK verdict \in Verdicts(s) \ {"forged"} :
        /\ InsertData(s, 0) \/ InsertCoding(s, 0) \/ Refuse(s)
        /\ unproven' = {k \in Keys(sets') : k \in unproven \/ (verdict = "unknown" /\ k = Key(s))}
        /\ \E recovered \in Readings(out', Key(s), Key(s) \in unproven') :
             DataShreds(Handed(Received(s, verdict = "unknown"), recovered))
  BY Zenon DEF Packet
<1>2. PICK r \in Readings(out', Key(s), Key(s) \in unproven') :
        DataShreds(Handed(Received(s, verdict = "unknown"), r))
  BY <1>1, Zenon
<1>3. PICK bodies : bodies = out'
  OBVIOUS
<1>4. PICK unsure : unsure = (Key(s) \in unproven')
  OBVIOUS
<1>5. PICK doubtful : doubtful = (verdict = "unknown")
  OBVIOUS
<1>6. IsFiniteSet(bodies) /\ \A x \in bodies : x.at \in Nat
  BY <1>1, <1>3, OutOf, Zenon DEF BodyOf
<1>7. /\ Reads(r, Key(s), bodies \X {unsure})
      /\ \A x \in bodies : BodySound(x) => Covered(r, Key(s), x)
  <2>1. r \in Readings(bodies, Key(s), unsure)
    BY <1>2, <1>3, <1>4, Zenon
  <2>2. QED BY <1>6, <2>1, ReadingsRead
<1>8. PICK ds : ds = Handed(Received(s, doubtful), r)
  OBVIOUS
<1>9. /\ Reads(ds, Key(s), Bodies(s, doubtful, bodies \X {unsure}))
      /\ IsData(s) => Covered(ds, Key(s), s)
      /\ \A x : Covered(r, Key(s), x) => Covered(ds, Key(s), x)
  BY <1>7, <1>8, HandedReads, Zenon
<1>10. DataShreds(ds)
  <2>1. ds = Handed(Received(s, verdict = "unknown"), r)
    BY <1>5, <1>8, Zenon
  <2>2. QED BY <1>2, <2>1, Zenon
<1>11. Reads(ds, Key(s), HandedBy(s, verdict))
  BY <1>3, <1>4, <1>5, <1>9, Zenon DEF HandedBy
<1>12. \A x \in out' : BodySound(x) => Covered(ds, Key(s), x)
  BY <1>3, <1>7, <1>9, Zenon
<1>13. QED BY <1>1, <1>9, <1>10, <1>11, <1>12, Zenon

----------------------------------------------------------------------------
(* The anchor and the clocks.                                               *)

\* No slot's first data shred is ahead of the anchor, and the slot anchored on,
\* once there is one, is clocked from its first.
Paced(n, st, cl) ==
  /\ n \in Nat
  /\ \A slot \in DOMAIN cl : slot \in Nat /\ slot <= n
  /\ n \in DOMAIN cl => cl[n] = st
  /\ n # 0 => n \in DOMAIN cl

AnchorInv == Paced(number, started, clocks)

LEMMA ShredPaces ==
  ASSUME NEW st, Paced(st.number, st.started, st.clocks),
         NEW d, d.slot \in Nat \ {0}
  PROVE  LET then == DataShred(st, d) IN Paced(then.number, then.started, then.clocks)
<1> DEFINE n == st.number
           cl == st.clocks
           then == DataShred(st, d)
           m == then.number
           cm == then.clocks
<1>1. n \in Nat /\ d.slot \in Nat \ {0} /\ MAX_SLOT_ADVANCE \in Nat
  BY AnchorAssumption DEF Paced
<1>2. /\ m = IF Moves(d.slot, n) THEN d.slot ELSE n
      /\ then.started = IF Moves(d.slot, n) THEN 0 ELSE st.started
      /\ cm = IF d.slot + MAX_SLOT_ADVANCE < n THEN [slot \in {d.slot} |-> 0]
              ELSE [slot \in DOMAIN cl \cup {d.slot} |-> IF slot \in DOMAIN cl THEN cl[slot] ELSE 0]
  BY DEF DataShred, Anchored
<1>3. /\ \A slot \in DOMAIN cl : slot \in Nat /\ slot <= n
      /\ n \in DOMAIN cl => cl[n] = st.started
      /\ n # 0 => n \in DOMAIN cl
  BY DEF Paced
<1> HIDE DEF n, cl, then, m, cm
<1>4. CASE d.slot + MAX_SLOT_ADVANCE < n
  <2>1. m = d.slot /\ then.started = 0 /\ cm = [slot \in {d.slot} |-> 0]
    BY <1>2, <1>4 DEF Moves
  <2>2. QED BY <1>1, <2>1 DEF Paced, m, cm, then
<1>5. CASE d.slot > n
  <2>1. m = d.slot /\ then.started = 0 /\ ~(d.slot + MAX_SLOT_ADVANCE < n) /\ d.slot \notin DOMAIN cl
    BY <1>1, <1>2, <1>3, <1>5 DEF Moves
  <2>2. DOMAIN cm = DOMAIN cl \cup {d.slot} /\ cm[d.slot] = 0
    BY <1>2, <2>1
  <2>3. Paced(m, then.started, cm)
    BY <1>1, <1>3, <1>5, <2>1, <2>2 DEF Paced
  <2>4. QED BY <2>3 DEF m, cm, then
<1>6. CASE ~(d.slot + MAX_SLOT_ADVANCE < n) /\ ~(d.slot > n)
  <2>1. m = n /\ then.started = st.started /\ n # 0
    BY <1>1, <1>2, <1>6 DEF Moves
  <2>2. DOMAIN cm = DOMAIN cl \cup {d.slot} /\ \A slot \in DOMAIN cl : cm[slot] = cl[slot]
    BY <1>2, <1>6
  <2>3. Paced(m, then.started, cm)
    BY <1>1, <1>3, <1>6, <2>1, <2>2 DEF Paced
  <2>4. QED BY <2>3 DEF m, cm, then
<1>7. QED BY <1>4, <1>5, <1>6

\* No slot is the genesis slot: there slot 0 is the anchor before there is one.
NoGenesis == \A w \in DOMAIN Words : Slot(Words[w].key) # 0

LEMMA DataShredsPace ==
  ASSUME AnchorInv, NEW ds, NEW key, NEW bodies, Reads(ds, key, bodies),
         Slot(key) \in Nat \ {0}, DataShreds(ds)
  PROVE  AnchorInv'
<1> DEFINE base == [number |-> number, started |-> started,
                    buffers |-> buffers, clocks |-> clocks, dropped |-> {}]
<1>1. Len(ds) \in Nat /\ DOMAIN ds = 1..Len(ds)
      /\ \A j \in 1..Len(ds) : ds[j] \in ReadOf(key, bodies)
  <2> DEFINE all == ReadOf(key, bodies)
  <2>1. ds \in Seq(all)
    BY DEF Reads
  <2> HIDE DEF all
  <2>2. Len(ds) \in Nat /\ DOMAIN ds = 1..Len(ds) /\ \A j \in 1..Len(ds) : ds[j] \in all
    BY <2>1
  <2>3. QED BY <2>2 DEF all
<1>2. \A j \in 1..Len(ds) : ds[j].slot \in Nat \ {0}
  BY <1>1 DEF ReadOf, ReadAs
<1>3. PICK acc : Steps("shreds", acc, base, ds) /\ FoldLeft(DataShred, base, ds) = acc[Len(ds)]
  BY <1>1, FoldSteps
<1> DEFINE P(n) == Paced(acc[n].number, acc[n].started, acc[n].clocks)
           Bad == {n \in 0..Len(ds) : ~P(n)}
<1>4. P(0)
  <2>1. acc[0] = base
    BY <1>3 DEF Steps, Step
  <2>2. QED BY <2>1 DEF AnchorInv
<1>5. ASSUME NEW n \in 1..Len(ds), P(n - 1) PROVE P(n)
  <2>1. acc[n] = DataShred(acc[n - 1], ds[n])
    BY <1>3, <1>5 DEF Steps, Step
  <2>2. PICK st : st = acc[n - 1]
    OBVIOUS
  <2>3. Paced(st.number, st.started, st.clocks) /\ ds[n].slot \in Nat \ {0}
    BY <1>2, <1>5, <2>2
  <2>4. QED BY <2>1, <2>2, <2>3, ShredPaces
<1> HIDE DEF P
<1>6. Bad = {}
  <2> SUFFICES ASSUME Bad # {} PROVE FALSE
    OBVIOUS
  <2>1. PICK n \in Bad : \A k \in Bad : n <= k
    <3>1. Bad \subseteq Nat
      OBVIOUS
    <3> HIDE DEF Bad
    <3>2. QED BY <3>1, MinExists
  <2>2. n \in 0..Len(ds) /\ ~P(n) /\ n # 0
    BY <1>4, <2>1
  <2>3. n \in 1..Len(ds) /\ n - 1 \in 0..Len(ds) /\ n - 1 \notin Bad
    BY <1>1, <2>1, <2>2
  <2>4. QED BY <1>5, <2>2, <2>3
<1>7. P(Len(ds))
  BY <1>1, <1>6
<1>8. PICK st : st = acc[Len(ds)]
  OBVIOUS
<1>9. number' = st.number /\ started' = st.started /\ clocks' = st.clocks
  BY <1>3, <1>8 DEF DataShreds
<1>10. Paced(st.number, st.started, st.clocks)
  BY <1>7, <1>8 DEF P
<1>11. QED BY <1>9, <1>10 DEF AnchorInv
LEMMA StepPaces ==
  ASSUME NoGenesis, RecoveryInv, AnchorInv, [PipelineNext]_allVars
  PROVE  AnchorInv'
<1>1. ASSUME UNCHANGED <<number, started, clocks>> PROVE AnchorInv'
  BY <1>1 DEF AnchorInv, Paced
<1>2. ASSUME NEW w \in wire, NEW i \in 0..(Total(w) - 1), Discard([word |-> w, at |-> i])
      PROVE  AnchorInv'
  BY <1>1, <1>2 DEF Discard, history
<1>3. ASSUME NEW w \in wire, NEW i \in 0..(Total(w) - 1), Packet([word |-> w, at |-> i])
      PROVE  AnchorInv'
  <2> DEFINE s == [word |-> w, at |-> i]
  <2>1. s \in Of(wire, Key(s)) /\ Packet(s)
    BY <1>3, Arrives DEF RecoveryInv, BatchesSound
  <2> HIDE DEF s
  <2>2. PICK ds : (\E bodies : Reads(ds, Key(s), bodies)) /\ DataShreds(ds)
    BY <2>1, PacketHands, Zenon
  <2>3. Slot(Key(s)) \in Nat \ {0}
    <3>1. s.word \in DOMAIN Words
      BY <2>1, OfTyped
    <3>2. QED BY <3>1, PipelineAssumption DEF NoGenesis, Key, Slot
  <2>4. QED BY <2>2, <2>3, DataShredsPace
<1>4. ASSUME NEW slots \in Windows, Schedule(slots) PROVE AnchorInv'
  BY <1>1, <1>4 DEF Schedule, history
<1>5. ASSUME NEW dt \in Ticks, Wait(dt) PROVE AnchorInv'
  <2>1. /\ number' = number /\ started' = Min({started + dt, CAP})
        /\ clocks' = [slot \in DOMAIN clocks |-> Min({clocks[slot] + dt, CAP})]
    BY <1>5 DEF Wait
  <2>2. DOMAIN clocks' = DOMAIN clocks
        /\ \A slot \in DOMAIN clocks : clocks'[slot] = Min({clocks[slot] + dt, CAP})
    BY <2>1
  <2>3. number \in DOMAIN clocks => clocks'[number] = started'
    BY <2>1, <2>2 DEF AnchorInv, Paced
  <2>4. QED BY <2>1, <2>2, <2>3 DEF AnchorInv, Paced
<1>6. CASE UNCHANGED allVars
  BY <1>1, <1>6 DEF allVars, anchor, history
<1>7. QED BY <1>2, <1>3, <1>4, <1>5, <1>6 DEF PipelineNext

\* Whatever the shreds of a slot say and in whatever order they come, the time
\* into the slot a transaction is said to be at is that since the slot's first
\* data shred, if no leader's slot is the genesis slot (anchor, slot_offset).
THEOREM OffsetsAreHonest ==
  ASSUME NoGenesis
  PROVE  PipelineSpec => []OffsetsHonest
<1>1. PipelineInit => AnchorInv
  BY DEF PipelineInit, AnchorInv, Paced
<1>2. RecoveryInv /\ AnchorInv /\ [PipelineNext]_allVars => AnchorInv'
  BY StepPaces
<1>3. AnchorInv => OffsetsHonest
  BY DEF AnchorInv, Paced, OffsetsHonest, SlotOffset
<1>4. QED BY <1>1, <1>2, <1>3, Recovers, PTL DEF PipelineSpec
----------------------------------------------------------------------------
(* The slots the assembler holds.                                           *)

\* What may be held in a place of a slot.
HeldOf(slot, p, x) ==
  /\ p = <<p[1], x.at>> /\ BodyOf(x, <<slot, p[1]>>)
  /\ Once(<<slot, p[1]>>) => x.word # "none"

\* The match heard of a shred when it was read, and not before.
CalledWhenRead(b, call, x, p) ==
  IF p \in b.read THEN Called(b, call, x) ELSE <<call, x>> \notin DOMAIN b.calls

BufferSound(slot, b) ==
  /\ \A p \in DOMAIN b.held : HeldOf(slot, p, b.held[p])
  /\ \A p \in DOMAIN b.held : p \in Run(DOMAIN b.held, p[1]) => p \in b.read
  /\ \A w \in wire : Slot(Words[w].key) = slot /\ Once(Words[w].key) =>
       \A i \in 0..(Words[w].num_data - 1) :
         LET x == [word |-> w, at |-> i]
             p == <<Words[w].key[2], i>>
         IN  /\ w \in Watched => CalledWhenRead(b, "trigger", x, p)
             /\ w \in Ours    => CalledWhenRead(b, "landed", x, p)
  /\ ~b.doubtful => \A p \in DOMAIN b.held : Once(<<slot, p[1]>>) => Genuine(b.held[p])

BuffersSound(m) ==
  \A slot \in Keys(m) : m.entries[slot].age \in Nat /\ BufferSound(slot, m.entries[slot].value)

\* A batch's indices are indices of a slot.
Fits == \A w \in DOMAIN Words : Words[w].key[2] + Words[w].num_data <= MAX_SHREDS_PER_SLOT

\* A place of a slot in a map of slots.
HasPlace(m, slot, p) == slot \in Keys(m) /\ p \in DOMAIN m.entries[slot].value.held

\* The assembler has what came of a batch and what was rebuilt of it.
Fed(m, k, shreds) ==
  \A x \in shreds : IsData(x) => HasPlace(m, Slot(k), <<k[2], x.at>>)

BatchesFed ==
  \A k \in Keys(sets) \ broken : Once(k) => Fed(buffers, k, taken[k] \cup rebuilt[k])

BuffersInv == BuffersSound(buffers) /\ (Fits => BatchesFed)

\* What matching shreds makes of a call about a shred, which may be one of them.
Hears(then, calls, c, matched) ==
  /\ c \in DOMAIN then <=> (c \in DOMAIN calls \/ matched)
  /\ matched /\ c \notin DOMAIN calls => then[c] = 1
  /\ ~matched /\ c \in DOMAIN calls /\ calls[c] = 1 => then[c] = 1

LEMMA Reacted ==
  ASSUME NEW calls, NEW shreds, NEW x
  PROVE  /\ x.word \in Watched => Hears(React(calls, shreds), calls, <<"trigger", x>>, x \in shreds)
         /\ x.word \in Ours    => Hears(React(calls, shreds), calls, <<"landed", x>>, x \in shreds)
<1> DEFINE then == React(calls, shreds)
           D == DOMAIN calls \cup {<<"trigger", s>> : s \in {s \in shreds : s.word \in Watched}}
                             \cup {<<"landed", s>> : s \in {s \in shreds : s.word \in Ours}}
<1>1. then = [c \in D |-> (IF c \in DOMAIN calls THEN calls[c] ELSE 0) + (IF c[2] \in shreds THEN 1 ELSE 0)]
  BY DEF React
<1>2. /\ x.word \in Watched => (<<"trigger", x>> \in D <=> (<<"trigger", x>> \in DOMAIN calls \/ x \in shreds))
      /\ x.word \in Ours => (<<"landed", x>> \in D <=> (<<"landed", x>> \in DOMAIN calls \/ x \in shreds))
  OBVIOUS
<1> HIDE DEF D, then
<1>3. ASSUME NEW name, <<name, x>> \in D
      PROVE  /\ x \in shreds /\ <<name, x>> \notin DOMAIN calls => then[<<name, x>>] = 1
             /\ x \notin shreds /\ <<name, x>> \in DOMAIN calls /\ calls[<<name, x>>] = 1
                  => then[<<name, x>>] = 1
  <2> DEFINE c == <<name, x>>
  <2>1. c[2] = x
    OBVIOUS
  <2> HIDE DEF c
  <2>2. c \in D => then[c] = (IF c \in DOMAIN calls THEN calls[c] ELSE 0) + (IF c[2] \in shreds THEN 1 ELSE 0)
    BY <1>1
  <2>3. /\ x \in shreds /\ c \notin DOMAIN calls => then[c] = 1
        /\ x \notin shreds /\ c \in DOMAIN calls /\ calls[c] = 1 => then[c] = 1
    BY <1>3, <2>1, <2>2 DEF c
  <2>4. QED BY <2>3 DEF c
<1>4. DOMAIN then = D
  BY <1>1
<1>5. /\ x.word \in Watched => Hears(then, calls, <<"trigger", x>>, x \in shreds)
      /\ x.word \in Ours    => Hears(then, calls, <<"landed", x>>, x \in shreds)
  BY <1>2, <1>3, <1>4 DEF Hears
<1>6. QED BY <1>5 DEF then

\* A place with no gap before it in another batch is not made so by one of this.
LEMMA RunApart ==
  ASSUME NEW D, NEW p0, NEW p, p \in D \cup {p0}, p[1] # p0[1],
         p \in Run(D \cup {p0}, p[1])
  PROVE  p \in D /\ p \in Run(D, p[1])
<1>1. p \in D /\ \A i \in 0..p[2] : <<p[1], i>> \in D \cup {p0}
  BY DEF Run
<1>2. \A i : <<p[1], i>> # p0
  <2>1. SUFFICES ASSUME NEW i, p0 = <<p[1], i>> PROVE FALSE
    BY Zenon
  <2>2. p0[1] = p[1]
    BY <2>1
  <2>3. QED BY <2>2
<1>3. \A i \in 0..p[2] : <<p[1], i>> \in D
  BY <1>1, <1>2
<1>4. QED BY <1>1, <1>3 DEF Run

LEMMA NewBufferSound == \A slot : BufferSound(slot, NewBuffer)
<1>1. DOMAIN NewBuffer.held = {} /\ NewBuffer.read = {} /\ DOMAIN NewBuffer.calls = {}
  BY DEF NewBuffer
<1>2. QED BY <1>1, Zenon DEF BufferSound, CalledWhenRead

\* The shred read in the place of a batch its leader produced once.
LEMMA PlaceOfOnce ==
  ASSUME wire \in Wires, NEW w \in wire, Once(Words[w].key), NEW i, NEW slot,
         Slot(Words[w].key) = slot, NEW q, NEW y, HeldOf(slot, q, y),
         NEW x, x = [word |-> w, at |-> i], NEW p, p = <<Words[w].key[2], i>>
  PROVE  y = x <=> q = p
<1> DEFINE k == Words[w].key
<1>1. w \in DOMAIN Words /\ w # "none" /\ k = <<slot, k[2]>>
  BY ErasureAssumption, PipelineAssumption DEF Slot
<1>2. /\ q = <<q[1], y.at>> /\ y = [word |-> y.word, at |-> y.at]
      /\ y.word = "none" \/ (y.word \in wire /\ Words[y.word].key = <<slot, q[1]>>)
      /\ Once(<<slot, q[1]>>) => y.word # "none"
  BY DEF HeldOf, BodyOf
<1>3. ASSUME y = x PROVE q = p
  <2>1. y.word = w /\ y.at = i
    BY <1>3
  <2>2. k = <<slot, q[1]>>
    BY <1>1, <1>2, <2>1
  <2>3. q[1] = k[2]
    BY <2>2
  <2>4. q = <<k[2], i>>
    BY <1>2, <2>1, <2>3, Zenon
  <2>5. QED BY <2>4
<1>4. ASSUME q = p PROVE y = x
  <2>1. q[1] = k[2]
    BY <1>4
  <2>2. y.at = i
    <3>1. q[2] = i /\ <<q[1], y.at>>[2] = y.at
      BY <1>4
    <3>2. QED BY <1>2, <3>1
  <2>3. <<slot, q[1]>> = k
    BY <1>1, <2>1
  <2>4. y.word \in wire /\ Words[y.word].key = k
    BY <1>2, <2>3
  <2>5. y.word = w
    BY <2>4 DEF Once
  <2>6. QED BY <1>2, <2>2, <2>5
<1>5. QED BY <1>3, <1>4

\* A data shred of the slot leaves the slot's buffer sound, and in its place.
LEMMA AssembledSound ==
  ASSUME wire \in Wires, NEW slot, NEW b, BufferSound(slot, b),
         NEW p0, NEW x0, NEW unsure, HeldOf(slot, p0, x0),
         ~unsure /\ Once(<<slot, p0[1]>>) => Genuine(x0)
  PROVE  LET then == Assembled(b, p0, x0, unsure) IN
         /\ BufferSound(slot, then)
         /\ DOMAIN then.held = DOMAIN b.held \cup {p0}
<1> DEFINE then == Assembled(b, p0, x0, unsure)
           D == DOMAIN b.held \cup {p0}
           held == [p \in D |-> IF p = p0 THEN x0 ELSE b.held[p]]
           more == Run(D, p0[1]) \ b.read
           shreds == {held[p] : p \in more}
<1>1. /\ then.held = held /\ then.read = b.read \cup more
      /\ then.calls = React(b.calls, shreds)
      /\ then.doubtful = (b.doubtful \/ unsure)
  BY DEF Assembled
<1>2. /\ DOMAIN held = D
      /\ \A p \in D : held[p] = IF p = p0 THEN x0 ELSE b.held[p]
  OBVIOUS
<1>3. more \subseteq D /\ more \cap b.read = {}
  BY DEF Run
<1>4. \A p \in D : HeldOf(slot, p, held[p])
  <2> HIDE DEF held
  <2>1. QED BY <1>2 DEF BufferSound
<1>5. ASSUME NEW p \in D, p \in Run(D, p[1]) PROVE p \in b.read \cup more
  <2>1. CASE p[1] = p0[1]
    BY <1>5, <2>1
  <2>2. CASE p[1] # p0[1]
    <3>1. p \in DOMAIN b.held /\ p \in Run(DOMAIN b.held, p[1])
      BY <1>5, <2>2, RunApart
    <3>2. QED BY <3>1 DEF BufferSound
  <2>3. QED BY <2>1, <2>2
<1> HIDE DEF then, held, more, D, shreds
<1>6. ASSUME NEW w \in wire, Slot(Words[w].key) = slot, Once(Words[w].key),
             NEW i \in 0..(Words[w].num_data - 1)
      PROVE  LET x == [word |-> w, at |-> i]
                 p == <<Words[w].key[2], i>>
             IN  /\ w \in Watched => CalledWhenRead(then, "trigger", x, p)
                 /\ w \in Ours    => CalledWhenRead(then, "landed", x, p)
  <2> DEFINE x == [word |-> w, at |-> i]
             p == <<Words[w].key[2], i>>
  <2>1. x \in shreds <=> p \in more
    <3>1. \A q \in more : held[q] = x <=> q = p
      <4>1. x = [word |-> w, at |-> i] /\ p = <<Words[w].key[2], i>>
        OBVIOUS
      <4> HIDE DEF x, p
      <4>2. SUFFICES ASSUME NEW q \in more PROVE held[q] = x <=> q = p
        OBVIOUS
      <4>3. HeldOf(slot, q, held[q])
        BY <1>3, <1>4
      <4>4. QED BY <1>6, <4>1, <4>3, PlaceOfOnce
    <3> HIDE DEF x, p
    <3>2. QED BY <3>1 DEF shreds
  <2>2. x.word = w
    OBVIOUS
  <2>3. /\ w \in Watched => CalledWhenRead(b, "trigger", x, p)
        /\ w \in Ours    => CalledWhenRead(b, "landed", x, p)
    BY <1>6 DEF BufferSound
  <2> HIDE DEF x, p
  <2>4. p \in then.read <=> p \in b.read \/ p \in more
    BY <1>1
  <2>5. p \in more => p \notin b.read
    BY <1>3
  <2>6. ASSUME w \in Watched PROVE CalledWhenRead(then, "trigger", x, p)
    <3>1. Hears(then.calls, b.calls, <<"trigger", x>>, x \in shreds)
      BY <1>1, <2>2, <2>6, Reacted
    <3>2. CalledWhenRead(b, "trigger", x, p)
      BY <2>3, <2>6
    <3>3. QED BY <2>1, <2>4, <2>5, <3>1, <3>2 DEF CalledWhenRead, Called, Hears
  <2>7. ASSUME w \in Ours PROVE CalledWhenRead(then, "landed", x, p)
    <3>1. Hears(then.calls, b.calls, <<"landed", x>>, x \in shreds)
      BY <1>1, <2>2, <2>7, Reacted
    <3>2. CalledWhenRead(b, "landed", x, p)
      BY <2>3, <2>7
    <3>3. QED BY <2>1, <2>4, <2>5, <3>1, <3>2 DEF CalledWhenRead, Called, Hears
  <2>8. QED BY <2>6, <2>7 DEF x, p
<1>7. ASSUME ~then.doubtful, NEW p \in D, Once(<<slot, p[1]>>) PROVE Genuine(held[p])
  <2>1. ~b.doubtful /\ ~unsure
    BY <1>1, <1>7
  <2>2. CASE p = p0
    BY <1>2, <1>7, <2>1, <2>2
  <2>3. CASE p # p0
    <3>1. p \in DOMAIN b.held /\ held[p] = b.held[p]
      BY <1>2, <2>3 DEF D
    <3>2. QED BY <1>7, <2>1, <3>1 DEF BufferSound
  <2>4. QED BY <2>2, <2>3
<1>8. /\ \A p \in DOMAIN then.held : HeldOf(slot, p, then.held[p])
      /\ \A p \in DOMAIN then.held : p \in Run(DOMAIN then.held, p[1]) => p \in then.read
      /\ ~then.doubtful => \A p \in DOMAIN then.held : Once(<<slot, p[1]>>) => Genuine(then.held[p])
  <2>1. then.held = held /\ DOMAIN then.held = D /\ then.read = b.read \cup more
    BY <1>1, <1>2
  <2>2. QED BY <1>4, <1>5, <1>7, <2>1
<1>9. BufferSound(slot, then)
  BY <1>6, <1>8, Zenon DEF BufferSound
<1>10. DOMAIN then.held = DOMAIN b.held \cup {p0}
  BY <1>1, <1>2 DEF D
<1>11. QED BY <1>9, <1>10 DEF then

\* A sweep takes slots away, never one just touched.
LEMMA BuffersSwept ==
  ASSUME NEW m, \A slot \in Keys(m) : m.entries[slot].age \in Nat
  PROVE  LET swept == Sweep(m, RETENTION, MAX_SLOTS) IN
         /\ Keys(swept) \subseteq Keys(m)
         /\ \A slot \in Keys(swept) : swept.entries[slot] = m.entries[slot]
         /\ \A slot \in Keys(m) : m.entries[slot].age = 0 => slot \in Keys(swept)
<1> DEFINE swept == Sweep(m, RETENTION, MAX_SLOTS)
           kept == {k \in Keys(m) : k \notin Dropped(m, RETENTION, MAX_SLOTS)}
<1>1. CASE ~SweepDue(m, MAX_SLOTS)
  BY <1>1 DEF Sweep
<1>2. CASE SweepDue(m, MAX_SLOTS)
  <2>1. swept = [entries |-> [k \in kept |-> m.entries[k]], since |-> 0]
    BY <1>2 DEF Sweep, RestrictDomain, Restrict, Keys
  <2>2. ASSUME NEW slot \in Keys(m), m.entries[slot].age = 0 PROVE slot \in kept
    <3>1. RETENTION \in Nat \ {0} /\ MAX_SLOTS \in Nat \ {0}
      BY PipelineAssumption
    <3>2. slot \notin Expired(m, RETENTION)
      BY <2>2, <3>1 DEF Expired
    <3>3. slot \notin OverCap(m, RETENTION, MAX_SLOTS)
      <4> DEFINE fresher == {j \in Keys(m) \ Expired(m, RETENTION) :
                               m.entries[j].age < m.entries[slot].age}
      <4>1. fresher = {}
        BY <2>2
      <4>2. Cardinality(fresher) = 0
        BY <4>1, FS_EmptySet
      <4> HIDE DEF fresher
      <4>3. ~(Cardinality(fresher) >= MAX_SLOTS)
        BY <3>1, <4>2
      <4>4. QED BY <4>3 DEF OverCap, fresher
    <3>4. QED BY <2>2, <3>2, <3>3 DEF Dropped
  <2> HIDE DEF swept, kept
  <2>3. Keys(swept) = kept /\ \A slot \in kept : swept.entries[slot] = m.entries[slot]
    BY <2>1 DEF Keys
  <2>4. kept \subseteq Keys(m)
    BY DEF kept
  <2>5. QED BY <2>2, <2>3, <2>4 DEF swept
<1>3. QED BY <1>1, <1>2

\* A data shred that may be held where it says.
Handable(d) ==
  /\ HeldOf(d.slot, d.place, d.shred)
  /\ ~d.doubtful /\ Once(<<d.slot, d.place[1]>>) => Genuine(d.shred)

\* It is put in its place, whatever slots that takes away, and none just
\* touched.
LEMMA ShredHeld ==
  ASSUME wire \in Wires, NEW st, BuffersSound(st.buffers), NEW d, Handable(d)
  PROVE  LET then == DataShred(st, d) IN
         /\ BuffersSound(then.buffers)
         /\ HasPlace(then.buffers, d.slot, d.place)
         /\ then.buffers.entries[d.slot].age = 0
         /\ st.dropped \subseteq then.dropped
         /\ \A slot, p : HasPlace(st.buffers, slot, p) =>
              HasPlace(then.buffers, slot, p) \/
                (slot \in then.dropped /\ st.buffers.entries[slot].age # 0)
<1> DEFINE m == st.buffers
           swept == Sweep(m, RETENTION, MAX_SLOTS)
           old == ValueOf(swept, d.slot, NewBuffer)
           new == Assembled(old, d.place, d.shred, d.doubtful)
           then == DataShred(st, d)
<1>1. /\ then.buffers = Upsert(swept, d.slot, new)
      /\ then.dropped = st.dropped \cup (Keys(m) \ Keys(swept))
  BY DEF DataShred
<1>2. /\ Keys(swept) \subseteq Keys(m)
      /\ \A slot \in Keys(swept) : swept.entries[slot] = m.entries[slot]
      /\ \A slot \in Keys(m) : m.entries[slot].age = 0 => slot \in Keys(swept)
  <2>1. \A slot \in Keys(m) : m.entries[slot].age \in Nat
    BY DEF BuffersSound
  <2> HIDE DEF m
  <2>2. QED BY <2>1, BuffersSwept
<1>3. \A slot \in Keys(swept) : /\ swept.entries[slot].age \in Nat
                                /\ BufferSound(slot, swept.entries[slot].value)
  BY <1>2 DEF BuffersSound
<1>4. BufferSound(d.slot, old)
  <2> HIDE DEF swept
  <2>1. QED BY <1>3, NewBufferSound DEF ValueOf
<1> HIDE DEF old
<1>5. BufferSound(d.slot, new) /\ DOMAIN new.held = DOMAIN old.held \cup {d.place}
  BY <1>4, AssembledSound DEF Handable
<1> HIDE DEF new, swept, then
<1>6. /\ Keys(then.buffers) = Keys(swept) \cup {d.slot}
      /\ then.buffers.entries[d.slot] = [age |-> 0, value |-> new]
      /\ \A slot \in Keys(swept) : slot # d.slot => then.buffers.entries[slot] = swept.entries[slot]
  BY <1>1 DEF Upsert, Keys
<1>7. then.buffers.entries[d.slot].age = 0 /\ then.buffers.entries[d.slot].value = new
  BY <1>6
<1>8. BuffersSound(then.buffers)
  <2>1. SUFFICES ASSUME NEW slot \in Keys(then.buffers)
                 PROVE  /\ then.buffers.entries[slot].age \in Nat
                        /\ BufferSound(slot, then.buffers.entries[slot].value)
    BY DEF BuffersSound
  <2>2. CASE slot = d.slot
    BY <1>5, <1>7, <2>2
  <2>3. CASE slot # d.slot
    BY <1>3, <1>6, <2>1, <2>3
  <2>4. QED BY <2>2, <2>3
<1>9. HasPlace(then.buffers, d.slot, d.place)
  BY <1>5, <1>6, <1>7 DEF HasPlace
<1>10. ASSUME NEW slot, NEW p, HasPlace(m, slot, p), slot \in Keys(swept)
       PROVE  HasPlace(then.buffers, slot, p)
  <2>1. slot \in Keys(then.buffers) /\ p \in DOMAIN swept.entries[slot].value.held
    BY <1>2, <1>6, <1>10 DEF HasPlace
  <2>2. CASE slot = d.slot
    <3>1. old = swept.entries[slot].value
      BY <1>10, <2>2 DEF old, ValueOf
    <3>2. QED BY <1>5, <1>7, <2>1, <2>2, <3>1 DEF HasPlace
  <2>3. CASE slot # d.slot
    BY <1>6, <1>10, <2>1, <2>3 DEF HasPlace
  <2>4. QED BY <2>2, <2>3
<1>11. ASSUME NEW slot, NEW p, HasPlace(m, slot, p), slot \notin Keys(swept)
       PROVE  slot \in then.dropped /\ m.entries[slot].age # 0
  BY <1>1, <1>2, <1>11 DEF HasPlace
<1>12. st.dropped \subseteq then.dropped
  BY <1>1
<1>13. QED BY <1>7, <1>8, <1>9, <1>10, <1>11, <1>12 DEF then

\* What the data shreds of a packet come to: each in its place, and nothing
\* lost but from slots dropped.
LEMMA ShredsHeld ==
  ASSUME wire \in Wires, BuffersSound(buffers), NEW ds, NEW key, NEW bodies,
         Reads(ds, key, bodies), \A d \in ReadOf(key, bodies) : Handable(d),
         DataShreds(ds)
  PROVE  \E then, dropped :
           /\ buffers' = then
           /\ broken' = {k \in Keys(sets') : k \in broken \/ (k \in Keys(sets) /\ Slot(k) \in dropped)}
           /\ BuffersSound(then)
           /\ \A j \in 1..Len(ds) : HasPlace(then, Slot(key), ds[j].place)
           /\ \A slot, p : HasPlace(buffers, slot, p) => HasPlace(then, slot, p) \/ slot \in dropped
<1> DEFINE base == [number |-> number, started |-> started,
                    buffers |-> buffers, clocks |-> clocks, dropped |-> {}]
<1>1. Len(ds) \in Nat /\ DOMAIN ds = 1..Len(ds)
      /\ \A j \in 1..Len(ds) : ds[j] \in ReadOf(key, bodies)
  <2> DEFINE all == ReadOf(key, bodies)
  <2>1. ds \in Seq(all)
    BY DEF Reads
  <2> HIDE DEF all
  <2>2. Len(ds) \in Nat /\ DOMAIN ds = 1..Len(ds) /\ \A j \in 1..Len(ds) : ds[j] \in all
    BY <2>1
  <2>3. QED BY <2>2 DEF all
<1>2. \A j \in 1..Len(ds) : Handable(ds[j]) /\ ds[j].slot = Slot(key)
  BY <1>1 DEF ReadOf, ReadAs
<1>3. PICK acc : Steps("shreds", acc, base, ds) /\ FoldLeft(DataShred, base, ds) = acc[Len(ds)]
  BY <1>1, FoldSteps
<1> DEFINE At(n, st) ==
             /\ BuffersSound(st.buffers)
             /\ \A j \in 1..n : HasPlace(st.buffers, Slot(key), ds[j].place)
             /\ n # 0 => st.buffers.entries[Slot(key)].age = 0
             /\ \A slot, p : HasPlace(buffers, slot, p) =>
                  HasPlace(st.buffers, slot, p) \/ slot \in st.dropped
           P(n) == At(n, acc[n])
           Bad == {n \in 0..Len(ds) : ~P(n)}
<1>4. P(0)
  <2>1. acc[0] = base
    BY <1>3 DEF Steps, Step
  <2>2. acc[0].buffers = buffers
    BY <2>1
  <2>3. QED BY <2>2
<1>5. ASSUME NEW n \in 1..Len(ds), P(n - 1) PROVE P(n)
  <2>1. acc[n] = DataShred(acc[n - 1], ds[n])
    BY <1>3, <1>5 DEF Steps, Step
  <2>2. PICK st, then, d : st = acc[n - 1] /\ then = acc[n] /\ d = ds[n]
    OBVIOUS
  <2>3. At(n - 1, st) /\ then = DataShred(st, d) /\ Handable(d) /\ d.slot = Slot(key)
    BY <1>2, <1>5, <2>1, <2>2
  <2>4. /\ BuffersSound(then.buffers)
        /\ HasPlace(then.buffers, d.slot, d.place)
        /\ then.buffers.entries[d.slot].age = 0
        /\ st.dropped \subseteq then.dropped
        /\ \A slot, p : HasPlace(st.buffers, slot, p) =>
             HasPlace(then.buffers, slot, p) \/
               (slot \in then.dropped /\ st.buffers.entries[slot].age # 0)
    BY <2>3, ShredHeld
  <2>5. ASSUME NEW j \in 1..n PROVE HasPlace(then.buffers, Slot(key), ds[j].place)
    <3>1. CASE j = n
      BY <2>2, <2>3, <2>4, <3>1
    <3>2. CASE j # n
      <4>1. j \in 1..(n - 1) /\ n - 1 # 0
        BY <1>1, <1>5, <2>5, <3>2
      <4>2. HasPlace(st.buffers, Slot(key), ds[j].place) /\ st.buffers.entries[Slot(key)].age = 0
        BY <2>3, <4>1
      <4>3. QED BY <2>4, <4>2
    <3>3. QED BY <3>1, <3>2
  <2>6. ASSUME NEW slot, NEW p, HasPlace(buffers, slot, p)
        PROVE  HasPlace(then.buffers, slot, p) \/ slot \in then.dropped
    <3>1. HasPlace(st.buffers, slot, p) \/ slot \in st.dropped
      BY <2>3, <2>6
    <3>2. QED BY <2>4, <3>1
  <2>7. At(n, then)
    BY <2>3, <2>4, <2>5, <2>6
  <2>8. QED BY <2>2, <2>7
<1> HIDE DEF At
<1>6. Bad = {}
  <2> HIDE DEF P
  <2> SUFFICES ASSUME Bad # {} PROVE FALSE
    OBVIOUS
  <2>1. PICK n \in Bad : \A k \in Bad : n <= k
    <3>1. Bad \subseteq Nat
      OBVIOUS
    <3> HIDE DEF Bad
    <3>2. QED BY <3>1, MinExists
  <2>2. n \in 0..Len(ds) /\ ~P(n) /\ n # 0
    BY <1>4, <2>1
  <2>3. n \in 1..Len(ds) /\ n - 1 \in 0..Len(ds) /\ n - 1 \notin Bad
    BY <1>1, <2>1, <2>2
  <2>4. QED BY <1>5, <2>2, <2>3
<1>7. PICK st : st = acc[Len(ds)] /\ At(Len(ds), st)
  BY <1>1, <1>6
<1>8. /\ buffers' = st.buffers
      /\ broken' = {k \in Keys(sets') : k \in broken \/ (k \in Keys(sets) /\ Slot(k) \in st.dropped)}
  BY <1>3, <1>7 DEF DataShreds
<1>9. /\ BuffersSound(st.buffers)
      /\ \A j \in 1..Len(ds) : HasPlace(st.buffers, Slot(key), ds[j].place)
      /\ \A slot, p : HasPlace(buffers, slot, p) => HasPlace(st.buffers, slot, p) \/ slot \in st.dropped
  BY <1>7 DEF At
<1>10. QED BY <1>8, <1>9, Zenon

----------------------------------------------------------------------------
(* What the assembler is given.                                             *)

LEMMA VersionOf ==
  ASSUME NEW s \in Shreds, Parses[s]
  PROVE  Envelopes[s.word].version = SHRED_VERSION
<1> DEFINE p == Datagram(s)
<1>1. Parsed(p, SHRED_VERSION)
  BY DEF Parses, Datagrams
<1>2. p.version = Envelopes[s.word].version
  BY DEF Datagram
<1> HIDE DEF p
<1>3. p.version = SHRED_VERSION
  BY <1>1 DEF Parsed, DataSound, CodingSound, VersionMatches
<1>4. QED BY <1>2, <1>3

\* A data shred of a batch of this cluster parses once it is rebuilt.
LEMMA RebuiltParses ==
  ASSUME Fits, NEW x \in Shreds, IsData(x), Envelopes[x.word].version = SHRED_VERSION
  PROVE  BodySound(x)
<1> DEFINE e == Envelopes[x.word]
           v == [type |-> IF IsData(x) THEN "data" ELSE "coding", resigned |-> e.resigned, proof |-> e.proof]
           p == Datagram(x)
<1>1. x.word \in DOMAIN Words /\ x.at \in Nat /\ x.at < Words[x.word].num_data
  BY ShredTyped DEF IsData
<1>2. v \in Variant
  BY <1>1, PipelineAssumption DEF Variant
<1>3. /\ p.variant = v /\ p.size = SIGNATURE + ShardLen(v) /\ p.version = e.version
      /\ p.index = Key(x)[2] + x.at /\ p.fec_set_index = Key(x)[2]
  BY DEF Datagram
<1>4. Datagrams[x] = p
  BY DEF Datagrams
<1> HIDE DEF v, p
<1>5. ShardLen(v) \in 743..1107
  BY <1>2, TrailerBounds DEF ShardLen, MAX_SHARD, CODE_PAYLOAD, SIGNATURE, CODE_HEADERS, MERKLE_ROOT
<1>6. /\ Key(x)[2] \in Nat /\ Words[x.word].num_data \in Nat
      /\ Key(x)[2] + Words[x.word].num_data <= MAX_SHREDS_PER_SLOT
  <2>1. Words[x.word].key \in Nat \X Nat
    BY <1>1, PipelineAssumption
  <2>2. QED BY <1>1, <2>1, WordSizes DEF Fits, Key
<1>7. p.index < MAX_SHREDS_PER_SLOT /\ p.fec_set_index <= p.index
  BY <1>1, <1>3, <1>6 DEF MAX_SHREDS_PER_SLOT
<1>8. VersionMatches(p, ShardLen(v), SHRED_VERSION)
  BY <1>3, <1>5 DEF VersionMatches, VERSION
<1>9. p.size - SIGNATURE \in DATA_HEADERS..ShardLen(v)
  BY <1>3, <1>5 DEF SIGNATURE, DATA_HEADERS
<1>10. DataSound(p, ShardLen(p.variant), SHRED_VERSION)
  BY <1>3, <1>5, <1>7, <1>8, <1>9 DEF DataSound
<1>11. x.word # "none"
  BY <1>1, ErasureAssumption
<1>12. QED BY <1>4, <1>10, <1>11 DEF BodySound

\* Who made what was rebuilt of a batch produced once.
LEMMA RebuiltBy ==
  ASSUME NEW k, NEW set, NEW T, NEW R, Sound(wire, k, set, T, R), OnceIn(wire, k), NEW x \in R
  PROVE  /\ x \in Shreds /\ IsData(x) /\ x.word \in wire /\ Words[x.word].key = k
         /\ \E s \in T : s.word = x.word
<1>1. set.resolved
  BY DEF Sound
<1>2. PICK s \in T : R = AllOf(s.word) \ T
  BY <1>1 DEF Sound
<1>3. s \in Of(wire, k)
  BY DEF Sound
<1>4. s.word \in wire /\ Words[s.word].key = k /\ s.word \in DOMAIN Words /\ s \in Shreds
  BY <1>3, OfTyped DEF Key
<1>5. PICK i \in 0..(Words[s.word].num_data - 1) : x = [word |-> s.word, at |-> i]
  BY <1>2 DEF AllOf
<1>6. x.word = s.word /\ x.at = i
  BY <1>5
<1>7. x \in Shreds
  <2>1. i \in 0..(Total(s.word) - 1)
    BY <1>4, <1>5, WordSizes DEF Total
  <2>2. QED BY <1>4, <1>5, <2>1 DEF Shreds
<1>8. IsData(x)
  BY <1>4, <1>5, <1>6, WordSizes DEF IsData
<1>9. QED BY <1>4, <1>6, <1>7, <1>8

LEMMA InBodies ==
  ASSUME NEW s, NEW unsure, NEW more, NEW b \in Bodies(s, unsure, more)
  PROVE  b = <<s, unsure>> \/ b \in more
BY DEF Bodies

\* What a packet hands on may be held where it says, and what it rebuilds of a
\* batch produced once parses.
LEMMA PacketHandable ==
  ASSUME RecoveryInv, RecoveryInv', NEW s, s \in Of(wire, Key(s)), Parses[s],
         InsertData(s, 0) \/ InsertCoding(s, 0) \/ Refuse(s),
         NEW verdict \in Verdicts(s) \ {"forged"}
  PROVE  /\ \A d \in ReadOf(Key(s), HandedBy(s, verdict)) : Handable(d)
         /\ Fits => \A x \in out' : Once(Key(s)) => BodySound(x) /\ IsData(x)
<1> DEFINE k == Key(s)
<1>1. s \in Shreds /\ s.word \in wire /\ s.at \in Nat /\ s.word # "none"
      /\ s = [word |-> s.word, at |-> s.at] /\ Words[s.word].key = k
  BY OfTyped, ErasureAssumption DEF Key
<1>2. k = <<Slot(k), k[2]>>
  BY OfTyped, PipelineAssumption DEF Key, Slot
<1> HIDE DEF k
<1>3. ASSUME NEW x \in out', Once(k)
      PROVE  /\ x \in Shreds /\ IsData(x) /\ x.word \in wire /\ Words[x.word].key = k
             /\ k \notin unproven' => Genuine(x)
  <2>1. k \in Keys(sets') /\ x \in rebuilt'[k] /\ wire' = wire
    BY <1>3, OutOf DEF k
  <2>2. PICK set, T, R : set = sets'.entries[k].value /\ T = taken'[k] /\ R = rebuilt'[k]
    OBVIOUS
  <2>3. Sound(wire, k, set, T, R)
    BY <2>1, <2>2 DEF RecoveryInv, BatchesSound
  <2>4. OnceIn(wire, k)
    BY <1>3 DEF Once, OnceIn
  <2>5. x \in R
    BY <2>1, <2>2
  <2>6. /\ x \in Shreds /\ IsData(x) /\ x.word \in wire /\ Words[x.word].key = k
        /\ \E y \in T : y.word = x.word
    BY <2>3, <2>4, <2>5, RebuiltBy
  <2>7. k \notin unproven' => \A y \in T : Genuine(y)
    BY <2>1, <2>2 DEF RecoveryInv, OnlyProven, Genuine
  <2>8. QED BY <2>6, <2>7 DEF Genuine
<1>4. ASSUME NEW x, NEW unsure, BodyOf(x, k),
             Once(k) => x.word # "none" /\ (~unsure => Genuine(x))
      PROVE  Handable(ReadAs(x, k, x.at, unsure))
  <2> DEFINE d == ReadAs(x, k, x.at, unsure)
             p == <<k[2], x.at>>
  <2>1. d.slot = Slot(k) /\ d.place = p /\ d.shred = x /\ d.doubtful = unsure
    BY DEF ReadAs
  <2>2. p[1] = k[2]
    OBVIOUS
  <2> HIDE DEF d
  <2>3. p = <<p[1], x.at>>
    OBVIOUS
  <2> HIDE DEF p
  <2>4. <<Slot(k), p[1]>> = k
    BY <1>2, <2>2
  <2>5. HeldOf(Slot(k), p, x)
    BY <1>4, <2>3, <2>4 DEF HeldOf
  <2>6. QED BY <1>4, <2>1, <2>4, <2>5 DEF Handable, d
<1>5. PICK unsure, unchecked : unsure = (verdict = "unknown") /\ unchecked = (Key(s) \in unproven')
  OBVIOUS
<1>6. PICK more : more = out' \X {unchecked}
  OBVIOUS
<1>7. ASSUME NEW x \in out' PROVE Handable(ReadAs(x, k, x.at, unchecked))
  <2>1. BodyOf(x, k)
    BY <1>7, OutOf DEF k
  <2>2. Once(k) => x.word # "none" /\ (~unchecked => Genuine(x))
    <3>1. x \in Shreds => x.word # "none"
      BY ShredTyped, ErasureAssumption
    <3>2. unchecked = (k \in unproven')
      BY <1>5 DEF k
    <3>3. QED BY <1>3, <1>7, <3>1, <3>2
  <2>3. QED BY <1>4, <2>1, <2>2
<1>8. Handable(ReadAs(s, k, s.at, unsure))
  <2>1. BodyOf(s, k)
    BY <1>1 DEF BodyOf
  <2>2. ~unsure => Genuine(s)
    BY <1>1, <1>5, VerdictMeans
  <2>3. QED BY <1>1, <1>4, <2>1, <2>2
<1>9. \A d \in ReadOf(k, HandedBy(s, verdict)) : Handable(d)
  <2>1. HandedBy(s, verdict) = Bodies(s, unsure, more)
    BY <1>5, <1>6, Zenon DEF HandedBy
  <2>2. ASSUME NEW b \in Bodies(s, unsure, more)
        PROVE  Handable(ReadAs(b[1], k, b[1].at, b[2]))
    <3>1. b = <<s, unsure>> \/ b \in out' \X {unchecked}
      BY <1>6, <2>2, InBodies
    <3>2. CASE b = <<s, unsure>>
      <4>1. b[1] = s /\ b[2] = unsure
        BY <3>2
      <4>2. QED BY <1>8, <4>1
    <3>3. CASE b \in out' \X {unchecked}
      <4>1. b[1] \in out' /\ b[2] = unchecked
        BY <3>3
      <4>2. QED BY <1>7, <4>1
    <3>4. QED BY <3>1, <3>2, <3>3
  <2>3. QED BY <2>1, <2>2 DEF ReadOf
<1>10. ASSUME Fits, NEW x \in out', Once(k) PROVE BodySound(x) /\ IsData(x)
  <2>1. x \in Shreds /\ IsData(x) /\ x.word \in wire /\ Words[x.word].key = k
    BY <1>3, <1>10
  <2>2. x.word = s.word
    BY <1>1, <1>10, <2>1 DEF Once
  <2>3. Envelopes[x.word].version = SHRED_VERSION
    BY <1>1, <2>2, VersionOf
  <2>4. QED BY <1>10, <2>1, <2>3, RebuiltParses
<1>11. QED BY <1>9, <1>10 DEF k

\* In a slot of a batch not broken into, what the assembler has of the batch
\* stays.
LEMMA FedStays ==
  ASSUME NEW m, NEW then, NEW dropped, NEW k, NEW shreds, Fed(m, k, shreds), Slot(k) \notin dropped,
         \A slot, p : HasPlace(m, slot, p) => HasPlace(then, slot, p) \/ slot \in dropped
  PROVE  Fed(then, k, shreds)
BY Zenon DEF Fed

\* What makes a buffer sound is what may come, which stays.
LEMMA SoundStays ==
  ASSUME wire' = wire, NEW slot, NEW b, BufferSound(slot, b)
  PROVE  BufferSound(slot, b)'
<1>1. \A k : Once(k)' <=> Once(k)
  BY DEF Once
<1>2. \A p, x : HeldOf(slot, p, x) => HeldOf(slot, p, x)'
  BY <1>1 DEF HeldOf, BodyOf
<1>3. QED BY <1>1, <1>2 DEF BufferSound

LEMMA PacketFeeds ==
  ASSUME RecoveryInv, RecoveryInv', BuffersInv,
         NEW s, s \in Of(wire, Key(s)), Packet(s)
  PROVE  BuffersInv'
<1> DEFINE key == Key(s)
<1>1. PICK verdict, ds :
        /\ verdict \in Verdicts(s) \ {"forged"}
        /\ Reads(ds, key, HandedBy(s, verdict))
        /\ IsData(s) => Covered(ds, key, s)
        /\ \A x \in out' : BodySound(x) => Covered(ds, key, x)
        /\ DataShreds(ds)
  BY PacketHands, Zenon
<1>2. Parses[s] /\ (InsertData(s, 0) \/ InsertCoding(s, 0) \/ Refuse(s))
  BY Zenon DEF Packet
<1>3. PICK bodies : bodies = HandedBy(s, verdict)
  OBVIOUS
<1>4. /\ \A d \in ReadOf(key, bodies) : Handable(d)
      /\ Fits => \A x \in out' : Once(key) => BodySound(x) /\ IsData(x)
  <2>1. \A d \in ReadOf(key, HandedBy(s, verdict)) : Handable(d)
    BY <1>1, <1>2, PacketHandable
  <2>2. Fits => \A x \in out' : Once(key) => BodySound(x) /\ IsData(x)
    BY <1>1, <1>2, PacketHandable
  <2>3. QED BY <1>3, <2>1, <2>2, Zenon
<1>5. wire \in Wires /\ wire' = wire /\ BuffersSound(buffers)
  BY <1>2, OutOf DEF RecoveryInv, BatchesSound, BuffersInv
<1>6. PICK then, dropped :
        /\ buffers' = then
        /\ broken' = {k \in Keys(sets') : k \in broken \/ (k \in Keys(sets) /\ Slot(k) \in dropped)}
        /\ BuffersSound(then)
        /\ \A j \in 1..Len(ds) : HasPlace(then, Slot(key), ds[j].place)
        /\ \A slot, p : HasPlace(buffers, slot, p) => HasPlace(then, slot, p) \/ slot \in dropped
  <2>1. Reads(ds, key, bodies) /\ DataShreds(ds)
    BY <1>1, <1>3, Zenon
  <2> HIDE DEF key
  <2>2. QED BY <1>4, <1>5, <2>1, ShredsHeld, Zenon
<1>7. \A x : Covered(ds, key, x) => HasPlace(then, Slot(key), <<key[2], x.at>>)
  <2>1. SUFFICES ASSUME NEW x, Covered(ds, key, x) PROVE HasPlace(then, Slot(key), <<key[2], x.at>>)
    OBVIOUS
  <2>2. PICK j \in 1..Len(ds) : \E unsure : ds[j] = ReadAs(x, key, x.at, unsure)
    BY <2>1 DEF Covered
  <2>3. ds[j].place = <<key[2], x.at>>
    BY <2>2 DEF ReadAs
  <2>4. QED BY <1>6, <2>2, <2>3
<1>8. ASSUME Fits, NEW k \in Keys(sets), k \in Keys(sets'), k \notin broken', Once(k)
      PROVE  Fed(then, k, taken[k] \cup rebuilt[k])
  <2>1. k \notin broken /\ Slot(k) \notin dropped
    BY <1>6, <1>8
  <2>2. Fed(buffers, k, taken[k] \cup rebuilt[k])
    BY <1>8, <2>1 DEF BuffersInv, BatchesFed
  <2>3. QED BY <1>6, <2>1, <2>2, FedStays
<1>9. ASSUME Fits, NEW k \in Keys(sets'), k \notin broken', Once(k)
      PROVE  Fed(then, k, taken'[k] \cup rebuilt'[k])
  <2>1. CASE Refuse(s)
    <3>1. sets' = sets /\ taken' = taken /\ rebuilt' = rebuilt
      BY <2>1 DEF Refuse
    <3>2. QED BY <1>8, <1>9, <3>1
  <2>2. CASE InsertData(s, 0) \/ InsertCoding(s, 0)
    <3>1. PICK set, given : Inserted(s, 0, set, given)
      BY <2>2, InsertsSound DEF RecoveryInv
    <3>2. PICK more : /\ more \subseteq {s}
                      /\ taken' = Recorded(taken, key, Keys(Swept(0)), more)
                      /\ rebuilt' = Recorded(rebuilt, key, Keys(Swept(0)), out')
                      /\ Keys(sets') = Keys(Swept(0)) \cup {key}
      <4> DEFINE more == IF set.resolved THEN {} ELSE {s}
      <4>1. /\ taken' = Recorded(taken, key, Keys(Swept(0)), more)
            /\ \E new : /\ rebuilt' = Recorded(rebuilt, key, Keys(Swept(0)), new) /\ out' = new
            /\ \E new : sets' = Upsert(Swept(0), key, new)
        BY <3>1 DEF Inserted
      <4>2. Keys(sets') = Keys(Swept(0)) \cup {key}
        BY <4>1 DEF Upsert, Keys
      <4>3. more \subseteq {s}
        OBVIOUS
      <4> HIDE DEF more, key
      <4>4. QED BY <4>1, <4>2, <4>3
    <3>3. Keys(Swept(0)) \subseteq Keys(sets)
      BY SweptKept
    <3>4. ASSUME NEW x \in taken'[k] \cup rebuilt'[k]
          PROVE  \/ k \in Keys(sets) /\ x \in taken[k] \cup rebuilt[k]
                 \/ k = key /\ (x = s \/ x \in out')
      <4>1. /\ taken'[k] = (IF k \in Keys(Swept(0)) THEN taken[k] ELSE {})
                             \cup (IF k = key THEN more ELSE {})
            /\ rebuilt'[k] = (IF k \in Keys(Swept(0)) THEN rebuilt[k] ELSE {})
                             \cup (IF k = key THEN out' ELSE {})
        BY <1>9, <3>2 DEF Recorded
      <4>2. QED BY <3>2, <3>3, <3>4, <4>1
    <3>5. SUFFICES ASSUME NEW x \in taken'[k] \cup rebuilt'[k], IsData(x)
                   PROVE  HasPlace(then, Slot(k), <<k[2], x.at>>)
      BY DEF Fed
    <3>6. CASE k \in Keys(sets) /\ x \in taken[k] \cup rebuilt[k]
      BY <1>8, <1>9, <3>5, <3>6 DEF Fed
    <3>7. CASE k = key /\ (x = s \/ x \in out')
      <4>1. Covered(ds, key, x)
        BY <1>1, <1>4, <1>9, <3>5, <3>7
      <4>2. QED BY <1>7, <3>7, <4>1
    <3>8. QED BY <3>4, <3>5, <3>6, <3>7
  <2>3. QED BY <1>2, <2>1, <2>2
<1>10. ASSUME Fits PROVE BatchesFed'
  <2>1. \A k : Once(k)' <=> Once(k)
    BY <1>5 DEF Once
  <2>2. ASSUME NEW k \in Keys(sets'), k \notin broken', Once(k)'
        PROVE  Fed(buffers', k, taken'[k] \cup rebuilt'[k])
    <3>1. Once(k)
      BY <2>1, <2>2
    <3>2. Fed(then, k, taken'[k] \cup rebuilt'[k])
      BY <1>9, <1>10, <2>2, <3>1
    <3>3. QED BY <1>6, <3>2
  <2>3. QED BY <2>2, Zenon DEF BatchesFed
<1>11. BuffersSound(buffers)'
  <2>1. BuffersSound(then)'
    BY <1>5, <1>6, SoundStays DEF BuffersSound
  <2>2. QED BY <1>6, <2>1 DEF BuffersSound
<1>12. QED BY <1>10, <1>11 DEF BuffersInv
LEMMA StepFeeds ==
  ASSUME RecoveryInv, RecoveryInv', BuffersInv, [PipelineNext]_allVars
  PROVE  BuffersInv'
<1>1. ASSUME UNCHANGED <<sets, wire, taken, rebuilt, broken>>, NEW m, m = buffers',
             BuffersSound(m), \A slot, p : HasPlace(buffers, slot, p) => HasPlace(m, slot, p)
      PROVE  BuffersInv'
  <2>1. \A k : Once(k)' <=> Once(k)
    BY <1>1 DEF Once
  <2>2. ASSUME NEW k, NEW shreds, Fed(buffers, k, shreds) PROVE Fed(m, k, shreds)
    BY <1>1, <2>2 DEF Fed
  <2>3. Fits => BatchesFed'
    BY <1>1, <2>1, <2>2 DEF BuffersInv, BatchesFed
  <2>4. BuffersSound(m)'
    BY <1>1, SoundStays DEF BuffersSound
  <2>5. BuffersSound(buffers)'
    BY <1>1, <2>4 DEF BuffersSound
  <2>6. QED BY <2>3, <2>5 DEF BuffersInv
<1>2. ASSUME UNCHANGED <<sets, wire, taken, rebuilt, buffers, broken>> PROVE BuffersInv'
  <2>1. PICK m : m = buffers'
    OBVIOUS
  <2>2. BuffersSound(m) /\ \A slot, p : HasPlace(buffers, slot, p) => HasPlace(m, slot, p)
    BY <1>2, <2>1 DEF BuffersInv
  <2>3. QED BY <1>1, <1>2, <2>1, <2>2
<1>3. ASSUME NEW w \in wire, NEW i \in 0..(Total(w) - 1), Discard([word |-> w, at |-> i])
      PROVE  BuffersInv'
  BY <1>2, <1>3 DEF Discard, history
<1>4. ASSUME NEW w \in wire, NEW i \in 0..(Total(w) - 1), Packet([word |-> w, at |-> i])
      PROVE  BuffersInv'
  <2> DEFINE s == [word |-> w, at |-> i]
  <2>1. s \in Of(wire, Key(s)) /\ Packet(s)
    BY <1>4, Arrives DEF RecoveryInv, BatchesSound
  <2> HIDE DEF s
  <2>2. QED BY <2>1, PacketFeeds
<1>5. ASSUME NEW slots \in Windows, Schedule(slots) PROVE BuffersInv'
  BY <1>2, <1>5 DEF Schedule, history
<1>6. ASSUME NEW dt \in Ticks, Wait(dt) PROVE BuffersInv'
  <2>1. /\ sets' = Now(dt) /\ UNCHANGED <<wire, taken, rebuilt, broken>>
        /\ buffers' = Elapsed(buffers, dt, RETENTION)
    BY <1>6 DEF Wait
  <2>2. PICK m : m = Elapsed(buffers, dt, RETENTION)
    OBVIOUS
  <2>3. /\ Keys(m) = Keys(buffers)
        /\ \A slot \in Keys(buffers) :
             /\ m.entries[slot].age = Min({buffers.entries[slot].age + dt, RETENTION})
             /\ m.entries[slot].value = buffers.entries[slot].value
    BY <2>2 DEF Elapsed, Keys
  <2>4. ASSUME NEW slot \in Keys(m)
        PROVE  m.entries[slot].age \in Nat /\ BufferSound(slot, m.entries[slot].value)
    <3> DEFINE age == buffers.entries[slot].age
    <3>1. age \in Nat /\ BufferSound(slot, buffers.entries[slot].value)
      BY <2>3, <2>4 DEF BuffersInv, BuffersSound
    <3>2. dt \in Nat /\ RETENTION \in Nat
      BY ErasureAssumption, PipelineAssumption
    <3> HIDE DEF age
    <3>3. PICK later \in Nat : later = age + dt
      BY <3>1, <3>2
    <3>4. Min({age + dt, RETENTION}) \in Nat
      <4>1. later \in Int /\ RETENTION \in Int
        BY <3>2, <3>3
      <4>2. Min({later, RETENTION}) \in {later, RETENTION}
        BY <4>1, MinOfTwo
      <4>3. QED BY <3>2, <3>3, <4>2
    <3>5. QED BY <2>3, <2>4, <3>1, <3>4 DEF age
  <2>5. BuffersSound(m)
    BY <2>4 DEF BuffersSound
  <2>6. \A slot, p : HasPlace(buffers, slot, p) => HasPlace(m, slot, p)
    BY <2>3 DEF HasPlace
  <2>7. Keys(sets') = Keys(sets)
    BY <2>1, LaterKept
  <2>8. \A k : Once(k)' <=> Once(k)
    BY <2>1 DEF Once
  <2>9. ASSUME NEW k, NEW shreds, Fed(buffers, k, shreds) PROVE Fed(m, k, shreds)
    BY <2>6, <2>9 DEF Fed
  <2>10. Fits => BatchesFed'
    BY <2>1, <2>2, <2>7, <2>8, <2>9 DEF BuffersInv, BatchesFed
  <2>11. BuffersSound(m)'
    BY <2>1, <2>5, SoundStays DEF BuffersSound
  <2>12. BuffersSound(buffers)'
    BY <2>1, <2>2, <2>11 DEF BuffersSound
  <2>13. QED BY <2>10, <2>12 DEF BuffersInv
<1>7. CASE UNCHANGED allVars
  BY <1>2, <1>7 DEF allVars, vars, history
<1>8. QED BY <1>3, <1>4, <1>5, <1>6, <1>7 DEF PipelineNext

LEMMA FedInit == PipelineInit => BuffersInv
<1>1. SUFFICES ASSUME PipelineInit PROVE BuffersInv
  OBVIOUS
<1>2. sets = New /\ buffers = New
  BY <1>1 DEF PipelineInit, Init
<1>3. Keys(sets) = {} /\ Keys(buffers) = {}
  BY <1>2 DEF Keys, New
<1>4. QED BY <1>3 DEF BuffersInv, BuffersSound, BatchesFed

LEMMA AllHeard == Fits /\ RecoveryInv /\ BuffersInv => NothingMissed
<1>1. SUFFICES ASSUME Fits, RecoveryInv, BuffersInv, NEW k \in Keys(sets), k \notin broken, Once(k),
                      sets.entries[k].value.resolved
               PROVE  /\ Slot(k) \in Keys(buffers)
                      /\ \A s \in AllData(k) :
                           LET buffer == buffers.entries[Slot(k)].value IN
                           /\ Only(k) \in Watched => Called(buffer, "trigger", s)
                           /\ Only(k) \in Ours    => Called(buffer, "landed", s)
  BY DEF NothingMissed
<1>2. rebuilt[k] = AllData(k) \ taken[k]
  BY <1>1, RebuiltExact DEF RebuildsWhatWasLost
<1>3. PICK s0 \in taken[k] : TRUE
  BY <1>1, BatchSound DEF Sound
<1>4. s0 \in Of(wire, k)
  BY <1>1, BatchSound
<1>5. PICK w \in wire : /\ w = Only(k) /\ w \in DOMAIN Words /\ Words[w].key = k
                        /\ AllData(k) = AllOf(w) /\ Words[w].num_data \in Nat \ {0}
  BY <1>1, <1>4, Alone, WordSizes
<1> DEFINE slot == Slot(k)
           b == buffers.entries[slot].value
<1>6. Fed(buffers, k, AllData(k))
  <2>1. Fed(buffers, k, taken[k] \cup rebuilt[k])
    BY <1>1 DEF BuffersInv, BatchesFed
  <2>2. QED BY <1>2, <2>1 DEF Fed
<1>7. ASSUME NEW i \in 0..(Words[w].num_data - 1)
      PROVE  slot \in Keys(buffers) /\ <<k[2], i>> \in DOMAIN b.held
  <2> DEFINE x == [word |-> w, at |-> i]
  <2>1. x.word = w /\ x.at = i
    OBVIOUS
  <2>2. x \in AllData(k)
    BY <1>5 DEF AllOf
  <2>3. IsData(x)
    BY <1>5, <2>1 DEF IsData
  <2> HIDE DEF x
  <2>4. HasPlace(buffers, slot, <<k[2], x.at>>)
    BY <1>6, <2>2, <2>3 DEF Fed
  <2>5. QED BY <2>1, <2>4 DEF HasPlace
<1>8. 0 \in 0..(Words[w].num_data - 1)
  BY <1>5
<1>9. slot \in Keys(buffers)
  BY <1>7, <1>8
<1>10. BufferSound(slot, b)
  BY <1>1, <1>9 DEF BuffersInv, BuffersSound
<1> HIDE DEF slot, b
<1>11. ASSUME NEW i \in 0..(Words[w].num_data - 1)
       PROVE  <<k[2], i>> \in b.read
  <2> DEFINE p == <<k[2], i>>
  <2>1. p[1] = k[2] /\ p[2] = i
    OBVIOUS
  <2>2. \A j \in 0..i : j \in 0..(Words[w].num_data - 1)
    BY <1>5, <1>11
  <2>3. p \in DOMAIN b.held /\ \A j \in 0..i : <<k[2], j>> \in DOMAIN b.held
    BY <1>7, <1>11, <2>2
  <2> HIDE DEF p
  <2>4. p \in Run(DOMAIN b.held, p[1])
    BY <2>1, <2>3 DEF Run
  <2>5. p \in b.read
    BY <1>10, <2>3, <2>4 DEF BufferSound
  <2>6. QED BY <2>5 DEF p
<1>12. ASSUME NEW s \in AllData(k)
       PROVE  /\ w \in Watched => Called(b, "trigger", s)
              /\ w \in Ours    => Called(b, "landed", s)
  <2>1. PICK i \in 0..(Words[w].num_data - 1) : s = [word |-> w, at |-> i]
    BY <1>5, <1>12 DEF AllOf
  <2>2. PICK p : p = <<Words[w].key[2], i>>
    OBVIOUS
  <2>3. p \in b.read
    BY <1>5, <1>11, <2>2
  <2>4. /\ w \in Watched => CalledWhenRead(b, "trigger", s, p)
        /\ w \in Ours    => CalledWhenRead(b, "landed", s, p)
    BY <1>1, <1>5, <1>10, <2>1, <2>2 DEF BufferSound, slot
  <2>5. QED BY <2>3, <2>4 DEF CalledWhenRead
<1>13. QED BY <1>5, <1>9, <1>12 DEF slot, b

LEMMA BuffersKeep == PipelineSpec => []BuffersInv
<1>1. RecoveryInv /\ RecoveryInv' /\ BuffersInv /\ [PipelineNext]_allVars => BuffersInv'
  BY StepFeeds
<1>2. QED BY <1>1, FedInit, Recovers, PTL DEF PipelineSpec

\* Every transaction of a batch that is resolved, of those that came and those
\* rebuilt, has reached the wallets' match exactly once, if its leader produced
\* it once and the slot was not dropped meanwhile; a leader's indices being
\* indices of a slot (data_shred, recovered, react).
THEOREM NothingIsMissed ==
  ASSUME Fits
  PROVE  PipelineSpec => []NothingMissed
BY BuffersKeep, Recovers, AllHeard, PTL

LEMMA SlotsGenuine ==
  ASSUME OneRoot, RecoveryInv, BuffersInv
  PROVE  OnlyItsLeader
<1>1. \A k \in Keys(sets) \ unproven :
        /\ \A s \in taken[k] : Genuine(s)
        /\ Once(k) => \A s \in rebuilt[k] : Genuine(s)
  BY AllGenuine DEF BatchesGenuine
<1>2. \A slot \in Keys(buffers) :
        LET buffer == buffers.entries[slot].value IN
        ~buffer.doubtful =>
          \A p \in DOMAIN buffer.held : Once(<<slot, p[1]>>) => Genuine(buffer.held[p])
  BY DEF BuffersInv, BuffersSound, BufferSound
<1>3. ASSUME NEW w \in wire, Envelopes[w].leader, NEW i \in 0..(Total(w) - 1)
      PROVE  "forged" \notin Verdicts([word |-> w, at |-> i])
  <2> DEFINE s == [word |-> w, at |-> i]
  <2>1. s \in Of(wire, Key(s))
    BY Arrives DEF RecoveryInv, BatchesSound
  <2>2. s.word = w
    OBVIOUS
  <2> HIDE DEF s
  <2>3. s \in Shreds /\ Envelopes[s.word].leader
    BY <1>3, <2>1, <2>2, OfTyped
  <2>4. "forged" \notin Verdicts(s)
    BY <2>3, LeadersPass
  <2>5. QED BY <2>4 DEF s
<1>4. QED BY <1>1, <1>2, <1>3 DEF OnlyItsLeader

\* Nobody but its leader has a word in a batch whose shreds were all checked, in
\* what is rebuilt of it, nor in the slot it goes to, and no shred of a leader's
\* is discarded wherever in its batch's tree it is, that tree having one root
\* (forged, recovered, data_shred, signed).
THEOREM OnlyTheLeader ==
  ASSUME OneRoot
  PROVE  PipelineSpec => []OnlyItsLeader
BY BuffersKeep, Recovers, SlotsGenuine, PTL
=============================================================================
