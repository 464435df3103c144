------------------------------- MODULE Erasure -------------------------------
(***************************************************************************)
(* Recovery of data shreds lost in turbine (erasure.rs).  A leader cuts    *)
(* its data into erasure batches; any num_data of a batch's data and       *)
(* coding shreds bring back the rest, so a batch is rebuilt the moment     *)
(* that many are here and a coding shred has said how many that is.        *)
(*                                                                         *)
(* What a leader computed over one batch is a codeword, its layout         *)
(* [key, num_data, num_coding, shard_len]; a shred is [word, at], the      *)
(* codeword and its place in it, the data first.  A leader that produced   *)
(* a slot twice has two codewords of one key.  What bytes a shard has      *)
(* follows from the codeword and the place, so shards are shreds here; a   *)
(* shard that is no leader's is of codeword "none".  Pipeline makes the    *)
(* calls.                                                                  *)
(***************************************************************************)
EXTENDS AgedMap, Sequences, SequencesExt

CONSTANTS
  Words,        \* codeword |-> its layout
  Wires,        \* Sets of codewords; a behaviour draws on the shreds of one
  Ticks,        \* How much time may pass between two shreds
  LIFETIME,     \* the retention, BATCH_LIFETIME at most
  MAX_SHARDS,
  MAX_FEC_SETS

ASSUME ErasureAssumption ==
  /\ "none" \notin DOMAIN Words
  /\ \A w \in DOMAIN Words :
       Words[w].num_data \in Nat \ {0} /\ Words[w].num_coding \in Nat \ {0}
  /\ Wires \subseteq SUBSET DOMAIN Words
  /\ Ticks \subseteq Nat /\ LIFETIME \in Nat \ {0}
  /\ {MAX_SHARDS, MAX_FEC_SETS} \subseteq Nat

VARIABLES
  sets,     \* the aged map of erasure batches
  out,      \* the data shreds the last call returned
  short,    \* the batches it counted as recovery failures
  wire,     \* the codewords whose shreds may arrive
  taken,    \* history: key |-> shreds that came while the batch was unresolved
  rebuilt   \* history: key |-> data shreds rebuilt

vars == <<sets, out, short, wire, taken, rebuilt>>

Key(s)    == Words[s.word].key
IsData(s) == s.at < Words[s.word].num_data

----------------------------------------------------------------------------
(* FecSet.                                                                  *)

NoLayout == [num_data |-> 0]

NewSet == [data |-> [i \in {} |-> 0], coding |-> [i \in {} |-> 0],
           layout |-> NoLayout, resolved |-> FALSE]

Resolved(set) == [NewSet EXCEPT !.layout = set.layout, !.resolved = TRUE]

\* or_insert_with: the first copy of a shard stays.
OrInsert(shards, i, s) ==
  IF i \in DOMAIN shards THEN shards
  ELSE [j \in DOMAIN shards \cup {i} |-> IF j = i THEN s ELSE shards[j]]

\* A shard is as long as the codeword it is of.
Usable(shards, limit, layout) ==
  {i \in DOMAIN shards : i < limit /\ Words[shards[i].word].shard_len = layout.shard_len}

HaveData(set) == Usable(set.data, set.layout.num_data, set.layout)

\* One shard more than the codec needs.
Enough_OneMore(set) ==
  Cardinality(HaveData(set))
    + Cardinality(Usable(set.coding, set.layout.num_coding, set.layout)) > set.layout.num_data

Enough(set) ==
  Cardinality(HaveData(set))
    + Cardinality(Usable(set.coding, set.layout.num_coding, set.layout)) >= set.layout.num_data

\* The shards in their places, the coding ones behind the data and last.
\* Whatever is of the right length and in range is used.
Shards(set) ==
  LET d == set.layout.num_data
      n == d + set.layout.num_coding
      sized(shards) == {i \in DOMAIN shards :
                          Words[shards[i].word].shard_len = set.layout.shard_len}
      data   == {i \in sized(set.data) : i < n}
      coding == {d + p : p \in {p \in sized(set.coding) : d + p < n}}
  IN  [i \in data \cup coding |-> IF i \in coding THEN set.coding[i - d] ELSE set.data[i]]

\* reconstruct_data: the num_data first shards present give what they encode,
\* if they are of one codeword of this layout and in its places.
Decoded(shards, layout, i) ==
  LET first == {k \in DOMAIN shards :
                  Cardinality({j \in DOMAIN shards : j < k}) < layout.num_data}
      words == {shards[k].word : k \in first}
      sound == /\ Cardinality(words) = 1
               /\ \A w \in words : Words[w] = layout
               /\ \A k \in first : shards[k].at = k
  IN  [word |-> IF sound THEN CHOOSE w \in words : TRUE ELSE "none", at |-> i]

\* Every data shard of the batch, those here included.
Missing_All(set) == 0..(set.layout.num_data - 1)

\* The places no shard of the right length is in.
Missing(set) == (0..(set.layout.num_data - 1)) \ DOMAIN Shards(set)

\* One attempt: whatever comes of it, the batch is resolved.  The codec takes
\* every layout insert_coding lets through, and every input Enough lets through.
Recover(set) ==
  IF set.layout = NoLayout THEN [set |-> set, out |-> {}]
  ELSE IF Cardinality(HaveData(set)) = set.layout.num_data THEN [set |-> Resolved(set), out |-> {}]
  ELSE IF ~Enough(set) THEN [set |-> set, out |-> {}]
  ELSE [set |-> Resolved(set),
        out |-> {Decoded(Shards(set), set.layout, i) : i \in Missing(set)}]

----------------------------------------------------------------------------
(* live_set, and its caller's history.                                      *)

Now(dt)   == Elapsed(sets, dt, LIFETIME)
Swept(dt) == Sweep(Now(dt), LIFETIME, MAX_FEC_SETS)

\* The batches a sweep hands its callback.
Lapsed(dt) == IF SweepDue(Now(dt), MAX_FEC_SETS) THEN Expired(Now(dt), LIFETIME) ELSE {}

\* Every batch short of shreds counts, be it bare.
Short_OfAll(dt) == {k \in Lapsed(dt) : ~sets.entries[k].value.resolved}

Short(dt) ==
  {k \in Lapsed(dt) : LET set == sets.entries[k].value IN
     ~set.resolved /\ set.layout # NoLayout}

\* A history, of the batches still held.
Recorded(history, key, held, more) ==
  [k \in held \cup {key} |->
     (IF k \in held THEN history[k] ELSE {}) \cup (IF k = key THEN more ELSE {})]

\* The batch s is of, as an insert finds it.
LiveSet(s, dt) == ValueOf(Swept(dt), Key(s), NewSet)

\* Both inserts: the batch is touched, becomes given unless it is resolved, and
\* is rebuilt if it can be.
Inserted(s, dt, set, given) ==
  LET key   == Key(s)
      swept == Swept(dt)
      made  == IF set.resolved THEN [set |-> set, out |-> {}] ELSE Recover(given)
  IN  /\ sets' = Upsert(swept, key, made.set)
      /\ out' = made.out
      /\ short' = Short(dt)
      /\ taken' = Recorded(taken, key, Keys(swept), IF set.resolved THEN {} ELSE {s})
      /\ rebuilt' = Recorded(rebuilt, key, Keys(swept), made.out)
      /\ UNCHANGED wire

Init ==
  /\ sets = New
  /\ out = {} /\ short = {}
  /\ wire \in Wires
  /\ taken = [k \in {} |-> {}] /\ rebuilt = [k \in {} |-> {}]

InsertData(s, dt) ==
  /\ IsData(s) /\ s.at < MAX_SHARDS
  /\ LET set == LiveSet(s, dt)
     IN  Inserted(s, dt, set, [set EXCEPT !.data = OrInsert(@, s.at, s)])

\* The layout a coding shred claims has room for it, and is not too large.
LayoutHolds(s) ==
  LET word == Words[s.word]
  IN  /\ word.num_data # 0 /\ word.num_coding # 0
      /\ word.num_data + word.num_coding <= MAX_SHARDS
      /\ s.at - word.num_data < word.num_coding

\* The layout is that of the coding shred that came last.
InsertCoding(s, dt) ==
  LET word == Words[s.word]
      set  == LiveSet(s, dt)
  IN  /\ ~IsData(s) /\ LayoutHolds(s)
      /\ Inserted(s, dt, set, [set EXCEPT
           !.layout = word, !.coding = OrInsert(@, s.at - word.num_data, s)])

\* A shred whose layout does not, or one too far into its batch, is refused
\* before its batch is looked up.
Refuse(s) ==
  /\ IF IsData(s) THEN s.at >= MAX_SHARDS ELSE ~LayoutHolds(s)
  /\ out' = {} /\ short' = {}
  /\ UNCHANGED <<sets, wire, taken, rebuilt>>

----------------------------------------------------------------------------
\* The codeword of a batch its leader produced once.
Only(key) == CHOOSE w \in wire : Words[w].key = key
Once(key) == \A v, w \in wire : Words[v].key = key /\ Words[w].key = key => v = w

AllData(key) == {[word |-> Only(key), at |-> i] : i \in 0..(Words[Only(key)].num_data - 1)}

\* A batch its leader produced once is rebuilt to exactly what was lost of it:
\* every data shred that had not come, none that had, each as the leader made
\* it, and nothing before the batch resolves -- whichever of its shreds came,
\* in any order and any number of times.
RebuildsWhatWasLost ==
  \A k \in Keys(sets) : Once(k) =>
    rebuilt[k] = IF sets.entries[k].value.resolved THEN AllData(k) \ taken[k] ELSE {}

\* Recovery waits only while it has to: an unresolved batch has no coding shred
\* or too few shreds, and this stays so when two productions of a slot mix in
\* one batch and one's coding shred changes the layout over the other's shards.
NothingWithheld ==
  \A k \in Keys(sets) :
    LET set == sets.entries[k].value IN
    /\ ~set.resolved /\ set.layout # NoLayout =>
         Cardinality(HaveData(set))
           + Cardinality(Usable(set.coding, set.layout.num_coding, set.layout))
             < set.layout.num_data
    /\ Once(k) /\ ~set.resolved =>
         (\A s \in taken[k] : IsData(s)) \/ Cardinality(taken[k]) < Cardinality(AllData(k))

FellShort(k) ==
  /\ Once(k) /\ \E s \in taken[k] : ~IsData(s)
  /\ Cardinality(taken[k]) < Cardinality(AllData(k))

\* sniper.recovery's failures are the batches that aged out with a coding shred
\* and too few shreds: none that was rebuilt or lost nothing is among them, and
\* none is missed but where the cap drops batches.
FailuresCounted ==
  [][/\ \A k \in short' : Once(k) => FellShort(k)
     /\ \A k \in Keys(sets) \ Keys(sets') :
          FellShort(k) => k \in short' \/ Cardinality(Keys(sets)) > MAX_FEC_SETS]_vars
=============================================================================
