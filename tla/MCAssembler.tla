------------------------------ MODULE MCAssembler ------------------------------
(***************************************************************************)
(* Instances of the assembler for TLC: the slots leaders cut, as wires.    *)
(***************************************************************************)
EXTENDS Assembler

\* A batch is its entry count and its entries, given as <<value, size>>.
Batch(n, entries) ==
  Field("count", n, ENTRY_COUNT)
    \o FlattenSeq([k \in DOMAIN entries |-> Field("entry", entries[k][1], entries[k][2])])

\* Every way to cut bytes into n pieces, empty ones included.
Cuts(data, n) ==
  {[k \in 1..n |-> SubSeq(data, c[k] + 1, c[k + 1])] :
     c \in {d \in [1..(n + 1) -> 0..Len(data)] :
              /\ d[1] = 0 /\ d[n + 1] = Len(data)
              /\ \A k \in 1..n : d[k] <= d[k + 1]}}

\* The shreds of a slot whose batches were cut into the given pieces.
Shredded(slot, batches) ==
  LET base(k) == MapThenSumSet(LAMBDA j : Len(batches[j]), 1..(k - 1))
      last    == base(Len(batches) + 1) - 1
  IN  {[slot |-> slot, index |-> base(k) + i - 1, data |-> batches[k][i],
        data_complete |-> i = Len(batches[k]),
        last_in_slot  |-> base(k) + i - 1 = last] :
         <<k, i>> \in {<<k, i>> \in (DOMAIN batches) \X (1..9) : i <= Len(batches[k])}}

----------------------------------------------------------------------------
\* Two batches of which the first is cut in every way into three shreds, the
\* empty pieces being padding when they come last.
TwoEntries == Batch(2, << <<1, 2>>, <<2, 1>> >>)
OneEntry   == Batch(1, << <<3, 1>> >>)
Halved     == <<SubSeq(OneEntry, 1, 1), SubSeq(OneEntry, 2, 3)>>

EveryCut == {Shredded("a", <<cut, Halved>>) : cut \in Cuts(TwoEntries, 3)}

\* One such cut: a split entry, a padded tail, and a batch behind it.
SplitAndPadded ==
  {Shredded("a", << <<SubSeq(TwoEntries, 1, 3), SubSeq(TwoEntries, 4, 5), <<>> >>,
                    <<OneEntry>> >>)}

\* Batches that are not plain runs of entries: a marker, one that declares more
\* than it holds, one whose count is impossible, one that is not entries, and
\* one no shred closes before it is past its bounds.
Odd ==
  {Shredded("a", << <<SubSeq(Batch(0, <<>>), 1, 1), SubSeq(Batch(0, <<>>), 2, 2), <<>> >>, Halved>>),
   Shredded("a", << <<Batch(2, << <<1, 2>> >>), <<>> >>, Halved>>),
   Shredded("a", << <<Batch(9, <<>>), Field("junk", 0, 2)>>, Halved>>),
   Shredded("a", << <<Batch(2, << <<1, 1>> >>), Field("junk", 0, 1)>>, Halved>>),
   Shredded("a", << <<Batch(2, << <<1, 1>> >>), <<>>, Field("entry", 2, 9)>>, Halved>>)}

Identical == EveryCut \cup SplitAndPadded \cup Odd

\* They are what leaders cut, as the theorems suppose.
ASSUME IdenticalAsCut == \A w \in Identical : AsCut(w)
\* Resending is unbounded on the wire; a run explores it this far: not at all
\* over the many wires that differ in their cuts alone, and once over odd ones.
CONSTANT RESENDS
FewResends ==
  duplicates <= (CASE wire \in EveryCut -> 0 [] wire \in Odd -> 1 [] OTHER -> RESENDS)

\* Copies of one index that differ: in the closing flag over a run of four,
\* and in length, in bytes and in the flag over a run of two.
Variants(indices, datas) ==
  {[slot |-> "a", index |-> i, data |-> d, data_complete |-> c, last_in_slot |-> FALSE] :
     i \in indices, d \in datas, c \in BOOLEAN}

OneOfTwo == Batch(2, << <<1, 1>> >>)

Differing == {Variants(0..3, {Field("entry", 1, 1)}),
              Variants(0..1, {OneOfTwo, Field("entry", 2, 1), <<>>})}

\* Three slots that time and the budgets push around: one of three shreds, one
\* heavy for its bytes, and one whose tail is lost.
ThreeSlots ==
  {Shredded("a", << <<SubSeq(OneEntry, 1, 1), SubSeq(OneEntry, 2, 2), SubSeq(OneEntry, 3, 3)>> >>)
     \cup Shredded("b", << <<OneEntry>>, <<Batch(0, <<>>)>> >>)
     \cup {s \in Shredded("c", <<Halved>>) : s.index = 0}}

\* Where copies agree the wires are what the theorems suppose of leaders.
ASSUME WiresAsCut == \A w \in Identical \cup ThreeSlots : AsCut(w) /\ LastIsHighest(w)
=============================================================================
