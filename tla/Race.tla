--------------------------------- MODULE Race ---------------------------------
(***************************************************************************)
(* Where our transactions landed relative to the wallet being raced        *)
(* (race.rs).  The tracker is handed each batch of a slot in the pieces    *)
(* the assembler could read, works out the leader's order from the shred   *)
(* indices, and reports the slot once it has been quiet for SETTLE.        *)
(*                                                                         *)
(* A slot is what its leader laid down: a sequence of batches              *)
(*   [first, last, opens, entries]                                         *)
(* over the shreds first..last, the entry count complete at shred opens,   *)
(* and each entry [ends, payers]: the shred its last byte lies in, and who *)
(* pays for each of its transactions.  The pieces are those EntryStream    *)
(* promises of these batches, told the way the assembler tells them -- and *)
(* told again where the assembler lets go of a slot that is then resent.   *)
(***************************************************************************)
EXTENDS AgedMap, Ordered, SequencesExt

CONSTANTS
  Slots,      \* slot |-> the batches its leader laid down
  Ticks,      \* How much time may pass between two shreds
  SETTLE,     \* Quiet time after which a slot is reported
  MAX_SLOTS,
  MAX_PAIRS,
  LOSSES      \* Bound: how often the assembler lets go of a slot

ASSUME RaceAssumption ==
  /\ Ticks \subseteq Nat /\ SETTLE \in Nat \ {0} /\ MAX_SLOTS \in Nat /\ MAX_PAIRS \in Nat
  /\ LOSSES \in Nat
  /\ \A s \in DOMAIN Slots :
       Slots[s] \in Seq([first : Nat, last : Nat, opens : Nat,
                        entries : Seq([ends : Nat, payers : Seq({"target", "searcher", "other"})])])
  /\ \A s \in DOMAIN Slots : \A k \in DOMAIN Slots[s] :
       LET b == Slots[s][k] IN
       /\ b.first = (IF k = 1 THEN 0 ELSE Slots[s][k - 1].last + 1)
       /\ b.first <= b.opens /\ b.opens <= b.last
       /\ \A e \in DOMAIN b.entries :
            b.entries[e].ends \in
              (IF e = 1 THEN b.opens ELSE b.entries[e - 1].ends)..b.last

VARIABLES
  slots,    \* the aged map of slots still open
  arrived,  \* slot |-> the shreds of it the assembler holds
  said,     \* the lines the last call logged
  told,     \* history: hits that have appeared in a line
  dropped,  \* history: hits of a slot the cap dropped, or of too many to pair
  over,     \* history: slots let go, by settling, by the cap or by the assembler
  lives,    \* history: slot |-> how often the assembler has let go of it
  past      \* history: hits decoded in lives gone by

vars == <<slots, arrived, said, told, dropped, over, lives, past>>

----------------------------------------------------------------------------
(* The pieces a shred brings out, as Assembler::insert returns them.        *)

\* A batch is recognised once the shred that closes the one before it is held.
Known(slot, k, h) == k = 1 \/ Slots[slot][k - 1].last \in h

\* The last shred of its unbroken run.
Reach(slot, k, h) ==
  LET b == Slots[slot][k] IN
  Max({b.first - 1} \cup
        {i \in b.first..b.last : Known(slot, k, h) /\ b.first..i \subseteq h})

\* The shred at which everything the batch declared is out.
DoneAt(b) == IF b.entries = <<>> THEN b.opens ELSE b.entries[Len(b.entries)].ends

\* An advance from one reach to a further one is told if it brought entries,
\* was the one that finished the batch, or claimed the padding behind it.
Told_EntriesOnly(b, was, now) == \E e \in DOMAIN b.entries : b.entries[e].ends \in (was + 1)..now

Told(b, was, now) ==
  \/ \E e \in DOMAIN b.entries : b.entries[e].ends \in (was + 1)..now
  \/ DoneAt(b) \in (was + 1)..now
  \/ was < b.last /\ now = b.last /\ DoneAt(b) <= was

\* A transaction is named by where in its slot the leader put it: how many
\* transactions, and how many entries, are in front of it; and, as the program
\* cannot, by which of the slot's lives it was decoded in.
Signed(slot, k, e) ==
  LET entries == FlattenSeq([j \in 1..k |-> IF j < k THEN Slots[slot][j].entries
                                            ELSE SubSeq(Slots[slot][k].entries, 1, e)])
      payers  == Slots[slot][k].entries[e].payers
      before  == SumOf([j \in 1..(Len(entries) - 1) |-> Len(entries[j].payers)])
  IN  [t \in DOMAIN payers |->
        [payer |-> payers[t],
         signature |-> [slot |-> slot, life |-> lives[slot],
                        transactions |-> before + t - 1,
                        entries |-> Len(entries) - 1]]]

Piece(slot, k, was, now) ==
  LET b    == Slots[slot][k]
      mine == Ascending({e \in DOMAIN b.entries : b.entries[e].ends \in (was + 1)..now})
  IN  [first_shred |-> b.first, last_shred |-> now,
       entries |-> [j \in DOMAIN mine |-> Signed(slot, k, mine[j])]]

\* The transactions of either side among the entries of a slot that are out.
DecodedOf(slot) ==
  UNION {UNION {{tx.signature : tx \in {tx \in Range(Signed(slot, k, e)) : tx.payer # "other"}} :
                  e \in {e \in DOMAIN Slots[slot][k].entries :
                           Slots[slot][k].entries[e].ends <= Reach(slot, k, arrived[slot])}} :
           k \in DOMAIN Slots[slot]}

\* In ascending order of where the batches begin.
Pieces(slot, i) ==
  LET h    == arrived[slot]
      was(k) == Reach(slot, k, h)
      now(k) == Reach(slot, k, h \cup {i})
      ks   == Ascending({k \in DOMAIN Slots[slot] :
                           was(k) # now(k) /\ Told(Slots[slot][k], was(k), now(k))})
  IN  [j \in DOMAIN ks |-> Piece(slot, ks[j], was(ks[j]), now(ks[j]))]

----------------------------------------------------------------------------
(* Slot: the running order of one slot.                                     *)

NewSlot == [batches |-> [b \in {} |-> 0], hits |-> {}]

\* What precedes a hit, counting only the batches held.
Position(held, hit) ==
  LET before == {b \in DOMAIN held.batches : b < hit.first_shred}
      counts == held.batches[hit.first_shred].entries
  IN  [transactions |-> SumOf([b \in before |-> SumOf(held.batches[b].entries)])
                          + SumOf(SubSeq(counts, 1, hit.entry)) + hit.transaction,
       entries      |-> SumOf([b \in before |-> Len(held.batches[b].entries)]) + hit.entry]

\* Both ends only have to be there.
Tiled_Unchecked(held, from, to) == {from, to} \subseteq DOMAIN held.batches

\* The batches from one shred to the other leave no hole between them.
Tiled(held, from, to) ==
  LET low   == Min({from, to})
      high  == Max({from, to})
      range == {b \in DOMAIN held.batches : low <= b /\ b <= high}
  IN  /\ high \in range
      /\ \A b \in range : b # low =>
           \E a \in range : a < b /\ held.batches[a].last_shred + 1 = b
                              /\ \A c \in range : ~(a < c /\ c < b)
      /\ low \in range

Of(held, role) == {hit \in held.hits : hit.role = role}

\* The line of one pair; negative gaps mean ours is in front.
Line(held, t, s) ==
  LET at == Position(held, t)
      my == Position(held, s)
  IN  [target |-> t.signature, searcher |-> s.signature,
       tx_gap     |-> my.transactions - at.transactions,
       entry_gap  |-> my.entries - at.entries,
       same_entry |-> s.first_shred = t.first_shred /\ s.entry = t.entry,
       exact      |-> Tiled(held, s.first_shred, t.first_shred)]

TooMany(held) == Cardinality(Of(held, "searcher")) * Cardinality(Of(held, "target")) > MAX_PAIRS

Paired(held) ==
  IF TooMany(held) THEN {}
  ELSE {Line(held, t, s) : t \in Of(held, "target"), s \in Of(held, "searcher")}

\* The hits a report names: every one, with or without a counterpart, but in
\* a slot of too many to pair.
Named_PairsOnly(held) ==
  IF Paired(held) = {} THEN {} ELSE {hit.signature : hit \in held.hits}

Named(held) == IF TooMany(held) THEN {} ELSE {hit.signature : hit \in held.hits}

----------------------------------------------------------------------------
(* Tracker::batch, on an account of the map and of what was logged.         *)

\* Counted from everything recorded for the batch, not from the piece.
Placed_InPiece(span, hit) == hit

Placed(span, hit) == [hit EXCEPT !.entry = @ + Len(span.entries)]

Hits(piece) ==
  {hit \in UNION {{[role        |-> piece.entries[e][t].payer,
                   first_shred |-> piece.first_shred,
                   entry       |-> e - 1,
                   transaction |-> t - 1,
                   signature   |-> piece.entries[e][t].signature] :
                     t \in DOMAIN piece.entries[e]} : e \in DOMAIN piece.entries} :
     hit.role # "other"}

Extended_NotAtAll(span, last_shred) == span.last_shred

Extended(span, last_shred) == Max({span.last_shred, last_shred})

\* A piece extends the span its batch already has.
Recorded(held, piece) ==
  LET span == IF piece.first_shred \in DOMAIN held.batches
              THEN held.batches[piece.first_shred]
              ELSE [last_shred |-> piece.last_shred, entries |-> <<>>]
      grown == [last_shred |-> Extended(span, piece.last_shred),
                entries    |-> span.entries \o
                                 [e \in DOMAIN piece.entries |-> Len(piece.entries[e])]]
  IN  [batches |-> [b \in DOMAIN held.batches \cup {piece.first_shred} |->
                      IF b = piece.first_shred THEN grown ELSE held.batches[b]],
       hits    |-> held.hits \cup {Placed(span, hit) : hit \in Hits(piece)}]

\* What a sweep of the map reports, and what it drops unreported.
Settled(m) == IF SweepDue(m, MAX_SLOTS) THEN Expired(m, SETTLE) ELSE {}

Lost(m) == IF SweepDue(m, MAX_SLOTS) THEN OverCap(m, SETTLE, MAX_SLOTS) ELSE {}

Batch(account, slot, piece) ==
  LET m     == account.slots
      kept  == Sweep(m, SETTLE, MAX_SLOTS)
      value(s) == m.entries[s].value
  IN  [slots   |-> Upsert(kept, slot, Recorded(ValueOf(kept, slot, NewSlot), piece)),
       said    |-> account.said \cup
                     UNION {{[line |-> l, again |-> s \in account.over] : l \in Paired(value(s))} :
                              s \in Settled(m)},
       told    |-> account.told \cup UNION {Named(value(s)) : s \in Settled(m)},
       dropped |-> account.dropped
                     \cup UNION {{h.signature : h \in value(s).hits} :
                                  s \in Lost(m) \cup {s \in Settled(m) : TooMany(value(s))}},
       over    |-> account.over \cup Settled(m) \cup Lost(m)]

----------------------------------------------------------------------------
Init ==
  /\ slots = New
  /\ arrived = [s \in DOMAIN Slots |-> {}]
  /\ said = {} /\ told = {} /\ dropped = {} /\ over = {}
  /\ lives = [s \in DOMAIN Slots |-> 0] /\ past = {}

\* A shred the assembler took, and the tracker's call for each piece of it.
\* A copy of one already held brings nothing out.
Arrive(slot, i, dt) ==
  LET start == [slots |-> Elapsed(slots, dt, SETTLE), said |-> {}, told |-> told,
                dropped |-> dropped, over |-> over]
      ended == FoldLeft(LAMBDA account, piece : Batch(account, slot, piece),
                        start, Pieces(slot, i))
  IN  /\ slots' = ended.slots
      /\ said' = ended.said
      /\ told' = ended.told
      /\ dropped' = ended.dropped
      /\ over' = ended.over
      /\ arrived' = [arrived EXCEPT ![slot] = @ \cup {i}]
      /\ UNCHANGED <<lives, past>>

\* A shred of whatever slot has the assembler sweep, and it lets go of this
\* slot: for its age, or because others, which need not be any of these, are
\* over its cap.  The tracker hears nothing of it.
Forget(slot) ==
  /\ arrived[slot] # {} /\ SumOf(lives) < LOSSES
  /\ arrived' = [arrived EXCEPT ![slot] = {}]
  /\ lives' = [lives EXCEPT ![slot] = @ + 1]
  /\ past' = past \cup DecodedOf(slot)
  /\ over' = over \cup {slot}
  /\ UNCHANGED <<slots, said, told, dropped>>

Next ==
  \E slot \in DOMAIN Slots :
    \/ \E dt \in Ticks, i \in UNION {b.first..b.last : b \in Range(Slots[slot])} :
         Arrive(slot, i, dt)
    \/ Forget(slot)

Spec == Init /\ [][Next]_vars

----------------------------------------------------------------------------
TrueLine(line) ==
  /\ line.tx_gap = line.searcher.transactions - line.target.transactions
  /\ line.entry_gap = line.searcher.entries - line.target.entries

\* A gap called exact is the leader's own: every transaction it put between
\* the two is counted, whatever order the pieces came in and whichever of the
\* two is in front -- if all the slot's pieces came before it settled, and in
\* the one life the assembler had it in.
ExactGaps == \A r \in said : r.line.exact /\ ~r.again => TrueLine(r.line)

\* "The number is reported either way, but never as exact", with a batch that
\* was not decoded in between or not.
ExactAlways == \A r \in said : r.line.exact => TrueLine(r.line)

\* Once every shred of an open slot is there, any two of its batches are
\* known to tile what lies between them: padding and batches that declare
\* nothing leave no hole.
WholeSlotTiles ==
  \A slot \in Keys(slots) \ over :
    LET held == slots.entries[slot].value
        cut  == {b.first : b \in Range(Slots[slot])}
    IN  UNION {b.first..b.last : b \in Range(Slots[slot])} \subseteq arrived[slot] =>
          \A from, to \in cut : Tiled(held, from, to)

\* Each time a transaction of either side is decoded it comes to wait, and
\* from there to be named in a report, or to go with a slot the cap dropped or
\* that had too many to pair: no hit is lost, and none is reported twice of
\* one decoding.  It is reported once for each time it was decoded: nothing
\* but the assembler's holding on to a slot keeps a resent shred from being
\* decoded, and its transactions from being reported, once more.
HitsAccounted ==
  LET waiting == UNION {{h.signature : h \in slots.entries[s].value.hits} : s \in Keys(slots)}
      decoded == past \cup UNION {DecodedOf(s) : s \in DOMAIN Slots}
  IN  /\ waiting \cup told \cup dropped = decoded
      /\ waiting \cap told = {} /\ waiting \cap dropped = {} /\ told \cap dropped = {}
=============================================================================
