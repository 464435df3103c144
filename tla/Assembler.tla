------------------------------ MODULE Assembler ------------------------------
(***************************************************************************)
(* The assembler of entries.rs: every slot's buffer, kept in an aged map,  *)
(* the budgets that bound them, and the entries handed over as shreds      *)
(* arrive in whatever order the network and erasure recovery produce.      *)
(*                                                                         *)
(* One action is one call of Assembler::insert on the parser thread: the   *)
(* sweep at its top, then one of its three outcomes.  Shreds are records   *)
(* [slot, index, data, data_complete, last_in_slot]; which of them may     *)
(* arrive, and in how many differing copies, is the wire of the behaviour. *)
(***************************************************************************)
EXTENDS SlotBuffer, AgedMap

CONSTANTS
  Wires,               \* Sets of shreds; a behaviour draws on one of them
  Ticks,               \* How much time may pass between two calls
  RETENTION,           \* How long a slot is kept after its last shred
  MAX_BUFFERED_SLOTS,
  MAX_SLOT_BYTES,
  MAX_SLOT_SHREDS,
  MAX_BUFFERED_BYTES,
  PER_SHRED_OVERHEAD,
  PER_BATCH_OVERHEAD

ASSUME AssemblerAssumption ==
  /\ \A w \in Wires : \A s \in w :
       /\ s.index \in 0..MAX_INDEX
       /\ s.data \in Seq([tag : {"count", "entry", "junk"}, value : Nat,
                          size : Nat \ {0}, part : Nat])
       /\ s.data_complete \in BOOLEAN /\ s.last_in_slot \in BOOLEAN
  /\ \A w \in Wires : IsFiniteSet({Len(s.data) : s \in w})  \* A datagram is a packet.
  /\ Ticks \subseteq Nat
  /\ RETENTION \in Nat \ {0}
  /\ {MAX_BUFFERED_SLOTS, MAX_SLOT_BYTES, MAX_SLOT_SHREDS, MAX_BUFFERED_BYTES,
      PER_SHRED_OVERHEAD, PER_BATCH_OVERHEAD} \subseteq Nat

VARIABLES
  slots,      \* the aged map of slot buffers
  bytes,      \* the running total the budget is kept in
  closed_out, \* slot |-> what the sweep of the last call reported of it
  duplicates, \* metric: shreds that displaced an earlier copy
  panicked,   \* the parser thread has died reading a batch
  wire,       \* the shreds that may arrive
  copies,     \* history: slot |-> index |-> the copy stored last
  handed      \* history: slot |-> start |-> what was returned of that batch

vars == <<slots, bytes, closed_out, duplicates, panicked, wire, copies, handed>>

----------------------------------------------------------------------------
\* What a slot costs the process, as opposed to what its shreds carry.
Footprint(b) ==
  b.capacity + Cardinality(Held(b)) * PER_SHRED_OVERHEAD
             + Cardinality(DOMAIN b.progress) * PER_BATCH_OVERHEAD

TotalFootprint(m) ==
  MapThenSumSet(LAMBDA s : Footprint(m.entries[s].value), Keys(m))

\* The sweep each call begins with, dt after the last one.
Now(dt)   == Elapsed(slots, dt, RETENTION)
Swept(dt) == Sweep(Now(dt), RETENTION, MAX_BUFFERED_SLOTS)
DueAt(dt) == SweepDue(Now(dt), MAX_BUFFERED_SLOTS)

\* Only what the callback was handed is taken off the running total.
SweptBytes_ExpiredOnly(dt) ==
  IF DueAt(dt)
  THEN bytes - MapThenSumSet(LAMBDA s : Footprint(slots.entries[s].value),
                             Expired(Now(dt), RETENTION))
  ELSE bytes

\* Rebuilt from what is left, because the cap drops slots unreported.
SweptBytes(dt) == IF DueAt(dt) THEN TotalFootprint(Swept(dt)) ELSE bytes

\* A slot whose end never showed is measured against what it reached.
ClosedOut_GuessesSize(b) ==
  [missing |-> Missing(b), held |-> Cardinality(Held(b)),
   size    |-> Max(Held(b) \cup {NoIndex}) + 1]

\* A slot is measured against its true size once its closing shred said it.
ClosedOut(b) ==
  [missing |-> Missing(b), held |-> Cardinality(Held(b)),
   size    |-> IF b.last_index = NoIndex THEN NoIndex ELSE b.last_index + 1]

CloseOut(dt) ==
  [s \in IF DueAt(dt) THEN Expired(Now(dt), RETENTION) ELSE {} |->
     ClosedOut(slots.entries[s].value)]

\* What is held already is left out.
Fits_ShredAlone(total, s) ==
  Len(s.data) + PER_SHRED_OVERHEAD + PER_BATCH_OVERHEAD <= MAX_BUFFERED_BYTES

Fits(total, s) ==
  total + Len(s.data) + PER_SHRED_OVERHEAD + PER_BATCH_OVERHEAD
    <= MAX_BUFFERED_BYTES


\* A second copy of an index already held adds no shred.
HasRoom(b, s) ==
  /\ Live(b) + Len(s.data) <= MAX_SLOT_BYTES
  /\ Cardinality(Held(b)) < MAX_SLOT_SHREDS \/ s.index \in Held(b)

BufferOf(m, slot) == ValueOf(m, slot, NewBuffer)

\* The buffer once the shred is in it, and once its batches were read on.
Stored(b, s) ==
  LET closing == IF s.last_in_slot THEN [b EXCEPT !.last_index = s.index] ELSE b
  IN  Insert(closing, s.index, s.data, s.data_complete)

\* What a function says of k, if anything.
At(f, k, none) == IF k \in DOMAIN f THEN f[k] ELSE none

WorthReporting_EntriesOnly(made) == made.entries # <<>>

\* A failed batch that handed nothing over is the one advance not reported.
WorthReporting(made) ==
  made.some /\ (made.entries # <<>> \/ made.finished # "Failed")

\* The batches a call returns a piece of, and what each has returned since its
\* slot was opened: its entries, piece after piece, and the last shred the
\* latest piece claims.
Told(b, i) == {start \in Candidates(b, i) : WorthReporting(Pass(b, start).advance)}

Nothing == [entries |-> <<>>, last_shred |-> NoIndex]

HandingOver(before, b, i) ==
  [start \in DOMAIN before \cup Told(b, i) |->
     LET old  == At(before, start, Nothing)
         made == Pass(b, start).advance
     IN  IF start \notin Told(b, i) THEN old
         ELSE [entries |-> old.entries \o made.entries, last_shred |-> made.last_shred]]

----------------------------------------------------------------------------
Init ==
  /\ slots = New
  /\ bytes = 0
  /\ closed_out = [s \in {} |-> 0]
  /\ duplicates = 0
  /\ panicked = FALSE
  /\ wire \in Wires
  /\ copies = [s \in {} |-> 0]
  /\ handed = [s \in {} |-> 0]

\* The histories follow the buffers: they are dropped with their slot.
Surviving(history, dt) == Restrict(history, DOMAIN history \cap Keys(Swept(dt)))

\* What every outcome of a call has in common: the sweep it began with.
Begin(dt) ==
  /\ ~panicked
  /\ closed_out' = CloseOut(dt)
  /\ UNCHANGED wire

\* The budget is answered before the slot is touched.
OverBudget(s, dt) ==
  /\ Begin(dt)
  /\ ~Fits(SweptBytes(dt), s)
  /\ slots' = Swept(dt)
  /\ bytes' = SweptBytes(dt)
  /\ copies' = Surviving(copies, dt)
  /\ handed' = Surviving(handed, dt)
  /\ UNCHANGED <<duplicates, panicked>>

\* A full slot is still touched: upsert has stamped it, or created it empty.
SlotFull(s, dt) ==
  LET buffer == BufferOf(Swept(dt), s.slot)
  IN  /\ Begin(dt)
      /\ Fits(SweptBytes(dt), s)
      /\ ~HasRoom(buffer, s)
      /\ slots' = Upsert(Swept(dt), s.slot, buffer)
      /\ bytes' = SweptBytes(dt)
      /\ copies' = Surviving(copies, dt)
      /\ handed' = Surviving(handed, dt)
      /\ UNCHANGED <<duplicates, panicked>>

Take(s, dt) ==
  LET old      == BufferOf(Swept(dt), s.slot)
      stored   == Stored(old, s)
      new      == ReadBatches(stored, s.index)
  IN  /\ Begin(dt)
      /\ Fits(SweptBytes(dt), s)
      /\ HasRoom(old, s)
      /\ slots' = Upsert(Swept(dt), s.slot, new)
      /\ bytes' = SweptBytes(dt) + Footprint(new) - Footprint(old)
      /\ duplicates' = duplicates + (IF s.index \in Held(old) THEN 1 ELSE 0)
      /\ panicked' = \E start \in Candidates(stored, s.index) : Pass(stored, start).advance.panic
      /\ LET kept == Surviving(copies, dt) IN
           copies' = Put(kept, s.slot, Put(At(kept, s.slot, [i \in {} |-> 0]), s.index, s))
      /\ LET kept == Surviving(handed, dt) IN
           handed' = Put(kept, s.slot,
                         HandingOver(At(kept, s.slot, [i \in {} |-> 0]), stored, s.index))

Next == \E s \in wire, dt \in Ticks : OverBudget(s, dt) \/ SlotFull(s, dt) \/ Take(s, dt)

Spec == Init /\ [][Next]_vars

----------------------------------------------------------------------------
Buffer(slot) == slots.entries[slot].value

\* What is held of every slot, and what was handed over from every batch, as
\* the promise of EntryStream sees them.
AllCopies == UNION {{copies[slot][i] : i \in DOMAIN copies[slot]} : slot \in DOMAIN copies}

HandedFrom(slot, start) == At(At(handed, slot, [i \in {} |-> 0]), start, Nothing).entries

Out == [batch \in {<<s.slot, 0>> : s \in wire}
          \cup {<<s.slot, s.index + 1>> : s \in {t \in wire : t.data_complete}}
          |-> HandedFrom(batch[1], batch[2])]

Stream == INSTANCE EntryStream WITH held <- AllCopies, out <- Out

\* How many entries a batch's bytes hold, and where the k-th ends; the 0-th
\* would end where the count does.
Count(data) == Cardinality(Stream!Ends(data))

EndAt(data, k) == IF k = 0 THEN ENTRY_COUNT ELSE Ascending(Stream!Ends(data))[k]

\* As far as its last entry goes, a batch is what a leader encodes: a count of
\* at least the entries there are, which the decoder has no reason to refuse,
\* and the entries end to end.  What lies behind may be anything.
Encoded(data) ==
  Stream!Ends(data) # {} =>
    /\ Len(data) >= ENTRY_COUNT
    /\ SubSeq(data, 1, ENTRY_COUNT) = Field("count", data[1].value, ENTRY_COUNT)
    /\ Count(data) <= data[1].value
    /\ data[1].value * MIN_ENTRY_BYTES <= MAX_BATCH_BYTES
    /\ \A k \in 1..Count(data) :
         LET last == data[EndAt(data, k)] IN
         SubSeq(data, EndAt(data, k - 1) + 1, EndAt(data, k)) =
           Field("entry", last.value, last.size)

OneCopy(w) == \A s, t \in w : s.slot = t.slot /\ s.index = t.index => s = t

\* What leaders cut: one copy of each shred, and batches so encoded that are
\* not past their bounds before the shred that closes them.
AsCut(w) ==
  /\ OneCopy(w)
  /\ \A batch \in Stream!Cut(w) :
       /\ Encoded(Stream!RunBytes(w, batch))
       /\ Len(Stream!RunBytes({s \in w : s.data_complete => s.index < batch[2]}, batch))
            <= MAX_BATCH_BYTES

\* A leader sets the flag on the last shred it cuts for a slot.
LastIsHighest(w) ==
  \A s, t \in w : s.last_in_slot /\ t.slot = s.slot => t.index <= s.index
\* Entries come out of every batch as soon as, and exactly when, the shreds
\* holding them form an unbroken run from its start: nothing is held back,
\* decoded twice or reordered, whatever order and however often shreds arrive.
HandsOverAsItArrives == Stream!Spec

\* Every buffer has the shape of its declaration, and the histories its keys.
TypeOK ==
  /\ wire \in Wires
  /\ duplicates \in Nat
  /\ panicked \in BOOLEAN
  /\ DOMAIN copies \subseteq Keys(slots)
  /\ DOMAIN handed = DOMAIN copies
  /\ slots.since \in 0..SWEEP_INTERVAL
  /\ \A slot \in Keys(slots) :
       /\ slots.entries[slot].age \in 0..RETENTION
       /\ Buffer(slot).stale \in Nat
       /\ Buffer(slot).starts \subseteq Nat
       /\ Held(Buffer(slot)) \subseteq 0..MAX_INDEX
       /\ DOMAIN Buffer(slot).progress \subseteq Nat

\* A batch is known to begin at zero and past every shred held that closes
\* one, and nowhere else, although a later copy of a shred may close a batch
\* the earlier one did not, or reopen one it closed.
StartsExact ==
  \A slot \in Keys(slots) : StartsRight(Buffer(slot))

\* The run remembered for a batch is one that is there: every shred of it is
\* held, only the last may close the batch, and complete says whether it does.
\* The walk resumes at that frontier, so a stale one would skip a gap or run
\* past a terminator into the next batch.
RunsSound ==
  \A slot \in Keys(slots) :
    LET b == Buffer(slot) IN
    \A start \in b.starts \cap DOMAIN b.progress :
      RunSound(b, start, b.progress[start].extent)

\* No shred held is left behind the frontier: a batch whose first shred is
\* held has been begun, and while it may still yield something its walk has
\* reached a gap or the shred that closes it -- although an insert only ever
\* advances the two batches next to it.
RunsReach ==
  \A slot \in Keys(slots) :
    LET b == Buffer(slot) IN
    \A start \in b.starts \cap Held(b) :
      start \in DOMAIN b.progress /\ RunReaches(b, b.progress[start])

\* The bytes that the copies held of a slot amount to.
Carried(held) == MapThenSumSet(LAMBDA i : Len(held[i].data), DOMAIN held)

\* The arena still holds, for every shred, the bytes of the copy that arrived
\* last, and counts as stranded exactly the rest -- through duplicates of
\* other lengths and through the compactions that rewrite every offset -- and
\* strands only until that outweighs what is live (or the floor), plus the copy
\* displaced since.
ArenaSound ==
  \A slot \in DOMAIN copies :
    LET b       == Buffer(slot)
        longest == Max({Len(s.data) : s \in wire})
    IN
    /\ Held(b) = DOMAIN copies[slot]
    /\ \A i \in Held(b) :
         /\ b.shreds[i].at + b.shreds[i].len <= Len(b.arena)
         /\ ShredBytes(b, i) = copies[slot][i].data
         /\ b.shreds[i].complete = copies[slot][i].data_complete
    /\ Live(b) = Carried(copies[slot])
    /\ b.stale <= Max({COMPACT_FLOOR, Live(b) + longest}) + longest

\* The decoder never slices past the bytes it was given: what was consumed of
\* a batch is never more than the batch still holds.
ReadsInRange == ~panicked

\* A batch's bytes open with the count of the entries that are in them.
Declared(data) ==
  /\ Len(data) >= ENTRY_COUNT
  /\ SubSeq(data, 1, ENTRY_COUNT) = Field("count", Len(Stream!Whole(data)), ENTRY_COUNT)

\* Where a batch the leader cut is wholly held and recognised, and has the
\* entries it declares, what was handed over for it reaches its closing shred,
\* padding included, and never further: the ground between two decoded batches
\* is fully claimed, whichever of entries and padding arrived first.
PaddingClaimed ==
  \A slot \in DOMAIN handed : \A start \in Buffer(slot).starts :
    LET run    == Stream!Run(AllCopies, <<slot, start>>)
        closes == {s.index : s \in {t \in run : t.data_complete}}
    IN  closes # {} /\ Declared(Stream!RunBytes(AllCopies, <<slot, start>>)) =>
          At(handed[slot], start, Nothing).last_shred \in closes

\* The running total is what the slots held really cost, however slots left:
\* aged out, or dropped by the cap behind the callback's back.
BytesExact == bytes = TotalFootprint(slots)

\* The budget is overrun by no more than one doubling of one arena and the
\* second of the two batches a closing shred can begin.
OvershootBounded ==
  TotalFootprint(slots) <=
    MAX_BUFFERED_BYTES + PER_BATCH_OVERHEAD
      + Max({0} \cup {Buffer(slot).capacity : slot \in Keys(slots)})

\* A slot let go had been quiet for at least as long as every slot that stays
\* without having been touched: busy slots outlive spoofed ones.
QuietestGoFirst ==
  [][\A gone \in Keys(slots) \ Keys(slots'), stays \in Keys(slots) \cap Keys(slots') :
       slots'.entries[stays].age > 0 =>
         slots.entries[gone].age >= slots.entries[stays].age]_vars

\* A slot closed out as terminated with nothing missing really had received
\* every shred its leader cut for it.
CompleteMeansAll ==
  [][\A slot \in DOMAIN closed_out' :
       closed_out'[slot].missing = {} /\ closed_out'[slot].size # NoIndex =>
         {s.index : s \in Stream!InSlot(wire, slot)} \subseteq
           (IF slot \in DOMAIN copies THEN DOMAIN copies[slot] ELSE {})]_vars
=============================================================================
