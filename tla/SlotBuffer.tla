------------------------------ MODULE SlotBuffer ------------------------------
(***************************************************************************)
(* One slot's shreds and what has been read of its batches: SlotBuffer,    *)
(* Progress and the decoder of entries.rs, as operators on a record.       *)
(*                                                                         *)
(* A buffer is a record with the source's fields:                          *)
(*   arena      the bytes of every shred stored, back to back              *)
(*   capacity   what the arena's allocation can hold                       *)
(*   stale      arena bytes no shred points at any more                    *)
(*   shreds     index |-> [at, len, complete]; at counts from 0            *)
(*   starts     indices at which a batch begins                            *)
(*   progress   start |-> how far that batch has been decoded              *)
(*   last_index the shred that closes the slot, NoIndex until it arrives   *)
(* Arrival instants and the recovered flag only feed latency metrics and   *)
(* are left out.                                                           *)
(*                                                                         *)
(* A byte is a CELL: which field of a batch it belongs to (its entry count *)
(* or one of its entries), the value and the size of that field, and which *)
(* part of it this is.  Reading a field is reading all of its parts.       *)
(***************************************************************************)
EXTENDS Ordered, SequencesExt

CONSTANTS
  COMPACT_FLOOR,    \* Stranded bytes an arena may hold before it is rebuilt
  ENTRY_COUNT,      \* Bytes of the count a batch opens with
  MIN_ENTRY_BYTES,  \* The smallest an entry can be
  MAX_BATCH_BYTES,  \* Bytes a batch may run to with no shred closing it
  MIN_ARENA,        \* The first allocation of an empty Vec<u8>
  MAX_INDEX         \* The highest index the parser lets through

ASSUME BufferAssumption ==
  /\ COMPACT_FLOOR \in Nat
  /\ ENTRY_COUNT \in Nat \ {0}
  /\ MIN_ENTRY_BYTES \in Nat \ {0}
  /\ MAX_BATCH_BYTES \in Nat
  /\ MIN_ARENA \in Nat
  /\ MAX_INDEX \in Nat

\* The source's None, one for each type it is the None of.
NoIndex  == -1
NoCount  == -1
NoExtent == [last |-> -1, complete |-> FALSE, len |-> 0]
NoResume == [from |-> -1, base |-> 0]

NewProgress ==
  [consumed |-> 0, remaining |-> NoCount, opened |-> FALSE, closed |-> FALSE,
   padded |-> FALSE, extent |-> NoExtent, resume |-> NoResume]

NewBuffer ==
  [arena |-> <<>>, capacity |-> 0, stale |-> 0, shreds |-> [i \in {} |-> 0],
   starts |-> {0}, progress |-> [s \in {} |-> 0], last_index |-> NoIndex]

Held(b) == DOMAIN b.shreds

\* f with k bound to v, whether or not it was bound before.
Put(f, k, v) == [x \in DOMAIN f \cup {k} |-> IF x = k THEN v ELSE f[x]]

\* The bytes of a field, cut wherever the shreds happen to cut them.
Field(tag, value, size) ==
  [j \in 1..size |-> [tag |-> tag, value |-> value, size |-> size, part |-> j]]

----------------------------------------------------------------------------
(* The arena.                                                               *)

LenOf(b, from, to) == MapThenSumSet(LAMBDA i : b.shreds[i].len, from..to)

ShredBytes(b, i) ==
  SubSeq(b.arena, b.shreds[i].at + 1, b.shreds[i].at + b.shreds[i].len)

Stitched(b, from, to) ==
  FlattenSeq([k \in 1..(to - from + 1) |-> ShredBytes(b, from + k - 1)])

Live(b) == Len(b.arena) - b.stale

\* A shred moves to behind the ones before it.
Relocated_Not(b, i) == b.shreds[i].at

Relocated(b, i) ==
  MapThenSumSet(LAMBDA j : b.shreds[j].len, {j \in Held(b) : j < i})

\* Rebuilt in index order around the shreds still held.
Compact(b) ==
  LET order == Ascending(Held(b))
  IN  [b EXCEPT
        !.arena    = FlattenSeq([k \in DOMAIN order |-> ShredBytes(b, order[k])]),
        !.capacity = Live(b),
        !.stale    = 0,
        !.shreds   = [i \in Held(b) |-> [@[i] EXCEPT !.at = Relocated(b, i)]]]

CompactDue_Never(b) == FALSE

CompactDue(b) == b.stale > COMPACT_FLOOR /\ b.stale > Len(b.arena) \div 2

\* Vec::extend_from_slice: double, or take what is needed if that is more.
Grown(capacity, need) ==
  IF need <= capacity THEN capacity ELSE Max({2 * capacity, need, MIN_ARENA})

Store(b, data) ==
  LET c == IF CompactDue(b) THEN Compact(b) ELSE b
  IN  [c EXCEPT !.arena    = @ \o data,
                !.capacity = Grown(@, Len(c.arena) + Len(data))]

----------------------------------------------------------------------------
(* Which batches a shred concerns, and forgetting walks over a replaced one.*)

Containing(b, i) == Max({s \in b.starts : s <= i})

Candidates_ContainingOnly(b, i) == {Containing(b, i)}

\* The batch holding the shred and, if one begins behind it, the next.  They
\* are taken in ascending order.
Candidates(b, i) == {Containing(b, i)} \cup ({i + 1} \cap b.starts)

Invalidate_Nothing(b, i) == b

Invalidate(b, i) ==
  [b EXCEPT !.progress =
     [s \in DOMAIN @ |->
        IF s \in Candidates(b, i)
        THEN [@[s] EXCEPT !.extent = NoExtent, !.resume = NoResume]
        ELSE @[s]]]

\* Bytes of the copy a shred displaces, which nothing points at any more.
Displaced_Nothing(b, i) == 0

Displaced_TakenOff(b, i) == IF i \in Held(b) THEN -b.shreds[i].len ELSE 0

Displaced(b, i) == IF i \in Held(b) THEN b.shreds[i].len ELSE 0

\* The start a closing shred opened goes when a copy that closes nothing
\* takes its place.
Reopened_Never(b, i, complete) == {}

Reopened(b, i, complete) ==
  IF i \in Held(b) /\ b.shreds[i].complete /\ ~complete THEN {i + 1} ELSE {}

\* SlotBuffer::insert.
Insert(b, i, data, complete) ==
  LET stored == Store(b, data)
      put == [stored EXCEPT
                !.shreds = Put(@, i, [at |-> Len(stored.arena) - Len(data),
                                      len |-> Len(data), complete |-> complete]),
                !.stale  = @ + Displaced(b, i),
                !.starts = (@ \ Reopened(b, i, complete))
                             \cup (IF complete THEN {i + 1} ELSE {})]
  IN  IF i \in Held(b) THEN Invalidate(put, i) ELSE put

----------------------------------------------------------------------------
(* The run of consecutive shreds a batch consists of so far.                *)

\* Every index from..to is held and none before the last closes the batch.
Walked(b, from, to) ==
  \A i \in from..to : i \in Held(b) /\ (i < to => ~b.shreds[i].complete)

\* The walk stops at the first gap or at the shred that closes the batch.
RunEnd(b, from) ==
  Max({from - 1} \cup {i \in Held(b) : i >= from /\ Walked(b, from, i)})

Frontier(start, cached) == IF cached = NoExtent THEN start ELSE cached.last + 1

Extent(b, start, cached) ==
  LET from == Frontier(start, cached)
      last == RunEnd(b, from)
  IN  IF cached.complete THEN cached
      ELSE IF last < start THEN NoExtent
      ELSE [last     |-> last,
            complete |-> last >= from /\ b.shreds[last].complete,
            len      |-> cached.len + LenOf(b, from, last)]

\* Shreds whose bytes are all consumed are skipped, from where the last pass
\* stopped.
Unread(b, at, last, consumed) ==
  LET part == {i \in at.from..last : at.base + LenOf(b, at.from, i) > consumed}
  IN  IF part = {} THEN Max({at.from, last + 1}) ELSE Min(part)

ResumedAt(start, p) ==
  IF p.resume = NoResume THEN [from |-> start, base |-> 0] ELSE p.resume

\* Where reading picks up, and how far into the batch that is.
Resume(b, start, p) ==
  LET at   == ResumedAt(start, p)
      from == Unread(b, at, p.extent.last, p.consumed)
  IN  [from |-> from, base |-> at.base + LenOf(b, at.from, from - 1)]

\* In the arena the run lies end to end, which in-order delivery produces.
Contiguous(b, from, to) ==
  \A i \in from..(to - 1) :
    b.shreds[i + 1].at = b.shreds[i].at + b.shreds[i].len

\* The run's bytes from the resume point on: read where they lie, or stitched.
Payload(b, from, to) ==
  IF from <= to /\ Contiguous(b, from, to)
  THEN SubSeq(b.arena, b.shreds[from].at + 1,
              b.shreds[from].at + LenOf(b, from, to))
  ELSE Stitched(b, from, to)

----------------------------------------------------------------------------
(* decode: whole entries out of bytes, which begin base bytes into the      *)
(* batch.  OutOfRange is the slice expression bytes[consumed - base ..] with *)
(* its lower bound past the end, where the program panics.                  *)

\* The bytes held of the field that begins at offset at (from 0).
FieldAt(bytes, at) ==
  SubSeq(bytes, at + 1, Min({at + bytes[at + 1].size, Len(bytes)}))

\* They are what they claim to be, as far as they go.
Sound(field, tag) ==
  \A j \in DOMAIN field : field[j] = [field[1] EXCEPT !.part = j, !.tag = tag]

HasEntry(bytes, at) ==
  /\ at < Len(bytes)
  /\ Sound(FieldAt(bytes, at), "entry")
  /\ at + bytes[at + 1].size <= Len(bytes)

ReadEntries(bytes, base, p) ==
  LET ends[k \in 0..p.remaining] ==        \* where the k-th next entry ends
        IF k = 0 THEN p.consumed
        ELSE IF ends[k - 1] # -1 /\ HasEntry(bytes, ends[k - 1] - base)
             THEN ends[k - 1] + bytes[ends[k - 1] - base + 1].size
             ELSE -1
      taken == Max({k \in 0..p.remaining : ends[k] # -1})
      left  == ends[taken] - base
  IN  [out       |-> [k \in 1..taken |-> bytes[ends[k - 1] - base + 1].value],
       consumed  |-> ends[taken],
       remaining |-> p.remaining - taken,
       verdict   |-> CASE taken = p.remaining -> "Done"
                       [] taken < p.remaining /\ left > Len(bytes) -> "OutOfRange"
                       [] taken < p.remaining /\ left = Len(bytes) -> "Waiting"
                       [] OTHER -> IF Sound(FieldAt(bytes, left), "entry")
                                   THEN "Waiting" ELSE "Invalid"]

\* Nothing is read before the count, and a count nothing could satisfy is
\* refused at once.  Bytes that are no count read as such a one.
Decode(bytes, base, p) ==
  LET at      == p.consumed - base
      stuck(v) == [out |-> <<>>, consumed |-> p.consumed,
                   remaining |-> p.remaining, verdict |-> v]
  IN  IF p.remaining # NoCount THEN ReadEntries(bytes, base, p)
      ELSE IF at + ENTRY_COUNT > Len(bytes) THEN stuck("Waiting")
      ELSE IF \/ ~Sound(FieldAt(bytes, at), "count")
              \/ bytes[at + 1].value * MIN_ENTRY_BYTES > MAX_BATCH_BYTES
           THEN stuck("Invalid")
      ELSE ReadEntries(bytes, base,
                       [p EXCEPT !.remaining = bytes[at + 1].value,
                                 !.consumed  = @ + ENTRY_COUNT])

----------------------------------------------------------------------------
(* advance: decodes as much of the batch at start as the shreds now held    *)
(* allow.  Its result is the batch's progress and what is reported of it.   *)

NoAdvance == [some |-> FALSE, last_shred |-> NoIndex, entries |-> <<>>,
              opened |-> FALSE, finished |-> "None", panic |-> FALSE]

Silent(p) == [progress |-> p, advance |-> NoAdvance]

Report(p, entries, opened, finished) ==
  [progress |-> p,
   advance  |-> [some |-> TRUE, last_shred |-> p.extent.last, entries |-> entries,
                 opened |-> opened, finished |-> finished, panic |-> FALSE]]

ClaimPadding_Never(b, start, p) == Silent(p)

\* A closed batch only ever claims the padding behind its entries, once.
ClaimPadding(b, start, p) ==
  LET extent  == Extent(b, start, p.extent)
      claimed == [p EXCEPT !.extent = extent]
  IN  IF ~p.padded \/ p.extent.complete \/ extent = NoExtent THEN Silent(p)
      ELSE IF ~extent.complete THEN Silent(claimed)
      ELSE Report(claimed, <<>>, FALSE, "None")

\* A batch whose bytes merely stop is taken for one that is not entries.
Finished_GivesUp(verdict, any, complete) ==
  IF verdict = "Done" THEN (IF any THEN "Decoded" ELSE "Marker") ELSE "Failed"

Finished(verdict, any, complete) ==
  CASE verdict = "Done"    -> IF any THEN "Decoded" ELSE "Marker"
    [] verdict = "Invalid" -> "Failed"
    [] OTHER               -> IF complete THEN "Failed" ELSE "None"

\* What reading from at on makes of the progress.
Absorbed(p, at, read) ==
  LET fresh    == read.out # <<>>
      finished == Finished(read.verdict, p.opened \/ fresh, p.extent.complete)
      q == [p EXCEPT !.resume    = at,
                     !.consumed  = read.consumed,
                     !.remaining = read.remaining,
                     !.opened    = @ \/ fresh,
                     !.closed    = finished # "None",
                     !.padded    = finished \in {"Decoded", "Marker"}
                                     /\ ~p.extent.complete]
  IN  IF read.verdict = "OutOfRange"
      THEN [progress |-> p, advance |-> [NoAdvance EXCEPT !.panic = TRUE]]
      ELSE IF ~fresh /\ finished = "None" THEN Silent(q)
      ELSE Report(q, read.out, fresh /\ ~p.opened, finished)

\* p has the extent this pass walked.
ReadOn(b, start, p) ==
  LET at == Resume(b, start, p)
  IN  Absorbed(p, at, Decode(Payload(b, at.from, p.extent.last), at.base, p))

DecodePrefix(b, start, p) ==
  LET extent == Extent(b, start, p.extent)
      walked == [p EXCEPT !.extent = extent]
  IN  IF p.closed THEN ClaimPadding(b, start, p)
      ELSE IF extent = NoExtent THEN Silent(p)
      ELSE IF ~extent.complete /\ extent.len > MAX_BATCH_BYTES
           THEN Report([walked EXCEPT !.closed = TRUE], <<>>, FALSE, "Failed")
      ELSE IF extent.len <= p.consumed /\ ~extent.complete THEN Silent(walked)
      ELSE ReadOn(b, start, walked)

\* A closed batch is not kept, and starts over.
ProgressOf_DropsClosed(b, start) ==
  IF start \in DOMAIN b.progress /\ ~b.progress[start].closed
  THEN b.progress[start] ELSE NewProgress

ProgressOf(b, start) ==
  IF start \in DOMAIN b.progress THEN b.progress[start] ELSE NewProgress

Pass(b, start) == DecodePrefix(b, start, ProgressOf(b, start))

\* Every candidate is advanced.  A pass reads the shreds and the progress of
\* its own batch and changes nothing else, so the passes do not interact.
ReadBatches(b, i) ==
  [b EXCEPT !.progress =
     [s \in DOMAIN @ \cup Candidates(b, i) |->
        IF s \in Candidates(b, i) THEN Pass(b, s).progress ELSE @[s]]]

----------------------------------------------------------------------------
\* Gaps below the shred that closes the slot, or below the highest held.
Missing(b) ==
  LET last == IF b.last_index # NoIndex THEN b.last_index
              ELSE Max(Held(b) \cup {NoIndex})
  IN  (0..last) \ Held(b)

----------------------------------------------------------------------------
(* What the fields of a buffer say of one another; Assembler states these   *)
(* of every buffer it holds.                                                *)

StartsRight(b) ==
  b.starts = {0} \cup {i + 1 : i \in {j \in Held(b) : b.shreds[j].complete}}

\* A remembered run is there, and complete says whether it ends the batch.
RunSound(b, start, extent) ==
  extent # NoExtent =>
    /\ extent.last >= start
    /\ Walked(b, start, extent.last)
    /\ extent.complete = b.shreds[extent.last].complete

\* A batch that may still yield something has been walked as far as it goes.
RunReaches(b, p) ==
  ~p.closed \/ p.padded =>
    /\ p.extent # NoExtent
    /\ p.extent.complete \/ p.extent.last + 1 \notin Held(b)
=============================================================================
