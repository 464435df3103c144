--------------------------- MODULE Assembler_proofs ---------------------------
(***************************************************************************)
(* Proofs about the assembler, for every wire -- differing copies of one   *)
(* shred included -- and every value of the budgets, caps and timings:     *)
(* first what storing a shred and reading on keep true of one slot's       *)
(* buffer, its batch starts and the runs it remembers, whatever copy of    *)
(* the shred was held before; then the map of them.                        *)
(*                                                                         *)
(* The second part is about bytes, what the arena holds and what slots     *)
(* cost, which are sums over finite sets: the arena of one buffer, of all  *)
(* of them, the running total and the sweep.                               *)
(*                                                                         *)
(* The third is about entries, where copies agree: what lies where in a    *)
(* batch's bytes, what one pass over its shreds reads and reports, and     *)
(* that this is what EntryStream promises.                                 *)
(***************************************************************************)
EXTENDS Assembler, Ordered_proofs

----------------------------------------------------------------------------
(* The shape of a buffer and of its parts.                                  *)

ProgressShaped(p) ==
  /\ p = [consumed |-> p.consumed, remaining |-> p.remaining, opened |-> p.opened,
          closed |-> p.closed, padded |-> p.padded, extent |-> p.extent,
          resume |-> p.resume]
  /\ p.closed \in BOOLEAN /\ p.padded \in BOOLEAN
  /\ p.extent = [last |-> p.extent.last, complete |-> p.extent.complete,
                 len |-> p.extent.len]
  /\ p.extent.complete \in BOOLEAN
  /\ p.extent # NoExtent => p.extent.last \in Nat

ShredsShaped(b) ==
  /\ Held(b) \subseteq 0..MAX_INDEX
  /\ \A i \in Held(b) :
       /\ b.shreds[i] = [at |-> b.shreds[i].at, len |-> b.shreds[i].len,
                         complete |-> b.shreds[i].complete]
       /\ b.shreds[i].len \in Nat
       /\ b.shreds[i].complete \in BOOLEAN

Shaped(b) ==
  /\ b = [arena |-> b.arena, capacity |-> b.capacity, stale |-> b.stale,
          shreds |-> b.shreds, starts |-> b.starts, progress |-> b.progress,
          last_index |-> b.last_index]
  /\ b.stale \in Nat
  /\ ShredsShaped(b)
  /\ DOMAIN b.progress \subseteq {0} \cup {i + 1 : i \in Held(b)}
  /\ \A s \in DOMAIN b.progress : ProgressShaped(b.progress[s])

\* The invariant of one buffer.  A batch that is not recognised keeps progress
\* from the time it was: only the starts' runs are vouched for.
BufferSound(b) ==
  /\ Shaped(b)
  /\ StartsRight(b)
  /\ \A s \in b.starts \cap DOMAIN b.progress : RunSound(b, s, b.progress[s].extent)

Reaches(b, s) ==
  s \in Held(b) => s \in DOMAIN b.progress /\ RunReaches(b, b.progress[s])

LEMMA NewBufferSound ==
  BufferSound(NewBuffer) /\ \A s \in NewBuffer.starts : Reaches(NewBuffer, s)
BY BufferAssumption DEF BufferSound, Shaped, ShredsShaped, StartsRight, Reaches, NewBuffer, Held

\* Progress whose walk is forgotten, which leaves it in shape.
Forgotten(p) == [p EXCEPT !.extent = NoExtent, !.resume = NoResume]

LEMMA ForgottenShaped ==
  ASSUME NEW p, ProgressShaped(p)
  PROVE  LET q == [p EXCEPT !.extent = NoExtent, !.resume = NoResume] IN
         ProgressShaped(q) /\ q.extent = NoExtent
<1> DEFINE q == [p EXCEPT !.extent = NoExtent, !.resume = NoResume]
<1>1. PICK consumed, remaining, opened, closed, padded, extent, resume :
        p = [consumed |-> consumed, remaining |-> remaining, opened |-> opened,
             closed |-> closed, padded |-> padded, extent |-> extent,
             resume |-> resume]
  BY Zenon DEF ProgressShaped
<1>2. closed \in BOOLEAN /\ padded \in BOOLEAN
  BY <1>1 DEF ProgressShaped
<1> DEFINE none == NoExtent
           nowhere == NoResume
<1> HIDE DEF none, nowhere
<1>3. [p EXCEPT !.extent = none, !.resume = nowhere] =
        [consumed |-> consumed, remaining |-> remaining, opened |-> opened,
         closed |-> closed, padded |-> padded, extent |-> none,
         resume |-> nowhere]
  <2> DEFINE r == [p EXCEPT !.extent = none]
  <2>1. r = [consumed |-> consumed, remaining |-> remaining, opened |-> opened,
             closed |-> closed, padded |-> padded, extent |-> none,
             resume |-> resume]
    BY <1>1
  <2>2. [p EXCEPT !.extent = none, !.resume = nowhere] = [r EXCEPT !.resume = nowhere]
    OBVIOUS
  <2> HIDE DEF r
  <2>3. QED BY <2>1, <2>2
<1>4. q = [consumed |-> consumed, remaining |-> remaining, opened |-> opened,
           closed |-> closed, padded |-> padded, extent |-> NoExtent,
           resume |-> NoResume]
  BY <1>3 DEF none, nowhere
<1> HIDE DEF q
<1>5. q.extent = NoExtent /\ q.closed = closed /\ q.padded = padded
  BY <1>4
<1>6. q = [consumed |-> q.consumed, remaining |-> q.remaining, opened |-> q.opened,
           closed |-> q.closed, padded |-> q.padded, extent |-> q.extent,
           resume |-> q.resume]
  BY <1>4
<1>7. ProgressShaped(q)
  BY <1>2, <1>5, <1>6 DEF ProgressShaped, NoExtent
<1>8. QED BY <1>5, <1>7 DEF q

LEMMA NewProgressShaped == ProgressShaped(NewProgress)
BY DEF ProgressShaped, NewProgress, NoExtent

\* The batch a shred is attributed to is the nearest one begun at or below it.
LEMMA ContainingNearest ==
  ASSUME NEW b, StartsRight(b), ShredsShaped(b), NEW i \in Nat
  PROVE  /\ Containing(b, i) \in b.starts
         /\ Containing(b, i) <= i
         /\ \A s \in b.starts : s <= i => s <= Containing(b, i)
<1> DEFINE S == {s \in b.starts : s <= i}
<1>1. b.starts \subseteq Nat /\ 0 \in b.starts
  BY DEF StartsRight, ShredsShaped
<1>2. S \subseteq -1..i /\ S # {}
  BY <1>1
<1>3. Max(S) \in S /\ \A x \in S : Max(S) >= x
  <2> HIDE DEF S
  <2>1. QED BY <1>2, MaxExists
<1>4. QED BY <1>1, <1>3 DEF Containing

----------------------------------------------------------------------------
(* Walking a run.                                                           *)

\* The walk crosses consecutive shreds only, and stops at a gap or at the
\* shred that closes the batch.
LEMMA RunEndStops ==
  ASSUME NEW b, ShredsShaped(b), NEW from \in Nat
  PROVE  LET last == RunEnd(b, from) IN
         /\ last \in Int /\ last >= from - 1
         /\ Walked(b, from, last)
         /\ last >= from => last \in Held(b)
         /\ last + 1 \in Held(b) => last >= from /\ b.shreds[last].complete
<1> DEFINE S == {from - 1} \cup {i \in Held(b) : i >= from /\ Walked(b, from, i)}
           last == RunEnd(b, from)
<1>1. S \subseteq -1..(MAX_INDEX + from) /\ S # {} /\ MAX_INDEX + from \in Nat
  BY BufferAssumption DEF ShredsShaped
<1>2. Max(S) \in S /\ \A x \in S : Max(S) >= x
  <2> HIDE DEF S
  <2>1. QED BY <1>1, MaxExists
<1>3. last = Max(S)
  BY DEF RunEnd
<1>4. last \in Int /\ last >= from - 1
  BY <1>1, <1>2, <1>3
<1>5. Walked(b, from, last) /\ (last >= from => last \in Held(b))
  BY <1>2, <1>3 DEF Walked
<1>6. ASSUME last + 1 \in Held(b), ~(last >= from /\ b.shreds[last].complete)
      PROVE  FALSE
  <2>1. Walked(b, from, last + 1)
    BY <1>4, <1>5, <1>6 DEF Walked
  <2>2. last + 1 \in S
    BY <1>4, <1>6, <2>1
  <2>3. QED BY <1>2, <1>3, <1>4, <2>2
<1>7. QED BY <1>4, <1>5, <1>6

\* A walk resumed at the frontier of a sound run reaches as far as one begun
\* afresh: its result is sound and ends at a gap or at the terminator.
LEMMA ExtentSound ==
  ASSUME NEW b, ShredsShaped(b), NEW start \in Nat, NEW cached,
         cached = [last |-> cached.last, complete |-> cached.complete,
                   len |-> cached.len],
         cached.complete \in BOOLEAN,
         cached # NoExtent => cached.last \in Nat,
         RunSound(b, start, cached)
  PROVE  LET extent == Extent(b, start, cached) IN
         /\ extent = [last |-> extent.last, complete |-> extent.complete,
                      len |-> extent.len]
         /\ extent.complete \in BOOLEAN
         /\ extent # NoExtent => extent.last \in Nat
         /\ RunSound(b, start, extent)
         /\ start \in Held(b) => extent # NoExtent
         /\ extent # NoExtent => extent.complete \/ extent.last + 1 \notin Held(b)
<1> DEFINE from == Frontier(start, cached)
           last == RunEnd(b, from)
           extent == Extent(b, start, cached)
<1>1. CASE cached.complete
  <2>1. extent = cached
    BY <1>1 DEF Extent
  <2>2. cached # NoExtent
    BY <1>1 DEF NoExtent
  <2>3. QED BY <1>1, <2>1, <2>2
<1>2. CASE ~cached.complete
  <2>1. from \in Nat /\ from >= start
    BY DEF Frontier, RunSound
  <2>2. /\ last \in Int /\ last >= from - 1
        /\ Walked(b, from, last)
        /\ last >= from => last \in Held(b)
        /\ last + 1 \in Held(b) => last >= from /\ b.shreds[last].complete
    BY <2>1, RunEndStops
  <2>3. CASE last < start
    <3>1. extent = NoExtent
      BY <1>2, <2>3 DEF Extent
    <3>2. cached = NoExtent /\ from = start /\ last = start - 1
      BY <2>1, <2>2, <2>3 DEF Frontier, RunSound
    <3>3. start \notin Held(b)
      BY <2>2, <3>2
    <3>4. QED BY <3>1, <3>3 DEF NoExtent, RunSound
  <2>4. CASE last >= start
    <3>1. extent = [last |-> last, complete |-> last >= from /\ b.shreds[last].complete,
                    len |-> cached.len + LenOf(b, from, last)]
      BY <1>2, <2>2, <2>4 DEF Extent
    <3>2. extent.last = last /\ last \in Nat
      BY <2>2, <2>4, <3>1
    <3>3. extent.complete = (last >= from /\ b.shreds[last].complete)
      BY <3>1
    <3>4. extent # NoExtent
      BY <3>2 DEF NoExtent
    <3>5. Walked(b, start, last) /\ extent.complete = b.shreds[last].complete
      <4>1. CASE cached = NoExtent
        <5>1. from = start
          BY <4>1 DEF Frontier
        <5>2. b.shreds[last].complete \in BOOLEAN
          BY <5>1, <2>2, <2>4 DEF ShredsShaped
        <5>3. QED BY <5>1, <5>2, <2>2, <2>4, <3>3
      <4>2. CASE cached # NoExtent
        <5>1. /\ from = cached.last + 1 /\ cached.last \in Nat
              /\ cached.last >= start /\ Walked(b, start, cached.last)
              /\ b.shreds[cached.last].complete = FALSE
          BY <1>2, <4>2 DEF Frontier, RunSound
        <5>2. CASE last = cached.last
          BY <5>1, <5>2, <3>3
        <5>3. CASE last >= from
          <6>1. extent.complete = b.shreds[last].complete
            BY <5>3, <3>3, <2>2 DEF ShredsShaped
          <6>2. Walked(b, start, last)
            BY <5>1, <5>3, <2>2, <3>2 DEF Walked
          <6>3. QED BY <6>1, <6>2
        <5>4. QED BY <5>1, <5>2, <5>3, <2>2
      <4>3. QED BY <4>1, <4>2
    <3>6. RunSound(b, start, extent)
      BY <2>4, <3>2, <3>4, <3>5 DEF RunSound
    <3>7. extent.complete \in BOOLEAN
      BY <3>3, <2>2 DEF ShredsShaped
    <3>8. extent.complete \/ extent.last + 1 \notin Held(b)
      BY <3>2, <3>3, <2>2
    <3>9. QED BY <3>1, <3>2, <3>4, <3>6, <3>7, <3>8
  <2>5. QED BY <2>1, <2>2, <2>3, <2>4
<1>3. QED BY <1>1, <1>2

----------------------------------------------------------------------------
(* Reading on.                                                              *)

\* A pass keeps a batch's progress in shape and its remembered run sound, and
\* leaves no shred of an open batch behind.
LEMMA PassSound ==
  ASSUME NEW b, BufferSound(b), NEW s \in b.starts
  PROVE  LET p == Pass(b, s).progress IN
         /\ ProgressShaped(p)
         /\ RunSound(b, s, p.extent)
         /\ s \in Held(b) => RunReaches(b, p)
<1> DEFINE old == ProgressOf(b, s)
           walk == Extent(b, s, old.extent)
           walked == [old EXCEPT !.extent = walk]
           p == Pass(b, s).progress
<1> SUFFICES /\ ProgressShaped(p)
             /\ RunSound(b, s, p.extent)
             /\ s \in Held(b) => RunReaches(b, p)
  OBVIOUS
<1>1. ProgressShaped(old) /\ RunSound(b, s, old.extent)
  <2>1. CASE s \in DOMAIN b.progress
    BY <2>1 DEF ProgressOf, BufferSound, Shaped
  <2>2. CASE s \notin DOMAIN b.progress
    BY <2>2, NewProgressShaped DEF ProgressOf, NewProgress, RunSound
  <2>3. QED BY <2>1, <2>2
<1>2. s \in Nat /\ ShredsShaped(b)
  BY DEF BufferSound, Shaped, StartsRight, ShredsShaped
<1>3. /\ walk = [last |-> walk.last, complete |-> walk.complete, len |-> walk.len]
      /\ walk.complete \in BOOLEAN
      /\ walk # NoExtent => walk.last \in Nat
      /\ RunSound(b, s, walk)
      /\ s \in Held(b) => walk # NoExtent
      /\ walk # NoExtent => walk.complete \/ walk.last + 1 \notin Held(b)
  BY <1>1, <1>2, ExtentSound DEF ProgressShaped
<1>4. ProgressShaped(walked) /\ walked.extent = walk
      /\ walked.closed = old.closed /\ walked.padded = old.padded
  BY <1>1, <1>3 DEF ProgressShaped
<1>5. p = DecodePrefix(b, s, old).progress
  BY DEF Pass
<1> HIDE DEF old, walk, p
<1>6. CASE old.closed
  <2>1. p = ClaimPadding(b, s, old).progress
    BY <1>5, <1>6 DEF DecodePrefix
  <2>2. CASE ~old.padded \/ old.extent.complete \/ walk = NoExtent
    <3>1. p = old
      BY <2>1, <2>2 DEF ClaimPadding, Silent, walk
    <3>2. s \in Held(b) => RunReaches(b, old)
      BY <1>1, <1>3, <1>6, <2>2 DEF RunReaches, NoExtent
    <3>3. QED BY <1>1, <3>1, <3>2
  <2>3. CASE ~(~old.padded \/ old.extent.complete \/ walk = NoExtent)
    <3>1. p = walked
      BY <2>1, <2>3 DEF ClaimPadding, Silent, Report, walk
    <3>2. QED BY <1>3, <1>4, <2>3, <3>1 DEF RunReaches
  <2>4. QED BY <2>2, <2>3
<1>7. CASE ~old.closed /\ walk = NoExtent
  <2>1. p = old
    BY <1>5, <1>7 DEF DecodePrefix, Silent, walk
  <2>2. QED BY <1>1, <1>3, <1>7, <2>1
<1>8. CASE ~old.closed /\ walk # NoExtent
  <2>1. ProgressShaped(p) /\ p.extent = walk
    <3>1. CASE ~walk.complete /\ walk.len > MAX_BATCH_BYTES
      <4>1. p = [walked EXCEPT !.closed = TRUE]
        BY <1>5, <1>8, <3>1 DEF DecodePrefix, Report, walk
      <4>2. QED BY <4>1, <1>4 DEF ProgressShaped
    <3>2. CASE ~(~walk.complete /\ walk.len > MAX_BATCH_BYTES)
               /\ walk.len <= old.consumed /\ ~walk.complete
      <4>1. p = walked
        BY <1>5, <1>8, <3>2 DEF DecodePrefix, Silent, walk
      <4>2. QED BY <4>1, <1>4
    <3>3. CASE ~(~walk.complete /\ walk.len > MAX_BATCH_BYTES)
               /\ ~(walk.len <= old.consumed /\ ~walk.complete)
      <4>1. p = ReadOn(b, s, walked).progress
        BY <1>5, <1>8, <3>3 DEF DecodePrefix, walk
      <4>2. QED BY <4>1, <1>4 DEF ReadOn, Absorbed, Silent, Report, ProgressShaped
    <3>4. QED BY <3>1, <3>2, <3>3
  <2>2. QED BY <1>3, <1>8, <2>1 DEF RunReaches
<1>9. QED BY <1>6, <1>7, <1>8

\* Advancing the candidates of a shred restores the reach of every start, if
\* the others had it.
LEMMA ReadBatchesSound ==
  ASSUME NEW b, BufferSound(b), NEW i \in Held(b),
         \A s \in b.starts \ Candidates(b, i) : Reaches(b, s)
  PROVE  LET c == ReadBatches(b, i) IN
         /\ BufferSound(c)
         /\ \A s \in c.starts : Reaches(c, s)
<1> DEFINE c == ReadBatches(b, i)
           progress == [s \in DOMAIN b.progress \cup Candidates(b, i) |->
                          IF s \in Candidates(b, i) THEN Pass(b, s).progress
                          ELSE b.progress[s]]
<1>1. Shaped(b) /\ StartsRight(b) /\ ShredsShaped(b) /\ i \in Nat
  BY DEF BufferSound, Shaped, ShredsShaped
<1>2. Candidates(b, i) \subseteq b.starts
  BY <1>1, ContainingNearest DEF Candidates
<1>3. c = [arena |-> b.arena, capacity |-> b.capacity, stale |-> b.stale,
           shreds |-> b.shreds, starts |-> b.starts, progress |-> progress,
           last_index |-> b.last_index]
  BY <1>1 DEF ReadBatches, Shaped
<1>4. \A s \in Candidates(b, i) :
        /\ ProgressShaped(progress[s])
        /\ RunSound(b, s, progress[s].extent)
        /\ s \in Held(b) => RunReaches(b, progress[s])
  BY <1>2, PassSound
<1>5. \A s \in DOMAIN b.progress \ Candidates(b, i) : progress[s] = b.progress[s]
  OBVIOUS
<1>6. DOMAIN progress = DOMAIN b.progress \cup Candidates(b, i)
  OBVIOUS
<1> HIDE DEF progress, c
<1>7. Held(c) = Held(b) /\ c.shreds = b.shreds /\ c.starts = b.starts
      /\ c.progress = progress
  BY <1>3 DEF Held
<1>8. \A s, e : RunSound(b, s, e) <=> RunSound(c, s, e)
  BY <1>7 DEF RunSound, Walked
<1>9. \A p : RunReaches(b, p) <=> RunReaches(c, p)
  BY <1>7 DEF RunReaches
<1>10. Shaped(c)
  <2>1. ShredsShaped(c) /\ c.stale \in Nat
    BY <1>1, <1>3, <1>7 DEF ShredsShaped, Shaped
  <2>2. DOMAIN progress \subseteq {0} \cup {j + 1 : j \in Held(b)}
    BY <1>1, <1>2, <1>6 DEF Shaped, StartsRight
  <2>3. \A s \in DOMAIN progress : ProgressShaped(progress[s])
    BY <1>1, <1>4, <1>5, <1>6 DEF Shaped
  <2>4. QED BY <1>3, <1>7, <2>1, <2>2, <2>3 DEF Shaped
<1>11. StartsRight(c)
  BY <1>1, <1>7 DEF StartsRight
<1>12. \A s \in c.starts \cap DOMAIN c.progress : RunSound(c, s, c.progress[s].extent)
  BY <1>4, <1>5, <1>6, <1>7, <1>8 DEF BufferSound
<1>13. \A s \in c.starts : Reaches(c, s)
  BY <1>4, <1>5, <1>6, <1>7, <1>9 DEF Reaches
<1>14. QED BY <1>10, <1>11, <1>12, <1>13 DEF BufferSound, c

----------------------------------------------------------------------------
(* Storing a shred.                                                         *)

\* Making room moves bytes around and nothing else.
LEMMA StoreKeeps ==
  ASSUME NEW b, Shaped(b), NEW data
  PROVE  LET c == Store(b, data) IN
         /\ c = [arena |-> c.arena, capacity |-> c.capacity, stale |-> c.stale,
                 shreds |-> c.shreds, starts |-> b.starts, progress |-> b.progress,
                 last_index |-> b.last_index]
         /\ c.stale \in Nat
         /\ Held(c) = Held(b)
         /\ ShredsShaped(c)
         /\ \A i \in Held(b) : /\ c.shreds[i].len = b.shreds[i].len
                               /\ c.shreds[i].complete = b.shreds[i].complete
<1> DEFINE room == IF CompactDue(b) THEN Compact(b) ELSE b
           c == Store(b, data)
<1>1. /\ room = [arena |-> room.arena, capacity |-> room.capacity,
                 stale |-> room.stale, shreds |-> room.shreds,
                 starts |-> b.starts, progress |-> b.progress,
                 last_index |-> b.last_index]
      /\ room.stale \in Nat
      /\ Held(room) = Held(b)
      /\ \A i \in Held(b) :
           /\ room.shreds[i] = [at |-> room.shreds[i].at, len |-> b.shreds[i].len,
                                complete |-> b.shreds[i].complete]
  <2>1. CASE ~CompactDue(b)
    BY <2>1 DEF Shaped, ShredsShaped
  <2>2. CASE CompactDue(b)
    <3>1. room = Compact(b)
      BY <2>2
    <3>2. room = [arena |-> room.arena, capacity |-> Live(b), stale |-> 0,
                  shreds |-> [i \in Held(b) |-> [b.shreds[i] EXCEPT !.at = Relocated(b, i)]],
                  starts |-> b.starts, progress |-> b.progress,
                  last_index |-> b.last_index]
      BY <3>1 DEF Compact, Shaped
    <3> HIDE DEF room
    <3>3. QED BY <3>2 DEF Held, Shaped, ShredsShaped
  <2>3. QED BY <2>1, <2>2
<1>2. c = [room EXCEPT !.arena    = @ \o data,
                       !.capacity = Grown(@, Len(room.arena) + Len(data))]
  BY DEF Store
<1>3. PICK arena, capacity, stale, shreds :
        room = [arena |-> arena, capacity |-> capacity, stale |-> stale,
                shreds |-> shreds, starts |-> b.starts, progress |-> b.progress,
                last_index |-> b.last_index]
  BY <1>1, Zenon
<1>4. /\ stale \in Nat
      /\ DOMAIN shreds = Held(b)
      /\ \A i \in Held(b) :
           shreds[i] = [at |-> shreds[i].at, len |-> b.shreds[i].len,
                        complete |-> b.shreds[i].complete]
  <2> HIDE DEF room
  <2>1. room.stale = stale /\ room.shreds = shreds
    BY <1>3
  <2>2. QED BY <1>1, <2>1 DEF Held
<1> HIDE DEF room, c
<1>5. c = [arena |-> arena \o data,
           capacity |-> Grown(capacity, Len(arena) + Len(data)), stale |-> stale,
           shreds |-> shreds, starts |-> b.starts, progress |-> b.progress,
           last_index |-> b.last_index]
  BY <1>2, <1>3
<1>6. c.shreds = shreds /\ Held(c) = Held(b) /\ c.stale = stale
  BY <1>4, <1>5 DEF Held
<1>7. \A i \in Held(b) : /\ shreds[i].len = b.shreds[i].len
                        /\ shreds[i].complete = b.shreds[i].complete
  BY <1>4
<1>8. ShredsShaped(c)
  <2>1. SUFFICES ASSUME NEW i \in Held(b)
                 PROVE  /\ shreds[i] = [at |-> shreds[i].at, len |-> shreds[i].len,
                                        complete |-> shreds[i].complete]
                        /\ shreds[i].len \in Nat
                        /\ shreds[i].complete \in BOOLEAN
    BY <1>6 DEF ShredsShaped, Shaped
  <2>2. b.shreds[i].len \in Nat /\ b.shreds[i].complete \in BOOLEAN
    BY DEF Shaped, ShredsShaped
  <2>3. QED BY <1>4, <1>7, <2>2
<1>9. c = [arena |-> c.arena, capacity |-> c.capacity, stale |-> c.stale,
           shreds |-> c.shreds, starts |-> b.starts, progress |-> b.progress,
           last_index |-> b.last_index]
  BY <1>5
<1>10. QED BY <1>4, <1>6, <1>7, <1>8, <1>9 DEF c

\* What an insert leaves: the shred in place of any earlier copy, the starts
\* that copy and this one speak for, and progress that differs from before
\* only by the runs forgotten when a copy was displaced.
LEMMA InsertShape ==
  ASSUME NEW b, Shaped(b), NEW i \in 0..MAX_INDEX, NEW data, Len(data) \in Nat,
         NEW complete \in BOOLEAN
  PROVE  LET c == Insert(b, i, data, complete) IN
         /\ Shaped(c)
         /\ c.last_index = b.last_index
         /\ Held(c) = Held(b) \cup {i}
         /\ c.shreds[i].complete = complete
         /\ \A j \in Held(b) \ {i} : c.shreds[j].complete = b.shreds[j].complete
         /\ c.starts = (b.starts \ Reopened(b, i, complete))
                         \cup (IF complete THEN {i + 1} ELSE {})
         /\ DOMAIN c.progress = DOMAIN b.progress
         /\ \A s \in DOMAIN b.progress :
              c.progress[s] # b.progress[s] =>
                s \in Candidates(c, i) /\ c.progress[s].extent = NoExtent
         /\ i \in Held(b) =>
              \A s \in DOMAIN b.progress \cap Candidates(c, i) :
                c.progress[s].extent = NoExtent
         /\ \A s \in DOMAIN b.progress :
              c.progress[s] \in {b.progress[s], Forgotten(b.progress[s])}
<1> DEFINE stored == Store(b, data)
           cell   == [at |-> Len(stored.arena) - Len(data), len |-> Len(data),
                      complete |-> complete]
           starts == (b.starts \ Reopened(b, i, complete))
                       \cup (IF complete THEN {i + 1} ELSE {})
           put == [stored EXCEPT !.shreds = Put(@, i, cell),
                                 !.stale  = @ + Displaced(b, i),
                                 !.starts = (@ \ Reopened(b, i, complete))
                                              \cup (IF complete THEN {i + 1} ELSE {})]
           c == Insert(b, i, data, complete)
<1>1. /\ stored = [arena |-> stored.arena, capacity |-> stored.capacity,
                   stale |-> stored.stale, shreds |-> stored.shreds,
                   starts |-> b.starts, progress |-> b.progress,
                   last_index |-> b.last_index]
      /\ stored.stale \in Nat
      /\ Held(stored) = Held(b)
      /\ ShredsShaped(stored)
      /\ \A j \in Held(b) : stored.shreds[j].complete = b.shreds[j].complete
  BY StoreKeeps
<1>2. c = IF i \in Held(b) THEN Invalidate(put, i) ELSE put
  BY DEF Insert
<1>3. Displaced(b, i) \in Nat
  BY DEF Displaced, Shaped, ShredsShaped
<1> HIDE DEF stored, c
<1>4. PICK arena, capacity, stale, shreds :
        stored = [arena |-> arena, capacity |-> capacity, stale |-> stale,
                  shreds |-> shreds, starts |-> b.starts,
                  progress |-> b.progress, last_index |-> b.last_index]
  BY <1>1, Zenon
<1>5. stored.stale = stale /\ stored.shreds = shreds
  BY <1>4
<1> HIDE DEF cell
<1>6. put = [arena |-> arena, capacity |-> capacity,
             stale |-> stale + Displaced(b, i), shreds |-> Put(shreds, i, cell),
             starts |-> starts, progress |-> b.progress, last_index |-> b.last_index]
  <2> DEFINE moved == stale + Displaced(b, i)
             cells == Put(shreds, i, cell)
  <2>1. put = [stored EXCEPT !.shreds = cells, !.stale = moved, !.starts = starts]
    <3>1. stored.starts = b.starts
      BY <1>4
    <3>2. QED BY <1>5, <3>1
  <2> HIDE DEF moved, cells, put, starts
  <2>2. put = [arena |-> arena, capacity |-> capacity, stale |-> moved,
               shreds |-> cells, starts |-> starts, progress |-> b.progress,
               last_index |-> b.last_index]
    BY <1>4, <2>1
  <2>3. QED BY <2>2 DEF moved, cells
<1> DEFINE forgotten == [s \in DOMAIN b.progress |->
                           IF s \in Candidates(put, i)
                           THEN [b.progress[s] EXCEPT !.extent = NoExtent,
                                                      !.resume = NoResume]
                           ELSE b.progress[s]]
           progress == IF i \in Held(b) THEN forgotten ELSE b.progress
<1> HIDE DEF put, starts
<1>7. c = [arena |-> arena, capacity |-> capacity,
           stale |-> stale + Displaced(b, i), shreds |-> Put(shreds, i, cell),
           starts |-> starts, progress |-> progress, last_index |-> b.last_index]
  <2>1. CASE i \in Held(b)
    <3>1. c = [put EXCEPT !.progress = forgotten]
      BY <1>2, <1>6, <2>1 DEF Invalidate
    <3> HIDE DEF forgotten
    <3>2. QED BY <3>1, <1>6, <2>1
  <2>2. CASE i \notin Held(b)
    BY <1>2, <1>6, <2>2
  <2>3. QED BY <2>1, <2>2
<1>8. Candidates(c, i) = Candidates(put, i)
  <2>1. c.starts = starts /\ put.starts = starts
    BY <1>6, <1>7
  <2>2. QED BY <2>1 DEF Candidates, Containing
<1> HIDE DEF forgotten
<1>9. /\ c.shreds = Put(shreds, i, cell) /\ c.stale = stale + Displaced(b, i)
      /\ c.starts = starts /\ c.last_index = b.last_index
      /\ c.progress = progress
  <2> HIDE DEF progress
  <2>1. QED BY <1>7
<1>10. /\ Held(c) = Held(b) \cup {i}
       /\ c.shreds[i] = cell
       /\ \A j \in Held(b) \ {i} : c.shreds[j] = shreds[j]
  <2>1. DOMAIN shreds = Held(b)
    BY <1>1, <1>5 DEF Held
  <2>2. QED BY <2>1, <1>9 DEF Held, Put
<1>11. ShredsShaped(c)
  <2>1. Held(c) \subseteq 0..MAX_INDEX
    BY <1>10 DEF Shaped, ShredsShaped
  <2>2. /\ cell = [at |-> cell.at, len |-> cell.len, complete |-> cell.complete]
        /\ cell.len \in Nat /\ cell.complete \in BOOLEAN
    BY DEF cell
  <2>3. \A j \in Held(b) :
          /\ shreds[j] = [at |-> shreds[j].at, len |-> shreds[j].len,
                          complete |-> shreds[j].complete]
          /\ shreds[j].len \in Nat /\ shreds[j].complete \in BOOLEAN
    BY <1>1, <1>5 DEF ShredsShaped
  <2>4. QED BY <1>10, <2>1, <2>2, <2>3 DEF ShredsShaped
<1>12. /\ DOMAIN progress = DOMAIN b.progress
       /\ \A s \in DOMAIN b.progress :
            /\ ProgressShaped(progress[s])
            /\ progress[s] # b.progress[s] =>
                 s \in Candidates(c, i) /\ progress[s].extent = NoExtent
            /\ i \in Held(b) /\ s \in Candidates(c, i) => progress[s].extent = NoExtent
            /\ progress[s] \in {b.progress[s], Forgotten(b.progress[s])}
  <2>1. \A s \in DOMAIN b.progress : ProgressShaped(b.progress[s])
    BY DEF Shaped
  <2>2. CASE i \in Held(b)
    <3>1. progress = forgotten
      BY <2>2
    <3>2. DOMAIN forgotten = DOMAIN b.progress
      BY DEF forgotten
    <3>3. ASSUME NEW s \in DOMAIN b.progress
          PROVE  /\ ProgressShaped(forgotten[s])
                 /\ forgotten[s] # b.progress[s] =>
                      s \in Candidates(put, i) /\ forgotten[s].extent = NoExtent
                 /\ s \in Candidates(put, i) => forgotten[s].extent = NoExtent
                 /\ forgotten[s] \in {b.progress[s], Forgotten(b.progress[s])}
      <4>1. CASE s \in Candidates(put, i)
        <5>1. forgotten[s] = [b.progress[s] EXCEPT !.extent = NoExtent,
                                                  !.resume = NoResume]
          BY <4>1 DEF forgotten
        <5>2. forgotten[s] = Forgotten(b.progress[s])
          BY <5>1 DEF Forgotten
        <5>3. QED BY <2>1, <4>1, <5>1, <5>2, ForgottenShaped
      <4>2. CASE s \notin Candidates(put, i)
        BY <2>1, <4>2 DEF forgotten
      <4>3. QED BY <4>1, <4>2
    <3>4. QED BY <1>8, <2>2, <3>1, <3>2, <3>3
  <2>3. CASE i \notin Held(b)
    BY <2>1, <2>3
  <2>4. QED BY <2>2, <2>3
<1> HIDE DEF progress
<1>13. Shaped(c)
  <2>1. c.stale \in Nat
    BY <1>1, <1>3, <1>5, <1>9
  <2>2. DOMAIN c.progress \subseteq {0} \cup {j + 1 : j \in Held(c)}
    BY <1>9, <1>10, <1>12 DEF Shaped
  <2>3. c = [arena |-> c.arena, capacity |-> c.capacity, stale |-> c.stale,
             shreds |-> c.shreds, starts |-> c.starts, progress |-> c.progress,
             last_index |-> c.last_index]
    BY <1>7
  <2>4. QED BY <1>9, <1>11, <1>12, <2>1, <2>2, <2>3 DEF Shaped
<1>14. c.shreds[i].complete = complete
  BY <1>10 DEF cell
<1>15. \A j \in Held(b) \ {i} : c.shreds[j].complete = b.shreds[j].complete
  BY <1>1, <1>5, <1>10
<1>16. QED BY <1>9, <1>10, <1>12, <1>13, <1>14, <1>15 DEF starts, c

\* An insert keeps the starts exact and every remembered run sound, and no
\* shred is left behind except, perhaps, by the candidates read on next.
LEMMA InsertSound ==
  ASSUME NEW b, BufferSound(b), \A s \in b.starts : Reaches(b, s),
         NEW i \in 0..MAX_INDEX, NEW data, Len(data) \in Nat,
         NEW complete \in BOOLEAN
  PROVE  LET c == Insert(b, i, data, complete) IN
         /\ BufferSound(c)
         /\ i \in Held(c)
         /\ \A s \in c.starts \ Candidates(c, i) : Reaches(c, s)
<1> DEFINE c == Insert(b, i, data, complete)
<1>1. /\ Shaped(c)
      /\ Held(c) = Held(b) \cup {i}
      /\ c.shreds[i].complete = complete
      /\ \A j \in Held(b) \ {i} : c.shreds[j].complete = b.shreds[j].complete
      /\ c.starts = (b.starts \ Reopened(b, i, complete))
                      \cup (IF complete THEN {i + 1} ELSE {})
      /\ DOMAIN c.progress = DOMAIN b.progress
      /\ \A s \in DOMAIN b.progress :
           c.progress[s] # b.progress[s] =>
             s \in Candidates(c, i) /\ c.progress[s].extent = NoExtent
      /\ i \in Held(b) =>
           \A s \in DOMAIN b.progress \cap Candidates(c, i) :
             c.progress[s].extent = NoExtent
  BY InsertShape DEF BufferSound
<1> HIDE DEF c
<1>2. /\ ShredsShaped(b) /\ ShredsShaped(c) /\ i \in Nat
      /\ Held(b) \subseteq Nat /\ Held(c) \subseteq Nat
  BY <1>1 DEF BufferSound, Shaped, ShredsShaped
<1>3. StartsRight(c)
  <2>1. b.starts = {0} \cup {j + 1 : j \in {k \in Held(b) : b.shreds[k].complete}}
    BY DEF BufferSound, StartsRight
  <2>2. Reopened(b, i, complete) =
          IF i \in Held(b) /\ b.shreds[i].complete /\ ~complete THEN {i + 1} ELSE {}
    BY DEF Reopened
  <2>3. ASSUME NEW s \in Int
        PROVE  s \in c.starts <=>
                 s = 0 \/ \E j \in Held(c) : c.shreds[j].complete /\ s = j + 1
    <3>1. s \in b.starts <=>
            s = 0 \/ \E j \in Held(b) : b.shreds[j].complete /\ s = j + 1
      BY <2>1
    <3>2. CASE s = i + 1
      <4>1. s # 0 /\ \A j \in Held(c) : s = j + 1 => j = i
        BY <1>2, <3>2
      <4>2. s \in c.starts <=> complete
        <5>1. CASE complete BY <5>1, <1>1, <3>2
        <5>2. CASE ~complete
          <6>1. s \notin b.starts \/ s \in Reopened(b, i, complete)
            BY <1>1, <1>2, <2>2, <3>1, <3>2, <5>2
          <6>2. QED BY <1>1, <5>2, <6>1
        <5>3. QED BY <5>1, <5>2
      <4>3. QED BY <1>1, <3>2, <4>1, <4>2
    <3>3. CASE s # i + 1
      <4>1. s \in c.starts <=> s \in b.starts
        BY <1>1, <2>2, <3>3
      <4>2. \A j : s = j + 1 /\ j \in Held(c) => j \in Held(b) \ {i}
        BY <1>1, <3>3
      <4>3. QED BY <1>1, <3>1, <4>1, <4>2
    <3>4. QED BY <3>2, <3>3
  <2>4. c.starts \subseteq Int
    BY <1>1, <1>2, <2>1
  <2>5. {j + 1 : j \in {k \in Held(c) : c.shreds[k].complete}} \subseteq Int
    BY <1>2
  <2>6. c.starts = {0} \cup {j + 1 : j \in {k \in Held(c) : c.shreds[k].complete}}
    <3> DEFINE ends == {k \in Held(c) : c.shreds[k].complete}
               after == {j + 1 : j \in ends}
    <3>1. \A s \in Int : s \in after <=> \E j \in Held(c) : c.shreds[j].complete /\ s = j + 1
      OBVIOUS
    <3>2. after \subseteq Int
      BY <2>5
    <3> HIDE DEF after
    <3>3. \A s \in Int : s \in c.starts <=> s \in {0} \cup after
      BY <2>3, <3>1
    <3>4. c.starts = {0} \cup after
      <4>1. c.starts \subseteq Int /\ {0} \cup after \subseteq Int
        BY <2>4, <3>2
      <4>2. QED BY <3>3, <4>1, Zenon
    <3>5. QED BY <3>4 DEF after
  <2>7. QED BY <2>6 DEF StartsRight
<1>4. /\ Containing(c, i) \in c.starts /\ Containing(c, i) <= i
      /\ \A s \in c.starts : s <= i => s <= Containing(c, i)
  BY <1>2, <1>3, ContainingNearest
<1>5. c.starts \subseteq Nat /\ c.starts \ {i + 1} \subseteq b.starts
  BY <1>1, <1>2, <1>3 DEF StartsRight
\* A batch other than the candidates ends before the shred.
<1>6. ASSUME NEW s \in (c.starts \ Candidates(c, i)) \cap DOMAIN b.progress,
             b.progress[s].extent # NoExtent
      PROVE  /\ i \notin s..b.progress[s].extent.last
             /\ ~b.progress[s].extent.complete => b.progress[s].extent.last + 1 # i
  <2> DEFINE e == b.progress[s].extent
             near == Containing(c, i)
  <2>1. s \in b.starts /\ s \in Nat
    BY <1>5 DEF Candidates
  <2>2. /\ e.last >= s /\ Walked(b, s, e.last)
        /\ e.complete = b.shreds[e.last].complete /\ e.last \in Nat
    BY <1>6, <2>1 DEF BufferSound, RunSound, Shaped, ProgressShaped
  <2>3. SUFFICES ASSUME i \in s..e.last \/ (~e.complete /\ e.last + 1 = i)
                 PROVE  FALSE
    BY <1>2
  <2>4. s <= i
    BY <2>1, <2>2, <2>3
  <2>5. near \in Nat /\ near > s /\ near <= i
    BY <1>4, <1>5, <2>4 DEF Candidates
  <2>6. near - 1 \in Held(c) /\ c.shreds[near - 1].complete
    <3>1. PICK j \in Held(c) : c.shreds[j].complete /\ near = j + 1
      BY <1>3, <1>4, <2>1, <2>5 DEF StartsRight
    <3>2. near - 1 = j
      BY <1>2, <3>1
    <3>3. QED BY <3>1, <3>2
  <2>7. near - 1 \in Held(b) /\ b.shreds[near - 1].complete
    BY <1>1, <2>5, <2>6
  <2>8. near - 1 \in s..e.last
    BY <2>1, <2>2, <2>3, <2>5
  <2>9. near - 1 = e.last
    BY <2>2, <2>5, <2>7, <2>8 DEF Walked
  <2>10. i \notin s..e.last /\ e.complete
    BY <2>1, <2>2, <2>5, <2>7, <2>9
  <2>11. QED BY <2>3, <2>10
<1>7. ASSUME NEW s \in c.starts \cap DOMAIN c.progress
      PROVE  RunSound(c, s, c.progress[s].extent)
  <2>1. CASE c.progress[s].extent = NoExtent
    BY <2>1 DEF RunSound
  <2>2. CASE c.progress[s].extent # NoExtent
    <3>1. s \in DOMAIN b.progress /\ c.progress[s] = b.progress[s]
      BY <1>1, <2>2
    <3>2. s \in b.starts
      <4>1. CASE s = i + 1
        <5>1. i \in Held(b)
          BY <1>2, <3>1, <4>1 DEF BufferSound, Shaped
        <5>2. s \in Candidates(c, i)
          BY <4>1 DEF Candidates
        <5>3. QED BY <1>1, <2>2, <3>1, <5>1, <5>2
      <4>2. CASE s # i + 1
        BY <1>5, <4>2
      <4>3. QED BY <4>1, <4>2
    <3> DEFINE e == b.progress[s].extent
    <3>3. /\ e # NoExtent /\ e.last >= s /\ e.last \in Nat /\ Walked(b, s, e.last)
          /\ e.complete = b.shreds[e.last].complete
      BY <2>2, <3>1, <3>2 DEF BufferSound, RunSound, Shaped, ProgressShaped
    <3>4. i \notin s..e.last
      <4>1. CASE s \in Candidates(c, i)
        BY <1>1, <2>2, <3>1, <3>3, <4>1 DEF Walked
      <4>2. CASE s \notin Candidates(c, i)
        BY <1>6, <3>1, <3>3, <4>2
      <4>3. QED BY <4>1, <4>2
    <3>5. e.last \in s..e.last
      BY <1>5, <3>3
    <3>6. \A j \in s..e.last : j \in Held(b) \ {i}
      BY <3>3, <3>4 DEF Walked
    <3>7. \A j \in s..e.last : j \in Held(c) /\ c.shreds[j].complete = b.shreds[j].complete
      BY <1>1, <3>6
    <3>8. Walked(c, s, e.last) /\ e.complete = c.shreds[e.last].complete
      BY <3>3, <3>5, <3>7 DEF Walked
    <3>9. QED BY <3>1, <3>3, <3>8 DEF RunSound
  <2>3. QED BY <2>1, <2>2
<1>8. ASSUME NEW s \in c.starts \ Candidates(c, i), s \in Held(c)
      PROVE  s \in DOMAIN c.progress /\ RunReaches(c, c.progress[s])
  <2>1. s # i /\ s # i + 1 /\ s \in b.starts
    <3>1. s # i + 1
      BY <1>8 DEF Candidates
    <3>2. s # i
      BY <1>4, <1>5, <1>8 DEF Candidates
    <3>3. QED BY <1>5, <3>1, <3>2
  <2>2. s \in DOMAIN b.progress /\ RunReaches(b, b.progress[s])
    BY <1>1, <1>8, <2>1 DEF Reaches
  <2>3. c.progress[s] = b.progress[s]
    BY <1>1, <1>8, <2>2
  <2> DEFINE p == b.progress[s]
  <2>4. CASE ~(~p.closed \/ p.padded)
    BY <1>1, <2>2, <2>3, <2>4 DEF RunReaches
  <2>5. CASE ~p.closed \/ p.padded
    <3>1. /\ p.extent # NoExtent
          /\ p.extent.complete \/ p.extent.last + 1 \notin Held(b)
      BY <2>2, <2>5 DEF RunReaches
    <3>2. ~p.extent.complete => p.extent.last + 1 # i
      BY <1>6, <1>8, <2>2, <3>1
    <3>3. QED BY <1>1, <2>2, <2>3, <3>1, <3>2 DEF RunReaches
  <2>6. QED BY <2>4, <2>5
<1>9. QED BY <1>1, <1>3, <1>7, <1>8 DEF BufferSound, Reaches, c

----------------------------------------------------------------------------
(* The inductive invariant.                                                 *)

\* A buffer between two calls: sound, with nothing left to read.
Settled(b) == BufferSound(b) /\ \A s \in b.starts : Reaches(b, s)

MapSound(m) ==
  /\ m = [entries |-> m.entries, since |-> m.since]
  /\ m.since \in 0..SWEEP_INTERVAL
  /\ \A slot \in Keys(m) : /\ m.entries[slot].age \in 0..RETENTION
                           /\ Settled(m.entries[slot].value)

HistoriesSound(m) == DOMAIN copies \subseteq Keys(m) /\ DOMAIN handed = DOMAIN copies

\* TypeOK says nothing of the shreds and the progress inside a buffer, which
\* every later walk depends on: the induction carries MapSound instead.
AssemblerInv ==
  /\ wire \in Wires
  /\ duplicates \in Nat
  /\ panicked \in BOOLEAN
  /\ MapSound(slots)
  /\ HistoriesSound(slots)

LEMMA AssemblerInvImplies ==
  AssemblerInv => TypeOK /\ StartsExact /\ RunsSound /\ RunsReach
<1> SUFFICES ASSUME AssemblerInv PROVE TypeOK /\ StartsExact /\ RunsSound /\ RunsReach
  OBVIOUS
<1>1. ASSUME NEW slot \in Keys(slots)
      PROVE  /\ slots.entries[slot].age \in 0..RETENTION
             /\ Settled(Buffer(slot))
  BY DEF AssemblerInv, MapSound, Buffer
<1>2. ASSUME NEW slot \in Keys(slots)
      PROVE  /\ Buffer(slot).stale \in Nat
             /\ Buffer(slot).starts \subseteq Nat
             /\ Held(Buffer(slot)) \subseteq 0..MAX_INDEX
             /\ DOMAIN Buffer(slot).progress \subseteq Nat
  <2>1. Shaped(Buffer(slot)) /\ StartsRight(Buffer(slot))
    BY <1>1 DEF Settled, BufferSound
  <2>2. Held(Buffer(slot)) \subseteq 0..MAX_INDEX
    BY <2>1 DEF Shaped, ShredsShaped
  <2>3. \A j \in Held(Buffer(slot)) : j + 1 \in Nat
    BY <2>2
  <2>4. QED BY <2>1, <2>2, <2>3 DEF Shaped, StartsRight
<1>3. TypeOK
  BY <1>1, <1>2 DEF TypeOK, AssemblerInv, MapSound, HistoriesSound
<1>4. StartsExact
  BY <1>1 DEF StartsExact, Settled, BufferSound
<1>5. RunsSound
  BY <1>1 DEF RunsSound, Settled, BufferSound
<1>6. RunsReach
  BY <1>1 DEF RunsReach, Settled, Reaches
<1>7. QED BY <1>3, <1>4, <1>5, <1>6

----------------------------------------------------------------------------
(* The aged map under a call.                                               *)

\* A count that stops growing at its cap.
LEMMA Capped ==
  \A n \in Nat, cap \in Nat : Min({n, cap}) \in 0..cap
<1> SUFFICES ASSUME NEW n \in Nat, NEW cap \in Nat PROVE Min({n, cap}) \in 0..cap
  OBVIOUS
<1>1. Min({n, cap}) \in {n, cap} /\ Min({n, cap}) <= cap
  BY MinOfTwo
<1>2. QED BY <1>1

\* Time passing ages the entries and leaves their buffers.
LEMMA ElapsedSound ==
  ASSUME NEW m, MapSound(m), NEW dt \in Nat
  PROVE  MapSound(Elapsed(m, dt, RETENTION)) /\ Keys(Elapsed(m, dt, RETENTION)) = Keys(m)
<1> DEFINE later == Elapsed(m, dt, RETENTION)
<1>1. RETENTION \in Nat /\ SWEEP_INTERVAL \in Nat
  BY AssemblerAssumption, SweepIntervalAssumption
<1>2. Keys(later) = Keys(m)
  BY DEF Elapsed, Keys
<1>3. later.since \in 0..SWEEP_INTERVAL
  <2>1. later.since = Min({m.since + dt, SWEEP_INTERVAL})
    BY DEF Elapsed
  <2>2. m.since + dt \in Nat
    BY <1>1 DEF MapSound
  <2>3. QED BY <1>1, <2>1, <2>2, Capped
<1>4. ASSUME NEW slot \in Keys(m)
      PROVE  /\ later.entries[slot].age \in 0..RETENTION
             /\ later.entries[slot].value = m.entries[slot].value
  <2>1. later.entries[slot] = [age   |-> Min({m.entries[slot].age + dt, RETENTION}),
                               value |-> m.entries[slot].value]
    BY DEF Elapsed
  <2>2. m.entries[slot].age + dt \in Nat
    BY <1>1 DEF MapSound
  <2>3. Min({m.entries[slot].age + dt, RETENTION}) \in 0..RETENTION
    BY <1>1, <2>2, Capped
  <2>4. QED BY <2>1, <2>3
<1>5. later = [entries |-> later.entries, since |-> later.since]
  BY DEF Elapsed
<1>6. QED BY <1>2, <1>3, <1>4, <1>5 DEF MapSound

\* A sweep only takes entries away.
LEMMA SweptSound ==
  ASSUME MapSound(slots), NEW dt \in Nat
  PROVE  MapSound(Swept(dt)) /\ Keys(Swept(dt)) \subseteq Keys(slots)
<1> DEFINE now == Now(dt)
           kept == {k \in Keys(now) : k \notin Dropped(now, RETENTION, MAX_BUFFERED_SLOTS)}
<1>1. MapSound(now) /\ Keys(now) = Keys(slots)
  BY ElapsedSound DEF Now
<1>2. CASE ~SweepDue(now, MAX_BUFFERED_SLOTS)
  BY <1>1, <1>2 DEF Swept, Sweep
<1>3. CASE SweepDue(now, MAX_BUFFERED_SLOTS)
  <2>1. Swept(dt) = [entries |-> [k \in kept |-> now.entries[k]], since |-> 0]
    BY <1>3 DEF Swept, Sweep, RestrictDomain, Restrict, Keys
  <2> HIDE DEF now, kept
  <2>2. Keys(Swept(dt)) = kept /\ \A k \in kept : Swept(dt).entries[k] = now.entries[k]
    BY <2>1 DEF Keys
  <2>3. Swept(dt).since \in 0..SWEEP_INTERVAL
    BY <2>1, SweepIntervalAssumption
  <2>4. Swept(dt) = [entries |-> Swept(dt).entries, since |-> Swept(dt).since]
    BY <2>1
  <2>5. kept \subseteq Keys(now)
    BY DEF kept
  <2>6. QED BY <1>1, <2>2, <2>3, <2>4, <2>5 DEF MapSound
<1>4. QED BY <1>2, <1>3

\* A touched entry is fresh and holds what the caller made of it.
LEMMA UpsertSound ==
  ASSUME NEW m, MapSound(m), NEW slot, NEW b, Settled(b)
  PROVE  MapSound(Upsert(m, slot, b)) /\ Keys(Upsert(m, slot, b)) = Keys(m) \cup {slot}
<1> DEFINE n == Upsert(m, slot, b)
<1>1. /\ Keys(n) = Keys(m) \cup {slot}
      /\ n.since = m.since
      /\ n = [entries |-> n.entries, since |-> n.since]
  BY DEF Upsert, Keys
<1>2. ASSUME NEW k \in Keys(n)
      PROVE  n.entries[k] = IF k = slot THEN [age |-> 0, value |-> b] ELSE m.entries[k]
  BY <1>1 DEF Upsert, Keys
<1>3. ASSUME NEW k \in Keys(n)
      PROVE  n.entries[k].age \in 0..RETENTION /\ Settled(n.entries[k].value)
  <2> HIDE DEF n
  <2>1. CASE k = slot
    <3>1. n.entries[k].age = 0 /\ n.entries[k].value = b
      BY <1>2, <2>1
    <3>2. QED BY <3>1, AssemblerAssumption
  <2>2. CASE k # slot
    BY <1>1, <1>2, <2>2 DEF MapSound
  <2>3. QED BY <2>1, <2>2
<1> HIDE DEF n
<1>4. QED BY <1>1, <1>3 DEF MapSound, n

\* The buffer a call finds or creates has nothing left to read.
LEMMA BufferOfSettled ==
  ASSUME NEW m, MapSound(m), NEW slot
  PROVE  Settled(BufferOf(m, slot))
BY NewBufferSound DEF BufferOf, ValueOf, MapSound, Settled

----------------------------------------------------------------------------
(* The buffer under a call.                                                 *)

\* Learning which shred closes the slot changes nothing of its batches.
LEMMA ClosingSettled ==
  ASSUME NEW b, Settled(b), NEW index
  PROVE  Settled([b EXCEPT !.last_index = index])
<1> DEFINE c == [b EXCEPT !.last_index = index]
<1>1. Shaped(b)
  BY DEF Settled, BufferSound
<1>2. c = [arena |-> b.arena, capacity |-> b.capacity, stale |-> b.stale,
           shreds |-> b.shreds, starts |-> b.starts, progress |-> b.progress,
           last_index |-> index]
  BY <1>1 DEF Shaped
<1> HIDE DEF c
<1>3. /\ c.stale = b.stale /\ c.shreds = b.shreds /\ c.starts = b.starts
      /\ c.progress = b.progress /\ Held(c) = Held(b)
  BY <1>2 DEF Held
<1>4. c = [arena |-> c.arena, capacity |-> c.capacity, stale |-> c.stale,
           shreds |-> c.shreds, starts |-> c.starts, progress |-> c.progress,
           last_index |-> c.last_index]
  BY <1>2
<1>5. Shaped(c)
  BY <1>1, <1>3, <1>4 DEF Shaped, ShredsShaped
<1>6. StartsRight(c)
  BY <1>3 DEF Settled, BufferSound, StartsRight
<1>7. \A s, e : RunSound(b, s, e) <=> RunSound(c, s, e)
  BY <1>3 DEF RunSound, Walked
<1>8. \A s : Reaches(b, s) <=> Reaches(c, s)
  BY <1>3 DEF Reaches, RunReaches
<1>9. Settled(c)
  BY <1>3, <1>5, <1>6, <1>7, <1>8 DEF Settled, BufferSound
<1>10. QED BY <1>9 DEF c

\* Storing a shred and reading on leaves nothing to read again.
LEMMA TakenSettled ==
  ASSUME wire \in Wires, NEW s \in wire, NEW b, Settled(b)
  PROVE  Settled(ReadBatches(Stored(b, s), s.index))
<1>1. /\ s.index \in 0..MAX_INDEX /\ Len(s.data) \in Nat
      /\ s.data_complete \in BOOLEAN
  BY AssemblerAssumption
<1> DEFINE closing == IF s.last_in_slot THEN [b EXCEPT !.last_index = s.index] ELSE b
<1>2. Settled(closing)
  BY ClosingSettled
<1>3. Stored(b, s) = Insert(closing, s.index, s.data, s.data_complete)
  BY DEF Stored
<1> HIDE DEF closing
<1>4. /\ BufferSound(Stored(b, s)) /\ s.index \in Held(Stored(b, s))
      /\ \A t \in Stored(b, s).starts \ Candidates(Stored(b, s), s.index) :
           Reaches(Stored(b, s), t)
  BY <1>1, <1>2, <1>3, InsertSound DEF Settled
<1>5. QED BY <1>4, ReadBatchesSound DEF Settled

----------------------------------------------------------------------------
(* The steps.                                                               *)

LEMMA AssemblerInit == Init => AssemblerInv
<1> SUFFICES ASSUME Init PROVE AssemblerInv
  OBVIOUS
<1>1. slots = New /\ New = [entries |-> New.entries, since |-> New.since]
  BY DEF Init, New
<1>2. Keys(New) = {} /\ New.since \in 0..SWEEP_INTERVAL
  BY SweepIntervalAssumption DEF Keys, New
<1>3. MapSound(slots)
  BY <1>1, <1>2 DEF MapSound
<1>4. HistoriesSound(slots)
  BY DEF Init, HistoriesSound
<1>5. QED BY <1>3, <1>4 DEF Init, AssemblerInv

LEMMA SurvivingSound ==
  ASSUME HistoriesSound(slots), NEW dt \in Nat
  PROVE  /\ DOMAIN Surviving(copies, dt) \subseteq Keys(Swept(dt))
         /\ DOMAIN Surviving(handed, dt) = DOMAIN Surviving(copies, dt)
BY DEF HistoriesSound, Surviving, Restrict

LEMMA AssemblerStep == AssemblerInv /\ [Next]_vars => AssemblerInv'
<1> SUFFICES ASSUME AssemblerInv, [Next]_vars PROVE AssemblerInv'
  OBVIOUS
<1>1. CASE UNCHANGED vars
  BY <1>1 DEF AssemblerInv, MapSound, HistoriesSound, vars
<1>2. CASE Next
  <2>1. PICK s \in wire, dt \in Ticks : OverBudget(s, dt) \/ SlotFull(s, dt) \/ Take(s, dt)
    BY <1>2 DEF Next
  <2>2. dt \in Nat /\ MapSound(slots) /\ HistoriesSound(slots)
    BY AssemblerAssumption DEF AssemblerInv
  <2>3. MapSound(Swept(dt)) /\ wire \in Wires /\ duplicates \in Nat /\ panicked \in BOOLEAN
    BY <2>2, SweptSound DEF AssemblerInv
  <2>4. /\ DOMAIN Surviving(copies, dt) \subseteq Keys(Swept(dt))
        /\ DOMAIN Surviving(handed, dt) = DOMAIN Surviving(copies, dt)
    BY <2>2, SurvivingSound
  <2>5. CASE OverBudget(s, dt)
    BY <2>3, <2>4, <2>5 DEF OverBudget, Begin, AssemblerInv, HistoriesSound
  <2>6. CASE SlotFull(s, dt)
    <3> DEFINE buffer == BufferOf(Swept(dt), s.slot)
    <3>1. Settled(buffer)
      BY <2>3, BufferOfSettled
    <3>2. slots' = Upsert(Swept(dt), s.slot, buffer)
      BY <2>6 DEF SlotFull
    <3> HIDE DEF buffer
    <3>3. MapSound(slots') /\ Keys(slots') = Keys(Swept(dt)) \cup {s.slot}
      BY <2>3, <3>1, <3>2, UpsertSound
    <3>4. QED BY <2>3, <2>4, <2>6, <3>3 DEF SlotFull, Begin, AssemblerInv, HistoriesSound
  <2>7. CASE Take(s, dt)
    <3> DEFINE old == BufferOf(Swept(dt), s.slot)
               new == ReadBatches(Stored(old, s), s.index)
    <3>1. Settled(new)
      BY <2>3, BufferOfSettled, TakenSettled
    <3>2. slots' = Upsert(Swept(dt), s.slot, new)
      BY <2>7 DEF Take
    <3>3. wire' = wire /\ panicked' \in BOOLEAN /\ duplicates' \in Nat
      BY <2>3, <2>7 DEF Take, Begin
    <3>4. /\ DOMAIN copies' = DOMAIN Surviving(copies, dt) \cup {s.slot}
          /\ DOMAIN handed' = DOMAIN Surviving(handed, dt) \cup {s.slot}
      BY <2>7 DEF Take, Put
    <3> HIDE DEF old, new
    <3>5. MapSound(slots') /\ Keys(slots') = Keys(Swept(dt)) \cup {s.slot}
      BY <2>3, <3>1, <3>2, UpsertSound
    <3>6. QED BY <2>3, <2>4, <3>3, <3>4, <3>5 DEF AssemblerInv, HistoriesSound
  <2>8. QED BY <2>1, <2>5, <2>6, <2>7
<1>3. QED BY <1>1, <1>2

----------------------------------------------------------------------------
(* What follows of batches and their runs.                                  *)

\* The inductive invariant holds of every behaviour.
LEMMA AssemblerInvariant == Spec => []AssemblerInv
BY AssemblerInit, AssemblerStep, PTL DEF Spec

\* Type correctness of the assembler.
THEOREM AssemblerTyped == Spec => []TypeOK
BY AssemblerInvariant, AssemblerInvImplies, PTL

\* Batch starts are exact through duplicates and differing copies of shreds:
\* the starts of SlotBuffer::insert never outlive the shred that opened them.
THEOREM StartsAreExact == Spec => []StartsExact
BY AssemblerInvariant, AssemblerInvImplies, PTL

\* The walk of advance only ever resumes from a run that is still there,
\* however often a shred of it was replaced.
THEOREM RunsAreSound == Spec => []RunsSound
BY AssemblerInvariant, AssemblerInvImplies, PTL

\* Advancing the two candidates of each shred is enough: no held shred of an
\* open batch is left unread in any slot.
THEOREM NothingLeftBehind == Spec => []RunsReach
BY AssemblerInvariant, AssemblerInvImplies, PTL

----------------------------------------------------------------------------
(* Slices.                                                                  *)

Cells == [tag : {"count", "entry", "junk"}, value : Nat, size : Nat \ {0}, part : Nat]
LEMMA SameEverywhere ==
  ASSUME NEW l, NEW u \in Seq(Cells), Len(u) = l, NEW v \in Seq(Cells), Len(v) = l,
         \A x \in 1..l : u[x] = v[x]
  PROVE  u = v
<1>1. u = [x \in 1..l |-> u[x]] /\ v = [x \in 1..l |-> v[x]]
  OBVIOUS
<1>2. QED BY <1>1

----------------------------------------------------------------------------
(* The lengths of the shreds held, summed.                                  *)

LensOf(b) == [i \in Held(b) |-> b.shreds[i].len]

LensShaped(b) == IsFiniteSet(Held(b)) /\ \A i \in Held(b) : b.shreds[i].len \in Nat

LEMMA LensSum ==
  ASSUME NEW b, LensShaped(b), NEW g, Sums(g, Held(b), LensOf(b)), NEW U \in SUBSET Held(b)
  PROVE  MapThenSumSet(LAMBDA i : b.shreds[i].len, U) = g[U]
<1> DEFINE Fold(h) == h = [T \in SUBSET U |->
                             IF T = {} THEN 0
                             ELSE b.shreds[PickOf(T)].len + h[T \ {PickOf(T)}]]
           f == [i \in U |-> b.shreds[i].len]
<1>1. MapThenSumSet(LAMBDA i : b.shreds[i].len, U) = (CHOOSE h : Fold(h))[U]
  BY DEF MapThenSumSet, MapThenFoldSet, PickOf
<1>2. \A T \in SUBSET U : T # {} => f[PickOf(T)] = b.shreds[PickOf(T)].len
  BY PickIsIn
<1>3. IsFiniteSet(U) /\ f \in [U -> Int] /\ IsFiniteSet(Held(b)) /\ LensOf(b) \in [Held(b) -> Int]
  BY FS_Subset DEF LensShaped, LensOf
<1>4. \A h : Fold(h) <=> Sums(h, U, f)
  <2> HIDE DEF f
  <2>1. QED BY <1>2 DEF Sums
<1>5. \A i \in U : f[i] = LensOf(b)[i]
  BY DEF LensOf
<1> DEFINE h == CHOOSE h : Fold(h)
<1>6. Fold(h)
  <2>1. \E e : Fold(e)
    <3> HIDE DEF Fold, f
    <3>1. QED BY <1>3, <1>4, SumsExist
  <2>2. QED BY <2>1
<1>7. Sums(h, U, f)
  <2> HIDE DEF Fold, h
  <2>1. QED BY <1>4, <1>6
<1> HIDE DEF h, f
<1>8. h[U] = g[U]
  BY <1>3, <1>5, <1>7, SumsAgree
<1>9. QED BY <1>1, <1>8 DEF h


LEMMA LensNone ==
  ASSUME NEW b, LensShaped(b), NEW g, Sums(g, Held(b), LensOf(b))
  PROVE  g[{}] = 0
BY DEF Sums

LEMMA LensStep ==
  ASSUME NEW b, LensShaped(b), NEW g, Sums(g, Held(b), LensOf(b)),
         NEW T \in SUBSET Held(b), NEW i \in T
  PROVE  g[T] = b.shreds[i].len + g[T \ {i}]
<1> DEFINE f == LensOf(b)
           S == Held(b)
<1>1. /\ IsFiniteSet(S) /\ f \in [S -> Int] /\ Sums(g, S, f)
      /\ f[i] = b.shreds[i].len
  BY DEF LensShaped, LensOf
<1>2. T \in SUBSET S
  OBVIOUS
<1> HIDE DEF f, S
<1>3. g[T] = f[i] + g[T \ {i}]
  BY <1>1, <1>2, SumsTake
<1>4. QED BY <1>1, <1>3

LEMMA LensInt ==
  ASSUME NEW b, LensShaped(b), NEW g, Sums(g, Held(b), LensOf(b)), NEW T \in SUBSET Held(b)
  PROVE  g[T] \in Int
<1> DEFINE f == LensOf(b)
           S == Held(b)
<1>1. IsFiniteSet(S) /\ f \in [S -> Int] /\ Sums(g, S, f) /\ T \in SUBSET S
  BY DEF LensShaped, LensOf
<1> HIDE DEF f, S
<1>2. QED BY <1>1, SumsTake

\* All of them without i, which need not be one.
LEMMA LensSplit ==
  ASSUME NEW b, LensShaped(b), NEW g, Sums(g, Held(b), LensOf(b)), NEW i
  PROVE  /\ g[Held(b)] = Displaced(b, i) + g[Held(b) \ {i}]
         /\ g[Held(b) \ {i}] \in Int
<1> DEFINE T == Held(b)
           R == Held(b) \ {i}
           len == b.shreds[i].len
<1>1. T \in SUBSET Held(b) /\ R \in SUBSET Held(b) /\ R = T \ {i}
  OBVIOUS
<1>2. i \in T => Displaced(b, i) = len
  BY DEF Displaced
<1>3. i \notin T => Displaced(b, i) = 0 /\ R = T
  BY DEF Displaced
<1> HIDE DEF T, R
<1>4. g[T] \in Int /\ g[R] \in Int
  BY <1>1, LensInt
<1>5. i \in T => g[T] = len + g[T \ {i}]
  <2>1. SUFFICES ASSUME i \in T PROVE g[T] = b.shreds[i].len + g[T \ {i}]
    OBVIOUS
  <2> HIDE DEF len
  <2>2. T \in SUBSET Held(b) /\ i \in T
    BY <1>1, <2>1
  <2>3. LensShaped(b) /\ Sums(g, Held(b), LensOf(b))
    OBVIOUS
  <2>4. QED BY <2>2, <2>3, LensStep
<1>6. g[T] = Displaced(b, i) + g[R]
  <2>1. CASE i \in T
    BY <1>1, <1>2, <1>5, <2>1
  <2>2. CASE i \notin T
    BY <1>3, <1>4, <2>2
  <2>3. QED BY <2>1, <2>2
<1>7. QED BY <1>4, <1>6 DEF T, R

----------------------------------------------------------------------------
(* The arena of one buffer.                                                 *)

\* Every shred's bytes lie in the arena.
Placed(b) ==
  /\ b.arena \in Seq(Cells)
  /\ LensShaped(b)
  /\ \A i \in Held(b) : b.shreds[i].at \in Nat /\ b.shreds[i].at + b.shreds[i].len <= Len(b.arena)

LEMMA BytesOfShred ==
  ASSUME NEW b, Placed(b), NEW i \in Held(b)
  PROVE  /\ ShredBytes(b, i) \in Seq(Cells) /\ Len(ShredBytes(b, i)) = b.shreds[i].len
         /\ \A x \in 1..b.shreds[i].len : ShredBytes(b, i)[x] = b.arena[b.shreds[i].at + x]
<1> DEFINE at == b.shreds[i].at
           len == b.shreds[i].len
           arena == b.arena
<1>1. at \in Nat /\ len \in Nat /\ at + len <= Len(arena) /\ arena \in Seq(Cells)
  BY DEF Placed, LensShaped
<1>2. ShredBytes(b, i) = SubSeq(arena, at + 1, at + len)
  BY DEF ShredBytes
<1> HIDE DEF at, len, arena
<1>3. /\ SubSeq(arena, at + 1, at + len) \in Seq(Cells)
      /\ Len(SubSeq(arena, at + 1, at + len)) = len
      /\ \A x \in 1..len : SubSeq(arena, at + 1, at + len)[x] = arena[at + x]
  BY <1>1, SliceIs
<1>4. QED BY <1>2, <1>3 DEF at, len, arena

\* Going through the shreds in order, where the k-th begins is what the ones
\* before it sum to.
LEMMA CutsAreSums ==
  ASSUME NEW b, Placed(b), Held(b) \subseteq Nat, NEW g, Sums(g, Held(b), LensOf(b)),
         NEW n \in Nat, n = Cardinality(Held(b)), NEW cut \in [0..n -> Nat], cut[0] = 0,
         \A k \in 1..n : cut[k] = cut[k - 1] + b.shreds[Ascending(Held(b))[k]].len
  PROVE  /\ cut[n] = g[Held(b)]
         /\ \A k \in 1..n : cut[k - 1] = g[Below(Held(b), Ascending(Held(b))[k])]
<1> DEFINE order == Ascending(Held(b))
           Upto(k) == {order[l] : l \in 1..k}
           f == LensOf(b)
<1>1. /\ order \in [1..n -> Held(b)]
      /\ \A i \in Held(b) : \E k \in 1..n : order[k] = i
      /\ \A k, l \in 1..n : k < l => order[k] < order[l]
  BY AscendingIsSorted DEF Placed, LensShaped
<1>2. IsFiniteSet(Held(b)) /\ f \in [Held(b) -> Int] /\ \A i \in Held(b) : f[i] = b.shreds[i].len
  BY DEF Placed, LensShaped, LensOf
<1> HIDE DEF order, f
<1>3. \A k \in 0..n : Upto(k) \in SUBSET Held(b)
  BY <1>1
<1>4. g[{}] = 0 /\ LensShaped(b)
  BY LensNone DEF Placed
<1>5. Upto(0) = {}
  OBVIOUS
<1>6. \A k \in 1..n : order[k] \in Upto(k) /\ Upto(k) \ {order[k]} = Upto(k - 1)
  <2> SUFFICES ASSUME NEW k \in 1..n
               PROVE  order[k] \in Upto(k) /\ Upto(k) \ {order[k]} = Upto(k - 1)
    OBVIOUS
  <2>1. k \in 1..k /\ \A l \in 1..k : l \in 1..n /\ (l = k \/ l \in 1..(k - 1))
    OBVIOUS
  <2>2. \A l \in 1..(k - 1) : l \in 1..k /\ l \in 1..n /\ l < k
    OBVIOUS
  <2>3. \A l \in 1..(k - 1) : order[l] # order[k]
    <3>1. \A l \in 1..(k - 1) : order[l] < order[k] /\ order[l] \in Nat /\ order[k] \in Nat
      BY <1>1, <2>2
    <3>2. QED BY <3>1
  <2>4. QED BY <2>1, <2>2, <2>3
<1> HIDE DEF Upto
<1>7. \A k \in 0..n : cut[k] = g[Upto(k)]
  <2> DEFINE Bad == {k \in 0..n : cut[k] # g[Upto(k)]}
  <2> SUFFICES ASSUME Bad # {} PROVE FALSE
    OBVIOUS
  <2>1. Bad \subseteq Nat
    OBVIOUS
  <2> HIDE DEF Bad
  <2>2. PICK k \in Bad : \A l \in Bad : k <= l
    BY <2>1, LeastNat, Zenon
  <2>3. k \in 0..n /\ cut[k] # g[Upto(k)]
    BY <2>2 DEF Bad
  <2>4. k # 0
    BY <1>4, <1>5, <2>3
  <2>5. k \in 1..n /\ k - 1 \in 0..n /\ k - 1 \notin Bad
    BY <2>2, <2>3, <2>4
  <2>6. cut[k - 1] = g[Upto(k - 1)] /\ order[k] \in Held(b)
    BY <1>1, <2>5 DEF Bad
  <2>7. g[Upto(k)] = f[order[k]] + g[Upto(k - 1)]
    <3> DEFINE T == Upto(k)
               i == order[k]
    <3>1. T \in SUBSET Held(b) /\ i \in T /\ T \ {i} = Upto(k - 1)
      BY <1>3, <1>6, <2>3, <2>5
    <3> HIDE DEF T, i
    <3>2. g[T] = b.shreds[i].len + g[T \ {i}]
      BY <1>4, <3>1, LensStep
    <3>3. f[i] = b.shreds[i].len
      BY <1>2, <3>1
    <3>4. QED BY <3>1, <3>2, <3>3 DEF T, i
  <2>8. cut[k] = cut[k - 1] + f[order[k]]
    BY <1>2, <2>5, <2>6 DEF order
  <2>9. cut[k - 1] \in Nat /\ f[order[k]] \in Int
    BY <1>2, <2>5, <2>6
  <2>10. QED BY <2>3, <2>6, <2>7, <2>8, <2>9
<1>8. Upto(n) = Held(b)
  BY <1>1, <1>3 DEF Upto
<1>9. ASSUME NEW k \in 1..n PROVE Upto(k - 1) = Below(Held(b), order[k])
  <2>1. \A l \in 1..(k - 1) : l \in 1..n /\ l < k
    BY <1>9
  <2>2. \A l \in 1..(k - 1) : order[l] \in Held(b) /\ order[l] < order[k]
    BY <1>1, <1>9, <2>1
  <2>3. ASSUME NEW i \in Held(b), i < order[k] PROVE i \in Upto(k - 1)
    <3>1. PICK l \in 1..n : order[l] = i
      BY <1>1
    <3>2. order[k] \in Nat /\ i \in Nat
      BY <1>1, <1>9
    <3>3. ~(k < l) /\ k # l
      BY <1>1, <1>9, <2>3, <3>1, <3>2
    <3>4. l \in 1..(k - 1)
      BY <1>9, <3>3
    <3>5. QED BY <3>1, <3>4 DEF Upto
  <2>4. QED BY <2>2, <2>3 DEF Upto, Below
<1>10. ASSUME NEW k \in 1..n PROVE cut[k - 1] = g[Below(Held(b), order[k])]
  <2>1. k - 1 \in 0..n
    BY <1>10
  <2>2. QED BY <1>7, <1>9, <1>10, <2>1
<1>11. n \in 0..n
  OBVIOUS
<1>12. QED BY <1>7, <1>8, <1>10, <1>11 DEF order

\* Rebuilding the arena moves every shred and changes none of its bytes.
LEMMA CompactKeeps ==
  ASSUME NEW b, Shaped(b), Placed(b),
         NEW g, Sums(g, Held(b), LensOf(b)), Live(b) = g[Held(b)]
  PROVE  LET c == Compact(b) IN
         /\ Held(c) = Held(b) /\ Placed(c)
         /\ Len(c.arena) = Live(b) /\ c.stale = 0 /\ c.capacity = Live(b)
         /\ \A i \in Held(b) : /\ c.shreds[i].len = b.shreds[i].len
                               /\ ShredBytes(c, i) = ShredBytes(b, i)
<1> DEFINE n == Cardinality(Held(b))
           order == Ascending(Held(b))
           q == [k \in DOMAIN order |-> ShredBytes(b, order[k])]
           c == Compact(b)
           shreds == [i \in Held(b) |-> [b.shreds[i] EXCEPT !.at = Relocated(b, i)]]
<1>1. /\ Held(b) \subseteq Nat /\ IsFiniteSet(Held(b)) /\ b.stale \in Nat
      /\ \A i \in Held(b) : /\ b.shreds[i] = [at |-> b.shreds[i].at, len |-> b.shreds[i].len,
                                             complete |-> b.shreds[i].complete]
                            /\ b.shreds[i].len \in Nat
  BY BufferAssumption DEF Shaped, ShredsShaped, Placed, LensShaped
<1>2. /\ n \in Nat /\ order \in [1..n -> Held(b)] /\ DOMAIN order = 1..n
      /\ \A i \in Held(b) : \E k \in 1..n : order[k] = i
  BY <1>1, AscendingIsSorted
<1>3. c = [arena |-> FlattenSeq(q), capacity |-> Live(b), stale |-> 0, shreds |-> shreds,
           starts |-> b.starts, progress |-> b.progress, last_index |-> b.last_index]
  <2> HIDE DEF q, shreds
  <2>1. c = [b EXCEPT !.arena = FlattenSeq(q), !.capacity = Live(b), !.stale = 0,
                      !.shreds = shreds]
    BY DEF Compact, q, shreds
  <2>2. QED BY <2>1 DEF Shaped
<1> HIDE DEF order, c
<1>4. /\ DOMAIN shreds = Held(b)
      /\ \A i \in Held(b) : /\ shreds[i].at = Relocated(b, i)
                            /\ shreds[i].len = b.shreds[i].len
  <2>1. DOMAIN shreds = Held(b)
    OBVIOUS
  <2>2. ASSUME NEW i \in Held(b)
        PROVE  shreds[i].at = Relocated(b, i) /\ shreds[i].len = b.shreds[i].len
    <3> DEFINE to == Relocated(b, i)
    <3>1. PICK at, len, complete : b.shreds[i] = [at |-> at, len |-> len, complete |-> complete]
      BY <1>1, <2>2, Zenon
    <3>2. shreds[i] = [b.shreds[i] EXCEPT !.at = to]
      OBVIOUS
    <3> HIDE DEF to, shreds
    <3>3. shreds[i] = [at |-> to, len |-> len, complete |-> complete]
      BY <3>1, <3>2
    <3>4. shreds[i].at = to /\ shreds[i].len = len /\ b.shreds[i].len = len
      BY <3>1, <3>3
    <3>5. QED BY <3>4 DEF to
  <2> HIDE DEF shreds
  <2>3. QED BY <2>1, <2>2
<1> HIDE DEF shreds
<1>5. /\ c.arena = FlattenSeq(q) /\ c.capacity = Live(b) /\ c.stale = 0
      /\ c.shreds = shreds /\ Held(c) = Held(b)
  BY <1>3, <1>4 DEF Held
<1>6. \A k \in 1..n : /\ q[k] = ShredBytes(b, order[k]) /\ q[k] \in Seq(Cells)
                      /\ Len(q[k]) = b.shreds[order[k]].len
                      /\ order[k] \in Held(b)
  BY <1>2, BytesOfShred
<1>7. q \in [1..n -> Seq(Cells)]
  BY <1>2, <1>6
<1> HIDE DEF q
<1>8. PICK cut \in [0..n -> Nat] : PiecesLie(FlattenSeq(q), q, n, cut)
  <2> HIDE DEF n
  <2>1. QED BY <1>2, <1>7, FlattenLays
<1>9. c.arena \in Seq(Cells)
  <2> HIDE DEF n
  <2>1. QED BY <1>2, <1>5, <1>7, FlattenLays
<1>10. /\ cut[0] = 0 /\ cut[n] = Len(c.arena)
       /\ \A k \in 1..n :
            /\ cut[k] = cut[k - 1] + Len(q[k]) /\ cut[k] <= cut[n]
            /\ \A x \in 1..Len(q[k]) : c.arena[cut[k - 1] + x] = q[k][x]
  BY <1>5, <1>8 DEF PiecesLie
<1>11. /\ cut[n] = g[Held(b)]
       /\ \A k \in 1..n : cut[k - 1] = g[Below(Held(b), order[k])]
  <2>1. \A k \in 1..n : cut[k] = cut[k - 1] + b.shreds[order[k]].len
    BY <1>6, <1>10
  <2>2. QED BY <1>1, <1>2, <1>10, <2>1, CutsAreSums, ZenonT(60) DEF order
<1>12. \A i \in Held(b) : Relocated(b, i) = g[Below(Held(b), i)]
  <2> SUFFICES ASSUME NEW i \in Held(b) PROVE Relocated(b, i) = g[Below(Held(b), i)]
    OBVIOUS
  <2>1. Relocated(b, i) = MapThenSumSet(LAMBDA j : b.shreds[j].len, Below(Held(b), i))
    BY DEF Relocated, Below
  <2>2. Below(Held(b), i) \in SUBSET Held(b) /\ LensShaped(b)
    BY DEF Below, Placed
  <2>3. QED BY <2>1, <2>2, LensSum
<1>13. ASSUME NEW i \in Held(b)
       PROVE  /\ c.shreds[i].at \in Nat /\ c.shreds[i].at + c.shreds[i].len <= Len(c.arena)
              /\ \A x \in 1..b.shreds[i].len :
                   c.arena[c.shreds[i].at + x] = ShredBytes(b, i)[x]
  <2>1. PICK k \in 1..n : order[k] = i
    BY <1>2
  <2>2. k - 1 \in 0..n /\ k \in 0..n
    BY <1>2
  <2>3. c.shreds[i].at = cut[k - 1] /\ c.shreds[i].len = Len(q[k]) /\ Len(q[k]) = b.shreds[i].len
    BY <1>4, <1>5, <1>6, <1>11, <1>12, <2>1
  <2>4. cut[k - 1] \in Nat /\ cut[k - 1] + Len(q[k]) <= Len(c.arena)
    BY <1>10, <2>2
  <2>5. QED BY <1>6, <1>10, <2>1, <2>3, <2>4
<1>14. Placed(c)
  BY <1>1, <1>4, <1>5, <1>9, <1>13 DEF Placed, LensShaped
<1>15. ASSUME NEW i \in Held(b) PROVE ShredBytes(c, i) = ShredBytes(b, i)
  <2> DEFINE u == ShredBytes(c, i)
             v == ShredBytes(b, i)
             l == b.shreds[i].len
  <2>1. /\ u \in Seq(Cells) /\ Len(u) = l /\ v \in Seq(Cells) /\ Len(v) = l
    BY <1>4, <1>5, <1>14, BytesOfShred
  <2>2. \A x \in 1..l : u[x] = v[x]
    BY <1>4, <1>5, <1>13, <1>14, BytesOfShred
  <2> HIDE DEF u, v, l
  <2>3. u = v
    BY <2>1, <2>2, SameEverywhere
  <2>4. QED BY <2>3 DEF u, v
<1>16. Len(c.arena) = Live(b)
  BY <1>10, <1>11
<1>17. QED BY <1>4, <1>5, <1>14, <1>15, <1>16 DEF c

----------------------------------------------------------------------------
(* The arena as shreds are stored.                                          *)

\* What is neither stranded nor lost: the bytes of the shreds held.
Accounted(b) ==
  /\ Placed(b) /\ b.capacity \in Nat
  /\ \A g : Sums(g, Held(b), LensOf(b)) => Live(b) = g[Held(b)]

LEMMA LensExist ==
  ASSUME NEW b, LensShaped(b)
  PROVE  \E g : Sums(g, Held(b), LensOf(b))
<1>1. LensOf(b) \in [Held(b) -> Int] /\ IsFiniteSet(Held(b))
  BY DEF LensShaped, LensOf
<1>2. QED BY <1>1, SumsExist

\* The larger of a finite choice of naturals is a natural.
LEMMA GrownIsNat ==
  ASSUME NEW capacity \in Nat, NEW need \in Nat
  PROVE  Grown(capacity, need) \in Nat
<1>1. CASE need <= capacity
  BY <1>1 DEF Grown
<1>2. CASE ~(need <= capacity)
  <2> DEFINE S == {2 * capacity, need, MIN_ARENA}
             n == 2 * capacity + need + MIN_ARENA
  <2>1. n \in Nat /\ S \subseteq 0..n /\ S # {}
    BY BufferAssumption
  <2>2. S \subseteq -1..n
    <3> HIDE DEF S
    <3>1. 0..n \subseteq -1..n
      BY <2>1
    <3>2. QED BY <2>1, <3>1
  <2>3. Grown(capacity, need) = Max(S)
    BY <1>2 DEF Grown
  <2> HIDE DEF S, n
  <2>4. Max(S) \in S
    BY <2>1, <2>2, MaxExists
  <2>5. \A x \in S : x \in Nat
    BY <2>1
  <2>6. Max(S) \in Nat
    BY <2>4, <2>5, Zenon
  <2>7. QED BY <2>3, <2>6
<1>3. QED BY <1>1, <1>2

LEMMA HalfOf ==
  ASSUME NEW len \in Nat, NEW lost \in Nat, ~(lost > len \div 2)
  PROVE  lost <= len - lost
<1> DEFINE half == len \div 2
<1>1. half \in Int /\ 2 * half <= len
  OBVIOUS
<1>2. ~(lost > half)
  OBVIOUS
<1> HIDE DEF half
<1>3. QED BY <1>1, <1>2

\* Making room for a shred keeps every other's bytes, and what is left
\* stranded is no more than what lives, or the floor.
LEMMA StorePlaces ==
  ASSUME NEW b, Shaped(b), Accounted(b), NEW data \in Seq(Cells)
  PROVE  LET c == Store(b, data) IN
         /\ Held(c) = Held(b) /\ Placed(c) /\ c.capacity \in Nat /\ c.stale \in Nat
         /\ Len(c.arena) - Len(data) \in Nat
         /\ \A x \in 1..Len(data) : c.arena[Len(c.arena) - Len(data) + x] = data[x]
         /\ Live(c) = Live(b) + Len(data) /\ Live(b) \in Int
         /\ c.stale <= COMPACT_FLOOR \/ c.stale <= Live(b)
         /\ \A i \in Held(b) : /\ c.shreds[i].len = b.shreds[i].len
                               /\ ShredBytes(c, i) = ShredBytes(b, i)
<1> DEFINE room == IF CompactDue(b) THEN Compact(b) ELSE b
           c == Store(b, data)
<1>1. /\ Placed(b) /\ b.stale \in Nat /\ Len(b.arena) \in Nat /\ Len(data) \in Nat
      /\ b.capacity \in Nat /\ COMPACT_FLOOR \in Nat /\ Live(b) \in Int
  BY BufferAssumption DEF Accounted, Placed, Shaped, Live
<1>2. /\ Held(room) = Held(b) /\ Placed(room) /\ room.stale \in Nat /\ room.capacity \in Nat
      /\ Live(room) = Live(b)
      /\ room.stale <= COMPACT_FLOOR \/ room.stale <= Live(b)
      /\ \A i \in Held(b) : /\ room.shreds[i].len = b.shreds[i].len
                            /\ ShredBytes(room, i) = ShredBytes(b, i)
  <2>1. CASE CompactDue(b)
    <3>1. PICK g : Sums(g, Held(b), LensOf(b))
      BY <1>1, LensExist DEF Placed
    <3>2. Live(b) = g[Held(b)]
      BY <3>1 DEF Accounted
    <3>3. /\ Held(room) = Held(b) /\ Placed(room)
          /\ Len(room.arena) = Live(b) /\ room.stale = 0 /\ room.capacity = Live(b)
          /\ \A i \in Held(b) : /\ room.shreds[i].len = b.shreds[i].len
                                /\ ShredBytes(room, i) = ShredBytes(b, i)
      BY <1>1, <2>1, <3>1, <3>2, CompactKeeps
    <3> HIDE DEF room
    <3>4. Len(room.arena) \in Nat
      BY <3>3 DEF Placed
    <3>5. Live(room) = Live(b)
      BY <3>3, <3>4 DEF Live
    <3>6. QED BY <1>1, <3>3, <3>4, <3>5
  <2>2. CASE ~CompactDue(b)
    <3> DEFINE len == Len(b.arena)
               lost == b.stale
    <3>1. len \in Nat /\ lost \in Nat /\ ~(lost > COMPACT_FLOOR /\ lost > len \div 2)
      BY <1>1, <2>2 DEF CompactDue
    <3>2. Live(b) = len - lost
      BY DEF Live
    <3> HIDE DEF len, lost
    <3>3. lost <= COMPACT_FLOOR \/ lost <= len - lost
      BY <1>1, <3>1, HalfOf
    <3>4. b.stale <= COMPACT_FLOOR \/ b.stale <= Live(b)
      BY <3>2, <3>3 DEF lost
    <3>5. room = b
      BY <2>2
    <3> HIDE DEF room
    <3>6. QED BY <1>1, <3>4, <3>5
  <2>3. QED BY <2>1, <2>2
<1>3. PICK arena, capacity, stale, shreds, starts, progress, last :
        room = [arena |-> arena, capacity |-> capacity, stale |-> stale,
                shreds |-> shreds, starts |-> starts, progress |-> progress,
                last_index |-> last]
  <2>1. PICK arena, capacity, stale, shreds, starts, progress, last :
          b = [arena |-> arena, capacity |-> capacity, stale |-> stale,
               shreds |-> shreds, starts |-> starts, progress |-> progress,
               last_index |-> last]
    BY Zenon DEF Shaped
  <2>2. CASE CompactDue(b)
    <3> DEFINE to == [i \in Held(b) |-> [b.shreds[i] EXCEPT !.at = Relocated(b, i)]]
               whole == FlattenSeq([k \in DOMAIN Ascending(Held(b)) |->
                                      ShredBytes(b, Ascending(Held(b))[k])])
               live == Live(b)
    <3>1. Compact(b) = [b EXCEPT !.arena = whole, !.capacity = live, !.stale = 0, !.shreds = to]
      BY <2>1 DEF Compact
    <3> HIDE DEF to, whole, live
    <3>2. Compact(b) = [arena |-> whole, capacity |-> live, stale |-> 0, shreds |-> to,
                        starts |-> starts, progress |-> progress, last_index |-> last]
      BY <2>1, <3>1
    <3>3. room = Compact(b)
      BY <2>2
    <3>4. QED BY <3>2, <3>3
  <2>3. CASE ~CompactDue(b)
    BY <2>1, <2>3
  <2>4. QED BY <2>2, <2>3
<1>4. c = [room EXCEPT !.arena    = @ \o data,
                       !.capacity = Grown(@, Len(room.arena) + Len(data))]
  BY DEF Store
<1> HIDE DEF room, c
<1>5. c = [arena |-> arena \o data,
           capacity |-> Grown(capacity, Len(arena) + Len(data)), stale |-> stale,
           shreds |-> shreds, starts |-> starts, progress |-> progress,
           last_index |-> last]
  BY <1>3, <1>4
<1>6. /\ c.arena = room.arena \o data /\ c.shreds = room.shreds /\ c.stale = room.stale
      /\ c.capacity = Grown(room.capacity, Len(room.arena) + Len(data))
      /\ Held(c) = Held(room)
  BY <1>3, <1>5 DEF Held
<1>7. /\ c.arena \in Seq(Cells) /\ Len(c.arena) = Len(room.arena) + Len(data)
      /\ Len(room.arena) \in Nat
      /\ \A y \in 1..Len(room.arena) : c.arena[y] = room.arena[y]
      /\ \A x \in 1..Len(data) : c.arena[Len(room.arena) + x] = data[x]
  <2> DEFINE old == room.arena
  <2>1. old \in Seq(Cells)
    BY <1>2 DEF Placed
  <2> HIDE DEF old
  <2>2. /\ old \o data \in Seq(Cells) /\ Len(old \o data) = Len(old) + Len(data)
        /\ Len(old) \in Nat
        /\ \A y \in 1..Len(old) : (old \o data)[y] = old[y]
        /\ \A x \in 1..Len(data) : (old \o data)[Len(old) + x] = data[x]
    BY <2>1, Joined
  <2>3. QED BY <1>6, <2>2 DEF old
<1>8. c.capacity \in Nat
  <2>1. Len(room.arena) + Len(data) \in Nat /\ room.capacity \in Nat
    BY <1>1, <1>2, <1>7
  <2>2. QED BY <1>6, <2>1, GrownIsNat
<1>9. \A i \in Held(b) :
        /\ c.shreds[i] = room.shreds[i]
        /\ c.shreds[i].at \in Nat /\ c.shreds[i].len \in Nat
        /\ c.shreds[i].at + c.shreds[i].len <= Len(room.arena)
  BY <1>2, <1>6 DEF Placed, LensShaped
<1>10. Placed(c)
  BY <1>1, <1>2, <1>6, <1>7, <1>9, SMTT(60) DEF Placed, LensShaped
<1>11. ASSUME NEW i \in Held(b) PROVE ShredBytes(c, i) = ShredBytes(room, i)
  <2> DEFINE a == c.shreds[i].at
             l == c.shreds[i].len
             s == room.arena
             t == c.arena
  <2>1. a \in Nat /\ l \in Nat /\ a + l <= Len(s) /\ s \in Seq(Cells) /\ t \in Seq(Cells)
    BY <1>2, <1>7, <1>9, <1>11 DEF Placed
  <2>2. Len(s) \in Nat /\ Len(s) <= Len(t) /\ \A y \in 1..Len(s) : t[y] = s[y]
    BY <1>1, <1>7
  <2>3. /\ ShredBytes(room, i) = SubSeq(s, a + 1, a + l)
        /\ ShredBytes(c, i) = SubSeq(t, a + 1, a + l)
    BY <1>9, <1>11 DEF ShredBytes
  <2> HIDE DEF a, l, s, t
  <2>4. Len(t) \in Nat
    BY <2>1
  <2>5. a + l <= Len(t) /\ \A x \in 1..l : t[a + x] = s[a + x]
    BY <2>1, <2>2, <2>4
  <2>6. SubSeq(t, a + 1, a + l) = SubSeq(s, a + 1, a + l)
    <3> DEFINE u == SubSeq(t, a + 1, a + l)
               v == SubSeq(s, a + 1, a + l)
    <3>1. /\ u \in Seq(Cells) /\ Len(u) = l /\ \A x \in 1..l : u[x] = t[a + x]
          /\ v \in Seq(Cells) /\ Len(v) = l /\ \A x \in 1..l : v[x] = s[a + x]
      BY <2>1, <2>5, SliceIs
    <3> HIDE DEF u, v
    <3>2. \A x \in 1..l : u[x] = v[x]
      BY <2>5, <3>1
    <3>3. u = v
      BY <3>1, <3>2, SameEverywhere
    <3>4. QED BY <3>3 DEF u, v
  <2>7. QED BY <2>3, <2>6
<1>12. Live(c) = Live(b) + Len(data)
  BY <1>1, <1>2, <1>6, <1>7 DEF Live
<1>13. Len(c.arena) - Len(data) = Len(room.arena)
  BY <1>1, <1>7
<1>14. QED BY <1>1, <1>2, <1>6, <1>7, <1>8, <1>9, <1>10, <1>11, <1>12, <1>13 DEF c

\* What an insert makes of the arena and the shreds in it.
LEMMA InsertMakes ==
  ASSUME NEW b, Shaped(b), NEW i \in 0..MAX_INDEX, NEW data, Len(data) \in Nat,
         NEW complete \in BOOLEAN
  PROVE  LET c == Insert(b, i, data, complete)
             stored == Store(b, data)
         IN
         /\ c.arena = stored.arena /\ c.capacity = stored.capacity
         /\ c.stale = stored.stale + Displaced(b, i)
         /\ c.shreds = Put(stored.shreds, i,
                           [at |-> Len(stored.arena) - Len(data), len |-> Len(data),
                            complete |-> complete])
<1> DEFINE stored == Store(b, data)
           cell   == [at |-> Len(stored.arena) - Len(data), len |-> Len(data),
                      complete |-> complete]
           put == [stored EXCEPT !.shreds = Put(@, i, cell),
                                 !.stale  = @ + Displaced(b, i),
                                 !.starts = (@ \ Reopened(b, i, complete))
                                              \cup (IF complete THEN {i + 1} ELSE {})]
           c == Insert(b, i, data, complete)
<1>1. stored = [arena |-> stored.arena, capacity |-> stored.capacity,
                stale |-> stored.stale, shreds |-> stored.shreds,
                starts |-> b.starts, progress |-> b.progress,
                last_index |-> b.last_index]
  BY StoreKeeps
<1>2. c = IF i \in Held(b) THEN Invalidate(put, i) ELSE put
  BY DEF Insert
<1> HIDE DEF stored, c
<1>3. PICK arena, capacity, stale, shreds :
        stored = [arena |-> arena, capacity |-> capacity, stale |-> stale,
                  shreds |-> shreds, starts |-> b.starts,
                  progress |-> b.progress, last_index |-> b.last_index]
  BY <1>1, Zenon
<1>4. /\ stored.stale = stale /\ stored.shreds = shreds
      /\ stored.arena = arena /\ stored.capacity = capacity
  BY <1>3
<1> HIDE DEF cell
<1> DEFINE moved  == stale + Displaced(b, i)
           cells  == Put(shreds, i, cell)
           starts == (stored.starts \ Reopened(b, i, complete))
                       \cup (IF complete THEN {i + 1} ELSE {})
<1>5. put = [stored EXCEPT !.shreds = cells, !.stale = moved, !.starts = starts]
  BY <1>4
<1> HIDE DEF moved, cells, starts, put
<1>6. put = [arena |-> arena, capacity |-> capacity, stale |-> moved, shreds |-> cells,
             starts |-> starts, progress |-> b.progress, last_index |-> b.last_index]
  BY <1>3, <1>5
<1>7. /\ c.arena = arena /\ c.capacity = capacity /\ c.stale = moved /\ c.shreds = cells
  <2>1. CASE i \in Held(b)
    <3> DEFINE forgotten == [s \in DOMAIN b.progress |->
                               IF s \in Candidates(put, i)
                               THEN [b.progress[s] EXCEPT !.extent = NoExtent,
                                                          !.resume = NoResume]
                               ELSE b.progress[s]]
    <3>1. c = [put EXCEPT !.progress = forgotten]
      BY <1>2, <1>6, <2>1 DEF Invalidate
    <3> HIDE DEF forgotten
    <3>2. QED BY <3>1, <1>6
  <2>2. CASE i \notin Held(b)
    BY <1>2, <1>6, <2>2
  <2>3. QED BY <2>1, <2>2
<1>8. QED BY <1>4, <1>7 DEF moved, cells, cell, stored, c

\* The buffer after an insert: the shred's bytes at the end of the arena, every
\* other's where they can still be read, and no byte unaccounted for.
LEMMA InsertPlaces ==
  ASSUME NEW b, Shaped(b), Accounted(b), NEW i \in 0..MAX_INDEX,
         NEW data \in Seq(Cells), NEW complete \in BOOLEAN
  PROVE  LET c == Insert(b, i, data, complete) IN
         /\ Placed(c) /\ c.capacity \in Nat
         /\ Held(c) = Held(b) \cup {i}
         /\ ShredBytes(c, i) = data /\ c.shreds[i].complete = complete
         /\ \A j \in Held(b) \ {i} : /\ ShredBytes(c, j) = ShredBytes(b, j)
                                     /\ c.shreds[j].len = b.shreds[j].len
                                     /\ c.shreds[j].complete = b.shreds[j].complete
         /\ c.shreds[i].len = Len(data)
         /\ Live(c) = Live(b) + Len(data) - Displaced(b, i)
         /\ Live(b) \in Int /\ Displaced(b, i) \in Nat
         /\ \/ c.stale <= COMPACT_FLOOR + Displaced(b, i)
            \/ c.stale <= Live(b) + Displaced(b, i)
<1> DEFINE c == Insert(b, i, data, complete)
           stored == Store(b, data)
           len  == Len(data)
           at   == Len(stored.arena) - len
           gone == Displaced(b, i)
           cell == [at |-> at, len |-> len, complete |-> complete]
<1>1. len \in Nat
  OBVIOUS
<1>2. /\ Held(stored) = Held(b) /\ Placed(stored) /\ stored.capacity \in Nat
      /\ stored.stale \in Nat /\ at \in Nat
      /\ \A x \in 1..len : stored.arena[at + x] = data[x]
      /\ Live(stored) = Live(b) + len /\ Live(b) \in Int
      /\ stored.stale <= COMPACT_FLOOR \/ stored.stale <= Live(b)
      /\ \A j \in Held(b) : /\ stored.shreds[j].len = b.shreds[j].len
                            /\ ShredBytes(stored, j) = ShredBytes(b, j)
  BY StorePlaces
<1>3. /\ c.arena = stored.arena /\ c.capacity = stored.capacity
      /\ c.stale = stored.stale + gone /\ c.shreds = Put(stored.shreds, i, cell)
  BY <1>1, InsertMakes
<1>4. \A j \in Held(b) : stored.shreds[j].complete = b.shreds[j].complete
  BY <1>1, StoreKeeps
<1>5. gone \in Nat
  BY DEF Displaced, Shaped, ShredsShaped
<1>6. /\ stored.arena \in Seq(Cells) /\ Len(stored.arena) \in Nat /\ LensShaped(stored)
      /\ stored.capacity \in Nat
      /\ \A j \in Held(stored) : /\ stored.shreds[j].at \in Nat
                                 /\ stored.shreds[j].at + stored.shreds[j].len <= Len(stored.arena)
  BY <1>2 DEF Placed
<1> HIDE DEF c, stored, gone
<1>7. /\ Held(c) = Held(b) \cup {i}
      /\ c.shreds[i] = cell
      /\ \A j \in Held(b) \ {i} : c.shreds[j] = stored.shreds[j]
  BY <1>2, <1>3 DEF Held, Put
<1>8. at + len = Len(stored.arena) /\ at + len <= Len(c.arena)
  <2> DEFINE all == Len(stored.arena)
  <2>1. all \in Nat /\ at = all - len /\ Len(c.arena) = all
    BY <1>3, <1>6
  <2> HIDE DEF all, at, len
  <2>2. at + len = all /\ all <= all
    BY <1>1, <2>1
  <2>3. QED BY <2>1, <2>2 DEF all
<1> HIDE DEF at, len
<1>9. /\ c.shreds[i].at = at /\ c.shreds[i].len = len /\ c.shreds[i].complete = complete
  BY <1>7
<1>10. Placed(c)
  <2>1. IsFiniteSet(Held(c))
    <3>1. IsFiniteSet(Held(stored))
      BY <1>6 DEF LensShaped
    <3>2. Held(c) = Held(stored) \cup {i}
      BY <1>2, <1>7
    <3> DEFINE held == Held(stored)
    <3> HIDE DEF held
    <3>3. IsFiniteSet(held) => IsFiniteSet(held \cup {i})
      BY FS_AddElement
    <3>4. QED BY <3>1, <3>2, <3>3 DEF held
  <2>2. ASSUME NEW j \in Held(c)
        PROVE  /\ c.shreds[j].len \in Nat /\ c.shreds[j].at \in Nat
               /\ c.shreds[j].at + c.shreds[j].len <= Len(c.arena)
    <3>1. CASE j = i
      <4>1. c.shreds[j].at = at /\ c.shreds[j].len = len
        BY <1>9, <3>1
      <4>2. QED BY <1>1, <1>2, <1>8, <4>1
    <3>2. CASE j # i
      <4>1. j \in Held(stored) /\ c.shreds[j] = stored.shreds[j]
        BY <1>2, <1>7, <2>2, <3>2
      <4>2. QED BY <1>3, <1>6, <4>1 DEF LensShaped
    <3>3. QED BY <3>1, <3>2
  <2>3. QED BY <1>3, <1>6, <2>1, <2>2 DEF Placed, LensShaped
<1>11. ShredBytes(c, i) = data
  <2> DEFINE u == ShredBytes(c, i)
  <2>1. u \in Seq(Cells) /\ Len(u) = len /\ \A x \in 1..len : u[x] = stored.arena[at + x]
    BY <1>3, <1>7, <1>9, <1>10, BytesOfShred
  <2>2. Len(data) = len
    BY DEF len
  <2> HIDE DEF u
  <2>3. \A x \in 1..len : u[x] = data[x]
    BY <1>2, <2>1
  <2>4. u = data
    BY <2>1, <2>2, <2>3, SameEverywhere
  <2>5. QED BY <2>4 DEF u
<1>12. \A j \in Held(b) \ {i} : /\ ShredBytes(c, j) = ShredBytes(b, j)
                                /\ c.shreds[j].len = b.shreds[j].len
                                /\ c.shreds[j].complete = b.shreds[j].complete
  <2>1. ASSUME NEW j \in Held(b) \ {i} PROVE ShredBytes(c, j) = ShredBytes(stored, j)
    BY <1>3, <1>7 DEF ShredBytes
  <2>2. QED BY <1>2, <1>4, <1>7, <2>1
<1>13. Live(c) = Live(b) + len - gone
  <2>1. Live(c) = Len(stored.arena) - (stored.stale + gone)
    BY <1>3 DEF Live
  <2>2. Live(stored) = Len(stored.arena) - stored.stale
    BY DEF Live
  <2>3. Live(stored) = Live(b) + len /\ Live(b) \in Int /\ stored.stale \in Nat
        /\ Len(stored.arena) \in Nat
    BY <1>2, <1>6
  <2> DEFINE old   == Live(b)
             all   == Len(stored.arena)
             stale == stored.stale
  <2>4. /\ old \in Int /\ all \in Nat /\ stale \in Nat
        /\ Live(c) = all - (stale + gone) /\ all - stale = old + len
    BY <2>1, <2>2, <2>3
  <2> HIDE DEF old, all, stale
  <2>5. Live(c) = old + len - gone
    BY <1>1, <1>5, <2>4
  <2>6. QED BY <2>5 DEF old
<1>14. \/ c.stale <= COMPACT_FLOOR + gone
       \/ c.stale <= Live(b) + gone
  BY <1>2, <1>3, <1>5, BufferAssumption
<1>15. QED BY <1>2, <1>3, <1>5, <1>7, <1>9, <1>10, <1>11, <1>12, <1>13, <1>14 DEF c, gone, len

\* What the arena holds and nothing is stranded of is what the shreds sum to.
LEMMA InsertAccounts ==
  ASSUME NEW b, Shaped(b), Accounted(b), NEW i \in 0..MAX_INDEX,
         NEW data \in Seq(Cells), NEW complete \in BOOLEAN
  PROVE  Accounted(Insert(b, i, data, complete))
<1> DEFINE c    == Insert(b, i, data, complete)
           len  == Len(data)
           gone == Displaced(b, i)
           H    == Held(b)
           R    == Held(b) \ {i}
<1>1. /\ Placed(c) /\ c.capacity \in Nat /\ Held(c) = H \cup {i}
      /\ \A j \in R : c.shreds[j].len = b.shreds[j].len
      /\ c.shreds[i].len = len
      /\ Live(c) = Live(b) + len - gone /\ Live(b) \in Int /\ gone \in Nat
  BY InsertPlaces
<1>2. LensShaped(b) /\ LensShaped(c)
  BY <1>1 DEF Accounted, Placed
<1>3. PICK g : Sums(g, H, LensOf(b))
  BY <1>2, LensExist
<1>4. Live(b) = g[H]
  BY <1>3 DEF Accounted
<1>5. len \in Nat
  OBVIOUS
<1> HIDE DEF c, len, gone
<1>6. ASSUME NEW h, Sums(h, Held(c), LensOf(c))
      PROVE  Live(c) = h[Held(c)]
  <2>1. h[Held(c)] = len + h[R]
    <3>1. Held(c) \in SUBSET Held(c) /\ i \in Held(c) /\ Held(c) \ {i} = R
      BY <1>1
    <3>2. h[Held(c)] = c.shreds[i].len + h[Held(c) \ {i}]
      BY <1>2, <1>6, <3>1, LensStep
    <3>3. QED BY <1>1, <3>1, <3>2
  <2>2. h[R] = g[R]
    <3> DEFINE S == Held(c)
               f == LensOf(c)
               e == LensOf(b)
    <3>1. /\ IsFiniteSet(S) /\ f \in [S -> Int] /\ Sums(h, S, f)
          /\ IsFiniteSet(H) /\ e \in [H -> Int] /\ Sums(g, H, e)
      BY <1>2, <1>3, <1>6 DEF LensShaped, LensOf
    <3>2. R \in SUBSET S /\ R \in SUBSET H
      BY <1>1
    <3>3. \A j \in R : f[j] = e[j]
      BY <1>1, <3>2 DEF LensOf
    <3> HIDE DEF S, f, e, R, H
    <3>4. QED BY <3>1, <3>2, <3>3, SumsAgree, SMTT(60)
  <2>3. g[H] = gone + g[R] /\ g[R] \in Int
    BY <1>2, <1>3, LensSplit DEF gone
  <2> DEFINE rest == g[R]
             live == Live(b)
  <2>4. live \in Int /\ rest \in Int /\ live = gone + rest /\ gone \in Nat /\ len \in Nat
    BY <1>1, <1>4, <1>5, <2>3
  <2>5. h[Held(c)] = len + rest /\ Live(c) = live + len - gone
    BY <1>1, <2>1, <2>2
  <2> HIDE DEF rest, live
  <2>6. QED
    BY <2>4, <2>5
<1>7. QED BY <1>1, <1>6 DEF Accounted, c

----------------------------------------------------------------------------
(* What the arena says of the copies stored.                                *)

\* A buffer holds the last copy of each shred, byte for byte, and strands no
\* more than the floor or what lives, plus a copy displaced since.
Faithful(b, held, w) ==
  /\ Accounted(b)
  /\ Held(b) = DOMAIN held
  /\ \A i \in Held(b) : /\ held[i] \in w
                        /\ ShredBytes(b, i) = held[i].data
                        /\ b.shreds[i].complete = held[i].data_complete
  /\ \A longest \in Nat :
       (\A s \in w : Len(s.data) <= longest) =>
         \/ b.stale <= COMPACT_FLOOR + longest
         \/ b.stale <= Live(b) + longest + longest

LEMMA NewIsFaithful == ASSUME NEW w PROVE Faithful(NewBuffer, [i \in {} |-> 0], w)
<1> DEFINE b == NewBuffer
<1>1. /\ b.arena = <<>> /\ b.capacity = 0 /\ b.stale = 0 /\ Held(b) = {}
      /\ \A i \in Held(b) : FALSE
  BY DEF NewBuffer, Held
<1>2. LensShaped(b)
  BY <1>1, FS_EmptySet DEF LensShaped
<1>3. <<>> \in Seq(Cells) /\ Len(<<>>) = 0
  OBVIOUS
<1>4. Placed(b)
  BY <1>1, <1>2, <1>3 DEF Placed
<1>5. Live(b) = 0
  BY <1>1, <1>3 DEF Live
<1>6. ASSUME NEW g, Sums(g, Held(b), LensOf(b)) PROVE g[Held(b)] = 0
  BY <1>1, <1>2, <1>6, LensNone
<1>7. Accounted(b)
  BY <1>1, <1>4, <1>5, <1>6 DEF Accounted
<1> HIDE DEF b
<1>8. Faithful(b, [i \in {} |-> 0], w)
  BY <1>1, <1>7, BufferAssumption DEF Faithful
<1>9. QED BY <1>8 DEF b

\* Nothing but the arena and the shreds in it bears on that.
LEMMA SameArena ==
  ASSUME NEW b, NEW c, c.arena = b.arena, c.capacity = b.capacity, c.stale = b.stale,
         c.shreds = b.shreds, NEW held, NEW w, Faithful(b, held, w)
  PROVE  Faithful(c, held, w)
<1>1. /\ Held(c) = Held(b) /\ Live(c) = Live(b) /\ LensOf(c) = LensOf(b)
      /\ \A i : ShredBytes(c, i) = ShredBytes(b, i)
  BY DEF Held, Live, LensOf, ShredBytes
<1>2. Placed(c)
  BY <1>1 DEF Faithful, Accounted, Placed, LensShaped
<1>3. Accounted(c)
  BY <1>1, <1>2 DEF Faithful, Accounted
<1>4. QED BY <1>1, <1>3 DEF Faithful

\* Storing a shred, whatever copy of it was held, keeps all of it.
LEMMA InsertFaithful ==
  ASSUME NEW w \in Wires, NEW s \in w, NEW b, Shaped(b), NEW held, Faithful(b, held, w)
  PROVE  Faithful(Insert(b, s.index, s.data, s.data_complete), Put(held, s.index, s), w)
<1> DEFINE i == s.index
           data == s.data
           complete == s.data_complete
           c == Insert(b, i, data, complete)
           now == Put(held, i, s)
           gone == Displaced(b, i)
<1>1. i \in 0..MAX_INDEX /\ data \in Seq(Cells) /\ complete \in BOOLEAN
  BY AssemblerAssumption DEF Cells
<1>2. /\ Accounted(b) /\ Held(b) = DOMAIN held
      /\ \A j \in Held(b) : /\ held[j] \in w
                            /\ ShredBytes(b, j) = held[j].data
                            /\ b.shreds[j].complete = held[j].data_complete
  BY DEF Faithful
<1> HIDE DEF i, data, complete
<1>3. /\ Placed(c) /\ Held(c) = Held(b) \cup {i}
      /\ ShredBytes(c, i) = data /\ c.shreds[i].complete = complete
      /\ \A j \in Held(b) \ {i} : /\ ShredBytes(c, j) = ShredBytes(b, j)
                                  /\ c.shreds[j].complete = b.shreds[j].complete
      /\ Live(c) = Live(b) + Len(data) - gone /\ Live(b) \in Int /\ gone \in Nat
      /\ \/ c.stale <= COMPACT_FLOOR + gone
         \/ c.stale <= Live(b) + gone
  BY <1>1, <1>2, InsertPlaces
<1>4. Accounted(c)
  BY <1>1, <1>2, InsertAccounts
<1>5. c.stale \in Int
  <2>1. Len(data) \in Nat
    BY <1>1
  <2>2. Shaped(c)
    BY <1>1, <2>1, InsertShape
  <2> HIDE DEF c
  <2>3. QED BY <2>2 DEF Shaped
<1> HIDE DEF c
<1>6. /\ Held(c) = DOMAIN now /\ now[i] = s
      /\ \A j \in Held(b) \ {i} : now[j] = held[j]
  BY <1>2, <1>3 DEF Put
<1> HIDE DEF now
<1>7. ASSUME NEW j \in Held(c)
      PROVE  /\ now[j] \in w /\ ShredBytes(c, j) = now[j].data
             /\ c.shreds[j].complete = now[j].data_complete
  <2>1. CASE j = i
    BY <1>3, <1>6, <2>1 DEF data, complete
  <2>2. CASE j # i
    BY <1>2, <1>3, <1>6, <1>7, <2>2
  <2>3. QED BY <2>1, <2>2
<1>8. ASSUME NEW longest \in Nat, \A t \in w : Len(t.data) <= longest
      PROVE  \/ c.stale <= COMPACT_FLOOR + longest
             \/ c.stale <= Live(c) + longest + longest
  <2> DEFINE len  == Len(data)
             live == Live(b)
             stale == c.stale
  <2>1. len \in Nat /\ len <= longest
    BY <1>1, <1>8 DEF data
  <2>2. gone <= longest
    <3>1. CASE i \in Held(b)
      <4>1. Placed(b)
        BY <1>2 DEF Accounted
      <4>2. Len(ShredBytes(b, i)) = b.shreds[i].len
        BY <3>1, <4>1, BytesOfShred
      <4>3. gone = Len(held[i].data) /\ held[i] \in w
        BY <1>2, <3>1, <4>2 DEF Displaced
      <4>4. QED BY <1>8, <4>3
    <3>2. CASE i \notin Held(b)
      BY <3>2 DEF Displaced
    <3>3. QED BY <3>1, <3>2
  <2>3. Live(c) = live + len - gone /\ live \in Int /\ gone \in Nat /\ stale \in Int
    BY <1>3, <1>5
  <2>4. stale <= COMPACT_FLOOR + gone \/ stale <= live + gone
    BY <1>3
  <2> HIDE DEF len, live, stale, gone
  <2>5. stale <= COMPACT_FLOOR + longest \/ stale <= Live(c) + longest + longest
    BY <2>1, <2>2, <2>3, <2>4, BufferAssumption
  <2>6. QED BY <2>5 DEF stale
<1>9. Faithful(c, now, w)
  BY <1>4, <1>6, <1>7, <1>8 DEF Faithful
<1>10. QED BY <1>9 DEF c, now, i, data, complete

\* So does the call: what closes the slot and what is read on are kept apart.
LEMMA TakenFaithful ==
  ASSUME NEW w \in Wires, NEW s \in w, NEW b, Settled(b), NEW held, Faithful(b, held, w)
  PROVE  Faithful(ReadBatches(Stored(b, s), s.index), Put(held, s.index, s), w)
<1> DEFINE closing == IF s.last_in_slot THEN [b EXCEPT !.last_index = s.index] ELSE b
           stored  == Insert(closing, s.index, s.data, s.data_complete)
           now     == Put(held, s.index, s)
<1>1. Shaped(closing)
  BY ClosingSettled DEF Settled, BufferSound
<1>2. Faithful(closing, held, w)
  <2>1. Shaped(b)
    BY DEF Settled, BufferSound
  <2>2. /\ closing.arena = b.arena /\ closing.capacity = b.capacity
        /\ closing.stale = b.stale /\ closing.shreds = b.shreds
    <3>1. PICK arena, capacity, stale, shreds, starts, progress, last :
            b = [arena |-> arena, capacity |-> capacity, stale |-> stale,
                 shreds |-> shreds, starts |-> starts, progress |-> progress,
                 last_index |-> last]
      BY <2>1, Zenon DEF Shaped
    <3>2. QED BY <3>1
  <2> HIDE DEF closing
  <2>3. QED BY <2>2, SameArena
<1>3. Stored(b, s) = stored
  BY DEF Stored
<1> HIDE DEF closing
<1>4. Faithful(stored, now, w)
  BY <1>1, <1>2, InsertFaithful
<1>5. Shaped(stored)
  <2>1. s.index \in 0..MAX_INDEX /\ Len(s.data) \in Nat /\ s.data_complete \in BOOLEAN
    BY AssemblerAssumption
  <2>2. QED BY <1>1, <2>1, InsertShape
<1> HIDE DEF stored, now
<1> DEFINE c == ReadBatches(stored, s.index)
<1>6. /\ c.arena = stored.arena /\ c.capacity = stored.capacity
      /\ c.stale = stored.stale /\ c.shreds = stored.shreds
  <2>1. PICK arena, capacity, stale, shreds, starts, progress, last :
          stored = [arena |-> arena, capacity |-> capacity, stale |-> stale,
                    shreds |-> shreds, starts |-> starts, progress |-> progress,
                    last_index |-> last]
    BY <1>5, Zenon DEF Shaped
  <2> DEFINE read == [t \in DOMAIN stored.progress \cup Candidates(stored, s.index) |->
                        IF t \in Candidates(stored, s.index)
                        THEN Pass(stored, t).progress ELSE stored.progress[t]]
  <2>2. c = [stored EXCEPT !.progress = read]
    BY DEF ReadBatches
  <2> HIDE DEF read, c
  <2>3. QED BY <2>1, <2>2
<1> HIDE DEF c
<1>7. Faithful(c, now, w)
  BY <1>4, <1>6, SameArena
<1>8. QED BY <1>3, <1>7 DEF c, now

----------------------------------------------------------------------------
(* The arenas of all slots.                                                 *)
\* What the arena is said to hold is what the copies amount to.
LEMMA LiveIsCarried ==
  ASSUME NEW b, NEW held, NEW w, Faithful(b, held, w)
  PROVE  Live(b) = Carried(held)
<1> DEFINE U == DOMAIN held
           Fold(h) == h = [T \in SUBSET U |->
                             IF T = {} THEN 0
                             ELSE Len(held[PickOf(T)].data) + h[T \ {PickOf(T)}]]
           f == [i \in U |-> Len(held[i].data)]
<1>1. Carried(held) = (CHOOSE h : Fold(h))[U]
  BY DEF Carried, MapThenSumSet, MapThenFoldSet, PickOf
<1>2. \A T \in SUBSET U : T # {} => f[PickOf(T)] = Len(held[PickOf(T)].data)
  BY PickIsIn
<1>3. Placed(b) /\ U = Held(b)
  BY DEF Faithful, Accounted
<1>4. \A i \in U : Len(held[i].data) = b.shreds[i].len /\ b.shreds[i].len \in Nat
  <2>1. SUFFICES ASSUME NEW i \in U
                 PROVE  Len(held[i].data) = b.shreds[i].len /\ b.shreds[i].len \in Nat
    OBVIOUS
  <2>2. Len(ShredBytes(b, i)) = b.shreds[i].len
    BY <1>3, BytesOfShred
  <2>3. QED BY <1>3, <2>2 DEF Faithful, Placed, LensShaped
<1>5. LensShaped(b)
  BY <1>3 DEF Placed
<1>6. IsFiniteSet(U) /\ f \in [U -> Int] /\ LensOf(b) \in [U -> Int]
  BY <1>3, <1>4, <1>5 DEF LensShaped, LensOf
<1>7. \A h : Fold(h) <=> Sums(h, U, f)
  <2> HIDE DEF f
  <2>1. QED BY <1>2 DEF Sums
<1>8. \A i \in U : f[i] = LensOf(b)[i]
  BY <1>3, <1>4 DEF LensOf
<1> DEFINE h == CHOOSE h : Fold(h)
<1>9. Fold(h)
  <2>1. \E e : Fold(e)
    <3> HIDE DEF Fold, f
    <3>1. QED BY <1>6, <1>7, SumsExist
  <2>2. QED BY <2>1
<1>10. Sums(h, U, f)
  <2> HIDE DEF Fold, h
  <2>1. QED BY <1>7, <1>9
<1>11. PICK g : Sums(g, Held(b), LensOf(b))
  BY <1>5, LensExist
<1>12. Live(b) = g[Held(b)]
  BY <1>11 DEF Faithful, Accounted
<1> HIDE DEF h, f, U
<1>13. h[U] = g[U]
  BY <1>3, <1>6, <1>8, <1>10, <1>11, SumsAgree
<1>14. QED BY <1>1, <1>3, <1>12, <1>13 DEF h

\* Between two calls, of every slot.
ArenaInv ==
  /\ \A slot \in Keys(slots) :
       Faithful(Buffer(slot), At(copies, slot, [i \in {} |-> 0]), wire)
  /\ Keys(slots) # {} => wire # {}

LEMMA ArenaInvImplies == AssemblerInv /\ ArenaInv => ArenaSound
<1> SUFFICES ASSUME AssemblerInv, ArenaInv, NEW slot \in DOMAIN copies
             PROVE  LET b       == Buffer(slot)
                        longest == Max({Len(s.data) : s \in wire})
                    IN
                    /\ Held(b) = DOMAIN copies[slot]
                    /\ \A i \in Held(b) :
                         /\ b.shreds[i].at + b.shreds[i].len <= Len(b.arena)
                         /\ ShredBytes(b, i) = copies[slot][i].data
                         /\ b.shreds[i].complete = copies[slot][i].data_complete
                    /\ Live(b) = Carried(copies[slot])
                    /\ b.stale <= Max({COMPACT_FLOOR, Live(b) + longest}) + longest
  BY DEF ArenaSound
<1> DEFINE b       == Buffer(slot)
           held    == copies[slot]
           lengths == {Len(s.data) : s \in wire}
           longest == Max(lengths)
           live    == Live(b)
           stale   == b.stale
<1>1. slot \in Keys(slots) /\ wire \in Wires
  BY DEF AssemblerInv, HistoriesSound
<1>2. Faithful(b, held, wire) /\ wire # {}
  BY <1>1 DEF ArenaInv, At
<1>3. /\ Placed(b) /\ Held(b) = DOMAIN held
      /\ \A i \in Held(b) : /\ ShredBytes(b, i) = held[i].data
                            /\ b.shreds[i].complete = held[i].data_complete
  BY <1>2 DEF Faithful, Accounted
<1>4. \A i \in Held(b) : b.shreds[i].at + b.shreds[i].len <= Len(b.arena)
  BY <1>3 DEF Placed
<1>5. live = Carried(held)
  BY <1>2, LiveIsCarried
<1>6. longest \in Nat /\ \A s \in wire : Len(s.data) <= longest
  <2>1. IsFiniteSet(lengths) /\ lengths \subseteq Nat /\ lengths # {}
    <3>1. \A s \in wire : Len(s.data) \in Nat
      BY <1>1, AssemblerAssumption
    <3>2. QED BY <1>1, <1>2, <3>1, AssemblerAssumption
  <2>2. \A s \in wire : Len(s.data) \in lengths
    OBVIOUS
  <2> HIDE DEF lengths
  <2>3. longest \in lengths /\ \A x \in lengths : longest >= x
    BY <2>1, FiniteMax
  <2> HIDE DEF longest
  <2>4. QED BY <2>1, <2>2, <2>3
<1>7. stale \in Nat /\ live \in Int
  <2>1. stale \in Nat
    BY <1>1 DEF AssemblerInv, MapSound, Settled, BufferSound, Shaped, Buffer
  <2>2. Len(b.arena) \in Nat
    BY <1>3 DEF Placed
  <2>3. QED BY <2>1, <2>2 DEF Live
<1> HIDE DEF lengths, longest
<1>8. stale <= COMPACT_FLOOR + longest \/ stale <= live + longest + longest
  BY <1>2, <1>6 DEF Faithful
<1>9. stale <= Max({COMPACT_FLOOR, live + longest}) + longest
  <2> DEFINE more == live + longest
             most == Max({COMPACT_FLOOR, more})
  <2>1. COMPACT_FLOOR \in Int /\ more \in Int
    BY <1>6, <1>7, BufferAssumption
  <2> HIDE DEF live, stale
  <2>2. stale <= COMPACT_FLOOR + longest \/ stale <= more + longest
    BY <1>8
  <2> HIDE DEF more
  <2>3. most \in Int /\ most >= COMPACT_FLOOR /\ most >= more
    BY <2>1, MaxOfTwo
  <2> HIDE DEF most
  <2>4. stale <= most + longest
    BY <1>6, <1>7, <2>1, <2>2, <2>3
  <2>5. QED BY <2>4 DEF most, more
<1>10. QED BY <1>3, <1>4, <1>5, <1>9 DEF longest, lengths

LEMMA ArenaInit == Init => ArenaInv
BY DEF Init, ArenaInv, New, Keys

\* What is left by a sweep is left as it was, its history with it.
LEMMA SweptKeeps ==
  ASSUME NEW dt \in Nat
  PROVE  /\ Keys(Swept(dt)) \subseteq Keys(slots)
         /\ \A slot \in Keys(Swept(dt)) :
              Swept(dt).entries[slot].value = slots.entries[slot].value
<1> DEFINE now == Now(dt)
           kept == {k \in Keys(now) : k \notin Dropped(now, RETENTION, MAX_BUFFERED_SLOTS)}
<1>1. Keys(now) = Keys(slots) /\ \A k \in Keys(now) : now.entries[k].value = slots.entries[k].value
  BY DEF Now, Elapsed, Keys
<1>2. CASE ~SweepDue(now, MAX_BUFFERED_SLOTS)
  BY <1>1, <1>2 DEF Swept, Sweep
<1>3. CASE SweepDue(now, MAX_BUFFERED_SLOTS)
  <2>1. Swept(dt) = [entries |-> [k \in kept |-> now.entries[k]], since |-> 0]
    BY <1>3 DEF Swept, Sweep, RestrictDomain, Restrict, Keys
  <2>2. kept \subseteq Keys(now)
    OBVIOUS
  <2> HIDE DEF now, kept
  <2>3. Keys(Swept(dt)) = kept /\ \A k \in kept : Swept(dt).entries[k] = now.entries[k]
    BY <2>1 DEF Keys
  <2>4. QED BY <1>1, <2>2, <2>3
<1>4. QED BY <1>2, <1>3

LEMMA SurvivingAt ==
  ASSUME NEW history, NEW dt, NEW slot \in Keys(Swept(dt)), NEW none
  PROVE  At(Surviving(history, dt), slot, none) = At(history, slot, none)
BY DEF At, Surviving, Restrict

LEMMA UpsertPuts ==
  ASSUME NEW m, NEW slot, NEW b
  PROVE  LET n == Upsert(m, slot, b) IN
         /\ Keys(n) = Keys(m) \cup {slot}
         /\ n.entries[slot].value = b
         /\ \A k \in Keys(m) \ {slot} : n.entries[k] = m.entries[k]
<1> DEFINE all == [j \in Keys(m) \cup {slot} |->
                     IF j = slot THEN [age |-> 0, value |-> b] ELSE m.entries[j]]
<1>1. Upsert(m, slot, b).entries = all
  BY DEF Upsert
<1>2. QED BY <1>1 DEF Keys

LEMMA ArenaStep == AssemblerInv /\ ArenaInv /\ [Next]_vars => ArenaInv'
<1> SUFFICES ASSUME AssemblerInv, ArenaInv, [Next]_vars PROVE ArenaInv'
  OBVIOUS
<1> DEFINE none == [i \in {} |-> 0]
<1>1. CASE UNCHANGED vars
  BY <1>1 DEF ArenaInv, Buffer, At, vars
<1>2. CASE Next
  <2>1. PICK s \in wire, dt \in Ticks : OverBudget(s, dt) \/ SlotFull(s, dt) \/ Take(s, dt)
    BY <1>2 DEF Next
  <2>2. /\ dt \in Nat /\ wire \in Wires /\ MapSound(slots)
        /\ DOMAIN Surviving(copies, dt) \subseteq Keys(Swept(dt))
    BY AssemblerAssumption, SurvivingSound DEF AssemblerInv
  <2> DEFINE swept == Swept(dt)
             kept  == Surviving(copies, dt)
             old   == BufferOf(swept, s.slot)
  <2>3. /\ wire' = wire /\ wire' # {}
    BY <2>1 DEF OverBudget, SlotFull, Take, Begin
  \* What the sweep leaves.
  <2>4. \A k \in Keys(swept) : Faithful(swept.entries[k].value, At(kept, k, none), wire)
    <3>1. SUFFICES ASSUME NEW k \in Keys(swept)
                   PROVE  Faithful(swept.entries[k].value, At(kept, k, none), wire)
      OBVIOUS
    <3>2. k \in Keys(slots) /\ swept.entries[k].value = Buffer(k)
      BY <2>2, SweptKeeps DEF Buffer
    <3>3. At(kept, k, none) = At(copies, k, none)
      BY SurvivingAt
    <3>4. QED BY <3>2, <3>3 DEF ArenaInv
  \* The buffer the call touches, found or made.
  <2>5. Faithful(old, At(kept, s.slot, none), wire) /\ Settled(old)
    <3>1. Settled(old)
      BY <2>2, SweptSound, BufferOfSettled
    <3>2. CASE s.slot \in Keys(swept)
      BY <2>4, <3>1, <3>2 DEF BufferOf, ValueOf
    <3>3. CASE s.slot \notin Keys(swept)
      <4>1. old = NewBuffer /\ At(kept, s.slot, none) = none
        BY <2>2, <3>3 DEF BufferOf, ValueOf, At
      <4>2. QED BY <3>1, <4>1, NewIsFaithful
    <3>4. QED BY <3>2, <3>3
  <2> HIDE DEF swept, kept, old, none
  <2>6. CASE OverBudget(s, dt)
    <3>1. slots' = swept /\ copies' = kept
      BY <2>6 DEF OverBudget, swept, kept
    <3>2. \A k \in Keys(slots') : Faithful(slots'.entries[k].value, At(copies', k, none), wire')
      BY <2>3, <2>4, <3>1
    <3>3. QED BY <2>3, <3>2 DEF ArenaInv, Buffer, At, none
  <2>7. CASE SlotFull(s, dt)
    <3>1. slots' = Upsert(swept, s.slot, old) /\ copies' = kept
      BY <2>7 DEF SlotFull, swept, kept, old
    <3>2. /\ Keys(slots') = Keys(swept) \cup {s.slot}
          /\ slots'.entries[s.slot].value = old
          /\ \A k \in Keys(swept) \ {s.slot} : slots'.entries[k] = swept.entries[k]
      BY <3>1, UpsertPuts
    <3>3. \A k \in Keys(slots') : Faithful(slots'.entries[k].value, At(copies', k, none), wire')
      BY <2>3, <2>4, <2>5, <3>1, <3>2
    <3>4. QED BY <2>3, <3>3 DEF ArenaInv, Buffer, At, none
  <2>8. CASE Take(s, dt)
    <3> DEFINE held == At(kept, s.slot, none)
               new  == ReadBatches(Stored(old, s), s.index)
               now  == Put(held, s.index, s)
    <3>1. slots' = Upsert(swept, s.slot, new) /\ copies' = Put(kept, s.slot, now)
      BY <2>8 DEF Take, swept, kept, old, none
    <3>2. Faithful(new, now, wire)
      BY <2>2, <2>5, TakenFaithful
    <3> HIDE DEF new, now
    <3>3. /\ Keys(slots') = Keys(swept) \cup {s.slot}
          /\ slots'.entries[s.slot].value = new
          /\ \A k \in Keys(swept) \ {s.slot} : slots'.entries[k] = swept.entries[k]
      BY <3>1, UpsertPuts
    <3>4. /\ At(copies', s.slot, none) = now
          /\ \A k \in Keys(swept) \ {s.slot} : At(copies', k, none) = At(kept, k, none)
      BY <3>1 DEF At, Put
    <3>5. ASSUME NEW k \in Keys(slots')
          PROVE  Faithful(slots'.entries[k].value, At(copies', k, none), wire')
      <4>1. CASE k = s.slot
        BY <2>3, <3>2, <3>3, <3>4, <4>1
      <4>2. CASE k # s.slot
        BY <2>3, <2>4, <3>3, <3>4, <3>5, <4>2
      <4>3. QED BY <4>1, <4>2
    <3>6. QED BY <2>3, <3>5 DEF ArenaInv, Buffer, At, none
  <2>9. QED BY <2>1, <2>6, <2>7, <2>8
<1>3. QED BY <1>1, <1>2

\* Whatever copies arrive in whatever order, and however often the arena is
\* rebuilt around them, it holds the last copy of every shred and strands a
\* bounded rest.
THEOREM ArenaIsSound == Spec => []ArenaSound
<1>1. AssemblerInv /\ ArenaInv /\ [Next]_vars => (AssemblerInv /\ ArenaInv)'
  BY AssemblerStep, ArenaStep
<1>2. Spec => [](AssemblerInv /\ ArenaInv)
  BY <1>1, AssemblerInit, ArenaInit, PTL DEF Spec
<1>3. QED BY <1>2, ArenaInvImplies, PTL

----------------------------------------------------------------------------
(* The budget.                                                              *)

\* Every buffer has a footprint, and the slots are finitely many.
MapFoot(m) ==
  IsFiniteSet(Keys(m)) /\ \A s \in Keys(m) : Footprint(m.entries[s].value) \in Nat

FootOf(m) == [s \in Keys(m) |-> Footprint(m.entries[s].value)]

LEMMA TotalIsSum ==
  ASSUME NEW m, MapFoot(m), NEW g, Sums(g, Keys(m), FootOf(m))
  PROVE  TotalFootprint(m) = g[Keys(m)]
<1> DEFINE U == Keys(m)
           Fold(h) == h = [T \in SUBSET U |->
                             IF T = {} THEN 0
                             ELSE Footprint(m.entries[PickOf(T)].value) + h[T \ {PickOf(T)}]]
           f == FootOf(m)
<1>1. TotalFootprint(m) = (CHOOSE h : Fold(h))[U]
  BY DEF TotalFootprint, MapThenSumSet, MapThenFoldSet, PickOf
<1>2. \A T \in SUBSET U : T # {} => f[PickOf(T)] = Footprint(m.entries[PickOf(T)].value)
  BY PickIsIn DEF FootOf
<1>3. IsFiniteSet(U) /\ f \in [U -> Int]
  BY DEF MapFoot, FootOf
<1>4. \A h : Fold(h) <=> Sums(h, U, f)
  <2> HIDE DEF f
  <2>1. QED BY <1>2 DEF Sums
<1> DEFINE h == CHOOSE h : Fold(h)
<1>5. Fold(h)
  <2>1. \E e : Fold(e)
    <3> HIDE DEF Fold, f
    <3>1. QED BY <1>3, <1>4, SumsExist
  <2>2. QED BY <2>1
<1>6. Sums(h, U, f)
  <2> HIDE DEF Fold, h
  <2>1. QED BY <1>4, <1>5
<1>7. Sums(g, U, f) /\ U \subseteq U /\ \A x \in U : f[x] = f[x]
  OBVIOUS
<1> HIDE DEF h, f, U
<1>8. h[U] = g[U]
  BY <1>3, <1>6, <1>7, SumsAgree
<1>9. QED BY <1>1, <1>8 DEF h, U

\* Of all of them, one and the rest.
LEMMA SumsWhole ==
  ASSUME NEW S, IsFiniteSet(S), NEW f \in [S -> Int], NEW g, Sums(g, S, f), NEW x \in S
  PROVE  g[S] = f[x] + g[S \ {x}] /\ g[S] \in Int /\ g[S \ {x}] \in Int
<1> DEFINE T == S
           Q == S \ {x}
<1>1. T \in SUBSET S /\ Q \in SUBSET S /\ T \ {x} = Q /\ x \in T
  OBVIOUS
<1> HIDE DEF T, Q
<1>2. g[T] = f[x] + g[T \ {x}]
  BY <1>1, SumsTake
<1>3. g[T] \in Int /\ g[Q] \in Int
  BY <1>1, SumsTake
<1>4. g[T] = f[x] + g[Q] /\ g[T] \in Int /\ g[Q] \in Int
  BY <1>1, <1>2, <1>3
<1>5. QED BY <1>4 DEF T, Q

LEMMA FootsExist ==
  ASSUME NEW m, MapFoot(m)
  PROVE  \E g : Sums(g, Keys(m), FootOf(m))
<1>1. FootOf(m) \in [Keys(m) -> Int] /\ IsFiniteSet(Keys(m))
  BY DEF MapFoot, FootOf
<1>2. QED BY <1>1, SumsExist

\* Of what is left of a map, the total is the sum over what is left.
LEMMA PartTotal ==
  ASSUME NEW m, MapFoot(m), NEW n, Keys(n) \subseteq Keys(m),
         \A s \in Keys(n) : n.entries[s].value = m.entries[s].value,
         NEW g, Sums(g, Keys(m), FootOf(m))
  PROVE  MapFoot(n) /\ TotalFootprint(n) = g[Keys(n)]
<1> DEFINE S == Keys(m)
           R == Keys(n)
           f == FootOf(m)
           e == FootOf(n)
<1>1. MapFoot(n)
  BY FS_Subset DEF MapFoot
<1>2. PICK h : Sums(h, R, e)
  BY <1>1, FootsExist
<1>3. TotalFootprint(n) = h[R]
  BY <1>1, <1>2, TotalIsSum
<1>4. /\ IsFiniteSet(S) /\ f \in [S -> Int] /\ Sums(g, S, f)
      /\ IsFiniteSet(R) /\ e \in [R -> Int]
      /\ R \subseteq S /\ R \subseteq R /\ \A x \in R : f[x] = e[x]
  BY <1>1 DEF MapFoot, FootOf
<1> HIDE DEF S, R, f, e
<1>5. g[R] = h[R]
  BY <1>2, <1>4, SumsAgree
<1>6. QED BY <1>1, <1>3, <1>5 DEF R

\* What a sweep takes off: nothing is added, and a slot that goes takes its
\* footprint along.
LEMMA LeftTotal ==
  ASSUME NEW m, MapFoot(m), NEW n, Keys(n) \subseteq Keys(m),
         \A s \in Keys(n) : n.entries[s].value = m.entries[s].value
  PROVE  /\ MapFoot(n)
         /\ TotalFootprint(n) \in Nat /\ TotalFootprint(m) \in Nat
         /\ TotalFootprint(n) <= TotalFootprint(m)
         /\ Keys(n) = Keys(m) => TotalFootprint(n) = TotalFootprint(m)
         /\ \A s \in Keys(m) \ Keys(n) :
              TotalFootprint(n) + Footprint(m.entries[s].value) <= TotalFootprint(m)
<1> DEFINE S == Keys(m)
           R == Keys(n)
           f == FootOf(m)
<1>1. PICK g : Sums(g, S, f)
  BY FootsExist
<1>2. MapFoot(n) /\ TotalFootprint(n) = g[R] /\ TotalFootprint(m) = g[S]
  BY <1>1, PartTotal, TotalIsSum
<1>3. /\ IsFiniteSet(S) /\ f \in [S -> Nat] /\ f \in [S -> Int] /\ R \subseteq S
      /\ \A s \in S : f[s] = Footprint(m.entries[s].value) /\ f[s] \in Nat
  BY DEF MapFoot, FootOf
<1> HIDE DEF S, R, f
<1>4. S \in SUBSET S /\ R \in SUBSET S
  BY <1>3
<1>5. g[R] <= g[S] /\ g[R] \in Nat /\ g[S] <= g[S] /\ g[S] \in Nat
  BY <1>1, <1>3, <1>4, SumsGrow
<1>6. ASSUME NEW s \in S \ R
      PROVE  g[R] + f[s] <= g[S]
  <2> DEFINE Q == S \ {s}
  <2>1. Q \in SUBSET S /\ R \in SUBSET Q /\ s \in S
    BY <1>4
  <2>2. g[S] = f[s] + g[S \ {s}]
    <3>1. IsFiniteSet(S) /\ f \in [S -> Int] /\ Sums(g, S, f) /\ s \in S
      BY <1>1, <1>3, <2>1
    <3>2. QED BY <3>1, SumsWhole
  <2> HIDE DEF Q
  <2>3. g[R] <= g[Q]
    BY <1>1, <1>3, <2>1, SumsGrow
  <2>4. g[Q] \in Int
    BY <1>1, <1>3, <2>1, SumsTake
  <2>5. f[s] \in Nat /\ g[S] = f[s] + g[Q]
    BY <1>3, <2>2 DEF Q
  <2>6. QED BY <1>5, <2>3, <2>4, <2>5
<1>7. \A s \in S \ R : g[R] + Footprint(m.entries[s].value) <= g[S]
  BY <1>3, <1>6
<1>8. QED BY <1>2, <1>5, <1>7 DEF S, R

LEMMA NewCostsNothing == Footprint(NewBuffer) = 0
<1>1. Cardinality({}) = 0
  BY FS_EmptySet
<1>2. /\ NewBuffer.capacity = 0 /\ Held(NewBuffer) = {} /\ DOMAIN NewBuffer.progress = {}
  BY DEF NewBuffer, Held
<1>3. QED BY <1>1, <1>2, AssemblerAssumption DEF Footprint

\* Storing a buffer changes the total by what it costs more than the last.
LEMMA UpsertTotal ==
  ASSUME NEW m, MapFoot(m), NEW slot, NEW b, Footprint(b) \in Nat
  PROVE  LET n == Upsert(m, slot, b) IN
         /\ MapFoot(n)
         /\ TotalFootprint(n) =
              TotalFootprint(m) + Footprint(b) - Footprint(BufferOf(m, slot))
         /\ TotalFootprint(m) \in Int /\ Footprint(BufferOf(m, slot)) \in Nat
<1> DEFINE n == Upsert(m, slot, b)
           S == Keys(m)
           f == FootOf(m)
           R == Keys(n)
           e == FootOf(n)
           U == S \ {slot}
           was == Footprint(BufferOf(m, slot))
<1>1. /\ R = S \cup {slot} /\ n.entries[slot].value = b
      /\ \A k \in U : n.entries[k] = m.entries[k]
  BY UpsertPuts
<1> HIDE DEF n
<1>2. MapFoot(n)
  <2>1. IsFiniteSet(R)
    <3>1. IsFiniteSet(S)
      BY DEF MapFoot
    <3> HIDE DEF S, R
    <3>2. QED BY <1>1, <3>1, FS_AddElement
  <2>2. \A s \in R : Footprint(n.entries[s].value) \in Nat
    BY <1>1 DEF MapFoot
  <2>3. QED BY <2>1, <2>2 DEF MapFoot
<1>3. PICK g : Sums(g, S, f)
  BY FootsExist
<1>4. PICK h : Sums(h, R, e)
  BY <1>2, FootsExist
<1>5. TotalFootprint(m) = g[S] /\ TotalFootprint(n) = h[R]
  BY <1>2, <1>3, <1>4, TotalIsSum
<1>6. /\ IsFiniteSet(S) /\ f \in [S -> Int] /\ IsFiniteSet(R) /\ e \in [R -> Int]
      /\ \A x \in U : f[x] = e[x]
      /\ e[slot] = Footprint(b)
  BY <1>1, <1>2 DEF MapFoot, FootOf
<1>7. slot \in S => was = f[slot] /\ was \in Nat
  BY DEF BufferOf, ValueOf, FootOf, MapFoot
<1>8. slot \notin S => was = 0
  BY NewCostsNothing DEF BufferOf, ValueOf
<1>9. S \ {slot} = U /\ U \subseteq S /\ U \subseteq R /\ U = R \ {slot} /\ slot \in R /\ (slot \notin S => U = S)
  BY <1>1
<1> HIDE DEF S, f, R, e, U, was
<1>10. g[U] = h[U]
  BY <1>3, <1>4, <1>6, <1>9, SumsAgree
<1>11. S \in SUBSET S /\ R \in SUBSET R /\ U \in SUBSET S
  BY <1>9
<1>12. h[R] = e[slot] + h[R \ {slot}]
  <2>1. IsFiniteSet(R) /\ e \in [R -> Int] /\ Sums(h, R, e) /\ slot \in R
    BY <1>4, <1>6, <1>9
  <2>2. QED BY <2>1, SumsWhole
<1>13. g[S] \in Int /\ g[U] \in Int
  BY <1>3, <1>6, <1>11, SumsTake
<1>14. was \in Nat /\ g[S] = was + g[U]
  <2>1. CASE slot \in S
    <3>1. g[S] = f[slot] + g[U]
      <4>1. IsFiniteSet(S) /\ f \in [S -> Int] /\ Sums(g, S, f) /\ slot \in S
        BY <1>3, <1>6, <2>1
      <4>2. g[S] = f[slot] + g[S \ {slot}]
        BY <4>1, SumsWhole
      <4>3. QED BY <1>9, <4>2
    <3>2. QED BY <1>7, <1>13, <2>1, <3>1
  <2>2. CASE slot \notin S
    <3>1. U = S /\ was = 0
      BY <1>8, <1>9, <2>2
    <3>2. QED BY <1>13, <3>1
  <2>3. QED BY <2>1, <2>2
<1>15. h[R] = Footprint(b) + g[U]
  BY <1>6, <1>9, <1>10, <1>12
<1>16. h[R] = g[S] + Footprint(b) - was
  <2> DEFINE foot == Footprint(b)
  <2>1. foot \in Nat /\ h[R] = foot + g[U]
    BY <1>15
  <2> HIDE DEF foot
  <2>2. h[R] = g[S] + foot - was
    BY <1>13, <1>14, <2>1
  <2>3. QED BY <2>2 DEF foot
<1>17. QED BY <1>2, <1>5, <1>13, <1>14, <1>16 DEF n, was

----------------------------------------------------------------------------
(* What one shred can add to the footprint of its slot.                     *)

LEMMA OneMore ==
  ASSUME NEW S, IsFiniteSet(S), NEW x
  PROVE  /\ IsFiniteSet(S \cup {x})
         /\ Cardinality(S) \in Nat /\ Cardinality(S \cup {x}) \in Nat
         /\ \/ Cardinality(S \cup {x}) = Cardinality(S)
            \/ Cardinality(S \cup {x}) = Cardinality(S) + 1
<1>1. IsFiniteSet(S \cup {x})
  BY FS_AddElement
<1>2. Cardinality(S) \in Nat /\ Cardinality(S \cup {x}) \in Nat
  BY <1>1, FS_CardinalityType
<1>3. CASE x \in S
  <2>1. S \cup {x} = S
    BY <1>3
  <2>2. QED BY <1>1, <1>2, <2>1
<1>4. CASE x \notin S
  BY <1>1, <1>2, <1>4, FS_AddElement
<1>5. QED BY <1>3, <1>4

LEMMA TimesTwoMore ==
  ASSUME NEW n \in Nat, NEW m \in Nat, NEW c \in Nat, m = n \/ m = n + 1 \/ m = (n + 1) + 1
  PROVE  /\ n * c \in Nat /\ m * c \in Nat /\ m * c <= n * c + c + c
         /\ m # (n + 1) + 1 => m * c <= n * c + c
<1>1. n * c \in Nat /\ m * c \in Nat
  OBVIOUS
<1>2. CASE m = n
  BY <1>1, <1>2
<1>3. CASE m = n + 1
  <2>1. (n + 1) * c = n * c + c
    OBVIOUS
  <2>2. QED BY <1>1, <1>3, <2>1
<1>4. CASE m = (n + 1) + 1
  <2>1. ((n + 1) + 1) * c = n * c + c + c
    OBVIOUS
  <2>2. QED BY <1>1, <1>4, <2>1
<1>5. QED BY <1>2, <1>3, <1>4

\* Shreds and batches of a buffer are finitely many.
LEMMA PartsFinite ==
  ASSUME NEW b, Shaped(b)
  PROVE  IsFiniteSet(Held(b)) /\ IsFiniteSet(DOMAIN b.progress)
<1>1. 0..MAX_INDEX \subseteq Nat /\ IsFiniteSet(0..MAX_INDEX) /\ IsFiniteSet(0..(MAX_INDEX + 1))
  BY BufferAssumption, FS_Interval
<1>2. Held(b) \subseteq 0..MAX_INDEX
  BY DEF Shaped, ShredsShaped
<1>3. {0} \cup {i + 1 : i \in Held(b)} \subseteq 0..(MAX_INDEX + 1)
  BY <1>2, BufferAssumption
<1>4. DOMAIN b.progress \subseteq 0..(MAX_INDEX + 1)
  BY <1>3 DEF Shaped
<1>5. QED BY <1>1, <1>2, <1>4, FS_Subset

\* A footprint is a number, and no less than the arena.
LEMMA FootprintIsNat ==
  ASSUME NEW b, Shaped(b), b.capacity \in Nat
  PROVE  Footprint(b) \in Nat /\ b.capacity <= Footprint(b)
<1> DEFINE n == Cardinality(Held(b))
           k == Cardinality(DOMAIN b.progress)
<1>1. n \in Nat /\ k \in Nat
  BY PartsFinite, FS_CardinalityType
<1>2. PER_SHRED_OVERHEAD \in Nat /\ PER_BATCH_OVERHEAD \in Nat
  BY AssemblerAssumption
<1> HIDE DEF n, k
<1>3. n * PER_SHRED_OVERHEAD \in Nat /\ k * PER_BATCH_OVERHEAD \in Nat
  BY <1>1, <1>2
<1>4. Footprint(b) = b.capacity + n * PER_SHRED_OVERHEAD + k * PER_BATCH_OVERHEAD
  BY DEF Footprint, n, k
<1>5. QED BY <1>3, <1>4

\* Storing a shred and reading on adds one shred and at most two batches.
LEMMA TakenFoot ==
  ASSUME wire \in Wires, NEW s \in wire, NEW b, Settled(b), b.capacity \in Nat,
         ReadBatches(Stored(b, s), s.index).capacity \in Nat
  PROVE  LET new == ReadBatches(Stored(b, s), s.index) IN
         /\ Footprint(new) \in Nat /\ new.capacity <= Footprint(new)
         /\ Footprint(new) - Footprint(b) <=
              new.capacity + PER_SHRED_OVERHEAD + PER_BATCH_OVERHEAD + PER_BATCH_OVERHEAD
<1> DEFINE closing == IF s.last_in_slot THEN [b EXCEPT !.last_index = s.index] ELSE b
           stored  == Stored(b, s)
           new     == ReadBatches(stored, s.index)
           near    == Containing(stored, s.index)
           D       == DOMAIN b.progress
           H       == Held(b)
<1>1. /\ s.index \in 0..MAX_INDEX /\ Len(s.data) \in Nat /\ s.data_complete \in BOOLEAN
      /\ new.capacity \in Nat /\ b.capacity \in Nat
  BY AssemblerAssumption
<1>2. Shaped(b) /\ Shaped(closing) /\ Held(closing) = H /\ DOMAIN closing.progress = D
  <2>1. Shaped(b) /\ Settled(closing)
    BY ClosingSettled DEF Settled, BufferSound
  <2>2. PICK arena, capacity, stale, shreds, starts, progress, last :
          b = [arena |-> arena, capacity |-> capacity, stale |-> stale,
               shreds |-> shreds, starts |-> starts, progress |-> progress,
               last_index |-> last]
    BY <2>1, Zenon DEF Shaped
  <2>3. Held(closing) = H /\ DOMAIN closing.progress = D
    BY <2>2 DEF Held
  <2>4. QED BY <2>1, <2>3 DEF Settled, BufferSound
<1>3. Shaped(stored) /\ Held(stored) = H \cup {s.index} /\ DOMAIN stored.progress = D
  <2>1. stored = Insert(closing, s.index, s.data, s.data_complete)
    BY DEF Stored
  <2> HIDE DEF closing, stored
  <2>2. QED BY <1>1, <1>2, <2>1, InsertShape
<1>4. Shaped(new)
  BY TakenSettled DEF Settled, BufferSound
<1> HIDE DEF stored
<1>5. Held(new) = H \cup {s.index} /\ DOMAIN new.progress = D \cup Candidates(stored, s.index)
  <2>1. PICK arena, capacity, stale, shreds, starts, progress, last :
          stored = [arena |-> arena, capacity |-> capacity, stale |-> stale,
                    shreds |-> shreds, starts |-> starts, progress |-> progress,
                    last_index |-> last]
    BY <1>3, Zenon DEF Shaped
  <2> DEFINE read == [t \in DOMAIN stored.progress \cup Candidates(stored, s.index) |->
                        IF t \in Candidates(stored, s.index)
                        THEN Pass(stored, t).progress ELSE stored.progress[t]]
  <2>2. new = [stored EXCEPT !.progress = read] /\ DOMAIN read = D \cup Candidates(stored, s.index)
    BY <1>3 DEF ReadBatches
  <2> HIDE DEF read, new
  <2>3. new.shreds = stored.shreds /\ new.progress = read
    BY <2>1, <2>2
  <2>4. QED BY <1>3, <2>2, <2>3 DEF Held
<1>6. /\ Cardinality(H) \in Nat /\ Cardinality(Held(new)) \in Nat
      /\ \/ Cardinality(Held(new)) = Cardinality(H)
         \/ Cardinality(Held(new)) = Cardinality(H) + 1
  <2>1. IsFiniteSet(H)
    BY <1>2, PartsFinite
  <2> HIDE DEF H, new
  <2>2. QED BY <1>5, <2>1, OneMore
<1>7. /\ Cardinality(D) \in Nat /\ Cardinality(DOMAIN new.progress) \in Nat
      /\ \/ Cardinality(DOMAIN new.progress) = Cardinality(D)
         \/ Cardinality(DOMAIN new.progress) = Cardinality(D) + 1
         \/ Cardinality(DOMAIN new.progress) = (Cardinality(D) + 1) + 1
  <2> DEFINE E == D \cup {near}
             F == E \cup {s.index + 1}
  <2>1. IsFiniteSet(D)
    BY <1>2, PartsFinite
  <2>2. DOMAIN new.progress = E \/ DOMAIN new.progress = F
    <3>1. Candidates(stored, s.index) = {near} \/ Candidates(stored, s.index) = {near, s.index + 1}
      BY DEF Candidates
    <3>2. QED BY <1>5, <3>1
  <2> HIDE DEF D, E, F, new, near
  <2>3. /\ IsFiniteSet(E) /\ Cardinality(D) \in Nat /\ Cardinality(E) \in Nat
        /\ Cardinality(E) = Cardinality(D) \/ Cardinality(E) = Cardinality(D) + 1
    BY <2>1, OneMore DEF E
  <2>4. /\ Cardinality(F) \in Nat
        /\ Cardinality(F) = Cardinality(E) \/ Cardinality(F) = Cardinality(E) + 1
    BY <2>3, OneMore DEF F
  <2>5. QED BY <2>2, <2>3, <2>4
<1>8. Footprint(new) \in Nat /\ new.capacity <= Footprint(new)
  BY <1>1, <1>4, FootprintIsNat
<1> DEFINE n == Cardinality(H)
           m == Cardinality(Held(new))
           k == Cardinality(D)
           j == Cardinality(DOMAIN new.progress)
           p == PER_SHRED_OVERHEAD
           q == PER_BATCH_OVERHEAD
<1>9. p \in Nat /\ q \in Nat
  BY AssemblerAssumption
<1>10. /\ Footprint(new) = new.capacity + m * p + j * q
       /\ Footprint(b) = b.capacity + n * p + k * q
  BY DEF Footprint
<1>11. /\ n \in Nat /\ m \in Nat /\ k \in Nat /\ j \in Nat
       /\ m = n \/ m = n + 1
       /\ j = k \/ j = k + 1 \/ j = (k + 1) + 1
  BY <1>6, <1>7
<1> HIDE DEF n, m, k, j, p, q
<1>12. n * p \in Nat /\ m * p \in Nat /\ m * p <= n * p + p
  <2>1. m # (n + 1) + 1
    BY <1>11
  <2>2. QED BY <1>9, <1>11, <2>1, TimesTwoMore
<1>13. k * q \in Nat /\ j * q \in Nat /\ j * q <= k * q + q + q
  BY <1>9, <1>11, TimesTwoMore
<1> DEFINE np == n * p
           mp == m * p
           kq == k * q
           jq == j * q
           was == b.capacity
           is  == new.capacity
<1>14. is \in Nat /\ was \in Nat
  BY <1>1
<1>15. /\ np \in Nat /\ mp \in Nat /\ mp <= np + p
       /\ kq \in Nat /\ jq \in Nat /\ jq <= kq + q + q
       /\ Footprint(new) = is + mp + jq /\ Footprint(b) = was + np + kq
  BY <1>10, <1>12, <1>13
<1> HIDE DEF np, mp, kq, jq, was, is
<1>16. Footprint(new) - Footprint(b) <= is + p + q + q
  BY <1>9, <1>14, <1>15
<1>17. QED BY <1>8, <1>16 DEF p, q, is, stored

----------------------------------------------------------------------------
(* The running total under a call.                                          *)

\* Within the budget, but for the second batch a closing shred begins and what
\* the arena of one slot still held has doubled to.
WithinBudget(m) ==
  \/ TotalFootprint(m) <= MAX_BUFFERED_BYTES + PER_BATCH_OVERHEAD
  \/ \E slot \in Keys(m) :
       TotalFootprint(m) <=
         MAX_BUFFERED_BYTES + PER_BATCH_OVERHEAD + m.entries[slot].value.capacity

BudgetInv == MapFoot(slots) /\ bytes = TotalFootprint(slots) /\ WithinBudget(slots)

LEMMA BudgetInit == Init => BudgetInv
<1> SUFFICES ASSUME Init PROVE BudgetInv
  OBVIOUS
<1>1. slots = New /\ bytes = 0 /\ Keys(New) = {}
  BY DEF Init, New, Keys
<1> DEFINE m == New
<1>2. MapFoot(m) /\ Keys(m) = {}
  BY <1>1, FS_EmptySet DEF MapFoot
<1> HIDE DEF m
<1>3. PICK g : Sums(g, Keys(m), FootOf(m))
  BY <1>2, FootsExist
<1>4. TotalFootprint(m) = g[Keys(m)]
  BY <1>2, <1>3, TotalIsSum
<1>5. g[{}] = 0
  BY <1>3 DEF Sums
<1>6. TotalFootprint(m) = 0
  BY <1>2, <1>4, <1>5
<1>7. WithinBudget(m)
  BY <1>6, AssemblerAssumption DEF WithinBudget
<1>8. QED BY <1>1, <1>2, <1>6, <1>7 DEF BudgetInv, m

\* A sweep leaves the running total what it should be, and within its bounds
\* although the slot whose arena was to account for the excess may be gone.
LEMMA SweptBudget ==
  ASSUME AssemblerInv, ArenaInv, BudgetInv, NEW dt \in Nat
  PROVE  /\ MapFoot(Swept(dt)) /\ SweptBytes(dt) = TotalFootprint(Swept(dt))
         /\ WithinBudget(Swept(dt)) /\ TotalFootprint(Swept(dt)) \in Nat
<1> DEFINE swept == Swept(dt)
<1>1. /\ Keys(swept) \subseteq Keys(slots)
      /\ \A slot \in Keys(swept) : swept.entries[slot].value = slots.entries[slot].value
  BY SweptKeeps
<1>2. \A slot \in Keys(slots) :
        /\ slots.entries[slot].value.capacity \in Nat
        /\ slots.entries[slot].value.capacity <= Footprint(slots.entries[slot].value)
        /\ Footprint(slots.entries[slot].value) \in Nat
  <2>1. SUFFICES ASSUME NEW slot \in Keys(slots)
                 PROVE  /\ slots.entries[slot].value.capacity \in Nat
                        /\ slots.entries[slot].value.capacity
                             <= Footprint(slots.entries[slot].value)
                        /\ Footprint(slots.entries[slot].value) \in Nat
    OBVIOUS
  <2> DEFINE b == slots.entries[slot].value
  <2>2. Shaped(b)
    BY DEF AssemblerInv, MapSound, Settled, BufferSound
  <2>3. b.capacity \in Nat
    BY DEF ArenaInv, Buffer, Faithful, Accounted
  <2> HIDE DEF b
  <2>4. b.capacity \in Nat /\ b.capacity <= Footprint(b) /\ Footprint(b) \in Nat
    BY <2>2, <2>3, FootprintIsNat
  <2>5. QED BY <2>4 DEF b
<1>3. MapFoot(slots)
  BY DEF BudgetInv
<1> HIDE DEF swept
<1>4. /\ MapFoot(swept)
      /\ TotalFootprint(swept) \in Nat /\ TotalFootprint(slots) \in Nat
      /\ TotalFootprint(swept) <= TotalFootprint(slots)
      /\ Keys(swept) = Keys(slots) => TotalFootprint(swept) = TotalFootprint(slots)
      /\ \A s \in Keys(slots) \ Keys(swept) :
           TotalFootprint(swept) + Footprint(slots.entries[s].value) <= TotalFootprint(slots)
  BY <1>1, <1>3, LeftTotal
<1>5. SweptBytes(dt) = TotalFootprint(swept)
  <2>1. CASE DueAt(dt)
    BY <2>1 DEF SweptBytes, swept
  <2>2. CASE ~DueAt(dt)
    <3>1. swept = Now(dt)
      BY <2>2 DEF swept, Swept, Sweep, DueAt
    <3>2. Keys(swept) = Keys(slots)
      BY <3>1 DEF Now, Elapsed, Keys
    <3>3. QED BY <1>4, <2>2, <3>2 DEF SweptBytes, BudgetInv
  <2>3. QED BY <2>1, <2>2
<1> DEFINE cap == MAX_BUFFERED_BYTES + PER_BATCH_OVERHEAD
           now  == TotalFootprint(swept)
           then == TotalFootprint(slots)
<1>6. cap \in Nat
  BY AssemblerAssumption
<1>7. now <= cap \/ \E slot \in Keys(swept) : now <= cap + swept.entries[slot].value.capacity
  <2>1. CASE then <= cap
    <3>1. now \in Nat /\ then \in Nat /\ now <= then
      BY <1>4
    <3> HIDE DEF now, then, cap
    <3>2. now <= cap
      BY <1>6, <2>1, <3>1
    <3>3. QED BY <3>2
  <2>2. CASE \E slot \in Keys(slots) : then <= cap + slots.entries[slot].value.capacity
    <3>1. PICK slot \in Keys(slots) : then <= cap + slots.entries[slot].value.capacity
      BY <2>2
    <3> DEFINE c == slots.entries[slot].value.capacity
               f == Footprint(slots.entries[slot].value)
    <3>2. c \in Nat /\ f \in Nat /\ c <= f
      BY <1>2
    <3>3. now \in Nat /\ then \in Nat /\ now <= then /\ then <= cap + c
      BY <1>4, <3>1
    <3>4. CASE slot \in Keys(swept)
      <4>1. swept.entries[slot].value.capacity = c
        BY <1>1, <3>4
      <4> HIDE DEF c, f, now, then, cap
      <4>2. now <= cap + c
        BY <1>6, <3>2, <3>3
      <4>3. QED BY <3>4, <4>1, <4>2
    <3>5. CASE slot \notin Keys(swept)
      <4>1. now + f <= then
        BY <1>4, <3>5
      <4> HIDE DEF c, f, now, then, cap
      <4>2. now <= cap
        BY <1>6, <3>2, <3>3, <4>1
      <4>3. QED BY <4>2
    <3>6. QED BY <3>4, <3>5
  <2>3. QED BY <2>1, <2>2 DEF BudgetInv, WithinBudget
<1>8. WithinBudget(swept)
  BY <1>7 DEF WithinBudget
<1>9. QED BY <1>4, <1>5, <1>8 DEF swept

LEMMA BudgetStep == AssemblerInv /\ ArenaInv /\ BudgetInv /\ [Next]_vars => BudgetInv'
<1> SUFFICES ASSUME AssemblerInv, ArenaInv, BudgetInv, [Next]_vars PROVE BudgetInv'
  OBVIOUS
<1>1. CASE UNCHANGED vars
  BY <1>1 DEF BudgetInv, vars
<1>2. CASE Next
  <2>1. PICK s \in wire, dt \in Ticks : OverBudget(s, dt) \/ SlotFull(s, dt) \/ Take(s, dt)
    BY <1>2 DEF Next
  <2> DEFINE swept == Swept(dt)
             old   == BufferOf(swept, s.slot)
             total == TotalFootprint(swept)
             new   == ReadBatches(Stored(old, s), s.index)
  <2>2. dt \in Nat /\ wire \in Wires /\ MapSound(slots)
    BY AssemblerAssumption DEF AssemblerInv
  <2>3. /\ MapFoot(swept) /\ SweptBytes(dt) = total /\ WithinBudget(swept) /\ total \in Nat
    BY <2>2, SweptBudget
  <2>4. Settled(old)
    BY <2>2, SweptSound, BufferOfSettled
  <2>5. old.capacity \in Nat
    <3>1. CASE s.slot \in Keys(swept)
      <4>1. s.slot \in Keys(slots) /\ old = Buffer(s.slot)
        BY <2>2, <3>1, SweptKeeps DEF BufferOf, ValueOf, Buffer
      <4>2. QED BY <4>1 DEF ArenaInv, Faithful, Accounted
    <3>2. CASE s.slot \notin Keys(swept)
      BY <3>2 DEF BufferOf, ValueOf, NewBuffer
    <3>3. QED BY <3>1, <3>2
  <2> HIDE DEF swept, old, total
  <2>6. CASE OverBudget(s, dt)
    <3>1. slots' = swept /\ bytes' = total
      BY <2>3, <2>6 DEF OverBudget, swept
    <3>2. MapFoot(slots') /\ bytes' = TotalFootprint(slots') /\ WithinBudget(slots')
      BY <2>3, <3>1 DEF total
    <3>3. QED BY <3>2 DEF BudgetInv
  <2>7. CASE SlotFull(s, dt)
    <3> DEFINE n == Upsert(swept, s.slot, old)
    <3>1. slots' = n /\ bytes' = total
      BY <2>3, <2>7 DEF SlotFull, swept, old
    <3>2. Footprint(old) \in Nat
      BY <2>4, <2>5, FootprintIsNat DEF Settled, BufferSound
    <3>3. MapFoot(n) /\ TotalFootprint(n) = TotalFootprint(swept) + Footprint(old) - Footprint(old)
      BY <2>3, <3>2, UpsertTotal DEF old
    <3>4. \A k \in Keys(swept) : k \in Keys(n) /\ n.entries[k].value = swept.entries[k].value
      <4>1. SUFFICES ASSUME NEW k \in Keys(swept)
                     PROVE  k \in Keys(n) /\ n.entries[k].value = swept.entries[k].value
        OBVIOUS
      <4>2. CASE k = s.slot
        BY <4>2, UpsertPuts DEF old, BufferOf, ValueOf
      <4>3. CASE k # s.slot
        BY <4>3, UpsertPuts
      <4>4. QED BY <4>2, <4>3
    <3> HIDE DEF n
    <3>5. TotalFootprint(n) = TotalFootprint(swept)
      BY <2>3, <3>2, <3>3 DEF total
    <3>6. WithinBudget(n)
      BY <2>3, <3>4, <3>5 DEF WithinBudget
    <3>7. MapFoot(slots') /\ bytes' = TotalFootprint(slots') /\ WithinBudget(slots')
      BY <3>1, <3>3, <3>5, <3>6 DEF total
    <3>8. QED BY <3>7 DEF BudgetInv
  <2>8. CASE Take(s, dt)
    <3> DEFINE n == Upsert(swept, s.slot, new)
    <3>1. /\ slots' = n /\ bytes' = total + Footprint(new) - Footprint(old)
          /\ Fits(total, s)
      BY <2>3, <2>8 DEF Take, swept, old
    <3>2. new.capacity \in Nat
      <4>1. ArenaInv'
        BY ArenaStep
      <4>2. s.slot \in Keys(slots') /\ slots'.entries[s.slot].value = new
        BY <3>1, UpsertPuts
      <4> HIDE DEF n, new
      <4>3. slots'.entries[s.slot].value.capacity \in Nat
        BY <4>1, <4>2 DEF ArenaInv, Buffer, Faithful, Accounted
      <4>4. QED BY <4>2, <4>3
    <3>3. /\ Footprint(new) \in Nat /\ new.capacity <= Footprint(new)
          /\ Footprint(new) - Footprint(old) <=
               new.capacity + PER_SHRED_OVERHEAD + PER_BATCH_OVERHEAD + PER_BATCH_OVERHEAD
      BY <2>2, <2>4, <2>5, <3>2, TakenFoot
    <3> HIDE DEF new
    <3>4. /\ MapFoot(n) /\ TotalFootprint(n) = TotalFootprint(swept) + Footprint(new) - Footprint(old)
          /\ Footprint(old) \in Nat
      BY <2>3, <3>3, UpsertTotal DEF old
    <3>5. s.slot \in Keys(n) /\ n.entries[s.slot].value = new
      BY UpsertPuts
    <3> HIDE DEF n
    <3>6. TotalFootprint(n) <= MAX_BUFFERED_BYTES + PER_BATCH_OVERHEAD + new.capacity
      <4> DEFINE len  == Len(s.data)
                 p    == PER_SHRED_OVERHEAD
                 q    == PER_BATCH_OVERHEAD
                 room == MAX_BUFFERED_BYTES
                 cost == Footprint(new)
                 was  == Footprint(old)
                 c    == new.capacity
      <4>1. len \in Nat /\ p \in Nat /\ q \in Nat /\ room \in Nat
        BY <2>2, AssemblerAssumption
      <4>2. /\ cost \in Nat /\ was \in Nat /\ c \in Nat /\ cost - was <= c + p + q + q
            /\ total + len + p + q <= room
            /\ TotalFootprint(n) = total + cost - was
        BY <3>1, <3>2, <3>3, <3>4 DEF Fits, total
      <4> HIDE DEF len, p, q, room, cost, was, c
      <4>3. total + cost - was <= room + q + c
        BY <2>3, <4>1, <4>2
      <4>4. QED BY <4>2, <4>3 DEF room, q, c
    <3>7. WithinBudget(n)
      BY <3>5, <3>6 DEF WithinBudget
    <3>8. MapFoot(slots') /\ bytes' = TotalFootprint(slots') /\ WithinBudget(slots')
      BY <3>1, <3>4, <3>7 DEF total
    <3>9. QED BY <3>8 DEF BudgetInv
  <2>9. QED BY <2>1, <2>6, <2>7, <2>8
<1>3. QED BY <1>1, <1>2

LEMMA BudgetInvImplies == AssemblerInv /\ ArenaInv /\ BudgetInv => BytesExact /\ OvershootBounded
<1> SUFFICES ASSUME AssemblerInv, ArenaInv, BudgetInv PROVE BytesExact /\ OvershootBounded
  OBVIOUS
<1> DEFINE S == {0} \cup {Buffer(slot).capacity : slot \in Keys(slots)}
           total == TotalFootprint(slots)
           cap   == MAX_BUFFERED_BYTES + PER_BATCH_OVERHEAD
           most  == Max(S)
<1>1. \A slot \in Keys(slots) : Buffer(slot).capacity \in Nat /\ Buffer(slot).capacity \in S
  BY DEF ArenaInv, Faithful, Accounted
<1>2. IsFiniteSet(S) /\ S \subseteq Nat /\ S # {} /\ 0 \in S
  <2>1. IsFiniteSet(Keys(slots))
    BY DEF BudgetInv, MapFoot
  <2>2. IsFiniteSet({Buffer(slot).capacity : slot \in Keys(slots)})
    <3> DEFINE T == {Buffer(slot).capacity : slot \in Keys(slots)}
               f == [slot \in Keys(slots) |-> Buffer(slot).capacity]
               K == Keys(slots)
    <3>1. f \in Surjection(K, T)
      BY DEF Surjection
    <3> HIDE DEF K, T, f
    <3>2. IsFiniteSet(K)
      BY <2>1 DEF K
    <3>3. IsFiniteSet(T)
      BY <3>1, <3>2, FS_Surjection
    <3>4. QED BY <3>3 DEF T
  <2>3. IsFiniteSet({0})
    BY FS_Singleton
  <2>4. IsFiniteSet(S)
    BY <2>2, <2>3, FS_Union
  <2>5. QED BY <1>1, <2>4
<1>3. most \in S /\ \A x \in S : most >= x
  <2> HIDE DEF S
  <2>1. QED BY <1>2, FiniteMax
<1>4. total \in Nat
  BY LeftTotal DEF BudgetInv
<1>5. cap \in Nat
  BY AssemblerAssumption
<1>6. total <= cap \/ \E slot \in Keys(slots) : total <= cap + Buffer(slot).capacity
  BY DEF BudgetInv, WithinBudget, Buffer
<1> HIDE DEF S, total, cap, most
<1>7. most \in Nat
  BY <1>2, <1>3
<1>8. total <= cap + most
  <2>1. CASE total <= cap
    BY <1>4, <1>5, <1>7, <2>1
  <2>2. CASE \E slot \in Keys(slots) : total <= cap + Buffer(slot).capacity
    <3>1. PICK slot \in Keys(slots) : total <= cap + Buffer(slot).capacity
      BY <2>2
    <3> DEFINE c == Buffer(slot).capacity
    <3>2. c \in Nat /\ c <= most /\ total <= cap + c
      BY <1>1, <1>3, <1>7, <3>1
    <3> HIDE DEF c
    <3>3. QED BY <1>4, <1>5, <1>7, <3>2
  <2>3. QED BY <1>6, <2>1, <2>2
<1>9. QED BY <1>8 DEF BudgetInv, BytesExact, OvershootBounded, S, total, cap, most

LEMMA BudgetInvariant == Spec => [](AssemblerInv /\ ArenaInv /\ BudgetInv)
<1>1. AssemblerInv /\ ArenaInv /\ BudgetInv /\ [Next]_vars
        => (AssemblerInv /\ ArenaInv /\ BudgetInv)'
  BY AssemblerStep, ArenaStep, BudgetStep
<1>2. QED BY <1>1, AssemblerInit, ArenaInit, BudgetInit, PTL DEF Spec

\* The running total is what the slots cost, however they left: the callback
\* never hears of those the cap drops.
THEOREM BytesAreExact == Spec => []BytesExact
BY BudgetInvariant, BudgetInvImplies, PTL

\* The budget is overrun by one doubled arena and one batch at most, whatever
\* the caps and overheads.
THEOREM OvershootIsBounded == Spec => []OvershootBounded
BY BudgetInvariant, BudgetInvImplies, PTL

----------------------------------------------------------------------------
(* Who goes in a sweep.                                                     *)

\* Of two counts capped alike, the one capped is no smaller; below the cap
\* both are what they were.
LEMMA CappedCompare ==
  ASSUME NEW a \in Nat, NEW b \in Nat, NEW dt \in Nat, NEW cap \in Nat,
         Min({a + dt, cap}) >= Min({b + dt, cap}), Min({b + dt, cap}) < cap
  PROVE  a >= b
<1> DEFINE u == a + dt
           v == b + dt
<1>1. u \in Int /\ v \in Int /\ cap \in Int
  OBVIOUS
<1> HIDE DEF u, v
<1>2. /\ Min({u, cap}) \in {u, cap} /\ Min({u, cap}) <= u /\ Min({u, cap}) <= cap
      /\ Min({v, cap}) \in {v, cap} /\ Min({v, cap}) <= v /\ Min({v, cap}) <= cap
  BY <1>1, MinOfTwo
<1>3. Min({u, cap}) >= Min({v, cap}) /\ Min({v, cap}) < cap
  BY DEF u, v
<1>4. Min({v, cap}) = v
  BY <1>1, <1>2, <1>3
<1>5. u >= v
  BY <1>1, <1>2, <1>3, <1>4
<1>6. QED BY <1>5 DEF u, v

\* The entries fresher than one that stays are fewer than the cap, so whatever
\* the cap takes is no fresher than it.
LEMMA SweepTakesQuietest ==
  ASSUME NEW m, NEW cap \in Nat, IsFiniteSet(Keys(m)),
         \A k \in Keys(m) : m.entries[k].age \in 0..RETENTION,
         NEW gone \in Dropped(m, RETENTION, cap),
         NEW stays \in Keys(m), stays \notin Dropped(m, RETENTION, cap)
  PROVE  /\ gone \in Keys(m) /\ m.entries[gone].age >= m.entries[stays].age
         /\ m.entries[stays].age < RETENTION
<1> DEFINE kept == Keys(m) \ Expired(m, RETENTION)
           age(k) == m.entries[k].age
           Fresher(k) == {j \in kept : age(j) < age(k)}
<1>1. RETENTION \in Nat
  BY AssemblerAssumption
<1>2. gone \in Keys(m) /\ stays \in kept /\ age(stays) < RETENTION
  BY <1>1 DEF Dropped, OverCap, Expired
<1>3. age(gone) \in Nat /\ age(stays) \in Nat
  BY <1>1, <1>2
<1>4. CASE gone \in Expired(m, RETENTION)
  BY <1>1, <1>2, <1>3, <1>4 DEF Expired
<1>5. CASE gone \notin Expired(m, RETENTION)
  <2>1. Cardinality(Fresher(gone)) >= cap
    BY <1>5 DEF Dropped, OverCap
  <2>2. ~(Cardinality(Fresher(stays)) >= cap)
    BY <1>2 DEF Dropped, OverCap
  <2>3. SUFFICES ASSUME age(gone) < age(stays) PROVE FALSE
    BY <1>2, <1>3
  <2>4. \A j \in kept : age(j) \in Nat
    BY <1>1
  <2>5. Fresher(gone) \subseteq Fresher(stays) /\ Fresher(stays) \subseteq Keys(m)
    BY <1>3, <2>3, <2>4
  <2> DEFINE A == Fresher(gone)
             B == Fresher(stays)
  <2> HIDE DEF A, B
  <2>6. IsFiniteSet(B) /\ A \subseteq B
    BY <2>5, FS_Subset DEF A, B
  <2>7. /\ Cardinality(A) <= Cardinality(B)
        /\ Cardinality(A) \in Nat /\ Cardinality(B) \in Nat
    BY <2>6, FS_Subset, FS_CardinalityType
  <2>8. Cardinality(A) >= cap /\ ~(Cardinality(B) >= cap)
    BY <2>1, <2>2 DEF A, B
  <2>9. QED BY <2>7, <2>8
<1>6. QED BY <1>2, <1>4, <1>5

LEMMA SweptQuietest ==
  ASSUME MapSound(slots), IsFiniteSet(Keys(slots)), NEW dt \in Nat,
         NEW gone \in Keys(slots) \ Keys(Swept(dt)), NEW stays \in Keys(Swept(dt))
  PROVE  slots.entries[gone].age >= slots.entries[stays].age
<1> DEFINE now == Now(dt)
           kept == {k \in Keys(now) : k \notin Dropped(now, RETENTION, MAX_BUFFERED_SLOTS)}
<1>1. /\ MapSound(now) /\ Keys(now) = Keys(slots)
      /\ \A k \in Keys(slots) :
           now.entries[k].age = Min({slots.entries[k].age + dt, RETENTION})
  <2>1. MapSound(now) /\ Keys(now) = Keys(slots)
    BY ElapsedSound DEF Now
  <2>2. \A k \in Keys(slots) :
          now.entries[k].age = Min({slots.entries[k].age + dt, RETENTION})
    BY DEF Now, Elapsed
  <2>3. QED BY <2>1, <2>2
<1>2. SweepDue(now, MAX_BUFFERED_SLOTS)
  BY <1>1 DEF Swept, Sweep
<1>3. Keys(Swept(dt)) = kept
  BY <1>2 DEF Swept, Sweep, RestrictDomain, Restrict, Keys
<1>4. /\ gone \in Dropped(now, RETENTION, MAX_BUFFERED_SLOTS)
      /\ stays \in Keys(now) /\ stays \in Keys(slots)
      /\ stays \notin Dropped(now, RETENTION, MAX_BUFFERED_SLOTS)
  BY <1>1, <1>3
<1>5. MAX_BUFFERED_SLOTS \in Nat /\ RETENTION \in Nat
  BY AssemblerAssumption
<1> HIDE DEF now, kept
<1>6. /\ now.entries[gone].age >= now.entries[stays].age
      /\ now.entries[stays].age < RETENTION
  BY <1>1, <1>4, <1>5, SweepTakesQuietest DEF MapSound
<1> DEFINE a == slots.entries[gone].age
           b == slots.entries[stays].age
<1>7. /\ Min({a + dt, RETENTION}) >= Min({b + dt, RETENTION})
      /\ Min({b + dt, RETENTION}) < RETENTION
  BY <1>1, <1>4, <1>6
<1>8. a \in Nat /\ b \in Nat
  BY <1>4, <1>5 DEF MapSound
<1> HIDE DEF a, b
<1>9. a >= b
  BY <1>5, <1>7, <1>8, CappedCompare
<1>10. QED BY <1>9 DEF a, b

LEMMA QuietestStep ==
  AssemblerInv /\ BudgetInv /\ [Next]_vars =>
    [\A gone \in Keys(slots) \ Keys(slots'), stays \in Keys(slots) \cap Keys(slots') :
       slots'.entries[stays].age > 0 =>
         slots.entries[gone].age >= slots.entries[stays].age]_vars
<1> SUFFICES ASSUME AssemblerInv, BudgetInv, Next,
                    NEW gone \in Keys(slots) \ Keys(slots'),
                    NEW stays \in Keys(slots) \cap Keys(slots'),
                    slots'.entries[stays].age > 0
             PROVE  slots.entries[gone].age >= slots.entries[stays].age
  OBVIOUS
<1>1. PICK s \in wire, dt \in Ticks : OverBudget(s, dt) \/ SlotFull(s, dt) \/ Take(s, dt)
  BY DEF Next
<1>2. dt \in Nat /\ MapSound(slots) /\ IsFiniteSet(Keys(slots))
  BY AssemblerAssumption DEF AssemblerInv, BudgetInv, MapFoot
<1> DEFINE swept == Swept(dt)
<1>3. slots' = swept \/ \E b : slots' = Upsert(swept, s.slot, b)
  BY <1>1 DEF OverBudget, SlotFull, Take
<1> HIDE DEF swept
<1>4. gone \notin Keys(swept) /\ stays \in Keys(swept)
  <2>1. CASE slots' = swept
    BY <2>1
  <2>2. CASE \E b : slots' = Upsert(swept, s.slot, b)
    <3>1. PICK b : slots' = Upsert(swept, s.slot, b)
      BY <2>2
    <3>2. Keys(slots') = Keys(swept) \cup {s.slot} /\ slots'.entries[s.slot].age = 0
      BY <3>1 DEF Upsert, Keys
    <3>3. stays # s.slot
      BY <3>2
    <3>4. QED BY <3>2, <3>3
  <2>3. QED BY <1>3, <2>1, <2>2
<1>5. QED BY <1>2, <1>4, SweptQuietest DEF swept

\* Whatever the cap and however calls are spaced, a sweep only lets go of slots
\* at least as quiet as those that stay untouched.
THEOREM QuietestGo == Spec => QuietestGoFirst
BY BudgetInvariant, QuietestStep, PTL DEF QuietestGoFirst, Spec

----------------------------------------------------------------------------
(* Which slots are called complete.                                         *)

\* What closes a slot is a shred of its own that said so.
LastTold(b, slot, w) ==
  b.last_index # NoIndex =>
    \E s \in w : s.slot = slot /\ s.last_in_slot /\ s.index = b.last_index

LastInv == \A slot \in Keys(slots) : LastTold(Buffer(slot), slot, wire)

LEMMA TakenLast ==
  ASSUME wire \in Wires, NEW s \in wire, NEW b, Settled(b), LastTold(b, s.slot, wire)
  PROVE  LastTold(ReadBatches(Stored(b, s), s.index), s.slot, wire)
<1> DEFINE closing == IF s.last_in_slot THEN [b EXCEPT !.last_index = s.index] ELSE b
           stored  == Stored(b, s)
           new     == ReadBatches(stored, s.index)
<1>1. s.index \in 0..MAX_INDEX /\ Len(s.data) \in Nat /\ s.data_complete \in BOOLEAN
  BY AssemblerAssumption
<1>2. Shaped(closing) /\ LastTold(closing, s.slot, wire)
  <2>1. Shaped(b) /\ Settled(closing)
    BY ClosingSettled DEF Settled, BufferSound
  <2>2. PICK arena, capacity, stale, shreds, starts, progress, last :
          b = [arena |-> arena, capacity |-> capacity, stale |-> stale,
               shreds |-> shreds, starts |-> starts, progress |-> progress,
               last_index |-> last]
    BY <2>1, Zenon DEF Shaped
  <2>3. CASE s.last_in_slot
    <3>1. closing.last_index = s.index
      BY <2>2, <2>3
    <3>2. QED BY <2>1, <2>3, <3>1 DEF Settled, BufferSound, LastTold
  <2>4. CASE ~s.last_in_slot
    BY <2>1, <2>4
  <2>5. QED BY <2>3, <2>4
<1>3. Shaped(stored) /\ stored.last_index = closing.last_index
  <2>1. stored = Insert(closing, s.index, s.data, s.data_complete)
    BY DEF Stored
  <2> HIDE DEF closing, stored
  <2>2. QED BY <1>1, <1>2, <2>1, InsertShape
<1> HIDE DEF stored, closing
<1>4. new.last_index = stored.last_index
  <2>1. PICK arena, capacity, stale, shreds, starts, progress, last :
          stored = [arena |-> arena, capacity |-> capacity, stale |-> stale,
                    shreds |-> shreds, starts |-> starts, progress |-> progress,
                    last_index |-> last]
    BY <1>3, Zenon DEF Shaped
  <2> DEFINE read == [t \in DOMAIN stored.progress \cup Candidates(stored, s.index) |->
                        IF t \in Candidates(stored, s.index)
                        THEN Pass(stored, t).progress ELSE stored.progress[t]]
  <2>2. new = [stored EXCEPT !.progress = read]
    BY DEF ReadBatches
  <2> HIDE DEF read, new
  <2>3. QED BY <2>1, <2>2
<1> HIDE DEF new
<1>5. LastTold(new, s.slot, wire)
  BY <1>2, <1>3, <1>4 DEF LastTold
<1>6. QED BY <1>5 DEF new, stored

LEMMA LastStep == AssemblerInv /\ LastInv /\ [Next]_vars => LastInv'
<1> SUFFICES ASSUME AssemblerInv, LastInv, [Next]_vars PROVE LastInv'
  OBVIOUS
<1>1. CASE UNCHANGED vars
  BY <1>1 DEF LastInv, Buffer, vars
<1>2. CASE Next
  <2>1. PICK s \in wire, dt \in Ticks : OverBudget(s, dt) \/ SlotFull(s, dt) \/ Take(s, dt)
    BY <1>2 DEF Next
  <2> DEFINE swept == Swept(dt)
             old   == BufferOf(swept, s.slot)
             new   == ReadBatches(Stored(old, s), s.index)
  <2>2. dt \in Nat /\ wire \in Wires /\ MapSound(slots) /\ wire' = wire
    BY <2>1, AssemblerAssumption DEF AssemblerInv, OverBudget, SlotFull, Take, Begin
  <2>3. \A k \in Keys(swept) : LastTold(swept.entries[k].value, k, wire)
    BY <2>2, SweptKeeps DEF LastInv, Buffer
  <2>4. Settled(old) /\ LastTold(old, s.slot, wire)
    <3>1. Settled(old)
      BY <2>2, SweptSound, BufferOfSettled
    <3>2. LastTold(NewBuffer, s.slot, wire)
      BY DEF NewBuffer, LastTold
    <3>3. QED BY <2>3, <3>1, <3>2 DEF BufferOf, ValueOf
  <2>5. LastTold(new, s.slot, wire)
    BY <2>2, <2>4, TakenLast
  <2>6. slots' = swept \/ slots' = Upsert(swept, s.slot, old) \/ slots' = Upsert(swept, s.slot, new)
    BY <2>1 DEF OverBudget, SlotFull, Take
  <2> HIDE DEF swept, old, new
  <2>7. CASE slots' = swept
    BY <2>2, <2>3, <2>7 DEF LastInv, Buffer
  <2>8. ASSUME NEW b, slots' = Upsert(swept, s.slot, b), LastTold(b, s.slot, wire)
        PROVE  LastInv'
    <3>1. /\ Keys(slots') = Keys(swept) \cup {s.slot}
          /\ slots'.entries[s.slot].value = b
          /\ \A k \in Keys(swept) \ {s.slot} : slots'.entries[k] = swept.entries[k]
      BY <2>8, UpsertPuts
    <3>2. \A k \in Keys(slots') : LastTold(slots'.entries[k].value, k, wire')
      BY <2>2, <2>3, <2>8, <3>1
    <3>3. QED BY <3>2 DEF LastInv, Buffer
  <2>9. QED BY <2>4, <2>5, <2>6, <2>7, <2>8
<1>3. QED BY <1>1, <1>2

LEMMA CompleteStep ==
  ASSUME \A w \in Wires : LastIsHighest(w), AssemblerInv, ArenaInv, LastInv, Next,
         NEW slot \in DOMAIN closed_out',
         closed_out'[slot].missing = {}, closed_out'[slot].size # NoIndex
  PROVE  {s.index : s \in Stream!InSlot(wire, slot)} \subseteq
           (IF slot \in DOMAIN copies THEN DOMAIN copies[slot] ELSE {})
<1> DEFINE b    == Buffer(slot)
           last == b.last_index
           none == [i \in {} |-> 0]
<1>1. PICK s \in wire, dt \in Ticks : OverBudget(s, dt) \/ SlotFull(s, dt) \/ Take(s, dt)
  BY DEF Next
<1>2. closed_out' = CloseOut(dt)
  BY <1>1 DEF OverBudget, SlotFull, Take, Begin
<1>3. slot \in Keys(slots) /\ closed_out'[slot] = ClosedOut(b)
  <2>1. DOMAIN CloseOut(dt) \subseteq Keys(slots)
    BY DEF CloseOut, Expired, Now, Elapsed, Keys
  <2>2. QED BY <1>2, <2>1 DEF CloseOut, Buffer
<1>4. Missing(b) = {} /\ last # NoIndex
  BY <1>3 DEF ClosedOut
<1>5. wire \in Wires
  BY DEF AssemblerInv
<1>6. PICK t \in wire : t.slot = slot /\ t.last_in_slot /\ t.index = last
  BY <1>3, <1>4 DEF LastInv, LastTold
<1>7. 0..last \subseteq Held(b)
  BY <1>4 DEF Missing
<1>8. Held(b) = DOMAIN At(copies, slot, none)
  BY <1>3 DEF ArenaInv, Faithful
<1>9. At(copies, slot, none) = IF slot \in DOMAIN copies THEN copies[slot] ELSE none
  BY DEF At
<1>10. Held(b) \subseteq (IF slot \in DOMAIN copies THEN DOMAIN copies[slot] ELSE {})
  BY <1>8, <1>9
<1>11. ASSUME NEW u \in wire, u.slot = slot PROVE u.index \in 0..last
  <2>1. u.index \in 0..MAX_INDEX /\ t.index \in 0..MAX_INDEX
    BY <1>5, AssemblerAssumption
  <2>2. u.index <= last
    BY <1>5, <1>6, <1>11 DEF LastIsHighest, AssemblerInv
  <2>3. QED BY <1>6, <2>1, <2>2
<1>12. {u.index : u \in Stream!InSlot(wire, slot)} \subseteq 0..last
  BY <1>11 DEF Stream!InSlot
<1>13. QED BY <1>7, <1>10, <1>12

\* If a leader flags the last shred it cut, a slot closed out as complete had
\* all of them, whatever was lost, resent or swept away before.
THEOREM CompleteIsAll ==
  ASSUME \A w \in Wires : LastIsHighest(w)
  PROVE  Spec => CompleteMeansAll
<1>1. Init => LastInv
  BY DEF Init, LastInv, New, Keys
<1>2. Spec => [](AssemblerInv /\ ArenaInv /\ LastInv)
  <2>1. AssemblerInv /\ ArenaInv /\ LastInv /\ [Next]_vars => (AssemblerInv /\ ArenaInv /\ LastInv)'
    BY AssemblerStep, ArenaStep, LastStep
  <2>2. QED BY <1>1, <2>1, AssemblerInit, ArenaInit, PTL DEF Spec
<1>3. AssemblerInv /\ ArenaInv /\ LastInv /\ [Next]_vars =>
        [\A slot \in DOMAIN closed_out' :
           closed_out'[slot].missing = {} /\ closed_out'[slot].size # NoIndex =>
             {s.index : s \in Stream!InSlot(wire, slot)} \subseteq
               (IF slot \in DOMAIN copies THEN DOMAIN copies[slot] ELSE {})]_vars
  BY CompleteStep
<1>4. QED BY <1>2, <1>3, PTL DEF CompleteMeansAll, Spec

----------------------------------------------------------------------------
(* The entries of a batch, by where in its bytes they end.                  *)

\* The promise's own names for what the modules share.
LEMMA SameAscending == \A S : Stream!Ascending(S) = Ascending(S)
BY DEF Stream!Ascending, Ascending, Stream!Cardinality, Cardinality

LEMMA RunBytesAre ==
  \A h, batch : Stream!RunBytes(h, batch) =
    LET run == Stream!Run(h, batch)
    IN  FlattenSeq([k \in 1..Cardinality(run) |->
                      (CHOOSE s \in run : s.index = batch[2] + k - 1).data])
BY DEF Stream!RunBytes, Stream!FlattenSeq, FlattenSeq, Stream!Cardinality, Cardinality

\* How many of a batch's entries have ended l bytes into it.
UpTo(data, l) == Cardinality({x \in Stream!Ends(data) : x <= l})

\* The first k of them.
FirstEntries(data, k) == [j \in 1..k |-> data[EndAt(data, j)].value]

\* The members of Ends, in their order.
LEMMA EndsAre ==
  ASSUME NEW W \in Seq(Cells)
  PROVE  /\ IsFiniteSet(Stream!Ends(W)) /\ Stream!Ends(W) \subseteq 1..Len(W)
         /\ Stream!Ends(W) \subseteq Nat
         /\ Count(W) \in Nat /\ Len(W) \in Nat
         /\ \A k \in 1..Count(W) : EndAt(W, k) \in Stream!Ends(W) /\ EndAt(W, k) \in 1..Len(W)
         /\ \A k, l \in 1..Count(W) : k < l => EndAt(W, k) < EndAt(W, l)
         /\ \A x \in Stream!Ends(W) : \E k \in 1..Count(W) : EndAt(W, k) = x
<1>1. Len(W) \in Nat /\ Stream!Ends(W) \subseteq 1..Len(W)
  BY DEF Stream!Ends
<1>2. IsFiniteSet(Stream!Ends(W)) /\ Stream!Ends(W) \subseteq Nat
  <2>1. IsFiniteSet(1..Len(W)) /\ 1..Len(W) \subseteq Nat
    BY <1>1, FS_Interval
  <2> HIDE DEF Stream!Ends
  <2>2. QED BY <1>1, <2>1, FS_Subset
<1> DEFINE S == Stream!Ends(W)
<1> HIDE DEF S
<1>3. /\ Cardinality(S) \in Nat
      /\ Ascending(S) \in [1..Cardinality(S) -> S]
      /\ \A i \in S : \E k \in 1..Cardinality(S) : Ascending(S)[k] = i
      /\ \A k, l \in 1..Cardinality(S) : k < l => Ascending(S)[k] < Ascending(S)[l]
  BY <1>2, AscendingIsSorted DEF S
<1>4. \A k \in 1..Count(W) : EndAt(W, k) = Ascending(S)[k]
  BY <1>3 DEF Count, EndAt, S
<1>5. Count(W) = Cardinality(S)
  BY DEF Count, S
<1>6. \A k \in 1..Count(W) : EndAt(W, k) \in S
  BY <1>3, <1>4, <1>5
<1>7. QED BY <1>1, <1>2, <1>3, <1>4, <1>5, <1>6 DEF S

\* They are the first so many.
LEMMA UpToCounts ==
  ASSUME NEW W \in Seq(Cells), NEW l \in Nat
  PROVE  /\ UpTo(W, l) \in 0..Count(W) /\ UpTo(W, l) \in Nat
         /\ \A k \in 1..Count(W) : k <= UpTo(W, l) <=> EndAt(W, k) <= l
<1> DEFINE S == Stream!Ends(W)
           T == {x \in S : x <= l}
<1>1. IsFiniteSet(S) /\ S \subseteq Nat /\ Count(W) \in Nat
  BY EndsAre
<1> HIDE DEF S
<1>2. /\ Cardinality(T) \in Nat /\ Cardinality(S) \in Nat /\ Cardinality(T) <= Cardinality(S)
      /\ \A k \in 1..Cardinality(S) : k <= Cardinality(T) <=> Ascending(S)[k] <= l
  <2>1. l \in Int
    OBVIOUS
  <2>2. QED BY ONLY <1>1, <2>1, AscendingInitial
<1> HIDE DEF T
<1>3. UpTo(W, l) = Cardinality(T) /\ Count(W) = Cardinality(S)
  BY DEF UpTo, Count, T, S
<1>4. \A k \in 1..Count(W) : EndAt(W, k) = Ascending(S)[k]
  BY <1>1 DEF EndAt, S
<1>5. QED BY <1>2, <1>3, <1>4

\* More bytes hold no fewer entries, and all of them hold all.
LEMMA UpToGrows ==
  ASSUME NEW W \in Seq(Cells), NEW l \in Nat, NEW r \in Nat, l <= r
  PROVE  UpTo(W, l) <= UpTo(W, r) /\ UpTo(W, Len(W)) = Count(W)
<1>1. /\ UpTo(W, l) \in 0..Count(W) /\ UpTo(W, l) \in Nat
      /\ UpTo(W, r) \in 0..Count(W) /\ UpTo(W, r) \in Nat /\ Count(W) \in Nat /\ Len(W) \in Nat
      /\ UpTo(W, Len(W)) \in 0..Count(W)
      /\ \A k \in 1..Count(W) : EndAt(W, k) \in 1..Len(W)
  BY UpToCounts, EndsAre
<1>2. UpTo(W, l) <= UpTo(W, r)
  <2>1. CASE UpTo(W, l) = 0
    BY <1>1, <2>1
  <2>2. CASE UpTo(W, l) # 0
    <3> DEFINE k == UpTo(W, l)
    <3>1. k \in 1..Count(W) /\ EndAt(W, k) \in Nat
      BY <1>1, <2>2
    <3>2. EndAt(W, k) <= l
      BY <1>1, <3>1, UpToCounts
    <3>3. EndAt(W, k) <= r
      BY <3>1, <3>2
    <3>4. k <= UpTo(W, r)
      BY <3>1, <3>3, UpToCounts
    <3>5. QED BY <3>4
  <2>3. QED BY <2>1, <2>2
<1>3. UpTo(W, Len(W)) = Count(W)
  <2>1. CASE Count(W) = 0
    BY <1>1, <2>1
  <2>2. CASE Count(W) # 0
    <3> DEFINE k == Count(W)
    <3>1. k \in 1..Count(W)
      BY <1>1, <2>2
    <3>2. EndAt(W, k) <= Len(W)
      BY <1>1, <3>1
    <3>3. k <= UpTo(W, Len(W))
      BY <1>1, <3>1, <3>2, UpToCounts
    <3>4. QED BY <1>1, <3>3
  <2>3. QED BY <2>1, <2>2
<1>4. QED BY <1>2, <1>3

\* What is whole in a batch's first l bytes is its first entries.
LEMMA WholeOfPrefix ==
  ASSUME NEW W \in Seq(Cells), NEW l \in Nat, l <= Len(W)
  PROVE  Stream!Whole(SubSeq(W, 1, l)) = FirstEntries(W, UpTo(W, l))
<1> DEFINE P == SubSeq(W, 1, l)
           S == Stream!Ends(W)
           T == {x \in S : x <= l}
<1>1. P \in Seq(Cells) /\ Len(P) = l /\ \A x \in 1..l : P[x] = W[x] /\ x \in 1..Len(W)
  <2>1. /\ SubSeq(W, 0 + 1, 0 + l) \in Seq(Cells) /\ Len(SubSeq(W, 0 + 1, 0 + l)) = l
        /\ \A x \in 1..l : SubSeq(W, 0 + 1, 0 + l)[x] = W[0 + x] /\ 0 + x \in 1..Len(W)
    BY SliceIs
  <2>2. 0 + 1 = 1 /\ 0 + l = l /\ \A x \in 1..l : 0 + x = x
    OBVIOUS
  <2>3. QED BY <2>1, <2>2
<1> HIDE DEF P
<1>2. DOMAIN P = 1..l /\ DOMAIN W = 1..Len(W) /\ Len(W) \in Nat
  BY <1>1
<1>3. Stream!Ends(P) = T
  BY <1>1, <1>2 DEF Stream!Ends
<1>4. IsFiniteSet(S) /\ S \subseteq Nat /\ S \subseteq 1..Len(W)
  BY EndsAre
<1> HIDE DEF S
<1>5. /\ Cardinality(T) \in Nat /\ Cardinality(S) \in Nat /\ Cardinality(T) <= Cardinality(S)
      /\ \A k \in 1..Cardinality(T) :
           k \in 1..Cardinality(S) /\ Ascending(T)[k] = Ascending(S)[k]
      /\ IsFiniteSet(T) /\ T \subseteq Nat
  <2>1. l \in Int
    OBVIOUS
  <2>2. QED BY ONLY <1>4, <2>1, AscendingInitial
<1>6. Ascending(T) \in [1..Cardinality(T) -> T]
  <2> HIDE DEF T
  <2>1. QED BY ONLY <1>5, AscendingIsSorted
<1> HIDE DEF T
<1>7. \A k \in 1..Cardinality(T) : P[Ascending(T)[k]].value = W[EndAt(W, k)].value
  <2> SUFFICES ASSUME NEW k \in 1..Cardinality(T)
               PROVE  P[Ascending(T)[k]].value = W[EndAt(W, k)].value
    OBVIOUS
  <2>1. Ascending(T)[k] \in T
    BY <1>6
  <2>2. Ascending(T)[k] \in 1..l
    <3>1. Ascending(T)[k] \in S /\ Ascending(T)[k] <= l
      BY <2>1 DEF T
    <3>2. Ascending(T)[k] \in 1..Len(W)
      BY <1>4, <3>1
    <3>3. QED BY <1>2, <3>1, <3>2
  <2>3. EndAt(W, k) = Ascending(T)[k]
    BY <1>5 DEF EndAt, S
  <2>4. QED BY <1>1, <2>2, <2>3
<1>8. UpTo(W, l) = Cardinality(T)
  BY DEF UpTo, T, S
<1>9. Stream!Whole(P) = [k \in 1..Cardinality(T) |-> P[Ascending(T)[k]].value]
  <2>1. Stream!Whole(P) = [k \in DOMAIN Ascending(Stream!Ends(P)) |->
                             P[Ascending(Stream!Ends(P))[k]].value]
    BY SameAscending DEF Stream!Whole
  <2>2. DOMAIN Ascending(T) = 1..Cardinality(T)
    BY <1>6
  <2>3. QED BY <1>3, <2>1, <2>2
<1>10. FirstEntries(W, UpTo(W, l)) = [k \in 1..Cardinality(T) |-> W[EndAt(W, k)].value]
  BY <1>8 DEF FirstEntries
<1>11. QED BY <1>7, <1>9, <1>10 DEF P

\* Each entry lies between two ends, in all its parts.
LEMMA EntriesLie ==
  ASSUME NEW W \in Seq(Cells), Encoded(W)
  PROVE  /\ \A k \in 0..Count(W) : EndAt(W, k) \in Nat
         /\ Count(W) # 0 => EndAt(W, 0) <= Len(W)
         /\ \A k \in 1..Count(W) :
              /\ EndAt(W, k - 1) < EndAt(W, k)
              /\ W[EndAt(W, k)].size = EndAt(W, k) - EndAt(W, k - 1)
              /\ \A x \in 1..W[EndAt(W, k)].size :
                   W[EndAt(W, k - 1) + x] =
                     [tag |-> "entry", value |-> W[EndAt(W, k)].value,
                      size |-> W[EndAt(W, k)].size, part |-> x]
<1>1. /\ Count(W) \in Nat /\ Len(W) \in Nat /\ Stream!Ends(W) \subseteq 1..Len(W)
      /\ \A k \in 1..Count(W) : EndAt(W, k) \in Stream!Ends(W) /\ EndAt(W, k) \in 1..Len(W)
  BY EndsAre
<1>2. \A k \in 0..Count(W) : EndAt(W, k) \in Nat
  <2>1. EndAt(W, 0) \in Nat
    BY BufferAssumption DEF EndAt
  <2>2. QED BY <1>1, <2>1
<1>3. ASSUME NEW k \in 1..Count(W)
      PROVE  /\ EndAt(W, k - 1) < EndAt(W, k)
             /\ W[EndAt(W, k)].size = EndAt(W, k) - EndAt(W, k - 1)
             /\ \A x \in 1..W[EndAt(W, k)].size :
                  W[EndAt(W, k - 1) + x] =
                    [tag |-> "entry", value |-> W[EndAt(W, k)].value,
                     size |-> W[EndAt(W, k)].size, part |-> x]
             /\ EndAt(W, 0) <= Len(W)
  <2> DEFINE from == EndAt(W, k - 1)
             to   == EndAt(W, k)
             v    == W[to].value
             size == W[to].size
  <2>1. from \in Nat /\ to \in Nat /\ to \in 1..Len(W) /\ Stream!Ends(W) # {}
    BY <1>1, <1>2
  <2>2. SubSeq(W, from + 1, to) = Field("entry", v, size) /\ EndAt(W, 0) <= Len(W)
    BY <1>1, <2>1 DEF Encoded, EndAt
  <2>3. size \in Nat \ {0}
    <3>1. W[to] \in Cells
      BY <2>1
    <3> HIDE DEF to
    <3>2. QED BY <3>1 DEF Cells
  <2> HIDE DEF from, to, v, size
  <2>4. SubSeq(W, from + 1, to) = [x \in 1..(to - (from + 1) + 1) |-> W[x + (from + 1) - 1]]
    BY <2>1
  <2>5. Field("entry", v, size) =
          [x \in 1..size |-> [tag |-> "entry", value |-> v, size |-> size, part |-> x]]
    BY DEF Field
  <2>6. 1..(to - (from + 1) + 1) = 1..size
    BY <2>2, <2>4, <2>5
  <2>7. to - (from + 1) + 1 = size
    <3>1. \A a, c \in Int : c >= 1 /\ 1..a = 1..c => a = c
      <4> SUFFICES ASSUME NEW a \in Int, NEW c \in Int, c >= 1, 1..a = 1..c PROVE a = c
        OBVIOUS
      <4>1. c \in 1..a
        OBVIOUS
      <4>2. a \in 1..c
        BY <4>1
      <4>3. QED BY <4>1, <4>2
    <3>2. to - (from + 1) + 1 \in Int /\ size \in Int /\ size >= 1
      BY <2>1, <2>3
    <3>3. QED BY <2>6, <3>1, <3>2
  <2>8. size = to - from /\ from < to
    BY <2>1, <2>3, <2>7
  <2>9. ASSUME NEW x \in 1..size
        PROVE W[from + x] = [tag |-> "entry", value |-> v, size |-> size, part |-> x]
    <3>1. x + (from + 1) - 1 = from + x
      BY <2>1, <2>3
    <3>2. SubSeq(W, from + 1, to)[x] = W[from + x]
      BY <2>4, <2>6, <3>1
    <3>3. Field("entry", v, size)[x] = [tag |-> "entry", value |-> v, size |-> size, part |-> x]
      BY <2>5
    <3>4. QED BY <2>2, <3>2, <3>3
  <2>10. QED BY <2>2, <2>8, <2>9 DEF from, to, v, size
<1>4. Count(W) # 0 => EndAt(W, 0) <= Len(W)
  <2>1. ASSUME Count(W) # 0 PROVE 1 \in 1..Count(W)
    BY <1>1, <2>1
  <2>2. QED BY <1>3, <2>1
<1>5. QED BY <1>2, <1>3, <1>4

----------------------------------------------------------------------------
(* Decoding them, from any point on.                                        *)

\* data is what lies between base and l of a batch's bytes.
Between(W, base, l, data) ==
  /\ W \in Seq(Cells) /\ Encoded(W)
  /\ base \in Nat /\ l \in Nat /\ base <= l /\ l <= Len(W)
  /\ data \in Seq(Cells) /\ Len(data) = l - base
  /\ \A x \in 1..(l - base) : data[x] = W[base + x]

\* The field at a place, as far as the bytes go.
LEMMA FieldAtIs ==
  ASSUME NEW data \in Seq(Cells), NEW at \in Nat, at < Len(data)
  PROVE  LET size == data[at + 1].size
             had  == IF at + size <= Len(data) THEN size ELSE Len(data) - at IN
         /\ size \in Nat \ {0} /\ Len(data) \in Nat
         /\ FieldAt(data, at) = [x \in 1..had |-> data[at + x]]
         /\ had \in 1..size
<1> DEFINE size == data[at + 1].size
           had  == IF at + size <= Len(data) THEN size ELSE Len(data) - at
           l    == Len(data)
<1>1. l \in Nat /\ at + 1 \in 1..l
  OBVIOUS
<1>2. size \in Nat \ {0}
  <2>1. data[at + 1] \in Cells
    BY <1>1
  <2>2. QED BY <2>1 DEF Cells
<1> HIDE DEF size
<1>3. Min({at + size, l}) = at + had /\ had \in 1..size
  <2>1. at + size \in Nat /\ l \in Nat
    BY <1>1, <1>2
  <2>2. Min({at + size, l}) \in {at + size, l} /\ Min({at + size, l}) <= at + size /\ Min({at + size, l}) <= l
    <3> DEFINE u == at + size
    <3>1. u \in Int /\ l \in Int
      BY <2>1
    <3> HIDE DEF u, l
    <3>2. Min({u, l}) \in {u, l} /\ Min({u, l}) <= u /\ Min({u, l}) <= l
      BY <3>1, MinOfTwo
    <3>3. QED BY <3>2 DEF u
  <2>3. QED BY <1>1, <1>2, <2>1, <2>2
<1>4. FieldAt(data, at) = SubSeq(data, at + 1, at + had)
  BY <1>3 DEF FieldAt, size
<1>5. SubSeq(data, at + 1, at + had) = [x \in 1..((at + had) - (at + 1) + 1) |-> data[x + (at + 1) - 1]]
  BY <1>1, <1>2
<1>6. (at + had) - (at + 1) + 1 = had /\ \A x \in 1..had : x + (at + 1) - 1 = at + x
  BY <1>1, <1>2
<1> HIDE DEF had
<1>7. [x \in 1..((at + had) - (at + 1) + 1) |-> data[x + (at + 1) - 1]] = [x \in 1..had |-> data[at + x]]
  BY <1>6
<1>8. QED BY <1>1, <1>2, <1>3, <1>4, <1>5, <1>7 DEF had, size

\* What reads as an entry that is there ends where one of the batch does.
LEMMA EntryEnds ==
  ASSUME NEW W, NEW base, NEW l, NEW data, Between(W, base, l, data),
         NEW at \in Nat, HasEntry(data, at)
  PROVE  /\ data[at + 1].size \in Nat \ {0} /\ at + data[at + 1].size <= Len(data)
         /\ base + at + data[at + 1].size \in Stream!Ends(W)
<1> DEFINE size == data[at + 1].size
<1>1. /\ data \in Seq(Cells) /\ at < Len(data) /\ Len(data) = l - base /\ base \in Nat /\ l \in Nat
      /\ at + size <= Len(data) /\ Sound(FieldAt(data, at), "entry")
  BY DEF Between, HasEntry
<1>2. size \in Nat \ {0} /\ FieldAt(data, at) = [x \in 1..size |-> data[at + x]]
  BY <1>1, FieldAtIs
<1> DEFINE field == FieldAt(data, at)
<1>3. DOMAIN field = 1..size /\ size \in 1..size /\ 1 \in 1..size
  BY <1>2
<1>4. field[size] = data[at + size] /\ field[1] = data[at + 1]
  BY <1>2, <1>3
<1>5. field[size] = [field[1] EXCEPT !.part = size, !.tag = "entry"]
  BY <1>1, <1>3 DEF Sound
<1>6. data[at + 1] \in Cells
  <2>1. at + 1 \in 1..Len(data)
    BY <1>1
  <2>2. QED BY <1>1, <2>1
<1> DEFINE c == data[at + 1]
           e == data[at + size]
<1>7. e = [c EXCEPT !.part = size, !.tag = "entry"] /\ c \in Cells /\ c.size = size
  BY <1>4, <1>5, <1>6
<1>8. e.tag = "entry" /\ e.part = size /\ e.size = size
  <2> HIDE DEF c, e, size, field
  <2>1. PICK tag, value, s, part : c = [tag |-> tag, value |-> value, size |-> s, part |-> part]
    BY <1>7 DEF Cells
  <2> DEFINE d == [c EXCEPT !.part = size]
  <2>2. d = [tag |-> tag, value |-> value, size |-> s, part |-> size]
    BY <2>1
  <2>3. e = [d EXCEPT !.tag = "entry"]
    BY <1>7
  <2> HIDE DEF d
  <2>4. e = [tag |-> "entry", value |-> value, size |-> s, part |-> size]
    BY <2>2, <2>3
  <2>5. QED BY <1>7, <2>1, <2>4
<1> HIDE DEF field
<1>9. W \in Seq(Cells) /\ l <= Len(W) /\ \A x \in 1..(l - base) : data[x] = W[base + x]
  BY DEF Between
<1> HIDE DEF size
<1>10. at + size \in 1..(l - base) /\ base + (at + size) \in 1..Len(W)
  <2>1. Len(W) \in Nat
    BY <1>9
  <2>2. QED BY <1>1, <1>2, <1>9, <2>1
<1>11. W[base + (at + size)] = e
  BY <1>10, <1>9
<1>12. base + (at + size) \in Stream!Ends(W)
  <2>1. DOMAIN W = 1..Len(W)
    BY <1>9
  <2> HIDE DEF e
  <2>2. QED BY ONLY <1>8, <1>10, <1>11, <2>1 DEF Stream!Ends
<1>13. base + (at + size) = base + at + size
  BY <1>1, <1>2
<1>14. QED BY <1>1, <1>2, <1>12, <1>13 DEF size

\* At the end of its k-th entry, what is there of the next one.
LEMMA NextEntry ==
  ASSUME NEW W, NEW base, NEW l, NEW data, Between(W, base, l, data),
         NEW k \in 0..Count(W), base <= EndAt(W, k), EndAt(W, k) <= l
  PROVE  LET at == EndAt(W, k) - base IN
         /\ at \in Nat /\ at <= Len(data) /\ Len(data) \in Nat
         /\ HasEntry(data, at) <=> (k < Count(W) /\ EndAt(W, k + 1) <= l)
         /\ HasEntry(data, at) => /\ data[at + 1].size = EndAt(W, k + 1) - EndAt(W, k)
                                  /\ data[at + 1].value = W[EndAt(W, k + 1)].value
         /\ k < Count(W) /\ at < Len(data) => Sound(FieldAt(data, at), "entry")
<1> DEFINE at == EndAt(W, k) - base
           e  == EndAt(W, k)
           f  == EndAt(W, k + 1)
           size == data[at + 1].size
<1>1. /\ W \in Seq(Cells) /\ Encoded(W)
      /\ base \in Nat /\ l \in Nat /\ base <= l /\ l <= Len(W)
      /\ data \in Seq(Cells) /\ Len(data) = l - base
      /\ \A x \in 1..(l - base) : data[x] = W[base + x]
  BY DEF Between
<1>2. Count(W) \in Nat /\ k \in Nat /\ e \in Nat /\ (k < Count(W) => k + 1 \in 1..Count(W) /\ f \in Nat)
  BY <1>1, EndsAre, EntriesLie
<1>3. at \in Nat /\ at <= Len(data) /\ base + at = e /\ Len(data) \in Nat
  BY <1>1, <1>2
\* What lies there, if there is a next one and any of it is held.
<1>4. ASSUME k < Count(W), at < Len(data)
      PROVE  /\ e < f /\ size = f - e /\ data[at + 1].value = W[f].value
             /\ Sound(FieldAt(data, at), "entry")
  <2>1. /\ e < f /\ W[f].size = f - e
        /\ \A x \in 1..W[f].size :
             W[e + x] = [tag |-> "entry", value |-> W[f].value, size |-> W[f].size, part |-> x]
    <3>1. k + 1 \in 1..Count(W) /\ (k + 1) - 1 = k
      BY <1>2, <1>4
    <3>2. QED BY <1>1, <3>1, EntriesLie
  <2> HIDE DEF at, e, f
  <2>2. at + 1 \in 1..(l - base) /\ base + (at + 1) = e + 1 /\ 1 \in 1..W[f].size
    BY <1>1, <1>2, <1>3, <1>4, <2>1
  <2>3. data[at + 1] = [tag |-> "entry", value |-> W[f].value, size |-> W[f].size, part |-> 1]
    BY <1>1, <2>1, <2>2
  <2>4. size = f - e /\ data[at + 1].value = W[f].value
    BY <2>1, <2>3
  <2> DEFINE had == IF at + size <= Len(data) THEN size ELSE Len(data) - at
  <2>5. FieldAt(data, at) = [x \in 1..had |-> data[at + x]] /\ had \in 1..size
    BY <1>1, <1>3, <1>4, FieldAtIs
  <2>6. had \in Nat /\ had >= 1 /\ had <= size /\ at + had <= Len(data)
    BY <1>2, <1>3, <1>4, <2>1, <2>4, <2>5
  <2> HIDE DEF had
  <2>7. ASSUME NEW x \in 1..had
        PROVE data[at + x] = [tag |-> "entry", value |-> W[f].value, size |-> W[f].size, part |-> x]
    <3>1. at + x \in 1..(l - base) /\ base + (at + x) = e + x /\ x \in 1..W[f].size
      <4> DEFINE s == W[f].size
      <4>1. s = size /\ x \in Nat /\ x >= 1 /\ x <= had
        BY <2>1, <2>4, <2>6
      <4>2. x <= s /\ s \in Nat
        BY <1>2, <1>4, <2>1, <2>4, <2>6, <4>1
      <4> HIDE DEF s
      <4>3. at + x <= Len(data) /\ at + x \in Nat /\ at + x >= 1
        BY <1>3, <2>6, <4>1
      <4>4. base + (at + x) = e + x
        BY <1>1, <1>2, <1>3, <4>1
      <4>5. QED BY <1>1, <4>1, <4>2, <4>3, <4>4 DEF s
    <3>2. QED BY <1>1, <2>1, <3>1
  <2> DEFINE field == FieldAt(data, at)
  <2>8. DOMAIN field = 1..had /\ field[1] = data[at + 1] /\ \A x \in 1..had : field[x] = data[at + x]
    BY <2>5, <2>6
  <2> HIDE DEF field
  <2>9. ASSUME NEW x \in DOMAIN field
        PROVE  field[x] = [field[1] EXCEPT !.part = x, !.tag = "entry"]
    <3> DEFINE c == field[1]
               d == [c EXCEPT !.part = x]
    <3>1. c = [tag |-> "entry", value |-> W[f].value, size |-> W[f].size, part |-> 1]
      BY <2>3, <2>8
    <3> HIDE DEF c
    <3>2. d = [tag |-> "entry", value |-> W[f].value, size |-> W[f].size, part |-> x]
      BY <3>1
    <3> HIDE DEF d
    <3>3. [d EXCEPT !.tag = "entry"] = [tag |-> "entry", value |-> W[f].value, size |-> W[f].size, part |-> x]
      BY <3>2
    <3>4. field[x] = [tag |-> "entry", value |-> W[f].value, size |-> W[f].size, part |-> x]
      BY <2>7, <2>8, <2>9
    <3>5. QED BY <3>3, <3>4 DEF c, d
  <2>10. Sound(field, "entry")
    BY <2>9 DEF Sound
  <2>11. QED BY <2>1, <2>4, <2>10 DEF field
<1>5. ASSUME HasEntry(data, at) PROVE k < Count(W) /\ f <= l
  <2>1. size \in Nat \ {0} /\ at + size <= Len(data) /\ base + at + size \in Stream!Ends(W)
    BY <1>3, <1>5, EntryEnds
  <2>2. PICK j \in 1..Count(W) : EndAt(W, j) = base + at + size
    BY <1>1, <2>1, EndsAre
  <2>3. EndAt(W, j) > e
    <3> HIDE DEF at, e, size
    <3>1. QED BY <1>1, <1>2, <1>3, <2>1, <2>2
  <2>4. k < Count(W)
    <3>1. k # Count(W)
      <4> SUFFICES ASSUME k = Count(W) PROVE FALSE
        OBVIOUS
      <4>1. k \in 1..Count(W)
        BY <1>2, <2>2
      <4>2. j = k \/ j < k
        BY <1>2
      <4>3. EndAt(W, j) = e \/ EndAt(W, j) < e
        BY <1>1, <4>1, <4>2, EndsAre
      <4>4. EndAt(W, j) \in Nat
        BY <1>1, EndsAre
      <4> HIDE DEF e
      <4>5. QED BY <1>2, <2>3, <4>3, <4>4
    <3>2. QED BY <1>2, <3>1
  <2>5. at < Len(data)
    <3> HIDE DEF at, size
    <3>1. QED BY <1>1, <1>3, <2>1
  <2>6. size = f - e
    BY <1>4, <2>4, <2>5
  <2>7. QED
    <3> HIDE DEF at, e, f, size
    <3>1. f \in Nat
      BY <1>2, <2>4
    <3>2. base + at + size <= l
      BY <1>1, <1>3, <2>1
    <3>3. QED BY <1>2, <1>3, <2>1, <2>4, <2>6, <3>1, <3>2
<1>6. ASSUME k < Count(W), f <= l PROVE HasEntry(data, at)
  <2>1. k + 1 \in 1..Count(W) /\ (k + 1) - 1 = k
    BY <1>2, <1>6
  <2>2. e < f
    BY <1>1, <2>1, EntriesLie
  <2> HIDE DEF e, f
  <2>3. at < Len(data)
    BY <1>1, <1>2, <1>3, <1>6, <2>1, <2>2 DEF e
  <2>4. size = f - e /\ Sound(FieldAt(data, at), "entry")
    BY <1>4, <1>6, <2>3 DEF e, f
  <2>5. at + size <= Len(data)
    <3> HIDE DEF at, size
    <3>1. QED BY <1>1, <1>2, <1>3, <1>6, <2>1, <2>4
  <2>6. QED BY <2>3, <2>4, <2>5 DEF HasEntry
<1>7. HasEntry(data, at) => at < Len(data)
  BY DEF HasEntry
<1>8. QED BY <1>3, <1>4, <1>5, <1>6, <1>7

\* What reading the first l bytes of a batch that declares c entries comes to,
\* when i were read before.
ReadAsFar(W, l, c, i, read) ==
  LET j == UpTo(W, l) IN
  /\ read.out = [k \in 1..(j - i) |-> W[EndAt(W, i + k)].value]
  /\ read.consumed = EndAt(W, j)
  /\ read.remaining = c - j
  /\ read.verdict \in {"Done", "Waiting", "Invalid"}
  /\ read.verdict = "Done" <=> j = c
  /\ read.verdict = "Invalid" => j = Count(W)

\* Where reading p on may begin.
ReadFrom(W, base, l, c, i, p) ==
  /\ c \in Nat /\ Count(W) <= c
  /\ i \in 0..UpTo(W, l) /\ base <= EndAt(W, i) /\ EndAt(W, 0) <= l
  /\ p.consumed = EndAt(W, i) /\ p.remaining = c - i

\* Up to the last end within reach, every end is within reach.
LEMMA EndsWithin ==
  ASSUME NEW W, NEW base, NEW l, NEW data, Between(W, base, l, data),
         NEW i \in 0..UpTo(W, l), base <= EndAt(W, i), EndAt(W, 0) <= l
  PROVE  /\ UpTo(W, l) \in Nat /\ UpTo(W, l) <= Count(W) /\ Count(W) \in Nat
         /\ \A k \in i..UpTo(W, l) :
              k \in 0..Count(W) /\ EndAt(W, k) \in Nat /\ base <= EndAt(W, k) /\ EndAt(W, k) <= l
         /\ UpTo(W, l) < Count(W) => ~(EndAt(W, UpTo(W, l) + 1) <= l)
<1> DEFINE j == UpTo(W, l)
<1>1. W \in Seq(Cells) /\ Encoded(W) /\ l \in Nat /\ base \in Nat
  BY DEF Between
<1>2. /\ j \in 0..Count(W) /\ j \in Nat /\ Count(W) \in Nat
      /\ \A k \in 1..Count(W) : k <= j <=> EndAt(W, k) <= l
  BY <1>1, UpToCounts, EndsAre
<1>3. /\ \A k \in 0..Count(W) : EndAt(W, k) \in Nat
      /\ \A k, o \in 1..Count(W) : k < o => EndAt(W, k) < EndAt(W, o)
      /\ \A k \in 1..Count(W) : EndAt(W, k - 1) < EndAt(W, k)
  BY <1>1, EndsAre, EntriesLie
<1> HIDE DEF j
<1>4. ASSUME NEW k \in i..j PROVE k \in 0..Count(W) /\ EndAt(W, k) \in Nat /\ base <= EndAt(W, k) /\ EndAt(W, k) <= l
  <2>1. k \in 0..Count(W) /\ i \in 0..Count(W) /\ i \in Nat
    BY <1>2 DEF j
  <2>2. EndAt(W, k) <= l
    <3>1. CASE k = 0
      BY <3>1
    <3>2. CASE k # 0
      <4>1. k \in 1..Count(W) /\ k <= j
        BY <1>2, <2>1, <3>2
      <4>2. QED BY <1>2, <4>1
    <3>3. QED BY <3>1, <3>2
  <2>3. EndAt(W, i) <= EndAt(W, k)
    <3>1. CASE k = i
      BY <1>3, <2>1, <3>1
    <3>2. CASE k # i /\ i # 0
      <4>1. k \in 1..Count(W) /\ i \in 1..Count(W) /\ i < k
        BY <2>1, <3>2
      <4>2. EndAt(W, i) < EndAt(W, k)
        BY <1>3, <4>1
      <4>3. QED BY <1>3, <2>1, <4>2
    <3>3. CASE k # i /\ i = 0
      <4>1. k \in 1..Count(W) /\ 1 \in 1..Count(W) /\ 1 - 1 = 0
        BY <1>2, <2>1, <3>3
      <4>2. EndAt(W, 0) < EndAt(W, 1)
        BY <1>3, <4>1
      <4>3. k = 1 \/ EndAt(W, 1) < EndAt(W, k)
        BY <1>3, <4>1
      <4>4. EndAt(W, 0) \in Nat /\ EndAt(W, 1) \in Nat /\ EndAt(W, k) \in Nat
        BY <1>2, <1>3, <4>1
      <4>5. QED BY <3>3, <4>2, <4>3, <4>4
    <3>4. QED BY <3>1, <3>2, <3>3
  <2>4. EndAt(W, i) \in Nat /\ EndAt(W, k) \in Nat
    BY <1>3, <2>1
  <2>5. QED BY <1>1, <2>1, <2>2, <2>3, <2>4
<1>5. ASSUME j < Count(W) PROVE ~(EndAt(W, j + 1) <= l)
  <2>1. j + 1 \in 1..Count(W) /\ ~(j + 1 <= j)
    BY <1>2, <1>5
  <2>2. QED BY <1>2, <2>1
<1>6. QED BY <1>2, <1>4, <1>5 DEF j

LEMMA ReadsEntries ==
  ASSUME NEW W, NEW base, NEW l, NEW data, Between(W, base, l, data),
         NEW c, NEW i, NEW p, ReadFrom(W, base, l, c, i, p)
  PROVE  ReadAsFar(W, l, c, i, ReadEntries(data, base, p))
<1> DEFINE j == UpTo(W, l)
           R == p.remaining
           Rec(f) == f = [k \in 0..p.remaining |->
                            IF k = 0 THEN p.consumed
                            ELSE IF f[k - 1] # -1 /\ HasEntry(data, f[k - 1] - base)
                                 THEN f[k - 1] + data[f[k - 1] - base + 1].size
                                 ELSE -1]
           F == [k \in 0..R |-> IF i + k <= j THEN EndAt(W, i + k) ELSE -1]
           ends == CHOOSE f : Rec(f)
           taken == Max({k \in 0..p.remaining : ends[k] # -1})
           left  == ends[taken] - base
           read  == ReadEntries(data, base, p)
<1>1. /\ c \in Nat /\ Count(W) <= c
      /\ i \in 0..j /\ base <= EndAt(W, i) /\ EndAt(W, 0) <= l
      /\ p.consumed = EndAt(W, i) /\ R = c - i
  BY DEF ReadFrom
<1>2. read = [out       |-> [k \in 1..taken |-> data[ends[k - 1] - base + 1].value],
              consumed  |-> ends[taken],
              remaining |-> p.remaining - taken,
              verdict   |-> CASE taken = p.remaining -> "Done"
                              [] taken < p.remaining /\ left > Len(data) -> "OutOfRange"
                              [] taken < p.remaining /\ left = Len(data) -> "Waiting"
                              [] OTHER -> IF Sound(FieldAt(data, left), "entry")
                                          THEN "Waiting" ELSE "Invalid"]
  BY DEF ReadEntries
<1>3. /\ j \in Nat /\ j <= Count(W) /\ Count(W) \in Nat
      /\ \A k \in i..j : /\ k \in 0..Count(W) /\ EndAt(W, k) \in Nat
                         /\ base <= EndAt(W, k) /\ EndAt(W, k) <= l
      /\ j < Count(W) => ~(EndAt(W, j + 1) <= l)
  BY <1>1, EndsWithin
<1>4. i \in Nat /\ R \in Nat /\ j - i \in 0..R /\ c \in Nat /\ i <= j /\ j <= c
  BY <1>1, <1>3
<1> DEFINE At_(k) == EndAt(W, k) - base
<1>5. ASSUME NEW k \in i..j
      PROVE  /\ At_(k) \in Nat /\ At_(k) <= Len(data) /\ Len(data) \in Nat
             /\ HasEntry(data, At_(k)) <=> k < j
             /\ k < j => /\ data[At_(k) + 1].size = EndAt(W, k + 1) - EndAt(W, k)
                         /\ data[At_(k) + 1].value = W[EndAt(W, k + 1)].value
             /\ k < Count(W) /\ At_(k) < Len(data) => Sound(FieldAt(data, At_(k)), "entry")
  <2>1. k \in 0..Count(W) /\ base <= EndAt(W, k) /\ EndAt(W, k) <= l /\ k \in Nat
    BY <1>3, <1>4
  <2>2. /\ At_(k) \in Nat /\ At_(k) <= Len(data) /\ Len(data) \in Nat
        /\ HasEntry(data, At_(k)) <=> (k < Count(W) /\ EndAt(W, k + 1) <= l)
        /\ HasEntry(data, At_(k)) => /\ data[At_(k) + 1].size = EndAt(W, k + 1) - EndAt(W, k)
                                     /\ data[At_(k) + 1].value = W[EndAt(W, k + 1)].value
        /\ k < Count(W) /\ At_(k) < Len(data) => Sound(FieldAt(data, At_(k)), "entry")
    BY <2>1, NextEntry
  <2>3. (k < Count(W) /\ EndAt(W, k + 1) <= l) <=> k < j
    <3>1. CASE k < j
      <4>1. k + 1 \in i..j
        BY <1>3, <1>4, <3>1
      <4>2. QED BY <1>3, <2>1, <3>1, <4>1
    <3>2. CASE k = j
      BY <1>3, <3>2
    <3>3. QED BY <1>3, <1>4, <3>1, <3>2
  <2>4. QED BY <2>2, <2>3
<1>6. \A k \in 0..R : F[k] = IF i + k <= j THEN EndAt(W, i + k) ELSE -1
  OBVIOUS
<1> HIDE DEF At_, j, R, F
<1>7. \A k \in 0..R : F[k] # -1 <=> i + k <= j
  <2> SUFFICES ASSUME NEW k \in 0..R PROVE F[k] # -1 <=> i + k <= j
    OBVIOUS
  <2>1. i + k <= j => i + k \in i..j
    BY <1>3, <1>4
  <2>2. i + k <= j => EndAt(W, i + k) \in Nat
    BY <1>3, <2>1
  <2>3. QED BY <1>6, <2>2
\* The next end of all is what the recursion says.
<1>8. ASSUME NEW k \in 1..R
      PROVE  F[k] = IF F[k - 1] # -1 /\ HasEntry(data, F[k - 1] - base)
                    THEN F[k - 1] + data[F[k - 1] - base + 1].size ELSE -1
  <2>1. k \in 0..R /\ k - 1 \in 0..R /\ (i + (k - 1)) + 1 = i + k /\ k \in Nat
    BY <1>4
  <2>2. CASE i + (k - 1) <= j
    <3> DEFINE o == i + (k - 1)
    <3>1. o \in i..j /\ F[k - 1] = EndAt(W, o) /\ F[k - 1] # -1 /\ o + 1 = i + k
      BY <1>3, <1>4, <1>6, <1>7, <2>1, <2>2
    <3> HIDE DEF o
    <3>2. /\ F[k - 1] - base = At_(o)
      BY <3>1 DEF At_
    <3>3. HasEntry(data, F[k - 1] - base) <=> o < j
      BY <1>5, <3>1, <3>2
    <3>4. CASE o < j
      <4>1. i + k <= j /\ o + 1 \in i..j
        BY <1>3, <1>4, <3>1, <3>4
      <4>2. data[F[k - 1] - base + 1].size = EndAt(W, o + 1) - EndAt(W, o)
        BY <1>5, <3>1, <3>2, <3>4
      <4>3. EndAt(W, o + 1) \in Nat /\ EndAt(W, o) \in Nat
        BY <1>3, <3>1, <4>1
      <4>4. F[k - 1] + data[F[k - 1] - base + 1].size = EndAt(W, o + 1)
        <5> DEFINE u == EndAt(W, o)
                   v == EndAt(W, o + 1)
        <5>1. u \in Nat /\ v \in Nat /\ data[F[k - 1] - base + 1].size = v - u /\ F[k - 1] = u
          BY <3>1, <4>2, <4>3
        <5> HIDE DEF u, v
        <5>2. u + (v - u) = v
          BY <5>1
        <5>3. QED BY <5>1, <5>2 DEF v
      <4>5. QED BY <1>6, <2>1, <3>1, <3>3, <3>4, <4>1, <4>4
    <3>5. CASE ~(o < j)
      <4>1. ~(i + k <= j)
        BY <1>3, <1>4, <3>1, <3>5
      <4>2. QED BY <1>6, <2>1, <3>3, <3>5, <4>1
    <3>6. QED BY <3>4, <3>5
  <2>3. CASE ~(i + (k - 1) <= j)
    <3>1. F[k - 1] = -1 /\ ~(i + k <= j)
      BY <1>3, <1>4, <1>6, <2>1, <2>3
    <3>2. QED BY <1>6, <2>1, <3>1
  <2>4. QED BY <2>2, <2>3
<1>9. F[0] = p.consumed /\ 0 \in 0..R
  <2>1. 0 \in 0..R /\ i + 0 = i /\ i <= j
    BY <1>4
  <2>2. QED BY <1>1, <1>6, <2>1
<1>10. Rec(F)
  <2>1. ASSUME NEW k \in 0..R
        PROVE  F[k] = IF k = 0 THEN p.consumed
                      ELSE IF F[k - 1] # -1 /\ HasEntry(data, F[k - 1] - base)
                           THEN F[k - 1] + data[F[k - 1] - base + 1].size ELSE -1
    <3>1. CASE k = 0
      BY <1>9, <3>1
    <3>2. CASE k # 0
      <4>1. k \in 1..R
        BY <1>4, <3>2
      <4>2. QED BY <1>8, <3>2, <4>1
    <3>3. QED BY <3>1, <3>2
  <2>2. F = [k \in 0..R |-> F[k]]
    BY DEF F
  <2>3. QED BY <2>1, <2>2 DEF R
<1>11. Rec(ends)
  <2> HIDE DEF Rec
  <2>1. QED BY <1>10
\* It says so of no other function.
<1>12. \A k \in 0..R : ends[k] = F[k]
  <2> HIDE DEF ends
  <2> DEFINE Bad == {k \in Nat : k \in 0..R /\ ends[k] # F[k]}
  <2> SUFFICES ASSUME Bad # {} PROVE FALSE
    BY <1>4
  <2>1. Bad \subseteq Nat
    OBVIOUS
  <2> HIDE DEF Bad
  <2>2. PICK k \in Bad : \A o \in Bad : k <= o
    BY <2>1, LeastNat, Zenon
  <2>3. k \in 0..R /\ ends[k] # F[k] /\ k \in Nat
    BY <2>2 DEF Bad
  <2>4. \A o \in 0..R : ends[o] = IF o = 0 THEN p.consumed
                                  ELSE IF ends[o - 1] # -1 /\ HasEntry(data, ends[o - 1] - base)
                                       THEN ends[o - 1] + data[ends[o - 1] - base + 1].size ELSE -1
    BY <1>11 DEF R
  <2>5. k # 0
    BY <1>9, <2>3, <2>4
  <2>6. k \in 1..R /\ k - 1 \in 0..R /\ k - 1 \in Nat /\ ~(k <= k - 1)
    BY <1>4, <2>3, <2>5
  <2>7. k - 1 \notin Bad
    BY <2>2, <2>6
  <2>8. ends[k - 1] = F[k - 1]
    BY <2>6, <2>7 DEF Bad
  <2>9. QED BY <1>8, <2>3, <2>4, <2>5, <2>6, <2>8
<1>13. taken = j - i
  <2> DEFINE S == {k \in 0..p.remaining : ends[k] # -1}
  <2>1. S = 0..(j - i)
    <3>1. S = {k \in 0..R : F[k] # -1}
      BY <1>12 DEF R
    <3>2. \A k \in 0..R : i + k <= j <=> k <= j - i
      BY <1>3, <1>4
    <3> HIDE DEF S, ends
    <3>3. QED BY <1>4, <1>7, <3>1, <3>2
  <2> HIDE DEF S
  <2>2. S \subseteq -1..(j - i) /\ S # {} /\ j - i \in Nat
    BY <1>4, <2>1
  <2>3. Max(S) \in S /\ \A x \in S : Max(S) >= x
    BY <2>2, MaxExists
  <2>4. j - i \in S
    BY <1>4, <2>1
  <2>5. Max(S) = j - i
    BY <1>4, <2>1, <2>3, <2>4
  <2>6. QED BY <2>5 DEF S
<1>14. ends[taken] = EndAt(W, j) /\ left = At_(j)
  <2>1. i + (j - i) = j /\ j <= j /\ j - i \in 0..R
    BY <1>3, <1>4
  <2>2. F[j - i] = EndAt(W, j)
    BY <1>6, <2>1
  <2>3. ends[taken] = EndAt(W, j)
    BY <1>12, <1>13, <2>1, <2>2
  <2>4. QED BY <2>3 DEF At_
<1>15. \A k \in 1..(j - i) : data[ends[k - 1] - base + 1].value = W[EndAt(W, i + k)].value
  <2> SUFFICES ASSUME NEW k \in 1..(j - i)
               PROVE  data[ends[k - 1] - base + 1].value = W[EndAt(W, i + k)].value
    OBVIOUS
  <2> DEFINE o == i + (k - 1)
  <2>1. k - 1 \in 0..R /\ o \in i..j /\ o < j /\ o + 1 = i + k /\ o <= j
    BY <1>3, <1>4
  <2>2. ends[k - 1] = EndAt(W, o)
    BY <1>6, <1>12, <2>1
  <2> HIDE DEF o, ends
  <2>3. ends[k - 1] - base = At_(o)
    BY <2>2 DEF At_
  <2>4. QED BY <1>5, <2>1, <2>3
<1> HIDE DEF ends, taken, left, F
<1>16. /\ read.out = [k \in 1..(j - i) |-> W[EndAt(W, i + k)].value]
       /\ read.consumed = EndAt(W, j)
       /\ read.remaining = c - j
  <2>1. R - (j - i) = c - j
    BY <1>1, <1>3, <1>4
  <2>2. read.out = [k \in 1..taken |-> data[ends[k - 1] - base + 1].value]
    BY <1>2
  <2>3. read.consumed = ends[taken] /\ read.remaining = R - taken
    BY <1>2 DEF R
  <2> HIDE DEF read
  <2>4. QED BY <1>13, <1>14, <1>15, <2>1, <2>2, <2>3
<1>17. read.verdict = CASE taken = R -> "Done"
                        [] taken < R /\ left > Len(data) -> "OutOfRange"
                        [] taken < R /\ left = Len(data) -> "Waiting"
                        [] OTHER -> IF Sound(FieldAt(data, left), "entry")
                                    THEN "Waiting" ELSE "Invalid"
  BY <1>2 DEF R
<1> HIDE DEF read
<1>18. left \in Nat /\ left <= Len(data) /\ Len(data) \in Nat
       /\ (j < Count(W) /\ left < Len(data) => Sound(FieldAt(data, left), "entry"))
  <2>1. j \in i..j
    BY <1>3, <1>4
  <2>2. QED BY <1>5, <1>14, <2>1
<1>19. taken = R <=> j = c
  BY <1>1, <1>3, <1>4, <1>13
<1>20. taken <= R /\ taken \in Nat
  BY <1>4, <1>13
<1>21. CASE taken = R
  <2>1. read.verdict = "Done" /\ j = c
    BY <1>4, <1>17, <1>19, <1>20, <1>21
  <2>2. QED BY <1>16, <2>1 DEF ReadAsFar, j, read
<1>22. CASE taken < R /\ left = Len(data)
  <2>1. read.verdict = "Waiting" /\ j # c
    BY <1>4, <1>17, <1>18, <1>19, <1>20, <1>22
  <2>2. QED BY <1>16, <2>1 DEF ReadAsFar, j, read
<1>23. CASE taken < R /\ left < Len(data)
  <2>1. /\ read.verdict = IF Sound(FieldAt(data, left), "entry") THEN "Waiting" ELSE "Invalid"
        /\ j # c
    BY <1>4, <1>17, <1>18, <1>19, <1>20, <1>23
  <2>2. read.verdict = "Invalid" => j = Count(W)
    BY <1>3, <1>18, <1>23, <2>1
  <2>3. QED BY <1>16, <2>1, <2>2 DEF ReadAsFar, j, read
<1>24. QED BY <1>4, <1>18, <1>20, <1>21, <1>22, <1>23

\* p has read of a batch what its first l bytes hold.
HasRead(W, l, p) ==
  IF p.remaining = NoCount THEN p.consumed = 0 /\ l < ENTRY_COUNT
  ELSE /\ ENTRY_COUNT <= l
       /\ p.consumed = EndAt(W, UpTo(W, l))
       /\ p.remaining = W[1].value - UpTo(W, l) /\ p.remaining > 0

\* What decoding the first l bytes comes to, when i entries were read before:
\* the count is not there yet, or is none, or the entries are read on.
Decodes(W, l, i, read) ==
  /\ read.out = [k \in 1..(UpTo(W, l) - i) |-> W[EndAt(W, i + k)].value]
  /\ \/ /\ read.verdict = "Waiting" /\ l < ENTRY_COUNT
        /\ read.consumed = 0 /\ read.remaining = NoCount
     \/ read.verdict = "Invalid" /\ Count(W) = 0 /\ ~Declared(W)
     \/ ENTRY_COUNT <= l /\ ReadAsFar(W, l, W[1].value, i, read)

\* Before the count is there, no entry is.
LEMMA NoneBeforeCount ==
  ASSUME NEW W \in Seq(Cells), Encoded(W), NEW l \in Nat, l <= ENTRY_COUNT
  PROVE  UpTo(W, l) = 0
<1>1. /\ UpTo(W, l) \in 0..Count(W) /\ UpTo(W, l) \in Nat /\ Count(W) \in Nat
      /\ \A k \in 1..Count(W) : k <= UpTo(W, l) <=> EndAt(W, k) <= l
  BY UpToCounts, EndsAre
<1>2. SUFFICES ASSUME UpTo(W, l) # 0 PROVE FALSE
  OBVIOUS
<1>3. 1 \in 1..Count(W) /\ 1 <= UpTo(W, l) /\ 1 - 1 = 0
  BY <1>1, <1>2
<1>4. EndAt(W, 1) <= l /\ EndAt(W, 0) < EndAt(W, 1) /\ EndAt(W, 1) \in Nat
  BY <1>1, <1>3, EntriesLie
<1>5. EndAt(W, 0) = ENTRY_COUNT
  BY DEF EndAt
<1>6. QED BY <1>4, <1>5, BufferAssumption

LEMMA DeclaredIs ==
  ASSUME NEW W \in Seq(Cells)
  PROVE  /\ Declared(W) <=> /\ ENTRY_COUNT <= Len(W)
                            /\ SubSeq(W, 1, ENTRY_COUNT) = Field("count", Count(W), ENTRY_COUNT)
         /\ Stream!Whole(W) = FirstEntries(W, Count(W))
<1>1. Len(W) \in Nat /\ Count(W) \in Nat /\ UpTo(W, Len(W)) = Count(W)
  BY EndsAre, UpToGrows
<1>2. SubSeq(W, 1, Len(W)) = W
  OBVIOUS
<1>3. Stream!Whole(SubSeq(W, 1, Len(W))) = FirstEntries(W, UpTo(W, Len(W)))
  BY <1>1, WholeOfPrefix
<1>4. Stream!Whole(W) = FirstEntries(W, Count(W))
  BY <1>1, <1>2, <1>3
<1>5. Len(Stream!Whole(W)) = Count(W)
  BY <1>1, <1>4 DEF FirstEntries
<1>6. ENTRY_COUNT \in Nat
  BY BufferAssumption
<1>7. QED BY <1>1, <1>4, <1>5, <1>6 DEF Declared

\* The first cell of a count.
LEMMA CountLies ==
  ASSUME NEW W \in Seq(Cells), ENTRY_COUNT <= Len(W), NEW v,
         SubSeq(W, 1, ENTRY_COUNT) = Field("count", v, ENTRY_COUNT)
  PROVE  \A x \in 1..ENTRY_COUNT :
           W[x] = [tag |-> "count", value |-> v, size |-> ENTRY_COUNT, part |-> x]
<1>1. ENTRY_COUNT \in Nat
  BY BufferAssumption
<1>2. SUFFICES ASSUME NEW x \in 1..ENTRY_COUNT
               PROVE  W[x] = [tag |-> "count", value |-> v, size |-> ENTRY_COUNT, part |-> x]
  OBVIOUS
<1>3. SubSeq(W, 1, ENTRY_COUNT)[x] = W[x]
  BY <1>1
<1>4. Field("count", v, ENTRY_COUNT)[x] =
        [tag |-> "count", value |-> v, size |-> ENTRY_COUNT, part |-> x]
  BY DEF Field
<1>5. QED BY <1>3, <1>4

LEMMA DeclaredCount ==
  ASSUME NEW W \in Seq(Cells), Declared(W)
  PROVE  W[1].value = Count(W)
<1>1. ENTRY_COUNT <= Len(W) /\ SubSeq(W, 1, ENTRY_COUNT) = Field("count", Count(W), ENTRY_COUNT)
  BY DeclaredIs
<1> DEFINE v == Count(W)
<1> HIDE DEF v
<1>2. ENTRY_COUNT <= Len(W) /\ SubSeq(W, 1, ENTRY_COUNT) = Field("count", v, ENTRY_COUNT)
  BY <1>1 DEF v
<1>3. 1 \in 1..ENTRY_COUNT
  BY BufferAssumption
<1>4. W[1] = [tag |-> "count", value |-> v, size |-> ENTRY_COUNT, part |-> 1]
  BY <1>2, <1>3, CountLies
<1>5. QED BY <1>4 DEF v

\* A count that is all there reads as one.
LEMMA CountReads ==
  ASSUME NEW W, NEW l, NEW data, Between(W, 0, l, data), ENTRY_COUNT <= l, NEW v,
         SubSeq(W, 1, ENTRY_COUNT) = Field("count", v, ENTRY_COUNT)
  PROVE  Sound(FieldAt(data, 0), "count") /\ data[1].value = v
<1>1. /\ W \in Seq(Cells) /\ l \in Nat /\ l <= Len(W) /\ data \in Seq(Cells) /\ Len(data) = l
      /\ \A x \in 1..l : data[x] = W[x]
  <2>1. /\ W \in Seq(Cells) /\ l \in Nat /\ l <= Len(W) /\ data \in Seq(Cells) /\ Len(data) = l - 0
        /\ \A x \in 1..(l - 0) : data[x] = W[0 + x]
    BY DEF Between
  <2>2. l - 0 = l /\ \A x \in 1..l : 0 + x = x
    BY <2>1
  <2>3. QED BY <2>1, <2>2
<1>2. ENTRY_COUNT \in Nat \ {0} /\ Len(W) \in Nat /\ ENTRY_COUNT <= Len(W)
  BY <1>1, BufferAssumption
<1> DEFINE cell(x) == [tag |-> "count", value |-> v, size |-> ENTRY_COUNT, part |-> x]
<1>3. \A x \in 1..ENTRY_COUNT : data[x] = cell(x)
  <2>1. \A x \in 1..ENTRY_COUNT : W[x] = cell(x)
    BY <1>1, <1>2, CountLies
  <2>2. \A x \in 1..ENTRY_COUNT : x \in 1..l
    BY <1>1, <1>2
  <2>3. QED BY <1>1, <2>1, <2>2
<1>4. data[1] = cell(1) /\ data[0 + 1] = cell(1)
  BY <1>2, <1>3
<1>5. data[0 + 1].size = ENTRY_COUNT /\ data[1].value = v
  BY <1>4
<1>6. FieldAt(data, 0) = [x \in 1..ENTRY_COUNT |-> data[0 + x]]
  <2>1. 0 \in Nat /\ 0 < Len(data) /\ 0 + ENTRY_COUNT <= Len(data)
    BY <1>1, <1>2
  <2>2. QED BY <1>1, <1>5, <2>1, FieldAtIs
<1> DEFINE field == FieldAt(data, 0)
<1>7. DOMAIN field = 1..ENTRY_COUNT /\ \A x \in 1..ENTRY_COUNT : field[x] = cell(x)
  <2>1. \A x \in 1..ENTRY_COUNT : 0 + x = x
    BY <1>2
  <2>2. QED BY <1>3, <1>6, <2>1
<1> HIDE DEF field
<1>8. ASSUME NEW x \in DOMAIN field PROVE field[x] = [field[1] EXCEPT !.part = x, !.tag = "count"]
  <2> DEFINE c == field[1]
             d == [c EXCEPT !.part = x]
  <2>1. c = cell(1)
    BY <1>2, <1>7
  <2> HIDE DEF c
  <2>2. d = cell(x)
    BY <2>1
  <2> HIDE DEF d
  <2>3. [d EXCEPT !.tag = "count"] = cell(x)
    BY <2>2
  <2>4. QED BY <1>7, <1>8, <2>3 DEF c, d
<1>9. QED BY <1>5, <1>8 DEF Sound, field

\* A batch's count is no less than what it holds.
LEMMA CountEnough ==
  ASSUME NEW W \in Seq(Cells), Encoded(W), 1 <= Len(W)
  PROVE  W[1].value \in Nat /\ Count(W) <= W[1].value
<1>1. W[1] \in Cells
  OBVIOUS
<1>2. W[1].value \in Nat
  BY <1>1 DEF Cells
<1>3. CASE Stream!Ends(W) = {}
  <2>1. Count(W) = 0
    BY <1>3, FS_EmptySet DEF Count
  <2>2. QED BY <1>2, <2>1
<1>4. CASE Stream!Ends(W) # {}
  BY <1>2, <1>4 DEF Encoded
<1>5. QED BY <1>3, <1>4

LEMMA DecodesOn ==
  ASSUME NEW W, NEW base, NEW l, NEW data, Between(W, base, l, data),
         NEW p, ProgressShaped(p), NEW o \in Nat, o <= l, HasRead(W, o, p),
         base <= p.consumed
  PROVE  Decodes(W, l, UpTo(W, o), Decode(data, base, p))
<1> DEFINE i == UpTo(W, o)
           j == UpTo(W, l)
           read == Decode(data, base, p)
<1>1. /\ W \in Seq(Cells) /\ Encoded(W) /\ base \in Nat /\ l \in Nat /\ base <= l /\ l <= Len(W)
      /\ data \in Seq(Cells) /\ Len(data) = l - base
      /\ \A x \in 1..(l - base) : data[x] = W[base + x]
  BY DEF Between
<1>2. ENTRY_COUNT \in Nat \ {0} /\ EndAt(W, 0) = ENTRY_COUNT /\ Len(W) \in Nat
  BY <1>1, BufferAssumption DEF EndAt
<1>3. i \in 0..j /\ i \in Nat /\ j \in Nat /\ j <= Count(W) /\ Count(W) \in Nat
  <2>1. UpTo(W, o) <= UpTo(W, l)
    BY <1>1, UpToGrows
  <2>2. UpTo(W, o) \in Nat /\ UpTo(W, l) \in 0..Count(W) /\ UpTo(W, l) \in Nat /\ Count(W) \in Nat
    BY <1>1, UpToCounts, EndsAre
  <2>3. QED BY <2>1, <2>2
<1> HIDE DEF i, j
\* The count was read before.
<1>4. CASE p.remaining # NoCount
  <2>1. ENTRY_COUNT <= o /\ p.consumed = EndAt(W, i) /\ p.remaining = W[1].value - i
    BY <1>4 DEF HasRead, i
  <2>2. ENTRY_COUNT <= l /\ 1 <= Len(W)
    BY <1>1, <1>2, <2>1
  <2>3. W[1].value \in Nat /\ Count(W) <= W[1].value
    BY <1>1, <2>2, CountEnough
  <2>4. ReadFrom(W, base, l, W[1].value, i, p)
    BY <1>2, <1>3, <2>1, <2>2, <2>3 DEF ReadFrom, j
  <2>5. ReadAsFar(W, l, W[1].value, i, ReadEntries(data, base, p))
    BY <2>4, ReadsEntries
  <2>6. read = ReadEntries(data, base, p)
    BY <1>4 DEF Decode
  <2> HIDE DEF read
  <2>7. QED BY <2>2, <2>5, <2>6 DEF Decodes, ReadAsFar, i, read
\* It was not: nothing is passed over yet.
<1>5. CASE p.remaining = NoCount
  <2>1. p.consumed = 0 /\ o < ENTRY_COUNT /\ base = 0
    BY <1>1, <1>5 DEF HasRead
  <2>2. i = 0
    BY <1>1, <1>2, <2>1, NoneBeforeCount DEF i
  <2>3. p.consumed - base = 0 /\ 0 + ENTRY_COUNT = ENTRY_COUNT /\ Len(data) = l /\ 0 + 1 = 1
    BY <1>1, <1>2, <2>1
  <2> DEFINE stuck(v) == [out |-> <<>>, consumed |-> p.consumed,
                          remaining |-> p.remaining, verdict |-> v]
             bad == ~Sound(FieldAt(data, 0), "count") \/ data[1].value * MIN_ENTRY_BYTES > MAX_BATCH_BYTES
             q   == [p EXCEPT !.remaining = data[1].value, !.consumed = @ + ENTRY_COUNT]
  <2>4. read = IF ENTRY_COUNT > l THEN stuck("Waiting")
               ELSE IF bad THEN stuck("Invalid")
               ELSE ReadEntries(data, base, q)
    BY <1>5, <2>1, <2>3 DEF Decode
  <2>5. [k \in 1..0 |-> W[EndAt(W, i + k)].value] = <<>>
    OBVIOUS
  <2> HIDE DEF bad, q, read
  <2>6. CASE ENTRY_COUNT > l
    <3>1. j = 0
      BY <1>1, <1>2, <2>6, NoneBeforeCount DEF j
    <3>2. read = stuck("Waiting") /\ l < ENTRY_COUNT /\ j - i = 0
      BY <1>1, <1>2, <2>2, <2>4, <2>6, <3>1
    <3>3. read.out = <<>> /\ read.verdict = "Waiting" /\ read.consumed = 0 /\ read.remaining = NoCount
      BY <1>5, <2>1, <3>2
    <3>4. QED BY <2>5, <3>2, <3>3 DEF Decodes, i, j, read
  <2>7. CASE ENTRY_COUNT <= l /\ bad
    <3>1. read = stuck("Invalid")
      BY <1>1, <1>2, <2>4, <2>7
    <3>2. read.out = <<>> /\ read.verdict = "Invalid"
      BY <3>1
    <3>3. \A v : SubSeq(W, 1, ENTRY_COUNT) = Field("count", v, ENTRY_COUNT) =>
                   v * MIN_ENTRY_BYTES > MAX_BATCH_BYTES
      <4> SUFFICES ASSUME NEW v, SubSeq(W, 1, ENTRY_COUNT) = Field("count", v, ENTRY_COUNT)
                   PROVE  v * MIN_ENTRY_BYTES > MAX_BATCH_BYTES
        OBVIOUS
      <4>1. Sound(FieldAt(data, 0), "count") /\ data[1].value = v
        BY <2>1, <2>7, CountReads
      <4>2. QED BY <2>7, <4>1 DEF bad
    <3>4. Count(W) = 0
      <4>1. CASE Stream!Ends(W) = {}
        BY <4>1, FS_EmptySet DEF Count
      <4>2. CASE Stream!Ends(W) # {}
        <5> DEFINE v == W[1].value
        <5>1. SubSeq(W, 1, ENTRY_COUNT) = Field("count", v, ENTRY_COUNT)
              /\ v * MIN_ENTRY_BYTES <= MAX_BATCH_BYTES
          BY <1>1, <4>2 DEF Encoded
        <5>2. v \in Nat
          BY <1>1, <1>2, <2>7, CountEnough
        <5> HIDE DEF v
        <5>3. v * MIN_ENTRY_BYTES > MAX_BATCH_BYTES
          BY <3>3, <5>1
        <5>4. v * MIN_ENTRY_BYTES \in Nat
          BY <5>2, BufferAssumption
        <5>5. QED BY <5>1, <5>3, <5>4, BufferAssumption
      <4>3. QED BY <4>1, <4>2
    <3>5. ~Declared(W)
      <4> SUFFICES ASSUME Declared(W) PROVE FALSE
        OBVIOUS
      <4>1. SubSeq(W, 1, ENTRY_COUNT) = Field("count", 0, ENTRY_COUNT)
        BY <1>1, <3>4, DeclaredIs
      <4>2. 0 * MIN_ENTRY_BYTES > MAX_BATCH_BYTES
        BY <3>3, <4>1
      <4>3. QED BY <4>2, BufferAssumption
    <3>6. j = 0
      BY <1>3, <3>4
    <3>7. j - i = 0
      BY <2>2, <3>6
    <3>8. QED BY <2>5, <3>2, <3>4, <3>5, <3>7 DEF Decodes, i, j, read
  <2>8. CASE ENTRY_COUNT <= l /\ ~bad
    <3>1. read = ReadEntries(data, base, q)
      BY <1>1, <1>2, <2>4, <2>8
    <3>2. data[1].value = W[1].value /\ 1 <= Len(W)
      <4>1. 1 \in 1..(l - base) /\ base + 1 = 1
        BY <1>1, <1>2, <2>1, <2>8
      <4>2. QED BY <1>1, <1>2, <4>1
    <3>3. W[1].value \in Nat /\ Count(W) <= W[1].value
      BY <1>1, <3>2, CountEnough
    <3>4. q.remaining = W[1].value /\ q.consumed = ENTRY_COUNT
      <4>1. PICK consumed, remaining, opened, closed, padded, extent, resume :
              p = [consumed |-> consumed, remaining |-> remaining, opened |-> opened,
                   closed |-> closed, padded |-> padded, extent |-> extent,
                   resume |-> resume]
        BY Zenon DEF ProgressShaped
      <4> DEFINE r == [p EXCEPT !.remaining = data[1].value]
      <4>2. r = [consumed |-> consumed, remaining |-> data[1].value, opened |-> opened,
                 closed |-> closed, padded |-> padded, extent |-> extent,
                 resume |-> resume]
        BY <4>1
      <4>3. q = [r EXCEPT !.consumed = @ + ENTRY_COUNT]
        BY DEF q
      <4> HIDE DEF r
      <4>4. consumed = 0
        BY <2>1, <4>1
      <4>5. q.remaining = data[1].value /\ q.consumed = consumed + ENTRY_COUNT
        BY <4>2, <4>3
      <4>6. QED BY <1>2, <3>2, <4>4, <4>5
    <3>5. ReadFrom(W, base, l, W[1].value, i, q)
      <4>1. W[1].value - 0 = W[1].value
        BY <3>3
      <4>2. EndAt(W, i) = ENTRY_COUNT /\ base <= ENTRY_COUNT
        BY <1>2, <2>1, <2>2
      <4>3. QED BY <1>2, <1>3, <2>2, <2>8, <3>3, <3>4, <4>1, <4>2 DEF ReadFrom, j
    <3>6. ReadAsFar(W, l, W[1].value, i, ReadEntries(data, base, q))
      BY <3>5, ReadsEntries
    <3>7. QED BY <2>8, <3>1, <3>6 DEF Decodes, ReadAsFar, i, read
  <2>9. QED BY <1>1, <1>2, <2>6, <2>7, <2>8
<1>6. QED BY <1>4, <1>5

----------------------------------------------------------------------------
(* The shreds a batch was cut into, and walking them.                       *)

\* A batch as its leader cut it: where it begins, its shreds' bytes in order,
\* whether the last of them closes it, and all of the bytes with their cuts.
Laid(x) ==
  /\ x.start \in Nat /\ x.size \in Nat /\ x.closes \in BOOLEAN /\ (x.closes => x.size # 0)
  /\ x.shreds \in [1..x.size -> Seq(Cells)]
  /\ x.bytes \in Seq(Cells) /\ x.cut \in [0..x.size -> Nat]
  /\ PiecesLie(x.bytes, x.shreds, x.size, x.cut)

\* With n shreds the batch is closed.
Ended(x, n) == x.closes /\ n = x.size

\* What a buffer holds of the batch is as it was cut, and nothing is held of
\* one more shred than it has, unless the last closes it.
Holds(b, x) ==
  /\ \A k \in 1..x.size :
       x.start + k - 1 \in Held(b) =>
         /\ ShredBytes(b, x.start + k - 1) = x.shreds[k]
         /\ b.shreds[x.start + k - 1].complete = Ended(x, k)
  /\ x.start + x.size \in Held(b) => x.closes

\* Its first n shreds are held.
HasFirst(b, x, n) == n \in 0..x.size /\ \A k \in 1..n : x.start + k - 1 \in Held(b)

\* All that of one buffer and one batch.
Reading(b, x, n) == Laid(x) /\ ShredsShaped(b) /\ Placed(b) /\ Holds(b, x) /\ HasFirst(b, x, n)

\* The walk over its first n shreds.
ExtentTo(x, n) ==
  IF n = 0 THEN NoExtent
  ELSE [last |-> x.start + n - 1, complete |-> Ended(x, n), len |-> x.cut[n]]

LEMMA LaidPieced ==
  ASSUME NEW x, Laid(x), NEW a, NEW c, a \in 0..x.size, c \in a..x.size
  PROVE  Pieced(Cells, x.size, x.shreds, x.bytes, x.cut, a, c)
BY DEF Laid, Pieced

\* The shreds between two cuts are as long as the bytes between them.
LEMMA LenOfCuts ==
  ASSUME NEW b, NEW x, NEW n, Reading(b, x, n), NEW a \in 0..n, NEW c \in a..n
  PROVE  LenOf(b, x.start + a, x.start + c - 1) = x.cut[c] - x.cut[a]
<1> DEFINE s == x.start
           cut == x.cut
           Part(k) == (s + a)..(s + k - 1)
<1>1. /\ s \in Nat /\ n \in 0..x.size /\ x.size \in Nat /\ LensShaped(b) /\ Placed(b)
      /\ cut \in [0..x.size -> Nat] /\ n \in Nat /\ a \in Nat
      /\ x.shreds \in [1..x.size -> Seq(Cells)]
      /\ \A k \in 1..x.size : cut[k] = cut[k - 1] + Len(x.shreds[k])
      /\ \A k \in 1..n : s + k - 1 \in Held(b)
      /\ Held(b) \subseteq Nat
  BY DEF Reading, Laid, HasFirst, Placed, PiecesLie, ShredsShaped
<1>2. PICK g : Sums(g, Held(b), LensOf(b))
  BY <1>1, LensExist
<1>3. \A k \in 1..n : b.shreds[s + k - 1].len = cut[k] - cut[k - 1] /\ k - 1 \in 0..x.size /\ k \in 0..x.size
  <2> SUFFICES ASSUME NEW k \in 1..n
               PROVE b.shreds[s + k - 1].len = cut[k] - cut[k - 1] /\ k - 1 \in 0..x.size /\ k \in 0..x.size
    OBVIOUS
  <2> DEFINE i == s + k - 1
  <2>1. i \in Held(b) /\ k \in 1..x.size /\ k - 1 \in 0..x.size /\ k \in 0..x.size
    BY <1>1
  <2>2. ShredBytes(b, i) = x.shreds[k]
    BY <2>1 DEF Reading, Holds
  <2> HIDE DEF i
  <2>3. Len(ShredBytes(b, i)) = b.shreds[i].len
    BY <1>1, <2>1, BytesOfShred
  <2> DEFINE u == cut[k - 1]
             v == cut[k]
             d == Len(x.shreds[k])
  <2>4. u \in Nat /\ d \in Nat /\ v = u + d
    <3>1. x.shreds[k] \in Seq(Cells) /\ v = u + d
      BY ONLY <1>1, <2>1
    <3>2. u \in Nat
      BY ONLY <1>1, <2>1
    <3>3. QED BY <3>1, <3>2
  <2> HIDE DEF u, v, d
  <2>5. v - u = d
    BY <2>4
  <2>6. QED BY <2>1, <2>2, <2>3, <2>5 DEF u, v, d, i
<1> HIDE DEF s, cut
<1>4. \A k \in a..n : Part(k) \in SUBSET Held(b)
  <2> SUFFICES ASSUME NEW k \in a..n, NEW i \in Part(k) PROVE i \in Held(b)
    OBVIOUS
  <2>1. (i - s) + 1 \in 1..n /\ s + ((i - s) + 1) - 1 = i
    BY <1>1
  <2>2. QED BY <1>1, <2>1
<1> DEFINE Bad == {k \in Nat : k \in a..n /\ g[Part(k)] # cut[k] - cut[a]}
<1>5. Bad = {}
  <2> SUFFICES ASSUME Bad # {} PROVE FALSE
    OBVIOUS
  <2>1. Bad \subseteq Nat
    OBVIOUS
  <2> HIDE DEF Bad
  <2>2. PICK k \in Bad : \A o \in Bad : k <= o
    BY <2>1, LeastNat, Zenon
  <2>3. k \in a..n /\ g[Part(k)] # cut[k] - cut[a] /\ k \in Nat
    BY <2>2 DEF Bad
  <2>4. cut[a] \in Nat
    BY <1>1
  <2>5. k # a
    <3> SUFFICES ASSUME k = a PROVE FALSE
      OBVIOUS
    <3>1. Part(k) = {}
      BY <1>1
    <3>2. g[{}] = 0
      BY <1>1, <1>2, LensNone
    <3>3. cut[k] - cut[a] = 0
      BY <2>4
    <3> HIDE DEF Part
    <3>4. QED BY <2>3, <3>1, <3>2, <3>3
  <2>6. k - 1 \in a..n /\ k - 1 \in Nat /\ k \in 1..n /\ ~(k <= k - 1)
    BY <1>1, <2>3, <2>5
  <2>7. k - 1 \notin Bad
    BY <2>2, <2>6
  <2>8. g[Part(k - 1)] = cut[k - 1] - cut[a]
    BY <2>6, <2>7 DEF Bad
  <2> DEFINE i == s + k - 1
             T == Part(k)
  <2>9. T \in SUBSET Held(b) /\ i \in T /\ T \ {i} = Part(k - 1)
    <3>1. s \in Nat /\ a \in Nat /\ k \in Nat /\ k - 1 >= a
      BY <1>1, <2>6
    <3>2. i \in T /\ T \ {i} = Part(k - 1)
      BY ONLY <3>1
    <3>3. QED BY <1>4, <2>3, <3>2
  <2>10. b.shreds[i].len = cut[k] - cut[k - 1] /\ k - 1 \in 0..x.size /\ k \in 0..x.size
    BY <1>3, <2>6
  <2> HIDE DEF i, T
  <2>11. g[T] = b.shreds[i].len + g[T \ {i}]
    BY <1>1, <1>2, <2>9, LensStep
  <2> DEFINE u == cut[k - 1]
             v == cut[k]
             o == cut[a]
  <2>12. u \in Nat /\ v \in Nat /\ o \in Nat
    BY <1>1, <2>4, <2>10
  <2>13. g[T] = (v - u) + (u - o)
    BY <2>8, <2>9, <2>10, <2>11
  <2> HIDE DEF u, v, o
  <2>14. (v - u) + (u - o) = v - o
    BY <2>12
  <2>15. QED BY <2>3, <2>13, <2>14 DEF u, v, o, T
<1>6. c \in Nat /\ c \in a..n
  BY <1>1
<1>7. g[Part(c)] = cut[c] - cut[a]
  <2> SUFFICES ASSUME g[Part(c)] # cut[c] - cut[a] PROVE FALSE
    OBVIOUS
  <2>1. c \in Bad
    BY <1>6
  <2> HIDE DEF Bad
  <2>2. QED BY <1>5, <2>1
<1>8. LenOf(b, s + a, s + c - 1) = g[Part(c)]
  <2> DEFINE U == Part(c)
  <2>1. U \in SUBSET Held(b)
    BY <1>4, <1>6
  <2>2. LenOf(b, s + a, s + c - 1) = MapThenSumSet(LAMBDA i : b.shreds[i].len, U)
    BY DEF LenOf
  <2> HIDE DEF U
  <2>3. MapThenSumSet(LAMBDA i : b.shreds[i].len, U) = g[U]
    BY <1>1, <1>2, <2>1, LensSum
  <2>4. QED BY <2>2, <2>3 DEF U
<1>9. QED BY <1>7, <1>8 DEF s, cut

\* The shreds' bytes one by one.
LEMMA PieceIs ==
  ASSUME NEW b, NEW x, NEW n, Reading(b, x, n), NEW k \in 1..n
  PROVE  LET i == x.start + k - 1 IN
         /\ i \in Held(b) /\ k \in 1..x.size
         /\ ShredBytes(b, i) = x.shreds[k] /\ x.shreds[k] \in Seq(Cells)
         /\ b.shreds[i].len = Len(x.shreds[k]) /\ Len(x.shreds[k]) \in Nat
         /\ x.cut[k] = x.cut[k - 1] + Len(x.shreds[k])
         /\ x.cut[k] \in Nat /\ x.cut[k - 1] \in Nat
         /\ b.shreds[i].at \in Nat /\ b.shreds[i].at + b.shreds[i].len <= Len(b.arena)
         /\ \A y \in 1..Len(x.shreds[k]) : x.shreds[k][y] = b.arena[b.shreds[i].at + y]
         /\ b.shreds[i].complete = Ended(x, k)
<1> DEFINE i == x.start + k - 1
<1>1. n \in 0..x.size /\ x.size \in Nat /\ Laid(x) /\ Placed(b) /\ Holds(b, x)
  BY DEF Reading, Laid, HasFirst
<1>2. i \in Held(b) /\ k \in 1..x.size /\ k \in 0..x.size /\ k - 1 \in 0..x.size
  BY <1>1 DEF Reading, HasFirst
<1>3. ShredBytes(b, i) = x.shreds[k] /\ b.shreds[i].complete = Ended(x, k)
  BY <1>1, <1>2 DEF Holds
<1>4. /\ x.shreds[k] \in Seq(Cells) /\ x.cut[k] = x.cut[k - 1] + Len(x.shreds[k])
      /\ x.cut[k] \in Nat /\ x.cut[k - 1] \in Nat
  BY <1>1, <1>2 DEF Laid, PiecesLie
<1> HIDE DEF i
<1>5. /\ Len(ShredBytes(b, i)) = b.shreds[i].len
      /\ \A y \in 1..b.shreds[i].len : ShredBytes(b, i)[y] = b.arena[b.shreds[i].at + y]
  BY <1>1, <1>2, BytesOfShred
<1>6. b.shreds[i].at \in Nat /\ b.shreds[i].at + b.shreds[i].len <= Len(b.arena)
  BY <1>1, <1>2 DEF Placed
<1>7. /\ b.shreds[i].len = Len(x.shreds[k])
      /\ \A y \in 1..Len(x.shreds[k]) : x.shreds[k][y] = b.arena[b.shreds[i].at + y]
  BY <1>3, <1>5
<1>8. Len(x.shreds[k]) \in Nat
  BY <1>4
<1>9. QED BY ONLY <1>2, <1>3, <1>4, <1>6, <1>7, <1>8 DEF i

\* Where a shred's bytes end, in the arena and in the batch.
LEMMA PieceEnds ==
  ASSUME NEW b, NEW x, NEW n, Reading(b, x, n), NEW k \in 1..n
  PROVE  /\ b.shreds[x.start + k - 1].at + b.shreds[x.start + k - 1].len <= Len(b.arena)
         /\ b.shreds[x.start + k - 1].len = Len(x.shreds[k]) /\ Len(x.shreds[k]) \in Nat
         /\ x.cut[k] = x.cut[k - 1] + Len(x.shreds[k]) /\ x.cut[k - 1] \in Nat
BY PieceIs

\* Read where they lie or stitched, the bytes from a cut on are those of the
\* batch.
LEMMA PayloadIs ==
  ASSUME NEW b, NEW x, NEW n, Reading(b, x, n), NEW a \in 0..n
  PROVE  Payload(b, x.start + a, x.start + n - 1) = Slice(x.bytes, x.cut, a, n)
<1> DEFINE s == x.start
           from == s + a
           to == s + n - 1
           cut == x.cut
           q == x.shreds
<1>1. /\ s \in Nat /\ n \in 0..x.size /\ x.size \in Nat /\ n \in Nat /\ a \in Nat
      /\ Laid(x) /\ Placed(b) /\ b.arena \in Seq(Cells) /\ a \in 0..x.size /\ n \in a..x.size
  BY DEF Reading, Laid, HasFirst, Placed
<1>0. \A k \in 1..n : /\ b.shreds[s + k - 1].at + b.shreds[s + k - 1].len <= Len(b.arena)
                      /\ b.shreds[s + k - 1].len = Len(q[k]) /\ Len(q[k]) \in Nat
                      /\ cut[k] = cut[k - 1] + Len(q[k]) /\ cut[k - 1] \in Nat
  BY PieceEnds
<1>2. Pieced(Cells, x.size, q, x.bytes, cut, a, n)
  BY <1>1, LaidPieced
<1>3. cut[a] \in Nat /\ cut[n] \in Nat /\ cut[a] <= cut[n]
  BY <1>2, CutsInOrder
<1> HIDE DEF s, cut, q
\* Joined one by one.
<1>4. Stitched(b, from, to) = Slice(x.bytes, cut, a, n)
  <2> DEFINE r == [k \in 1..(n - a) |-> ShredBytes(b, from + k - 1)]
  <2>1. to - from + 1 = n - a
    BY <1>1
  <2>2. Stitched(b, from, to) = FlattenSeq(r)
    BY <2>1 DEF Stitched
  <2>3. \A k \in 1..(n - a) : r[k] = q[a + k] /\ r[k] \in Seq(Cells)
    <3> SUFFICES ASSUME NEW k \in 1..(n - a) PROVE r[k] = q[a + k] /\ r[k] \in Seq(Cells)
      OBVIOUS
    <3>1. a + k \in 1..n /\ from + k - 1 = s + (a + k) - 1
      BY <1>1
    <3>2. ShredBytes(b, s + (a + k) - 1) = q[a + k] /\ q[a + k] \in Seq(Cells)
      BY <3>1, PieceIs DEF s, q
    <3>3. QED BY <3>1, <3>2
  <2>4. r \in [1..(n - a) -> Seq(Cells)]
    BY <2>3
  <2> HIDE DEF r
  <2>5. FlattenSeq(r) = Slice(x.bytes, cut, a, n)
    <3>1. PiecesFrom(Cells, q, a, n, r)
      BY <2>3, <2>4 DEF PiecesFrom
    <3>2. QED BY ONLY <1>2, <3>1, SliceOfPieces
  <2>6. QED BY <2>2, <2>5
\* Where they lie.
<1>5. ASSUME from <= to, Contiguous(b, from, to)
      PROVE  SubSeq(b.arena, b.shreds[from].at + 1, b.shreds[from].at + LenOf(b, from, to))
               = Slice(x.bytes, cut, a, n)
  <2> DEFINE o == b.shreds[from].at
             l == cut[n] - cut[a]
  <2>1. LenOf(b, from, to) = l
    BY <1>1, LenOfCuts DEF s, cut
  <2>2. a + 1 \in 1..n /\ from = s + (a + 1) - 1 /\ n \in 1..n /\ (a + 1) - 1 = a
    BY <1>1, <1>5
  <2>3. o \in Nat
    BY <2>2, PieceIs DEF s
  <2> HIDE DEF from, o
  <2> DEFINE Bad == {k \in Nat : k \in (a + 1)..n /\ b.shreds[s + k - 1].at # o + (cut[k - 1] - cut[a])}
  <2>4. Bad = {}
    <3> SUFFICES ASSUME Bad # {} PROVE FALSE
      OBVIOUS
    <3>1. Bad \subseteq Nat
      OBVIOUS
    <3> HIDE DEF Bad
    <3>2. PICK k \in Bad : \A j \in Bad : k <= j
      BY <3>1, LeastNat, Zenon
    <3>3. k \in (a + 1)..n /\ b.shreds[s + k - 1].at # o + (cut[k - 1] - cut[a]) /\ k \in Nat
      BY <3>2 DEF Bad
    <3>4. k # a + 1
      <4> SUFFICES ASSUME k = a + 1 PROVE FALSE
        OBVIOUS
      <4>1. k - 1 = a /\ s + k - 1 = from
        BY <1>1, <2>2
      <4>2. cut[k - 1] - cut[a] = 0
        BY <1>3, <4>1
      <4>3. b.shreds[s + k - 1].at = o
        BY <4>1 DEF o
      <4>4. QED BY <2>3, <3>3, <4>2, <4>3
    <3> DEFINE j == k - 1
    <3>5. j \in (a + 1)..n /\ j \in Nat /\ j \in 1..n /\ ~(k <= j) /\ k = j + 1 /\ k \in 1..n
      BY <1>1, <3>3, <3>4
    <3> HIDE DEF j
    <3>6. j \notin Bad
      BY <3>2, <3>5
    <3>7. b.shreds[s + j - 1].at = o + (cut[j - 1] - cut[a])
      BY <3>5, <3>6 DEF Bad
    <3>8. s + j - 1 \in from..(to - 1) /\ (s + j - 1) + 1 = s + k - 1
      BY <1>1, <2>2, <3>3, <3>5
    <3>9. b.shreds[s + k - 1].at = b.shreds[s + j - 1].at + b.shreds[s + j - 1].len
      BY <1>5, <3>8 DEF Contiguous
    <3>10. /\ b.shreds[s + j - 1].len = Len(q[j]) /\ Len(q[j]) \in Nat
           /\ cut[j] = cut[j - 1] + Len(q[j]) /\ cut[j - 1] \in Nat
      BY <1>0, <3>5
    <3> DEFINE u == cut[j - 1]
               v == cut[j]
               d == Len(q[j])
               z == cut[a]
    <3>11. b.shreds[s + k - 1].at = (o + (u - z)) + d /\ v = u + d /\ u \in Nat /\ d \in Nat /\ z \in Nat
      BY <1>3, <3>7, <3>9, <3>10
    <3>12. k - 1 = j
      BY <3>5
    <3> HIDE DEF u, v, d, z
    <3>13. (o + (u - z)) + d = o + (v - z)
      BY <2>3, <3>11
    <3>14. QED BY <3>3, <3>11, <3>12, <3>13 DEF v, z
  <2>5. ASSUME NEW k \in (a + 1)..n PROVE b.shreds[s + k - 1].at = o + (cut[k - 1] - cut[a]) /\ k \in 1..n
    <3>1. k \in Nat /\ k \in 1..n
      BY <1>1
    <3>2. k \notin Bad
      BY <2>4
    <3>3. QED BY <3>1, <3>2
  <2>6. l \in Nat /\ o + l <= Len(b.arena)
    <3>1. n \in (a + 1)..n
      BY <1>1, <2>2
    <3>2. b.shreds[s + n - 1].at = o + (cut[n - 1] - cut[a])
      BY <2>5, <3>1
    <3>3. /\ b.shreds[s + n - 1].at + b.shreds[s + n - 1].len <= Len(b.arena)
          /\ b.shreds[s + n - 1].len = Len(q[n]) /\ Len(q[n]) \in Nat
          /\ cut[n] = cut[n - 1] + Len(q[n]) /\ cut[n - 1] \in Nat
      <4>1. n \in 1..n
        BY <2>5, <3>1
      <4>2. QED BY <1>0, <4>1
    <3> DEFINE u == cut[n - 1]
               v == cut[n]
               d == Len(q[n])
               z == cut[a]
    <3>4. (o + (u - z)) + d <= Len(b.arena) /\ v = u + d /\ u \in Nat /\ d \in Nat /\ z \in Nat /\ z <= v
      BY <1>3, <3>2, <3>3
    <3>5. Len(b.arena) \in Nat
      BY <1>1
    <3> HIDE DEF u, v, d, z
    <3>6. v - z \in Nat /\ o + (v - z) <= Len(b.arena)
      BY <2>3, <3>4, <3>5
    <3>7. QED BY <3>6 DEF v, z
  <2> DEFINE t == SubSeq(b.arena, o + 1, o + l)
  <2> HIDE DEF l
  <2>7. t \in Seq(Cells) /\ Len(t) = l /\ \A y \in 1..l : t[y] = b.arena[o + y]
    BY <1>1, <2>3, <2>6, SliceIs
  <2>8. ASSUME NEW k \in (a + 1)..n, NEW y \in 1..Len(q[k])
        PROVE  t[(cut[k - 1] - cut[a]) + y] = q[k][y]
    <3>1. k \in 1..n /\ b.shreds[s + k - 1].at = o + (cut[k - 1] - cut[a])
      BY <2>5
    <3>2. /\ q[k][y] = b.arena[b.shreds[s + k - 1].at + y] /\ Len(q[k]) \in Nat
          /\ cut[k] = cut[k - 1] + Len(q[k]) /\ cut[k - 1] \in Nat
      <4>1. /\ q[k][y] = b.arena[b.shreds[x.start + k - 1].at + y] /\ Len(q[k]) \in Nat
            /\ cut[k] = cut[k - 1] + Len(q[k]) /\ cut[k - 1] \in Nat
        BY <3>1, PieceIs DEF q, cut
      <4>2. QED BY <4>1 DEF s
    <3>3. cut[a] <= cut[k - 1] /\ cut[k] <= cut[n] /\ cut[k] \in Nat
      <4>1. k - 1 \in a..x.size /\ k \in 0..x.size /\ n \in k..x.size /\ a \in 0..x.size /\ k - 1 \in 0..x.size
        BY <1>1
      <4>2. Pieced(Cells, x.size, q, x.bytes, cut, a, k - 1) /\ Pieced(Cells, x.size, q, x.bytes, cut, k, n)
        BY <1>1, <4>1, LaidPieced DEF q, cut
      <4>3. QED BY <4>2, CutsInOrder
    <3> DEFINE u == cut[k - 1]
               v == cut[k]
               d == Len(q[k])
               z == cut[a]
               e == cut[n]
               w == (u - z) + y
    <3>4. /\ u \in Nat /\ d \in Nat /\ v = u + d /\ z \in Nat /\ z <= u /\ v <= e /\ e \in Nat
          /\ l = e - z /\ y \in Nat /\ y >= 1 /\ y <= d
      BY <1>3, <3>2, <3>3 DEF l
    <3> HIDE DEF u, v, d, z, e
    <3>5. w \in 1..l /\ o + w = (o + (u - z)) + y
      BY <2>3, <3>4
    <3>6. t[w] = b.arena[o + w]
      BY <2>7, <3>5
    <3>7. QED BY <3>1, <3>2, <3>5, <3>6 DEF u, z
  <2> HIDE DEF t
  <2>9. HasPieces(t, q, cut, a, n)
    BY <2>8 DEF HasPieces
  <2>10. Len(t) = cut[n] - cut[a]
    BY <2>7 DEF l
  <2>11. t = Slice(x.bytes, cut, a, n)
    BY ONLY <1>2, <2>7, <2>9, <2>10, SliceByPieces
  <2>12. QED BY <2>1, <2>11 DEF t, o
<1>6. QED BY <1>4, <1>5 DEF Payload, s, cut

\* A walk of the batch begun afresh, or resumed behind its first k shreds, ends
\* at some n, and says so.
LEMMA ExtentIs ==
  ASSUME NEW b, NEW x, NEW k, Reading(b, x, k),
         NEW cached, cached = NoExtent \/ cached = ExtentTo(x, k)
  PROVE  \E n \in k..x.size :
           /\ Reading(b, x, n)
           /\ Extent(b, x.start, cached) = ExtentTo(x, n)
           /\ Ended(x, n) \/ x.start + n \notin Held(b)
<1> DEFINE s == x.start
<1>1. /\ Laid(x) /\ ShredsShaped(b) /\ Placed(b) /\ Holds(b, x)
      /\ k \in 0..x.size /\ \A o \in 1..k : s + o - 1 \in Held(b)
      /\ s \in Nat /\ x.size \in Nat /\ x.closes \in BOOLEAN /\ k \in Nat /\ x.cut[0] = 0
      /\ (x.closes => x.size # 0)
  BY DEF Reading, Laid, HasFirst, PiecesLie
<1> HIDE DEF s
<1>2. CASE cached.complete
  <2>1. cached = ExtentTo(x, k) /\ k # 0
    BY <1>2 DEF NoExtent, ExtentTo
  <2>2. cached.complete = Ended(x, k)
    BY <2>1 DEF ExtentTo
  <2>3. Extent(b, s, cached) = cached
    BY <1>2 DEF Extent
  <2>4. k \in k..x.size /\ Ended(x, k)
    BY <1>1, <1>2, <2>2
  <2>5. QED BY <2>1, <2>3, <2>4 DEF s
<1>3. CASE ~cached.complete
  <2> DEFINE o    == IF cached = NoExtent THEN 0 ELSE k
             from == Frontier(s, cached)
             last == RunEnd(b, from)
             n    == (last - s) + 1
  <2>1. o \in Nat /\ o \in 0..k /\ from = s + o /\ cached.len = x.cut[o] /\ (o # 0 => o = k /\ ~Ended(x, o))
        /\ (o = k \/ o = 0)
    <3>1. CASE cached = NoExtent
      <4>1. cached.len = 0 /\ o = 0 /\ from = s
        BY <3>1 DEF NoExtent, Frontier
      <4>2. QED BY <1>1, <4>1
    <3>2. CASE cached # NoExtent
      <4>1. cached = [last |-> s + k - 1, complete |-> Ended(x, k), len |-> x.cut[k]] /\ o = k
        BY <3>2 DEF ExtentTo, s
      <4>2. cached.len = x.cut[k] /\ ~Ended(x, k) /\ cached.last = s + k - 1
        BY <1>3, <4>1
      <4>3. from = s + k
        BY <1>1, <3>2, <4>2 DEF Frontier
      <4>4. QED BY <1>1, <4>1, <4>2, <4>3
    <3>3. QED BY <3>1, <3>2
  <2>2. /\ last \in Int /\ last >= from - 1
        /\ Walked(b, from, last)
        /\ last + 1 \in Held(b) => last >= from /\ b.shreds[last].complete
    <3>1. from \in Nat
      BY <1>1, <2>1
    <3> HIDE DEF from
    <3>2. QED BY <1>1, <3>1, RunEndStops
  <2> HIDE DEF o, from, last
  <2>3. n \in Nat /\ n >= o /\ last = s + n - 1
    BY <1>1, <2>1, <2>2
  <2> HIDE DEF n
  <2>4. \A j \in (o + 1)..n : s + j - 1 \in Held(b) /\ (j < n => ~b.shreds[s + j - 1].complete)
    <3> SUFFICES ASSUME NEW j \in (o + 1)..n
                 PROVE  s + j - 1 \in Held(b) /\ (j < n => ~b.shreds[s + j - 1].complete)
      OBVIOUS
    <3>1. s + j - 1 \in from..last /\ (j < n => s + j - 1 < last)
      BY <1>1, <2>1, <2>3
    <3>2. QED BY <2>2, <3>1 DEF Walked
  <2>5. n <= x.size
    <3> SUFFICES ASSUME x.size < n PROVE FALSE
      BY <1>1, <2>3
    <3>1. x.size + 1 \in (o + 1)..n /\ s + (x.size + 1) - 1 = s + x.size
      BY <1>1, <2>1, <2>3
    <3>2. s + x.size \in Held(b)
      BY <2>4, <3>1
    <3>3. x.closes
      BY <1>1, <3>2 DEF Holds, s
    <3>4. Ended(x, x.size) /\ x.size # 0
      BY <1>1, <3>3 DEF Ended
    <3>5. CASE o = x.size
      BY <2>1, <3>4, <3>5
    <3>6. CASE o # x.size
      <4>1. x.size \in (o + 1)..n /\ x.size < n /\ x.size \in 1..x.size
        BY <1>1, <2>1, <2>3, <3>4, <3>6
      <4>2. s + x.size - 1 \in Held(b) /\ ~b.shreds[s + x.size - 1].complete
        BY <2>4, <4>1
      <4>3. b.shreds[s + x.size - 1].complete = Ended(x, x.size)
        BY <1>1, <4>1, <4>2 DEF Holds, s
      <4>4. QED BY <3>4, <4>2, <4>3
    <3>7. QED BY <3>5, <3>6
  <2>6. \A j \in 1..n : s + j - 1 \in Held(b)
    <3> SUFFICES ASSUME NEW j \in 1..n PROVE s + j - 1 \in Held(b)
      OBVIOUS
    <3>1. CASE j <= o
      <4>1. j \in 1..k
        BY <1>1, <2>1, <3>1
      <4>2. QED BY <1>1, <4>1
    <3>2. CASE ~(j <= o)
      <4>1. j \in (o + 1)..n
        BY <2>1, <2>3, <3>2
      <4>2. QED BY <2>4, <4>1
    <3>3. QED BY <3>1, <3>2
  <2>7. n \in 0..x.size
    BY <1>1, <2>3, <2>5
  <2>8. HasFirst(b, x, n)
    BY <2>6, <2>7 DEF HasFirst, s
  <2>9. Reading(b, x, n)
    BY <1>1, <2>8 DEF Reading
  <2>10. ASSUME NEW j \in 1..n PROVE b.shreds[s + j - 1].complete = Ended(x, j)
    BY <2>9, PieceIs DEF s
  <2>11. last + 1 \in Held(b) => Ended(x, n)
    <3> SUFFICES ASSUME last + 1 \in Held(b) PROVE Ended(x, n)
      OBVIOUS
    <3>1. last >= from /\ b.shreds[last].complete
      BY <2>2
    <3>2. n \in 1..n /\ last = s + n - 1
      BY <1>1, <2>1, <2>3, <3>1
    <3>3. QED BY <2>10, <3>1, <3>2
  <2>12. k <= n
    <3> SUFFICES ASSUME n < k PROVE FALSE
      BY <1>1, <2>3
    <3>1. n + 1 \in 1..k /\ s + (n + 1) - 1 = last + 1
      BY <1>1, <2>3
    <3>2. last + 1 \in Held(b)
      BY <1>1, <3>1
    <3>3. n = x.size
      BY <2>11, <3>2 DEF Ended
    <3>4. QED BY <1>1, <3>3
  <2>13. Ended(x, n) \/ s + n \notin Held(b)
    <3>1. last + 1 = s + n
      BY <1>1, <2>3
    <3>2. QED BY <2>11, <3>1
  <2>14. Extent(b, s, cached) = IF last < s THEN NoExtent
                                ELSE [last     |-> last,
                                      complete |-> last >= from /\ b.shreds[last].complete,
                                      len      |-> cached.len + LenOf(b, from, last)]
    BY <1>3 DEF Extent, last, from
  <2>15. CASE n = 0
    <3>1. last < s
      BY <1>1, <2>3, <2>15
    <3>2. QED BY <2>9, <2>12, <2>13, <2>14, <2>15, <3>1, <1>1 DEF ExtentTo, s
  <2>16. CASE n # 0
    <3>1. ~(last < s) /\ n \in 1..n /\ last = s + n - 1
      BY <1>1, <2>3, <2>16
    <3>2. (last >= from /\ b.shreds[last].complete) = Ended(x, n)
      <4>1. b.shreds[last].complete = Ended(x, n)
        BY <2>10, <3>1
      <4>2. CASE o = n
        <5>1. ~(last >= from) /\ ~Ended(x, n)
          BY <1>1, <2>1, <2>3, <2>16, <4>2
        <5>2. Ended(x, n) \in BOOLEAN
          BY <1>1 DEF Ended
        <5>3. QED BY <5>1, <5>2
      <4>3. CASE o # n
        <5>1. last >= from
          BY <1>1, <2>1, <2>3, <4>3
        <5>2. b.shreds[last].complete \in BOOLEAN
          BY <4>1, <1>1 DEF Ended
        <5>3. QED BY <4>1, <5>1, <5>2
      <4>4. QED BY <4>2, <4>3
    <3>3. cached.len + LenOf(b, from, last) = x.cut[n]
      <4>1. o \in 0..n /\ n \in o..n
        BY <2>1, <2>3
      <4>2. LenOf(b, s + o, s + n - 1) = x.cut[n] - x.cut[o]
        BY <2>9, <4>1, LenOfCuts DEF s
      <4>3. x.cut[o] \in Nat /\ x.cut[n] \in Nat
        <5>1. o \in 0..x.size
          BY <1>1, <2>1
        <5>2. QED BY <1>1, <2>7, <5>1 DEF Laid
      <4> DEFINE u == x.cut[o]
                 v == x.cut[n]
      <4>4. LenOf(b, from, last) = v - u /\ cached.len = u /\ u \in Nat /\ v \in Nat
        BY <2>1, <3>1, <4>2, <4>3
      <4> HIDE DEF u, v
      <4>5. u + (v - u) = v
        BY <4>4
      <4>6. QED BY <4>4, <4>5 DEF v
    <3>4. Extent(b, s, cached) = ExtentTo(x, n)
      BY <2>14, <2>16, <3>1, <3>2, <3>3 DEF ExtentTo, s
    <3>5. n \in k..x.size
      BY <1>1, <2>3, <2>7, <2>12
    <3>6. QED BY <2>9, <2>13, <3>4, <3>5 DEF s
  <2>17. QED BY <2>15, <2>16
<1>4. QED BY <1>2, <1>3

\* Where reading on picks up: at a cut at or before what was consumed.
ResumesAt(x, n, resume, consumed) ==
  \E a \in 0..n : resume = [from |-> x.start + a, base |-> x.cut[a]] /\ x.cut[a] <= consumed

\* The least of some integers.
LEMMA LeastOf ==
  ASSUME NEW S, S \subseteq Nat, S # {}
  PROVE  Min(S) \in S /\ \A y \in S : Min(S) <= y
<1>1. \E n \in S : \A k \in S : n <= k
  BY LeastNat, Zenon
<1>2. QED BY <1>1 DEF Min

LEMMA ResumeIs ==
  ASSUME NEW b, NEW x, NEW n, Reading(b, x, n), n # 0,
         NEW p, p.extent = ExtentTo(x, n), p.consumed \in Nat,
         p.resume = NoResume \/ ResumesAt(x, n, p.resume, p.consumed)
  PROVE  ResumesAt(x, n, Resume(b, x.start, p), p.consumed)
<1> DEFINE s == x.start
           at == ResumedAt(s, p)
           last == s + n - 1
           from == Unread(b, at, last, p.consumed)
<1>1. /\ s \in Nat /\ n \in 0..x.size /\ x.size \in Nat /\ n \in Nat /\ x.cut[0] = 0
      /\ x.cut \in [0..x.size -> Nat]
  BY DEF Reading, Laid, HasFirst, PiecesLie
<1>2. p.extent.last = last
  BY DEF ExtentTo
<1>3. PICK a \in 0..n : at = [from |-> s + a, base |-> x.cut[a]] /\ x.cut[a] <= p.consumed
  <2>1. CASE p.resume = NoResume
    <3>1. at = [from |-> s + 0, base |-> x.cut[0]] /\ 0 \in 0..n /\ x.cut[0] <= p.consumed
      BY <1>1, <2>1 DEF ResumedAt
    <3>2. QED BY <3>1
  <2>2. CASE p.resume # NoResume
    BY <2>2 DEF ResumedAt, ResumesAt
  <2>3. QED BY <2>1, <2>2
<1>4. at.from = s + a /\ at.base = x.cut[a] /\ a \in Nat
  BY <1>1, <1>3
<1> HIDE DEF at, s
<1>5. \A c \in a..n : /\ at.base + LenOf(b, at.from, s + c - 1) = x.cut[c]
                      /\ x.cut[c] \in Nat
  <2> SUFFICES ASSUME NEW c \in a..n
               PROVE at.base + LenOf(b, at.from, s + c - 1) = x.cut[c] /\ x.cut[c] \in Nat
    OBVIOUS
  <2>1. LenOf(b, s + a, s + c - 1) = x.cut[c] - x.cut[a]
    BY LenOfCuts DEF s
  <2>2. x.cut[a] \in Nat /\ x.cut[c] \in Nat
    <3>1. a \in 0..x.size /\ c \in 0..x.size
      BY <1>1
    <3>2. QED BY <1>1, <3>1
  <2> DEFINE u == x.cut[a]
             v == x.cut[c]
  <2>3. at.base + LenOf(b, at.from, s + c - 1) = u + (v - u) /\ u \in Nat /\ v \in Nat
    BY <1>4, <2>1, <2>2
  <2> HIDE DEF u, v
  <2>4. u + (v - u) = v
    BY <2>3
  <2>5. QED BY <2>2, <2>3, <2>4 DEF v
<1> DEFINE part == {i \in at.from..last : at.base + LenOf(b, at.from, i) > p.consumed}
<1>6. from = IF part = {} THEN Max({at.from, last + 1}) ELSE Min(part)
  BY DEF Unread
<1>7. \A i \in at.from..last : LET c == (i - s) + 1 IN
        c \in a..n /\ s + c - 1 = i /\ (i \in part <=> x.cut[c] > p.consumed)
  <2> SUFFICES ASSUME NEW i \in at.from..last
               PROVE  LET c == (i - s) + 1 IN
                      c \in a..n /\ s + c - 1 = i /\ (i \in part <=> x.cut[c] > p.consumed)
    OBVIOUS
  <2> DEFINE c == (i - s) + 1
  <2>1. c \in a..n /\ s + c - 1 = i
    BY <1>1, <1>4
  <2> HIDE DEF c
  <2>2. at.base + LenOf(b, at.from, i) = x.cut[c]
    BY <1>5, <2>1
  <2>3. i \in part <=> x.cut[c] > p.consumed
    BY <2>2
  <2>4. QED BY <2>1, <2>3 DEF c
<1> HIDE DEF from
<1>8. \E c \in a..n : from = s + c /\ x.cut[c] <= p.consumed
  <2>1. CASE part = {}
    <3>1. from = s + n
      <4> DEFINE u == at.from
                 v == last + 1
      <4>1. u \in Int /\ v \in Int /\ u <= v /\ v = s + n
        BY <1>1, <1>4
      <4>2. from = Max({u, v})
        BY <1>6, <2>1
      <4> HIDE DEF u, v
      <4>3. Max({u, v}) \in {u, v} /\ Max({u, v}) >= v
        BY <4>1, MaxOfTwo
      <4>4. QED BY <4>1, <4>2, <4>3
    <3>2. x.cut[n] <= p.consumed
      <4>1. CASE a = n
        BY <1>3, <4>1
      <4>2. CASE a # n
        <5>1. last \in at.from..last /\ (last - s) + 1 = n
          BY <1>1, <1>4, <4>2
        <5>2. ~(x.cut[n] > p.consumed)
          BY <1>7, <2>1, <5>1
        <5>3. x.cut[n] \in Nat
          BY <1>1
        <5>4. QED BY <5>2, <5>3
      <4>3. QED BY <4>1, <4>2
    <3>3. QED BY <1>1, <1>4, <3>1, <3>2
  <2>2. CASE part # {}
    <3>1. part \subseteq Nat
      BY <1>1, <1>4
    <3>2. from \in part /\ \A y \in part : from <= y
      <4> HIDE DEF part
      <4>1. QED BY <1>6, <2>2, <3>1, LeastOf
    <3> DEFINE c == from - s
    <3>3. from \in at.from..last /\ c \in a..n /\ from = s + c /\ c \in Nat
      BY <1>1, <1>4, <3>2
    <3>4. x.cut[c] <= p.consumed
      <4>1. CASE c = a
        BY <1>3, <4>1
      <4>2. CASE c # a
        <5>1. from - 1 \in at.from..last /\ ((from - 1) - s) + 1 = c /\ ~(from <= from - 1)
          BY <1>1, <1>4, <3>3, <4>2
        <5>2. from - 1 \notin part
          BY <3>2, <5>1
        <5>3. ~(x.cut[c] > p.consumed)
          <6> HIDE DEF part, c
          <6>1. QED BY <1>7, <5>1, <5>2
        <5>4. x.cut[c] \in Nat
          BY <1>5, <3>3
        <5>5. QED BY <5>3, <5>4
      <4>3. QED BY <4>1, <4>2
    <3>5. QED BY <3>3, <3>4
  <2>3. QED BY <2>1, <2>2
<1>9. PICK c \in a..n : from = s + c /\ x.cut[c] <= p.consumed
  BY <1>8
<1>10. at.base + LenOf(b, at.from, from - 1) = x.cut[c]
  <2>1. from - 1 = s + c - 1
    BY <1>1, <1>9
  <2>2. QED BY <1>5, <1>9, <2>1
<1>11. Resume(b, s, p) = [from |-> from, base |-> at.base + LenOf(b, at.from, from - 1)]
  BY <1>2 DEF Resume, at, from
<1>12. Resume(b, s, p) = [from |-> s + c, base |-> x.cut[c]] /\ c \in 0..n
  BY <1>4, <1>9, <1>10, <1>11
<1>13. QED BY <1>9, <1>12 DEF ResumesAt, s

----------------------------------------------------------------------------
(* One pass over a batch: what is known of it and what was handed over.     *)

\* A batch its reader can make sense of, and need not give up on before it is
\* closed.
Readable(x) ==
  /\ Laid(x) /\ Encoded(x.bytes)
  /\ \A n \in 0..x.size : ~Ended(x, n) => x.cut[n] <= MAX_BATCH_BYTES

\* What was handed over reaches the shred that closes the batch.
Claimed(x, told) == x.closes /\ told.last_shred = x.start + x.size - 1

\* p and told are what is known and what was handed over of the batch once its
\* first n shreds have been looked at.
KnownTo(x, n, p, told) ==
  /\ ProgressShaped(p) /\ n \in 0..x.size
  /\ told.entries = FirstEntries(x.bytes, UpTo(x.bytes, x.cut[n]))
  /\ ~p.closed \/ p.padded => p.extent = NoExtent \/ p.extent = ExtentTo(x, n)
  /\ ~p.closed => /\ ~p.padded /\ ~Ended(x, n)
                  /\ HasRead(x.bytes, x.cut[n], p)
                  /\ p.resume = NoResume \/ ResumesAt(x, n, p.resume, p.consumed)
  /\ p.closed => /\ UpTo(x.bytes, x.cut[n]) = Count(x.bytes)
                 /\ Declared(x.bytes) => p.padded \/ Claimed(x, told)
                 /\ p.padded /\ p.extent.complete => Claimed(x, told)

\* What has been handed over once this is, too.
NowTold(told, made) ==
  IF WorthReporting(made)
  THEN [entries |-> told.entries \o made.entries, last_shred |-> made.last_shred]
  ELSE told

\* The entries read next go behind those read before.
LEMMA EntriesJoin ==
  ASSUME NEW W, NEW i \in Nat, NEW j \in Nat, i <= j
  PROVE  FirstEntries(W, i) \o [k \in 1..(j - i) |-> W[EndAt(W, i + k)].value] = FirstEntries(W, j)
<1> DEFINE e(k) == W[EndAt(W, k)].value
           s == FirstEntries(W, i)
           t == [k \in 1..(j - i) |-> e(i + k)]
           u == FirstEntries(W, j)
           V == {e(k) : k \in 1..j}
<1>1. s = [k \in 1..i |-> e(k)] /\ u = [k \in 1..j |-> e(k)]
  BY DEF FirstEntries
<1> HIDE DEF e, s, u
<1>2. \A k \in 1..(j - i) : i + k \in 1..j
  OBVIOUS
<1>3. \A k \in 1..i : k \in 1..j
  OBVIOUS
<1>4. s \in Seq(V) /\ t \in Seq(V) /\ Len(s) = i /\ Len(t) = j - i
  <2>1. s \in [1..i -> V] /\ t \in [1..(j - i) -> V]
    BY <1>1, <1>2, <1>3
  <2>2. j - i \in Nat
    OBVIOUS
  <2> HIDE DEF t, V
  <2>3. QED BY <2>1, <2>2
<1>5. ASSUME NEW k \in 1..j PROVE (s \o t)[k] = e(k)
  <2>1. CASE k <= i
    <3>1. k \in 1..i
      BY <2>1
    <3>2. (s \o t)[k] = s[k]
      <4> HIDE DEF t
      <4>1. QED BY <1>4, <3>1
    <3>3. QED BY <1>1, <3>1, <3>2
  <2>2. CASE ~(k <= i)
    <3>1. k - i \in 1..(j - i) /\ i + (k - i) = k
      BY <2>2
    <3>2. (s \o t)[k] = t[k - i]
      <4> HIDE DEF t
      <4>1. QED BY <1>4, <2>2, <3>1
    <3>3. QED BY <3>1, <3>2
  <2>3. QED BY <2>1, <2>2
<1>6. (s \o t) = [k \in 1..j |-> e(k)]
  <2> HIDE DEF t, V
  <2>1. s \o t \in Seq(V) /\ Len(s \o t) = j
    BY <1>4
  <2> DEFINE w == s \o t
  <2>2. w \in Seq(V) /\ Len(w) = j /\ \A k \in 1..j : w[k] = e(k)
    BY <1>5, <2>1
  <2> HIDE DEF w
  <2>3. w = [k \in 1..j |-> w[k]]
    BY <2>2
  <2>4. QED BY <2>2, <2>3 DEF w
<1>7. QED BY <1>1, <1>6 DEF s, t, u, e

\* The entries of the batch with all of its shreds are all of them.
LEMMA AllOfIt ==
  ASSUME NEW x, Laid(x), Encoded(x.bytes), NEW n \in 0..x.size
  PROVE  /\ x.cut[n] \in Nat /\ x.cut[n] <= Len(x.bytes)
         /\ UpTo(x.bytes, x.cut[n]) \in Nat /\ UpTo(x.bytes, x.cut[n]) <= Count(x.bytes)
         /\ Count(x.bytes) \in Nat
         /\ n = x.size => /\ UpTo(x.bytes, x.cut[n]) = Count(x.bytes)
                          /\ x.cut[n] = Len(x.bytes)
         /\ \A k \in 0..n : /\ x.cut[k] \in Nat /\ x.cut[k] <= x.cut[n]
                            /\ UpTo(x.bytes, x.cut[k]) <= UpTo(x.bytes, x.cut[n])
                            /\ UpTo(x.bytes, x.cut[k]) \in Nat
<1>1. x.bytes \in Seq(Cells) /\ x.size \in Nat /\ x.cut \in [0..x.size -> Nat] /\ x.cut[x.size] = Len(x.bytes)
  BY DEF Laid, PiecesLie
<1>2. ASSUME NEW k \in 0..n PROVE x.cut[k] \in Nat /\ x.cut[n] \in Nat /\ x.cut[k] <= x.cut[n]
                                  /\ x.cut[n] <= Len(x.bytes)
  <2>1. k \in 0..x.size /\ n \in k..x.size
    BY <1>1
  <2>2. Pieced(Cells, x.size, x.shreds, x.bytes, x.cut, k, n)
    BY <2>1, LaidPieced
  <2>3. QED BY <2>2, CutsInOrder
<1>3. n \in 0..n
  BY <1>1
<1>4. x.cut[n] \in Nat /\ x.cut[n] <= Len(x.bytes)
  BY <1>2, <1>3
<1>5. ASSUME NEW k \in 0..n
      PROVE  /\ UpTo(x.bytes, x.cut[k]) <= UpTo(x.bytes, x.cut[n])
             /\ UpTo(x.bytes, x.cut[k]) \in Nat
  BY <1>1, <1>2, UpToGrows, UpToCounts
<1>6. UpTo(x.bytes, x.cut[n]) \in 0..Count(x.bytes) /\ Count(x.bytes) \in Nat
  BY <1>1, <1>4, UpToCounts, EndsAre
<1>7. UpTo(x.bytes, Len(x.bytes)) = Count(x.bytes)
  BY <1>1, <1>4, UpToGrows
<1>8. QED BY <1>1, <1>2, <1>4, <1>5, <1>6, <1>7

\* What absorbing what was read makes of the progress.
LEMMA AbsorbedIs ==
  ASSUME NEW p, ProgressShaped(p), NEW at, NEW read, read.verdict # "OutOfRange"
  PROVE  LET a == Absorbed(p, at, read)
             q == a.progress
             finished == Finished(read.verdict, p.opened \/ read.out # <<>>, p.extent.complete)
         IN
         /\ q.resume = at /\ q.consumed = read.consumed /\ q.remaining = read.remaining
         /\ q.extent = p.extent /\ q.closed = (finished # "None")
         /\ q.padded = (finished \in {"Decoded", "Marker"} /\ ~p.extent.complete)
         /\ a.advance = IF read.out = <<>> /\ finished = "None" THEN NoAdvance
                        ELSE [some |-> TRUE, last_shred |-> p.extent.last, entries |-> read.out,
                              opened |-> read.out # <<>> /\ ~p.opened, finished |-> finished,
                              panic |-> FALSE]
<1> DEFINE fresh == read.out # <<>>
           finished == Finished(read.verdict, p.opened \/ fresh, p.extent.complete)
           q == [p EXCEPT !.resume    = at,
                          !.consumed  = read.consumed,
                          !.remaining = read.remaining,
                          !.opened    = @ \/ fresh,
                          !.closed    = finished # "None",
                          !.padded    = finished \in {"Decoded", "Marker"}
                                          /\ ~p.extent.complete]
           a == Absorbed(p, at, read)
<1>1. a = IF ~fresh /\ finished = "None" THEN Silent(q)
          ELSE Report(q, read.out, fresh /\ ~p.opened, finished)
  BY DEF Absorbed
<1>2. /\ q.resume = at /\ q.consumed = read.consumed /\ q.remaining = read.remaining
      /\ q.extent = p.extent /\ q.closed = (finished # "None")
      /\ q.padded = (finished \in {"Decoded", "Marker"} /\ ~p.extent.complete)
  <2> DEFINE closed == finished # "None"
             padded == finished \in {"Decoded", "Marker"} /\ ~p.extent.complete
  <2> HIDE DEF finished, fresh, closed, padded
  <2>1. p = [consumed |-> p.consumed, remaining |-> p.remaining, opened |-> p.opened,
             closed |-> p.closed, padded |-> p.padded, extent |-> p.extent,
             resume |-> p.resume]
    BY DEF ProgressShaped
  <2>2. q = [p EXCEPT !.resume = at, !.consumed = read.consumed, !.remaining = read.remaining,
                      !.opened = @ \/ fresh, !.closed = closed, !.padded = padded]
    BY DEF closed, padded
  <2> HIDE DEF q
  <2>3. /\ q.resume = at /\ q.consumed = read.consumed /\ q.remaining = read.remaining
        /\ q.extent = p.extent /\ q.closed = closed /\ q.padded = padded
    BY <2>1, <2>2
  <2>4. QED BY <2>3 DEF closed, padded
<1>3. a.progress = q
  BY <1>1 DEF Silent, Report
<1>4. a.advance = IF read.out = <<>> /\ finished = "None" THEN NoAdvance
                  ELSE [some |-> TRUE, last_shred |-> p.extent.last, entries |-> read.out,
                        opened |-> read.out # <<>> /\ ~p.opened, finished |-> finished,
                        panic |-> FALSE]
  <2> HIDE DEF finished, a
  <2>1. a = IF ~fresh /\ finished = "None" THEN Silent(q)
            ELSE Report(q, read.out, fresh /\ ~p.opened, finished)
    BY <1>1 DEF finished, a
  <2>2. q.extent = p.extent
    BY <1>2
  <2> HIDE DEF q
  <2>3. QED BY <2>1, <2>2 DEF Silent, Report
<1> HIDE DEF q
<1>5. QED BY <1>2, <1>3, <1>4

\* What was read is made known and handed over.
LEMMA AbsorbKnows ==
  ASSUME NEW x, Readable(x), NEW n \in 1..x.size, NEW k \in 0..n,
         NEW p, ProgressShaped(p), p.extent = ExtentTo(x, n),
         HasRead(x.bytes, x.cut[k], p),
         NEW told, told.entries = FirstEntries(x.bytes, UpTo(x.bytes, x.cut[k])),
         NEW at, ResumesAt(x, n, at, p.consumed),
         NEW read, Decodes(x.bytes, x.cut[n], UpTo(x.bytes, x.cut[k]), read),
         ProgressShaped(Absorbed(p, at, read).progress)
  PROVE  LET a == Absorbed(p, at, read) IN
         /\ ~a.advance.panic
         /\ KnownTo(x, n, a.progress, NowTold(told, a.advance))
<1> DEFINE W == x.bytes
           l == x.cut[n]
           i == UpTo(W, x.cut[k])
           j == UpTo(W, l)
           c == W[1].value
           a == Absorbed(p, at, read)
           q == a.progress
           now == NowTold(told, a.advance)
           complete == Ended(x, n)
           finished == Finished(read.verdict, p.opened \/ read.out # <<>>, p.extent.complete)
<1>1. /\ x.closes \in BOOLEAN /\ x.size \in Nat /\ x.start \in Nat /\ n \in 0..x.size /\ n # 0
      /\ Laid(x) /\ Encoded(W) /\ W \in Seq(Cells)
  BY DEF Readable, Laid
<1>2. /\ l \in Nat /\ l <= Len(W) /\ j \in Nat /\ j <= Count(W) /\ Count(W) \in Nat
      /\ n = x.size => j = Count(W) /\ l = Len(W)
      /\ x.cut[k] \in Nat /\ x.cut[k] <= l /\ i <= j /\ i \in Nat
  BY <1>1, AllOfIt
<1>3. complete \in BOOLEAN /\ p.extent.complete = complete /\ p.extent.last = x.start + n - 1
      /\ (complete => n = x.size /\ x.closes)
  BY <1>1 DEF Ended, ExtentTo
<1>4. /\ read.out = [m \in 1..(j - i) |-> W[EndAt(W, i + m)].value]
      /\ \/ /\ read.verdict = "Waiting" /\ l < ENTRY_COUNT
            /\ read.consumed = 0 /\ read.remaining = NoCount
         \/ read.verdict = "Invalid" /\ Count(W) = 0 /\ ~Declared(W)
         \/ ENTRY_COUNT <= l /\ ReadAsFar(W, l, c, i, read)
  BY DEF Decodes
<1>5. ReadAsFar(W, l, c, i, read) =>
        /\ read.consumed = EndAt(W, j) /\ read.remaining = c - j
        /\ read.verdict \in {"Done", "Waiting", "Invalid"}
        /\ (read.verdict = "Done" <=> j = c)
        /\ (read.verdict = "Invalid" => j = Count(W))
  BY DEF ReadAsFar
<1>6. ENTRY_COUNT <= l => c \in Nat /\ Count(W) <= c
  <2>1. ENTRY_COUNT <= l => 1 <= Len(W)
    <3>1. Len(W) \in Nat
      BY <1>1
    <3>2. QED BY <1>2, <3>1, BufferAssumption
  <2>2. QED BY <1>1, <2>1, CountEnough
<1>7. Declared(W) => c = Count(W) /\ ENTRY_COUNT <= Len(W)
  BY <1>1, DeclaredCount, DeclaredIs
<1>8. told.entries \o read.out = FirstEntries(W, j)
  <2>1. told.entries = FirstEntries(W, i) /\ i \in Nat /\ j \in Nat /\ i <= j
    BY <1>2
  <2>2. read.out = [m \in 1..(j - i) |-> W[EndAt(W, i + m)].value]
    BY <1>4
  <2> HIDE DEF i, j, W
  <2>3. FirstEntries(W, i) \o [m \in 1..(j - i) |-> W[EndAt(W, i + m)].value] = FirstEntries(W, j)
    BY <2>1, EntriesJoin
  <2>4. QED BY <2>1, <2>2, <2>3
<1>9. read.out = <<>> => told.entries = FirstEntries(W, j)
  <2> SUFFICES ASSUME read.out = <<>> PROVE i = j
    OBVIOUS
  <2>1. DOMAIN read.out = 1..(j - i)
    BY <1>4
  <2>2. DOMAIN read.out = {}
    OBVIOUS
  <2>3. ~(1 \in 1..(j - i))
    BY <2>1, <2>2
  <2>4. QED BY <1>2, <2>3
<1>10. read.verdict # "OutOfRange" /\ read.verdict \in {"Done", "Waiting", "Invalid"}
  BY <1>4, <1>5
<1>11. /\ q.resume = at /\ q.consumed = read.consumed /\ q.remaining = read.remaining
       /\ q.extent = p.extent /\ q.closed = (finished # "None")
       /\ q.padded = (finished \in {"Decoded", "Marker"} /\ ~complete)
       /\ a.advance = IF read.out = <<>> /\ finished = "None" THEN NoAdvance
                      ELSE [some |-> TRUE, last_shred |-> p.extent.last, entries |-> read.out,
                            opened |-> read.out # <<>> /\ ~p.opened, finished |-> finished,
                            panic |-> FALSE]
  BY <1>3, <1>10, AbsorbedIs
<1>12. /\ read.verdict = "Done" => finished \in {"Decoded", "Marker"}
       /\ read.verdict = "Invalid" => finished = "Failed"
       /\ read.verdict = "Waiting" => finished = IF complete THEN "Failed" ELSE "None"
  BY <1>3 DEF Finished
<1> HIDE DEF a, finished, i, j, l, c, complete
<1>13. ~a.advance.panic
  BY <1>11 DEF NoAdvance
<1>14. now.entries = FirstEntries(W, j)
  <2>1. CASE read.out = <<>> /\ finished = "None"
    <3>1. now = told
      BY <1>11, <2>1 DEF NowTold, WorthReporting, NoAdvance
    <3>2. QED BY <1>9, <2>1, <3>1
  <2>2. CASE ~(read.out = <<>> /\ finished = "None")
    <3>1. a.advance.entries = read.out
      BY <1>11, <2>2
    <3>2. CASE WorthReporting(a.advance)
      BY <1>8, <3>1, <3>2 DEF NowTold
    <3>3. CASE ~WorthReporting(a.advance)
      <4>1. read.out = <<>>
        BY <1>11, <2>2, <3>3 DEF WorthReporting
      <4>2. QED BY <1>9, <3>3, <4>1 DEF NowTold
    <3>4. QED BY <3>2, <3>3
  <2>3. QED BY <2>1, <2>2
<1>15. finished \in {"Decoded", "Marker"} => now.last_shred = x.start + n - 1
  <2> SUFFICES ASSUME finished \in {"Decoded", "Marker"} PROVE now.last_shred = x.start + n - 1
    OBVIOUS
  <2>1. a.advance.some /\ a.advance.finished = finished /\ a.advance.last_shred = p.extent.last
    BY <1>11
  <2>2. WorthReporting(a.advance)
    BY <2>1 DEF WorthReporting
  <2>3. QED BY <1>3, <2>1, <2>2 DEF NowTold
\* Closed, it has handed over all there is.
<1>16. ASSUME q.closed
       PROVE  /\ j = Count(W)
              /\ Declared(W) => q.padded \/ Claimed(x, now)
              /\ q.padded /\ q.extent.complete => Claimed(x, now)
  <2>1. finished # "None"
    BY <1>11, <1>16
  <2>2. ~(q.padded /\ q.extent.complete)
    BY <1>3, <1>11
  <2>3. CASE read.verdict = "Done"
    <3>1. ENTRY_COUNT <= l /\ j = c
      BY <1>4, <1>5, <2>3
    <3>2. j = Count(W)
      BY <1>2, <1>6, <3>1
    <3>3. complete => Claimed(x, now)
      BY <1>3, <1>12, <1>15, <2>3 DEF Claimed
    <3>4. ~complete => q.padded
      BY <1>11, <1>12, <2>3
    <3>5. QED BY <2>2, <3>2, <3>3, <3>4
  <2>4. CASE read.verdict = "Invalid"
    <3>1. j = Count(W)
      BY <1>2, <1>4, <1>5, <2>4
    <3>2. ~Declared(W)
      BY <1>4, <1>5, <1>7, <2>4, <3>1
    <3>3. QED BY <2>2, <3>1, <3>2
  <2>5. CASE read.verdict = "Waiting"
    <3>1. complete
      BY <1>12, <2>1, <2>5
    <3>2. j = Count(W) /\ l = Len(W)
      BY <1>2, <1>3, <3>1
    <3>3. ~Declared(W)
      <4>1. CASE l < ENTRY_COUNT
        <5>1. ~(ENTRY_COUNT <= l)
          BY <1>2, <4>1, BufferAssumption
        <5>2. QED BY <1>7, <3>2, <5>1
      <4>2. CASE ENTRY_COUNT <= l /\ ReadAsFar(W, l, c, i, read)
        BY <1>5, <1>7, <2>5, <3>2, <4>2
      <4>3. QED BY <1>4, <2>5, <4>1, <4>2
    <3>4. QED BY <2>2, <3>2, <3>3
  <2>6. QED BY <1>10, <2>3, <2>4, <2>5
\* Open, it stands where it says.
<1>17. ASSUME ~q.closed
       PROVE  /\ ~q.padded /\ ~complete /\ HasRead(W, l, q) /\ ResumesAt(x, n, q.resume, q.consumed)
  <2>1. finished = "None"
    BY <1>11, <1>17
  <2>2. read.verdict = "Waiting" /\ ~complete
    <3>1. read.verdict = "Waiting"
      BY <1>10, <1>12, <2>1
    <3>2. QED BY <1>3, <1>12, <2>1, <3>1
  <2>3. ~q.padded
    BY <1>11, <2>1
  <2> PICK o \in 0..n : at = [from |-> x.start + o, base |-> x.cut[o]] /\ x.cut[o] <= p.consumed
    BY DEF ResumesAt
  <2>4. CASE l < ENTRY_COUNT /\ read.consumed = 0 /\ read.remaining = NoCount
    <3>1. HasRead(W, l, q)
      BY <1>11, <2>4 DEF HasRead
    <3>2. p.consumed = 0
      <4>1. ~(ENTRY_COUNT <= x.cut[k])
        BY <1>2, <2>4, BufferAssumption
      <4>2. QED BY <4>1 DEF HasRead
    <3>3. x.cut[o] <= q.consumed
      BY <1>11, <2>4, <3>2
    <3>4. ResumesAt(x, n, q.resume, q.consumed)
      BY <1>11, <3>3 DEF ResumesAt
    <3>5. QED BY <2>2, <2>3, <3>1, <3>4
  <2>5. CASE ENTRY_COUNT <= l /\ ReadAsFar(W, l, c, i, read)
    <3>1. /\ q.consumed = EndAt(W, j) /\ q.remaining = c - j /\ j # c
          /\ c \in Nat /\ Count(W) <= c
      BY <1>5, <1>6, <1>11, <2>2, <2>5
    <3>2. q.remaining > 0 /\ q.remaining # NoCount
      <4>1. q.remaining = c - j /\ c \in Nat /\ j \in Nat /\ j # c /\ j <= c
        <5>1. /\ j \in Nat /\ j <= Count(W) /\ Count(W) \in Nat /\ Count(W) <= c /\ j # c
              /\ c \in Nat /\ q.remaining = c - j
          BY <1>2, <3>1
        <5> DEFINE h == Count(W)
        <5>2. j \in Nat /\ j <= h /\ h \in Nat /\ h <= c /\ c \in Nat
          BY <5>1
        <5> HIDE DEF h
        <5>3. j <= c
          BY <5>2
        <5>4. QED BY <5>1, <5>3
      <4>2. q.remaining > 0
        BY <4>1
      <4>3. QED BY <4>2 DEF NoCount
    <3>3. HasRead(W, l, q)
      BY <2>5, <3>1, <3>2 DEF HasRead, j, c
    <3>4. x.cut[o] <= EndAt(W, j)
      <4>1. x.cut[o] \in Nat /\ x.cut[o] <= l
        BY <1>1, AllOfIt DEF l
      <4>2. EndAt(W, 0) = ENTRY_COUNT /\ ENTRY_COUNT \in Nat
        BY BufferAssumption DEF EndAt
      <4>3. CASE p.remaining = NoCount
        <5>1. x.cut[o] = 0
          BY <4>1, <4>3 DEF HasRead
        <5>2. EndAt(W, j) \in Nat
          BY <1>1, <1>2, EntriesLie
        <5>3. QED BY <5>1, <5>2
      <4>4. CASE p.remaining # NoCount
        <5>1. p.consumed = EndAt(W, i)
          BY <4>4 DEF HasRead, i
        <5> DEFINE data == SubSeq(W, x.cut[o] + 1, l)
        <5>2. Between(W, x.cut[o], l, data)
          <6> DEFINE base == x.cut[o]
                     d == l - base
          <6>1. base \in Nat /\ d \in Nat /\ base + d = l /\ l <= Len(W)
            BY <1>2, <4>1
          <6> HIDE DEF base, d
          <6>2. /\ SubSeq(W, base + 1, base + d) \in Seq(Cells) /\ Len(SubSeq(W, base + 1, base + d)) = d
                /\ \A y \in 1..d : SubSeq(W, base + 1, base + d)[y] = W[base + y]
            <7>1. W \in Seq(Cells) /\ base \in Nat /\ d \in Nat /\ base + d <= Len(W)
              BY <1>1, <6>1
            <7> HIDE DEF W
            <7>2. QED BY <7>1, SliceIs
          <6>3. data = SubSeq(W, base + 1, base + d)
            BY <6>1 DEF base
          <6> HIDE DEF data
          <6>4. l - base = d
            BY DEF d
          <6>5. QED BY <1>1, <1>2, <4>1, <6>1, <6>2, <6>3, <6>4 DEF Between, base
        <5>3. i \in 0..j
          BY <1>2
        <5>4. EndAt(W, 0) <= l
          BY <2>5, <4>2
        <5> HIDE DEF data
        <5>5. \A m \in i..j : x.cut[o] <= EndAt(W, m)
          BY <5>1, <5>2, <5>3, <5>4, EndsWithin DEF j
        <5>6. j \in i..j
          BY <1>2
        <5>7. QED BY <5>5, <5>6
      <4>5. QED BY <4>3, <4>4
    <3>5. ResumesAt(x, n, q.resume, q.consumed)
      BY <1>11, <3>1, <3>4 DEF ResumesAt
    <3>6. QED BY <2>2, <2>3, <3>3, <3>5
  <2>6. QED BY <1>4, <2>2, <2>4, <2>5
<1>18. q.extent = ExtentTo(x, n) /\ ProgressShaped(q)
  BY <1>11 DEF a
<1> HIDE DEF q, now
<1>19. KnownTo(x, n, q, now)
  BY <1>1, <1>14, <1>16, <1>17, <1>18 DEF KnownTo, j, l, complete
<1>20. QED BY <1>13, <1>19 DEF a, q, now

\* A closed batch stays as it is when more of its shreds are looked at.
LEMMA ClosedStays ==
  ASSUME NEW x, Readable(x), NEW k \in 0..x.size, NEW n \in k..x.size,
         NEW p, NEW told, KnownTo(x, k, p, told), p.closed,
         NEW q, ProgressShaped(q), q.closed, q.padded = p.padded,
         q.padded => q.extent = NoExtent \/ q.extent = ExtentTo(x, n),
         NEW now, now.entries = told.entries,
         Claimed(x, told) => Claimed(x, now),
         q.padded /\ q.extent.complete => Claimed(x, now)
  PROVE  KnownTo(x, n, q, now)
<1>1. /\ told.entries = FirstEntries(x.bytes, UpTo(x.bytes, x.cut[k]))
      /\ UpTo(x.bytes, x.cut[k]) = Count(x.bytes)
      /\ Declared(x.bytes) => p.padded \/ Claimed(x, told)
  BY DEF KnownTo
<1>2. Laid(x) /\ Encoded(x.bytes) /\ x.size \in Nat
  BY DEF Readable, Laid
<1>3. n \in 0..x.size /\ k \in 0..n
  BY <1>2
<1>4. UpTo(x.bytes, x.cut[n]) = Count(x.bytes)
  <2> DEFINE u == UpTo(x.bytes, x.cut[k])
             v == UpTo(x.bytes, x.cut[n])
             c == Count(x.bytes)
  <2>1. u = c /\ u <= v /\ v <= c /\ v \in Nat /\ c \in Nat
    BY <1>1, <1>2, <1>3, AllOfIt
  <2> HIDE DEF u, v, c
  <2>2. v = c
    BY <2>1
  <2>3. QED BY <2>2 DEF v, c
<1>5. QED BY <1>1, <1>3, <1>4 DEF KnownTo

\* What is known and was handed over of a batch, after one pass over it: it
\* reaches as far as the shreds held do.
LEMMA PassKnows ==
  ASSUME NEW b, NEW x, NEW k, Readable(x), Reading(b, x, k),
         NEW p, NEW told, KnownTo(x, k, p, told),
         ProgressShaped(DecodePrefix(b, x.start, p).progress)
  PROVE  LET pass == DecodePrefix(b, x.start, p) IN
         /\ ~pass.advance.panic
         /\ \E n \in k..x.size :
              /\ Reading(b, x, n)
              /\ Ended(x, n) \/ x.start + n \notin Held(b)
              /\ KnownTo(x, n, pass.progress, NowTold(told, pass.advance))
<1> DEFINE s == x.start
           W == x.bytes
           cut == x.cut
           pass == DecodePrefix(b, s, p)
           extent == Extent(b, s, p.extent)
           walked == [p EXCEPT !.extent = extent]
<1>1. /\ Laid(x) /\ Encoded(W) /\ x.size \in Nat /\ k \in 0..x.size /\ k \in Nat
      /\ ProgressShaped(p) /\ s \in Nat /\ x.closes \in BOOLEAN
  BY DEF Readable, Laid, Reading, HasFirst, KnownTo
<1>2. p.closed \in BOOLEAN /\ p.padded \in BOOLEAN
  BY <1>1 DEF ProgressShaped
<1>3. /\ walked.extent = extent /\ walked.closed = p.closed /\ walked.padded = p.padded
      /\ walked.consumed = p.consumed /\ walked.remaining = p.remaining
      /\ walked.resume = p.resume
  <2>1. p = [consumed |-> p.consumed, remaining |-> p.remaining, opened |-> p.opened,
             closed |-> p.closed, padded |-> p.padded, extent |-> p.extent,
             resume |-> p.resume]
    BY <1>1 DEF ProgressShaped
  <2> HIDE DEF extent
  <2>2. QED BY <2>1
<1>4. pass = IF p.closed THEN ClaimPadding(b, s, p)
             ELSE IF extent = NoExtent THEN Silent(p)
             ELSE IF ~extent.complete /\ extent.len > MAX_BATCH_BYTES
                  THEN Report([walked EXCEPT !.closed = TRUE], <<>>, FALSE, "Failed")
             ELSE IF extent.len <= p.consumed /\ ~extent.complete THEN Silent(walked)
             ELSE ReadOn(b, s, walked)
  BY DEF DecodePrefix
<1>5. \A q : Silent(q).progress = q /\ ~Silent(q).advance.panic /\ NowTold(told, Silent(q).advance) = told
  BY DEF Silent, NoAdvance, NowTold, WorthReporting
<1>6. ~p.closed \/ p.padded => p.extent = NoExtent \/ p.extent = ExtentTo(x, k)
  BY DEF KnownTo
<1>7. ProgressShaped(pass.progress)
  OBVIOUS
<1> HIDE DEF pass, walked, extent
<1>8. QED
  <2> DEFINE Goal == /\ ~pass.advance.panic
                     /\ \E n \in k..x.size :
                          /\ Reading(b, x, n)
                          /\ Ended(x, n) \/ s + n \notin Held(b)
                          /\ KnownTo(x, n, pass.progress, NowTold(told, pass.advance))
  <2> SUFFICES Goal
    BY DEF pass
  <2> DEFINE Reached(n) == Reading(b, x, n) /\ (Ended(x, n) \/ s + n \notin Held(b))
  <2>1. ASSUME ~pass.advance.panic, NEW n \in k..x.size, Reached(n),
               KnownTo(x, n, pass.progress, NowTold(told, pass.advance))
        PROVE  Goal
    BY <2>1
  <2> HIDE DEF Goal
  <2>2. CASE p.closed /\ ~p.padded
    <3>1. PICK n \in k..x.size : Reached(n)
      <4>1. NoExtent = NoExtent \/ NoExtent = ExtentTo(x, k)
        OBVIOUS
      <4>2. QED BY <4>1, ExtentIs
    <3>2. pass = Silent(p)
      BY <1>4, <2>2 DEF ClaimPadding
    <3>3. KnownTo(x, n, p, told)
      BY <1>1, <2>2, ClosedStays
    <3>4. QED BY <1>5, <2>1, <3>1, <3>2, <3>3
  <2>3. CASE ~(p.closed /\ ~p.padded)
    <3>1. PICK n \in k..x.size : Reached(n) /\ extent = ExtentTo(x, n)
      <4>1. p.extent = NoExtent \/ p.extent = ExtentTo(x, k)
        BY <1>2, <1>6, <2>3
      <4>2. QED BY <4>1, ExtentIs DEF extent
    <3> HIDE DEF Reached
    <3>2. n \in Nat /\ n \in 0..x.size /\ k \in 0..n /\ (extent = NoExtent <=> n = 0)
      <4>1. n \in Nat /\ n \in 0..x.size /\ k \in 0..n
        BY <1>1
      <4>2. n # 0 => extent.last = s + n - 1
        BY <3>1 DEF ExtentTo
      <4>3. n # 0 => extent.last >= 0
        BY <1>1, <4>1, <4>2
      <4>4. NoExtent.last = -1
        BY DEF NoExtent, NoIndex
      <4>5. n # 0 => extent # NoExtent
        BY <4>3, <4>4
      <4>6. QED BY <3>1, <4>1, <4>5 DEF ExtentTo
    <3>3. n # 0 => /\ extent.last = s + n - 1 /\ extent.complete = Ended(x, n) /\ extent.len = cut[n]
      BY <3>1 DEF ExtentTo
    <3>4. CASE n = 0 /\ ~(p.closed /\ p.padded /\ p.extent.complete)
      <4>1. pass = Silent(p)
        BY <1>4, <2>3, <3>2, <3>4 DEF ClaimPadding, extent
      <4>2. n = k
        BY <1>1, <3>2, <3>4
      <4>3. QED BY <1>5, <2>1, <3>1, <4>1, <4>2
    <3>5. CASE p.closed /\ p.padded /\ p.extent.complete
      <4>1. p.extent = ExtentTo(x, k) /\ k # 0
        BY <1>6, <3>5 DEF NoExtent, ExtentTo
      <4>2. Ended(x, k)
        BY <3>5, <4>1 DEF ExtentTo
      <4>3. pass = Silent(p)
        BY <1>4, <3>5 DEF ClaimPadding
      <4>4. Reached(k) /\ k \in k..x.size
        BY <1>1, <4>2 DEF Reached
      <4>5. QED BY <1>5, <2>1, <4>3, <4>4
    <3>6. CASE n # 0 /\ p.closed /\ p.padded /\ ~p.extent.complete
      <4>1. pass = IF ~extent.complete THEN Silent(walked) ELSE Report(walked, <<>>, FALSE, "None")
        BY <1>4, <3>2, <3>6 DEF ClaimPadding, extent, walked
      <4>2. pass.progress = walked
        BY <1>5, <4>1 DEF Report
      <4>3. CASE ~extent.complete
        <5>1. KnownTo(x, n, walked, told)
          BY <1>1, <1>3, <1>7, <3>1, <3>6, <4>2, <4>3, ClosedStays
        <5>2. QED BY <1>5, <2>1, <3>1, <4>1, <4>3, <5>1
      <4>4. CASE extent.complete
        <5>1. /\ ~pass.advance.panic
              /\ pass.advance.entries = <<>> /\ pass.advance.last_shred = s + n - 1
              /\ WorthReporting(pass.advance)
          <6>1. /\ pass.advance.some /\ ~pass.advance.panic /\ pass.advance.entries = <<>>
                /\ pass.advance.last_shred = walked.extent.last /\ pass.advance.finished = "None"
            BY <4>1, <4>4 DEF Report
          <6>2. QED BY <1>3, <3>3, <3>6, <6>1 DEF WorthReporting
        <5> DEFINE now == NowTold(told, pass.advance)
        <5>2. now.entries = told.entries
          <6> DEFINE c == UpTo(W, cut[k])
                     f == [y \in 1..c |-> W[EndAt(W, y)].value]
          <6>1. told.entries = [y \in 1..c |-> f[y]] /\ c \in Nat
            <7>1. told.entries = FirstEntries(W, c) /\ c \in Nat
              BY <1>1, AllOfIt DEF KnownTo
            <7>2. QED BY <7>1 DEF FirstEntries
          <6> HIDE DEF c, f
          <6> DEFINE t == told.entries
          <6>2. t \in Seq({f[y] : y \in 1..c})
            BY <6>1
          <6> HIDE DEF t
          <6>3. t \o <<>> = t
            BY <6>2
          <6>4. now.entries = t \o <<>>
            BY <5>1 DEF NowTold, t
          <6>5. QED BY <6>3, <6>4 DEF t
        <5>3. Claimed(x, now)
          <6>1. Ended(x, n)
            BY <3>3, <3>6, <4>4
          <6>2. now.last_shred = s + n - 1
            BY <5>1 DEF NowTold
          <6>3. QED BY <6>1, <6>2 DEF Claimed, Ended
        <5> HIDE DEF now
        <5>4. KnownTo(x, n, walked, now)
          BY <1>1, <1>3, <1>7, <3>1, <3>6, <4>2, <5>2, <5>3, ClosedStays
        <5>5. QED BY <2>1, <3>1, <4>2, <5>1, <5>4 DEF now
      <4>5. QED BY <4>3, <4>4
    <3>7. CASE n # 0 /\ ~p.closed
      <4>1. ~(~extent.complete /\ extent.len > MAX_BATCH_BYTES)
        <5>1. ~Ended(x, n) => cut[n] <= MAX_BATCH_BYTES
          BY <3>2 DEF Readable
        <5>2. cut[n] \in Nat /\ MAX_BATCH_BYTES \in Nat
          BY <1>1, <3>2, BufferAssumption DEF Laid
        <5>3. QED BY <3>3, <3>7, <5>1, <5>2
      <4>2. /\ told.entries = FirstEntries(W, UpTo(W, cut[k])) /\ ~p.padded
            /\ HasRead(W, cut[k], p)
            /\ p.resume = NoResume \/ ResumesAt(x, k, p.resume, p.consumed)
        BY <3>7 DEF KnownTo
      <4>3. ResumesAt(x, k, p.resume, p.consumed) => ResumesAt(x, n, p.resume, p.consumed)
        <5>1. \A a \in 0..k : a \in 0..n
          BY <1>1, <3>2
        <5>2. QED BY <5>1 DEF ResumesAt
      <4>4. /\ cut[k] \in Nat /\ cut[n] \in Nat /\ cut[k] <= cut[n] /\ cut[n] <= Len(W)
            /\ UpTo(W, cut[k]) \in Nat /\ UpTo(W, cut[k]) <= Count(W) /\ Count(W) \in Nat
        BY <1>1, <3>2, AllOfIt
      <4>5. p.consumed \in Nat /\ (p.remaining # NoCount => p.consumed <= cut[k])
        <5>1. CASE p.remaining = NoCount
          BY <4>2, <5>1 DEF HasRead
        <5>2. CASE p.remaining # NoCount
          <6>1. p.consumed = EndAt(W, UpTo(W, cut[k])) /\ ENTRY_COUNT <= cut[k]
            BY <4>2, <5>2 DEF HasRead
          <6>2. EndAt(W, UpTo(W, cut[k])) \in Nat
            BY <1>1, <4>4, EntriesLie DEF Laid
          <6>3. EndAt(W, UpTo(W, cut[k])) <= cut[k]
            <7>1. CASE UpTo(W, cut[k]) = 0
              BY <6>1, <7>1 DEF EndAt
            <7>2. CASE UpTo(W, cut[k]) # 0
              <8>1. W \in Seq(Cells)
                BY <1>1 DEF Laid
              <8>2. UpTo(W, cut[k]) \in 1..Count(W) /\ UpTo(W, cut[k]) <= UpTo(W, cut[k])
                BY <4>4, <7>2
              <8>3. QED BY <4>4, <8>1, <8>2, UpToCounts
            <7>3. QED BY <7>1, <7>2
          <6>4. QED BY <6>1, <6>2, <6>3
        <5>3. QED BY <5>1, <5>2
      <4>6. CASE extent.len <= p.consumed /\ ~extent.complete
        <5>1. pass = Silent(walked)
          BY <1>4, <3>2, <3>7, <4>1, <4>6
        <5>2. cut[n] = cut[k]
          <6>1. cut[n] <= p.consumed
            BY <3>3, <3>7, <4>6
          <6>2. p.remaining = NoCount => p.consumed = 0
            BY <4>2 DEF HasRead
          <6>3. QED BY <4>4, <4>5, <6>1, <6>2
        <5>3. /\ ProgressShaped(walked) /\ ~walked.closed /\ ~walked.padded
              /\ HasRead(W, cut[n], walked)
              /\ walked.resume = NoResume \/ ResumesAt(x, n, walked.resume, walked.consumed)
          BY <1>3, <1>5, <1>7, <3>7, <4>2, <4>3, <5>1, <5>2 DEF HasRead
        <5>4. ~Ended(x, n)
          BY <3>3, <3>7, <4>6
        <5>5. KnownTo(x, n, walked, told)
          BY <1>3, <3>1, <3>2, <4>2, <5>2, <5>3, <5>4 DEF KnownTo
        <5>6. QED BY <1>5, <2>1, <3>1, <5>1, <5>5
      <4>7. CASE ~(extent.len <= p.consumed /\ ~extent.complete)
        <5> DEFINE at == Resume(b, s, walked)
                   last == s + n - 1
                   data == Payload(b, at.from, last)
                   read == Decode(data, at.base, walked)
        <5>1. pass = Absorbed(walked, at, read)
          <6>1. pass = ReadOn(b, s, walked)
            BY <1>4, <3>2, <3>7, <4>1, <4>7
          <6>2. walked.extent.last = last
            BY <1>3, <3>3, <3>7
          <6>3. QED BY <6>1, <6>2 DEF ReadOn
        <5>2. ProgressShaped(walked)
          <6>1. p = [consumed |-> p.consumed, remaining |-> p.remaining, opened |-> p.opened,
                     closed |-> p.closed, padded |-> p.padded, extent |-> p.extent,
                     resume |-> p.resume]
            BY <1>1 DEF ProgressShaped
          <6>2. walked = [consumed |-> p.consumed, remaining |-> p.remaining, opened |-> p.opened,
                          closed |-> p.closed, padded |-> p.padded, extent |-> extent,
                          resume |-> p.resume]
            BY <6>1 DEF walked
          <6>3. /\ extent = [last |-> extent.last, complete |-> extent.complete, len |-> extent.len]
                /\ extent.complete \in BOOLEAN /\ extent.last \in Nat
            <7>1. Ended(x, n) \in BOOLEAN
              BY <1>1 DEF Ended
            <7>2. s + n - 1 \in Nat
              BY <1>1, <3>2, <3>7
            <7>3. extent = [last |-> s + n - 1, complete |-> Ended(x, n), len |-> x.cut[n]]
              BY <3>1, <3>7 DEF ExtentTo
            <7>4. QED BY <3>3, <3>7, <7>1, <7>2, <7>3
          <6>4. walked.opened = p.opened
            BY <6>2
          <6>5. QED BY <1>2, <1>3, <6>2, <6>3, <6>4 DEF ProgressShaped
        <5>3. HasRead(W, cut[k], walked) /\ walked.extent = ExtentTo(x, n)
          BY <1>3, <3>1, <4>2 DEF HasRead
        <5>4. Reading(b, x, n)
          BY <3>1 DEF Reached
        <5>5. ResumesAt(x, n, at, walked.consumed)
          <6>1. walked.resume = NoResume \/ ResumesAt(x, n, walked.resume, walked.consumed)
            BY <1>3, <4>2, <4>3
          <6>2. walked.consumed \in Nat
            BY <1>3, <4>5
          <6>3. QED BY <3>7, <5>3, <5>4, <6>1, <6>2, ResumeIs
        <5> HIDE DEF at
        <5>6. PICK a \in 0..n : at = [from |-> s + a, base |-> cut[a]] /\ cut[a] <= walked.consumed
          BY <5>5 DEF ResumesAt
        <5>7. data = Slice(W, cut, a, n)
          <6>1. at.from = s + a
            BY <5>6
          <6>2. QED BY <5>4, <6>1, PayloadIs
        <5>8. Between(W, cut[a], cut[n], data) /\ at.base = cut[a]
          <6>1. /\ W \in Seq(Cells) /\ cut[a] \in Nat /\ cut[a] <= cut[n]
            BY <1>1, <3>2, AllOfIt DEF Laid
          <6> DEFINE base == cut[a]
                     d == cut[n] - base
          <6>2. base \in Nat /\ d \in Nat /\ base + d = cut[n] /\ base + d <= Len(W)
            BY <4>4, <6>1
          <6> HIDE DEF base, d
          <6>3. data = SubSeq(W, base + 1, base + d)
            BY <5>7, <6>2 DEF Slice, base
          <6>4. /\ SubSeq(W, base + 1, base + d) \in Seq(Cells) /\ Len(SubSeq(W, base + 1, base + d)) = d
                /\ \A y \in 1..d : SubSeq(W, base + 1, base + d)[y] = W[base + y]
            <7> HIDE DEF W
            <7>1. QED BY <6>1, <6>2, SliceIs
          <6> HIDE DEF data
          <6>5. QED BY <1>1, <4>4, <5>6, <6>1, <6>2, <6>3, <6>4 DEF Between, base, d
        <5> HIDE DEF data
        <5>9. Decodes(W, cut[n], UpTo(W, cut[k]), read)
          <6>1. Decodes(W, cut[n], UpTo(W, cut[k]), Decode(data, cut[a], walked))
            BY <4>4, <5>2, <5>3, <5>6, <5>8, DecodesOn
          <6>2. QED BY <5>8, <6>1
        <5> HIDE DEF read
        <5>10. ProgressShaped(Absorbed(walked, at, read).progress)
          BY <1>7, <5>1
        <5>11. n \in 1..x.size
          BY <1>1, <3>2, <3>7
        <5>12. LET a1 == Absorbed(walked, at, read) IN
               ~a1.advance.panic /\ KnownTo(x, n, a1.progress, NowTold(told, a1.advance))
          BY <3>2, <4>2, <5>2, <5>3, <5>5, <5>9, <5>10, <5>11, AbsorbKnows
        <5>13. QED BY <2>1, <3>1, <5>1, <5>12
      <4>8. QED BY <4>6, <4>7
    <3>8. QED BY <1>2, <2>3, <3>4, <3>5, <3>6, <3>7
  <2>4. QED BY <2>2, <2>3

----------------------------------------------------------------------------
(* Batches as leaders cut them, and as they were taken from the wire.       *)

\* The one copy of a shred, and a buffer holding every one of a slot.
CopyOf(w, slot, i) == CHOOSE s \in w : s.slot = slot /\ s.index = i

IndicesOf(w, slot) == {s.index : s \in {t \in w : t.slot = slot}}

AllHeld(w, slot) ==
  [shreds |-> [i \in IndicesOf(w, slot) |->
                 [at |-> 0, len |-> 0, complete |-> CopyOf(w, slot, i).data_complete]]]

SizeOf(w, slot, start) == (RunEnd(AllHeld(w, slot), start) - start) + 1

PiecesOf(w, slot, start) ==
  [k \in 1..SizeOf(w, slot, start) |-> CopyOf(w, slot, start + k - 1).data]

\* The batch that begins at start, as it was cut.
BatchOf(w, slot, start) ==
  LET size   == SizeOf(w, slot, start)
      shreds == PiecesOf(w, slot, start)
  IN  [start  |-> start,
       size   |-> size,
       closes |-> size # 0 /\ CopyOf(w, slot, start + size - 1).data_complete,
       shreds |-> shreds,
       bytes  |-> FlattenSeq(shreds),
       cut    |-> CHOOSE cut \in [0..size -> Nat] :
                    PiecesLie(FlattenSeq(shreds), shreds, size, cut)]

\* Its shreds are these, and none follows that is not of the next batch.
CutAs(w, slot, x) ==
  /\ \A k \in 1..x.size :
       LET s == CopyOf(w, slot, x.start + k - 1) IN
       /\ s \in w /\ s.slot = slot /\ s.index = x.start + k - 1
       /\ s.data = x.shreds[k] /\ s.data_complete = Ended(x, k)
  /\ \A s \in w : s.slot = slot /\ s.index = x.start + x.size => x.closes

LEMMA CopyIs ==
  ASSUME NEW w, OneCopy(w), NEW s \in w
  PROVE  CopyOf(w, s.slot, s.index) = s
<1> DEFINE c == CopyOf(w, s.slot, s.index)
<1>1. c \in w /\ c.slot = s.slot /\ c.index = s.index
  BY DEF CopyOf
<1> HIDE DEF c
<1>2. c = s
  BY <1>1 DEF OneCopy
<1>3. QED BY <1>2 DEF c

\* Every batch of a wire is laid so.
LEMMA BatchLaid ==
  ASSUME NEW w \in Wires, OneCopy(w), NEW slot, NEW start \in Nat
  PROVE  LET x == BatchOf(w, slot, start) IN
         Laid(x) /\ CutAs(w, slot, x) /\ x.start = start
<1> DEFINE b == AllHeld(w, slot)
           last == RunEnd(b, start)
           size == SizeOf(w, slot, start)
           shreds == PiecesOf(w, slot, start)
           data == FlattenSeq(shreds)
           x == BatchOf(w, slot, start)
           cut == CHOOSE cut \in [0..size -> Nat] : PiecesLie(data, shreds, size, cut)
           c(i) == CopyOf(w, slot, i)
<1>1. \A s \in w : s.index \in 0..MAX_INDEX /\ s.data \in Seq(Cells) /\ s.data_complete \in BOOLEAN
  BY AssemblerAssumption DEF Cells
<1>2. Held(b) = IndicesOf(w, slot) /\ \A i \in Held(b) :
        b.shreds[i] = [at |-> 0, len |-> 0, complete |-> CopyOf(w, slot, i).data_complete]
  BY DEF AllHeld, Held
<1>3. \A i \in Held(b) : c(i) \in w /\ c(i).slot = slot /\ c(i).index = i
  BY <1>2 DEF IndicesOf, CopyOf
<1>4. \A s \in w : s.slot = slot => s.index \in Held(b) /\ c(s.index) = s
  BY <1>2, CopyIs DEF IndicesOf
<1> HIDE DEF b
<1>5. \A i \in Held(b) : b.shreds[i].complete = c(i).data_complete
  <2> SUFFICES ASSUME NEW i \in Held(b) PROVE b.shreds[i].complete = c(i).data_complete
    OBVIOUS
  <2> DEFINE v == c(i).data_complete
             r == b.shreds[i]
  <2>1. r = [at |-> 0, len |-> 0, complete |-> v]
    BY <1>2
  <2> HIDE DEF v, r
  <2>2. r.complete = v
    BY <2>1
  <2>3. QED BY <2>2 DEF v, r
<1> HIDE DEF c
<1>6. ShredsShaped(b)
  <2>1. Held(b) \subseteq 0..MAX_INDEX
    BY <1>1, <1>3
  <2>2. \A i \in Held(b) : c(i).data_complete \in BOOLEAN
    BY <1>1, <1>3
  <2>3. ASSUME NEW i \in Held(b)
        PROVE  /\ b.shreds[i] = [at |-> b.shreds[i].at, len |-> b.shreds[i].len,
                                 complete |-> b.shreds[i].complete]
               /\ b.shreds[i].len \in Nat /\ b.shreds[i].complete \in BOOLEAN
    <3>1. b.shreds[i] = [at |-> 0, len |-> 0, complete |-> c(i).data_complete]
      BY <1>2 DEF c
    <3>2. QED BY <2>2, <3>1
  <2>4. QED BY <2>1, <2>3 DEF ShredsShaped
<1>7. /\ last \in Int /\ last >= start - 1 /\ Walked(b, start, last)
      /\ last + 1 \in Held(b) => last >= start /\ b.shreds[last].complete
  BY <1>6, RunEndStops
<1>8. size = (last - start) + 1
  BY DEF SizeOf, b
<1> HIDE DEF last, size
<1>9. size \in Nat /\ last = start + size - 1
  BY <1>7, <1>8
<1>10. ASSUME NEW k \in 1..size
      PROVE  LET i == start + k - 1 IN
             /\ i \in Held(b) /\ c(i) \in w /\ c(i).slot = slot /\ c(i).index = i
             /\ c(i).data \in Seq(Cells) /\ c(i).data_complete \in BOOLEAN
             /\ (k < size => ~c(i).data_complete)
  <2> DEFINE i == start + k - 1
  <2>1. i \in start..last /\ (k < size => i < last)
    BY <1>9
  <2>2. i \in Held(b) /\ (k < size => ~b.shreds[i].complete)
    BY <1>7, <2>1 DEF Walked
  <2>3. b.shreds[i].complete = c(i).data_complete
    BY <1>5, <2>2
  <2> HIDE DEF i
  <2>4. QED BY <1>1, <1>3, <2>2, <2>3 DEF i
<1>11. shreds = [k \in 1..size |-> c(start + k - 1).data]
  BY DEF PiecesOf, size, c
<1> HIDE DEF shreds
<1>12. shreds \in [1..size -> Seq(Cells)]
  BY <1>10, <1>11
<1>13. data \in Seq(Cells) /\ cut \in [0..size -> Nat] /\ PiecesLie(data, shreds, size, cut)
  <2>1. data \in Seq(Cells) /\ \E u \in [0..size -> Nat] : PiecesLie(data, shreds, size, u)
    BY <1>9, <1>12, FlattenLays
  <2> HIDE DEF data
  <2>2. QED BY <2>1
<1>14. x = [start |-> start, size |-> size,
            closes |-> size # 0 /\ c(start + size - 1).data_complete,
            shreds |-> shreds, bytes |-> data, cut |-> cut]
  BY DEF BatchOf, size, shreds, c
<1> HIDE DEF x, data, cut
<1>15. /\ x.start = start /\ x.size = size /\ x.shreds = shreds /\ x.bytes = data /\ x.cut = cut
       /\ x.closes = (size # 0 /\ c(start + size - 1).data_complete)
  BY <1>14
<1>16. x.closes \in BOOLEAN /\ (x.closes => x.size # 0)
  BY <1>15
<1>17. Laid(x)
  BY <1>9, <1>12, <1>13, <1>15, <1>16 DEF Laid
<1>18. ASSUME NEW k \in 1..x.size
       PROVE  LET s == c(x.start + k - 1) IN
              /\ s \in w /\ s.slot = slot /\ s.index = x.start + k - 1
              /\ s.data = x.shreds[k] /\ s.data_complete = Ended(x, k)
  <2> DEFINE s == c(start + k - 1)
  <2>1. k \in 1..size
    BY <1>15
  <2>2. /\ s \in w /\ s.slot = slot /\ s.index = start + k - 1 /\ s.data_complete \in BOOLEAN
        /\ (k < size => ~s.data_complete)
    BY <1>10, <2>1
  <2>3. shreds[k] = s.data
    BY <1>11, <2>1
  <2>4. s.data_complete = Ended(x, k)
    <3>1. CASE k = size
      <4>1. size # 0 /\ x.closes = (size # 0 /\ s.data_complete)
        BY <1>9, <1>15, <2>1, <3>1
      <4>2. QED BY <1>15, <2>2, <3>1, <4>1 DEF Ended
    <3>2. CASE k # size
      <4>1. k < size
        BY <1>9, <2>1, <3>2
      <4>2. QED BY <1>15, <2>2, <3>2, <4>1 DEF Ended
    <3>3. QED BY <3>1, <3>2
  <2> HIDE DEF s
  <2>5. QED BY <1>15, <2>2, <2>3, <2>4 DEF s
<1>19. ASSUME NEW s \in w, s.slot = slot, s.index = x.start + x.size PROVE x.closes
  <2>1. s.index \in Held(b) /\ s.index = last + 1
    BY <1>4, <1>9, <1>15, <1>19
  <2>2. last >= start /\ b.shreds[last].complete
    BY <1>7, <2>1
  <2>3. size \in 1..size /\ start + size - 1 = last /\ size # 0
    BY <1>9, <2>2
  <2>4. last \in Held(b)
    BY <1>10, <2>3
  <2>5. b.shreds[last].complete = c(last).data_complete
    BY <1>5, <2>4
  <2>6. QED BY <1>15, <2>2, <2>3, <2>5
<1>20. CutAs(w, slot, x)
  <2>1. \A k \in 1..x.size :
          LET s == CopyOf(w, slot, x.start + k - 1) IN
          /\ s \in w /\ s.slot = slot /\ s.index = x.start + k - 1
          /\ s.data = x.shreds[k] /\ s.data_complete = Ended(x, k)
    BY <1>18 DEF c
  <2>2. QED BY <1>19, <2>1 DEF CutAs
<1>21. QED BY <1>15, <1>17, <1>20 DEF x

\* The batch is recognised by what is held.
Known(h, slot, start) ==
  start = 0 \/ \E s \in h : s.slot = slot /\ s.index = start - 1 /\ s.data_complete

\* What is held of the batch without a gap: its first n shreds.
Gapless(h, slot, x, n) ==
  /\ n \in 0..x.size
  /\ \A k \in 1..n : \E s \in h : s.slot = slot /\ s.index = x.start + k - 1
  /\ Ended(x, n) \/ \A s \in h : s.slot = slot => s.index # x.start + n

\* The promise's run is that, and its bytes reach as far.
LEMMA RunIs ==
  ASSUME NEW w, OneCopy(w), NEW slot, NEW x, Laid(x), CutAs(w, slot, x),
         \A s \in w : s.index \in Nat /\ s.data_complete \in BOOLEAN,
         NEW h, h \subseteq w, Known(h, slot, x.start), NEW n, Gapless(h, slot, x, n)
  PROVE  LET run == Stream!Run(h, <<slot, x.start>>) IN
         /\ run = {CopyOf(w, slot, x.start + k - 1) : k \in 1..n}
         /\ Stream!RunBytes(h, <<slot, x.start>>) = SubSeq(x.bytes, 1, x.cut[n])
<1> DEFINE start == x.start
           batch == <<slot, start>>
           run == Stream!Run(h, batch)
           c(k) == CopyOf(w, slot, start + k - 1)
           all == {c(k) : k \in 1..n}
<1>1. /\ start \in Nat /\ n \in Nat /\ n \in 0..x.size /\ x.size \in Nat /\ x.closes \in BOOLEAN
      /\ batch[1] = slot /\ batch[2] = start
  BY DEF Laid, Gapless
<1> HIDE DEF batch
<1>2. ASSUME NEW k \in 1..n
      PROVE  /\ c(k) \in h /\ c(k) \in w /\ c(k).slot = slot /\ c(k).index = start + k - 1
             /\ c(k).data = x.shreds[k] /\ c(k).data_complete = Ended(x, k) /\ k \in 1..x.size
  <2>1. k \in 1..x.size
    BY <1>1
  <2>2. /\ c(k) \in w /\ c(k).slot = slot /\ c(k).index = start + k - 1
        /\ c(k).data = x.shreds[k] /\ c(k).data_complete = Ended(x, k)
    BY <2>1 DEF CutAs
  <2>3. PICK s \in h : s.slot = slot /\ s.index = start + k - 1
    BY DEF Gapless
  <2>4. s = c(k)
    <3> HIDE DEF c
    <3>1. QED BY <2>2, <2>3 DEF OneCopy
  <2>5. QED BY <2>1, <2>2, <2>3, <2>4
<1> HIDE DEF c
<1>3. run = {s \in h : /\ s.slot = slot /\ s.index >= start
                       /\ \A i \in start..(s.index - 1) :
                            \E t \in h : t.slot = slot /\ t.index = i /\ ~t.data_complete}
  <2>1. start = 0 \/ \E s \in Stream!InSlot(h, slot) : s.index = start - 1 /\ s.data_complete
    BY DEF Known, Stream!InSlot
  <2>2. Stream!InSlot(h, slot) = {s \in h : s.slot = slot}
    BY DEF Stream!InSlot
  <2> DEFINE mine == Stream!InSlot(h, slot)
  <2>3. run = {s \in mine : /\ start = 0 \/ \E t \in mine : t.index = start - 1 /\ t.data_complete
                            /\ s.index >= start
                            /\ \A i \in start..(s.index - 1) :
                                 \E t \in mine : t.index = i /\ ~t.data_complete}
    BY <1>1 DEF Stream!Run
  <2> HIDE DEF mine, run
  <2>4. QED BY <2>1, <2>2, <2>3 DEF mine
<1> HIDE DEF run
<1>4. ASSUME NEW s \in run PROVE s \in all
  <2>1. /\ s \in h /\ s.slot = slot /\ s.index >= start /\ s.index \in Nat
        /\ \A i \in start..(s.index - 1) :
             \E t \in h : t.slot = slot /\ t.index = i /\ ~t.data_complete
    BY <1>3
  <2> DEFINE k == (s.index - start) + 1
  <2>2. k \in Nat /\ k >= 1 /\ s.index = start + k - 1
    BY <1>1, <2>1
  <2> HIDE DEF k
  <2>3. k <= n
    <3> SUFFICES ASSUME n < k PROVE FALSE
      BY <1>1, <2>2
    <3>1. \E t \in h : t.slot = slot /\ t.index = start + n
      <4>1. CASE n + 1 = k
        <5>1. s.index = start + n
          BY <1>1, <2>2, <4>1
        <5>2. QED BY <2>1, <5>1
      <4>2. CASE n + 1 # k
        <5>1. start + n \in start..(s.index - 1)
          BY <1>1, <2>2, <4>2
        <5>2. QED BY <2>1, <5>1
      <4>3. QED BY <4>1, <4>2
    <3>2. Ended(x, n)
      BY <3>1 DEF Gapless
    <3>3. n # 0
      BY <3>2 DEF Ended, Laid
    <3>4. n \in 1..n /\ start + n - 1 \in start..(s.index - 1)
      BY <1>1, <2>2, <3>3
    <3>5. PICK t \in h : t.slot = slot /\ t.index = start + n - 1 /\ ~t.data_complete
      BY <2>1, <3>4
    <3>6. /\ c(n) \in w /\ c(n).slot = slot /\ c(n).index = start + n - 1
          /\ c(n).data_complete = Ended(x, n)
      BY <1>2, <3>4
    <3>7. t = c(n)
      BY <3>5, <3>6 DEF OneCopy
    <3>8. QED BY <3>2, <3>5, <3>6, <3>7
  <2>4. k \in 1..n
    BY <1>1, <2>2, <2>3
  <2>5. c(k) \in w /\ c(k).slot = slot /\ c(k).index = s.index
    BY <1>2, <2>2, <2>4
  <2>6. s = c(k)
    BY <2>1, <2>5 DEF OneCopy
  <2>7. QED BY <2>4, <2>6
<1>5. ASSUME NEW k \in 1..n PROVE c(k) \in run
  <2>1. c(k) \in h /\ c(k).slot = slot /\ c(k).index = start + k - 1
    BY <1>2
  <2>2. c(k).index >= start
    BY <1>1, <2>1
  <2>3. ASSUME NEW i \in start..(c(k).index - 1)
        PROVE  \E t \in h : t.slot = slot /\ t.index = i /\ ~t.data_complete
    <3> DEFINE j == (i - start) + 1
    <3>1. j \in 1..n /\ j < k /\ start + j - 1 = i /\ j < x.size
      BY <1>1, <2>1
    <3> HIDE DEF j
    <3>2. ~Ended(x, j)
      BY <1>1, <3>1 DEF Ended
    <3>3. c(j) \in h /\ c(j).slot = slot /\ c(j).index = i /\ ~c(j).data_complete
      BY <1>2, <3>1, <3>2
    <3>4. QED BY <3>3
  <2>4. QED BY <1>3, <2>1, <2>2, <2>3
<1>6. run = all
  BY <1>4, <1>5
<1>7. Cardinality(run) = n
  <2> DEFINE f == [k \in 1..n |-> c(k)]
  <2>1. f \in Bijection(1..n, all)
    <3>1. \A k, l \in 1..n : c(k) = c(l) => k = l
      <4> SUFFICES ASSUME NEW k \in 1..n, NEW l \in 1..n, c(k) = c(l) PROVE k = l
        OBVIOUS
      <4>1. start + k - 1 = start + l - 1
        BY <1>2
      <4>2. QED BY <1>1, <4>1
    <3>2. f \in [1..n -> all]
      OBVIOUS
    <3>3. \A y \in all : \E k \in 1..n : f[k] = y
      OBVIOUS
    <3>4. \A k, l \in 1..n : f[k] = f[l] => k = l
      BY <3>1
    <3> HIDE DEF f, all
    <3>5. QED BY <3>2, <3>3, <3>4 DEF Bijection, Injection, Surjection, IsInjective
  <2>2. ExistsBijection(1..n, all)
    BY <2>1 DEF ExistsBijection
  <2> HIDE DEF all
  <2>3. QED BY <1>1, <1>6, <2>2, FS_CountingElements
<1> DEFINE r == [k \in 1..Cardinality(run) |-> (CHOOSE s \in run : s.index = batch[2] + k - 1).data]
<1>8. ASSUME NEW k \in 1..n PROVE (CHOOSE s \in run : s.index = batch[2] + k - 1).data = x.shreds[k]
  <2> DEFINE s0 == CHOOSE s \in run : s.index = batch[2] + k - 1
  <2>1. c(k) \in run /\ c(k).index = batch[2] + k - 1 /\ c(k).slot = slot /\ c(k) \in w
        /\ c(k).data = x.shreds[k]
    BY <1>1, <1>2, <1>5
  <2>2. s0 \in run /\ s0.index = batch[2] + k - 1
    BY <2>1
  <2>3. s0 \in w /\ s0.slot = slot
    BY <1>3, <2>2
  <2> HIDE DEF s0
  <2>4. s0 = c(k)
    BY <2>1, <2>2, <2>3 DEF OneCopy
  <2>5. QED BY <2>1, <2>4 DEF s0
<1>9. r = [k \in 1..n |-> x.shreds[k]]
  <2>1. r = [k \in 1..n |-> (CHOOSE s \in run : s.index = batch[2] + k - 1).data]
    BY <1>7
  <2>2. QED BY <1>8, <2>1
<1>10. Stream!RunBytes(h, batch) = FlattenSeq(r)
  BY RunBytesAre DEF run
<1> HIDE DEF r
<1>11. FlattenSeq(r) = Slice(x.bytes, x.cut, 0, n)
  <2>1. Pieced(Cells, x.size, x.shreds, x.bytes, x.cut, 0, n)
    <3>1. 0 \in 0..x.size /\ n \in 0..x.size
      BY <1>1
    <3>2. QED BY <3>1, LaidPieced
  <2>2. PiecesFrom(Cells, x.shreds, 0, n, r)
    <3>1. \A k \in 1..n : x.shreds[k] \in Seq(Cells)
      BY <1>1 DEF Laid
    <3>2. n - 0 = n /\ \A k \in 1..n : 0 + k = k
      BY <1>1
    <3>3. r \in [1..n -> Seq(Cells)] /\ \A k \in 1..n : r[k] = x.shreds[k]
      BY <1>9, <3>1
    <3>4. QED BY <3>2, <3>3 DEF PiecesFrom
  <2>3. QED BY ONLY <2>1, <2>2, SliceOfPieces
<1>12. Slice(x.bytes, x.cut, 0, n) = SubSeq(x.bytes, 1, x.cut[n])
  BY DEF Slice, Laid, PiecesLie
<1>13. QED BY <1>6, <1>10, <1>11, <1>12 DEF run, batch, c

\* Every batch leaders cut is one its reader can make sense of.
LEMMA BatchReadable ==
  ASSUME NEW w \in Wires, AsCut(w), NEW slot, NEW start \in Nat,
         <<slot, start>> \in Stream!Cut(w)
  PROVE  LET x == BatchOf(w, slot, start) IN
         Readable(x) /\ Stream!RunBytes(w, <<slot, start>>) = x.bytes
<1> DEFINE x == BatchOf(w, slot, start)
           batch == <<slot, start>>
           open == {s \in w : s.data_complete => s.index < batch[2]}
           m == IF x.closes THEN x.size - 1 ELSE x.size
<1>1. /\ OneCopy(w)
      /\ Encoded(Stream!RunBytes(w, batch)) /\ Len(Stream!RunBytes(open, batch)) <= MAX_BATCH_BYTES
  BY DEF AsCut
<1>2. Laid(x) /\ CutAs(w, slot, x) /\ x.start = start
  BY <1>1, BatchLaid
<1>3. \A s \in w : s.index \in Nat /\ s.data_complete \in BOOLEAN
  BY AssemblerAssumption
<1> HIDE DEF x
<1>4. /\ x.size \in Nat /\ x.closes \in BOOLEAN /\ (x.closes => x.size # 0)
      /\ x.bytes \in Seq(Cells) /\ x.cut \in [0..x.size -> Nat] /\ x.cut[x.size] = Len(x.bytes)
  BY <1>2 DEF Laid, PiecesLie
<1>5. Known(w, slot, start) /\ Known(open, slot, start)
  <2>1. CASE start = 0
    BY <2>1 DEF Known
  <2>2. CASE start # 0
    <3>1. PICK s \in w : s.data_complete /\ <<slot, start>> = <<s.slot, s.index + 1>>
      BY <2>2 DEF Stream!Cut
    <3>2. s.slot = slot /\ s.index = start - 1 /\ s.index < batch[2]
      BY <1>3, <3>1
    <3>3. s \in open
      BY <3>2
    <3>4. QED BY <3>1, <3>2, <3>3 DEF Known
  <2>3. QED BY <2>1, <2>2
<1>6. ASSUME NEW k \in 1..x.size
      PROVE  LET s == CopyOf(w, slot, start + k - 1) IN
             s \in w /\ s.slot = slot /\ s.index = start + k - 1 /\ s.data_complete = Ended(x, k)
  BY <1>2 DEF CutAs
<1>7. Stream!RunBytes(w, batch) = x.bytes
  <2>1. Gapless(w, slot, x, x.size)
    <3>1. \A k \in 1..x.size : \E s \in w : s.slot = slot /\ s.index = x.start + k - 1
      BY <1>2, <1>6
    <3>2. Ended(x, x.size) \/ \A s \in w : s.slot = slot => s.index # x.start + x.size
      BY <1>2 DEF CutAs, Ended
    <3>3. x.size \in 0..x.size
      BY <1>4
    <3>4. QED BY <3>1, <3>2, <3>3 DEF Gapless
  <2>2. Stream!RunBytes(w, batch) = SubSeq(x.bytes, 1, x.cut[x.size])
    BY <1>1, <1>2, <1>3, <1>5, <2>1, RunIs
  <2>3. SubSeq(x.bytes, 1, Len(x.bytes)) = x.bytes
    BY <1>4
  <2>4. QED BY <1>4, <2>2, <2>3
<1>8. m \in Nat /\ m \in 0..x.size
  BY <1>4
<1>9. Stream!RunBytes(open, batch) = SubSeq(x.bytes, 1, x.cut[m])
  <2>1. \A k \in 1..m : \E s \in open : s.slot = slot /\ s.index = x.start + k - 1
    <3> SUFFICES ASSUME NEW k \in 1..m PROVE \E s \in open : s.slot = slot /\ s.index = x.start + k - 1
      OBVIOUS
    <3> DEFINE s == CopyOf(w, slot, start + k - 1)
    <3>1. k \in 1..x.size /\ ~Ended(x, k)
      BY <1>4 DEF Ended
    <3>2. s \in w /\ s.slot = slot /\ s.index = start + k - 1 /\ s.data_complete = Ended(x, k)
      BY <1>6, <3>1
    <3> HIDE DEF s
    <3>3. QED BY <1>2, <3>1, <3>2
  <2>2. ASSUME NEW s \in open, s.slot = slot PROVE s.index # x.start + m
    <3> SUFFICES ASSUME s.index = start + m PROVE FALSE
      BY <1>2
    <3>1. s \in w
      OBVIOUS
    <3>2. CASE x.closes
      <4>1. x.size \in 1..x.size /\ start + x.size - 1 = start + m
        BY <1>4, <3>2
      <4>2. CopyOf(w, slot, start + x.size - 1) = s
        BY <1>1, <2>2, <3>1, <4>1, CopyIs
      <4>3. s.data_complete
        BY <1>6, <3>2, <4>1, <4>2 DEF Ended
      <4>4. QED BY <1>8, <4>3
    <3>3. CASE ~x.closes
      BY <1>2, <2>2, <3>1, <3>3 DEF CutAs
    <3>4. QED BY <3>2, <3>3
  <2>3. Gapless(open, slot, x, m)
    BY <1>8, <2>1, <2>2 DEF Gapless
  <2>4. open \subseteq w
    OBVIOUS
  <2> HIDE DEF open, m
  <2>5. QED BY <1>1, <1>2, <1>3, <1>5, <2>3, <2>4, RunIs
<1>10. ASSUME NEW n \in 0..x.size
       PROVE  /\ x.cut[n] \in Nat
              /\ \A k \in 0..n : x.cut[k] \in Nat /\ x.cut[k] <= x.cut[n]
              /\ x.cut[n] <= Len(x.bytes)
  <2>1. ASSUME NEW k \in 0..n
        PROVE  x.cut[k] \in Nat /\ x.cut[n] \in Nat /\ x.cut[k] <= x.cut[n] /\ x.cut[n] <= Len(x.bytes)
    <3>1. k \in 0..x.size /\ n \in k..x.size
      BY <1>4
    <3>2. Pieced(Cells, x.size, x.shreds, x.bytes, x.cut, k, n)
      BY <1>2, <3>1, LaidPieced
    <3>3. QED BY <3>2, CutsInOrder
  <2>2. 0 \in 0..n
    BY <1>4
  <2>3. QED BY <2>1, <2>2
<1>11. x.cut[m] <= MAX_BATCH_BYTES
  <2> DEFINE l == x.cut[m]
             W == x.bytes
  <2>1. l \in Nat /\ l <= Len(W) /\ W \in Seq(Cells)
    BY <1>4, <1>8, <1>10
  <2> HIDE DEF l, W
  <2>2. Len(SubSeq(W, 1, l)) = l
    BY <2>1
  <2>3. QED BY <1>1, <1>9, <2>2 DEF l, W
<1>12. ASSUME NEW n \in 0..x.size, ~Ended(x, n) PROVE x.cut[n] <= MAX_BATCH_BYTES
  <2>1. n \in 0..m
    BY <1>4, <1>12 DEF Ended
  <2> DEFINE u == x.cut[n]
             v == x.cut[m]
  <2>2. u \in Nat /\ v \in Nat /\ u <= v
    BY <1>8, <1>10, <2>1
  <2>3. MAX_BATCH_BYTES \in Nat /\ v <= MAX_BATCH_BYTES
    BY <1>11, BufferAssumption
  <2> HIDE DEF u, v
  <2>4. u <= MAX_BATCH_BYTES
    BY <2>2, <2>3
  <2>5. QED BY <2>4 DEF u
<1>13. Readable(x)
  BY <1>1, <1>2, <1>7, <1>12 DEF Readable
<1>14. QED BY <1>7, <1>13 DEF x

\* The copies of a slot are filed under the slot and their index.
Mine(held, slot) == \A i \in DOMAIN held : held[i].slot = slot /\ held[i].index = i

\* A buffer holds the batch as it was cut.
LEMMA HoldsIt ==
  ASSUME NEW w, OneCopy(w), NEW slot, NEW x, Laid(x), CutAs(w, slot, x),
         NEW b, NEW held, Faithful(b, held, w), Mine(held, slot)
  PROVE  Holds(b, x)
<1>1. \A i \in Held(b) : /\ held[i] \in w /\ held[i].slot = slot /\ held[i].index = i
                         /\ ShredBytes(b, i) = held[i].data
                         /\ b.shreds[i].complete = held[i].data_complete
  BY DEF Faithful, Mine
<1>2. ASSUME NEW k \in 1..x.size, x.start + k - 1 \in Held(b)
      PROVE  /\ ShredBytes(b, x.start + k - 1) = x.shreds[k]
             /\ b.shreds[x.start + k - 1].complete = Ended(x, k)
  <2> DEFINE i == x.start + k - 1
             c == CopyOf(w, slot, i)
  <2>1. c \in w /\ c.slot = slot /\ c.index = i /\ c.data = x.shreds[k] /\ c.data_complete = Ended(x, k)
    BY DEF CutAs
  <2> HIDE DEF c, i
  <2>2. i \in Held(b)
    BY <1>2 DEF i
  <2>3. held[i] = c
    BY <1>1, <2>1, <2>2 DEF OneCopy
  <2>4. ShredBytes(b, i) = x.shreds[k] /\ b.shreds[i].complete = Ended(x, k)
    BY <1>1, <2>1, <2>2, <2>3
  <2>5. QED BY <2>4 DEF i
<1>3. x.start + x.size \in Held(b) => x.closes
  BY <1>1 DEF CutAs
<1>4. QED BY <1>2, <1>3 DEF Holds

\* All that a buffer of a slot is read for.
Filed(b, held, w, slot) ==
  /\ w \in Wires /\ AsCut(w) /\ \E s \in w : s.slot = slot
  /\ BufferSound(b) /\ Faithful(b, held, w) /\ Mine(held, slot)

\* A batch begun in it is one its reader can make sense of, and what it holds
\* of it is as it was cut.
Recognised(b, held, w, slot, start, x) ==
  /\ start \in Nat /\ x.start = start /\ <<slot, start>> \in Stream!Cut(w)
  /\ Readable(x) /\ Laid(x) /\ Stream!RunBytes(w, <<slot, start>>) = x.bytes
  /\ CutAs(w, slot, x)
  /\ \A n : HasFirst(b, x, n) => Reading(b, x, n)
  /\ HasFirst(b, x, 0)
  /\ start = 0 \/ (start - 1 \in DOMAIN held /\ held[start - 1].data_complete)

LEMMA FiledReads ==
  ASSUME NEW b, NEW held, NEW w, NEW slot, Filed(b, held, w, slot), NEW start \in b.starts
  PROVE  Recognised(b, held, w, slot, start, BatchOf(w, slot, start))
<1> DEFINE x == BatchOf(w, slot, start)
<1>1. /\ w \in Wires /\ AsCut(w) /\ OneCopy(w) /\ BufferSound(b) /\ Faithful(b, held, w) /\ Mine(held, slot)
      /\ StartsRight(b) /\ ShredsShaped(b) /\ Placed(b)
  BY DEF Filed, AsCut, BufferSound, Shaped, Faithful, Accounted
<1>2. start = 0 \/ \E i \in Held(b) : b.shreds[i].complete /\ start = i + 1
  BY <1>1 DEF StartsRight
<1>3. \A i \in Held(b) : /\ held[i] \in w /\ held[i].slot = slot /\ held[i].index = i
                         /\ b.shreds[i].complete = held[i].data_complete /\ i \in DOMAIN held
                         /\ i \in Nat
  BY <1>1 DEF Faithful, Mine, ShredsShaped
<1>4. start \in Nat
  BY <1>2, <1>3
<1>5. start = 0 \/ (start - 1 \in DOMAIN held /\ held[start - 1].data_complete)
  <2> SUFFICES ASSUME start # 0 PROVE start - 1 \in DOMAIN held /\ held[start - 1].data_complete
    OBVIOUS
  <2>1. PICK i \in Held(b) : b.shreds[i].complete /\ start = i + 1
    BY <1>2
  <2>2. start - 1 = i
    BY <1>3, <2>1
  <2>3. QED BY <1>3, <2>1, <2>2
<1>6. <<slot, start>> \in Stream!Cut(w)
  <2>1. CASE start = 0
    BY <2>1 DEF Filed, Stream!Cut
  <2>2. CASE start # 0
    <3>1. PICK i \in Held(b) : b.shreds[i].complete /\ start = i + 1
      BY <1>2, <2>2
    <3>2. held[i] \in w /\ held[i].slot = slot /\ held[i].index = i /\ held[i].data_complete
      BY <1>3, <3>1
    <3>3. QED BY <3>1, <3>2 DEF Stream!Cut
  <2>3. QED BY <2>1, <2>2
<1>7. Laid(x) /\ CutAs(w, slot, x) /\ x.start = start
  BY <1>1, <1>4, BatchLaid
<1>8. Readable(x) /\ Stream!RunBytes(w, <<slot, start>>) = x.bytes
  BY <1>1, <1>4, <1>6, BatchReadable
<1> HIDE DEF x
<1>9. Holds(b, x)
  BY <1>1, <1>7, HoldsIt
<1>10. \A n : HasFirst(b, x, n) => Reading(b, x, n)
  BY <1>1, <1>7, <1>9 DEF Reading
<1>11. HasFirst(b, x, 0)
  BY <1>7 DEF HasFirst, Laid
<1>12. Recognised(b, held, w, slot, start, x)
  BY <1>4, <1>5, <1>6, <1>7, <1>8, <1>10, <1>11 DEF Recognised
<1>13. QED BY <1>12 DEF x

----------------------------------------------------------------------------
(* A slot's buffer, told as far as it was read.                             *)

\* Of every recognised batch, and of no other, something is known: how far it
\* was read, and handed over.
Follows(b, told, w, slot) ==
  /\ DOMAIN b.progress \subseteq b.starts /\ DOMAIN told \subseteq b.starts
  /\ \A start \in b.starts :
       LET x == BatchOf(w, slot, start) IN
       \E n : /\ HasFirst(b, x, n)
              /\ KnownTo(x, n, ProgressOf(b, start), At(told, start, Nothing))

\* Of a batch nothing was read of yet.
LEMMA NothingKnown ==
  ASSUME NEW x, Laid(x)
  PROVE  KnownTo(x, 0, NewProgress, Nothing)
<1>1. /\ x.cut[0] = 0 /\ 0 \in 0..x.size /\ x.bytes \in Seq(Cells) /\ (x.closes => x.size # 0)
  BY DEF Laid, PiecesLie
<1>2. /\ NewProgress.consumed = 0 /\ NewProgress.remaining = NoCount /\ ~NewProgress.closed
      /\ ~NewProgress.padded /\ NewProgress.extent = NoExtent /\ NewProgress.resume = NoResume
  BY DEF NewProgress
<1>3. UpTo(x.bytes, 0) = 0
  <2> DEFINE W == x.bytes
  <2>1. {y \in Stream!Ends(W) : y <= 0} = {}
    <3>1. W \in Seq(Cells) /\ Stream!Ends(W) \subseteq 1..Len(W)
      BY <1>1, EndsAre
    <3>2. QED BY <3>1
  <2> HIDE DEF W
  <2>2. QED BY <2>1, FS_EmptySet DEF UpTo, W
<1>4. Nothing.entries = FirstEntries(x.bytes, UpTo(x.bytes, x.cut[0]))
  <2>1. FirstEntries(x.bytes, 0) = <<>>
    BY DEF FirstEntries
  <2>2. Nothing.entries = <<>>
    BY DEF Nothing
  <2>3. QED BY <1>1, <1>3, <2>1, <2>2
<1>5. ~Ended(x, 0)
  BY <1>1 DEF Ended
<1>6. HasRead(x.bytes, 0, NewProgress)
  BY <1>2, BufferAssumption DEF HasRead
<1> HIDE DEF NewProgress, Nothing
<1>7. QED BY <1>1, <1>2, <1>4, <1>5, <1>6, NewProgressShaped DEF KnownTo

\* Forgetting the walk of a batch forgets nothing that was read.
LEMMA ForgottenKnown ==
  ASSUME NEW x, NEW n, NEW p, NEW told, KnownTo(x, n, p, told)
  PROVE  KnownTo(x, n, Forgotten(p), told)
<1>1. ProgressShaped(p)
  BY DEF KnownTo
<1> DEFINE q == Forgotten(p)
           none == NoExtent
           nowhere == NoResume
<1>2. ProgressShaped(q) /\ q.extent = NoExtent
  BY <1>1, ForgottenShaped DEF Forgotten
<1>3. /\ q.consumed = p.consumed /\ q.remaining = p.remaining /\ q.closed = p.closed
      /\ q.padded = p.padded /\ q.resume = NoResume
  <2>1. p = [consumed |-> p.consumed, remaining |-> p.remaining, opened |-> p.opened,
             closed |-> p.closed, padded |-> p.padded, extent |-> p.extent,
             resume |-> p.resume]
    BY <1>1 DEF ProgressShaped
  <2>2. q = [p EXCEPT !.extent = none, !.resume = nowhere]
    BY DEF Forgotten
  <2> HIDE DEF q, none, nowhere
  <2>3. /\ q.consumed = p.consumed /\ q.remaining = p.remaining /\ q.closed = p.closed
        /\ q.padded = p.padded /\ q.resume = nowhere
    BY <2>1, <2>2
  <2>4. QED BY <2>3 DEF nowhere
<1>4. ~NoExtent.complete
  BY DEF NoExtent
<1> HIDE DEF q
<1>5. KnownTo(x, n, q, told)
  <2>1. HasRead(x.bytes, x.cut[n], p) => HasRead(x.bytes, x.cut[n], q)
    BY <1>3 DEF HasRead
  <2>2. QED BY <1>2, <1>3, <1>4, <2>1 DEF KnownTo
<1>6. QED BY <1>5 DEF q

\* An empty buffer has nothing to know.
LEMMA FollowsNew ==
  ASSUME NEW w \in Wires, OneCopy(w), NEW slot
  PROVE  Follows(NewBuffer, [i \in {} |-> 0], w, slot)
<1> DEFINE b == NewBuffer
           x == BatchOf(w, slot, 0)
           told == [i \in {} |-> 0]
<1>1. b.starts = {0} /\ DOMAIN b.progress = {} /\ DOMAIN told = {}
  BY DEF NewBuffer
<1>2. Laid(x)
  BY BatchLaid
<1>3. ProgressOf(b, 0) = NewProgress /\ At(told, 0, Nothing) = Nothing
  BY <1>1 DEF ProgressOf, At
<1> HIDE DEF b, x, told
<1>4. HasFirst(b, x, 0)
  BY <1>2 DEF HasFirst, Laid
<1>5. KnownTo(x, 0, NewProgress, Nothing)
  BY <1>2, NothingKnown
<1>6. Follows(b, told, w, slot)
  BY <1>1, <1>3, <1>4, <1>5 DEF Follows, x
<1>7. QED BY <1>6 DEF b, told

\* A shred stored takes nothing from what is known.
LEMMA InsertFollows ==
  ASSUME NEW w, NEW s \in w, NEW b, Shaped(b), NEW held, Filed(b, held, w, s.slot),
         NEW told, Follows(b, told, w, s.slot)
  PROVE  LET c == Insert(b, s.index, s.data, s.data_complete) IN
         Shaped(c) /\ Follows(c, told, w, s.slot)
<1> DEFINE i == s.index
           complete == s.data_complete
           c == Insert(b, i, s.data, complete)
           slot == s.slot
<1>1. /\ w \in Wires /\ OneCopy(w) /\ Faithful(b, held, w) /\ Mine(held, slot)
  BY DEF Filed, AsCut
<1>2. i \in 0..MAX_INDEX /\ Len(s.data) \in Nat /\ complete \in BOOLEAN
  BY <1>1, AssemblerAssumption
<1>3. /\ Shaped(c) /\ Held(c) = Held(b) \cup {i}
      /\ c.starts = (b.starts \ Reopened(b, i, complete)) \cup (IF complete THEN {i + 1} ELSE {})
      /\ DOMAIN c.progress = DOMAIN b.progress
      /\ \A t \in DOMAIN b.progress : c.progress[t] \in {b.progress[t], Forgotten(b.progress[t])}
  BY <1>2, InsertShape
<1> HIDE DEF c
<1>4. Reopened(b, i, complete) = {}
  <2>1. i \in Held(b) => b.shreds[i].complete = complete
    <3> SUFFICES ASSUME i \in Held(b) PROVE b.shreds[i].complete = complete
      OBVIOUS
    <3>1. /\ held[i] \in w /\ held[i].slot = slot /\ held[i].index = i
          /\ b.shreds[i].complete = held[i].data_complete
      BY <1>1 DEF Faithful, Mine
    <3>2. held[i] = s
      BY <1>1, <3>1 DEF OneCopy
    <3>3. QED BY <3>1, <3>2
  <2>2. QED BY <2>1 DEF Reopened
<1>5. c.starts = b.starts \cup (IF complete THEN {i + 1} ELSE {})
  BY <1>3, <1>4
<1>6. \A x, n : HasFirst(b, x, n) => HasFirst(c, x, n)
  BY <1>3 DEF HasFirst
<1>7. ASSUME NEW start \in c.starts
      PROVE  LET x == BatchOf(w, slot, start) IN
             \E n : HasFirst(c, x, n) /\ KnownTo(x, n, ProgressOf(c, start), At(told, start, Nothing))
  <2> DEFINE x == BatchOf(w, slot, start)
             known == At(told, start, Nothing)
  <2> HIDE DEF x
  <2>1. CASE start \in b.starts
    <3>1. PICK n : HasFirst(b, x, n) /\ KnownTo(x, n, ProgressOf(b, start), known)
      BY <2>1 DEF Follows, x
    <3>2. ProgressOf(c, start) \in {ProgressOf(b, start), Forgotten(ProgressOf(b, start))}
      BY <1>3 DEF ProgressOf
    <3>3. KnownTo(x, n, ProgressOf(c, start), known)
      BY <3>1, <3>2, ForgottenKnown
    <3>4. QED BY <1>6, <3>1, <3>3 DEF x
  <2>2. CASE start \notin b.starts
    <3>1. start \notin DOMAIN c.progress /\ start \notin DOMAIN told
      BY <1>3, <2>2 DEF Follows
    <3>2. ProgressOf(c, start) = NewProgress /\ known = Nothing
      BY <3>1 DEF ProgressOf, At
    <3>3. start = i + 1 /\ start \in Nat
      BY <1>2, <1>5, <2>2
    <3>4. Laid(x)
      BY <1>1, <3>3, BatchLaid DEF x
    <3>5. HasFirst(c, x, 0)
      BY <3>4 DEF HasFirst, Laid
    <3>6. KnownTo(x, 0, NewProgress, Nothing)
      BY <3>4, NothingKnown
    <3>7. QED BY <3>2, <3>5, <3>6 DEF x
  <2>3. QED BY <2>1, <2>2
<1>8. DOMAIN c.progress \subseteq c.starts /\ DOMAIN told \subseteq c.starts
  BY <1>3, <1>5 DEF Follows
<1>9. Follows(c, told, w, slot)
  BY <1>7, <1>8 DEF Follows
<1>10. QED BY <1>3, <1>9 DEF c

\* A pass over a recognised batch.
LEMMA PassFollows ==
  ASSUME NEW w, NEW slot, NEW b, NEW held, Filed(b, held, w, slot),
         NEW told, Follows(b, told, w, slot), NEW start \in b.starts
  PROVE  LET x == BatchOf(w, slot, start)
             pass == Pass(b, start)
         IN
         /\ ~pass.advance.panic
         /\ \E n : /\ HasFirst(b, x, n)
                   /\ KnownTo(x, n, pass.progress, NowTold(At(told, start, Nothing), pass.advance))
<1> DEFINE x == BatchOf(w, slot, start)
           p == ProgressOf(b, start)
           known == At(told, start, Nothing)
<1>1. /\ Readable(x) /\ x.start = start /\ \A n : HasFirst(b, x, n) => Reading(b, x, n)
  <2>1. Recognised(b, held, w, slot, start, BatchOf(w, slot, start))
    BY FiledReads
  <2> DEFINE y == BatchOf(w, slot, start)
  <2> HIDE DEF y
  <2>2. Readable(y) /\ y.start = start /\ \A n : HasFirst(b, y, n) => Reading(b, y, n)
    BY <2>1 DEF Recognised, y
  <2>3. QED BY <2>2 DEF y
<1>2. BufferSound(b)
  BY DEF Filed
<1> HIDE DEF x, known
<1>3. PICK n : HasFirst(b, x, n) /\ KnownTo(x, n, p, known)
  BY DEF Follows, x, known
<1>4. Pass(b, start) = DecodePrefix(b, x.start, p)
  BY <1>1 DEF Pass
<1>5. ProgressShaped(DecodePrefix(b, x.start, p).progress)
  BY <1>2, <1>4, PassSound
<1> HIDE DEF p
<1>6. /\ ~DecodePrefix(b, x.start, p).advance.panic
      /\ \E m \in n..x.size :
           /\ Reading(b, x, m)
           /\ Ended(x, m) \/ x.start + m \notin Held(b)
           /\ KnownTo(x, m, DecodePrefix(b, x.start, p).progress,
                      NowTold(known, DecodePrefix(b, x.start, p).advance))
  <2>1. Reading(b, x, n)
    BY <1>1, <1>3
  <2>2. QED BY <1>1, <1>3, <1>5, <2>1, PassKnows
<1>7. Reading(b, x, n) => HasFirst(b, x, n)
  BY DEF Reading
<1>8. QED BY <1>4, <1>6 DEF x, known, Reading

\* Reading on keeps what is known in step with what was handed over.
LEMMA ReadFollows ==
  ASSUME NEW w, NEW slot, NEW b, NEW held, Filed(b, held, w, slot),
         NEW told, Follows(b, told, w, slot), NEW i \in Nat
  PROVE  /\ Follows(ReadBatches(b, i), HandingOver(told, b, i), w, slot)
         /\ \A start \in Candidates(b, i) : ~Pass(b, start).advance.panic
<1> DEFINE c == ReadBatches(b, i)
           now == HandingOver(told, b, i)
           read == [t \in DOMAIN b.progress \cup Candidates(b, i) |->
                      IF t \in Candidates(b, i) THEN Pass(b, t).progress ELSE b.progress[t]]
<1>1. /\ Shaped(b) /\ StartsRight(b) /\ ShredsShaped(b)
  BY DEF Filed, BufferSound, Shaped
<1>2. Candidates(b, i) \subseteq b.starts
  BY <1>1, ContainingNearest DEF Candidates
<1>3. c.progress = read /\ c.starts = b.starts /\ c.shreds = b.shreds
  <2>1. PICK arena, capacity, stale, shreds, starts, progress, last :
          b = [arena |-> arena, capacity |-> capacity, stale |-> stale,
               shreds |-> shreds, starts |-> starts, progress |-> progress,
               last_index |-> last]
    BY <1>1, Zenon DEF Shaped
  <2>2. c = [b EXCEPT !.progress = read]
    BY DEF ReadBatches
  <2> HIDE DEF read, c
  <2>3. QED BY <2>1, <2>2
<1>4. DOMAIN read = DOMAIN b.progress \cup Candidates(b, i)
  OBVIOUS
<1>5. ASSUME NEW start \in b.starts
      PROVE  /\ start \in Candidates(b, i) => /\ ProgressOf(c, start) = Pass(b, start).progress
                                              /\ At(now, start, Nothing) =
                                                   NowTold(At(told, start, Nothing), Pass(b, start).advance)
             /\ start \notin Candidates(b, i) => /\ ProgressOf(c, start) = ProgressOf(b, start)
                                                 /\ At(now, start, Nothing) = At(told, start, Nothing)
  <2> DEFINE made == Pass(b, start).advance
             old == At(told, start, Nothing)
  <2>1. start \in Candidates(b, i) => ProgressOf(c, start) = Pass(b, start).progress
    BY <1>3, <1>4 DEF ProgressOf
  <2>2. start \notin Candidates(b, i) => ProgressOf(c, start) = ProgressOf(b, start)
    BY <1>3, <1>4 DEF ProgressOf
  <2>3. DOMAIN now = DOMAIN told \cup Told(b, i)
    BY DEF HandingOver
  <2>4. start \in Told(b, i) <=> start \in Candidates(b, i) /\ WorthReporting(made)
    BY DEF Told
  <2>5. start \in DOMAIN now =>
          now[start] = IF start \notin Told(b, i) THEN old
                       ELSE [entries |-> old.entries \o made.entries, last_shred |-> made.last_shred]
    BY DEF HandingOver
  <2> HIDE DEF now, made
  <2>6. start \notin DOMAIN told => old = Nothing
    BY DEF At
  <2>7. CASE start \in Told(b, i)
    <3>1. At(now, start, Nothing) =
            [entries |-> old.entries \o made.entries, last_shred |-> made.last_shred]
      BY <2>3, <2>5, <2>7 DEF At
    <3>2. NowTold(old, made) = [entries |-> old.entries \o made.entries, last_shred |-> made.last_shred]
      BY <2>4, <2>7 DEF NowTold
    <3>3. start \in Candidates(b, i)
      BY <2>4, <2>7
    <3>4. QED BY <2>1, <3>1, <3>2, <3>3 DEF made
  <2>8. CASE start \notin Told(b, i)
    <3>1. At(now, start, Nothing) = old
      <4>1. CASE start \in DOMAIN told
        <5>1. At(now, start, Nothing) = now[start]
          BY <2>3, <4>1 DEF At
        <5>2. QED BY <2>3, <2>5, <2>8, <4>1, <5>1
      <4>2. CASE start \notin DOMAIN told
        <5>1. At(now, start, Nothing) = Nothing
          BY <2>3, <2>8, <4>2 DEF At
        <5>2. QED BY <2>6, <4>2, <5>1
      <4>3. QED BY <4>1, <4>2
    <3>2. start \in Candidates(b, i) => NowTold(old, made) = old
      BY <2>4, <2>8 DEF NowTold
    <3>3. QED BY <2>1, <2>2, <3>1, <3>2 DEF made
  <2>9. QED BY <2>7, <2>8
<1> HIDE DEF c, now, read
<1>6. ASSUME NEW start \in b.starts
      PROVE  /\ start \in Candidates(b, i) => ~Pass(b, start).advance.panic
             /\ LET x == BatchOf(w, slot, start) IN
                \E n : HasFirst(c, x, n) /\ KnownTo(x, n, ProgressOf(c, start), At(now, start, Nothing))
  <2> DEFINE x == BatchOf(w, slot, start)
  <2>1. \A y, n : HasFirst(b, y, n) <=> HasFirst(c, y, n)
    BY <1>3 DEF HasFirst, Held
  <2>2. CASE start \in Candidates(b, i)
    <3> DEFINE pass == Pass(b, start)
    <3>1. /\ ~pass.advance.panic
          /\ \E n : /\ HasFirst(b, x, n)
                    /\ KnownTo(x, n, pass.progress, NowTold(At(told, start, Nothing), pass.advance))
      BY PassFollows
    <3>2. /\ ProgressOf(c, start) = pass.progress
          /\ At(now, start, Nothing) = NowTold(At(told, start, Nothing), pass.advance)
      BY <1>5, <2>2
    <3> HIDE DEF x, pass
    <3>3. \E n : HasFirst(c, x, n) /\ KnownTo(x, n, ProgressOf(c, start), At(now, start, Nothing))
      BY <2>1, <3>1, <3>2
    <3>4. QED BY <3>1, <3>3 DEF x, pass
  <2>3. CASE start \notin Candidates(b, i)
    <3>1. ProgressOf(c, start) = ProgressOf(b, start) /\ At(now, start, Nothing) = At(told, start, Nothing)
      BY <1>5, <2>3
    <3>2. PICK n : HasFirst(b, x, n) /\ KnownTo(x, n, ProgressOf(b, start), At(told, start, Nothing))
      BY DEF Follows
    <3>3. QED BY <2>1, <2>3, <3>1, <3>2
  <2>4. QED BY <2>2, <2>3
<1>7. DOMAIN c.progress \subseteq c.starts /\ DOMAIN now \subseteq c.starts
  <2>1. DOMAIN now = DOMAIN told \cup Told(b, i) /\ Told(b, i) \subseteq Candidates(b, i)
    BY DEF HandingOver, Told, now
  <2>2. QED BY <1>2, <1>3, <1>4, <2>1 DEF Follows
<1>8. Follows(c, now, w, slot)
  BY <1>3, <1>6, <1>7 DEF Follows
<1>9. QED BY <1>2, <1>6, <1>8 DEF c, now

\* A call of insert keeps it all, and the parser thread alive.
LEMMA TakenFollows ==
  ASSUME NEW w, NEW s \in w, NEW b, Settled(b), NEW held, Filed(b, held, w, s.slot),
         NEW told, Follows(b, told, w, s.slot)
  PROVE  LET stored == Stored(b, s)
             new    == ReadBatches(stored, s.index)
             filed  == Put(held, s.index, s)
         IN
         /\ Filed(new, filed, w, s.slot)
         /\ Follows(new, HandingOver(told, stored, s.index), w, s.slot)
         /\ \A start \in Candidates(stored, s.index) : ~Pass(stored, start).advance.panic
<1> DEFINE closing == IF s.last_in_slot THEN [b EXCEPT !.last_index = s.index] ELSE b
           stored == Stored(b, s)
           new == ReadBatches(stored, s.index)
           filed == Put(held, s.index, s)
           slot == s.slot
<1>1. /\ w \in Wires /\ AsCut(w) /\ Faithful(b, held, w) /\ Mine(held, slot)
  BY DEF Filed
<1>2. s.index \in 0..MAX_INDEX /\ Len(s.data) \in Nat /\ s.data_complete \in BOOLEAN /\ s.index \in Nat
  BY <1>1, AssemblerAssumption
<1>3. stored = Insert(closing, s.index, s.data, s.data_complete)
  BY DEF Stored
<1>4. /\ Settled(closing)
      /\ closing.arena = b.arena /\ closing.capacity = b.capacity /\ closing.stale = b.stale
      /\ closing.shreds = b.shreds /\ closing.starts = b.starts /\ closing.progress = b.progress
  <2>1. Shaped(b)
    BY DEF Settled, BufferSound
  <2>2. Settled(closing)
    BY ClosingSettled
  <2>3. PICK arena, capacity, stale, shreds, starts, progress, last :
          b = [arena |-> arena, capacity |-> capacity, stale |-> stale,
               shreds |-> shreds, starts |-> starts, progress |-> progress,
               last_index |-> last]
    BY <2>1, Zenon DEF Shaped
  <2>4. QED BY <2>2, <2>3
<1> HIDE DEF closing, stored
<1>5. Faithful(closing, held, w)
  BY <1>1, <1>4, SameArena
<1>6. Filed(closing, held, w, slot) /\ Shaped(closing)
  BY <1>4, <1>5 DEF Filed, Settled, BufferSound
<1>7. Follows(closing, told, w, slot)
  <2>1. \A x, n : HasFirst(b, x, n) <=> HasFirst(closing, x, n)
    BY <1>4 DEF HasFirst, Held
  <2>2. \A t : ProgressOf(b, t) = ProgressOf(closing, t)
    BY <1>4 DEF ProgressOf
  <2>3. ASSUME NEW start \in b.starts
        PROVE  LET x == BatchOf(w, slot, start) IN
               \E n : HasFirst(closing, x, n) /\ KnownTo(x, n, ProgressOf(closing, start), At(told, start, Nothing))
    <3> DEFINE x == BatchOf(w, slot, start)
    <3>1. PICK n : HasFirst(b, x, n) /\ KnownTo(x, n, ProgressOf(b, start), At(told, start, Nothing))
      BY DEF Follows
    <3>2. QED BY <2>1, <2>2, <3>1
  <2>4. DOMAIN closing.progress \subseteq closing.starts /\ DOMAIN told \subseteq closing.starts
    BY <1>4 DEF Follows
  <2>5. QED BY <1>4, <2>3, <2>4 DEF Follows
<1>8. Follows(stored, told, w, slot) /\ Shaped(stored)
  BY <1>3, <1>6, <1>7, InsertFollows
<1>9. BufferSound(stored)
  BY <1>2, <1>3, <1>4, InsertSound DEF Settled
<1>10. Faithful(stored, filed, w)
  BY <1>1, <1>3, <1>5, <1>6, InsertFaithful
<1>11. Mine(filed, slot)
  BY <1>1 DEF Mine, Put
<1>12. Filed(stored, filed, w, slot)
  BY <1>1, <1>9, <1>10, <1>11 DEF Filed
<1>13. /\ Follows(new, HandingOver(told, stored, s.index), w, slot)
       /\ \A start \in Candidates(stored, s.index) : ~Pass(stored, start).advance.panic
  BY <1>2, <1>8, <1>12, ReadFollows
<1>14. Filed(new, filed, w, slot)
  <2>1. Settled(new)
    <3>1. stored = Stored(b, s)
      BY DEF stored
    <3>2. /\ s.index \in Held(stored)
          /\ \A t \in stored.starts \ Candidates(stored, s.index) : Reaches(stored, t)
      BY <1>2, <1>3, <1>4, InsertSound DEF Settled
    <3>3. QED BY <1>9, <3>2, ReadBatchesSound DEF Settled
  <2>2. Faithful(new, filed, w)
    BY <1>1, TakenFaithful DEF stored
  <2>3. QED BY <1>1, <1>11, <2>1, <2>2 DEF Filed, Settled
<1>15. QED BY <1>13, <1>14 DEF stored

----------------------------------------------------------------------------
(* What EntryStream promises of one slot, and of all of them.               *)

\* What was handed over of a batch is what there is to hand over: the entries
\* of the shreds held from its start, and its padding once it is all held.
ToldAll(b, x, told) ==
  \E n : /\ HasFirst(b, x, n)
         /\ Ended(x, n) \/ x.start + n \notin Held(b)
         /\ told.entries = FirstEntries(x.bytes, UpTo(x.bytes, x.cut[n]))
         /\ Ended(x, n) /\ Declared(x.bytes) => Claimed(x, told)

\* So it is between two calls, when nothing is left to read.
LEMMA NothingLeft ==
  ASSUME NEW b, NEW x, Laid(x), Reaches(b, x.start),
         NEW n, HasFirst(b, x, n), Reading(b, x, n),
         NEW told, KnownTo(x, n, ProgressOf(b, x.start), told)
  PROVE  ToldAll(b, x, told)
<1> DEFINE s == x.start
           p == ProgressOf(b, s)
           m(k) == UpTo(x.bytes, x.cut[k])
<1>1. /\ s \in Nat /\ x.size \in Nat /\ (x.closes => x.size # 0) /\ x.bytes \in Seq(Cells)
      /\ x.cut \in [0..x.size -> Nat] /\ x.closes \in BOOLEAN
      /\ \A k, l \in 0..x.size : k <= l => x.cut[k] <= x.cut[l]
      /\ x.cut[x.size] = Len(x.bytes)
  <2>1. /\ x.start \in Nat /\ x.size \in Nat /\ (x.closes => x.size # 0) /\ x.bytes \in Seq(Cells)
        /\ x.cut \in [0..x.size -> Nat] /\ x.closes \in BOOLEAN
        /\ PiecesLie(x.bytes, x.shreds, x.size, x.cut)
    BY DEF Laid
  <2>2. ASSUME NEW k \in 0..x.size, NEW l \in 0..x.size, k <= l PROVE x.cut[k] <= x.cut[l]
    <3>1. l \in k..x.size
      BY <2>1, <2>2
    <3>2. Pieced(Cells, x.size, x.shreds, x.bytes, x.cut, k, l)
      BY <3>1, LaidPieced
    <3>3. QED BY <3>2, CutsInOrder
  <2>3. x.cut[x.size] = Len(x.bytes)
    BY <2>1 DEF PiecesLie
  <2>4. QED BY <2>1, <2>2, <2>3
<1>2. n \in 0..x.size /\ \A k \in 1..n : s + k - 1 \in Held(b)
  BY DEF HasFirst
<1>3. /\ told.entries = FirstEntries(x.bytes, m(n))
      /\ ~p.closed \/ p.padded => p.extent = NoExtent \/ p.extent = ExtentTo(x, n)
      /\ ~p.closed => ~Ended(x, n)
      /\ p.closed => m(n) = Count(x.bytes) /\ (Declared(x.bytes) => p.padded \/ Claimed(x, told))
      /\ p.closed /\ p.padded /\ p.extent.complete => Claimed(x, told)
  BY DEF KnownTo
<1>4. CASE s \notin Held(b)
  <2>1. n = 0
    <3>1. n # 0 => 1 \in 1..n /\ s + 1 - 1 = s
      BY <1>1, <1>2
    <3>2. QED BY <1>2, <1>4, <3>1
  <2>2. ~Ended(x, n) /\ s + n = s
    BY <1>1, <2>1 DEF Ended
  <2> HIDE DEF p
  <2>3. QED BY <1>3, <1>4, <2>2 DEF ToldAll
<1>5. CASE s \in Held(b)
  <2>1. RunReaches(b, p)
    BY <1>5 DEF Reaches, ProgressOf
  <2>2. CASE ~p.closed \/ p.padded
    <3>1. p.extent # NoExtent /\ (p.extent.complete \/ p.extent.last + 1 \notin Held(b))
      BY <2>1, <2>2 DEF RunReaches
    <3>2. p.extent = ExtentTo(x, n) /\ n # 0
      BY <1>3, <2>2, <3>1 DEF ExtentTo
    <3>3. p.extent = [last |-> s + n - 1, complete |-> Ended(x, n), len |-> x.cut[n]]
      BY <3>2 DEF ExtentTo
    <3>4. p.extent.last = s + n - 1 /\ p.extent.complete = Ended(x, n)
      <4> DEFINE e == p.extent
                 v == Ended(x, n)
                 r == x.cut[n]
                 l == s + n - 1
      <4>1. e = [last |-> l, complete |-> v, len |-> r]
        BY <3>3
      <4> HIDE DEF e, v, r, l
      <4>2. e.last = l /\ e.complete = v
        BY <4>1
      <4>3. QED BY <4>2 DEF e, v, l
    <3>5. Ended(x, n) \/ s + n \notin Held(b)
      <4>1. s \in Nat /\ n \in Nat
        BY <1>1, <1>2
      <4> HIDE DEF p, s
      <4>2. (s + n - 1) + 1 = s + n
        BY ONLY <4>1
      <4>3. QED BY <3>1, <3>4, <4>2
    <3>6. Ended(x, n) => Claimed(x, told)
      BY <1>3, <2>2, <3>4
    <3> HIDE DEF p
    <3>7. QED BY <1>3, <3>5, <3>6 DEF ToldAll
  <2>3. CASE p.closed /\ ~p.padded
    <3>1. PICK k \in n..x.size : Reading(b, x, k) /\ (Ended(x, k) \/ s + k \notin Held(b))
      BY ExtentIs
    <3>2. HasFirst(b, x, k)
      BY <3>1 DEF Reading
    <3>3. m(k) = m(n)
      <4>1. k \in 0..x.size /\ n <= k /\ x.cut[n] \in Nat /\ x.cut[k] \in Nat
        BY <1>1, <1>2
      <4>2. x.cut[n] <= x.cut[k]
        BY <1>1, <1>2, <4>1
      <4>3. m(n) <= m(k)
        BY <1>1, <4>1, <4>2, UpToGrows
      <4>4. m(k) \in 0..Count(x.bytes) /\ Count(x.bytes) \in Nat
        BY <1>1, <4>1, UpToCounts, EndsAre
      <4> HIDE DEF m, p
      <4>5. QED BY <1>3, <2>3, <4>3, <4>4
    <3>4. Declared(x.bytes) => Claimed(x, told)
      BY <1>3, <2>3
    <3>5. told.entries = FirstEntries(x.bytes, m(k))
      BY <1>3, <3>3
    <3> HIDE DEF p
    <3>6. QED BY <3>1, <3>2, <3>4, <3>5 DEF ToldAll
  <2>4. QED BY <2>2, <2>3
<1>6. QED BY <1>4, <1>5

\* What the promise of EntryStream wants of a batch, when these shreds are held.
Promised(h, slot, start, told) ==
  LET run == Stream!Run(h, <<slot, start>>) IN
  /\ told.entries = Stream!Decodable(h, <<slot, start>>)
  /\ (\E s \in run : s.data_complete) /\ Declared(Stream!RunBytes(h, <<slot, start>>)) =>
       told.last_shred \in {s.index : s \in {t \in run : t.data_complete}}

\* Everything held, as seen from one buffer.
Sees(h, held, w, slot) ==
  h \subseteq w /\ \A s \in w : s.slot = slot => (s \in h <=> s \in {held[i] : i \in DOMAIN held})

LEMMA KeepsPromise ==
  ASSUME NEW b, Settled(b), NEW held, NEW w, NEW slot, Filed(b, held, w, slot),
         NEW told, Follows(b, told, w, slot), NEW h, Sees(h, held, w, slot),
         NEW start \in b.starts
  PROVE  Promised(h, slot, start, At(told, start, Nothing))
<1> DEFINE x == BatchOf(w, slot, start)
           tell == At(told, start, Nothing)
           batch == <<slot, start>>
<1>1. /\ start \in Nat /\ x.start = start /\ Laid(x) /\ CutAs(w, slot, x)
      /\ Stream!RunBytes(w, batch) = x.bytes
      /\ \A n : HasFirst(b, x, n) => Reading(b, x, n)
      /\ start = 0 \/ (start - 1 \in DOMAIN held /\ held[start - 1].data_complete)
  BY FiledReads DEF Recognised
<1>2. PICK n : HasFirst(b, x, n) /\ KnownTo(x, n, ProgressOf(b, start), tell)
  BY DEF Follows
<1>3. Reaches(b, start)
  BY DEF Settled
<1> HIDE DEF x, tell
<1>4. ToldAll(b, x, tell)
  BY <1>1, <1>2, <1>3, NothingLeft
<1>5. PICK k : /\ HasFirst(b, x, k) /\ (Ended(x, k) \/ start + k \notin Held(b))
               /\ tell.entries = FirstEntries(x.bytes, UpTo(x.bytes, x.cut[k]))
               /\ Ended(x, k) /\ Declared(x.bytes) => Claimed(x, tell)
  BY <1>1, <1>4 DEF ToldAll
<1>6. /\ OneCopy(w) /\ w \in Wires /\ Held(b) = DOMAIN held
      /\ \A i \in DOMAIN held : held[i] \in w /\ held[i].slot = slot /\ held[i].index = i
  BY DEF Filed, AsCut, Faithful, Mine
<1>7. \A s \in w : s.index \in Nat /\ s.data_complete \in BOOLEAN
  BY <1>6, AssemblerAssumption
<1>8. /\ h \subseteq w /\ \A i \in DOMAIN held : held[i] \in h
      /\ \A s \in h : s.slot = slot => s.index \in DOMAIN held
  <2>1. h \subseteq w /\ \A i \in DOMAIN held : held[i] \in h
    BY <1>6 DEF Sees
  <2>2. ASSUME NEW s \in h, s.slot = slot PROVE s.index \in DOMAIN held
    <3>1. PICK i \in DOMAIN held : s = held[i]
      BY <2>1, <2>2 DEF Sees
    <3>2. QED BY <1>6, <3>1
  <2>3. QED BY <2>1, <2>2
<1>9. Known(h, slot, x.start)
  BY <1>1, <1>6, <1>8 DEF Known
<1>10. k \in 0..x.size /\ \A j \in 1..k : start + j - 1 \in DOMAIN held
  BY <1>1, <1>5, <1>6 DEF HasFirst
<1>11. Gapless(h, slot, x, k)
  <2>1. \A j \in 1..k : \E s \in h : s.slot = slot /\ s.index = x.start + j - 1
    BY <1>1, <1>6, <1>8, <1>10
  <2>2. Ended(x, k) \/ \A s \in h : s.slot = slot => s.index # x.start + k
    BY <1>1, <1>5, <1>6, <1>8
  <2>3. QED BY <1>10, <2>1, <2>2 DEF Gapless
<1> DEFINE run == Stream!Run(h, batch)
<1>12. /\ run = {CopyOf(w, slot, start + j - 1) : j \in 1..k}
       /\ Stream!RunBytes(h, batch) = SubSeq(x.bytes, 1, x.cut[k])
  BY <1>1, <1>6, <1>7, <1>8, <1>9, <1>11, RunIs
<1>13. /\ x.size \in Nat /\ x.bytes \in Seq(Cells) /\ x.cut \in [0..x.size -> Nat]
       /\ x.cut[x.size] = Len(x.bytes) /\ (x.closes => x.size # 0)
       /\ x.cut[k] \in Nat /\ x.cut[k] <= Len(x.bytes)
  <2>1. /\ x.size \in Nat /\ x.bytes \in Seq(Cells) /\ x.cut \in [0..x.size -> Nat]
        /\ x.cut[x.size] = Len(x.bytes) /\ (x.closes => x.size # 0)
    BY <1>1 DEF Laid, PiecesLie
  <2>2. x.cut[k] <= x.cut[x.size]
    <3>1. x.size \in k..x.size
      BY <1>10, <2>1
    <3>2. Pieced(Cells, x.size, x.shreds, x.bytes, x.cut, k, x.size)
      BY <1>1, <1>10, <3>1, LaidPieced
    <3>3. QED BY <3>2, CutsInOrder
  <2>3. QED BY <1>10, <2>1, <2>2
<1>14. tell.entries = Stream!Decodable(h, batch)
  <2>1. Stream!Whole(SubSeq(x.bytes, 1, x.cut[k])) = FirstEntries(x.bytes, UpTo(x.bytes, x.cut[k]))
    BY <1>13, WholeOfPrefix
  <2>2. QED BY <1>5, <1>12, <2>1 DEF Stream!Decodable
<1>15. ASSUME NEW s \in run, s.data_complete, Declared(Stream!RunBytes(h, batch))
       PROVE  tell.last_shred \in {t.index : t \in {u \in run : u.data_complete}}
  <2>1. PICK j \in 1..k : s = CopyOf(w, slot, start + j - 1)
    BY <1>12
  <2>2. j \in 1..x.size
    BY <1>10, <1>13
  <2>3. s.index = start + j - 1 /\ Ended(x, j)
    BY <1>1, <1>15, <2>1, <2>2 DEF CutAs
  <2>4. j = k /\ k = x.size /\ x.closes /\ Ended(x, k)
    BY <1>10, <1>13, <2>2, <2>3 DEF Ended
  <2>5. SubSeq(x.bytes, 1, Len(x.bytes)) = x.bytes
    BY <1>13
  <2>6. Claimed(x, tell)
    BY <1>5, <1>12, <1>13, <1>15, <2>4, <2>5
  <2>7. tell.last_shred = s.index
    BY <1>1, <2>3, <2>4, <2>6 DEF Claimed
  <2> HIDE DEF run
  <2>8. QED BY <1>15, <2>7
<1>16. Promised(h, slot, start, tell)
  BY <1>14, <1>15 DEF Promised
<1>17. QED BY <1>16 DEF tell

\* A slot's buffer, its copies and what was handed over of it agree.
Flowing(b, held, told, w, slot) == Filed(b, held, w, slot) /\ Follows(b, told, w, slot)

StreamInv ==
  /\ ~panicked
  /\ \A slot \in Keys(slots) :
       Flowing(Buffer(slot), At(copies, slot, [i \in {} |-> 0]),
               At(handed, slot, [i \in {} |-> 0]), wire, slot)

\* It holds at first, of a slot just opened, and after every call.
LEMMA StreamInit == Init => StreamInv
BY DEF Init, StreamInv, New, Keys

LEMMA NewFlows ==
  ASSUME NEW w \in Wires, AsCut(w), NEW s \in w
  PROVE  Flowing(NewBuffer, [i \in {} |-> 0], [i \in {} |-> 0], w, s.slot)
<1>1. /\ BufferSound(NewBuffer) /\ Faithful(NewBuffer, [i \in {} |-> 0], w)
      /\ Mine([i \in {} |-> 0], s.slot)
  BY NewBufferSound, NewIsFaithful DEF Mine
<1>2. Follows(NewBuffer, [i \in {} |-> 0], w, s.slot)
  BY FollowsNew DEF AsCut
<1>3. QED BY <1>1, <1>2 DEF Flowing, Filed

LEMMA StreamStep ==
  ASSUME \A w \in Wires : AsCut(w), AssemblerInv, StreamInv, [Next]_vars
  PROVE  StreamInv'
<1> DEFINE none == [i \in {} |-> 0]
<1>1. CASE UNCHANGED vars
  BY <1>1 DEF StreamInv, Buffer, At, vars
<1>2. CASE Next
  <2>1. PICK s \in wire, dt \in Ticks : OverBudget(s, dt) \/ SlotFull(s, dt) \/ Take(s, dt)
    BY <1>2 DEF Next
  <2>2. /\ dt \in Nat /\ wire \in Wires /\ MapSound(slots) /\ AsCut(wire)
        /\ DOMAIN Surviving(copies, dt) \subseteq Keys(Swept(dt))
        /\ DOMAIN Surviving(handed, dt) \subseteq Keys(Swept(dt))
    BY AssemblerAssumption, SurvivingSound DEF AssemblerInv
  <2> DEFINE swept == Swept(dt)
             kept  == Surviving(copies, dt)
             said  == Surviving(handed, dt)
             old   == BufferOf(swept, s.slot)
  <2>3. wire' = wire
    BY <2>1 DEF OverBudget, SlotFull, Take, Begin
  <2>4. \A k \in Keys(swept) :
          Flowing(swept.entries[k].value, At(kept, k, none), At(said, k, none), wire, k)
    <3>1. SUFFICES ASSUME NEW k \in Keys(swept)
                   PROVE  Flowing(swept.entries[k].value, At(kept, k, none), At(said, k, none), wire, k)
      OBVIOUS
    <3>2. k \in Keys(slots) /\ swept.entries[k].value = Buffer(k)
      BY <2>2, SweptKeeps DEF Buffer
    <3>3. At(kept, k, none) = At(copies, k, none) /\ At(said, k, none) = At(handed, k, none)
      BY SurvivingAt
    <3>4. QED BY <3>2, <3>3 DEF StreamInv
  <2>5. Settled(old) /\ Flowing(old, At(kept, s.slot, none), At(said, s.slot, none), wire, s.slot)
    <3>1. Settled(old)
      BY <2>2, SweptSound, BufferOfSettled
    <3>2. CASE s.slot \in Keys(swept)
      BY <2>4, <3>1, <3>2 DEF BufferOf, ValueOf
    <3>3. CASE s.slot \notin Keys(swept)
      <4>1. old = NewBuffer /\ At(kept, s.slot, none) = none /\ At(said, s.slot, none) = none
        BY <2>2, <3>3 DEF BufferOf, ValueOf, At
      <4>2. QED BY <2>2, <3>1, <4>1, NewFlows
    <3>4. QED BY <3>2, <3>3
  <2> HIDE DEF swept, kept, said, old, none
  <2>6. CASE OverBudget(s, dt)
    <3>1. slots' = swept /\ copies' = kept /\ handed' = said /\ panicked' = panicked
      BY <2>6 DEF OverBudget, swept, kept, said
    <3>2. \A k \in Keys(slots') :
            Flowing(slots'.entries[k].value, At(copies', k, none), At(handed', k, none), wire', k)
      BY <2>3, <2>4, <3>1
    <3>3. QED BY <3>1, <3>2 DEF StreamInv, Buffer, At, none
  <2>7. CASE SlotFull(s, dt)
    <3>1. /\ slots' = Upsert(swept, s.slot, old) /\ copies' = kept /\ handed' = said
          /\ panicked' = panicked
      BY <2>7 DEF SlotFull, swept, kept, said, old
    <3>2. /\ Keys(slots') = Keys(swept) \cup {s.slot}
          /\ slots'.entries[s.slot].value = old
          /\ \A k \in Keys(swept) \ {s.slot} : slots'.entries[k] = swept.entries[k]
      BY <3>1, UpsertPuts
    <3>3. \A k \in Keys(slots') :
            Flowing(slots'.entries[k].value, At(copies', k, none), At(handed', k, none), wire', k)
      BY <2>3, <2>4, <2>5, <3>1, <3>2
    <3>4. QED BY <3>1, <3>3 DEF StreamInv, Buffer, At, none
  <2>8. CASE Take(s, dt)
    <3> DEFINE held   == At(kept, s.slot, none)
               told   == At(said, s.slot, none)
               stored == Stored(old, s)
               new    == ReadBatches(stored, s.index)
               now    == Put(held, s.index, s)
               tells  == HandingOver(told, stored, s.index)
    <3>1. /\ slots' = Upsert(swept, s.slot, new)
          /\ copies' = Put(kept, s.slot, now) /\ handed' = Put(said, s.slot, tells)
          /\ panicked' = \E start \in Candidates(stored, s.index) : Pass(stored, start).advance.panic
      BY <2>8 DEF Take, swept, kept, said, old, none
    <3>2. Flowing(new, now, tells, wire, s.slot) /\ ~panicked'
      <4>1. Filed(old, held, wire, s.slot) /\ Follows(old, told, wire, s.slot)
        BY <2>5 DEF Flowing
      <4>2. /\ Filed(new, now, wire, s.slot) /\ Follows(new, tells, wire, s.slot)
            /\ \A start \in Candidates(stored, s.index) : ~Pass(stored, start).advance.panic
        BY <2>5, <4>1, TakenFollows
      <4> HIDE DEF stored, new, now, tells
      <4>3. QED BY <3>1, <4>2 DEF Flowing
    <3> HIDE DEF new, now, tells, stored
    <3>3. /\ Keys(slots') = Keys(swept) \cup {s.slot}
          /\ slots'.entries[s.slot].value = new
          /\ \A k \in Keys(swept) \ {s.slot} : slots'.entries[k] = swept.entries[k]
      BY <3>1, UpsertPuts
    <3>4. /\ At(copies', s.slot, none) = now /\ At(handed', s.slot, none) = tells
          /\ \A k \in Keys(swept) \ {s.slot} : /\ At(copies', k, none) = At(kept, k, none)
                                               /\ At(handed', k, none) = At(said, k, none)
      BY <3>1 DEF At, Put
    <3>5. ASSUME NEW k \in Keys(slots')
          PROVE  Flowing(slots'.entries[k].value, At(copies', k, none), At(handed', k, none), wire', k)
      <4>1. CASE k = s.slot
        BY <2>3, <3>2, <3>3, <3>4, <4>1
      <4>2. CASE k # s.slot
        BY <2>3, <2>4, <3>3, <3>4, <3>5, <4>2
      <4>3. QED BY <4>1, <4>2
    <3>6. QED BY <3>2, <3>5 DEF StreamInv, Buffer, At, none
  <2>9. QED BY <2>1, <2>6, <2>7, <2>8
<1>3. QED BY <1>1, <1>2

LEMMA StreamInvariant ==
  ASSUME \A w \in Wires : AsCut(w)
  PROVE  Spec => [](AssemblerInv /\ StreamInv)
<1>1. AssemblerInv /\ StreamInv /\ [Next]_vars => (AssemblerInv /\ StreamInv)'
  BY AssemblerStep, StreamStep
<1>2. QED BY <1>1, AssemblerInit, StreamInit, PTL DEF Spec

\* On what leaders cut, whatever is lost, resent or reordered, the decoder never
\* consumes more of a batch than the batch still holds: the parser thread stays
\* up.  (It takes copies that differ to bring it down.)
THEOREM NeverPanics ==
  ASSUME \A w \in Wires : AsCut(w)
  PROVE  Spec => []ReadsInRange
<1>1. StreamInv => ReadsInRange
  BY DEF StreamInv, ReadsInRange
<1>2. QED BY <1>1, StreamInvariant, PTL

\* Every copy held is filed under a slot that is, and its buffer sees it.
LEMMA CopiesSeen ==
  ASSUME AssemblerInv, StreamInv
  PROVE  /\ AllCopies \subseteq wire
         /\ \A s \in AllCopies : s.slot \in Keys(slots)
         /\ \A slot \in Keys(slots) :
              Sees(AllCopies, At(copies, slot, [i \in {} |-> 0]), wire, slot)
<1> DEFINE none == [i \in {} |-> 0]
<1>1. DOMAIN copies \subseteq Keys(slots)
  BY DEF AssemblerInv, HistoriesSound
<1>2. ASSUME NEW k \in DOMAIN copies, NEW i \in DOMAIN copies[k]
      PROVE  copies[k][i] \in wire /\ copies[k][i].slot = k
  <2>1. Filed(Buffer(k), At(copies, k, none), wire, k) /\ At(copies, k, none) = copies[k]
    BY <1>1, <1>2 DEF StreamInv, Flowing, At
  <2> HIDE DEF none
  <2>2. Held(Buffer(k)) = DOMAIN copies[k]
    BY <2>1 DEF Filed, Faithful
  <2>3. QED BY <1>2, <2>1, <2>2 DEF Filed, Faithful, Mine
<1>3. \A s \in AllCopies : \E k \in DOMAIN copies : \E i \in DOMAIN copies[k] : s = copies[k][i]
  BY DEF AllCopies
<1>4. AllCopies \subseteq wire /\ \A s \in AllCopies : s.slot \in Keys(slots)
  BY <1>1, <1>2, <1>3
<1>5. ASSUME NEW slot \in Keys(slots) PROVE Sees(AllCopies, At(copies, slot, none), wire, slot)
  <2> DEFINE held == At(copies, slot, none)
  <2>1. ASSUME NEW s \in AllCopies, s.slot = slot PROVE s \in {held[i] : i \in DOMAIN held}
    <3>1. PICK k \in DOMAIN copies : \E i \in DOMAIN copies[k] : s = copies[k][i]
      BY <1>3
    <3>2. k = slot /\ held = copies[slot]
      BY <1>2, <2>1, <3>1 DEF At
    <3> HIDE DEF held
    <3>3. QED BY <3>1, <3>2
  <2>2. ASSUME NEW s \in {held[i] : i \in DOMAIN held} PROVE s \in AllCopies
    <3>1. CASE slot \in DOMAIN copies
      <4>1. held = copies[slot]
        BY <3>1 DEF At
      <4> HIDE DEF held
      <4>2. PICK i \in DOMAIN copies[slot] : s = copies[slot][i]
        BY <2>2, <4>1
      <4>3. s \in {copies[slot][j] : j \in DOMAIN copies[slot]}
        BY <4>2
      <4>4. QED BY <3>1, <4>3 DEF AllCopies
    <3>2. CASE slot \notin DOMAIN copies
      BY <2>2, <3>2 DEF At
    <3>3. QED BY <3>1, <3>2
  <2> HIDE DEF held
  <2>3. QED BY <1>4, <2>1, <2>2 DEF Sees, held
<1>6. QED BY <1>4, <1>5

\* What is known of a slot held is what the promise wants.
LEMMA SlotKeepsPromise ==
  ASSUME AssemblerInv, StreamInv, NEW slot \in Keys(slots), NEW start \in Buffer(slot).starts
  PROVE  Promised(AllCopies, slot, start,
                  At(At(handed, slot, [i \in {} |-> 0]), start, Nothing))
<1> DEFINE none == [i \in {} |-> 0]
           b == Buffer(slot)
           held == At(copies, slot, none)
           told == At(handed, slot, none)
<1>1. Settled(b) /\ Filed(b, held, wire, slot) /\ Follows(b, told, wire, slot)
  BY DEF AssemblerInv, MapSound, StreamInv, Flowing, Buffer
<1>2. Sees(AllCopies, held, wire, slot)
  BY CopiesSeen
<1>3. start \in b.starts
  OBVIOUS
<1> HIDE DEF b, held, told
<1>4. Promised(AllCopies, slot, start, At(told, start, Nothing))
  BY <1>1, <1>2, <1>3, KeepsPromise
<1>5. QED BY <1>4 DEF told

\* Once a batch is wholly held, what was handed over of it reaches its closing
\* shred, whether its last entry or its padding arrived last.
THEOREM PaddingIsClaimed ==
  ASSUME \A w \in Wires : AsCut(w)
  PROVE  Spec => []PaddingClaimed
<1>1. AssemblerInv /\ StreamInv => PaddingClaimed
  <2> SUFFICES ASSUME AssemblerInv, StreamInv, NEW slot \in DOMAIN handed,
                      NEW start \in Buffer(slot).starts
               PROVE  LET run    == Stream!Run(AllCopies, <<slot, start>>)
                          closes == {s.index : s \in {t \in run : t.data_complete}}
                      IN  closes # {} /\ Declared(Stream!RunBytes(AllCopies, <<slot, start>>)) =>
                            At(handed[slot], start, Nothing).last_shred \in closes
    BY DEF PaddingClaimed
  <2>1. slot \in Keys(slots) /\ At(handed, slot, [i \in {} |-> 0]) = handed[slot]
    BY DEF AssemblerInv, HistoriesSound, At
  <2>2. Promised(AllCopies, slot, start, At(handed[slot], start, Nothing))
    BY <2>1, SlotKeepsPromise
  <2>3. QED BY <2>2 DEF Promised
<1>2. QED BY <1>1, StreamInvariant, PTL

\* Of a batch that is not recognised nothing is promised.
LEMMA NothingToRun ==
  ASSUME NEW h, NEW batch, Stream!Run(h, batch) = {}
  PROVE  Stream!Decodable(h, batch) = <<>>
<1> DEFINE run == Stream!Run(h, batch)
           pieces == [k \in 1..Cardinality(run) |->
                        (CHOOSE s \in run : s.index = batch[2] + k - 1).data]
<1>1. Stream!RunBytes(h, batch) = FlattenSeq(pieces)
  BY RunBytesAre
<1>2. Cardinality(run) = 0 /\ 1..0 = {}
  BY FS_EmptySet
<1>3. pieces = <<>>
  BY <1>2
<1> HIDE DEF pieces
<1>4. FlattenSeq(<<>>) = <<>>
  BY DEF FlattenSeq
<1>5. Stream!Whole(<<>>) = <<>>
  <2> DEFINE W == <<>>
  <2>1. /\ W \in Seq(Cells) /\ Len(W) = 0 /\ SubSeq(W, 1, 0) = W /\ DOMAIN W = {}
        /\ 0 \in Nat /\ 0 <= Len(W)
    OBVIOUS
  <2>2. {x \in Stream!Ends(W) : x <= 0} = {}
    BY <2>1 DEF Stream!Ends
  <2> HIDE DEF W
  <2>3. UpTo(W, 0) = 0
    BY <2>2, FS_EmptySet DEF UpTo
  <2>4. Stream!Whole(SubSeq(W, 1, 0)) = FirstEntries(W, UpTo(W, 0))
    BY <2>1, WholeOfPrefix
  <2>5. FirstEntries(W, 0) = <<>>
    BY DEF FirstEntries
  <2>6. QED BY <2>1, <2>3, <2>4, <2>5 DEF W
<1>6. QED BY <1>1, <1>3, <1>4, <1>5 DEF Stream!Decodable

\* So the entries handed over are the promised ones, slot by slot and in all.
LEMMA EntriesPromised ==
  ASSUME AssemblerInv, StreamInv, NEW slot, NEW start \in Nat
  PROVE  HandedFrom(slot, start) = Stream!Decodable(AllCopies, <<slot, start>>)
<1> DEFINE none == [i \in {} |-> 0]
           b == Buffer(slot)
           batch == <<slot, start>>
           told == At(handed, slot, none)
           held == At(copies, slot, none)
<1>1. CASE slot \in Keys(slots) /\ start \in b.starts
  BY <1>1, SlotKeepsPromise DEF Promised, HandedFrom
<1>2. CASE ~(slot \in Keys(slots) /\ start \in b.starts)
  <2>1. HandedFrom(slot, start) = <<>>
    <3>1. At(told, start, Nothing) = Nothing
      <4>1. CASE slot \in Keys(slots)
        <5>1. Follows(b, told, wire, slot)
          BY <4>1 DEF StreamInv, Flowing
        <5> HIDE DEF b, told
        <5>2. QED BY <1>2, <4>1, <5>1 DEF Follows, At
      <4>2. CASE slot \notin Keys(slots)
        <5>1. told = none
          BY <4>2 DEF AssemblerInv, HistoriesSound, At
        <5>2. QED BY <5>1 DEF At
      <4>3. QED BY <4>1, <4>2
    <3>2. Nothing.entries = <<>>
      BY DEF Nothing
    <3>3. QED BY <3>1, <3>2 DEF HandedFrom
  <2>2. Stream!Run(AllCopies, batch) = {}
    <3>1. SUFFICES ASSUME NEW s \in Stream!Run(AllCopies, batch) PROVE FALSE
      OBVIOUS
    <3>2. /\ s \in AllCopies /\ s.slot = slot
          /\ start = 0 \/ \E t \in AllCopies :
               t.slot = slot /\ t.index = start - 1 /\ t.data_complete
      BY DEF Stream!Run, Stream!InSlot
    <3>3. slot \in Keys(slots)
      BY <3>2, CopiesSeen
    <3>4. /\ Filed(b, held, wire, slot) /\ Sees(AllCopies, held, wire, slot)
          /\ AllCopies \subseteq wire
      BY <3>3, CopiesSeen DEF StreamInv, Flowing
    <3> HIDE DEF b, held
    <3>5. /\ b.starts = {0} \cup {i + 1 : i \in {j \in Held(b) : b.shreds[j].complete}}
          /\ Held(b) = DOMAIN held /\ \A i \in Held(b) : i \in Nat
          /\ \A i \in Held(b) : b.shreds[i].complete = held[i].data_complete /\ held[i].index = i
      BY <3>4 DEF Filed, BufferSound, StartsRight, Shaped, ShredsShaped, Faithful, Mine
    <3>6. start \notin b.starts
      BY <1>2, <3>3
    <3>7. PICK t \in AllCopies : t.slot = slot /\ t.index = start - 1 /\ t.data_complete
      BY <3>2, <3>5, <3>6
    <3>8. PICK i \in DOMAIN held : t = held[i]
      BY <3>4, <3>7 DEF Sees
    <3>9. i \in Held(b) /\ i = start - 1 /\ b.shreds[i].complete
      BY <3>5, <3>7, <3>8
    <3>10. i + 1 \in b.starts
      BY <3>5, <3>9
    <3>11. start = i + 1
      BY <3>5, <3>9
    <3>12. QED BY <3>6, <3>10, <3>11
  <2>3. QED BY <2>1, <2>2, NothingToRun
<1>3. QED BY <1>1, <1>2

LEMMA OutIs == AssemblerInv /\ StreamInv => Out = Stream!Handed(AllCopies)
<1> SUFFICES ASSUME AssemblerInv, StreamInv PROVE Out = Stream!Handed(AllCopies)
  OBVIOUS
<1>1. \A slot : \A start \in Nat :
        HandedFrom(slot, start) = Stream!Decodable(AllCopies, <<slot, start>>)
  BY EntriesPromised
<1>2. \A batch \in Stream!Cut(wire) : batch = <<batch[1], batch[2]>> /\ batch[2] \in Nat
  <2>1. \A s \in wire : s.index \in Nat
    BY AssemblerAssumption DEF AssemblerInv
  <2>2. QED BY <2>1 DEF Stream!Cut
<1>3. Out = [batch \in Stream!Cut(wire) |-> HandedFrom(batch[1], batch[2])]
  BY DEF Out, Stream!Cut
<1>4. Stream!Handed(AllCopies) = [batch \in Stream!Cut(wire) |-> Stream!Decodable(AllCopies, batch)]
  BY DEF Stream!Handed
<1>5. QED BY <1>1, <1>2, <1>3, <1>4

\* The promise's first state, and its steps: a sweep forgets, a shred taken is
\* delivered.
LEMMA StreamBegins == Init => Stream!Init
<1> SUFFICES ASSUME Init PROVE Stream!Init
  OBVIOUS
<1>1. AllCopies = {}
  BY DEF Init, AllCopies
<1>2. \A slot, start : HandedFrom(slot, start) = <<>>
  BY DEF Init, HandedFrom, At, Nothing
<1>3. \A batch : Stream!Decodable({}, batch) = <<>>
  <2>1. \A batch : Stream!Run({}, batch) = {}
    BY DEF Stream!Run, Stream!InSlot
  <2>2. QED BY <2>1, NothingToRun
<1>4. Out = Stream!Handed({})
  BY <1>2, <1>3 DEF Out, Stream!Handed, Stream!Cut
<1>5. QED BY <1>1, <1>4 DEF Init, Stream!Init

\* All the copies of a history.
Gathered(c) == UNION {{c[k][i] : i \in DOMAIN c[k]} : k \in DOMAIN c}

\* The copies a sweep leaves.
Kept(dt) == {s \in AllCopies : s.slot \in Keys(Swept(dt))}

LEMMA CopiesKept ==
  ASSUME AssemblerInv, StreamInv, NEW dt
  PROVE  Kept(dt) = Gathered(Surviving(copies, dt))
<1> DEFINE kept == Surviving(copies, dt)
           left == Gathered(kept)
<1>1. /\ DOMAIN kept = DOMAIN copies \cap Keys(Swept(dt))
      /\ \A k \in DOMAIN kept : kept[k] = copies[k]
  BY DEF Surviving, Restrict
<1>2. \A k \in DOMAIN copies : \A i \in DOMAIN copies[k] : copies[k][i].slot = k
  <2> SUFFICES ASSUME NEW k \in DOMAIN copies, NEW i \in DOMAIN copies[k] PROVE copies[k][i].slot = k
    OBVIOUS
  <2>1. Mine(copies[k], k)
    BY DEF AssemblerInv, HistoriesSound, StreamInv, Flowing, Filed, At
  <2>2. QED BY <2>1 DEF Mine
<1> HIDE DEF kept
<1>3. \A s : s \in AllCopies <=> \E k \in DOMAIN copies : \E i \in DOMAIN copies[k] : s = copies[k][i]
  BY DEF AllCopies
<1>4. \A s : s \in left <=> \E k \in DOMAIN kept : \E i \in DOMAIN kept[k] : s = kept[k][i]
  BY DEF Gathered
<1> HIDE DEF left
<1>5. ASSUME NEW s \in Kept(dt) PROVE s \in left
  <2>1. s \in AllCopies /\ s.slot \in Keys(Swept(dt))
    BY DEF Kept
  <2>2. PICK k \in DOMAIN copies : \E i \in DOMAIN copies[k] : s = copies[k][i]
    BY <1>3, <2>1
  <2>3. k \in DOMAIN kept /\ kept[k] = copies[k]
    BY <1>1, <1>2, <2>1, <2>2
  <2>4. QED BY <1>4, <2>2, <2>3
<1>6. ASSUME NEW s \in left PROVE s \in Kept(dt)
  <2>1. PICK k \in DOMAIN kept : \E i \in DOMAIN kept[k] : s = kept[k][i]
    BY <1>4
  <2>2. k \in DOMAIN copies /\ k \in Keys(Swept(dt)) /\ kept[k] = copies[k]
    BY <1>1
  <2>3. s.slot = k /\ s \in AllCopies
    BY <1>2, <1>3, <2>1, <2>2
  <2>4. QED BY <2>2, <2>3 DEF Kept
<1>7. Kept(dt) = left
  BY <1>5, <1>6
<1>8. QED BY <1>7 DEF left, kept

\* A shred taken joins what is kept; a copy it displaces was the same.
LEMMA CopiesTaken ==
  ASSUME NEW w, OneCopy(w), NEW s \in w, NEW kept, NEW none, none = [i \in {} |-> 0],
         \A k \in DOMAIN kept : Mine(kept[k], k) /\ \A i \in DOMAIN kept[k] : kept[k][i] \in w,
         NEW now, now = Put(kept, s.slot, Put(At(kept, s.slot, none), s.index, s))
  PROVE  Gathered(now) = Gathered(kept) \cup {s}
<1> DEFINE was  == At(kept, s.slot, none)
           mine == Put(was, s.index, s)
           after  == Gathered(now)
           before == Gathered(kept)
<1>1. /\ DOMAIN now = DOMAIN kept \cup {s.slot} /\ now[s.slot] = mine
      /\ \A k \in DOMAIN kept \ {s.slot} : now[k] = kept[k]
  BY DEF Put
<1>2. /\ DOMAIN mine = DOMAIN was \cup {s.index} /\ mine[s.index] = s
      /\ \A i \in DOMAIN was \ {s.index} : mine[i] = was[i]
  BY DEF Put
<1>3. /\ s.slot \in DOMAIN kept => was = kept[s.slot]
      /\ s.slot \notin DOMAIN kept => DOMAIN was = {}
  BY DEF At
<1> HIDE DEF was, mine
<1>4. \A t : t \in after <=> \E k \in DOMAIN now : \E i \in DOMAIN now[k] : t = now[k][i]
  BY DEF Gathered
<1>5. \A t : t \in before <=> \E k \in DOMAIN kept : \E i \in DOMAIN kept[k] : t = kept[k][i]
  BY DEF Gathered
<1> HIDE DEF after, before
<1>6. ASSUME NEW t \in after PROVE t \in before \cup {s}
  <2>1. PICK k \in DOMAIN now : \E i \in DOMAIN now[k] : t = now[k][i]
    BY <1>4
  <2>2. PICK i \in DOMAIN now[k] : t = now[k][i]
    BY <2>1
  <2>3. CASE k # s.slot
    BY <1>1, <1>5, <2>1, <2>2, <2>3
  <2>4. CASE k = s.slot
    <3>1. t = s \/ (i \in DOMAIN was /\ t = was[i])
      BY <1>1, <1>2, <2>2, <2>4
    <3>2. QED BY <1>3, <1>5, <3>1
  <2>5. QED BY <2>3, <2>4
<1>7. s \in after
  BY <1>1, <1>2, <1>4
<1>8. ASSUME NEW t \in before PROVE t \in after
  <2>1. PICK k \in DOMAIN kept : \E i \in DOMAIN kept[k] : t = kept[k][i]
    BY <1>5
  <2>2. PICK i \in DOMAIN kept[k] : t = kept[k][i]
    BY <2>1
  <2>3. CASE k # s.slot
    BY <1>1, <1>4, <2>1, <2>2, <2>3
  <2>4. CASE k = s.slot
    <3>1. t \in w /\ t.slot = s.slot /\ t.index = i
      BY <2>2, <2>4 DEF Mine
    <3>2. CASE i = s.index
      BY <1>7, <3>1, <3>2 DEF OneCopy
    <3>3. CASE i # s.index
      BY <1>1, <1>2, <1>3, <1>4, <2>2, <2>4, <3>3
    <3>4. QED BY <3>2, <3>3
  <2>5. QED BY <2>3, <2>4
<1>9. after = before \cup {s}
  BY <1>6, <1>7, <1>8
<1>10. QED BY <1>9 DEF after, before

\* Every call is one the promise allows, or one it does not see.
LEMMA StreamSteps ==
  ASSUME \A w \in Wires : AsCut(w), AssemblerInv, StreamInv, [Next]_vars,
         Out' = Stream!Handed(AllCopies)'
  PROVE  [Stream!Next]_<<wire, AllCopies, Out>>
<1> DEFINE none == [i \in {} |-> 0]
<1>1. CASE UNCHANGED vars
  BY <1>1 DEF vars, AllCopies, Out, HandedFrom, At
<1>2. CASE Next
  <2>1. PICK s \in wire, dt \in Ticks : OverBudget(s, dt) \/ SlotFull(s, dt) \/ Take(s, dt)
    BY <1>2 DEF Next
  <2> DEFINE kept == Surviving(copies, dt)
             gone == {t.slot : t \in wire} \ Keys(Swept(dt))
  <2>2. wire' = wire /\ gone \in SUBSET {t.slot : t \in wire} /\ wire \in Wires /\ OneCopy(wire)
    BY <2>1 DEF OverBudget, SlotFull, Take, Begin, AssemblerInv, AsCut
  <2>3. Out' = Stream!Handed(AllCopies')
    BY <2>2 DEF Stream!Handed
  <2>4. Kept(dt) = {t \in AllCopies : t.slot \notin gone}
    BY CopiesSeen DEF Kept
  <2>5. Kept(dt) = Gathered(kept)
    BY CopiesKept
  <2>6. CASE OverBudget(s, dt) \/ SlotFull(s, dt)
    <3>1. copies' = kept
      BY <2>6 DEF OverBudget, SlotFull
    <3>2. AllCopies' = Kept(dt)
      BY <2>5, <3>1 DEF AllCopies, Gathered
    <3>3. Stream!Forget(gone)
      BY <2>2, <2>3, <2>4, <3>2 DEF Stream!Forget
    <3>4. QED BY <2>2, <3>3 DEF Stream!Next
  <2>7. CASE Take(s, dt)
    <3>1. copies' = Put(kept, s.slot, Put(At(kept, s.slot, none), s.index, s))
      BY <2>7 DEF Take
    <3>2. \A k \in DOMAIN kept : Mine(kept[k], k) /\ \A i \in DOMAIN kept[k] : kept[k][i] \in wire
      <4> SUFFICES ASSUME NEW k \in DOMAIN kept
                   PROVE  Mine(kept[k], k) /\ \A i \in DOMAIN kept[k] : kept[k][i] \in wire
        OBVIOUS
      <4>1. k \in DOMAIN copies /\ kept[k] = copies[k]
        BY DEF Surviving, Restrict
      <4>2. k \in Keys(slots) /\ At(copies, k, none) = copies[k]
        BY <4>1 DEF AssemblerInv, HistoriesSound, At
      <4>3. Filed(Buffer(k), copies[k], wire, k)
        BY <4>2 DEF StreamInv, Flowing
      <4>4. QED BY <4>1, <4>3 DEF Filed, Mine, Faithful
    <3>3. Gathered(copies') = Kept(dt) \cup {s}
      <4>1. none = [i \in {} |-> 0]
        OBVIOUS
      <4> HIDE DEF kept, none
      <4>2. QED BY <2>2, <2>5, <3>1, <3>2, <4>1, CopiesTaken
    <3>4. AllCopies' = Kept(dt) \cup {s}
      BY <3>3 DEF AllCopies, Gathered
    <3>5. Stream!Deliver(s, gone)
      BY <2>2, <2>3, <2>4, <3>4 DEF Stream!Deliver
    <3>6. QED BY <2>2, <3>5 DEF Stream!Next
  <2>8. QED BY <2>1, <2>6, <2>7
<1>3. QED BY <1>1, <1>2

\* The assembler implements EntryStream: on what leaders cut, the entries handed
\* over of every batch are at every moment exactly those that are wholly in the
\* shreds held from its start, whatever the order, the copies and the sweeps.
THEOREM HandsOver ==
  ASSUME \A w \in Wires : AsCut(w)
  PROVE  Spec => HandsOverAsItArrives
<1>1. (AssemblerInv /\ StreamInv => Out = Stream!Handed(AllCopies))'
  BY OutIs, PTL
<1>2. AssemblerInv /\ StreamInv /\ (AssemblerInv /\ StreamInv)' /\ [Next]_vars =>
        [Stream!Next]_<<wire, AllCopies, Out>>
  BY <1>1, StreamSteps
<1>3. QED BY <1>2, StreamInvariant, StreamBegins, PTL
       DEF Spec, HandsOverAsItArrives, Stream!Spec
=============================================================================
