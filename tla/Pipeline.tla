------------------------------- MODULE Pipeline -------------------------------
(***************************************************************************)
(* The packet path (pipeline.rs): a datagram is parsed and checked against *)
(* its slot's leader; a shred joins its erasure batch; the data shred it   *)
(* is, and those the batch could then rebuild, go to the assembler in that *)
(* order, each moving the slot anchor; and what the assembler reads is     *)
(* matched against the wallets.                                            *)
(*                                                                         *)
(* Erasure and Shred are the modules themselves.  The verifier is what     *)
(* Verify promises of it, and the assembler what EntryStream does: it      *)
(* reads each shred of a batch once, when those before it are there.  Each *)
(* erasure batch is an entry batch here, and each of its data shreds ends  *)
(* a transaction, paid by the payer of its codeword.  Metrics, and the     *)
(* counts the slot state keeps for them, are left out.                     *)
(***************************************************************************)
EXTENDS Erasure, Anchor, Shred

CONSTANTS
  Envelopes,   \* codeword |-> how it is sent: [resigned, proof, version, clipped, leader],
               \* the bytes lost at its end and whether the slot's leader signed it
  SHRED_VERSION,
  Windows,     \* What the leader schedule may hold: sets of slots
  RETENTION, MAX_SLOTS,
  Watched,     \* Codewords whose payers are watched,
  Ours,        \* and those whose are ours
  CAP          \* Bound: a clock is not told apart past it

ASSUME PipelineAssumption ==
  /\ DOMAIN Envelopes = DOMAIN Words
  /\ \A w \in DOMAIN Words : LET e == Envelopes[w] IN
       e.resigned \in BOOLEAN /\ e.proof \in 0..15 /\ e.clipped \in Nat /\ e.leader \in BOOLEAN
  /\ \A w \in DOMAIN Words : Words[w].key \in Nat \X Nat
  /\ {RETENTION, MAX_SLOTS} \subseteq Nat \ {0} /\ CAP \in Nat
  /\ Watched \cup Ours \subseteq DOMAIN Words

VARIABLES
  number, started,  \* SlotState: the slot anchored on, and how long ago that was
  known,            \* the slots the leader schedule has
  buffers,          \* the assembler: an aged map of slots
  clocks,           \* history: slot |-> time since a data shred of it first came, of the slots
                    \* there were since the anchor last came back to one it was far beyond
  unproven,         \* history: batches held that took a shred nobody vouched for
  broken            \* history: batches held whose slot was dropped meanwhile

anchor  == <<number, started>>
history == <<clocks, unproven, broken>>
allVars == <<vars, anchor, known, buffers, history>>

Slot(key)  == key[1]
SlotOf(s)  == Slot(Key(s))

----------------------------------------------------------------------------
(* What producers send.                                                     *)

Total(w) == Words[w].num_data + Words[w].num_coding

Parents(nodes) ==
  [i \in 1..((Len(nodes) + 1) \div 2) |->
     <<"node", nodes[2 * i - 1], nodes[Min({2 * i, Len(nodes)})]>>]

\* The heights of a codeword's Merkle tree, its leaves the shreds in order.
Tree(w) ==
  LET height[h \in 0..Envelopes[w].proof] ==
        IF h = 0 THEN [i \in 1..Total(w) |-> <<"leaf", [word |-> w, at |-> i - 1]>>]
        ELSE Parents(height[h - 1])
  IN  height

SignedRoot(w) == Tree(w)[Envelopes[w].proof][1]

Sibling(nodes, i) ==
  nodes[Min({IF i % 2 = 0 THEN i + 2 ELSE i, Len(nodes)})]

ProofOf(w, at) ==
  [h \in 1..Envelopes[w].proof |-> Sibling(Tree(w)[h - 1], at \div 2^(h - 1))]

\* The datagram of a shred.
Datagram(s) ==
  LET e == Envelopes[s.word]
      d == Words[s.word].num_data
      v == [type |-> IF IsData(s) THEN "data" ELSE "coding", resigned |-> e.resigned, proof |-> e.proof]
  IN  [length        |-> ProofOffset(v) + Trailer(v) - e.clipped,
       variant       |-> v,
       version       |-> e.version,
       index         |-> Key(s)[2] + s.at,
       fec_set_index |-> Key(s)[2],
       size          |-> SIGNATURE + ShardLen(v),
       num_data      |-> d,
       position      |-> s.at - d,
       bytes         |-> s,
       proof         |-> ProofOf(s.word, s.at)]

Shreds == UNION {{[word |-> w, at |-> i] : i \in 0..(Total(w) - 1)} : w \in DOMAIN Words}

Datagrams == [s \in Shreds |-> Datagram(s)]

Parses == [s \in Shreds |-> Parsed(Datagrams[s], SHRED_VERSION)]

\* A signature over the root the packet hashes to, which the leader made.
Proven ==
  [s \in Shreds |-> Envelopes[s.word].leader /\ Root(Datagrams[s]) = SignedRoot(s.word)]

Rooted == [s \in Shreds |-> Signed(Datagrams[s], SHRED_VERSION)]

----------------------------------------------------------------------------
(* forged.                                                                  *)

\* A slot out of reach is refused without a leader, and no leader's shred is of
\* one.
Verdicts(s) ==
  IF SlotOf(s) \notin known
  THEN {"unknown"} \cup (IF Envelopes[s.word].leader THEN {} ELSE {"forged"})
  ELSE IF ~Rooted[s] THEN {"unknown"}
  ELSE IF Proven[s] THEN {"signed"} ELSE {"forged"}

----------------------------------------------------------------------------
(* The assembler.                                                           *)

NewBuffer == [held |-> [p \in {} |-> 0], read |-> {}, calls |-> [s \in {} |-> 0], doubtful |-> FALSE]

\* The data shreds there is no gap before.
Run(places, first) ==
  {p \in places : p[1] = first /\ \A i \in 0..p[2] : <<first, i>> \in places}

\* react: a watched payer's transaction is a trigger, one of ours a landing.
React(calls, shreds) ==
  [c \in DOMAIN calls \cup {<<"trigger", s>> : s \in {s \in shreds : s.word \in Watched}}
                      \cup {<<"landed", s>> : s \in {s \in shreds : s.word \in Ours}} |->
     (IF c \in DOMAIN calls THEN calls[c] ELSE 0) + (IF c[2] \in shreds THEN 1 ELSE 0)]

\* The later copy of a place is the one held; what was read is not read again.
Assembled(buffer, place, s, doubtful) ==
  LET held == [p \in DOMAIN buffer.held \cup {place} |-> IF p = place THEN s ELSE buffer.held[p]]
      more == Run(DOMAIN held, place[1]) \ buffer.read
  IN  [held |-> held, read |-> buffer.read \cup more,
       calls |-> React(buffer.calls, {held[p] : p \in more}),
       doubtful |-> buffer.doubtful \/ doubtful]

----------------------------------------------------------------------------
(* data_shred.                                                              *)

\* A data shred as it is read: [slot, place, shred, doubtful].
ReadAs(s, key, at, doubtful) ==
  [slot |-> Slot(key), place |-> <<key[2], at>>, shred |-> s, doubtful |-> doubtful]

\* In the order of their places.
InOrder(bodies) ==
  {o \in [1..Cardinality(bodies) -> bodies] :
     \A m, n \in DOMAIN o : m < n => o[m].at < o[n].at}

\* What the bodies a batch was rebuilt to are read as, in their order.  What is
\* nobody's has what the headers of its shreds agree on, so its slot, or does
\* not parse; that its index may be off where they were cut differently is left
\* out, no property being of such batches.
Readings(bodies, key, doubtful) ==
  LET sound  == {s \in bodies : /\ s.word # "none"
                                /\ LET d == Datagrams[s] IN
                                   DataSound(d, ShardLen(d.variant), SHRED_VERSION)}
      nobody == {s \in bodies : s.word = "none"}
  IN  UNION {{[n \in DOMAIN o |-> ReadAs(o[n], key, o[n].at, doubtful)] :
                o \in InOrder(sound \cup parsed)} : parsed \in SUBSET nobody}

NoOffset == -1

\* slot_offset: only the slot anchored on has a start to measure from.
SlotOffset(slot) == IF slot = number THEN started ELSE NoOffset

\* The slot clock starts anew when the anchor moves.
DataShred(st, d) ==
  LET moved == Moves(d.slot, st.number)
      swept == Sweep(st.buffers, RETENTION, MAX_SLOTS)
  IN  [number  |-> Anchored(d.slot, st.number),
       started |-> IF moved THEN 0 ELSE st.started,
       buffers |-> Upsert(swept, d.slot,
                     Assembled(ValueOf(swept, d.slot, NewBuffer), d.place, d.shred, d.doubtful)),
       clocks  |-> IF d.slot + MAX_SLOT_ADVANCE < st.number THEN [slot \in {d.slot} |-> 0]
                   ELSE [slot \in DOMAIN st.clocks \cup {d.slot} |->
                           IF slot \in DOMAIN st.clocks THEN st.clocks[slot] ELSE 0],
       dropped |-> st.dropped \cup (Keys(st.buffers) \ Keys(swept))]

\* The data shreds a packet came to, one after the other.
DataShreds(ds) ==
  LET st == FoldLeft(DataShred,
                     [number |-> number, started |-> started,
                      buffers |-> buffers, clocks |-> clocks, dropped |-> {}], ds)
  IN  /\ number' = st.number /\ started' = st.started
      /\ buffers' = st.buffers /\ clocks' = st.clocks
      /\ broken' = {k \in Keys(sets') : k \in broken \/ (k \in Keys(sets) /\ Slot(k) \in st.dropped)}

----------------------------------------------------------------------------
(* packet.                                                                  *)

PipelineInit ==
  /\ Init
  /\ number = 0 /\ started = 0
  /\ known = {} /\ buffers = New
  /\ clocks = [slot \in {} |-> 0] /\ unproven = {} /\ broken = {}

\* Not a shred of ours, or not its leader's.
Discard(s) ==
  /\ ~Parses[s] \/ "forged" \in Verdicts(s)
  /\ out' = {} /\ short' = {}
  /\ UNCHANGED <<sets, wire, taken, rebuilt, number, started, known, buffers, history>>

Received(s, doubtful) ==
  IF IsData(s) THEN <<ReadAs(s, Key(s), s.at, doubtful)>> ELSE <<>>

\* What came is handed on, then what it made it possible to rebuild.
Handed_Rebuilt(received, recovered) == IF recovered = <<>> THEN received ELSE recovered

Handed(received, recovered) == received \o recovered

Packet(s) ==
  /\ Parses[s]
  /\ \E verdict \in Verdicts(s) \ {"forged"} :
       /\ InsertData(s, 0) \/ InsertCoding(s, 0) \/ Refuse(s)
       /\ unproven' = {k \in Keys(sets') : k \in unproven \/ (verdict = "unknown" /\ k = Key(s))}
       /\ \E recovered \in Readings(out', Key(s), Key(s) \in unproven') :
            DataShreds(Handed(Received(s, verdict = "unknown"), recovered))
  /\ UNCHANGED known

----------------------------------------------------------------------------
(* Around it.                                                               *)

\* The refresher swaps the schedule's window.
Schedule(slots) ==
  /\ known' = slots
  /\ out' = {} /\ short' = {}
  /\ UNCHANGED <<sets, wire, taken, rebuilt, number, started, buffers, history>>

Wait(dt) ==
  /\ sets' = Now(dt) /\ buffers' = Elapsed(buffers, dt, RETENTION)
  /\ started' = Min({started + dt, CAP})
  /\ clocks' = [slot \in DOMAIN clocks |-> Min({clocks[slot] + dt, CAP})]
  /\ out' = {} /\ short' = {}
  /\ UNCHANGED <<wire, taken, rebuilt, number, known, unproven, broken>>

PipelineNext ==
  \/ \E w \in wire : \E i \in 0..(Total(w) - 1) :
       Discard([word |-> w, at |-> i]) \/ Packet([word |-> w, at |-> i])
  \/ \E slots \in Windows : Schedule(slots)
  \/ \E dt \in Ticks : Wait(dt)

PipelineSpec == PipelineInit /\ [][PipelineNext]_allVars

----------------------------------------------------------------------------
\* Whatever the shreds of a slot say, and in whatever order they come, the time
\* into the slot a transaction of it is said to be at is the time since the
\* slot's first data shred: the anchor is not led astray by a straggler of a
\* slot before, nor the clock by what is rebuilt.  Only where the anchor has
\* come back from a slot out of reach do all slots start anew.
OffsetsHonest == \A slot \in DOMAIN clocks : SlotOffset(slot) \in {NoOffset, clocks[slot]}

Called(buffer, call, s) == <<call, s>> \in DOMAIN buffer.calls /\ buffer.calls[<<call, s>>] = 1

\* Every transaction of a batch that is resolved has reached the wallets' match
\* exactly once -- those that came, before and after a coding shred said how
\* many there are, and those rebuilt, in whatever order -- if its leader
\* produced it once.  A recovered shred is meant always to land in a slot the
\* assembler still holds, but a slot is not kept by its coding shreds: one
\* dropped while the batch was held has lost what it was given.
NothingMissed ==
  \A k \in Keys(sets) \ broken :
    Once(k) /\ sets.entries[k].value.resolved =>
      /\ Slot(k) \in Keys(buffers)
      /\ \A s \in AllData(k) :
           LET buffer == buffers.entries[Slot(k)].value IN
           /\ Only(k) \in Watched => Called(buffer, "trigger", s)
           /\ Only(k) \in Ours    => Called(buffer, "landed", s)

Genuine(s) == s.word # "none" /\ Envelopes[s.word].leader

\* Nobody but its leader has a word in a batch all of whose shreds could be
\* checked, nor in what is rebuilt of it without being checked again, nor in
\* the slot it goes to; and no shred of a leader's is discarded, whatever its
\* place in the batch's tree.  A leader that produced a batch twice has its
\* productions mixed into what is nobody's.
OnlyItsLeader ==
  /\ \A k \in Keys(sets) \ unproven :
       /\ \A s \in taken[k] : Genuine(s)
       /\ Once(k) => \A s \in rebuilt[k] : Genuine(s)
  /\ \A slot \in Keys(buffers) :
       LET buffer == buffers.entries[slot].value IN
       ~buffer.doubtful =>
         \A p \in DOMAIN buffer.held : Once(<<slot, p[1]>>) => Genuine(buffer.held[p])
  /\ \A w \in wire : Envelopes[w].leader /\ Envelopes[w].version = SHRED_VERSION =>
       \A i \in 0..(Total(w) - 1) : "forged" \notin Verdicts([word |-> w, at |-> i])

\* Of every shred taken into a batch, data or coding, of whatever variant, the
\* bytes gone by are bytes its signature is over: those of the version too, of
\* which shred.rs:120 says "nothing signs the field, so this is hygiene, not
\* authentication".
BytesSigned ==
  \A k \in Keys(sets) : \A s \in taken[k] : ReadsSigned(Datagrams[s], SHRED_VERSION)
=============================================================================
