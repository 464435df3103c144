----------------------------- MODULE EntryStream -----------------------------
(***************************************************************************)
(* What reading a slot as it arrives promises: at every moment, the        *)
(* entries handed over from a batch are exactly those whose bytes are      *)
(* wholly in the unbroken run of shreds held from the batch's first index  *)
(* -- none missing, none twice, none out of order -- whatever order the    *)
(* shreds came in.  Holding on to a slot is not promised: slots may be     *)
(* forgotten, with everything that was known of them.                      *)
(*                                                                         *)
(* The wire is what the leaders cut: one copy of each shred.               *)
(***************************************************************************)
EXTENDS Ordered, SequencesExt

CONSTANT Wires

VARIABLES wire, held, out

\* The batches as the leader laid them down: where each one begins.
Cut(w) == {<<s.slot, 0>> : s \in w}
            \cup {<<s.slot, s.index + 1>> : s \in {t \in w : t.data_complete}}

InSlot(h, slot) == {s \in h : s.slot = slot}

\* The batch's shreds held without a gap.  A later batch is recognised only
\* once the shred that closes the one before it is there.
Run(h, batch) ==
  LET mine == InSlot(h, batch[1])
      known == batch[2] = 0 \/ \E s \in mine : s.index = batch[2] - 1 /\ s.data_complete
  IN  {s \in mine :
         /\ known /\ s.index >= batch[2]
         /\ \A i \in batch[2]..(s.index - 1) :
              \E t \in mine : t.index = i /\ ~t.data_complete}

\* Their bytes, end to end.
RunBytes(h, batch) ==
  LET run == Run(h, batch)
  IN  FlattenSeq([k \in 1..Cardinality(run) |->
                    (CHOOSE s \in run : s.index = batch[2] + k - 1).data])

\* The entries that are wholly there, in the order the leader wrote them.
Ends(bytes) == {x \in DOMAIN bytes : bytes[x].tag = "entry" /\ bytes[x].part = bytes[x].size}

Whole(bytes) ==
  LET ends == Ascending(Ends(bytes))
  IN  [k \in DOMAIN ends |-> bytes[ends[k]].value]

Decodable(h, batch) == Whole(RunBytes(h, batch))

Handed(h) == [batch \in Cut(wire) |-> Decodable(h, batch)]

----------------------------------------------------------------------------
Init ==
  /\ wire \in Wires
  /\ held = {}
  /\ out = Handed({})

Forget(gone) ==
  /\ held' = {s \in held : s.slot \notin gone}
  /\ out' = Handed(held')
  /\ UNCHANGED wire

Deliver(s, gone) ==
  /\ held' = {t \in held : t.slot \notin gone} \cup {s}
  /\ out' = Handed(held')
  /\ UNCHANGED wire

Next == \E gone \in SUBSET {s.slot : s \in wire} :
          Forget(gone) \/ \E s \in wire : Deliver(s, gone)

Spec == Init /\ [][Next]_<<wire, held, out>>
=============================================================================
