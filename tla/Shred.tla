-------------------------------- MODULE Shred --------------------------------
(***************************************************************************)
(* The wire format of a Merkle shred, as far as it is read (shred.rs).     *)
(*                                                                         *)
(* A datagram is the fields its bytes hold, with its length; its variant   *)
(* is the type, whether the retransmitter resigned it, and how many        *)
(* entries its Merkle proof has.  A body is a datagram without its         *)
(* signature, so the same fields and that much shorter.  Offsets are in    *)
(* bytes, of the body but where the source counts from the packet.  What   *)
(* a range of bytes holds is named by what produced it; a hash is the      *)
(* term it is of, so equal hashes are of equal bytes.                      *)
(***************************************************************************)
EXTENDS Integers, Sequences, SequencesExt

SIGNATURE    == 64
VERSION      == 13
DATA_HEADERS == 88 - SIGNATURE
CODE_HEADERS == 89 - SIGNATURE
CODE_PAYLOAD == 1228
DATA_PAYLOAD == CODE_PAYLOAD - CODE_HEADERS
MERKLE_ROOT  == 32
PROOF_ENTRY  == 20
MAX_SHARD    == CODE_PAYLOAD - (SIGNATURE + CODE_HEADERS) - MERKLE_ROOT
MAX_SHREDS_PER_SLOT == 32768

\* The proof's length is the low nibble of the variant byte.
Variant == [type : {"data", "coding", "other"}, resigned : BOOLEAN, proof : 0..15]

\* What follows the erasure coded region, the Merkle root of the batch before
\* it aside.
Trailer(v) == v.proof * PROOF_ENTRY + (IF v.resigned THEN SIGNATURE ELSE 0)

\* The longest trailer leaves a shard well longer than the headers, so the
\* source's None is never taken.
ShardLen(v) == MAX_SHARD - Trailer(v)

ProofOffset_OnePayload(v) == CODE_PAYLOAD - Trailer(v)

\* From the start of the packet.
ProofOffset(v) ==
  (IF v.type = "data" THEN DATA_PAYLOAD ELSE CODE_PAYLOAD) - Trailer(v)

----------------------------------------------------------------------------
(* parse.                                                                   *)

VersionMatches(b, room, version) == room >= VERSION + 2 /\ b.version = version

\* parse_data of a body that is room bytes long; the shard, within it, is all
\* that a recovered body has.
DataSound(b, room, version) ==
  /\ VersionMatches(b, room, version)
  /\ ShardLen(b.variant) <= room
  /\ b.size - SIGNATURE \in DATA_HEADERS..ShardLen(b.variant)
  /\ b.index < MAX_SHREDS_PER_SLOT
  /\ b.fec_set_index <= b.index

CodingSound(b, room, version) ==
  /\ VersionMatches(b, room, version)
  /\ CODE_HEADERS + ShardLen(b.variant) <= room
  /\ b.fec_set_index < MAX_SHREDS_PER_SLOT

Parsed(p, version) ==
  LET room == p.length - SIGNATURE IN
  \/ p.variant.type = "data"   /\ DataSound(p, room, version)
  \/ p.variant.type = "coding" /\ CodingSound(p, room, version)

\* Where what is read of a parsed datagram ends, from the start of the packet.
HeadersEnd(p) == SIGNATURE + (IF p.variant.type = "data" THEN DATA_HEADERS ELSE CODE_HEADERS)

ShardEnd(p) ==
  SIGNATURE + (IF p.variant.type = "data" THEN 0 ELSE CODE_HEADERS) + ShardLen(p.variant)

----------------------------------------------------------------------------
(* signed.                                                                  *)

\* Whether there is a root: every range it is made of is in the packet.
Signed(p, version) ==
  /\ VersionMatches(p, p.length - SIGNATURE, version)
  /\ p.variant.type \in {"data", "coding"}
  /\ ProofOffset(p.variant) + p.variant.proof * PROOF_ENTRY <= p.length
  /\ p.variant.type = "data" => p.fec_set_index <= p.index

Leaf_Restarted(p) ==
  IF p.variant.type = "data" THEN p.index - p.fec_set_index ELSE p.position

\* The batch's data shreds are the first leaves of its tree.
Leaf(p) ==
  IF p.variant.type = "data" THEN p.index - p.fec_set_index ELSE p.num_data + p.position

\* One height of the walk: [node, index].
Up(at, sibling) ==
  [node  |-> IF at.index % 2 = 0 THEN <<"node", at.node, sibling>> ELSE <<"node", sibling, at.node>>,
   index |-> at.index \div 2]

\* The root, from what the packet holds between its signature and its proof,
\* and from the proof.
Root(p) == FoldLeft(Up, [node |-> <<"leaf", p.bytes>>, index |-> Leaf(p)], p.proof).node

----------------------------------------------------------------------------
\* Everything read of a datagram that parses lies between its signature and
\* its proof, which is what the leaf of its tree is hashed over: the shard and
\* the root before it end where the proof starts, though one is counted from
\* the body and the other from the packet, for each type and each variant.  The
\* version, bytes 77 and 78 of the packet, is among it, although "nothing signs
\* the field" (shred.rs:120).
ReadsSigned(p, version) ==
  Parsed(p, version) =>
    /\ HeadersEnd(p) <= ShardEnd(p)
    /\ ShardEnd(p) + MERKLE_ROOT = ProofOffset(p.variant)
    /\ ShardEnd(p) <= p.length
    /\ p.variant.type = "data" => p.size \in HeadersEnd(p)..ShardEnd(p)
=============================================================================
