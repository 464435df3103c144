----------------------------- MODULE MCPipeline -----------------------------
(***************************************************************************)
(* Instances of the packet path for TLC: what producers encoded and sent.  *)
(***************************************************************************)
EXTENDS Pipeline

Codeword(slot, data, coding, resigned, proof) ==
  [key |-> <<slot, 0>>, num_data |-> data, num_coding |-> coding,
   shard_len |-> ShardLen([resigned |-> resigned, proof |-> proof])]

\* Batches of three slots, one of them too large to be rebuilt; the first of
\* them produced again, cut in other ways, and by one who is not its leader; and
\* shreds of a slot nobody leads, and of another cluster.
Codewords ==
  [pair    |-> Codeword(1, 2, 2, FALSE, 2),
   triple  |-> Codeword(1, 2, 1, FALSE, 2),
   single  |-> Codeword(2, 1, 1, TRUE, 1),
   wide    |-> Codeword(3, 5, 1, FALSE, 3),
   shorter |-> Codeword(1, 1, 2, FALSE, 2),
   resized |-> Codeword(1, 1, 1, TRUE, 2),
   strange |-> Codeword(1, 2, 1, FALSE, 2),
   stray   |-> Codeword(8, 1, 1, FALSE, 1),
   foreign |-> Codeword(8, 1, 1, FALSE, 1)]

Envelope(resigned, proof, version, leader) ==
  [resigned |-> resigned, proof |-> proof, version |-> version, clipped |-> 0, leader |-> leader]

Productions ==
  [pair    |-> Envelope(FALSE, 2, 1, TRUE),
   triple  |-> Envelope(FALSE, 2, 1, TRUE),
   single  |-> Envelope(TRUE, 1, 1, TRUE),
   wide    |-> Envelope(FALSE, 3, 1, TRUE),
   shorter |-> Envelope(FALSE, 2, 1, TRUE),
   resized |-> Envelope(TRUE, 2, 1, TRUE),
   strange |-> Envelope(FALSE, 2, 1, FALSE),
   stray   |-> Envelope(FALSE, 1, 1, FALSE),
   foreign |-> Envelope(FALSE, 1, 2, FALSE)]

\* TLC evaluates what a constant is set to wherever it is used, but the above
\* once.
Encoded == Codewords
Sent    == Productions

Leaders ==
  {{"pair"}, {"triple", "single"}, {"triple", "shorter"}, {"triple", "resized"},
   {"triple", "strange"}, {"single", "stray"}, {"wide", "foreign"}}
=============================================================================
