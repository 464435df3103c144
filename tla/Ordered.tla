-------------------------------- MODULE Ordered --------------------------------
(***************************************************************************)
(* Going through what is kept by index, in order, and adding it up.        *)
(***************************************************************************)
EXTENDS Integers, Sequences, FiniteSets, FiniteSetsExt

\* The indices in S in the order a BTreeMap goes through its keys: the k-th is
\* the one with k - 1 below it.
Ascending(S) ==
  [k \in 1..Cardinality(S) |->
     CHOOSE i \in S : Cardinality({j \in S : j < i}) = k - 1]

\* What the values of a function add up to.
SumOf(f) == MapThenSumSet(LAMBDA x : f[x], DOMAIN f)
=============================================================================
