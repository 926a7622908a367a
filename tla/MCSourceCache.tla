---------------------------- MODULE MCSourceCache ----------------------------
(* An instance of SourceCache: process p1 has two threads. *)
EXTENDS SourceCache, TLC

CONSTANTS w1, w2, w3, p1, p2

MCHome == [w \in Thread |-> IF w = w3 THEN p2 ELSE p1]

Symmetry == Permutations({w1, w2}) \cup Permutations(Stage) \cup Permutations(Digest)
=============================================================================
