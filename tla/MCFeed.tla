------------------------------- MODULE MCFeed -------------------------------
(* Small instances of Feed for TLC. *)
EXTENDS Feed, TLC

CONSTANTS main, w1, w2, x, y

Symmetry == Permutations({w1, w2}) \cup Permutations({x, y})
=============================================================================
