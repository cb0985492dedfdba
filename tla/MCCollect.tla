----------------------------- MODULE MCCollect -----------------------------
(* A small heap: which holders they are is all one. *)
EXTENDS Collect, TLC

Symmetry == Permutations(Holders)
=============================================================================
