----------------------------- MODULE MCHnswLink -----------------------------
(* Model-checking instances of HnswLink. *)
EXTENDS HnswLink, TLC

Symmetry == Permutations(Linkers)
=============================================================================
