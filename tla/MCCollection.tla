---------------------------- MODULE MCCollection ----------------------------
(* Model-checking instances of Collection. *)
EXTENDS Collection, TLC

\* Threads, ids and vectors are interchangeable.
Symmetry == Permutations(Threads) \cup Permutations(Ids) \cup Permutations(Vals)
=============================================================================
