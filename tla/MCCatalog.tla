------------------------------ MODULE MCCatalog ------------------------------
(* Model-checking instances of Catalog. *)
EXTENDS Catalog, TLC

\* Threads are interchangeable.
Symmetry == Permutations(Threads)
=============================================================================
