------------------------- MODULE MCSpoolPublication -------------------------
(* TLC instances of SpoolPublication.                                      *)
EXTENDS SpoolPublication, TLC

Symmetry == Permutations(Writers) \cup Permutations(Batches) \cup Permutations(Gens)

=============================================================================
