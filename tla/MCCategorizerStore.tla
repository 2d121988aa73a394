------------------------- MODULE MCCategorizerStore -------------------------
(* CategorizerStore for TLC. *)
EXTENDS CategorizerStore, TLC

Symmetry == Permutations(Handles) \cup Permutations(Paths) \cup Permutations(Fes)
=============================================================================
