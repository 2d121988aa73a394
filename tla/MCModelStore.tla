---------------------------- MODULE MCModelStore ----------------------------
(* ModelStore for TLC: the sets are model values, interchangeable ones. *)
EXTENDS ModelStore, TLC

Symmetry == Permutations(Handles) \cup Permutations(Paths) \cup Permutations(Fes)
=============================================================================
