---------------------------- MODULE MCDetailPanel ----------------------------
(* Instances of DetailPanel for TLC. *)
EXTENDS DetailPanel, TLC

Symmetry == Permutations(Assets) \union Permutations(Slots)
=============================================================================
