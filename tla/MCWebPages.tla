----------------------------- MODULE MCWebPages -----------------------------
(* Instances of WebPages for TLC. *)
EXTENDS WebPages, TLC

Symmetry == Permutations(TaxYears) \union Permutations(Years)
=============================================================================
