-------------------------- MODULE MCCardStatements --------------------------
(***************************************************************************)
(* A small instance of CardStatements: two charges, two months, refunds and *)
(* purchases, two clients.                                                  *)
(***************************************************************************)
EXTENDS CardStatements, TLC

\* A purchase, and a refund smaller than it.
SmallValues == {2, -1}

Symmetry == Permutations(Clients) \union Permutations(Charges)
=============================================================================
