----------------------------- MODULE MCHoldings -----------------------------
(* The holdings of a broker for TLC. A lot at 12 halves and halves again.      *)
EXTENDS Holdings

MCSymmetry == Permutations(Assets)

MCOneAmount == {[quantity |-> 1, price |-> 12]}
MCTwoAmounts == {[quantity |-> 1, price |-> 12], [quantity |-> 2, price |-> 24]}
=============================================================================
