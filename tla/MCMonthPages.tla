---------------------------- MODULE MCMonthPages ----------------------------
(* The instances TLC checks the cash flow pages on.                          *)
EXTENDS MonthPages, TLC

EveryPage == DOMAIN PageOf

OnlyMonthly == {"MonthlyPage"}

OnlyMensais == {"MensaisPage"}

\* Which of the free slots a request takes is of no consequence.
Symmetry ==
    Permutations(Slots) \union Permutations(Keys) \union Permutations(Suggested)
        \union Permutations(UkBills)
=============================================================================
