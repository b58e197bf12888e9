---------------------------- MODULE MCAdminPages ----------------------------
(* Instances of AdminPages for TLC: one page of each kind, which are all of   *)
(* them up to the names of their required fields.                            *)
EXTENDS AdminPages, TLC

OnePageOfEachKind ==
    {BanksPage, AssetsPage, BrokersPage, CreditCardsPage, AdminAccountsPage, AccountsPage}

Symmetry == Permutations(Rows) \union Permutations(Slots)
=============================================================================
