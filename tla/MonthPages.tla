----------------------------- MODULE MonthPages -----------------------------
(***************************************************************************)
(* The cash flow pages: a list that is read for a month, an account or a date, *)
(* and the forms and row buttons that change it. One page is open with one of  *)
(* its forms, since the forms of a page share nothing but the list; the        *)
(* recurring bills are module BillsPage. A list is the number of the last        *)
(* change the server had made when it was read, and what it was read for.      *)
(***************************************************************************)
EXTENDS BillsPage

CONSTANTS
    Keys,           \* months, accounts or dates
    Suggested,      \* the rows of the suggested values
    None,
    MaxChanges      \* bound: changes the server accepts

ASSUME MonthAssumption == None \notin Keys /\ MaxChanges \in Nat /\ Keys # {}

VARIABLES
    page,           \* the name of the page that is open
    used,           \* the form of it that is used: its hook and its view
    key,            \* what its list is for
    shown,          \* the list: [of, at], or None
    isLoading, error,
    form,           \* what the form's hook keeps
    pending,        \* row operations whose button is disabled
    panel,          \* the suggested values
    changes,        \* changes the server has made
    requests,       \* [Slots -> request], Free where nothing is under way
    mishaps         \* why the list or the form may be wrong

listVars == <<shown, isLoading, error>>

monthVars == <<page, used, key, listVars, form, pending, panel, changes, requests, mishaps>>

vars == <<monthVars, billVars>>

----------------------------------------------------------------------------
(* The grids: what the buttons of their rows do, and which buttons are disabled *)
(* in every row while that is under way.                                       *)

ExpensesSection == [offers |-> {"deleteExpense"}, disables |-> {}]
IncomeSection == [offers |-> {"deleteIncome"}, disables |-> {}]
CardsGrid == [offers |-> {"markStatementPaid", "unmarkStatementPaid"}, disables |-> {}]
IncomingGrid == [offers |-> {"updateCarryForwardInclusion"},
                 disables |-> {"updateCarryForwardInclusion"}]
BankOperationsSection == [offers |-> {"deleteTransfer", "deleteAdjustment"}, disables |-> {}]
ReservaMovements == [offers |-> {"deleteMovement"}, disables |-> {}]
MaeEntries == [offers |-> {"deleteEntry"}, disables |-> {}]
StatementsTable == [offers |-> {"unmark"}, disables |-> {"unmark"}]
AccountTransactionsGrid == [offers |-> {"deleteRow"}, disables |-> {"deleteRow"}]
PotFormFooter == [offers |-> {"deleteOperation"}, disables |-> {"deleteOperation"}]

(* The lists: whether only the answer to the latest read counts, whether the   *)
(* key can be chosen, the grids that show them, and whether a row operation     *)
(* that fails hides the list.                                                  *)

UseMonthly ==
    [latestOnly |-> FALSE, keyed |-> TRUE, failureHides |-> FALSE,
     grids |-> {ExpensesSection, IncomeSection, CardsGrid, IncomingGrid}]
UseBankOperations ==
    [latestOnly |-> FALSE, keyed |-> TRUE, failureHides |-> TRUE, grids |-> {BankOperationsSection}]
UseMonthTransactions ==
    [latestOnly |-> TRUE, keyed |-> TRUE, failureHides |-> FALSE, grids |-> {}]
UseInvestmentSnapshots ==
    [latestOnly |-> FALSE, keyed |-> TRUE, failureHides |-> FALSE, grids |-> {}]
UseReserva ==
    [latestOnly |-> FALSE, keyed |-> FALSE, failureHides |-> FALSE, grids |-> {ReservaMovements}]
UseControleMae ==
    [latestOnly |-> FALSE, keyed |-> TRUE, failureHides |-> FALSE, grids |-> {MaeEntries}]
UseAccountScreen ==
    [latestOnly |-> TRUE, keyed |-> TRUE, failureHides |-> FALSE,
     grids |-> {AccountTransactionsGrid, PotFormFooter}]
UseCardStatements ==
    [latestOnly |-> TRUE, keyed |-> TRUE, failureHides |-> FALSE, grids |-> {StatementsTable}]

(* The forms. modes: for a new record or for a row of the list; latched:        *)
(* isSaving outlives the form that was cancelled, so that one opened after it   *)
(* cannot be saved before the answer; reopens: it can be opened while it is     *)
(* saving; saved: what a saved record makes of the form; asks: who asks before  *)
(* an overdraft is made; rereads: a refusal is answered by reading the bills    *)
(* again.                                                                      *)

UseExpenseForm(keepOpenAfterSave) ==
    [modes |-> {"create", "edit"}, latched |-> TRUE, reopens |-> TRUE,
     saved |-> IF keepOpenAfterSave THEN "next" ELSE "closes", asks |-> "nobody", rereads |-> FALSE]
UseIncomeForm(keepOpenAfterSave) ==
    [modes |-> {"create", "edit"}, latched |-> TRUE, reopens |-> TRUE,
     saved |-> IF keepOpenAfterSave THEN "next" ELSE "closes", asks |-> "nobody", rereads |-> FALSE]
UseTransferForm ==
    [modes |-> {"create", "edit"}, latched |-> FALSE, reopens |-> TRUE,
     saved |-> "closes", asks |-> "nobody", rereads |-> FALSE]
UseBalanceAdjustmentForm ==
    [modes |-> {"create", "edit"}, latched |-> FALSE, reopens |-> TRUE,
     saved |-> "shows", asks |-> "nobody", rereads |-> FALSE]
UseAccountTransferForm ==
    [modes |-> {"create", "edit"}, latched |-> FALSE, reopens |-> TRUE,
     saved |-> "closes", asks |-> "nobody", rereads |-> FALSE]
UsePayRecurringBill ==
    [modes |-> {"create"}, latched |-> TRUE, reopens |-> TRUE,
     saved |-> "closes", asks |-> "nobody", rereads |-> TRUE]
UsePayCardStatementForm ==
    [modes |-> {"create"}, latched |-> TRUE, reopens |-> TRUE,
     saved |-> "closes", asks |-> "nobody", rereads |-> FALSE]
UseCardCreditRefundForm ==
    [modes |-> {"create"}, latched |-> TRUE, reopens |-> TRUE,
     saved |-> "closes", asks |-> "nobody", rereads |-> FALSE]
UseMoveChargeForm ==
    [modes |-> {"edit"}, latched |-> FALSE, reopens |-> TRUE,
     saved |-> "closes", asks |-> "nobody", rereads |-> FALSE]
UsePotTransactionEditForm ==
    [modes |-> {"edit"}, latched |-> FALSE, reopens |-> TRUE,
     saved |-> "closes", asks |-> "nobody", rereads |-> FALSE]
UsePotDepositForm ==
    [modes |-> {"create", "edit"}, latched |-> FALSE, reopens |-> TRUE,
     saved |-> "closes", asks |-> "nobody", rereads |-> FALSE]
UsePotWithdrawalForm ==
    [modes |-> {"create", "edit"}, latched |-> FALSE, reopens |-> TRUE,
     saved |-> "closes", asks |-> "form", rereads |-> FALSE]
UseCardStatementsPayForm ==
    [modes |-> {"edit"}, latched |-> FALSE, reopens |-> FALSE,
     saved |-> "closes", asks |-> "nobody", rereads |-> FALSE]
UseReservaIncomeSplit ==
    [modes |-> {"create"}, latched |-> TRUE, reopens |-> TRUE,
     saved |-> "closes", asks |-> "nobody", rereads |-> FALSE]
UseReservaWithdrawal ==
    [modes |-> {"create"}, latched |-> TRUE, reopens |-> TRUE,
     saved |-> "closes", asks |-> "browser", rereads |-> FALSE]
UseReservaMovementEdit ==
    [modes |-> {"edit"}, latched |-> TRUE, reopens |-> TRUE,
     saved |-> "closes", asks |-> "nobody", rereads |-> FALSE]
UseControleMaeForm ==
    [modes |-> {"create", "edit"}, latched |-> TRUE, reopens |-> TRUE,
     saved |-> "closes", asks |-> "nobody", rereads |-> FALSE]
UseInvestmentSnapshotsEdit ==
    [modes |-> {"edit"}, latched |-> TRUE, reopens |-> TRUE,
     saved |-> "closes", asks |-> "nobody", rereads |-> FALSE]

(* The forms on the screen. cancels: Cancel is still offered while the form is    *)
(* saving, elsewhere it is disabled with the rest of the form; deletes: a form    *)
(* of a record that is edited offers to delete it. That the choices of a form    *)
(* have to be read before Save is offered only delays it, and is left out.       *)

ExpenseForm == [cancels |-> FALSE, deletes |-> FALSE]
IncomeForm == [cancels |-> FALSE, deletes |-> FALSE]
TransferForm == [cancels |-> FALSE, deletes |-> FALSE]
BalanceAdjustmentForm == [cancels |-> FALSE, deletes |-> FALSE]
PayRecurringBillForm == [cancels |-> FALSE, deletes |-> FALSE]
PayCardStatementForm == [cancels |-> FALSE, deletes |-> FALSE]
CardCreditRefundForm == [cancels |-> FALSE, deletes |-> FALSE]
MoveChargeForm == [cancels |-> FALSE, deletes |-> FALSE]
EditMovementForm == [cancels |-> FALSE, deletes |-> FALSE]
PotDepositForm == [cancels |-> FALSE, deletes |-> TRUE]
PotWithdrawalForm == [cancels |-> FALSE, deletes |-> TRUE]
PayStatementForm == [cancels |-> FALSE, deletes |-> FALSE]
WithdrawalForm == [cancels |-> FALSE, deletes |-> FALSE]
IncomeSplitForm == [cancels |-> TRUE, deletes |-> FALSE]
MaeEntryForm == [cancels |-> TRUE, deletes |-> FALSE]
SnapshotEditForm == [cancels |-> TRUE, deletes |-> FALSE]

(* The account screen has one form open at a time; its hook closes the others.  *)
UseAccountActionForms ==
    {<<UseExpenseForm(TRUE), ExpenseForm>>, <<UseIncomeForm(TRUE), IncomeForm>>,
     <<UseIncomeForm(FALSE), IncomeForm>>, <<UseBalanceAdjustmentForm, BalanceAdjustmentForm>>,
     <<UseAccountTransferForm, TransferForm>>, <<UsePayRecurringBill, PayRecurringBillForm>>,
     <<UsePayCardStatementForm, PayCardStatementForm>>,
     <<UseCardCreditRefundForm, CardCreditRefundForm>>, <<UseMoveChargeForm, MoveChargeForm>>,
     <<UsePotTransactionEditForm, EditMovementForm>>, <<UsePotDepositForm, PotDepositForm>>,
     <<UsePotWithdrawalForm, PotWithdrawalForm>>}

(* The pages: hides: a form is not on the screen while the list is loading or  *)
(* could not be read; closes: another key closes the form.                    *)

MonthlyPage ==
    [list |-> UseMonthly, hides |-> TRUE, closes |-> FALSE, suggests |-> FALSE,
     forms |-> {<<UseExpenseForm(FALSE), ExpenseForm>>, <<UseIncomeForm(FALSE), IncomeForm>>,
                <<UseTransferForm, TransferForm>>,
                <<UseBalanceAdjustmentForm, BalanceAdjustmentForm>>}]
BankTab ==
    [list |-> UseBankOperations, hides |-> TRUE, closes |-> FALSE, suggests |-> FALSE,
     forms |-> {<<UseTransferForm, TransferForm>>,
                <<UseBalanceAdjustmentForm, BalanceAdjustmentForm>>}]
AllTransactionsTab ==
    [list |-> UseMonthTransactions, hides |-> TRUE, closes |-> TRUE, suggests |-> FALSE,
     forms |-> {<<None, None>>}]
InvestmentSnapshotsPage ==
    [list |-> UseInvestmentSnapshots, hides |-> FALSE, closes |-> FALSE, suggests |-> TRUE,
     forms |-> {<<UseInvestmentSnapshotsEdit, SnapshotEditForm>>}]
ReservaPage ==
    [list |-> UseReserva, hides |-> TRUE, closes |-> FALSE, suggests |-> FALSE,
     forms |-> {<<UseReservaIncomeSplit, IncomeSplitForm>>,
                <<UseReservaWithdrawal, WithdrawalForm>>,
                <<UseReservaMovementEdit, EditMovementForm>>}]
ControleMaePage ==
    [list |-> UseControleMae, hides |-> FALSE, closes |-> FALSE, suggests |-> FALSE,
     forms |-> {<<UseControleMaeForm, MaeEntryForm>>}]
AccountScreenPage ==
    [list |-> UseAccountScreen, hides |-> FALSE, closes |-> TRUE, suggests |-> FALSE,
     forms |-> UseAccountActionForms]
CardStatementsTab ==
    [list |-> UseCardStatements, hides |-> TRUE, closes |-> TRUE, suggests |-> FALSE,
     forms |-> {<<UseCardStatementsPayForm, PayStatementForm>>}]
MensaisPage == [list |-> "bills", forms |-> {<<None, None>>}]

PageOf ==
    [MonthlyPage |-> MonthlyPage, BankTab |-> BankTab, AllTransactionsTab |-> AllTransactionsTab,
     InvestmentSnapshotsPage |-> InvestmentSnapshotsPage, ReservaPage |-> ReservaPage,
     ControleMaePage |-> ControleMaePage, AccountScreenPage |-> AccountScreenPage,
     CardStatementsTab |-> CardStatementsTab, MensaisPage |-> MensaisPage]

CONSTANT Pages      \* the pages this instance opens

ASSUME PagesAssumption == Pages \subseteq DOMAIN PageOf

open == PageOf[page]

hook == used[1]

view == used[2]

----------------------------------------------------------------------------
Free == [op |-> "free", key |-> None, latest |-> FALSE, is |-> "sent", content |-> 0, mine |-> FALSE,
         mode |-> "create", confirmed |-> FALSE, asked |-> "no", what |-> "none", row |-> None,
         rest |-> {}, ok |-> FALSE, bad |-> FALSE]

Closed == [isOpen |-> FALSE, isSaving |-> FALSE, mode |-> "create", overdraft |-> "no",
           saved |-> FALSE]

NoPanel == [phase |-> "closed", rows |-> [r \in Suggested |-> "pending"]]

UnderWay == {i \in Slots : requests[i].op # "free"}

Under(op) == {i \in Slots : requests[i].op = op}

HasRoom == UnderWay # Slots

ListShown == ~isLoading /\ ~error

FormShown == (open.hides => ListShown) /\ hook # None

Sent(rs, request) == [rs EXCEPT ![CHOOSE i \in Slots : rs[i].op = "free"] = request]

\* A read of a list whose hook counts only the latest supersedes the others.
Fetched(rs, k) ==
    Sent([i \in Slots |-> IF open.list.latestOnly /\ rs[i].op = "fetch"
                            THEN [rs[i] EXCEPT !.latest = FALSE] ELSE rs[i]],
         [Free EXCEPT !.op = "fetch", !.key = k, !.latest = TRUE])

NoneMine(rs) == [i \in Slots |-> [rs[i] EXCEPT !.mine = FALSE]]

Overlapped(rs) ==
    IF \E i \in Slots : rs[i].op # "free" THEN mishaps \union {"overlap"} ELSE mishaps

\* A read that has the page to itself, of what it is for, finds what there is.
MishapsAtFetch(rs, ofKey) ==
    IF \E i \in Slots : rs[i].op # "free" THEN mishaps \union {"overlap"}
    ELSE IF ofKey THEN mishaps \ {"overlap", "lost"} ELSE mishaps

MonthInit ==
    /\ page \in Pages /\ used \in open.forms /\ key \in Keys
    /\ shown = None /\ isLoading = TRUE /\ error = FALSE
    /\ form = Closed /\ pending = {} /\ panel = NoPanel /\ changes = 0
    /\ \E i \in Slots : requests = [j \in Slots |->
          IF j = i THEN [Free EXCEPT !.op = "fetch", !.key = key, !.latest = TRUE] ELSE Free]
    /\ mishaps = {}

----------------------------------------------------------------------------
(* The list.                                                               *)

\* A form that is closed while it is saving has been dismissed.
Dismissed == IF form.isSaving THEN mishaps \union {"dismissed"} ELSE mishaps
\* Mutant: closing any form frees it.
ClosedFormMutant == Closed

ClosedForm == [Closed EXCEPT !.isSaving = hook # None /\ hook.latched /\ form.isSaving]

\* Another month, account or date. A list that is read for it while a change is under
\* way may be overtaken by the read that follows the change.
ChooseKey ==
    /\ open.list.keyed /\ HasRoom /\ form.overdraft = "no"
    /\ \E k \in Keys \ {key} :
          /\ key' = k
          /\ isLoading' = TRUE /\ error' = FALSE
          /\ IF open.closes
               THEN form' = ClosedForm /\ requests' = Fetched(NoneMine(requests), k)
               ELSE requests' = Fetched(requests, k) /\ UNCHANGED form
    /\ mishaps' = MishapsAtFetch(requests, TRUE)
                    \union (IF open.closes /\ form.isSaving THEN {"dismissed"} ELSE {})
    /\ UNCHANGED <<page, used, shown, pending, panel, changes>>

\* On the account screen the form of a row that is deleted, or no longer listed, closes.
FormOfListed ==
    {form} \union (IF page = "AccountScreenPage" /\ form.isOpen /\ form.mode = "edit"
                     THEN {ClosedForm} ELSE {})

DismissedBy(f) == IF form.isOpen /\ ~f.isOpen THEN Dismissed ELSE mishaps

Retry ==
    /\ error /\ ~isLoading /\ HasRoom
    /\ isLoading' = TRUE /\ error' = FALSE
    /\ requests' = Fetched(requests, key)
    /\ mishaps' = MishapsAtFetch(requests, TRUE)
    /\ UNCHANGED <<page, used, key, shown, form, pending, panel, changes>>

AnswerRead(i) ==
    /\ requests[i].op = "fetch" /\ requests[i].is = "sent"
    /\ requests' = [requests EXCEPT ![i].is = "read", ![i].content = changes]
    /\ UNCHANGED <<page, used, key, listVars, form, pending, panel, changes, mishaps>>

\* FETCH_SUCCESS leaves the error of an earlier failure, FETCH_ERROR the list.
FetchAnswered(i) ==
    LET r == requests[i]
    IN /\ r.op = "fetch"
       /\ IF ~r.latest THEN UNCHANGED <<listVars, form, mishaps>>
          ELSE /\ isLoading' = FALSE
               /\ IF r.is = "read"
                    THEN /\ shown' = [of |-> r.key, at |-> r.content] /\ UNCHANGED error
                         /\ form' \in FormOfListed /\ mishaps' = DismissedBy(form')
                    ELSE error' = TRUE /\ UNCHANGED <<shown, form, mishaps>>
       /\ requests' = [requests EXCEPT ![i] = Free]
       /\ UNCHANGED <<page, used, key, pending, panel, changes>>

\* After a change the list is read again, silently: for what it was for when the change
\* was sent, or, by useAsyncResource, for what it is for now.
RefreshKey(r) == IF open.list.latestOnly THEN key ELSE r.key

Refresh(i) ==
    /\ requests' = Fetched([NoneMine(requests) EXCEPT ![i] = Free], RefreshKey(requests[i]))
    /\ mishaps' = MishapsAtFetch([requests EXCEPT ![i] = Free], RefreshKey(requests[i]) = key)
                    \ (IF Under("save") \subseteq {i} THEN {"dismissed"} ELSE {})

----------------------------------------------------------------------------
(* The form.                                                               *)

\* The edit panel and the suggested values close each other.
OpenForm ==
    /\ FormShown /\ form.overdraft = "no" /\ (hook.reopens \/ ~form.isSaving)
    /\ \E mode \in hook.modes :
          /\ mode = "edit" => ListShown
          /\ form' = [ClosedForm EXCEPT !.isOpen = TRUE, !.mode = mode]
    /\ panel' = IF open.suggests THEN NoPanel ELSE panel
    /\ requests' = NoneMine(requests)
    /\ mishaps' = IF open.suggests /\ panel.phase # "closed" THEN Dismissed \union {"reopened"}
                                                            ELSE Dismissed
    /\ UNCHANGED <<page, used, key, listVars, pending, changes>>

Cancel ==
    /\ FormShown /\ form.isOpen /\ form.overdraft = "no" /\ (view.cancels \/ ~form.isSaving)
    /\ form' = ClosedForm
    /\ requests' = NoneMine(requests) /\ mishaps' = Dismissed
    /\ UNCHANGED <<page, used, key, listVars, pending, panel, changes>>

Save(confirmed) ==
    /\ form' = [form EXCEPT !.isSaving = TRUE]
    /\ requests' = Sent(requests, [Free EXCEPT !.op = "save", !.key = key,
                                               !.mine = (hook.asks = "form"),
                                               !.mode = form.mode, !.confirmed = confirmed,
                                               !.asked = form.overdraft])
    /\ mishaps' = Overlapped(requests)
    /\ UNCHANGED <<page, used, key, listVars, pending, panel, changes>>
\* Mutant: the overdraft is confirmed before anybody was asked.
SubmitMutant ==
    /\ FormShown /\ form.isOpen /\ ~form.isSaving /\ ~form.saved /\ form.overdraft = "no" /\ HasRoom
    /\ Save(TRUE)

\* The button is disabled, or the hook returns, while isSaving.
Submit ==
    /\ FormShown /\ form.isOpen /\ ~form.isSaving /\ ~form.saved /\ form.overdraft = "no" /\ HasRoom
    /\ Save(FALSE)

ConfirmOverdraft == form.overdraft # "no" /\ ~form.isSaving /\ HasRoom /\ Save(TRUE)

CancelOverdraft ==
    /\ form.overdraft # "no" /\ ~form.isSaving
    /\ form' = [form EXCEPT !.overdraft = "no"]
    /\ UNCHANGED <<page, used, key, listVars, pending, panel, changes, requests, mishaps>>

\* The server makes a change that was asked for.
CarryOut(i, answered) ==
    LET r == requests[i]
    IN /\ r.op \in {"save", "row", "apply"} /\ r.is = "sent" /\ changes < MaxChanges
       /\ changes' = changes + 1
       /\ requests' = [requests EXCEPT ![i].is = IF answered THEN "done" ELSE "lost"]
       /\ mishaps' = IF answered THEN mishaps ELSE mishaps \union {"lost"}
       /\ UNCHANGED <<page, used, key, listVars, form, pending, panel>>

\* SAVE_SUCCESS and its kin: what it does to the form, it does to whatever is open.
FormSaved(r) ==
    CASE hook.saved = "next" /\ r.mode = "create" -> [form EXCEPT !.isSaving = FALSE]
      [] hook.saved = "shows" -> [form EXCEPT !.isSaving = FALSE, !.saved = form.isOpen]
      [] OTHER -> Closed
\* Mutant: the list is not read again.
SaveAnsweredMutant(i) ==
    /\ requests[i].op = "save" /\ requests[i].is = "done"
    /\ form' = FormSaved(requests[i])
    /\ requests' = [NoneMine(requests) EXCEPT ![i] = Free]
    /\ UNCHANGED <<page, used, key, listVars, pending, panel, changes, mishaps>>

SaveAnswered(i) ==
    /\ requests[i].op = "save" /\ requests[i].is = "done"
    /\ form' = FormSaved(requests[i])
    /\ Refresh(i)
    /\ UNCHANGED <<page, used, key, listVars, pending, panel, changes>>

\* The server refuses an overdraft that is not confirmed. The browser's question stops
\* the page; the form's own is put in whatever form is open.
SaveRefused(i) ==
    LET r == requests[i]
    IN /\ r.op = "save" /\ r.is = "sent" /\ ~r.confirmed
       /\ \/ /\ hook.asks = "browser"
             /\ requests' = [requests EXCEPT ![i].confirmed = TRUE, ![i].asked = "own"]
             /\ UNCHANGED form
          \/ /\ hook.asks = "form"
             /\ requests' = [requests EXCEPT ![i] = Free]
             /\ form' = IF form.isOpen
                          THEN [form EXCEPT !.isSaving = FALSE,
                                            !.overdraft = IF r.mine THEN "own" ELSE "other"]
                          ELSE form
       /\ UNCHANGED <<page, used, key, listVars, pending, panel, changes, mishaps>>

\* A bill that could not be paid: the bills are read again before the form is freed.
SaveRejected(i) ==
    /\ requests[i].op = "save" /\ requests[i].is = "sent" /\ hook.rereads
    /\ requests' = [requests EXCEPT ![i].is = "rejected"]
    /\ UNCHANGED <<page, used, key, listVars, form, pending, panel, changes, mishaps>>

SaveFailed(i) ==
    /\ requests[i].op = "save" /\ requests[i].is \in {"sent", "lost", "rejected"}
    /\ form' = [form EXCEPT !.isSaving = FALSE, !.overdraft = "no"]
    /\ requests' = [requests EXCEPT ![i] = Free]
    /\ UNCHANGED <<page, used, key, listVars, pending, panel, changes, mishaps>>

----------------------------------------------------------------------------
(* The buttons of the rows, most behind a question.                          *)

\* What the rows of the list offer, and what of it disables its buttons.
RowOps == UNION {g.offers : g \in open.list.grids}

DisabledOps == UNION {g.disables : g \in open.list.grids}

\* A deposit or withdrawal is deleted from its form, once it is not being saved.
OffersDelete == view.deletes /\ form.isOpen /\ form.mode = "edit" /\ ~form.isSaving

\* Mutant: every operation disables its button.
ChangeRowMutant ==
    /\ ListShown /\ form.overdraft = "no" /\ HasRoom
    /\ \E op \in RowOps \ pending :
          /\ op = "deleteOperation" => OffersDelete
          /\ pending' = pending \union {op}
          /\ requests' = Sent(requests, [Free EXCEPT !.op = "row", !.key = key, !.what = op])
    /\ mishaps' = Overlapped(requests)
    /\ UNCHANGED <<page, used, key, listVars, form, panel, changes>>

ChangeRow ==
    /\ ListShown /\ form.overdraft = "no" /\ HasRoom
    /\ \E op \in RowOps \ pending :
          /\ op = "deleteOperation" => OffersDelete
          /\ pending' = IF op \in DisabledOps THEN pending \union {op} ELSE pending
          /\ requests' = Sent(requests, [Free EXCEPT !.op = "row", !.key = key, !.what = op])
    /\ mishaps' = Overlapped(requests)
    /\ UNCHANGED <<page, used, key, listVars, form, panel, changes>>

RowChanged(i) ==
    /\ requests[i].op = "row" /\ requests[i].is = "done"
    /\ pending' = pending \ {requests[i].what}
    /\ requests' = Fetched([requests EXCEPT ![i] = Free], RefreshKey(requests[i]))
    /\ form' \in IF requests[i].what = "deleteOperation" THEN {ClosedForm} ELSE FormOfListed
    /\ mishaps' = MishapsAtFetch([requests EXCEPT ![i] = Free], RefreshKey(requests[i]) = key)
                    \union (DismissedBy(form') \ mishaps)
    /\ UNCHANGED <<page, used, key, listVars, panel, changes>>

RowFailed(i) ==
    /\ requests[i].op = "row" /\ requests[i].is \in {"sent", "lost"}
    /\ pending' = pending \ {requests[i].what}
    /\ error' = (error \/ open.list.failureHides)
    /\ requests' = [requests EXCEPT ![i] = Free]
    /\ UNCHANGED <<page, used, key, shown, isLoading, form, panel, changes, mishaps>>

----------------------------------------------------------------------------
(* The suggested values of a month: useSuggestedValues and its panel. The rows  *)
(* that are chosen are saved one after the other, and the run goes on whatever  *)
(* becomes of the panel.                                                      *)

AskSuggestions ==
    requests' = Sent(NoneMine(requests), [Free EXCEPT !.op = "suggest", !.key = key])

\* The button is never disabled.
OpenSuggestions ==
    /\ open.suggests /\ HasRoom
    /\ form' = ClosedForm
    /\ panel' = [NoPanel EXCEPT !.phase = "loading"]
    /\ AskSuggestions
    /\ mishaps' = IF Under("suggest") \union Under("apply") = {}
                    THEN (Dismissed \ {"reopened"})
                           \union (IF UnderWay = {} THEN {} ELSE {"overlap"})
                    ELSE Dismissed \union {"reopened", "overlap"}
    /\ UNCHANGED <<page, used, key, listVars, pending, changes>>

RetrySuggestions ==
    /\ panel.phase = "error" /\ HasRoom
    /\ panel' = [panel EXCEPT !.phase = "loading"]
    /\ AskSuggestions
    /\ mishaps' = Overlapped(requests)
    /\ UNCHANGED <<page, used, key, listVars, form, pending, changes>>

ClosePanel ==
    /\ panel.phase \in {"ready", "completed", "error"}
    /\ panel' = NoPanel
    /\ UNCHANGED <<page, used, key, listVars, form, pending, changes, requests, mishaps>>

\* An answer opens a panel that was closed, and makes one that is applying ready again.
SuggestionsAnswered(i) ==
    /\ requests[i].op = "suggest"
    /\ \/ panel' = [NoPanel EXCEPT !.phase = "ready"]
       \/ panel' = [panel EXCEPT !.phase = "error"]
    /\ requests' = [requests EXCEPT ![i] = Free]
    /\ UNCHANGED <<page, used, key, listVars, form, pending, changes, mishaps>>

ApplyRows(rows) ==
    /\ rows # {} /\ HasRoom
    /\ panel' = [panel EXCEPT !.phase = "applying"]
    /\ \E r \in rows :
          requests' = Sent(requests, [Free EXCEPT !.op = "apply", !.key = key, !.row = r,
                                                  !.rest = rows \ {r}])
    /\ mishaps' = Overlapped(requests)
    /\ UNCHANGED <<page, used, key, listVars, form, pending, changes>>

Apply == panel.phase = "ready" /\ \E rows \in SUBSET Suggested : ApplyRows(rows)

RetryFailed ==
    panel.phase = "completed" /\ ApplyRows({r \in Suggested : panel.rows[r] = "error"})

\* A row is done: the next one is saved, or the run ends. It closes the panel if every
\* row was saved, and has the list read again if one was.
RowApplied(i) ==
    LET r == requests[i]
        good == r.is = "done"
        done == [panel EXCEPT !.rows[r.row] = IF good THEN "success" ELSE "error"]
    IN /\ r.op = "apply"
       /\ \/ /\ r.rest # {}
             /\ \E next \in r.rest :
                   requests' = [requests EXCEPT
                       ![i].row = next, ![i].rest = r.rest \ {next}, ![i].is = "sent",
                       ![i].ok = r.ok \/ good, ![i].bad = r.bad \/ ~good]
             /\ panel' = done /\ UNCHANGED mishaps
          \/ /\ r.rest = {}
             /\ panel' = IF r.bad \/ ~good THEN [done EXCEPT !.phase = "completed"] ELSE NoPanel
             /\ IF r.ok \/ good
                  THEN /\ requests' = Fetched([requests EXCEPT ![i] = Free], r.key)
                       /\ mishaps' = MishapsAtFetch([requests EXCEPT ![i] = Free], r.key = key)
                  ELSE requests' = [requests EXCEPT ![i] = Free] /\ UNCHANGED mishaps
       /\ UNCHANGED <<page, used, key, listVars, form, pending, changes>>

----------------------------------------------------------------------------
MonthNext ==
    \/ ChooseKey \/ Retry \/ OpenForm \/ Cancel \/ Submit \/ ConfirmOverdraft \/ CancelOverdraft
    \/ ChangeRow \/ OpenSuggestions \/ RetrySuggestions \/ ClosePanel \/ Apply \/ RetryFailed
    \/ \E i \in Slots :
          \/ AnswerRead(i) \/ FetchAnswered(i)
          \/ \E answered \in BOOLEAN : CarryOut(i, answered)
          \/ SaveAnswered(i) \/ SaveRefused(i) \/ SaveRejected(i) \/ SaveFailed(i)
          \/ RowChanged(i) \/ RowFailed(i) \/ SuggestionsAnswered(i) \/ RowApplied(i)

Init == MonthInit /\ BillsInit /\ (page # "MensaisPage" => stored = [b \in Bills |-> "Gone"])

Next ==
    \/ page # "MensaisPage" /\ MonthNext /\ UNCHANGED billVars
    \/ page = "MensaisPage" /\ BillsNext /\ UNCHANGED monthVars

Spec == Init /\ [][Next]_vars

----------------------------------------------------------------------------
\* The page's list, form, panel and requests keep their shape.
TypeOK ==
    /\ page \in Pages /\ used \in open.forms /\ key \in Keys
    /\ shown \in [of : Keys, at : 0..MaxChanges] \union {None}
    /\ {isLoading, error} \subseteq BOOLEAN
    /\ form \in [isOpen : BOOLEAN, isSaving : BOOLEAN, mode : {"create", "edit"},
                 overdraft : {"no", "own", "other"}, saved : BOOLEAN]
    /\ page # "MensaisPage" => pending \subseteq DisabledOps
    /\ panel \in [phase : {"closed", "loading", "ready", "applying", "completed", "error"},
                  rows : [Suggested -> {"pending", "success", "error"}]]
    /\ changes \in 0..MaxChanges
    /\ \A i \in Slots : requests[i].key \in Keys \union {None} /\ requests[i].content \in 0..MaxChanges
    /\ mishaps \subseteq {"overlap", "lost", "dismissed", "reopened"}
    /\ BillsTypeOK

\* Where only the latest answer counts the list under its heading is the list of that
\* month, account or date. Elsewhere it is once nothing is under way, unless two requests
\* of the page overlapped. By then it has every change the server made, too.
ShownIsOfKey ==
    (page # "MensaisPage" /\ shown # None /\ ListShown) =>
        /\ open.list.latestOnly => shown.of = key
        /\ (UnderWay = {} /\ mishaps \intersect {"overlap", "lost"} = {}) =>
              shown = [of |-> key, at |-> changes]

\* A form is saved once at a time: even after it was cancelled while it was saving and
\* opened again, where isSaving is latched, and elsewhere as long as that is not done. The
\* suggested values are applied by one run, unless they were opened again meanwhile.
OneSaveAtATime ==
    /\ (hook # None /\ hook.latched) \/ "dismissed" \notin mishaps => Cardinality(Under("save")) <= 1
    /\ "reopened" \notin mishaps => Cardinality(Under("apply")) <= 1

\* An overdraft is confirmed for the withdrawal the user was asked about, unless its form
\* was dismissed while it was saving: then another one takes the answer.
ConfirmedIsWhatWasAsked ==
    \A i \in Slots :
        (requests[i].confirmed /\ "dismissed" \notin mishaps) => requests[i].asked = "own"

\* Once nothing is under way the bills on the page are the server's, unless two requests
\* overlapped or the answer to a change was lost.
BillsAreCurrentWhenQuiet ==
    (page = "MensaisPage" /\ UnderWayCalls = {} /\ ~mensais.isLoading /\ ~mensais.error
        /\ troubles \intersect {"overlap", "lost"} = {})
      => mensais.bills = stored

\* MensaisService: "The bill is already Paid; recording another payment expense would
\* duplicate it." A bill that is paid has at most one expense, unless two payments of it
\* were under way at once or an edit put back an old status.
ExpenseRecordedOnceUnlessRaced ==
    troubles \intersect {"paidTwice", "staleStatus"} = {} => \A b \in Bills : expenses[b] <= 1

----------------------------------------------------------------------------

\* MensaisService: "The bill is already Paid; recording another payment expense would
\* duplicate it." Two payments of one bill can both be checked before either is made.
ExpenseRecordedOnce == "staleStatus" \notin troubles => \A b \in Bills : expenses[b] <= 1
=============================================================================
