----------------------------- MODULE AdminPages -----------------------------
(***************************************************************************)
(* The administration pages: one list each, kept by useCrudResource, with a  *)
(* dialog that creates or edits a record and a question before one is        *)
(* deleted. The hook takes every answer in the order of arrival; a page with  *)
(* refresh "reload" hides its list while it is read again, one with "silent"  *)
(* keeps it and its dialog waits for the new list. The server's records are    *)
(* abstracted to the number of the change that wrote them last.               *)
(***************************************************************************)
EXTENDS Integers, FiniteSets

CONSTANTS
    Rows,           \* the records a list may hold
    NewRow,         \* what a dialog that creates is filled for
    None,
    Slots,          \* bound: requests under way at once
    MaxChanges      \* bound: changes the server accepts

ASSUME AdminAssumption ==
    /\ None \notin Rows /\ NewRow \notin Rows \union {None}
    /\ MaxChanges \in Nat

VARIABLES
    page,           \* the page that is open
    listed,         \* its list: [Rows -> change that wrote the record, or Absent]
    isLoading, error,
    form,           \* the dialog that creates or edits, or NoForm
    question,       \* the question before a record is deleted, or NoQuestion
    pendingId,      \* the one row a deletion is pending for, or None
    server,         \* the server's list
    changes,        \* changes the server has made
    requests,       \* [Slots -> request], Free where nothing is under way
    mishaps         \* why the list may differ from the server's

listVars == <<listed, isLoading, error>>

vars == <<page, listVars, form, question, pendingId, server, changes, requests, mishaps>>

Absent == -1

----------------------------------------------------------------------------
(* The hooks: how a list is read again after a change, what can be done to   *)
(* its records, and whether a record that is deleted stays in the list, as a  *)
(* historic one.                                                            *)

Crud == {"create", "update", "delete"}

UseCategories == [refresh |-> "reload", writes |-> Crud, keepsDeleted |-> {FALSE}]
UseBanks == [refresh |-> "reload", writes |-> Crud, keepsDeleted |-> {FALSE}]
UseRecurringBills == [refresh |-> "reload", writes |-> Crud, keepsDeleted |-> {FALSE}]
UseTaxRules == [refresh |-> "reload", writes |-> Crud, keepsDeleted |-> {FALSE}]
UseIncomeSources == [refresh |-> "reload", writes |-> Crud, keepsDeleted |-> {FALSE}]
UseInvestmentAccounts == [refresh |-> "reload", writes |-> Crud, keepsDeleted |-> {FALSE}]
UsePortfolios == [refresh |-> "reload", writes |-> Crud, keepsDeleted |-> {FALSE}]
UseAssets == [refresh |-> "reload", writes |-> Crud, keepsDeleted |-> {TRUE}]
UseBrokers == [refresh |-> "reload", writes |-> Crud \union {"setCostBasisMethod"},
               keepsDeleted |-> BOOLEAN]
UseCreditCards == [refresh |-> "silent", writes |-> Crud, keepsDeleted |-> {FALSE}]
UseAdminAccounts == [refresh |-> "silent", writes |-> Crud \union {"deactivate"},
                     keepsDeleted |-> {FALSE}]
UseAccounts == [refresh |-> "reload", writes |-> {}, keepsDeleted |-> {FALSE}]

(* The dialogs: the fields that must be right, whether a wrong one disables  *)
(* the save button or is shown when it is pressed, and whether the dialog     *)
(* can be dismissed while it is saving: Escape is never disabled.            *)

CategoryFormDialog == [required |-> {"name"}, checks |-> "before", guarded |-> FALSE]
BankFormDialog == [required |-> {"name"}, checks |-> "before", guarded |-> FALSE]
RecurringBillFormDialog ==
    [required |-> {"dueDay", "description", "value"}, checks |-> "before", guarded |-> FALSE]
TaxRuleFormDialog == [required |-> {"label", "effectiveFrom"}, checks |-> "before", guarded |-> FALSE]
IncomeSourceFormDialog == [required |-> {"name"}, checks |-> "before", guarded |-> FALSE]
InvestmentAccountFormDialog ==
    [required |-> {"name", "creditCardId", "potsAccountId"}, checks |-> "before", guarded |-> FALSE]
PortfolioFormDialog == [required |-> {"name", "brokerName"}, checks |-> "before", guarded |-> FALSE]
AssetFormDialog ==
    [required |-> {"name", "brokerName", "portfolioName", "isin"}, checks |-> "before", guarded |-> FALSE]
BrokerFormDialog == [required |-> {"name"}, checks |-> "before", guarded |-> FALSE]
CreditCardFormDialog == [required |-> {"name"}, checks |-> "before", guarded |-> FALSE]
AccountFormDialog ==
    [required |-> {"template", "name", "currency", "currencies", "otherParticipant", "category",
                   "openingBalance", "balanceStartDate"},
     checks |-> "onSave", guarded |-> TRUE]

(* The pages.                                                              *)

CategoriesPage == [hook |-> UseCategories, dialog |-> CategoryFormDialog]
BanksPage == [hook |-> UseBanks, dialog |-> BankFormDialog]
RecurringBillsPage == [hook |-> UseRecurringBills, dialog |-> RecurringBillFormDialog]
TaxRulesPage == [hook |-> UseTaxRules, dialog |-> TaxRuleFormDialog]
IncomeSourcesPage == [hook |-> UseIncomeSources, dialog |-> IncomeSourceFormDialog]
InvestmentAccountsPage == [hook |-> UseInvestmentAccounts, dialog |-> InvestmentAccountFormDialog]
PortfoliosPage == [hook |-> UsePortfolios, dialog |-> PortfolioFormDialog]
AssetsPage == [hook |-> UseAssets, dialog |-> AssetFormDialog]
BrokersPage == [hook |-> UseBrokers, dialog |-> BrokerFormDialog]
CreditCardsPage == [hook |-> UseCreditCards, dialog |-> CreditCardFormDialog]
AdminAccountsPage == [hook |-> UseAdminAccounts, dialog |-> AccountFormDialog]
AccountsPage == [hook |-> UseAccounts, dialog |-> "none"]

CONSTANT Pages      \* the pages this instance opens

ASSUME PagesAssumption ==
    Pages \subseteq {CategoriesPage, BanksPage, RecurringBillsPage, TaxRulesPage, IncomeSourcesPage,
                     InvestmentAccountsPage, PortfoliosPage, AssetsPage, BrokersPage, CreditCardsPage,
                     AdminAccountsPage, AccountsPage}

Offers(op) == op \in page.hook.writes

----------------------------------------------------------------------------
(* A dialog: the record a save goes to, the one its fields were filled from,  *)
(* and the change they show; valid: every required field is right; early: it  *)
(* was opened with a request under way.                                     *)

NoForm == [row |-> None, filledFor |-> None, seen |-> Absent, early |-> FALSE, valid |-> FALSE,
           status |-> "closed"]

NoQuestion == [row |-> None, seen |-> Absent, early |-> FALSE, status |-> "closed"]

Free == [op |-> "free", row |-> None, filledFor |-> None, seen |-> Absent, early |-> FALSE,
         is |-> "sent", content |-> None, mine |-> FALSE]

Fetch == [Free EXCEPT !.op = "fetch"]

Writes == {"create", "update", "setCostBasisMethod", "deactivate", "delete"}

UnderWay == {i \in Slots : requests[i].op # "free"}

FreeSlot == CHOOSE i \in Slots : requests[i].op = "free"

HasRoom == UnderWay # Slots

Dialog == form.status # "closed" \/ question.status # "closed"

\* The rows and their buttons; a dialog is modal.
RowsShown == ~isLoading /\ ~error /\ ~Dialog

\* Two requests of the page are under way at once.
Overlapped(rs) ==
    IF \E i \in Slots : rs[i].op # "free" THEN mishaps \union {"overlap"} ELSE mishaps

\* A fetch that has the page to itself reads what there is.
MishapsAtFetch(rs) ==
    IF \E i \in Slots : rs[i].op # "free" THEN mishaps \union {"overlap"}
    ELSE mishaps \ {"overlap", "lost"}

Sent(request) == [requests EXCEPT ![FreeSlot] = request]

\* No dialog waits for any of the requests rs.
NoneMine(rs) == [i \in Slots |-> [rs[i] EXCEPT !.mine = FALSE]]

Init ==
    /\ page \in Pages
    /\ server \in [Rows -> {Absent, 0}] /\ changes = 0
    /\ listed = [r \in Rows |-> Absent] /\ isLoading = TRUE /\ error = FALSE
    /\ form = NoForm /\ question = NoQuestion /\ pendingId = None
    /\ \E i \in Slots : requests = [j \in Slots |-> IF j = i THEN Fetch ELSE Free]
    /\ mishaps = {}

----------------------------------------------------------------------------
(* Reading the list.                                                        *)

Retry ==
    /\ error /\ ~isLoading /\ ~Dialog /\ HasRoom
    /\ isLoading' = TRUE /\ error' = FALSE
    /\ requests' = Sent(Fetch) /\ mishaps' = MishapsAtFetch(requests)
    /\ UNCHANGED <<page, listed, form, question, pendingId, server, changes>>

\* The server answers a read.
AnswerRead(i) ==
    LET r == requests[i]
    IN /\ (r.op = "fetch" /\ r.is = "sent") \/ r.is = "rereading"
       /\ requests' = [requests EXCEPT ![i].content = server,
                                       ![i].is = IF r.op = "fetch" THEN "read" ELSE "reread"]
       /\ UNCHANGED <<page, listVars, form, question, pendingId, server, changes, mishaps>>

\* FETCH_SUCCESS leaves the error of an earlier failure; FETCH_ERROR leaves the data.
ListAnswered(r) ==
    /\ isLoading' = FALSE
    /\ \/ r.content # None /\ listed' = r.content /\ UNCHANGED error
       \/ r.content = None /\ error' = TRUE /\ UNCHANGED listed

FetchAnswered(i) ==
    LET r == requests[i]
    IN /\ r.op = "fetch" /\ ListAnswered(r)
       /\ requests' = [requests EXCEPT ![i] = Free]
       /\ UNCHANGED <<page, form, question, pendingId, server, changes, mishaps>>

----------------------------------------------------------------------------
(* The dialog.                                                             *)

OpenForm(row, seen) ==
    /\ form' = [row |-> row, filledFor |-> row, seen |-> seen, early |-> UnderWay # {},
                valid |-> row # NewRow \/ page.dialog.required = {}, status |-> "idle"]
    /\ mishaps' = IF \E i \in Slots : requests[i].op \in Writes \ {"delete"}
                    THEN mishaps ELSE mishaps \ {"dismissed"}
    /\ UNCHANGED <<page, listVars, question, pendingId, server, changes, requests>>

ShowCreate == Offers("create") /\ ~Dialog /\ OpenForm(NewRow, Absent)

ShowEdit ==
    /\ Offers("update") /\ RowsShown
    /\ \E r \in Rows : listed[r] # Absent /\ OpenForm(r, listed[r])

\* The fields are disabled while the dialog is saving.
EditFields ==
    /\ form.status \in {"idle", "error"} /\ page.dialog.required # {}
    /\ form' = [form EXCEPT !.valid = ~form.valid]
    /\ UNCHANGED <<page, listVars, question, pendingId, server, changes, requests, mishaps>>

Dismiss ==
    /\ form.status # "closed"
    /\ page.dialog.guarded => form.status # "saving"
    /\ form' = NoForm
    /\ requests' = NoneMine(requests)
    /\ mishaps' = IF form.status = "saving" THEN mishaps \union {"dismissed"} ELSE mishaps
    /\ UNCHANGED <<page, listVars, question, pendingId, server, changes>>

\* useDialogSubmit: the save goes to the record the page says is being edited.
Submit ==
    /\ form.status \in {"idle", "error"} /\ form.valid /\ HasRoom
    /\ form' = [form EXCEPT !.status = "saving"]
    /\ requests' = Sent([Free EXCEPT !.op = IF form.row = NewRow THEN "create" ELSE "update",
                                     !.row = form.row, !.filledFor = form.filledFor,
                                     !.seen = form.seen, !.early = form.early, !.mine = TRUE])
    /\ mishaps' = Overlapped(requests)
    /\ UNCHANGED <<page, listVars, question, pendingId, server, changes>>

ShowErrors ==
    /\ form.status \in {"idle", "error"} /\ ~form.valid /\ page.dialog.checks = "onSave"
    /\ form' = [form EXCEPT !.status = "error"]
    /\ UNCHANGED <<page, listVars, question, pendingId, server, changes, requests, mishaps>>

----------------------------------------------------------------------------
(* The server. A write is carried out once, and answered or not.            *)

CarryOut(i, answered) ==
    LET r == requests[i]
        new == changes + 1
    IN /\ r.op \in Writes /\ r.is = "sent" /\ changes < MaxChanges
       /\ IF r.op = "create"
            THEN \E row \in Rows : server[row] = Absent /\ server' = [server EXCEPT ![row] = new]
            ELSE /\ server[r.row] # Absent
                 /\ \E keeps \in (IF r.op = "delete" THEN page.hook.keepsDeleted ELSE {TRUE}) :
                       server' = [server EXCEPT ![r.row] = IF keeps THEN new ELSE Absent]
       /\ changes' = new
       /\ requests' = [requests EXCEPT ![i].is = IF answered THEN "done" ELSE "lost",
                                       ![i].seen = IF r.op = "create" THEN Absent ELSE new]
       /\ mishaps' = IF answered THEN mishaps ELSE mishaps \union {"lost"}
       /\ UNCHANGED <<page, listVars, form, question, pendingId>>

Fails(r) == r.is \in {"sent", "lost"}

----------------------------------------------------------------------------
(* The answers to writes.                                                   *)

\* refresh with "reload": the list is hidden and read again by a new fetch.
Reload(i) ==
    /\ isLoading' = TRUE /\ error' = FALSE /\ UNCHANGED listed
    /\ mishaps' = MishapsAtFetch([requests EXCEPT ![i] = Free])

\* Mutant: the list is not read again.
SaveAnsweredMutant(i) ==
    LET r == requests[i]
    IN /\ page.hook.refresh = "reload"
       /\ r.op \in {"create", "update", "setCostBasisMethod"} /\ r.is = "done"
       /\ form' = NoForm
       /\ requests' = NoneMine([requests EXCEPT ![i] = Free])
       /\ UNCHANGED <<page, listVars, question, pendingId, server, changes, mishaps>>

\* The answer to a save, with "reload": the page closes whatever dialog is open, not
\* just the one that sent it.
SaveAnswered(i) ==
    LET r == requests[i]
    IN /\ page.hook.refresh = "reload"
       /\ r.op \in {"create", "update", "setCostBasisMethod"} /\ r.is = "done"
       /\ form' = NoForm
       /\ requests' = NoneMine([requests EXCEPT ![i] = Fetch])
       /\ Reload(i)
       /\ UNCHANGED <<page, question, pendingId, server, changes>>

\* A broker's new method is sent after its other fields were answered. Until then the
\* page edits the broker that was answered, in whatever dialog is open by then.
MethodFollows(i) ==
    LET r == requests[i]
        open == form.status # "closed"
    IN /\ Offers("setCostBasisMethod") /\ r.op = "update" /\ r.is = "done" /\ HasRoom
       /\ form' = [form EXCEPT !.row = r.row, !.seen = r.seen, !.early = form.early \/ ~r.mine,
                               !.filledFor = IF open THEN form.filledFor ELSE r.row,
                               !.valid = IF open THEN form.valid ELSE TRUE,
                               !.status = IF open THEN form.status ELSE "idle"]
       /\ requests' = [Sent([Free EXCEPT !.op = "setCostBasisMethod", !.row = r.row,
                                         !.filledFor = r.filledFor, !.seen = r.seen,
                                         !.early = r.early, !.mine = r.mine])
                         EXCEPT ![i] = Fetch]
       /\ isLoading' = TRUE /\ error' = FALSE
       /\ mishaps' = mishaps \union {"overlap"}
       /\ UNCHANGED <<page, listed, question, pendingId, server, changes>>

\* With "silent" the dialog stays until the list is read again.
SaveReread(i) ==
    LET r == requests[i]
    IN /\ page.hook.refresh = "silent" /\ r.op \in Writes \ {"delete"} /\ r.is = "done"
       /\ requests' = [requests EXCEPT ![i].is = "rereading"]
       /\ mishaps' = MishapsAtFetch([requests EXCEPT ![i] = Free])
       /\ UNCHANGED <<page, listVars, form, question, pendingId, server, changes>>

RereadAnswered(i) ==
    LET r == requests[i]
    IN /\ r.op \in Writes \ {"delete"} /\ r.is \in {"rereading", "reread"} /\ ListAnswered(r)
       /\ IF r.op = "deactivate" THEN question' = NoQuestion /\ UNCHANGED form
                                 ELSE form' = NoForm /\ UNCHANGED question
       /\ requests' = [NoneMine(requests) EXCEPT ![i] = Free]
       /\ UNCHANGED <<page, pendingId, server, changes, mishaps>>

\* Mutant: a save that failed makes the dialog one that creates.
SaveFailedForgetsRow(i) ==
    LET r == requests[i]
    IN /\ r.op \in {"create", "update", "setCostBasisMethod"} /\ Fails(r)
       /\ form' = IF r.mine THEN [form EXCEPT !.status = "error", !.row = NewRow] ELSE form
       /\ requests' = [requests EXCEPT ![i] = Free]
       /\ UNCHANGED <<page, listVars, question, pendingId, server, changes, mishaps>>

\* Mutant: a save that failed leaves its dialog saving.
SaveFailedStaysBusy(i) ==
    LET r == requests[i]
    IN /\ r.op \in {"create", "update", "setCostBasisMethod"} /\ Fails(r)
       /\ requests' = [requests EXCEPT ![i] = Free]
       /\ UNCHANGED <<page, listVars, form, question, pendingId, server, changes, mishaps>>

\* A dialog that was dismissed does not hear of it.
SaveFailed(i) ==
    LET r == requests[i]
    IN /\ r.op \in {"create", "update", "setCostBasisMethod"} /\ Fails(r)
       /\ form' = IF r.mine THEN [form EXCEPT !.status = "error"] ELSE form
       /\ requests' = [requests EXCEPT ![i] = Free]
       /\ UNCHANGED <<page, listVars, question, pendingId, server, changes, mishaps>>

----------------------------------------------------------------------------
(* Deleting. One row at most has its button disabled.                       *)

RequestDelete ==
    /\ Offers("delete") /\ RowsShown
    /\ \E r \in Rows \ {pendingId} :
          /\ listed[r] # Absent
          /\ question' = [row |-> r, seen |-> listed[r], early |-> UnderWay # {}, status |-> "idle"]
    /\ UNCHANGED <<page, listVars, form, pendingId, server, changes, requests, mishaps>>

CancelDelete ==
    /\ question.status \in {"idle", "error"}
    /\ question' = NoQuestion
    /\ UNCHANGED <<page, listVars, form, pendingId, server, changes, requests, mishaps>>

\* runPendingMutation
ConfirmDelete ==
    /\ question.status = "idle" /\ HasRoom
    /\ question' = NoQuestion
    /\ pendingId' = question.row
    /\ requests' = Sent([Free EXCEPT !.op = "delete", !.row = question.row,
                                     !.filledFor = question.row, !.seen = question.seen])
    /\ mishaps' = Overlapped(requests)
    /\ UNCHANGED <<page, listVars, form, server, changes>>

\* Mutant: the list is not read again.
DeleteAnsweredMutant(i) ==
    LET r == requests[i]
    IN /\ r.op = "delete" /\ r.is = "done"
       /\ pendingId' = None
       /\ requests' = [requests EXCEPT ![i] = Free]
       /\ UNCHANGED <<page, listVars, form, question, server, changes, mishaps>>

DeleteAnswered(i) ==
    LET r == requests[i]
    IN /\ r.op = "delete" /\ r.is = "done"
       /\ pendingId' = None
       /\ requests' = [requests EXCEPT ![i] = Fetch]
       /\ IF page.hook.refresh = "reload" THEN Reload(i)
          ELSE mishaps' = MishapsAtFetch([requests EXCEPT ![i] = Free]) /\ UNCHANGED listVars
       /\ UNCHANGED <<page, form, question, server, changes>>

DeleteFailed(i) ==
    LET r == requests[i]
    IN /\ r.op = "delete" /\ Fails(r)
       /\ pendingId' = None
       /\ requests' = [requests EXCEPT ![i] = Free]
       /\ UNCHANGED <<page, listVars, form, question, server, changes, mishaps>>

\* An account with transactions is deactivated instead, by sending the listed copy of
\* it back; the question stays, busy, until the list is read again.
Deactivate ==
    /\ Offers("deactivate") /\ question.status \in {"idle", "error"} /\ HasRoom
    /\ question' = [question EXCEPT !.status = "busy"]
    /\ requests' = Sent([Free EXCEPT !.op = "deactivate", !.row = question.row,
                                     !.filledFor = question.row, !.seen = question.seen,
                                     !.early = question.early])
    /\ mishaps' = Overlapped(requests)
    /\ UNCHANGED <<page, listVars, form, pendingId, server, changes>>

DeactivateFailed(i) ==
    LET r == requests[i]
    IN /\ r.op = "deactivate" /\ Fails(r)
       /\ question' = [question EXCEPT !.status = "error"]
       /\ requests' = [requests EXCEPT ![i] = Free]
       /\ UNCHANGED <<page, listVars, form, pendingId, server, changes, mishaps>>

----------------------------------------------------------------------------
Next ==
    \/ Retry \/ ShowCreate \/ ShowEdit \/ EditFields \/ Dismiss \/ Submit \/ ShowErrors
    \/ RequestDelete \/ CancelDelete \/ ConfirmDelete \/ Deactivate
    \/ \E i \in Slots :
          \/ AnswerRead(i) \/ FetchAnswered(i)
          \/ \E answered \in BOOLEAN : CarryOut(i, answered)
          \/ SaveAnswered(i) \/ MethodFollows(i) \/ SaveReread(i) \/ RereadAnswered(i)
          \/ SaveFailed(i) \/ DeleteAnswered(i) \/ DeleteFailed(i) \/ DeactivateFailed(i)

Spec == Init /\ [][Next]_vars

----------------------------------------------------------------------------
Versions == {Absent} \union 0..MaxChanges

Targets == Rows \union {NewRow, None}

FormRecord ==
    [row : Targets, filledFor : Targets, seen : Versions, early : BOOLEAN, valid : BOOLEAN,
     status : {"closed", "idle", "saving", "error"}]

QuestionRecord ==
    [row : Rows \union {None}, seen : Versions, early : BOOLEAN,
     status : {"closed", "idle", "busy", "error"}]

RequestRecord ==
    [op : {"free", "fetch"} \union Writes, row : Targets, filledFor : Targets, seen : Versions,
     early : BOOLEAN, is : {"sent", "read", "done", "lost", "rereading", "reread"},
     content : [Rows -> Versions] \union {None}, mine : BOOLEAN]

\* The list, the dialogs and the requests keep their shape.
TypeOK ==
    /\ page \in Pages
    /\ isLoading \in BOOLEAN /\ error \in BOOLEAN
    /\ listed \in [Rows -> Versions] /\ server \in [Rows -> Versions]
    /\ form \in FormRecord /\ question \in QuestionRecord
    /\ pendingId \in Rows \union {None}
    /\ changes \in 0..MaxChanges
    /\ requests \in [Slots -> RequestRecord]
    /\ mishaps \subseteq {"overlap", "lost", "dismissed"}

\* A list that is shown while nothing is under way is the server's, unless two requests
\* of the page overlapped or the answer to a write was lost.
ListIsCurrentWhenQuiet ==
    (UnderWay = {} /\ ~isLoading /\ ~error /\ mishaps \intersect {"overlap", "lost"} = {})
      => listed = server

\* Every save sends all the fields of a record, so it must have been filled from the
\* last version of it: otherwise it takes back what another save has changed. No page
\* does that, unless two of its requests overlapped, an answer was lost, or the dialog
\* was opened while a request was under way.
EditsBuildOnLatest ==
    \A i \in Slots :
        LET r == requests[i]
        IN (r.op \in {"update", "setCostBasisMethod", "deactivate"} /\ r.is = "sent"
              /\ ~r.early /\ mishaps \intersect {"overlap", "lost"} = {})
             => r.seen = server[r.row]

\* What is saved goes to the record the dialog was filled from, unless a dialog was
\* dismissed while it was saving.
SaveKeepsToItsRecord ==
    \A i \in Slots :
        (requests[i].op \in Writes /\ "dismissed" \notin mishaps)
          => requests[i].filledFor = requests[i].row

\* No dialog is left with its buttons disabled: one that is saving waits for a request.
SavingIsAnswered ==
    /\ form.status = "saving" => \E i \in UnderWay : requests[i].mine
    /\ question.status = "busy" => \E i \in UnderWay : requests[i].op = "deactivate"
=============================================================================
