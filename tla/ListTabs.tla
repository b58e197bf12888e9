------------------------------ MODULE ListTabs ------------------------------
(***************************************************************************)
(* The four tabs of the detail panel that list the records of a node and    *)
(* edit them in an inline form: transactions, credits, price history and    *)
(* corporate actions. Their hooks have one reducer in common but for the    *)
(* form, and none of them tells a late answer from the one it waits for.    *)
(***************************************************************************)
EXTENDS DetailRequests

CONSTANTS
    Filters,        \* the period filters
    DefaultFilter   \* the one a node starts with

ASSUME FiltersAssumption == DefaultFilter \in Filters

VARIABLES
    tab,            \* the list tab that is mounted, or NoTab
    types,          \* the transaction types: "loading", "loaded" or "error"
    landed          \* how often the form that is open was saved at the server

listVars == <<tab, types, landed>>

ListTabIds == {"transactions", "credits", "priceHistory", "corporateActions"}

----------------------------------------------------------------------------
(* What a tab shows.                                                       *)

\* A form is idle, is being saved, or shows why it was not saved.
NoForm == [open |-> "none", type |-> "none", step |-> "fields", status |-> "idle"]

Unloaded == [kind |-> "none", shown |-> None, loading |-> FALSE, error |-> FALSE,
             form |-> NoForm, filter |-> DefaultFilter, remembered |-> {}]

NoTab == Unloaded

\* The hooks: the types a form of theirs can have (only that of a corporate action
\* decides what the form does) and whether a period filter is remembered.
UseTransactions == [types |-> {"any"}, filtered |-> TRUE]
UseCredits == [types |-> {"any"}, filtered |-> TRUE]
UsePriceHistory == [types |-> {"any"}, filtered |-> TRUE]
UseCorporateActions == [types |-> {"Split", "Merger", "SpinOff"}, filtered |-> FALSE]

\* The forms: whether Save waits until the transaction types are loaded, and the types
\* that have a step to confirm.
TransactionForm == [waits |-> TRUE, confirmed |-> {}]
CreditForm == [waits |-> FALSE, confirmed |-> {}]
PriceForm == [waits |-> FALSE, confirmed |-> {}]
CorporateActionForm == [waits |-> FALSE, confirmed |-> {"Merger"}]

\* The tabs: the nodes for which they show the rows with their buttons, and not only
\* a chart. An asset's prices and corporate actions have no other kind of node.
TransactionsTab == [hook |-> UseTransactions, form |-> TransactionForm, rowsOf |-> Assets]
CreditsTab == [hook |-> UseCredits, form |-> CreditForm, rowsOf |-> Assets]
PriceHistoryTab == [hook |-> UsePriceHistory, form |-> PriceForm, rowsOf |-> Nodes]
CorporateActionsTab == [hook |-> UseCorporateActions, form |-> CorporateActionForm, rowsOf |-> Nodes]

ListTabOf == [transactions |-> TransactionsTab, credits |-> CreditsTab,
              priceHistory |-> PriceHistoryTab, corporateActions |-> CorporateActionsTab]

Mounted == tab.kind # "none"

View == ListTabOf[tab.kind]

\* The list with its buttons is there only when it is loaded.
ListShown == Mounted /\ ~tab.loading /\ ~tab.error /\ selectedNode \in View.rowsOf

FormShown == ListShown /\ tab.form.open # "none"

\* The form's type has a step to confirm, and the form is in it or before it.
Confirming == tab.form.type \in View.form.confirmed /\ tab.form.step = "confirm"

BeforeConfirm == tab.form.type \in View.form.confirmed /\ tab.form.step = "fields"

Saving == tab.form.status = "saving"

\* Save is disabled while the form is being saved; Cancel is not, and is missing only
\* in the step that confirms.
OffersSave == FormShown /\ ~Saving /\ (View.form.waits => types = "loaded")

OffersCancel == FormShown /\ ~Confirming

----------------------------------------------------------------------------
(* Fetching.                                                               *)

\* Mutant: a node without a remembered filter is not given the default one.
RememberedFilterMutant(t, n) ==
    LET ms == {m \in t.remembered : m.node = n}
    IN IF ms = {} THEN None ELSE (CHOOSE m \in ms : TRUE).filter

RememberedFilter(t, n) ==
    IF \E m \in t.remembered : m.node = n
      THEN (CHOOSE m \in t.remembered : m.node = n).filter
      ELSE DefaultFilter

\* FETCH_START for node n: everything but the remembered filters starts again.
FetchStarted(t, n) ==
    [Unloaded EXCEPT !.kind = t.kind, !.loading = TRUE, !.remembered = t.remembered,
                     !.filter = RememberedFilter(t, n)]

\* The requests rs without a form that waits for them.
NoneMine(rs) == [i \in Slots |-> [rs[i] EXCEPT !.mine = FALSE]]

\* The effect of the mounted tab t when node n is selected, over the requests rs.
Fetch(t, n, rs) ==
    /\ HasRoom(rs, 1)
    /\ tab' = FetchStarted(t, n)
    /\ requests' = With(NoneMine(rs), Request("load", n))
    /\ mishaps' = MishapsAtStart(rs)
    /\ landed' = 0

LoadAnswered(i) ==
    LET r == requests[i]
    IN /\ r.op = "load"
       /\ \/ r.is = "ok" /\ tab' = [tab EXCEPT !.loading = FALSE, !.shown = r.answer]
          \/ Fails(r) /\ tab' = [tab EXCEPT !.loading = FALSE, !.error = TRUE]
       /\ requests' = Without(i)
       /\ UNCHANGED <<scope, selectedNode, version, mishaps, types, landed>>

\* RETRY clears the error, and its effect fetches again.
Retry ==
    /\ Mounted /\ tab.error /\ ~tab.loading
    /\ Fetch(tab, selectedNode, requests)
    /\ UNCHANGED <<scope, selectedNode, version, types>>

TypesAnswered ==
    /\ tab.kind = "transactions" /\ types = "loading"
    /\ types' \in {"loaded", "error"}
    /\ UNCHANGED <<shared, tab, landed>>

RetryTypes ==
    /\ tab.kind = "transactions" /\ types = "error"
    /\ FormShown
    /\ types' = "loading"
    /\ UNCHANGED <<shared, tab, landed>>

----------------------------------------------------------------------------
(* The inline form.                                                        *)

\* What is under way when the form in which it was sent goes away.
SavesOfForm == {i \in UnderWay : requests[i].op \in {"save", "merge"} /\ requests[i].mine}

LeaveForm(form) ==
    /\ tab' = [tab EXCEPT !.form = form]
    /\ requests' = NoneMine(requests)
    /\ mishaps' = (mishaps \ {"abandoned"}) \union
                    (IF Live({"save", "merge"}) # {} THEN {"abandoned"} ELSE {})
    /\ landed' = 0
    /\ UNCHANGED <<scope, selectedNode, version, types>>

\* Save and cancel close the form; New and Edit stay there while it is open.
ShowNewForm ==
    /\ ListShown
    /\ \E type \in View.hook.types :
          LeaveForm([NoForm EXCEPT !.open = "new", !.type = type])

ShowEditForm ==
    /\ ListShown /\ tab.shown # None
    /\ \E type \in View.hook.types :
          LeaveForm([NoForm EXCEPT !.open = "edit", !.type = type])

CancelForm == OffersCancel /\ LeaveForm(NoForm)

\* The fields may be typed in while the form is being saved, but the type of a
\* corporate action may not be changed then. What is typed is not modelled: a form
\* that is saved passes its validation or does not.
SetActionType ==
    /\ FormShown /\ ~Saving /\ ~Confirming
    /\ \E type \in View.hook.types \ {tab.form.type} :
          tab' = [tab EXCEPT !.form.type = type]
    /\ UNCHANGED <<shared, types, landed>>

\* A validation that fails: SAVE_ERROR with the fields, and nothing is sent.
ShowFieldErrors ==
    /\ tab' = [tab EXCEPT !.form.status = "error"]
    /\ UNCHANGED <<shared, types, landed>>

Overlapping(rs) ==
    mishaps' = mishaps \union
        (IF \E i \in Slots : rs[i].op # "free" THEN {"overlap"} ELSE {})

Submit(op) ==
    /\ HasRoom(requests, 1)
    /\ tab' = [tab EXCEPT !.form.status = "saving"]
    /\ requests' = With(requests, Request(op, selectedNode))
    /\ Overlapping(requests)
    /\ UNCHANGED <<scope, selectedNode, version, types, landed>>

SaveTransaction ==
    /\ OffersSave /\ tab.kind = "transactions"
    /\ Submit("save") \/ ShowFieldErrors
\* Mutant: the button is not disabled while the credit is being saved.
SaveCreditMutant ==
    /\ FormShown /\ tab.kind = "credits"
    /\ Submit("save") \/ ShowFieldErrors

SaveCredit ==
    /\ OffersSave /\ tab.kind = "credits"
    /\ Submit("save") \/ ShowFieldErrors

SavePrice ==
    /\ OffersSave /\ tab.kind = "priceHistory"
    /\ Submit("save") \/ ShowFieldErrors

SaveSplit ==
    /\ OffersSave /\ tab.form.type = "Split"
    /\ Submit("save") \/ ShowFieldErrors

SaveSpinOff ==
    /\ OffersSave /\ tab.form.type = "SpinOff"
    /\ Submit("merge") \/ ShowFieldErrors

\* A merger is checked on the way to its confirmation and not again.
AdvanceToConfirm ==
    /\ OffersSave /\ BeforeConfirm
    /\ \/ /\ tab' = [tab EXCEPT !.form.step = "confirm", !.form.status = "idle"]
          /\ UNCHANGED <<shared, types, landed>>
       \/ ShowFieldErrors

BackToFields ==
    /\ FormShown /\ Confirming /\ ~Saving
    /\ tab' = [tab EXCEPT !.form.step = "fields", !.form.status = "idle"]
    /\ UNCHANGED <<shared, types, landed>>

SaveMerger ==
    /\ OffersSave /\ Confirming
    /\ Submit("merge")

\* SAVE_SUCCESS closes whatever form is open; SAVE_ERROR shows its message in it.
\* It is not checked that the answer is to the save of that form.
SaveAnswered(i) ==
    LET r == requests[i]
    IN /\ r.live /\ r.op \in {"save", "merge"}
       /\ \/ /\ r.is = "ok"
             /\ tab' = [tab EXCEPT !.form = NoForm, !.shown = r.answer]
             /\ landed' = 0
             /\ requests' = [NoneMine(requests) EXCEPT ![i] = Free]
             /\ UNCHANGED mishaps
          \/ \* A merger or spin-off whose answer names neither asset.
             /\ Fails(r) \/ r.op = "merge"
             /\ tab' = [tab EXCEPT !.form.status = "error"]
             /\ requests' = Without(i)
             /\ mishaps' = IF r.is = "ok" THEN mishaps \union {"lost"} ELSE mishaps
             /\ UNCHANGED landed
       /\ UNCHANGED <<scope, selectedNode, version, types>>

\* The server answers request i; a save of the open form that it carries out lands.
ServerOnList(i) ==
    /\ Server(i)
    /\ landed' = landed + (IF i \in SavesOfForm /\ version' # version THEN 1 ELSE 0)
    /\ UNCHANGED <<tab, types>>

----------------------------------------------------------------------------
(* Deleting a row, after the browser's own question.                       *)

DeleteRow ==
    /\ ListShown /\ tab.shown # None /\ HasRoom(requests, 1)
    /\ requests' = With(requests, Request("delete", selectedNode))
    /\ Overlapping(requests)
    /\ UNCHANGED <<scope, selectedNode, version, listVars>>
\* Mutant: the list is kept as it was.
DeleteAnsweredMutant(i) ==
    LET r == requests[i]
    IN /\ r.live /\ r.op = "delete" /\ (r.is = "ok" \/ Fails(r))
       /\ requests' = Without(i)
       /\ UNCHANGED <<scope, selectedNode, version, mishaps, listVars>>

DeleteAnswered(i) ==
    LET r == requests[i]
    IN /\ r.live /\ r.op = "delete"
       /\ \/ r.is = "ok" /\ tab' = [tab EXCEPT !.shown = r.answer]
          \/ Fails(r) /\ UNCHANGED tab
       /\ requests' = Without(i)
       /\ UNCHANGED <<scope, selectedNode, version, mishaps, types, landed>>

----------------------------------------------------------------------------
(* The period filter, remembered for each node in the tab's own state.     *)

Remembered(t, n, f) == {m \in t.remembered : m.node # n} \union {[node |-> n, filter |-> f]}

SetFilter ==
    /\ Mounted /\ ~tab.loading /\ ~tab.error /\ View.hook.filtered
    /\ \E f \in Filters :
          tab' = [tab EXCEPT !.filter = f, !.remembered = Remembered(tab, selectedNode, f)]
    /\ UNCHANGED <<shared, types, landed>>

----------------------------------------------------------------------------
ListTabNext ==
    \/ \E i \in Slots : LoadAnswered(i) \/ SaveAnswered(i) \/ DeleteAnswered(i)
    \/ Retry \/ TypesAnswered \/ RetryTypes
    \/ ShowNewForm \/ ShowEditForm \/ CancelForm \/ SetActionType
    \/ SaveTransaction \/ SaveCredit \/ SavePrice \/ SaveSplit \/ SaveSpinOff
    \/ AdvanceToConfirm \/ BackToFields \/ SaveMerger
    \/ DeleteRow \/ SetFilter

FormType == [open : {"none", "new", "edit"},
             type : {"none"} \union UNION {ListTabOf[k].hook.types : k \in ListTabIds},
             step : {"fields", "confirm"}, status : {"idle", "saving", "error"}]

ListTypeOK ==
    /\ tab.kind \in ListTabIds \union {"none"}
    /\ tab.shown \in Contents
    /\ {tab.loading, tab.error} \subseteq BOOLEAN
    /\ tab.form \in FormType
    /\ tab.filter \in Filters
    /\ tab.remembered \subseteq [node : Nodes, filter : Filters]
    /\ types \in {"loading", "loaded", "error"}
    /\ landed \in 0..MaxChanges
=============================================================================
