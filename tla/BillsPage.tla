------------------------------ MODULE BillsPage ------------------------------
(***************************************************************************)
(* The page of the recurring bills: useMensais, MensaisPage and the prompt   *)
(* that records an expense when a UK bill is paid, with MensaisService, which  *)
(* checks a payment before it waits for its turn to make it. A bill is its    *)
(* status; the hook takes every answer in the order of arrival, and has one     *)
(* updatingStatusBillId for all the bills.                                   *)
(***************************************************************************)
EXTENDS Integers, FiniteSets

CONSTANTS
    Bills, UkBills,     \* the bills there may be, and those of the UK
    Statuses,           \* the statuses a bill may have
    NoBill,
    Slots,              \* bound: requests of the page under way
    MaxWrites           \* bound: changes the server accepts

ASSUME BillsAssumption ==
    /\ UkBills \subseteq Bills /\ NoBill \notin Bills
    /\ {"Unset", "Paid"} \subseteq Statuses /\ "Gone" \notin Statuses
    /\ MaxWrites \in Nat

VARIABLES
    mensais,        \* what the hook keeps
    stored,         \* the server's bills: [Bills -> status, or "Gone"]
    expenses,       \* [Bills -> expenses recorded since the bill was last made unpaid]
    writes,         \* changes the server has made
    calls,          \* [Slots -> request], NoCall where nothing is under way
    troubles        \* why the page or the expenses may be wrong

billVars == <<mensais, stored, expenses, writes, calls, troubles>>

----------------------------------------------------------------------------
NoCall == [op |-> "none", bill |-> NoBill, status |-> "Unset", expense |-> FALSE,
           touched |-> FALSE, is |-> "sent", content |-> <<>>]

FetchBills == [NoCall EXCEPT !.op = "fetch"]

NoEdit == [bill |-> NoBill, status |-> "Unset", touched |-> FALSE]

UseMensais == [bills |-> [b \in Bills |-> "Gone"], isLoading |-> TRUE, error |-> FALSE,
               edit |-> NoEdit, isSaving |-> FALSE,
               isAddFormOpen |-> FALSE, isAdding |-> FALSE,
               deletingBillId |-> NoBill, isResetting |-> FALSE,
               updatingStatusBillId |-> NoBill, expensePromptBill |-> NoBill]

UnderWayCalls == {i \in Slots : calls[i].op # "none"}

MayCall == UnderWayCalls # Slots

FreeCall == CHOOSE i \in Slots : calls[i].op = "none"

Called(call) == [calls EXCEPT ![FreeCall] = call]

TroublesAtCall(cs) ==
    IF \E i \in Slots : cs[i].op # "none" THEN troubles \union {"overlap"} ELSE troubles

\* A fetch that has the page to itself reads what there is.
TroublesAtFetch(cs) ==
    IF \E i \in Slots : cs[i].op # "none" THEN troubles \union {"overlap"}
    ELSE troubles \ {"overlap", "lost"}

RowsAreShown == ~mensais.isLoading /\ ~mensais.error /\ mensais.expensePromptBill = NoBill

BillsInit ==
    /\ mensais = UseMensais
    /\ stored \in [Bills -> {"Gone", "Unset"}]
    /\ expenses = [b \in Bills |-> 0] /\ writes = 0
    /\ \E i \in Slots : calls = [j \in Slots |-> IF j = i THEN FetchBills ELSE NoCall]
    /\ troubles = {}

----------------------------------------------------------------------------
(* Reading.                                                                 *)

RetryBills ==
    /\ mensais.error /\ ~mensais.isLoading /\ mensais.expensePromptBill = NoBill /\ MayCall
    /\ mensais' = [mensais EXCEPT !.isLoading = TRUE, !.error = FALSE]
    /\ calls' = Called(FetchBills) /\ troubles' = TroublesAtFetch(calls)
    /\ UNCHANGED <<stored, expenses, writes>>

ReadBills(i) ==
    /\ calls[i].op = "fetch" /\ calls[i].is = "sent"
    /\ calls' = [calls EXCEPT ![i].is = "read", ![i].content = stored]
    /\ UNCHANGED <<mensais, stored, expenses, writes, troubles>>

\* FETCH_SUCCESS leaves the error of an earlier failure, FETCH_ERROR the bills.
BillsAnswered(i) ==
    LET c == calls[i]
    IN /\ c.op = "fetch"
       /\ mensais' = IF c.is = "read" THEN [mensais EXCEPT !.isLoading = FALSE, !.bills = c.content]
                                      ELSE [mensais EXCEPT !.isLoading = FALSE, !.error = TRUE]
       /\ calls' = [calls EXCEPT ![i] = NoCall]
       /\ UNCHANGED <<stored, expenses, writes, troubles>>

----------------------------------------------------------------------------
(* The edit panel. It sends the status it was opened with unless the user      *)
(* picks another; cancelling it, or opening another bill, leaves isSaving.    *)

ShowEditBill ==
    /\ RowsAreShown
    /\ \E b \in Bills :
          /\ mensais.bills[b] # "Gone"
          /\ mensais' = [mensais EXCEPT !.edit = [bill |-> b, status |-> mensais.bills[b],
                                                  touched |-> FALSE]]
    /\ UNCHANGED <<stored, expenses, writes, calls, troubles>>

SetEditStatus ==
    /\ mensais.edit.bill # NoBill /\ mensais.expensePromptBill = NoBill
    /\ \E s \in Statuses : mensais' = [mensais EXCEPT !.edit.status = s, !.edit.touched = TRUE]
    /\ UNCHANGED <<stored, expenses, writes, calls, troubles>>

CancelEdit ==
    /\ mensais.edit.bill # NoBill /\ mensais.expensePromptBill = NoBill
    /\ mensais' = [mensais EXCEPT !.edit = NoEdit]
    /\ UNCHANGED <<stored, expenses, writes, calls, troubles>>

\* A bill that is no longer listed is not saved.
SaveBillEdit ==
    LET e == mensais.edit
    IN /\ e.bill # NoBill /\ ~mensais.isSaving /\ mensais.expensePromptBill = NoBill /\ MayCall
       /\ mensais.bills[e.bill] # "Gone"
       /\ mensais' = [mensais EXCEPT !.isSaving = TRUE]
       /\ calls' = Called([NoCall EXCEPT !.op = "update", !.bill = e.bill, !.status = e.status,
                                         !.touched = e.touched])
       /\ troubles' = TroublesAtCall(calls)
       /\ UNCHANGED <<stored, expenses, writes>>

----------------------------------------------------------------------------
(* Adding, deleting and resetting.                                          *)

ShowAddForm ==
    /\ mensais.expensePromptBill = NoBill
    /\ mensais' = [mensais EXCEPT !.isAddFormOpen = TRUE]
    /\ UNCHANGED <<stored, expenses, writes, calls, troubles>>

CancelAdd ==
    /\ mensais.isAddFormOpen /\ mensais.expensePromptBill = NoBill
    /\ mensais' = [mensais EXCEPT !.isAddFormOpen = FALSE]
    /\ UNCHANGED <<stored, expenses, writes, calls, troubles>>

SubmitAdd ==
    /\ mensais.isAddFormOpen /\ ~mensais.isAdding /\ mensais.expensePromptBill = NoBill /\ MayCall
    /\ mensais' = [mensais EXCEPT !.isAdding = TRUE]
    /\ calls' = Called([NoCall EXCEPT !.op = "add"]) /\ troubles' = TroublesAtCall(calls)
    /\ UNCHANGED <<stored, expenses, writes>>

DeleteBill ==
    /\ RowsAreShown /\ MayCall
    /\ \E b \in Bills \ {mensais.deletingBillId} :
          /\ mensais.bills[b] # "Gone"
          /\ mensais' = [mensais EXCEPT !.deletingBillId = b]
          /\ calls' = Called([NoCall EXCEPT !.op = "delete", !.bill = b])
    /\ troubles' = TroublesAtCall(calls)
    /\ UNCHANGED <<stored, expenses, writes>>

ResetAllToUnset ==
    /\ ~mensais.isResetting /\ mensais.expensePromptBill = NoBill /\ MayCall
    /\ mensais' = [mensais EXCEPT !.isResetting = TRUE]
    /\ calls' = Called([NoCall EXCEPT !.op = "reset"]) /\ troubles' = TroublesAtCall(calls)
    /\ UNCHANGED <<stored, expenses, writes>>

----------------------------------------------------------------------------
(* The status of a bill. A UK bill that becomes Paid opens the prompt, whose  *)
(* buttons are disabled while updatingStatusBillId is its bill; Escape is not.  *)

Pays(b, s) == b \in UkBills /\ s = "Paid" /\ mensais.bills[b] # "Paid"

\* UPDATE_STATUS_START
StatusStarted(call) ==
    /\ mensais' = [mensais EXCEPT !.updatingStatusBillId = call.bill]
    /\ calls' = Called(call)
    /\ troubles' =
         IF call.op = "markPaid" /\ \E i \in Slots : calls[i].op = "markPaid" /\ calls[i].bill = call.bill
           THEN TroublesAtCall(calls) \union {"paidTwice"} ELSE TroublesAtCall(calls)
    /\ UNCHANGED <<stored, expenses, writes>>

UpdateBillStatus ==
    /\ RowsAreShown
    /\ \E b \in Bills \ {mensais.updatingStatusBillId}, s \in Statuses :
          /\ mensais.bills[b] # "Gone"
          /\ \/ /\ Pays(b, s)
                /\ mensais' = [mensais EXCEPT !.expensePromptBill = b]
                /\ UNCHANGED <<stored, expenses, writes, calls, troubles>>
             \/ /\ ~Pays(b, s) /\ MayCall
                /\ StatusStarted([NoCall EXCEPT !.op = "status", !.bill = b, !.status = s])

\* Confirm records an expense, Skip does not.
MarkBillPaid ==
    LET b == mensais.expensePromptBill
    IN /\ b # NoBill /\ mensais.updatingStatusBillId # b /\ MayCall
       /\ \E expense \in BOOLEAN :
             StatusStarted([NoCall EXCEPT !.op = "markPaid", !.bill = b, !.status = "Paid",
                                          !.expense = expense])

CloseExpensePrompt ==
    /\ mensais.expensePromptBill # NoBill
    /\ mensais' = [mensais EXCEPT !.expensePromptBill = NoBill]
    /\ UNCHANGED <<stored, expenses, writes, calls, troubles>>

----------------------------------------------------------------------------
(* MensaisService. Each method checks, then waits for its turn to change the  *)
(* bills and save them.                                                     *)

Finds(c) == c.bill # NoBill => stored[c.bill] # "Gone"
\* Mutant: it is not looked whether the bill is paid already.
CheckCallMutant(i) ==
    LET c == calls[i]
    IN /\ c.op \notin {"none", "fetch"} /\ c.is = "sent" /\ Finds(c)
       /\ calls' = [calls EXCEPT ![i].is = "checked",
                                 ![i].content = IF c.op = "reset" THEN stored ELSE c.content]
       /\ UNCHANGED <<mensais, stored, expenses, writes, troubles>>

\* BuildPaymentExpense: a bill that is paid takes no other expense. A reset takes the
\* bills there are.
CheckCall(i) ==
    LET c == calls[i]
    IN /\ c.op \notin {"none", "fetch"} /\ c.is = "sent" /\ Finds(c)
       /\ c.expense => stored[c.bill] # "Paid"
       /\ calls' = [calls EXCEPT ![i].is = "checked",
                                 ![i].content = IF c.op = "reset" THEN stored ELSE c.content]
       /\ UNCHANGED <<mensais, stored, expenses, writes, troubles>>

\* A bill that is added is none there has been: it takes a name that nothing remembers.
Remembered(b) ==
    \/ mensais.bills[b] # "Gone"
    \/ b \in {mensais.edit.bill, mensais.deletingBillId, mensais.updatingStatusBillId,
              mensais.expensePromptBill}
    \/ \E i \in Slots : calls[i].bill = b \/ (calls[i].content # <<>> /\ calls[i].content[b] # "Gone")

NewBills == {b \in Bills : stored[b] = "Gone" /\ ~Remembered(b)}

Applied(c) ==
    CASE c.op = "add" -> {[stored EXCEPT ![b] = "Unset"] : b \in NewBills}
      [] c.op = "delete" -> {[stored EXCEPT ![c.bill] = "Gone"]}
      [] c.op = "reset" -> {[b \in Bills |->
                                IF "Gone" \in {stored[b], c.content[b]} THEN stored[b] ELSE "Unset"]}
      [] OTHER -> {[stored EXCEPT ![c.bill] = IF stored[c.bill] = "Gone" THEN "Gone" ELSE c.status]}

\* A bill that becomes unpaid may be paid again: unless it became so by an edit of which
\* the user did not choose the status. One that is added was never paid.
Unpaid(old, new) ==
    {b \in Bills : (old[b] = "Paid" /\ new[b] # "Paid") \/ (old[b] = "Gone" /\ new[b] # "Gone")}

ApplyCall(i, answered) ==
    LET c == calls[i]
    IN /\ c.is = "checked" /\ writes < MaxWrites
       /\ stored' \in Applied(c)
       /\ LET unpaid == Unpaid(stored, stored')
              chosen == c.op # "update" \/ c.touched
          IN /\ expenses' = [b \in Bills |->
                   IF b \in unpaid /\ chosen THEN 0
                   ELSE IF c.expense /\ b = c.bill THEN expenses[b] + 1 ELSE expenses[b]]
             /\ troubles' = troubles
                    \union (IF unpaid # {} /\ ~chosen THEN {"staleStatus"} ELSE {})
                    \union (IF answered THEN {} ELSE {"lost"})
       /\ writes' = writes + 1
       /\ calls' = [calls EXCEPT ![i].is = IF answered THEN "done" ELSE "lost",
                                 ![i].content = IF c.op = "reset"
                                     THEN [b \in Bills |-> IF @[b] = "Gone" THEN "Gone" ELSE "Unset"]
                                     ELSE @]
       /\ UNCHANGED mensais

----------------------------------------------------------------------------
(* The answers.                                                             *)

\* refreshSilently
Reread(i) == [calls EXCEPT ![i] = FetchBills]

TroublesAtReread(i) == TroublesAtFetch([calls EXCEPT ![i] = NoCall])

\* SAVE_SUCCESS closes the panel, whichever bill it has by then; ADD_SUCCESS the other.
BillSaved(i) ==
    LET c == calls[i]
    IN /\ c.op \in {"update", "add", "delete"} /\ c.is = "done"
       /\ mensais' = CASE c.op = "update" -> [mensais EXCEPT !.isSaving = FALSE, !.edit = NoEdit]
                       [] c.op = "add" -> [mensais EXCEPT !.isAdding = FALSE, !.isAddFormOpen = FALSE]
                       [] OTHER -> [mensais EXCEPT !.deletingBillId = NoBill]
       /\ calls' = Reread(i) /\ troubles' = TroublesAtReread(i)
       /\ UNCHANGED <<stored, expenses, writes>>

\* RESET_SUCCESS takes the answer for the list.
ResetAnswered(i) ==
    /\ calls[i].op = "reset" /\ calls[i].is = "done"
    /\ mensais' = [mensais EXCEPT !.isResetting = FALSE, !.bills = calls[i].content]
    /\ calls' = [calls EXCEPT ![i] = NoCall]
    /\ UNCHANGED <<stored, expenses, writes, troubles>>
\* Mutant: the bill in the list keeps its status.
StatusAnsweredMutant(i) ==
    LET c == calls[i]
    IN /\ c.op \in {"status", "markPaid"} /\ c.is = "done"
       /\ mensais' = [mensais EXCEPT !.updatingStatusBillId = NoBill, !.expensePromptBill = NoBill]
       /\ calls' = [calls EXCEPT ![i] = NoCall]
       /\ UNCHANGED <<stored, expenses, writes, troubles>>

\* UPDATE_STATUS_SUCCESS puts the answered bill in the list. It clears the one
\* updatingStatusBillId, whichever bill that is, and closes its own bill's prompt.
StatusAnswered(i) ==
    LET c == calls[i]
    IN /\ c.op \in {"status", "markPaid"} /\ c.is = "done"
       /\ mensais' = [mensais EXCEPT
              !.updatingStatusBillId = NoBill,
              !.bills = [mensais.bills EXCEPT
                  ![c.bill] = IF mensais.bills[c.bill] = "Gone" THEN "Gone" ELSE c.status],
              !.expensePromptBill = IF @ = c.bill THEN NoBill ELSE @]
       /\ calls' = [calls EXCEPT ![i] = NoCall]
       /\ UNCHANGED <<stored, expenses, writes, troubles>>

CallFailed(i) ==
    LET c == calls[i]
    IN /\ c.op \notin {"none", "fetch"} /\ c.is \in {"sent", "checked", "lost"}
       /\ mensais' = CASE c.op = "update" -> [mensais EXCEPT !.isSaving = FALSE]
                       [] c.op = "add" -> [mensais EXCEPT !.isAdding = FALSE]
                       [] c.op = "delete" -> [mensais EXCEPT !.deletingBillId = NoBill]
                       [] c.op = "reset" -> [mensais EXCEPT !.isResetting = FALSE]
                       [] OTHER -> [mensais EXCEPT !.updatingStatusBillId = NoBill]
       /\ calls' = [calls EXCEPT ![i] = NoCall]
       /\ UNCHANGED <<stored, expenses, writes, troubles>>

BillsNext ==
    \/ RetryBills \/ ShowEditBill \/ SetEditStatus \/ CancelEdit \/ SaveBillEdit
    \/ ShowAddForm \/ CancelAdd \/ SubmitAdd \/ DeleteBill \/ ResetAllToUnset
    \/ UpdateBillStatus \/ MarkBillPaid \/ CloseExpensePrompt
    \/ \E i \in Slots :
          \/ ReadBills(i) \/ BillsAnswered(i) \/ CheckCall(i)
          \/ \E answered \in BOOLEAN : ApplyCall(i, answered)
          \/ BillSaved(i) \/ ResetAnswered(i) \/ StatusAnswered(i) \/ CallFailed(i)

----------------------------------------------------------------------------
BillsTypeOK ==
    /\ mensais \in [bills : [Bills -> Statuses \union {"Gone"}], isLoading : BOOLEAN, error : BOOLEAN,
                    edit : [bill : Bills \union {NoBill}, status : Statuses, touched : BOOLEAN],
                    isSaving : BOOLEAN, isAddFormOpen : BOOLEAN, isAdding : BOOLEAN,
                    deletingBillId : Bills \union {NoBill}, isResetting : BOOLEAN,
                    updatingStatusBillId : Bills \union {NoBill},
                    expensePromptBill : Bills \union {NoBill}]
    /\ stored \in [Bills -> Statuses \union {"Gone"}]
    /\ expenses \in [Bills -> 0..MaxWrites] /\ writes \in 0..MaxWrites
    /\ \A i \in Slots : calls[i].status \in Statuses /\ calls[i].bill \in Bills \union {NoBill}
    /\ troubles \subseteq {"overlap", "lost", "paidTwice", "staleStatus"}
=============================================================================
