--------------------------- MODULE MonthPages_proofs ---------------------------
(***************************************************************************)
(* Theorems about MonthPages, for any number of months, rows, bills and       *)
(* requests under way: a list is of its month, and current once nothing is     *)
(* under way; a form is saved once at a time; the overdraft that is confirmed   *)
(* is the one that was asked about; a paid bill has one expense.               *)
(***************************************************************************)
EXTENDS MonthPages, FiniteSetTheorems, TLAPS

AtMostOne(S) == \A i, j \in S : i = j

----------------------------------------------------------------------------
(* The inductive invariant of the recurring bills.                          *)

Call ==
    [op : {"none", "fetch", "update", "add", "delete", "reset", "status", "markPaid"},
     bill : Bills \union {NoBill}, status : Statuses, expense : BOOLEAN, touched : BOOLEAN,
     is : {"sent", "read", "checked", "done", "lost"},
     content : [Bills -> Statuses \union {"Gone"}] \union {<<>>}]

BillsOnPage ==
    [bills : [Bills -> Statuses \union {"Gone"}], isLoading : BOOLEAN, error : BOOLEAN,
     edit : [bill : Bills \union {NoBill}, status : Statuses, touched : BOOLEAN],
     isSaving : BOOLEAN, isAddFormOpen : BOOLEAN, isAdding : BOOLEAN,
     deletingBillId : Bills \union {NoBill}, isResetting : BOOLEAN,
     updatingStatusBillId : Bills \union {NoBill},
     expensePromptBill : Bills \union {NoBill}]

BillsTyped ==
    /\ mensais \in BillsOnPage
    /\ stored \in [Bills -> Statuses \union {"Gone"}]
    /\ expenses \in [Bills -> Nat] /\ writes \in 0..MaxWrites
    /\ \A b \in Bills : expenses[b] <= writes
    /\ calls \in [Slots -> Call]
    /\ troubles \subseteq {"overlap", "lost", "paidTwice", "staleStatus"}

\* What a call is about, and how far it may have come.
CallOk(c) ==
    /\ c.op \in {"update", "delete", "status", "markPaid"} => c.bill \in Bills
    /\ c.is = "read" => c.op = "fetch"
    /\ c.is \in {"checked", "done", "lost"} => c.op \notin {"none", "fetch"}
    /\ c.is = "read" \/ (c.op = "reset" /\ c.is \in {"checked", "done"})
          => c.content \in [Bills -> Statuses \union {"Gone"}]
    /\ c.expense => c.op = "markPaid"
    /\ c.op = "markPaid" => c.status = "Paid"

LostIsKnown == \A i \in Slots : calls[i].is = "lost" => "lost" \in troubles

\* A call that has the page to itself has read, or was checked against, the bills of now.
CallsAlone ==
    "overlap" \notin troubles =>
        /\ AtMostOne(UnderWayCalls)
        /\ \A i \in Slots :
              calls[i].is = "read" \/ (calls[i].op = "reset" /\ calls[i].is \in {"checked", "done"})
                => calls[i].content = stored

\* The page has the server's bills, or will have by the answers under way: one to a
\* change of status is put in the list, the others are followed by a fetch.
BillsFollow ==
    (~mensais.isLoading /\ ~mensais.error /\ troubles \intersect {"overlap", "lost"} = {}) =>
        /\ \A i \in Slots :
              calls[i].op \in {"status", "markPaid"} /\ calls[i].is = "done" =>
                stored = [mensais.bills EXCEPT ![calls[i].bill] =
                             IF @ = "Gone" THEN "Gone" ELSE calls[i].status]
        /\ (\A i \in Slots : calls[i].op # "fetch" /\ calls[i].is # "done")
              => mensais.bills = stored

Calm == troubles \intersect {"paidTwice", "staleStatus"} = {}

\* A bill that is there and not paid has no expense, nor has one whose payment was checked,
\* and no two payments are of one bill.
ExpensesOk ==
    Calm =>
        /\ \A b \in Bills : expenses[b] <= 1
        /\ \A b \in Bills : expenses[b] = 1 => stored[b] \in {"Paid", "Gone"}
        /\ \A i \in Slots :
              calls[i].expense /\ calls[i].is = "checked" => expenses[calls[i].bill] = 0
        /\ \A i, j \in Slots :
              calls[i].op = "markPaid" /\ calls[j].op = "markPaid" /\ calls[i].bill = calls[j].bill
                => i = j

BillsIInv ==
    /\ BillsTyped
    /\ \A i \in Slots : CallOk(calls[i])
    /\ LostIsKnown /\ CallsAlone /\ BillsFollow /\ ExpensesOk

----------------------------------------------------------------------------
(* The inductive invariant of the other pages.                              *)

Operations ==
    {"none", "deleteExpense", "deleteIncome", "markStatementPaid", "unmarkStatementPaid",
     "updateCarryForwardInclusion", "deleteTransfer", "deleteAdjustment", "deleteMovement",
     "deleteEntry", "unmark", "deleteRow", "deleteOperation"}

Request ==
    [op : {"free", "fetch", "save", "row", "apply", "suggest"}, key : Keys \union {None},
     latest : BOOLEAN, is : {"sent", "read", "done", "lost", "rejected"}, content : 0..MaxChanges,
     mine : BOOLEAN, mode : {"create", "edit"}, confirmed : BOOLEAN,
     asked : {"no", "own", "other"}, what : Operations, row : Suggested \union {None},
     rest : SUBSET Suggested, ok : BOOLEAN, bad : BOOLEAN]

Form ==
    [isOpen : BOOLEAN, isSaving : BOOLEAN, mode : {"create", "edit"},
     overdraft : {"no", "own", "other"}, saved : BOOLEAN]

Panel ==
    [phase : {"closed", "loading", "ready", "applying", "completed", "error"},
     rows : [Suggested -> {"pending", "success", "error"}]]

MonthTyped ==
    /\ page \in Pages /\ used \in open.forms /\ key \in Keys
    /\ shown \in [of : Keys, at : 0..MaxChanges] \union {None}
    /\ isLoading \in BOOLEAN /\ error \in BOOLEAN
    /\ form \in Form /\ panel \in Panel /\ changes \in 0..MaxChanges
    /\ page # "MensaisPage" => pending \subseteq DisabledOps
    /\ requests \in [Slots -> Request]
    /\ mishaps \subseteq {"overlap", "lost", "dismissed", "reopened"}

\* What a request is about, and how far it may have come.
RequestOk(r) ==
    /\ r.op = "free" => r.is = "sent"
    /\ r.op # "free" => r.key \in Keys
    /\ r.op = "apply" => r.row \in Suggested
    /\ r.confirmed => r.op = "save"
    /\ r.ok => r.op = "apply"
    /\ r.is = "read" => r.op = "fetch"
    /\ r.is = "done" => r.op \in {"save", "row", "apply"}

Latched == hook # None /\ hook.latched

\* A page without a form saves nothing; only an open form asks; a form that is closed
\* while it is saving is still saving where that is latched only.
FormOk ==
    /\ hook = None => ~form.isOpen /\ Under("save") = {}
    /\ form.overdraft # "no" => form.isOpen /\ hook.asks = "form"
    /\ form.isSaving /\ ~Latched => form.isOpen

\* While a form is being saved its isSaving is true.
SavesOk ==
    Latched \/ "dismissed" \notin mishaps =>
        /\ AtMostOne(Under("save"))
        /\ Under("save") # {} => form.isSaving

\* An overdraft is asked about in the form that is being saved.
AskedOk ==
    "dismissed" \notin mishaps =>
        /\ form.overdraft # "other"
        /\ \A i \in Under("save") : requests[i].mine <=> hook.asks = "form"
        /\ \A i \in Slots : requests[i].confirmed => requests[i].asked = "own"

\* The panel of the suggested values waits for what is under way for it.
RunsOk ==
    /\ panel.phase # "closed" \/ Under("apply") \union Under("suggest") # {} => open.suggests
    /\ "reopened" \notin mishaps =>
          /\ AtMostOne(Under("apply") \union Under("suggest"))
          /\ Under("apply") # {} => panel.phase = "applying"
          /\ Under("suggest") # {} => panel.phase = "loading"

LostKnown == \A i \in Slots : requests[i].is = "lost" => "lost" \in mishaps

\* The latest read is of the key, and so is the list, where only the latest counts.
LatestOk ==
    open.list.latestOnly =>
        /\ \A i \in Slots : requests[i].op = "fetch" /\ requests[i].latest => requests[i].key = key
        /\ shown # None /\ ListShown => shown.of = key

\* A request that has the page to itself is about its key; if it has read the list, it
\* has every change.
AloneOk ==
    "overlap" \notin mishaps =>
        /\ AtMostOne(UnderWay)
        /\ \A i \in UnderWay :
              /\ requests[i].key = key
              /\ requests[i].op = "fetch" =>
                    requests[i].latest /\ (requests[i].is = "read" => requests[i].content = changes)

\* The list is read again when r is answered, or by r itself.
Brings(r) == r.op = "fetch" \/ r.is = "done" \/ r.ok

CurrentOk ==
    (mishaps \intersect {"overlap", "lost"} = {} /\ (\A i \in Slots : ~Brings(requests[i]))
        /\ shown # None /\ ListShown) => shown = [of |-> key, at |-> changes]

ListOk == LostKnown /\ LatestOk /\ AloneOk /\ CurrentOk

SavingOk == FormOk /\ SavesOk /\ AskedOk

PageOk == (\A i \in Slots : RequestOk(requests[i])) /\ ListOk /\ SavingOk /\ RunsOk

\* Next to the recurring bills nothing is changed.
OthersIdle == \A i \in Slots : requests[i].op \in {"free", "fetch"} /\ ~requests[i].confirmed

MonthIInv ==
    /\ MonthTyped
    /\ page # "MensaisPage" => PageOk
    /\ page = "MensaisPage" => OthersIdle

IInv == MonthIInv /\ BillsIInv

----------------------------------------------------------------------------
(* Steps of the page of the recurring bills.                                *)

LEMMA FreeCallIsFree ==
    ASSUME MayCall
    PROVE  FreeCall \in Slots /\ calls[FreeCall].op = "none"
  BY DEF MayCall, UnderWayCalls, FreeCall

\* What is typed into the page, and what is open on it, is none of the server's business.
LEMMA OnlyThePage ==
    ASSUME BillsIInv, mensais' \in BillsOnPage, mensais'.bills = mensais.bills,
           mensais'.isLoading = mensais.isLoading, mensais'.error = mensais.error,
           UNCHANGED <<stored, expenses, writes, calls, troubles>>
    PROVE  BillsIInv'
<1>1. BillsTyped'
  BY DEF BillsIInv, BillsTyped
<1>2. \A i \in Slots : CallOk(calls[i])'
  BY DEF BillsIInv, CallOk
<1>3. CallsAlone' /\ LostIsKnown'
  BY DEF BillsIInv, CallsAlone, LostIsKnown, UnderWayCalls
<1>4. BillsFollow'
  BY DEF BillsIInv, BillsFollow
<1>5. ExpensesOk'
  BY DEF BillsIInv, ExpensesOk, Calm
<1> QED
  BY <1>1, <1>2, <1>3, <1>4, <1>5 DEF BillsIInv

LEMMA PageSteps ==
    ASSUME BillsIInv,
           ShowEditBill \/ SetEditStatus \/ CancelEdit \/ ShowAddForm \/ CancelAdd
             \/ CloseExpensePrompt
    PROVE  BillsIInv'
<1>0. mensais \in BillsOnPage
  BY DEF BillsIInv, BillsTyped
<1> USE BillsAssumption
<1>1. CASE ShowEditBill
  <2>1. PICK b \in Bills :
            /\ mensais.bills[b] # "Gone"
            /\ mensais' = [mensais EXCEPT !.edit = [bill |-> b, status |-> mensais.bills[b],
                                                    touched |-> FALSE]]
    BY <1>1 DEF ShowEditBill
  <2>2. mensais' \in BillsOnPage
    <3>1. mensais.bills[b] \in Statuses
      BY <1>0, <2>1 DEF BillsOnPage
    <3> QED
      BY <1>0, <2>1, <3>1 DEF BillsOnPage
  <2>3. /\ mensais'.bills = mensais.bills /\ mensais'.isLoading = mensais.isLoading
        /\ mensais'.error = mensais.error
        /\ UNCHANGED <<stored, expenses, writes, calls, troubles>>
    BY <1>0, <1>1 DEF ShowEditBill, BillsOnPage
  <2> QED
    BY <2>2, <2>3, OnlyThePage
<1>2. CASE SetEditStatus
  <2>1. PICK s \in Statuses : mensais' = [mensais EXCEPT !.edit.status = s, !.edit.touched = TRUE]
    BY <1>2 DEF SetEditStatus
  <2>2. mensais' \in BillsOnPage
    BY <1>0, <2>1 DEF BillsOnPage
  <2>3. /\ mensais'.bills = mensais.bills /\ mensais'.isLoading = mensais.isLoading
        /\ mensais'.error = mensais.error
    BY <1>0, <2>1 DEF BillsOnPage
  <2> QED
    BY <1>2, <2>2, <2>3, OnlyThePage DEF SetEditStatus
<1>3. CASE CancelEdit
  BY <1>0, <1>3, OnlyThePage DEF CancelEdit, BillsOnPage, NoEdit
<1>4. CASE ShowAddForm
  BY <1>0, <1>4, OnlyThePage DEF ShowAddForm, BillsOnPage
<1>5. CASE CancelAdd
  BY <1>0, <1>5, OnlyThePage DEF CancelAdd, BillsOnPage
<1>6. CASE CloseExpensePrompt
  BY <1>0, <1>6, OnlyThePage DEF CloseExpensePrompt, BillsOnPage
<1> QED
  BY <1>1, <1>2, <1>3, <1>4, <1>5, <1>6

\* A call that is sent has the page to itself, or overlaps with another.
LEMMA Sending ==
    ASSUME BillsIInv, MayCall, NEW c \in Call, CallOk(c), c.is = "sent", c.op # "none",
           calls' = Called(c), mensais' \in BillsOnPage,
           mensais'.bills = mensais.bills,
           c.op # "fetch" => /\ mensais'.isLoading = mensais.isLoading
                             /\ mensais'.error = mensais.error
                             /\ troubles \subseteq troubles',
           UNCHANGED <<stored, expenses, writes>>,
           troubles' \subseteq {"overlap", "lost", "paidTwice", "staleStatus"},
           troubles \ {"overlap", "lost"} \subseteq troubles',
           UnderWayCalls # {} => troubles \union {"overlap"} \subseteq troubles',
           \A i \in Slots : c.op = "markPaid" /\ calls[i].op = "markPaid" /\ calls[i].bill = c.bill
                => "paidTwice" \in troubles'
    PROVE  BillsIInv'
<1> DEFINE s == FreeCall
<1>1. /\ s \in Slots /\ calls[s].op = "none"
      /\ calls \in [Slots -> Call] /\ calls' = [calls EXCEPT ![s] = c]
  BY FreeCallIsFree DEF BillsIInv, BillsTyped, Called
<1> HIDE DEF s
<1>2. calls'[s] = c /\ \A i \in Slots \ {s} : calls'[i] = calls[i]
  BY <1>1
<1>3. \A i \in Slots : CallOk(calls[i])
  BY DEF BillsIInv
<1>4. BillsTyped'
  BY <1>1 DEF BillsIInv, BillsTyped
<1>5. \A i \in Slots : CallOk(calls[i])'
  BY <1>2, <1>3
<1>9. LostIsKnown'
  BY <1>2, <1>3 DEF BillsIInv, LostIsKnown, CallOk, UnderWayCalls
<1>6. CallsAlone'
  BY <1>1, <1>2, <1>3 DEF CallsAlone, AtMostOne, UnderWayCalls, BillsIInv, CallOk
<1>7. BillsFollow'
  <2>1. CASE c.op # "fetch" /\ UnderWayCalls # {}
    BY <2>1 DEF BillsFollow
  <2>2. CASE c.op = "fetch"
    <3>1. CASE UnderWayCalls = {}
      BY <1>1, <1>2, <2>2, <3>1 DEF BillsFollow, UnderWayCalls
    <3>2. CASE UnderWayCalls # {}
      BY <3>2 DEF BillsFollow
    <3> QED
      BY <3>1, <3>2
  <2>3. CASE c.op # "fetch" /\ UnderWayCalls = {}
    <3>1. \A i \in Slots : calls[i].op = "none" /\ calls[i].is # "done"
      BY <1>3, <2>3 DEF UnderWayCalls, CallOk
    <3>2. \A i \in Slots : calls'[i].is # "done"
      BY <1>2, <3>1
    <3> QED
      BY <2>3, <3>1, <3>2 DEF BillsIInv, BillsFollow
  <2> QED
    BY <2>1, <2>2, <2>3
<1>8. ExpensesOk'
  BY <1>1, <1>2 DEF BillsIInv, ExpensesOk, Calm
<1> QED
  BY <1>4, <1>5, <1>6, <1>7, <1>8, <1>9 DEF BillsIInv

LEMMA SendingCall ==
    ASSUME BillsIInv, MayCall, NEW c \in Call, CallOk(c), c.is = "sent",
           c.op \in {"update", "add", "delete", "reset"},
           calls' = Called(c), troubles' = TroublesAtCall(calls), mensais' \in BillsOnPage,
           mensais'.bills = mensais.bills, mensais'.isLoading = mensais.isLoading,
           mensais'.error = mensais.error,
           UNCHANGED <<stored, expenses, writes>>
    PROVE  BillsIInv'
<1>1. /\ troubles' \subseteq {"overlap", "lost", "paidTwice", "staleStatus"}
      /\ troubles \subseteq troubles'
      /\ UnderWayCalls # {} => troubles \union {"overlap"} \subseteq troubles'
  BY DEF BillsIInv, BillsTyped, TroublesAtCall, UnderWayCalls
<1> QED
  BY <1>1, Sending

LEMMA SendingSteps ==
    ASSUME BillsIInv,
           RetryBills \/ SaveBillEdit \/ SubmitAdd \/ DeleteBill \/ ResetAllToUnset
    PROVE  BillsIInv'
<1>0. mensais \in BillsOnPage
  BY DEF BillsIInv, BillsTyped
<1> USE BillsAssumption
<1>1. CASE RetryBills
  <2>1. FetchBills \in Call /\ CallOk(FetchBills) /\ FetchBills.is = "sent" /\ FetchBills.op = "fetch"
    BY DEF FetchBills, NoCall, Call, CallOk
  <2>2. mensais' \in BillsOnPage /\ mensais'.bills = mensais.bills
    BY <1>0, <1>1 DEF RetryBills, BillsOnPage
  <2>3. /\ troubles' \subseteq {"overlap", "lost", "paidTwice", "staleStatus"}
        /\ troubles \ {"overlap", "lost"} \subseteq troubles'
        /\ UnderWayCalls # {} => troubles \union {"overlap"} \subseteq troubles'
    BY <1>1 DEF RetryBills, TroublesAtFetch, UnderWayCalls, BillsIInv, BillsTyped
  <2> QED
    BY <1>1, <2>1, <2>2, <2>3, Sending DEF RetryBills
<1>2. CASE SaveBillEdit
  <2> DEFINE c == [NoCall EXCEPT !.op = "update", !.bill = mensais.edit.bill,
                                 !.status = mensais.edit.status, !.touched = mensais.edit.touched]
  <2>1. c \in Call /\ CallOk(c) /\ c.is = "sent" /\ c.op = "update"
    BY <1>0, <1>2 DEF SaveBillEdit, BillsOnPage, NoCall, Call, CallOk
  <2>2. /\ mensais' \in BillsOnPage /\ mensais'.bills = mensais.bills
        /\ mensais'.isLoading = mensais.isLoading /\ mensais'.error = mensais.error
    BY <1>0, <1>2 DEF SaveBillEdit, BillsOnPage
  <2>3. MayCall /\ calls' = Called(c) /\ troubles' = TroublesAtCall(calls)
        /\ UNCHANGED <<stored, expenses, writes>>
    BY <1>2 DEF SaveBillEdit
  <2> HIDE DEF c
  <2> QED
    BY <2>1, <2>2, <2>3, SendingCall
<1>3. CASE SubmitAdd
  <2> DEFINE c == [NoCall EXCEPT !.op = "add"]
  <2>1. c \in Call /\ CallOk(c) /\ c.is = "sent" /\ c.op = "add"
    BY DEF NoCall, Call, CallOk
  <2>2. /\ mensais' \in BillsOnPage /\ mensais'.bills = mensais.bills
        /\ mensais'.isLoading = mensais.isLoading /\ mensais'.error = mensais.error
    BY <1>0, <1>3 DEF SubmitAdd, BillsOnPage
  <2>3. MayCall /\ calls' = Called(c) /\ troubles' = TroublesAtCall(calls)
        /\ UNCHANGED <<stored, expenses, writes>>
    BY <1>3 DEF SubmitAdd
  <2> HIDE DEF c
  <2> QED
    BY <2>1, <2>2, <2>3, SendingCall
<1>4. CASE DeleteBill
  <2>1. PICK b \in Bills \ {mensais.deletingBillId} :
            /\ mensais' = [mensais EXCEPT !.deletingBillId = b]
            /\ calls' = Called([NoCall EXCEPT !.op = "delete", !.bill = b])
    BY <1>4 DEF DeleteBill
  <2> DEFINE c == [NoCall EXCEPT !.op = "delete", !.bill = b]
  <2>2. c \in Call /\ CallOk(c) /\ c.is = "sent" /\ c.op = "delete"
    BY DEF NoCall, Call, CallOk
  <2>3. /\ mensais' \in BillsOnPage /\ mensais'.bills = mensais.bills
        /\ mensais'.isLoading = mensais.isLoading /\ mensais'.error = mensais.error
    BY <1>0, <2>1 DEF BillsOnPage
  <2>4. MayCall /\ troubles' = TroublesAtCall(calls) /\ UNCHANGED <<stored, expenses, writes>>
    BY <1>4 DEF DeleteBill
  <2> QED
    BY <2>1, <2>2, <2>3, <2>4, SendingCall
<1>5. CASE ResetAllToUnset
  <2> DEFINE c == [NoCall EXCEPT !.op = "reset"]
  <2>1. c \in Call /\ CallOk(c) /\ c.is = "sent" /\ c.op = "reset"
    BY DEF NoCall, Call, CallOk
  <2>2. /\ mensais' \in BillsOnPage /\ mensais'.bills = mensais.bills
        /\ mensais'.isLoading = mensais.isLoading /\ mensais'.error = mensais.error
    BY <1>0, <1>5 DEF ResetAllToUnset, BillsOnPage
  <2>3. MayCall /\ calls' = Called(c) /\ troubles' = TroublesAtCall(calls)
        /\ UNCHANGED <<stored, expenses, writes>>
    BY <1>5 DEF ResetAllToUnset
  <2> HIDE DEF c
  <2> QED
    BY <2>1, <2>2, <2>3, SendingCall
<1> QED
  BY <1>1, <1>2, <1>3, <1>4, <1>5

LEMMA StatusStartedStep ==
    ASSUME BillsIInv, MayCall, NEW c \in Call, StatusStarted(c), c.is = "sent",
           c.op \in {"status", "markPaid"}, c.bill \in Bills,
           c.expense => c.op = "markPaid", c.op = "markPaid" => c.status = "Paid"
    PROVE  BillsIInv'
<1>1. /\ mensais' \in BillsOnPage /\ mensais'.bills = mensais.bills
      /\ mensais'.isLoading = mensais.isLoading /\ mensais'.error = mensais.error
  BY DEF StatusStarted, BillsIInv, BillsTyped, BillsOnPage
<1>2. CallOk(c)
  BY DEF CallOk
<1>3. /\ troubles' \subseteq {"overlap", "lost", "paidTwice", "staleStatus"}
      /\ troubles \subseteq troubles'
      /\ UnderWayCalls # {} => troubles \union {"overlap"} \subseteq troubles'
      /\ \A i \in Slots : c.op = "markPaid" /\ calls[i].op = "markPaid" /\ calls[i].bill = c.bill
            => "paidTwice" \in troubles'
  BY DEF StatusStarted, TroublesAtCall, UnderWayCalls, BillsIInv, BillsTyped
<1> QED
  BY <1>1, <1>2, <1>3, Sending DEF StatusStarted

LEMMA StatusSteps ==
    ASSUME BillsIInv, UpdateBillStatus \/ MarkBillPaid
    PROVE  BillsIInv'
<1>0. mensais \in BillsOnPage
  BY DEF BillsIInv, BillsTyped
<1> USE BillsAssumption
<1>1. CASE UpdateBillStatus
  <2>1. PICK b \in Bills \ {mensais.updatingStatusBillId}, s \in Statuses :
            \/ /\ mensais' = [mensais EXCEPT !.expensePromptBill = b]
               /\ UNCHANGED <<stored, expenses, writes, calls, troubles>>
            \/ /\ MayCall
               /\ StatusStarted([NoCall EXCEPT !.op = "status", !.bill = b, !.status = s])
    BY <1>1 DEF UpdateBillStatus
  <2>2. CASE /\ mensais' = [mensais EXCEPT !.expensePromptBill = b]
             /\ UNCHANGED <<stored, expenses, writes, calls, troubles>>
    BY <1>0, <2>2, OnlyThePage DEF BillsOnPage
  <2>3. CASE /\ MayCall
             /\ StatusStarted([NoCall EXCEPT !.op = "status", !.bill = b, !.status = s])
    <3> DEFINE c == [NoCall EXCEPT !.op = "status", !.bill = b, !.status = s]
    <3>1. c \in Call /\ c.is = "sent" /\ c.op = "status" /\ c.bill \in Bills /\ ~c.expense
      BY DEF NoCall, Call
    <3> QED
      BY <2>3, <3>1, StatusStartedStep
  <2> QED
    BY <2>1, <2>2, <2>3
<1>2. CASE MarkBillPaid
  <2>1. PICK expense \in BOOLEAN :
            StatusStarted([NoCall EXCEPT !.op = "markPaid", !.bill = mensais.expensePromptBill,
                                         !.status = "Paid", !.expense = expense])
    BY <1>2 DEF MarkBillPaid
  <2> DEFINE c == [NoCall EXCEPT !.op = "markPaid", !.bill = mensais.expensePromptBill,
                                 !.status = "Paid", !.expense = expense]
  <2>2. mensais.expensePromptBill \in Bills /\ MayCall
    BY <1>0, <1>2 DEF MarkBillPaid, BillsOnPage
  <2>3. /\ c \in Call /\ c.is = "sent" /\ c.op = "markPaid" /\ c.bill \in Bills
        /\ c.status = "Paid"
    BY <2>2 DEF NoCall, Call
  <2> QED
    BY <2>1, <2>2, <2>3, StatusStartedStep
<1> QED
  BY <1>1, <1>2

LEMMA OneCallOnly ==
    ASSUME BillsIInv, "overlap" \notin troubles, NEW i \in Slots, calls[i].op # "none"
    PROVE  \A j \in Slots \ {i} : calls[j].op = "none"
  BY DEF BillsIInv, CallsAlone, AtMostOne, UnderWayCalls

\* A call that is answered without another one leaves its slot; what the page then shows
\* is what the answer was to make of it.
LEMMA CallEnds ==
    ASSUME BillsIInv, NEW i \in Slots, calls[i].op # "none",
           calls' = [calls EXCEPT ![i] = NoCall], mensais' \in BillsOnPage,
           UNCHANGED <<stored, expenses, writes, troubles>>,
           (~mensais'.isLoading /\ ~mensais'.error /\ troubles \intersect {"overlap", "lost"} = {})
             => mensais'.bills = stored
    PROVE  BillsIInv'
<1>1. calls \in [Slots -> Call] /\ NoCall \in Call
  BY BillsAssumption DEF BillsIInv, BillsTyped, NoCall, Call
<1>2. calls'[i] = NoCall /\ \A j \in Slots \ {i} : calls'[j] = calls[j]
  BY <1>1
<1>3. BillsTyped'
  BY <1>1 DEF BillsIInv, BillsTyped
<1>4. \A j \in Slots : CallOk(calls[j])'
  BY <1>2 DEF BillsIInv, CallOk, NoCall
<1>5. CallsAlone' /\ LostIsKnown'
  BY <1>2 DEF BillsIInv, CallsAlone, LostIsKnown, AtMostOne, UnderWayCalls, NoCall
<1>6. ExpensesOk'
  BY <1>2 DEF BillsIInv, ExpensesOk, Calm, NoCall
<1>7. BillsFollow'
  <2>1. "overlap" \notin troubles => \A j \in Slots : calls'[j].op = "none"
    BY <1>2, OneCallOnly DEF NoCall
  <2> QED
    BY <2>1 DEF BillsFollow
<1> QED
  BY <1>3, <1>4, <1>5, <1>6, <1>7 DEF BillsIInv

LEMMA ReadBillsStep ==
    ASSUME BillsIInv, NEW i \in Slots, ReadBills(i)
    PROVE  BillsIInv'
<1> DEFINE c == [calls[i] EXCEPT !.is = "read", !.content = stored]
<1>1. /\ calls \in [Slots -> Call] /\ calls' = [calls EXCEPT ![i] = c]
      /\ stored \in [Bills -> Statuses \union {"Gone"}]
  BY DEF BillsIInv, BillsTyped, ReadBills, Call
<1>2. c \in Call /\ c.op = "fetch" /\ c.is = "read" /\ c.content = stored /\ c.bill = calls[i].bill
        /\ c.expense = calls[i].expense /\ c.status = calls[i].status
  BY <1>1 DEF ReadBills, Call
<1>3. calls[i].op = "fetch" /\ UNCHANGED <<mensais, stored, expenses, writes, troubles>>
  BY DEF ReadBills
<1> HIDE DEF c
<1>4. calls'[i] = c /\ \A j \in Slots \ {i} : calls'[j] = calls[j]
  BY <1>1
<1>5. BillsTyped'
  BY <1>1, <1>2, <1>3 DEF BillsIInv, BillsTyped
<1>6. \A j \in Slots : CallOk(calls[j])'
  BY <1>1, <1>2, <1>3, <1>4 DEF BillsIInv, CallOk
<1>7. CallsAlone' /\ LostIsKnown'
  BY <1>2, <1>3, <1>4 DEF BillsIInv, CallsAlone, LostIsKnown, AtMostOne, UnderWayCalls
<1>8. BillsFollow'
  BY <1>2, <1>3, <1>4 DEF BillsIInv, BillsFollow
<1>9. ExpensesOk'
  BY <1>2, <1>3, <1>4 DEF BillsIInv, ExpensesOk, Calm, CallOk
<1> QED
  BY <1>5, <1>6, <1>7, <1>8, <1>9 DEF BillsIInv

LEMMA BillsAnsweredStep ==
    ASSUME BillsIInv, NEW i \in Slots, BillsAnswered(i)
    PROVE  BillsIInv'
<1>1. /\ calls[i].op = "fetch" /\ calls' = [calls EXCEPT ![i] = NoCall]
      /\ UNCHANGED <<stored, expenses, writes, troubles>>
      /\ mensais \in BillsOnPage /\ CallOk(calls[i])
  BY DEF BillsAnswered, BillsIInv, BillsTyped
<1>2. CASE calls[i].is = "read"
  <2>1. mensais' = [mensais EXCEPT !.isLoading = FALSE, !.bills = calls[i].content]
    BY <1>2 DEF BillsAnswered
  <2>2. calls[i].content \in [Bills -> Statuses \union {"Gone"}]
    BY <1>1, <1>2 DEF CallOk
  <2>3. mensais' \in BillsOnPage /\ mensais'.bills = calls[i].content
    BY <1>1, <2>1, <2>2 DEF BillsOnPage
  <2>4. "overlap" \notin troubles => calls[i].content = stored
    BY <1>2 DEF BillsIInv, CallsAlone
  <2> QED
    BY <1>1, <2>3, <2>4, CallEnds
<1>3. CASE calls[i].is # "read"
  <2>1. mensais' = [mensais EXCEPT !.isLoading = FALSE, !.error = TRUE]
    BY <1>3 DEF BillsAnswered
  <2>2. mensais' \in BillsOnPage /\ mensais'.error
    BY <1>1, <2>1 DEF BillsOnPage
  <2> QED
    BY <1>1, <2>2, CallEnds
<1> QED
  BY <1>2, <1>3

LEMMA ResetAnsweredStep ==
    ASSUME BillsIInv, NEW i \in Slots, ResetAnswered(i)
    PROVE  BillsIInv'
<1>1. /\ calls[i].op = "reset" /\ calls[i].is = "done" /\ calls' = [calls EXCEPT ![i] = NoCall]
      /\ UNCHANGED <<stored, expenses, writes, troubles>>
      /\ mensais \in BillsOnPage /\ CallOk(calls[i])
      /\ mensais' = [mensais EXCEPT !.isResetting = FALSE, !.bills = calls[i].content]
  BY DEF ResetAnswered, BillsIInv, BillsTyped
<1>2. calls[i].content \in [Bills -> Statuses \union {"Gone"}]
  BY <1>1 DEF CallOk
<1>3. mensais' \in BillsOnPage /\ mensais'.bills = calls[i].content
  BY <1>1, <1>2 DEF BillsOnPage
<1>4. "overlap" \notin troubles => calls[i].content = stored
  BY <1>1 DEF BillsIInv, CallsAlone
<1> QED
  BY <1>1, <1>3, <1>4, CallEnds

LEMMA StatusAnsweredStep ==
    ASSUME BillsIInv, NEW i \in Slots, StatusAnswered(i)
    PROVE  BillsIInv'
<1> DEFINE c == calls[i]
           old == mensais.bills
           new == [old EXCEPT ![c.bill] = IF old[c.bill] = "Gone" THEN "Gone" ELSE c.status]
<1>1. /\ c.op \in {"status", "markPaid"} /\ c.is = "done" /\ calls' = [calls EXCEPT ![i] = NoCall]
      /\ UNCHANGED <<stored, expenses, writes, troubles>>
      /\ mensais \in BillsOnPage /\ c \in Call /\ CallOk(c)
      /\ mensais' = [mensais EXCEPT
              !.updatingStatusBillId = NoBill, !.bills = new,
              !.expensePromptBill = IF @ = c.bill THEN NoBill ELSE @]
      /\ calls \in [Slots -> Call]
  BY DEF StatusAnswered, BillsIInv, BillsTyped
<1>2. new \in [Bills -> Statuses \union {"Gone"}]
  BY <1>1 DEF BillsOnPage, Call
<1>3. /\ mensais' \in BillsOnPage /\ mensais'.bills = new
      /\ mensais'.isLoading = mensais.isLoading /\ mensais'.error = mensais.error
  BY <1>1, <1>2 DEF BillsOnPage
<1>4. (~mensais.isLoading /\ ~mensais.error /\ troubles \intersect {"overlap", "lost"} = {})
        => new = stored
  BY <1>1 DEF BillsIInv, BillsFollow
<1>5. calls[i].op # "none"
  BY <1>1
<1> HIDE DEF new
<1> QED
  BY <1>1, <1>3, <1>4, <1>5, CallEnds

LEMMA CallFailedStep ==
    ASSUME BillsIInv, NEW i \in Slots, CallFailed(i)
    PROVE  BillsIInv'
<1> DEFINE c == calls[i]
<1>1. /\ c.op \notin {"none", "fetch"} /\ c.is \in {"sent", "checked", "lost"}
      /\ calls' = [calls EXCEPT ![i] = NoCall]
      /\ UNCHANGED <<stored, expenses, writes, troubles>>
      /\ mensais \in BillsOnPage /\ CallOk(c) /\ calls \in [Slots -> Call]
  BY DEF CallFailed, BillsIInv, BillsTyped
<1>2. mensais' \in { [mensais EXCEPT !.isSaving = FALSE], [mensais EXCEPT !.isAdding = FALSE],
                     [mensais EXCEPT !.deletingBillId = NoBill],
                     [mensais EXCEPT !.isResetting = FALSE],
                     [mensais EXCEPT !.updatingStatusBillId = NoBill] }
  BY <1>1, Zenon DEF CallFailed
<1>3. /\ mensais' \in BillsOnPage /\ mensais'.bills = mensais.bills
      /\ mensais'.isLoading = mensais.isLoading /\ mensais'.error = mensais.error
  BY <1>1, <1>2 DEF BillsOnPage
<1>4. (~mensais.isLoading /\ ~mensais.error /\ troubles \intersect {"overlap", "lost"} = {})
        => mensais.bills = stored
  <2>1. SUFFICES ASSUME ~mensais.isLoading, ~mensais.error,
                        troubles \intersect {"overlap", "lost"} = {}
                 PROVE  mensais.bills = stored
    OBVIOUS
  <2>2. \A j \in Slots \ {i} : calls[j].op = "none" /\ calls[j].is # "done"
    BY <1>1, <2>1, OneCallOnly DEF BillsIInv, CallOk
  <2> QED
    BY <1>1, <2>1, <2>2 DEF BillsIInv, BillsFollow
<1> QED
  BY <1>1, <1>3, <1>4, CallEnds

LEMMA BillSavedStep ==
    ASSUME BillsIInv, NEW i \in Slots, BillSaved(i)
    PROVE  BillsIInv'
<1>1. /\ calls[i].op \in {"update", "add", "delete"} /\ calls[i].is = "done"
      /\ calls' = [calls EXCEPT ![i] = FetchBills]
      /\ troubles' = TroublesAtFetch([calls EXCEPT ![i] = NoCall])
      /\ UNCHANGED <<stored, expenses, writes>>
      /\ mensais \in BillsOnPage /\ calls \in [Slots -> Call]
      /\ troubles \subseteq {"overlap", "lost", "paidTwice", "staleStatus"}
  BY DEF BillSaved, Reread, TroublesAtReread, BillsIInv, BillsTyped
<1>2. mensais' \in { [mensais EXCEPT !.isSaving = FALSE, !.edit = NoEdit],
                     [mensais EXCEPT !.isAdding = FALSE, !.isAddFormOpen = FALSE],
                     [mensais EXCEPT !.deletingBillId = NoBill] }
  BY Zenon DEF BillSaved
<1>3. mensais' \in BillsOnPage
  <2>1. NoEdit \in [bill : Bills \union {NoBill}, status : Statuses, touched : BOOLEAN]
    BY BillsAssumption DEF NoEdit
  <2>2. [mensais EXCEPT !.isSaving = FALSE, !.edit = NoEdit] \in BillsOnPage
    BY <1>1, <2>1 DEF BillsOnPage
  <2>3. [mensais EXCEPT !.isAdding = FALSE, !.isAddFormOpen = FALSE] \in BillsOnPage
    BY <1>1 DEF BillsOnPage
  <2>4. [mensais EXCEPT !.deletingBillId = NoBill] \in BillsOnPage
    BY <1>1 DEF BillsOnPage
  <2> QED
    BY <1>2, <2>2, <2>3, <2>4
<1>4. FetchBills \in Call /\ FetchBills.op = "fetch" /\ FetchBills.is = "sent" /\ ~FetchBills.expense
  BY BillsAssumption DEF FetchBills, NoCall, Call
<1>5. /\ calls'[i] = FetchBills /\ \A j \in Slots \ {i} : calls'[j] = calls[j]
      /\ calls' \in [Slots -> Call]
  BY <1>1, <1>4
<1>6. /\ (\E j \in Slots \ {i} : calls[j].op # "none") => troubles' = troubles \union {"overlap"}
      /\ (\A j \in Slots \ {i} : calls[j].op = "none") => troubles' = troubles \ {"overlap", "lost"}
  BY <1>1 DEF TroublesAtFetch, NoCall
<1> HIDE DEF FetchBills
<1>7. BillsTyped'
  BY <1>1, <1>3, <1>5, <1>6 DEF BillsIInv, BillsTyped
<1>8. \A j \in Slots : CallOk(calls[j])'
  BY <1>4, <1>5 DEF BillsIInv, CallOk
<1>9. CallsAlone' /\ LostIsKnown'
  BY <1>4, <1>5, <1>6 DEF CallsAlone, LostIsKnown, AtMostOne, UnderWayCalls, BillsIInv, CallOk
<1>10. BillsFollow'
  <2>1. CASE \E j \in Slots \ {i} : calls[j].op # "none"
    BY <1>6, <2>1 DEF BillsFollow
  <2>2. CASE \A j \in Slots \ {i} : calls[j].op = "none"
    BY <1>4, <1>5, <2>2 DEF BillsFollow, BillsIInv, CallOk
  <2> QED
    BY <2>1, <2>2
<1>11. ExpensesOk'
  <2>1. Calm' => Calm
    BY <1>6 DEF Calm
  <2> QED
    BY <1>1, <1>4, <1>5, <2>1 DEF BillsIInv, ExpensesOk
<1> QED
  BY <1>7, <1>8, <1>9, <1>10, <1>11 DEF BillsIInv

LEMMA CheckCallStep ==
    ASSUME BillsIInv, NEW i \in Slots, CheckCall(i)
    PROVE  BillsIInv'
<1> DEFINE old == calls[i]
<1>c. PICK c : c = [old EXCEPT !.is = "checked",
                               !.content = IF old.op = "reset" THEN stored ELSE old.content]
  OBVIOUS
<1>1. /\ calls \in [Slots -> Call] /\ old \in Call /\ CallOk(old)
      /\ stored \in [Bills -> Statuses \union {"Gone"}]
      /\ old.op \notin {"none", "fetch"} /\ old.is = "sent" /\ Finds(old)
      /\ old.expense => stored[old.bill] # "Paid"
      /\ calls' = [calls EXCEPT ![i].is = "checked",
                                ![i].content = IF old.op = "reset" THEN stored ELSE old.content]
      /\ UNCHANGED <<mensais, stored, expenses, writes, troubles>>
  BY DEF BillsIInv, BillsTyped, CheckCall
<1>2. /\ c \in Call /\ c.is = "checked" /\ c.op = old.op /\ c.bill = old.bill
      /\ c.expense = old.expense /\ c.status = old.status
      /\ c.op = "reset" => c.content = stored
  BY <1>1, <1>c DEF Call
<1>3. calls'[i] = c /\ \A j \in Slots \ {i} : calls'[j] = calls[j]
  BY <1>1, <1>c DEF Call
<1>4. calls' = [calls EXCEPT ![i] = c]
  BY <1>1, <1>c DEF Call
<1> HIDE DEF old
<1>5. BillsTyped'
  <2>1. calls' \in [Slots -> Call]
    BY <1>1, <1>2, <1>4
  <2> QED
    BY <1>1, <2>1 DEF BillsIInv, BillsTyped
<1>6. \A j \in Slots : CallOk(calls[j])'
  <2>1. CallOk(c)
    BY <1>1, <1>2 DEF CallOk
  <2> QED
    BY <1>1, <1>3, <2>1 DEF BillsIInv, CallOk
<1>7. CallsAlone' /\ LostIsKnown'
  BY <1>1, <1>2, <1>3 DEF BillsIInv, CallsAlone, LostIsKnown, AtMostOne, UnderWayCalls, old
<1>8. BillsFollow'
  BY <1>1, <1>2, <1>3 DEF BillsIInv, BillsFollow, old
<1>9. ExpensesOk'
  <2>1. SUFFICES ASSUME Calm PROVE ExpensesOk'
    BY <1>1 DEF ExpensesOk, Calm
  <2>2. c.expense => expenses[c.bill] = 0
    <3>1. ASSUME c.expense PROVE expenses[c.bill] = 0
      <4>1. c.bill \in Bills /\ stored[c.bill] \notin {"Paid", "Gone"}
        BY <1>1, <1>2, <3>1, BillsAssumption DEF CallOk, Finds
      <4>2. expenses[c.bill] \in Nat /\ expenses[c.bill] <= 1 /\ expenses[c.bill] # 1
        BY <2>1, <4>1 DEF BillsIInv, BillsTyped, ExpensesOk
      <4> QED
        BY <4>2
    <3> QED
      BY <3>1
  <2> QED
    BY <1>1, <1>2, <1>3, <2>1, <2>2 DEF BillsIInv, ExpensesOk, Calm, old
<1> QED
  BY <1>5, <1>6, <1>7, <1>8, <1>9 DEF BillsIInv

\* What a call may do to the bills.
LEMMA AppliedBills ==
    ASSUME BillsTyped, NEW c \in Call, CallOk(c), c.is = "checked", NEW new \in Applied(c)
    PROVE  /\ new \in [Bills -> Statuses \union {"Gone"}]
           /\ c.op \in {"status", "markPaid"} =>
                new = [stored EXCEPT ![c.bill] = IF @ = "Gone" THEN "Gone" ELSE c.status]
           /\ c.op = "reset" =>
                new = [b \in Bills |-> IF "Gone" \in {stored[b], c.content[b]} THEN stored[b]
                                                                           ELSE "Unset"]
           /\ c.expense => new[c.bill] \in {"Paid", "Gone"}
<1>0. stored \in [Bills -> Statuses \union {"Gone"}] /\ "Unset" \in Statuses
  BY BillsAssumption DEF BillsTyped
<1>1. CASE c.op = "add"
  <2>1. PICK b \in NewBills : new = [stored EXCEPT ![b] = "Unset"]
    BY <1>1 DEF Applied
  <2> QED
    BY <1>0, <1>1, <2>1 DEF CallOk, NewBills
<1>2. CASE c.op = "delete"
  <2>1. new = [stored EXCEPT ![c.bill] = "Gone"]
    BY <1>2 DEF Applied
  <2> QED
    BY <1>0, <1>2, <2>1 DEF CallOk
<1>3. CASE c.op = "reset"
  <2>1. new = [b \in Bills |-> IF "Gone" \in {stored[b], c.content[b]} THEN stored[b] ELSE "Unset"]
    BY <1>3 DEF Applied
  <2> QED
    BY <1>0, <1>3, <2>1 DEF CallOk
<1>4. CASE c.op \notin {"add", "delete", "reset"}
  <2>1. new = [stored EXCEPT ![c.bill] = IF stored[c.bill] = "Gone" THEN "Gone" ELSE c.status]
    BY <1>4 DEF Applied
  <2>2. c.bill \in Bills /\ c.status \in Statuses
    BY <1>4 DEF Call, CallOk
  <2>3. new[c.bill] \in {"Gone", c.status}
    BY <1>0, <2>1, <2>2
  <2>4. c.expense => c.status = "Paid"
    BY DEF CallOk
  <2> QED
    BY <1>0, <1>4, <2>1, <2>2, <2>3, <2>4
<1> QED
  BY <1>1, <1>2, <1>3, <1>4

LEMMA ApplyCallStep ==
    ASSUME BillsIInv, NEW i \in Slots, NEW answered \in BOOLEAN, ApplyCall(i, answered)
    PROVE  BillsIInv'
<1>c. PICK c : c = calls[i]
  OBVIOUS
<1>d. PICK d : d = [c EXCEPT !.is = IF answered THEN "done" ELSE "lost",
                             !.content = IF c.op = "reset"
                                 THEN [b \in Bills |-> IF @[b] = "Gone" THEN "Gone" ELSE "Unset"]
                                 ELSE @]
  OBVIOUS
<1>t. BillsTyped /\ CallOk(c) /\ c \in Call /\ calls \in [Slots -> Call]
  BY <1>c DEF BillsIInv, BillsTyped
<1> DEFINE unpaid == Unpaid(stored, stored')
           chosen == c.op # "update" \/ c.touched
<1>1. /\ c.is = "checked" /\ writes < MaxWrites /\ stored' \in Applied(c)
      /\ expenses' = [b \in Bills |->
             IF b \in unpaid /\ chosen THEN 0
             ELSE IF c.expense /\ b = c.bill THEN expenses[b] + 1 ELSE expenses[b]]
      /\ troubles' = troubles \union (IF unpaid # {} /\ ~chosen THEN {"staleStatus"} ELSE {})
                              \union (IF answered THEN {} ELSE {"lost"})
      /\ writes' = writes + 1 /\ mensais' = mensais
  BY <1>c, Zenon DEF ApplyCall
<1>2. calls' = [calls EXCEPT ![i] = d]
  BY <1>c, <1>d, <1>t DEF ApplyCall, Call
<1>3. c.op \notin {"none", "fetch"}
  BY <1>1, <1>t DEF CallOk
<1>4. c.op = "reset" => c.content \in [Bills -> Statuses \union {"Gone"}]
  BY <1>1, <1>t DEF CallOk
<1>5. /\ d \in Call /\ d.op = c.op /\ d.bill = c.bill /\ d.status = c.status
      /\ d.expense = c.expense /\ d.is = (IF answered THEN "done" ELSE "lost")
      /\ c.op = "reset" =>
            d.content = [b \in Bills |-> IF c.content[b] = "Gone" THEN "Gone" ELSE "Unset"]
  BY <1>d, <1>t, <1>4, BillsAssumption DEF Call
<1>6. calls'[i] = d /\ \A j \in Slots \ {i} : calls'[j] = calls[j]
  BY <1>2, <1>t
<1>7. /\ stored' \in [Bills -> Statuses \union {"Gone"}]
      /\ c.op \in {"status", "markPaid"} =>
            stored' = [stored EXCEPT ![c.bill] = IF @ = "Gone" THEN "Gone" ELSE c.status]
      /\ c.op = "reset" =>
            stored' = [b \in Bills |-> IF "Gone" \in {stored[b], c.content[b]} THEN stored[b]
                                                                          ELSE "Unset"]
      /\ c.expense => stored'[c.bill] \in {"Paid", "Gone"}
  BY <1>1, <1>t, AppliedBills
<1>8. /\ troubles \subseteq troubles' /\ (~answered => "lost" \in troubles')
      /\ troubles' \subseteq troubles \union {"staleStatus", "lost"}
      /\ Calm' => Calm /\ (unpaid = {} \/ chosen)
  BY <1>1 DEF Calm
<1> HIDE DEF unpaid, chosen
<1>9. BillsTyped'
  <2>1. calls' \in [Slots -> Call]
    BY <1>2, <1>5, <1>t
  <2>2. ASSUME NEW b \in Bills PROVE expenses'[b] \in Nat /\ expenses'[b] <= writes'
    BY <1>1, <1>t, BillsAssumption DEF BillsTyped
  <2>3. expenses' \in [Bills -> Nat]
    BY <1>1, <2>2
  <2>4. writes' \in 0..MaxWrites
    BY <1>1, <1>t, BillsAssumption DEF BillsTyped
  <2>5. mensais' \in BillsOnPage /\ troubles' \subseteq {"overlap", "lost", "paidTwice", "staleStatus"}
    BY <1>1, <1>8, <1>t DEF BillsTyped
  <2> QED
    BY <1>7, <2>1, <2>2, <2>3, <2>4, <2>5 DEF BillsTyped
<1>10. \A j \in Slots : CallOk(calls[j])'
  <2>1. CallOk(d)
    BY <1>3, <1>4, <1>5, <1>t, BillsAssumption DEF CallOk
  <2> QED
    BY <1>6, <2>1 DEF BillsIInv
<1>11. LostIsKnown'
  BY <1>5, <1>6, <1>8 DEF BillsIInv, LostIsKnown
<1>12. ASSUME "overlap" \notin troubles' PROVE \A j \in Slots \ {i} : calls[j].op = "none"
  BY <1>3, <1>8, <1>12, <1>c, OneCallOnly
<1>13. CallsAlone'
  <2>1. SUFFICES ASSUME "overlap" \notin troubles' PROVE CallsAlone'
    BY DEF CallsAlone
  <2>2. \A j \in Slots \ {i} : calls[j].op = "none" /\ calls[j].is # "read"
    BY <1>12, <2>1 DEF BillsIInv, CallOk
  <2>3. d.is # "read"
    BY <1>5
  <2>4. c.op = "reset" => c.content = stored
    BY <1>1, <1>8, <1>c, <2>1 DEF BillsIInv, CallsAlone
  <2>5. c.op = "reset" => d.content = stored'
    BY <1>5, <1>7, <1>t, <2>4 DEF BillsTyped
  <2> QED
    BY <1>5, <1>6, <2>2, <2>3, <2>5 DEF CallsAlone, AtMostOne, UnderWayCalls
<1>14. BillsFollow'
  <2>1. SUFFICES ASSUME ~mensais.isLoading, ~mensais.error, answered,
                        troubles \intersect {"overlap", "lost"} = {}, "overlap" \notin troubles'
                 PROVE  BillsFollow'
    BY <1>1, <1>8 DEF BillsFollow
  <2>2. \A j \in Slots \ {i} : calls[j].op = "none" /\ calls[j].is # "done"
    BY <1>12, <2>1 DEF BillsIInv, CallOk
  <2>3. mensais.bills = stored
    BY <1>1, <1>3, <1>c, <2>1, <2>2 DEF BillsIInv, BillsFollow
  <2> QED
    BY <1>1, <1>5, <1>6, <1>7, <2>1, <2>2, <2>3 DEF BillsFollow
<1>15. ExpensesOk'
  <2>1. SUFFICES ASSUME Calm' PROVE ExpensesOk'
    BY DEF ExpensesOk
  <2>2. Calm /\ (unpaid = {} \/ chosen)
    BY <1>8, <2>1
  <2>3. \A b \in Bills : expenses[b] \in Nat /\ expenses[b] <= 1
    BY <1>t, <2>2 DEF BillsIInv, ExpensesOk, BillsTyped
  <2>4. c.expense => c.bill \in Bills /\ expenses[c.bill] = 0
    BY <1>1, <1>c, <1>t, <2>2 DEF BillsIInv, ExpensesOk, CallOk
  <2>5. \A b \in Bills : expenses'[b] <= 1
    BY <1>1, <2>3, <2>4
  <2>6. ASSUME NEW b \in Bills, expenses'[b] = 1 PROVE stored'[b] \in {"Paid", "Gone"}
    <3>1. b \notin unpaid
      BY <1>1, <2>2, <2>6
    <3>2. CASE c.expense /\ b = c.bill
      BY <1>7, <3>2
    <3>3. CASE ~(c.expense /\ b = c.bill)
      <4>1. expenses[b] = 1
        BY <1>1, <2>6, <3>1, <3>3
      <4>2. stored[b] \in {"Paid", "Gone"}
        BY <2>2, <4>1 DEF BillsIInv, ExpensesOk
      <4> QED
        BY <3>1, <4>2 DEF unpaid, Unpaid
    <3> QED
      BY <3>2, <3>3
  <2>7. ASSUME NEW j \in Slots, NEW k \in Slots, calls'[j].op = "markPaid",
               calls'[k].op = "markPaid", calls'[j].bill = calls'[k].bill
        PROVE  j = k
    BY <1>5, <1>6, <1>c, <2>2, <2>7 DEF BillsIInv, ExpensesOk
  <2>8. ASSUME NEW j \in Slots, calls'[j].expense, calls'[j].is = "checked"
        PROVE  expenses'[calls'[j].bill] = 0
    <3>1. j # i /\ calls'[j] = calls[j]
      BY <1>5, <1>6, <2>8
    <3>2. calls[j].op = "markPaid" /\ calls[j].bill \in Bills /\ expenses[calls[j].bill] = 0
      BY <2>2, <2>8, <3>1 DEF BillsIInv, ExpensesOk, CallOk
    <3>3. c.expense => calls[j].bill # c.bill
      BY <1>c, <1>t, <2>2, <3>1, <3>2 DEF BillsIInv, ExpensesOk, CallOk
    <3> QED
      BY <1>1, <3>1, <3>2, <3>3
  <2> QED
    BY <2>5, <2>6, <2>7, <2>8 DEF ExpensesOk
<1> QED
  BY <1>9, <1>10, <1>11, <1>13, <1>14, <1>15 DEF BillsIInv

LEMMA BillsInitIInv == BillsInit => BillsIInv
<1> SUFFICES ASSUME BillsInit PROVE BillsIInv
  OBVIOUS
<1>1. FetchBills \in Call /\ NoCall \in Call /\ FetchBills.op = "fetch" /\ NoCall.op = "none"
        /\ FetchBills.is = "sent" /\ NoCall.is = "sent" /\ ~FetchBills.expense /\ ~NoCall.expense
  BY BillsAssumption DEF FetchBills, NoCall, Call
<1>2. PICK i \in Slots : calls = [j \in Slots |-> IF j = i THEN FetchBills ELSE NoCall]
  BY DEF BillsInit
<1> HIDE DEF FetchBills, NoCall
<1>3. \A j \in Slots : calls[j] \in {FetchBills, NoCall} /\ (j # i => calls[j] = NoCall)
  BY <1>2
<1>4. mensais \in BillsOnPage /\ mensais.isLoading
  BY BillsAssumption DEF BillsInit, UseMensais, BillsOnPage, NoEdit
<1>5. BillsTyped
  <2>1. stored \in [Bills -> Statuses \union {"Gone"}]
    BY BillsAssumption DEF BillsInit
  <2>2. expenses \in [Bills -> Nat] /\ writes \in 0..MaxWrites /\ \A b \in Bills : expenses[b] <= writes
    BY BillsAssumption DEF BillsInit
  <2> QED
    BY <1>1, <1>2, <1>4, <2>1, <2>2 DEF BillsInit, BillsTyped
<1>6. \A j \in Slots : CallOk(calls[j])
  BY <1>1, <1>3 DEF CallOk
<1>7. LostIsKnown /\ CallsAlone /\ BillsFollow
  BY <1>1, <1>3, <1>4 DEF LostIsKnown, CallsAlone, BillsFollow, AtMostOne, UnderWayCalls
<1>8. ExpensesOk
  BY <1>1, <1>3 DEF ExpensesOk, BillsInit
<1> QED
  BY <1>5, <1>6, <1>7, <1>8 DEF BillsIInv

LEMMA BillsUnchanged ==
    ASSUME BillsIInv, UNCHANGED billVars
    PROVE  BillsIInv'
<1> USE DEF billVars
<1>1. BillsTyped' /\ \A i \in Slots : CallOk(calls[i])'
  BY DEF BillsIInv, BillsTyped
<1>2. LostIsKnown' /\ CallsAlone'
  BY DEF BillsIInv, LostIsKnown, CallsAlone, UnderWayCalls
<1>3. BillsFollow' /\ ExpensesOk'
  BY DEF BillsIInv, BillsFollow, ExpensesOk, Calm
<1> QED
  BY <1>1, <1>2, <1>3 DEF BillsIInv

LEMMA BillsNextIInv ==
    ASSUME BillsIInv, BillsNext
    PROVE  BillsIInv'
<1>1. CASE ShowEditBill \/ SetEditStatus \/ CancelEdit \/ ShowAddForm \/ CancelAdd
             \/ CloseExpensePrompt
  BY <1>1, PageSteps
<1>2. CASE RetryBills \/ SaveBillEdit \/ SubmitAdd \/ DeleteBill \/ ResetAllToUnset
  BY <1>2, SendingSteps
<1>3. CASE UpdateBillStatus \/ MarkBillPaid
  BY <1>3, StatusSteps
<1>4. ASSUME NEW i \in Slots,
             \/ ReadBills(i) \/ BillsAnswered(i) \/ CheckCall(i)
             \/ \E answered \in BOOLEAN : ApplyCall(i, answered)
             \/ BillSaved(i) \/ ResetAnswered(i) \/ StatusAnswered(i) \/ CallFailed(i)
      PROVE  BillsIInv'
  BY <1>4, ReadBillsStep, BillsAnsweredStep, CheckCallStep, ApplyCallStep, BillSavedStep,
     ResetAnsweredStep, StatusAnsweredStep, CallFailedStep
<1> QED
  BY <1>1, <1>2, <1>3, <1>4 DEF BillsNext

----------------------------------------------------------------------------
(* What the list makes of a step of one of the other pages.                 *)

\* To the list s is the request r was.
Alike(r, s) ==
    /\ s.op = r.op /\ s.key = r.key /\ s.latest = r.latest /\ s.content = r.content
    /\ s.is = "read" <=> r.is = "read"
    /\ s.is = "lost" => r.is = "lost"
    /\ Brings(s) <=> Brings(r)

FetchOf(k) == [Free EXCEPT !.op = "fetch", !.key = k, !.latest = TRUE]

LEMMA FreeIs ==
    /\ Free \in Request /\ Free.op = "free" /\ Free.is = "sent" /\ ~Free.ok /\ ~Free.confirmed
    /\ ~Free.latest /\ ~Free.mine /\ RequestOk(Free)
  BY MonthAssumption DEF Free, Request, Operations, RequestOk

LEMMA FetchOfIs ==
    ASSUME NEW k \in Keys
    PROVE  /\ FetchOf(k) \in Request /\ FetchOf(k).op = "fetch" /\ FetchOf(k).is = "sent"
           /\ FetchOf(k).key = k /\ FetchOf(k).latest /\ ~FetchOf(k).confirmed
           /\ RequestOk(FetchOf(k))
<1>1. /\ FetchOf(k).op = "fetch" /\ FetchOf(k).is = "sent" /\ FetchOf(k).key = k
      /\ FetchOf(k).latest /\ ~FetchOf(k).confirmed /\ ~FetchOf(k).ok
  BY DEF FetchOf, Free
<1>2. FetchOf(k) \in Request
  BY FreeIs DEF FetchOf, Request
<1> QED
  BY <1>1, <1>2 DEF RequestOk

\* Requests go on, or end without the list being read again.
LEMMA ListStays ==
    ASSUME ListOk, page' = page, key' = key, shown' = shown, isLoading' = isLoading,
           changes' = changes, error => error',
           \A i \in Slots :
              \/ Alike(requests[i], requests'[i])
              \/ requests'[i] = Free /\ ~Brings(requests[i]),
           mishaps' \intersect {"overlap", "lost"} = mishaps \intersect {"overlap", "lost"}
    PROVE  ListOk'
<1>0. open' = open
  BY DEF open
<1>1. LostKnown'
  BY FreeIs DEF ListOk, LostKnown, Alike
<1>2. LatestOk'
  BY <1>0, FreeIs DEF ListOk, LatestOk, Alike, ListShown
<1>3. AloneOk'
  BY FreeIs DEF ListOk, AloneOk, Alike, AtMostOne, UnderWay
<1>4. CurrentOk'
  <2>1. ASSUME \A i \in Slots : ~Brings(requests'[i]) PROVE \A i \in Slots : ~Brings(requests[i])
    BY <2>1 DEF Alike
  <2> QED
    BY <2>1 DEF ListOk, CurrentOk, ListShown
<1> QED
  BY <1>1, <1>2, <1>3, <1>4 DEF ListOk

\* A request that may change the list is sent.
LEMMA ListSends ==
    ASSUME ListOk, \A i \in Slots : RequestOk(requests[i]), NEW s \in Slots,
           requests[s].op = "free",
           requests'[s].op \in {"save", "row", "apply", "suggest"}, requests'[s].is = "sent",
           requests'[s].key = key,
           \A i \in Slots \ {s} : Alike(requests[i], requests'[i]),
           UNCHANGED <<page, key, shown, isLoading, error, changes>>,
           mishaps \intersect {"overlap", "lost"} \subseteq mishaps',
           UnderWay # {} => "overlap" \in mishaps'
    PROVE  ListOk'
<1>0. open' = open
  BY DEF open
<1>1. LostKnown'
  BY DEF ListOk, LostKnown, Alike
<1>2. LatestOk'
  BY <1>0 DEF ListOk, LatestOk, Alike, ListShown
<1>3. AloneOk'
  BY DEF ListOk, AloneOk, Alike, AtMostOne, UnderWay
<1>4. CurrentOk'
  <2>1. SUFFICES ASSUME UnderWay = {}, mishaps' \intersect {"overlap", "lost"} = {}
                 PROVE  CurrentOk'
    BY DEF CurrentOk
  <2>2. \A i \in Slots : ~Brings(requests[i])
    BY <2>1 DEF UnderWay, Brings, RequestOk
  <2> QED
    BY <2>1, <2>2 DEF ListOk, CurrentOk, ListShown
<1> QED
  BY <1>1, <1>2, <1>3, <1>4 DEF ListOk

\* The list is read: for its key where only the latest counts, and with the page to itself
\* or with the overlap noted.
LEMMA ListIsRead ==
    ASSUME ListOk, NEW s \in Slots, NEW k \in Keys, requests'[s] = FetchOf(k),
           \A i \in Slots \ {s} :
              \/ requests'[i].op = "free" /\ requests'[i].is = "sent"
              \/ /\ requests'[i].is = requests[i].is
                 /\ open.list.latestOnly /\ requests'[i].op = "fetch" => ~requests'[i].latest,
           page' = page, shown' = shown,
           isLoading' \/ (isLoading' = isLoading /\ error' = error /\ key' = key),
           open.list.latestOnly => k = key',
           \/ k = key' /\ \A i \in Slots \ {s} : requests'[i].op = "free" /\ requests'[i].is = "sent"
           \/ "overlap" \in mishaps' /\ ("lost" \in mishaps => "lost" \in mishaps')
    PROVE  ListOk'
<1>0. open' = open
  BY DEF open
<1>1. LostKnown'
  BY FetchOfIs DEF ListOk, LostKnown
<1>2. LatestOk'
  BY <1>0, FetchOfIs DEF ListOk, LatestOk, ListShown
<1>3. AloneOk'
  BY FetchOfIs DEF AloneOk, AtMostOne, UnderWay
<1>4. CurrentOk'
  BY FetchOfIs DEF CurrentOk, Brings
<1> QED
  BY <1>1, <1>2, <1>3, <1>4 DEF ListOk

LEMMA AloneIs ==
    ASSUME ListOk, NEW i \in Slots, requests[i].op # "free", "overlap" \notin mishaps
    PROVE  /\ requests[i].key = key /\ \A j \in Slots \ {i} : requests[j].op = "free"
           /\ requests[i].op = "fetch" =>
                requests[i].latest /\ (requests[i].is = "read" => requests[i].content = changes)
  BY DEF ListOk, AloneOk, AtMostOne, UnderWay

LEMMA ListAnswerRead ==
    ASSUME MonthTyped, ListOk, NEW i \in Slots, AnswerRead(i)
    PROVE  ListOk'
<1>1. /\ requests[i].op = "fetch" /\ requests' = [requests EXCEPT ![i].is = "read", ![i].content = changes]
      /\ UNCHANGED <<page, key, shown, isLoading, error, changes, mishaps>>
      /\ requests \in [Slots -> Request]
  BY DEF AnswerRead, MonthTyped, listVars
<1>2. /\ requests'[i].op = "fetch" /\ requests'[i].is = "read" /\ requests'[i].content = changes
      /\ requests'[i].latest = requests[i].latest /\ requests'[i].key = requests[i].key
      /\ \A j \in Slots \ {i} : requests'[j] = requests[j]
  BY <1>1 DEF Request
<1>0. open' = open
  BY <1>1 DEF open
<1>3. LostKnown'
  BY <1>1, <1>2 DEF ListOk, LostKnown
<1>4. LatestOk'
  BY <1>0, <1>1, <1>2 DEF ListOk, LatestOk, ListShown
<1>5. AloneOk'
  BY <1>1, <1>2 DEF ListOk, AloneOk, AtMostOne, UnderWay
<1>6. CurrentOk'
  BY <1>2 DEF CurrentOk, Brings
<1> QED
  BY <1>3, <1>4, <1>5, <1>6 DEF ListOk

LEMMA ListFetchAnswered ==
    ASSUME MonthTyped, ListOk, \A j \in Slots : RequestOk(requests[j]), NEW i \in Slots,
           FetchAnswered(i),
           mishaps' \intersect {"overlap", "lost"} = mishaps \intersect {"overlap", "lost"}
    PROVE  ListOk'
<1> DEFINE r == requests[i]
<1>1. /\ r.op = "fetch" /\ requests' = [requests EXCEPT ![i] = Free]
      /\ UNCHANGED <<page, key, changes>> /\ requests \in [Slots -> Request]
      /\ r.latest \in BOOLEAN
  BY DEF FetchAnswered, MonthTyped, Request
<1>2. requests'[i] = Free /\ \A j \in Slots \ {i} : requests'[j] = requests[j]
  BY <1>1
<1>3. \/ ~r.latest /\ UNCHANGED <<shown, isLoading, error>>
      \/ r.latest /\ r.is = "read" /\ shown' = [of |-> r.key, at |-> r.content] /\ error' = error
      \/ r.latest /\ r.is # "read" /\ shown' = shown /\ error' = TRUE
  BY DEF FetchAnswered, listVars
<1>0. open' = open
  BY <1>1 DEF open
<1>4. LostKnown'
  BY <1>1, <1>2, FreeIs DEF ListOk, LostKnown
<1>5. LatestOk'
  BY <1>0, <1>1, <1>2, <1>3, FreeIs DEF ListOk, LatestOk, ListShown
<1>6. AloneOk'
  BY <1>1, <1>2, FreeIs DEF ListOk, AloneOk, AtMostOne, UnderWay
<1>7. CurrentOk'
  <2>1. SUFFICES ASSUME "overlap" \notin mishaps, ~error' PROVE CurrentOk'
    BY DEF CurrentOk, ListShown
  <2>2. r.latest /\ r.key = key /\ (r.is = "read" => r.content = changes)
    BY <1>1, <2>1, AloneIs
  <2>3. shown' = [of |-> key, at |-> changes]
    BY <1>3, <2>1, <2>2
  <2> QED
    BY <1>1, <2>3 DEF CurrentOk
<1> QED
  BY <1>4, <1>5, <1>6, <1>7 DEF ListOk

LEMMA ListCarryOut ==
    ASSUME MonthTyped, ListOk, NEW i \in Slots, NEW answered \in BOOLEAN, CarryOut(i, answered)
    PROVE  ListOk'
<1> DEFINE r == requests[i]
<1>1. /\ r.op \in {"save", "row", "apply"} /\ r.is = "sent" /\ requests \in [Slots -> Request]
      /\ requests' = [requests EXCEPT ![i].is = IF answered THEN "done" ELSE "lost"]
      /\ mishaps' = IF answered THEN mishaps ELSE mishaps \union {"lost"}
      /\ UNCHANGED <<page, key, shown, isLoading, error>>
  BY DEF CarryOut, MonthTyped, listVars
<1>2. /\ requests'[i] = [r EXCEPT !.is = IF answered THEN "done" ELSE "lost"]
      /\ \A j \in Slots \ {i} : requests'[j] = requests[j]
  BY <1>1
<1>3. /\ requests'[i].op = r.op /\ requests'[i].key = r.key
      /\ requests'[i].is = IF answered THEN "done" ELSE "lost"
  BY <1>1, <1>2 DEF Request
<1>0. open' = open
  BY <1>1 DEF open
<1>4. LostKnown'
  BY <1>1, <1>2, <1>3 DEF ListOk, LostKnown
<1>5. LatestOk'
  BY <1>0, <1>1, <1>2, <1>3 DEF ListOk, LatestOk, ListShown
<1>6. AloneOk'
  <2>1. SUFFICES ASSUME "overlap" \notin mishaps PROVE AloneOk'
    BY <1>1 DEF AloneOk
  <2>2. r.key = key /\ \A j \in Slots \ {i} : requests[j].op = "free"
    BY <1>1, <2>1, AloneIs
  <2> QED
    BY <1>1, <1>2, <1>3, <2>2 DEF AloneOk, AtMostOne, UnderWay
<1>7. CurrentOk'
  BY <1>1, <1>3 DEF CurrentOk, Brings
<1> QED
  BY <1>4, <1>5, <1>6, <1>7 DEF ListOk

----------------------------------------------------------------------------
(* How requests are sent.                                                  *)

LEMMA SentIn ==
    \A rs \in [Slots -> Request], q \in Request :
       (\E j \in Slots : rs[j].op = "free") =>
          \E s \in Slots : /\ rs[s].op = "free" /\ Sent(rs, q) \in [Slots -> Request]
                           /\ Sent(rs, q)[s] = q
                           /\ \A i \in Slots \ {s} : Sent(rs, q)[i] = rs[i]
<1> SUFFICES ASSUME NEW rs \in [Slots -> Request], NEW q \in Request,
                    \E j \in Slots : rs[j].op = "free"
             PROVE  \E s \in Slots : /\ rs[s].op = "free" /\ Sent(rs, q) \in [Slots -> Request]
                                     /\ Sent(rs, q)[s] = q
                                     /\ \A i \in Slots \ {s} : Sent(rs, q)[i] = rs[i]
  OBVIOUS
<1> DEFINE s == CHOOSE i \in Slots : rs[i].op = "free"
<1>1. s \in Slots /\ rs[s].op = "free"
  OBVIOUS
<1>2. Sent(rs, q) = [rs EXCEPT ![s] = q]
  BY DEF Sent
<1> HIDE DEF s
<1> QED
  BY <1>1, <1>2

LEMMA RequestChanged ==
    ASSUME NEW r \in Request
    PROVE  /\ [r EXCEPT !.latest = FALSE] \in Request /\ [r EXCEPT !.mine = FALSE] \in Request
           /\ [r EXCEPT !.latest = FALSE].op = r.op
  BY DEF Request

LEMMA NoneMineIs ==
    ASSUME NEW rs \in [Slots -> Request]
    PROVE  /\ NoneMine(rs) \in [Slots -> Request]
           /\ \A i \in Slots : NoneMine(rs)[i] = [rs[i] EXCEPT !.mine = FALSE]
  BY RequestChanged DEF NoneMine

\* A read is sent; where only the latest counts the reads before it do no more.
LEMMA FetchedIn ==
    \A rs \in [Slots -> Request], k \in Keys :
       (\E j \in Slots : rs[j].op = "free") =>
          \E s \in Slots :
              /\ rs[s].op = "free" /\ Fetched(rs, k) \in [Slots -> Request]
              /\ Fetched(rs, k)[s] = FetchOf(k)
              /\ \A i \in Slots \ {s} :
                    IF open.list.latestOnly /\ rs[i].op = "fetch"
                      THEN Fetched(rs, k)[i] = [rs[i] EXCEPT !.latest = FALSE]
                      ELSE Fetched(rs, k)[i] = rs[i]
<1> SUFFICES ASSUME NEW rs \in [Slots -> Request], NEW k \in Keys,
                    \E j \in Slots : rs[j].op = "free"
             PROVE  \E s \in Slots :
              /\ rs[s].op = "free" /\ Fetched(rs, k) \in [Slots -> Request]
              /\ Fetched(rs, k)[s] = FetchOf(k)
              /\ \A i \in Slots \ {s} :
                    IF open.list.latestOnly /\ rs[i].op = "fetch"
                      THEN Fetched(rs, k)[i] = [rs[i] EXCEPT !.latest = FALSE]
                      ELSE Fetched(rs, k)[i] = rs[i]
  OBVIOUS
<1> DEFINE old == [i \in Slots |-> IF open.list.latestOnly /\ rs[i].op = "fetch"
                                     THEN [rs[i] EXCEPT !.latest = FALSE] ELSE rs[i]]
<1>1. PICK o : o = old
  OBVIOUS
<1>2. o \in [Slots -> Request] /\ \A i \in Slots : o[i].op = rs[i].op
  BY <1>1, RequestChanged
<1>3. \A i \in Slots : IF open.list.latestOnly /\ rs[i].op = "fetch"
                        THEN o[i] = [rs[i] EXCEPT !.latest = FALSE] ELSE o[i] = rs[i]
  BY <1>1
<1>4. Fetched(rs, k) = Sent(o, FetchOf(k))
  BY <1>1 DEF Fetched, FetchOf
<1> HIDE DEF old
<1>5. PICK q : q = FetchOf(k)
  OBVIOUS
<1>6. q \in Request
  BY <1>5, FetchOfIs
<1>8. o \in [Slots -> Request] /\ \E i \in Slots : o[i].op = "free"
  BY <1>2
<1>7. PICK s \in Slots : /\ o[s].op = "free" /\ Sent(o, q) \in [Slots -> Request]
                         /\ Sent(o, q)[s] = q
                         /\ \A i \in Slots \ {s} : Sent(o, q)[i] = o[i]
  BY <1>6, <1>8, SentIn, Zenon
<1> QED
  BY <1>2, <1>3, <1>4, <1>5, <1>7

LEMMA RoomIs ==
    ASSUME HasRoom
    PROVE  \E j \in Slots : requests[j].op = "free"
  BY DEF HasRoom, UnderWay

----------------------------------------------------------------------------
(* The hooks and views of the pages.                                        *)

Hooks ==
    {UseExpenseForm(TRUE), UseExpenseForm(FALSE), UseIncomeForm(TRUE), UseIncomeForm(FALSE),
     UseTransferForm, UseBalanceAdjustmentForm, UseAccountTransferForm, UsePayRecurringBill,
     UsePayCardStatementForm, UseCardCreditRefundForm, UseMoveChargeForm,
     UsePotTransactionEditForm, UsePotDepositForm, UsePotWithdrawalForm,
     UseCardStatementsPayForm, UseReservaIncomeSplit, UseReservaWithdrawal,
     UseReservaMovementEdit, UseControleMaeForm, UseInvestmentSnapshotsEdit}

HookOk(h) ==
    /\ h.modes \subseteq {"create", "edit"} /\ h.latched \in BOOLEAN
    /\ h.asks = "form" => h.saved = "closes" /\ ~h.latched

LEMMA HookFacts == \A h \in Hooks : HookOk(h)
<1> USE DEF HookOk
<1>1. \A b \in BOOLEAN : HookOk(UseExpenseForm(b)) /\ HookOk(UseIncomeForm(b))
  BY DEF UseExpenseForm, UseIncomeForm
<1>2. HookOk(UseTransferForm) /\ HookOk(UseBalanceAdjustmentForm) /\ HookOk(UseAccountTransferForm)
  BY DEF UseTransferForm, UseBalanceAdjustmentForm, UseAccountTransferForm
<1>3. /\ HookOk(UsePayRecurringBill) /\ HookOk(UsePayCardStatementForm)
      /\ HookOk(UseCardCreditRefundForm) /\ HookOk(UseMoveChargeForm)
  BY DEF UsePayRecurringBill, UsePayCardStatementForm, UseCardCreditRefundForm, UseMoveChargeForm
<1>4. /\ HookOk(UsePotTransactionEditForm) /\ HookOk(UsePotDepositForm)
      /\ HookOk(UsePotWithdrawalForm) /\ HookOk(UseCardStatementsPayForm)
  BY DEF UsePotTransactionEditForm, UsePotDepositForm, UsePotWithdrawalForm,
     UseCardStatementsPayForm
<1>5. /\ HookOk(UseReservaIncomeSplit) /\ HookOk(UseReservaWithdrawal)
      /\ HookOk(UseReservaMovementEdit) /\ HookOk(UseControleMaeForm)
      /\ HookOk(UseInvestmentSnapshotsEdit)
  BY DEF UseReservaIncomeSplit, UseReservaWithdrawal, UseReservaMovementEdit,
     UseControleMaeForm, UseInvestmentSnapshotsEdit
<1> HIDE DEF HookOk
<1> QED
  BY <1>1, <1>2, <1>3, <1>4, <1>5 DEF Hooks

LEMMA ListFacts ==
    \A l \in {UseMonthly, UseBankOperations, UseMonthTransactions, UseInvestmentSnapshots,
              UseReserva, UseControleMae, UseAccountScreen, UseCardStatements} :
       UNION {g.offers : g \in l.grids} \subseteq Operations
<1>1. \A g \in {ExpensesSection, IncomeSection, CardsGrid, IncomingGrid, BankOperationsSection,
               ReservaMovements, MaeEntries, StatementsTable, AccountTransactionsGrid,
               PotFormFooter} : g.offers \subseteq Operations
  BY DEF ExpensesSection, IncomeSection, CardsGrid, IncomingGrid, BankOperationsSection,
     ReservaMovements, MaeEntries, StatementsTable, AccountTransactionsGrid, PotFormFooter,
     Operations
<1> QED
  BY <1>1 DEF UseMonthly, UseBankOperations, UseMonthTransactions, UseInvestmentSnapshots,
     UseReserva, UseControleMae, UseAccountScreen, UseCardStatements

\* What the proofs use of the tables of pages, hooks and views.
Lists ==
    {UseMonthly, UseBankOperations, UseMonthTransactions, UseInvestmentSnapshots, UseReserva,
     UseControleMae, UseAccountScreen, UseCardStatements}

PagesWithForms ==
    {MonthlyPage, BankTab, AllTransactionsTab, InvestmentSnapshotsPage, ReservaPage,
     ControleMaePage, AccountScreenPage, CardStatementsTab}

LEMMA ListsAre == \A p \in PagesWithForms : p.list \in Lists
<1>1. MonthlyPage.list = UseMonthly
  BY DEF MonthlyPage
<1>2. BankTab.list = UseBankOperations
  BY DEF BankTab
<1>3. AllTransactionsTab.list = UseMonthTransactions
  BY DEF AllTransactionsTab
<1>4. InvestmentSnapshotsPage.list = UseInvestmentSnapshots
  BY DEF InvestmentSnapshotsPage
<1>5. ReservaPage.list = UseReserva
  BY DEF ReservaPage
<1>6. ControleMaePage.list = UseControleMae
  BY DEF ControleMaePage
<1>7. AccountScreenPage.list = UseAccountScreen
  BY DEF AccountScreenPage
<1>8. CardStatementsTab.list = UseCardStatements
  BY DEF CardStatementsTab
<1> QED
  BY <1>1, <1>2, <1>3, <1>4, <1>5, <1>6, <1>7, <1>8 DEF PagesWithForms, Lists

LEMMA FormsAre == \A p \in PagesWithForms : \A u \in p.forms : u[1] \in Hooks \union {None}
<1>1. \A u \in MonthlyPage.forms : u[1] \in Hooks \union {None}
  <2>1. MonthlyPage.forms = {<<UseExpenseForm(FALSE), ExpenseForm>>, <<UseIncomeForm(FALSE),
                             IncomeForm>>, <<UseTransferForm, TransferForm>>,
                             <<UseBalanceAdjustmentForm, BalanceAdjustmentForm>>}
    BY DEF MonthlyPage
  <2> QED
    BY <2>1 DEF Hooks, UseExpenseForm, UseIncomeForm
<1>2. \A u \in BankTab.forms : u[1] \in Hooks \union {None}
  <2>1. BankTab.forms = {<<UseTransferForm, TransferForm>>, <<UseBalanceAdjustmentForm,
                         BalanceAdjustmentForm>>}
    BY DEF BankTab
  <2> QED
    BY <2>1 DEF Hooks, UseExpenseForm, UseIncomeForm
<1>3. \A u \in AllTransactionsTab.forms : u[1] \in Hooks \union {None}
  <2>1. AllTransactionsTab.forms = {<<None, None>>}
    BY DEF AllTransactionsTab
  <2> QED
    BY <2>1 DEF Hooks, UseExpenseForm, UseIncomeForm
<1>4. \A u \in InvestmentSnapshotsPage.forms : u[1] \in Hooks \union {None}
  <2>1. InvestmentSnapshotsPage.forms = {<<UseInvestmentSnapshotsEdit, SnapshotEditForm>>}
    BY DEF InvestmentSnapshotsPage
  <2> QED
    BY <2>1 DEF Hooks, UseExpenseForm, UseIncomeForm
<1>5. \A u \in ReservaPage.forms : u[1] \in Hooks \union {None}
  <2>1. ReservaPage.forms = {<<UseReservaIncomeSplit, IncomeSplitForm>>, <<UseReservaWithdrawal,
                             WithdrawalForm>>, <<UseReservaMovementEdit, EditMovementForm>>}
    BY DEF ReservaPage
  <2> QED
    BY <2>1 DEF Hooks, UseExpenseForm, UseIncomeForm
<1>6. \A u \in ControleMaePage.forms : u[1] \in Hooks \union {None}
  <2>1. ControleMaePage.forms = {<<UseControleMaeForm, MaeEntryForm>>}
    BY DEF ControleMaePage
  <2> QED
    BY <2>1 DEF Hooks, UseExpenseForm, UseIncomeForm
<1>7. \A u \in AccountScreenPage.forms : u[1] \in Hooks \union {None}
  <2>1. AccountScreenPage.forms = UseAccountActionForms
    BY DEF AccountScreenPage
  <2> QED
    BY <2>1 DEF Hooks, UseAccountActionForms, UseExpenseForm, UseIncomeForm
<1>8. \A u \in CardStatementsTab.forms : u[1] \in Hooks \union {None}
  <2>1. CardStatementsTab.forms = {<<UseCardStatementsPayForm, PayStatementForm>>}
    BY DEF CardStatementsTab
  <2> QED
    BY <2>1 DEF Hooks, UseExpenseForm, UseIncomeForm
<1> QED
  BY <1>1, <1>2, <1>3, <1>4, <1>5, <1>6, <1>7, <1>8 DEF PagesWithForms

LEMMA SuggestingIs == \A p \in PagesWithForms : p.suggests => p = InvestmentSnapshotsPage
<1>1. ~MonthlyPage.suggests /\ ~BankTab.suggests /\ ~AllTransactionsTab.suggests
  BY DEF MonthlyPage, BankTab, AllTransactionsTab
<1>2. ~ReservaPage.suggests /\ ~ControleMaePage.suggests
  BY DEF ReservaPage, ControleMaePage
<1>3. ~AccountScreenPage.suggests /\ ~CardStatementsTab.suggests
  BY DEF AccountScreenPage, CardStatementsTab
<1> QED
  BY <1>1, <1>2, <1>3 DEF PagesWithForms

\* What the proofs use of the tables of pages, hooks and views.
LEMMA PageFacts ==
    ASSUME page \in Pages, page # "MensaisPage", used \in open.forms
    PROVE  /\ RowOps \subseteq Operations
           /\ open.suggests => ~open.list.latestOnly /\ hook.asks # "form"
           /\ hook # None => HookOk(hook)
<1>1. page \in DOMAIN PageOf
  BY PagesAssumption
<1>2. open \in PagesWithForms
  BY <1>1 DEF PageOf, open, PagesWithForms
<1>3. open.list \in Lists /\ hook \in Hooks \union {None}
  BY <1>2, ListsAre, FormsAre DEF hook
<1>4. RowOps \subseteq Operations
  BY <1>3, ListFacts DEF RowOps, Lists
<1>5. ASSUME open = InvestmentSnapshotsPage
      PROVE  ~open.list.latestOnly /\ hook.asks # "form"
  <2>1. open.list = UseInvestmentSnapshots /\ hook = UseInvestmentSnapshotsEdit
    BY <1>5 DEF InvestmentSnapshotsPage, hook
  <2> QED
    BY <2>1 DEF UseInvestmentSnapshots, UseInvestmentSnapshotsEdit
<1>6. open.suggests => open = InvestmentSnapshotsPage
  BY <1>2, SuggestingIs
<1> QED
  BY <1>3, <1>4, <1>5, <1>6, HookFacts

----------------------------------------------------------------------------
(* What the form makes of a step.                                           *)

\* Nothing about the form: saves go on, or end without the form being told.
LEMMA SavingStays ==
    ASSUME SavingOk, used' = used, form' = form,
           "dismissed" \in mishaps => "dismissed" \in mishaps',
           \A i \in Slots :
              /\ requests'[i].op = "save" =>
                    requests[i].op = "save" /\ requests'[i].mine = requests[i].mine
              /\ requests'[i].confirmed =>
                    requests[i].confirmed /\ requests'[i].asked = requests[i].asked
    PROVE  SavingOk'
<1>0. hook' = hook /\ Latched' = Latched
  BY DEF hook, Latched
<1>1. FormOk'
  BY <1>0 DEF SavingOk, FormOk, Under
<1>2. SavesOk'
  BY <1>0 DEF SavingOk, SavesOk, AtMostOne, Under
<1>3. AskedOk'
  BY <1>0 DEF SavingOk, AskedOk, Under
<1> QED
  BY <1>1, <1>2, <1>3 DEF SavingOk

\* The form closes, or opens for another record: it has been dismissed if it was saving,
\* or was closed before.
LEMMA SavingCloses ==
    ASSUME SavingOk, used' = used, form \in Form,
           form'.isSaving <=> Latched /\ form.isSaving, form'.overdraft = "no",
           form'.isOpen => hook # None,
           "dismissed" \in mishaps => "dismissed" \in mishaps',
           \A i \in Slots :
              /\ requests'[i].op = "save" => requests[i].op = "save"
              /\ requests'[i].confirmed =>
                    requests[i].confirmed /\ requests'[i].asked = requests[i].asked,
           \/ form.isSaving => "dismissed" \in mishaps'
           \/ /\ ~form.isOpen
              /\ \A i \in Slots : requests'[i].op = "save" => requests'[i].mine = requests[i].mine
    PROVE  SavingOk'
<1>0. hook' = hook /\ Latched' = Latched
  BY DEF hook, Latched
<1>1. FormOk'
  BY <1>0 DEF SavingOk, FormOk, Under, Latched
<1>2. SavesOk'
  <2>1. CASE Latched
    BY <1>0, <2>1 DEF SavingOk, SavesOk, AtMostOne, Under
  <2>2. CASE ~Latched /\ "dismissed" \notin mishaps'
    <3>1. ~form.isSaving
      BY <2>2 DEF SavingOk, FormOk
    <3>2. Under("save") = {}
      BY <2>2, <3>1 DEF SavingOk, SavesOk
    <3> QED
      BY <3>2 DEF SavesOk, AtMostOne, Under
  <2> QED
    BY <1>0, <2>1, <2>2 DEF SavesOk
<1>3. AskedOk'
  <2>1. SUFFICES ASSUME "dismissed" \notin mishaps' PROVE AskedOk'
    BY DEF AskedOk
  <2>2. \A i \in Slots : requests'[i].op = "save" =>
           requests[i].op = "save" /\ requests'[i].mine = requests[i].mine
    BY <2>1 DEF SavingOk, SavesOk, Under
  <2> QED
    BY <1>0, <2>1, <2>2 DEF SavingOk, AskedOk, Under
<1> QED
  BY <1>1, <1>2, <1>3 DEF SavingOk

\* A save ends, with the form free again.
LEMMA SavingEnds ==
    ASSUME SavingOk, NEW i \in Slots, requests[i].op = "save", used' = used,
           \A j \in Slots :
              /\ requests'[j].op = "save" => j # i /\ requests[j].op = "save"
              /\ requests'[j].confirmed => requests'[j].op = "save",
           ~form'.isSaving, form'.overdraft # "no" => form'.isOpen /\ hook.asks = "form",
           "dismissed" \in mishaps => "dismissed" \in mishaps' \/ Under("save") \subseteq {i},
           "dismissed" \notin mishaps' => form'.overdraft # "other"
    PROVE  SavingOk'
<1>0. hook' = hook /\ Latched' = Latched /\ hook # None
  BY DEF hook, Latched, SavingOk, FormOk, Under
<1>1. FormOk'
  BY <1>0 DEF FormOk
<1>2. Latched \/ "dismissed" \notin mishaps' => Under("save")' = {}
  BY DEF SavingOk, SavesOk, AtMostOne, Under
<1>3. SavesOk'
  BY <1>0, <1>2 DEF SavesOk, AtMostOne
<1>4. AskedOk'
  BY <1>2 DEF AskedOk, Under
<1> QED
  BY <1>1, <1>3, <1>4 DEF SavingOk

\* An open form is saved.
LEMMA SavingStarts ==
    ASSUME SavingOk, form \in Form, form.isOpen, ~form.isSaving, NEW s \in Slots,
           NEW confirmed \in BOOLEAN, confirmed => form.overdraft # "no",
           requests[s].op = "free",
           requests'[s].op = "save", requests'[s].mine = (hook.asks = "form"),
           requests'[s].confirmed = confirmed, requests'[s].asked = form.overdraft,
           \A i \in Slots \ {s} : requests'[i] = requests[i],
           used' = used, form' = [form EXCEPT !.isSaving = TRUE],
           "dismissed" \in mishaps' <=> "dismissed" \in mishaps
    PROVE  SavingOk'
<1>0. hook' = hook /\ Latched' = Latched /\ hook # None
  BY DEF hook, Latched, SavingOk, FormOk
<1>1. form'.isOpen /\ form'.isSaving /\ form'.overdraft = form.overdraft
  BY DEF Form
<1>2. FormOk'
  BY <1>0, <1>1 DEF SavingOk, FormOk
<1>3. SavesOk'
  <2>1. SUFFICES ASSUME Latched \/ "dismissed" \notin mishaps PROVE SavesOk'
    BY <1>0 DEF SavesOk
  <2>2. Under("save") = {}
    BY <2>1 DEF SavingOk, SavesOk
  <2> QED
    BY <1>1, <2>2 DEF SavesOk, AtMostOne, Under
<1>4. AskedOk'
  <2>1. SUFFICES ASSUME "dismissed" \notin mishaps PROVE AskedOk'
    BY DEF AskedOk
  <2>2. Under("save") = {} /\ form.overdraft # "other"
    BY <2>1 DEF SavingOk, SavesOk, AskedOk
  <2>3. form.overdraft \in {"no", "own"}
    BY <2>2 DEF Form
  <2>4. \A i \in Slots : requests'[i].op = "save" => i = s
    BY <2>2 DEF Under
  <2>5. \A i \in Slots : requests'[i].confirmed => requests'[i].asked = "own"
    BY <2>1, <2>3 DEF SavingOk, AskedOk
  <2> QED
    BY <1>0, <1>1, <2>2, <2>4, <2>5 DEF AskedOk, Under
<1> QED
  BY <1>2, <1>3, <1>4 DEF SavingOk

----------------------------------------------------------------------------
(* What the panel of the suggested values makes of a step.                  *)

Runs == Under("apply") \union Under("suggest")

\* No run starts, and the panel stays what it is.
LEMMA RunsStay ==
    ASSUME RunsOk, page' = page, panel'.phase = panel.phase,
           "reopened" \in mishaps => "reopened" \in mishaps',
           \A i \in Slots : requests'[i].op \in {"apply", "suggest"} => requests'[i].op = requests[i].op
    PROVE  RunsOk'
<1>0. open' = open
  BY DEF open
<1>1. Under("apply")' \subseteq Under("apply") /\ Under("suggest")' \subseteq Under("suggest")
  BY DEF Under
<1> QED
  BY <1>0, <1>1 DEF RunsOk, AtMostOne

\* Without a run the panel may be what it likes.
LEMMA RunsEnd ==
    ASSUME page' = page, open.suggests,
           "reopened" \notin mishaps' =>
              \A i \in Slots : requests'[i].op \notin {"apply", "suggest"}
    PROVE  RunsOk'
<1>0. open' = open
  BY DEF open
<1> QED
  BY <1>0 DEF RunsOk, AtMostOne, Under

\* One run starts, and the panel waits for it.
LEMMA RunsStart ==
    ASSUME page' = page, open.suggests, NEW s \in Slots,
           "reopened" \notin mishaps' =>
              /\ \A i \in Slots \ {s} : requests'[i].op \notin {"apply", "suggest"}
              /\ \/ requests'[s].op = "apply" /\ panel'.phase = "applying"
                 \/ requests'[s].op = "suggest" /\ panel'.phase = "loading"
    PROVE  RunsOk'
<1>0. open' = open
  BY DEF open
<1> QED
  BY <1>0 DEF RunsOk, AtMostOne, Under

----------------------------------------------------------------------------
(* Requests that are sent, and what they leave of the others.               *)

\* The list is read: every other request is what rs has of it.
LEMMA ReadAgain ==
    ASSUME ListOk, \A i \in Slots : RequestOk(requests[i]),
           NEW rs \in [Slots -> Request], NEW k \in Keys, NEW j \in Slots, rs[j].op = "free",
           \A i \in Slots : RequestOk(rs[i]) /\ (rs[i].op # "free" => rs[i].is = requests[i].is),
           requests' = Fetched(rs, k), page' = page, shown' = shown,
           isLoading' \/ (isLoading' = isLoading /\ error' = error /\ key' = key),
           open.list.latestOnly => k = key',
           IF \A i \in Slots : rs[i].op = "free"
             THEN k = key' \/ ("overlap" \in mishaps' /\ ("lost" \in mishaps => "lost" \in mishaps'))
             ELSE "overlap" \in mishaps' /\ ("lost" \in mishaps => "lost" \in mishaps')
    PROVE  /\ ListOk' /\ requests' \in [Slots -> Request]
           /\ \A i \in Slots : RequestOk(requests'[i])
           /\ \A i \in Slots :
                 requests'[i].op # "fetch" \/ requests'[i].confirmed => requests'[i] = rs[i]
<1>1. PICK s \in Slots :
              /\ rs[s].op = "free" /\ requests' \in [Slots -> Request]
              /\ requests'[s] = FetchOf(k)
              /\ \A i \in Slots \ {s} :
                    IF open.list.latestOnly /\ rs[i].op = "fetch"
                      THEN requests'[i] = [rs[i] EXCEPT !.latest = FALSE]
                      ELSE requests'[i] = rs[i]
  <2>0. rs \in [Slots -> Request] /\ k \in Keys /\ \E i \in Slots : rs[i].op = "free"
    OBVIOUS
  <2>1. PICK s \in Slots :
              /\ rs[s].op = "free" /\ Fetched(rs, k) \in [Slots -> Request]
              /\ Fetched(rs, k)[s] = FetchOf(k)
              /\ \A i \in Slots \ {s} :
                    IF open.list.latestOnly /\ rs[i].op = "fetch"
                      THEN Fetched(rs, k)[i] = [rs[i] EXCEPT !.latest = FALSE]
                      ELSE Fetched(rs, k)[i] = rs[i]
    BY ONLY <2>0, FetchedIn, Zenon
  <2> QED
    BY <2>1
<1>2. \A i \in Slots \ {s} :
         \/ requests'[i] = rs[i] /\ ~(open.list.latestOnly /\ rs[i].op = "fetch")
         \/ /\ requests'[i] = [rs[i] EXCEPT !.latest = FALSE] /\ rs[i].op = "fetch"
            /\ requests'[i].op = "fetch" /\ requests'[i].is = rs[i].is /\ ~requests'[i].latest
            /\ requests'[i].key = rs[i].key /\ requests'[i].confirmed = rs[i].confirmed
            /\ requests'[i].ok = rs[i].ok
  <2>1. ASSUME NEW r \in Request, NEW q, q = [r EXCEPT !.latest = FALSE]
        PROVE  /\ q.op = r.op /\ q.is = r.is /\ ~q.latest /\ q.key = r.key
               /\ q.confirmed = r.confirmed /\ q.ok = r.ok
    BY <2>1 DEF Request
  <2> QED
    BY <1>1, <2>1
<1>3. \A i \in Slots : RequestOk(requests'[i])
  BY <1>1, <1>2, FetchOfIs DEF RequestOk
<1>4. \A i \in Slots :
         requests'[i].op # "fetch" \/ requests'[i].confirmed => requests'[i] = rs[i]
  BY <1>1, <1>2, FetchOfIs DEF RequestOk
<1>5. ASSUME NEW i \in Slots \ {s}
      PROVE  \/ requests'[i].op = "free" /\ requests'[i].is = "sent"
             \/ /\ requests'[i].is = requests[i].is
                /\ open.list.latestOnly /\ requests'[i].op = "fetch" => ~requests'[i].latest
  <2>1. CASE requests'[i] = rs[i] /\ ~(open.list.latestOnly /\ rs[i].op = "fetch")
    <3>1. rs[i].op = "free" => rs[i].is = "sent"
      BY DEF RequestOk
    <3> QED
      BY <2>1, <3>1
  <2> QED
    BY <1>2, <2>1
<1>6. \/ k = key' /\ \A i \in Slots \ {s} : requests'[i].op = "free" /\ requests'[i].is = "sent"
      \/ "overlap" \in mishaps' /\ ("lost" \in mishaps => "lost" \in mishaps')
  <2>1. CASE \A i \in Slots : rs[i].op = "free"
    <3>1. \A i \in Slots \ {s} : rs[i].op = "free" /\ rs[i].is = "sent"
      BY <2>1 DEF RequestOk
    <3>2. \A i \in Slots \ {s} : requests'[i] = rs[i]
      BY <1>2, <3>1
    <3> QED
      BY <2>1, <3>1, <3>2
  <2> QED
    BY <2>1
<1>7. ListOk'
  BY <1>1, <1>5, <1>6, ListIsRead
<1> QED
  BY <1>1, <1>3, <1>4, <1>7

Mishaps == {"overlap", "lost", "dismissed", "reopened"}

LEMMA AtFetchIs ==
    ASSUME NEW rs, NEW ofKey \in BOOLEAN, NEW m, m = MishapsAtFetch(rs, ofKey)
    PROVE  /\ mishaps \subseteq Mishaps => m \subseteq Mishaps
           /\ "dismissed" \in m <=> "dismissed" \in mishaps
           /\ "reopened" \in m <=> "reopened" \in mishaps
           /\ IF \A i \in Slots : rs[i].op = "free"
                THEN ofKey \/ m = mishaps
                ELSE "overlap" \in m /\ ("lost" \in mishaps => "lost" \in m)
  BY DEF MishapsAtFetch, Mishaps

LEMMA NoneMineOk ==
    ASSUME requests \in [Slots -> Request], \A i \in Slots : RequestOk(requests[i]),
           NEW rs, rs = NoneMine(requests)
    PROVE  /\ rs \in [Slots -> Request]
           /\ \A i \in Slots :
                 /\ RequestOk(rs[i]) /\ Alike(requests[i], rs[i])
                 /\ rs[i].is = requests[i].is /\ ~rs[i].mine
                 /\ rs[i].confirmed = requests[i].confirmed /\ rs[i].asked = requests[i].asked
<1>1. rs \in [Slots -> Request] /\ \A i \in Slots : rs[i] = [requests[i] EXCEPT !.mine = FALSE]
  BY NoneMineIs
<1>2. ASSUME NEW r \in Request, NEW q, q = [r EXCEPT !.mine = FALSE]
      PROVE  /\ q.op = r.op /\ q.is = r.is /\ q.key = r.key /\ q.latest = r.latest
             /\ q.content = r.content /\ q.row = r.row /\ q.ok = r.ok
             /\ q.confirmed = r.confirmed /\ q.asked = r.asked /\ ~q.mine
  BY <1>2 DEF Request
<1>3. ASSUME NEW i \in Slots
      PROVE  /\ RequestOk(rs[i]) /\ Alike(requests[i], rs[i])
             /\ rs[i].is = requests[i].is /\ ~rs[i].mine
             /\ rs[i].confirmed = requests[i].confirmed /\ rs[i].asked = requests[i].asked
  <2>1. PICK q : q = rs[i]
    OBVIOUS
  <2>2. PICK r : r = requests[i] /\ r \in Request /\ RequestOk(r)
    OBVIOUS
  <2>3. /\ q.op = r.op /\ q.is = r.is /\ q.key = r.key /\ q.latest = r.latest
        /\ q.content = r.content /\ q.row = r.row /\ q.ok = r.ok
        /\ q.confirmed = r.confirmed /\ q.asked = r.asked /\ ~q.mine
    BY <1>1, <1>2, <2>1, <2>2
  <2> QED
    BY <2>1, <2>2, <2>3 DEF RequestOk, Alike, Brings
<1> QED
  BY <1>1, <1>3

LEMMA ClosedFormIs ==
    ASSUME form \in Form
    PROVE  /\ ClosedForm \in Form /\ ~ClosedForm.isOpen /\ ClosedForm.overdraft = "no"
           /\ ClosedForm.isSaving <=> Latched /\ form.isSaving
  BY DEF ClosedForm, Closed, Form, Latched

LEMMA TypedStays ==
    ASSUME MonthTyped, page' = page, used' = used, key' \in Keys,
           shown' \in [of : Keys, at : 0..MaxChanges] \union {None},
           isLoading' \in BOOLEAN, error' \in BOOLEAN, form' \in Form, panel' \in Panel,
           changes' \in 0..MaxChanges, pending' \subseteq pending \union DisabledOps,
           requests' \in [Slots -> Request], mishaps' \subseteq Mishaps
    PROVE  MonthTyped'
<1>1. open' = open /\ DisabledOps' = DisabledOps
  BY DEF open, DisabledOps
<1> QED
  BY <1>1 DEF MonthTyped, Mishaps

LEMMA Context ==
    ASSUME MonthTyped, page # "MensaisPage"
    PROVE  /\ RowOps \subseteq Operations
           /\ open.suggests => ~open.list.latestOnly /\ hook.asks # "form"
           /\ hook # None => HookOk(hook)
  BY PageFacts DEF MonthTyped

----------------------------------------------------------------------------
(* The steps of the list.                                                   *)

LEMMA ChooseKeyStep ==
    ASSUME MonthTyped, PageOk, page # "MensaisPage", ChooseKey
    PROVE  MonthTyped' /\ PageOk'
<1>1. PICK k \in Keys \ {key} :
          /\ key' = k /\ isLoading' = TRUE /\ error' = FALSE
          /\ IF open.closes
               THEN form' = ClosedForm /\ requests' = Fetched(NoneMine(requests), k)
               ELSE requests' = Fetched(requests, k) /\ UNCHANGED form
  BY DEF ChooseKey
<1>2. /\ mishaps' = MishapsAtFetch(requests, TRUE)
                    \union (IF open.closes /\ form.isSaving THEN {"dismissed"} ELSE {})
      /\ UNCHANGED <<page, used, shown, pending, panel, changes>> /\ HasRoom
  BY DEF ChooseKey
<1>3. PICK m : m = MishapsAtFetch(requests, TRUE)
  OBVIOUS
<1>4. /\ m \subseteq Mishaps
      /\ "dismissed" \in m <=> "dismissed" \in mishaps
      /\ "reopened" \in m <=> "reopened" \in mishaps
      /\ ~(\A i \in Slots : requests[i].op = "free") =>
            "overlap" \in m /\ ("lost" \in mishaps => "lost" \in m)
  BY <1>3, AtFetchIs DEF MonthTyped, Mishaps
<1>5. PICK rs : rs = IF open.closes THEN NoneMine(requests) ELSE requests
  OBVIOUS
<1>6. /\ rs \in [Slots -> Request]
      /\ \A i \in Slots :
            /\ RequestOk(rs[i]) /\ rs[i].op = requests[i].op /\ rs[i].is = requests[i].is
            /\ rs[i].confirmed = requests[i].confirmed /\ rs[i].asked = requests[i].asked
            /\ ~open.closes => rs[i].mine = requests[i].mine
  BY <1>5, NoneMineOk DEF MonthTyped, PageOk, Alike
<1>7. PICK j \in Slots : rs[j].op = "free"
  BY <1>2, <1>6, RoomIs
<1>8. requests' = Fetched(rs, k)
  BY <1>1, <1>5
<1>9. IF \A i \in Slots : rs[i].op = "free"
        THEN k = key'
        ELSE "overlap" \in mishaps' /\ ("lost" \in mishaps => "lost" \in mishaps')
  BY <1>1, <1>2, <1>3, <1>4, <1>6
<1>10. /\ ListOk' /\ requests' \in [Slots -> Request]
       /\ \A i \in Slots : RequestOk(requests'[i])
       /\ \A i \in Slots :
             requests'[i].op # "fetch" \/ requests'[i].confirmed => requests'[i] = rs[i]
  BY <1>1, <1>2, <1>6, <1>7, <1>8, <1>9, ReadAgain DEF PageOk
<1>11. form' \in Form
  BY <1>1, ClosedFormIs DEF MonthTyped
<1>12. mishaps' \subseteq Mishaps
  BY <1>2, <1>3, <1>4 DEF Mishaps
<1>13. MonthTyped'
  BY <1>1, <1>2, <1>10, <1>11, <1>12, TypedStays DEF MonthTyped
<1>14. SavingOk'
  <2>1. CASE open.closes
    BY <1>1, <1>2, <1>3, <1>4, <1>6, <1>10, <2>1, ClosedFormIs, SavingCloses DEF MonthTyped, PageOk
  <2>2. CASE ~open.closes
    BY <1>1, <1>2, <1>3, <1>4, <1>6, <1>10, <2>2, SavingStays DEF PageOk
  <2> QED
    BY <2>1, <2>2
<1>15. RunsOk'
  BY <1>2, <1>3, <1>4, <1>6, <1>10, RunsStay DEF PageOk
<1> QED
  BY <1>10, <1>13, <1>14, <1>15 DEF PageOk

LEMMA RetryStep ==
    ASSUME MonthTyped, PageOk, page # "MensaisPage", Retry
    PROVE  MonthTyped' /\ PageOk'
<1>1. /\ isLoading' = TRUE /\ error' = FALSE /\ requests' = Fetched(requests, key) /\ HasRoom
      /\ UNCHANGED <<page, used, key, shown, form, pending, panel, changes>>
  BY DEF Retry
<1>2. /\ mishaps' \subseteq Mishaps
      /\ "dismissed" \in mishaps' <=> "dismissed" \in mishaps
      /\ "reopened" \in mishaps' <=> "reopened" \in mishaps
      /\ ~(\A i \in Slots : requests[i].op = "free") =>
            "overlap" \in mishaps' /\ ("lost" \in mishaps => "lost" \in mishaps')
  <2>1. PICK m : m = MishapsAtFetch(requests, TRUE)
    OBVIOUS
  <2>2. mishaps' = m
    BY <2>1 DEF Retry
  <2> QED
    BY <2>1, <2>2, AtFetchIs DEF MonthTyped, Mishaps
<1>3. PICK j \in Slots : requests[j].op = "free"
  BY <1>1, RoomIs
<1>4. requests \in [Slots -> Request] /\ key \in Keys /\ \A i \in Slots : RequestOk(requests[i])
  BY DEF MonthTyped, PageOk
<1>5. /\ ListOk' /\ requests' \in [Slots -> Request]
      /\ \A i \in Slots : RequestOk(requests'[i])
      /\ \A i \in Slots :
            requests'[i].op # "fetch" \/ requests'[i].confirmed => requests'[i] = requests[i]
  BY <1>1, <1>2, <1>3, <1>4, ReadAgain DEF PageOk
<1>6. MonthTyped'
  BY <1>1, <1>2, <1>5, TypedStays DEF MonthTyped
<1>7. SavingOk'
  BY <1>1, <1>2, <1>5, SavingStays DEF PageOk
<1>8. RunsOk'
  BY <1>1, <1>2, <1>5, RunsStay DEF PageOk
<1> QED
  BY <1>5, <1>6, <1>7, <1>8 DEF PageOk

LEMMA AnswerReadStep ==
    ASSUME MonthTyped, PageOk, page # "MensaisPage", NEW i \in Slots, AnswerRead(i)
    PROVE  MonthTyped' /\ PageOk'
<1>1. /\ requests[i].op = "fetch" /\ requests' = [requests EXCEPT ![i].is = "read", ![i].content = changes]
      /\ UNCHANGED <<page, used, key, shown, isLoading, error, form, pending, panel, changes, mishaps>>
  BY DEF AnswerRead, listVars
<1>2. requests \in [Slots -> Request] /\ changes \in 0..MaxChanges /\ RequestOk(requests[i])
  BY DEF MonthTyped, PageOk
<1>3. PICK r : r = requests[i] /\ r \in Request
  BY <1>2
<1>4. PICK q : q = [r EXCEPT !.is = "read", !.content = changes]
  OBVIOUS
<1>5. /\ q \in Request /\ q.is = "read" /\ q.op = r.op /\ q.key = r.key /\ q.row = r.row
      /\ q.ok = r.ok /\ q.confirmed = r.confirmed
  <2>1. q \in Request
    BY <1>2, <1>3, <1>4 DEF Request
  <2>2. /\ q.is = "read" /\ q.op = r.op /\ q.key = r.key /\ q.row = r.row
        /\ q.ok = r.ok /\ q.confirmed = r.confirmed
    BY <1>3, <1>4 DEF Request
  <2> QED
    BY <2>1, <2>2
<1>6. requests' = [requests EXCEPT ![i] = q]
  BY <1>1, <1>3, <1>4
<1>7. requests' \in [Slots -> Request] /\ requests'[i] = q /\ \A j \in Slots \ {i} : requests'[j] = requests[j]
  BY <1>2, <1>5, <1>6
<1>8. \A j \in Slots : RequestOk(requests'[j])
  BY <1>1, <1>2, <1>3, <1>5, <1>7 DEF RequestOk, PageOk
<1>9. MonthTyped'
  BY <1>1, <1>7, TypedStays DEF MonthTyped, Mishaps
<1>10. ~requests'[i].confirmed /\ requests'[i].op = "fetch"
  BY <1>1, <1>2, <1>3, <1>5, <1>7 DEF RequestOk
<1>11. SavingOk'
  BY <1>1, <1>7, <1>10, SavingStays DEF PageOk
<1>12. RunsOk'
  BY <1>1, <1>7, <1>10, RunsStay DEF PageOk
<1> QED
  BY <1>8, <1>9, <1>11, <1>12, ListAnswerRead DEF PageOk

Freed(i) == [requests EXCEPT ![i] = Free]

LEMMA FreedIn ==
    ASSUME MonthTyped, PageOk
    PROVE  \A i \in Slots :
              /\ Freed(i) \in [Slots -> Request] /\ Freed(i)[i] = Free /\ Freed(i)[i].op = "free"
              /\ \A j \in Slots \ {i} : Freed(i)[j] = requests[j]
              /\ \A j \in Slots : RequestOk(Freed(i)[j])
              /\ \A j \in Slots : Freed(i)[j].op # "free" \/ Freed(i)[j].confirmed
                                   => j # i /\ Freed(i)[j] = requests[j]
<1> SUFFICES ASSUME NEW i \in Slots
             PROVE  /\ Freed(i) \in [Slots -> Request] /\ Freed(i)[i] = Free /\ Freed(i)[i].op = "free"
                    /\ \A j \in Slots \ {i} : Freed(i)[j] = requests[j]
                    /\ \A j \in Slots : RequestOk(Freed(i)[j])
                    /\ \A j \in Slots : Freed(i)[j].op # "free" \/ Freed(i)[j].confirmed
                                         => j # i /\ Freed(i)[j] = requests[j]
  OBVIOUS
<1>1. /\ Freed(i) \in [Slots -> Request] /\ Freed(i)[i] = Free
      /\ \A j \in Slots \ {i} : Freed(i)[j] = requests[j]
  BY FreeIs DEF MonthTyped, Freed
<1> QED
  BY <1>1, FreeIs DEF PageOk

\* The form of a row that is no longer listed.
LEMMA FormOfListedIs ==
    ASSUME MonthTyped, form' \in FormOfListed
    PROVE  form' \in Form /\ (form' = form \/ (form.isOpen /\ form' = ClosedForm))
  BY ClosedFormIs DEF FormOfListed, MonthTyped

LEMMA DismissedIs ==
    ASSUME NEW f, NEW m, m = DismissedBy(f)
    PROVE  /\ mishaps \subseteq m /\ m \subseteq mishaps \union {"dismissed"}
           /\ form.isOpen /\ ~f.isOpen /\ form.isSaving => "dismissed" \in m
  BY DEF DismissedBy, Dismissed

LEMMA FetchAnsweredStep ==
    ASSUME MonthTyped, PageOk, page # "MensaisPage", NEW i \in Slots, FetchAnswered(i)
    PROVE  MonthTyped' /\ PageOk'
<1>1. /\ requests[i].op = "fetch" /\ requests' = [requests EXCEPT ![i] = Free]
      /\ UNCHANGED <<page, used, key, pending, panel, changes>>
  BY DEF FetchAnswered
<1>2. \/ UNCHANGED <<form, mishaps>>
      \/ form' \in FormOfListed /\ mishaps' = DismissedBy(form')
  BY DEF FetchAnswered
<1>3. \/ UNCHANGED <<shown, isLoading, error>>
      \/ /\ isLoading' = FALSE /\ shown' = [of |-> requests[i].key, at |-> requests[i].content]
         /\ error' = error
      \/ isLoading' = FALSE /\ shown' = shown /\ error' = TRUE
  BY DEF FetchAnswered, listVars
<1>4. /\ requests' \in [Slots -> Request] /\ requests'[i] = Free /\ requests'[i].op = "free"
      /\ \A j \in Slots \ {i} : requests'[j] = requests[j]
      /\ \A j \in Slots : RequestOk(requests'[j])
      /\ \A j \in Slots :
            requests'[j].op # "free" \/ requests'[j].confirmed => j # i /\ requests'[j] = requests[j]
  <2>1. requests' = Freed(i)
    BY <1>1 DEF Freed
  <2> QED
    BY <2>1, FreedIn
<1>5. /\ form' \in Form
      /\ \/ UNCHANGED <<form, mishaps>>
         \/ form' = form /\ mishaps' = DismissedBy(form')
         \/ form.isOpen /\ form' = ClosedForm /\ mishaps' = DismissedBy(form')
  BY <1>2, FormOfListedIs DEF MonthTyped
<1>6. mishaps \subseteq mishaps' /\ mishaps' \subseteq mishaps \union {"dismissed"}
  BY <1>5, DismissedIs
<1>7. requests[i] \in Request /\ requests[i].key \in Keys /\ requests[i].content \in 0..MaxChanges
  BY <1>1 DEF MonthTyped, PageOk, RequestOk, Request
<1>8. MonthTyped'
  <2>1. shown' \in [of : Keys, at : 0..MaxChanges] \union {None}
    BY <1>3, <1>7 DEF MonthTyped
  <2>2. isLoading' \in BOOLEAN /\ error' \in BOOLEAN
    BY <1>3 DEF MonthTyped
  <2>3. mishaps' \subseteq Mishaps
    BY <1>6 DEF MonthTyped, Mishaps
  <2> QED
    BY <1>1, <1>4, <1>5, <2>1, <2>2, <2>3, TypedStays DEF MonthTyped
<1>9. ListOk'
  BY <1>6, ListFetchAnswered DEF PageOk
<1>10. SavingOk'
  <2>1. CASE form' = form
    BY <1>1, <1>4, <1>6, <2>1, SavingStays DEF PageOk
  <2>2. CASE form.isOpen /\ form' = ClosedForm /\ mishaps' = DismissedBy(form')
    <3>1. form.isSaving => "dismissed" \in mishaps'
      BY <2>2, ClosedFormIs, DismissedIs DEF MonthTyped
    <3> QED
      BY <1>1, <1>4, <1>6, <2>2, <3>1, ClosedFormIs, SavingCloses DEF MonthTyped, PageOk
  <2> QED
    BY <1>5, <2>1, <2>2
<1>11. RunsOk'
  BY <1>1, <1>4, <1>6, RunsStay DEF PageOk
<1> QED
  BY <1>4, <1>8, <1>9, <1>10, <1>11 DEF PageOk

LEMMA CarryOutStep ==
    ASSUME MonthTyped, PageOk, page # "MensaisPage", NEW i \in Slots, NEW answered \in BOOLEAN,
           CarryOut(i, answered)
    PROVE  MonthTyped' /\ PageOk'
<1>1. /\ requests[i].op \in {"save", "row", "apply"} /\ changes < MaxChanges /\ changes' = changes + 1
      /\ requests' = [requests EXCEPT ![i].is = IF answered THEN "done" ELSE "lost"]
      /\ mishaps' = IF answered THEN mishaps ELSE mishaps \union {"lost"}
      /\ UNCHANGED <<page, used, key, shown, isLoading, error, form, pending, panel>>
  BY DEF CarryOut, listVars
<1>2. requests \in [Slots -> Request] /\ RequestOk(requests[i])
  BY DEF MonthTyped, PageOk
<1>3. PICK r : r = requests[i] /\ r \in Request
  BY <1>2
<1>4. PICK q : q = [r EXCEPT !.is = IF answered THEN "done" ELSE "lost"]
  OBVIOUS
<1>5. /\ q \in Request /\ q.is \in {"done", "lost"} /\ q.op = r.op /\ q.key = r.key /\ q.row = r.row
      /\ q.ok = r.ok /\ q.confirmed = r.confirmed /\ q.mine = r.mine /\ q.asked = r.asked
  BY <1>3, <1>4 DEF Request
<1>6. requests' = [requests EXCEPT ![i] = q]
  BY <1>1, <1>3, <1>4
<1>7. requests' \in [Slots -> Request] /\ requests'[i] = q /\ \A j \in Slots \ {i} : requests'[j] = requests[j]
  BY <1>2, <1>5, <1>6
<1>8. \A j \in Slots : RequestOk(requests'[j])
  BY <1>1, <1>2, <1>3, <1>5, <1>7 DEF RequestOk, PageOk
<1>9. MonthTyped'
  <2>1. changes' \in 0..MaxChanges
    BY <1>1, MonthAssumption DEF MonthTyped
  <2> QED
    BY <1>1, <1>7, <2>1, TypedStays DEF MonthTyped, Mishaps
<1>10. \A j \in Slots : /\ requests'[j].op = requests[j].op /\ requests'[j].mine = requests[j].mine
                        /\ requests'[j].confirmed = requests[j].confirmed
                        /\ requests'[j].asked = requests[j].asked
  BY <1>3, <1>5, <1>7
<1>11. SavingOk'
  BY <1>1, <1>10, SavingStays DEF PageOk
<1>12. RunsOk'
  BY <1>1, <1>10, RunsStay DEF PageOk
<1> QED
  BY <1>8, <1>9, <1>11, <1>12, ListCarryOut DEF PageOk

----------------------------------------------------------------------------
(* The steps of the form and of the rows.                                   *)

LEMMA OverlappedIs ==
    ASSUME NEW m, m = Overlapped(requests)
    PROVE  /\ mishaps \subseteq m /\ m \subseteq mishaps \union {"overlap"}
           /\ UnderWay # {} => "overlap" \in m
  BY DEF Overlapped, UnderWay

\* A request is sent that may change the list: every other request is what rs has of it.
LEMMA SendAgain ==
    ASSUME MonthTyped, PageOk, HasRoom,
           NEW rs, rs = requests \/ rs = NoneMine(requests),
           NEW q \in Request, RequestOk(q), q.op \in {"save", "row", "apply", "suggest"},
           q.is = "sent", q.key = key, requests' = Sent(rs, q),
           UNCHANGED <<page, key, shown, isLoading, error, changes>>,
           mishaps \intersect {"overlap", "lost"} \subseteq mishaps',
           UnderWay # {} => "overlap" \in mishaps'
    PROVE  /\ ListOk' /\ requests' \in [Slots -> Request]
           /\ \A i \in Slots : RequestOk(requests'[i])
           /\ \E s \in Slots : /\ requests[s].op = "free" /\ requests'[s] = q
                               /\ \A i \in Slots \ {s} : requests'[i] = rs[i]
<1>1. /\ rs \in [Slots -> Request]
      /\ \A i \in Slots : RequestOk(rs[i]) /\ Alike(requests[i], rs[i])
  <2>1. CASE rs = requests
    BY <2>1 DEF MonthTyped, PageOk, Alike
  <2>2. CASE rs = NoneMine(requests)
    BY <2>2, NoneMineOk DEF MonthTyped, PageOk
  <2> QED
    BY <2>1, <2>2
<1>2. \E j \in Slots : rs[j].op = "free"
  BY <1>1, RoomIs DEF Alike
<1>3. PICK s \in Slots : /\ rs[s].op = "free" /\ Sent(rs, q) \in [Slots -> Request]
                         /\ Sent(rs, q)[s] = q
                         /\ \A i \in Slots \ {s} : Sent(rs, q)[i] = rs[i]
  <2>1. rs \in [Slots -> Request] /\ q \in Request
    BY <1>1
  <2> QED
    BY ONLY <1>2, <2>1, SentIn, Zenon
<1>4. /\ requests[s].op = "free" /\ requests'[s] = q
      /\ \A i \in Slots \ {s} : requests'[i] = rs[i]
  BY <1>1, <1>3 DEF Alike
<1>5. \A i \in Slots \ {s} : Alike(requests[i], requests'[i])
  BY <1>1, <1>4
<1>6. ListOk'
  BY <1>4, <1>5, ListSends DEF PageOk
<1> QED
  BY <1>1, <1>3, <1>4, <1>6

LEMMA OpenFormStep ==
    ASSUME MonthTyped, PageOk, page # "MensaisPage", OpenForm
    PROVE  MonthTyped' /\ PageOk'
<1>1. PICK mode \in hook.modes : form' = [ClosedForm EXCEPT !.isOpen = TRUE, !.mode = mode]
  BY DEF OpenForm
<1>2. /\ hook # None /\ panel' = IF open.suggests THEN NoPanel ELSE panel
      /\ requests' = NoneMine(requests)
      /\ mishaps' = IF open.suggests /\ panel.phase # "closed" THEN Dismissed \union {"reopened"}
                                                             ELSE Dismissed
      /\ UNCHANGED <<page, used, key, shown, isLoading, error, pending, changes>>
  BY DEF OpenForm, FormShown, listVars
<1>3. /\ mishaps \subseteq mishaps' /\ mishaps' \subseteq mishaps \union {"dismissed", "reopened"}
      /\ form.isSaving => "dismissed" \in mishaps'
      /\ open.suggests /\ panel.phase # "closed" => "reopened" \in mishaps'
  BY <1>2 DEF Dismissed
<1>4. PICK f : f = ClosedForm
  OBVIOUS
<1>5. /\ f \in Form /\ f.overdraft = "no"
      /\ f.isSaving <=> Latched /\ form.isSaving
  BY <1>4, ClosedFormIs DEF MonthTyped
<1>6. mode \in {"create", "edit"}
  BY <1>2, Context DEF HookOk
<1>7. /\ form' \in Form /\ form'.overdraft = "no"
      /\ form'.isSaving <=> Latched /\ form.isSaving
  <2>1. form' = [f EXCEPT !.isOpen = TRUE, !.mode = mode]
    BY <1>1, <1>4
  <2>2. form' \in Form
    BY <1>5, <1>6, <2>1 DEF Form
  <2>3. form'.overdraft = f.overdraft /\ form'.isSaving = f.isSaving
    BY <1>5, <2>1 DEF Form
  <2> QED
    BY <1>5, <2>2, <2>3
<1>8. /\ requests' \in [Slots -> Request]
      /\ \A i \in Slots :
            /\ RequestOk(requests'[i]) /\ Alike(requests[i], requests'[i])
            /\ requests'[i].confirmed = requests[i].confirmed /\ requests'[i].asked = requests[i].asked
  BY <1>2, NoneMineOk DEF MonthTyped, PageOk
<1>9. panel' \in Panel
  BY <1>2 DEF MonthTyped, NoPanel, Panel
<1>10. MonthTyped'
  <2>1. mishaps' \subseteq Mishaps
    BY <1>3 DEF MonthTyped, Mishaps
  <2> QED
    BY <1>2, <1>7, <1>8, <1>9, <2>1, TypedStays DEF MonthTyped
<1>11. ListOk'
  BY <1>2, <1>3, <1>8, ListStays DEF PageOk
<1>12. SavingOk'
  BY <1>2, <1>3, <1>7, <1>8, SavingCloses DEF MonthTyped, PageOk, Alike
<1>13. RunsOk'
  <2>1. CASE open.suggests /\ panel.phase = "closed"
    <3>1. "reopened" \notin mishaps' => Runs = {}
      BY <1>3, <2>1 DEF PageOk, RunsOk, Runs
    <3>2. "reopened" \notin mishaps' => \A i \in Slots : requests'[i].op \notin {"apply", "suggest"}
      BY <1>8, <3>1 DEF Runs, Under, Alike
    <3> QED
      BY <1>2, <2>1, <3>2, RunsEnd
  <2>2. CASE open.suggests /\ panel.phase # "closed"
    BY <1>2, <1>3, <2>2, RunsEnd
  <2>3. CASE ~open.suggests
    BY <1>2, <1>3, <1>8, <2>3, RunsStay DEF PageOk, Alike
  <2> QED
    BY <2>1, <2>2, <2>3
<1> QED
  BY <1>8, <1>10, <1>11, <1>12, <1>13 DEF PageOk

LEMMA CancelStep ==
    ASSUME MonthTyped, PageOk, page # "MensaisPage", Cancel
    PROVE  MonthTyped' /\ PageOk'
<1>1. /\ form' = ClosedForm /\ requests' = NoneMine(requests) /\ mishaps' = Dismissed
      /\ UNCHANGED <<page, used, key, shown, isLoading, error, pending, panel, changes>>
  BY DEF Cancel, listVars
<1>2. /\ mishaps \subseteq mishaps' /\ mishaps' \subseteq mishaps \union {"dismissed"}
      /\ form.isSaving => "dismissed" \in mishaps'
  BY <1>1 DEF Dismissed
<1>3. /\ form' \in Form /\ ~form'.isOpen /\ form'.overdraft = "no"
      /\ form'.isSaving <=> Latched /\ form.isSaving
  BY <1>1, ClosedFormIs DEF MonthTyped
<1>4. /\ requests' \in [Slots -> Request]
      /\ \A i \in Slots :
            /\ RequestOk(requests'[i]) /\ Alike(requests[i], requests'[i])
            /\ requests'[i].confirmed = requests[i].confirmed /\ requests'[i].asked = requests[i].asked
  BY <1>1, NoneMineOk DEF MonthTyped, PageOk
<1>5. MonthTyped'
  <2>1. mishaps' \subseteq Mishaps
    BY <1>2 DEF MonthTyped, Mishaps
  <2> QED
    BY <1>1, <1>3, <1>4, <2>1, TypedStays DEF MonthTyped
<1>6. ListOk'
  BY <1>1, <1>2, <1>4, ListStays DEF PageOk
<1>7. SavingOk'
  BY <1>1, <1>2, <1>3, <1>4, SavingCloses DEF MonthTyped, PageOk, Alike
<1>8. RunsOk'
  BY <1>1, <1>2, <1>4, RunsStay DEF PageOk, Alike
<1> QED
  BY <1>4, <1>5, <1>6, <1>7, <1>8 DEF PageOk

LEMMA SaveStep ==
    ASSUME MonthTyped, PageOk, page # "MensaisPage", NEW confirmed \in BOOLEAN, Save(confirmed),
           form.isOpen, ~form.isSaving, HasRoom, confirmed => form.overdraft # "no"
    PROVE  MonthTyped' /\ PageOk'
<1>1. PICK q : q = [Free EXCEPT !.op = "save", !.key = key, !.mine = (hook.asks = "form"),
                                !.mode = form.mode, !.confirmed = confirmed,
                                !.asked = form.overdraft]
  OBVIOUS
<1>2. /\ form' = [form EXCEPT !.isSaving = TRUE] /\ requests' = Sent(requests, q)
      /\ mishaps' = Overlapped(requests)
      /\ UNCHANGED <<page, used, key, shown, isLoading, error, pending, panel, changes>>
  BY <1>1 DEF Save, listVars
<1>3. /\ q.op = "save" /\ q.key = key /\ q.mine = (hook.asks = "form") /\ q.confirmed = confirmed
      /\ q.asked = form.overdraft /\ q.is = "sent" /\ ~q.ok
  BY <1>1 DEF Free
<1>4. q \in Request
  BY <1>1, FreeIs DEF MonthTyped, Form, Request
<1>5. RequestOk(q)
  BY <1>3 DEF MonthTyped, RequestOk
<1>6. /\ mishaps \subseteq mishaps' /\ mishaps' \subseteq mishaps \union {"overlap"}
      /\ UnderWay # {} => "overlap" \in mishaps'
  BY <1>2, OverlappedIs
<1>7. /\ ListOk' /\ requests' \in [Slots -> Request]
      /\ \A i \in Slots : RequestOk(requests'[i])
      /\ \E s \in Slots : /\ requests[s].op = "free" /\ requests'[s] = q
                          /\ \A i \in Slots \ {s} : requests'[i] = requests[i]
  <2>1. PICK rs : rs = requests
    OBVIOUS
  <2> QED
    BY <1>2, <1>3, <1>4, <1>5, <1>6, <2>1, SendAgain
<1>8. PICK s \in Slots : /\ requests[s].op = "free" /\ requests'[s] = q
                         /\ \A i \in Slots \ {s} : requests'[i] = requests[i]
  BY <1>7
<1>9. form' \in Form
  BY <1>2 DEF MonthTyped, Form
<1>10. MonthTyped'
  <2>1. mishaps' \subseteq Mishaps
    BY <1>6 DEF MonthTyped, Mishaps
  <2> QED
    BY <1>2, <1>7, <1>9, <2>1, TypedStays DEF MonthTyped
<1>11. SavingOk'
  BY <1>2, <1>3, <1>6, <1>8, SavingStarts DEF MonthTyped, PageOk
<1>12. RunsOk'
  BY <1>2, <1>3, <1>6, <1>8, RunsStay DEF PageOk
<1> QED
  BY <1>7, <1>10, <1>11, <1>12 DEF PageOk

LEMMA SubmitStep ==
    ASSUME MonthTyped, PageOk, page # "MensaisPage", Submit \/ ConfirmOverdraft
    PROVE  MonthTyped' /\ PageOk'
<1>1. CASE Submit
  BY <1>1, SaveStep DEF Submit
<1>2. CASE ConfirmOverdraft
  BY <1>2, SaveStep DEF ConfirmOverdraft, PageOk, SavingOk, FormOk
<1> QED
  BY <1>1, <1>2

LEMMA CancelOverdraftStep ==
    ASSUME MonthTyped, PageOk, page # "MensaisPage", CancelOverdraft
    PROVE  MonthTyped' /\ PageOk'
<1>1. /\ form' = [form EXCEPT !.overdraft = "no"]
      /\ UNCHANGED <<page, used, key, shown, isLoading, error, pending, panel, changes,
                     requests, mishaps>>
  BY DEF CancelOverdraft, listVars
<1>2. /\ form' \in Form /\ form'.overdraft = "no" /\ form'.isOpen = form.isOpen
      /\ form'.isSaving = form.isSaving
  BY <1>1 DEF MonthTyped, Form
<1>3. MonthTyped'
  BY <1>1, <1>2, TypedStays DEF MonthTyped, Mishaps
<1>4. ListOk'
  BY <1>1, ListStays DEF PageOk, Alike
<1>5. SavingOk'
  <2>0. hook' = hook /\ Latched' = Latched
    BY <1>1 DEF hook, Latched
  <2>1. FormOk'
    BY <1>1, <1>2, <2>0 DEF PageOk, SavingOk, FormOk, Under
  <2>2. SavesOk'
    BY <1>1, <1>2, <2>0 DEF PageOk, SavingOk, SavesOk, Under
  <2>3. AskedOk'
    BY <1>1, <1>2, <2>0 DEF PageOk, SavingOk, AskedOk, Under
  <2> QED
    BY <2>1, <2>2, <2>3 DEF SavingOk
<1>6. RunsOk'
  BY <1>1, RunsStay DEF PageOk
<1> QED
  BY <1>1, <1>3, <1>4, <1>5, <1>6 DEF PageOk

\* The list is read again after the change i asked for: by then i is gone from rs.
LEMMA ReadAfter ==
    ASSUME MonthTyped, PageOk, NEW i \in Slots, requests[i].op # "free",
           NEW rs \in [Slots -> Request], rs[i] = Free,
           \A j \in Slots \ {i} :
              RequestOk(rs[j]) /\ rs[j].op = requests[j].op /\ rs[j].is = requests[j].is,
           NEW k \in Keys, k = key \/ k = requests[i].key, open.list.latestOnly => k = key,
           requests' = Fetched(rs, k), UNCHANGED <<page, key, shown, isLoading, error>>,
           mishaps' \intersect {"overlap", "lost"} =
              MishapsAtFetch(Freed(i), k = key) \intersect {"overlap", "lost"}
    PROVE  /\ ListOk' /\ requests' \in [Slots -> Request]
           /\ \A j \in Slots : RequestOk(requests'[j])
           /\ \A j \in Slots :
                 requests'[j].op \notin {"fetch", "free"} \/ requests'[j].confirmed
                   => j # i /\ requests'[j] = rs[j]
<1>1. /\ Freed(i)[i].op = "free" /\ rs[i].op = "free" /\ RequestOk(rs[i]) /\ ~rs[i].confirmed
      /\ \A j \in Slots \ {i} : Freed(i)[j] = requests[j]
  BY FreedIn, FreeIs
<1>2. (\A j \in Slots : Freed(i)[j].op = "free") <=> (\A j \in Slots : rs[j].op = "free")
  BY <1>1
<1>3. IF \A j \in Slots : rs[j].op = "free"
        THEN k = key \/ ("overlap" \in mishaps' /\ ("lost" \in mishaps => "lost" \in mishaps'))
        ELSE "overlap" \in mishaps' /\ ("lost" \in mishaps => "lost" \in mishaps')
  <2>1. CASE ~(\A j \in Slots : rs[j].op = "free")
    BY <1>2, <2>1 DEF MishapsAtFetch
  <2>2. CASE (\A j \in Slots : rs[j].op = "free") /\ k # key
    <3>1. "overlap" \in mishaps
      BY <2>2 DEF PageOk, ListOk, AloneOk, UnderWay
    <3>2. MishapsAtFetch(Freed(i), k = key) = mishaps
      BY <1>2, <2>2 DEF MishapsAtFetch
    <3> QED
      BY <2>2, <3>1, <3>2
  <2> QED
    BY <2>1, <2>2
<1>4. \A j \in Slots : RequestOk(rs[j]) /\ (rs[j].op # "free" => rs[j].is = requests[j].is)
  BY <1>1
<1>5. /\ ListOk' /\ requests' \in [Slots -> Request]
      /\ \A j \in Slots : RequestOk(requests'[j])
      /\ \A j \in Slots :
            requests'[j].op # "fetch" \/ requests'[j].confirmed => requests'[j] = rs[j]
  BY <1>1, <1>3, <1>4, ReadAgain DEF PageOk
<1> QED
  BY <1>1, <1>5

LEMMA SaveAnsweredStep ==
    ASSUME MonthTyped, PageOk, page # "MensaisPage", NEW i \in Slots, SaveAnswered(i)
    PROVE  MonthTyped' /\ PageOk'
<1>1. /\ requests[i].op = "save" /\ form' = FormSaved(requests[i])
      /\ UNCHANGED <<page, used, key, shown, isLoading, error, pending, panel, changes>>
  BY DEF SaveAnswered, listVars
<1>2. PICK rs : rs = [NoneMine(requests) EXCEPT ![i] = Free]
  OBVIOUS
<1>3. PICK k : k = RefreshKey(requests[i])
  OBVIOUS
<1>4. PICK m : m = MishapsAtFetch(Freed(i), k = key)
  OBVIOUS
<1>5. /\ requests' = Fetched(rs, k)
      /\ mishaps' = m \ (IF Under("save") \subseteq {i} THEN {"dismissed"} ELSE {})
  BY <1>2, <1>3, <1>4 DEF SaveAnswered, Refresh, Freed
<1>6. /\ m \subseteq Mishaps
      /\ "dismissed" \in m <=> "dismissed" \in mishaps
      /\ "reopened" \in m <=> "reopened" \in mishaps
  BY <1>4 DEF MishapsAtFetch, MonthTyped, Mishaps
<1>7. /\ rs \in [Slots -> Request] /\ rs[i] = Free
      /\ \A j \in Slots \ {i} : RequestOk(rs[j]) /\ Alike(requests[j], rs[j]) /\ rs[j].is = requests[j].is
  BY <1>2, FreeIs, NoneMineOk DEF MonthTyped, PageOk
<1>8. k \in Keys /\ (k = key \/ k = requests[i].key) /\ (open.list.latestOnly => k = key)
  BY <1>1, <1>3 DEF RefreshKey, MonthTyped, PageOk, RequestOk
<1>9. /\ ListOk' /\ requests' \in [Slots -> Request]
      /\ \A j \in Slots : RequestOk(requests'[j])
      /\ \A j \in Slots :
            requests'[j].op \notin {"fetch", "free"} \/ requests'[j].confirmed
              => j # i /\ requests'[j] = rs[j]
  <2>1. mishaps' \intersect {"overlap", "lost"} =
              MishapsAtFetch(Freed(i), k = key) \intersect {"overlap", "lost"}
    BY <1>4, <1>5
  <2> QED
    BY <1>1, <1>5, <1>7, <1>8, <2>1, ReadAfter DEF Alike
<1>10. /\ hook # None /\ (hook.asks = "form" => hook.saved = "closes")
       /\ form \in Form /\ (form.overdraft # "no" => form.isOpen /\ hook.asks = "form")
  BY <1>1, Context DEF MonthTyped, PageOk, SavingOk, FormOk, Under, HookOk
<1>11. /\ form' \in Form /\ ~form'.isSaving
       /\ form'.overdraft # "no" => form'.isOpen /\ hook.asks = "form"
       /\ form'.overdraft # "other"
  <2>1. CASE form' = Closed
    BY <2>1 DEF Closed, Form
  <2>2. CASE hook.asks # "form" /\ form' = [form EXCEPT !.isSaving = FALSE]
    BY <1>10, <2>2 DEF Form
  <2>3. CASE hook.asks # "form" /\ form' = [form EXCEPT !.isSaving = FALSE, !.saved = form.isOpen]
    BY <1>10, <2>3 DEF Form
  <2> QED
    BY <1>1, <1>10, <2>1, <2>2, <2>3 DEF FormSaved
<1>12. MonthTyped'
  BY <1>1, <1>5, <1>6, <1>9, <1>11, TypedStays DEF MonthTyped
<1>13. SavingOk'
  <2>1. \A j \in Slots :
          /\ requests'[j].op = "save" => j # i /\ requests[j].op = "save"
          /\ requests'[j].confirmed => requests'[j].op = "save"
    BY <1>7, <1>9 DEF RequestOk, Alike
  <2>2. "dismissed" \in mishaps => "dismissed" \in mishaps' \/ Under("save") \subseteq {i}
    BY <1>5, <1>6
  <2> QED
    BY <1>1, <1>11, <2>1, <2>2, SavingEnds DEF PageOk
<1>14. RunsOk'
  <2>1. "reopened" \in mishaps => "reopened" \in mishaps'
    BY <1>5, <1>6
  <2> QED
    BY <1>1, <1>7, <1>9, <2>1, RunsStay DEF PageOk, Alike
<1> QED
  BY <1>9, <1>12, <1>13, <1>14 DEF PageOk

LEMMA SaveRefusedStep ==
    ASSUME MonthTyped, PageOk, page # "MensaisPage", NEW i \in Slots, SaveRefused(i)
    PROVE  MonthTyped' /\ PageOk'
<1>1. /\ requests[i].op = "save" /\ requests[i].is = "sent"
      /\ UNCHANGED <<page, used, key, shown, isLoading, error, pending, panel, changes, mishaps>>
  BY DEF SaveRefused, listVars
<1>2. /\ requests \in [Slots -> Request] /\ RequestOk(requests[i]) /\ form \in Form
      /\ hook # None
  BY <1>1 DEF MonthTyped, PageOk, SavingOk, FormOk, Under
<1>3. CASE /\ hook.asks = "browser" /\ form' = form
           /\ requests' = [requests EXCEPT ![i].confirmed = TRUE, ![i].asked = "own"]
  <2>1. PICK r : r = requests[i] /\ r \in Request
    BY <1>2
  <2>2. PICK q : q = [r EXCEPT !.confirmed = TRUE, !.asked = "own"]
    OBVIOUS
  <2>3. q \in Request
    BY <2>1, <2>2 DEF Request
  <2>4. /\ q.op = r.op /\ q.is = r.is /\ q.key = r.key /\ q.latest = r.latest
        /\ q.content = r.content /\ q.row = r.row /\ q.ok = r.ok
        /\ q.confirmed /\ q.asked = "own" /\ q.mine = r.mine
    BY <2>1, <2>2 DEF Request
  <2>5. requests' = [requests EXCEPT ![i] = q]
    BY <1>3, <2>1, <2>2
  <2>6. requests' \in [Slots -> Request] /\ requests'[i] = q /\ \A j \in Slots \ {i} : requests'[j] = requests[j]
    BY <1>2, <2>3, <2>5
  <2>7. \A j \in Slots : RequestOk(requests'[j])
    BY <1>1, <1>2, <2>1, <2>4, <2>6 DEF RequestOk, PageOk
  <2>8. \A j \in Slots : Alike(requests[j], requests'[j])
    BY <2>1, <2>4, <2>6 DEF Alike, Brings
  <2>9. MonthTyped'
    BY <1>1, <1>3, <2>6, TypedStays DEF MonthTyped, Mishaps
  <2>10. ListOk'
    BY <1>1, <2>8, ListStays DEF PageOk
  <2>11. SavingOk'
    <3>0. hook' = hook /\ Latched' = Latched
      BY <1>1 DEF hook, Latched
    <3>1. Under("save")' = Under("save")
      BY <2>8 DEF Under, Alike
    <3>2. FormOk' /\ SavesOk'
      BY <1>1, <1>3, <3>0, <3>1 DEF PageOk, SavingOk, FormOk, SavesOk
    <3>3. AskedOk'
      BY <1>1, <1>3, <2>1, <2>4, <2>6, <3>0 DEF PageOk, SavingOk, AskedOk, Under
    <3> QED
      BY <3>2, <3>3 DEF SavingOk
  <2>12. RunsOk'
    BY <1>1, <2>8, RunsStay DEF PageOk, Alike
  <2> QED
    BY <2>7, <2>9, <2>10, <2>11, <2>12 DEF PageOk
<1>4. CASE /\ hook.asks = "form" /\ requests' = [requests EXCEPT ![i] = Free]
           /\ form' = IF form.isOpen
                         THEN [form EXCEPT !.isSaving = FALSE,
                                   !.overdraft = IF requests[i].mine THEN "own" ELSE "other"]
                         ELSE form
  <2>1. /\ requests' \in [Slots -> Request] /\ requests'[i] = Free
        /\ \A j \in Slots \ {i} : requests'[j] = requests[j]
        /\ \A j \in Slots : RequestOk(requests'[j])
        /\ \A j \in Slots :
              requests'[j].op # "free" \/ requests'[j].confirmed => j # i /\ requests'[j] = requests[j]
    <3>1. requests' = Freed(i)
      BY <1>4 DEF Freed
    <3> QED
      BY <3>1, FreedIn
  <2>2. form' \in Form /\ form'.isOpen = form.isOpen
    BY <1>2, <1>4 DEF Form
  <2>3. MonthTyped'
    BY <1>1, <2>1, <2>2, TypedStays DEF MonthTyped, Mishaps
  <2>4. ListOk'
    <3>1. ~Brings(requests[i])
      BY <1>1, <1>2 DEF Brings, RequestOk
    <3> QED
      BY <1>1, <2>1, <3>1, ListStays DEF PageOk, Alike
  <2>5. SavingOk'
    <3>1. CASE ~form.isOpen
      BY <1>1, <1>4, <2>1, <3>1, FreeIs, SavingStays DEF PageOk
    <3>2. CASE form.isOpen
      <4>1. /\ ~form'.isSaving
            /\ form'.overdraft = IF requests[i].mine THEN "own" ELSE "other"
        BY <1>2, <1>4, <3>2 DEF Form
      <4>2. "dismissed" \notin mishaps' => form'.overdraft # "other"
        BY <1>1, <1>4, <4>1 DEF PageOk, SavingOk, AskedOk, Under
      <4>3. \A j \in Slots :
              /\ requests'[j].op = "save" => j # i /\ requests[j].op = "save"
              /\ requests'[j].confirmed => requests'[j].op = "save"
        BY <2>1, FreeIs DEF RequestOk
      <4> QED
        BY <1>1, <1>4, <2>2, <3>2, <4>1, <4>2, <4>3, SavingEnds DEF PageOk
    <3> QED
      BY <3>1, <3>2
  <2>6. RunsOk'
    BY <1>1, <2>1, FreeIs, RunsStay DEF PageOk
  <2> QED
    BY <2>1, <2>3, <2>4, <2>5, <2>6 DEF PageOk
<1> QED
  BY <1>3, <1>4 DEF SaveRefused

LEMMA SaveRejectedStep ==
    ASSUME MonthTyped, PageOk, page # "MensaisPage", NEW i \in Slots, SaveRejected(i)
    PROVE  MonthTyped' /\ PageOk'
<1>1. /\ requests[i].op = "save" /\ requests[i].is = "sent"
      /\ requests' = [requests EXCEPT ![i].is = "rejected"]
      /\ UNCHANGED <<page, used, key, shown, isLoading, error, form, pending, panel, changes, mishaps>>
  BY DEF SaveRejected, listVars
<1>2. requests \in [Slots -> Request] /\ RequestOk(requests[i])
  BY DEF MonthTyped, PageOk
<1>3. PICK r : r = requests[i] /\ r \in Request
  BY <1>2
<1>4. PICK q : q = [r EXCEPT !.is = "rejected"]
  OBVIOUS
<1>5. q \in Request
  BY <1>3, <1>4 DEF Request
<1>6. /\ q.op = r.op /\ q.is = "rejected" /\ q.key = r.key /\ q.latest = r.latest
      /\ q.content = r.content /\ q.row = r.row /\ q.ok = r.ok
      /\ q.confirmed = r.confirmed /\ q.asked = r.asked /\ q.mine = r.mine
  BY <1>3, <1>4 DEF Request
<1>7. requests' = [requests EXCEPT ![i] = q]
  BY <1>1, <1>3, <1>4
<1>8. requests' \in [Slots -> Request] /\ requests'[i] = q /\ \A j \in Slots \ {i} : requests'[j] = requests[j]
  BY <1>2, <1>5, <1>7
<1>9. \A j \in Slots : RequestOk(requests'[j])
  BY <1>1, <1>2, <1>3, <1>6, <1>8 DEF RequestOk, PageOk
<1>10. \A j \in Slots : /\ Alike(requests[j], requests'[j]) /\ requests'[j].mine = requests[j].mine
                        /\ requests'[j].confirmed = requests[j].confirmed
                        /\ requests'[j].asked = requests[j].asked
  BY <1>1, <1>3, <1>6, <1>8 DEF Alike, Brings
<1>11. MonthTyped'
  BY <1>1, <1>8, TypedStays DEF MonthTyped, Mishaps
<1>12. ListOk'
  BY <1>1, <1>10, ListStays DEF PageOk
<1>13. SavingOk'
  BY <1>1, <1>10, SavingStays DEF PageOk, Alike
<1>14. RunsOk'
  BY <1>1, <1>10, RunsStay DEF PageOk, Alike
<1> QED
  BY <1>9, <1>11, <1>12, <1>13, <1>14 DEF PageOk

LEMMA SaveFailedStep ==
    ASSUME MonthTyped, PageOk, page # "MensaisPage", NEW i \in Slots, SaveFailed(i)
    PROVE  MonthTyped' /\ PageOk'
<1>1. /\ requests[i].op = "save" /\ requests[i].is # "done" /\ RequestOk(requests[i])
      /\ form' = [form EXCEPT !.isSaving = FALSE, !.overdraft = "no"]
      /\ UNCHANGED <<page, used, key, shown, isLoading, error, pending, panel, changes, mishaps>>
  BY DEF SaveFailed, listVars, PageOk
<1>2. /\ requests' \in [Slots -> Request] /\ requests'[i] = Free
      /\ \A j \in Slots \ {i} : requests'[j] = requests[j]
      /\ \A j \in Slots : RequestOk(requests'[j])
      /\ \A j \in Slots :
            requests'[j].op # "free" \/ requests'[j].confirmed => j # i /\ requests'[j] = requests[j]
  <2>1. requests' = Freed(i)
    BY DEF SaveFailed, Freed
  <2> QED
    BY <2>1, FreedIn
<1>3. form' \in Form /\ ~form'.isSaving /\ form'.overdraft = "no"
  BY <1>1 DEF MonthTyped, Form
<1>4. MonthTyped'
  BY <1>1, <1>2, <1>3, TypedStays DEF MonthTyped, Mishaps
<1>5. ListOk'
  <2>1. ~Brings(requests[i])
    BY <1>1 DEF Brings, RequestOk
  <2> QED
    BY <1>1, <1>2, <2>1, ListStays DEF PageOk, Alike
<1>6. SavingOk'
  <2>1. \A j \in Slots :
          /\ requests'[j].op = "save" => j # i /\ requests[j].op = "save"
          /\ requests'[j].confirmed => requests'[j].op = "save"
    BY <1>2, FreeIs DEF RequestOk
  <2> QED
    BY <1>1, <1>3, <2>1, SavingEnds DEF PageOk
<1>7. RunsOk'
  BY <1>1, <1>2, FreeIs, RunsStay DEF PageOk
<1> QED
  BY <1>2, <1>4, <1>5, <1>6, <1>7 DEF PageOk

LEMMA ChangeRowStep ==
    ASSUME MonthTyped, PageOk, page # "MensaisPage", ChangeRow
    PROVE  MonthTyped' /\ PageOk'
<1>1. PICK op \in RowOps \ pending :
         /\ pending' = IF op \in DisabledOps THEN pending \union {op} ELSE pending
         /\ requests' = Sent(requests, [Free EXCEPT !.op = "row", !.key = key, !.what = op])
  BY DEF ChangeRow
<1>2. PICK q : q = [Free EXCEPT !.op = "row", !.key = key, !.what = op]
  OBVIOUS
<1>3. /\ mishaps' = Overlapped(requests) /\ HasRoom /\ requests' = Sent(requests, q)
      /\ UNCHANGED <<page, used, key, shown, isLoading, error, form, panel, changes>>
  BY <1>1, <1>2 DEF ChangeRow, listVars
<1>4. q.op = "row" /\ q.key = key /\ ~q.confirmed /\ q.is = "sent" /\ ~q.ok
  BY <1>2 DEF Free
<1>5. q \in Request
  BY <1>1, <1>2, FreeIs, Context DEF MonthTyped, Request
<1>6. RequestOk(q)
  BY <1>4 DEF MonthTyped, RequestOk
<1>7. /\ mishaps \subseteq mishaps' /\ mishaps' \subseteq mishaps \union {"overlap"}
      /\ UnderWay # {} => "overlap" \in mishaps'
  BY <1>3, OverlappedIs
<1>8. /\ ListOk' /\ requests' \in [Slots -> Request]
      /\ \A i \in Slots : RequestOk(requests'[i])
      /\ \E s \in Slots : /\ requests[s].op = "free" /\ requests'[s] = q
                          /\ \A i \in Slots \ {s} : requests'[i] = requests[i]
  <2>1. PICK rs : rs = requests
    OBVIOUS
  <2> QED
    BY <1>3, <1>4, <1>5, <1>6, <1>7, <2>1, SendAgain
<1>9. PICK s \in Slots : /\ requests[s].op = "free" /\ requests'[s] = q
                         /\ \A i \in Slots \ {s} : requests'[i] = requests[i]
  BY <1>8
<1>10. MonthTyped'
  <2>1. mishaps' \subseteq Mishaps
    BY <1>7 DEF MonthTyped, Mishaps
  <2>2. pending' \subseteq pending \union DisabledOps
    BY <1>1
  <2> QED
    BY <1>3, <1>8, <2>1, <2>2, TypedStays DEF MonthTyped
<1>11. SavingOk'
  BY <1>3, <1>4, <1>7, <1>9, SavingStays DEF PageOk
<1>12. RunsOk'
  BY <1>3, <1>4, <1>7, <1>9, RunsStay DEF PageOk
<1> QED
  BY <1>8, <1>10, <1>11, <1>12 DEF PageOk

LEMMA RowChangedStep ==
    ASSUME MonthTyped, PageOk, page # "MensaisPage", NEW i \in Slots, RowChanged(i)
    PROVE  MonthTyped' /\ PageOk'
<1>1. /\ requests[i].op = "row" /\ pending' \subseteq pending
      /\ UNCHANGED <<page, used, key, shown, isLoading, error, panel, changes>>
  BY DEF RowChanged, listVars
<1>2. PICK k : k = RefreshKey(requests[i])
  OBVIOUS
<1>3. PICK m : m = MishapsAtFetch(Freed(i), k = key)
  OBVIOUS
<1>4. PICK d : d = DismissedBy(form')
  OBVIOUS
<1>5. requests' = Fetched(Freed(i), k) /\ mishaps' = m \union (d \ mishaps)
  BY <1>2, <1>3, <1>4 DEF RowChanged, Freed
<1>6. /\ m \subseteq Mishaps
      /\ "dismissed" \in m <=> "dismissed" \in mishaps
      /\ "reopened" \in m <=> "reopened" \in mishaps
  BY <1>3 DEF MishapsAtFetch, MonthTyped, Mishaps
<1>7. /\ mishaps \subseteq d /\ d \subseteq mishaps \union {"dismissed"}
      /\ form.isOpen /\ ~form'.isOpen /\ form.isSaving => "dismissed" \in d
  BY <1>4, DismissedIs
<1>8. k \in Keys /\ (k = key \/ k = requests[i].key) /\ (open.list.latestOnly => k = key)
  BY <1>1, <1>2 DEF RefreshKey, MonthTyped, PageOk, RequestOk
<1>9. /\ ListOk' /\ requests' \in [Slots -> Request]
      /\ \A j \in Slots : RequestOk(requests'[j])
      /\ \A j \in Slots :
            requests'[j].op \notin {"fetch", "free"} \/ requests'[j].confirmed
              => j # i /\ requests'[j] = requests[j]
  <2>1. mishaps' \intersect {"overlap", "lost"} =
              MishapsAtFetch(Freed(i), k = key) \intersect {"overlap", "lost"}
    BY <1>3, <1>5, <1>7
  <2>2. PICK rs : rs = Freed(i)
    OBVIOUS
  <2>3. /\ rs \in [Slots -> Request] /\ rs[i] = Free
        /\ \A j \in Slots \ {i} : RequestOk(rs[j]) /\ rs[j] = requests[j]
    BY <2>2, FreedIn
  <2>4. /\ ListOk' /\ requests' \in [Slots -> Request]
        /\ \A j \in Slots : RequestOk(requests'[j])
        /\ \A j \in Slots :
              requests'[j].op \notin {"fetch", "free"} \/ requests'[j].confirmed
                => j # i /\ requests'[j] = rs[j]
    BY <1>1, <1>5, <1>8, <2>1, <2>2, <2>3, ReadAfter
  <2> QED
    BY <2>3, <2>4
<1>10. /\ form' \in Form
       /\ form' = form \/ form' = ClosedForm
  <2>1. CASE form' \in {ClosedForm}
    BY <2>1, ClosedFormIs DEF MonthTyped
  <2>2. CASE form' \in FormOfListed
    BY <2>2, FormOfListedIs
  <2> QED
    BY <2>1, <2>2 DEF RowChanged
<1>11. MonthTyped'
  <2>1. mishaps' \subseteq Mishaps
    BY <1>5, <1>6, <1>7 DEF Mishaps
  <2>2. pending' \subseteq pending \union DisabledOps
    BY <1>1
  <2> QED
    BY <1>1, <1>9, <1>10, <2>1, <2>2, TypedStays DEF MonthTyped
<1>12. SavingOk'
  <2>1. CASE form' = form
    BY <1>1, <1>5, <1>6, <1>9, <2>1, SavingStays DEF PageOk
  <2>2. CASE form' = ClosedForm
    <3>1. \/ form.isSaving => "dismissed" \in mishaps'
          \/ /\ ~form.isOpen
             /\ \A j \in Slots : requests'[j].op = "save" => requests'[j].mine = requests[j].mine
      BY <1>5, <1>6, <1>7, <1>9, <2>2, ClosedFormIs DEF MonthTyped
    <3>2. /\ form'.isSaving <=> Latched /\ form.isSaving
          /\ form'.overdraft = "no" /\ ~form'.isOpen
      BY <2>2, ClosedFormIs DEF MonthTyped
    <3> QED
      BY <1>1, <1>5, <1>6, <1>9, <3>1, <3>2, SavingCloses DEF MonthTyped, PageOk
  <2> QED
    BY <1>10, <2>1, <2>2
<1>13. RunsOk'
  BY <1>1, <1>5, <1>6, <1>9, RunsStay DEF PageOk
<1> QED
  BY <1>9, <1>11, <1>12, <1>13 DEF PageOk

LEMMA RowFailedStep ==
    ASSUME MonthTyped, PageOk, page # "MensaisPage", NEW i \in Slots, RowFailed(i)
    PROVE  MonthTyped' /\ PageOk'
<1>1. /\ requests[i].op = "row" /\ requests[i].is # "done" /\ RequestOk(requests[i])
      /\ pending' \subseteq pending /\ error' = (error \/ open.list.failureHides)
      /\ UNCHANGED <<page, used, key, shown, isLoading, form, panel, changes, mishaps>>
  BY DEF RowFailed, PageOk
<1>2. /\ requests' \in [Slots -> Request] /\ requests'[i] = Free
      /\ \A j \in Slots \ {i} : requests'[j] = requests[j]
      /\ \A j \in Slots : RequestOk(requests'[j])
      /\ \A j \in Slots :
            requests'[j].op # "free" \/ requests'[j].confirmed => j # i /\ requests'[j] = requests[j]
  <2>1. requests' = Freed(i)
    BY DEF RowFailed, Freed
  <2> QED
    BY <2>1, FreedIn
<1>3. MonthTyped'
  <2>1. pending' \subseteq pending \union DisabledOps
    BY <1>1
  <2>2. error' \in BOOLEAN
    BY <1>1
  <2> QED
    BY <1>1, <1>2, <2>1, <2>2, TypedStays DEF MonthTyped, Mishaps
<1>4. ListOk'
  <2>1. ~Brings(requests[i])
    BY <1>1 DEF Brings, RequestOk
  <2> QED
    BY <1>1, <1>2, <2>1, ListStays DEF PageOk, Alike
<1>5. SavingOk'
  BY <1>1, <1>2, FreeIs, SavingStays DEF PageOk
<1>6. RunsOk'
  BY <1>1, <1>2, FreeIs, RunsStay DEF PageOk
<1> QED
  BY <1>2, <1>3, <1>4, <1>5, <1>6 DEF PageOk

----------------------------------------------------------------------------
(* The steps of the suggested values.                                       *)

\* The values are asked for: what of it the two steps that do so have in common.
LEMMA Asked ==
    ASSUME MonthTyped, PageOk, HasRoom, AskSuggestions,
           UNCHANGED <<page, key, shown, isLoading, error, changes>>,
           mishaps \intersect {"overlap", "lost"} \subseteq mishaps',
           UnderWay # {} => "overlap" \in mishaps'
    PROVE  /\ ListOk' /\ requests' \in [Slots -> Request]
           /\ \A i \in Slots : RequestOk(requests'[i])
           /\ \E s \in Slots :
                 /\ requests[s].op = "free" /\ requests'[s].op = "suggest"
                 /\ ~requests'[s].confirmed
                 /\ \A i \in Slots \ {s} :
                       /\ requests'[i].op = requests[i].op /\ ~requests'[i].mine
                       /\ requests'[i].confirmed = requests[i].confirmed
                       /\ requests'[i].asked = requests[i].asked
<1>1. PICK q : q = [Free EXCEPT !.op = "suggest", !.key = key]
  OBVIOUS
<1>2. PICK rs : rs = NoneMine(requests)
  OBVIOUS
<1>3. requests' = Sent(rs, q)
  BY <1>1, <1>2 DEF AskSuggestions
<1>4. q.op = "suggest" /\ q.key = key /\ ~q.confirmed /\ q.is = "sent" /\ ~q.ok
  BY <1>1 DEF Free
<1>5. q \in Request
  BY <1>1, FreeIs DEF MonthTyped, Request
<1>6. RequestOk(q)
  BY <1>4 DEF MonthTyped, RequestOk
<1>7. /\ ListOk' /\ requests' \in [Slots -> Request]
      /\ \A i \in Slots : RequestOk(requests'[i])
      /\ \E s \in Slots : /\ requests[s].op = "free" /\ requests'[s] = q
                          /\ \A i \in Slots \ {s} : requests'[i] = rs[i]
  BY <1>2, <1>3, <1>4, <1>5, <1>6, SendAgain
<1>8. PICK s \in Slots : /\ requests[s].op = "free" /\ requests'[s] = q
                         /\ \A i \in Slots \ {s} : requests'[i] = rs[i]
  BY <1>7
<1>9. \A i \in Slots : /\ rs[i].op = requests[i].op /\ ~rs[i].mine
                       /\ rs[i].confirmed = requests[i].confirmed
                       /\ rs[i].asked = requests[i].asked
  BY <1>2, NoneMineOk DEF MonthTyped, PageOk, Alike
<1> QED
  BY <1>4, <1>7, <1>8, <1>9

LEMMA OpenSuggestionsStep ==
    ASSUME MonthTyped, PageOk, page # "MensaisPage", OpenSuggestions
    PROVE  MonthTyped' /\ PageOk'
<1>1. /\ open.suggests /\ HasRoom /\ form' = ClosedForm /\ AskSuggestions
      /\ panel' = [NoPanel EXCEPT !.phase = "loading"]
      /\ UNCHANGED <<page, used, key, shown, isLoading, error, pending, changes>>
  BY DEF OpenSuggestions, listVars
<1>2. /\ mishaps' \subseteq Mishaps /\ mishaps \ {"reopened"} \subseteq mishaps'
      /\ form.isSaving => "dismissed" \in mishaps'
      /\ UnderWay # {} => "overlap" \in mishaps'
      /\ "reopened" \notin mishaps' => Runs = {}
  BY DEF OpenSuggestions, Dismissed, MonthTyped, Mishaps, Runs
<1>3. /\ ListOk' /\ requests' \in [Slots -> Request]
      /\ \A i \in Slots : RequestOk(requests'[i])
      /\ \E s \in Slots :
            /\ requests[s].op = "free" /\ requests'[s].op = "suggest"
            /\ ~requests'[s].confirmed
            /\ \A i \in Slots \ {s} :
                  /\ requests'[i].op = requests[i].op /\ ~requests'[i].mine
                  /\ requests'[i].confirmed = requests[i].confirmed
                  /\ requests'[i].asked = requests[i].asked
  BY <1>1, <1>2, Asked
<1>4. PICK s \in Slots :
         /\ requests[s].op = "free" /\ requests'[s].op = "suggest" /\ ~requests'[s].confirmed
         /\ \A i \in Slots \ {s} :
               /\ requests'[i].op = requests[i].op
               /\ requests'[i].confirmed = requests[i].confirmed
               /\ requests'[i].asked = requests[i].asked
  BY <1>3
<1>5. /\ form' \in Form /\ form'.overdraft = "no" /\ ~form'.isOpen
      /\ form'.isSaving <=> Latched /\ form.isSaving
  BY <1>1, ClosedFormIs DEF MonthTyped
<1>6. panel' \in Panel /\ panel'.phase = "loading"
  BY <1>1 DEF NoPanel, Panel
<1>7. MonthTyped'
  BY <1>1, <1>2, <1>3, <1>5, <1>6, TypedStays DEF MonthTyped
<1>8. SavingOk'
  BY <1>1, <1>2, <1>4, <1>5, SavingCloses DEF MonthTyped, PageOk
<1>9. RunsOk'
  BY <1>1, <1>2, <1>4, <1>6, RunsStart DEF Runs, Under
<1> QED
  BY <1>3, <1>7, <1>8, <1>9 DEF PageOk

LEMMA RetrySuggestionsStep ==
    ASSUME MonthTyped, PageOk, page # "MensaisPage", RetrySuggestions
    PROVE  MonthTyped' /\ PageOk'
<1>1. /\ panel.phase = "error" /\ HasRoom /\ AskSuggestions /\ mishaps' = Overlapped(requests)
      /\ panel' = [panel EXCEPT !.phase = "loading"]
      /\ UNCHANGED <<page, used, key, shown, isLoading, error, form, pending, changes>>
  BY DEF RetrySuggestions, listVars
<1>2. /\ mishaps \subseteq mishaps' /\ mishaps' \subseteq mishaps \union {"overlap"}
      /\ UnderWay # {} => "overlap" \in mishaps'
  BY <1>1, OverlappedIs
<1>3. /\ ListOk' /\ requests' \in [Slots -> Request]
      /\ \A i \in Slots : RequestOk(requests'[i])
      /\ \E s \in Slots :
            /\ requests[s].op = "free" /\ requests'[s].op = "suggest"
            /\ ~requests'[s].confirmed
            /\ \A i \in Slots \ {s} :
                  /\ requests'[i].op = requests[i].op /\ ~requests'[i].mine
                  /\ requests'[i].confirmed = requests[i].confirmed
                  /\ requests'[i].asked = requests[i].asked
  BY <1>1, <1>2, Asked
<1>4. PICK s \in Slots :
         /\ requests[s].op = "free" /\ requests'[s].op = "suggest" /\ ~requests'[s].confirmed
         /\ \A i \in Slots \ {s} :
               /\ requests'[i].op = requests[i].op /\ ~requests'[i].mine
               /\ requests'[i].confirmed = requests[i].confirmed
               /\ requests'[i].asked = requests[i].asked
  BY <1>3
<1>5. panel' \in Panel /\ panel'.phase = "loading"
  BY <1>1 DEF MonthTyped, Panel
<1>6. MonthTyped'
  <2>1. mishaps' \subseteq Mishaps
    BY <1>2 DEF MonthTyped, Mishaps
  <2> QED
    BY <1>1, <1>3, <1>5, <2>1, TypedStays DEF MonthTyped
<1>7. open.suggests /\ ("reopened" \notin mishaps' => Runs = {})
  BY <1>1, <1>2 DEF PageOk, RunsOk, Runs
<1>8. SavingOk'
  <2>0. hook' = hook /\ Latched' = Latched /\ hook.asks # "form"
    BY <1>1, <1>7, Context DEF hook, Latched
  <2>1. Under("save")' = Under("save")
    BY <1>4 DEF Under
  <2>2. FormOk' /\ SavesOk'
    BY <1>1, <1>2, <2>0, <2>1 DEF PageOk, SavingOk, FormOk, SavesOk
  <2>3. AskedOk'
    BY <1>1, <1>2, <1>4, <2>0, <2>1 DEF PageOk, SavingOk, AskedOk, Under
  <2> QED
    BY <2>2, <2>3 DEF SavingOk
<1>9. RunsOk'
  BY <1>1, <1>4, <1>5, <1>7, RunsStart DEF Runs, Under
<1> QED
  BY <1>3, <1>6, <1>8, <1>9 DEF PageOk

LEMMA ClosePanelStep ==
    ASSUME MonthTyped, PageOk, page # "MensaisPage", ClosePanel
    PROVE  MonthTyped' /\ PageOk'
<1>1. /\ panel.phase \in {"ready", "completed", "error"} /\ panel' = NoPanel
      /\ UNCHANGED <<page, used, key, shown, isLoading, error, form, pending, changes,
                     requests, mishaps>>
  BY DEF ClosePanel, listVars
<1>2. MonthTyped'
  <2>1. panel' \in Panel
    BY <1>1 DEF NoPanel, Panel
  <2> QED
    BY <1>1, <2>1, TypedStays DEF MonthTyped, Mishaps
<1>3. ListOk'
  BY <1>1, ListStays DEF PageOk, Alike
<1>4. SavingOk'
  BY <1>1, SavingStays DEF PageOk
<1>5. RunsOk'
  <2>1. open.suggests /\ ("reopened" \notin mishaps => Runs = {})
    BY <1>1 DEF PageOk, RunsOk, Runs
  <2> QED
    BY <1>1, <2>1, RunsEnd DEF Runs, Under
<1> QED
  BY <1>1, <1>2, <1>3, <1>4, <1>5 DEF PageOk

LEMMA ApplyRowsStep ==
    ASSUME MonthTyped, PageOk, page # "MensaisPage", NEW rows \in SUBSET Suggested,
           panel.phase \in {"ready", "completed"}, ApplyRows(rows)
    PROVE  MonthTyped' /\ PageOk'
<1>1. /\ HasRoom /\ mishaps' = Overlapped(requests) /\ panel' = [panel EXCEPT !.phase = "applying"]
      /\ UNCHANGED <<page, used, key, shown, isLoading, error, form, pending, changes>>
  BY DEF ApplyRows, listVars
<1>2. PICK r \in rows :
         requests' = Sent(requests, [Free EXCEPT !.op = "apply", !.key = key, !.row = r,
                                                 !.rest = rows \ {r}])
  BY DEF ApplyRows
<1>3. PICK q : q = [Free EXCEPT !.op = "apply", !.key = key, !.row = r, !.rest = rows \ {r}]
  OBVIOUS
<1>4. requests' = Sent(requests, q)
  BY <1>2, <1>3
<1>5. q.op = "apply" /\ q.key = key /\ ~q.confirmed /\ q.is = "sent" /\ q.row = r
  BY <1>3 DEF Free
<1>6. q \in Request
  BY <1>3, FreeIs DEF MonthTyped, Request
<1>7. RequestOk(q)
  BY <1>5 DEF MonthTyped, RequestOk
<1>8. /\ mishaps \subseteq mishaps' /\ mishaps' \subseteq mishaps \union {"overlap"}
      /\ UnderWay # {} => "overlap" \in mishaps'
  BY <1>1, OverlappedIs
<1>9. /\ ListOk' /\ requests' \in [Slots -> Request]
      /\ \A i \in Slots : RequestOk(requests'[i])
      /\ \E s \in Slots : /\ requests[s].op = "free" /\ requests'[s] = q
                          /\ \A i \in Slots \ {s} : requests'[i] = requests[i]
  <2>1. PICK rs : rs = requests
    OBVIOUS
  <2> QED
    BY <1>1, <1>4, <1>5, <1>6, <1>7, <1>8, <2>1, SendAgain
<1>10. PICK s \in Slots : /\ requests[s].op = "free" /\ requests'[s] = q
                          /\ \A i \in Slots \ {s} : requests'[i] = requests[i]
  BY <1>9
<1>11. panel' \in Panel /\ panel'.phase = "applying"
  BY <1>1 DEF MonthTyped, Panel
<1>12. MonthTyped'
  <2>1. mishaps' \subseteq Mishaps
    BY <1>8 DEF MonthTyped, Mishaps
  <2> QED
    BY <1>1, <1>9, <1>11, <2>1, TypedStays DEF MonthTyped
<1>13. SavingOk'
  BY <1>1, <1>5, <1>8, <1>10, SavingStays DEF PageOk
<1>14. RunsOk'
  <2>1. open.suggests /\ ("reopened" \notin mishaps' => Runs = {})
    BY <1>8 DEF PageOk, RunsOk, Runs
  <2> QED
    BY <1>1, <1>5, <1>10, <1>11, <2>1, RunsStart DEF Runs, Under
<1> QED
  BY <1>9, <1>12, <1>13, <1>14 DEF PageOk

LEMMA ApplyStep ==
    ASSUME MonthTyped, PageOk, page # "MensaisPage", Apply \/ RetryFailed
    PROVE  MonthTyped' /\ PageOk'
<1>1. CASE Apply
  BY <1>1, ApplyRowsStep DEF Apply
<1>2. CASE RetryFailed
  <2>1. PICK rows : rows = {r \in Suggested : panel.rows[r] = "error"}
    OBVIOUS
  <2>2. rows \in SUBSET Suggested /\ ApplyRows(rows) /\ panel.phase = "completed"
    BY <1>2, <2>1 DEF RetryFailed
  <2> QED
    BY <2>2, ApplyRowsStep
<1> QED
  BY <1>1, <1>2

LEMMA SuggestionsAnsweredStep ==
    ASSUME MonthTyped, PageOk, page # "MensaisPage", NEW i \in Slots, SuggestionsAnswered(i)
    PROVE  MonthTyped' /\ PageOk'
<1>1. /\ requests[i].op = "suggest" /\ RequestOk(requests[i])
      /\ UNCHANGED <<page, used, key, shown, isLoading, error, form, pending, changes, mishaps>>
  BY DEF SuggestionsAnswered, listVars, PageOk
<1>2. /\ requests' \in [Slots -> Request] /\ requests'[i] = Free
      /\ \A j \in Slots \ {i} : requests'[j] = requests[j]
      /\ \A j \in Slots : RequestOk(requests'[j])
      /\ \A j \in Slots :
            requests'[j].op # "free" \/ requests'[j].confirmed => j # i /\ requests'[j] = requests[j]
  <2>1. requests' = Freed(i)
    BY DEF SuggestionsAnswered, Freed
  <2> QED
    BY <2>1, FreedIn
<1>3. panel' \in Panel
  <2>1. CASE panel' = [NoPanel EXCEPT !.phase = "ready"]
    BY <2>1 DEF NoPanel, Panel
  <2>2. CASE panel' = [panel EXCEPT !.phase = "error"]
    BY <2>2 DEF MonthTyped, Panel
  <2> QED
    BY <2>1, <2>2 DEF SuggestionsAnswered
<1>4. MonthTyped'
  BY <1>1, <1>2, <1>3, TypedStays DEF MonthTyped, Mishaps
<1>5. ListOk'
  <2>1. ~Brings(requests[i])
    BY <1>1 DEF Brings, RequestOk
  <2> QED
    BY <1>1, <1>2, <2>1, ListStays DEF PageOk, Alike
<1>6. SavingOk'
  BY <1>1, <1>2, FreeIs, SavingStays DEF PageOk
<1>7. RunsOk'
  <2>1. i \in Runs
    BY <1>1 DEF Runs, Under
  <2>2. open.suggests
    BY <2>1 DEF PageOk, RunsOk, Runs
  <2>3. "reopened" \notin mishaps' => Runs \subseteq {i}
    BY <1>1, <2>1 DEF PageOk, RunsOk, Runs, AtMostOne
  <2>4. "reopened" \notin mishaps' => \A j \in Slots : requests'[j].op \notin {"apply", "suggest"}
    BY <1>2, <2>3, FreeIs DEF Runs, Under
  <2> QED
    BY <1>1, <2>2, <2>4, RunsEnd
<1> QED
  BY <1>2, <1>4, <1>5, <1>6, <1>7 DEF PageOk

LEMMA NextRowIs ==
    ASSUME NEW r \in Request, NEW next \in Suggested, NEW rest \in SUBSET Suggested,
           NEW ok \in BOOLEAN, NEW bad \in BOOLEAN
    PROVE  [r EXCEPT !.row = next, !.rest = rest, !.is = "sent", !.ok = ok, !.bad = bad] \in Request
<1>1. ASSUME NEW x \in Request PROVE [x EXCEPT !.row = next, !.rest = rest] \in Request
  BY <1>1 DEF Request
<1>2. ASSUME NEW x \in Request PROVE [x EXCEPT !.is = "sent"] \in Request
  BY <1>2 DEF Request
<1>3. ASSUME NEW x \in Request PROVE [x EXCEPT !.ok = ok] \in Request
  BY <1>3 DEF Request
<1>4. ASSUME NEW x \in Request PROVE [x EXCEPT !.bad = bad] \in Request
  BY <1>4 DEF Request
<1> QED
  BY <1>1, <1>2, <1>3, <1>4

LEMMA RowAppliedStep ==
    ASSUME MonthTyped, PageOk, page # "MensaisPage", NEW i \in Slots, RowApplied(i)
    PROVE  MonthTyped' /\ PageOk'
<1>1. /\ requests[i].op = "apply" /\ RequestOk(requests[i]) /\ requests \in [Slots -> Request]
      /\ UNCHANGED <<page, used, key, shown, isLoading, error, form, pending, changes>>
  BY DEF RowApplied, listVars, MonthTyped, PageOk
<1>2. PICK r : r = requests[i] /\ r \in Request
  BY <1>1
<1>3. PICK good \in BOOLEAN : good <=> r.is = "done"
  OBVIOUS
<1>4. PICK done : done = [panel EXCEPT !.rows[r.row] = IF good THEN "success" ELSE "error"]
  OBVIOUS
<1>5. done \in Panel /\ done.phase = panel.phase
  BY <1>1, <1>2, <1>4 DEF MonthTyped, Panel, RequestOk
<1>6. i \in Runs
  BY <1>1 DEF Runs, Under
<1>7. open.suggests /\ ~open.list.latestOnly
  BY <1>6, Context DEF PageOk, RunsOk, Runs
<1>8. CASE /\ r.rest # {} /\ panel' = done /\ mishaps' = mishaps
           /\ \E next \in r.rest :
                 requests' = [requests EXCEPT
                     ![i].row = next, ![i].rest = r.rest \ {next}, ![i].is = "sent",
                     ![i].ok = r.ok \/ good, ![i].bad = r.bad \/ ~good]
  <2>1. PICK next \in r.rest :
           requests' = [requests EXCEPT
                     ![i].row = next, ![i].rest = r.rest \ {next}, ![i].is = "sent",
                     ![i].ok = r.ok \/ good, ![i].bad = r.bad \/ ~good]
    BY <1>8
  <2>2. PICK ok \in BOOLEAN : ok = (r.ok \/ good)
    OBVIOUS
  <2>3. PICK bad \in BOOLEAN : bad = (r.bad \/ ~good)
    OBVIOUS
  <2>4. PICK q : q = [r EXCEPT !.row = next, !.rest = r.rest \ {next}, !.is = "sent",
                              !.ok = ok, !.bad = bad]
    OBVIOUS
  <2>5. next \in Suggested
    BY <1>2 DEF Request
  <2>6. q \in Request
    <3>1. r.rest \ {next} \in SUBSET Suggested
      BY <1>2 DEF Request
    <3>2. PICK rest : rest = r.rest \ {next}
      OBVIOUS
    <3>3. q = [r EXCEPT !.row = next, !.rest = rest, !.is = "sent", !.ok = ok, !.bad = bad]
      BY <2>4, <3>2
    <3> QED
      BY <1>2, <2>5, <3>1, <3>2, <3>3, NextRowIs
  <2>7. /\ q.op = r.op /\ q.key = r.key /\ q.latest = r.latest /\ q.content = r.content
        /\ q.confirmed = r.confirmed /\ q.asked = r.asked /\ q.mine = r.mine
        /\ q.row = next /\ q.is = "sent"
    BY <1>2, <2>4 DEF Request
  <2>8. q.ok <=> r.ok \/ r.is = "done"
    BY <1>2, <1>3, <2>2, <2>4 DEF Request
  <2>9. requests' = [requests EXCEPT ![i] = q]
    BY <1>2, <2>1, <2>2, <2>3, <2>4
  <2>10. requests' \in [Slots -> Request] /\ requests'[i] = q /\ \A j \in Slots \ {i} : requests'[j] = requests[j]
    BY <1>1, <2>6, <2>9
  <2>11. \A j \in Slots : RequestOk(requests'[j])
    BY <1>1, <1>2, <2>5, <2>7, <2>10 DEF RequestOk, PageOk
  <2>12. Alike(r, q)
    BY <1>1, <1>2, <2>7, <2>8 DEF Alike, Brings, RequestOk
  <2>13. \A j \in Slots : /\ Alike(requests[j], requests'[j]) /\ requests'[j].mine = requests[j].mine
                          /\ requests'[j].confirmed = requests[j].confirmed
                          /\ requests'[j].asked = requests[j].asked
    <3>1. \A j \in Slots : Alike(requests[j], requests[j])
      BY DEF Alike
    <3> QED
      BY <1>2, <2>7, <2>10, <2>12, <3>1
  <2>14. MonthTyped'
    BY <1>1, <1>5, <1>8, <2>10, TypedStays DEF MonthTyped, Mishaps
  <2>15. ListOk'
    BY <1>1, <1>8, <2>13, ListStays DEF PageOk
  <2>16. SavingOk'
    BY <1>1, <1>8, <2>13, SavingStays DEF PageOk, Alike
  <2>17. RunsOk'
    BY <1>1, <1>5, <1>8, <2>13, RunsStay DEF PageOk, Alike
  <2> QED
    BY <2>11, <2>14, <2>15, <2>16, <2>17 DEF PageOk
<1>9. panel' = NoPanel \/ panel' = [done EXCEPT !.phase = "completed"] => panel' \in Panel
  <2>1. NoPanel \in Panel
    BY DEF NoPanel, Panel
  <2>2. [done EXCEPT !.phase = "completed"] \in Panel
    BY <1>5 DEF Panel
  <2> QED
    BY <2>1, <2>2
<1>10. CASE /\ panel' \in Panel /\ ~Brings(r) /\ mishaps' = mishaps
            /\ requests' = [requests EXCEPT ![i] = Free]
  <2>1. /\ requests' \in [Slots -> Request] /\ requests'[i] = Free
        /\ \A j \in Slots \ {i} : requests'[j] = requests[j]
        /\ \A j \in Slots : RequestOk(requests'[j])
        /\ \A j \in Slots :
              requests'[j].op # "free" \/ requests'[j].confirmed => j # i /\ requests'[j] = requests[j]
    <3>1. requests' = Freed(i)
      BY <1>10 DEF Freed
    <3> QED
      BY <3>1, FreedIn
  <2>2. MonthTyped'
    BY <1>1, <1>10, <2>1, TypedStays DEF MonthTyped, Mishaps
  <2>3. ListOk'
    BY <1>1, <1>2, <1>10, <2>1, ListStays DEF PageOk, Alike
  <2>4. SavingOk'
    BY <1>1, <1>10, <2>1, FreeIs, SavingStays DEF PageOk
  <2>5. RunsOk'
    <3>1. "reopened" \notin mishaps' => Runs \subseteq {i}
      BY <1>6, <1>10 DEF PageOk, RunsOk, Runs, AtMostOne
    <3>2. "reopened" \notin mishaps' => \A j \in Slots : requests'[j].op \notin {"apply", "suggest"}
      BY <2>1, <3>1, FreeIs DEF Runs, Under
    <3> QED
      BY <1>1, <1>7, <3>2, RunsEnd
  <2> QED
    BY <2>1, <2>2, <2>3, <2>4, <2>5 DEF PageOk
<1>11. CASE /\ panel' \in Panel
            /\ requests' = Fetched([requests EXCEPT ![i] = Free], r.key)
            /\ mishaps' = MishapsAtFetch([requests EXCEPT ![i] = Free], r.key = key)
  <2>1. PICK rs : rs = Freed(i)
    OBVIOUS
  <2>2. PICK k : k = r.key
    OBVIOUS
  <2>3. requests' = Fetched(rs, k) /\ mishaps' = MishapsAtFetch(Freed(i), k = key)
    BY <1>11, <2>1, <2>2 DEF Freed
  <2>4. /\ mishaps' \subseteq Mishaps
        /\ "dismissed" \in mishaps' <=> "dismissed" \in mishaps
        /\ "reopened" \in mishaps' <=> "reopened" \in mishaps
    BY <2>3 DEF MishapsAtFetch, MonthTyped, Mishaps
  <2>5. /\ rs \in [Slots -> Request] /\ rs[i] = Free
        /\ \A j \in Slots \ {i} : RequestOk(rs[j]) /\ rs[j] = requests[j]
    BY <2>1, FreedIn
  <2>6. k \in Keys /\ k = requests[i].key
    BY <1>1, <1>2, <2>2 DEF RequestOk
  <2>7. mishaps' \intersect {"overlap", "lost"} =
              MishapsAtFetch(Freed(i), k = key) \intersect {"overlap", "lost"}
    BY <2>3
  <2>8. /\ ListOk' /\ requests' \in [Slots -> Request]
        /\ \A j \in Slots : RequestOk(requests'[j])
        /\ \A j \in Slots :
              requests'[j].op \notin {"fetch", "free"} \/ requests'[j].confirmed
                => j # i /\ requests'[j] = rs[j]
    BY <1>1, <1>7, <2>3, <2>5, <2>6, <2>7, ReadAfter
  <2>9. MonthTyped'
    BY <1>1, <1>11, <2>4, <2>8, TypedStays DEF MonthTyped
  <2>10. SavingOk'
    BY <1>1, <2>4, <2>5, <2>8, SavingStays DEF PageOk
  <2>11. RunsOk'
    <3>1. "reopened" \notin mishaps' => Runs \subseteq {i}
      BY <1>6, <2>4 DEF PageOk, RunsOk, Runs, AtMostOne
    <3>2. "reopened" \notin mishaps' => \A j \in Slots : requests'[j].op \notin {"apply", "suggest"}
      BY <2>5, <2>8, <3>1 DEF Runs, Under
    <3> QED
      BY <1>1, <1>7, <3>2, RunsEnd
  <2> QED
    BY <2>8, <2>9, <2>10, <2>11 DEF PageOk
<1> QED
  <2>1. CASE r.rest # {}
    BY <1>2, <1>3, <1>4, <1>8, <2>1 DEF RowApplied
  <2>2. CASE r.rest = {} /\ (r.ok \/ good)
    BY <1>2, <1>3, <1>4, <1>9, <1>11, <2>2 DEF RowApplied
  <2>3. CASE r.rest = {} /\ ~(r.ok \/ good)
    <3>1. ~Brings(r)
      BY <1>1, <1>2, <1>3, <2>3 DEF Brings
    <3> QED
      BY <1>2, <1>3, <1>4, <1>9, <1>10, <2>3, <3>1 DEF RowApplied
  <2> QED
    BY <2>1, <2>2, <2>3

----------------------------------------------------------------------------
(* The invariant.                                                           *)

LEMMA MonthInitIInv == MonthInit => MonthIInv
<1> SUFFICES ASSUME MonthInit PROVE MonthIInv
  OBVIOUS
<1>1. PICK i \in Slots : requests = [j \in Slots |-> IF j = i THEN FetchOf(key) ELSE Free]
  BY DEF MonthInit, FetchOf
<1>2. /\ key \in Keys /\ shown = None /\ isLoading = TRUE /\ form = Closed /\ panel = NoPanel
      /\ changes = 0 /\ mishaps = {} /\ pending = {} /\ error = FALSE
      /\ page \in Pages /\ used \in open.forms
  BY DEF MonthInit
<1>3. /\ FetchOf(key) \in Request /\ FetchOf(key).op = "fetch" /\ FetchOf(key).is = "sent"
      /\ FetchOf(key).key = key /\ FetchOf(key).latest /\ ~FetchOf(key).confirmed
      /\ RequestOk(FetchOf(key))
  BY <1>2, FetchOfIs
<1>4. /\ requests \in [Slots -> Request] /\ requests[i] = FetchOf(key)
      /\ \A j \in Slots \ {i} : requests[j] = Free
  BY <1>1, <1>3, FreeIs
<1>5. Closed \in Form /\ NoPanel \in Panel /\ NoPanel.phase = "closed"
  BY DEF Closed, Form, NoPanel, Panel
<1>6. MonthTyped
  <2>1. changes \in 0..MaxChanges
    BY <1>2, MonthAssumption
  <2>2. form \in Form /\ panel \in Panel
    BY <1>2, <1>5
  <2>3. shown \in [of : Keys, at : 0..MaxChanges] \union {None}
    BY <1>2
  <2>4. isLoading \in BOOLEAN /\ error \in BOOLEAN
    BY <1>2
  <2> QED
    BY <1>2, <1>4, <2>1, <2>2, <2>3, <2>4 DEF MonthTyped
<1>7. \A j \in Slots : RequestOk(requests[j])
  BY <1>3, <1>4, FreeIs
<1>8. ListOk
  <2>1. LostKnown
    BY <1>3, <1>4, FreeIs DEF LostKnown
  <2>2. LatestOk
    BY <1>2, <1>3, <1>4, FreeIs DEF LatestOk
  <2>3. AloneOk
    BY <1>3, <1>4, FreeIs DEF AloneOk, AtMostOne, UnderWay
  <2>4. CurrentOk
    BY <1>2 DEF CurrentOk
  <2> QED
    BY <2>1, <2>2, <2>3, <2>4 DEF ListOk
<1>9. SavingOk
  <2>1. Under("save") = {} /\ ~Closed.isOpen /\ ~Closed.isSaving /\ Closed.overdraft = "no"
    BY <1>3, <1>4, FreeIs DEF Under, Closed
  <2>2. \A j \in Slots : ~requests[j].confirmed
    BY <1>3, <1>4, FreeIs
  <2> QED
    BY <1>2, <2>1, <2>2 DEF SavingOk, FormOk, SavesOk, AskedOk, AtMostOne
<1>10. RunsOk
  <2>1. Under("apply") = {} /\ Under("suggest") = {}
    BY <1>3, <1>4, FreeIs DEF Under
  <2> QED
    BY <1>2, <1>5, <2>1 DEF RunsOk, AtMostOne
<1>11. OthersIdle
  BY <1>3, <1>4, FreeIs DEF OthersIdle
<1> QED
  BY <1>6, <1>7, <1>8, <1>9, <1>10, <1>11 DEF MonthIInv, PageOk

LEMMA MonthUnchanged ==
    ASSUME MonthIInv, UNCHANGED monthVars
    PROVE  MonthIInv'
<1>1. UNCHANGED <<page, used, key, shown, isLoading, error, form, pending, panel, changes,
                  requests, mishaps>>
  BY DEF monthVars, listVars
<1>2. MonthTyped'
  BY <1>1, TypedStays DEF MonthIInv, MonthTyped, Mishaps
<1>3. ASSUME PageOk PROVE PageOk'
  <2>1. ListOk'
    BY <1>1, <1>3, ListStays DEF PageOk, Alike
  <2>2. SavingOk'
    BY <1>1, <1>3, SavingStays DEF PageOk
  <2>3. RunsOk'
    BY <1>1, <1>3, RunsStay DEF PageOk
  <2> QED
    BY <1>1, <1>3, <2>1, <2>2, <2>3 DEF PageOk
<1> QED
  BY <1>1, <1>2, <1>3 DEF MonthIInv, OthersIdle

LEMMA PageStays ==
    ASSUME MonthNext
    PROVE  page' = page
<1>1. CASE ChooseKey \/ Retry \/ OpenForm \/ Cancel \/ CancelOverdraft \/ ChangeRow \/ ClosePanel
  BY <1>1 DEF ChooseKey, Retry, OpenForm, Cancel, CancelOverdraft, ChangeRow, ClosePanel
<1>2. CASE Submit \/ ConfirmOverdraft
  BY <1>2 DEF Submit, ConfirmOverdraft, Save
<1>3. CASE OpenSuggestions \/ RetrySuggestions \/ Apply \/ RetryFailed
  BY <1>3 DEF OpenSuggestions, RetrySuggestions, Apply, RetryFailed, ApplyRows
<1>4. ASSUME NEW i \in Slots,
             \/ AnswerRead(i) \/ FetchAnswered(i)
             \/ \E answered \in BOOLEAN : CarryOut(i, answered)
      PROVE  page' = page
  BY <1>4 DEF AnswerRead, FetchAnswered, CarryOut
<1>5. ASSUME NEW i \in Slots,
             SaveAnswered(i) \/ SaveRefused(i) \/ SaveRejected(i) \/ SaveFailed(i)
      PROVE  page' = page
  BY <1>5 DEF SaveAnswered, SaveRefused, SaveRejected, SaveFailed
<1>6. ASSUME NEW i \in Slots,
             RowChanged(i) \/ RowFailed(i) \/ SuggestionsAnswered(i) \/ RowApplied(i)
      PROVE  page' = page
  BY <1>6 DEF RowChanged, RowFailed, SuggestionsAnswered, RowApplied
<1> QED
  BY <1>1, <1>2, <1>3, <1>4, <1>5, <1>6 DEF MonthNext

LEMMA MonthNextIInv ==
    ASSUME MonthIInv, page # "MensaisPage", MonthNext
    PROVE  MonthIInv'
<1>1. MonthTyped /\ PageOk /\ page' = page
  BY PageStays DEF MonthIInv
<1>2. CASE ChooseKey \/ Retry
  BY <1>1, <1>2, ChooseKeyStep, RetryStep DEF MonthIInv
<1>3. CASE OpenForm \/ Cancel \/ Submit \/ ConfirmOverdraft \/ CancelOverdraft
  BY <1>1, <1>3, OpenFormStep, CancelStep, SubmitStep, CancelOverdraftStep DEF MonthIInv
<1>4. CASE ChangeRow
  BY <1>1, <1>4, ChangeRowStep DEF MonthIInv
<1>5. CASE OpenSuggestions \/ RetrySuggestions \/ ClosePanel \/ Apply \/ RetryFailed
  BY <1>1, <1>5, OpenSuggestionsStep, RetrySuggestionsStep, ClosePanelStep, ApplyStep
     DEF MonthIInv
<1>6. ASSUME NEW i \in Slots,
             \/ AnswerRead(i) \/ FetchAnswered(i)
             \/ \E answered \in BOOLEAN : CarryOut(i, answered)
             \/ SaveAnswered(i) \/ SaveRefused(i) \/ SaveRejected(i) \/ SaveFailed(i)
             \/ RowChanged(i) \/ RowFailed(i) \/ SuggestionsAnswered(i) \/ RowApplied(i)
      PROVE  MonthIInv'
  BY <1>1, <1>6, AnswerReadStep, FetchAnsweredStep, CarryOutStep, SaveAnsweredStep,
     SaveRefusedStep, SaveRejectedStep, SaveFailedStep, RowChangedStep, RowFailedStep,
     SuggestionsAnsweredStep, RowAppliedStep DEF MonthIInv
<1> QED
  BY <1>2, <1>3, <1>4, <1>5, <1>6 DEF MonthNext

LEMMA InitIInv == Init => IInv
  BY MonthInitIInv, BillsInitIInv DEF Init, IInv

LEMMA NextIInv == IInv /\ [Next]_vars => IInv'
<1> SUFFICES ASSUME IInv, [Next]_vars PROVE IInv'
  OBVIOUS
<1>1. CASE page # "MensaisPage" /\ MonthNext /\ UNCHANGED billVars
  BY <1>1, MonthNextIInv, BillsUnchanged DEF IInv
<1>2. CASE BillsNext /\ UNCHANGED monthVars
  BY <1>2, MonthUnchanged, BillsNextIInv DEF IInv
<1>3. CASE UNCHANGED vars
  BY <1>3, MonthUnchanged, BillsUnchanged DEF IInv, vars
<1> QED
  BY <1>1, <1>2, <1>3 DEF Next

LEMMA IInvHolds == Spec => []IInv
  BY InitIInv, NextIInv, PTL DEF Spec

\* A page keeps the shape of its list, its form, its panel and its requests, and so does
\* the page of the recurring bills.
THEOREM TypeCorrect == Spec => []TypeOK
<1>1. ASSUME IInv PROVE TypeOK
  <2>1. MonthTyped /\ BillsTyped
    BY <1>1 DEF IInv, MonthIInv, BillsIInv
  <2>2. \A i \in Slots : requests[i].key \in Keys \union {None} /\ requests[i].content \in 0..MaxChanges
    BY <2>1 DEF MonthTyped, Request
  <2>3. expenses \in [Bills -> 0..MaxWrites]
    <3>1. \A b \in Bills : expenses[b] \in 0..MaxWrites
      BY <2>1, BillsAssumption DEF BillsTyped
    <3> QED
      BY <2>1, <3>1 DEF BillsTyped
  <2>4. \A i \in Slots : calls[i].status \in Statuses /\ calls[i].bill \in Bills \union {NoBill}
    BY <2>1 DEF BillsTyped, Call
  <2>5. BillsTypeOK
    BY <2>1, <2>3, <2>4 DEF BillsTypeOK, BillsTyped, BillsOnPage
  <2> QED
    BY <2>1, <2>2, <2>5 DEF TypeOK, MonthTyped, Form, Panel
<1> QED
  BY <1>1, IInvHolds, PTL

\* The list under a heading is of that month, account or date where only the latest answer
\* counts, and the server's once nothing is under way and no two requests overlapped.
THEOREM ListOfItsKey == Spec => []ShownIsOfKey
<1>1. ASSUME IInv PROVE ShownIsOfKey
  <2>1. SUFFICES ASSUME page # "MensaisPage", shown # None, ListShown
                 PROVE  /\ open.list.latestOnly => shown.of = key
                        /\ (UnderWay = {} /\ mishaps \intersect {"overlap", "lost"} = {}) =>
                              shown = [of |-> key, at |-> changes]
    BY DEF ShownIsOfKey
  <2>2. LatestOk /\ CurrentOk /\ \A i \in Slots : RequestOk(requests[i])
    BY <1>1, <2>1 DEF IInv, MonthIInv, PageOk, ListOk
  <2>3. UnderWay = {} => \A i \in Slots : ~Brings(requests[i])
    BY <2>2 DEF UnderWay, Brings, RequestOk
  <2> QED
    BY <2>1, <2>2, <2>3 DEF LatestOk, CurrentOk
<1> QED
  BY <1>1, IInvHolds, PTL

LEMMA AtMostOneIs ==
    ASSUME NEW S, AtMostOne(S)
    PROVE  Cardinality(S) <= 1
<1>1. CASE S = {}
  BY <1>1, FS_EmptySet
<1>2. ASSUME NEW x \in S PROVE Cardinality(S) <= 1
  <2>1. S = {x}
    BY DEF AtMostOne
  <2>2. Cardinality({x}) = 1
    BY FS_Singleton
  <2> QED
    BY <2>1, <2>2
<1> QED
  BY <1>1, <1>2

\* A form is saved once at a time: always where isSaving is latched, and elsewhere unless
\* it was dismissed while it was saving. The suggested values are applied by one run,
\* unless they were opened again meanwhile.
THEOREM SavedOnceAtATime == Spec => []OneSaveAtATime
<1>1. ASSUME IInv PROVE OneSaveAtATime
  <2>1. CASE page # "MensaisPage"
    <3>1. SavesOk /\ RunsOk
      BY <1>1, <2>1 DEF IInv, MonthIInv, PageOk, SavingOk
    <3>2. (hook # None /\ hook.latched) \/ "dismissed" \notin mishaps => AtMostOne(Under("save"))
      BY <3>1 DEF SavesOk, Latched
    <3>3. "reopened" \notin mishaps => AtMostOne(Under("apply"))
      BY <3>1 DEF RunsOk, AtMostOne
    <3> QED
      BY <3>2, <3>3, AtMostOneIs DEF OneSaveAtATime
  <2>2. CASE page = "MensaisPage"
    <3>1. AtMostOne(Under("save")) /\ AtMostOne(Under("apply"))
      BY <1>1, <2>2 DEF IInv, MonthIInv, OthersIdle, AtMostOne, Under
    <3> QED
      BY <3>1, AtMostOneIs DEF OneSaveAtATime
  <2> QED
    BY <2>1, <2>2
<1> QED
  BY <1>1, IInvHolds, PTL

\* An overdraft is confirmed for the withdrawal the user was asked about, unless its form
\* was dismissed while it was saving.
THEOREM ConfirmedWasAsked == Spec => []ConfirmedIsWhatWasAsked
<1>1. IInv => ConfirmedIsWhatWasAsked
  BY DEF IInv, MonthIInv, PageOk, SavingOk, AskedOk, OthersIdle, ConfirmedIsWhatWasAsked
<1> QED
  BY <1>1, IInvHolds, PTL

\* A bill that is paid has one expense, unless two payments of it were under way at once or
\* an edit put back an old status.
THEOREM OneExpense == Spec => []ExpenseRecordedOnceUnlessRaced
<1>1. IInv => ExpenseRecordedOnceUnlessRaced
  BY DEF IInv, BillsIInv, ExpensesOk, Calm, ExpenseRecordedOnceUnlessRaced
<1> QED
  BY <1>1, IInvHolds, PTL

\* Once nothing is under way the recurring bills on the page are the server's, unless two
\* requests overlapped or an answer was lost.
THEOREM BillsAreCurrent == Spec => []BillsAreCurrentWhenQuiet
<1>1. IInv => BillsAreCurrentWhenQuiet
  BY DEF IInv, BillsIInv, BillsFollow, UnderWayCalls, CallOk,
     BillsAreCurrentWhenQuiet
<1> QED
  BY <1>1, IInvHolds, PTL
=============================================================================
