--------------------------- MODULE CardStatements ---------------------------
(***************************************************************************)
(* The statements of one credit card: charges, payments, credit refunds and *)
(* the ledger that says what is to pay in each month. Every operation reads *)
(* and validates outside the repository's write gate, and changes the graph *)
(* inside it; between the two, other requests may do the same. A client     *)
(* stands for one HTTP request at a time. (A save that fails leaves the     *)
(* graph as it was: module JsonRepository.)                                 *)
(*                                                                         *)
(* Not modelled: other cards, inactive accounts, dates within a month, and  *)
(* bank-paid expenses (to this card, moving a charge to a bank is deleting  *)
(* it, and back is adding it). An update states its invoice month.          *)
(***************************************************************************)
EXTENDS Integers, FiniteSets, FiniteSetsExt

CONSTANTS
    Clients,
    Charges,        \* ids of the charges that can ever be made
    MaxMonth,       \* bound: the statement months are 1..MaxMonth
    Values,         \* the values a charge may have; a negative one is a refund
    LegacyValue,    \* the value of the charge on a statement paid the old way
    MaxRefund,      \* bound: the amounts refunded to a bank are 1..MaxRefund
    MaxTransfers    \* bound: transfers made in a behaviour

ASSUME ConstantsAssumption ==
    /\ MaxMonth \in Nat \ {0}
    /\ Values \subseteq Int \ {0}
    /\ LegacyValue \in Values
    /\ MaxRefund \in Nat
    /\ MaxTransfers \in Nat

Months == 1..MaxMonth

VARIABLES
    charges,     \* [Charges -> Charge], what the Expenses of the card are
    statements,  \* [Months -> Statement]
    transfers,   \* the payments to the card and the credit refunds from it
    made,        \* how many transfers were ever made; the newest one's id
    open,        \* what each client's validated request is going to do, or Idle
    stale,       \* clients whose request was validated before the latest change
    raced        \* some request has been carried out although it was stale

book == <<charges, statements, transfers, made>>
vars == <<book, open, stale, raced>>

----------------------------------------------------------------------------
(* The entities.                                                           *)

\* An Expense with this card: not made yet, on a statement and owed to the card,
\* settled (paid from a bank before payments were transfers), or deleted.
Charge == [is : {"unborn", "charge", "settled", "deleted"}, month : Months, value : Int]

Unborn == [is |-> "unborn", month |-> 1, value |-> 0]

\* What a deleted one was last is forgotten.
Deleted == [is |-> "deleted", month |-> 1, value |-> 0]

\* A CardStatement; payment is its PaymentTransferId, 0 for none.
Statement == [stored : BOOLEAN, paid : BOOLEAN, payment : 0..MaxTransfers]

NoStatement == [stored |-> FALSE, paid |-> FALSE, payment |-> 0]

\* A transfer into the card pays the statement of its month; one out of it refunds
\* credit in its month.
Transfer == [id : 1..MaxTransfers, into : BOOLEAN, month : Months, amount : Nat]

Idle == [op |-> "idle"]

OnMonth(m) == {c \in Charges : charges[c].is \in {"charge", "settled"} /\ charges[c].month = m}

Owed(m) == {c \in OnMonth(m) : charges[c].is = "charge"}

RefundsOf(m, ts) == {t \in ts : ~t.into /\ t.month = m}

SumValues(cs) == MapThenSumSet(LAMBDA c : charges[c].value, cs)

SumAmounts(ts) == MapThenSumSet(LAMBDA t : t.amount, ts)

----------------------------------------------------------------------------
(* CardStatementLedger, over the transfers ts.                             *)

MonthsWithRecords(ts) == {m \in Months : OnMonth(m) # {} \/ RefundsOf(m, ts) # {}}

NoRow == [due |-> 0, carried |-> 0]

AtLeastZero(n) == IF n > 0 THEN n ELSE 0

MonthRow(m, ts, creditIn) ==
    LET statement == statements[m]
        counted == SumValues(Owed(m)) + SumAmounts(RefundsOf(m, ts))
        paid == SumAmounts({t \in ts : t.id = statement.payment})
        due == counted - creditIn
    IN CASE statement.paid /\ statement.payment = 0 ->
               [due |-> 0, carried |-> creditIn]
         [] statement.paid /\ statement.payment # 0 ->
               [due |-> 0, carried |-> AtLeastZero(creditIn + paid - counted)]
         [] OTHER ->
               [due |-> AtLeastZero(due), carried |-> AtLeastZero(-due)]

\* The walk starts at the first month with records.
Walk(ts) ==
    LET row[m \in 0..MaxMonth] ==
            IF \A r \in MonthsWithRecords(ts) : m < r THEN NoRow
            ELSE MonthRow(m, ts, row[m - 1].carried)
    IN row

\* The month the rows end with, when through is asked for.
LastRow(ts, through) == Max(MonthsWithRecords(ts) \union {through})

AmountToPay(m) == Walk(transfers)[m].due

\* CardChargeFilter.TotalOwed: minus the balance of the card's account.
TotalOwed ==
    SumValues(UNION {Owed(m) : m \in Months})
      + SumAmounts({t \in transfers : ~t.into}) - SumAmounts({t \in transfers : t.into})

\* A refund may be added if it raises no amount to pay and the credit it is taken
\* from is still there at the end.
RefundKeepsAmountsToPay(refund) ==
    LET before == Walk(transfers)
        after == Walk(transfers \union {refund})
    IN /\ \A m \in 1..LastRow(transfers \union {refund}, refund.month) :
              after[m].due <= before[m].due
       /\ after[LastRow(transfers \union {refund}, refund.month)].carried
            = (IF MonthsWithRecords(transfers) = {} THEN 0
               ELSE before[LastRow(transfers, refund.month)].carried) - refund.amount

----------------------------------------------------------------------------
(* Validation: what a request has read and checked before it asks for the  *)
(* gate.                                                                   *)

IsStatementPaid(m) == statements[m].paid

IsOnPaidStatement(c) == IsStatementPaid(charges[c].month)

Exists(c) == charges[c].is \in {"charge", "settled"}

Hold(k, request) ==
    /\ open[k] = Idle
    /\ open' = [open EXCEPT ![k] = request]
    /\ stale' = stale \ {k}
    /\ UNCHANGED <<book, raced>>

\* No other request holds the id: a Guid is never used twice.
Unused(c) ==
    /\ charges[c].is = "unborn"
    /\ \A k \in Clients : ~(open[k].op = "add" /\ open[k].charge = c)

ValidateAdd(k, c, m, v) ==
    /\ Unused(c)
    /\ ~IsStatementPaid(m)
    /\ Hold(k, [op |-> "add", charge |-> c, month |-> m, value |-> v])

\* Mutant: only the statement the charge leaves is looked at.
ValidateUpdateMutant(k, c, m, v) ==
    /\ Exists(c)
    /\ IsOnPaidStatement(c) => m = charges[c].month /\ v = charges[c].value
    /\ Hold(k, [op |-> "update", charge |-> c, month |-> m, value |-> v])

\* EnsurePaidStatementLocksHold: a charge on a paid statement keeps its locked
\* fields, and no charge moves onto one.
ValidateUpdate(k, c, m, v) ==
    /\ Exists(c)
    /\ IsOnPaidStatement(c) => m = charges[c].month /\ v = charges[c].value
    /\ m # charges[c].month => ~IsStatementPaid(m)
    /\ Hold(k, [op |-> "update", charge |-> c, month |-> m, value |-> v])

ValidateDelete(k, c) ==
    /\ Exists(c)
    /\ ~IsOnPaidStatement(c)
    /\ Hold(k, [op |-> "delete", charge |-> c])

ValidateMove(k, c, m) ==
    /\ Exists(c)
    /\ ~IsOnPaidStatement(c)
    /\ ~IsStatementPaid(m)
    /\ Hold(k, [op |-> "move", charge |-> c, month |-> m])

\* Mutant: a paid statement can be paid again.
ValidatePayMutant(k, m) ==
    /\ statements[m].stored
    /\ SumValues(Owed(m)) > 0
    /\ Hold(k, [op |-> "pay", month |-> m, amount |-> SumValues(Owed(m))])

ValidatePay(k, m) ==
    /\ statements[m].stored
    /\ ~statements[m].paid
    /\ AmountToPay(m) \in Nat \ {0}
    /\ Hold(k, [op |-> "pay", month |-> m, amount |-> AmountToPay(m)])

ValidateUnpay(k, m) ==
    /\ statements[m].paid
    /\ statements[m].payment # 0
    /\ \E t \in transfers : t.id = statements[m].payment
    /\ Hold(k, [op |-> "unpay", month |-> m, transfer |-> statements[m].payment])

ValidateUnsettle(k, m) ==
    /\ statements[m].paid
    /\ statements[m].payment = 0
    /\ Hold(k, [op |-> "unsettle", month |-> m,
                settled |-> {c \in OnMonth(m) : charges[c].is = "settled"}])

\* The amount is within the card's credit (EnsureWithinCredit), and the ledger keeps
\* its amounts (EnsureKeepsAmountsToPay).
ValidateRefund(k, m, amount) ==
    /\ amount <= AtLeastZero(-TotalOwed)
    /\ RefundKeepsAmountsToPay([id |-> made + 1, into |-> FALSE, month |-> m, amount |-> amount])
    /\ Hold(k, [op |-> "refund", month |-> m, amount |-> amount])

ValidateUnrefund(k, t) ==
    /\ ~t.into
    /\ Hold(k, [op |-> "unrefund", transfer |-> t.id])

Validate(k) ==
    \/ \E c \in Charges, m \in Months, v \in Values :
          ValidateAdd(k, c, m, v) \/ ValidateUpdate(k, c, m, v)
    \/ \E c \in Charges : ValidateDelete(k, c) \/ \E m \in Months : ValidateMove(k, c, m)
    \/ \E m \in Months : ValidatePay(k, m) \/ ValidateUnpay(k, m) \/ ValidateUnsettle(k, m)
    \/ \E m \in Months, amount \in 1..MaxRefund : ValidateRefund(k, m, amount)
    \/ \E t \in transfers : ValidateUnrefund(k, t)

----------------------------------------------------------------------------
(* Inside the gate: one applyChanges each.                                 *)

Answer(k) ==
    /\ open' = [open EXCEPT ![k] = Idle]
    /\ raced' = (raced \/ k \in stale)
    /\ stale' = {other \in Clients \ {k} : open[other] # Idle}

\* CardStatementCreation.EnsureFor
WithStatement(m) == [statements EXCEPT ![m].stored = TRUE]

\* Mutant: the charge's statement is not created.
AddExpenseMutant(k) ==
    /\ open[k].op = "add"
    /\ charges' = [charges EXCEPT ![open[k].charge] =
                      [is |-> "charge", month |-> open[k].month, value |-> open[k].value]]
    /\ Answer(k)
    /\ UNCHANGED <<statements, transfers, made>>

AddExpense(k) ==
    /\ open[k].op = "add"
    /\ charges' = [charges EXCEPT ![open[k].charge] =
                      [is |-> "charge", month |-> open[k].month, value |-> open[k].value]]
    /\ statements' = WithStatement(open[k].month)
    /\ Answer(k)
    /\ UNCHANGED <<transfers, made>>

\* An entity that has been deleted since is changed too, but nobody sees it again.
Changed(c, m, v) ==
    IF Exists(c) THEN [charges EXCEPT ![c].month = m, ![c].value = v] ELSE charges

\* The charge's statement is created even if the charge has been deleted since.
UpdateExpense(k) ==
    /\ open[k].op = "update"
    /\ charges' = Changed(open[k].charge, open[k].month, open[k].value)
    /\ statements' = WithStatement(open[k].month)
    /\ Answer(k)
    /\ UNCHANGED <<transfers, made>>

DeleteExpense(k) ==
    /\ open[k].op = "delete"
    /\ charges' = [charges EXCEPT ![open[k].charge] = Deleted]
    /\ Answer(k)
    /\ UNCHANGED <<statements, transfers, made>>

\* Only an unpaid charge moves, and only to a later statement. (One that has been
\* deleted since may or may not: its month is forgotten.)
MayMove(c, m) == charges[c].is # "settled" /\ (Exists(c) => m > charges[c].month)

MoveToStatement(k) ==
    /\ open[k].op = "move"
    /\ MayMove(open[k].charge, open[k].month)
    /\ charges' = Changed(open[k].charge, open[k].month, charges[open[k].charge].value)
    /\ statements' = WithStatement(open[k].month)
    /\ Answer(k)
    /\ UNCHANGED <<transfers, made>>

MakeTransfer(into, m, amount) ==
    /\ made < MaxTransfers
    /\ made' = made + 1
    /\ transfers' = transfers \union
                      {[id |-> made + 1, into |-> into, month |-> m, amount |-> amount]}

MarkStatementPaid(k) ==
    /\ open[k].op = "pay"
    /\ MakeTransfer(TRUE, open[k].month, open[k].amount)
    /\ statements' = [statements EXCEPT ![open[k].month].paid = TRUE,
                                        ![open[k].month].payment = made + 1]
    /\ Answer(k)
    /\ UNCHANGED charges

MarkUnpaid(m) == statements' = [statements EXCEPT ![m].paid = FALSE, ![m].payment = 0]

DeleteTransfer(id) == transfers' = {t \in transfers : t.id # id}

TransferPaymentReversal(k) ==
    /\ open[k].op = "unpay"
    /\ DeleteTransfer(open[k].transfer)
    /\ MarkUnpaid(open[k].month)
    /\ Answer(k)
    /\ UNCHANGED <<charges, made>>

LegacyPaymentReversal(k) ==
    /\ open[k].op = "unsettle"
    /\ \A c \in open[k].settled : charges[c].is = "settled"
    /\ charges' = [c \in Charges |->
                      IF c \in open[k].settled THEN [charges[c] EXCEPT !.is = "charge"]
                                               ELSE charges[c]]
    /\ MarkUnpaid(open[k].month)
    /\ Answer(k)
    /\ UNCHANGED <<transfers, made>>

AddCreditRefund(k) ==
    /\ open[k].op = "refund"
    /\ MakeTransfer(FALSE, open[k].month, open[k].amount)
    /\ statements' = WithStatement(open[k].month)
    /\ Answer(k)
    /\ UNCHANGED charges

DeleteCreditRefund(k) ==
    /\ open[k].op = "unrefund"
    /\ DeleteTransfer(open[k].transfer)
    /\ Answer(k)
    /\ UNCHANGED <<charges, statements, made>>

\* applyChanges throws (a charge that may not move, one that is not settled any
\* more) or the save fails: everything is rolled back.
Refused(k) ==
    /\ open[k] # Idle
    /\ open' = [open EXCEPT ![k] = Idle]
    /\ stale' = stale \ {k}
    /\ UNCHANGED <<book, raced>>

Apply(k) ==
    \/ AddExpense(k) \/ UpdateExpense(k) \/ DeleteExpense(k) \/ MoveToStatement(k)
    \/ MarkStatementPaid(k) \/ TransferPaymentReversal(k) \/ LegacyPaymentReversal(k)
    \/ AddCreditRefund(k) \/ DeleteCreditRefund(k)

\* An empty card, or one whose first statement was paid when paying still settled
\* each charge.
LegacyPaid(c) ==
    /\ charges = [d \in Charges |->
                     IF d = c THEN [is |-> "settled", month |-> 1, value |-> LegacyValue]
                              ELSE Unborn]
    /\ statements = [m \in Months |->
                        IF m = 1 THEN [stored |-> TRUE, paid |-> TRUE, payment |-> 0]
                                 ELSE NoStatement]

Init ==
    /\ \/ /\ charges = [c \in Charges |-> Unborn]
          /\ statements = [m \in Months |-> NoStatement]
       \/ \E c \in Charges : LegacyPaid(c)
    /\ transfers = {} /\ made = 0
    /\ open = [k \in Clients |-> Idle]
    /\ stale = {} /\ raced = FALSE

Next == \E k \in Clients : Validate(k) \/ Apply(k) \/ Refused(k)

Spec == Init /\ [][Next]_vars

----------------------------------------------------------------------------
(* Properties.                                                             *)

Request ==
    [op : {"idle"}]
      \union [op : {"add", "update"}, charge : Charges, month : Months, value : Values]
      \union [op : {"delete"}, charge : Charges]
      \union [op : {"move"}, charge : Charges, month : Months]
      \union [op : {"pay", "refund"}, month : Months, amount : Nat \ {0}]
      \union [op : {"unpay"}, month : Months, transfer : 1..MaxTransfers]
      \union [op : {"unsettle"}, month : Months, settled : SUBSET Charges]
      \union [op : {"unrefund"}, transfer : 1..MaxTransfers]

\* Every entity and every request has its shape.
TypeOK ==
    /\ charges \in [Charges -> Charge]
    /\ statements \in [Months -> Statement]
    /\ transfers \subseteq Transfer
    /\ made \in 0..MaxTransfers
    /\ open \in [Clients -> Request]
    /\ stale \subseteq Clients
    /\ raced \in BOOLEAN

\* Every month whose amount to pay is above 0 has a stored statement, without which
\* it could not be paid (MarkStatementPaidAsync finds the statement by its id).
DueHasStatement == \A m \in Months : AmountToPay(m) > 0 => statements[m].stored

\* A statement paid by a transfer has its transfer, so that it can be unmarked, and
\* its amount counts in the ledger.
PaymentExists ==
    \A m \in Months :
        statements[m].payment # 0 =>
            \E t \in transfers : t.id = statements[m].payment /\ t.into /\ t.month = m

\* No transfer into the card exists without a statement that links it: nothing is
\* paid twice, and nothing paid is forgotten.
NoOrphanPayment ==
    \A t \in transfers : t.into => \E m \in Months : statements[m].payment = t.id

\* ... as long as no request is carried out on what another has changed.
NoOrphanUnlessRaced == raced \/ NoOrphanPayment

\* Settled charges are found on statements paid the old way only; anywhere else they
\* would be owed by nobody.
SettledMeansLegacyPaid ==
    \A c \in Charges :
        charges[c].is = "settled" =>
            statements[charges[c].month].paid /\ statements[charges[c].month].payment = 0

\* Payments and statements match: what a statement says was paid was paid for it, and
\* what was paid is on a statement.
PaymentsMatchStatements ==
    PaymentExists /\ SettledMeansLegacyPaid /\ NoOrphanUnlessRaced

\* Unless requests race, the charges of a paid statement stay what they were when it
\* was paid: none is added, moved, changed or deleted before it is unmarked.
PaidStatementIsFrozen ==
    [][~raced' => \A m \in Months :
           statements[m].paid /\ statements'[m].paid =>
               /\ OnMonth(m) = OnMonth(m)'
               /\ \A c \in OnMonth(m) : charges'[c] = charges[c]]_vars

\* Unless requests race, money moves the amounts it is for and no others: paying a
\* statement clears its amount to pay, moves no other month's, and takes exactly that
\* amount off what the card is owed; a credit refund changes no month's amount to pay.
MoneyMovesItsAmountOnly ==
    [][\A k \in Clients : ~raced' =>
          /\ MarkStatementPaid(k) =>
                /\ \A m \in Months :
                      AmountToPay(m)' = IF m = open[k].month THEN 0 ELSE AmountToPay(m)
                /\ TotalOwed' = TotalOwed - AmountToPay(open[k].month)
          /\ AddCreditRefund(k) => \A m \in Months : AmountToPay(m)' = AmountToPay(m)]_vars
=============================================================================
