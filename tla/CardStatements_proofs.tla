------------------------ MODULE CardStatements_proofs ------------------------
(***************************************************************************)
(* For any number of clients, charges, months and transfers, and whatever   *)
(* their requests overtake: a paid statement has its payment, settled       *)
(* charges stay on statements paid the old way, and what has to be paid has *)
(* its statement. Without an overtaken request, every payment is linked by  *)
(* a statement, the charges of a paid statement stay what they are, and a   *)
(* payment or a refund moves its own amount and no other.                   *)
(***************************************************************************)
EXTENDS CardStatements, WellFoundedInduction, FiniteSetTheorems, TLAPS

----------------------------------------------------------------------------
(* The inductive invariant.                                                *)

\* A transfer is known by its id, and a statement that links one is paid.
Links ==
    /\ \A t \in transfers : t.id <= made
    /\ \A t, u \in transfers : t.id = u.id => t = u
    /\ \A m \in Months : statements[m].payment # 0 => statements[m].paid

NoneSettled(m) == \A c \in Charges : charges[c].is = "settled" => charges[c].month # m

\* What remains true of what a request has read, whatever happens meanwhile: charges
\* are never settled again, and an id is never used again.
Held(r) ==
    /\ r.op = "update" /\ charges[r.charge].is = "settled" =>
          charges[r.charge].month = r.month
    /\ r.op \in {"pay", "unpay"} => NoneSettled(r.month)
    /\ r.op = "unpay" =>
          /\ r.transfer <= made
          /\ \A t \in transfers : t.id = r.transfer => t.into /\ t.month = r.month
    /\ r.op = "unsettle" =>
          \A c \in Charges :
              charges[c].is = "settled" /\ charges[c].month = r.month => c \in r.settled
    /\ r.op = "unrefund" =>
          /\ r.transfer <= made
          /\ \A t \in transfers : t.id = r.transfer => ~t.into

\* What is true until another request is carried out.
Fresh(r) ==
    /\ r.op = "pay" => ~statements[r.month].paid
    /\ r.op = "unpay" => statements[r.month].payment = r.transfer
    /\ r.op = "unsettle" => statements[r.month].payment = 0

Requests == \A k \in Clients : Held(open[k]) /\ (k \notin stale => Fresh(open[k]))

IInv ==
    /\ TypeOK /\ Links /\ PaymentExists /\ SettledMeansLegacyPaid /\ NoOrphanUnlessRaced
    /\ Requests
----------------------------------------------------------------------------
(* Requests.                                                               *)

LEMMA RequestFields ==
    ASSUME NEW r \in Request
    PROVE  /\ r.op \in {"idle", "add", "update", "delete", "move", "pay", "refund",
                        "unpay", "unsettle", "unrefund"}
           /\ r.op \in {"add", "update"} => r.charge \in Charges /\ r.month \in Months /\ r.value \in Values
           /\ r.op = "delete" => r.charge \in Charges
           /\ r.op = "move" => r.charge \in Charges /\ r.month \in Months
           /\ r.op \in {"pay", "refund"} => r.month \in Months /\ r.amount \in Nat \ {0}
           /\ r.op = "unpay" => r.month \in Months /\ r.transfer \in 1..MaxTransfers
           /\ r.op = "unsettle" => r.month \in Months /\ r.settled \subseteq Charges
           /\ r.op = "unrefund" => r.transfer \in 1..MaxTransfers
  BY DEF Request

LEMMA IdleHeld == Idle \in Request /\ Held(Idle) /\ Fresh(Idle)
  BY DEF Idle, Request, Held, Fresh

\* What no operation does: settle a charge or move a settled one, and bring back an
\* id of a transfer.
Kept ==
    /\ \A c \in Charges :
          charges'[c].is = "settled" =>
              charges[c].is = "settled" /\ charges'[c].month = charges[c].month
    /\ made' >= made
    /\ \A t \in transfers' : t \in transfers \/ t.id > made

LEMMA HeldStays ==
    ASSUME TypeOK, TypeOK', Kept, NEW r \in Request, Held(r)
    PROVE  Held(r)'
<1>1. made \in Nat /\ made' \in Nat /\ (\A t \in transfers' : t.id \in Nat)
  BY ConstantsAssumption DEF TypeOK, Transfer
<1>2. (r.op = "update" /\ charges[r.charge].is = "settled" => charges[r.charge].month = r.month)'
  BY RequestFields DEF Held, Kept
<1>3. (r.op \in {"pay", "unpay"} => NoneSettled(r.month))'
  BY DEF Held, Kept, NoneSettled
<1>4. (r.op = "unpay" =>
          /\ r.transfer <= made
          /\ \A t \in transfers : t.id = r.transfer => t.into /\ t.month = r.month)'
  <2> SUFFICES ASSUME r.op = "unpay"
               PROVE  /\ r.transfer <= made'
                      /\ \A t \in transfers' : t.id = r.transfer => t.into /\ t.month = r.month
    OBVIOUS
  <2>1. r.transfer \in Nat /\ r.transfer <= made
    BY RequestFields, ConstantsAssumption DEF Held
  <2> QED BY <1>1, <2>1 DEF Held, Kept
<1>5. (r.op = "unsettle" =>
          \A c \in Charges :
              charges[c].is = "settled" /\ charges[c].month = r.month => c \in r.settled)'
  BY DEF Held, Kept
<1>6. (r.op = "unrefund" =>
          /\ r.transfer <= made
          /\ \A t \in transfers : t.id = r.transfer => ~t.into)'
  <2> SUFFICES ASSUME r.op = "unrefund"
               PROVE  /\ r.transfer <= made'
                      /\ \A t \in transfers' : t.id = r.transfer => ~t.into
    OBVIOUS
  <2>1. r.transfer \in Nat /\ r.transfer <= made
    BY RequestFields, ConstantsAssumption DEF Held
  <2> QED BY <1>1, <2>1 DEF Held, Kept
<1> QED BY <1>2, <1>3, <1>4, <1>5, <1>6 DEF Held

----------------------------------------------------------------------------
(* Type correctness.                                                       *)

LEMMA TypeOKInit == Init => TypeOK
<1> SUFFICES ASSUME Init PROVE TypeOK
  OBVIOUS
<1>1. Unborn \in Charge /\ NoStatement \in Statement /\ made \in 0..MaxTransfers
  BY ConstantsAssumption DEF Init, Unborn, NoStatement, Charge, Statement, Months
<1>2. charges \in [Charges -> Charge] /\ statements \in [Months -> Statement]
  <2>1. CASE charges = [c \in Charges |-> Unborn] /\ statements = [m \in Months |-> NoStatement]
    BY <2>1, <1>1
  <2>2. CASE \E c \in Charges : LegacyPaid(c)
    <3>1. [is |-> "settled", month |-> 1, value |-> LegacyValue] \in Charge
      BY ConstantsAssumption DEF Charge, Months
    <3>2. [stored |-> TRUE, paid |-> TRUE, payment |-> 0] \in Statement
      BY ConstantsAssumption DEF Statement
    <3> QED BY <2>2, <3>1, <3>2, <1>1 DEF LegacyPaid
  <2> QED BY <2>1, <2>2 DEF Init
<1>3. open \in [Clients -> Request]
  BY IdleHeld DEF Init
<1> QED BY <1>1, <1>2, <1>3 DEF Init, TypeOK

LEMMA HoldType ==
    ASSUME TypeOK, NEW k \in Clients, NEW r \in Request, Hold(k, r)
    PROVE  TypeOK'
  BY DEF TypeOK, Hold, book

\* A request that is validated has the type of its operation.
LEMMA ValidateType ==
    ASSUME TypeOK, NEW k \in Clients, Validate(k)
    PROVE  TypeOK'
<1>1. ASSUME NEW c \in Charges, NEW m \in Months, NEW v \in Values,
             ValidateAdd(k, c, m, v) \/ ValidateUpdate(k, c, m, v)
      PROVE  TypeOK'
  <2>1. [op |-> "add", charge |-> c, month |-> m, value |-> v] \in Request
        /\ [op |-> "update", charge |-> c, month |-> m, value |-> v] \in Request
    BY DEF Request
  <2> QED BY <1>1, <2>1, HoldType DEF ValidateAdd, ValidateUpdate
<1>2. ASSUME NEW c \in Charges, ValidateDelete(k, c)
      PROVE  TypeOK'
  <2>1. [op |-> "delete", charge |-> c] \in Request
    BY DEF Request
  <2> QED BY <1>2, <2>1, HoldType DEF ValidateDelete
<1>3. ASSUME NEW c \in Charges, NEW m \in Months, ValidateMove(k, c, m)
      PROVE  TypeOK'
  <2>1. [op |-> "move", charge |-> c, month |-> m] \in Request
    BY DEF Request
  <2> QED BY <1>3, <2>1, HoldType DEF ValidateMove
<1>4. ASSUME NEW m \in Months, ValidatePay(k, m)
      PROVE  TypeOK'
  <2>1. [op |-> "pay", month |-> m, amount |-> AmountToPay(m)] \in Request
    BY <1>4 DEF Request, ValidatePay
  <2> QED BY <1>4, <2>1, HoldType DEF ValidatePay
<1>5. ASSUME NEW m \in Months, ValidateUnpay(k, m)
      PROVE  TypeOK'
  <2>1. statements[m].payment \in 1..MaxTransfers
    BY <1>5, ConstantsAssumption DEF ValidateUnpay, TypeOK, Statement
  <2>2. [op |-> "unpay", month |-> m, transfer |-> statements[m].payment] \in Request
    BY <2>1 DEF Request
  <2> QED BY <1>5, <2>2, HoldType DEF ValidateUnpay
<1>6. ASSUME NEW m \in Months, ValidateUnsettle(k, m)
      PROVE  TypeOK'
  <2>1. [op |-> "unsettle", month |-> m,
         settled |-> {c \in OnMonth(m) : charges[c].is = "settled"}] \in Request
    BY DEF Request, OnMonth
  <2> QED BY <1>6, <2>1, HoldType DEF ValidateUnsettle
<1>7. ASSUME NEW m \in Months, NEW amount \in 1..MaxRefund, ValidateRefund(k, m, amount)
      PROVE  TypeOK'
  <2>1. [op |-> "refund", month |-> m, amount |-> amount] \in Request
    BY ConstantsAssumption DEF Request
  <2> QED BY <1>7, <2>1, HoldType DEF ValidateRefund
<1>8. ASSUME NEW t \in transfers, ValidateUnrefund(k, t)
      PROVE  TypeOK'
  <2>1. [op |-> "unrefund", transfer |-> t.id] \in Request
    BY DEF Request, TypeOK, Transfer
  <2> QED BY <1>8, <2>1, HoldType DEF ValidateUnrefund
<1> QED BY <1>1, <1>2, <1>3, <1>4, <1>5, <1>6, <1>7, <1>8 DEF Validate

LEMMA AnswerType ==
    ASSUME TypeOK, NEW k \in Clients, Answer(k)
    PROVE  open' \in [Clients -> Request] /\ stale' \subseteq Clients /\ raced' \in BOOLEAN
<1>1. open' \in [Clients -> Request]
  BY IdleHeld DEF TypeOK, Answer
<1>2. raced' \in BOOLEAN
  BY DEF TypeOK, Answer
<1> QED BY <1>1, <1>2 DEF Answer

LEMMA WithStatementType ==
    ASSUME TypeOK, NEW m \in Months
    PROVE  WithStatement(m) \in [Months -> Statement]
  BY DEF TypeOK, WithStatement, Statement

\* What it means to change both fields of one statement.
LEMMA PaidAndPayment ==
    ASSUME TypeOK, NEW m \in Months, NEW paid \in BOOLEAN, NEW payment \in 0..MaxTransfers,
           statements' = [statements EXCEPT ![m].paid = paid, ![m].payment = payment]
    PROVE  /\ statements' \in [Months -> Statement]
           /\ statements'[m].paid = paid /\ statements'[m].payment = payment
           /\ \A n \in Months \ {m} : statements'[n] = statements[n]
           /\ statements'[m].stored = statements[m].stored
<1> DEFINE new == [statements[m] EXCEPT !.paid = paid, !.payment = payment]
<1>1. statements[m] \in Statement /\ statements \in [Months -> Statement]
  BY DEF TypeOK
<1>2. [statements[m] EXCEPT !.paid = paid] \in Statement
  BY <1>1 DEF Statement
<1>3. /\ new \in Statement
      /\ new.stored = statements[m].stored /\ new.paid = paid /\ new.payment = payment
  BY <1>1, <1>2 DEF Statement
<1>4. statements' = [statements EXCEPT ![m] = new]
  BY <1>1
<1> QED BY <1>1, <1>3, <1>4

LEMMA UnpaidType ==
    ASSUME TypeOK, NEW m \in Months, MarkUnpaid(m)
    PROVE  /\ statements' \in [Months -> Statement]
           /\ statements'[m].paid = FALSE /\ statements'[m].payment = 0
           /\ \A n \in Months \ {m} : statements'[n] = statements[n]
           /\ statements'[m].stored = statements[m].stored
<1>1. statements' = [statements EXCEPT ![m].paid = FALSE, ![m].payment = 0]
      /\ 0 \in 0..MaxTransfers
  BY ConstantsAssumption DEF MarkUnpaid
<1> QED BY ONLY TypeOK, m \in Months, <1>1, PaidAndPayment

LEMMA ChangedType ==
    ASSUME TypeOK, NEW c \in Charges, NEW m \in Months, NEW v \in Int
    PROVE  Changed(c, m, v) \in [Charges -> Charge]
  BY DEF TypeOK, Changed, Charge

LEMMA TransferType ==
    ASSUME TypeOK, NEW m \in Months, NEW amount \in Nat, NEW into \in BOOLEAN,
           MakeTransfer(into, m, amount)
    PROVE  transfers' \subseteq Transfer /\ made' \in 0..MaxTransfers /\ made + 1 \in 1..MaxTransfers
<1>1. made + 1 \in 1..MaxTransfers
  BY ConstantsAssumption DEF TypeOK, MakeTransfer
<1>2. [id |-> made + 1, into |-> into, month |-> m, amount |-> amount] \in Transfer
  BY <1>1 DEF Transfer
<1> QED BY <1>1, <1>2, ConstantsAssumption DEF TypeOK, MakeTransfer

LEMMA ApplyType ==
    ASSUME TypeOK, NEW k \in Clients, Apply(k)
    PROVE  TypeOK'
<1> DEFINE r == open[k]
<1>0. r \in Request
  BY DEF TypeOK
<1> USE DEF r
<1>a. ASSUME Answer(k), charges' \in [Charges -> Charge], statements' \in [Months -> Statement],
             transfers' \subseteq Transfer, made' \in 0..MaxTransfers
      PROVE  TypeOK'
  BY <1>a, AnswerType DEF TypeOK
<1>1. CASE AddExpense(k)
  <2>1. r.charge \in Charges /\ r.month \in Months /\ r.value \in Int
    BY <1>0, <1>1, RequestFields, ConstantsAssumption DEF AddExpense
  <2>2. charges' \in [Charges -> Charge]
    BY <1>1, <2>1 DEF AddExpense, TypeOK, Charge
  <2> QED BY <1>1, <1>a, <2>1, <2>2, WithStatementType DEF AddExpense, TypeOK
<1>2. CASE UpdateExpense(k)
  <2>1. r.charge \in Charges /\ r.month \in Months /\ r.value \in Int
    BY <1>0, <1>2, RequestFields, ConstantsAssumption DEF UpdateExpense
  <2> QED BY <1>2, <1>a, <2>1, ChangedType, WithStatementType DEF UpdateExpense, TypeOK
<1>3. CASE DeleteExpense(k)
  <2>1. Deleted \in Charge
    BY ConstantsAssumption DEF Deleted, Charge, Months
  <2> QED BY <1>3, <1>a, <2>1 DEF DeleteExpense, TypeOK
<1>4. CASE MoveToStatement(k)
  <2>1. r.charge \in Charges /\ r.month \in Months
    BY <1>0, <1>4, RequestFields DEF MoveToStatement
  <2>2. charges[r.charge].value \in Int
    BY <2>1 DEF TypeOK, Charge
  <2> QED BY <1>4, <1>a, <2>1, <2>2, ChangedType, WithStatementType DEF MoveToStatement, TypeOK
<1>5. CASE MarkStatementPaid(k)
  <2>1. r.month \in Months /\ r.amount \in Nat
    BY <1>0, <1>5, RequestFields DEF MarkStatementPaid
  <2>2. transfers' \subseteq Transfer /\ made' \in 0..MaxTransfers /\ made + 1 \in 1..MaxTransfers
    BY <1>5, <2>1, TransferType DEF MarkStatementPaid
  <2>3. statements' = [statements EXCEPT ![r.month].paid = TRUE, ![r.month].payment = made + 1]
        /\ made + 1 \in 0..MaxTransfers
    BY <1>5, <2>2, ConstantsAssumption DEF MarkStatementPaid
  <2>4. statements' \in [Months -> Statement]
    BY ONLY TypeOK, <2>1, <2>3, PaidAndPayment
  <2> QED BY <1>5, <1>a, <2>2, <2>4 DEF MarkStatementPaid, TypeOK
<1>6. CASE TransferPaymentReversal(k)
  <2>1. r.month \in Months
    BY <1>0, <1>6, RequestFields DEF TransferPaymentReversal
  <2>2. statements' \in [Months -> Statement]
    BY <1>6, <2>1, UnpaidType DEF TransferPaymentReversal
  <2> QED BY <1>6, <1>a, <2>2 DEF TransferPaymentReversal, DeleteTransfer, TypeOK
<1>7. CASE LegacyPaymentReversal(k)
  <2>1. r.month \in Months /\ r.settled \subseteq Charges
    BY <1>0, <1>7, RequestFields DEF LegacyPaymentReversal
  <2>2. statements' \in [Months -> Statement]
    BY <1>7, <2>1, UnpaidType DEF LegacyPaymentReversal
  <2>3. charges' \in [Charges -> Charge]
    BY <1>7 DEF LegacyPaymentReversal, TypeOK, Charge
  <2> QED BY <1>7, <1>a, <2>2, <2>3 DEF LegacyPaymentReversal, TypeOK
<1>8. CASE AddCreditRefund(k)
  <2>1. r.month \in Months /\ r.amount \in Nat
    BY <1>0, <1>8, RequestFields DEF AddCreditRefund
  <2>2. transfers' \subseteq Transfer /\ made' \in 0..MaxTransfers
    BY <1>8, <2>1, TransferType DEF AddCreditRefund
  <2> QED BY <1>8, <1>a, <2>1, <2>2, WithStatementType DEF AddCreditRefund, TypeOK
<1>9. CASE DeleteCreditRefund(k)
  BY <1>9, <1>a DEF DeleteCreditRefund, DeleteTransfer, TypeOK
<1> QED BY <1>1, <1>2, <1>3, <1>4, <1>5, <1>6, <1>7, <1>8, <1>9 DEF Apply

LEMMA RefusedType ==
    ASSUME TypeOK, NEW k \in Clients, Refused(k)
    PROVE  TypeOK'
  BY IdleHeld DEF TypeOK, Refused, book

\* Every entity and every request has its shape, for every value of the constants.
THEOREM TypeCorrect == Spec => []TypeOK
<1>1. TypeOK /\ [Next]_vars => TypeOK'
  <2> SUFFICES ASSUME TypeOK, [Next]_vars PROVE TypeOK'
    OBVIOUS
  <2>1. CASE UNCHANGED vars
    BY <2>1 DEF TypeOK, vars, book
  <2>2. CASE Next
    BY <2>2, ValidateType, ApplyType, RefusedType DEF Next
  <2> QED BY <2>1, <2>2
<1> QED BY TypeOKInit, <1>1, PTL DEF Spec

----------------------------------------------------------------------------
(* The inductive invariant is preserved.                                   *)

LEMMA IInvInit == Init => IInv
<1> SUFFICES ASSUME Init PROVE IInv
  OBVIOUS
<1>1. Links /\ PaymentExists /\ NoOrphanUnlessRaced
  BY ConstantsAssumption DEF Init, Links, PaymentExists, NoOrphanUnlessRaced, NoOrphanPayment,
     LegacyPaid, NoStatement
<1>2. SettledMeansLegacyPaid
  BY ConstantsAssumption DEF Init, SettledMeansLegacyPaid, LegacyPaid, Unborn, Months
<1>3. Requests
  BY IdleHeld DEF Init, Requests
<1> QED BY <1>1, <1>2, <1>3, TypeOKInit DEF IInv

\* Nothing about the card changes while a request is only validated or refused.
LEMMA BookUnchanged ==
    ASSUME IInv, TypeOK', UNCHANGED <<book, raced>>
    PROVE  /\ Links' /\ PaymentExists' /\ SettledMeansLegacyPaid' /\ NoOrphanUnlessRaced'
           /\ \A r \in Request : Held(r) => Held(r)'
           /\ \A r \in Request : Fresh(r) => Fresh(r)'
<1>1. Kept
  BY DEF Kept, book, IInv, TypeOK
<1>2. \A r \in Request : Held(r) => Held(r)'
  BY <1>1, HeldStays DEF IInv
<1>3. \A r \in Request : Fresh(r) => Fresh(r)'
  BY DEF Fresh, book
<1> QED BY <1>2, <1>3 DEF book, IInv, Links, PaymentExists, SettledMeansLegacyPaid,
           NoOrphanUnlessRaced, NoOrphanPayment

LEMMA IInvHold ==
    ASSUME IInv, NEW k \in Clients, NEW r \in Request, Held(r), Fresh(r), Hold(k, r)
    PROVE  IInv'
<1>1. TypeOK'
  BY HoldType DEF IInv
<1>2. \A j \in Clients : open[j] \in Request /\ open'[j] = IF j = k THEN r ELSE open[j]
  BY DEF Hold, IInv, TypeOK
<1>3. Requests'
  BY <1>1, <1>2, BookUnchanged DEF Hold, Requests, IInv
<1> QED BY <1>1, <1>3, BookUnchanged DEF IInv, Hold

LEMMA IInvRefused ==
    ASSUME IInv, NEW k \in Clients, Refused(k)
    PROVE  IInv'
<1>1. TypeOK'
  BY RefusedType DEF IInv
<1>2. \A j \in Clients : open[j] \in Request /\ open'[j] = IF j = k THEN Idle ELSE open[j]
  BY DEF Refused, IInv, TypeOK
<1>3. Requests'
  BY <1>1, <1>2, BookUnchanged, IdleHeld DEF Refused, Requests, IInv
<1> QED BY <1>1, <1>3, BookUnchanged DEF IInv, Refused

LEMMA RequestsAfterAnswer ==
    ASSUME IInv, TypeOK', Kept, NEW k \in Clients, Answer(k)
    PROVE  Requests'
<1>1. \A j \in Clients : open[j] \in Request /\ open'[j] = IF j = k THEN Idle ELSE open[j]
  BY DEF Answer, IInv, TypeOK
<1>2. \A r \in Request : Held(r) => Held(r)'
  BY HeldStays DEF IInv
<1>3. \A j \in Clients : Held(open[j])'
  BY <1>1, <1>2, IdleHeld DEF IInv, Requests
<1>4. ASSUME NEW j \in Clients, j \notin stale' PROVE Fresh(open[j])'
  <2>1. open'[j] = Idle
    BY <1>1, <1>4 DEF Answer
  <2> QED BY <2>1 DEF Fresh, Idle
<1> QED BY <1>3, <1>4 DEF Requests

LEMMA IInvValidate ==
    ASSUME IInv, NEW k \in Clients, Validate(k)
    PROVE  IInv'
<1> USE DEF IInv
<1>1. ASSUME NEW c \in Charges, NEW m \in Months, NEW v \in Values, ValidateAdd(k, c, m, v)
      PROVE  IInv'
  <2> DEFINE r == [op |-> "add", charge |-> c, month |-> m, value |-> v]
  <2>1. r \in Request /\ Held(r) /\ Fresh(r)
    BY DEF Request, Held, Fresh
  <2> QED BY <1>1, <2>1, IInvHold DEF ValidateAdd
<1>2. ASSUME NEW c \in Charges, NEW m \in Months, NEW v \in Values, ValidateUpdate(k, c, m, v)
      PROVE  IInv'
  <2> DEFINE r == [op |-> "update", charge |-> c, month |-> m, value |-> v]
  <2>1. charges[c].is = "settled" => charges[c].month = m
    BY <1>2 DEF ValidateUpdate, SettledMeansLegacyPaid, IsOnPaidStatement, IsStatementPaid
  <2>2. r \in Request /\ Held(r) /\ Fresh(r)
    BY <2>1 DEF Request, Held, Fresh
  <2> QED BY <1>2, <2>2, IInvHold DEF ValidateUpdate
<1>3. ASSUME NEW c \in Charges, ValidateDelete(k, c)
      PROVE  IInv'
  <2> DEFINE r == [op |-> "delete", charge |-> c]
  <2>1. r \in Request /\ Held(r) /\ Fresh(r)
    BY DEF Request, Held, Fresh
  <2> QED BY <1>3, <2>1, IInvHold DEF ValidateDelete
<1>4. ASSUME NEW c \in Charges, NEW m \in Months, ValidateMove(k, c, m)
      PROVE  IInv'
  <2> DEFINE r == [op |-> "move", charge |-> c, month |-> m]
  <2>1. r \in Request /\ Held(r) /\ Fresh(r)
    BY DEF Request, Held, Fresh
  <2> QED BY <1>4, <2>1, IInvHold DEF ValidateMove
<1>5. ASSUME NEW m \in Months, ValidatePay(k, m)
      PROVE  IInv'
  <2> DEFINE r == [op |-> "pay", month |-> m, amount |-> AmountToPay(m)]
  <2>1. NoneSettled(m)
    BY <1>5 DEF ValidatePay, SettledMeansLegacyPaid, NoneSettled
  <2>2. r \in Request /\ Held(r) /\ Fresh(r)
    BY <1>5, <2>1 DEF ValidatePay, Request, Held, Fresh
  <2> QED BY <1>5, <2>2, IInvHold DEF ValidatePay
<1>6. ASSUME NEW m \in Months, ValidateUnpay(k, m)
      PROVE  IInv'
  <2> DEFINE r == [op |-> "unpay", month |-> m, transfer |-> statements[m].payment]
  <2>1. NoneSettled(m)
    BY <1>6 DEF ValidateUnpay, SettledMeansLegacyPaid, NoneSettled
  <2>2. statements[m].payment \in 1..MaxTransfers
    BY <1>6, ConstantsAssumption DEF ValidateUnpay, TypeOK, Statement
  <2>3. /\ statements[m].payment <= made
        /\ \A t \in transfers : t.id = statements[m].payment => t.into /\ t.month = m
    BY <1>6 DEF ValidateUnpay, Links, PaymentExists
  <2>4. r \in Request /\ Held(r) /\ Fresh(r)
    BY <2>1, <2>2, <2>3 DEF Request, Held, Fresh
  <2> QED BY <1>6, <2>4, IInvHold DEF ValidateUnpay
<1>7. ASSUME NEW m \in Months, ValidateUnsettle(k, m)
      PROVE  IInv'
  <2> DEFINE settled == {c \in OnMonth(m) : charges[c].is = "settled"}
             r == [op |-> "unsettle", month |-> m, settled |-> settled]
  <2>1. settled \subseteq Charges
    BY DEF OnMonth
  <2>2. \A c \in Charges : charges[c].is = "settled" /\ charges[c].month = m => c \in settled
    BY DEF OnMonth
  <2> HIDE DEF settled
  <2>3. r \in Request /\ Held(r) /\ Fresh(r)
    BY <1>7, <2>1, <2>2 DEF ValidateUnsettle, Request, Held, Fresh
  <2> QED BY <1>7, <2>3, IInvHold DEF ValidateUnsettle, settled
<1>8. ASSUME NEW m \in Months, NEW amount \in 1..MaxRefund, ValidateRefund(k, m, amount)
      PROVE  IInv'
  <2> DEFINE r == [op |-> "refund", month |-> m, amount |-> amount]
  <2>1. r \in Request /\ Held(r) /\ Fresh(r)
    BY ConstantsAssumption DEF Request, Held, Fresh
  <2> QED BY <1>8, <2>1, IInvHold DEF ValidateRefund
<1>9. ASSUME NEW t \in transfers, ValidateUnrefund(k, t)
      PROVE  IInv'
  <2> DEFINE r == [op |-> "unrefund", transfer |-> t.id]
  <2>1. t.id \in 1..MaxTransfers
    BY DEF TypeOK, Transfer
  <2>2. /\ t.id <= made
        /\ \A u \in transfers : u.id = t.id => ~u.into
    BY <1>9 DEF ValidateUnrefund, Links
  <2>3. r \in Request /\ Held(r) /\ Fresh(r)
    BY <2>1, <2>2 DEF Request, Held, Fresh
  <2> QED BY <1>9, <2>3, IInvHold DEF ValidateUnrefund
<1> QED BY <1>1, <1>2, <1>3, <1>4, <1>5, <1>6, <1>7, <1>8, <1>9 DEF Validate

\* The links and the payments of the statements stay as they are.
SamePayments ==
    \A m \in Months : statements'[m].paid = statements[m].paid
                     /\ statements'[m].payment = statements[m].payment

LEMMA WithStatementKeeps ==
    ASSUME TypeOK, NEW m \in Months, statements' = WithStatement(m)
    PROVE  SamePayments
  BY DEF TypeOK, Statement, WithStatement, SamePayments

LEMMA SettledStays ==
    ASSUME IInv, TypeOK', Kept, SamePayments
    PROVE  SettledMeansLegacyPaid'
<1> SUFFICES ASSUME NEW c \in Charges, charges'[c].is = "settled"
             PROVE  statements'[charges'[c].month].paid
                    /\ statements'[charges'[c].month].payment = 0
  BY DEF SettledMeansLegacyPaid
<1>1. charges[c].is = "settled" /\ charges'[c].month = charges[c].month
  BY DEF Kept
<1>2. charges[c].month \in Months
  BY DEF IInv, TypeOK, Charge
<1> QED BY <1>1, <1>2 DEF IInv, SettledMeansLegacyPaid, SamePayments

LEMMA LinksStay ==
    ASSUME IInv, SamePayments, UNCHANGED <<transfers, made>>, raced => raced'
    PROVE  Links' /\ PaymentExists' /\ NoOrphanUnlessRaced'
  BY DEF IInv, Links, PaymentExists, NoOrphanUnlessRaced, NoOrphanPayment, SamePayments

LEMMA AnswerFacts ==
    ASSUME IInv, NEW k \in Clients, Answer(k)
    PROVE  /\ open[k] \in Request /\ Held(open[k])
           /\ raced => raced'
           /\ ~raced' => Fresh(open[k]) /\ NoOrphanPayment
  BY DEF IInv, TypeOK, Requests, Answer, NoOrphanUnlessRaced

\* A charge that is made, changed, deleted or moved.
LEMMA IInvExpense ==
    ASSUME IInv, NEW k \in Clients, TypeOK', Answer(k),
           AddExpense(k) \/ UpdateExpense(k) \/ DeleteExpense(k) \/ MoveToStatement(k)
    PROVE  IInv'
<1> DEFINE r == open[k]
<1>1. r \in Request /\ Held(r) /\ (raced => raced')
  BY AnswerFacts
<1>2. charges \in [Charges -> Charge]
  BY DEF IInv, TypeOK
<1>3. Kept /\ SamePayments
  <2>1. CASE AddExpense(k)
    <3>1. r.charge \in Charges /\ r.month \in Months
      BY <1>1, <2>1, RequestFields DEF AddExpense
    <3> QED BY <1>2, <2>1, <3>1, WithStatementKeeps DEF AddExpense, Kept, IInv, TypeOK
  <2>2. CASE UpdateExpense(k)
    <3>1. r.charge \in Charges /\ r.month \in Months
      BY <1>1, <2>2, RequestFields DEF UpdateExpense
    <3>2. charges[r.charge].is = "settled" => charges[r.charge].month = r.month
      BY <1>1, <2>2 DEF Held, UpdateExpense
    <3>3. ASSUME NEW c \in Charges
          PROVE  /\ charges'[c].is = charges[c].is
                 /\ c # r.charge => charges'[c] = charges[c]
                 /\ c = r.charge => charges'[c].month \in {charges[c].month, r.month}
      BY <1>2, <2>2, <3>1 DEF UpdateExpense, Changed, Charge
    <3>4. Kept
      BY <2>2, <3>2, <3>3 DEF UpdateExpense, Kept, IInv, TypeOK
    <3> QED BY <2>2, <3>1, <3>4, WithStatementKeeps DEF UpdateExpense, IInv
  <2>3. CASE DeleteExpense(k)
    BY <1>1, <1>2, <2>3, RequestFields DEF DeleteExpense, Deleted, Kept, SamePayments, IInv, TypeOK
  <2>4. CASE MoveToStatement(k)
    <3>1. r.charge \in Charges /\ r.month \in Months
      BY <1>1, <2>4, RequestFields DEF MoveToStatement
    <3>2. charges[r.charge].is # "settled"
      BY <2>4 DEF MoveToStatement, MayMove
    <3>3. ASSUME NEW c \in Charges
          PROVE  /\ charges'[c].is = charges[c].is
                 /\ c # r.charge => charges'[c] = charges[c]
      BY <1>2, <2>4, <3>1 DEF MoveToStatement, Changed, Charge
    <3>4. Kept
      BY <2>4, <3>2, <3>3 DEF MoveToStatement, Kept, IInv, TypeOK
    <3> QED BY <2>4, <3>1, <3>4, WithStatementKeeps DEF MoveToStatement, IInv
  <2> QED BY <2>1, <2>2, <2>3, <2>4
<1>4. UNCHANGED <<transfers, made>>
  BY DEF AddExpense, UpdateExpense, DeleteExpense, MoveToStatement
<1> QED BY <1>1, <1>3, <1>4, SettledStays, LinksStay, RequestsAfterAnswer DEF IInv

LEMMA IInvPay ==
    ASSUME IInv, NEW k \in Clients, TypeOK', MarkStatementPaid(k)
    PROVE  IInv'
<1> DEFINE r == open[k]
           m == r.month
<1>0. Answer(k) /\ r.op = "pay"
  BY DEF MarkStatementPaid
<1>1. /\ r \in Request /\ Held(r) /\ m \in Months
      /\ ~raced' => Fresh(r) /\ NoOrphanPayment
  BY <1>0, AnswerFacts, RequestFields
<1>2. /\ made' = made + 1 /\ made \in Nat /\ made + 1 \in 0..MaxTransfers
      /\ \A t \in transfers : t.id <= made /\ t.id \in Nat
      /\ statements' = [statements EXCEPT ![m].paid = TRUE, ![m].payment = made + 1]
  BY ConstantsAssumption DEF MarkStatementPaid, MakeTransfer, IInv, TypeOK, Links, Transfer
<1>3. /\ statements'[m].paid = TRUE /\ statements'[m].payment = made + 1
      /\ \A n \in Months \ {m} : statements'[n] = statements[n]
  BY <1>1, <1>2, PaidAndPayment DEF IInv
<1> DEFINE new == [id |-> made + 1, into |-> TRUE, month |-> m, amount |-> r.amount]
<1>4. /\ transfers' = transfers \union {new}
      /\ new.id = made + 1 /\ new.into /\ new.month = m
  BY DEF MarkStatementPaid, MakeTransfer
<1> HIDE DEF r, m, new
<1>5. Kept
  BY <1>2, <1>4 DEF MarkStatementPaid, Kept
<1>6. Links'
  <2>1. (\A t \in transfers : t.id <= made)'
    BY <1>2, <1>4
  <2>2. (\A t, u \in transfers : t.id = u.id => t = u)'
    BY <1>2, <1>4 DEF Links, IInv
  <2>3. (\A n \in Months : statements[n].payment # 0 => statements[n].paid)'
    BY <1>3 DEF Links, IInv
  <2> QED BY <2>1, <2>2, <2>3 DEF Links
<1>7. PaymentExists'
  BY <1>1, <1>3, <1>4 DEF PaymentExists, IInv
<1>8. SettledMeansLegacyPaid'
  <2>1. NoneSettled(m)
    BY <1>0, <1>1 DEF Held, m
  <2>2. charges' = charges /\ \A c \in Charges : charges[c].month \in Months
    BY DEF MarkStatementPaid, IInv, TypeOK, Charge
  <2> QED BY <1>3, <2>1, <2>2 DEF SettledMeansLegacyPaid, NoneSettled, IInv
<1>9. NoOrphanUnlessRaced'
  <2> SUFFICES ASSUME ~raced', NEW t \in transfers', t.into
               PROVE  \E n \in Months : statements'[n].payment = t.id
    BY DEF NoOrphanUnlessRaced, NoOrphanPayment
  <2>1. CASE t = new
    BY <1>1, <1>3, <1>4, <2>1
  <2>2. CASE t \in transfers
    <3>1. PICK n \in Months : statements[n].payment = t.id
      BY <1>1, <2>2 DEF NoOrphanPayment
    <3>2. t.id # 0
      BY <2>2 DEF IInv, TypeOK, Transfer
    <3>3. n # m
      BY <1>0, <1>1, <3>1, <3>2 DEF Fresh, Links, IInv, m
    <3> QED BY <1>3, <3>1, <3>3
  <2> QED BY <1>4, <2>1, <2>2
<1> QED BY <1>0, <1>5, <1>6, <1>7, <1>8, <1>9, RequestsAfterAnswer DEF IInv

LEMMA IInvUnpay ==
    ASSUME IInv, NEW k \in Clients, TypeOK',
           TransferPaymentReversal(k) \/ LegacyPaymentReversal(k)
    PROVE  IInv'
<1> DEFINE r == open[k]
           m == r.month
<1>0. Answer(k) /\ r.op \in {"unpay", "unsettle"} /\ MarkUnpaid(m)
  BY DEF TransferPaymentReversal, LegacyPaymentReversal
<1>1. /\ r \in Request /\ Held(r) /\ m \in Months
      /\ ~raced' => Fresh(r) /\ NoOrphanPayment
  BY <1>0, AnswerFacts, RequestFields
<1>2. /\ statements'[m].paid = FALSE /\ statements'[m].payment = 0
      /\ \A n \in Months \ {m} : statements'[n] = statements[n]
  BY <1>0, <1>1, UnpaidType DEF IInv
<1>3. CASE TransferPaymentReversal(k)
  <2>1. /\ r.op = "unpay" /\ charges' = charges /\ made' = made
        /\ transfers' = {t \in transfers : t.id # r.transfer}
    BY <1>3 DEF TransferPaymentReversal, DeleteTransfer
  <2>2. /\ \A t \in transfers : t.id = r.transfer => t.month = m
        /\ NoneSettled(m)
    BY <1>1, <2>1 DEF Held
  <2> HIDE DEF r, m
  <2>3. Kept
    BY <2>1 DEF Kept, IInv, TypeOK
  <2>4. Links'
    BY <1>2, <2>1 DEF Links, IInv
  <2>5. PaymentExists'
    <3> SUFFICES ASSUME NEW n \in Months, statements'[n].payment # 0
                 PROVE  \E t \in transfers' : t.id = statements'[n].payment /\ t.into /\ t.month = n
      BY DEF PaymentExists
    <3>1. n # m /\ statements'[n] = statements[n]
      BY <1>2
    <3>2. PICK t \in transfers : t.id = statements[n].payment /\ t.into /\ t.month = n
      BY <3>1 DEF PaymentExists, IInv
    <3>3. t \in transfers'
      BY <2>1, <2>2, <3>1, <3>2
    <3> QED BY <3>1, <3>2, <3>3
  <2>6. SettledMeansLegacyPaid'
    <3>1. \A c \in Charges : charges[c].month \in Months
      BY DEF IInv, TypeOK, Charge
    <3> QED BY <1>2, <2>1, <2>2, <3>1 DEF SettledMeansLegacyPaid, NoneSettled, IInv
  <2>7. NoOrphanUnlessRaced'
    <3> SUFFICES ASSUME ~raced', NEW t \in transfers', t.into
                 PROVE  \E n \in Months : statements'[n].payment = t.id
      BY DEF NoOrphanUnlessRaced, NoOrphanPayment
    <3>1. PICK n \in Months : statements[n].payment = t.id
      BY <1>1, <2>1 DEF NoOrphanPayment
    <3>2. n # m
      BY <1>1, <2>1, <3>1 DEF Fresh, m
    <3> QED BY <1>2, <3>1, <3>2
  <2> QED BY <1>0, <2>3, <2>4, <2>5, <2>6, <2>7, RequestsAfterAnswer DEF IInv
<1>4. CASE LegacyPaymentReversal(k)
  <2>1. /\ r.op = "unsettle" /\ UNCHANGED <<transfers, made>>
        /\ \A c \in Charges : charges[c] \in Charge
        /\ charges' = [c \in Charges |-> IF c \in r.settled THEN [charges[c] EXCEPT !.is = "charge"]
                                                         ELSE charges[c]]
    BY <1>4 DEF LegacyPaymentReversal, IInv, TypeOK
  <2>2. \A c \in Charges : /\ c \in r.settled => charges'[c].is = "charge"
                           /\ c \notin r.settled => charges'[c] = charges[c]
    BY <2>1 DEF Charge
  <2>3. \A c \in Charges : charges[c].is = "settled" /\ charges[c].month = m => c \in r.settled
    BY <1>1, <2>1 DEF Held
  <2> HIDE DEF r, m
  <2>4. Kept
    BY <2>1, <2>2 DEF Kept, IInv, TypeOK
  <2>5. Links' /\ PaymentExists'
    BY <1>2, <2>1 DEF Links, PaymentExists, IInv
  <2>6. SettledMeansLegacyPaid'
    <3> SUFFICES ASSUME NEW c \in Charges, charges'[c].is = "settled"
                 PROVE  /\ statements'[charges'[c].month].paid
                        /\ statements'[charges'[c].month].payment = 0
      BY DEF SettledMeansLegacyPaid
    <3>1. charges'[c] = charges[c] /\ c \notin r.settled /\ charges[c].month \in Months
      BY <2>1, <2>2 DEF Charge
    <3>2. charges[c].month # m
      BY <2>3, <3>1
    <3> QED BY <1>2, <3>1, <3>2 DEF SettledMeansLegacyPaid, IInv
  <2>7. NoOrphanUnlessRaced'
    <3> SUFFICES ASSUME ~raced', NEW t \in transfers', t.into
                 PROVE  \E n \in Months : statements'[n].payment = t.id
      BY DEF NoOrphanUnlessRaced, NoOrphanPayment
    <3>1. PICK n \in Months : statements[n].payment = t.id
      BY <1>1, <2>1 DEF NoOrphanPayment
    <3>2. t.id # 0
      BY <2>1 DEF IInv, TypeOK, Transfer
    <3>3. n # m
      BY <1>1, <2>1, <3>1, <3>2 DEF Fresh, m
    <3> QED BY <1>2, <3>1, <3>3
  <2> QED BY <1>0, <2>4, <2>5, <2>6, <2>7, RequestsAfterAnswer DEF IInv
<1> QED BY <1>3, <1>4

LEMMA IInvRefund ==
    ASSUME IInv, NEW k \in Clients, TypeOK', AddCreditRefund(k) \/ DeleteCreditRefund(k)
    PROVE  IInv'
<1> DEFINE r == open[k]
<1>0. Answer(k) /\ charges' = charges
  BY DEF AddCreditRefund, DeleteCreditRefund
<1>1. /\ r \in Request /\ Held(r)
      /\ ~raced' => NoOrphanPayment
  BY <1>0, AnswerFacts
<1>2. CASE AddCreditRefund(k)
  <2>1. r.month \in Months
    BY <1>1, <1>2, RequestFields DEF AddCreditRefund
  <2>2. SamePayments
    BY <1>2, <2>1, WithStatementKeeps DEF AddCreditRefund, IInv
  <2>3. /\ made' = made + 1 /\ made \in Nat
        /\ \A t \in transfers : t.id <= made /\ t.id \in Nat
    BY <1>2, ConstantsAssumption DEF AddCreditRefund, MakeTransfer, IInv, TypeOK, Links, Transfer
  <2> DEFINE new == [id |-> made + 1, into |-> FALSE, month |-> r.month, amount |-> r.amount]
  <2>4. transfers' = transfers \union {new} /\ new.id = made + 1 /\ ~new.into
    BY <1>2 DEF AddCreditRefund, MakeTransfer
  <2> HIDE DEF r, new
  <2>5. Kept
    BY <1>0, <2>3, <2>4 DEF Kept
  <2>6. Links'
    BY <2>2, <2>3, <2>4 DEF Links, SamePayments, IInv
  <2>7. PaymentExists' /\ NoOrphanUnlessRaced'
    BY <1>1, <2>2, <2>4 DEF PaymentExists, NoOrphanUnlessRaced, NoOrphanPayment, SamePayments, IInv
  <2> QED BY <1>0, <2>2, <2>5, <2>6, <2>7, SettledStays, RequestsAfterAnswer DEF IInv
<1>3. CASE DeleteCreditRefund(k)
  <2>1. /\ r.op = "unrefund" /\ UNCHANGED <<statements, made>>
        /\ transfers' = {t \in transfers : t.id # r.transfer}
    BY <1>3 DEF DeleteCreditRefund, DeleteTransfer
  <2>2. \A t \in transfers : t.id = r.transfer => ~t.into
    BY <1>1, <2>1 DEF Held
  <2> HIDE DEF r
  <2>3. Kept /\ SamePayments
    BY <1>0, <2>1 DEF Kept, SamePayments, IInv, TypeOK
  <2>4. Links' /\ PaymentExists' /\ NoOrphanUnlessRaced'
    BY <1>1, <2>1, <2>2 DEF Links, PaymentExists, NoOrphanUnlessRaced, NoOrphanPayment, IInv
  <2> QED BY <1>0, <2>3, <2>4, SettledStays, RequestsAfterAnswer DEF IInv
<1> QED BY <1>2, <1>3

LEMMA IInvStep == IInv /\ [Next]_vars => IInv'
<1> SUFFICES ASSUME IInv, [Next]_vars PROVE IInv'
  OBVIOUS
<1>1. ASSUME NEW k \in Clients, Apply(k) PROVE IInv'
  <2>1. TypeOK'
    BY <1>1, ApplyType DEF IInv
  <2>2. AddExpense(k) \/ UpdateExpense(k) \/ DeleteExpense(k) \/ MoveToStatement(k) => Answer(k)
    BY DEF AddExpense, UpdateExpense, DeleteExpense, MoveToStatement
  <2> QED BY <1>1, <2>1, <2>2, IInvExpense, IInvPay, IInvUnpay, IInvRefund DEF Apply
<1>2. CASE Next
  BY <1>1, <1>2, IInvValidate, IInvRefused DEF Next
<1>3. CASE UNCHANGED vars
  BY <1>3 DEF vars, book, IInv, TypeOK, Links, PaymentExists, SettledMeansLegacyPaid,
     NoOrphanUnlessRaced, NoOrphanPayment, Requests, Held, Fresh, NoneSettled
<1> QED BY <1>2, <1>3

LEMMA Invariance == Spec => []IInv
  BY IInvInit, IInvStep, PTL DEF Spec

----------------------------------------------------------------------------
(* The theorems.                                                           *)

\* A statement paid by a transfer has its transfer, in its month; settled charges are
\* on statements paid the old way only; and, as long as no request is carried out on
\* what another has changed, every payment is linked by a statement.
THEOREM PaymentsAreLinked == Spec => []PaymentsMatchStatements
<1>1. IInv => PaymentsMatchStatements
  BY DEF IInv, PaymentsMatchStatements
<1> QED BY <1>1, Invariance, PTL

----------------------------------------------------------------------------
(* Paid statements are frozen. A request leaves them alone when it is carried *)
(* out as it was validated, that is, before any other changes the book: what  *)
(* it has checked of them is kept beside the invariant above.                 *)

Checked(r) ==
    /\ r.op = "add" => charges[r.charge].is = "unborn" /\ ~statements[r.month].paid
    /\ r.op = "update" =>
          /\ IsOnPaidStatement(r.charge) =>
                r.month = charges[r.charge].month /\ r.value = charges[r.charge].value
          /\ r.month # charges[r.charge].month => ~statements[r.month].paid
    /\ r.op = "delete" => ~IsOnPaidStatement(r.charge)
    /\ r.op = "move" => ~IsOnPaidStatement(r.charge) /\ ~statements[r.month].paid
    /\ r.op = "unsettle" => \A c \in r.settled : charges[c].month = r.month

FreshAreChecked == \A k \in Clients \ stale : Checked(open[k])

LEMMA CheckedInit == Init => FreshAreChecked
  BY DEF Init, FreshAreChecked, Checked, Idle

LEMMA CheckedUnchanged ==
    ASSUME UNCHANGED book
    PROVE  \A r : Checked(r) => Checked(r)'
  BY DEF book, Checked, IsOnPaidStatement, IsStatementPaid

LEMMA CheckedHold ==
    ASSUME TypeOK, FreshAreChecked, NEW k \in Clients, NEW r, Checked(r), Hold(k, r)
    PROVE  FreshAreChecked'
<1> SUFFICES ASSUME NEW j \in Clients \ stale' PROVE Checked(open[j])'
  BY DEF FreshAreChecked
<1>1. UNCHANGED book
  BY DEF Hold
<1>2. CASE j = k
  <2>1. open'[j] = r
    BY <1>2 DEF Hold, TypeOK
  <2>2. Checked(r)'
    BY <1>1, CheckedUnchanged
  <2> QED BY <2>1, <2>2 DEF Checked, IsOnPaidStatement, IsStatementPaid
<1>3. CASE j # k
  <2>1. open'[j] = open[j] /\ j \notin stale
    BY <1>3 DEF Hold, TypeOK
  <2>2. Checked(open[j])
    BY <2>1 DEF FreshAreChecked
  <2> QED BY <1>1, <2>1, <2>2 DEF book, Checked, IsOnPaidStatement, IsStatementPaid
<1> QED BY <1>2, <1>3

LEMMA CheckedValidate ==
    ASSUME TypeOK, FreshAreChecked, NEW k \in Clients, Validate(k)
    PROVE  FreshAreChecked'
<1>1. ASSUME NEW c \in Charges, NEW m \in Months, NEW v \in Values, ValidateAdd(k, c, m, v)
      PROVE  FreshAreChecked'
  <2>1. Checked([op |-> "add", charge |-> c, month |-> m, value |-> v])
    BY <1>1 DEF ValidateAdd, Unused, IsStatementPaid, Checked
  <2> QED BY <1>1, <2>1, CheckedHold DEF ValidateAdd
<1>2. ASSUME NEW c \in Charges, NEW m \in Months, NEW v \in Values, ValidateUpdate(k, c, m, v)
      PROVE  FreshAreChecked'
  <2>1. Checked([op |-> "update", charge |-> c, month |-> m, value |-> v])
    BY <1>2 DEF ValidateUpdate, IsStatementPaid, Checked
  <2> QED BY <1>2, <2>1, CheckedHold DEF ValidateUpdate
<1>3. ASSUME NEW c \in Charges, ValidateDelete(k, c)
      PROVE  FreshAreChecked'
  <2>1. Checked([op |-> "delete", charge |-> c])
    BY <1>3 DEF ValidateDelete, Checked
  <2> QED BY <1>3, <2>1, CheckedHold DEF ValidateDelete
<1>4. ASSUME NEW c \in Charges, NEW m \in Months, ValidateMove(k, c, m)
      PROVE  FreshAreChecked'
  <2>1. Checked([op |-> "move", charge |-> c, month |-> m])
    BY <1>4 DEF ValidateMove, IsStatementPaid, Checked
  <2> QED BY <1>4, <2>1, CheckedHold DEF ValidateMove
<1>5. ASSUME NEW m \in Months, ValidatePay(k, m)
      PROVE  FreshAreChecked'
  <2>1. Checked([op |-> "pay", month |-> m, amount |-> AmountToPay(m)])
    BY DEF Checked
  <2> QED BY <1>5, <2>1, CheckedHold DEF ValidatePay
<1>6. ASSUME NEW m \in Months, ValidateUnpay(k, m)
      PROVE  FreshAreChecked'
  <2>1. Checked([op |-> "unpay", month |-> m, transfer |-> statements[m].payment])
    BY DEF Checked
  <2> QED BY <1>6, <2>1, CheckedHold DEF ValidateUnpay
<1>7. ASSUME NEW m \in Months, ValidateUnsettle(k, m)
      PROVE  FreshAreChecked'
  <2>1. Checked([op |-> "unsettle", month |-> m,
                 settled |-> {c \in OnMonth(m) : charges[c].is = "settled"}])
    BY DEF Checked, OnMonth
  <2> QED BY <1>7, <2>1, CheckedHold DEF ValidateUnsettle
<1>8. ASSUME NEW m \in Months, NEW amount \in 1..MaxRefund, ValidateRefund(k, m, amount)
      PROVE  FreshAreChecked'
  <2>1. Checked([op |-> "refund", month |-> m, amount |-> amount])
    BY DEF Checked
  <2> QED BY <1>8, <2>1, CheckedHold DEF ValidateRefund
<1>9. ASSUME NEW t \in transfers, ValidateUnrefund(k, t)
      PROVE  FreshAreChecked'
  <2>1. Checked([op |-> "unrefund", transfer |-> t.id])
    BY DEF Checked
  <2> QED BY <1>9, <2>1, CheckedHold DEF ValidateUnrefund
<1> QED BY <1>1, <1>2, <1>3, <1>4, <1>5, <1>6, <1>7, <1>8, <1>9 DEF Validate

\* Carrying out a request leaves every other one overtaken.
LEMMA CheckedAnswer ==
    ASSUME TypeOK, NEW k \in Clients, Answer(k)
    PROVE  FreshAreChecked'
<1> SUFFICES ASSUME NEW j \in Clients \ stale' PROVE Checked(open[j])'
  BY DEF FreshAreChecked
<1>1. open'[j] = Idle
  BY DEF Answer, TypeOK
<1> QED BY <1>1 DEF Checked, Idle

LEMMA ApplyAnswers ==
    ASSUME NEW k \in Clients, Apply(k)
    PROVE  Answer(k)
  BY DEF Apply, AddExpense, UpdateExpense, DeleteExpense, MoveToStatement, MarkStatementPaid,
     TransferPaymentReversal, LegacyPaymentReversal, AddCreditRefund, DeleteCreditRefund

LEMMA CheckedStep == TypeOK /\ FreshAreChecked /\ [Next]_vars => FreshAreChecked'
<1> SUFFICES ASSUME TypeOK, FreshAreChecked, [Next]_vars PROVE FreshAreChecked'
  OBVIOUS
<1>1. ASSUME NEW k \in Clients, Refused(k) PROVE FreshAreChecked'
  <2> SUFFICES ASSUME NEW j \in Clients \ stale' PROVE Checked(open[j])'
    BY DEF FreshAreChecked
  <2>1. UNCHANGED book /\ (open'[j] = IF j = k THEN Idle ELSE open[j])
    BY <1>1 DEF Refused, TypeOK
  <2>2. CASE j = k
    BY <2>1, <2>2 DEF Checked, Idle
  <2>3. CASE j # k
    <3>1. Checked(open[j])
      BY <1>1, <2>3 DEF Refused, FreshAreChecked
    <3> QED BY <2>1, <2>3, <3>1 DEF book, Checked, IsOnPaidStatement, IsStatementPaid
  <2> QED BY <2>2, <2>3
<1>2. CASE UNCHANGED vars
  BY <1>2 DEF vars, book, FreshAreChecked, Checked, IsOnPaidStatement, IsStatementPaid
<1>3. CASE Next
  BY <1>1, <1>3, CheckedValidate, CheckedAnswer, ApplyAnswers DEF Next
<1> QED BY <1>2, <1>3

\* What a step does to the charges of the statement of month m.
MonthFrozen(m) ==
    /\ OnMonth(m) = OnMonth(m)'
    /\ \A c \in OnMonth(m) : charges'[c] = charges[c]

\* A step that changes one charge, and that one neither from nor to the statement.
LEMMA OneChanged ==
    ASSUME NEW m \in Months, NEW d \in Charges,
           \A c \in Charges \ {d} : charges'[c] = charges[c],
           charges'[d] = charges[d] \/ (d \notin OnMonth(m) /\ d \notin OnMonth(m)')
    PROVE  MonthFrozen(m)
  BY DEF MonthFrozen, OnMonth

LEMMA SameCharges ==
    ASSUME charges' = charges, NEW m \in Months
    PROVE  MonthFrozen(m)
  BY DEF MonthFrozen, OnMonth

LEMMA ExpenseKeepsPaid ==
    ASSUME TypeOK, NEW k \in Clients, Checked(open[k]),
           AddExpense(k) \/ UpdateExpense(k) \/ DeleteExpense(k) \/ MoveToStatement(k),
           NEW m \in Months, statements[m].paid
    PROVE  MonthFrozen(m)
<1> DEFINE r == open[k]
           d == r.charge
<1>1. /\ r \in Request /\ charges \in [Charges -> Charge]
      /\ d \in Charges /\ charges[d] \in Charge
  BY RequestFields DEF TypeOK, AddExpense, UpdateExpense, DeleteExpense, MoveToStatement
<1>2. CASE AddExpense(k)
  <2>1. charges[d].is = "unborn" /\ r.month # m
    BY <1>2 DEF AddExpense, Checked
  <2>2. /\ charges'[d] = [is |-> "charge", month |-> r.month, value |-> r.value]
        /\ \A c \in Charges \ {d} : charges'[c] = charges[c]
    BY <1>1, <1>2 DEF AddExpense
  <2>3. d \notin OnMonth(m) /\ d \notin OnMonth(m)'
    BY <2>1, <2>2 DEF OnMonth
  <2> QED BY <1>1, <2>2, <2>3, OneChanged
<1>3. CASE UpdateExpense(k)
  <2>1. /\ statements[charges[d].month].paid =>
              r.month = charges[d].month /\ r.value = charges[d].value
        /\ r.month # charges[d].month => ~statements[r.month].paid
    BY <1>3 DEF UpdateExpense, Checked, IsOnPaidStatement, IsStatementPaid
  <2>2. CASE ~Exists(d)
    BY <1>3, <2>2, SameCharges DEF UpdateExpense, Changed
  <2>3. CASE Exists(d)
    <3>1. /\ charges' = [charges EXCEPT ![d].month = r.month, ![d].value = r.value]
      BY <1>3, <2>3 DEF UpdateExpense, Changed
    <3>2. /\ charges'[d] = [[charges[d] EXCEPT !.month = r.month] EXCEPT !.value = r.value]
          /\ \A c \in Charges \ {d} : charges'[c] = charges[c]
      BY <1>1, <3>1
    <3>3. CASE charges[d].month = m
      <4>1. r.month = charges[d].month /\ r.value = charges[d].value
        BY <2>1, <3>3
      <4>2. charges'[d] = charges[d]
        BY <1>1, <3>2, <4>1 DEF Charge
      <4> QED BY <1>1, <3>2, <4>2, OneChanged
    <3>4. CASE charges[d].month # m
      <4>1. r.month # m
        BY <2>1, <3>4
      <4>2. charges'[d].month = r.month
        BY <1>1, <3>2 DEF Charge
      <4>3. d \notin OnMonth(m) /\ d \notin OnMonth(m)'
        BY <3>4, <4>1, <4>2 DEF OnMonth
      <4> QED BY <1>1, <3>2, <4>3, OneChanged
    <3> QED BY <3>3, <3>4
  <2> QED BY <2>2, <2>3
<1>4. CASE DeleteExpense(k)
  <2>1. charges[d].month # m
    BY <1>4 DEF DeleteExpense, Checked, IsOnPaidStatement, IsStatementPaid
  <2>2. charges'[d] = Deleted /\ \A c \in Charges \ {d} : charges'[c] = charges[c]
    BY <1>1, <1>4 DEF DeleteExpense
  <2>3. d \notin OnMonth(m) /\ d \notin OnMonth(m)'
    BY <2>1, <2>2 DEF OnMonth, Deleted
  <2> QED BY <1>1, <2>2, <2>3, OneChanged
<1>5. CASE MoveToStatement(k)
  <2>1. charges[d].month # m /\ r.month # m
    BY <1>5 DEF MoveToStatement, Checked, IsOnPaidStatement, IsStatementPaid
  <2>2. CASE ~Exists(d)
    BY <1>5, <2>2, SameCharges DEF MoveToStatement, Changed
  <2>3. CASE Exists(d)
    <3>1. charges' = [charges EXCEPT ![d].month = r.month, ![d].value = charges[d].value]
      BY <1>5, <2>3 DEF MoveToStatement, Changed
    <3>2. /\ charges'[d] = [[charges[d] EXCEPT !.month = r.month] EXCEPT !.value = charges[d].value]
          /\ \A c \in Charges \ {d} : charges'[c] = charges[c]
      BY <1>1, <3>1
    <3>3. charges'[d].month = r.month
      BY <1>1, <3>2 DEF Charge
    <3>4. d \notin OnMonth(m) /\ d \notin OnMonth(m)'
      BY <2>1, <3>3 DEF OnMonth
    <3> QED BY <1>1, <3>2, <3>4, OneChanged
  <2> QED BY <2>2, <2>3
<1> QED BY <1>2, <1>3, <1>4, <1>5

\* Unmarking a statement paid the old way changes only its own charges.
LEMMA LegacyKeepsPaid ==
    ASSUME TypeOK, NEW k \in Clients, Checked(open[k]), LegacyPaymentReversal(k),
           NEW m \in Months, statements'[m].paid
    PROVE  MonthFrozen(m)
<1> DEFINE r == open[k]
<1>1. /\ r \in Request /\ charges \in [Charges -> Charge]
      /\ r.op = "unsettle" /\ r.month \in Months /\ r.settled \subseteq Charges
  BY RequestFields DEF TypeOK, LegacyPaymentReversal
<1>2. r.month # m
  BY <1>1, UnpaidType DEF LegacyPaymentReversal
<1>3. \A c \in r.settled : charges[c].month = r.month
  BY <1>1 DEF Checked
<1>4. \A c \in Charges :
          /\ c \in r.settled => charges'[c] = [charges[c] EXCEPT !.is = "charge"]
          /\ c \notin r.settled => charges'[c] = charges[c]
  BY DEF LegacyPaymentReversal
<1>5. ASSUME NEW c \in r.settled
      PROVE  charges[c].month # m /\ charges'[c].month # m
  <2>1. c \in Charges /\ charges[c] \in Charge
    BY <1>1
  <2>2. charges'[c].month = charges[c].month
    BY <1>4, <2>1 DEF Charge
  <2> QED BY <1>2, <1>3, <2>2
<1>6. OnMonth(m) \subseteq Charges \ r.settled /\ OnMonth(m)' \subseteq Charges \ r.settled
  BY <1>5 DEF OnMonth
<1> QED BY <1>4, <1>6 DEF MonthFrozen, OnMonth

LEMMA ApplyKeepsPaid ==
    ASSUME TypeOK, NEW k \in Clients, Checked(open[k]), Apply(k),
           NEW m \in Months, statements[m].paid, statements'[m].paid
    PROVE  MonthFrozen(m)
<1>1. MarkStatementPaid(k) \/ TransferPaymentReversal(k) \/ AddCreditRefund(k)
         \/ DeleteCreditRefund(k) => charges' = charges
  BY DEF MarkStatementPaid, TransferPaymentReversal, AddCreditRefund, DeleteCreditRefund
<1> QED BY <1>1, ExpenseKeepsPaid, LegacyKeepsPaid, SameCharges DEF Apply

\* The charges of a paid statement stay as they were until it is unmarked, whatever
\* is added, changed, moved, deleted, paid or refunded, as long as no request is
\* carried out on what another has changed.
THEOREM PaidStatementsStayFrozen == Spec => PaidStatementIsFrozen
<1> DEFINE Frozen ==
        ~raced' => \A m \in Months :
            statements[m].paid /\ statements'[m].paid =>
                /\ OnMonth(m) = OnMonth(m)'
                /\ \A c \in OnMonth(m) : charges'[c] = charges[c]
<1>1. TypeOK /\ FreshAreChecked /\ [Next]_vars => [Frozen]_vars
  <2> SUFFICES ASSUME TypeOK, FreshAreChecked, Next, ~raced', NEW m \in Months,
                      statements[m].paid, statements'[m].paid
               PROVE  MonthFrozen(m)
    BY DEF MonthFrozen
  <2>1. ASSUME NEW k \in Clients, Validate(k) \/ Refused(k) PROVE charges' = charges
    BY <2>1 DEF Validate, Refused, Hold, book, ValidateAdd, ValidateUpdate, ValidateDelete,
       ValidateMove, ValidatePay, ValidateUnpay, ValidateUnsettle, ValidateRefund,
       ValidateUnrefund
  <2>2. ASSUME NEW k \in Clients, Apply(k) PROVE Checked(open[k])
    BY <2>2, ApplyAnswers DEF Answer, FreshAreChecked
  <2> QED BY <2>1, <2>2, ApplyKeepsPaid, SameCharges DEF Next
<1>2. Spec => []FreshAreChecked
  BY TypeCorrect, CheckedInit, CheckedStep, PTL DEF Spec
<1> QED BY <1>1, <1>2, TypeCorrect, PTL DEF Spec, PaidStatementIsFrozen

----------------------------------------------------------------------------
(* Induction, from the least element of a set of numbers that is not empty.  *)

LEMMA LeastNatural ==
    ASSUME NEW T, T \subseteq Nat, T # {}
    PROVE  \E n \in T : \A k \in T : n <= k
<1> DEFINE less == {ss \in Nat \X Nat : ss[1] < ss[2]}
<1>1. IsWellFoundedOn(less, Nat)
  BY NatLessThanWellFounded DEF OpToRel
<1>2. PICK n \in T : \A k \in T : <<k, n>> \notin less
  <2> HIDE DEF less
  <2> QED BY <1>1, WFMin
<1>3. ASSUME NEW k \in T PROVE n <= k
  <2>1. <<k, n>> \notin less /\ k \in Nat /\ n \in Nat
    BY <1>2
  <2>2. ~(k < n)
    BY <2>1
  <2> QED BY <2>1, <2>2
<1> QED BY <1>3

LEMMA SetInduction ==
    ASSUME NEW S, 0 \in S, \A n \in S \cap Nat : n + 1 \in S
    PROVE  Nat \subseteq S
<1> SUFFICES ASSUME Nat \ S # {} PROVE FALSE
  OBVIOUS
<1>1. PICK n \in Nat \ S : \A k \in Nat \ S : n <= k
  <2>1. Nat \ S \subseteq Nat
    OBVIOUS
  <2> QED BY <2>1, LeastNatural
<1>2. n - 1 \in Nat /\ ~(n <= n - 1) /\ n - 1 + 1 = n
  BY <1>1
<1> QED BY <1>1, <1>2

LEMMA MonthInduction ==
    ASSUME NEW S, \A m \in 0..MaxMonth : (m > 0 => m - 1 \in S) => m \in S
    PROVE  0..MaxMonth \subseteq S
<1> SUFFICES ASSUME (0..MaxMonth) \ S # {} PROVE FALSE
  OBVIOUS
<1>1. PICK n \in (0..MaxMonth) \ S : \A k \in (0..MaxMonth) \ S : n <= k
  <2>1. (0..MaxMonth) \ S \subseteq Nat
    OBVIOUS
  <2> QED BY <2>1, LeastNatural
<1>2. n > 0 => n - 1 \in 0..MaxMonth /\ ~(n <= n - 1)
  BY <1>1, ConstantsAssumption
<1> QED BY <1>1, <1>2

----------------------------------------------------------------------------
(* What the ledger's walk is: the recursion has a solution, and its rows are   *)
(* those of a solution.                                                     *)

Started(ts, m) == ~ \A r \in MonthsWithRecords(ts) : m < r

RowAfter(ts, row, m) ==
    IF Started(ts, m) THEN MonthRow(m, ts, row[m - 1].carried) ELSE NoRow

IsWalk(ts, row, n) == \A m \in 0..n : row[m] = RowAfter(ts, row, m)

LEMMA WalkStep ==
    ASSUME NEW ts, NEW row, NEW other, NEW m \in Nat, m > 0 => row[m - 1] = other[m - 1]
    PROVE  RowAfter(ts, row, m) = RowAfter(ts, other, m)
<1>1. CASE m = 0
  <2>1. ~Started(ts, m)
    BY <1>1 DEF Started, MonthsWithRecords, Months
  <2> QED BY <2>1 DEF RowAfter
<1>2. CASE m > 0
  BY <1>2 DEF RowAfter
<1> QED BY <1>1, <1>2

LEMMA WalkExists ==
    ASSUME NEW ts
    PROVE  \A n \in Nat : \E row : IsWalk(ts, row, n)
<1> DEFINE S == {n \in Nat : \E row : IsWalk(ts, row, n)}
<1>1. 0 \in S
  <2> DEFINE row == [m \in 0..0 |-> NoRow]
  <2>1. ~Started(ts, 0)
    BY DEF Started, MonthsWithRecords, Months
  <2>2. \A m \in 0..0 : m = 0 /\ row[m] = NoRow
    OBVIOUS
  <2> HIDE DEF row
  <2>3. IsWalk(ts, row, 0)
    BY <2>1, <2>2 DEF IsWalk, RowAfter
  <2> QED BY <2>3
<1>2. ASSUME NEW n \in S PROVE n + 1 \in S
  <2>1. PICK row : IsWalk(ts, row, n)
    OBVIOUS
  <2> DEFINE longer == [m \in 0..(n + 1) |-> IF m \in 0..n THEN row[m] ELSE RowAfter(ts, row, n + 1)]
  <2>2. /\ \A m \in 0..n : longer[m] = row[m]
        /\ longer[n + 1] = RowAfter(ts, row, n + 1)
    OBVIOUS
  <2> HIDE DEF longer
  <2>3. ASSUME NEW m \in 0..(n + 1) PROVE longer[m] = RowAfter(ts, longer, m)
    <3>1. m > 0 => m - 1 \in 0..n
      OBVIOUS
    <3>2. RowAfter(ts, longer, m) = RowAfter(ts, row, m)
      BY <2>2, <3>1, WalkStep
    <3>3. CASE m \in 0..n
      BY <2>1, <2>2, <3>2, <3>3 DEF IsWalk
    <3>4. CASE m = n + 1
      BY <2>2, <3>2, <3>4
    <3> QED BY <3>3, <3>4
  <2>4. IsWalk(ts, longer, n + 1)
    BY <2>3 DEF IsWalk
  <2> QED BY <2>4
<1> HIDE DEF S
<1>3. Nat \subseteq S
  BY <1>1, <1>2, SetInduction
<1> QED BY <1>3 DEF S

\* Every row of the walk is made from the one before it.
LEMMA WalkRows == \A ts : \A m \in 0..MaxMonth : Walk(ts)[m] = RowAfter(ts, Walk(ts), m)
<1> SUFFICES ASSUME NEW ts
             PROVE  \A m \in 0..MaxMonth : Walk(ts)[m] = RowAfter(ts, Walk(ts), m)
  OBVIOUS
<1>1. Walk(ts) =
        CHOOSE row :
            row = [m \in 0..MaxMonth |->
                      IF \A r \in MonthsWithRecords(ts) : m < r THEN NoRow
                      ELSE MonthRow(m, ts, row[m - 1].carried)]
  BY DEF Walk
<1>2. PICK any : IsWalk(ts, any, MaxMonth)
  BY WalkExists, ConstantsAssumption
<1> DEFINE row == [m \in 0..MaxMonth |-> any[m]]
<1>3. \A m \in 0..MaxMonth : row[m] = RowAfter(ts, row, m)
  <2> SUFFICES ASSUME NEW m \in 0..MaxMonth PROVE row[m] = RowAfter(ts, row, m)
    OBVIOUS
  <2>1. m \in Nat /\ (m > 0 => m - 1 \in 0..MaxMonth)
    BY ConstantsAssumption
  <2>2. m > 0 => row[m - 1] = any[m - 1]
    BY <2>1
  <2>3. row[m] = any[m]
    OBVIOUS
  <2> HIDE DEF row
  <2> QED BY <1>2, <2>1, <2>2, <2>3, WalkStep DEF IsWalk
<1>4. row = [m \in 0..MaxMonth |->
                IF \A r \in MonthsWithRecords(ts) : m < r THEN NoRow
                ELSE MonthRow(m, ts, row[m - 1].carried)]
  <2>1. \A m \in 0..MaxMonth :
           row[m] = IF \A r \in MonthsWithRecords(ts) : m < r THEN NoRow
                    ELSE MonthRow(m, ts, row[m - 1].carried)
    <3> HIDE DEF row
    <3> QED BY <1>3 DEF RowAfter, Started
  <2>2. row = [m \in 0..MaxMonth |-> row[m]]
    OBVIOUS
  <2> HIDE DEF row
  <2> QED BY <2>1, <2>2
<1> HIDE DEF row
<1>5. Walk(ts) = [m \in 0..MaxMonth |->
                     IF \A r \in MonthsWithRecords(ts) : m < r THEN NoRow
                     ELSE MonthRow(m, ts, Walk(ts)[m - 1].carried)]
  BY <1>1, <1>4
<1>6. ASSUME NEW m \in 0..MaxMonth
      PROVE  Walk(ts)[m] = IF \A r \in MonthsWithRecords(ts) : m < r THEN NoRow
                           ELSE MonthRow(m, ts, Walk(ts)[m - 1].carried)
  BY ONLY <1>5, <1>6
<1> QED BY <1>6 DEF RowAfter, Started

LEMMA WalkRowsNext ==
    (\A ts : \A m \in 0..MaxMonth : Walk(ts)[m] = RowAfter(ts, Walk(ts), m))'
  BY WalkRows, PTL

----------------------------------------------------------------------------
(* What the sums are: the order in which the elements are added is of no      *)
(* matter.                                                                 *)

Pick(s) == CHOOSE x \in s : TRUE

SumRow(g, sum, s) == IF s = {} THEN 0 ELSE g[Pick(s)] + sum[s \ {Pick(s)}]

IsSum(g, sum, S) == \A s \in SUBSET S : sum[s] = SumRow(g, sum, s)

LEMMA Picked ==
    ASSUME NEW S, IsFiniteSet(S), NEW s \in SUBSET S, NEW x \in s
    PROVE  /\ IsFiniteSet(s) /\ Cardinality(s) \in Nat /\ Cardinality(s) > 0
           /\ Pick(s) \in s
           /\ s \ {x} \in SUBSET S /\ Cardinality(s \ {x}) = Cardinality(s) - 1
<1>1. IsFiniteSet(s) /\ Cardinality(s) \in Nat
  BY FS_Subset, FS_CardinalityType
<1>2. Cardinality(s) # 0
  BY <1>1, FS_EmptySet
<1>3. Cardinality(s \ {x}) = Cardinality(s) - 1
  BY <1>1, FS_RemoveElement
<1> QED BY <1>1, <1>2, <1>3 DEF Pick

LEMMA NoneLeft ==
    ASSUME NEW S, IsFiniteSet(S), NEW s \in SUBSET S, Cardinality(s) <= 0
    PROVE  s = {}
<1>1. IsFiniteSet(s) /\ Cardinality(s) \in Nat
  BY FS_Subset, FS_CardinalityType
<1>2. Cardinality(s) = 0
  BY <1>1
<1> QED BY <1>1, <1>2, FS_EmptySet

LEMMA SumExists ==
    ASSUME NEW S, IsFiniteSet(S), NEW g
    PROVE  \E sum : IsSum(g, sum, S)
<1> DEFINE Upto(sum, n) == \A s \in SUBSET S : Cardinality(s) <= n => sum[s] = SumRow(g, sum, s)
           N == {n \in Nat : \E sum : Upto(sum, n)}
<1>1. 0 \in N
  <2> DEFINE none == [s \in SUBSET S |-> 0]
  <2>1. \A s \in SUBSET S : Cardinality(s) <= 0 => s = {}
    BY NoneLeft
  <2>2. \A s \in SUBSET S : none[s] = 0
    OBVIOUS
  <2> HIDE DEF none
  <2>3. Upto(none, 0)
    BY <2>1, <2>2 DEF SumRow
  <2> QED BY <2>3
<1>2. ASSUME NEW n \in N PROVE n + 1 \in N
  <2>1. PICK sum : Upto(sum, n)
    OBVIOUS
  <2> DEFINE longer == [s \in SUBSET S |-> IF Cardinality(s) <= n THEN sum[s] ELSE SumRow(g, sum, s)]
  <2>2. \A s \in SUBSET S :
           longer[s] = IF Cardinality(s) <= n THEN sum[s] ELSE SumRow(g, sum, s)
    OBVIOUS
  <2> HIDE DEF longer
  <2>3. ASSUME NEW s \in SUBSET S, Cardinality(s) <= n + 1
        PROVE  longer[s] = SumRow(g, longer, s)
    <3>1. longer[s] = SumRow(g, sum, s)
      BY <2>1, <2>2
    <3>2. CASE s = {}
      BY <3>1, <3>2 DEF SumRow
    <3>3. CASE s # {}
      <4>1. PICK x \in s : TRUE
        BY <3>3
      <4>2. Pick(s) \in s
        BY <4>1, Picked
      <4>3. s \ {Pick(s)} \in SUBSET S /\ Cardinality(s \ {Pick(s)}) <= n
        <5>1. /\ s \ {Pick(s)} \in SUBSET S /\ Cardinality(s) \in Nat
              /\ Cardinality(s \ {Pick(s)}) = Cardinality(s) - 1
          BY <4>2, Picked
        <5> QED BY <2>3, <5>1
      <4>4. longer[s \ {Pick(s)}] = sum[s \ {Pick(s)}]
        BY <2>2, <4>3
      <4> QED BY <3>1, <3>3, <4>4 DEF SumRow
    <3> QED BY <3>2, <3>3
  <2>4. Upto(longer, n + 1)
    BY <2>3
  <2> HIDE DEF Upto
  <2> QED BY <2>4
<1>3. Nat \subseteq N
  <2> HIDE DEF N
  <2> QED BY <1>1, <1>2, SetInduction
<1>4. PICK sum : Upto(sum, Cardinality(S))
  BY <1>3, FS_CardinalityType
<1>5. \A s \in SUBSET S : Cardinality(s) <= Cardinality(S)
  BY FS_Subset
<1> QED BY <1>4, <1>5 DEF IsSum

\* Whichever element is taken first.
LEMMA SumTakes ==
    ASSUME NEW S, IsFiniteSet(S), NEW g, \A x \in S : g[x] \in Int, NEW sum, IsSum(g, sum, S)
    PROVE  \A s \in SUBSET S : sum[s] \in Int /\ \A x \in s : sum[s] = g[x] + sum[s \ {x}]
<1> DEFINE Good(s) == sum[s] \in Int /\ \A x \in s : sum[s] = g[x] + sum[s \ {x}]
           N == {n \in Nat : \A s \in SUBSET S : Cardinality(s) <= n => Good(s)}
<1>0. Good({})
  BY DEF IsSum, SumRow
<1>1. 0 \in N
  <2>1. \A s \in SUBSET S : Cardinality(s) <= 0 => s = {}
    BY NoneLeft
  <2> QED BY <1>0, <2>1
<1>2. ASSUME NEW n \in N PROVE n + 1 \in N
  <2>0. ASSUME NEW s \in SUBSET S, Cardinality(s) <= n + 1, s # {} PROVE Good(s)
    <3> DEFINE p == Pick(s)
    <3>1. PICK y \in s : TRUE
      BY <2>0
    <3>2. p \in s
      BY <3>1, Picked
    <3>3. \A x \in s : s \ {x} \in SUBSET S /\ Cardinality(s \ {x}) <= n
      <4> SUFFICES ASSUME NEW x \in s PROVE s \ {x} \in SUBSET S /\ Cardinality(s \ {x}) <= n
        OBVIOUS
      <4>1. /\ s \ {x} \in SUBSET S /\ Cardinality(s) \in Nat
            /\ Cardinality(s \ {x}) = Cardinality(s) - 1
        BY Picked
      <4> QED BY <2>0, <4>1
    <3>4. \A x \in s : Good(s \ {x})
      BY <3>3
    <3>5. sum[s] = g[p] + sum[s \ {p}]
      BY <2>0 DEF IsSum, SumRow
    <3> HIDE DEF p
    <3>6. g[p] \in Int /\ sum[s \ {p}] \in Int /\ sum[s] \in Int
      BY <3>2, <3>4, <3>5
    <3>7. ASSUME NEW x \in s, x # p PROVE sum[s] = g[x] + sum[s \ {x}]
      <4>1. x \in s \ {p} /\ p \in s \ {x} /\ (s \ {p}) \ {x} = (s \ {x}) \ {p}
        BY <3>2, <3>7
      <4> DEFINE rest == (s \ {x}) \ {p}
      <4>2. sum[s \ {p}] = g[x] + sum[rest]
        <5>1. Good(s \ {p})
          BY <3>2, <3>4
        <5>2. sum[s \ {p}] = g[x] + sum[(s \ {p}) \ {x}]
          BY <4>1, <5>1
        <5> QED BY <4>1, <5>2
      <4>3. sum[s \ {x}] = g[p] + sum[rest]
        BY <3>4, <4>1
      <4>4. sum[rest] \in Int
        <5>1. /\ s \ {x} \in SUBSET S /\ Cardinality(s \ {x}) <= n
          BY <3>3
        <5>2. /\ rest \in SUBSET S /\ Cardinality(s \ {x}) \in Nat
              /\ Cardinality(rest) = Cardinality(s \ {x}) - 1
          <6> DEFINE less == s \ {x}
          <6>1. less \in SUBSET S /\ p \in less
            BY <4>1, <5>1
          <6> HIDE DEF less
          <6>2. /\ Cardinality(less) \in Nat /\ less \ {p} \in SUBSET S
                /\ Cardinality(less \ {p}) = Cardinality(less) - 1
            BY <6>1, Picked
          <6> QED BY <6>2 DEF less
        <5>3. Cardinality(rest) <= n
          BY <5>1, <5>2
        <5> QED BY <5>2, <5>3
      <4> HIDE DEF rest
      <4>5. g[x] \in Int
        OBVIOUS
      <4> QED BY <3>5, <3>6, <4>2, <4>3, <4>4, <4>5
    <3> QED BY <3>5, <3>6, <3>7
  <2>1. n + 1 \in Nat
    OBVIOUS
  <2> HIDE DEF Good
  <2> QED BY <1>0, <2>0, <2>1
<1>3. Nat \subseteq N
  <2> HIDE DEF N
  <2> QED BY <1>1, <1>2, SetInduction
<1>4. Cardinality(S) \in N /\ \A s \in SUBSET S : Cardinality(s) <= Cardinality(S)
  BY <1>3, FS_CardinalityType, FS_Subset
<1> QED BY <1>4

\* Two sums of the same agree.
LEMMA SumUnique ==
    ASSUME NEW S, IsFiniteSet(S), NEW g, NEW sum, IsSum(g, sum, S),
           NEW f, \A x \in S : f[x] = g[x], NEW other, \A s \in SUBSET S : other[s] = SumRow(f, other, s)
    PROVE  sum[S] = other[S]
<1> DEFINE N == {n \in Nat : \A s \in SUBSET S : Cardinality(s) <= n => sum[s] = other[s]}
<1>0. sum[{}] = other[{}]
  BY DEF IsSum, SumRow
<1>1. 0 \in N
  <2>1. \A s \in SUBSET S : Cardinality(s) <= 0 => s = {}
    BY NoneLeft
  <2> QED BY <1>0, <2>1
<1>2. ASSUME NEW n \in N PROVE n + 1 \in N
  <2>0. ASSUME NEW s \in SUBSET S, Cardinality(s) <= n + 1, s # {} PROVE sum[s] = other[s]
    <3>1. PICK y \in s : TRUE
      BY <2>0
    <3>2. Pick(s) \in s
      BY <3>1, Picked
    <3>3. s \ {Pick(s)} \in SUBSET S /\ Cardinality(s \ {Pick(s)}) <= n
      <4>1. /\ s \ {Pick(s)} \in SUBSET S /\ Cardinality(s) \in Nat
            /\ Cardinality(s \ {Pick(s)}) = Cardinality(s) - 1
        BY <3>2, Picked
      <4> QED BY <2>0, <4>1
    <3>4. sum[s \ {Pick(s)}] = other[s \ {Pick(s)}]
      BY <3>3
    <3> QED BY <2>0, <3>2, <3>4 DEF IsSum, SumRow
  <2>1. n + 1 \in Nat
    OBVIOUS
  <2> QED BY <1>0, <2>0, <2>1
<1>3. Nat \subseteq N
  <2> HIDE DEF N
  <2> QED BY <1>1, <1>2, SetInduction
<1>4. Cardinality(S) \in N /\ Cardinality(S) \in Nat
  BY <1>3, FS_CardinalityType
<1> QED BY <1>4

\* What is taken first is in the set.
LEMMA PickIn ==
    ASSUME NEW s, s # {}
    PROVE  Pick(s) \in s /\ s \ {Pick(s)} \in SUBSET s
  BY DEF Pick

\* The sum of the amounts of transfers, and of the values of charges, is the sum of
\* any function that agrees with them.
LEMMA AmountsAre ==
    ASSUME NEW ts, IsFiniteSet(ts), NEW g, \A t \in ts : g[t] = t.amount,
           NEW sum, IsSum(g, sum, ts)
    PROVE  SumAmounts(ts) = sum[ts]
<1> DEFINE f == [t \in ts |-> t.amount]
           Rows(other) ==
               [s \in SUBSET ts |->
                   IF s = {} THEN 0
                   ELSE (CHOOSE x \in s : TRUE).amount + other[s \ {CHOOSE x \in s : TRUE}]]
           other == CHOOSE iter : iter = Rows(iter)
           any == [s \in SUBSET ts |-> sum[s]]
<1>1. SumAmounts(ts) = other[ts]
  BY DEF SumAmounts, MapThenSumSet, MapThenFoldSet
<1>2. any = Rows(any)
  <2>1. \A s \in SUBSET ts : any[s] = sum[s]
    OBVIOUS
  <2>2. any = [s \in SUBSET ts |-> any[s]]
    OBVIOUS
  <2> HIDE DEF any
  <2>3. ASSUME NEW s \in SUBSET ts, s # {}
        PROVE  any[s] = (CHOOSE x \in s : TRUE).amount + any[s \ {CHOOSE x \in s : TRUE}]
    <3>1. Pick(s) \in ts /\ s \ {Pick(s)} \in SUBSET ts
      BY <2>3, PickIn
    <3>2. sum[s] = g[Pick(s)] + sum[s \ {Pick(s)}]
      BY <2>3 DEF IsSum, SumRow
    <3>3. any[s] = Pick(s).amount + any[s \ {Pick(s)}]
      BY <2>1, <3>1, <3>2
    <3> QED BY <3>3 DEF Pick
  <2>4. any[{}] = 0
    BY <2>1 DEF IsSum, SumRow
  <2> QED BY <2>2, <2>3, <2>4
<1> HIDE DEF any
<1>3. other = Rows(other)
  <2> HIDE DEF Rows
  <2> QED BY <1>2
<1> HIDE DEF other
<1>4. \A s \in SUBSET ts : other[s] = Rows(other)[s]
  <2> HIDE DEF Rows
  <2> QED BY <1>3
<1>5. ASSUME NEW s \in SUBSET ts PROVE other[s] = SumRow(f, other, s)
  <2>1. CASE s = {}
    BY <1>4, <2>1 DEF SumRow
  <2>2. CASE s # {}
    <3>1. other[s] = (CHOOSE x \in s : TRUE).amount + other[s \ {CHOOSE x \in s : TRUE}]
      BY <1>4, <2>2
    <3>2. other[s] = Pick(s).amount + other[s \ {Pick(s)}]
      BY <3>1 DEF Pick
    <3>3. f[Pick(s)] = Pick(s).amount
      BY <2>2, PickIn
    <3> HIDE DEF f
    <3> QED BY <2>2, <3>2, <3>3 DEF SumRow
  <2> QED BY <2>1, <2>2
<1>6. \A t \in ts : f[t] = g[t]
  OBVIOUS
<1> HIDE DEF f
<1>7. sum[ts] = other[ts]
  BY <1>5, <1>6, SumUnique
<1> QED BY <1>1, <1>7

LEMMA ValuesAre ==
    \A cs, g, sum :
        IsFiniteSet(cs) /\ (\A c \in cs : g[c] = charges[c].value) /\ IsSum(g, sum, cs)
            => SumValues(cs) = sum[cs]
<1> SUFFICES ASSUME NEW cs, IsFiniteSet(cs), NEW g, \A c \in cs : g[c] = charges[c].value,
                    NEW sum, IsSum(g, sum, cs)
             PROVE  SumValues(cs) = sum[cs]
  OBVIOUS
<1> DEFINE f == [c \in cs |-> charges[c].value]
           Rows(other) ==
               [s \in SUBSET cs |->
                   IF s = {} THEN 0
                   ELSE charges[CHOOSE x \in s : TRUE].value + other[s \ {CHOOSE x \in s : TRUE}]]
           other == CHOOSE iter : iter = Rows(iter)
           any == [s \in SUBSET cs |-> sum[s]]
<1>1. SumValues(cs) = other[cs]
  BY DEF SumValues, MapThenSumSet, MapThenFoldSet
<1>2. any = Rows(any)
  <2>1. \A s \in SUBSET cs : any[s] = sum[s]
    OBVIOUS
  <2>2. any = [s \in SUBSET cs |-> any[s]]
    OBVIOUS
  <2> HIDE DEF any
  <2>3. ASSUME NEW s \in SUBSET cs, s # {}
        PROVE  any[s] = charges[CHOOSE x \in s : TRUE].value + any[s \ {CHOOSE x \in s : TRUE}]
    <3>1. Pick(s) \in cs /\ s \ {Pick(s)} \in SUBSET cs
      BY <2>3, PickIn
    <3>2. sum[s] = g[Pick(s)] + sum[s \ {Pick(s)}]
      BY <2>3 DEF IsSum, SumRow
    <3>3. any[s] = charges[Pick(s)].value + any[s \ {Pick(s)}]
      BY <2>1, <3>1, <3>2
    <3> QED BY <3>3 DEF Pick
  <2>4. any[{}] = 0
    BY <2>1 DEF IsSum, SumRow
  <2> QED BY <2>2, <2>3, <2>4
<1> HIDE DEF any
<1>3. other = Rows(other)
  <2> HIDE DEF Rows
  <2> QED BY <1>2
<1> HIDE DEF other
<1>4. \A s \in SUBSET cs : other[s] = Rows(other)[s]
  <2> HIDE DEF Rows
  <2> QED BY <1>3
<1>5. ASSUME NEW s \in SUBSET cs PROVE other[s] = SumRow(f, other, s)
  <2>1. CASE s = {}
    BY <1>4, <2>1 DEF SumRow
  <2>2. CASE s # {}
    <3>1. other[s] = charges[CHOOSE x \in s : TRUE].value + other[s \ {CHOOSE x \in s : TRUE}]
      BY <1>4, <2>2
    <3>2. other[s] = charges[Pick(s)].value + other[s \ {Pick(s)}]
      BY <3>1 DEF Pick
    <3>3. f[Pick(s)] = charges[Pick(s)].value
      BY <2>2, PickIn
    <3> HIDE DEF f
    <3> QED BY <2>2, <3>2, <3>3 DEF SumRow
  <2> QED BY <2>1, <2>2
<1>6. \A c \in cs : f[c] = g[c]
  OBVIOUS
<1> HIDE DEF f
<1>7. sum[cs] = other[cs]
  BY <1>5, <1>6, SumUnique
<1> QED BY <1>1, <1>7

LEMMA ValuesAreNext ==
    (\A cs, g, sum :
        IsFiniteSet(cs) /\ (\A c \in cs : g[c] = charges[c].value) /\ IsSum(g, sum, cs)
            => SumValues(cs) = sum[cs])'
  BY ValuesAre, PTL

LEMMA AmountsInt ==
    ASSUME NEW ts, IsFiniteSet(ts), \A t \in ts : t.amount \in Int
    PROVE  SumAmounts(ts) \in Int
<1> DEFINE g == [t \in ts |-> t.amount]
<1>1. PICK sum : IsSum(g, sum, ts)
  <2> HIDE DEF g
  <2> QED BY SumExists
<1>2. \A t \in ts : g[t] \in Int /\ g[t] = t.amount
  OBVIOUS
<1> HIDE DEF g
<1>3. sum[ts] \in Int
  BY <1>1, <1>2, SumTakes
<1> QED BY <1>1, <1>2, <1>3, AmountsAre

LEMMA AmountsOfNone == SumAmounts({}) = 0
<1> DEFINE g == [t \in {} |-> t.amount]
<1>1. IsFiniteSet({})
  BY FS_EmptySet
<1>2. PICK sum : IsSum(g, sum, {})
  <2> HIDE DEF g
  <2> QED BY <1>1, SumExists
<1> HIDE DEF g
<1>3. sum[{}] = 0
  BY <1>2 DEF IsSum, SumRow
<1> QED BY <1>1, <1>2, <1>3, AmountsAre

LEMMA AmountsOfOneMore ==
    ASSUME NEW ts, IsFiniteSet(ts), \A t \in ts : t.amount \in Int,
           NEW new, new \notin ts, new.amount \in Int
    PROVE  SumAmounts(ts \union {new}) = SumAmounts(ts) + new.amount
<1> DEFINE more == ts \union {new}
           g == [t \in more |-> t.amount]
<1>1. IsFiniteSet(more)
  BY FS_AddElement
<1>2. PICK sum : IsSum(g, sum, more)
  <2> HIDE DEF g, more
  <2> QED BY <1>1, SumExists
<1>3. \A t \in more : g[t] \in Int /\ g[t] = t.amount
  OBVIOUS
<1> HIDE DEF g
<1>4. ts \in SUBSET more /\ more \ {new} = ts /\ new \in more
  OBVIOUS
<1> HIDE DEF more
<1>5. sum[more] = g[new] + sum[ts]
  <2>1. more \in SUBSET more
    OBVIOUS
  <2>2. \A x \in more : sum[more] = g[x] + sum[more \ {x}]
    BY <1>1, <1>2, <1>3, <2>1, SumTakes
  <2> QED BY <1>4, <2>2
<1>6. sum[ts] \in Int
  BY <1>1, <1>2, <1>3, <1>4, SumTakes
<1>7. SumAmounts(more) = sum[more]
  BY <1>1, <1>2, <1>3, AmountsAre
<1>8. SumAmounts(ts) = sum[ts]
  <2>1. IsSum(g, sum, ts)
    BY <1>2, <1>4 DEF IsSum
  <2>2. \A t \in ts : g[t] = t.amount
    BY <1>3, <1>4
  <2> QED BY <2>1, <2>2, AmountsAre
<1> QED BY <1>3, <1>4, <1>5, <1>6, <1>7, <1>8 DEF more

\* Every value is an integer, and only charges that were made have one.
ValuesInt == \A c \in Charges : charges[c].value \in Int

LEMMA ValuesSum ==
    \A cs \in SUBSET Charges : IsFiniteSet(cs) /\ ValuesInt => SumValues(cs) \in Int
<1> SUFFICES ASSUME NEW cs \in SUBSET Charges, IsFiniteSet(cs), ValuesInt
             PROVE  SumValues(cs) \in Int
  OBVIOUS
<1> DEFINE g == [c \in cs |-> charges[c].value]
<1>1. PICK sum : IsSum(g, sum, cs)
  <2> HIDE DEF g
  <2> QED BY SumExists
<1>2. \A c \in cs : g[c] \in Int /\ g[c] = charges[c].value
  BY DEF ValuesInt
<1> HIDE DEF g
<1>3. sum[cs] \in Int
  BY <1>1, <1>2, SumTakes
<1> QED BY <1>1, <1>2, <1>3, ValuesAre

LEMMA ValuesOfNone == SumValues({}) = 0
<1> DEFINE g == [c \in {} |-> charges[c].value]
<1>1. IsFiniteSet({})
  BY FS_EmptySet
<1>2. PICK sum : IsSum(g, sum, {})
  <2> HIDE DEF g
  <2> QED BY <1>1, SumExists
<1> HIDE DEF g
<1>3. sum[{}] = 0
  BY <1>2 DEF IsSum, SumRow
<1>4. \A c \in {} : g[c] = charges[c].value
  OBVIOUS
<1> QED BY <1>1, <1>2, <1>3, <1>4, ValuesAre

\* A step that changes no charge keeps every sum of values.
LEMMA ValuesKept ==
    ASSUME charges' = charges
    PROVE  \A cs : IsFiniteSet(cs) => SumValues(cs)' = SumValues(cs)
<1> SUFFICES ASSUME NEW cs, IsFiniteSet(cs) PROVE SumValues(cs)' = SumValues(cs)
  OBVIOUS
<1> DEFINE g == [c \in cs |-> charges[c].value]
<1>1. PICK sum : IsSum(g, sum, cs)
  <2> HIDE DEF g
  <2> QED BY SumExists
<1>2. \A c \in cs : g[c] = charges[c].value /\ g[c] = charges'[c].value
  OBVIOUS
<1> HIDE DEF g
<1>3. SumValues(cs) = sum[cs]
  BY <1>1, <1>2, ValuesAre
<1>4. SumValues(cs)' = sum[cs]
  BY <1>1, <1>2, ValuesAreNext
<1> QED BY <1>3, <1>4

----------------------------------------------------------------------------
(* The rows: from what is counted, what was paid and the credit carried in.  *)

Counted(m, ts) == SumValues(Owed(m)) + SumAmounts(RefundsOf(m, ts))

PaidBy(m, ts) == SumAmounts({t \in ts : t.id = statements[m].payment})

RowFrom(statement, counted, paid, creditIn) ==
    CASE statement.paid /\ statement.payment = 0 ->
             [due |-> 0, carried |-> creditIn]
      [] statement.paid /\ statement.payment # 0 ->
             [due |-> 0, carried |-> AtLeastZero(creditIn + paid - counted)]
      [] OTHER ->
             [due |-> AtLeastZero(counted - creditIn), carried |-> AtLeastZero(-(counted - creditIn))]

LEMMA RowIsFrom ==
    \A m, ts, creditIn :
        MonthRow(m, ts, creditIn) = RowFrom(statements[m], Counted(m, ts), PaidBy(m, ts), creditIn)
  BY DEF MonthRow, RowFrom, Counted, PaidBy

LEMMA RowIsFromNext ==
    (\A m, ts, creditIn :
        MonthRow(m, ts, creditIn)
            = RowFrom(statements[m], Counted(m, ts), PaidBy(m, ts), creditIn))'
  BY RowIsFrom, PTL

LEMMA RowType ==
    ASSUME NEW statement, NEW counted \in Int, NEW paid \in Int, NEW creditIn \in Nat
    PROVE  LET row == RowFrom(statement, counted, paid, creditIn)
           IN row.due \in Nat /\ row.carried \in Nat /\ (row.due > 0 => counted > 0)
  BY DEF RowFrom, AtLeastZero

\* More credit, or less to count, leaves at most as much to pay and carries at least
\* as much.
LEMMA RowMonotone ==
    ASSUME NEW statement, NEW counted \in Int, NEW fewer \in Int, fewer <= counted,
           NEW paid \in Int, NEW creditIn \in Nat, NEW more \in Nat, creditIn <= more
    PROVE  /\ RowFrom(statement, fewer, paid, more).due
                <= RowFrom(statement, counted, paid, creditIn).due
           /\ RowFrom(statement, counted, paid, creditIn).carried
                <= RowFrom(statement, fewer, paid, more).carried
  BY DEF RowFrom, AtLeastZero

\* Only charges that were made count, and there are finitely many.
FewMade == IsFiniteSet({c \in Charges : charges[c].is # "unborn"})

Summable(ts) == IsFiniteSet(ts) /\ \A t \in ts : t.amount \in Int

LEMMA OwedFinite ==
    ASSUME FewMade, NEW m
    PROVE  IsFiniteSet(Owed(m)) /\ Owed(m) \in SUBSET Charges
<1>1. Owed(m) \subseteq {c \in Charges : charges[c].is # "unborn"}
  BY DEF Owed, OnMonth
<1> QED BY <1>1, FS_Subset DEF FewMade, Owed, OnMonth

LEMMA Subsums ==
    ASSUME NEW ts, Summable(ts), NEW some \in SUBSET ts
    PROVE  Summable(some) /\ SumAmounts(some) \in Int
<1>1. IsFiniteSet(some) /\ \A t \in some : t.amount \in Int
  BY FS_Subset DEF Summable
<1> QED BY <1>1, AmountsInt DEF Summable

LEMMA CountedInt ==
    ASSUME TypeOK, FewMade, NEW ts, Summable(ts), NEW m
    PROVE  Counted(m, ts) \in Int /\ PaidBy(m, ts) \in Int
<1>1. ValuesInt
  BY DEF ValuesInt, TypeOK, Charge
<1>2. SumValues(Owed(m)) \in Int
  BY <1>1, OwedFinite, ValuesSum
<1>3. /\ RefundsOf(m, ts) \in SUBSET ts
      /\ {t \in ts : t.id = statements[m].payment} \in SUBSET ts
  BY DEF RefundsOf
<1>4. SumAmounts(RefundsOf(m, ts)) \in Int /\ PaidBy(m, ts) \in Int
  BY <1>3, Subsums DEF PaidBy
<1> QED BY <1>2, <1>4 DEF Counted

\* Every month's row has an amount to pay and a credit, neither of them negative.
LEMMA RowsType ==
    ASSUME TypeOK, FewMade, NEW ts, Summable(ts)
    PROVE  \A m \in 0..MaxMonth : Walk(ts)[m].due \in Nat /\ Walk(ts)[m].carried \in Nat
<1> DEFINE Good(m) == Walk(ts)[m].due \in Nat /\ Walk(ts)[m].carried \in Nat
           S == {m \in 0..MaxMonth : Good(m)}
<1>1. ASSUME NEW m \in 0..MaxMonth, m > 0 => m - 1 \in S PROVE m \in S
  <2>1. Walk(ts)[m] = RowAfter(ts, Walk(ts), m)
    BY WalkRows
  <2>2. CASE ~Started(ts, m)
    BY <2>1, <2>2 DEF RowAfter, NoRow
  <2>3. CASE Started(ts, m)
    <3>1. m > 0
      BY <2>3 DEF Started, MonthsWithRecords, Months
    <3>2. Walk(ts)[m] =
             RowFrom(statements[m], Counted(m, ts), PaidBy(m, ts), Walk(ts)[m - 1].carried)
      BY <2>1, <2>3, RowIsFrom DEF RowAfter
    <3> QED BY <1>1, <3>1, <3>2, CountedInt, RowType
  <2> QED BY <2>2, <2>3
<1> HIDE DEF S
<1>2. 0..MaxMonth \subseteq S
  BY <1>1, MonthInduction
<1> QED BY <1>2 DEF S

\* Only a month with records has an amount to pay.
LEMMA DueNeedsRecords ==
    ASSUME TypeOK, FewMade, NEW ts, Summable(ts), NEW m \in Months, Walk(ts)[m].due > 0
    PROVE  m \in MonthsWithRecords(ts)
<1> SUFFICES ASSUME m \notin MonthsWithRecords(ts) PROVE FALSE
  OBVIOUS
<1>1. m \in 0..MaxMonth /\ m - 1 \in 0..MaxMonth
  BY ConstantsAssumption DEF Months
<1>2. Walk(ts)[m] = RowAfter(ts, Walk(ts), m)
  BY <1>1, WalkRows
<1>3. Started(ts, m)
  BY <1>2 DEF RowAfter, NoRow
<1>4. Walk(ts)[m] =
         RowFrom(statements[m], Counted(m, ts), PaidBy(m, ts), Walk(ts)[m - 1].carried)
  BY <1>2, <1>3, RowIsFrom DEF RowAfter
<1>5. Walk(ts)[m - 1].carried \in Nat
  BY <1>1, RowsType
<1>6. Counted(m, ts) > 0
  BY <1>4, <1>5, CountedInt, RowType
<1>7. Owed(m) = {} /\ RefundsOf(m, ts) = {}
  BY DEF MonthsWithRecords, Owed
<1>8. Counted(m, ts) = 0
  BY <1>7, AmountsOfNone, ValuesOfNone DEF Counted
<1> QED BY <1>6, <1>8

----------------------------------------------------------------------------
(* A step that changes neither what is counted nor what is paid changes no row. *)

LEMMA CountedKept ==
    ASSUME FewMade, charges' = charges
    PROVE  \A m, ts : Counted(m, ts)' = Counted(m, ts)
<1> SUFFICES ASSUME NEW m, NEW ts PROVE Counted(m, ts)' = Counted(m, ts)
  OBVIOUS
<1>1. Owed(m)' = Owed(m) /\ RefundsOf(m, ts)' = RefundsOf(m, ts)
  BY DEF Owed, OnMonth, RefundsOf
<1>2. PICK cs : cs = Owed(m)
  OBVIOUS
<1>3. IsFiniteSet(cs)
  BY <1>2, OwedFinite
<1>4. SumValues(cs)' = SumValues(cs)
  BY <1>3, ValuesKept
<1>5. SumValues(Owed(m))' = SumValues(Owed(m))
  BY <1>1, <1>2, <1>4
<1> QED BY <1>1, <1>5 DEF Counted

LEMMA RowKept ==
    ASSUME FewMade, charges' = charges, NEW m \in Months,
           statements'[m].paid = statements[m].paid,
           statements'[m].payment = statements[m].payment
    PROVE  \A ts, creditIn : MonthRow(m, ts, creditIn)' = MonthRow(m, ts, creditIn)
<1> SUFFICES ASSUME NEW ts, NEW creditIn
             PROVE  MonthRow(m, ts, creditIn)' = MonthRow(m, ts, creditIn)
  OBVIOUS
<1>1. MonthRow(m, ts, creditIn) = RowFrom(statements[m], Counted(m, ts), PaidBy(m, ts), creditIn)
  BY RowIsFrom
<1>2. MonthRow(m, ts, creditIn)' = RowFrom(statements'[m], Counted(m, ts)', PaidBy(m, ts)', creditIn)
  BY RowIsFromNext
<1>3. Counted(m, ts)' = Counted(m, ts) /\ PaidBy(m, ts)' = PaidBy(m, ts)
  BY CountedKept DEF PaidBy
<1> QED BY <1>1, <1>2, <1>3 DEF RowFrom

LEMMA StartedKept ==
    ASSUME charges' = charges
    PROVE  /\ \A ts : MonthsWithRecords(ts)' = MonthsWithRecords(ts)
           /\ \A ts, m : Started(ts, m)' <=> Started(ts, m)
  BY DEF MonthsWithRecords, OnMonth, RefundsOf, Started

LEMMA WalkKept ==
    ASSUME FewMade, charges' = charges,
           \A m \in Months : /\ statements'[m].paid = statements[m].paid
                             /\ statements'[m].payment = statements[m].payment
    PROVE  \A ts : \A m \in 0..MaxMonth : Walk(ts)'[m] = Walk(ts)[m]
<1> SUFFICES ASSUME NEW ts PROVE \A m \in 0..MaxMonth : Walk(ts)'[m] = Walk(ts)[m]
  OBVIOUS
<1> DEFINE Good(m) == Walk(ts)'[m] = Walk(ts)[m]
           S == {m \in 0..MaxMonth : Good(m)}
<1>1. ASSUME NEW m \in 0..MaxMonth, m > 0 => m - 1 \in S PROVE m \in S
  <2>1. Walk(ts)[m] = RowAfter(ts, Walk(ts), m)
    BY WalkRows
  <2>2. Walk(ts)'[m] = RowAfter(ts, Walk(ts), m)'
    BY WalkRowsNext
  <2>3. CASE ~Started(ts, m)
    BY <2>1, <2>2, <2>3, StartedKept DEF RowAfter, NoRow
  <2>4. CASE Started(ts, m)
    <3>1. m > 0 /\ m \in Months
      BY <2>4 DEF Started, MonthsWithRecords, Months
    <3>2. Walk(ts)[m] = MonthRow(m, ts, Walk(ts)[m - 1].carried)
      BY <2>1, <2>4 DEF RowAfter
    <3>3. Walk(ts)'[m] = MonthRow(m, ts, Walk(ts)[m - 1].carried)'
      BY <2>2, <2>4, StartedKept DEF RowAfter
    <3>4. PICK creditIn : creditIn = Walk(ts)[m - 1].carried
      OBVIOUS
    <3>5. creditIn = Walk(ts)'[m - 1].carried
      BY <1>1, <3>1, <3>4
    <3>6. MonthRow(m, ts, creditIn)' = MonthRow(m, ts, creditIn)
      BY <3>1, RowKept
    <3> QED BY <3>2, <3>3, <3>4, <3>5, <3>6
  <2> QED BY <2>3, <2>4
<1> HIDE DEF S
<1>2. 0..MaxMonth \subseteq S
  BY <1>1, MonthInduction
<1> QED BY <1>2 DEF S

----------------------------------------------------------------------------
(* Every month with records has its statement.                             *)

Recorded == \A m \in MonthsWithRecords(transfers) : statements[m].stored

Books == FewMade /\ IsFiniteSet(transfers) /\ Recorded

LEMMA BooksInit == Init => Books
<1> SUFFICES ASSUME Init PROVE Books
  OBVIOUS
<1>1. IsFiniteSet(transfers)
  BY FS_EmptySet DEF Init
<1>2. CASE charges = [c \in Charges |-> Unborn] /\ statements = [m \in Months |-> NoStatement]
  <2>1. {c \in Charges : charges[c].is # "unborn"} = {}
    BY <1>2 DEF Unborn
  <2>2. MonthsWithRecords(transfers) = {}
    BY <1>2 DEF Init, MonthsWithRecords, OnMonth, RefundsOf, Unborn
  <2> QED BY <1>1, <2>1, <2>2, FS_EmptySet DEF Books, FewMade, Recorded
<1>3. ASSUME NEW d \in Charges, LegacyPaid(d) PROVE Books
  <2>1. {c \in Charges : charges[c].is # "unborn"} = {d}
    BY <1>3 DEF LegacyPaid, Unborn
  <2>2. ASSUME NEW m \in MonthsWithRecords(transfers) PROVE statements[m].stored
    <3>1. PICK c \in OnMonth(m) : TRUE
      BY DEF Init, MonthsWithRecords, RefundsOf
    <3> QED BY <1>3, <3>1 DEF LegacyPaid, OnMonth, Unborn, MonthsWithRecords
  <2> QED BY <1>1, <2>1, <2>2, FS_Singleton DEF Books, FewMade, Recorded
<1> QED BY <1>2, <1>3 DEF Init

LEMMA FewMadeStays ==
    ASSUME FewMade, NEW d,
           \A c \in Charges \ {d} : charges[c].is = "unborn" => charges'[c].is = "unborn"
    PROVE  FewMade'
<1> DEFINE Made == {c \in Charges : charges[c].is # "unborn"}
<1>1. IsFiniteSet(Made \union {d})
  BY FS_AddElement DEF FewMade
<1>2. {c \in Charges : charges'[c].is # "unborn"} \subseteq Made \union {d}
  OBVIOUS
<1> QED BY <1>1, <1>2, FS_Subset DEF FewMade

\* What a step must do to leave no record without its statement.
LEMMA RecordedStays ==
    ASSUME Recorded,
           \A m \in Months : statements[m].stored => statements'[m].stored,
           \A c \in Charges : Exists(c)' =>
               \/ Exists(c) /\ charges'[c].month = charges[c].month
               \/ statements'[charges'[c].month].stored,
           \A t \in transfers' : t \in transfers \/ t.into \/ statements'[t.month].stored
    PROVE  Recorded'
<1> SUFFICES ASSUME NEW m \in Months, OnMonth(m)' # {} \/ RefundsOf(m, transfers)' # {}
             PROVE  statements'[m].stored
  BY DEF Recorded, MonthsWithRecords
<1>1. ASSUME NEW c \in OnMonth(m)' PROVE statements'[m].stored
  <2>1. c \in Charges /\ Exists(c)' /\ charges'[c].month = m
    BY DEF OnMonth, Exists
  <2>2. CASE statements'[charges'[c].month].stored
    BY <2>1, <2>2
  <2>3. CASE Exists(c) /\ charges'[c].month = charges[c].month
    <3>1. c \in OnMonth(m)
      BY <2>1, <2>3 DEF OnMonth, Exists
    <3> QED BY <3>1 DEF Recorded, MonthsWithRecords
  <2> QED BY <2>1, <2>2, <2>3
<1>2. ASSUME NEW t \in RefundsOf(m, transfers)' PROVE statements'[m].stored
  <2>1. t \in transfers' /\ ~t.into /\ t.month = m
    BY DEF RefundsOf
  <2>2. t \in transfers => t \in RefundsOf(m, transfers)
    BY <2>1 DEF RefundsOf
  <2> QED BY <2>1, <2>2 DEF Recorded, MonthsWithRecords
<1> QED BY <1>1, <1>2

LEMMA WithStatementStores ==
    ASSUME TypeOK, NEW m \in Months, statements' = WithStatement(m)
    PROVE  statements'[m].stored
           /\ \A n \in Months : statements[n].stored => statements'[n].stored
  BY DEF TypeOK, Statement, WithStatement

LEMMA BooksExpense ==
    ASSUME TypeOK, Books, NEW k \in Clients,
           AddExpense(k) \/ UpdateExpense(k) \/ DeleteExpense(k) \/ MoveToStatement(k)
    PROVE  Books'
<1>1. /\ open[k] \in Request /\ charges \in [Charges -> Charge] /\ open[k].charge \in Charges
      /\ UNCHANGED transfers
  BY RequestFields DEF TypeOK, AddExpense, UpdateExpense, DeleteExpense, MoveToStatement
<1>2. PICK d \in Charges : d = open[k].charge
  BY <1>1
<1>3. \A c \in Charges \ {d} : charges'[c] = charges[c]
  BY <1>1, <1>2 DEF AddExpense, UpdateExpense, DeleteExpense, MoveToStatement, Changed
<1>4. FewMade'
  BY <1>3, FewMadeStays DEF Books
<1>5. CASE DeleteExpense(k)
  <2>1. charges'[d] = Deleted /\ UNCHANGED statements
    BY <1>1, <1>2, <1>5 DEF DeleteExpense
  <2>2. \A c \in Charges : Exists(c)' => Exists(c) /\ charges'[c].month = charges[c].month
    BY <1>3, <2>1 DEF Exists, Deleted
  <2>3. Recorded'
    BY <1>1, <2>1, <2>2, RecordedStays DEF Books
  <2> QED BY <1>1, <1>4, <2>3 DEF Books
<1>6. CASE ~DeleteExpense(k)
  <2>1. PICK m \in Months : m = open[k].month /\ statements' = WithStatement(m)
    BY <1>1, <1>6, RequestFields DEF AddExpense, UpdateExpense, MoveToStatement
  <2>2. Exists(d)' => charges'[d].month = m
    <3>1. CASE AddExpense(k)
      BY <1>1, <1>2, <2>1, <3>1 DEF AddExpense
    <3>2. ASSUME NEW v, charges' = Changed(d, m, v)
          PROVE  Exists(d)' => charges'[d].month = m
      <4>1. CASE Exists(d)
        BY <1>1, <3>2, <4>1 DEF Changed, Charge
      <4>2. CASE ~Exists(d)
        BY <1>1, <3>2, <4>2 DEF Changed, Exists
      <4> QED BY <4>1, <4>2
    <3> QED BY <1>2, <1>6, <2>1, <3>1, <3>2 DEF UpdateExpense, MoveToStatement
  <2>3. /\ statements'[m].stored
        /\ \A n \in Months : statements[n].stored => statements'[n].stored
    BY <2>1, WithStatementStores
  <2>4. \A c \in Charges : Exists(c)' =>
               \/ Exists(c) /\ charges'[c].month = charges[c].month
               \/ statements'[charges'[c].month].stored
    BY <1>3, <2>2, <2>3 DEF Exists
  <2>5. Recorded'
    BY <1>1, <2>3, <2>4, RecordedStays DEF Books
  <2> QED BY <1>1, <1>4, <2>5 DEF Books
<1> QED BY <1>5, <1>6

LEMMA BooksTransfer ==
    ASSUME TypeOK, Books, NEW k \in Clients,
           MarkStatementPaid(k) \/ TransferPaymentReversal(k) \/ AddCreditRefund(k)
              \/ DeleteCreditRefund(k)
    PROVE  Books'
<1>1. /\ open[k] \in Request /\ UNCHANGED charges /\ statements \in [Months -> Statement]
      /\ open[k].op \in {"pay", "unpay", "refund"} => open[k].month \in Months
  BY RequestFields DEF TypeOK, MarkStatementPaid, TransferPaymentReversal, AddCreditRefund,
     DeleteCreditRefund
<1>2. FewMade' /\ \A c \in Charges : Exists(c)' => Exists(c) /\ charges'[c].month = charges[c].month
  BY <1>1 DEF Books, FewMade, Exists
<1>3. \A n \in Months : statements[n].stored => statements'[n].stored
  <2>0. CASE MarkStatementPaid(k)
    <3>1. /\ open[k].month \in Months /\ TRUE \in BOOLEAN /\ made + 1 \in 0..MaxTransfers
          /\ statements' = [statements EXCEPT ![open[k].month].paid = TRUE,
                                              ![open[k].month].payment = made + 1]
      BY <1>1, <2>0, ConstantsAssumption DEF MarkStatementPaid, MakeTransfer, TypeOK
    <3>2. PICK m \in Months : m = open[k].month
      BY <3>1
    <3>3. /\ statements'[m].stored = statements[m].stored
          /\ \A n \in Months \ {m} : statements'[n] = statements[n]
      BY <3>1, <3>2, PaidAndPayment
    <3> QED BY <3>3
  <2>1. CASE TransferPaymentReversal(k)
    BY <1>1, <2>1, UnpaidType DEF TransferPaymentReversal
  <2>2. CASE AddCreditRefund(k)
    BY <1>1, <2>2, WithStatementStores DEF AddCreditRefund
  <2>3. CASE DeleteCreditRefund(k)
    BY <2>3 DEF DeleteCreditRefund
  <2> QED BY <2>0, <2>1, <2>2, <2>3
<1>4. ASSUME MarkStatementPaid(k) \/ AddCreditRefund(k)
      PROVE  /\ IsFiniteSet(transfers')
             /\ \A t \in transfers' : t \in transfers \/ t.into \/ statements'[t.month].stored
  <2> DEFINE New(into) == [id |-> made + 1, into |-> into,
                           month |-> open[k].month, amount |-> open[k].amount]
  <2>1. CASE MarkStatementPaid(k)
    <3>1. transfers' = transfers \union {New(TRUE)} /\ New(TRUE).into
      BY <2>1 DEF MarkStatementPaid, MakeTransfer
    <3> HIDE DEF New
    <3> QED BY <3>1, FS_AddElement DEF Books
  <2>2. CASE AddCreditRefund(k)
    <3>1. transfers' = transfers \union {New(FALSE)} /\ New(FALSE).month = open[k].month
      BY <2>2 DEF AddCreditRefund, MakeTransfer
    <3>2. statements'[open[k].month].stored
      BY <1>1, <2>2, WithStatementStores DEF AddCreditRefund
    <3> HIDE DEF New
    <3> QED BY <3>1, <3>2, FS_AddElement DEF Books
  <2> QED BY <1>4, <2>1, <2>2
<1>5. ASSUME TransferPaymentReversal(k) \/ DeleteCreditRefund(k)
      PROVE  transfers' \subseteq transfers /\ IsFiniteSet(transfers')
  BY <1>5, FS_Subset DEF TransferPaymentReversal, DeleteCreditRefund, DeleteTransfer, Books
<1>6. /\ IsFiniteSet(transfers')
      /\ \A t \in transfers' : t \in transfers \/ t.into \/ statements'[t.month].stored
  BY <1>4, <1>5
<1>7. Recorded'
  BY <1>2, <1>3, <1>6, RecordedStays DEF Books
<1> QED BY <1>2, <1>6, <1>7 DEF Books

LEMMA BooksLegacy ==
    ASSUME TypeOK, Books, NEW k \in Clients, LegacyPaymentReversal(k)
    PROVE  Books'
<1> DEFINE r == open[k]
<1>1. /\ r.month \in Months /\ statements \in [Months -> Statement]
      /\ charges \in [Charges -> Charge]
      /\ UNCHANGED transfers
  BY RequestFields DEF TypeOK, LegacyPaymentReversal
<1>2. \A c \in Charges :
         /\ c \in r.settled => charges[c].is = "settled" /\ charges'[c].is = "charge"
         /\ c \notin r.settled => charges'[c] = charges[c]
         /\ charges'[c].month = charges[c].month
  BY <1>1 DEF LegacyPaymentReversal, Charge
<1>3. FewMade'
  BY <1>2, FewMadeStays DEF Books
<1>4. \A n \in Months : statements[n].stored => statements'[n].stored
  BY <1>1 DEF LegacyPaymentReversal, MarkUnpaid, Statement
<1>5. \A c \in Charges : Exists(c)' => Exists(c) /\ charges'[c].month = charges[c].month
  BY <1>2 DEF Exists
<1>6. Recorded'
  BY <1>1, <1>4, <1>5, RecordedStays DEF Books
<1> QED BY <1>1, <1>3, <1>6 DEF Books

LEMMA BooksStep == TypeOK /\ Books /\ [Next]_vars => Books'
<1> SUFFICES ASSUME TypeOK, Books, [Next]_vars PROVE Books'
  OBVIOUS
<1>1. ASSUME UNCHANGED book PROVE Books'
  BY <1>1 DEF book, Books, FewMade, Recorded, MonthsWithRecords, OnMonth, RefundsOf
<1>2. ASSUME NEW k \in Clients, Validate(k) \/ Refused(k) PROVE UNCHANGED book
  BY <1>2 DEF Validate, Refused, Hold, ValidateAdd, ValidateUpdate, ValidateDelete,
     ValidateMove, ValidatePay, ValidateUnpay, ValidateUnsettle, ValidateRefund,
     ValidateUnrefund
<1>3. ASSUME NEW k \in Clients, Apply(k) PROVE Books'
  BY <1>3, BooksExpense, BooksTransfer, BooksLegacy DEF Apply
<1>4. CASE UNCHANGED vars
  BY <1>1, <1>4 DEF vars, book
<1> QED BY <1>1, <1>2, <1>3, <1>4 DEF Next

LEMMA BooksHold == Spec => []Books
  BY TypeCorrect, BooksInit, BooksStep, PTL DEF Spec

\* A month that has an amount to pay has its statement, whatever requests overtake.
THEOREM DueIsStored == Spec => []DueHasStatement
<1>1. TypeOK /\ Books => DueHasStatement
  <2> SUFFICES ASSUME TypeOK, Books, NEW m \in Months, AmountToPay(m) > 0
               PROVE  statements[m].stored
    BY DEF DueHasStatement
  <2>1. Summable(transfers)
    BY DEF Summable, Books, TypeOK, Transfer
  <2>2. m \in MonthsWithRecords(transfers)
    BY <2>1, DueNeedsRecords DEF Books, AmountToPay
  <2> QED BY <2>2 DEF Books, Recorded
<1> QED BY <1>1, TypeCorrect, BooksHold, PTL

----------------------------------------------------------------------------
(* A credit refund that the ledger lets through changes no month's amount to   *)
(* pay. What is refunded counts in its month, so from there on at least as     *)
(* much is to pay and at most as much credit is carried; a check that no       *)
(* amount rises leaves them all as they are. A refund before the first month   *)
(* with records would only add to the credit, and does not pass.              *)

LEMMA LastRowIs ==
    ASSUME NEW ts, NEW m \in Months
    PROVE  /\ LastRow(ts, m) \in MonthsWithRecords(ts) \union {m}
           /\ \A n \in MonthsWithRecords(ts) \union {m} : n <= LastRow(ts, m)
<1> DEFINE S == MonthsWithRecords(ts) \union {m}
           T == {k \in Nat : MaxMonth - k \in S}
<1>1. S \subseteq Months /\ Months \subseteq Int /\ MaxMonth \in Int
  BY ConstantsAssumption DEF MonthsWithRecords, Months
<1>2. T \subseteq Nat /\ MaxMonth - m \in T
  BY ConstantsAssumption DEF Months
<1>3. PICK k \in T : \A l \in T : k <= l
  <2> HIDE DEF T
  <2> QED BY <1>2, LeastNatural
<1>4. MaxMonth - k \in S /\ \A n \in S : n <= MaxMonth - k
  <2>1. ASSUME NEW n \in S PROVE n <= MaxMonth - k
    <3>1. n \in 1..MaxMonth /\ k \in Nat
      BY <1>1, <1>3 DEF Months
    <3>2. MaxMonth - n \in T
      BY <1>1, <3>1
    <3>3. k <= MaxMonth - n
      BY <1>3, <3>2
    <3> QED BY <1>1, <3>1, <3>3
  <2> QED BY <1>3, <2>1
<1> HIDE DEF S
<1>5. \E x \in S : \A y \in S : x >= y
  BY <1>1, <1>4
<1>6. LastRow(ts, m) = CHOOSE x \in S : \A y \in S : x >= y
  BY DEF LastRow, Max, S
<1>7. LastRow(ts, m) \in S /\ \A y \in S : LastRow(ts, m) >= y
  BY <1>5, <1>6
<1> QED BY <1>1, <1>7 DEF S

\* No statement was paid by a transfer that is not there.
LEMMA PaymentIsOld ==
    ASSUME IInv, NEW m \in Months
    PROVE  statements[m].payment # made + 1
<1>1. made \in Nat /\ (statements[m].payment # 0 =>
                          \E t \in transfers : t.id = statements[m].payment /\ t.id <= made)
  BY ConstantsAssumption DEF IInv, TypeOK, PaymentExists, Links
<1> QED BY <1>1

LEMMA TransfersSum ==
    ASSUME IInv, Books
    PROVE  /\ Summable(transfers)
           /\ made \in Nat
           /\ \A t \in transfers : t.id # made + 1
<1>1. made \in Nat /\ \A t \in transfers : t.id <= made /\ t.id \in Nat /\ t.amount \in Int
  BY ConstantsAssumption DEF IInv, TypeOK, Links, Transfer
<1> QED BY <1>1 DEF Summable, Books

\* A refund of an amount in a month, which nobody has made yet.
IsNewRefund(refund) ==
    /\ refund.id = made + 1 /\ ~refund.into
    /\ refund.month \in Months /\ refund.amount \in Nat \ {0}

LEMMA RefundCounts ==
    ASSUME IInv, Books, NEW refund, IsNewRefund(refund)
    PROVE  LET after == transfers \union {refund}
           IN /\ Summable(after)
              /\ MonthsWithRecords(after) = MonthsWithRecords(transfers) \union {refund.month}
              /\ \A m \in Months :
                    /\ PaidBy(m, after) = PaidBy(m, transfers)
                    /\ Counted(m, after) =
                          IF m = refund.month THEN Counted(m, transfers) + refund.amount
                          ELSE Counted(m, transfers)
<1> DEFINE after == transfers \union {refund}
<1>1. refund \notin transfers /\ refund.amount \in Int
  BY TransfersSum DEF IsNewRefund
<1>2. Summable(after)
  BY <1>1, TransfersSum, FS_AddElement DEF Summable
<1>3. \A m : RefundsOf(m, after) = IF m = refund.month THEN RefundsOf(m, transfers) \union {refund}
                                   ELSE RefundsOf(m, transfers)
  BY DEF RefundsOf, IsNewRefund
<1>4. MonthsWithRecords(after) = MonthsWithRecords(transfers) \union {refund.month}
  <2>1. \A m : RefundsOf(m, after) # {} <=> RefundsOf(m, transfers) # {} \/ m = refund.month
    BY <1>3
  <2> HIDE DEF after
  <2> QED BY <2>1 DEF MonthsWithRecords, IsNewRefund
<1>5. ASSUME NEW m \in Months PROVE PaidBy(m, after) = PaidBy(m, transfers)
  <2>1. refund.id # statements[m].payment
    BY PaymentIsOld DEF IsNewRefund
  <2>2. {t \in after : t.id = statements[m].payment}
           = {t \in transfers : t.id = statements[m].payment}
    BY <2>1
  <2> HIDE DEF after
  <2> QED BY <2>2 DEF PaidBy
<1>6. ASSUME NEW m \in Months
      PROVE  Counted(m, after) =
                IF m = refund.month THEN Counted(m, transfers) + refund.amount
                ELSE Counted(m, transfers)
  <2>1. CASE m # refund.month
    BY <1>3, <2>1 DEF Counted
  <2>2. CASE m = refund.month
    <3>1. RefundsOf(m, transfers) \in SUBSET transfers
      BY DEF RefundsOf
    <3>2. Summable(RefundsOf(m, transfers)) /\ SumAmounts(RefundsOf(m, transfers)) \in Int
      BY <3>1, TransfersSum, Subsums
    <3>3. SumAmounts(RefundsOf(m, transfers) \union {refund})
             = SumAmounts(RefundsOf(m, transfers)) + refund.amount
      BY <1>1, <3>1, <3>2, AmountsOfOneMore DEF Summable
    <3>4. SumAmounts(RefundsOf(m, after)) = SumAmounts(RefundsOf(m, transfers)) + refund.amount
      BY <1>3, <2>2, <3>3
    <3>5. SumValues(Owed(m)) \in Int
      <4>1. ValuesInt
        BY DEF ValuesInt, IInv, TypeOK, Charge
      <4> QED BY <4>1, OwedFinite, ValuesSum DEF Books
    <3> HIDE DEF after
    <3> QED BY <1>1, <2>2, <3>2, <3>4, <3>5 DEF Counted
  <2> QED BY <2>1, <2>2
<1> QED BY <1>2, <1>4, <1>5, <1>6

\* On a month that both ledgers have started, they share the statement.
LEMMA StartedRow ==
    ASSUME NEW ts, NEW m \in 0..MaxMonth, Started(ts, m)
    PROVE  /\ m \in Months /\ m > 0 /\ m - 1 \in 0..MaxMonth
           /\ Walk(ts)[m] =
                 RowFrom(statements[m], Counted(m, ts), PaidBy(m, ts), Walk(ts)[m - 1].carried)
<1>1. m \in Months /\ m > 0 /\ m - 1 \in 0..MaxMonth
  BY ConstantsAssumption DEF Started, MonthsWithRecords, Months
<1> QED BY <1>1, WalkRows, RowIsFrom DEF RowAfter

LEMMA UnstartedRow ==
    ASSUME NEW ts, NEW m \in 0..MaxMonth, ~Started(ts, m)
    PROVE  Walk(ts)[m].due = 0 /\ Walk(ts)[m].carried = 0
  BY WalkRows DEF RowAfter, NoRow

LEMMA LaterRefund ==
    ASSUME IInv, Books, NEW refund, IsNewRefund(refund),
           \E f \in MonthsWithRecords(transfers) : f <= refund.month
    PROVE  \A m \in 0..MaxMonth :
              /\ Walk(transfers)[m].due <= Walk(transfers \union {refund})[m].due
              /\ Walk(transfers \union {refund})[m].carried <= Walk(transfers)[m].carried
<1> DEFINE after == transfers \union {refund}
           S == {m \in 0..MaxMonth :
                    /\ Walk(transfers)[m].due <= Walk(after)[m].due
                    /\ Walk(after)[m].carried <= Walk(transfers)[m].carried}
<1>1. /\ Summable(transfers) /\ Summable(after) /\ TypeOK /\ FewMade
      /\ MonthsWithRecords(after) = MonthsWithRecords(transfers) \union {refund.month}
      /\ \A m \in Months :
            /\ PaidBy(m, after) = PaidBy(m, transfers)
            /\ Counted(m, after) =
                  IF m = refund.month THEN Counted(m, transfers) + refund.amount
                  ELSE Counted(m, transfers)
  BY RefundCounts, TransfersSum DEF IInv, Books
<1> HIDE DEF after
<1>2. \A m \in 0..MaxMonth : Started(after, m) <=> Started(transfers, m)
  <2>1. \A f \in MonthsWithRecords(transfers) : f \in Int
    BY DEF MonthsWithRecords, Months
  <2>2. refund.month \in Int
    BY DEF IsNewRefund, Months
  <2> QED BY <1>1, <2>1, <2>2 DEF Started
<1>3. ASSUME NEW m \in 0..MaxMonth, m > 0 => m - 1 \in S PROVE m \in S
  <2>1. CASE ~Started(transfers, m)
    BY <1>2, <2>1, UnstartedRow
  <2>2. CASE Started(transfers, m)
    <3>1. /\ m \in Months /\ m > 0 /\ m - 1 \in 0..MaxMonth
          /\ Walk(transfers)[m] =
                RowFrom(statements[m], Counted(m, transfers), PaidBy(m, transfers),
                        Walk(transfers)[m - 1].carried)
          /\ Walk(after)[m] =
                RowFrom(statements[m], Counted(m, after), PaidBy(m, transfers),
                        Walk(after)[m - 1].carried)
      <4>1. /\ m \in Months /\ m > 0 /\ m - 1 \in 0..MaxMonth
            /\ Walk(transfers)[m] =
                  RowFrom(statements[m], Counted(m, transfers), PaidBy(m, transfers),
                          Walk(transfers)[m - 1].carried)
        BY <2>2, StartedRow
      <4>2. Walk(after)[m] =
               RowFrom(statements[m], Counted(m, after), PaidBy(m, after), Walk(after)[m - 1].carried)
        BY <1>2, <2>2, StartedRow
      <4> QED BY <1>1, <4>1, <4>2
    <3>2. /\ Counted(m, transfers) \in Int /\ Counted(m, after) \in Int
          /\ PaidBy(m, transfers) \in Int
      BY <1>1, CountedInt
    <3>3. Counted(m, transfers) <= Counted(m, after)
      BY <1>1, <3>1, <3>2 DEF IsNewRefund
    <3>4. Walk(transfers)[m - 1].carried \in Nat /\ Walk(after)[m - 1].carried \in Nat
      BY <1>1, <3>1, RowsType
    <3>5. Walk(after)[m - 1].carried <= Walk(transfers)[m - 1].carried
      BY <1>3, <3>1
    <3>6. /\ RowFrom(statements[m], Counted(m, transfers), PaidBy(m, transfers),
                     Walk(transfers)[m - 1].carried).due
               <= RowFrom(statements[m], Counted(m, after), PaidBy(m, transfers),
                          Walk(after)[m - 1].carried).due
          /\ RowFrom(statements[m], Counted(m, after), PaidBy(m, transfers),
                     Walk(after)[m - 1].carried).carried
               <= RowFrom(statements[m], Counted(m, transfers), PaidBy(m, transfers),
                          Walk(transfers)[m - 1].carried).carried
      BY <3>2, <3>3, <3>4, <3>5, RowMonotone
    <3> QED BY <3>1, <3>6
  <2> QED BY <2>1, <2>2
<1> HIDE DEF S
<1>4. 0..MaxMonth \subseteq S
  BY <1>3, MonthInduction
<1> QED BY <1>4 DEF S, after

LEMMA EarlyRefund ==
    ASSUME IInv, Books, NEW refund, IsNewRefund(refund),
           \A f \in MonthsWithRecords(transfers) : refund.month < f
    PROVE  \A m \in 0..MaxMonth :
              Walk(transfers)[m].carried <= Walk(transfers \union {refund})[m].carried
<1> DEFINE after == transfers \union {refund}
           S == {m \in 0..MaxMonth : Walk(transfers)[m].carried <= Walk(after)[m].carried}
<1>1. /\ Summable(transfers) /\ Summable(after) /\ TypeOK /\ FewMade
      /\ MonthsWithRecords(after) = MonthsWithRecords(transfers) \union {refund.month}
      /\ \A m \in Months :
            /\ PaidBy(m, after) = PaidBy(m, transfers)
            /\ Counted(m, after) =
                  IF m = refund.month THEN Counted(m, transfers) + refund.amount
                  ELSE Counted(m, transfers)
  BY RefundCounts, TransfersSum DEF IInv, Books
<1> HIDE DEF after
<1>2. ASSUME NEW m \in 0..MaxMonth, Started(transfers, m)
      PROVE  Started(after, m) /\ m # refund.month
  <2>1. PICK f \in MonthsWithRecords(transfers) : ~(m < f)
    BY <1>2 DEF Started
  <2>2. f \in Int /\ refund.month \in Int /\ refund.month < f /\ f \in MonthsWithRecords(after)
    BY <1>1 DEF MonthsWithRecords, Months, IsNewRefund
  <2> QED BY <2>1, <2>2 DEF Started
<1>3. ASSUME NEW m \in 0..MaxMonth, m > 0 => m - 1 \in S PROVE m \in S
  <2>1. CASE ~Started(transfers, m)
    <3>1. Walk(transfers)[m].carried = 0
      BY <2>1, UnstartedRow
    <3>2. Walk(after)[m].carried \in Nat
      BY <1>1, RowsType
    <3> QED BY <3>1, <3>2
  <2>2. CASE Started(transfers, m)
    <3>1. /\ m \in Months /\ m > 0 /\ m - 1 \in 0..MaxMonth
          /\ Walk(transfers)[m] =
                RowFrom(statements[m], Counted(m, transfers), PaidBy(m, transfers),
                        Walk(transfers)[m - 1].carried)
      BY <2>2, StartedRow
    <3>2. Walk(after)[m] =
             RowFrom(statements[m], Counted(m, transfers), PaidBy(m, transfers),
                     Walk(after)[m - 1].carried)
      <4>1. Walk(after)[m] =
               RowFrom(statements[m], Counted(m, after), PaidBy(m, after), Walk(after)[m - 1].carried)
        BY <1>2, <2>2, StartedRow
      <4>2. Counted(m, after) = Counted(m, transfers) /\ PaidBy(m, after) = PaidBy(m, transfers)
        BY <1>1, <1>2, <2>2, <3>1
      <4> QED BY <4>1, <4>2
    <3>3. Counted(m, transfers) \in Int /\ PaidBy(m, transfers) \in Int
      BY <1>1, CountedInt
    <3>4. Walk(transfers)[m - 1].carried \in Nat /\ Walk(after)[m - 1].carried \in Nat
      BY <1>1, <3>1, RowsType
    <3>5. Walk(transfers)[m - 1].carried <= Walk(after)[m - 1].carried
      BY <1>3, <3>1
    <3>6. Counted(m, transfers) <= Counted(m, transfers)
      BY <3>3
    <3>7. RowFrom(statements[m], Counted(m, transfers), PaidBy(m, transfers),
                  Walk(transfers)[m - 1].carried).carried
            <= RowFrom(statements[m], Counted(m, transfers), PaidBy(m, transfers),
                       Walk(after)[m - 1].carried).carried
      BY <3>3, <3>4, <3>5, <3>6, RowMonotone
    <3> QED BY <3>1, <3>2, <3>7
  <2> QED BY <2>1, <2>2
<1> HIDE DEF S
<1>4. 0..MaxMonth \subseteq S
  BY <1>3, MonthInduction
<1> QED BY <1>4 DEF S, after

LEMMA RefundKeepsDues ==
    ASSUME IInv, Books, NEW refund, IsNewRefund(refund), RefundKeepsAmountsToPay(refund)
    PROVE  \A m \in Months : Walk(transfers \union {refund})[m].due = Walk(transfers)[m].due
<1> DEFINE after == transfers \union {refund}
           last == LastRow(after, refund.month)
<1>1. /\ Summable(transfers) /\ Summable(after) /\ TypeOK /\ FewMade
      /\ MonthsWithRecords(after) = MonthsWithRecords(transfers) \union {refund.month}
  BY RefundCounts, TransfersSum DEF IInv, Books
<1>2. /\ \A m \in 1..last : Walk(after)[m].due <= Walk(transfers)[m].due
      /\ Walk(after)[last].carried =
            (IF MonthsWithRecords(transfers) = {} THEN 0
             ELSE Walk(transfers)[LastRow(transfers, refund.month)].carried) - refund.amount
  BY DEF RefundKeepsAmountsToPay
<1>3. LastRow(transfers, refund.month) = last
  <2>1. MonthsWithRecords(after) \union {refund.month}
           = MonthsWithRecords(transfers) \union {refund.month}
    BY <1>1
  <2> QED BY <2>1 DEF LastRow
<1>4. /\ last \in Months
      /\ \A n \in MonthsWithRecords(after) : n <= last
  <2>1. refund.month \in Months
    BY DEF IsNewRefund
  <2>2. /\ last \in MonthsWithRecords(after) \union {refund.month}
        /\ \A n \in MonthsWithRecords(after) \union {refund.month} : n <= last
    <3> HIDE DEF after
    <3> QED BY <2>1, LastRowIs
  <2> QED BY <2>1, <2>2 DEF MonthsWithRecords
<1> HIDE DEF after, last
<1>5. last \in 0..MaxMonth /\ refund.amount \in Nat \ {0}
  BY <1>4 DEF Months, IsNewRefund
<1>6. \A m \in 0..MaxMonth :
         /\ Walk(after)[m].due \in Nat /\ Walk(after)[m].carried \in Nat
         /\ Walk(transfers)[m].due \in Nat /\ Walk(transfers)[m].carried \in Nat
  BY <1>1, RowsType
<1>7. \E f \in MonthsWithRecords(transfers) : f <= refund.month
  <2> SUFFICES ASSUME \A f \in MonthsWithRecords(transfers) : ~(f <= refund.month) PROVE FALSE
    OBVIOUS
  <2>1. \A f \in MonthsWithRecords(transfers) : refund.month < f
    BY DEF MonthsWithRecords, Months, IsNewRefund
  <2>2. Walk(transfers)[last].carried <= Walk(after)[last].carried
    BY <1>5, <2>1, EarlyRefund DEF after
  <2> QED BY <1>2, <1>3, <1>5, <1>6, <2>2
<1>8. \A m \in 0..MaxMonth : Walk(transfers)[m].due <= Walk(after)[m].due
  BY <1>7, LaterRefund DEF after
<1>9. ASSUME NEW m \in Months PROVE Walk(after)[m].due = Walk(transfers)[m].due
  <2>1. m \in 0..MaxMonth /\ m \in Nat /\ m > 0 /\ last \in Nat
    BY <1>5 DEF Months
  <2>2. CASE m <= last
    <3>1. Walk(after)[m].due <= Walk(transfers)[m].due
      BY <1>2, <2>1, <2>2
    <3> QED BY <1>6, <1>8, <2>1, <3>1
  <2>3. CASE ~(m <= last)
    <3>1. m \notin MonthsWithRecords(after) /\ m \notin MonthsWithRecords(transfers)
      BY <1>1, <1>4, <2>3
    <3>2. ~(Walk(after)[m].due > 0) /\ ~(Walk(transfers)[m].due > 0)
      BY <1>1, <3>1, DueNeedsRecords
    <3> QED BY <1>6, <2>1, <3>2
  <2> QED BY <2>2, <2>3
<1> QED BY <1>9 DEF after

----------------------------------------------------------------------------
(* A payment covers exactly what its month has to pay: nothing is carried out  *)
(* of the month before it and nothing after it, so the later rows stay.        *)

LEMMA PaidRow ==
    ASSUME NEW before, ~before.paid, NEW after, after.paid, after.payment # 0,
           NEW counted \in Int, NEW paid \in Int, NEW creditIn \in Nat,
           NEW amount \in Nat \ {0}, amount = RowFrom(before, counted, paid, creditIn).due
    PROVE  /\ RowFrom(after, counted, amount, creditIn).due = 0
           /\ RowFrom(after, counted, amount, creditIn).carried
                = RowFrom(before, counted, paid, creditIn).carried
<1>1. RowFrom(before, counted, paid, creditIn) =
         [due |-> AtLeastZero(counted - creditIn), carried |-> AtLeastZero(-(counted - creditIn))]
  BY DEF RowFrom
<1>2. amount = counted - creditIn
  BY <1>1 DEF AtLeastZero
<1>3. RowFrom(after, counted, amount, creditIn) =
         [due |-> 0, carried |-> AtLeastZero(creditIn + amount - counted)]
  BY DEF RowFrom
<1> QED BY <1>1, <1>2, <1>3 DEF AtLeastZero

\* A payment of what its month has to pay, for the statement of that month.
IsPayment(m, payment) ==
    /\ payment.id = made + 1 /\ payment.into /\ payment.amount \in Nat \ {0}
    /\ payment.amount = AmountToPay(m) /\ ~statements[m].paid
    /\ transfers' = transfers \union {payment}
    /\ statements'[m].paid /\ statements'[m].payment = made + 1
    /\ \A n \in Months \ {m} : statements'[n] = statements[n]
    /\ charges' = charges

LEMMA PaymentCounts ==
    ASSUME IInv, Books, NEW pm \in Months, NEW payment, IsPayment(pm, payment),
           NEW after, after = transfers \union {payment}
    PROVE  /\ \A m \in 0..MaxMonth : Started(after, m)' <=> Started(transfers, m)
           /\ \A m \in Months : Counted(m, after)' = Counted(m, transfers)
           /\ \A m \in Months \ {pm} : PaidBy(m, after)' = PaidBy(m, transfers)
           /\ PaidBy(pm, after)' = payment.amount
<1>1. \A m : RefundsOf(m, after) = RefundsOf(m, transfers)
  BY DEF RefundsOf, IsPayment
<1>2. MonthsWithRecords(after) = MonthsWithRecords(transfers)
  BY <1>1 DEF MonthsWithRecords
<1>3. \A m \in 0..MaxMonth : Started(after, m)' <=> Started(transfers, m)
  <2>1. \A m \in 0..MaxMonth : Started(after, m)' <=> Started(after, m)
    BY StartedKept DEF IsPayment
  <2> QED BY <1>2, <2>1 DEF Started
<1>4. ASSUME NEW m \in Months PROVE Counted(m, after)' = Counted(m, transfers)
  <2>1. Counted(m, after)' = Counted(m, after)
    BY CountedKept DEF IsPayment, Books
  <2>2. Counted(m, after) = Counted(m, transfers)
    BY <1>1 DEF Counted
  <2> QED BY <2>1, <2>2
<1>5. ASSUME NEW m \in Months \ {pm} PROVE PaidBy(m, after)' = PaidBy(m, transfers)
  <2>1. statements'[m].payment = statements[m].payment /\ statements[m].payment # made + 1
    BY PaymentIsOld DEF IsPayment
  <2>2. {t \in after : t.id = statements'[m].payment}
           = {t \in transfers : t.id = statements[m].payment}
    BY <2>1 DEF IsPayment
  <2> QED BY <2>2 DEF PaidBy
<1>6. PaidBy(pm, after)' = payment.amount
  <2>1. \A t \in transfers : t.id # made + 1
    BY TransfersSum
  <2>2. {t \in after : t.id = statements'[pm].payment} = {} \union {payment}
    BY <2>1 DEF IsPayment
  <2>3. payment.amount \in Int /\ IsFiniteSet({})
    BY FS_EmptySet DEF IsPayment
  <2>4. SumAmounts({} \union {payment}) = SumAmounts({}) + payment.amount
    BY <2>3, AmountsOfOneMore
  <2>5. SumAmounts({} \union {payment}) = payment.amount
    BY <2>3, <2>4, AmountsOfNone
  <2> QED BY <2>2, <2>5 DEF PaidBy
<1> QED BY <1>3, <1>4, <1>5, <1>6

LEMMA PaymentKeepsDues ==
    ASSUME IInv, Books, NEW pm \in Months, NEW payment, IsPayment(pm, payment)
    PROVE  \A m \in Months : AmountToPay(m)' = IF m = pm THEN 0 ELSE AmountToPay(m)
<1>1. PICK after : after = transfers \union {payment}
  OBVIOUS
<1> DEFINE Good(m) ==
               /\ Walk(after)'[m].due = IF m = pm THEN 0 ELSE Walk(transfers)[m].due
               /\ Walk(after)'[m].carried = Walk(transfers)[m].carried
           S == {m \in 0..MaxMonth : Good(m)}
<1>2. /\ \A m \in 0..MaxMonth : Started(after, m)' <=> Started(transfers, m)
      /\ \A m \in Months : Counted(m, after)' = Counted(m, transfers)
      /\ \A m \in Months \ {pm} : PaidBy(m, after)' = PaidBy(m, transfers)
      /\ PaidBy(pm, after)' = payment.amount
  BY <1>1, PaymentCounts
<1>3. /\ TypeOK /\ FewMade /\ Summable(transfers)
      /\ payment.amount \in Nat \ {0} /\ payment.amount = Walk(transfers)[pm].due
  BY TransfersSum DEF IInv, Books, IsPayment, AmountToPay
<1>4. ASSUME NEW m \in 0..MaxMonth, m > 0 => m - 1 \in S PROVE Good(m)
  <2>1. Walk(after)'[m] = RowAfter(after, Walk(after), m)'
    BY WalkRowsNext
  <2>2. CASE ~Started(transfers, m)
    <3>1. Walk(transfers)[m].due = 0 /\ Walk(transfers)[m].carried = 0
      BY <2>2, UnstartedRow
    <3>2. Walk(after)'[m].due = 0 /\ Walk(after)'[m].carried = 0
      BY <1>2, <2>1, <2>2 DEF RowAfter, NoRow
    <3> QED BY <3>1, <3>2
  <2>3. CASE Started(transfers, m)
    <3>1. /\ m \in Months /\ m > 0 /\ m - 1 \in 0..MaxMonth
          /\ Walk(transfers)[m] =
                RowFrom(statements[m], Counted(m, transfers), PaidBy(m, transfers),
                        Walk(transfers)[m - 1].carried)
      BY <2>3, StartedRow
    <3>2. PICK creditIn : creditIn = Walk(transfers)[m - 1].carried
      OBVIOUS
    <3>3. creditIn \in Nat /\ creditIn = Walk(after)'[m - 1].carried
      BY <1>3, <1>4, <3>1, <3>2, RowsType
    <3>4. Walk(after)'[m] = MonthRow(m, after, creditIn)'
      BY <1>2, <2>1, <2>3, <3>3 DEF RowAfter
    <3>5. Walk(after)'[m] =
             RowFrom(statements'[m], Counted(m, after)', PaidBy(m, after)', creditIn)
      BY <3>4, RowIsFromNext
    <3>6. Walk(after)'[m] =
             RowFrom(statements'[m], Counted(m, transfers), PaidBy(m, after)', creditIn)
      BY <1>2, <3>1, <3>5
    <3>7. Counted(m, transfers) \in Int /\ PaidBy(m, transfers) \in Int
      BY <1>3, CountedInt
    <3>8. CASE m = pm
      <4>1. /\ ~statements[m].paid /\ statements'[m].paid /\ statements'[m].payment # 0
            /\ payment.amount \in Nat \ {0}
            /\ payment.amount = RowFrom(statements[m], Counted(m, transfers),
                                        PaidBy(m, transfers), creditIn).due
        BY <1>3, <3>1, <3>2, <3>8, TransfersSum DEF IsPayment
      <4>2. /\ RowFrom(statements'[m], Counted(m, transfers), payment.amount, creditIn).due = 0
            /\ RowFrom(statements'[m], Counted(m, transfers), payment.amount, creditIn).carried
                 = RowFrom(statements[m], Counted(m, transfers), PaidBy(m, transfers), creditIn).carried
        BY <3>3, <3>7, <4>1, PaidRow
      <4> QED BY <1>2, <3>1, <3>2, <3>6, <3>8, <4>2
    <3>9. CASE m # pm
      <4>1. statements'[m] = statements[m] /\ PaidBy(m, after)' = PaidBy(m, transfers)
        BY <1>2, <3>1, <3>9 DEF IsPayment
      <4> QED BY <3>1, <3>2, <3>6, <3>9, <4>1
    <3> QED BY <3>8, <3>9
  <2> QED BY <2>2, <2>3
<1> HIDE DEF Good
<1>5. \A m \in 0..MaxMonth : (m > 0 => m - 1 \in S) => m \in S
  BY <1>4
<1> HIDE DEF S
<1>6. 0..MaxMonth \subseteq S
  BY <1>5, MonthInduction
<1>7. ASSUME NEW m \in Months PROVE AmountToPay(m)' = IF m = pm THEN 0 ELSE AmountToPay(m)
  <2>1. m \in 0..MaxMonth
    BY DEF Months
  <2>2. Good(m)
    BY <1>6, <2>1 DEF S
  <2>3. transfers' = after
    BY <1>1 DEF IsPayment
  <2>4. AmountToPay(m)' = Walk(after)'[m].due
    BY <2>3 DEF AmountToPay
  <2> QED BY <2>2, <2>4 DEF AmountToPay, Good
<1> QED BY <1>7

\* It takes its amount off what is owed.
LEMMA PaymentTakesItsAmount ==
    ASSUME IInv, Books, NEW pm \in Months, NEW payment, IsPayment(pm, payment)
    PROVE  TotalOwed' = TotalOwed - payment.amount
<1> DEFINE all == UNION {Owed(m) : m \in Months}
           out == {t \in transfers : ~t.into}
           into == {t \in transfers : t.into}
<1>1. PICK cs : cs = all
  OBVIOUS
<1>2. IsFiniteSet(cs) /\ cs \in SUBSET Charges
  <2>1. all \subseteq {c \in Charges : charges[c].is # "unborn"}
    BY DEF Owed, OnMonth
  <2> HIDE DEF all
  <2> QED BY <1>1, <2>1, FS_Subset DEF Books, FewMade
<1>3. cs = all'
  <2>1. \A m \in Months : Owed(m)' = Owed(m)
    BY DEF Owed, OnMonth, IsPayment
  <2> QED BY <1>1, <2>1
<1>4. SumValues(cs) \in Int /\ SumValues(cs)' = SumValues(cs)
  <2>1. ValuesInt
    BY DEF ValuesInt, IInv, TypeOK, Charge
  <2> QED BY <1>2, <2>1, ValuesSum, ValuesKept DEF IsPayment
<1>5. /\ {t \in transfers' : ~t.into} = out
      /\ {t \in transfers' : t.into} = into \union {payment}
      /\ payment \notin into
  BY TransfersSum DEF IsPayment
<1>6. SumAmounts(out) \in Int /\ Summable(into) /\ SumAmounts(into) \in Int
  <2>1. out \in SUBSET transfers /\ into \in SUBSET transfers
    OBVIOUS
  <2> HIDE DEF out, into
  <2> QED BY <2>1, TransfersSum, Subsums
<1>7. payment.amount \in Int
  BY DEF IsPayment
<1> HIDE DEF into, out
<1>8. SumAmounts(into \union {payment}) = SumAmounts(into) + payment.amount
  BY <1>5, <1>6, <1>7, AmountsOfOneMore DEF Summable
<1>9. TotalOwed = SumValues(cs) + SumAmounts(out) - SumAmounts(into)
  BY <1>1 DEF TotalOwed, into, out
<1>10. TotalOwed' = SumValues(cs)' + SumAmounts(out) - SumAmounts(into \union {payment})
  BY <1>3, <1>5 DEF TotalOwed
<1> QED BY <1>4, <1>6, <1>7, <1>8, <1>9, <1>10

----------------------------------------------------------------------------
(* What a payment and a refund were validated for is still so when they are    *)
(* carried out before any other request changes the book.                     *)

RefundIn(m, amount) == [id |-> made + 1, into |-> FALSE, month |-> m, amount |-> amount]

Priced(r) ==
    /\ r.op = "pay" => r.amount = AmountToPay(r.month)
    /\ r.op = "refund" => RefundKeepsAmountsToPay(RefundIn(r.month, r.amount))

FreshArePriced == \A k \in Clients \ stale : Priced(open[k])

LEMMA LedgerKept ==
    ASSUME FewMade, UNCHANGED book
    PROVE  /\ \A m \in Months : AmountToPay(m)' = AmountToPay(m)
           /\ \A refund : refund.month \in Months /\ RefundKeepsAmountsToPay(refund)
                 => RefundKeepsAmountsToPay(refund)'
<1>1. UNCHANGED <<charges, statements, transfers, made>>
  BY DEF book
<1>2. \A ts : \A m \in 0..MaxMonth : Walk(ts)'[m] = Walk(ts)[m]
  BY <1>1, WalkKept
<1>3. PICK before : before = transfers /\ before = transfers'
  BY <1>1
<1>4. ASSUME NEW m \in Months PROVE AmountToPay(m)' = AmountToPay(m)
  <2>1. m \in 0..MaxMonth
    BY DEF Months
  <2>2. Walk(before)'[m] = Walk(before)[m]
    BY <1>2, <2>1
  <2> QED BY <1>3, <2>2 DEF AmountToPay
<1>5. ASSUME NEW refund, refund.month \in Months, RefundKeepsAmountsToPay(refund)
      PROVE  RefundKeepsAmountsToPay(refund)'
  <2>1. PICK after : after = before \union {refund}
    OBVIOUS
  <2>2. PICK last : last = LastRow(after, refund.month)
    OBVIOUS
  <2>3. PICK prior : prior = LastRow(before, refund.month)
    OBVIOUS
  <2>4. /\ MonthsWithRecords(after)' = MonthsWithRecords(after)
        /\ MonthsWithRecords(before)' = MonthsWithRecords(before)
    BY <1>1, StartedKept
  <2>5. last = LastRow(after, refund.month)' /\ prior = LastRow(before, refund.month)'
    BY <2>2, <2>3, <2>4 DEF LastRow
  <2>6. last \in 0..MaxMonth /\ prior \in 0..MaxMonth /\ 1..last \subseteq 0..MaxMonth
    <3>1. last \in Months /\ prior \in Months
      BY <1>5, <2>2, <2>3, LastRowIs DEF MonthsWithRecords
    <3>2. last \in 1..MaxMonth /\ prior \in 1..MaxMonth
      BY <3>1 DEF Months
    <3> QED BY <3>2, ConstantsAssumption
  <2>7. /\ \A m \in 1..last : Walk(after)[m].due <= Walk(before)[m].due
        /\ Walk(after)[last].carried =
              (IF MonthsWithRecords(before) = {} THEN 0 ELSE Walk(before)[prior].carried)
                - refund.amount
    BY <1>3, <1>5, <2>1, <2>2, <2>3 DEF RefundKeepsAmountsToPay
  <2>8. /\ \A m \in 1..last : Walk(after)'[m].due <= Walk(before)'[m].due
        /\ Walk(after)'[last].carried =
              (IF MonthsWithRecords(before)' = {} THEN 0 ELSE Walk(before)'[prior].carried)
                - refund.amount
    <3>1. /\ \A m \in 1..last : Walk(after)'[m] = Walk(after)[m] /\ Walk(before)'[m] = Walk(before)[m]
          /\ Walk(after)'[last] = Walk(after)[last] /\ Walk(before)'[prior] = Walk(before)[prior]
      BY <1>2, <2>6
    <3> QED BY <2>4, <2>7, <3>1
  <2> QED BY <1>3, <2>1, <2>5, <2>8 DEF RefundKeepsAmountsToPay
<1> QED BY <1>4, <1>5

LEMMA PricedStays ==
    ASSUME FewMade, UNCHANGED book
    PROVE  \A r \in Request : Priced(r) => Priced(r)'
<1> SUFFICES ASSUME NEW r \in Request, Priced(r) PROVE Priced(r)'
  OBVIOUS
<1>1. CASE r.op = "pay"
  <2>1. r.month \in Months
    BY <1>1, RequestFields
  <2> QED BY <1>1, <2>1, LedgerKept DEF Priced
<1>2. CASE r.op = "refund"
  <2>1. PICK refund : refund = RefundIn(r.month, r.amount)
    OBVIOUS
  <2>2. refund = RefundIn(r.month, r.amount)'
    BY <2>1 DEF RefundIn, book
  <2>3. refund.month \in Months
    BY <1>2, <2>1, RequestFields DEF RefundIn
  <2>4. RefundKeepsAmountsToPay(refund)
    BY <1>2, <2>1 DEF Priced
  <2>5. RefundKeepsAmountsToPay(refund)'
    BY <2>3, <2>4, LedgerKept
  <2> QED BY <1>2, <2>2, <2>5 DEF Priced
<1>3. CASE r.op \notin {"pay", "refund"}
  BY <1>3 DEF Priced
<1> QED BY <1>1, <1>2, <1>3

LEMMA PricedInit == Init => FreshArePriced
  BY DEF Init, FreshArePriced, Priced, Idle

LEMMA PricedHold ==
    ASSUME TypeOK, FewMade, FreshArePriced, NEW k \in Clients, NEW r \in Request, Priced(r),
           Hold(k, r)
    PROVE  FreshArePriced'
<1>1. UNCHANGED book
  BY DEF Hold
<1>2. ASSUME NEW j \in Clients \ stale' PROVE Priced(open[j])'
  <2>1. PICK q \in Request : q = open'[j] /\ Priced(q)
    <3>1. CASE j = k
      BY <3>1 DEF Hold, TypeOK
    <3>2. CASE j # k
      BY <1>2, <3>2 DEF Hold, TypeOK, FreshArePriced
    <3> QED BY <3>1, <3>2
  <2>2. Priced(q)'
    BY <1>1, <2>1, PricedStays
  <2> QED BY <2>1, <2>2
<1> QED BY <1>2 DEF FreshArePriced

LEMMA PricedValidate ==
    ASSUME TypeOK, FewMade, FreshArePriced, NEW k \in Clients, Validate(k)
    PROVE  FreshArePriced'
<1> DEFINE HoldsPriced == \E r : Hold(k, r) /\ Priced(r)
<1>1. HoldsPriced
  <2>1. ASSUME NEW c \in Charges, NEW m \in Months, NEW v \in Values,
               ValidateAdd(k, c, m, v) \/ ValidateUpdate(k, c, m, v)
        PROVE  HoldsPriced
    <3>1. /\ Priced([op |-> "add", charge |-> c, month |-> m, value |-> v])
          /\ Priced([op |-> "update", charge |-> c, month |-> m, value |-> v])
      BY DEF Priced
    <3> QED BY <2>1, <3>1 DEF ValidateAdd, ValidateUpdate
  <2>2. ASSUME NEW c \in Charges, ValidateDelete(k, c) \/ \E m \in Months : ValidateMove(k, c, m)
        PROVE  HoldsPriced
    <3>1. /\ Priced([op |-> "delete", charge |-> c])
          /\ \A m : Priced([op |-> "move", charge |-> c, month |-> m])
      BY DEF Priced
    <3> QED BY <2>2, <3>1 DEF ValidateDelete, ValidateMove
  <2>3. ASSUME NEW m \in Months, ValidatePay(k, m)
        PROVE  HoldsPriced
    <3>1. Priced([op |-> "pay", month |-> m, amount |-> AmountToPay(m)])
      BY DEF Priced
    <3> QED BY <2>3, <3>1 DEF ValidatePay
  <2>4. ASSUME NEW m \in Months, ValidateUnpay(k, m) \/ ValidateUnsettle(k, m)
        PROVE  HoldsPriced
    <3>1. Priced([op |-> "unpay", month |-> m, transfer |-> statements[m].payment])
      BY DEF Priced
    <3>2. Priced([op |-> "unsettle", month |-> m,
                  settled |-> {c \in OnMonth(m) : charges[c].is = "settled"}])
      BY DEF Priced
    <3> QED BY <2>4, <3>1, <3>2 DEF ValidateUnpay, ValidateUnsettle
  <2>5. ASSUME NEW m \in Months, NEW amount \in 1..MaxRefund, ValidateRefund(k, m, amount)
        PROVE  HoldsPriced
    <3>1. Priced([op |-> "refund", month |-> m, amount |-> amount])
      BY <2>5 DEF ValidateRefund, Priced, RefundIn
    <3> QED BY <2>5, <3>1 DEF ValidateRefund
  <2>6. ASSUME NEW t \in transfers, ValidateUnrefund(k, t)
        PROVE  HoldsPriced
    <3>1. Priced([op |-> "unrefund", transfer |-> t.id])
      BY DEF Priced
    <3> QED BY <2>6, <3>1 DEF ValidateUnrefund
  <2> HIDE DEF HoldsPriced
  <2> QED BY <2>1, <2>2, <2>3, <2>4, <2>5, <2>6 DEF Validate
<1>2. PICK r : Hold(k, r) /\ Priced(r)
  BY <1>1
<1>3. r \in Request
  <2>1. TypeOK' /\ open' = [open EXCEPT ![k] = r]
    BY <1>2, ValidateType DEF Hold
  <2>2. open'[k] = r
    BY <2>1 DEF TypeOK
  <2> QED BY <2>1, <2>2 DEF TypeOK
<1> QED BY <1>2, <1>3, PricedHold

LEMMA PricedStep == TypeOK /\ FewMade /\ FreshArePriced /\ [Next]_vars => FreshArePriced'
<1> SUFFICES ASSUME TypeOK, FewMade, FreshArePriced, [Next]_vars PROVE FreshArePriced'
  OBVIOUS
<1>1. ASSUME NEW k \in Clients, Apply(k) PROVE FreshArePriced'
  <2> SUFFICES ASSUME NEW j \in Clients \ stale' PROVE Priced(open[j])'
    BY DEF FreshArePriced
  <2>1. open'[j] = Idle
    BY <1>1, ApplyAnswers DEF Answer, TypeOK
  <2> QED BY <2>1 DEF Priced, Idle
<1>2. ASSUME UNCHANGED book,
             \A j \in Clients \ stale' :
                 open'[j] = Idle \/ (open'[j] = open[j] /\ j \notin stale)
      PROVE  FreshArePriced'
  <2> SUFFICES ASSUME NEW j \in Clients \ stale' PROVE Priced(open[j])'
    BY DEF FreshArePriced
  <2>1. CASE open'[j] = Idle
    BY <2>1 DEF Priced, Idle
  <2>2. CASE open'[j] = open[j] /\ j \notin stale
    <3>1. PICK q \in Request : q = open[j] /\ Priced(q)
      BY <2>2 DEF FreshArePriced, TypeOK
    <3>2. Priced(q)'
      BY <1>2, <3>1, PricedStays
    <3> QED BY <2>2, <3>1, <3>2
  <2> QED BY <1>2, <2>1, <2>2
<1>3. ASSUME NEW k \in Clients, Refused(k) PROVE FreshArePriced'
  BY <1>2, <1>3 DEF Refused, TypeOK
<1>4. CASE UNCHANGED vars
  BY <1>2, <1>4 DEF vars
<1> QED BY <1>1, <1>3, <1>4, PricedValidate DEF Next

LEMMA PayMoves ==
    ASSUME IInv, Books, FreshArePriced, NEW k \in Clients, ~raced', MarkStatementPaid(k)
    PROVE  /\ \A m \in Months :
                 AmountToPay(m)' = IF m = open[k].month THEN 0 ELSE AmountToPay(m)
           /\ TotalOwed' = TotalOwed - AmountToPay(open[k].month)
<1>1. Answer(k) /\ open[k].op = "pay" /\ k \notin stale
  BY DEF MarkStatementPaid, Answer
<1>2. /\ open[k] \in Request /\ open[k].month \in Months /\ open[k].amount \in Nat \ {0}
      /\ ~statements[open[k].month].paid /\ open[k].amount = AmountToPay(open[k].month)
  BY <1>1, RequestFields DEF IInv, TypeOK, Requests, Fresh, FreshArePriced, Priced
<1>3. PICK pm \in Months : pm = open[k].month
  BY <1>2
<1>4. PICK payment : payment = [id |-> made + 1, into |-> TRUE, month |-> pm,
                                amount |-> open[k].amount]
  OBVIOUS
<1>5. payment.id = made + 1 /\ payment.into /\ payment.amount = open[k].amount
  BY <1>4
<1>6. /\ transfers' = transfers \union {payment} /\ charges' = charges
      /\ made + 1 \in 0..MaxTransfers
      /\ statements' = [statements EXCEPT ![pm].paid = TRUE, ![pm].payment = made + 1]
  BY <1>3, <1>4, ConstantsAssumption DEF MarkStatementPaid, MakeTransfer, IInv, TypeOK
<1>7. /\ statements'[pm].paid = TRUE /\ statements'[pm].payment = made + 1
      /\ \A n \in Months \ {pm} : statements'[n] = statements[n]
  BY <1>6, PaidAndPayment DEF IInv
<1>8. IsPayment(pm, payment)
  BY <1>2, <1>3, <1>5, <1>6, <1>7 DEF IsPayment
<1>9. /\ \A m \in Months : AmountToPay(m)' = IF m = pm THEN 0 ELSE AmountToPay(m)
      /\ TotalOwed' = TotalOwed - payment.amount
  BY <1>8, PaymentKeepsDues, PaymentTakesItsAmount
<1> QED BY <1>2, <1>3, <1>5, <1>9

LEMMA RefundMoves ==
    ASSUME IInv, Books, FreshArePriced, NEW k \in Clients, ~raced', AddCreditRefund(k)
    PROVE  \A m \in Months : AmountToPay(m)' = AmountToPay(m)
<1>1. Answer(k) /\ open[k].op = "refund" /\ k \notin stale
  BY DEF AddCreditRefund, Answer
<1>2. /\ open[k] \in Request /\ open[k].month \in Months /\ open[k].amount \in Nat \ {0}
      /\ RefundKeepsAmountsToPay(RefundIn(open[k].month, open[k].amount))
  BY <1>1, RequestFields DEF IInv, TypeOK, FreshArePriced, Priced
<1>3. PICK refund : refund = RefundIn(open[k].month, open[k].amount)
  OBVIOUS
<1>4. IsNewRefund(refund) /\ RefundKeepsAmountsToPay(refund)
  BY <1>2, <1>3 DEF IsNewRefund, RefundIn
<1>5. PICK after : after = transfers \union {refund}
  OBVIOUS
<1>6. after = transfers' /\ charges' = charges /\ statements' = WithStatement(open[k].month)
  BY <1>3, <1>5 DEF AddCreditRefund, MakeTransfer, RefundIn
<1>7. SamePayments
  BY <1>2, <1>6, WithStatementKeeps DEF IInv
<1>8. \A m \in 0..MaxMonth : Walk(after)'[m] = Walk(after)[m]
  BY <1>6, <1>7, WalkKept DEF SamePayments, Books
<1>9. ASSUME NEW m \in Months PROVE AmountToPay(m)' = AmountToPay(m)
  <2>1. Walk(after)[m].due = Walk(transfers)[m].due
    BY <1>4, <1>5, RefundKeepsDues
  <2>2. m \in 0..MaxMonth
    BY DEF Months
  <2>3. Walk(after)'[m] = Walk(after)[m]
    BY <1>8, <2>2
  <2>4. AmountToPay(m)' = Walk(after)'[m].due
    BY <1>6 DEF AmountToPay
  <2> QED BY <2>1, <2>3, <2>4 DEF AmountToPay
<1> QED BY <1>9

\* Paying a statement clears its amount to pay, leaves every other month's, and takes
\* exactly that amount off what the card is owed; a credit refund changes no month's
\* amount to pay: unless a request is carried out on what another has changed.
THEOREM MoneyMovesOnlyItsAmount == Spec => MoneyMovesItsAmountOnly
<1> DEFINE Moves ==
        \A k \in Clients : ~raced' =>
            /\ MarkStatementPaid(k) =>
                  /\ \A m \in Months :
                        AmountToPay(m)' = IF m = open[k].month THEN 0 ELSE AmountToPay(m)
                  /\ TotalOwed' = TotalOwed - AmountToPay(open[k].month)
            /\ AddCreditRefund(k) => \A m \in Months : AmountToPay(m)' = AmountToPay(m)
<1>1. IInv /\ Books /\ FreshArePriced => Moves
  BY PayMoves, RefundMoves
<1>2. Spec => []FreshArePriced
  <2>1. TypeOK /\ Books /\ FreshArePriced /\ [Next]_vars => FreshArePriced'
    BY PricedStep DEF Books
  <2> QED BY TypeCorrect, BooksHold, PricedInit, <2>1, PTL DEF Spec
<1> HIDE DEF Moves
<1>3. Spec => [][Moves]_vars
  BY <1>1, <1>2, Invariance, BooksHold, PTL
<1> QED BY <1>3 DEF Moves, MoneyMovesItsAmountOnly
=============================================================================
