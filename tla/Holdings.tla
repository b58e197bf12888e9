------------------------------ MODULE Holdings ------------------------------
(* The holdings of one broker: per asset its transactions, its corporate      *)
(* actions and the disposal records that are active, and the method by which  *)
(* the broker's disposals find their cost. A superseded record is history that *)
(* nothing computes with; the model drops it.                                 *)
(*                                                                            *)
(* Every request runs inside the gate of the repository, and one that throws  *)
(* is rolled back from the JSON saved last (JsonRepository), together with the *)
(* compensations it had begun. So an action here is a request that succeeds;   *)
(* what the code refuses has no step.                                         *)
EXTENDS HoldingReplay

CONSTANTS
    Assets,
    TransactionIds,       \* numbers, and never NoSeed: a Guid that is made is not empty
    ActionIds,            \* numbers, of splits and of the pairs of linked records
    Dates,                \* numbers
    Amounts,              \* the pairs of a quantity and a unit price entered
    Kinds,                \* the kinds of transaction entered
    Factors, Percentages, \* ratios of splits and mergers, allocations of spin-offs
    MaxRetyped            \* bound: transactions revised into or out of a disposal

ASSUME HoldingsAssumption ==
    /\ TransactionIds \subseteq Nat \ {0} /\ ActionIds \subseteq Nat
    /\ TransactionIds \cap ActionIds = {}
    /\ Dates \subseteq Nat \ {0}
    /\ Amounts \subseteq [quantity : Nat \ {0}, price : Nat]
    /\ Kinds \subseteq {"buy", "sell", "transferOut", "fee"}
    /\ Factors \subseteq Nat \ {0} /\ Percentages \subseteq 0..100

VARIABLES
    holdings,             \* per asset: transactions, corporateActions, disposalRecords
    costBasisMethod,      \* of the broker
    retyped,              \* history: transactions revised into or out of a disposal
    outOfOrder            \* history: disposals recorded after a step they precede

vars == <<holdings, costBasisMethod, retyped, outOfOrder>>

-----------------------------------------------------------------------------
(* A holding.                                                                 *)

With(function, key, value) ==
    [k \in DOMAIN function \union {key} |-> IF k = key THEN value ELSE function[k]]

Without(function, key) == [k \in DOMAIN function \ {key} |-> function[k]]

RangeOf(function) == {function[k] : k \in DOMAIN function}

Steps(h) == RangeOf(h.transactions) \union RangeOf(h.corporateActions)

Disposals(h) == {id \in DOMAIN h.transactions : IsDisposing(h.transactions[id])}

\* What a regeneration computes a disposal from: the steps it comes after.
Preceding(h, id) == Before(h.transactions[id], Steps(h))

\* anchor <= LatestActiveDisposalDate()
IsAfterLatestDisposal(h, date) ==
    \A id \in DOMAIN h.disposalRecords : h.disposalRecords[id].date < date

NoAllocation == <<>>

AllocationOf(h, id) ==
    IF id \in DOMAIN h.disposalRecords THEN ReconstructAllocation(h.disposalRecords[id])
    ELSE NoAllocation

\* Mutant: what is dated at the anchor is not computed again.
DueFromMutant(h, anchor) == {id \in Disposals(h) : h.transactions[id].date > anchor}

DueFrom(h, anchor) == {id \in Disposals(h) : h.transactions[id].date >= anchor}

Recalculated(h, id, method, seed, allocation) ==
    Calculate(h.transactions[id], Preceding(h, id), method,
              IF id = seed THEN allocation ELSE AllocationOf(h, id))

CanRegenerate(h, anchor, method, seed, allocation) ==
    \A id \in DueFrom(h, anchor) :
        CanCalculate(h.transactions[id], Preceding(h, id), method,
                     IF id = seed THEN allocation ELSE AllocationOf(h, id))

\* Mutant: records dated before the anchor are retired too.
UntouchedRetiresEarlier(h, anchor) ==
    {id \in DOMAIN h.disposalRecords \ DueFrom(h, anchor) :
        h.disposalRecords[id].date >= anchor /\ id \in DOMAIN h.transactions}

\* The active records the plan neither retires nor replaces.
Untouched(h, anchor) ==
    {id \in DOMAIN h.disposalRecords \ DueFrom(h, anchor) :
        h.disposalRecords[id].date >= anchor => id \in DOMAIN h.transactions}

RegenerateFrom(h, anchor, method, seed, allocation) ==
    [h EXCEPT !.disposalRecords =
        [id \in Untouched(h, anchor) \union DueFrom(h, anchor) |->
            IF id \in DueFrom(h, anchor) THEN Recalculated(h, id, method, seed, allocation)
            ELSE h.disposalRecords[id]]]

\* The holdings a regeneration may end in: none when it throws.
Regenerated(h, anchor, method, seed, allocation) ==
    IF CanRegenerate(h, anchor, method, seed, allocation)
    THEN {RegenerateFrom(h, anchor, method, seed, allocation)} ELSE {}

NoSeed == 0

RegeneratedWhenDue(h, anchor, method) ==
    IF IsAfterLatestDisposal(h, anchor) THEN {h}
    ELSE Regenerated(h, anchor, method, NoSeed, NoAllocation)

-----------------------------------------------------------------------------
(* The operations of Asset: the holdings each may end in.                     *)

\* Mutant: a revision is replayed from its new date only.
EarlierOfMutant(d, e) == e

EarlierOf(d, e) == IF d <= e THEN d ELSE e

\* A transaction dated after every active disposal is appended; a disposal is
\* then computed from all the transactions there are.
Appended(h, transaction, method, allocation) ==
    LET preceding == RangeOf(h.transactions)
                        \union {ca \in RangeOf(h.corporateActions) : ca.date <= transaction.date}
        added == [h EXCEPT !.transactions = With(@, transaction.id, transaction)]
    IN  IF ~IsDisposing(transaction) THEN {added}
        ELSE IF CanCalculate(transaction, preceding, method, allocation)
        THEN {[added EXCEPT !.disposalRecords =
                With(@, transaction.id, Calculate(transaction, preceding, method, allocation))]}
        ELSE {}

TransactionRecorded(h, transaction, method, allocation) ==
    LET added == [h EXCEPT !.transactions = With(@, transaction.id, transaction)]
    IN  IF ~FindNoUncoveredSale(Steps(added)) THEN {}
        ELSE IF IsAfterLatestDisposal(h, transaction.date)
        THEN Appended(h, transaction, method, allocation)
        ELSE Regenerated(added, transaction.date, method, transaction.id, allocation)

TransactionRevised(h, transaction, method) ==
    LET previous == h.transactions[transaction.id]
        updated  == [h EXCEPT !.transactions = With(@, transaction.id, transaction)]
    IN  IF ~FindNoUncoveredSale(Steps(updated)) THEN {}
        ELSE RegeneratedWhenDue(updated, EarlierOf(previous.date, transaction.date), method)

\* Mutant: it is not looked whether a later sale needs it.
TransactionRetractedMutant(h, id, method) ==
    RegeneratedWhenDue([h EXCEPT !.transactions = Without(@, id)], h.transactions[id].date, method)

TransactionRetracted(h, id, method) ==
    LET removed == [h EXCEPT !.transactions = Without(@, id)]
    IN  IF ~FindNoUncoveredSale(Steps(removed)) THEN {}
        ELSE RegeneratedWhenDue(removed, h.transactions[id].date, method)

NeedsPosition(action) == action.kind \in {"split", "mergerSource"}

EnsureNonZeroPositionAt(h, action) ==
    LET others == {s \in Steps(h) : s.id # action.id}
    IN  NeedsPosition(action) => PositionAsOf(others, action.date).quantity # 0

CorporateActionRecorded(h, action, method) ==
    LET added == [h EXCEPT !.corporateActions = With(@, action.id, action)]
    IN  IF ~EnsureNonZeroPositionAt(h, action) THEN {}
        ELSE Regenerated(added, action.date, method, NoSeed, NoAllocation)

CorporateActionRevised(h, action, method) ==
    LET previous == h.corporateActions[action.id]
        updated  == [h EXCEPT !.corporateActions = With(@, action.id, action)]
    IN  IF ~EnsureNonZeroPositionAt(h, action) THEN {}
        ELSE Regenerated(updated, EarlierOf(previous.date, action.date), method, NoSeed, NoAllocation)

CorporateActionRetracted(h, id, method) ==
    Regenerated([h EXCEPT !.corporateActions = Without(@, id)],
                h.corporateActions[id].date, method, NoSeed, NoAllocation)

-----------------------------------------------------------------------------
(* Transactions.                                                              *)

Init ==
    /\ holdings = [a \in Assets |->
                     [transactions |-> <<>>, corporateActions |-> <<>>, disposalRecords |-> <<>>]]
    /\ costBasisMethod = "AverageCost"
    /\ retyped = {} /\ outOfOrder = {}

\* What is new is listed after the steps of its date and rank.
IsListedLast(h, step) ==
    \A s \in Steps(h) :
        s.date = step.date /\ RankWithinDate(s) = RankWithinDate(step) => s.id < step.id

\* Ids are new to the broker.
Unused(id) ==
    \A a \in Assets :
        id \notin DOMAIN holdings[a].transactions \union DOMAIN holdings[a].corporateActions
                    \union DOMAIN holdings[a].disposalRecords

Entered(id) ==
    {[id |-> id, kind |-> k, date |-> d, quantity |-> m.quantity, price |-> m.price] :
        k \in Kinds, d \in Dates, m \in Amounts}

\* The lots the form shows: those the transactions alone leave open. No corporate
\* action is replayed for it.
OfferedLots(h) == GetOpenLots(RangeOf(h.transactions))

\* What a form that names lots can send: it covers the sale exactly and asks of no lot
\* more than is shown.
LotAllocations(lots, quantity) ==
    LET shown == {lots[i].source : i \in DOMAIN lots}
        Fits(allocation) == \A i \in DOMAIN lots :
            lots[i].source \in DOMAIN allocation => allocation[lots[i].source] <= lots[i].quantity
    IN  {allocation \in UNION {[some -> 1..quantity] : some \in SUBSET shown} :
            Allocated(allocation) = quantity /\ Fits(allocation)}

\* It asks for lots when a sale is entered and the broker's method names them.
Allocations(h, transaction) ==
    IF costBasisMethod = "SpecificId" /\ IsDisposing(transaction)
    THEN LotAllocations(OfferedLots(h), transaction.quantity) ELSE {NoAllocation}

\* A disposal that a regeneration computes again is out of order no more.
StillOutOfOrder ==
    {id \in outOfOrder : \E a \in Assets :
        /\ id \in DOMAIN holdings[a].disposalRecords \intersect DOMAIN holdings'[a].disposalRecords
        /\ holdings'[a].disposalRecords[id] = holdings[a].disposalRecords[id]}

AppendedOutOfOrder(h, transaction) ==
    /\ IsDisposing(transaction) /\ IsAfterLatestDisposal(h, transaction.date)
    /\ \E t \in RangeOf(h.transactions) : Precedes(transaction, t)

AddTransaction(a) ==
    \E id \in TransactionIds :
        /\ Unused(id)
        /\ \E transaction \in Entered(id) : \E allocation \in Allocations(holdings[a], transaction) :
            \E h \in TransactionRecorded(holdings[a], transaction, costBasisMethod, allocation) :
                /\ IsListedLast(holdings[a], transaction)
                /\ holdings' = [holdings EXCEPT ![a] = h]
                /\ outOfOrder' = StillOutOfOrder \union
                        {i \in {id} : AppendedOutOfOrder(holdings[a], transaction)}
        /\ UNCHANGED <<costBasisMethod, retyped>>

UpdateTransaction(a) ==
    \E id \in DOMAIN holdings[a].transactions : \E transaction \in Entered(id) :
        /\ \E h \in TransactionRevised(holdings[a], transaction, costBasisMethod) :
            holdings' = [holdings EXCEPT ![a] = h]
        /\ retyped' = retyped \union
                {i \in {id} : IsDisposing(holdings[a].transactions[i]) # IsDisposing(transaction)}
        /\ Cardinality(retyped') <= MaxRetyped
        /\ outOfOrder' = StillOutOfOrder
        /\ UNCHANGED costBasisMethod

DeleteTransaction(a) ==
    \E id \in DOMAIN holdings[a].transactions :
        /\ \E h \in TransactionRetracted(holdings[a], id, costBasisMethod) :
            holdings' = [holdings EXCEPT ![a] = h]
        /\ retyped' = {i \in retyped : i # id \/ i \in DOMAIN holdings'[a].disposalRecords}
        /\ outOfOrder' = StillOutOfOrder
        /\ UNCHANGED costBasisMethod

-----------------------------------------------------------------------------
(* Corporate actions. The two records of a merger or a spin-off share the id  *)
(* of their pair; each names the other's asset. An asset that is created with *)
(* the event is one that held nothing.                                        *)

Split(id, date, factor) == [id |-> id, kind |-> "split", date |-> date, ratio |-> factor]

Half(id, kind, date, linked, quantity, cost, ratio) ==
    [id |-> id, kind |-> kind, date |-> date, linked |-> linked,
     quantity |-> quantity, cost |-> cost, ratio |-> ratio]

NoRatio == 0

MergerPair(h, a, b, id, date, factor) ==
    LET position == PositionAsOf(Steps(h), date)
        converted == position.quantity * factor
        carried   == position.quantity * position.average
    IN  [own   |-> Half(id, "mergerSource", date, b, converted, carried, factor),
         other |-> Half(id, "mergerTarget", date, a, converted, carried, NoRatio)]

CalculateCarriedCostBasis(percentage, position) ==
    Divide(percentage * (position.quantity * position.average), 100)

SpinOffPair(h, a, b, id, date, quantity, percentage) ==
    LET carried == CalculateCarriedCostBasis(percentage, PositionAsOf(Steps(h), date))
    IN  [own   |-> Half(id, "spinOffParent", date, b, quantity, carried, percentage),
         other |-> Half(id, "spinOffNew", date, a, quantity, carried, NoRatio)]

CommitCorporateActions ==
    /\ outOfOrder' = StillOutOfOrder
    /\ UNCHANGED <<costBasisMethod, retyped>>

AddSplit(a) ==
    /\ \E id \in ActionIds, date \in Dates, factor \in Factors \ {1} :
        /\ Unused(id)
        /\ IsListedLast(holdings[a], Split(id, date, factor))
        /\ \E h \in CorporateActionRecorded(holdings[a], Split(id, date, factor), costBasisMethod) :
            holdings' = [holdings EXCEPT ![a] = h]
    /\ CommitCorporateActions

UpdateSplit(a) ==
    /\ \E id \in DOMAIN holdings[a].corporateActions, date \in Dates, factor \in Factors \ {1} :
        /\ holdings[a].corporateActions[id].kind = "split"
        /\ \E h \in CorporateActionRevised(holdings[a], Split(id, date, factor), costBasisMethod) :
            holdings' = [holdings EXCEPT ![a] = h]
    /\ CommitCorporateActions

\* The pairs of a merger or a spin-off from h, as a form enters them.
EnteredMergers(h, a, b, id) ==
    {MergerPair(h, a, b, id, date, factor) : date \in Dates, factor \in Factors}

EnteredSpinOffs(h, a, b, id) ==
    {SpinOffPair(h, a, b, id, date, m.quantity, percentage) :
        date \in Dates, m \in Amounts, percentage \in Percentages}

\* Both records, or neither; the second once the first has been accepted.
PairRecorded(h, k, pair) ==
    UNION {{[own |-> g, other |-> l] : l \in CorporateActionRecorded(k, pair.other, costBasisMethod)} :
            g \in CorporateActionRecorded(h, pair.own, costBasisMethod)}

PairRetracted(a, b, id) ==
    {[own |-> g, other |-> l] :
        g \in CorporateActionRetracted(holdings[a], id, costBasisMethod),
        l \in CorporateActionRetracted(holdings[b], id, costBasisMethod)}

SavePair(a, b, result) == holdings' = [holdings EXCEPT ![a] = result.own, ![b] = result.other]

RecordPair(a, b, pair) ==
    /\ IsListedLast(holdings[a], pair.own) /\ IsListedLast(holdings[b], pair.other)
    /\ \E result \in PairRecorded(holdings[a], holdings[b], pair) : SavePair(a, b, result)

\* The records of a kind in a whose other half is in b.
LinkedTo(a, b, kinds) ==
    {id \in DOMAIN holdings[a].corporateActions :
        /\ holdings[a].corporateActions[id].kind \in kinds
        /\ holdings[a].corporateActions[id].linked = b}

AddMerger(a, b) ==
    /\ \E id \in ActionIds :
        /\ Unused(id)
        /\ \E pair \in EnteredMergers(holdings[a], a, b, id) : RecordPair(a, b, pair)
    /\ CommitCorporateActions

AddSpinOff(a, b) ==
    /\ \E id \in ActionIds :
        /\ Unused(id)
        /\ \E pair \in EnteredSpinOffs(holdings[a], a, b, id) : RecordPair(a, b, pair)
    /\ CommitCorporateActions

\* An update takes the pair out of both assets and records it anew, from the
\* position the first is then in.
UpdateMerger(a, b) ==
    /\ \E id \in LinkedTo(a, b, {"mergerSource"}) : \E rest \in PairRetracted(a, b, id) :
        \E pair \in EnteredMergers(rest.own, a, b, id) :
            \E result \in PairRecorded(rest.own, rest.other, pair) : SavePair(a, b, result)
    /\ CommitCorporateActions

UpdateSpinOff(a, b) ==
    /\ \E id \in LinkedTo(a, b, {"spinOffParent"}) : \E rest \in PairRetracted(a, b, id) :
        \E pair \in EnteredSpinOffs(rest.own, a, b, id) :
            \E result \in PairRecorded(rest.own, rest.other, pair) : SavePair(a, b, result)
    /\ CommitCorporateActions

DeleteSplit(a) ==
    /\ \E id \in DOMAIN holdings[a].corporateActions :
        /\ holdings[a].corporateActions[id].kind = "split"
        /\ \E h \in CorporateActionRetracted(holdings[a], id, costBasisMethod) :
            holdings' = [holdings EXCEPT ![a] = h]
    /\ CommitCorporateActions

LinkedKinds == {"mergerSource", "mergerTarget", "spinOffParent", "spinOffNew"}

\* Mutant: the other record is left.
DeleteLinkedMutant(a, b) ==
    /\ \E id \in LinkedTo(a, b, LinkedKinds) :
        \E h \in CorporateActionRetracted(holdings[a], id, costBasisMethod) :
            holdings' = [holdings EXCEPT ![a] = h]
    /\ CommitCorporateActions

\* Deleting either record deletes both.
DeleteLinked(a, b) ==
    /\ \E id \in LinkedTo(a, b, LinkedKinds) :
        \E rest \in PairRetracted(a, b, id) : SavePair(a, b, rest)
    /\ CommitCorporateActions

-----------------------------------------------------------------------------
(* The broker's method, and a restart.                                        *)

MinDate == 0

\* Mutant: each asset is planned and committed in turn, and one that fails does not
\* stop the others.
SetCostBasisMethodMutant(method) ==
    /\ holdings' = [a \in Assets |->
                       IF CanRegenerate(holdings[a], MinDate, method, NoSeed, NoAllocation)
                         THEN RegenerateFrom(holdings[a], MinDate, method, NoSeed, NoAllocation)
                         ELSE holdings[a]]
    /\ costBasisMethod' = method
    /\ outOfOrder' = StillOutOfOrder
    /\ UNCHANGED retyped

\* Every asset's plan is computed before any is committed.
SetCostBasisMethod(method) ==
    /\ \A a \in Assets : CanRegenerate(holdings[a], MinDate, method, NoSeed, NoAllocation)
    /\ holdings' = [a \in Assets |->
                       RegenerateFrom(holdings[a], MinDate, method, NoSeed, NoAllocation)]
    /\ costBasisMethod' = method
    /\ outOfOrder' = StillOutOfOrder
    /\ UNCHANGED retyped

\* Loading the file gives every disposal without a record one at the average cost,
\* from its transactions alone.
Backfilled(h) ==
    [h EXCEPT !.disposalRecords =
        [id \in DOMAIN h.disposalRecords \union Disposals(h) |->
            IF id \in DOMAIN h.disposalRecords THEN h.disposalRecords[id]
            ELSE Calculate(h.transactions[id],
                           Before(h.transactions[id], RangeOf(h.transactions)),
                           "AverageCost", NoAllocation)]]

Restart ==
    /\ holdings' = [a \in Assets |-> Backfilled(holdings[a])]
    /\ UNCHANGED <<costBasisMethod, retyped, outOfOrder>>

AssetStep(a) ==
    \/ AddTransaction(a) \/ UpdateTransaction(a) \/ DeleteTransaction(a)
    \/ AddSplit(a) \/ UpdateSplit(a) \/ DeleteSplit(a)

LinkedStep(a, b) ==
    \/ AddMerger(a, b) \/ UpdateMerger(a, b)
    \/ AddSpinOff(a, b) \/ UpdateSpinOff(a, b)
    \/ DeleteLinked(a, b)

Next ==
    \/ \E a \in Assets : AssetStep(a)
    \/ \E a \in Assets : \E b \in Assets \ {a} : LinkedStep(a, b)
    \/ \E method \in Methods : SetCostBasisMethod(method)
    \/ Restart

Spec == Init /\ [][Next]_vars
-----------------------------------------------------------------------------
(* Properties.                                                                *)

IsTransaction(t, id) ==
    /\ t.id = id /\ t.kind \in {"buy", "sell", "transferOut", "fee"} /\ t.date \in Dates
    /\ t.quantity \in Nat /\ t.price \in Nat

IsAction(ca, id) ==
    /\ ca.id = id /\ IsCorporateAction(ca) /\ ca.date \in Dates
    /\ ca.kind # "split" => ca.linked \in Assets

IsRecord(r) == r.date \in Dates /\ r.method \in Methods /\ r.quantity \in Nat

IsHolding(h) ==
    /\ h = [transactions |-> h.transactions, corporateActions |-> h.corporateActions,
            disposalRecords |-> h.disposalRecords]
    /\ DOMAIN h.transactions \subseteq TransactionIds
    /\ DOMAIN h.corporateActions \subseteq ActionIds
    /\ DOMAIN h.disposalRecords \subseteq TransactionIds
    /\ \A id \in DOMAIN h.transactions : IsTransaction(h.transactions[id], id)
    /\ \A id \in DOMAIN h.corporateActions : IsAction(h.corporateActions[id], id)
    /\ \A id \in DOMAIN h.disposalRecords : IsRecord(h.disposalRecords[id])

\* Type correctness: every holding keeps well-formed entries under their ids, and a
\* linked record names an asset of the broker.
TypeOK ==
    /\ costBasisMethod \in Methods
    /\ retyped \subseteq TransactionIds /\ outOfOrder \subseteq TransactionIds
    /\ holdings = [a \in Assets |-> holdings[a]]
    /\ \A a \in Assets : IsHolding(holdings[a])

HasItsRecord(h, id) ==
    /\ id \in DOMAIN h.disposalRecords <=> id \in Disposals(h)
    /\ id \in Disposals(h) =>
        /\ h.disposalRecords[id].date = h.transactions[id].date
        /\ h.disposalRecords[id].quantity = h.transactions[id].quantity

\* Whatever is recorded, revised and deleted, in any order and with any dates, a
\* disposal has one active record, of its own date and quantity, and nothing else
\* has one; but for a transaction that was revised from or to a disposal.
OneRecordPerDisposalUnlessRetyped ==
    \A a \in Assets : \A id \in TransactionIds \ retyped : HasItsRecord(holdings[a], id)

\* Every active record was computed by the method the broker has now, also those of
\* assets nobody touched since it was changed: a change of the method reaches all of
\* the broker's assets or none. A restart, which computes the records it finds missing
\* by the average cost whatever the method is, adds none but those of transactions
\* that were revised into a disposal; they are excepted.
MethodDescribesHistory ==
    \A a \in Assets : \A id \in DOMAIN holdings[a].disposalRecords \ retyped :
        holdings[a].disposalRecords[id].method = costBasisMethod

IsCurrent(h, id) ==
    h.disposalRecords[id] = Recalculated(h, id, costBasisMethod, NoSeed, NoAllocation)

\* A record says what replaying all that precedes its disposal gives today: no
\* backdated change, and no merger of another asset, leaves it with a basis that is
\* gone. Excepted are disposals entered after steps they precede, until a
\* regeneration reaches them.
RecordsAreCurrentUnlessOutOfOrder ==
    \A a \in Assets : \A id \in DOMAIN holdings[a].disposalRecords \ (retyped \union outOfOrder) :
        IsCurrent(holdings[a], id)

OppositeOf(kind) ==
    CASE kind = "mergerSource" -> "mergerTarget" [] kind = "mergerTarget" -> "mergerSource"
      [] kind = "spinOffParent" -> "spinOffNew" [] kind = "spinOffNew" -> "spinOffParent"

IsOtherHalf(other, ca, a) ==
    /\ other.kind = OppositeOf(ca.kind) /\ other.linked = a
    /\ other.date = ca.date /\ other.quantity = ca.quantity /\ other.cost = ca.cost

\* A merger or spin-off is in both of its assets or in neither, with one date, one
\* quantity and one carried cost: no unit is converted out of an asset and lost.
LinkedHalvesAgree ==
    \A a \in Assets : \A id \in DOMAIN holdings[a].corporateActions :
        LET ca == holdings[a].corporateActions[id]
        IN  ca.kind # "split" =>
                /\ ca.linked # a
                /\ id \in DOMAIN holdings[ca.linked].corporateActions
                /\ IsOtherHalf(holdings[ca.linked].corporateActions[id], ca, a)

IsCovered(h) == FindNoUncoveredSale(Steps(h))

OpenQuantity(h) ==
    LET lots == GetOpenLots(Steps(h)) IN SumOf([i \in DOMAIN lots |-> lots[i].quantity])

\* The lots and the average-cost position are two replays of one history, with their
\* own treatment of every kind of step: they hold the same quantity as long as no
\* sale, and no conversion, has taken out what was not there.
OpenLotsAreThePosition ==
    \A a \in Assets :
        /\ IsCovered(holdings[a])
        /\ \A ca \in RangeOf(holdings[a].corporateActions) : ca.kind # "split" => ca.quantity > 0
        => OpenQuantity(holdings[a]) = ReplayAveragePosition(Steps(holdings[a])).quantity

ConsumedOf(h, source) ==
    LET users == {id \in DOMAIN h.disposalRecords : source \in DOMAIN h.disposalRecords[id].lots}
    IN  FoldLeft(LAMBDA sum, id : sum + h.disposalRecords[id].lots[source].quantity, 0,
                 SetToSeq(users))

NoLotConsumedTwice(h) ==
    \A id \in DOMAIN h.transactions :
        h.transactions[id].kind = "buy" => ConsumedOf(h, id) <= h.transactions[id].quantity

\* First in, first out: the active records together take no more out of a lot than
\* was bought, whatever was sold, moved and corrected before and after. Quantities
\* are compared where no corporate action has rescaled them.
LotsConsumedOnceUnderFIFO ==
    costBasisMethod = "FIFO" /\ retyped \union outOfOrder = {} =>
        \A a \in Assets :
            holdings[a].corporateActions = <<>> => NoLotConsumedTwice(holdings[a])

UncoveredByCorporateAction ==
    \A a \in Assets : IsCovered(holdings[a]) /\ ~IsCovered(holdings'[a])
                         => holdings'[a].corporateActions # holdings[a].corporateActions

\* Only a step that changes an asset's corporate actions can leave it a sale of what
\* it does not hold: no correction of transactions does, however far back it is dated.
UncoveredOnlyByCorporateAction == [][UncoveredByCorporateAction]_vars

IsUpTo(entries, id, date) == id \in DOMAIN entries /\ entries[id].date <= date

ChangedUpTo(before, after, date) ==
    \E id \in DOMAIN before \union DOMAIN after :
        /\ ~(id \in DOMAIN before /\ id \in DOMAIN after /\ before[id] = after[id])
        /\ IsUpTo(before, id, date) \/ IsUpTo(after, id, date)

KeepsRecord(h, g, id) ==
    id \in DOMAIN g.disposalRecords /\ g.disposalRecords[id] = h.disposalRecords[id]

KeepsHistory ==
    \A a \in Assets : \A id \in DOMAIN holdings[a].disposalRecords \ (retyped \union outOfOrder) :
        LET h == holdings[a]
            g == holdings'[a]
            date == h.disposalRecords[id].date
        IN  \/ KeepsRecord(h, g, id)
            \/ costBasisMethod' # costBasisMethod
            \/ ChangedUpTo(h.transactions, g.transactions, date)
            \/ ChangedUpTo(h.corporateActions, g.corporateActions, date)

\* A disposal's record is replaced or retired only by a change of the method or by a
\* step dated no later than it: what is entered afterwards never rewrites the gains
\* of a year that is closed.
OnlyEarlierChangesRewriteHistory == [][KeepsHistory]_vars
-----------------------------------------------------------------------------
(* What the documents say and the code does not do.                           *)

\* "Exactly one DisposalRecord per disposing transaction under every method."
OneRecordPerDisposal ==
    \A a \in Assets : \A id \in TransactionIds : HasItsRecord(holdings[a], id)
=============================================================================
