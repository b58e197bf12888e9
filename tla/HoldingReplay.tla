--------------------------- MODULE HoldingReplay ----------------------------
(* The arithmetic of a holding: what its transactions and corporate actions   *)
(* come to when they are replayed in order. One replay serves them all: the   *)
(* position, the open lots, the check that no sale exceeds what is held, and  *)
(* the cost basis of a disposal.                                              *)
(*                                                                            *)
(* A step is a transaction or a corporate action. Transactions are grouped by *)
(* what they do to the quantity and to the cash: "buy" stands for Buy and     *)
(* TransferIn, "sell" for Sell and Redemption, "fee" for the types that do    *)
(* not change the quantity. Fees and withheld tax are left out of the amounts.*)
(* The ratio of a step is a split's factor, a merger's exchange ratio or the  *)
(* percentage a spin-off takes along.                                         *)
(* Money is counted in whole units; a division rounds down where the code's   *)
(* decimal rounds in its last digit.                                          *)
EXTENDS Integers, FiniteSets, SequencesExt

CONSTANT NoLot            \* the source of a lot at the average cost

Methods == {"AverageCost", "FIFO", "SpecificId"}

IsDecrease(step) == step.kind \in {"sell", "transferOut"}

\* A disposal brings cash in for the quantity it takes out.
IsDisposing(step) == step.kind = "sell"

IsCorporateAction(step) ==
    step.kind \in {"split", "mergerSource", "mergerTarget", "spinOffParent", "spinOffNew"}

-----------------------------------------------------------------------------
(* The order of a replay.                                                     *)

RankWithinDate(step) ==
    IF IsCorporateAction(step) THEN 0 ELSE IF IsDecrease(step) THEN 2 ELSE 1

\* Within a date and a rank the code keeps the order of its lists; here that is
\* the order of the ids, and a new step takes any id that is free.
Precedes(s, t) ==
    \/ s.date < t.date
    \/ s.date = t.date /\ RankWithinDate(s) < RankWithinDate(t)
    \/ s.date = t.date /\ RankWithinDate(s) = RankWithinDate(t) /\ s.id < t.id

Before(step, steps) == {s \in steps : Precedes(s, step)}

Merge(steps) ==
    [k \in 1..Cardinality(steps) |->
        CHOOSE s \in steps : Cardinality(Before(s, steps)) = k - 1]

-----------------------------------------------------------------------------
(* The position at the average cost.                                          *)

Divide(a, b) == IF b < 0 THEN (-a) \div (-b) ELSE a \div b

ClosedPosition == [quantity |-> 0, average |-> 0]

Blend(position, quantity, cost) ==
    IF position.quantity + quantity = 0 THEN 0
    ELSE Divide(position.average * position.quantity + cost, position.quantity + quantity)

ReceiveIntoPosition(position, quantity, cost) ==
    [quantity |-> position.quantity + quantity, average |-> Blend(position, quantity, cost)]

\* Mutant: a split changes the average and not the quantity.
RescalePositionMutant(position, factor) ==
    [position EXCEPT !.average = Divide(@, factor)]

RescalePosition(position, factor) ==
    [quantity |-> position.quantity * factor, average |-> Divide(position.average, factor)]

RetainedOf(cost, step) == Divide(cost * (100 - step.ratio), 100)

ApplyToPosition(position, step) ==
    CASE step.kind = "buy" ->
            ReceiveIntoPosition(position, step.quantity, step.quantity * step.price)
      [] IsDecrease(step) -> [position EXCEPT !.quantity = @ - step.quantity]
      [] step.kind = "split" -> RescalePosition(position, step.ratio)
      [] step.kind = "mergerSource" -> ClosedPosition
      [] step.kind \in {"mergerTarget", "spinOffNew"} ->
            ReceiveIntoPosition(position, step.quantity, step.cost)
      [] step.kind = "spinOffParent" -> [position EXCEPT !.average = RetainedOf(@, step)]
      [] OTHER -> position

ReplayAveragePosition(steps) == FoldLeft(ApplyToPosition, ClosedPosition, Merge(steps))

\* The position at a date: the corporate actions of that date apply, its
\* transactions do not.
PositionAsOf(steps, date) ==
    ReplayAveragePosition(
        {s \in steps : s.date < date \/ (s.date = date /\ IsCorporateAction(s))})

\* No sale or transfer takes out more than is held when it comes.
FindNoUncoveredSale(steps) ==
    \A s \in steps :
        IsDecrease(s) => s.quantity <= ReplayAveragePosition(Before(s, steps)).quantity

-----------------------------------------------------------------------------
(* The open lots, oldest first.                                               *)

OpenIn(lot) == IF lot.quantity > 0 THEN lot.quantity ELSE 0

SumOf(quantities) == FoldLeft(+, 0, quantities)

\* What each lot gives of a quantity that is taken from the oldest first.
TakenFrom(lots, quantity) ==
    [i \in DOMAIN lots |->
        LET left == quantity - SumOf([j \in 1..(i - 1) |-> OpenIn(lots[j])])
        IN  IF left <= 0 THEN 0 ELSE IF left < OpenIn(lots[i]) THEN left ELSE OpenIn(lots[i])]

\* Mutant: an earlier sale leaves its lots open.
DepleteMutant(lots, quantity) == lots

Deplete(lots, quantity) ==
    LET taken == TakenFrom(lots, quantity)
    IN  [i \in DOMAIN lots |-> [lots[i] EXCEPT !.quantity = @ - taken[i]]]

CarriedLot(step) ==
    [source |-> step.id, quantity |-> step.quantity, cost |-> Divide(step.cost, step.quantity)]

ApplyToLots(lots, step) ==
    CASE step.kind = "buy" ->
            Append(lots, [source |-> step.id, quantity |-> step.quantity, cost |-> step.price])
      [] IsDecrease(step) -> Deplete(lots, step.quantity)
      [] step.kind = "split" ->
            [i \in DOMAIN lots |->
                [lots[i] EXCEPT !.quantity = @ * step.ratio, !.cost = Divide(@, step.ratio)]]
      [] step.kind = "mergerSource" -> <<>>
      [] step.kind \in {"mergerTarget", "spinOffNew"} -> Append(lots, CarriedLot(step))
      [] step.kind = "spinOffParent" ->
            [i \in DOMAIN lots |-> [lots[i] EXCEPT !.cost = RetainedOf(@, step)]]
      [] OTHER -> lots

WhereOpen(lots) ==
    FoldLeft(LAMBDA open, lot : IF lot.quantity > 0 THEN Append(open, lot) ELSE open, <<>>, lots)

GetOpenLots(steps) == WhereOpen(FoldLeft(ApplyToLots, <<>>, Merge(steps)))

-----------------------------------------------------------------------------
(* The record of a disposal: the lots it consumes, by their source.           *)

OpenLot(steps, source) ==
    LET lots == GetOpenLots(steps)
    IN  lots[CHOOSE i \in DOMAIN lots : lots[i].source = source]

IsOpenFor(steps, source, quantity) ==
    LET lots == GetOpenLots(steps)
    IN  \E i \in DOMAIN lots : lots[i].source = source /\ quantity <= lots[i].quantity

BuildAverageCostLot(sale, preceding) ==
    [source \in {NoLot} |->
        [quantity |-> sale.quantity, cost |-> ReplayAveragePosition(preceding).average]]

BuildAutoConsumedLots(sale, preceding) ==
    LET lots  == GetOpenLots(preceding)
        taken == TakenFrom(lots, sale.quantity)
        used  == {i \in DOMAIN lots : taken[i] > 0}
        Of(source) == CHOOSE i \in used : lots[i].source = source
    IN  [source \in {lots[i].source : i \in used} |->
            [quantity |-> taken[Of(source)], cost |-> lots[Of(source)].cost]]

BuildSpecificIdLots(allocation, preceding) ==
    [source \in DOMAIN allocation |->
        [quantity |-> allocation[source], cost |-> OpenLot(preceding, source).cost]]

\* An allocation gives the quantity asked of each lot; its sum is the sale's.
Allocated(allocation) ==
    FoldLeft(LAMBDA sum, source : sum + allocation[source], 0, SetToSeq(DOMAIN allocation))

\* Calculate throws when FIFO finds no lot to consume and when an allocation is
\* missing, does not sum to the sale, or asks more of a lot than is open.
CanCalculate(sale, preceding, method, allocation) ==
    CASE method = "AverageCost" -> TRUE
      [] method = "FIFO" -> DOMAIN BuildAutoConsumedLots(sale, preceding) # {}
      [] method = "SpecificId" ->
            /\ DOMAIN allocation # {}
            /\ Allocated(allocation) = sale.quantity
            /\ \A source \in DOMAIN allocation : IsOpenFor(preceding, source, allocation[source])

LotsConsumed(sale, preceding, method, allocation) ==
    CASE method = "AverageCost" -> BuildAverageCostLot(sale, preceding)
      [] method = "FIFO" -> BuildAutoConsumedLots(sale, preceding)
      [] method = "SpecificId" -> BuildSpecificIdLots(allocation, preceding)

Calculate(sale, preceding, method, allocation) ==
    [date |-> sale.date, method |-> method, quantity |-> sale.quantity,
     proceeds |-> sale.quantity * sale.price,
     lots |-> LotsConsumed(sale, preceding, method, allocation)]

\* A regeneration asks for the lots the record it replaces consumed.
ReconstructAllocation(record) ==
    IF record.method = "SpecificId"
    THEN [source \in DOMAIN record.lots |-> record.lots[source].quantity]
    ELSE <<>>
=============================================================================
