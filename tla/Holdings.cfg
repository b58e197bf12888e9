SPECIFICATION Spec
CONSTANTS
    NoLot = NoLot
    Assets = {a1}
    TransactionIds = {1, 2, 3}
    ActionIds = {9}
    Dates = {1, 2, 3}
    Amounts <- MCTwoAmounts
    Kinds = {"buy", "sell"}
    Factors = {2}
    Percentages = {}
    MaxRetyped = 0
INVARIANTS
    RecordsAreCurrentUnlessOutOfOrder
    LotsConsumedOnceUnderFIFO
PROPERTIES
    UncoveredOnlyByCorporateAction
    OnlyEarlierChangesRewriteHistory
