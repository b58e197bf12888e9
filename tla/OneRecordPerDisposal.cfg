SPECIFICATION Spec
CONSTANTS
    NoLot = NoLot
    Assets = {a1}
    TransactionIds = {1, 2}
    ActionIds = {}
    Dates = {1, 2}
    Amounts <- MCOneAmount
    Kinds = {"buy", "sell"}
    Factors = {2}
    Percentages = {}
    MaxRetyped = 1
INVARIANT OneRecordPerDisposal
