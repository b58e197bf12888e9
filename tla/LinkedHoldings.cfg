SPECIFICATION Spec
CONSTANTS
    NoLot = NoLot
    Assets = {a1, a2}
    TransactionIds = {1, 2}
    ActionIds = {9}
    Dates = {1, 2}
    Amounts <- MCOneAmount
    Kinds = {"buy", "sell", "transferOut"}
    Factors = {2}
    Percentages = {50}
    MaxRetyped = 1
SYMMETRY MCSymmetry
INVARIANTS
    OneRecordPerDisposalUnlessRetyped
    MethodDescribesHistory
    LinkedHalvesAgree
    OpenLotsAreThePosition
