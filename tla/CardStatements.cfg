SPECIFICATION Spec
CONSTANTS
    Clients = {k1, k2}
    Charges = {c1, c2}
    MaxMonth = 2
    Values <- SmallValues
    LegacyValue = 2
    MaxRefund = 1
    MaxTransfers = 2
SYMMETRY Symmetry
INVARIANTS
    DueHasStatement
    PaymentsMatchStatements
PROPERTIES
    PaidStatementIsFrozen
    MoneyMovesItsAmountOnly
CHECK_DEADLOCK FALSE
