SPECIFICATION Spec
CONSTANTS
    Bills = {b1, b2}
    UkBills = {b1, b2}
    Statuses = {"Unset", "Paid"}
    NoBill = NoBill
    Slots = {s1, s2}
    MaxWrites = 2
    Keys = {k1, k2}
    Suggested = {r1, r2}
    None = None
    MaxChanges = 2
    Pages <- OnlyMensais
SYMMETRY Symmetry
CHECK_DEADLOCK FALSE
INVARIANT ExpenseRecordedOnce
