SPECIFICATION Spec
CONSTANTS
    Bills = {b1}
    UkBills = {b1}
    Statuses = {"Unset", "Paid"}
    NoBill = NoBill
    Slots = {s1, s2}
    MaxWrites = 2
    Keys = {k1, k2}
    Suggested = {r1, r2}
    None = None
    MaxChanges = 1
    Pages <- EveryPage
SYMMETRY Symmetry
CHECK_DEADLOCK FALSE
INVARIANTS
    TypeOK
    ShownIsOfKey
    OneSaveAtATime
    ConfirmedIsWhatWasAsked
    BillsAreCurrentWhenQuiet
    ExpenseRecordedOnceUnlessRaced
