SPECIFICATION Spec
CONSTANTS
    Assets = {a1, a2}
    Portfolio = p
    Slots = {s1, s2}
    MaxChanges = 2
    None = None
    Filters = {f1, f2}
    DefaultFilter = f1
SYMMETRY Symmetry
INVARIANTS
    TypeOK
    ShownBelongsToSelection
    ListIsCurrentWhenQuiet
    OneFormOneRecord
    HoldingsAreRevalued
