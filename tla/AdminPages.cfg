SPECIFICATION Spec
CONSTANTS
    Rows = {r1, r2}
    NewRow = NewRow
    None = None
    Slots = {s1, s2}
    MaxChanges = 2
    Pages <- OnePageOfEachKind
SYMMETRY Symmetry
INVARIANTS ListIsCurrentWhenQuiet EditsBuildOnLatest SaveKeepsToItsRecord SavingIsAnswered
CHECK_DEADLOCK FALSE
