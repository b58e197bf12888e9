CONSTANTS
    Keys = {b1, p1, a1, y1, y2, c1, c2, only}
    None = None
    Brokers = {b1}
    Portfolios = {p1}
    Assets = {a1}
    Years = {y1, y2}
    Currencies = {c1, c2}
    Only = only
    Seed = c1
    TaxYears = {t1, t2}
    NoYear = NoYear
    MaxWorkbooks = 3
    MaxPending = 2
    MaxVersion = 2
SYMMETRY Symmetry
SPECIFICATION Spec
INVARIANTS ShownIsAsked LoadingIsAnswered SettingIsCurrent WorkbookIsOfSelectionUnlessRaced
CHECK_DEADLOCK FALSE
