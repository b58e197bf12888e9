SPECIFICATION FairSpec
CONSTANTS
    Cards = {c1}
    Amounts = {a1,a2}
    NothingDue = NothingDue
    NoConnection = NoConnection
    Nobody = Nobody
    MaxRequests = 1
    MaxConnects = 2
    MaxExpiries = 1
    MaxOutside = 1
    MaxCalendars = 2
    MaxEvents = 2
INVARIANTS
    OneEventPerCard
    RecordedEventIsCurrent
CHECK_DEADLOCK FALSE
PROPERTIES
    EverySyncAnswers
