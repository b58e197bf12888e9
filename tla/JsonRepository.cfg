SPECIFICATION FairRepositorySpec
CONSTANTS
    Requests = {r1, r2, r3}
    Capturing = {r1, r2}
    Torn = Torn
    NoFile = NoFile
    NoOne = NoOne
    MaxCrashes = 1
INVARIANTS
    QuietMeansSynced
    AnswersStayTrue
PROPERTIES
    EveryRequestAnswered
