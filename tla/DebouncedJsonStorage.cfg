SPECIFICATION FairSpec
CONSTANTS
    MaxWrites = 3
    MaxRetries = 1
    GapOutlastsWindow = FALSE
INVARIANTS
    IdleMeansSaved
PROPERTIES
    EveryWriteSettles
    ImplementsDurableDocument
