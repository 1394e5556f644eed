SPECIFICATION FairSpec
CONSTANTS
    Workers = {w1, w2}
    Events = {e1, e2}
    None = None
    MaxAttempts = 2
    BatchSize = 2
    ReplayLimit = 2
    MaxFaults = 1
    MaxReplays = 1
INVARIANTS
    TypeOK
    SentIsPublished
    DuplicatesAreExplained
    FailedOnlyWhenExhausted
PROPERTIES
    EveryRowIsPublished
    EveryRowSettles
