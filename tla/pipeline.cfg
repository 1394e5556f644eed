SPECIFICATION FairSpec
CONSTANTS
    o1 = o1
    Workers = {w1}
    Orders = {o1}
    Events = {e1}
    OrderOf <- SameOrder
    NoOrder = NoOrder
    Noise = Noise
    NoWorker = NoWorker
    None = None
    MaxAttempts = 2
    BatchSize = 2
    ReplayLimit = 2
    TxSurvivesConflict = FALSE
    ThrowAt = {"read", "credit", "mark"}
    MaxTopic = 3
    MaxFaults = 1
    MaxReplays = 1
INVARIANTS
    PublishedIsConfirmed
    NothingIsLost
    AttemptsAreFaults
PROPERTIES
    LedgerSpec
    EveryConfirmedOrderIsCredited
