SPECIFICATION Spec
CONSTANTS
    w1 = w1  w2 = w2  o1 = o1  o2 = o2  e1 = e1  e2 = e2  e3 = e3
    Workers = {w1}
    Orders = {o1}
    Events = {e1, e2}
    OrderOf <- OneOrderTwice
    NoOrder = NoOrder
    Noise = Noise
    NoWorker = NoWorker
    None = None
    MaxAttempts = 2
    BatchSize = 2
    ReplayLimit = 2
    TxSurvivesConflict = TRUE
    ThrowAt = {"upsert", "read", "credit", "mark"}
    MaxTopic = 2
    MaxFaults = 1
    MaxReplays = 1
PROPERTIES
    LedgerSpec
