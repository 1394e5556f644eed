SPECIFICATION FairSpec
CONSTANTS
    w1 = w1  w2 = w2  o1 = o1  o2 = o2  e1 = e1  e2 = e2  e3 = e3
    Workers = {w1, w2}
    Orders = {o1}
    Events = {e1}
    OrderOf <- OneOrderTwice
    NoOrder = NoOrder
    Noise = Noise
    NoWorker = NoWorker
    None = None
    MaxAttempts = 2
    BatchSize = 2
    ReplayLimit = 2
    TxSurvivesConflict = FALSE
    ThrowAt = {"read", "credit", "mark"}
    MaxTopic = 1
    MaxFaults = 2
    MaxReplays = 0
PROPERTIES
    EveryEventSettles
    EveryConfirmedOrderIsCredited
    FailedReachesDlq
