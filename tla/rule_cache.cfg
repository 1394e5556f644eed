SPECIFICATION FairSpec
CONSTANTS
    Readers = {r1, r2, r3}
    Writers = {u1, u2}
    NoEntry = NoEntry
    Free = Free
    MaxUpserts = 2
    MaxFaults = 1
    MaxOverruns = 1
INVARIANTS
    TypeOK
    StaleIsExplained
    LockAdmits
PROPERTY
    EventuallyFresh
