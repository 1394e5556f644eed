SPECIFICATION FairSpec
CONSTANTS
    r1 = r1  r2 = r2  r3 = r3  r4 = r4  r5 = r5
    balance = balance  create = create
    path1 = path1  path2 = path2  unknown = unknown
    user = user  address = address
    Requests = {r1, r2, r3, r4, r5}
    Handlers = {balance, create}
    RouteOf <- Routing
    NoRoute = NoRoute
    PathOf <- Paths
    UserOf <- Names
    NoHeader = NoHeader
    IpOf <- Addresses
    Created = {create}
    ThrownBy <- Exceptions
    Limit = 1
    Unexpected = Unexpected
    None = None
CHECK_DEADLOCK FALSE
INVARIANTS
    TypeOK
    CountedOnce
    ThrottledAreVisible
    ThrottledOnOwnAccount
PROPERTIES
    EveryRequestIsAnswered
