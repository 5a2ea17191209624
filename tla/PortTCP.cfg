CONSTANTS
    c1 = c1
    c2 = c2
    small = small
    NoClient = NoClient
    NoRequest = NoRequest
    Junk = Junk
    Clients = {c1, c2}
    Requests = {small}
    TooLarge = {}
    Overflow = {}
    RepeatCount = 1
    Transactions = 3
    RequestLen = 2
    ResponseLens = {3}
    SplitPrefix = FALSE
    MaxExtra = 1
    MaxWriteErrors = 1
SPECIFICATION TcpFairSpec
INVARIANTS
    TcpTypeOK
    NothingLeftOver
PROPERTIES
    GoodIsOwnAnswer
    CallsEnd
