CONSTANTS
    c1 = c1
    c2 = c2
    q1 = q1
    NoClient = NoClient
    NoRequest = NoRequest
    Junk = Junk
    Clients = {c1, c2}
    Requests = {q1}
    TooLarge = {}
    Overflow = {}
    RepeatCount = 1
    BuffSz = 9
    ResponseLens = {3}
SPECIFICATION SerFairSpec
PROPERTIES
    GoodIsTimely
    CallsEnd
