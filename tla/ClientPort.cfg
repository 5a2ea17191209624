CONSTANTS
    c1 = c1
    c2 = c2
    c3 = c3
    small = small
    large = large
    huge = huge
    NoClient = NoClient
    NoRequest = NoRequest
    Junk = Junk
    Clients = {c1, c2}
    Requests = {small, large, huge}
    TooLarge = {huge}
    Overflow = {large}
    RepeatCount = 2
SPECIFICATION Spec
INVARIANTS
    TypeOK
    PortIsOwned
PROPERTIES
    GoodIsForOwnRequest
    ChannelSpec
