CONSTANTS
    a = a
    b = b
    N = 3
    ReadsOf <- OneBusy
    NoMessage = NoMessage
    WriteMessage = WriteMessage
    MaxTries = 1
    MaxSent = 2
    MaxWrites = 1
    MaxStops = 1
SPECIFICATION TurnsSpec
INVARIANTS
    TypeOK
    SentOnceInOrder
    OwnerIsExecuting
    TurnsAreFair
