CONSTANTS
    a = a
    b = b
    N = 2
    ReadsOf <- TwoAndNone
    NoMessage = NoMessage
    WriteMessage = WriteMessage
    MaxTries = 1
    MaxSent = 1
    MaxWrites = 1
    MaxStops = 1
SPECIFICATION FairSpec
PROPERTY
    Served
