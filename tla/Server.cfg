CONSTANTS
    s1 = s1
    k1 = k1
    k2 = k2
    d1 = d1
    slow = slow
    other = other
    NoRequest = NoRequest
    NoDevice = NoDevice
    Exception = Exception
    NoOutcome = NoOutcome
    Ports = {s1, k1, k2}
    Serial = {s1}
    Requests <- Asked
    Units = {slow, other}
    Devices = {d1}
    DeviceOf <- UnitMap
    DelayOf <- Delays
    Values = {0, 1}
    Asks <- AskedOn
    MaxDelay = 1
    MaxInput = 1
    ActionDevice = d1
SPECIFICATION FairSpec
INVARIANTS
    TypeOK
PROPERTIES
    ServiceSpec
    SerialDelayed
    DelaysEnd
