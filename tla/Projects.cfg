CONSTANTS
    Ports = {p1, p2}
    Devices = {d1, d2}
    Views = {v1}
    PortNames = {m1, m2, m3}
    DeviceNames = {n1, n2, n3}
    ViewNames = {l1, l2}
    None = None
    MaxViews <- ViewsOfEach
    MaxRows <- RowsOfEach
    MaxUnit = 2
    AskedUnits <- SomeUnits
    DefaultUnits <- AllUnits
SYMMETRY Symmetry
SPECIFICATION Spec
INVARIANTS
    TypeOK
    ReferencesAgree
    
PROPERTIES
    ReopenKeeps
