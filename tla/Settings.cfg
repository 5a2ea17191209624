\* The user stops when the bounds are reached.
CHECK_DEADLOCK FALSE
SPECIFICATION Spec
CONSTANTS
    Devices = {d1, d2}
    None = None
    FirstDevice = d1
    SerialPorts <- MCSerialPorts
    PortNames <- MCPortNames
    Units <- MCUnits
    Garbage <- MCGarbage
    MaxObjects = 2
    MaxDialogs = 2
    MaxTyped = 1
    MaxUses = 3
INVARIANT TypeOK
PROPERTIES EditsKeep FileKeeps
