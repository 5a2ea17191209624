\* Items of one and two registers, merged in every order; two registers a message.
CONSTANTS
    Views <- Neighbours
    Writable <- Short
    Size = 4
    MaxCount = 2
    BuffSize = 3
    MaxWrites = 3
    None = None
    Failed = Failed
SPECIFICATION Spec
INVARIANTS
    TypeOK
    EditsLand
PROPERTIES
    ShownIsRead
    NewerStays
