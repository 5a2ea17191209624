CONSTANTS
    W = 3
    MaxBits = 7
    Sizes = {4, 6, 7}
    MaxCount = 5
    ActionOffsets = {0, 1, 5}
    TypeBytes = {1, 3}
    Watched = 4
    MaxChanges = 2
SPECIFICATION Spec
INVARIANTS
    TypeOK
    BitsAgree
    ShownIsCurrent
PROPERTIES
    ShownCatchesUp
