\* The bytes have 3 bits, so that a register has 6 and a number up to 24.
CONSTANTS
    ByteBits = 3
    NotANumber = NotANumber
    None = None
    Configs <- MCConfigs
    Items <- MCItems
    Ranges <- MCRanges
    Formats <- MCFormats
    ItemFormats <- MCItemFormats
    Texts <- MCTexts
    Sizes <- MCSizes
    Garbled <- MCGarbled
    MaxAsks = 1
    MaxChanges = 1
    MaxFaults = 1
SPECIFICATION Spec
INVARIANTS
    AnswersAreTrue
    ShownIsStored
\* The user stops when the bounds are reached.
CHECK_DEADLOCK FALSE
