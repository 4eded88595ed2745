SPECIFICATION ReadSpec
CONSTANTS
    Names = {n1, n2}
    Bytes <- MCBytes
    Data <- MCData
    MaxId = 2
    MaxRecords = 3
    FaultKinds = {"io"}
    MaxFaults = 1
    Sizes = {0, 2}
    Moves <- MCMoves
CONSTRAINT TornBound
SYMMETRY Symmetry
INVARIANTS
    RecursionEnds
    HashIsOfContent
    ErrorsNeedDamage
PROPERTIES
    ReaderRefinesCursor
CHECK_DEADLOCK FALSE
