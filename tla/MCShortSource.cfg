SPECIFICATION Spec
CONSTANTS
    Names = {n1, n2, n3}
    Bytes <- MCBytes
    Data <- MCData
    MaxId = 2
    MaxRecords = 3
    FaultKinds = {"short"}
    MaxFaults = 1
INVARIANT
    BlockSizeIsContentSize
CHECK_DEADLOCK FALSE
