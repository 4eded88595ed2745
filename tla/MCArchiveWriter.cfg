SPECIFICATION Spec
CONSTANTS
    Names = {n1, n2, n3}
    Bytes <- MCBytes
    Data <- MCData
    MaxId = 2
    MaxRecords = 3
    FaultKinds = {"io", "short"}
    MaxFaults = 2
SYMMETRY Symmetry
INVARIANTS
    TypeOK
    IndexFaithful
    OffsetsAscending
    ContentVerifies
    SealedComplete
PROPERTIES
    EndedEntryFrozen
    ArchiveRefinesContract
CHECK_DEADLOCK FALSE
