SPECIFICATION ConvertSpec
CONSTANTS
    Names = {n1, n2}
    Bytes <- MCBytes
    Data <- MCData
    MaxId = 5
    MaxRecords = 12
    FaultKinds = {"io"}
    MaxFaults = 1
    SourceIds = {0, 1}
    CACHE_SIZE = 2
    MaxLength = 3
    MaxBlocks = 5
INVARIANTS
    OutputInStep
    AllThatCouldBeRead
    FinishedIsAttested
    FailsOnlyWithOutput
PROPERTY
    ConversionReturns
