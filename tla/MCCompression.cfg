SPECIFICATION Spec
CONSTANTS
    UNCOMPRESSED_DATA_SIZE = 2
    CELL_YIELD = 1
    WriteSizes = {1, 3}
    MaxPlain = 5
    Sizes = {1, 3}
    Moves <- MCMoves
    TRUNCATED_READER_BUFFER_INITIAL_SIZE = 10
INVARIANTS
    ReaderTypeOK
    RecoveredInOrder
PROPERTIES
    IndexServes
    LayerRefinesCursor
    ReadReturns
CHECK_DEADLOCK FALSE
