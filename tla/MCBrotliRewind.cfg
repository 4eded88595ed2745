SPECIFICATION Spec
CONSTANTS
    UNCOMPRESSED_DATA_SIZE = 3
    CELL_YIELD = 2
    WriteSizes = {1, 4}
    MaxPlain = 7
    Sizes = {4}
    Moves = {0}
    TRUNCATED_READER_BUFFER_INITIAL_SIZE = 10
INVARIANT
    NewStreamKept
CHECK_DEADLOCK FALSE
