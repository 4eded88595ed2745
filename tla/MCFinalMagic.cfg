SPECIFICATION Spec
CONSTANTS
    NORMAL_CHUNK_PT_SIZE = 3
    TAG_LENGTH = 2
    CHUNK_HEAD_SIZE = 2
    MAGIC_LENGTH = 2
    CIPHER_BUF_SIZE = 2
    WriteSizes = {1, 3}
    MaxPlain = 4
    Sizes = {3}
    Moves <- MCMoves
INVARIANT
    MagicMarksTheEnd
CHECK_DEADLOCK FALSE
