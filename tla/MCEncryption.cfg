SPECIFICATION Spec
CONSTANTS
    NORMAL_CHUNK_PT_SIZE = 3
    TAG_LENGTH = 2
    CHUNK_HEAD_SIZE = 2
    MAGIC_LENGTH = 2
    CIPHER_BUF_SIZE = 2
    WriteSizes = {1, 3}
    MaxPlain = 7
    Sizes = {0, 1, 3}
    Moves <- MCMoves
INVARIANTS
    KeystreamOnce
    OpensWholeStreamsOnly
    AuthenticUntilLost
    RecoveredEnough
PROPERTIES
    UndamagedServes
    LayerRefinesCursor
CHECK_DEADLOCK FALSE
