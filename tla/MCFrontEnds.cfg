SPECIFICATION Spec
CONSTANTS
    A = A
    B = B
    N1 = N1
    N2 = N2
    N3 = N3
    Bad = Bad
    S1 = S1
    P1 = P1
    P2 = P2
    StdinBytes = {A, B}
    MaxStdin = 7
    STDIN_BUFFER_SIZE = 4
    Separators <- MCSeparators
    NoSeparator = NoSeparator
    NameLists <- MCNameLists
    InvalidName = Bad
    NamesInOrder <- MCNamesInOrder
    MaxContent = 2
    MaxBlocks = 4
    FILE_WRITER_POOL_SIZE = 2
    NoBlock = NoBlock
    MaxItems = 2
    Seeds = {S1}
    PathComponents = {P1, P2}
    MaxPath = 2
    MaxKeyCommands = 3
    MaxKeyFailures = 1
    Words <- MCWords
    MaxWords = 4
    ENTRY_NAME_MAX_SIZE = 5
    CNames = {N1, N2}
    InvalidCName = Bad
    EntryVars = {1, 2}
    MaxBoxes = 6
    MaxCBlocks = 2
    PyNames = {N1, N2}
    MaxChunks = 2
    MaxWriters = 2
    NoObject = NoObject
INVARIANTS
    StdinSplitExact
    ExtractedExact
    CommandsAsAsked
    KeyFilesHold
    NamesRoundTrip
    CHandlesSafe
    PythonWriterOnce
PROPERTIES
    NothingOverwritten
CHECK_DEADLOCK FALSE
