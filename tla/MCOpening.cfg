SPECIFICATION Spec
CONSTANTS
    Archives <- MCArchives
    Configs <- MCConfigs
    Other <- MCOtherSecret
    Misread = {0, 1, 2, 4, 40}
    MaxShort = 1
    Sizes = {0, 3}
    Moves <- MCMoves
INVARIANTS
    OpensAsDocumented
    VerifiedIsSigned
    VerifiedStaysVerified
    CommittedKeyIsShared
PROPERTIES
    ViewIsExact
CHECK_DEADLOCK FALSE
