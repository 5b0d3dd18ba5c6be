SPECIFICATION Spec
CHECK_DEADLOCK FALSE
CONSTANTS
    s1 = s1
    s2 = s2
    s3 = s3
    Song <- Songs
    Libraries <- AllLibraries
    Modes <- PlainMode
    MaxQueue = 4
    Moves <- LibraryMoves
    OptionSet <- LibraryOptions
    Loaded <- GroupedAccepted
    FileItems <- FileList
    MaxWindow = 1
    MaxInt = 7
INVARIANTS
    ChainIsFresh
    FileIsUndisturbed
PROPERTY
    ExitsOnUpdate
