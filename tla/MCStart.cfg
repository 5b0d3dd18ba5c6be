SPECIFICATION MainSpec
CHECK_DEADLOCK FALSE
CONSTANTS
    s1 = s1
    s2 = s2
    Song <- Songs
    Libraries <- AnyLibrary
    Modes <- OneByOne
    MaxQueue = 6
    Moves <- StartMoves
    OptionSet <- StartOptions
    Loaded <- LoadedGroup
    FileItems <- FileList
    MaxWindow = 1
    MaxInt = 7
    ReconnectTimeout = 2
    MaxItems = 6
INVARIANTS
    MainTypeOK
    OnlyAddsThatMany
