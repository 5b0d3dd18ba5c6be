SPECIFICATION MainSpec
CHECK_DEADLOCK FALSE
CONSTANTS
    s1 = s1
    s2 = s2
    Song <- Songs
    Libraries <- Whole
    Modes <- PlainMode
    MaxQueue = 4
    Moves <- SomeMoves
    OptionSet <- SuspendOptions
    Loaded <- LoadedSongs
    FileItems <- FileList
    MaxWindow = 1
    MaxInt = 7
    ReconnectTimeout = 2
    MaxItems = 6
PROPERTY
    StaysSuspended
