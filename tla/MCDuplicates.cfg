SPECIFICATION MainSpec
CHECK_DEADLOCK FALSE
CONSTANTS
    s1 = s1
    s2 = s2
    Song <- Songs
    Libraries <- Whole
    Modes <- PlainMode
    MaxQueue = 4
    Moves <- OneBreak
    OptionSet <- LibraryOptions
    Loaded <- LoadedSongs
    FileItems <- FileList
    MaxWindow = 2
    MaxInt = 7
    ReconnectTimeout = 2
    MaxItems = 6
INVARIANT
    WindowIsUnique
