SPECIFICATION Spec
CHECK_DEADLOCK FALSE
CONSTANTS
    s1 = s1
    s2 = s2
    s3 = s3
    Song <- Songs
    Libraries <- OneLibrary
    Modes <- AnyMode
    MaxQueue = 6
    Moves <- NoMoves
    OptionSet <- StreamOptions
    Loaded <- Grouped
    FileItems <- FileList
    MaxWindow = 1
    MaxInt = 7
INVARIANTS
    LoopTypeOK
    BlocksOnlyWhenFed
    NeverOverfills
PROPERTIES
    PlaysItsOwnSong
    MusicResumes
