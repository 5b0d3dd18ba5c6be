SPECIFICATION Spec
CHECK_DEADLOCK FALSE
CONSTANTS
    s1 = s1
    s2 = s2
    s3 = s3
    Song <- Songs
    Libraries <- OneLibrary
    Modes <- AnyMode
    MaxQueue = 4
    Moves <- UserMoves
    OptionSet <- ClientOptions
    Loaded <- Ungrouped
    FileItems <- FileList
    MaxWindow = 1
    MaxInt = 7
INVARIANTS
    BlocksOnlyWhenFed
PROPERTIES
    MusicResumes
    SuspensionEnds
    SuspendedStaysSilent
