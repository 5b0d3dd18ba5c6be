SPECIFICATION Spec
CHECK_DEADLOCK FALSE
CONSTANTS
    s1 = s1
    s2 = s2
    s3 = s3
    Song <- Songs
    Libraries <- AcceptedLibraries
    Modes <- PlainMode
    MaxQueue = 4
    Moves <- OneLibraryMove
    OptionSet <- PlainOptions
    Loaded <- Ungrouped
    FileItems <- FileList
    MaxWindow = 1
    MaxInt = 7
PROPERTY
    MusicResumes
