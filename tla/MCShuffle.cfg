SPECIFICATION HistorySpec
CONSTANTS
    Item = {song, group}
    MaxWindow = 2
    MaxItems = 5
    song = song
    group = group
INVARIANTS
    HistoryTypeOK
    NothingLostOrDuplicated
    WindowBounded
    WaitsInLine
PROPERTY KeepsPromise
