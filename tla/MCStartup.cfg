SPECIFICATION StartupSpec
CHECK_DEADLOCK FALSE
CONSTANTS
    Arg <- Words
    Tag <- Tags
    TagNamed <- TagsNamed
    NumberIn <- Numbers
    TweakIn <- Tweaks
    ExcludeFile <- RuleFiles
    MaxInt = 10
    Tried <- CommandLines
    URI <- Uris
    Value <- Texts
    Matching <- Parts
    Passwords = {admin, reader, wrong}
    Accepted = {admin, reader}
    Sufficient = {admin}
    admin = admin
    reader = reader
    wrong = wrong
    HostPassword <- Hosts
    ReadAs <- LineAs
    Listings <- SongLists
    Files <- SomeFiles
INVARIANTS
    StartupTypeOK
    OptionsMeanTheArguments
    PendingRuleIsWhole
    ConnectedMeansPermitted
    AsksOnlyWithoutPassword
    LoadsWhatWasAsked
    NothingUnwanted
    StartsReady
PROPERTY
    AnswersOnce
