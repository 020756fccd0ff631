SPECIFICATION FairSpec
CONSTANTS
    Feeds = {"dialog", "detail", "build", "webDialog", "webBuild"}
    MaxEvents = 2
    Lossy = TRUE
INVARIANTS
    TypeOK
    NoEventTwice
    EndsLikeTheRun
PROPERTIES
    ConsoleEnds
    LogComplete
