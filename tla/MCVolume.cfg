SPECIFICATION FairSpec
CONSTANTS
    Servers = {s1, s2}
    NoServer = NoServer
    First = s1
    MaxCalls = 3
    MaxSize = 2
    Overlap = FALSE
CONSTRAINT OnFirst
CHECK_DEADLOCK FALSE
INVARIANTS
    TypeOK
    UsableMeansData
    IdleIsSettled
    SnapshotsWhole
PROPERTY CallReturns
