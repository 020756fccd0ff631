SPECIFICATION FairSpec
CONSTANTS
    Agents = {a1, a2}
    Streams = {s1, s2, s3}
    NoStream = NoStream
    Absent = Absent
    NoAgent = NoAgent
CHECK_DEADLOCK FALSE
INVARIANTS
    TypeOK
    NoGhostEntry
    NoDanglingStream
PROPERTY CleanConnectReachable
