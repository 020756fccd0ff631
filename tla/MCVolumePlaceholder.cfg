SPECIFICATION Spec
CONSTANTS
    Servers = {s1, s2}
    NoServer = NoServer
    First = s1
    MaxCalls = 2
    MaxSize = 2
    Overlap = TRUE
CHECK_DEADLOCK FALSE
INVARIANT PlaceholderNeverMoved
