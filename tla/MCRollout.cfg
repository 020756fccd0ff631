SPECIFICATION Spec
CONSTANTS
    Servers = {s1, s2}
    NoServer = NoServer
    Cleanups = TRUE
SYMMETRY Symmetry
CHECK_DEADLOCK FALSE
INVARIANTS
    TypeOK
    HealthyMeansAllReplicas
    ReadyNeverOvercounts
PROPERTY KeepsPromise
