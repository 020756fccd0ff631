SPECIFICATION FairSpec
CONSTANTS
    MaxCalls = 2
    Cases <- MCCases
INVARIANTS
    TypeOK
    QuietIsCurrent
PROPERTIES
    CatchesUp
