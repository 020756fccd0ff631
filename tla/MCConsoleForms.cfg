SPECIFICATION Spec
CONSTANTS
    Cases <- MCCases
    Rows = {1, 2, 3}
    MaxTries = 4
INVARIANTS
    TypeOK
    WaitingIsAnswered
    ErrorIsCurrent
    ClosedIsBlank
    PlaintextWiped
