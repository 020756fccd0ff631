SPECIFICATION Spec
CONSTANTS
    MaxDeployments = 3
    Envs = {prod, staging}
    Production = prod
    MaxUserOps = 0
    Lossy = TRUE
    Restarts = TRUE
    EdgeRole = "both"
    NoRow = NoRow
CHECK_DEADLOCK FALSE
INVARIANTS
    TypeOK
    OrderlyPromotion
    EdgeServesNewest
