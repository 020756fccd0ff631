SPECIFICATION FairSpec
CONSTANTS
    MaxDeployments = 2
    Envs = {prod, staging}
    Production = prod
    MaxUserOps = 2
    Lossy = FALSE
    Restarts = FALSE
    EdgeRole = "both"
    NoRow = NoRow
CHECK_DEADLOCK FALSE
PROPERTIES
    PromotedGetsRoute
