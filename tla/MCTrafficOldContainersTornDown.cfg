SPECIFICATION FairSpec
CONSTANTS
    MaxDeployments = 2
    Envs = {prod}
    Production = prod
    MaxUserOps = 0
    Lossy = FALSE
    Restarts = FALSE
    EdgeRole = "edge"
    NoRow = NoRow
CHECK_DEADLOCK FALSE
PROPERTY OldContainersTornDown
