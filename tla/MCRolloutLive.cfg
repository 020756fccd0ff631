SPECIFICATION FairSpec
CONSTANTS
    Servers = {s1, s2}
    NoServer = NoServer
    Cleanups = FALSE
CHECK_DEADLOCK FALSE
PROPERTIES
    TargetSettles
    PromotionFollows
