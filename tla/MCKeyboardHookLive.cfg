SPECIFICATION FairSpec
CONSTANTS
    c1 = c1
    c2 = c2
    Client <- MCClient
    MaxCommands = 1
    MaxSessions = 1
    MaxQueue = 1
    PostMayFail = FALSE
CHECK_DEADLOCK FALSE
PROPERTIES
    FailOpenReconciles
    Answered
