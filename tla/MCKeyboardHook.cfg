SPECIFICATION Spec
CONSTANTS
    c1 = c1
    c2 = c2
    Client <- MCClient
    MaxCommands = 2
    MaxSessions = 1
    MaxQueue = 1
    PostMayFail = TRUE
SYMMETRY MCSymmetry
CHECK_DEADLOCK FALSE
INVARIANTS
    ProtocolInv
    PublishedIsTrue
    ReconciledIsFinal
PROPERTY
    AckAfterPublish
