SPECIFICATION MainFairSpec
CONSTANTS
    PostMayFail = TRUE
    UnhookMayFail = TRUE
CHECK_DEADLOCK FALSE
INVARIANTS
    LifecycleInv
    EndIsKnown
PROPERTIES
    ImplementsNativeResource
    ShutdownIsBounded
    StopEndsHook
