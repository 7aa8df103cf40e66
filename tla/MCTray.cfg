SPECIFICATION FairSpec
CONSTANTS
    MaxUpdates = 2
    MaxOutside = 1
    MayFail = {"modify", "delete", "post"}
CHECK_DEADLOCK FALSE
INVARIANTS
    TrayInv
    EndIsKnown
PROPERTIES
    ImplementsNativeResource
    StopEndsTray
