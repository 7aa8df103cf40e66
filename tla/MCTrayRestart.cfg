SPECIFICATION Spec
CONSTANTS
    MaxUpdates = 1
    MaxOutside = 1
    MayFail = {}
CHECK_DEADLOCK FALSE
INVARIANTS
    RemainsUsable
