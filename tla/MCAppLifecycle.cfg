SPECIFICATION FairSpec
CONSTANTS
    MaxInputs = 3
    ShowMayRaise = FALSE
CHECK_DEADLOCK FALSE
INVARIANTS
    AppInv
PROPERTIES
    ActivationIsAnswered
    StartupIsShownOrReported
    PumpServes
    FailureEndsApplication
