SPECIFICATION Spec
CONSTANTS
    F24 = F24
    AltTab = AltTab
    NoHotkey = NoHotkey
    Hotkey = {F24, AltTab}
    Warned = {AltTab}
    DefaultHotkey = F24
    FoundFile <- MCFoundFile
    SavesFail = TRUE
    MaxLocks = 2
INVARIANTS
    WindowInv
    InForceIsSaved
PROPERTIES
    CandidateStaysInItsRow
    FileSurvives
