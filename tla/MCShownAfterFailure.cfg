SPECIFICATION Spec
CONSTANTS
    F24 = F24
    AltTab = AltTab
    NoHotkey = NoHotkey
    Hotkey = {F24, AltTab}
    Warned = {}
    DefaultHotkey = F24
    FoundFile <- MCNoFile
    SavesFail = TRUE
    MaxLocks = 0
PROPERTY SavesWhatIsShown
