SPECIFICATION RFairSpec
CONSTANTS
    VK <- MCVK
    MODIFIER_VKS <- MCFamilies
    GENERIC_MODIFIER_VKS <- MCGeneric
    VK_LCONTROL = "LCTRL"
    VK_RCONTROL = "RCTRL"
    NoVK = NoVK
    NoFamily = NoFamily
    NoShortcut = NoShortcut
    VK_TO_NAME <- MCNamed
    SECURE_SHORTCUTS <- MCSecure
    ShortcutPairs <- MCTapPair
    Key <- MCKey
    Idents <- MCIdents
    Capacity = 1
    PollLimit = 1
    MaxSessions = 2
INVARIANTS
    RecordingInv
    CapturedIsPressed
PROPERTIES
    AcceptedIsWhole
    TypedIsNotObeyed
    RecordingEnds
