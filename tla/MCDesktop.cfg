SPECIFICATION DSpec
CONSTANTS
    VK <- MCVK
    MODIFIER_VKS <- MCFamilies
    GENERIC_MODIFIER_VKS <- MCGeneric
    VK_LCONTROL = "LCTRL"
    VK_RCONTROL = "RCTRL"
    NoVK = "none"
    NoFamily = "none"
    ShortcutPairs <- MCPairs
    Key <- MCKey
    Idents <- MCIdents
    HeldAtStart <- MCHeldAtStart
    MayMiss <- MCMayMiss
INVARIANTS
    IInv
    NoStuckKey
PROPERTIES
    ImplementsCatMode
    ReleaseHeals
    DeliveryIsOrdered
    LockChangesAreMeant
    EmergencyUnlocks
    UnlockedIsTransparent
