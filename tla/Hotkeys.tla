------------------------------ MODULE Hotkeys ------------------------------
(***************************************************************************)
(* Key identities and shortcuts, as hotkeys.py defines them.  A virtual    *)
(* key is an element of VK.  A modifier family (Ctrl, Alt, Shift, Win) has *)
(* side-specific keys, MODIFIER_VKS[f]; a generic key such as VK_CONTROL   *)
(* belongs to its family without naming a side, and an event carries it    *)
(* only when key_identity.normalize_key_event could not resolve the side.  *)
(***************************************************************************)
EXTENDS FiniteSets

CONSTANTS
    VK,                    \* the virtual keys that events can carry
    MODIFIER_VKS,          \* family -> its side-specific keys
    GENERIC_MODIFIER_VKS,  \* generic key -> its family
    VK_LCONTROL, VK_RCONTROL,
    NoVK,                  \* Python's None where a key could be
    NoFamily               \* Python's None where a family could be

Families == DOMAIN MODIFIER_VKS

SUPPORTED_MODIFIER_VKS == UNION {MODIFIER_VKS[f] : f \in Families}

ALL_MODIFIER_VKS == SUPPORTED_MODIFIER_VKS \cup DOMAIN GENERIC_MODIFIER_VKS

\* The tables of hotkeys.py are consistent: a key is in one family at most,
\* a generic key is not a specific one, and the Ctrl keys are two of a family.
ASSUME KeyTablesAssumption ==
    /\ \A f \in Families : MODIFIER_VKS[f] \subseteq VK
    /\ \A f, g \in Families : f # g => MODIFIER_VKS[f] \cap MODIFIER_VKS[g] = {}
    /\ DOMAIN GENERIC_MODIFIER_VKS \subseteq VK \ SUPPORTED_MODIFIER_VKS
    /\ \A vk \in DOMAIN GENERIC_MODIFIER_VKS : GENERIC_MODIFIER_VKS[vk] \in Families
    /\ \E f \in Families : {VK_LCONTROL, VK_RCONTROL} \subseteq MODIFIER_VKS[f]
    /\ VK_LCONTROL # VK_RCONTROL
    /\ NoVK \notin VK
    /\ NoFamily \notin Families

FamilyOf(vk) ==
    IF vk \in SUPPORTED_MODIFIER_VKS
    THEN CHOOSE f \in Families : vk \in MODIFIER_VKS[f]
    ELSE IF vk \in DOMAIN GENERIC_MODIFIER_VKS
         THEN GENERIC_MODIFIER_VKS[vk]
         ELSE NoFamily

ActiveFamilies(pressed) ==
    {f \in Families :
        \/ pressed \cap MODIFIER_VKS[f] # {}
        \/ \E vk \in pressed \cap DOMAIN GENERIC_MODIFIER_VKS :
               GENERIC_MODIFIER_VKS[vk] = f}

-----------------------------------------------------------------------------
(* Shortcuts.  "modifiers" are families whose side does not matter,        *)
(* "exact_modifiers" name their sides; "release" is the standalone tap of  *)
(* one modifier.                                                           *)

Shortcut == [modifiers : SUBSET Families,
             trigger_vk : VK,
             exact_modifiers : SUBSET SUPPORTED_MODIFIER_VKS,
             activation_kind : {"trigger_down", "release"}]

ShortcutPair == [lock : Shortcut, unlock : Shortcut]

IsStandalone(s) == s.activation_kind = "release"

RequiredFamilies(s) ==
    s.modifiers \cup {f \in Families : s.exact_modifiers \cap MODIFIER_VKS[f] # {}}

Matches(s, pressed, trigger_vk) ==
    /\ ~IsStandalone(s)
    /\ trigger_vk = s.trigger_vk
    /\ ActiveFamilies(pressed) = RequiredFamilies(s)
    /\ \A f \in Families :
          LET exact == s.exact_modifiers \cap MODIFIER_VKS[f]
          IN  exact # {} => pressed \cap MODIFIER_VKS[f] = exact

\* The shortcuts that parse_shortcut and the recorder can produce.
Parsable(s) ==
    IF IsStandalone(s)
    THEN /\ s.trigger_vk \in SUPPORTED_MODIFIER_VKS
         /\ s.modifiers = {} /\ s.exact_modifiers = {}
    ELSE /\ s.trigger_vk \notin ALL_MODIFIER_VKS
         /\ \A f \in s.modifiers : s.exact_modifiers \cap MODIFIER_VKS[f] = {}
=============================================================================
