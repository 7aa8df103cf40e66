-------------------------- MODULE ShortcutRecorder --------------------------
(***************************************************************************)
(* shortcut_recorder.ShortcutRecorder, a function of the events it is fed: *)
(* one attempt after another until a shortcut is captured.  An attempt     *)
(* that cannot become a shortcut is over only when every key is released.  *)
(***************************************************************************)
EXTENDS ModifierTap

CONSTANTS
    VK_TO_NAME,         \* the keys that have a name, and may be a trigger
    SECURE_SHORTCUTS,   \* <<families, trigger>> that Windows never gives away
    NoShortcut          \* no candidate yet

ASSUME RecorderAssumption ==
    /\ VK_TO_NAME \subseteq VK
    /\ NoShortcut \notin Shortcut

Recorder == [held : SUBSET VK, candidate : Shortcut \cup {NoShortcut},
             invalid : BOOLEAN, started : BOOLEAN, awaiting : BOOLEAN,
             tap : TapState]

\* Keys that are held already must be released first.
NewRecorder(heldKeys) ==
    [held |-> heldKeys, candidate |-> NoShortcut, invalid |-> FALSE,
     started |-> FALSE, awaiting |-> heldKeys # {}, tap |-> FreshTap(NoVK)]

TapShortcut(vk) ==
    [modifiers |-> {}, trigger_vk |-> vk, exact_modifiers |-> {},
     activation_kind |-> "release"]

ChordShortcut(pressed, vk) ==
    [modifiers |-> {}, trigger_vk |-> vk,
     exact_modifiers |-> pressed \cap SUPPORTED_MODIFIER_VKS,
     activation_kind |-> "trigger_down"]

\* shortcut_from_pressed_vks with validate_shortcut, for a trigger that is no
\* modifier: anything else is a ShortcutError.
Recordable(pressed, vk) ==
    /\ vk \in VK_TO_NAME
    /\ pressed \ SUPPORTED_MODIFIER_VKS = {vk}
    /\ <<RequiredFamilies(ChordShortcut(pressed, vk)), vk>> \notin SECURE_SHORTCUTS

\* Mutant: a rejected attempt may be continued at once.
RejectAtOnce(r) == [r EXCEPT !.invalid = TRUE]

Reject(r) == [r EXCEPT !.invalid = TRUE, !.awaiting = TRUE]

\* The first press after a rejected attempt, or of a new one, starts afresh.
StartAttempt(r) ==
    IF r.started /\ ~(r.invalid /\ ~r.awaiting /\ r.held = {}) THEN r
    ELSE [r EXCEPT !.started = TRUE, !.invalid = FALSE, !.tap = FreshTap(NoVK)]

ModifierDown(r, vk) ==
    IF vk \notin SUPPORTED_MODIFIER_VKS THEN Reject(r)
    ELSE LET tracker == IF r.tap.modifier_vk = NoVK THEN FreshTap(vk) ELSE r.tap
         IN  [r EXCEPT !.tap = ObserveDown(tracker, vk, r.held \ {vk})]

ConsumeDown(r, vk) ==
    LET now == [r EXCEPT !.held = @ \cup {vk}]
        attempt == [StartAttempt(r) EXCEPT !.held = @ \cup {vk}]
    IN  IF r.awaiting \/ vk \in r.held THEN now
        ELSE IF FamilyOf(vk) # NoFamily THEN ModifierDown(attempt, vk)
        ELSE IF Recordable(attempt.held, vk)
             THEN [attempt EXCEPT !.candidate = ChordShortcut(attempt.held, vk)]
             ELSE Reject(attempt)

\* Mutant: the last key that comes up is the tap.
TapCapturedAnyway(r, vk) ==
    vk \in SUPPORTED_MODIFIER_VKS /\ r.held \ {vk} = {}

TapCaptured(r, vk) ==
    /\ TapEligible(r.tap, vk)
    /\ vk \in SUPPORTED_MODIFIER_VKS
    /\ r.held \ {vk} = {}

ConsumeUp(r, vk) ==
    LET now == [r EXCEPT !.held = @ \ {vk}]
        watched == [now EXCEPT !.tap = ObserveUp(@, vk)]
    IN  IF r.awaiting THEN [now EXCEPT !.awaiting = now.held # {}]
        ELSE IF ~r.started \/ r.invalid THEN now
        ELSE IF TapCaptured(r, vk) THEN [watched EXCEPT !.candidate = TapShortcut(vk)]
        ELSE IF now.held = {} /\ r.tap.modifier_vk # NoVK
             THEN [watched EXCEPT !.started = FALSE]
             ELSE watched

\* A captured shortcut is final; the recorder only follows the keys.
Consume(r, vk, isDown) ==
    IF r.candidate # NoShortcut
    THEN [r EXCEPT !.held = IF isDown THEN @ \cup {vk} ELSE @ \ {vk}]
    ELSE IF isDown THEN ConsumeDown(r, vk) ELSE ConsumeUp(r, vk)
=============================================================================
