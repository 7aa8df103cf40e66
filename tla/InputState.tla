----------------------------- MODULE InputState -----------------------------
(***************************************************************************)
(* The keyboard state machine of hotkeys.InputState with its               *)
(* modifier_tap.ModifierTapTracker, as the hook thread drives it: key      *)
(* events reach handle() one at a time while the fail-open gate is closed, *)
(* commands run between two events, and every failure of a handler ends in *)
(* KeyboardHook._reconcile_fail_open.                                      *)
(***************************************************************************)
EXTENDS ModifierTap

CONSTANTS ShortcutPairs   \* the pairs that can be installed

ASSUME ShortcutPairsAssumption ==
    /\ ShortcutPairs \subseteq ShortcutPair
    /\ \A p \in ShortcutPairs : Parsable(p.lock) /\ Parsable(p.unlock)

VARIABLES
    shortcuts,
    locked,
    pressed, passed_down, suppressed_down,
    latched_triggers,
    emergency_latched,
    recording,
    tap,         \* the tap tracker; modifier_vk = NoVK when there is none
    fail_open    \* KeyboardHook.fail_open: once set, handle() is not called

held == <<pressed, passed_down, suppressed_down>>
istate == <<shortcuts, locked, pressed, passed_down, suppressed_down,
            latched_triggers, emergency_latched, recording, tap, fail_open>>

-----------------------------------------------------------------------------
(* The shortcut in force, and the tracker that belongs to it. *)

ShortcutFor(pair, isLocked) == IF isLocked THEN pair.unlock ELSE pair.lock

CurrentShortcut == ShortcutFor(shortcuts, locked)

EnsureTapFor(t, s) ==
    IF ~IsStandalone(s) THEN FreshTap(NoVK)
    ELSE IF t.modifier_vk = s.trigger_vk THEN t
    ELSE FreshTap(s.trigger_vk)

Ensured == EnsureTapFor(tap, CurrentShortcut)

-----------------------------------------------------------------------------
(* _handle_down.  Each case below is one branch of the method. *)

EmergencyDue(vk) ==
    {VK_LCONTROL, VK_RCONTROL} \subseteq pressed \cup {vk} /\ ~emergency_latched

\* Mutant: the shortcut works while it is being recorded.
ToggleDueRecording(vk) ==
    /\ ~EmergencyDue(vk)
    /\ vk \notin latched_triggers
    /\ Matches(CurrentShortcut, pressed \cup {vk}, vk)

ToggleDue(vk) ==
    /\ ~EmergencyDue(vk)
    /\ ~recording
    /\ vk \notin latched_triggers
    /\ Matches(CurrentShortcut, pressed \cup {vk}, vk)

\* Mutants: the activating press is passed on; a repeat is passed on outside
\* Cat Mode although its press was suppressed; a chord is withheld although
\* it is being recorded.
DownSuppressedLockedOnly(vk) ==
    IF vk \in pressed THEN vk \notin passed_down \/ locked ELSE locked
DownSuppressedLateRepeat(vk) ==
    IF vk \in pressed THEN locked
    ELSE EmergencyDue(vk) \/ ToggleDue(vk) \/ locked
DownSuppressedRecorded(vk) ==
    IF vk \in pressed THEN vk \notin passed_down \/ locked
    ELSE \/ EmergencyDue(vk) \/ locked
         \/ Matches(CurrentShortcut, pressed \cup {vk}, vk)

DownSuppressed(vk) ==
    IF vk \in pressed THEN vk \notin passed_down \/ locked
    ELSE EmergencyDue(vk) \/ ToggleDue(vk) \/ locked

\* Mutant: a repeat withheld by Cat Mode revises what its press was.
DownRepeatRevised(vk) ==
    /\ vk \in pressed
    /\ tap' = Ensured
    /\ IF locked THEN passed_down' = passed_down \ {vk} ELSE UNCHANGED passed_down
    /\ suppressed_down' = pressed \ passed_down'
    /\ UNCHANGED <<shortcuts, locked, pressed, latched_triggers,
                   emergency_latched, recording, fail_open>>

\* A key that is already pressed is a repeat: only the tracker is brought up
\* to date.
DownRepeat(vk) ==
    /\ vk \in pressed
    /\ tap' = Ensured
    /\ UNCHANGED <<shortcuts, locked, held, latched_triggers,
                   emergency_latched, recording, fail_open>>

\* What the three branches of a first press share.
FirstPress(vk) ==
    /\ vk \notin pressed
    /\ pressed' = pressed \cup {vk}
    /\ IF DownSuppressed(vk)
       THEN suppressed_down' = suppressed_down \cup {vk} /\ UNCHANGED passed_down
       ELSE passed_down' = passed_down \cup {vk} /\ UNCHANGED suppressed_down
    /\ UNCHANGED <<shortcuts, recording, fail_open>>

DownEmergency(vk) ==
    /\ FirstPress(vk)
    /\ EmergencyDue(vk)
    /\ emergency_latched' = TRUE
    /\ locked' = FALSE
    /\ tap' = ResetTap(ObserveDown(Ensured, vk, pressed))
    /\ UNCHANGED latched_triggers

DownToggle(vk) ==
    /\ FirstPress(vk)
    /\ ToggleDue(vk)
    /\ latched_triggers' = latched_triggers \cup {vk}
    /\ locked' = ~locked
    /\ tap' = ObserveDown(Ensured, vk, pressed)
    /\ UNCHANGED emergency_latched

DownPlain(vk) ==
    /\ FirstPress(vk)
    /\ ~EmergencyDue(vk) /\ ~ToggleDue(vk)
    /\ tap' = ObserveDown(Ensured, vk, pressed)
    /\ UNCHANGED <<locked, latched_triggers, emergency_latched>>

HandleDown(vk) ==
    /\ ~fail_open
    /\ \/ DownRepeat(vk)
       \/ DownEmergency(vk)
       \/ DownToggle(vk)
       \/ DownPlain(vk)

-----------------------------------------------------------------------------
(* _handle_up.  A release whose key is not pressed is paired with the      *)
(* pressed key of its family, and raises when there are several.           *)

ReleaseCandidates(ev) ==
    IF ev \in pressed \/ FamilyOf(ev) = NoFamily THEN {}
    ELSE {vk \in pressed : FamilyOf(vk) = FamilyOf(ev)}

ReleaseAmbiguous(ev) == \E a, b \in ReleaseCandidates(ev) : a # b

\* Mutant: a release is never paired with another key of its family.
ReleaseVKUnpaired(ev) == ev

ReleaseVK(ev) ==
    IF ReleaseCandidates(ev) = {} THEN ev
    ELSE CHOOSE vk \in ReleaseCandidates(ev) : TRUE

\* Mutants: Cat Mode withholds every release; a suppressed press is forgotten
\* once Cat Mode has ended.
UpSuppressedWhenLocked(ev) == ReleaseVK(ev) \in suppressed_down \/ locked
UpSuppressedOnlyLocked(ev) == ReleaseVK(ev) \notin passed_down /\ locked

UpSuppressed(ev) ==
    LET vk == ReleaseVK(ev)
    IN  vk \in suppressed_down \/ (vk \notin passed_down /\ locked)

\* Mutants: only the left Ctrl key ends the latch; the latch waits for the
\* release of both.
LatchAfterUpLeft(vk) == emergency_latched /\ vk # VK_LCONTROL
LatchAfterUpBoth(vk) ==
    emergency_latched /\ {VK_LCONTROL, VK_RCONTROL} \cap (pressed \ {vk}) # {}

LatchAfterUp(vk) == emergency_latched /\ vk \notin {VK_LCONTROL, VK_RCONTROL}

\* The release ends a tap of the standalone modifier.  The event must name
\* the side itself (KeyEvent.is_resolved_modifier).
TapDue(ev) ==
    LET vk == ReleaseVK(ev)
    IN  /\ TapEligible(Ensured, vk)
        /\ ~recording
        /\ ~LatchAfterUp(vk)
        /\ IsStandalone(CurrentShortcut)
        /\ vk = CurrentShortcut.trigger_vk
        /\ ev \in SUPPORTED_MODIFIER_VKS

\* Mutants: the suppressed set keeps the key; a suppressed key stays pressed.
ForgetNotSuppressed(vk) ==
    /\ pressed' = pressed \ {vk} /\ passed_down' = passed_down \ {vk}
    /\ latched_triggers' = latched_triggers \ {vk}
    /\ UNCHANGED suppressed_down
ForgetOnlyPassed(vk) ==
    /\ pressed' = pressed \ ({vk} \cap passed_down)
    /\ passed_down' = passed_down \ {vk} /\ suppressed_down' = suppressed_down \ {vk}
    /\ latched_triggers' = latched_triggers \ {vk}

Forget(vk) ==
    /\ pressed' = pressed \ {vk}
    /\ passed_down' = passed_down \ {vk}
    /\ suppressed_down' = suppressed_down \ {vk}
    /\ latched_triggers' = latched_triggers \ {vk}

HandleUp(ev) ==
    LET vk == ReleaseVK(ev) IN
    /\ ~fail_open
    /\ ~ReleaseAmbiguous(ev)
    /\ tap' = ObserveUp(Ensured, vk)
    /\ Forget(vk)
    /\ emergency_latched' = LatchAfterUp(vk)
    /\ locked' = IF TapDue(ev) THEN ~locked ELSE locked
    /\ UNCHANGED <<shortcuts, recording, fail_open>>

-----------------------------------------------------------------------------
(* Commands, and the reconciliation that ends the engine's service. *)

\* A second ENTER_RECORDING during a session is refused by _begin_recording.
EnterRecording ==
    /\ ~fail_open
    /\ ~locked
    /\ ~recording
    /\ recording' = TRUE
    /\ tap' = ResetTap(tap)
    /\ UNCHANGED <<shortcuts, locked, held, latched_triggers,
                   emergency_latched, fail_open>>

\* Mutant: a tap that began in the recording may still fire.
ExitRecordingKeepsTap ==
    /\ ~fail_open
    /\ recording' = FALSE
    /\ UNCHANGED <<shortcuts, locked, held, latched_triggers,
                   emergency_latched, tap, fail_open>>

ExitRecording ==
    /\ ~fail_open
    /\ recording' = FALSE
    /\ tap' = ResetTap(tap)
    /\ UNCHANGED <<shortcuts, locked, held, latched_triggers,
                   emergency_latched, fail_open>>

\* Mutant: the new triggers are latched whether they are held or not.
LatchedAtInstallAll(pair) == {pair.lock.trigger_vk, pair.unlock.trigger_vk}

LatchedAtInstall(pair) == {pair.lock.trigger_vk, pair.unlock.trigger_vk} \cap pressed

\* REPLACE_SHORTCUT ends a recording before it asks the state machine, which
\* refuses while locked.  A new trigger that is already down starts latched.
ReplaceShortcut(pair) ==
    /\ ~fail_open
    /\ recording' = FALSE
    /\ IF locked
       THEN /\ tap' = ResetTap(tap)
            /\ UNCHANGED <<shortcuts, latched_triggers>>
       ELSE /\ shortcuts' = pair
            /\ latched_triggers' = LatchedAtInstall(pair)
            /\ tap' = ResetTap(EnsureTapFor(ResetTap(tap), pair.lock))
    /\ UNCHANGED <<locked, held, emergency_latched, fail_open>>

\* SET_LOCKED and TOGGLE; KeyboardHook._set_locked_command ends a recording
\* in both directions.
SetLocked(value) ==
    /\ ~fail_open
    /\ recording' = FALSE
    /\ tap' = ResetTap(tap)
    /\ locked' = value
    /\ UNCHANGED <<shortcuts, held, latched_triggers, emergency_latched, fail_open>>

\* set_locked(False) and reset_runtime() of _reconcile_fail_open.
Reconcile(t) ==
    /\ fail_open' = TRUE
    /\ locked' = FALSE
    /\ recording' = FALSE
    /\ pressed' = {} /\ passed_down' = {} /\ suppressed_down' = {}
    /\ latched_triggers' = {}
    /\ emergency_latched' = FALSE
    /\ tap' = ResetTap(t)
    /\ UNCHANGED shortcuts

FailOpen == Reconcile(tap)

\* The UnpairedKeyEvent reaches _callback, which fails open.
HandleUpUnpaired(ev) ==
    /\ ~fail_open
    /\ ReleaseAmbiguous(ev)
    /\ Reconcile(Ensured)

-----------------------------------------------------------------------------
Init ==
    /\ shortcuts \in ShortcutPairs
    /\ locked = FALSE
    /\ pressed = {} /\ passed_down = {} /\ suppressed_down = {}
    /\ latched_triggers = {}
    /\ emergency_latched = FALSE
    /\ recording = FALSE
    /\ tap = FreshTap(NoVK)
    /\ fail_open = FALSE

Command ==
    \/ EnterRecording
    \/ ExitRecording
    \/ \E pair \in ShortcutPairs : ReplaceShortcut(pair)
    \/ \E value \in BOOLEAN : SetLocked(value)
    \/ FailOpen

Next ==
    \/ \E vk \in VK : HandleDown(vk) \/ HandleUp(vk) \/ HandleUpUnpaired(vk)
    \/ Command

Spec == Init /\ [][Next]_istate

-----------------------------------------------------------------------------
(* Properties *)

\* The variables hold what the fields of InputState hold.
TypeOK ==
    /\ shortcuts \in ShortcutPair
    /\ locked \in BOOLEAN
    /\ pressed \subseteq VK /\ passed_down \subseteq VK /\ suppressed_down \subseteq VK
    /\ latched_triggers \subseteq VK
    /\ emergency_latched \in BOOLEAN
    /\ recording \in BOOLEAN
    /\ tap \in TapState
    /\ fail_open \in BOOLEAN

\* Every key the hook considers held has exactly one disposition: its press
\* was passed or it was suppressed (tests/test_input_state.py:195-197).
DispositionPartition ==
    /\ passed_down \cap suppressed_down = {}
    /\ passed_down \cup suppressed_down = pressed

\* The emergency latch is set exactly while both Ctrl keys are tracked as
\* held: a latch left behind would disable the emergency unlock for good.
EmergencyLatchExact ==
    emergency_latched <=> {VK_LCONTROL, VK_RCONTROL} \subseteq pressed

\* A latched trigger is a held key.  With DispositionPartition it makes the
\* latch test of _handle_down redundant: a trigger that reaches it is new.
LatchedAreHeld == latched_triggers \subseteq pressed

\* Recording and Cat Mode exclude each other, whichever of the eight ways in
\* and out of either is taken.
RecordingOnlyUnlocked == recording => ~locked

\* A tap that may still fire has its key held, and held alone: every other
\* press since, and every key held before, has spoiled it (modifier_tap.py).
TapHeldAlone ==
    /\ tap.active => tap.modifier_vk \in pressed
    /\ TapEligible(tap, tap.modifier_vk) => pressed = {tap.modifier_vk}

\* The bookkeeping as a whole, each part of which the next step of another
\* part relies on: a latch left out of step with the pressed set, a recording
\* under the lock or a tracker that outlives its key would spread.
IInv ==
    /\ TypeOK
    /\ DispositionPartition
    /\ EmergencyLatchExact
    /\ LatchedAreHeld
    /\ RecordingOnlyUnlocked
    /\ TapHeldAlone

\* What the hook decided for a key's press is never revised while the key is
\* held; only the defensive reset of fail-open forgets it.
DispositionKept ==
    [][\A vk \in pressed \cap pressed' :
          (vk \in passed_down) <=> (vk \in passed_down')]_istate

-----------------------------------------------------------------------------
(* Refinement of CatMode *)

FateOf(vk) == IF vk \in passed_down THEN "passed"
              ELSE IF vk \in suppressed_down THEN "suppressed"
              ELSE "up"

Cat == INSTANCE CatMode WITH
           cat <- locked,
           fate <- [vk \in VK |-> FateOf(vk)],
           open <- fail_open

\* The state machine keeps the engine's promise: whatever its latches, its
\* tap tracker and its release pairing do, every step of it is one CatMode
\* allows.
ImplementsCatMode == Cat!Spec
=============================================================================
