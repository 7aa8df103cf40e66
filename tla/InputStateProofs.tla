-------------------------- MODULE InputStateProofs --------------------------
(***************************************************************************)
(* What the keyboard state machine guarantees for every set of keys and    *)
(* every set of shortcuts.  IInv, the conjunction of the invariants, is    *)
(* inductive as it stands; the lemmas first settle the helpers of the tap  *)
(* tracker and of the release pairing, then there is one step per handler. *)
(***************************************************************************)
EXTENDS InputState, TLAPS

\* A reset or fresh tracker is well formed, inactive and cannot fire.
LEMMA FreshTapFacts ==
    ASSUME NEW vk \in VK \cup {NoVK}
    PROVE  /\ FreshTap(vk) \in TapState
           /\ FreshTap(vk).active = FALSE
           /\ FreshTap(vk).eligible = FALSE
           /\ FreshTap(vk).modifier_vk = vk
BY DEF FreshTap, TapState

LEMMA ResetTapFacts ==
    ASSUME NEW t \in TapState
    PROVE  /\ ResetTap(t) \in TapState
           /\ ResetTap(t).active = FALSE
           /\ ResetTap(t).eligible = FALSE
           /\ ResetTap(t).modifier_vk = t.modifier_vk
<1>1. t.modifier_vk \in VK \cup {NoVK}
  BY DEF TapState
<1>2. QED
  BY <1>1, FreshTapFacts DEF ResetTap

\* Bringing the tracker up to date for a shortcut keeps it as it was or
\* leaves one that is not counting.
LEMMA EnsureTapFacts ==
    ASSUME NEW t \in TapState, NEW s \in Shortcut
    PROVE  /\ EnsureTapFor(t, s) \in TapState
           /\ EnsureTapFor(t, s) = t
              \/ (~EnsureTapFor(t, s).active /\ ~EnsureTapFor(t, s).eligible)
           /\ IsStandalone(s) => EnsureTapFor(t, s).modifier_vk = s.trigger_vk
<1>1. s.trigger_vk \in VK
  BY DEF Shortcut
<1>2. QED
  BY <1>1, FreshTapFacts DEF EnsureTapFor

LEMMA CurrentShortcutType ==
    ASSUME TypeOK PROVE CurrentShortcut \in Shortcut
BY DEF TypeOK, ShortcutPair, CurrentShortcut, ShortcutFor

LEMMA EnsuredFacts ==
    ASSUME TypeOK
    PROVE  /\ Ensured \in TapState
           /\ Ensured = tap \/ (~Ensured.active /\ ~Ensured.eligible)
           /\ IsStandalone(CurrentShortcut) =>
                 Ensured.modifier_vk = CurrentShortcut.trigger_vk
<1>1. tap \in TapState
  BY DEF TypeOK
<1>2. CurrentShortcut \in Shortcut
  BY CurrentShortcutType
<1>3. QED
  BY <1>1, <1>2, EnsureTapFacts DEF Ensured

\* A first press spoils every tap but the one it starts with no key held.
LEMMA ObserveDownFacts ==
    ASSUME NEW t \in TapState, NEW vk \in VK, NEW hb \in SUBSET VK,
           t.active => t.modifier_vk \in hb,
           vk \notin hb
    PROVE  LET u == ObserveDown(t, vk, hb)
           IN  /\ u \in TapState
               /\ u.active => u.modifier_vk \in hb \cup {vk}
               /\ TapEligible(u, u.modifier_vk) =>
                     hb \cup {vk} = {u.modifier_vk}
<1>1. CASE t.modifier_vk = NoVK \/ (vk = t.modifier_vk /\ t.active)
  BY <1>1 DEF ObserveDown, TapState, TapEligible
<1>2. CASE ~(t.modifier_vk = NoVK \/ (vk = t.modifier_vk /\ t.active)) /\ vk = t.modifier_vk
  BY <1>2 DEF ObserveDown, TapState, TapEligible
<1>3. CASE ~(t.modifier_vk = NoVK \/ (vk = t.modifier_vk /\ t.active)) /\ vk # t.modifier_vk
  <2>1. ObserveDown(t, vk, hb) =
          [t EXCEPT !.disqualified = t.active \/ t.disqualified]
    BY <1>3 DEF ObserveDown
  <2>2. (t.active \/ t.disqualified) \in BOOLEAN
    BY DEF TapState
  <2>3. QED
    BY <2>1, <2>2 DEF TapState, TapEligible
<1>4. QED
  BY <1>1, <1>2, <1>3

\* After the release of vk no tracker that watches vk is still counting.
LEMMA ObserveUpFacts ==
    ASSUME NEW t \in TapState, NEW vk \in VK
    PROVE  /\ ObserveUp(t, vk) \in TapState
           /\ ObserveUp(t, vk) = t \/ ObserveUp(t, vk) = ResetTap(t)
           /\ ObserveUp(t, vk).active => ObserveUp(t, vk) = t /\ t.modifier_vk # vk
BY ResetTapFacts, KeyTablesAssumption DEF ObserveUp, TapState

\* A release concerns one virtual key: its own, or a pressed one of its family.
LEMMA ReleaseVKType ==
    ASSUME TypeOK, NEW ev \in VK
    PROVE  ReleaseVK(ev) \in VK
<1>1. ReleaseCandidates(ev) \subseteq VK
  BY DEF ReleaseCandidates, TypeOK
<1>2. QED
  BY <1>1 DEF ReleaseVK

-----------------------------------------------------------------------------
(* One lemma per handler of IInv /\ Next => IInv'. *)

\* The branches of a first press agree on all but the lock, the latches and
\* the tracker; IInv holds after it when those three are right.
LEMMA FirstPressFacts ==
    ASSUME IInv, NEW vk \in VK, FirstPress(vk)
    PROVE  /\ shortcuts' \in ShortcutPair
           /\ pressed' = pressed \cup {vk}
           /\ pressed' \subseteq VK /\ passed_down' \subseteq VK
           /\ suppressed_down' \subseteq VK
           /\ DispositionPartition'
           /\ recording' = recording
           /\ fail_open' \in BOOLEAN
<1>1. vk \notin pressed /\ pressed' = pressed \cup {vk}
  BY DEF FirstPress
<1>2. \/ suppressed_down' = suppressed_down \cup {vk} /\ passed_down' = passed_down
      \/ passed_down' = passed_down \cup {vk} /\ suppressed_down' = suppressed_down
  BY DEF FirstPress
<1>3. DispositionPartition'
  BY <1>1, <1>2 DEF IInv, DispositionPartition
<1>4. QED
  BY <1>1, <1>2, <1>3 DEF IInv, TypeOK, FirstPress

LEMMA FirstPressTap ==
    ASSUME IInv, NEW vk \in VK, vk \notin pressed
    PROVE  LET u == ObserveDown(Ensured, vk, pressed)
           IN  /\ u \in TapState
               /\ u.active => u.modifier_vk \in pressed \cup {vk}
               /\ TapEligible(u, u.modifier_vk) =>
                     pressed \cup {vk} = {u.modifier_vk}
<1>1. Ensured \in TapState
  BY EnsuredFacts DEF IInv
<1>2. Ensured.active => Ensured.modifier_vk \in pressed
  BY EnsuredFacts DEF IInv, TapHeldAlone
<1>3. pressed \in SUBSET VK
  BY DEF IInv, TypeOK
<1>4. QED
  BY <1>1, <1>2, <1>3, ObserveDownFacts

LEMMA DownPreserves ==
    ASSUME IInv, NEW vk \in VK, HandleDown(vk)
    PROVE  IInv'
<1>1. CASE DownRepeat(vk)
  <2>1. /\ Ensured \in TapState
        /\ Ensured = tap \/ (~Ensured.active /\ ~Ensured.eligible)
    BY EnsuredFacts DEF IInv
  <2>2. tap' = Ensured /\ pressed' = pressed
    BY <1>1 DEF DownRepeat, held
  <2>3. TapHeldAlone'
    BY <2>1, <2>2 DEF IInv, TapHeldAlone, TapEligible
  <2>4. QED
    BY <1>1, <2>1, <2>2, <2>3
    DEF DownRepeat, held, IInv, TypeOK, DispositionPartition,
        EmergencyLatchExact, LatchedAreHeld, RecordingOnlyUnlocked
<1>2. CASE DownEmergency(vk)
  <2>1. FirstPress(vk) /\ vk \notin pressed
    BY <1>2 DEF DownEmergency, FirstPress
  <2>2. ObserveDown(Ensured, vk, pressed) \in TapState
    BY <2>1, FirstPressTap
  <2>3. tap' \in TapState /\ tap'.active = FALSE /\ tap'.eligible = FALSE
    BY <1>2, <2>2, ResetTapFacts DEF DownEmergency
  <2>4. TapHeldAlone'
    BY <2>3 DEF TapHeldAlone, TapEligible
  <2>5. EmergencyLatchExact'
    BY <1>2, <2>1, FirstPressFacts DEF DownEmergency, EmergencyDue, EmergencyLatchExact
  <2>6. LatchedAreHeld' /\ RecordingOnlyUnlocked'
    BY <1>2, <2>1, FirstPressFacts
    DEF DownEmergency, IInv, LatchedAreHeld, RecordingOnlyUnlocked
  <2>7. TypeOK'
    BY <1>2, <2>1, <2>3, FirstPressFacts DEF DownEmergency, IInv, TypeOK
  <2>8. QED
    BY <2>1, <2>4, <2>5, <2>6, <2>7, FirstPressFacts DEF IInv
<1>3. CASE DownToggle(vk)
  <2>1. FirstPress(vk) /\ vk \notin pressed /\ tap' = ObserveDown(Ensured, vk, pressed)
    BY <1>3 DEF DownToggle, FirstPress
  <2>2. tap' \in TapState /\ TapHeldAlone'
    BY <2>1, FirstPressTap, FirstPressFacts DEF TapHeldAlone
  <2>3. EmergencyLatchExact'
    BY <1>3, <2>1, FirstPressFacts
    DEF DownToggle, ToggleDue, EmergencyDue, EmergencyLatchExact, IInv
  <2>4. LatchedAreHeld' /\ RecordingOnlyUnlocked'
    BY <1>3, <2>1, FirstPressFacts
    DEF DownToggle, ToggleDue, IInv, LatchedAreHeld, RecordingOnlyUnlocked
  <2>5. TypeOK'
    BY <1>3, <2>1, <2>2, FirstPressFacts DEF DownToggle, IInv, TypeOK
  <2>6. QED
    BY <2>1, <2>2, <2>3, <2>4, <2>5, FirstPressFacts DEF IInv
<1>4. CASE DownPlain(vk)
  <2>1. FirstPress(vk) /\ vk \notin pressed /\ tap' = ObserveDown(Ensured, vk, pressed)
    BY <1>4 DEF DownPlain, FirstPress
  <2>2. tap' \in TapState /\ TapHeldAlone'
    BY <2>1, FirstPressTap, FirstPressFacts DEF TapHeldAlone
  <2>3. EmergencyLatchExact'
    BY <1>4, <2>1, FirstPressFacts
    DEF DownPlain, EmergencyDue, EmergencyLatchExact, IInv
  <2>4. LatchedAreHeld' /\ RecordingOnlyUnlocked'
    BY <1>4, <2>1, FirstPressFacts
    DEF DownPlain, IInv, LatchedAreHeld, RecordingOnlyUnlocked
  <2>5. TypeOK'
    BY <1>4, <2>1, <2>2, FirstPressFacts DEF DownPlain, IInv, TypeOK
  <2>6. QED
    BY <2>1, <2>2, <2>3, <2>4, <2>5, FirstPressFacts DEF IInv
<1>5. QED
  BY <1>1, <1>2, <1>3, <1>4 DEF HandleDown

LEMMA UpPreserves ==
    ASSUME IInv, NEW ev \in VK, HandleUp(ev)
    PROVE  IInv'
<1> DEFINE vk == ReleaseVK(ev)
<1>1. vk \in VK
  BY ReleaseVKType DEF IInv
<1> HIDE DEF vk
<1>2. /\ tap' = ObserveUp(Ensured, vk)
      /\ pressed' = pressed \ {vk}
      /\ passed_down' = passed_down \ {vk}
      /\ suppressed_down' = suppressed_down \ {vk}
      /\ latched_triggers' = latched_triggers \ {vk}
      /\ emergency_latched' =
             (emergency_latched /\ vk \notin {VK_LCONTROL, VK_RCONTROL})
      /\ shortcuts' = shortcuts /\ recording' = recording /\ fail_open' = fail_open
  BY DEF HandleUp, Forget, LatchAfterUp, vk
<1>3. locked' \in BOOLEAN /\ (recording => locked' = locked)
  BY DEF HandleUp, Forget, LatchAfterUp, TapDue, IInv, TypeOK
<1>4. /\ Ensured \in TapState
      /\ Ensured = tap \/ (~Ensured.active /\ ~Ensured.eligible)
  BY EnsuredFacts DEF IInv
<1>5. /\ tap' \in TapState
      /\ tap'.active => tap' = tap /\ tap.modifier_vk # vk
      /\ tap'.eligible => tap'.active \/ tap' = Ensured
  BY <1>1, <1>2, <1>4, ObserveUpFacts, ResetTapFacts
<1>6. TapHeldAlone'
  BY <1>2, <1>5 DEF IInv, TapHeldAlone, TapEligible
<1>7. TypeOK'
  <2>1. emergency_latched' \in BOOLEAN
    BY <1>2
  <2>2. QED
    BY <1>2, <1>3, <1>5, <2>1 DEF IInv, TypeOK
<1>8. DispositionPartition' /\ LatchedAreHeld'
  BY <1>2 DEF IInv, DispositionPartition, LatchedAreHeld
<1>9. EmergencyLatchExact'
  BY <1>2 DEF IInv, EmergencyLatchExact
<1>10. RecordingOnlyUnlocked'
  BY <1>2, <1>3 DEF IInv, RecordingOnlyUnlocked
<1>11. QED
  BY <1>6, <1>7, <1>8, <1>9, <1>10 DEF IInv

LEMMA ReconcilePreserves ==
    ASSUME IInv, NEW t \in TapState, Reconcile(t)
    PROVE  IInv'
<1>1. tap' \in TapState /\ tap'.active = FALSE /\ tap'.eligible = FALSE
  BY ResetTapFacts DEF Reconcile
<1>2. TypeOK'
  BY <1>1 DEF Reconcile, IInv, TypeOK
<1>3. TapHeldAlone'
  BY <1>1 DEF TapHeldAlone, TapEligible
<1>4. QED
  BY <1>2, <1>3
  DEF Reconcile, IInv, DispositionPartition, EmergencyLatchExact,
      LatchedAreHeld, RecordingOnlyUnlocked

LEMMA CommandPreserves ==
    ASSUME IInv, Command
    PROVE  IInv'
<1>1. /\ tap \in TapState
      /\ ResetTap(tap) \in TapState
      /\ ResetTap(tap).active = FALSE
      /\ ResetTap(tap).eligible = FALSE
  BY ResetTapFacts DEF IInv, TypeOK
<1> USE DEF IInv, TypeOK, DispositionPartition, EmergencyLatchExact,
            LatchedAreHeld, RecordingOnlyUnlocked, held
<1>2. CASE EnterRecording
  <2>1. TapHeldAlone'
    BY <1>1, <1>2 DEF EnterRecording, TapHeldAlone, TapEligible
  <2>2. QED
    BY <1>1, <1>2, <2>1 DEF EnterRecording
<1>3. CASE ExitRecording
  <2>1. TapHeldAlone'
    BY <1>1, <1>3 DEF ExitRecording, TapHeldAlone, TapEligible
  <2>2. QED
    BY <1>1, <1>3, <2>1 DEF ExitRecording
<1>4. ASSUME NEW pair \in ShortcutPairs, ReplaceShortcut(pair) PROVE IInv'
  <2>1. pair \in ShortcutPair /\ pair.lock \in Shortcut
    BY ShortcutPairsAssumption DEF ShortcutPair
  <2>2. EnsureTapFor(ResetTap(tap), pair.lock) \in TapState
    BY <1>1, <2>1, EnsureTapFacts
  <2>3. tap' \in TapState /\ tap'.active = FALSE /\ tap'.eligible = FALSE
    BY <1>1, <1>4, <2>2, ResetTapFacts DEF ReplaceShortcut, LatchedAtInstall
  <2>4. TapHeldAlone'
    BY <2>3 DEF TapHeldAlone, TapEligible
  <2>5. shortcuts' \in ShortcutPair /\ latched_triggers' \subseteq pressed
    BY <1>4, <2>1 DEF ReplaceShortcut, LatchedAtInstall
  <2>6. QED
    BY <1>4, <2>3, <2>4, <2>5 DEF ReplaceShortcut, LatchedAtInstall
<1>5. ASSUME NEW value \in BOOLEAN, SetLocked(value) PROVE IInv'
  <2>1. TapHeldAlone'
    BY <1>1, <1>5 DEF SetLocked, TapHeldAlone, TapEligible
  <2>2. QED
    BY <1>1, <1>5, <2>1 DEF SetLocked
<1>6. CASE FailOpen
  BY <1>1, <1>6, ReconcilePreserves DEF FailOpen
<1>7. QED
  BY <1>2, <1>3, <1>4, <1>5, <1>6 DEF Command

-----------------------------------------------------------------------------
LEMMA InitIInv == Init => IInv
<1> SUFFICES ASSUME Init PROVE IInv
  OBVIOUS
<1>1. tap \in TapState /\ tap.active = FALSE /\ tap.eligible = FALSE
  BY FreshTapFacts DEF Init
<1>2. TypeOK
  BY <1>1, ShortcutPairsAssumption DEF Init, TypeOK
<1>3. TapHeldAlone
  BY <1>1 DEF TapHeldAlone, TapEligible
<1>4. EmergencyLatchExact
  BY DEF Init, EmergencyLatchExact
<1>5. QED
  BY <1>2, <1>3, <1>4
  DEF Init, IInv, DispositionPartition, LatchedAreHeld, RecordingOnlyUnlocked

LEMMA StepIInv == IInv /\ [Next]_istate => IInv'
<1> SUFFICES ASSUME IInv, [Next]_istate PROVE IInv'
  OBVIOUS
<1>1. ASSUME NEW vk \in VK, HandleUpUnpaired(vk) PROVE IInv'
  <2>1. Ensured \in TapState
    BY EnsuredFacts DEF IInv
  <2>2. QED
    BY <1>1, <2>1, ReconcilePreserves DEF HandleUpUnpaired
<1>2. CASE UNCHANGED istate
  BY <1>2
  DEF istate, IInv, TypeOK, DispositionPartition, EmergencyLatchExact,
      LatchedAreHeld, RecordingOnlyUnlocked, TapHeldAlone, TapEligible
<1>3. QED
  BY <1>1, <1>2, DownPreserves, UpPreserves, CommandPreserves DEF Next

\* Every reachable state satisfies IInv.
THEOREM Invariance == Spec => []IInv
<1>1. QED
  BY InitIInv, StepIInv, PTL DEF Spec

\* The fields of InputState keep their types.
THEOREM TypeCorrect == Spec => []TypeOK
<1>1. IInv => TypeOK
  BY DEF IInv
<1>2. QED
  BY <1>1, Invariance, PTL

\* Every held key has exactly one disposition, whatever the keys, the
\* shortcuts and the order of events and commands.
THEOREM PartitionCorrect == Spec => []DispositionPartition
<1>1. IInv => DispositionPartition
  BY DEF IInv
<1>2. QED
  BY <1>1, Invariance, PTL

\* The emergency latch is set exactly while both Ctrl keys are tracked: as soon
\* as one of them is not, pressing them both unlocks again.  The tracked keys
\* themselves may be stale (missed events).
THEOREM EmergencyLatchCorrect == Spec => []EmergencyLatchExact
<1>1. IInv => EmergencyLatchExact
  BY DEF IInv
<1>2. QED
  BY <1>1, Invariance, PTL

\* Recording never overlaps Cat Mode.
THEOREM RecordingCorrect == Spec => []RecordingOnlyUnlocked
<1>1. IInv => RecordingOnlyUnlocked
  BY DEF IInv
<1>2. QED
  BY <1>1, Invariance, PTL

\* A tap that can still fire has had its key held alone.
THEOREM TapCorrect == Spec => []TapHeldAlone
<1>1. IInv => TapHeldAlone
  BY DEF IInv
<1>2. QED
  BY <1>1, Invariance, PTL

\* No step of the engine revises the disposition of a key that stays held.
THEOREM DispositionIsKept == Spec => DispositionKept
<1>1. IInv /\ [Next]_istate =>
        [\A vk \in pressed \cap pressed' :
            (vk \in passed_down) <=> (vk \in passed_down')]_istate
  <2> SUFFICES ASSUME IInv, Next, NEW vk \in pressed \cap pressed'
               PROVE  (vk \in passed_down) <=> (vk \in passed_down')
    BY DEF istate
  <2>1. ASSUME NEW e \in VK, HandleDown(e)
        PROVE  (vk \in passed_down) <=> (vk \in passed_down')
    BY <2>1
    DEF HandleDown, DownRepeat, DownEmergency, DownToggle, DownPlain,
        FirstPress, held
  <2>2. ASSUME NEW e \in VK, HandleUp(e)
        PROVE  (vk \in passed_down) <=> (vk \in passed_down')
    <3>1. pressed' = pressed \ {ReleaseVK(e)} /\ passed_down' = passed_down \ {ReleaseVK(e)}
      BY <2>2 DEF HandleUp, Forget, LatchAfterUp
    <3>2. QED
      BY <3>1
  <2>3. ASSUME NEW t, Reconcile(t) PROVE FALSE
    BY <2>3 DEF Reconcile
  <2>4. CASE Command
    BY <2>3, <2>4
    DEF Command, EnterRecording, ExitRecording, ReplaceShortcut, LatchedAtInstall, SetLocked,
        FailOpen, held
  <2>5. QED
    BY <2>1, <2>2, <2>3, <2>4 DEF Next, HandleUpUnpaired
<1>2. QED
  BY <1>1, Invariance, PTL DEF Spec, DispositionKept

-----------------------------------------------------------------------------
(* Refinement: every step of the state machine is a step of CatMode.       *)

CatFate == [vk \in VK |-> FateOf(vk)]

\* The fate of one key reflects the two disposition sets.
LEMMA FateFacts ==
    ASSUME IInv, NEW vk \in VK
    PROVE  /\ CatFate[vk] = FateOf(vk)
           /\ vk \notin pressed <=> CatFate[vk] = "up"
BY DEF IInv, DispositionPartition, CatFate, FateOf

LEMMA DownRefines ==
    ASSUME IInv, NEW vk \in VK, HandleDown(vk)
    PROVE  Cat!Next \/ UNCHANGED <<locked, CatFate, fail_open>>
<1>1. CASE DownRepeat(vk)
  BY <1>1 DEF DownRepeat, held, CatFate, FateOf
<1>2. ASSUME FirstPress(vk)
      PROVE  CatFate' = [CatFate EXCEPT ![vk] =
                            IF DownSuppressed(vk) THEN "suppressed" ELSE "passed"]
  <2>1. vk \notin passed_down /\ vk \notin suppressed_down
    BY <1>2 DEF FirstPress, IInv, DispositionPartition
  <2>2. CASE DownSuppressed(vk)
    BY <1>2, <2>1, <2>2 DEF FirstPress, CatFate, FateOf
  <2>3. CASE ~DownSuppressed(vk)
    BY <1>2, <2>1, <2>3 DEF FirstPress, CatFate, FateOf
  <2>4. QED
    BY <2>2, <2>3
<1>3. ASSUME FirstPress(vk)
      PROVE  ~fail_open /\ CatFate[vk] = "up" /\ fail_open' = fail_open
  BY <1>3, FateFacts DEF FirstPress, HandleDown
<1>4. CASE DownEmergency(vk)
  <2>1. FirstPress(vk) /\ DownSuppressed(vk) /\ locked' = FALSE
    BY <1>4 DEF DownEmergency, FirstPress, DownSuppressed
  <2>2. Cat!Activate(vk)
    BY <1>2, <1>3, <2>1 DEF Cat!Activate, Cat!Decide, CatFate
  <2>3. QED
    BY <2>2 DEF Cat!Next
<1>5. CASE DownToggle(vk)
  <2>1. FirstPress(vk) /\ DownSuppressed(vk) /\ locked' = ~locked
    BY <1>5 DEF DownToggle, FirstPress, DownSuppressed
  <2>2. Cat!Activate(vk)
    BY <1>2, <1>3, <2>1 DEF Cat!Activate, Cat!Decide, CatFate
  <2>3. QED
    BY <2>2 DEF Cat!Next
<1>6. CASE DownPlain(vk)
  <2>1. FirstPress(vk) /\ (DownSuppressed(vk) <=> locked) /\ locked' = locked
    BY <1>6 DEF DownPlain, FirstPress, DownSuppressed
  <2>2. CatFate' = [CatFate EXCEPT ![vk] = IF locked THEN "suppressed" ELSE "passed"]
    BY <1>2, <2>1
  <2>3. Cat!Press(vk)
    BY <1>3, <2>1, <2>2 DEF Cat!Press, Cat!Decide, CatFate
  <2>4. QED
    BY <2>3 DEF Cat!Next
<1>7. QED
  BY <1>1, <1>4, <1>5, <1>6 DEF HandleDown

LEMMA UpRefines ==
    ASSUME IInv, NEW ev \in VK, HandleUp(ev)
    PROVE  Cat!Next \/ UNCHANGED <<locked, CatFate, fail_open>>
<1> DEFINE vk == ReleaseVK(ev)
<1>1. vk \in VK
  BY ReleaseVKType DEF IInv
<1>2. /\ passed_down' = passed_down \ {vk}
      /\ suppressed_down' = suppressed_down \ {vk}
      /\ fail_open' = fail_open /\ ~fail_open
      /\ locked' = IF TapDue(ev) THEN ~locked ELSE locked
  BY DEF HandleUp, Forget, LatchAfterUp
<1>3. TapDue(ev) => vk \in pressed
  <2>1. Ensured = tap \/ ~Ensured.active
    BY EnsuredFacts DEF IInv
  <2>2. TapDue(ev) => Ensured.active /\ vk = Ensured.modifier_vk
    BY DEF TapDue, TapEligible
  <2>3. QED
    BY <2>1, <2>2 DEF IInv, TapHeldAlone
<1>4. locked \in BOOLEAN /\ locked' \in BOOLEAN
  BY <1>2 DEF IInv, TypeOK
<1>5. CatFate' = [CatFate EXCEPT ![vk] = "up"]
  <2> HIDE DEF vk
  <2>1. QED
    BY <1>1, <1>2 DEF CatFate, FateOf
<1> HIDE DEF vk
<1>6. CASE vk \in pressed
  <2>1. CatFate[vk] # "up"
    BY <1>1, <1>6, FateFacts
  <2>2. Cat!Release(vk)
    BY <1>2, <1>4, <1>5, <2>1 DEF Cat!Release, Cat!Decide, CatFate
  <2>3. QED
    BY <1>1, <2>2 DEF Cat!Next
<1>7. CASE vk \notin pressed
  <2>1. locked' = locked
    BY <1>2, <1>3, <1>7
  <2>2. CatFate' = CatFate
    BY <1>1, <1>2, <1>7 DEF CatFate, FateOf, IInv, DispositionPartition
  <2>3. QED
    BY <1>2, <2>1, <2>2
<1>8. QED
  BY <1>6, <1>7

LEMMA ReconcileRefines ==
    ASSUME NEW t, Reconcile(t)
    PROVE  Cat!Next
<1>1. CatFate' = [vk \in VK |-> "up"]
  BY DEF Reconcile, CatFate, FateOf
<1>2. Cat!Abort
  BY <1>1 DEF Reconcile, Cat!Abort, CatFate
<1>3. QED
  BY <1>2 DEF Cat!Next

LEMMA CommandRefines ==
    ASSUME IInv, Command
    PROVE  Cat!Next \/ UNCHANGED <<locked, CatFate, fail_open>>
<1>1. CASE FailOpen
  BY <1>1, ReconcileRefines DEF FailOpen
<1>2. CASE ~FailOpen
  <2>1. held' = held
    BY <1>2 DEF Command, EnterRecording, ExitRecording, ReplaceShortcut, LatchedAtInstall, SetLocked, held
  <2>2. CatFate' = CatFate
    BY <2>1 DEF held, CatFate, FateOf
  <2>3. ~fail_open /\ fail_open' = fail_open
    BY <1>2 DEF Command, EnterRecording, ExitRecording, ReplaceShortcut, LatchedAtInstall, SetLocked
  <2>4. locked \in BOOLEAN /\ locked' \in BOOLEAN
    BY <1>2
    DEF Command, EnterRecording, ExitRecording, ReplaceShortcut, LatchedAtInstall, SetLocked, IInv, TypeOK
  <2>5. CASE locked' = locked
    BY <2>2, <2>3, <2>5
  <2>6. CASE locked' # locked
    <3>1. Cat!Switch
      BY <2>2, <2>3, <2>4, <2>6 DEF Cat!Switch, CatFate
    <3>2. QED
      BY <3>1 DEF Cat!Next
  <2>7. QED
    BY <2>5, <2>6
<1>3. QED
  BY <1>1, <1>2

\* InputState implements CatMode: a press is decided once, by the lock or as
\* an activation, and only its release, or the abort, ends the decision.
THEOREM Refinement == Spec => ImplementsCatMode
<1>1. Init => Cat!Init
  BY DEF Init, Cat!Init, FateOf
<1>2. IInv /\ [Next]_istate => [Cat!Next]_<<locked, CatFate, fail_open>>
  <2> SUFFICES ASSUME IInv, [Next]_istate
               PROVE  Cat!Next \/ UNCHANGED <<locked, CatFate, fail_open>>
    OBVIOUS
  <2>1. ASSUME NEW vk \in VK, HandleUpUnpaired(vk) PROVE Cat!Next
    BY <2>1, ReconcileRefines DEF HandleUpUnpaired
  <2>2. CASE UNCHANGED istate
    BY <2>2 DEF istate, CatFate, FateOf
  <2>3. QED
    BY <2>1, <2>2, DownRefines, UpRefines, CommandRefines DEF Next
<1>3. IInv /\ [Next]_istate => [Cat!Next]_(Cat!cvars)
  BY <1>2 DEF Cat!cvars, CatFate
<1>4. QED
  BY <1>1, <1>3, Invariance, PTL DEF Spec, ImplementsCatMode, Cat!Spec
=============================================================================
