--------------------------- MODULE DesktopProofs ---------------------------
(***************************************************************************)
(* The properties of Desktop, for every keyboard on which the pairing of   *)
(* releases is unambiguous.  None of them is inductive: they need that the *)
(* hook's record of the held keys (pressed, passed_down) agrees with the   *)
(* keys themselves, which is Tracked, and what the hook remembers of each  *)
(* hold, which is Desk.                                                    *)
(***************************************************************************)
EXTENDS Desktop, InputStateProofs

OnRecord(k, vk) == vk \in Idents[k] /\ (hold[k] = vk \/ k \in lost)

Tracked ==
    /\ IInv
    /\ hold \in [Key -> VK \cup {Up, Unseen}]
    \* A press that was seen is on record under the key's own identity.
    /\ \A k \in Key : SeenHeld(k) =>
          hold[k] \in Idents[k] /\ (fail_open \/ hold[k] \in pressed)
    \* A key goes unseen only where the assumptions expect it.
    /\ \A k \in Key : hold[k] = Unseen => k \in HeldAtStart \cup MayMiss
    \* A record belongs to a held key, or to one that has come up unseen.
    /\ lost \subseteq MayMiss
    /\ ~fail_open => \A vk \in pressed : \E k \in Key : OnRecord(k, vk)
    \* What the application takes to be down was passed and is held.
    /\ \A k \in appDown : /\ k \in Key /\ SeenHeld(k)
                          /\ fail_open \/ hold[k] \in passed_down

LEMMA IdentsType ==
    ASSUME NEW k \in Key, NEW vk \in Idents[k]
    PROVE  vk \in VK /\ vk # Up /\ vk # Unseen
BY KeyboardAssumption

LEMMA TrackedInit == DInit => Tracked
<1> SUFFICES ASSUME DInit PROVE Tracked
  OBVIOUS
<1>1. IInv /\ pressed = {}
  BY InitIInv DEF DInit, Init
<1>2. PICK down \in SUBSET HeldAtStart :
         hold = [k \in Key |-> IF k \in down THEN Unseen ELSE Up]
  BY DEF DInit
<1>3. \A k \in Key : ~SeenHeld(k)
  BY <1>2, KeyboardAssumption DEF SeenHeld
<1>4. \A k \in Key : hold[k] = Unseen => k \in HeldAtStart
  BY <1>2 DEF Up, Unseen
<1>5. QED
  BY <1>1, <1>2, <1>3, <1>4 DEF DInit, Tracked

-----------------------------------------------------------------------------
(* What a press or a repeat does to the records. *)

LEMMA DownRecords ==
    ASSUME IInv, NEW vk \in VK, HandleDown(vk)
    PROVE  /\ pressed' = pressed \cup {vk}
           /\ fail_open' = fail_open
           /\ passed_down \subseteq passed_down'
           /\ ~DownSuppressed(vk) => vk \in passed_down'
<1>1. CASE DownRepeat(vk)
  BY <1>1 DEF DownRepeat, DownSuppressed, held
<1>2. CASE FirstPress(vk)
  BY <1>2 DEF FirstPress
<1>3. QED
  BY <1>1, <1>2 DEF HandleDown, DownEmergency, DownToggle, DownPlain

LEMMA DownTracked ==
    ASSUME Tracked, PairingUnambiguous, NEW k \in Key, NEW vk \in Idents[k],
           NEW kind, hold[k] \in {Up, Unseen, vk}, DownEvent(k, vk, kind)
    PROVE  Tracked'
<1>1. vk \in VK /\ vk # Up /\ vk # Unseen
  BY IdentsType
<1>2. IInv'
  BY <1>1, DownPreserves, StepIInv DEF DownEvent, Tracked
<1>3. /\ hold' = [hold EXCEPT ![k] = vk] /\ hold' \in [Key -> VK \cup {Up, Unseen}]
      /\ lost' = lost
  BY <1>1 DEF DownEvent, Tracked
<1>4. \/ fail_open /\ fail_open' /\ pressed' = pressed
      \/ /\ ~fail_open /\ ~fail_open'
         /\ pressed' = pressed \cup {vk}
         /\ passed_down \subseteq passed_down'
         /\ ~DownSuppressed(vk) => vk \in passed_down'
  BY <1>1, DownRecords DEF DownEvent, Tracked, istate, HandleDown
<1>5. \A j \in Key : SeenHeld(j)' =>
          hold'[j] \in Idents[j] /\ (fail_open' \/ hold'[j] \in pressed')
  BY <1>3, <1>4 DEF SeenHeld, Tracked
<1>6. \A j \in Key : hold'[j] = Unseen => j \in HeldAtStart \cup MayMiss
  BY <1>1, <1>3 DEF Tracked
<1>7. ~fail_open' => \A w \in pressed' : \E j \in Key : OnRecord(j, w)'
  <2> SUFFICES ASSUME ~fail_open', NEW w \in pressed'
               PROVE  \E j \in Key : OnRecord(j, w)'
    OBVIOUS
  <2>1. CASE w = vk
    BY <1>3, <2>1 DEF Tracked, OnRecord
  <2>2. CASE w # vk
    <3>1. w \in pressed /\ w \in VK
      BY <1>4, <2>2 DEF Tracked, IInv, TypeOK
    <3>2. PICK j \in Key : OnRecord(j, w)
      BY <1>4, <3>1 DEF Tracked
    <3>3. w # Up /\ w # Unseen
      BY <3>1, KeyboardAssumption
    <3>4. hold[j] = w => j # k
      BY <2>2, <3>3
    <3>5. QED
      BY <1>3, <3>2, <3>4 DEF Tracked, OnRecord
  <2>3. QED
    BY <2>1, <2>2
<1>8. \A j \in appDown' : /\ j \in Key /\ SeenHeld(j)'
                          /\ fail_open' \/ hold'[j] \in passed_down'
  <2> SUFFICES ASSUME NEW j \in appDown'
               PROVE  /\ j \in Key /\ SeenHeld(j)'
                      /\ fail_open' \/ hold'[j] \in passed_down'
    OBVIOUS
  <2>1. j \in appDown \/ (j = k /\ (fail_open \/ ~DownSuppressed(vk)))
    BY DEF DownEvent
  <2>2. CASE j \in appDown
    <3>1. j = k => hold[k] = vk
      BY <2>2, KeyboardAssumption DEF Tracked, SeenHeld
    <3>2. QED
      BY <1>1, <1>3, <1>4, <2>2, <3>1 DEF Tracked, SeenHeld
  <2>3. CASE j = k /\ (fail_open \/ ~DownSuppressed(vk))
    BY <1>1, <1>3, <1>4, <2>3 DEF Tracked, SeenHeld
  <2>4. QED
    BY <2>1, <2>2, <2>3
<1>9. QED
  BY <1>2, <1>3, <1>5, <1>6, <1>7, <1>8 DEF Tracked

-----------------------------------------------------------------------------
(* Releases: the pairing finds the record of the released key, or none.    *)

\* The release of a key whose press was seen finds that press.
LEMMA ReleaseOfSeen ==
    ASSUME Tracked, PairingUnambiguous, ~fail_open,
           NEW k \in Key, NEW ev \in Idents[k], SeenHeld(k), ~ReleaseAmbiguous(ev)
    PROVE  ReleaseVK(ev) = hold[k]
<1>1. hold[k] \in Idents[k] /\ hold[k] \in pressed
  BY DEF Tracked
<1>2. CASE ev = hold[k]
  BY <1>1, <1>2 DEF ReleaseVK, ReleaseCandidates
<1>3. CASE ev # hold[k]
  <2>1. k \notin MayMiss
    BY <1>1, <1>3 DEF PairingUnambiguous
  <2>2. ev \notin pressed
    <3> SUFFICES ASSUME ev \in pressed PROVE FALSE
      OBVIOUS
    <3>1. PICK j \in Key : OnRecord(j, ev)
      BY DEF Tracked
    <3>2. j = k
      BY <3>1 DEF PairingUnambiguous, OnRecord
    <3>3. QED
      BY <1>3, <2>1, <3>1, <3>2 DEF OnRecord, Tracked
  <2>3. FamilyOf(hold[k]) = FamilyOf(ev) /\ FamilyOf(ev) # NoFamily
    BY <1>1, <1>3, KeyboardAssumption
  <2>4. hold[k] \in ReleaseCandidates(ev)
    BY <1>1, <2>2, <2>3 DEF ReleaseCandidates
  <2>5. \A a \in ReleaseCandidates(ev) : a = hold[k]
    BY <2>4 DEF ReleaseAmbiguous
  <2>6. QED
    BY <2>4, <2>5 DEF ReleaseVK
<1>4. QED
  BY <1>2, <1>3

\* A release never takes the record of another held key.
LEMMA ReleaseOfAnother ==
    ASSUME Tracked, PairingUnambiguous, ~fail_open,
           NEW k \in Key, NEW ev \in Idents[k], hold[k] # Up, ~ReleaseAmbiguous(ev),
           NEW j \in Key, j # k, SeenHeld(j)
    PROVE  ReleaseVK(ev) # hold[j]
<1>1. hold[j] \in Idents[j]
  BY DEF Tracked
<1>2. CASE SeenHeld(k)
  <2>1. ReleaseVK(ev) = hold[k]
    BY <1>2, ReleaseOfSeen
  <2>2. hold[k] \in Idents[k]
    BY <1>2 DEF Tracked
  <2>3. QED
    BY <1>1, <2>1, <2>2 DEF PairingUnambiguous
<1>3. CASE ~SeenHeld(k)
  <2>1. hold[k] = Unseen
    BY <1>3 DEF Tracked, SeenHeld
  <2>2. k \in HeldAtStart \cup MayMiss
    BY <2>1 DEF Tracked
  <2>3. FamilyOf(hold[j]) = FamilyOf(ev) => FamilyOf(ev) = NoFamily
    BY <1>1, <2>2 DEF PairingUnambiguous
  <2>4. CASE ReleaseCandidates(ev) = {}
    BY <1>1, <2>4 DEF ReleaseVK, PairingUnambiguous
  <2>5. CASE ReleaseCandidates(ev) # {}
    <3>1. ReleaseVK(ev) \in ReleaseCandidates(ev)
      BY <2>5 DEF ReleaseVK
    <3>2. FamilyOf(ReleaseVK(ev)) = FamilyOf(ev) /\ FamilyOf(ev) # NoFamily
      BY <3>1 DEF ReleaseCandidates
    <3>3. QED
      BY <2>3, <3>2
  <2>6. QED
    BY <2>4, <2>5
<1>4. QED
  BY <1>2, <1>3

LEMMA ReleaseTracked ==
    ASSUME Tracked, PairingUnambiguous, NEW k \in Key, ReleaseKey(k)
    PROVE  Tracked'
<1>1. PICK ev \in Idents[k] :
        /\ hold[k] # Up
        /\ IF fail_open THEN UNCHANGED istate
           ELSE HandleUp(ev) \/ HandleUpUnpaired(ev)
        /\ appDown' = IF fail_open \/ ReleaseAmbiguous(ev) \/ ~UpSuppressed(ev)
                      THEN appDown \ {k} ELSE appDown
        /\ hold' = [hold EXCEPT ![k] = Up]
        /\ lost' = lost \ {k}
  BY DEF ReleaseKey
<1>2. ev \in VK
  BY IdentsType
<1>3. IInv'
  BY <1>1, <1>2, StepIInv DEF Next, Tracked
<1>4. hold' \in [Key -> VK \cup {Up, Unseen}] /\ ~SeenHeld(k)'
  BY <1>1, KeyboardAssumption DEF Tracked, SeenHeld
<1>5. \A j \in Key : hold'[j] = Unseen => j \in HeldAtStart \cup MayMiss
  BY <1>1 DEF Tracked, Up, Unseen
<1>6. CASE fail_open
  <2>1. fail_open' /\ pressed' = pressed /\ appDown' = appDown \ {k}
    BY <1>1, <1>6 DEF istate
  <2>2. QED
    BY <1>1, <1>3, <1>4, <1>5, <2>1 DEF Tracked, SeenHeld
<1>7. CASE ~fail_open /\ HandleUpUnpaired(ev)
  <2>1. fail_open' /\ pressed' = {} /\ appDown' = appDown \ {k}
    BY <1>1, <1>7 DEF HandleUpUnpaired, Reconcile
  <2>2. QED
    BY <1>1, <1>3, <1>4, <1>5, <2>1 DEF Tracked, SeenHeld
<1>8. CASE ~fail_open /\ HandleUp(ev)
  <2> DEFINE vk == ReleaseVK(ev)
  <2>1. /\ ~ReleaseAmbiguous(ev)
        /\ pressed' = pressed \ {vk} /\ passed_down' = passed_down \ {vk}
        /\ fail_open' = fail_open
    BY <1>8 DEF HandleUp, Forget, LatchAfterUp
  <2>2. SeenHeld(k) => vk = hold[k]
    BY <1>8, <2>1, ReleaseOfSeen
  <2>3. \A j \in Key \ {k} : SeenHeld(j) => vk # hold[j]
    BY <1>1, <1>8, <2>1, ReleaseOfAnother
  <2>4. k \notin appDown'
    <3>1. CASE k \in appDown
      <4>1. SeenHeld(k) /\ hold[k] \in passed_down
        BY <1>8, <3>1 DEF Tracked
      <4>2. ~UpSuppressed(ev)
        BY <2>2, <4>1 DEF UpSuppressed, Tracked, IInv, DispositionPartition
      <4>3. QED
        BY <1>1, <4>2
    <3>2. CASE k \notin appDown
      BY <1>1, <3>2
    <3>3. QED
      BY <3>1, <3>2
  <2> HIDE DEF vk
  <2>5. \A j \in Key : SeenHeld(j)' => j # k /\ SeenHeld(j) /\ hold'[j] = hold[j]
    BY <1>1, <1>4 DEF Tracked, SeenHeld
  <2>6. \A j \in Key : SeenHeld(j)' =>
            hold'[j] \in Idents[j] /\ (fail_open' \/ hold'[j] \in pressed')
    BY <1>8, <2>1, <2>3, <2>5 DEF Tracked
  <2>7. \A w \in pressed' : \E j \in Key : OnRecord(j, w)'
    <3> SUFFICES ASSUME NEW w \in pressed'
                 PROVE  \E j \in Key : OnRecord(j, w)'
      OBVIOUS
    <3>1. PICK j \in Key : OnRecord(j, w)
      BY <1>8, <2>1 DEF Tracked
    <3>2. w \in VK
      BY <2>1 DEF Tracked, IInv, TypeOK
    <3>3. CASE j = k
      <4>1. hold[k] # w
        BY <2>1, <2>2, <3>2 DEF SeenHeld
      <4>2. k \in MayMiss /\ w \in Idents[k]
        BY <3>1, <3>3, <4>1 DEF OnRecord, Tracked
      <4>3. w = ev /\ ev \in pressed
        BY <2>1, <4>2 DEF PairingUnambiguous
      <4>4. ReleaseVK(ev) = ev
        BY <4>3 DEF ReleaseVK, ReleaseCandidates
      <4>5. QED
        BY <2>1, <4>3, <4>4 DEF vk
    <3>4. CASE j # k
      BY <1>1, <3>1, <3>4 DEF Tracked, OnRecord
    <3>5. QED
      BY <3>3, <3>4
  <2>8. \A j \in appDown' : /\ j \in Key /\ SeenHeld(j)'
                            /\ fail_open' \/ hold'[j] \in passed_down'
    BY <1>1, <2>1, <2>3, <2>4 DEF Tracked, SeenHeld
  <2>9. QED
    BY <1>1, <1>3, <1>4, <1>5, <2>6, <2>7, <2>8 DEF Tracked
<1>9. QED
  BY <1>1, <1>6, <1>7, <1>8

-----------------------------------------------------------------------------
LEMMA MissedTracked ==
    ASSUME Tracked, NEW k \in Key, MissedChange(k)
    PROVE  Tracked'
<1>1. /\ k \in MayMiss
      /\ hold' = [hold EXCEPT ![k] = IF hold[k] = Up THEN Unseen ELSE Up]
      /\ appDown' = appDown \ {k}
      /\ lost' = lost \cup {k}
      /\ UNCHANGED istate
  BY DEF MissedChange
<1>2. IInv'
  BY <1>1, StepIInv DEF Tracked
<1>3. /\ hold' \in [Key -> VK \cup {Up, Unseen}]
      /\ \A j \in Key : SeenHeld(j)' => j # k /\ SeenHeld(j) /\ hold'[j] = hold[j]
  BY <1>1, KeyboardAssumption DEF Tracked, SeenHeld
<1>4. \A j \in appDown' : /\ j \in Key /\ SeenHeld(j)'
                          /\ fail_open' \/ hold'[j] \in passed_down'
  BY <1>1 DEF Tracked, SeenHeld, istate
<1>5. ~fail_open' => \A w \in pressed' : \E j \in Key : OnRecord(j, w)'
  BY <1>1 DEF Tracked, OnRecord, istate
<1>6. QED
  BY <1>1, <1>2, <1>3, <1>4, <1>5 DEF Tracked, istate

LEMMA CommandTracked ==
    ASSUME Tracked, EngineCommand
    PROVE  Tracked'
<1>1. Command /\ hold' = hold /\ appDown' = appDown /\ lost' = lost
  BY DEF EngineCommand
<1>2. IInv'
  BY <1>1, CommandPreserves DEF Tracked
<1>3. \/ pressed' = pressed /\ passed_down' = passed_down /\ fail_open' = fail_open
      \/ pressed' = {} /\ fail_open'
  BY <1>1
  DEF Command, EnterRecording, ExitRecording, ReplaceShortcut, LatchedAtInstall, SetLocked,
      FailOpen, Reconcile, held
<1>4. QED
  BY <1>1, <1>2, <1>3 DEF Tracked, SeenHeld, OnRecord

LEMMA TrackedStep ==
    ASSUME Tracked, PairingUnambiguous, [DNext]_dvars
    PROVE  Tracked'
<1>1. ASSUME NEW k \in Key, PressKey(k) PROVE Tracked'
  BY <1>1, DownTracked DEF PressKey
<1>2. ASSUME NEW k \in Key, RepeatKey(k) PROVE Tracked'
  <2>1. CASE SeenHeld(k) /\ DownEvent(k, hold[k], "repeat")
    <3>1. hold[k] \in Idents[k]
      BY <2>1 DEF Tracked
    <3>2. QED
      BY <2>1, <3>1, DownTracked
  <2>2. CASE hold[k] = Unseen /\ \E vk \in Idents[k] : DownEvent(k, vk, "repeat")
    BY <2>2, DownTracked
  <2>3. QED
    BY <1>2, <2>1, <2>2 DEF RepeatKey
<1>3. CASE UNCHANGED dvars
  <2>1. UNCHANGED istate /\ UNCHANGED env
    BY <1>3 DEF dvars
  <2>2. IInv'
    BY <2>1, StepIInv DEF Tracked
  <2>3. QED
    BY <2>1, <2>2 DEF Tracked, SeenHeld, OnRecord, istate, env
<1>4. QED
  BY <1>1, <1>2, <1>3, ReleaseTracked, MissedTracked, CommandTracked DEF DNext

-----------------------------------------------------------------------------
(* What the application gets, and what changes the lock.                   *)

\* A press that was passed is down for the application, unless the secure desktop
\* came in between.
PassedIsDown ==
    ~fail_open => \A k \in Key \ lost :
        SeenHeld(k) /\ hold[k] \in passed_down => k \in appDown

\* A hold that has changed the lock cannot do so again: its key is no modifier, or
\* no tap of it is under way.
HoldIsSettled ==
    \A k \in changed :
        /\ k \in Key /\ SeenHeld(k)
        /\ \/ fail_open
           \/ hold[k] \notin ALL_MODIFIER_VKS
           \/ ~(tap.modifier_vk = hold[k] /\ tap.active)

\* A tap that may still fire is that of a key held alone.
TapIsAlones ==
    ~fail_open => \A k \in Key \ lost : TapEligible(tap, hold[k]) => k \in alone

Desk ==
    /\ Tracked /\ PassedIsDown /\ HoldIsSettled /\ TapIsAlones
    /\ shortcuts \in ShortcutPairs
    /\ fail_open => pressed = {}

\* Only a key itself carries its identities, so what is tracked under one of them
\* is the press of that key, or what was left of it on the secure desktop.
LEMMA OwnRecord ==
    ASSUME Tracked, PairingUnambiguous, ~fail_open,
           NEW k \in Key, NEW vk \in Idents[k], vk \in pressed
    PROVE  hold[k] = vk \/ k \in lost
<1>1. PICK j \in Key : OnRecord(j, vk)
  BY DEF Tracked
<1>2. j = k
  BY <1>1 DEF PairingUnambiguous, OnRecord
<1>3. QED
  BY <1>1, <1>2 DEF OnRecord

LEMMA CtrlFamily ==
    /\ VK_LCONTROL \in VK /\ VK_RCONTROL \in VK
    /\ FamilyOf(VK_LCONTROL) = FamilyOf(VK_RCONTROL) /\ FamilyOf(VK_LCONTROL) # NoFamily
<1>1. PICK f \in Families : {VK_LCONTROL, VK_RCONTROL} \subseteq MODIFIER_VKS[f]
  BY KeyTablesAssumption
<1>2. ASSUME NEW vk \in MODIFIER_VKS[f] PROVE FamilyOf(vk) = f
  <2>1. vk \in SUPPORTED_MODIFIER_VKS
    BY <1>1 DEF SUPPORTED_MODIFIER_VKS
  <2>2. \A g \in Families : vk \in MODIFIER_VKS[g] => g = f
    BY <1>1, KeyTablesAssumption
  <2>3. QED
    BY <1>1, <2>1, <2>2 DEF FamilyOf
<1>3. QED
  BY <1>1, <1>2, KeyTablesAssumption

\* Neither Ctrl key can change unseen, on a keyboard that has both.
LEMMA CtrlIsSeen ==
    ASSUME PairingUnambiguous, NEW j \in Key, NEW k \in Key, j # k,
           NEW v \in {VK_LCONTROL, VK_RCONTROL}, NEW w \in {VK_LCONTROL, VK_RCONTROL},
           v \in Idents[j], w \in Idents[k]
    PROVE  j \notin HeldAtStart \cup MayMiss /\ k \notin HeldAtStart \cup MayMiss
<1>1. FamilyOf(v) = FamilyOf(w) /\ FamilyOf(v) # NoFamily
  BY CtrlFamily
<1>2. QED
  BY <1>1 DEF PairingUnambiguous

\* How the two Ctrl keys come to be down.
LEMMA ChordCompleted ==
    ASSUME Tracked, PairingUnambiguous, DNext, ~BothCtrlHeld, BothCtrlHeld', ~fail_open
    PROVE  \E k \in Key, kind \in {"down", "repeat"} :
           \E vk \in Idents[k] \cap {VK_LCONTROL, VK_RCONTROL} :
              /\ DownEvent(k, vk, kind)
              /\ vk \notin pressed
              /\ {VK_LCONTROL, VK_RCONTROL} \subseteq pressed \cup {vk}
<1>1. \A v \in {VK_LCONTROL, VK_RCONTROL} : v \in VK /\ v # Up /\ v # Unseen
  BY CtrlFamily, KeyboardAssumption
<1>2. hold \in [Key -> VK \cup {Up, Unseen}]
  BY DEF Tracked
<1>3. ASSUME NEW k \in Key, NEW x, x \notin {VK_LCONTROL, VK_RCONTROL},
             hold' = [hold EXCEPT ![k] = x]
      PROVE  FALSE
  <2>1. \A v \in {VK_LCONTROL, VK_RCONTROL} : \A j \in Key : hold'[j] = v => hold[j] = v
    BY <1>2, <1>3
  <2>2. QED
    BY <2>1 DEF BothCtrlHeld
<1>4. hold' # hold
  BY DEF BothCtrlHeld
<1>5. PICK k \in Key, kind \in {"down", "repeat"} : \E vk \in Idents[k] : DownEvent(k, vk, kind)
  <2>1. ASSUME NEW k \in Key, ReleaseKey(k) \/ MissedChange(k) PROVE FALSE
    <3>1. hold' = [hold EXCEPT ![k] = Up] \/ hold' = [hold EXCEPT ![k] = Unseen]
      BY <2>1 DEF ReleaseKey, MissedChange
    <3>2. QED
      BY <1>1, <1>3, <3>1
  <2>2. ~EngineCommand
    BY <1>4 DEF EngineCommand
  <2>3. PICK k \in Key : PressKey(k) \/ RepeatKey(k)
    BY <2>1, <2>2 DEF DNext
  <2>4. SeenHeld(k) => hold[k] \in Idents[k]
    BY DEF Tracked
  <2>5. QED
    BY <2>3, <2>4 DEF PressKey, RepeatKey
<1>6. PICK vk \in Idents[k] : DownEvent(k, vk, kind) /\ hold' = [hold EXCEPT ![k] = vk]
  BY <1>5 DEF DownEvent
<1>7. vk \in {VK_LCONTROL, VK_RCONTROL} /\ hold[k] # vk
  <2>1. hold[k] # vk
    BY <1>2, <1>4, <1>6
  <2>2. QED
    BY <1>3, <1>6, <2>1
<1>8. PICK w \in {VK_LCONTROL, VK_RCONTROL} :
          w # vk /\ {VK_LCONTROL, VK_RCONTROL} = {w, vk}
  BY <1>7, KeyTablesAssumption
<1>9. PICK j \in Key : j # k /\ hold[j] = w
  <2>1. PICK j \in Key : hold'[j] = w
    BY <1>8 DEF BothCtrlHeld
  <2>2. QED
    BY <1>2, <1>6, <1>8, <2>1
<1>10. SeenHeld(j) /\ w \in Idents[j] /\ w \in pressed
  BY <1>1, <1>9 DEF Tracked, SeenHeld
<1>11. k \notin lost
  BY <1>6, <1>7, <1>9, <1>10, CtrlIsSeen DEF Tracked
<1>12. vk \notin pressed
  BY <1>6, <1>7, <1>11, OwnRecord
<1>13. QED
  BY <1>6, <1>7, <1>8, <1>10, <1>12

\* Whatever happened before, completing Left Ctrl + Right Ctrl leaves Cat Mode, on
\* every keyboard where the pairing of releases is unambiguous.
THEOREM EmergencyAlwaysUnlocks == PairingUnambiguous => (DSpec => EmergencyUnlocks)
<1> SUFFICES ASSUME PairingUnambiguous PROVE DSpec => EmergencyUnlocks
  OBVIOUS
<1>1. DSpec => []Tracked
  BY TrackedInit, TrackedStep, PTL DEF DSpec
<1>2. Tracked /\ [DNext]_dvars =>
        [~BothCtrlHeld /\ BothCtrlHeld' /\ ~fail_open => ~locked' /\ ~out'.delivered]_dvars
  <2> SUFFICES ASSUME Tracked, DNext, ~BothCtrlHeld, BothCtrlHeld', ~fail_open
               PROVE  ~locked' /\ ~out'.delivered
    OBVIOUS
  <2>1. PICK k \in Key, kind \in {"down", "repeat"} :
            \E vk \in Idents[k] \cap {VK_LCONTROL, VK_RCONTROL} :
              /\ DownEvent(k, vk, kind)
              /\ vk \notin pressed
              /\ {VK_LCONTROL, VK_RCONTROL} \subseteq pressed \cup {vk}
    BY ChordCompleted
  <2>2. PICK vk \in Idents[k] \cap {VK_LCONTROL, VK_RCONTROL} :
              /\ DownEvent(k, vk, kind)
              /\ vk \notin pressed
              /\ {VK_LCONTROL, VK_RCONTROL} \subseteq pressed \cup {vk}
    BY <2>1
  <2>3. EmergencyDue(vk)
    BY <2>2 DEF EmergencyDue, Tracked, IInv, EmergencyLatchExact
  <2>4. DownEmergency(vk)
    BY <2>2, <2>3 DEF DownEvent, HandleDown, DownRepeat, DownToggle, DownPlain, ToggleDue
  <2>5. locked' = FALSE
    BY <2>4 DEF DownEmergency
  <2>6. DownSuppressed(vk)
    BY <2>2, <2>3 DEF DownSuppressed
  <2>7. out'.delivered = FALSE
    BY <2>2, <2>6 DEF DownEvent
  <2>8. QED
    BY <2>5, <2>7
<1>3. QED
  BY <1>1, <1>2, PTL DEF DSpec, EmergencyUnlocks

-----------------------------------------------------------------------------
LEMMA DeskInit == DInit => Desk
<1> SUFFICES ASSUME DInit PROVE Desk
  OBVIOUS
<1>1. Tracked
  BY TrackedInit
<1>2. /\ shortcuts \in ShortcutPairs /\ pressed = {} /\ passed_down = {} /\ changed = {}
      /\ tap = FreshTap(NoVK)
  BY DEF DInit, Init
<1>3. \A v : ~TapEligible(tap, v)
  BY <1>2 DEF TapEligible, FreshTap
<1>4. QED
  BY <1>1, <1>2, <1>3 DEF Desk, PassedIsDown, HoldIsSettled, TapIsAlones

\* Whatever a step makes of the tracker, a tap that is under way after it, other than
\* that of the key just pressed, was under way before it.
TapOnly(vk) ==
    tap'.active /\ tap'.modifier_vk # vk => tap.active /\ tap'.modifier_vk = tap.modifier_vk

LEMMA FirstPressTaps ==
    ASSUME IInv, NEW vk \in VK, HandleDown(vk), vk \notin pressed
    PROVE  /\ TapOnly(vk)
           /\ \A v : TapEligible(tap', v) => v = vk /\ pressed = {}
<1> DEFINE u == ObserveDown(Ensured, vk, pressed)
<1>1. tap' = u \/ tap' = ResetTap(u)
  BY DEF HandleDown, DownRepeat, DownEmergency, DownToggle, DownPlain
<1>2. Ensured \in TapState /\ (Ensured = tap \/ ~Ensured.active)
  BY EnsuredFacts DEF IInv
<1>3. u.active /\ u.modifier_vk # vk => Ensured.active /\ u.modifier_vk = Ensured.modifier_vk
  BY <1>2 DEF ObserveDown, TapState
<1>4. TapEligible(u, u.modifier_vk) => pressed \cup {vk} = {u.modifier_vk}
  BY FirstPressTap
<1>5. ResetTap(u).active = FALSE
  BY DEF ResetTap, FreshTap
<1> HIDE DEF u
<1>6. TapOnly(vk)
  BY <1>1, <1>2, <1>3, <1>5 DEF TapOnly
<1>7. ASSUME NEW v, TapEligible(tap', v) PROVE v = vk /\ pressed = {}
  <2>1. tap' = u /\ v = u.modifier_vk
    BY <1>1, <1>5, <1>7 DEF TapEligible
  <2>2. QED
    BY <1>4, <1>7, <2>1
<1>8. QED
  BY <1>6, <1>7

LEMMA DownDesk ==
    ASSUME Desk, PairingUnambiguous, NEW k \in Key, NEW vk \in Idents[k],
           NEW kind, hold[k] \in {Up, Unseen, vk}, DownEvent(k, vk, kind),
           alone' = IF hold[k] = vk THEN alone ELSE AloneAfterPress(k)
    PROVE  Desk'
<1>1. vk \in VK /\ vk # Up /\ vk # Unseen
  BY IdentsType
<1>2. Tracked /\ Tracked' /\ IInv
  BY DownTracked DEF Desk, Tracked
<1>3. /\ hold' = [hold EXCEPT ![k] = vk] /\ lost' = lost
      /\ hold \in [Key -> VK \cup {Up, Unseen}]
      /\ changed' = IF locked' # locked THEN changed \cup {k} ELSE changed
      /\ appDown' = IF fail_open \/ ~DownSuppressed(vk) THEN appDown \cup {k} ELSE appDown
  BY <1>2 DEF DownEvent, Tracked
<1>4. k \in changed => hold[k] = vk
  BY KeyboardAssumption DEF Desk, HoldIsSettled, SeenHeld
<1>5. \A j \in Key : SeenHeld(j)' <=> (j = k \/ SeenHeld(j))
  BY <1>1, <1>3 DEF SeenHeld
<1>6. CASE fail_open
  <2>1. UNCHANGED istate
    BY <1>6 DEF DownEvent
  <2>2. fail_open' /\ changed' = changed /\ pressed' = pressed /\ shortcuts' = shortcuts
    BY <1>3, <1>6, <2>1 DEF istate
  <2>3. HoldIsSettled'
    BY <1>5, <2>2 DEF HoldIsSettled, Desk
  <2>4. QED
    BY <1>2, <1>6, <2>2, <2>3 DEF Desk, PassedIsDown, TapIsAlones
<1>7. CASE ~fail_open /\ vk \in pressed
  <2>1. DownRepeat(vk)
    BY <1>7 DEF DownEvent, HandleDown, DownEmergency, DownToggle, DownPlain, FirstPress
  <2>2. /\ fail_open' = fail_open /\ passed_down' = passed_down /\ pressed' = pressed
        /\ shortcuts' = shortcuts /\ locked' = locked /\ tap' = Ensured
    BY <2>1 DEF DownRepeat, held
  <2>3. hold[k] = vk \/ k \in lost
    BY <1>2, <1>7, OwnRecord
  <2>4. \A j \in Key \ lost : hold'[j] = hold[j]
    BY <1>3, <2>3
  <2>5. Ensured = tap \/ (~Ensured.active /\ ~Ensured.eligible)
    BY <1>2, EnsuredFacts DEF IInv
  <2>6. PassedIsDown'
    BY <1>3, <1>7, <2>2, <2>4 DEF Desk, PassedIsDown, SeenHeld
  <2>7. HoldIsSettled'
    <3>1. \A j \in changed : hold'[j] = hold[j]
      BY <1>3, <1>4 DEF Desk, HoldIsSettled
    <3>2. changed' = changed
      BY <1>3, <2>2
    <3>3. QED
      BY <1>5, <2>2, <2>5, <3>1, <3>2 DEF Desk, HoldIsSettled
  <2>8. TapIsAlones'
    <3> SUFFICES ASSUME NEW j \in Key \ lost, TapEligible(tap', hold'[j])
                 PROVE  j \in alone'
      BY <1>3 DEF TapIsAlones
    <3>1. tap' = tap /\ hold'[j] = hold[j]
      BY <2>2, <2>4, <2>5 DEF TapEligible
    <3>2. TapEligible(tap, hold[j]) /\ hold[j] = tap.modifier_vk
      BY <3>1 DEF TapEligible
    <3>3. j \in alone
      BY <1>7, <3>2 DEF Desk, TapIsAlones
    <3>4. CASE hold[k] = vk
      BY <3>3, <3>4
    <3>5. CASE hold[k] # vk
      <4>1. pressed = {hold[j]} /\ hold[j] \in VK
        BY <1>2, <3>2 DEF IInv, TapHeldAlone, TypeOK
      <4>2. hold[j] = vk /\ hold[j] \in Idents[j]
        BY <1>2, <1>7, <4>1 DEF Tracked, SeenHeld
      <4>3. j = k
        BY <4>2 DEF PairingUnambiguous
      <4>4. QED
        BY <3>5, <4>2, <4>3
    <3>6. QED
      BY <3>4, <3>5
  <2>9. QED
    BY <1>2, <1>7, <2>2, <2>6, <2>7, <2>8 DEF Desk
<1>8. CASE ~fail_open /\ vk \notin pressed
  <2>1. HandleDown(vk) /\ FirstPress(vk)
    BY <1>8 DEF DownEvent, HandleDown, DownRepeat, DownEmergency, DownToggle, DownPlain
  <2>2. hold[k] # vk /\ k \notin changed
    <3>1. hold[k] # vk
      BY <1>1, <1>2, <1>8 DEF Tracked, SeenHeld
    <3>2. QED
      BY <1>4, <3>1
  <2>3. \A j \in Key : SeenHeld(j) => hold[j] \in pressed /\ hold[j] # vk /\ j # k
    <3> SUFFICES ASSUME NEW j \in Key, SeenHeld(j)
                 PROVE  hold[j] \in pressed /\ hold[j] # vk /\ j # k
      OBVIOUS
    <3>1. hold[j] \in pressed
      BY <1>2, <1>8 DEF Tracked
    <3>2. hold[j] # Up /\ hold[j] # Unseen
      BY KeyboardAssumption DEF SeenHeld
    <3>3. QED
      BY <1>8, <2>2, <3>1, <3>2
  <2>4. /\ fail_open' = fail_open /\ shortcuts' = shortcuts
        /\ passed_down' = IF DownSuppressed(vk) THEN passed_down ELSE passed_down \cup {vk}
    BY <2>1 DEF FirstPress
  <2>5. TapOnly(vk) /\ \A v : TapEligible(tap', v) => v = vk /\ pressed = {}
    BY <1>1, <1>2, <1>8, <2>1, FirstPressTaps
  <2>6. PassedIsDown'
    <3> SUFFICES ASSUME NEW j \in Key \ lost, SeenHeld(j)', hold'[j] \in passed_down'
                 PROVE  j \in appDown'
      BY <1>3 DEF PassedIsDown
    <3>1. CASE j = k
      <4>1. vk \in passed_down'
        BY <1>3, <3>1
      <4>2. vk \notin passed_down
        BY <1>2, <1>8 DEF IInv, DispositionPartition
      <4>3. ~DownSuppressed(vk)
        BY <2>4, <4>1, <4>2
      <4>4. QED
        BY <1>3, <3>1, <4>3
    <3>2. CASE j # k
      <4>1. SeenHeld(j) /\ hold'[j] = hold[j]
        BY <1>3, <1>5, <3>2
      <4>2. hold[j] \in passed_down
        BY <2>3, <2>4, <4>1
      <4>3. QED
        BY <1>3, <1>8, <4>1, <4>2 DEF Desk, PassedIsDown
    <3>3. QED
      BY <3>1, <3>2
  <2>7. HoldIsSettled'
    <3> SUFFICES ASSUME NEW j \in changed'
                 PROVE  /\ j \in Key /\ SeenHeld(j)'
                        /\ \/ hold'[j] \notin ALL_MODIFIER_VKS
                           \/ ~(tap'.modifier_vk = hold'[j] /\ tap'.active)
      BY DEF HoldIsSettled
    <3>1. CASE j # k
      <4>1. j \in changed
        BY <1>3, <3>1
      <4>2. j \in Key /\ SeenHeld(j) /\ hold'[j] = hold[j] /\ hold[j] # vk
        BY <1>3, <2>3, <3>1, <4>1 DEF Desk, HoldIsSettled
      <4>3. QED
        BY <1>5, <1>8, <2>5, <4>1, <4>2 DEF Desk, HoldIsSettled, TapOnly
    <3>2. CASE j = k
      <4>1. locked' # locked /\ hold'[j] = vk
        BY <1>3, <2>2, <3>2
      <4>2. CASE DownEmergency(vk)
        BY <1>5, <3>2, <4>2 DEF DownEmergency, ResetTap, FreshTap
      <4>3. CASE DownToggle(vk)
        <5>1. vk = CurrentShortcut.trigger_vk /\ ~IsStandalone(CurrentShortcut)
          BY <4>3 DEF DownToggle, ToggleDue, Matches
        <5>2. Parsable(CurrentShortcut)
          BY ShortcutPairsAssumption DEF Desk, CurrentShortcut, ShortcutFor
        <5>3. vk \notin ALL_MODIFIER_VKS
          BY <5>1, <5>2 DEF Parsable
        <5>4. QED
          BY <1>5, <3>2, <4>1, <5>3
      <4>4. QED
        BY <2>1, <4>1, <4>2, <4>3, <1>8 DEF HandleDown, DownRepeat, DownPlain
    <3>3. QED
      BY <3>1, <3>2
  <2>8. TapIsAlones'
    <3> SUFFICES ASSUME NEW j \in Key \ lost, TapEligible(tap', hold'[j])
                 PROVE  j \in alone'
      BY <1>3 DEF TapIsAlones
    <3>1. hold'[j] = vk /\ pressed = {}
      BY <2>5
    <3>2. j = k
      <4>1. \A i \in Key : ~SeenHeld(i)
        BY <2>3, <3>1
      <4>2. QED
        BY <1>1, <1>3, <3>1, <4>1 DEF SeenHeld
    <3>3. AloneAfterPress(k) = {k}
      BY <2>3, <3>1 DEF AloneAfterPress
    <3>4. QED
      BY <2>2, <3>2, <3>3
  <2>9. QED
    BY <1>2, <1>8, <2>4, <2>6, <2>7, <2>8 DEF Desk
<1>9. QED
  BY <1>6, <1>7, <1>8

LEMMA ReleaseDesk ==
    ASSUME Desk, PairingUnambiguous, NEW k \in Key, ReleaseKey(k)
    PROVE  Desk'
<1>1. PICK ev \in Idents[k] :
        /\ hold[k] # Up
        /\ IF fail_open THEN UNCHANGED istate
           ELSE HandleUp(ev) \/ HandleUpUnpaired(ev)
        /\ appDown' = appDown \/ appDown' = appDown \ {k}
        /\ hold' = [hold EXCEPT ![k] = Up]
        /\ alone' = alone \ {k} /\ changed' = changed \ {k} /\ lost' = lost \ {k}
  BY DEF ReleaseKey
<1>2. Tracked' /\ IInv
  BY ReleaseTracked DEF Desk, Tracked
<1>3. \A j \in Key \ {k} : hold'[j] = hold[j] /\ (SeenHeld(j)' <=> SeenHeld(j))
  BY <1>1 DEF Desk, Tracked, SeenHeld
<1>4. hold'[k] = Up /\ ~SeenHeld(k)'
  BY <1>1, KeyboardAssumption DEF Desk, Tracked, SeenHeld
<1>5. CASE fail_open' /\ (UNCHANGED istate \/ (pressed' = {} /\ shortcuts' = shortcuts))
  <2>1. HoldIsSettled'
    BY <1>1, <1>3, <1>5 DEF Desk, HoldIsSettled
  <2>2. shortcuts' \in ShortcutPairs /\ pressed' = {}
    BY <1>5 DEF Desk, istate
  <2>3. QED
    BY <1>2, <1>5, <2>1, <2>2 DEF Desk, PassedIsDown, TapIsAlones
<1>6. CASE ~fail_open /\ HandleUp(ev)
  <2>1. /\ tap' = ObserveUp(Ensured, ReleaseVK(ev)) /\ passed_down' \subseteq passed_down
        /\ fail_open' = fail_open /\ shortcuts' = shortcuts
    BY <1>6 DEF HandleUp, Forget
  <2>2. tap'.active => tap' = tap
    <3>1. tap' = Ensured \/ tap'.active = FALSE
      BY <2>1 DEF ObserveUp, ResetTap, FreshTap
    <3>2. Ensured = tap \/ ~Ensured.active
      BY <1>2, EnsuredFacts DEF IInv
    <3>3. QED
      BY <3>1, <3>2
  <2>3. PassedIsDown'
    BY <1>1, <1>3, <1>4, <1>6, <2>1 DEF Desk, PassedIsDown
  <2>4. HoldIsSettled'
    BY <1>1, <1>3, <1>6, <2>1, <2>2 DEF Desk, HoldIsSettled
  <2>5. TapIsAlones'
    <3> SUFFICES ASSUME NEW j \in Key \ lost', TapEligible(tap', hold'[j])
                 PROVE  j \in alone'
      BY DEF TapIsAlones
    <3>1. tap' = tap /\ hold'[j] = tap.modifier_vk /\ tap.modifier_vk # NoVK
      BY <2>2 DEF TapEligible
    <3>2. hold'[j] \in VK
      BY <1>2, <3>1 DEF IInv, TypeOK, TapState
    <3>3. j # k
      BY <1>4, <3>2, KeyboardAssumption
    <3>4. QED
      BY <1>1, <1>3, <1>6, <3>1, <3>3 DEF Desk, TapIsAlones
  <2>6. QED
    BY <1>2, <1>6, <2>1, <2>3, <2>4, <2>5 DEF Desk
<1>7. QED
  <2>1. CASE fail_open
    BY <1>1, <1>5, <2>1 DEF istate
  <2>2. CASE ~fail_open /\ HandleUpUnpaired(ev)
    BY <1>5, <2>2 DEF HandleUpUnpaired, Reconcile
  <2>3. QED
    BY <1>1, <1>6, <2>1, <2>2

LEMMA MissedDesk ==
    ASSUME Desk, NEW k \in Key, MissedChange(k)
    PROVE  Desk'
<1>1. /\ lost' = lost \cup {k} /\ alone' = alone \ {k} /\ changed' = changed \ {k}
      /\ appDown' = appDown \ {k}
      /\ \A j \in Key \ {k} : hold'[j] = hold[j]
      /\ UNCHANGED istate
  BY DEF MissedChange, Desk, Tracked
<1>2. Tracked'
  BY MissedTracked DEF Desk
<1>3. PassedIsDown'
  BY <1>1 DEF Desk, PassedIsDown, SeenHeld, istate
<1>4. HoldIsSettled'
  BY <1>1 DEF Desk, HoldIsSettled, SeenHeld, istate
<1>5. TapIsAlones'
  BY <1>1 DEF Desk, TapIsAlones, istate
<1>6. QED
  BY <1>1, <1>2, <1>3, <1>4, <1>5 DEF Desk, istate

LEMMA CommandDesk ==
    ASSUME Desk, EngineCommand
    PROVE  Desk'
<1>1. Command /\ UNCHANGED <<hold, appDown, lost, alone, changed>>
  BY DEF EngineCommand
<1>2. Tracked'
  BY CommandTracked DEF Desk
<1>3. tap'.active = FALSE
  BY <1>1 DEF Command, EnterRecording, ExitRecording, ReplaceShortcut, SetLocked, FailOpen,
              Reconcile, ResetTap, FreshTap
<1>4. shortcuts' \in ShortcutPairs
  BY <1>1 DEF Desk, Command, EnterRecording, ExitRecording, ReplaceShortcut, SetLocked,
              FailOpen, Reconcile
<1>5. \/ fail_open' /\ pressed' = {}
      \/ ~fail_open /\ ~fail_open' /\ passed_down' = passed_down
  BY <1>1 DEF Command, EnterRecording, ExitRecording, ReplaceShortcut, SetLocked, FailOpen,
              Reconcile, held
<1>6. PassedIsDown'
  BY <1>1, <1>5 DEF Desk, PassedIsDown, SeenHeld
<1>7. HoldIsSettled'
  BY <1>1, <1>3 DEF Desk, HoldIsSettled, SeenHeld
<1>8. TapIsAlones'
  BY <1>3 DEF TapIsAlones, TapEligible
<1>9. QED
  BY <1>2, <1>4, <1>5, <1>6, <1>7, <1>8 DEF Desk

LEMMA DeskStep ==
    ASSUME Desk, PairingUnambiguous, [DNext]_dvars
    PROVE  Desk'
<1>1. ASSUME NEW k \in Key, PressKey(k) PROVE Desk'
  <2>1. PICK vk \in Idents[k] : /\ hold[k] = Up /\ DownEvent(k, vk, "down")
                                /\ alone' = AloneAfterPress(k)
    BY <1>1 DEF PressKey
  <2>2. hold[k] # vk
    BY <2>1, IdentsType
  <2>3. QED
    BY <2>1, <2>2, DownDesk
<1>2. ASSUME NEW k \in Key, RepeatKey(k) PROVE Desk'
  <2>1. CASE SeenHeld(k) /\ DownEvent(k, hold[k], "repeat") /\ UNCHANGED alone
    <3>1. hold[k] \in Idents[k]
      BY <2>1 DEF Desk, Tracked
    <3>2. QED
      BY <2>1, <3>1, DownDesk
  <2>2. CASE /\ hold[k] = Unseen /\ alone' = AloneAfterPress(k)
             /\ \E vk \in Idents[k] : DownEvent(k, vk, "repeat")
    <3>1. PICK vk \in Idents[k] : DownEvent(k, vk, "repeat")
      BY <2>2
    <3>2. hold[k] # vk
      BY <2>2, IdentsType
    <3>3. QED
      BY <2>2, <3>1, <3>2, DownDesk
  <2>3. QED
    BY <1>2, <2>1, <2>2 DEF RepeatKey
<1>3. CASE UNCHANGED dvars
  <2>1. UNCHANGED istate /\ UNCHANGED env
    BY <1>3 DEF dvars
  <2>2. Tracked'
    BY <1>3, TrackedStep DEF Desk
  <2>3. QED
    BY <2>1, <2>2 DEF Desk, PassedIsDown, HoldIsSettled, TapIsAlones, SeenHeld, istate, env
<1>4. QED
  BY <1>1, <1>2, <1>3, ReleaseDesk, MissedDesk, CommandDesk DEF DNext

LEMMA DeskInvariance == PairingUnambiguous => (DSpec => []Desk)
<1> SUFFICES ASSUME PairingUnambiguous PROVE DSpec => []Desk
  OBVIOUS
<1>1. Desk /\ [DNext]_dvars => Desk'
  BY DeskStep
<1>2. QED
  BY <1>1, DeskInit, PTL DEF DSpec

-----------------------------------------------------------------------------
(* The action properties, from Desk. *)

\* The step that shows an event of a kind.
LEMMA EventStep ==
    ASSUME DNext
    PROVE  /\ out'.kind = "up" => out'.key \in Key /\ ReleaseKey(out'.key)
           /\ out'.kind = "down" => out'.key \in Key /\ PressKey(out'.key)
           /\ out'.kind \notin {"up", "down", "none"} =>
                 out'.key \in Key /\ RepeatKey(out'.key)
<1>1. ASSUME NEW k \in Key, NEW vk, NEW kind, DownEvent(k, vk, kind)
      PROVE  out'.key = k /\ out'.kind = kind
  BY <1>1 DEF DownEvent
<1>2. ASSUME NEW k \in Key, PressKey(k) PROVE out'.key = k /\ out'.kind = "down"
  BY <1>1, <1>2 DEF PressKey
<1>3. ASSUME NEW k \in Key, RepeatKey(k) PROVE out'.key = k /\ out'.kind = "repeat"
  BY <1>1, <1>3 DEF RepeatKey
<1>4. ASSUME NEW k \in Key, ReleaseKey(k) PROVE out'.key = k /\ out'.kind = "up"
  BY <1>4 DEF ReleaseKey
<1>5. ASSUME NEW k \in Key, MissedChange(k) PROVE out'.kind = "none"
  BY <1>5 DEF MissedChange, NoEvent
<1>6. ASSUME EngineCommand PROVE out'.kind = "none"
  <2>1. out' = NoEvent
    BY <1>6 DEF EngineCommand
  <2>2. QED
    BY <2>1 DEF NoEvent
<1>7. QED
  BY <1>2, <1>3, <1>4, <1>5, <1>6 DEF DNext

\* The release of a key that is handled while the engine runs.
LEMMA HandledRelease ==
    ASSUME NEW k \in Key, ReleaseKey(k), ~fail_open'
    PROVE  \E ev \in Idents[k] :
              /\ hold[k] # Up /\ ~fail_open /\ HandleUp(ev) /\ ~ReleaseAmbiguous(ev)
              /\ out'.delivered <=> ~UpSuppressed(ev)
<1>1. PICK ev \in Idents[k] :
        /\ hold[k] # Up
        /\ IF fail_open THEN UNCHANGED istate
           ELSE HandleUp(ev) \/ HandleUpUnpaired(ev)
        /\ out'.delivered = (fail_open \/ ReleaseAmbiguous(ev) \/ ~UpSuppressed(ev))
  BY DEF ReleaseKey
<1>2. ~fail_open
  BY <1>1 DEF istate
<1>3. ~HandleUpUnpaired(ev)
  BY DEF HandleUpUnpaired, Reconcile
<1>4. QED
  BY <1>1, <1>2, <1>3 DEF HandleUp

\* A key that was not seen to go down leaves no tap to be fired by its release.
LEMMA TapIsOfSeen ==
    ASSUME Tracked, PairingUnambiguous, ~fail_open,
           NEW k \in Key, NEW ev \in Idents[k], hold[k] # Up, k \notin lost,
           TapEligible(tap, ReleaseVK(ev))
    PROVE  SeenHeld(k)
<1> SUFFICES ASSUME ~SeenHeld(k) PROVE FALSE
  OBVIOUS
<1>1. hold[k] = Unseen /\ k \in HeldAtStart \cup MayMiss
  BY DEF Tracked, SeenHeld
<1>2. ReleaseVK(ev) \in pressed
  BY DEF Tracked, IInv, TapHeldAlone, TapEligible
<1>3. PICK j \in Key : OnRecord(j, ReleaseVK(ev))
  BY <1>2 DEF Tracked
<1>4. ReleaseVK(ev) \notin Idents[k]
  BY <1>1, <1>2, OwnRecord, IdentsType
<1>5. ReleaseVK(ev) \in ReleaseCandidates(ev)
  BY <1>4 DEF ReleaseVK
<1>6. FamilyOf(ReleaseVK(ev)) = FamilyOf(ev) /\ FamilyOf(ev) # NoFamily
  BY <1>5 DEF ReleaseCandidates
<1>7. j # k /\ ReleaseVK(ev) \in Idents[j]
  BY <1>3, <1>4 DEF OnRecord
<1>8. QED
  BY <1>1, <1>6, <1>7 DEF PairingUnambiguous

\* A tap that fires is the running tap of the standalone shortcut in force.
LEMMA TapFires ==
    ASSUME IInv, NEW ev, HandleUp(ev), locked' # locked
    PROVE  /\ TapEligible(tap, ReleaseVK(ev))
           /\ IsStandalone(CurrentShortcut) /\ ReleaseVK(ev) = CurrentShortcut.trigger_vk
<1>1. TapDue(ev)
  BY DEF HandleUp
<1>2. TapEligible(Ensured, ReleaseVK(ev))
  BY <1>1 DEF TapDue
<1>3. Ensured = tap
  BY <1>2, EnsuredFacts DEF IInv, TapEligible
<1>4. QED
  BY <1>1, <1>2, <1>3 DEF TapDue

\* After the release of a key the hook remembers none of its identities, whatever
\* it had missed of the key before.
THEOREM ReleaseAlwaysHeals == PairingUnambiguous => (DSpec => ReleaseHeals)
<1> SUFFICES ASSUME PairingUnambiguous PROVE DSpec => ReleaseHeals
  OBVIOUS
<1>1. Desk /\ [DNext]_dvars =>
        [out'.kind = "up" => Idents[out'.key] \cap pressed' = {}]_dvars
  <2> SUFFICES ASSUME Desk, DNext, out'.kind = "up", NEW w \in Idents[out'.key],
                      w \in pressed'
               PROVE  FALSE
    OBVIOUS
  <2>1. PICK k \in Key : ReleaseKey(k) /\ k = out'.key
    BY EventStep
  <2>2. PICK ev \in Idents[k] :
          /\ hold[k] # Up
          /\ IF fail_open THEN UNCHANGED istate
             ELSE HandleUp(ev) \/ HandleUpUnpaired(ev)
    BY <2>1 DEF ReleaseKey
  <2>3. ~fail_open /\ HandleUp(ev)
    BY <2>2 DEF Desk, istate, HandleUpUnpaired, Reconcile
  <2>4. w \in pressed /\ w # ReleaseVK(ev) /\ ~ReleaseAmbiguous(ev)
    BY <2>3 DEF HandleUp, Forget
  <2>5. CASE hold[k] = w
    <3>1. SeenHeld(k)
      BY <2>1, <2>5, IdentsType DEF SeenHeld
    <3>2. QED
      BY <2>3, <2>4, <2>5, <3>1, ReleaseOfSeen DEF Desk
  <2>6. CASE hold[k] # w
    <3>1. k \in MayMiss
      BY <2>1, <2>3, <2>4, <2>6, OwnRecord DEF Desk, Tracked
    <3>2. w = ev
      BY <2>1, <3>1 DEF PairingUnambiguous
    <3>3. QED
      BY <2>4, <3>2 DEF ReleaseVK, ReleaseCandidates
  <2>7. QED
    BY <2>5, <2>6
<1>2. QED
  BY <1>1, DeskInvariance, PTL DEF DSpec, ReleaseHeals

\* The application gets the press of a key before its release and no repeat of a
\* press it did not get, through any locking, unlocking and recording in between.
THEOREM DeliveryAlwaysOrdered == PairingUnambiguous => (DSpec => DeliveryIsOrdered)
<1> SUFFICES ASSUME PairingUnambiguous PROVE DSpec => DeliveryIsOrdered
  OBVIOUS
<1>1. Desk /\ [DNext]_dvars =>
        [out'.kind = "up" /\ out'.delivered /\ ~fail_open' /\ out'.key \notin lost
           => out'.key \in appDown \/ hold[out'.key] = Unseen]_dvars
  <2> SUFFICES ASSUME Desk, DNext, out'.kind = "up", out'.delivered, ~fail_open',
                      out'.key \notin lost, hold[out'.key] # Unseen
               PROVE  out'.key \in appDown
    OBVIOUS
  <2>1. PICK k \in Key : ReleaseKey(k) /\ k = out'.key
    BY EventStep
  <2>2. PICK ev \in Idents[k] :
          /\ hold[k] # Up /\ ~fail_open /\ ~ReleaseAmbiguous(ev) /\ ~UpSuppressed(ev)
    BY <2>1, HandledRelease
  <2>3. SeenHeld(k) /\ hold[k] \in pressed
    BY <2>1, <2>2 DEF Desk, Tracked, SeenHeld
  <2>4. hold[k] \notin suppressed_down
    BY <2>2, <2>3, ReleaseOfSeen DEF Desk, UpSuppressed
  <2>5. hold[k] \in passed_down
    BY <2>3, <2>4 DEF Desk, Tracked, IInv, DispositionPartition
  <2>6. QED
    BY <2>1, <2>2, <2>3, <2>5 DEF Desk, PassedIsDown
<1>2. Desk /\ [DNext]_dvars =>
        [\A k \in (appDown' \ appDown) \ lost :
             ~fail_open => ~SeenHeld(k) /\ ~locked /\ ~locked']_dvars
  <2> SUFFICES ASSUME Desk, DNext, NEW k \in (appDown' \ appDown) \ lost, ~fail_open
               PROVE  ~SeenHeld(k) /\ ~locked /\ ~locked'
    OBVIOUS
  <2>1. PICK j \in Key : PressKey(j) \/ RepeatKey(j)
    BY DEF DNext, ReleaseKey, MissedChange, EngineCommand
  <2>2. SeenHeld(j) => hold[j] \in Idents[j]
    BY DEF Desk, Tracked
  <2>3. PICK vk \in Idents[j], kind \in {"down", "repeat"} :
            DownEvent(j, vk, kind) /\ hold[j] \in {Up, Unseen, vk}
    BY <2>1, <2>2 DEF PressKey, RepeatKey
  <2>4. j = k /\ ~DownSuppressed(vk) /\ HandleDown(vk)
    BY <2>3 DEF DownEvent
  <2>5. vk \notin pressed
    <3> SUFFICES ASSUME vk \in pressed PROVE FALSE
      OBVIOUS
    <3>1. hold[k] = vk /\ vk \in passed_down
      BY <2>4, OwnRecord DEF DownSuppressed, Desk
    <3>2. QED
      BY <2>4, <3>1, IdentsType DEF Desk, PassedIsDown, SeenHeld
  <2>6. ~locked /\ ~EmergencyDue(vk) /\ ~ToggleDue(vk)
    BY <2>4, <2>5 DEF DownSuppressed
  <2>7. locked' = locked
    BY <2>4, <2>5, <2>6 DEF HandleDown, DownRepeat, DownEmergency, DownToggle, DownPlain
  <2>8. ~SeenHeld(k)
    BY <2>3, <2>4, <2>5, KeyboardAssumption DEF Desk, Tracked, SeenHeld
  <2>9. QED
    BY <2>6, <2>7, <2>8
<1>3. QED
  BY <1>1, <1>2, DeskInvariance, PTL DEF DSpec, DeliveryIsOrdered, NoOrphanRelease, NoLateDown

\* One hold of a key changes the lock once at most, and a release changes it only
\* when its key was tapped alone.
THEOREM LockAlwaysMeant == PairingUnambiguous => (DSpec => LockChangesAreMeant)
<1> SUFFICES ASSUME PairingUnambiguous PROVE DSpec => LockChangesAreMeant
  OBVIOUS
<1>1. Desk /\ [DNext]_dvars =>
        [out'.kind # "none" /\ locked' # locked /\ ~fail_open'
           => out'.key \notin changed]_dvars
  <2> SUFFICES ASSUME Desk, DNext, out'.kind # "none", locked' # locked, ~fail_open',
                      out'.key \in changed
               PROVE  FALSE
    OBVIOUS
  <2>1. PICK k \in Key : k = out'.key
                         /\ (ReleaseKey(k) \/ PressKey(k) \/ RepeatKey(k))
    BY EventStep
  <2>2. SeenHeld(k) /\ hold[k] \in Idents[k]
    BY <2>1 DEF Desk, HoldIsSettled, Tracked
  <2>3. hold[k] # Up /\ hold[k] # Unseen
    BY <2>2, IdentsType
  <2>4. CASE ReleaseKey(k)
    <3>1. PICK ev \in Idents[k] : ~fail_open /\ HandleUp(ev) /\ ~ReleaseAmbiguous(ev)
      BY <2>4, HandledRelease
    <3>2. /\ TapEligible(tap, ReleaseVK(ev))
          /\ IsStandalone(CurrentShortcut) /\ ReleaseVK(ev) = CurrentShortcut.trigger_vk
      BY <3>1, TapFires DEF Desk, Tracked
    <3>3. ReleaseVK(ev) = hold[k]
      BY <2>2, <3>1, ReleaseOfSeen DEF Desk
    <3>4. Parsable(CurrentShortcut)
      BY ShortcutPairsAssumption DEF Desk, CurrentShortcut, ShortcutFor
    <3>5. hold[k] \in ALL_MODIFIER_VKS
      BY <3>2, <3>3, <3>4 DEF Parsable, ALL_MODIFIER_VKS
    <3>6. tap.modifier_vk = hold[k] /\ tap.active
      BY <3>2, <3>3 DEF TapEligible
    <3>7. QED
      BY <2>1, <3>1, <3>5, <3>6 DEF Desk, HoldIsSettled
  <2>5. CASE PressKey(k)
    BY <2>3, <2>5 DEF PressKey
  <2>6. CASE RepeatKey(k)
    <3>1. DownEvent(k, hold[k], "repeat")
      BY <2>3, <2>6 DEF RepeatKey
    <3>2. ~fail_open /\ HandleDown(hold[k])
      BY <3>1 DEF DownEvent, istate
    <3>3. hold[k] \in pressed
      BY <2>2, <3>2 DEF Desk, Tracked
    <3>4. QED
      BY <3>2, <3>3
      DEF HandleDown, DownRepeat, DownEmergency, DownToggle, DownPlain, FirstPress
  <2>7. QED
    BY <2>1, <2>4, <2>5, <2>6
<1>2. Desk /\ [DNext]_dvars =>
        [out'.kind = "up" /\ locked' # locked /\ ~fail_open' /\ out'.key \notin lost
           => out'.key \in alone]_dvars
  <2> SUFFICES ASSUME Desk, DNext, out'.kind = "up", locked' # locked, ~fail_open',
                      out'.key \notin lost
               PROVE  out'.key \in alone
    OBVIOUS
  <2>1. PICK k \in Key : ReleaseKey(k) /\ k = out'.key
    BY EventStep
  <2>2. PICK ev \in Idents[k] :
            hold[k] # Up /\ ~fail_open /\ HandleUp(ev) /\ ~ReleaseAmbiguous(ev)
    BY <2>1, HandledRelease
  <2>3. TapEligible(tap, ReleaseVK(ev))
    BY <2>2, TapFires DEF Desk, Tracked
  <2>4. SeenHeld(k)
    BY <2>1, <2>2, <2>3, TapIsOfSeen DEF Desk
  <2>5. ReleaseVK(ev) = hold[k]
    BY <2>2, <2>4, ReleaseOfSeen DEF Desk
  <2>6. QED
    BY <2>1, <2>2, <2>3, <2>5 DEF Desk, TapIsAlones
<1>3. QED
  BY <1>1, <1>2, DeskInvariance, PTL DEF DSpec, LockChangesAreMeant, OneChangePerHold, TapIsAlone

\* Outside Cat Mode a press is withheld only if it changes the lock or completes the
\* emergency chord: the hook costs the user no other keystroke.
THEOREM UnlockedAlwaysTransparent == PairingUnambiguous => (DSpec => UnlockedIsTransparent)
<1> SUFFICES ASSUME PairingUnambiguous PROVE DSpec => UnlockedIsTransparent
  OBVIOUS
<1>1. Desk /\ [DNext]_dvars =>
        [out'.kind = "down" /\ ~out'.delivered /\ ~locked /\ out'.key \notin lost
           => locked' \/ BothCtrlHeld']_dvars
  <2> SUFFICES ASSUME Desk, DNext, out'.kind = "down", ~out'.delivered, ~locked,
                      out'.key \notin lost
               PROVE  locked' \/ BothCtrlHeld'
    OBVIOUS
  <2>1. PICK k \in Key : PressKey(k) /\ k = out'.key
    BY EventStep
  <2>2. PICK vk \in Idents[k] : hold[k] = Up /\ DownEvent(k, vk, "down")
    BY <2>1 DEF PressKey
  <2>3. ~fail_open /\ DownSuppressed(vk) /\ HandleDown(vk)
    BY <2>2 DEF DownEvent
  <2>4. vk \notin pressed
    BY <2>1, <2>2, <2>3, OwnRecord, IdentsType DEF Desk
  <2>5. CASE ToggleDue(vk)
    <3>1. DownToggle(vk)
      BY <2>3, <2>4, <2>5
      DEF HandleDown, DownRepeat, DownEmergency, DownPlain, ToggleDue
    <3>2. QED
      BY <3>1 DEF DownToggle, Desk, Tracked, IInv, TypeOK
  <2>6. CASE EmergencyDue(vk)
    <3>1. {VK_LCONTROL, VK_RCONTROL} \subseteq pressed \cup {vk}
      BY <2>6 DEF EmergencyDue
    <3>2. vk \in {VK_LCONTROL, VK_RCONTROL}
      BY <2>6, <3>1 DEF EmergencyDue, Desk, Tracked, IInv, EmergencyLatchExact
    <3>3. hold' = [hold EXCEPT ![k] = vk] /\ hold \in [Key -> VK \cup {Up, Unseen}]
      BY <2>2 DEF DownEvent, Desk, Tracked
    <3>4. ASSUME NEW w \in {VK_LCONTROL, VK_RCONTROL} PROVE \E j \in Key : hold'[j] = w
      <4>1. CASE w = vk
        BY <3>3, <4>1
      <4>2. CASE w # vk
        <5>1. PICK j \in Key : OnRecord(j, w)
          BY <2>3, <3>1, <4>2 DEF Desk, Tracked
        <5>2. j # k
          BY <2>1, <2>2, <5>1, IdentsType DEF OnRecord
        <5>3. j \notin lost
          BY <3>2, <5>1, <5>2, CtrlIsSeen DEF Desk, Tracked, OnRecord
        <5>4. QED
          BY <3>3, <5>1, <5>2, <5>3 DEF OnRecord
      <4>3. QED
        BY <4>1, <4>2
    <3>5. QED
      BY <3>4 DEF BothCtrlHeld
  <2>7. QED
    BY <2>3, <2>4, <2>5, <2>6 DEF DownSuppressed
<1>2. QED
  BY <1>1, DeskInvariance, PTL DEF DSpec, UnlockedIsTransparent

\* On every keyboard whose releases can be paired without ambiguity, with any
\* shortcuts, any keys held at the start and any changes that were missed, no
\* key is ever left stuck in the foreground application.
THEOREM StuckKeyFreedom == PairingUnambiguous => (DSpec => []NoStuckKey)
<1> SUFFICES ASSUME PairingUnambiguous PROVE DSpec => []NoStuckKey
  OBVIOUS
<1>1. DInit => Tracked
  BY TrackedInit
<1>2. Tracked /\ [DNext]_dvars => Tracked'
  BY TrackedStep
<1>3. Tracked => NoStuckKey
  BY KeyboardAssumption DEF Tracked, NoStuckKey, SeenHeld
<1>4. QED
  BY <1>1, <1>2, <1>3, PTL DEF DSpec
=============================================================================
