------------------------------ MODULE Desktop ------------------------------
(***************************************************************************)
(* The state machine between a keyboard and the foreground application.    *)
(* A physical key goes down, repeats and comes up; the hook sees each      *)
(* event under a virtual key and decides whether the application gets it.  *)
(* Keys may be down before the hook is installed, and a key may change     *)
(* while Windows shows its secure desktop, where no hook runs.             *)
(***************************************************************************)
EXTENDS InputState

CONSTANTS
    Key,          \* the physical keys
    Idents,       \* key -> the virtual keys its events can carry
    HeldAtStart,  \* the keys that may be down when the hook is installed
    MayMiss       \* the keys that may change on the secure desktop

Up == "key is up"
Unseen == "key is down, its press was not seen"

\* A key has several identities only as long as its side is in doubt.
ASSUME KeyboardAssumption ==
    /\ Idents \in [Key -> SUBSET VK]
    /\ \A k \in Key : \A a, b \in Idents[k] :
          a # b => FamilyOf(a) = FamilyOf(b) /\ FamilyOf(a) # NoFamily
    /\ HeldAtStart \subseteq Key
    /\ MayMiss \subseteq Key
    /\ Up \notin VK /\ Unseen \notin VK

VARIABLES
    hold,      \* key -> Up, Unseen, or the virtual key of the press the hook saw
    appDown,   \* the keys the application takes to be down since the hook runs
    out,       \* the last keyboard event and whether the application got it
    lost,      \* the keys that changed unseen since they were last released
    alone,     \* the key held alone, by itself since its press, if there is one
    changed    \* the held keys whose current hold already changed the lock

env == <<hold, appDown, out, lost, alone, changed>>
dvars == <<istate, env>>

NoEvent == [key |-> "no key", kind |-> "none", delivered |-> FALSE]

SeenHeld(k) == hold[k] \in VK

-----------------------------------------------------------------------------
DInit ==
    /\ Init
    /\ \E down \in SUBSET HeldAtStart :
          hold = [k \in Key |-> IF k \in down THEN Unseen ELSE Up]
    /\ appDown = {}
    /\ out = NoEvent
    /\ lost = {}
    /\ alone = {}
    /\ changed = {}

\* The callback hands an event to the state machine unless the gate is open,
\* and an event it does not suppress goes on to the application.
DownEvent(k, vk, kind) ==
    /\ IF fail_open THEN UNCHANGED istate ELSE HandleDown(vk)
    /\ LET delivered == fail_open \/ ~DownSuppressed(vk)
       IN  /\ out' = [key |-> k, kind |-> kind, delivered |-> delivered]
           /\ appDown' = IF delivered THEN appDown \cup {k} ELSE appDown
    /\ hold' = [hold EXCEPT ![k] = vk]
    /\ changed' = IF locked' # locked THEN changed \cup {k} ELSE changed
    /\ UNCHANGED lost

AloneAfterPress(k) ==
    IF \E j \in Key \ {k} : SeenHeld(j) THEN {} ELSE {k}

PressKey(k) ==
    \E vk \in Idents[k] :
        /\ hold[k] = Up
        /\ DownEvent(k, vk, "down")
        /\ alone' = AloneAfterPress(k)

\* The first repeat of a key whose press was not seen is a press to the hook.
RepeatKey(k) ==
    \/ /\ SeenHeld(k)
       /\ DownEvent(k, hold[k], "repeat")
       /\ UNCHANGED alone
    \/ /\ hold[k] = Unseen
       /\ \E vk \in Idents[k] : DownEvent(k, vk, "repeat")
       /\ alone' = AloneAfterPress(k)

ReleaseKey(k) ==
    \E ev \in Idents[k] :
        /\ hold[k] # Up
        /\ IF fail_open THEN UNCHANGED istate
           ELSE HandleUp(ev) \/ HandleUpUnpaired(ev)
        /\ LET delivered == fail_open \/ ReleaseAmbiguous(ev) \/ ~UpSuppressed(ev)
           IN  /\ out' = [key |-> k, kind |-> "up", delivered |-> delivered]
               /\ appDown' = IF delivered THEN appDown \ {k} ELSE appDown
        /\ hold' = [hold EXCEPT ![k] = Up]
        /\ alone' = alone \ {k}
        /\ changed' = changed \ {k}
        /\ lost' = lost \ {k}

\* On the secure desktop a key comes up or goes down unseen by the hook; the
\* application, no longer in the foreground, forgets the key.
MissedChange(k) ==
    /\ k \in MayMiss
    /\ lost' = lost \cup {k}
    /\ hold' = [hold EXCEPT ![k] = IF hold[k] = Up THEN Unseen ELSE Up]
    /\ appDown' = appDown \ {k}
    /\ out' = NoEvent
    /\ alone' = alone \ {k}
    /\ changed' = changed \ {k}
    /\ UNCHANGED istate

EngineCommand ==
    /\ Command
    /\ out' = NoEvent
    /\ UNCHANGED <<hold, appDown, lost, alone, changed>>

DNext ==
    \/ \E k \in Key : PressKey(k) \/ RepeatKey(k) \/ ReleaseKey(k) \/ MissedChange(k)
    \/ EngineCommand

DSpec == DInit /\ [][DNext]_dvars

-----------------------------------------------------------------------------
(* Properties *)

\* No stuck key: the application never takes a key to be down that the user
\* has released, through any locking, unlocking or failure in between.
NoStuckKey == \A k \in appDown : hold[k] # Up

\* A release leaves nothing of its key behind, so that a key whose state went
\* stale on the secure desktop is right again after one press and release.
ReleaseHeals ==
    [][out'.kind = "up" => Idents[out'.key] \cap pressed' = {}]_dvars

\* While the engine runs, the application gets the release of no press that
\* was withheld from it; the secure desktop disturbs the keys that changed on
\* it at most, and these until their next release.
NoOrphanRelease ==
    [][out'.kind = "up" /\ out'.delivered /\ ~fail_open' /\ out'.key \notin lost
          => out'.key \in appDown \/ hold[out'.key] = Unseen]_dvars

\* While the engine runs, a key goes down for the application only at its own
\* first press and only outside Cat Mode: a key the cat still holds when Cat
\* Mode ends does not start typing through its repeats.
NoLateDown ==
    [][\A k \in (appDown' \ appDown) \ lost :
          ~fail_open => ~SeenHeld(k) /\ ~locked /\ ~locked']_dvars

\* Both: what the application gets of a key begins with a press and ends with
\* its release.
DeliveryIsOrdered == NoOrphanRelease /\ NoLateDown

\* One hold of a key, from its press to its release, changes the lock at most
\* once: repeats do not toggle again, the release after an emergency unlock
\* does not lock again.
OneChangePerHold ==
    [][out'.kind # "none" /\ locked' # locked /\ ~fail_open'
          => out'.key \notin changed]_dvars

\* A release changes the lock only when its key was tapped alone: no seen key
\* was held at its press and none was pressed before its release.
TapIsAlone ==
    [][out'.kind = "up" /\ locked' # locked /\ ~fail_open' /\ out'.key \notin lost
          => out'.key \in alone]_dvars

\* Both: the lock changes when the user means it to.
LockChangesAreMeant == OneChangePerHold /\ TapIsAlone

BothCtrlHeld ==
    \A vk \in {VK_LCONTROL, VK_RCONTROL} : \E k \in Key : hold[k] = vk

\* Whatever happened before, the press that completes Left Ctrl + Right Ctrl
\* leaves Cat Mode and is withheld from the application.
EmergencyUnlocks ==
    [][~BothCtrlHeld /\ BothCtrlHeld' /\ ~fail_open
          => ~locked' /\ ~out'.delivered]_dvars

\* Outside Cat Mode the hook is transparent: it withholds a press only if the
\* press changes the lock or completes the emergency chord, or if its key
\* changed on the secure desktop.
UnlockedIsTransparent ==
    [][out'.kind = "down" /\ ~out'.delivered /\ ~locked /\ out'.key \notin lost
          => locked' \/ BothCtrlHeld']_dvars

-----------------------------------------------------------------------------
(* The keyboards for which the pairing of releases cannot go wrong: no two *)
(* keys share an identity, a key that may be down unseen has no other key  *)
(* of its family, and none has an alias if it may change unseen.           *)
PairingUnambiguous ==
    /\ \A j, k \in Key : j # k => Idents[j] \cap Idents[k] = {}
    /\ \A j, k \in Key :
          (j # k /\ k \in HeldAtStart \cup MayMiss) =>
             \A a \in Idents[j], b \in Idents[k] :
                FamilyOf(a) = FamilyOf(b) => FamilyOf(b) = NoFamily
    /\ \A k \in MayMiss : \A a, b \in Idents[k] : a = b
=============================================================================
