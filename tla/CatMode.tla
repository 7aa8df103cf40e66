------------------------------ MODULE CatMode ------------------------------
(***************************************************************************)
(* What the keyboard engine promises, without saying how: each press of a  *)
(* virtual key is passed or suppressed once and for all, the lock decides  *)
(* which, the press that activates a change is suppressed, and an aborted  *)
(* engine is unlocked and lets everything go.  It abstracts InputState,    *)
(* and has no tracker, no latch, no shortcut and no pairing of releases.   *)
(***************************************************************************)
CONSTANT VK

VARIABLES
    cat,    \* Cat Mode is on
    fate,   \* what was decided for the press of each key that is held
    open    \* the engine has failed open

cvars == <<cat, fate, open>>

Fate == {"up", "passed", "suppressed"}

Init ==
    /\ cat = FALSE
    /\ fate = [vk \in VK |-> "up"]
    /\ open = FALSE

Decide(vk, f) == fate' = [fate EXCEPT ![vk] = f]

\* An ordinary press: Cat Mode suppresses it.
Press(vk) ==
    /\ ~open /\ fate[vk] = "up"
    /\ Decide(vk, IF cat THEN "suppressed" ELSE "passed")
    /\ UNCHANGED <<cat, open>>

\* The press that toggles Cat Mode, or that completes the emergency chord.
Activate(vk) ==
    /\ ~open /\ fate[vk] = "up"
    /\ cat' = ~cat \/ cat' = FALSE
    /\ Decide(vk, "suppressed")
    /\ UNCHANGED open

\* A release ends the key's fate; the release of a tapped modifier toggles.
Release(vk) ==
    /\ ~open /\ fate[vk] # "up"
    /\ Decide(vk, "up")
    /\ cat' \in BOOLEAN
    /\ UNCHANGED open

\* A command locks or unlocks and leaves every held key its fate.
Switch ==
    /\ ~open
    /\ cat' = ~cat
    /\ UNCHANGED <<fate, open>>

Abort ==
    /\ cat' = FALSE
    /\ fate' = [vk \in VK |-> "up"]
    /\ open' = TRUE

Next ==
    \/ \E vk \in VK : Press(vk) \/ Activate(vk) \/ Release(vk)
    \/ Switch
    \/ Abort

Spec == Init /\ [][Next]_cvars
=============================================================================
