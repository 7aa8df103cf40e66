---------------------------- MODULE ModifierTap ----------------------------
(***************************************************************************)
(* modifier_tap.ModifierTapTracker: was a modifier pressed and released    *)
(* without any other key?  The engine and the shortcut recorder share it.  *)
(* An observe_down with repeat=True changes nothing and has no operator.   *)
(***************************************************************************)
EXTENDS Hotkeys

TapState == [modifier_vk : VK \cup {NoVK},
             active : BOOLEAN, eligible : BOOLEAN, disqualified : BOOLEAN]

FreshTap(vk) == [modifier_vk |-> vk, active |-> FALSE,
                 eligible |-> FALSE, disqualified |-> FALSE]

ResetTap(t) == FreshTap(t.modifier_vk)

\* Mutant: the tracker forgets the keys that were held before.
ObserveDownAnyHeld(t, vk, heldBefore) ==
    IF t.modifier_vk = NoVK \/ (vk = t.modifier_vk /\ t.active)
    THEN t
    ELSE IF vk = t.modifier_vk
         THEN [modifier_vk |-> vk, active |-> TRUE,
               eligible |-> TRUE, disqualified |-> FALSE]
         ELSE [t EXCEPT !.disqualified = t.active \/ t.disqualified]

ObserveDown(t, vk, heldBefore) ==
    IF t.modifier_vk = NoVK \/ (vk = t.modifier_vk /\ t.active)
    THEN t
    ELSE IF vk = t.modifier_vk
         THEN [modifier_vk |-> vk, active |-> TRUE,
               eligible |-> heldBefore = {}, disqualified |-> heldBefore # {}]
         ELSE [t EXCEPT !.disqualified = t.active \/ t.disqualified]

\* Mutants: a press in between does not spoil the tap; the release of the
\* modifier is all that counts.
TapEligibleSpoiled(t, vk) ==
    t.modifier_vk # NoVK /\ vk = t.modifier_vk /\ t.active /\ t.eligible
TapEligibleAlways(t, vk) == t.modifier_vk # NoVK /\ vk = t.modifier_vk

TapEligible(t, vk) ==
    /\ t.modifier_vk # NoVK /\ vk = t.modifier_vk
    /\ t.active /\ t.eligible /\ ~t.disqualified

ObserveUp(t, vk) ==
    IF t.modifier_vk # NoVK /\ vk = t.modifier_vk THEN ResetTap(t) ELSE t
=============================================================================
