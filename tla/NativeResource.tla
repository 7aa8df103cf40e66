--------------------------- MODULE NativeResource ---------------------------
(***************************************************************************)
(* What the claim protocols of keyboard_hook.py and tray.py promise about  *)
(* a native resource, the installed hook or the notification icon: it is   *)
(* released by one native call at a time, never again once a call has      *)
(* succeeded, and again after a call that failed.                          *)
(***************************************************************************)
CONSTANTS Caller, Nobody

VARIABLES
    resource,   \* "none" before it is acquired, then "held", then "freed"
    caller      \* who is inside the native call that releases it

rvars == <<resource, caller>>

Init ==
    /\ resource = "none"
    /\ caller = Nobody

Acquire ==
    /\ resource = "none"
    /\ resource' = "held"
    /\ UNCHANGED caller

Call(c) ==
    /\ resource = "held" /\ caller = Nobody
    /\ caller' = c
    /\ UNCHANGED resource

Return(success) ==
    /\ caller # Nobody
    /\ caller' = Nobody
    /\ resource' = IF success THEN "freed" ELSE "held"

Next ==
    \/ Acquire
    \/ \E c \in Caller : Call(c)
    \/ \E success \in BOOLEAN : Return(success)

Spec == Init /\ [][Next]_rvars
=============================================================================
