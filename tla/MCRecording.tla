---------------------------- MODULE MCRecording ----------------------------
(***************************************************************************)
(* A keyboard to record from: two modifiers and a letter.  TLC checks that *)
(* the assumption of the theorems about what is typed holds of it.         *)
(***************************************************************************)
EXTENDS Recording

MCVK == {"LCTRL", "RCTRL", "RALT", "ALT", "K"}
MCFamilies == [Ctrl |-> {"LCTRL", "RCTRL"}, Alt |-> {"RALT"}]
MCGeneric == [ALT |-> "Alt"]
MCNamed == {"K"}
MCSecure == {<<{"Alt"}, "K">>}

MCKey == {"LCTRL", "RALT", "K"}
MCIdents == [k \in MCKey |-> {k}]

\* The shortcut in force is a tap of the modifier that is recorded from.
MCTapPair == {[lock |-> TapShortcut("LCTRL"), unlock |-> TapShortcut("LCTRL")]}

ASSUME KnownSides == SidesAreKnown
=============================================================================
