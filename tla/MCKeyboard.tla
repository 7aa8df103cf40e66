---------------------------- MODULE MCKeyboard ----------------------------
(***************************************************************************)
(* A keyboard with both Ctrl keys, one of which may send the generic       *)
(* VK_CONTROL, one Alt key, and a letter.                                  *)
(***************************************************************************)
EXTENDS Desktop

MCVK == {"LCTRL", "RCTRL", "CTRL", "RALT", "K"}
MCFamilies == [Ctrl |-> {"LCTRL", "RCTRL"}, Alt |-> {"RALT"}]
MCGeneric == [CTRL |-> "Ctrl"]

MCKey == {"LCTRL", "RCTRL", "RALT", "K"}
MCIdents == [LCTRL |-> {"LCTRL", "CTRL"}, RCTRL |-> {"RCTRL"},
             RALT |-> {"RALT"}, K |-> {"K"}]

MCHeldAtStart == {"RALT", "K"}
MCMayMiss == {"RALT", "K"}

MCRightCtrlHeld == {"RCTRL"}
MCNothing == {}

Chord(modifiers, exact, trigger) ==
    [modifiers |-> modifiers, trigger_vk |-> trigger, exact_modifiers |-> exact,
     activation_kind |-> "trigger_down"]
Tap(vk) ==
    [modifiers |-> {}, trigger_vk |-> vk, exact_modifiers |-> {},
     activation_kind |-> "release"]
Same(s) == [lock |-> s, unlock |-> s]

MCPairs ==
    {Same(Chord({"Ctrl"}, {}, "K")),
     Same(Tap("LCTRL")),
     [lock |-> Tap("RALT"), unlock |-> Chord({}, {"LCTRL"}, "K")],
     [lock |-> Chord({}, {}, "K"), unlock |-> Tap("RCTRL")]}
=============================================================================
