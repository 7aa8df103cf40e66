--------------------------- MODULE MCKeyboardHook ---------------------------
(***************************************************************************)
(* Two clients, as the UI thread and an emergency thread of the lifecycle. *)
(* They run the same code, so they are interchangeable.                    *)
(***************************************************************************)
EXTENDS KeyboardHook, TLC

CONSTANTS c1, c2

MCClient == {c1, c2}
MCSymmetry == Permutations(MCClient)
=============================================================================
