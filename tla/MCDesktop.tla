----------------------------- MODULE MCDesktop -----------------------------
(***************************************************************************)
(* The keyboards on which releases pair unambiguously: TLC checks that the *)
(* assumption of the theorem about stuck keys holds of them.               *)
(***************************************************************************)
EXTENDS MCKeyboard

ASSUME UnambiguousKeyboard == PairingUnambiguous
=============================================================================
