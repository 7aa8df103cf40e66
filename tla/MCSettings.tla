---------------------------- MODULE MCSettings ----------------------------
(***************************************************************************)
(* Files that may be found: none, one that does not parse, two of the     *)
(* version before modes, and one with a mode and unusable shortcuts.       *)
(***************************************************************************)
EXTENDS Settings

CONSTANTS F24, AltTab

Found(mode, toggle, lock, unlock) ==
    [kind |-> "whole", mode |-> mode,
     field |-> [r \in Row |-> CASE r = "toggle" -> toggle [] r = "lock" -> lock
                                [] r = "unlock" -> unlock]]

MCFoundFile ==
    {Absent, Corrupt, Found("none", F24, AltTab, F24), Found("none", F24, AltTab, AltTab),
     Found("separate", NoHotkey, AltTab, NoHotkey)}
MCNoFile == {Absent}
=============================================================================
