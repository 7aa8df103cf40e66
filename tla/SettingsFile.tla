---------------------------- MODULE SettingsFile ----------------------------
(***************************************************************************)
(* The settings and the file they are kept in (settings.py): what a file   *)
(* of any version, with fields missing or unusable, is loaded to, and what *)
(* is saved.  A file that cannot be parsed is corrupt as a whole.  The     *)
(* flag for notifications, which nothing else depends on, is left out.     *)
(***************************************************************************)
CONSTANTS
    Hotkey,        \* the shortcuts, in canonical form
    DefaultHotkey, \* F24
    NoHotkey       \* no shortcut, or none that can be used

ASSUME HotkeyAssumption == DefaultHotkey \in Hotkey /\ NoHotkey \notin Hotkey

Row == {"toggle", "lock", "unlock"}
Draft == [Row -> Hotkey]
AppSettings == [separate : BOOLEAN, draft : Draft]

Default == [separate |-> FALSE, draft |-> [r \in Row |-> DefaultHotkey]]

\* AppSettings.active_shortcuts
ActivePair(settings) ==
    IF settings.separate
    THEN [lock |-> settings.draft["lock"], unlock |-> settings.draft["unlock"]]
    ELSE [lock |-> settings.draft["toggle"], unlock |-> settings.draft["toggle"]]

\* A file that parses, with what _canonical_or_none makes of its fields; a file
\* of an older version has no mode.
WholeFile == [kind : {"whole"}, mode : {"separate", "single", "none"},
              field : [Row -> Hotkey \cup {NoHotkey}]]
Absent == [kind |-> "absent"]
Corrupt == [kind |-> "corrupt"]
File == WholeFile \cup {Absent, Corrupt}

\* encode_settings, of settings that are in canonical form already.
Encoded(settings) ==
    [kind |-> "whole", mode |-> IF settings.separate THEN "separate" ELSE "single",
     field |-> settings.draft]

OrElse(hotkey, other) == IF hotkey # NoHotkey THEN hotkey ELSE other

\* The shortcut of the row, that of the older single row, or the default.
Resolved(file, row) ==
    OrElse(file.field[row], OrElse(file.field["toggle"], DefaultHotkey))

\* Mutant: without a mode the file's own toggle shortcut comes first.
ResolvedToggleOwn(file) == OrElse(file.field["toggle"], Resolved(file, "lock"))

ResolvedToggle(file) ==
    IF file.mode = "none" THEN Resolved(file, "lock")
    ELSE OrElse(file.field["toggle"], Resolved(file, "lock"))

ResolvedSeparate(file) ==
    IF file.mode = "none" THEN Resolved(file, "lock") # Resolved(file, "unlock")
    ELSE file.mode = "separate"

\* load_settings, of a file that parses.
Loaded(file) ==
    [separate |-> ResolvedSeparate(file),
     draft |-> [r \in Row |-> IF r = "toggle" THEN ResolvedToggle(file)
                              ELSE Resolved(file, r)]]
=============================================================================
