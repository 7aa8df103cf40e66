------------------------------ MODULE Settings ------------------------------
(***************************************************************************)
(* Saving shortcuts: the Settings window (SettingsWindow over              *)
(* SettingsViewModel), the coordinator's save, the settings file and the   *)
(* pair the keyboard engine has installed.  All but the engine run on the  *)
(* main thread, and save() blocks it; in between, the user may lock and    *)
(* unlock by keyboard and the engine may fail open.  While the warning     *)
(* dialog is up its nested event loop goes on pumping lock events and tray *)
(* actions.  The application may be killed at any step, while it starts or *)
(* writes the file too.  Once the engine has failed open the pump has its  *)
(* fatal event to deliver, which ends the application; the window's        *)
(* buttons are left out from there on (Ready).                             *)
(***************************************************************************)
EXTENDS SettingsFile, Naturals, Sequences

CONSTANTS
    Warned,        \* the shortcuts with a warning (validate_shortcut)
    FoundFile,     \* the files that may be there before the first start
    SavesFail,     \* whether the file system may refuse an operation
    MaxLocks       \* bound on the changes of the lock

ASSUME SettingsAssumption ==
    /\ Warned \subseteq Hotkey /\ FoundFile \subseteq File
    /\ SavesFail \in BOOLEAN /\ MaxLocks \in Nat

VARIABLES
    engine,   \* KeyboardHook: the installed pair, the lock, a recording session
    disk,     \* the settings file
    backup,   \* whether a corrupt file has been set aside
    current,  \* SettingsCoordinator._current
    pending,  \* the recorded candidate, NoHotkey for None
    view,     \* the view model and its window
    saving,   \* where save() is, and the settings it is about to save
    events,   \* transitions the pump has not delivered yet
    locks,    \* how often the lock changed
    row,      \* history: the row that the pending candidate was recorded in
    asked     \* history: the row and the shortcut on show when Save was pressed

vars == <<engine, disk, backup, current, pending, view, saving, events, locks,
          row, asked>>

FirstRow(separate) == IF separate THEN "lock" ELSE "toggle"

FreshView(settings) ==
    [separate |-> settings.separate, draft |-> settings.draft,
     action |-> FirstRow(settings.separate),
     shown |-> settings.draft[FirstRow(settings.separate)],
     accepted |-> settings.draft[FirstRow(settings.separate)],
     recording |-> FALSE, locked |-> FALSE, open |-> FALSE]

\* Where save() or the start is; the candidate counts only during a save.
At(pc) == [pc |-> pc, candidate |-> Default]

NotAsked == [row |-> "toggle", shown |-> NoHotkey]

\* What is left of an application, or not yet there of one: an engine that lets
\* everything through.
NoEngine == [pair |-> ActivePair(Default), locked |-> FALSE, session |-> FALSE, open |-> TRUE]

Fresh(settings, running, pc) ==
    /\ engine' = running
    /\ current' = settings
    /\ pending' = NoHotkey
    /\ view' = FreshView(settings)
    /\ saving' = At(pc)
    /\ events' = <<>>
    /\ row' = "toggle" /\ asked' = NotAsked

\* create_application, once it has the settings: the engine starts with their
\* pair.
Started(settings) ==
    Fresh(settings, [NoEngine EXCEPT !.pair = ActivePair(settings), !.open = FALSE], "idle")

Init ==
    /\ disk \in FoundFile /\ backup = FALSE
    /\ engine = NoEngine
    /\ current = Default
    /\ pending = NoHotkey
    /\ view = FreshView(Default)
    /\ saving = At("load")
    /\ events = <<>>
    /\ locks = 0
    /\ row = "toggle" /\ asked = NotAsked

-----------------------------------------------------------------------------
(* load_settings, and the start of the application with what it returns *)

FilesKeep == UNCHANGED <<engine, current, pending, view, events, locks, row, asked>>

\* Mutant: a corrupt file is overwritten where it is.
PreservedNot == FALSE

\* _preserve_corrupt: the file becomes the first free backup.
Preserved == TRUE

LoadFile ==
    /\ saving.pc = "load"
    /\ UNCHANGED locks
    /\ \/ /\ disk.kind = "whole"
          /\ Started(Loaded(disk))
          /\ UNCHANGED <<disk, backup>>
       \/ /\ disk.kind = "corrupt"
          /\ disk' = Absent /\ backup' = Preserved
          /\ saving' = At("defaults")
          /\ FilesKeep
       \/ /\ disk.kind = "absent"
          /\ saving' = At("defaults")
          /\ FilesKeep /\ UNCHANGED <<disk, backup>>

\* The defaults are saved where there was no file that could be read.
SaveDefaults ==
    /\ saving.pc = "defaults"
    /\ disk' = Encoded(Default)
    /\ Started(Default)
    /\ UNCHANGED <<backup, locks>>

\* An error of the file system leaves create_application, and main().
StartFails ==
    /\ SavesFail
    /\ saving.pc \in {"load", "defaults"}
    /\ saving' = At("ended")
    /\ FilesKeep /\ UNCHANGED <<disk, backup>>

-----------------------------------------------------------------------------
(* The engine, on its own thread. *)

SettingsUnchanged == UNCHANGED <<disk, backup, current, pending, view, saving, row, asked>>

\* Mutant: a change of the lock leaves the recording alone.
ChangeLockOnly(value) ==
    /\ locks < MaxLocks
    /\ locks' = locks + 1
    /\ engine' = [engine EXCEPT !.locked = value]
    /\ events' = IF engine.locked = value THEN events ELSE Append(events, value)

\* Every change of the lock ends a recording.
ChangeLock(value) ==
    /\ locks < MaxLocks
    /\ locks' = locks + 1
    /\ engine' = [engine EXCEPT !.locked = value, !.session = FALSE]
    /\ events' = IF engine.locked = value THEN events ELSE Append(events, value)

\* The user's shortcut; it is off during a recording.
HotkeyPressed ==
    /\ ~engine.open /\ ~engine.session
    /\ ChangeLock(~engine.locked)
    /\ SettingsUnchanged

EngineFailsOpen ==
    /\ ~engine.open
    /\ engine' = [engine EXCEPT !.open = TRUE, !.locked = FALSE, !.session = FALSE]
    /\ events' = IF engine.locked THEN Append(events, FALSE) ELSE events
    /\ UNCHANGED locks
    /\ SettingsUnchanged

-----------------------------------------------------------------------------
(* What the main thread does between two handlers. *)

\* The pump runs when the main loop does, the dialog's nested one included.
Pumping == saving.pc \in {"idle", "confirm"}

Ready == saving.pc = "idle" /\ view.open /\ ~engine.open

\* view.cancel_recording: it has something to do only during a recording.
Cancelled(v) == IF v.recording THEN [v EXCEPT !.recording = FALSE, !.shown = v.accepted]
                ELSE v

EndSession == engine' = [engine EXCEPT !.session = FALSE]

Discard == pending' = NoHotkey

\* A transition reaches on_lock_state; the window goes away under the lock.
DeliverLockState ==
    /\ Pumping /\ events # <<>>
    /\ events' = Tail(events)
    /\ IF Head(events)
       THEN /\ view' = [Cancelled(view) EXCEPT !.locked = TRUE, !.open = FALSE]
            /\ Discard
            /\ IF view.recording THEN EndSession ELSE UNCHANGED engine
       ELSE /\ view' = [view EXCEPT !.locked = FALSE]
            /\ UNCHANGED <<pending, engine>>
    /\ UNCHANGED <<disk, backup, current, saving, locks, row, asked>>

TrayLock(value) ==
    /\ Pumping /\ ~engine.open
    /\ ChangeLock(value)
    /\ SettingsUnchanged

\* The engine's fatal event: _handle_fatal shuts the application down.
DeliverFatal ==
    /\ Pumping /\ engine.open
    /\ saving' = At("ended")
    /\ UNCHANGED <<engine, disk, backup, current, pending, view, events, locks, row, asked>>

\* Mutant: the window can be shown at any time.
MayShowAlways == TRUE

MayShow == ~view.locked /\ ~engine.locked

\* SettingsWindow.show, from the tray or for a second launch.
Show ==
    /\ Pumping /\ MayShow
    /\ view' = [view EXCEPT !.open = TRUE]
    /\ UNCHANGED <<engine, disk, backup, current, pending, saving, events, locks, row,
                   asked>>

-----------------------------------------------------------------------------
(* The window's buttons. *)

Drafting == UNCHANGED <<disk, backup, current, saving, events, locks, asked>>

\* _capture_draft
Captured(v) ==
    IF pending = NoHotkey THEN v ELSE [v EXCEPT !.draft[v.action] = pending]

Select(v, action) ==
    [v EXCEPT !.action = action, !.accepted = v.draft[action], !.shown = v.draft[action]]

\* Mutant: the row is selected before the candidate is captured.
SelectedFirst(action) == Captured(Select(Cancelled(view), action))

Selected(action) == Select(Captured(Cancelled(view)), action)

VisibleRows == IF view.separate THEN {"lock", "unlock"} ELSE {"toggle"}

\* _record_action: select the row, then begin_recording, which the engine
\* refuses under the lock.
Record(action) ==
    /\ Ready /\ ~view.recording
    /\ action \in VisibleRows
    /\ pending' = NoHotkey
    /\ IF view.locked \/ engine.locked
       THEN view' = Selected(action) /\ UNCHANGED <<engine, row>>
       ELSE /\ view' = [Selected(action) EXCEPT !.recording = TRUE, !.shown = NoHotkey]
            /\ engine' = [engine EXCEPT !.session = TRUE]
            /\ row' = action
    /\ Drafting

\* refresh_recording: a candidate, or the end of an unhealthy session.
RecordingCaptures(hotkey) ==
    /\ Ready /\ view.recording /\ engine.session
    /\ EndSession
    /\ pending' = hotkey
    /\ view' = [view EXCEPT !.recording = FALSE, !.shown = hotkey]
    /\ UNCHANGED row /\ Drafting

RecordingCancelled ==
    /\ Ready /\ view.recording
    /\ EndSession
    /\ view' = Cancelled(view)
    /\ UNCHANGED <<pending, row>> /\ Drafting

\* set_separate_shortcuts, refused under the lock.
ModeChanged ==
    /\ Ready /\ ~view.recording
    /\ ~view.locked /\ ~engine.locked
    /\ view' = [Select(Captured(view), FirstRow(~view.separate)) EXCEPT
                   !.separate = ~view.separate]
    /\ pending' = NoHotkey
    /\ UNCHANGED <<engine, row>> /\ Drafting

\* on_close: Cancel and the close box drop every draft.
Close ==
    /\ Ready
    /\ view' = [FreshView(current) EXCEPT !.locked = view.locked]
    /\ Discard
    /\ IF view.recording THEN EndSession ELSE UNCHANGED engine
    /\ UNCHANGED row /\ Drafting

-----------------------------------------------------------------------------
(* view.save and SettingsCoordinator.save *)

SaveGoto(pc) == saving' = [saving EXCEPT !.pc = pc]

\* The exception reaches the view, which shows the accepted shortcut again.
SaveFails ==
    /\ saving' = At("idle")
    /\ asked' = NotAsked
    /\ view' = [view EXCEPT !.shown = view.accepted]

\* EngineUnhealthy ends in _handle_fatal: fail open, and shut down.
Fatal ==
    /\ saving' = At("ended")
    /\ engine' = [engine EXCEPT !.open = TRUE, !.locked = FALSE, !.session = FALSE]
    /\ UNCHANGED <<disk, backup, current, pending, view, events, locks, row, asked>>

SaveKeeps == UNCHANGED <<disk, backup, current, events, locks, row>>

\* The drafts are taken, the lock is looked at, the warnings are collected.
Save ==
    /\ Ready /\ ~view.recording
    /\ pending' = NoHotkey
    /\ LET taken == Captured(view)
           candidate == [separate |-> taken.separate, draft |-> taken.draft] IN
       IF engine.locked
       THEN /\ view' = [taken EXCEPT !.shown = taken.accepted]
            /\ UNCHANGED <<saving, asked>>
       ELSE /\ view' = taken
            /\ asked' = [row |-> view.action, shown |-> view.shown]
            /\ saving' = [candidate |-> candidate,
                          pc |-> IF \E r \in Row : candidate.draft[r] \in Warned
                                 THEN "confirm" ELSE "replace"]
    /\ UNCHANGED <<engine, disk, backup, current, events, locks, row>>

Confirm ==
    /\ saving.pc = "confirm"
    /\ \/ SaveGoto("replace") /\ UNCHANGED <<view, asked>>
       \/ SaveFails
    /\ UNCHANGED <<engine, pending>> /\ SaveKeeps

\* REPLACE_SHORTCUT; the engine refuses it under the lock.
Replace ==
    /\ saving.pc = "replace"
    /\ \/ engine.open /\ Fatal
       \/ /\ ~engine.open /\ engine.locked
          /\ SaveFails
          /\ UNCHANGED <<engine, pending>> /\ SaveKeeps
       \/ /\ ~engine.open /\ ~engine.locked
          /\ engine' = [engine EXCEPT !.pair = ActivePair(saving.candidate),
                                      !.session = FALSE]
          /\ SaveGoto("write")
          /\ UNCHANGED <<pending, view, asked>> /\ SaveKeeps

\* Mutant: the file itself is opened for writing.
FileWhileWritingInPlace == Corrupt

\* save_settings writes to a temporary file of its own ...
FileWhileWriting == disk

WriteFile ==
    /\ saving.pc = "write"
    /\ disk' = FileWhileWriting
    /\ SaveGoto("move") \/ (SavesFail /\ SaveGoto("rollback"))
    /\ FilesKeep /\ UNCHANGED backup

\* ... and moves it over the settings file, or removes it.
MoveFile ==
    /\ saving.pc = "move"
    /\ \/ disk' = Encoded(saving.candidate) /\ SaveGoto("commit")
       \/ SavesFail /\ UNCHANGED disk /\ SaveGoto("rollback")
    /\ FilesKeep /\ UNCHANGED backup

\* Mutant: a rollback that is refused goes unnoticed.
RollbackRefusedIgnored == SaveFails /\ UNCHANGED <<engine, pending>> /\ SaveKeeps

RollbackRefused == Fatal

Rollback ==
    /\ saving.pc = "rollback"
    /\ \/ engine.open /\ Fatal
       \/ ~engine.open /\ engine.locked /\ RollbackRefused
       \/ /\ ~engine.open /\ ~engine.locked
          /\ engine' = [engine EXCEPT !.pair = ActivePair(current), !.session = FALSE]
          /\ Discard
          /\ SaveFails
          /\ SaveKeeps

\* The settings are current; telling the tray is last, and may find it gone.
Commit ==
    /\ saving.pc = "commit"
    /\ current' = saving.candidate
    /\ \/ /\ saving' = At("idle")
          /\ view' = [view EXCEPT !.draft = saving.candidate.draft,
                                  !.separate = saving.candidate.separate,
                                  !.accepted = saving.candidate.draft[view.action],
                                  !.shown = saving.candidate.draft[view.action]]
          /\ UNCHANGED engine
       \/ /\ saving' = At("ended")
          /\ engine' = [engine EXCEPT !.open = TRUE, !.locked = FALSE, !.session = FALSE]
          /\ UNCHANGED view
    /\ Discard
    /\ asked' = NotAsked
    /\ UNCHANGED <<disk, backup, events, locks, row>>

\* The application is killed, or has ended, and is started again.
Restart ==
    /\ Fresh(Default, NoEngine, "load")
    /\ UNCHANGED <<disk, backup, locks>>

Next ==
    \/ LoadFile \/ SaveDefaults \/ StartFails
    \/ HotkeyPressed \/ EngineFailsOpen
    \/ DeliverLockState \/ DeliverFatal
    \/ \E value \in BOOLEAN : TrayLock(value)
    \/ Show
    \/ \E action \in Row : Record(action)
    \/ \E hotkey \in Hotkey : RecordingCaptures(hotkey)
    \/ RecordingCancelled \/ ModeChanged \/ Close
    \/ Save \/ Confirm \/ Replace \/ WriteFile \/ MoveFile \/ Rollback \/ Commit
    \/ Restart

Spec == Init /\ [][Next]_vars

-----------------------------------------------------------------------------
(* Properties *)

Engine == [pair : [lock : Hotkey, unlock : Hotkey], locked : BOOLEAN,
           session : BOOLEAN, open : BOOLEAN]
View == [separate : BOOLEAN, draft : Draft, action : Row,
         shown : Hotkey \cup {NoHotkey}, accepted : Hotkey,
         recording : BOOLEAN, locked : BOOLEAN, open : BOOLEAN]
Pc == {"load", "defaults", "idle", "confirm", "replace", "write", "move", "rollback",
       "commit", "ended"}

\* The variables hold what the fields hold; the window is not left in a
\* recording when its buttons are live for a save.
TypeOK ==
    /\ engine \in Engine
    /\ engine.session => ~engine.locked /\ ~engine.open
    /\ disk \in File /\ backup \in BOOLEAN /\ current \in AppSettings
    /\ pending \in Hotkey \cup {NoHotkey}
    /\ view \in View
    /\ saving \in [pc : Pc, candidate : AppSettings]
    /\ events \in Seq(BOOLEAN) /\ locks \in 0..MaxLocks
    /\ view.recording => saving.pc \in {"idle", "ended"} /\ pending = NoHotkey

Serving == saving.pc = "idle" /\ ~engine.open

\* Whenever the application serves and no save is under way, the pair in force,
\* the settings the window works from and what a restart would load agree, or
\* the engine has failed open: whichever of the steps of a save failed, and
\* whatever the user did to the lock in between.  A file from before there was
\* a mode keeps its pair of shortcuts in force (load_settings chooses the mode
\* and the toggle shortcut for it).
InForceIsSaved ==
    /\ saving.pc \notin {"load", "defaults", "commit", "ended"} => Loaded(disk) = current
    /\ Serving => engine.pair = ActivePair(Loaded(disk))
    /\ Serving /\ disk.mode = "none"
          => engine.pair = [lock |-> Resolved(disk, "lock"), unlock |-> Resolved(disk, "unlock")]

\* No crash and no failure at any step leaves a torn file, or none where there
\* was one that could be read; and a corrupt file is there as a backup before
\* anything takes its place.
FileSurvives ==
    /\ [][disk.kind = "whole" => disk'.kind = "whole"]_vars
    /\ [][disk.kind = "corrupt" /\ disk' # disk => backup' /\ ~backup]_vars

\* A shortcut that was recorded for one row is never drafted for another,
\* whatever happens between its capture and the next button; a draft changes
\* in no other way, unless it is set back to what is saved.
CandidateStaysInItsRow ==
    [][\A r \in Row : view'.draft[r] # view.draft[r]
          => \/ r = row /\ view'.draft[r] = pending
             \/ view'.draft[r] = current'.draft[r]]_vars

\* The window is open under the lock only as long as the news of the lock is
\* still on its way to it.
HiddenUnderLock ==
    view.open /\ engine.locked => \E i \in 1..Len(events) : events[i]

\* Both as one invariant.
WindowInv == TypeOK /\ HiddenUnderLock

\* What Save stores for the row in front is what the row showed: "Save
\* continues to validate the displayed canonical value"
\* (docs/superpowers/specs/2026-09-05-readonly-keybind-display-design.md:18).
SavesWhatIsShown ==
    [][saving.pc = "commit" /\ saving'.pc = "idle"
          => saving.candidate.draft[asked.row] = asked.shown]_vars
=============================================================================
