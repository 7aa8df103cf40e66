--------------------------- MODULE SettingsProofs ---------------------------
(***************************************************************************)
(* The settings file and the settings in force, for every set of           *)
(* shortcuts, every file that is found and any number of restarts.         *)
(***************************************************************************)
EXTENDS Settings, SequenceTheorems, TLAPS

-----------------------------------------------------------------------------
(* What load_settings makes of a file *)

LEMMA ResolvedType ==
    ASSUME NEW file \in WholeFile
    PROVE  \A r \in Row : Resolved(file, r) \in Hotkey
BY HotkeyAssumption DEF WholeFile, Row, Resolved, OrElse

LEMMA LoadedType ==
    ASSUME NEW file \in WholeFile
    PROVE  Loaded(file) \in AppSettings
<1>1. \A r \in Row : Resolved(file, r) \in Hotkey
  BY ResolvedType
<1>2. ResolvedToggle(file) \in Hotkey
  BY <1>1 DEF ResolvedToggle, WholeFile, OrElse, Row
<1>3. ResolvedSeparate(file) \in BOOLEAN
  BY DEF ResolvedSeparate
<1>4. QED
  BY <1>1, <1>2, <1>3 DEF Loaded, AppSettings, Draft, Row

LEMMA EncodedType ==
    ASSUME NEW settings \in AppSettings
    PROVE  Encoded(settings) \in WholeFile
BY DEF Encoded, AppSettings, Draft, WholeFile

\* What is saved is loaded again as it was: encode_settings and load_settings
\* are inverse to each other on settings in canonical form.
THEOREM LoadEncode ==
    ASSUME NEW settings \in AppSettings
    PROVE  Loaded(Encoded(settings)) = settings
<1> DEFINE file == Encoded(settings)
<1>1. settings.draft \in [Row -> Hotkey] /\ settings.separate \in BOOLEAN
  BY DEF AppSettings, Draft
<1>2. /\ file.mode = IF settings.separate THEN "separate" ELSE "single"
      /\ \A r \in Row : file.field[r] = settings.draft[r] /\ file.field[r] # NoHotkey
  BY <1>1, HotkeyAssumption DEF Encoded
<1>3. \A r \in Row : Resolved(file, r) = settings.draft[r]
  BY <1>2 DEF Resolved, OrElse
<1>4. ResolvedToggle(file) = settings.draft["toggle"]
  BY <1>2 DEF ResolvedToggle, OrElse, Row
<1>5. ResolvedSeparate(file) = settings.separate
  BY <1>1, <1>2 DEF ResolvedSeparate
<1>6. [r \in Row |-> IF r = "toggle" THEN ResolvedToggle(file) ELSE Resolved(file, r)]
         = settings.draft
  BY <1>1, <1>3, <1>4
<1>7. Loaded(file) = [separate |-> settings.separate, draft |-> settings.draft]
  BY <1>5, <1>6 DEF Loaded
<1>8. QED
  BY <1>7 DEF AppSettings

\* A file of the version before modes keeps its pair of shortcuts in force,
\* whichever of its fields are missing or unusable.
THEOREM UpgradeKeepsPair ==
    ASSUME NEW file \in WholeFile, file.mode = "none"
    PROVE  ActivePair(Loaded(file))
              = [lock |-> Resolved(file, "lock"), unlock |-> Resolved(file, "unlock")]
<1>1. /\ Loaded(file).separate <=> Resolved(file, "lock") # Resolved(file, "unlock")
      /\ Loaded(file).draft["toggle"] = Resolved(file, "lock")
      /\ Loaded(file).draft["lock"] = Resolved(file, "lock")
      /\ Loaded(file).draft["unlock"] = Resolved(file, "unlock")
  BY DEF Loaded, ResolvedSeparate, ResolvedToggle, Row
<1>2. QED
  BY <1>1 DEF ActivePair

LEMMA ActivePairType ==
    ASSUME NEW settings \in AppSettings
    PROVE  ActivePair(settings) \in [lock : Hotkey, unlock : Hotkey]
BY DEF ActivePair, AppSettings, Draft, Row

LEMMA DefaultType == Default \in AppSettings
BY HotkeyAssumption DEF Default, AppSettings, Draft

-----------------------------------------------------------------------------
(* The types *)

LEMMA AtType ==
    ASSUME NEW pc \in Pc
    PROVE  At(pc) \in [pc : Pc, candidate : AppSettings] /\ At(pc).pc = pc
BY DefaultType DEF At

LEMMA EngineType ==
    ASSUME NEW e \in Engine
    PROVE  /\ \A value \in BOOLEAN :
                 [e EXCEPT !.locked = value, !.session = FALSE] \in Engine
           /\ [e EXCEPT !.session = FALSE] \in Engine
           /\ [e EXCEPT !.open = TRUE, !.locked = FALSE, !.session = FALSE] \in Engine
           /\ \A pair \in [lock : Hotkey, unlock : Hotkey] :
                 [e EXCEPT !.pair = pair, !.session = FALSE] \in Engine
BY DEF Engine

LEMMA EngineFields ==
    ASSUME NEW e \in Engine
    PROVE  /\ \A value \in BOOLEAN :
                 ~[e EXCEPT !.locked = value, !.session = FALSE].session
           /\ ~[e EXCEPT !.session = FALSE].session
           /\ ~[e EXCEPT !.open = TRUE, !.locked = FALSE, !.session = FALSE].session
           /\ \A pair \in [lock : Hotkey, unlock : Hotkey] :
                 ~[e EXCEPT !.pair = pair, !.session = FALSE].session
BY DEF Engine

LEMMA ViewType ==
    ASSUME NEW v \in View
    PROVE  /\ [v EXCEPT !.locked = TRUE, !.open = FALSE] \in View
           /\ [v EXCEPT !.locked = FALSE] \in View
           /\ [v EXCEPT !.open = TRUE] \in View
           /\ [v EXCEPT !.shown = v.accepted] \in View
           /\ \A hotkey \in Hotkey :
                 [v EXCEPT !.recording = FALSE, !.shown = hotkey] \in View
           /\ \A value \in BOOLEAN : [v EXCEPT !.separate = value] \in View
BY DEF View

LEMMA ViewFields ==
    ASSUME NEW v \in View
    PROVE  /\ [v EXCEPT !.locked = TRUE, !.open = FALSE].recording = v.recording
           /\ [v EXCEPT !.locked = FALSE].recording = v.recording
           /\ [v EXCEPT !.open = TRUE].recording = v.recording
           /\ [v EXCEPT !.shown = v.accepted].recording = v.recording
           /\ \A hotkey \in Hotkey :
                 ~[v EXCEPT !.recording = FALSE, !.shown = hotkey].recording
           /\ \A value \in BOOLEAN : [v EXCEPT !.separate = value].recording = v.recording
BY DEF View

LEMMA EventsType ==
    ASSUME NEW s \in Seq(BOOLEAN)
    PROVE  /\ \A value \in BOOLEAN : Append(s, value) \in Seq(BOOLEAN)
           /\ s # <<>> => Tail(s) \in Seq(BOOLEAN)
OBVIOUS

LEMMA FreshTypes ==
    ASSUME NEW settings \in AppSettings, NEW running, NEW pc \in Pc,
           running \in Engine,
           running.session => ~running.locked /\ ~running.open,
           disk' \in File, backup' \in BOOLEAN, locks' \in 0..MaxLocks,
           Fresh(settings, running, pc)
    PROVE  TypeOK'
<1>1. FreshView(settings) \in View
  BY DEF View, FreshView, FirstRow, AppSettings, Draft, Row
<1>2. ~FreshView(settings).recording
  BY DEF FreshView
<1>3. At(pc) \in [pc : Pc, candidate : AppSettings]
  BY DefaultType DEF At
<1>4. <<>> \in Seq(BOOLEAN)
  OBVIOUS
<1>5. QED
  BY <1>1, <1>2, <1>3, <1>4 DEF Fresh, TypeOK

LEMMA StartedTypes ==
    ASSUME NEW settings \in AppSettings,
           disk' \in File, backup' \in BOOLEAN, locks' \in 0..MaxLocks,
           Started(settings)
    PROVE  TypeOK'
<1> DEFINE running == [NoEngine EXCEPT !.pair = ActivePair(settings), !.open = FALSE]
<1>1. /\ running \in Engine
      /\ ~running.session
  BY ActivePairType, DefaultType DEF Engine, NoEngine
<1>2. Fresh(settings, running, "idle")
  BY DEF Started
<1> HIDE DEF running
<1>3. QED
  BY <1>1, <1>2, FreshTypes DEF Pc

LEMMA InitTypes == Init => TypeOK
<1> SUFFICES ASSUME Init PROVE TypeOK
  OBVIOUS
<1>1. FreshView(Default) \in View
  BY DefaultType DEF View, FreshView, FirstRow, AppSettings, Draft, Row
<1>2. NoEngine \in Engine
  BY ActivePairType, DefaultType DEF Engine, NoEngine
<1>3. At("load") \in [pc : Pc, candidate : AppSettings]
  BY DefaultType DEF At, Pc
<1>4. ~FreshView(Default).recording /\ ~NoEngine.session
  BY DEF FreshView, NoEngine
<1>5. <<>> \in Seq(BOOLEAN) /\ 0 \in 0..MaxLocks
  BY SettingsAssumption
<1>6. disk \in File
  BY SettingsAssumption DEF Init
<1>7. QED
  BY <1>1, <1>2, <1>3, <1>4, <1>5, <1>6, DefaultType DEF Init, TypeOK

LEMMA CapturedType ==
    ASSUME TypeOK, NEW v,
           v \in View
    PROVE  /\ Captured(v) \in View
           /\ Captured(v).recording = v.recording
BY DEF TypeOK, View, Captured, Draft

LEMMA SelectType ==
    ASSUME NEW v, NEW action \in Row,
           v \in View
    PROVE  /\ Select(v, action) \in View
           /\ Select(v, action).recording = v.recording
BY DEF View, Select, Draft

LEMMA CancelledType ==
    ASSUME NEW v,
           v \in View
    PROVE  /\ Cancelled(v) \in View
           /\ ~Cancelled(v).recording
BY DEF View, Cancelled

LEMMA TypesStep == TypeOK /\ [Next]_vars => TypeOK'
<1> SUFFICES ASSUME TypeOK, [Next]_vars PROVE TypeOK'
  OBVIOUS
<1>1. CASE UNCHANGED vars
  BY <1>1 DEF vars, TypeOK
<1>2. CASE LoadFile \/ SaveDefaults \/ StartFails
  <2>1. ASSUME LoadFile, disk.kind = "whole" PROVE TypeOK'
    <3>1. disk \in WholeFile
      BY <2>1 DEF TypeOK, File, Absent, Corrupt
    <3>2. Started(Loaded(disk)) /\ UNCHANGED <<disk, backup, locks>>
      BY <2>1 DEF LoadFile
    <3>3. QED
      BY <3>1, <3>2, LoadedType, StartedTypes DEF TypeOK
  <2>2. ASSUME LoadFile, disk.kind # "whole" PROVE TypeOK'
    <3>1. At("defaults") \in [pc : Pc, candidate : AppSettings] /\ At("defaults").pc = "defaults"
      BY AtType DEF Pc
    <3>2. disk' \in File /\ backup' \in BOOLEAN
      BY <2>2 DEF LoadFile, Preserved, File, TypeOK
    <3>3. ~view.recording
      BY <2>2 DEF LoadFile, TypeOK
    <3>4. QED
      BY <2>2, <3>1, <3>2, <3>3 DEF LoadFile, FilesKeep, TypeOK
  <2>3. ASSUME SaveDefaults PROVE TypeOK'
    <3>1. Encoded(Default) \in File
      BY DefaultType, EncodedType DEF File
    <3>2. QED
      BY <2>3, <3>1, DefaultType, StartedTypes DEF SaveDefaults, TypeOK
  <2>4. ASSUME StartFails PROVE TypeOK'
    BY <2>4, DefaultType DEF StartFails, FilesKeep, At, TypeOK, Pc
  <2>5. QED
    BY <1>2, <2>1, <2>2, <2>3, <2>4
<1>3. CASE HotkeyPressed \/ EngineFailsOpen \/ \E value \in BOOLEAN : TrayLock(value)
  <2>1. ASSUME NEW value \in BOOLEAN, ChangeLock(value), SettingsUnchanged, ~engine.open
        PROVE TypeOK'
    <3>1. engine' \in Engine /\ ~engine'.session
      BY <2>1, EngineType, EngineFields DEF ChangeLock, TypeOK
    <3>2. events' \in Seq(BOOLEAN)
      BY <2>1, EventsType DEF ChangeLock, TypeOK
    <3>3. locks' \in 0..MaxLocks
      BY <2>1, SettingsAssumption DEF ChangeLock, TypeOK
    <3>4. QED
      BY <2>1, <3>1, <3>2, <3>3 DEF SettingsUnchanged, TypeOK
  <2>2. ASSUME HotkeyPressed PROVE TypeOK'
    <3>1. (~engine.locked) \in BOOLEAN
      OBVIOUS
    <3>2. ChangeLock(~engine.locked) /\ SettingsUnchanged /\ ~engine.open
      BY <2>2 DEF HotkeyPressed
    <3>3. QED
      BY <2>1, <3>1, <3>2
  <2>3. ASSUME NEW value \in BOOLEAN, TrayLock(value) PROVE TypeOK'
    BY <2>1, <2>3 DEF TrayLock
  <2>4. ASSUME EngineFailsOpen PROVE TypeOK'
    <3>1. engine' \in Engine /\ ~engine'.session
      BY <2>4, EngineType, EngineFields DEF EngineFailsOpen, TypeOK
    <3>2. events' \in Seq(BOOLEAN)
      BY <2>4, EventsType DEF EngineFailsOpen, TypeOK
    <3>3. QED
      BY <2>4, <3>1, <3>2 DEF EngineFailsOpen, SettingsUnchanged, TypeOK
  <2>5. QED
    BY <1>3, <2>2, <2>3, <2>4
<1>4. CASE DeliverLockState \/ DeliverFatal \/ Show
  <2>1. ASSUME DeliverLockState PROVE TypeOK'
    <3>1. Cancelled(view) \in View /\ ~Cancelled(view).recording
      BY CancelledType DEF TypeOK
    <3>2. /\ view' \in View
          /\ view'.recording => view.recording /\ pending' = pending
      BY <2>1, <3>1, ViewType, ViewFields DEF DeliverLockState, TypeOK
    <3>3. engine' \in Engine /\ (engine'.session => ~engine'.locked /\ ~engine'.open)
      BY <2>1, EngineType, EngineFields DEF DeliverLockState, EndSession, TypeOK
    <3>4. events' \in Seq(BOOLEAN)
      BY <2>1, EventsType DEF DeliverLockState, TypeOK
    <3>5. pending' \in Hotkey \cup {NoHotkey}
      BY <2>1 DEF DeliverLockState, Discard, TypeOK
    <3>6. QED
      BY <2>1, <3>2, <3>3, <3>4, <3>5 DEF DeliverLockState, TypeOK
  <2>2. ASSUME DeliverFatal PROVE TypeOK'
    BY <2>2, AtType DEF DeliverFatal, TypeOK, Pc
  <2>3. ASSUME Show PROVE TypeOK'
    <3>1. view' \in View /\ view'.recording = view.recording
      BY <2>3, ViewType, ViewFields DEF Show, TypeOK
    <3>2. QED
      BY <2>3, <3>1 DEF Show, TypeOK
  <2>4. QED
    BY <1>4, <2>1, <2>2, <2>3
<1>5. ASSUME NEW action \in Row, Record(action) PROVE TypeOK'
  <2>1. /\ Selected(action) \in View
        /\ ~Selected(action).recording
    BY CancelledType, CapturedType, SelectType DEF Selected, TypeOK
  <2>2. QED
    BY <1>5, <2>1 DEF Record, Ready, Drafting, TypeOK, View, Engine
<1>6. CASE RecordingCancelled \/ \E hotkey \in Hotkey : RecordingCaptures(hotkey)
  <2>1. EndSession
    BY <1>6 DEF RecordingCancelled, RecordingCaptures
  <2>2. engine' \in Engine /\ ~engine'.session
    BY <2>1, EngineType, EngineFields DEF EndSession, TypeOK
  <2>3. view' \in View /\ ~view'.recording
    <3>1. CASE RecordingCancelled
      BY <3>1, CancelledType DEF RecordingCancelled, TypeOK
    <3>2. ASSUME NEW hotkey \in Hotkey, RecordingCaptures(hotkey)
          PROVE view' \in View /\ ~view'.recording
      BY <3>2, ViewType, ViewFields DEF RecordingCaptures, TypeOK
    <3>3. QED
      BY <1>6, <3>1, <3>2
  <2>4. pending' \in Hotkey \cup {NoHotkey}
    BY <1>6 DEF RecordingCancelled, RecordingCaptures, TypeOK
  <2>5. UNCHANGED <<disk, backup, current, saving, events, locks>>
    BY <1>6 DEF RecordingCancelled, RecordingCaptures, Drafting
  <2>6. QED
    BY <2>2, <2>3, <2>4, <2>5 DEF TypeOK
<1>7. CASE ModeChanged
  <2>1. FirstRow(~view.separate) \in Row
    BY DEF FirstRow, Row
  <2>2. /\ Select(Captured(view), FirstRow(~view.separate)) \in
                 View
        /\ Select(Captured(view), FirstRow(~view.separate)).recording = view.recording
    BY <2>1, CapturedType, SelectType DEF TypeOK
  <2>3. view' \in View /\ ~view'.recording
    <3>1. (~view.separate) \in BOOLEAN
      OBVIOUS
    <3>2. QED
      BY <1>7, <2>2, <3>1, ViewType, ViewFields DEF ModeChanged
  <2>4. QED
    BY <1>7, <2>3 DEF ModeChanged, Drafting, TypeOK
<1>8. CASE Close
  <2>1. FreshView(current) \in View
    BY DEF TypeOK, View, FreshView, FirstRow, AppSettings, Draft, Row
  <2>2. ~FreshView(current).recording
    BY DEF FreshView
  <2>3. QED
    BY <1>8, <2>1, <2>2 DEF Close, Ready, Discard, EndSession, Drafting, TypeOK, View, Engine
<1>9. CASE Save
  <2>1. /\ Captured(view) \in View
        /\ Captured(view).recording = view.recording
    BY CapturedType DEF TypeOK
  <2>2. [separate |-> Captured(view).separate, draft |-> Captured(view).draft] \in AppSettings
    BY <2>1 DEF AppSettings, View
  <2>3. QED
    BY <1>9, <2>1, <2>2 DEF Save, Ready, TypeOK, Pc, View, Engine
<1>10. CASE Confirm \/ Replace \/ Rollback
  <2>1. ~view.recording
    BY <1>10 DEF Confirm, Replace, Rollback, TypeOK
  <2>2. ASSUME SaveFails PROVE view' \in View /\ ~view'.recording
                              /\ saving' \in [pc : Pc, candidate : AppSettings]
    BY <2>1, <2>2, ViewType, ViewFields, AtType DEF SaveFails, TypeOK, Pc
  <2>3. ASSUME NEW pc \in Pc, SaveGoto(pc)
        PROVE saving' \in [pc : Pc, candidate : AppSettings]
    BY <2>3 DEF SaveGoto, TypeOK
  <2>4. ASSUME Fatal PROVE TypeOK'
    <3>1. engine' \in Engine /\ ~engine'.session
      BY <2>4, EngineType, EngineFields DEF Fatal, TypeOK
    <3>2. saving' \in [pc : Pc, candidate : AppSettings]
      BY <2>4, AtType DEF Fatal, Pc
    <3>3. QED
      BY <2>1, <2>4, <3>1, <3>2 DEF Fatal, TypeOK
  <2>5. ASSUME Confirm PROVE TypeOK'
    BY <2>1, <2>2, <2>3, <2>5 DEF Confirm, SaveKeeps, TypeOK, Pc
  <2>6. ASSUME NEW pair \in [lock : Hotkey, unlock : Hotkey],
               engine' = [engine EXCEPT !.pair = pair, !.session = FALSE]
        PROVE engine' \in Engine /\ ~engine'.session
    BY <2>6, EngineType, EngineFields DEF TypeOK
  <2>7. ASSUME Replace PROVE TypeOK'
    <3>1. ActivePair(saving.candidate) \in [lock : Hotkey, unlock : Hotkey]
      BY ActivePairType DEF TypeOK
    <3>2. QED
      BY <2>1, <2>2, <2>3, <2>4, <2>6, <2>7, <3>1 DEF Replace, SaveKeeps, TypeOK, Pc
  <2>8. ASSUME Rollback PROVE TypeOK'
    <3>1. ActivePair(current) \in [lock : Hotkey, unlock : Hotkey]
      BY ActivePairType DEF TypeOK
    <3>2. QED
      BY <2>1, <2>2, <2>4, <2>6, <2>8, <3>1
      DEF Rollback, RollbackRefused, SaveKeeps, Discard, TypeOK
  <2>9. QED
    BY <1>10, <2>5, <2>7, <2>8
<1>11. CASE WriteFile \/ MoveFile
  BY <1>11, EncodedType
  DEF WriteFile, MoveFile, FileWhileWriting, SaveGoto, FilesKeep, TypeOK, Pc, File
<1>12. CASE Commit
  <2>1. ~view.recording /\ saving.candidate \in AppSettings
    BY <1>12 DEF Commit, TypeOK
  <2>2. view' \in View /\ ~view'.recording
    <3> DEFINE draft == saving.candidate.draft
               separate == saving.candidate.separate
    <3>1. view \in View /\ draft \in Draft /\ separate \in BOOLEAN
      BY <2>1 DEF TypeOK, AppSettings
    <3>2. draft[view.action] \in Hotkey
      BY <3>1 DEF View, Draft
    <3>3. view' \in {view, [view EXCEPT !.draft = draft, !.separate = separate,
                                      !.accepted = draft[view.action],
                                      !.shown = draft[view.action]]}
      BY <1>12 DEF Commit
    <3> HIDE DEF draft, separate
    <3>4. QED
      BY <2>1, <3>1, <3>2, <3>3 DEF View
  <2>3. engine' \in Engine /\ (engine'.session => ~engine'.locked /\ ~engine'.open)
    BY <1>12, EngineType, EngineFields DEF Commit, TypeOK
  <2>4. saving' \in [pc : Pc, candidate : AppSettings]
    BY <1>12, AtType DEF Commit, Pc
  <2>5. QED
    BY <1>12, <2>1, <2>2, <2>3, <2>4 DEF Commit, Discard, TypeOK
<1>13. CASE Restart
  <2>1. /\ NoEngine \in Engine
        /\ ~NoEngine.session
    BY ActivePairType, DefaultType DEF Engine, NoEngine
  <2>2. QED
    BY <1>13, <2>1, DefaultType, FreshTypes DEF Restart, TypeOK, Pc
<1>14. QED
  BY <1>1, <1>2, <1>3, <1>4, <1>5, <1>6, <1>7, <1>8, <1>9, <1>10, <1>11, <1>12, <1>13
  DEF Next

-----------------------------------------------------------------------------
(* The file, the settings and the engine *)

\* Where a save has got to says which settings the file holds and which pair is
\* installed: the file follows at MoveFile, the engine at Replace.
Agreement ==
    /\ saving.pc \in {"idle", "confirm", "replace", "write", "move", "rollback"}
          => disk \in WholeFile /\ Loaded(disk) = current
    /\ saving.pc = "commit" => disk = Encoded(saving.candidate)
    /\ ~engine.open =>
          /\ saving.pc \in {"idle", "confirm", "replace"}
                => engine.pair = ActivePair(current)
          /\ saving.pc \in {"write", "move", "commit"}
                => engine.pair = ActivePair(saving.candidate)

LEMMA AgreementInit == Init => Agreement
BY DEF Init, At, Agreement

\* Most steps leave all of it alone.
LEMMA AgreementKept ==
    ASSUME Agreement, UNCHANGED <<disk, current, saving>>,
           engine'.pair = engine.pair, engine.open => engine'.open
    PROVE  Agreement'
BY DEF Agreement

LEMMA AgreementStarted ==
    ASSUME NEW settings \in AppSettings, disk' \in WholeFile, Loaded(disk') = settings,
           Started(settings)
    PROVE  Agreement'
<1>1. NoEngine \in Engine
  BY ActivePairType, DefaultType DEF Engine, NoEngine
<1>2. [NoEngine EXCEPT !.pair = ActivePair(settings), !.open = FALSE].pair
         = ActivePair(settings)
  BY <1>1 DEF Engine
<1>3. engine'.pair = ActivePair(settings) /\ current' = settings /\ saving' = At("idle")
  BY <1>2 DEF Started, Fresh
<1>4. QED
  BY <1>3 DEF Agreement, At

LEMMA EndSessionKeeps ==
    ASSUME NEW e \in Engine
    PROVE  /\ [e EXCEPT !.session = FALSE].pair = e.pair
           /\ [e EXCEPT !.session = FALSE].open = e.open
           /\ [e EXCEPT !.session = TRUE].pair = e.pair
           /\ [e EXCEPT !.session = TRUE].open = e.open
           /\ \A value \in BOOLEAN :
                 /\ [e EXCEPT !.locked = value, !.session = FALSE].pair = e.pair
                 /\ [e EXCEPT !.locked = value, !.session = FALSE].open = e.open
           /\ [e EXCEPT !.open = TRUE, !.locked = FALSE, !.session = FALSE].pair = e.pair
           /\ [e EXCEPT !.open = TRUE, !.locked = FALSE, !.session = FALSE].open
BY DEF Engine

LEMMA AgreementStep == TypeOK /\ Agreement /\ [Next]_vars => Agreement'
<1> SUFFICES ASSUME TypeOK, Agreement, [Next]_vars PROVE Agreement'
  OBVIOUS
<1>1. CASE UNCHANGED vars
  BY <1>1, AgreementKept DEF vars
<1>2. ASSUME LoadFile PROVE Agreement'
  <2>1. CASE disk.kind = "whole"
    <3>1. disk \in WholeFile
      BY <2>1 DEF TypeOK, File, Absent, Corrupt
    <3>2. Started(Loaded(disk)) /\ disk' = disk
      BY <1>2, <2>1 DEF LoadFile
    <3>3. QED
      BY <3>1, <3>2, LoadedType, AgreementStarted
  <2>2. CASE disk.kind # "whole"
    <3>1. saving' = At("defaults") /\ engine' = engine /\ saving.pc = "load"
      BY <1>2, <2>2 DEF LoadFile, FilesKeep
    <3>2. QED
      BY <3>1 DEF Agreement, At
  <2>3. QED
    BY <2>1, <2>2
<1>3. ASSUME SaveDefaults PROVE Agreement'
  BY <1>3, DefaultType, EncodedType, LoadEncode, AgreementStarted DEF SaveDefaults
<1>4. ASSUME StartFails \/ DeliverFatal \/ Restart PROVE Agreement'
  <2>1. \E pc \in {"load", "ended"} : saving' = At(pc)
    BY <1>4 DEF StartFails, DeliverFatal, Restart, Fresh
  <2>2. QED
    BY <2>1 DEF Agreement, At
<1>5. ASSUME HotkeyPressed \/ EngineFailsOpen \/ \E value \in BOOLEAN : TrayLock(value)
      PROVE Agreement'
  <2>1. ASSUME NEW value \in BOOLEAN, ChangeLock(value)
        PROVE engine'.pair = engine.pair /\ engine'.open = engine.open
    BY <2>1, EndSessionKeeps DEF ChangeLock, TypeOK
  <2>2. (~engine.locked) \in BOOLEAN
    OBVIOUS
  <2>3. engine'.pair = engine.pair /\ (engine.open => engine'.open)
    BY <1>5, <2>1, <2>2, EndSessionKeeps DEF HotkeyPressed, TrayLock, EngineFailsOpen, TypeOK
  <2>4. UNCHANGED <<disk, current, saving>>
    BY <1>5 DEF HotkeyPressed, TrayLock, EngineFailsOpen, SettingsUnchanged
  <2>5. QED
    BY <2>3, <2>4, AgreementKept
<1>6. ASSUME DeliverLockState \/ Show \/ ModeChanged \/ Close \/ RecordingCancelled
             \/ (\E action \in Row : Record(action))
             \/ (\E hotkey \in Hotkey : RecordingCaptures(hotkey))
      PROVE Agreement'
  <2>1. \/ engine' = engine
        \/ engine' = [engine EXCEPT !.session = FALSE]
        \/ engine' = [engine EXCEPT !.session = TRUE]
    BY <1>6 DEF DeliverLockState, Show, ModeChanged, Close, RecordingCancelled, Record,
                RecordingCaptures, EndSession
  <2>2. UNCHANGED <<disk, current, saving>>
    BY <1>6 DEF DeliverLockState, Show, ModeChanged, Close, RecordingCancelled, Record,
                RecordingCaptures, Drafting
  <2>3. QED
    BY <2>1, <2>2, EndSessionKeeps, AgreementKept DEF TypeOK
<1>7. ASSUME Save PROVE Agreement'
  BY <1>7 DEF Save, Ready, Agreement
<1>8. ASSUME SaveFails, saving.pc \in {"confirm", "replace"},
             UNCHANGED engine, UNCHANGED disk, UNCHANGED current
      PROVE Agreement'
  BY <1>8 DEF SaveFails, Agreement, At
<1>9. ASSUME Fatal PROVE Agreement'
  BY <1>9 DEF Fatal, Agreement, At
<1>10. ASSUME Confirm PROVE Agreement'
  BY <1>8, <1>10 DEF Confirm, SaveGoto, SaveKeeps, Agreement, TypeOK
<1>11. ASSUME Replace PROVE Agreement'
  <2>1. CASE Fatal \/ (SaveFails /\ UNCHANGED engine)
    BY <1>8, <1>9, <1>11, <2>1 DEF Replace, SaveKeeps, Fatal
  <2>2. CASE ~engine.open /\ ~engine.locked
    <3>1. /\ engine' = [engine EXCEPT !.pair = ActivePair(saving.candidate), !.session = FALSE]
          /\ saving' = [saving EXCEPT !.pc = "write"]
          /\ UNCHANGED <<disk, current>>
      BY <1>11, <2>2 DEF Replace, SaveGoto, SaveKeeps
    <3>2. engine'.pair = ActivePair(saving.candidate)
      BY <3>1 DEF TypeOK, Engine
    <3>3. saving'.pc = "write" /\ saving'.candidate = saving.candidate
      BY <3>1 DEF TypeOK
    <3>4. QED
      BY <1>11, <3>1, <3>2, <3>3 DEF Replace, Agreement
  <2>3. QED
    BY <1>11, <2>1, <2>2 DEF Replace
<1>12. ASSUME WriteFile PROVE Agreement'
  <2>1. saving'.pc \in {"move", "rollback"} /\ saving'.candidate = saving.candidate
    BY <1>12 DEF WriteFile, SaveGoto, TypeOK
  <2>2. QED
    BY <1>12, <2>1 DEF WriteFile, FileWhileWriting, FilesKeep, Agreement
<1>13. ASSUME MoveFile PROVE Agreement'
  <2>1. /\ saving'.candidate = saving.candidate
        /\ \/ saving'.pc = "commit" /\ disk' = Encoded(saving.candidate)
           \/ saving'.pc = "rollback" /\ disk' = disk
    BY <1>13 DEF MoveFile, SaveGoto, TypeOK
  <2>2. QED
    BY <1>13, <2>1 DEF MoveFile, FilesKeep, Agreement
<1>14. ASSUME Rollback PROVE Agreement'
  <2>1. CASE Fatal
    BY <1>9, <2>1
  <2>2. CASE ~engine.open /\ ~engine.locked
    <3>1. /\ engine' = [engine EXCEPT !.pair = ActivePair(current), !.session = FALSE]
          /\ saving' = At("idle")
          /\ UNCHANGED <<disk, current>>
      BY <1>14, <2>2 DEF Rollback, SaveFails, SaveKeeps
    <3>2. engine'.pair = ActivePair(current)
      BY <3>1 DEF TypeOK, Engine
    <3>3. QED
      BY <1>14, <3>1, <3>2 DEF Rollback, Agreement, At
  <2>3. QED
    BY <1>14, <2>1, <2>2 DEF Rollback, RollbackRefused
<1>15. ASSUME Commit PROVE Agreement'
  <2>1. /\ saving.pc = "commit" /\ current' = saving.candidate /\ disk' = disk
        /\ disk = Encoded(saving.candidate) /\ saving.candidate \in AppSettings
    BY <1>15 DEF Commit, Agreement, TypeOK
  <2>2. disk' \in WholeFile /\ Loaded(disk') = current'
    BY <2>1, EncodedType, LoadEncode
  <2>3. CASE saving' = At("idle") /\ UNCHANGED engine
    BY <2>1, <2>2, <2>3 DEF Agreement, At
  <2>4. CASE saving' = At("ended")
    BY <2>4 DEF Agreement, At
  <2>5. QED
    BY <1>15, <2>3, <2>4 DEF Commit
<1>16. QED
  BY <1>1, <1>2, <1>3, <1>4, <1>5, <1>6, <1>7, <1>10, <1>11, <1>12, <1>13, <1>14, <1>15
  DEF Next

-----------------------------------------------------------------------------
(* The window under the lock *)

LEMMA HiddenInit == Init => HiddenUnderLock
BY DEF Init, HiddenUnderLock, FreshView

\* News of the lock that waits goes on waiting when more is put behind it, and
\* when an unlock is taken from the front.
LEMMA NewsWaits ==
    ASSUME NEW s \in Seq(BOOLEAN)
    PROVE  /\ \A value \in BOOLEAN :
                 (\E i \in 1..Len(s) : s[i])
                    => \E i \in 1..Len(Append(s, value)) : Append(s, value)[i]
           /\ \E i \in 1..Len(Append(s, TRUE)) : Append(s, TRUE)[i]
           /\ (s # <<>> /\ ~Head(s) /\ \E i \in 1..Len(s) : s[i])
                 => \E i \in 1..Len(Tail(s)) : Tail(s)[i]
<1>1. ASSUME NEW value \in BOOLEAN, NEW i \in 1..Len(s), s[i]
      PROVE  \E j \in 1..Len(Append(s, value)) : Append(s, value)[j]
  <2>1. i \in 1..Len(Append(s, value)) /\ Append(s, value)[i] = s[i]
    OBVIOUS
  <2>2. QED
    BY <1>1, <2>1
<1>2. \E i \in 1..Len(Append(s, TRUE)) : Append(s, TRUE)[i]
  <2>1. Len(s) + 1 \in 1..Len(Append(s, TRUE)) /\ Append(s, TRUE)[Len(s) + 1] = TRUE
    OBVIOUS
  <2>2. QED
    BY <2>1
<1>3. ASSUME s # <<>>, Head(s) = FALSE, NEW i \in 1..Len(s), s[i] = TRUE
      PROVE  \E j \in 1..Len(Tail(s)) : Tail(s)[j] = TRUE
  <2>1. Head(s) = s[1]
    OBVIOUS
  <2>2. i # 1
    BY <1>3, <2>1
  <2>3. /\ Len(Tail(s)) = Len(s) - 1
        /\ \A j \in 1..Len(Tail(s)) : Tail(s)[j] = s[j + 1]
    BY <1>3, HeadTailProperties
  <2>4. i - 1 \in 1..Len(Tail(s)) /\ Tail(s)[i - 1] = s[i]
    BY <2>2, <2>3
  <2>5. QED
    BY <1>3, <2>4
<1>4. ASSUME s # <<>>, ~Head(s), NEW i \in 1..Len(s), s[i]
      PROVE  \E j \in 1..Len(Tail(s)) : Tail(s)[j]
  <2>1. Head(s) \in BOOLEAN /\ s[i] \in BOOLEAN
    BY <1>4, HeadTailProperties
  <2>2. Head(s) = FALSE /\ s[i] = TRUE
    BY <1>4, <2>1
  <2>3. QED
    BY <1>3, <1>4, <2>2
<1>5. QED
  BY <1>1, <1>2, <1>4

LEMMA HiddenStep == TypeOK /\ HiddenUnderLock /\ [Next]_vars => HiddenUnderLock'
<1> SUFFICES ASSUME TypeOK, HiddenUnderLock, [Next]_vars PROVE HiddenUnderLock'
  OBVIOUS
<1>1. ASSUME events' = events, view'.open => view.open, engine'.locked => engine.locked
      PROVE HiddenUnderLock'
  BY <1>1 DEF HiddenUnderLock
<1>2. ASSUME ~view'.open \/ ~engine'.locked PROVE HiddenUnderLock'
  BY <1>2 DEF HiddenUnderLock
<1>3. CASE UNCHANGED vars
  BY <1>1, <1>3 DEF vars
<1>4. ASSUME NEW settings, NEW running, NEW pc, Fresh(settings, running, pc)
      PROVE HiddenUnderLock'
  BY <1>2, <1>4 DEF Fresh, FreshView
<1>5. CASE LoadFile \/ SaveDefaults \/ StartFails \/ Restart
  BY <1>1, <1>4, <1>5 DEF LoadFile, SaveDefaults, StartFails, Restart, Started, FilesKeep
<1>6. ASSUME NEW value \in BOOLEAN, ChangeLock(value), view' = view PROVE HiddenUnderLock'
  <2>1. engine'.locked = value
    BY <1>6 DEF ChangeLock, TypeOK, Engine
  <2>2. events' = IF engine.locked = value THEN events ELSE Append(events, value)
    BY <1>6 DEF ChangeLock
  <2>3. CASE engine.locked = value
    BY <1>1, <1>6, <2>1, <2>2, <2>3
  <2>4. CASE engine.locked # value /\ value = TRUE
    BY <2>2, <2>4, NewsWaits DEF HiddenUnderLock, TypeOK
  <2>5. CASE value = FALSE
    BY <1>2, <2>1, <2>5
  <2>6. QED
    BY <2>3, <2>4, <2>5
<1>7. CASE HotkeyPressed
  <2>1. (~engine.locked) \in BOOLEAN
    OBVIOUS
  <2>2. QED
    BY <1>6, <1>7, <2>1 DEF HotkeyPressed, SettingsUnchanged
<1>8. CASE \E value \in BOOLEAN : TrayLock(value)
  BY <1>6, <1>8 DEF TrayLock, SettingsUnchanged
<1>9. ASSUME engine' = [engine EXCEPT !.open = TRUE, !.locked = FALSE, !.session = FALSE]
      PROVE HiddenUnderLock'
  <2>1. ~engine'.locked
    BY <1>9 DEF TypeOK, Engine
  <2>2. QED
    BY <1>2, <2>1
<1>10. CASE EngineFailsOpen \/ Fatal
  BY <1>9, <1>10 DEF EngineFailsOpen, Fatal
<1>11. CASE DeliverFatal
  BY <1>1, <1>11 DEF DeliverFatal
<1>12. CASE DeliverLockState
  <2>1. CASE Head(events)
    <3>1. Cancelled(view) \in View
      BY CancelledType DEF TypeOK
    <3>2. ~view'.open
      BY <1>12, <2>1, <3>1 DEF DeliverLockState, View
    <3>3. QED
      BY <1>2, <3>2
  <2>2. CASE ~Head(events)
    <3>1. view'.open = view.open
      BY <1>12, <2>2 DEF DeliverLockState, TypeOK, View
    <3>2. events # <<>> /\ events' = Tail(events) /\ engine' = engine
      BY <1>12, <2>2 DEF DeliverLockState
    <3>3. QED
      BY <2>2, <3>1, <3>2, NewsWaits DEF HiddenUnderLock, TypeOK
  <2>3. QED
    BY <2>1, <2>2
<1>13. CASE Show
  BY <1>2, <1>13 DEF Show, MayShow
<1>14. ASSUME NEW action \in Row, Record(action) PROVE HiddenUnderLock'
  <2>1. engine'.locked = engine.locked
    BY <1>14 DEF Record, TypeOK, Engine
  <2>2. Selected(action) \in View /\ Selected(action).open = view.open
    <3>1. Cancelled(view) \in View /\ Cancelled(view).open = view.open
      BY CancelledType DEF Cancelled, TypeOK, View
    <3>2. Captured(Cancelled(view)) \in View /\ Captured(Cancelled(view)).open = view.open
      BY <3>1, CapturedType DEF Captured, View
    <3>3. QED
      BY <3>2, SelectType DEF Selected, Select, View
  <2>3. view'.open = view.open /\ events' = events
    BY <1>14, <2>2 DEF Record, Drafting, View
  <2>4. QED
    BY <1>1, <2>1, <2>3
<1>15. CASE RecordingCancelled \/ \E hotkey \in Hotkey : RecordingCaptures(hotkey)
  <2>1. engine'.locked = engine.locked
    BY <1>15 DEF RecordingCancelled, RecordingCaptures, EndSession, TypeOK, Engine
  <2>2. view'.open = view.open /\ events' = events
    BY <1>15 DEF RecordingCancelled, RecordingCaptures, Drafting, Cancelled, TypeOK, View
  <2>3. QED
    BY <1>1, <2>1, <2>2
<1>16. CASE ModeChanged
  BY <1>2, <1>16 DEF ModeChanged
<1>17. CASE Close
  <2>1. FreshView(current) \in View /\ ~FreshView(current).open
    BY DEF TypeOK, View, FreshView, FirstRow, AppSettings, Draft, Row
  <2>2. ~view'.open
    BY <1>17, <2>1 DEF Close, View
  <2>3. QED
    BY <1>2, <2>2
<1>18. CASE Save
  <2>1. Captured(view) \in View /\ Captured(view).open = view.open
    BY CapturedType DEF Captured, TypeOK, View
  <2>2. view'.open = view.open /\ events' = events /\ engine' = engine
    BY <1>18, <2>1 DEF Save, View
  <2>3. QED
    BY <1>1, <2>2
<1>19. ASSUME SaveFails PROVE view'.open = view.open
  BY <1>19 DEF SaveFails, TypeOK, View
<1>20. CASE Confirm
  BY <1>1, <1>19, <1>20 DEF Confirm, SaveKeeps
<1>21. CASE Replace
  <2>1. CASE engine.open
    BY <1>10, <1>21, <2>1 DEF Replace
  <2>2. CASE ~engine.open /\ engine.locked
    BY <1>1, <1>19, <1>21, <2>2 DEF Replace, SaveKeeps
  <2>3. CASE ~engine.open /\ ~engine.locked
    <3>1. engine'.locked = engine.locked
      BY <1>21, <2>3 DEF Replace, TypeOK, Engine
    <3>2. QED
      BY <1>2, <2>3, <3>1
  <2>4. QED
    BY <2>1, <2>2, <2>3
<1>22. CASE WriteFile \/ MoveFile
  BY <1>1, <1>22 DEF WriteFile, MoveFile, FilesKeep
<1>23. CASE Rollback
  <2>1. CASE Fatal
    BY <1>10, <2>1
  <2>2. CASE ~engine.locked /\ engine' = [engine EXCEPT !.pair = ActivePair(current), !.session = FALSE]
    <3>1. engine'.locked = engine.locked
      BY <2>2 DEF TypeOK, Engine
    <3>2. QED
      BY <1>2, <2>2, <3>1
  <2>3. QED
    BY <1>23, <2>1, <2>2 DEF Rollback, RollbackRefused
<1>24. CASE Commit
  <2>1. \/ engine' = engine
        \/ engine' = [engine EXCEPT !.open = TRUE, !.locked = FALSE, !.session = FALSE]
    BY <1>24 DEF Commit
  <2>2. view'.open = view.open /\ events' = events
    BY <1>24 DEF Commit, TypeOK, View
  <2>3. QED
    BY <1>1, <1>9, <2>1, <2>2
<1>25. QED
  BY <1>3, <1>5, <1>7, <1>8, <1>10, <1>11, <1>12, <1>13, <1>14, <1>15, <1>16, <1>17, <1>18,
     <1>20, <1>21, <1>22, <1>23, <1>24
  DEF Next

-----------------------------------------------------------------------------
\* The kinds of value, and the window that goes away under the lock, for any
\* order of key presses, tray actions, buttons, failures and restarts.
THEOREM WindowInvariance == Spec => []WindowInv
<1>1. Init => TypeOK /\ HiddenUnderLock
  BY InitTypes, HiddenInit
<1>2. TypeOK /\ HiddenUnderLock /\ [Next]_vars => (TypeOK /\ HiddenUnderLock)'
  BY TypesStep, HiddenStep
<1>3. TypeOK /\ HiddenUnderLock => WindowInv
  BY DEF WindowInv
<1>4. QED
  BY <1>1, <1>2, <1>3, PTL DEF Spec

\* Whichever step of a save fails, or is the last before the application is
\* killed, the pair in force, the settings in memory and the file agree when
\* the application serves, and a file of any version loads to them.
THEOREM SavedInForce == Spec => []InForceIsSaved
<1>1. Init => TypeOK /\ Agreement
  BY InitTypes, AgreementInit
<1>2. TypeOK /\ Agreement /\ [Next]_vars => (TypeOK /\ Agreement)'
  BY TypesStep, AgreementStep
<1>3. TypeOK /\ Agreement => InForceIsSaved
  <2> SUFFICES ASSUME TypeOK, Agreement PROVE InForceIsSaved
    OBVIOUS
  <2>1. saving.pc \in Pc
    BY DEF TypeOK
  <2>2. Serving => disk \in WholeFile /\ engine.pair = ActivePair(Loaded(disk))
    BY DEF Serving, Agreement
  <2>3. Serving /\ disk.mode = "none"
          => engine.pair = [lock |-> Resolved(disk, "lock"), unlock |-> Resolved(disk, "unlock")]
    BY <2>2, UpgradeKeepsPair
  <2>4. QED
    BY <2>1, <2>2, <2>3 DEF InForceIsSaved, Agreement, Pc
<1>4. QED
  BY <1>1, <1>2, <1>3, PTL DEF Spec

-----------------------------------------------------------------------------
\* A corrupt file is one that was found; nothing serves before it is set aside.
CorruptIsFound ==
    disk.kind = "corrupt" => ~backup /\ saving.pc \in {"load", "ended"}

\* Only these steps touch the file, and each leaves one that can be read or none.
LEMMA FileWriters ==
    ASSUME [Next]_vars, disk' # disk
    PROVE  \/ LoadFile /\ disk.kind = "corrupt" /\ disk'.kind = "absent" /\ backup'
           \/ SaveDefaults /\ disk'.kind = "whole"
           \/ MoveFile /\ disk'.kind = "whole"
<1>1. LoadFile \/ SaveDefaults \/ MoveFile
  BY DEF vars, Next, StartFails, HotkeyPressed, EngineFailsOpen, DeliverLockState,
     DeliverFatal, TrayLock, Show, Record, RecordingCaptures, RecordingCancelled, ModeChanged,
     Close, Save, Confirm, Replace, WriteFile, FileWhileWriting, Rollback, Commit, Restart,
     SettingsUnchanged, Drafting, SaveKeeps, Fatal, RollbackRefused, FilesKeep
<1>2. QED
  BY <1>1 DEF LoadFile, Preserved, Absent, SaveDefaults, MoveFile, Encoded

LEMMA CorruptStep == CorruptIsFound /\ [Next]_vars => CorruptIsFound'
<1> SUFFICES ASSUME CorruptIsFound, [Next]_vars, disk'.kind = "corrupt"
             PROVE ~backup' /\ saving'.pc \in {"load", "ended"}
  BY DEF CorruptIsFound
<1>1. disk' = disk
  BY FileWriters
<1>2. ~backup /\ saving.pc \in {"load", "ended"}
  BY <1>1 DEF CorruptIsFound
<1>3. UNCHANGED vars \/ LoadFile \/ StartFails \/ Restart
      \/ (UNCHANGED <<backup, saving>>)
  BY <1>2 DEF Next, SaveDefaults, HotkeyPressed, EngineFailsOpen, DeliverLockState,
     DeliverFatal, TrayLock, Show, Record, RecordingCaptures, RecordingCancelled, ModeChanged,
     Close, Save, Confirm, Replace, WriteFile, MoveFile, Rollback, Commit, Ready, Pumping,
     SettingsUnchanged, Drafting
<1>4. CASE LoadFile
  BY <1>1, <1>4 DEF LoadFile, Absent
<1>5. CASE StartFails \/ Restart
  BY <1>2, <1>5 DEF StartFails, Restart, Fresh, At
<1>6. QED
  BY <1>2, <1>3, <1>4, <1>5 DEF vars

\* The steps of a save and of a start that write the file: it is never torn,
\* and a corrupt one is set aside first, however often the application is
\* killed (save_settings, _preserve_corrupt).
THEOREM FileIsKept == Spec => FileSurvives
<1>1. Init => CorruptIsFound
  BY DEF Init, CorruptIsFound, At
<1>2. CorruptIsFound /\ [Next]_vars
         => [disk.kind = "whole" => disk'.kind = "whole"]_vars
  BY FileWriters
<1>3. CorruptIsFound /\ [Next]_vars
         => [disk.kind = "corrupt" /\ disk' # disk => backup' /\ ~backup]_vars
  <2> SUFFICES ASSUME CorruptIsFound, [Next]_vars, disk.kind = "corrupt", disk' # disk
               PROVE backup' /\ ~backup
    OBVIOUS
  <2>1. saving.pc \in {"load", "ended"} /\ ~backup
    BY DEF CorruptIsFound
  <2>2. ~SaveDefaults /\ ~MoveFile
    BY <2>1 DEF SaveDefaults, MoveFile
  <2>3. QED
    BY <2>1, <2>2, FileWriters
<1>4. QED
  BY <1>1, <1>2, <1>3, CorruptStep, PTL DEF Spec, FileSurvives

-----------------------------------------------------------------------------
(* The candidate and its row *)

\* The row in front is the one that is recorded, or was, for as long as its
\* candidate waits.
RowIsKnown == view.recording \/ pending # NoHotkey => view.action = row

\* Taking the candidate into the draft writes the row in front, and nothing else.
LEMMA CapturedFacts ==
    ASSUME TypeOK
    PROVE  /\ Captured(view) \in View /\ Captured(view).recording = view.recording
           /\ Captured(view).action = view.action
           /\ \A r \in Row :
                 \/ Captured(view).draft[r] = view.draft[r]
                 \/ pending # NoHotkey /\ r = view.action /\ Captured(view).draft[r] = pending
<1>1. view \in View /\ Captured(view) \in View /\ Captured(view).recording = view.recording
  BY CapturedType DEF TypeOK
<1>2. CASE pending = NoHotkey
  BY <1>1, <1>2 DEF Captured
<1>3. CASE pending # NoHotkey
  <2>1. Captured(view) = [view EXCEPT !.draft[view.action] = pending]
    BY <1>3 DEF Captured
  <2>2. QED
    BY <1>1, <1>3, <2>1 DEF View, Draft
<1>4. QED
  BY <1>1, <1>2, <1>3

\* Another row is put in front, or nothing is recorded: the drafts stay.
LEMMA SameDrafts ==
    ASSUME NEW v \in View
    PROVE  /\ \A action \in Row :
                 /\ Select(v, action).draft = v.draft /\ Select(v, action).action = action
                 /\ [Select(v, action) EXCEPT !.recording = TRUE, !.shown = NoHotkey].draft
                       = v.draft
                 /\ [Select(v, action) EXCEPT !.recording = TRUE, !.shown = NoHotkey].action
                       = action
           /\ \A value \in BOOLEAN : [v EXCEPT !.separate = value].draft = v.draft
           /\ Cancelled(v).draft = v.draft /\ Cancelled(v).action = v.action
           /\ ~v.recording => Cancelled(v) = v
           /\ [Cancelled(v) EXCEPT !.locked = TRUE, !.open = FALSE].draft = v.draft
           /\ [Cancelled(v) EXCEPT !.locked = TRUE, !.open = FALSE].action = v.action
           /\ ~[Cancelled(v) EXCEPT !.locked = TRUE, !.open = FALSE].recording
           /\ [v EXCEPT !.locked = FALSE].draft = v.draft
           /\ [v EXCEPT !.locked = FALSE].action = v.action
           /\ [v EXCEPT !.open = TRUE].draft = v.draft
           /\ [v EXCEPT !.open = TRUE].action = v.action
           /\ [v EXCEPT !.shown = v.accepted].draft = v.draft
           /\ [v EXCEPT !.shown = v.accepted].action = v.action
           /\ \A hotkey \in Hotkey :
                 /\ [v EXCEPT !.recording = FALSE, !.shown = hotkey].draft = v.draft
                 /\ [v EXCEPT !.recording = FALSE, !.shown = hotkey].action = v.action
BY DEF View, Select, Cancelled

\* What a step does to a draft: nothing, what was recorded for its row, or what
\* is saved from now on.
DraftIsMeant ==
    \A r \in Row :
        \/ view'.draft[r] = view.draft[r]
        \/ r = row /\ view'.draft[r] = pending
        \/ view'.draft[r] = current'.draft[r]

LEMMA FreshIsMeant ==
    ASSUME NEW settings, NEW running, NEW pc, Fresh(settings, running, pc)
    PROVE  DraftIsMeant /\ RowIsKnown'
BY DEF Fresh, FreshView, DraftIsMeant, RowIsKnown

\* A step that leaves the drafts, the row in front and the candidate alone.
LEMMA QuietIsMeant ==
    ASSUME RowIsKnown, UNCHANGED row, view'.draft = view.draft, view'.action = view.action,
           view'.recording \/ pending' # NoHotkey => view.recording \/ pending # NoHotkey
    PROVE  DraftIsMeant /\ RowIsKnown'
BY DEF DraftIsMeant, RowIsKnown

LEMMA DraftStep == TypeOK /\ RowIsKnown /\ [Next]_vars => DraftIsMeant /\ RowIsKnown'
<1> SUFFICES ASSUME TypeOK, RowIsKnown, [Next]_vars PROVE DraftIsMeant /\ RowIsKnown'
  OBVIOUS
<1> USE DEF DraftIsMeant
<1>1. view \in View /\ view.separate \in BOOLEAN
  BY DEF TypeOK, View
<1>2. CASE UNCHANGED vars \/ StartFails \/ HotkeyPressed \/ EngineFailsOpen \/ DeliverFatal
            \/ WriteFile \/ MoveFile \/ \E value \in BOOLEAN : TrayLock(value)
  <2>1. UNCHANGED <<view, pending, row>>
    BY <1>2 DEF vars, StartFails, HotkeyPressed, EngineFailsOpen, DeliverFatal, WriteFile,
       MoveFile, TrayLock, FilesKeep, SettingsUnchanged
  <2>2. QED
    BY <2>1, QuietIsMeant
<1>3. CASE LoadFile \/ SaveDefaults \/ Restart
  <2>1. CASE UNCHANGED <<view, pending, row>>
    BY <2>1, QuietIsMeant
  <2>2. CASE \E settings, running, pc : Fresh(settings, running, pc)
    BY <2>2, FreshIsMeant
  <2>3. QED
    BY <1>3, <2>1, <2>2 DEF LoadFile, SaveDefaults, Restart, Started, FilesKeep
<1>4. CASE DeliverLockState \/ Show
  <2>1. /\ view'.draft = view.draft /\ view'.action = view.action /\ UNCHANGED row
        /\ \/ pending' = NoHotkey /\ ~view'.recording
           \/ UNCHANGED pending /\ view'.recording = view.recording
    <3>1. CASE Show
      BY <1>1, <3>1, SameDrafts, ViewFields DEF Show
    <3>2. CASE DeliverLockState /\ Head(events)
      <4>1. /\ view' = [Cancelled(view) EXCEPT !.locked = TRUE, !.open = FALSE]
            /\ pending' = NoHotkey /\ UNCHANGED row
        BY <3>2 DEF DeliverLockState, Discard
      <4>2. QED
        BY <1>1, <4>1, SameDrafts
    <3>3. CASE DeliverLockState /\ ~Head(events)
      <4>1. view' = [view EXCEPT !.locked = FALSE] /\ UNCHANGED <<pending, row>>
        BY <3>3 DEF DeliverLockState
      <4>2. QED
        BY <1>1, <4>1, SameDrafts, ViewFields
    <3>4. QED
      BY <1>4, <3>1, <3>2, <3>3
  <2>2. QED
    BY <2>1, QuietIsMeant
<1>5. ASSUME NEW action \in Row, Record(action)
      PROVE DraftIsMeant /\ RowIsKnown'
  <2>1. ~view.recording /\ pending' = NoHotkey /\ UNCHANGED current
    BY <1>5 DEF Record, Drafting
  <2>2. Selected(action) = Select(Captured(view), action)
    BY <1>1, <2>1, SameDrafts DEF Selected
  <2>3. /\ view'.draft = Captured(view).draft /\ view'.action = action
        /\ \/ UNCHANGED row /\ ~view'.recording
           \/ row' = action
    <3>1. /\ Selected(action).draft = Captured(view).draft /\ Selected(action).action = action
          /\ ~Selected(action).recording
      BY <2>1, <2>2, CapturedFacts, SameDrafts, SelectType
    <3>2. /\ [Selected(action) EXCEPT !.recording = TRUE, !.shown = NoHotkey].draft
                = Captured(view).draft
          /\ [Selected(action) EXCEPT !.recording = TRUE, !.shown = NoHotkey].action = action
      BY <2>2, CapturedFacts, SameDrafts
    <3>3. QED
      BY <1>5, <3>1, <3>2 DEF Record
  <2>4. QED
    BY <2>1, <2>3, CapturedFacts DEF RowIsKnown
<1>6. ASSUME NEW hotkey \in Hotkey, RecordingCaptures(hotkey)
      PROVE DraftIsMeant /\ RowIsKnown'
  <2>1. /\ view.recording /\ UNCHANGED row
        /\ view' = [view EXCEPT !.recording = FALSE, !.shown = hotkey]
    BY <1>6 DEF RecordingCaptures
  <2>2. QED
    BY <1>1, <2>1, SameDrafts, QuietIsMeant
<1>7. CASE RecordingCancelled
  <2>1. /\ view.recording /\ UNCHANGED <<row, pending>> /\ view' = Cancelled(view)
    BY <1>7 DEF RecordingCancelled
  <2>2. QED
    BY <1>1, <2>1, SameDrafts, QuietIsMeant
<1>8. CASE ModeChanged
  <2> DEFINE v == Select(Captured(view), FirstRow(~view.separate))
  <2>1. /\ ~view.recording /\ pending' = NoHotkey
        /\ view' = [v EXCEPT !.separate = ~view.separate]
    BY <1>8 DEF ModeChanged
  <2>2. FirstRow(~view.separate) \in Row /\ (~view.separate) \in BOOLEAN
    BY <1>1 DEF FirstRow, Row
  <2>3. v \in View /\ v.draft = Captured(view).draft /\ ~v.recording
    BY <2>1, <2>2, CapturedFacts, SameDrafts, SelectType
  <2>4. view'.draft = Captured(view).draft /\ ~view'.recording
    <3> HIDE DEF v
    <3>1. QED
      BY <2>1, <2>2, <2>3, SameDrafts, ViewFields
  <2>5. QED
    BY <2>1, <2>4, CapturedFacts DEF RowIsKnown
<1>9. CASE Close
  <2>1. /\ pending' = NoHotkey /\ UNCHANGED current
        /\ view' = [FreshView(current) EXCEPT !.locked = view.locked]
    BY <1>9 DEF Close, Discard, Drafting
  <2>2. view'.draft = current'.draft /\ ~view'.recording
    BY <2>1 DEF FreshView
  <2>3. QED
    BY <2>1, <2>2 DEF RowIsKnown
<1>10. CASE Save
  <2>1. /\ ~view.recording /\ pending' = NoHotkey
        /\ \/ view' = Captured(view)
           \/ view' = [Captured(view) EXCEPT !.shown = Captured(view).accepted]
    BY <1>10 DEF Save
  <2>2. view'.draft = Captured(view).draft /\ ~view'.recording
    <3> DEFINE v == Captured(view)
    <3>1. v \in View /\ ~v.recording
      BY <2>1, CapturedFacts
    <3>2. view' = v \/ view' = [v EXCEPT !.shown = v.accepted]
      BY <2>1
    <3> HIDE DEF v
    <3>3. view'.draft = v.draft /\ ~view'.recording
      BY <3>1, <3>2, SameDrafts, ViewFields
    <3>4. QED
      BY <3>3 DEF v
  <2>3. QED
    BY <2>1, <2>2, CapturedFacts DEF RowIsKnown
<1>11. CASE Confirm \/ Replace \/ Rollback
  <2>1. /\ UNCHANGED row
        /\ pending' = pending \/ pending' = NoHotkey
        /\ view' = view \/ view' = [view EXCEPT !.shown = view.accepted]
    <3>1. SaveFails => view' = [view EXCEPT !.shown = view.accepted]
      BY DEF SaveFails
    <3>2. Fatal => UNCHANGED <<row, pending, view>>
      BY DEF Fatal
    <3>3. QED
      BY <1>11, <3>1, <3>2 DEF Confirm, Replace, Rollback, RollbackRefused, SaveKeeps, Discard
  <2>2. view'.draft = view.draft /\ view'.action = view.action /\ view'.recording = view.recording
    <3>1. CASE view' = [view EXCEPT !.shown = view.accepted]
      BY <1>1, <3>1 DEF View
    <3>2. QED
      BY <2>1, <3>1
  <2>3. QED
    BY <2>1, <2>2, QuietIsMeant
<1>12. CASE Commit
  <2>1. /\ UNCHANGED row /\ pending' = NoHotkey /\ current' = saving.candidate
        /\ ~view.recording
    BY <1>12 DEF Commit, Discard, TypeOK
  <2>2. CASE UNCHANGED view
    BY <2>1, <2>2, QuietIsMeant
  <2>3. CASE view' = [view EXCEPT !.draft = saving.candidate.draft,
                                  !.separate = saving.candidate.separate,
                                  !.accepted = saving.candidate.draft[view.action],
                                  !.shown = saving.candidate.draft[view.action]]
    <3>1. view'.draft = current'.draft /\ ~view'.recording
      BY <1>1, <2>1, <2>3 DEF View
    <3>2. QED
      BY <2>1, <3>1 DEF RowIsKnown
  <2>4. QED
    BY <1>12, <2>2, <2>3 DEF Commit
<1>13. QED
  BY <1>2, <1>3, <1>4, <1>5, <1>6, <1>7, <1>8, <1>9, <1>10, <1>11, <1>12 DEF Next

\* A shortcut that was recorded for one row is not drafted for another, nor does
\* a draft change by itself, whatever the lock, the tray and a save do between
\* the capture and the next button (_capture_draft, select_action).
THEOREM CandidateStays == Spec => CandidateStaysInItsRow
<1>1. Init => TypeOK /\ RowIsKnown
  BY InitTypes DEF Init, RowIsKnown, FreshView
<1>2. TypeOK /\ RowIsKnown /\ [Next]_vars => (TypeOK /\ RowIsKnown)'
  BY TypesStep, DraftStep
<1>3. TypeOK /\ RowIsKnown /\ [Next]_vars
         => [\A r \in Row : view'.draft[r] # view.draft[r]
                => \/ r = row /\ view'.draft[r] = pending
                   \/ view'.draft[r] = current'.draft[r]]_vars
  BY DraftStep DEF DraftIsMeant
<1>4. QED
  BY <1>1, <1>2, <1>3, PTL DEF Spec, CandidateStaysInItsRow
=============================================================================
