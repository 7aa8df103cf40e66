# catlocker: a formal model

catlocker locks the keyboard while a cat is on it. It is a small program with hard parts: a
global keyboard hook on a thread of its own that must answer every key at once, a tray icon on a
second thread, a Tk main thread that drives both through queues and timeouts, and one promise
above all, that the user can always get the keyboard back.

This directory holds TLA+ modules translated from the source, the TLC configurations that check
them, and proofs that TLAPS checks. Line references are to the source tree.

## 1. The system

### Components, their state and their operations

| Component | Source | State it keeps | Operations |
|---|---|---|---|
| Keyboard state machine | `hotkeys.py` (`InputState`), `modifier_tap.py` | shortcut pair; `locked`; pressed keys, each passed or suppressed; latched triggers; emergency latch; `recording`; tap tracker | `handle` (down, up), `set_locked`, `toggle`, `enter_recording`, `exit_recording`, `replace_shortcuts`, `reset_runtime` |
| Key identities | `key_identity.py` | none | scan code and flags to a virtual key, which may stay the generic one |
| Keyboard hook, commands | `keyboard_hook.py`, `controller.py` | the fail-open gate; pending commands and their lifecycles; published snapshot; event queue; recording session and channel | `submit`, `enter_fail_open`, `_dispatch_posted`, `_run_command`, `_commit_command`, `_callback`, `_reconcile_fail_open` |
| Keyboard hook, thread | `keyboard_hook.py`, `main.py` | readiness; startup cancellation; hook handle; cleanup and quit claims; their errors | `start`, `stop`, `force_unhook`, `post_quit`, `_run` |
| Tray | `tray.py`, `main.py` | window; icon; `notify_data`; update queue; end and cleanup flags | `start`, `post_update`, `stop`, `force_remove_icon`, `post_quit`, window procedure |
| Recording channel | `recording_channel.py` | bounded payloads; open, overflowed, invalid | `publish`, `drain`, `invalidate`, `close`, `status` |
| Shortcut recorder | `shortcut_recorder.py` | held keys; attempt; tap tracker; candidate | `consume` |
| Settings coordinator and window | `settings_window.py` | current settings; pending candidate; recording session; drafts per row; what is shown | `begin_recording`, `poll_recording`, `end_recording`, `save`, `show`, row and mode buttons |
| Settings file | `settings.py` | one TOML file, replaced atomically, and backups of corrupt ones | `load_settings`, `save_settings` |
| Start with Windows | `settings.py`, `settings_window.py`, `main.py` | one registry value | `set_startup_enabled` (write, read back), `apply_startup_result` |
| Application | `main.py` | which owners run; closing, fatal and destroyed flags; whether the pump is scheduled; queued actions | `start`, `run`, `pump_events`, `handle_tray_action`, `_handle_fatal`, `shutdown` |
| Single instance | `single_instance.py`, `main.py` | a named mutex and a named auto-reset event, by handles | `acquire`, `request_activation`, `poll_activation`, `close` |
| Names and labels | `hotkeys.py`, `settings_window.py` | none | parsing, canonical form, display text |
| Packaging | `build.py`, `build.bat`, `catlocker.iss` | none | none at run time |

### How they interact

    physical keys --> hook callback --> InputState --> application (event passed or withheld)
                          |  ^
               recording  |  | posted commands and replies (timeouts)
               channel    v  |
                 SettingsCoordinator <--> CatModeController <-- tray actions
                          |                     ^
                    settings file          main.AppLifecycle (pump every few ms)
                                                |  ^
                                 updates, stop  v  |  fatal events, actions
                                             NativeTray

    second launch -- mutex (who owns) and event (please show) --> the owner's pump

The hook thread alone touches `InputState`. Other threads reach it by a command that is posted to
its message loop and answered, or through the *gate* `fail_open`, an event any thread can set at
any moment and that the callback tests before it lets the state machine see a key. Published
state goes the other way: an immutable snapshot and a queue of events that the pump polls.

### What is hard, and what makes each part correct

* **Disposition of keys.** Whether a press was withheld is decided long before its release, with
  locks, unlocks, repeats, new shortcuts and failures in between. Correct means: no key is ever
  stuck down in the application, no release without its press, no press of a held key leaking out
  at an unlock, one change of the lock per hold, and an emergency chord that always works.
* **Doubtful identities.** An event may name `Ctrl` without its side, so that a release is paired by
  family. Keys can be down before the hook starts, and can change on the secure desktop.
* **The gate.** Every test of it can be overtaken. Correct means: after the hook thread has
  reconciled, nothing locks again; a timed-out command does not take effect afterwards unless it
  had begun; an acknowledged command has been published.
* **Shutting down.** Native calls may stall for ever. Correct means: bounded shutdown, no double
  unhook, nothing left behind in silence.
* **Merged updates, Explorer restarts, a popup menu with a message loop of its own.** Correct means:
  the newest state is shown, the end is told exactly once, the icon goes away.
* **Recording.** The events go through a bounded channel to another thread that keeps its own
  account of the held keys. Correct means: what is captured is what was pressed, both sides agree
  on whether there is a session, what is typed into a recording is not obeyed.
* **One thread, many event loops.** A modal dialog runs an event loop inside the handler that opened
  it, and timers fire on top of the pump, of a save or of the shutdown. Correct means: the pump is never
  entered twice and never stops before the application does, an error ends the application, and no dialog of
  the shutdown waits for the user while the keyboard is locked.
* **Several processes.** They meet in a mutex and an event that live as long as anybody has a handle on
  them, and each may be killed at any point. Correct means: never two owners, no handle that outlives its
  use, no launch that waits for ever.
* **Files.** A file may be absent, corrupt, old or incomplete, and writing may fail or be cut short.
  Correct means: a readable file is never lost, and an old one keeps its shortcuts in force.
* **Saving.** Three owners of the truth (engine, file, coordinator) are changed one after another,
  each can refuse, and the application may be killed in between. Correct means: they agree again
  whenever no save is under way.

The list of hazards with their lines, and the properties that would notice each of them going
wrong, is under `hazards` in `PROJECT.json`.

## 2. Modules

    Hotkeys <- ModifierTap <- InputState <- Desktop <- MCKeyboard <- MCDesktop
                   ^              ^  |         ^------- DesktopProofs
                   |              |  +- - - refines - - -> CatMode
          ShortcutRecorder        |  ^------- InputStateProofs
                   ^------- Recording <- MCRecording
                                ^------- RecordingProofs
    KeyboardHook <- MCKeyboardHook
         ^------- KeyboardHookProofs
    HookLifecycle - - - refines - - -> NativeResource <- - - refines - - - Tray
         ^------- HookLifecycleProofs                       TrayProofs -------^
    SettingsFile <- Settings <- MCSettings
                        ^------- SettingsProofs
    AppLifecycle <- ApplicationProofs -> SingleInstance

An arrow is EXTENDS. `AppLifecycle` sees each thread as its callers do: what `KeyboardHook` and
`HookLifecycle` show of the hook thread, and `Tray` of the tray thread, are the outcomes it chooses from.
`SingleInstance` in turn reduces an application to building, running, no longer polling, and closing.

| Module | Models | Correspondence with the code |
|---|---|---|
| `Hotkeys` | families of modifiers, matching | `Shortcut.matches`, `_family_for`, the modifier tables as constants |
| `ModifierTap` | `ModifierTapTracker` | one operator per method, a record for the object |
| `InputState` | `InputState` | one variable per field; `HandleDown` is a disjunction with one action per branch of `_handle_down`, `HandleUp` is `_handle_up` with its pairing of releases; one action per command |
| `CatMode` | abstract specification of the above | lock, and per key "passed" or "suppressed"; no tracker, latch or pairing |
| `Desktop` | keyboard, hook and application | physical keys with the identities their events can carry; `DownEvent` and `ReleaseKey` are `_callback` with what the application makes of the result |
| `KeyboardHook` | the command protocol | each test of the gate, each commit and each publication is a step; a record per command with its lifecycle; clients with post, wait, timeout, withdrawal |
| `HookLifecycle` | starting and stopping the hook thread | one action per critical section or native call of `_run`, `stop`, `_unhook_owner`, `force_unhook`, `post_quit`, and `AppLifecycle._stop_hook` |
| `NativeResource` | abstract specification of the claim protocol | acquired once, released by one native call at a time, never again after a success; the hook of `HookLifecycle` and the icon of `Tray` are both such a resource |
| `Tray` | `NativeTray` and `AppLifecycle`'s part in it | a queue of window messages; one action per message; the startup stages of `_run`; the claim protocol of the icon |
| `ShortcutRecorder` | `ShortcutRecorder.consume` | a function on a record |
| `Recording` | session, channel, coordinator | `_callback` feeds the state machine, then the channel; a poll is several steps (begin, one per event, decide, finish) between which the hook thread runs |
| `SettingsFile` | what a file of any version is loaded to, and what is saved | `load_settings` field by field as operators on a record; a field is a usable shortcut or none |
| `Settings` | window, view model, coordinator, file, engine | loading and saving are sequences of steps, one for each thing that can fail or after which the application can be killed: set aside, save defaults; confirm, replace, write, move, roll back, commit |
| `AppLifecycle` | `AppLifecycle` and what the window asks of it | the place of the main thread is a call stack, innermost call first; a dialog is a call that waits for the user, and a timer pushes the pump on top of it; one action per step of `start`, `pump_events` and `shutdown` |
| `SingleInstance` | `InstanceGuard`, `main()` | a program counter per process; the kernel objects are the sets of processes with a handle on them; one action per call of Windows |

`MC*` modules give the constants their values. The comment of every operator says which code it is,
and `map` in `PROJECT.json` names its lines. Operators marked *Mutant* are bugs somebody might
plausibly write; `mutants` in `PROJECT.json` says which definition each of them replaces and which
property then fails, so that no property is there that the code could not break.

## 3. What the runs check

| Run | Instance | What it shows |
|---|---|---|
| `MCDesktop` | four physical keys (both Ctrl, Right Alt, a letter), one of doubtful side, five virtual keys, four pairs; Right Alt and the letter may be down at the start and may change on the secure desktop; unbounded | The bookkeeping is consistent (`IInv`); the state machine implements `CatMode`; no stuck key; a release leaves nothing of its key behind; no orphan release and no press leaking out late (`DeliveryIsOrdered`); one change of the lock per hold, and a tap fires only alone (`LockChangesAreMeant`); the emergency chord always unlocks; outside Cat Mode nothing is withheld without cause |
| `MCStuckKey` | the same, Right Ctrl may be down at the start | *Violation* of `NoStuckKey` (section 6) |
| `MCKeyboardHook` | two clients (symmetric), two commands, one session, failing posts | What is published is true; a reconciled fail-open is final; a canceled command has no effect, and a thread that has ended leaves nobody waiting but late posters (`ProtocolInv`); an acknowledged command has been published |
| `MCKeyboardHookLive` | two clients, one command, posts succeed, fairness | The gate leads to the reconciliation; every wait is answered |
| `MCHookLifecycle` | posts and unhooking may fail, any call may stall | No double unhook, the handle tells the truth, a cancelled start never serves, a clean stop is clean and a failure is reported (`EndIsKnown`); shutdown is bounded; if native calls return, the thread ends |
| `MCTray` | two updates, one restart of Explorer or one click, every native call may fail (and fails if the icon is gone), fairness | Merged updates show the newest state, and no wake-up is lost (`TrayInv`); the end is told once, and the icon goes or its failure is reported (`EndIsKnown`); it is deleted by one call at a time (`ImplementsNativeResource`); stopping ends the thread |
| `MCTrayRestart` | one restart, nothing fails | *Violation* of `RemainsUsable` (section 6) |
| `MCRecording` | two sessions, three keys, a channel of one event, polls of one event, fairness | What is captured was pressed, alone where it must be, after a full release where it must be; what is captured is what the engine would match; engine and window agree on the session (`RecordingInv`); nothing is accepted from a channel that lost an event; what is typed is not obeyed; a recording ends |
| `MCSettings` | five files to start from (none, corrupt, two of the version before modes, one with unusable shortcuts), two shortcuts, one with a warning, the file system may fail, two changes of the lock, a kill at any step | Engine, coordinator and file agree whenever no save is under way, and an old file keeps its pair in force; a file is never torn or lost; a candidate stays in its row; the window is hidden under the lock (`WindowInv`) |
| `MCShownAfterFailure` | saves may fail, no lock changes | *Violation* of `SavesWhatIsShown` |
| `MCAppLifecycle` | three inputs (shortcut, menu, window, second launch), either thread may fail, every step of starting and stopping may fail, fairness | One pump at a time, always due until the end; no dialog under the lock once the end has begun; the root goes last (`AppInv`); the menu and the check box show what the registry holds, or a dialog says why not; requests are served, an activation shows something, a failure ends the application |
| `MCSingleInstance` | three processes, each launched, quit and killed any number of times, fairness | Never two owners and no handle that outlives its use (`InstanceInv`); every launch becomes an owner or ends; a signal is heard or its owner is no longer listening |

### Bounds, and why they are enough

* **Keys.** `InputState` and `Desktop` need no bound on time or on events; only the set of keys is
  small. The code compares keys with the two Ctrl keys, the trigger, the families and each other.
  The instance has both Ctrl keys, their generic key, a modifier of another family and a key that
  is no modifier, so each comparison comes out both ways. The pairs are chosen so that a chord with
  a generic and with a side-specific modifier, a bare key and taps all occur, and so that the
  trigger of one is a modifier of the other. The proofs of section 5 need no such bound.
* **`MaxCommands`, `MaxSessions`, `MaxQueue`** (`KeyboardHook`). Two commands of two clients are enough
  for one that runs, one that waits behind it, and a key event or the gate in between. `MaxQueue`
  bounds only the messages that calls made after the gate may add.
* **Rounds** (`HookLifecycle`, `Tray`). Not a bound of the model: `AppLifecycle` calls `stop` twice.
* **`MaxUpdates`, `MaxOutside`** (`Tray`). Two updates are the least that can be merged; one restart or
  click comes at every point of the startup, the loop and the cleanup. A restart together with a
  click is left out.
* **`Capacity`, `PollLimit`** (`Recording`; 256 and 64 in the code). A channel of one event overflows as soon as
  the poll is one event late, a limit of one makes every event a poll of its own.
  A second session is what a stale session id could be confused with.
* **`MaxLocks`** (`Settings`). A save looks at the lock three times (at Save, at the replacement and at
  the rollback): two changes lock after any of them and unlock again before the next. The proofs of
  section 5 need no such bound.
* **`FoundFile`** (`Settings`). One file for each way through `load_settings`: both outcomes of each of its
  tests on the mode, on a missing shortcut and on a pair that differs. The proofs are about every file.
* **`MaxInputs`** (`AppLifecycle`). Three inputs are a lock, a request that needs it, and one that comes while the
  dialog of the request is up. What the threads do on their own is not counted.
* **`ShowMayRaise`** (`AppLifecycle`). FALSE in the run: what follows from TRUE is in section 6.
* **`Process`** (`SingleInstance`). An owner, a duplicate that holds a handle for a moment, and a launch that finds
  nothing but that handle. The processes may come and go without a bound, and the safety part is proved for any set.

### Fairness, and what justifies it

* `KeyboardHook!Fairness`: the hook thread runs its own code (weak fairness) and takes posted
  messages although key events keep coming (strong fairness of `Dispatch`: key events arrive far
  apart, and `GetMessage` returns posted messages between them); a client that is not waiting keeps
  running. Timeouts, key events and the end of the loop are not fair.
* `HookLifecycle!MainFairSpec`: the main thread only; its waits all have a timeout. So
  `ShutdownIsBounded` holds although every other thread may hang in a native call. `StopEndsHook`
  is about the case that native calls return, and has that fairness of the other threads
  (`NativeCallsReturn`) as its hypothesis.
* `Tray!FairSpec`: every thread runs, and the popup menu is closed: a posted `WM_QUIT` closes it.
* `Recording!RFairSpec`: the window polls every 10 ms while a recording goes on.
* `AppLifecycle!FairSpec`: the main thread proceeds, for each of its waits has a timeout; the hook thread answers a
  fail-open (`KeyboardHook!FailOpenReconciles`); the user closes a dialog in the end. That last one is strong
  fairness: a timer may put the pump on top of the dialog again and again, but the dialog's loop takes the
  click between two pumps. Nobody has to press or choose anything.
* `SingleInstance!Fairness`: a process that has been launched goes on, its clock runs, and the user closes its message
  box. Nobody has to launch or quit, nothing is killed for sure, and `OpenEventW` need not fail. `Poll` is fair because
  `AppLifecycle` shows that the pump goes on.
* `Desktop`, `InputState` and `Settings` have no liveness properties.

Deadlock is checked, except in `KeyboardHook`, `HookLifecycle`, `Tray` and `AppLifecycle`, where everything really may
stop: the threads, and the application, end.

## 4. Refinements

* `InputState` implements `CatMode` (`ImplementsCatMode`, checked and proved): `cat` is
  `locked`, `open` is `fail_open`, and the fate of a key is read off the two disposition sets. It says
  that a press is decided once, by the lock alone unless it is the one that changes the lock.
* `HookLifecycle` implements `NativeResource` (`ImplementsNativeResource`, checked and proved): the resource is
  the native hook, the caller is whoever is in the native call.
* `Tray` implements `NativeResource` too (`ImplementsNativeResource`, checked and proved). What is released there is
  `notify_data`: there is none before the thread has loaded its icon, it is held until a `NIM_DELETE` has
  succeeded, and the caller is whoever is in that call, the thread's own cleanup or `force_remove_icon`.

## 5. What is proved

TLAPS proves the following for every set of keys, families, shortcuts, files, clients and processes.

* `InputStateProofs`: `Spec => []IInv` (`Invariance`), by induction with the lemmas `InitIInv`, `DownPreserves`,
  `UpPreserves`, `ReconcilePreserves` and `CommandPreserves`. `IInv` is inductive as it stands, and no
  smaller part of it is: the exact latch needs that both Ctrl keys are two keys and that the pressed set changes
  with the latch; the partition needs the latched triggers to be held, since a latched trigger
  counts as suppressed; a tap that is held alone needs all three key sets to shrink together. From
  it follow `EmergencyLatchCorrect`, the other parts as theorems of their own, the action property
  `DispositionIsKept`, and `Refinement` (`Spec => ImplementsCatMode`), with one lemma for each kind of step.
* `DesktopProofs`: every property of `Desktop`, each as `PairingUnambiguous => (DSpec => ...)`: `StuckKeyFreedom`,
  `EmergencyAlwaysUnlocks`, `DeliveryAlwaysOrdered`, `LockAlwaysMeant`, `UnlockedAlwaysTransparent` and `ReleaseAlwaysHeals`. The invariant
  `Tracked` says that every tracked key is on record with one physical key, and that a key which
  the application holds down is tracked as passed, or was never seen by the engine. `NoStuckKey` alone is
  not inductive: whether a release goes through depends on what is tracked under its family, that
  is on the other keys. The properties of steps need `Desk` besides, which says of the hold of a key what a
  later step goes by: a press that was passed is down for the application (`PassedIsDown`); a hold that has changed the
  lock is of no modifier, or its tap is over (`HoldIsSettled`); a tap that may still fire is that of a key held alone
  (`TapIsAlones`). The steps are distinguished by event: `ReleaseOfSeen` (a release finds the press of its own key),
  `ReleaseOfAnother` (and never the press of another), `OwnRecord` (a tracked identity is that of the key, or was left on the secure
  desktop), `TapFires`.
* `KeyboardHookProofs`: `ProtocolInvariance`, `ReconciliationIsFinal`, `PublicationIsTrue` and `AcknowledgedIsPublished`, that is all
  that the run `MCKeyboardHook` checks, for any number of clients, commands and sessions. The invariant follows the hook
  thread through one message: from the commit to the last publication nothing has been reconciled (`GateHolds`), the event in the queue
  is behind by exactly what the thread has noted as changed (`Publishing`), and what a committed lock command did is still there
  when it is answered (`EffectIsThere`). It is inductive because a client can only add a command, cancel an uncommitted
  one or set the gate (`ClientFrame`, `ClientCommands`), and because a fail-open that is announced, in a client or in the message
  queue, means that the gate is set (`AnnouncedIsSet`).
* `RecordingProofs`: `SessionsCorrect` (`RecordingInv`) and `AcceptedWhole` for any keyboard, `TypedNeverObeyed` and `CapturedCorrect`
  where sides are known: all the safety properties of `MCRecording`, for any capacity, poll limit and number of sessions. `Agreed` strengthens the
  agreement on the session: a channel is as new until its session begins. `Settled` says that the engine sees exactly the keys that are down, and that
  outside a session no tap counts on a key that went down in one. `CapturedIsPressed` compares the recorder, at the far end of the channel,
  with what the keys were when the event was published. `Faithful` is the simulation that carries it: the events in the channel follow on one
  another (`InLine`), the first on what the recorder has seen, and while the channel is healthy the keys are as the last event left them
  (`LastIs`). Publishing keeps this by `AppendInLine`, draining by `TailInLine`, and `ConsumeOK` says what the recorder makes of an event that
  follows on what it has seen.
* `HookLifecycleProofs`: `LifecycleCorrect` (`LifecycleInv`), `EndCorrect` (`EndIsKnown`) and `RefinesNativeResource`
  (`Spec => ImplementsNativeResource`), all the safety properties of `MCHookLifecycle`, whichever native calls can fail. `LifecycleInv` is
  not inductive. That the handle is the hook needs the claim to be exclusive and the cleanup state to tell of it (`ClaimPlace`), and
  the same of the quit for the single quit message (`QuitPlace`); both need to know that the hook thread starts a claim only where
  no other of its own is open (`OwnerPlace`) and that the fallback is taken once (`MainPlace`). `EndPlace` says of a hook that outlives
  its thread that it was reported, or that an attempt to remove it is still going on. The refinement is then one case per action: the claim
  is `Call`, the native call is `Return`, the installation is `Acquire`, and everything else is a stutter.
* `TrayProofs`: `TrayCorrect` (`TrayInv`), `EndCorrect` (`EndIsKnown`) and `RefinesNativeResource`, all the
  safety properties of `MCTray`, for any number of updates, clicks and restarts of Explorer. None of them is inductive. The newest state is
  shown because the queue ends in it at every moment (`posted = LockAfter(updates)`) and because the tooltip follows the state from the
  moment the icon is added, long before the loop of which `TrayInv` speaks (`ShowPlace`). That an icon that was left behind has been reported
  needs to know that an icon does not come back after a deletion: it is added once, at the startup, and deleted after it
  (`DeletePlace`), and that the claim is exclusive (`ClaimPlace`). The wake-up is not lost because `post_update`, seen half-way,
  still has its announcement to make, and because the loop cannot begin with an update queued (`MainPlace`, `OwnerPlace`).
* `ApplicationProofs`: `AppCorrect` (`AppInv`) and `StartupIsTold` (`StartupIsShownOrReported`), all the safety properties of `MCAppLifecycle`, for any number of
  inputs and so for stacks of any height. `AppInv` says that the pump of a running application is due or in the stack; that needs `~ShowMayRaise`, which is the
  hypothesis of `AppCorrect`, since the code loses the pump otherwise (section 6). Everything else in `AppInv` is `AppSafety`, without a hypothesis.
  A step reads the top of the stack only, so the invariant says what the rest can be: `StartPlace` (start() runs alone, under one dialog at
  most), `FatalPlace` (a fatal error has opened the gate and its shutdown is still to come or has begun), `ClosePlace` (from its second step on the shutdown has
  opened the gate, and there is no dialog in it before), `EndPlace` (the root is destroyed last) and `PumpPlace` (one pump in the stack, and none when it is due).
  Most handlers can leave a dialog, a pump or an error on a stack they do not know. `Follows` says what such a step may push, and `PlainStep`, `FatalStep`
  and `ShutdownStep` that whatever is below still fits.
  The module also has `InstanceInvariance`, that is `GSpec => []InstanceInv` of `SingleInstance` for any set of processes, and `SecondLaunchNeverOwns`, an
  action property. That there is one owner at most is not inductive alone: a launch decides by the mutex, so
  the proof needs to know who holds handles on it (`HandlesAreInUse`), in both directions.
* `SettingsProofs`: `LoadEncode` (what is saved is loaded as it was) and `UpgradeKeepsPair` about the functions of `SettingsFile`;
  `WindowInvariance`, `SavedInForce`, `FileIsKept` and `CandidateStays` about `Settings`, all that `MCSettings` checks. `InForceIsSaved` speaks of the moments between saves only. `Agreement`
  says for each step of a save which of engine, file and coordinator have the old and which the new settings, and
  is inductive with the types; `LoadEncode` is what makes the step that replaces the file preserve it. `FileIsKept` needs
  `CorruptIsFound` besides: a corrupt file is one that was found, so it has not been set aside yet.
  `CandidateStays` needs `RowIsKnown`: the row in front is the one that was recorded for as long as its candidate waits.

The assumptions are those on the constants: `KeyTablesAssumption` (both Ctrl keys are a family's
members, families are disjoint, generic keys belong to a family and to no side),
`ShortcutPairsAssumption` (installable shortcuts have passed the parser), `RecorderAssumption` ("no candidate" is no shortcut), `RecordingAssumption` (types, and a channel and
a poll of one event at least), `KeyboardAssumption` (a key has several
identities only within one family), `HotkeyAssumption` ("no shortcut" is no shortcut), `SettingsAssumption`, `LifecycleAssumption`, `TrayAssumption` and `AppAssumption` (types), `ProcessAssumption`
(finitely many processes; the proofs do not use it). TLC evaluates them in every run of their modules. `PairingUnambiguous` is
the hypothesis of the theorems in `DesktopProofs` and not an assumption: no two keys share an identity, a key that
may be down or change unseen has no sibling in its family, and no alias if it may change unseen. `MCDesktop`
asserts it of its own keyboard; `MCStuckKey` is a keyboard without it, and there the property fails. `SidesAreKnown` is the
hypothesis of two theorems in `RecordingProofs`: each key has one identity of its own, that is, it names its side in every event or in none. `MCRecording`
asserts it; section 6 says what happens without it.

Model-checked only: all liveness, which these provers do not reach. Every safety property of every passing run is proved.

## 6. Where the code and its documents disagree

* **`MCStuckKey`** (`hotkeys.py:403`). Right Ctrl is down before the hook starts; Left Ctrl is pressed and
  passed. The release of Right Ctrl is not tracked and is paired with the tracked Left Ctrl, which is
  forgotten. After a lock, the release of Left Ctrl is withheld, and the application keeps it down.
* **`MCTrayRestart`** (`tray.py:397`). The tray window is a child of `HWND_MESSAGE`, a message-only window, which gets no
  broadcasts. So Explorer's `TaskbarCreated` does not arrive after a restart, the handler at `tray.py:969` is never called (the
  tests post the message to the window themselves), and the icon stays gone. The next change of the lock makes a `NIM_MODIFY`
  that fails, and the tray reports a fatal error, which ends the application. `docs/windows-manual-test-checklist.md:55` asks that
  the tray "remains usable after an Explorer restart", and the item is not ticked. That handler is not an
  action of `Tray`, since nothing sends the message.
* **`MCShownAfterFailure`** (`settings_window.py:665`). After a save that failed, the row shows the accepted shortcut
  but keeps the draft, and the next Save stores what is not on show. A save that the lock refuses
  leaves the same hidden draft.

More observations, which no run of its own shows. On the keyboard:

* After a reconciliation that follows a committed change of the lock, the newest `state` event may still say "locked" (the
  snapshot does not, and the fatal event follows). A failed unhook that is overtaken by a successful one may
  leave an error for a hook that is gone.
* `hotkeys.py:347`: the test for the emergency chord reads the tracked keys. Left Ctrl is held, Right Ctrl goes down on the secure desktop and comes
  up after it: its release is paired with Left Ctrl, which is forgotten, and the next press of Right Ctrl completes a chord of which the hook knows
  one key only; Cat Mode stays. When both keys are released on the secure desktop, the latch stays set instead. With Ctrl keys in
  `MayMiss`, `EmergencyUnlocks` fails in `MCDesktop` in these ways; the next release of either key
  clears the latch. `docs/superpowers/specs/2026-09-03-catlocker-native-windows-design.md:7` says that it "always forces the application
  into the unlocked state".
* `shortcut_recorder.py:118`: a release whose side is in doubt, of a key that named its side when it was pressed, is neither paired nor
  rejected by the recorder, which goes on holding the modifier and captures it with the next key.
  `docs/superpowers/specs/2026-09-05-expanded-shortcuts-design.md:80` says that such an event "invalidates a recording attempt".
  `MCRecording` has keys that name their side in every event or in none.

On the application:

* `main.py:279`: `show()` may raise anything Tk raises; for the tray's Settings the exception leaves `pump_events` before the
  pump is scheduled again. The hook goes on, the menu is dead. With `ShowMayRaise = TRUE`, `PumpServes` and `AppInv` fail. The comment at
  `main.py:401` describes the danger for the activation, where it is averted.
* `main.py:419`: the comment says that the pump can still fire while the status dialog of an activation is up, and coalesces such
  activations. The dialog is opened by the pump, which is not scheduled again until the dialog is closed
  (`PumpIsOne`): no transition of the lock reaches the tray or the window, and no fatal event is handled, for as long.
* `main.py:417`: `_handle_activation` asks the engine whether it is locked, `show()` asks the window. Just after an unlock by
  keyboard they differ, and the activation does nothing; `README.md:32` says that the second launch raises the window.
  `ActivationIsAnswered` exempts that moment.
* `main.py:157`: when the tray does not start, the tray is stopped, with a dialog if that fails, before the hook is stopped and
  its gate is set. The shortcut already works then, and can lock the keyboard under that dialog.
* `main.py:151`: a shortcut that is pressed between the start of the hook and the test whether it is locked makes the start fail.
* `tray.py:726`: after a restart of Explorer there is no icon to delete, and every stop of the tray, the intended one too, reports
  that `NIM_DELETE` failed.
* Stopping the hook after it failed open reports a second error: one failure, several dialogs.

Between processes:

* `single_instance.py:196`: a third launch may find the mutex only because a duplicate has it open. The owner is gone, both launches end,
  and nobody owns the session.
* `single_instance.py:289`: an owner that is shutting down, or has stopped polling after an error, can still be signalled; the duplicate ends
  without a word and no window appears (`README.md:30`).
* `single_instance.py:243`: a duplicate that has the event open carries a signal over to the next owner, if that creates its event in time.

## 7. What is not modelled, and the plan

Left out for good: the names and labels of keys, widgets and their wording, packaging, balloons, the notifications setting, the
text of the TOML file and of the registry value. Windows itself is modelled from how the code uses it.
In `Settings` a recording is one step (it is the subject of `Recording`), and so is a command in
`Recording` (the subject of `KeyboardHook`).

In `AppLifecycle` the steps that stop an owner are one, with one dialog if any of them fails (`HookLifecycle` and `Tray` have the steps). Left
out: the dialog for an error other than `EngineUnhealthy` that the window meets while it is told of the lock, and what
Tk raises elsewhere than in `show()`. In `Settings` the window's buttons are left out once the engine has failed open,
for the fatal event then ends the application. In `SingleInstance` the ownership that `ReleaseMutex` gives
back is left out: nobody ever waits for the mutex.

The plan, in this order:

1. Done: `InputState`, `CatMode` and their proofs; `Desktop` and its proofs; `KeyboardHook` and its proof; `HookLifecycle`
   with `NativeResource` and their proof; `Tray` and its proof; `Recording` and its proof; `SettingsFile` and `Settings` with their proofs; `AppLifecycle` and its proof; `SingleInstance` with its proof.
2. Proofs: the steps of the liveness properties that are actions. That a wait has a deadline, that a signal waits only while somebody holds the event, and
   what must be true for a fair action to be possible can be stated without ENABLED, as invariants.
