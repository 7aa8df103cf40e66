---------------------------- MODULE AppLifecycle ----------------------------
(***************************************************************************)
(* The main thread (AppLifecycle of main.py): it starts the hook and the   *)
(* tray thread, runs the Tk main loop with the event pump in it, reports   *)
(* errors in modal dialogs, and shuts everything down.  The threads it     *)
(* owns are reduced to what it sees of them; their own protocols are in    *)
(* KeyboardHook, HookLifecycle and Tray.                                   *)
(*                                                                         *)
(* A modal dialog runs an event loop of its own, inside whichever handler  *)
(* opened it.  So the thread's place in the program is a call stack, the   *)
(* innermost call first, and a timer callback may run on top of a dialog   *)
(* that another callback is waiting for.                                   *)
(***************************************************************************)
EXTENDS Naturals, Sequences, FiniteSets

CONSTANTS
    MaxInputs,      \* bound on what the user does: shortcut, menu, window, launches
    ShowMayRaise    \* whether Tk may raise when the tray shows the window

ASSUME AppAssumption == MaxInputs \in Nat /\ ShowMayRaise \in BOOLEAN

VARIABLES
    stack,     \* the calls the main thread is in
    scheduled, \* _pump_scheduled, and the timer behind it
    app,       \* the other fields of AppLifecycle
    hook,      \* the hook thread, its fail-open gate and its lock
    tray,      \* the tray thread, its fatal event, and what it was told
    window,    \* the Settings window
    events,    \* the hook's event queue
    actions,   \* the action queue: what the tray menu asks for
    signal,    \* the activation event of this process
    registry,  \* whether Windows will start the application
    inputs     \* how much the user has done

vars == <<stack, scheduled, app, hook, tray, window, events, actions, signal,
          registry, inputs>>

TrayAction == {"LOCK", "UNLOCK", "TOGGLE", "SETTINGS", "STARTUP", "EXIT"}
Dialog == {"status", "error", "warning"}
PumpPhase == {"tray events", "engine events", "activation", "actions", "acted"}
EventLoop == {"main loop"} \cup Dialog
StartCall == {"start hook", "check hook", "start tray", "undo tray", "undo hook", "report"}
StopCall == {"unlock", "fail open", "stop hook", "stop tray"}
Call == EventLoop \cup PumpPhase \cup StartCall \cup StopCall \cup {"save", "fatal", "destroy"}

\* create_application: every owner is built, no thread runs.
Init ==
    /\ stack = <<"start hook">>
    /\ scheduled = FALSE
    /\ \E enabled \in BOOLEAN :
          /\ registry = enabled
          /\ app = [running |-> FALSE, closing |-> FALSE, fatal |-> FALSE,
                    destroyed |-> FALSE, polling |-> TRUE, startup |-> enabled]
          /\ tray = [thread |-> "new", fatal |-> FALSE, locked |-> FALSE,
                     startup |-> enabled]
          /\ window = [open |-> FALSE, locked |-> FALSE, startup |-> enabled]
    /\ hook = [thread |-> "new", gate |-> FALSE, locked |-> FALSE]
    /\ events = <<>> /\ actions = <<>>
    /\ signal = FALSE
    /\ inputs = 0

-----------------------------------------------------------------------------
(* The stack *)

Top == Head(stack)
In(call) == stack # <<>> /\ Top = call
Callers == Tail(stack)

Return == stack' = Callers
Goto(call) == stack' = <<call>> \o Callers

\* _report_error: a dialog, unless the root it belongs to is gone; whatever it
\* raises is swallowed.
Reporting(calls) == IF app.destroyed THEN calls ELSE <<"error">> \o calls

\* Mutant: a fatal error is reported and no more.
FatalCallsNoShutdown(calls) == Reporting(calls)

\* The report of a fatal error comes before the shutdown.
FatalCalls(calls) == Reporting(<<"fatal">> \o calls)

\* _handle_fatal, once, with the fields as they are then: fail open, report,
\* shut down.
HandleFatalWith(fields, calls) ==
    IF fields.fatal
    THEN stack' = calls /\ app' = fields /\ UNCHANGED hook
    ELSE /\ app' = [fields EXCEPT !.fatal = TRUE]
         /\ hook' = [hook EXCEPT !.gate = TRUE]
         /\ stack' = FatalCalls(calls)

HandleFatal(calls) == HandleFatalWith(app, calls)

\* shutdown(), once.  A timer that is still pending finds nothing to do.
CallShutdown(calls) ==
    IF app.closing
    THEN stack' = calls /\ UNCHANGED <<app, scheduled>>
    ELSE /\ app' = [app EXCEPT !.closing = TRUE, !.running = FALSE, !.polling = FALSE]
         /\ scheduled' = FALSE
         /\ stack' = <<"unlock">> \o calls

-----------------------------------------------------------------------------
(* The threads the application owns, and the user *)

Locked == hook.locked /\ ~hook.gate

StateEvent(locked) == [kind |-> "state", locked |-> locked]
FatalEvent == [kind |-> "fatal", locked |-> FALSE]

\* The lock changes, and the change is published.
SetLocked(value) ==
    /\ hook' = [hook EXCEPT !.locked = value]
    /\ events' = IF hook.locked = value THEN events
                 ELSE Append(events, StateEvent(value))

OthersKeep == UNCHANGED <<stack, scheduled, app, window, registry>>

UserInput == inputs < MaxInputs /\ inputs' = inputs + 1

HotkeyPressed ==
    /\ hook.thread = "running" /\ ~hook.gate
    /\ UserInput
    /\ SetLocked(~hook.locked)
    /\ OthersKeep /\ UNCHANGED <<tray, actions, signal>>

\* A handler of the hook thread raises: it fails open and says so.
EngineFails ==
    /\ hook.thread = "running" /\ ~hook.gate
    /\ hook' = [hook EXCEPT !.gate = TRUE, !.locked = FALSE]
    /\ events' = (IF hook.locked THEN Append(events, StateEvent(FALSE)) ELSE events)
                 \o <<FatalEvent>>
    /\ OthersKeep /\ UNCHANGED <<tray, actions, signal, inputs>>

\* The hook thread answers a fail-open that another thread asked for.
EngineReconciles ==
    /\ hook.thread = "running" /\ hook.gate /\ hook.locked
    /\ SetLocked(FALSE)
    /\ OthersKeep /\ UNCHANGED <<tray, actions, signal, inputs>>

TrayFails ==
    /\ tray.thread = "running"
    /\ tray' = [tray EXCEPT !.thread = "dead", !.fatal = TRUE]
    /\ OthersKeep /\ UNCHANGED <<hook, events, actions, signal, inputs>>

MenuAction(action) ==
    /\ tray.thread = "running"
    /\ UserInput
    /\ actions' = Append(actions, action)
    /\ OthersKeep /\ UNCHANGED <<hook, tray, events, signal>>

\* A second launch sets the auto-reset event.
SecondLaunch ==
    /\ stack # <<>>
    /\ UserInput
    /\ signal' = TRUE
    /\ OthersKeep /\ UNCHANGED <<hook, tray, events, actions>>

-----------------------------------------------------------------------------
(* start() *)

StartKeeps == UNCHANGED <<window, events, actions, signal, registry, inputs>>

StartHook ==
    /\ In("start hook")
    /\ \/ hook' = [hook EXCEPT !.thread = "running"] /\ Goto("check hook")
       \/ hook' = [hook EXCEPT !.gate = TRUE] /\ Goto("undo hook")
    /\ UNCHANGED <<scheduled, app, tray>> /\ StartKeeps

\* The engine must be unlocked; a shortcut may already have been pressed.
CheckHook ==
    /\ In("check hook")
    /\ Goto(IF Locked THEN "undo hook" ELSE "start tray")
    /\ UNCHANGED <<scheduled, app, hook, tray>> /\ StartKeeps

StartTray ==
    /\ In("start tray")
    /\ \/ /\ tray' = [tray EXCEPT !.thread = "running"]
          /\ app' = [app EXCEPT !.running = TRUE]
          /\ scheduled' = TRUE
          /\ Goto("main loop")
       \/ /\ tray' = [tray EXCEPT !.thread = "dead"]
          /\ Goto("undo tray")
          /\ UNCHANGED <<scheduled, app>>
    /\ UNCHANGED hook /\ StartKeeps

\* _stop_hook: a stop that raises is reported, fails open and is tried in
\* other ways (HookLifecycle); the thread may be left behind.
StopHook(calls) ==
    /\ \/ /\ hook' = [hook EXCEPT !.thread = "stopped", !.gate = TRUE, !.locked = FALSE]
          /\ stack' = calls
       \/ /\ hook' = [hook EXCEPT !.gate = TRUE]
          /\ stack' = Reporting(calls)
    /\ UNCHANGED <<scheduled, app, tray>>

\* _stop_tray; the tray thread is past taking requests in either case.
StopTray(calls) ==
    /\ tray' = [tray EXCEPT !.thread = "dead"]
    /\ stack' \in {calls, Reporting(calls)}
    /\ UNCHANGED <<scheduled, app, hook>>

UndoTray == In("undo tray") /\ StopTray(<<"undo hook">> \o Callers) /\ StartKeeps

UndoHook == In("undo hook") /\ StopHook(<<"report">> \o Callers) /\ StartKeeps

ReportStart ==
    /\ In("report")
    /\ stack' = Reporting(<<"destroy">> \o Callers)
    /\ UNCHANGED <<scheduled, app, hook, tray>> /\ StartKeeps

-----------------------------------------------------------------------------
(* The event loops *)

\* The timer: _run_scheduled_pump, in the main loop or in a dialog's.
RunPump ==
    /\ stack # <<>> /\ Top \in EventLoop
    /\ scheduled
    /\ scheduled' = FALSE
    /\ stack' = <<"tray events">> \o stack
    /\ UNCHANGED <<app, hook, tray, window, events, actions, signal, registry, inputs>>

\* The user answers; the dialog goes when its root does.
CloseDialog ==
    /\ stack # <<>> /\ Top \in Dialog
    /\ Return
    /\ UNCHANGED <<scheduled, app, hook, tray, window, events, actions, signal,
                   registry, inputs>>

\* run(): the main loop ends with the root, and shutdown() comes last.
MainLoopEnds ==
    /\ In("main loop") /\ app.destroyed
    /\ CallShutdown(<<>>)
    /\ UNCHANGED <<hook, tray, window, events, actions, signal, registry, inputs>>

\* A button, or the poll of a recording, finds the engine unhealthy, be it
\* because a command timed out: on_engine_unhealthy.  The poll runs in a dialog
\* too, but Save has ended the recording before its warning.
WindowUnhealthy ==
    /\ stack # <<>> /\ Top \in EventLoop \ {"warning"}
    /\ window.open /\ ~app.destroyed /\ ~app.fatal
    /\ HandleFatal(stack)
    /\ UNCHANGED <<scheduled, tray, window, events, actions, signal, registry, inputs>>

WindowReady == In("main loop") /\ window.open /\ ~app.destroyed

\* Save, with or without a warning to confirm first.
WindowSave ==
    /\ WindowReady
    /\ UserInput
    /\ stack' \in {<<"save">> \o stack, <<"warning", "save">> \o stack}
    /\ UNCHANGED <<scheduled, app, hook, tray, window, events, actions, signal, registry>>

\* The save goes through, is refused with a dialog, or ends the application.
SaveContinues ==
    /\ In("save")
    /\ \/ ~hook.gate /\ Return /\ UNCHANGED <<app, hook>>
       \/ ~hook.gate /\ stack' = Reporting(Callers) /\ UNCHANGED <<app, hook>>
       \/ HandleFatal(Callers)
    /\ UNCHANGED <<scheduled, tray, window, events, actions, signal, registry, inputs>>

-----------------------------------------------------------------------------
(* Start with Windows: SettingsCoordinator.set_startup_enabled writes the    *)
(* registry and reads it back; apply_startup_result passes on what was read. *)

\* Mutant: what was asked for is shown, not what was read.
ReadBackRequested(requested) == requested

ReadBack(requested) == registry'

\* post_startup_state comes first, and may find the tray gone; the check box
\* has already been set to what was read.
ApplyStartup(requested, boxed, written, read, calls) ==
    LET shown == ReadBack(requested)
        reported == IF written /\ read THEN calls ELSE Reporting(calls) IN
    CASE ~read ->
            /\ stack' = reported
            /\ UNCHANGED <<app, hook, tray, window>>
      [] read /\ tray.thread = "running" ->
            /\ app' = [app EXCEPT !.startup = shown]
            /\ tray' = [tray EXCEPT !.startup = shown]
            /\ window' = [window EXCEPT !.startup = shown]
            /\ hook' = hook
            /\ stack' = reported
      [] read /\ tray.thread # "running" ->
            /\ HandleFatalWith([app EXCEPT !.startup = shown], calls)
            /\ window' = IF boxed THEN [window EXCEPT !.startup = shown] ELSE window
            /\ UNCHANGED tray

SetStartup(requested, boxed, calls) ==
    \E written, read \in BOOLEAN :
        /\ registry' = IF written THEN requested ELSE registry
        /\ ApplyStartup(requested, boxed, written, read, calls)

\* The check box asks for the opposite of what the window shows, the menu for
\* the opposite of what the application last read.
WindowStartup ==
    /\ WindowReady
    /\ UserInput
    /\ SetStartup(~window.startup, TRUE, stack)
    /\ UNCHANGED <<scheduled, events, actions, signal>>

-----------------------------------------------------------------------------
(* pump_events() *)

PumpTrayEvents ==
    /\ In("tray events")
    /\ IF tray.fatal
       THEN tray' = [tray EXCEPT !.fatal = FALSE] /\ HandleFatal(Callers)
       ELSE Goto("engine events") /\ UNCHANGED <<tray, app, hook>>
    /\ UNCHANGED <<scheduled, window, events, actions, signal, registry, inputs>>

\* An event goes to the tray, which may be gone, and to the window, which may
\* find the engine unhealthy, be it because a command times out, while it gives
\* up a recording under the lock.
PumpEngineEvent ==
    /\ In("engine events") /\ events # <<>>
    /\ events' = Tail(events)
    /\ IF tray.thread # "running"
       THEN HandleFatal(Callers) /\ UNCHANGED <<tray, window>>
       ELSE /\ tray' = [tray EXCEPT !.locked = Head(events).locked]
            /\ window' = [window EXCEPT !.locked = Head(events).locked,
                                        !.open = @ /\ ~Head(events).locked]
            /\ \/ IF Head(events).kind = "fatal"
                  THEN HandleFatal(Callers)
                  ELSE UNCHANGED <<stack, app, hook>>
               \/ window.open /\ Head(events).locked /\ HandleFatal(stack)
    /\ UNCHANGED <<scheduled, actions, signal, registry, inputs>>

PumpEventsDone ==
    /\ In("engine events") /\ events = <<>>
    /\ Goto("activation")
    /\ UNCHANGED <<scheduled, app, hook, tray, window, events, actions, signal,
                   registry, inputs>>

\* The activation event is polled; a poll that fails is reported and the last.
PumpActivation ==
    /\ In("activation")
    /\ \/ /\ ~app.polling \/ ~signal
          /\ Goto("actions")
          /\ UNCHANGED <<app, actions, signal>>
       \/ /\ app.polling /\ signal
          /\ signal' = FALSE
          /\ actions' = Append(actions, "ACTIVATE")
          /\ Goto("actions")
          /\ UNCHANGED app
       \/ /\ app.polling
          /\ app' = [app EXCEPT !.polling = FALSE]
          /\ stack' = Reporting(<<"actions">> \o Callers)
          /\ UNCHANGED <<actions, signal>>
    /\ UNCHANGED <<scheduled, hook, tray, window, events, registry, inputs>>

\* Mutant: only what comes in while the pump runs makes it run again.
RescheduledIfAsked == scheduled \/ signal

\* _schedule_pump, when everything has been handled.
Rescheduled == scheduled \/ (app.running /\ ~app.closing)

PumpDone ==
    /\ In("actions") /\ actions = <<>>
    /\ scheduled' = Rescheduled
    /\ Return
    /\ UNCHANGED <<app, hook, tray, window, events, actions, signal, registry, inputs>>

\* The pump looks after each action whether it was the last.
PumpGoesOn ==
    /\ In("acted")
    /\ IF app.closing THEN Return ELSE Goto("actions")
    /\ UNCHANGED <<scheduled, app, hook, tray, window, events, actions, signal,
                   registry, inputs>>

-----------------------------------------------------------------------------
(* handle_tray_action(), called with the pump's place in calls *)

\* Mutant: the controller leaves it at the exception.
FailOpenAfterErrorForgotten == hook.gate

\* CatModeController._submit: a command that fails or times out fails open.
FailOpenAfterError == TRUE

\* A command on the lock: done, or EngineUnhealthy.
LockCommand(value, calls) ==
    \/ /\ hook.thread = "running" /\ ~hook.gate
       /\ SetLocked(value)
       /\ stack' = calls
       /\ UNCHANGED app
    \/ /\ HandleFatal(calls)
       /\ UNCHANGED events

MayShow == ~window.locked /\ ~Locked

Shown == [window EXCEPT !.open = @ \/ MayShow]

\* show() for the tray: what it raises leaves pump_events altogether.
ShowSettings(calls) ==
    /\ \/ window' = Shown /\ stack' = calls
       \/ ShowMayRaise /\ MayShow /\ stack' = Tail(calls) /\ UNCHANGED window
    /\ UNCHANGED <<scheduled, app, hook, tray, events, registry>>

\* Mutant: the activation handler lets an exception through, as the tray's does.
ActivationFailsUnhandled(calls) == Tail(calls)

\* _handle_activation reports what show() or the dialog raises.
ActivationFails(calls) == Reporting(calls)

HandleActivation(calls) ==
    /\ \/ Locked /\ stack' = <<"status">> \o calls /\ UNCHANGED window
       \/ ~Locked /\ stack' = calls /\ window' = Shown
       \/ stack' = ActivationFails(calls) /\ UNCHANGED window
    /\ UNCHANGED <<scheduled, app, hook, tray, events, registry>>

Handle(action, calls) ==
    \/ /\ action \in {"LOCK", "UNLOCK", "TOGGLE"}
       /\ LockCommand(IF action = "TOGGLE" THEN ~hook.locked ELSE action = "LOCK", calls)
       /\ UNCHANGED <<scheduled, tray, window, registry>>
    \/ action = "SETTINGS" /\ ShowSettings(calls)
    \/ /\ action = "STARTUP"
       /\ SetStartup(~app.startup, FALSE, calls)
       /\ UNCHANGED <<scheduled, events>>
    \/ /\ action = "EXIT"
       /\ CallShutdown(calls)
       /\ UNCHANGED <<hook, tray, window, events, registry>>
    \/ action = "ACTIVATE" /\ HandleActivation(calls)

PumpAction ==
    /\ In("actions") /\ actions # <<>>
    /\ actions' = Tail(actions)
    /\ IF app.closing
       THEN /\ Return
            /\ UNCHANGED <<scheduled, app, hook, tray, window, events, registry>>
       ELSE Handle(Head(actions), <<"acted">> \o Callers)
    /\ UNCHANGED <<signal, inputs>>

PumpStep ==
    \/ PumpTrayEvents \/ PumpEngineEvent \/ PumpEventsDone
    \/ PumpActivation \/ PumpAction \/ PumpGoesOn \/ PumpDone

-----------------------------------------------------------------------------
(* shutdown() *)

Fatal ==
    /\ In("fatal")
    /\ CallShutdown(Callers)
    /\ UNCHANGED <<hook, tray, window, events, actions, signal, registry, inputs>>

ShutdownKeeps == UNCHANGED <<scheduled, app, tray, window, actions, signal, registry, inputs>>

\* controller.unlock(); what it raises is reported before the next step.
ShutdownUnlock ==
    /\ In("unlock")
    /\ \/ /\ hook.thread = "running" /\ ~hook.gate
          /\ SetLocked(FALSE)
          /\ Goto("fail open")
       \/ /\ hook' = [hook EXCEPT !.gate = FailOpenAfterError]
          /\ stack' = Reporting(<<"fail open">> \o Callers)
          /\ UNCHANGED events
    /\ ShutdownKeeps

ShutdownFailsOpen ==
    /\ In("fail open")
    /\ hook' = [hook EXCEPT !.gate = TRUE]
    /\ Goto("stop hook")
    /\ UNCHANGED events /\ ShutdownKeeps

ShutdownHook ==
    /\ In("stop hook")
    /\ StopHook(<<"stop tray">> \o Callers)
    /\ StartKeeps

ShutdownTray ==
    /\ In("stop tray")
    /\ StopTray(<<"destroy">> \o Callers)
    /\ StartKeeps

\* Destroyed with the root: the Settings window, and every dialog.
DestroyRoot ==
    /\ In("destroy")
    /\ app' = [app EXCEPT !.destroyed = TRUE]
    /\ window' = [window EXCEPT !.open = FALSE]
    /\ Return
    /\ UNCHANGED <<scheduled, hook, tray, events, actions, signal, registry, inputs>>

-----------------------------------------------------------------------------
MainStep ==
    \/ StartHook \/ CheckHook \/ StartTray \/ UndoTray \/ UndoHook \/ ReportStart
    \/ RunPump \/ PumpStep \/ SaveContinues \/ MainLoopEnds
    \/ Fatal \/ ShutdownUnlock \/ ShutdownFailsOpen \/ ShutdownHook \/ ShutdownTray
    \/ DestroyRoot

UserStep ==
    \/ CloseDialog \/ WindowSave \/ WindowStartup
    \/ \E action \in TrayAction : MenuAction(action)
    \/ HotkeyPressed \/ SecondLaunch

Next ==
    \/ MainStep \/ UserStep
    \/ WindowUnhealthy
    \/ EngineFails \/ EngineReconciles \/ TrayFails

Spec == Init /\ [][Next]_vars

\* The threads run their own code: every wait of the main thread has a timeout.
\* The user closes a dialog in the end, although a timer may call the pump on
\* top of it again and again: its loop takes the click between two pumps.
FairSpec ==
    /\ Spec
    /\ WF_vars(MainStep) /\ WF_vars(EngineReconciles)
    /\ SF_vars(CloseDialog)

-----------------------------------------------------------------------------
(* Properties *)

InPump == {i \in DOMAIN stack : stack[i] \in PumpPhase}

AppState == [running : BOOLEAN, closing : BOOLEAN, fatal : BOOLEAN,
             destroyed : BOOLEAN, polling : BOOLEAN, startup : BOOLEAN]
HookState == [thread : {"new", "running", "stopped"}, gate : BOOLEAN, locked : BOOLEAN]
TrayState == [thread : {"new", "running", "dead"}, fatal : BOOLEAN,
              locked : BOOLEAN, startup : BOOLEAN]
WindowState == [open : BOOLEAN, locked : BOOLEAN, startup : BOOLEAN]
Event == [kind : {"state", "fatal"}, locked : BOOLEAN]
Action == TrayAction \cup {"ACTIVATE"}

TypeOK ==
    /\ stack \in Seq(Call)
    /\ scheduled \in BOOLEAN /\ signal \in BOOLEAN /\ registry \in BOOLEAN
    /\ app \in AppState /\ hook \in HookState /\ tray \in TrayState
    /\ window \in WindowState
    /\ events \in Seq(Event) /\ actions \in Seq(Action)
    /\ inputs \in 0..MaxInputs

\* The pump is never entered while it runs, whatever dialogs are stacked on
\* it; and until the application closes it is running, scheduled, or about to
\* be shut down by a fatal error.
PumpIsOne ==
    /\ Cardinality(InPump) <= 1
    /\ scheduled => InPump = {}
    /\ app.running => scheduled \/ InPump # {} \/ \E i \in DOMAIN stack : stack[i] = "fatal"

\* While the shutdown, or the report that leads to it, waits for the user to
\* close a dialog, the keyboard is free.
NoDialogUnderTheLock ==
    app.closing \/ app.fatal
        => (stack # <<>> /\ Top \in Dialog => ~Locked)

\* The root goes last: after it neither thread serves, and no pump is due.
RootGoesLast ==
    app.destroyed => hook.gate /\ tray.thread # "running" /\ ~scheduled

AppInv == TypeOK /\ PumpIsOne /\ NoDialogUnderTheLock /\ RootGoesLast

\* What a step leaves to be seen of Start with Windows.
ShowsStartup ==
    /\ registry' # registry
          => \/ /\ tray'.startup = registry' /\ window'.startup = registry'
                /\ app'.startup = registry'
             \/ Head(stack') \in Dialog \/ app'.fatal
    /\ app'.startup \in {app.startup, registry'}
    /\ tray'.startup \in {tray.startup, registry'}
    /\ window'.startup \in {window.startup, registry'}

\* Every change of the registry ends in what the menu and the window show, or
\* in a dialog, or ends the application; and whatever comes to be shown is what
\* the registry holds, also when the change that was asked for did not work.
StartupIsShownOrReported == [][ShowsStartup]_vars

\* What the menu asks for is done, and the menu and the window hear of every
\* change of the lock, unless the application ends first.
PumpServes ==
    /\ actions # <<>> ~> actions = <<>> \/ stack = <<>>
    /\ events # <<>> ~> events = <<>> \/ stack = <<>>

\* A second launch brings up the Settings window or a dialog, unless the
\* application ends or has given up polling first, or the window has yet to hear
\* of a change of the lock when the activation is handled.
ActivationIsAnswered ==
    signal ~> \/ window.open \/ \E i \in DOMAIN stack : stack[i] \in Dialog
              \/ window.locked # Locked
              \/ ~app.polling \/ stack = <<>>

\* A failure of either thread, once it has been put into its queue, ends the
\* application, and so does every shutdown that has begun.
FailureEndsApplication ==
    /\ tray.fatal ~> stack = <<>>
    /\ (\E i \in DOMAIN events : events[i].kind = "fatal") ~> stack = <<>>
    /\ app.closing \/ app.fatal ~> stack = <<>>
=============================================================================
