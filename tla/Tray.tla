-------------------------------- MODULE Tray --------------------------------
(***************************************************************************)
(* tray.NativeTray: the thread that owns the notification icon, the updates *)
(* that the main thread queues for it and announces with a window message, *)
(* Explorer restarting underneath it, and main.AppLifecycle starting and   *)
(* stopping it with its emergency threads.  Of a presentation only the     *)
(* lock is kept; balloons and the startup and notification settings are    *)
(* left out.                                                               *)
(***************************************************************************)
EXTENDS Naturals, Sequences, FiniteSets

CONSTANTS
    MaxUpdates,   \* bound on the updates and on the messages that wait
    MaxOutside,   \* bound on the restarts of Explorer and clicks on the icon
    MayFail       \* the native calls of a running tray that can be refused
                  \* for no reason of the tray's: "modify", "delete", "post"

ASSUME TrayAssumption ==
    /\ MaxUpdates \in Nat /\ MaxOutside \in Nat
    /\ MayFail \subseteq {"modify", "delete", "post"}

VARIABLES
    owner,          \* where the tray thread is
    window,         \* its window: "none", "open" or "destroyed"
    msgs,           \* posted window messages
    quitting,       \* PostQuitMessage was called
    menu,           \* the popup menu is open, inside a message
    slock,          \* state.locked
    notify_data,    \* there is a notify_data
    icon,           \* the tooltip of the icon that Explorer shows, if it shows one
    updates,        \* _updates, newest last
    posted,         \* the lock in the newest update ever queued
    fatal,          \* how many fatal events were published
    cancelled, intentional, ready, install_failed,
    icon_deleted, cleanup_state, cleanup_error,
    remover,        \* who deletes the icon -> where it is in the claim protocol
    quit_posted,    \* _quit_posted
    quitter,        \* where the emergency thread of post_quit() is
    main, round,    \* where AppLifecycle is, and its first or second stop()
    outside         \* the restarts of Explorer and the clicks so far

pump == <<window, msgs, quitting, menu>>
shown == <<slock, notify_data, icon>>
feed == <<updates, posted>>
startup == <<cancelled, intentional, ready, install_failed>>
deletion == <<icon_deleted, cleanup_state, cleanup_error>>
app == <<quit_posted, quitter, main, round>>
vars == <<owner, pump, shown, feed, fatal, startup, deletion, remover, app, outside>>

NoIcon == "none"
Removers == {"owner", "force_remove_icon"}

OwnerPc == {"load", "window", "register", "add", "version", "signal", "signal_ready",
            "loop", "cleanup", "dead"}
RemoverPc == {"idle", "claim", "call", "done", "undone", "report", "over"}
MainPc == {"starting", "running", "posting", "stop", "cancel", "join", "fallback",
           "await_remove", "await_quit", "clean", "gave_up"}
Message == {"update", "stop", "click"}
Presentation == {NoIcon, "locked", "unlocked"}

Tip(l) == IF l THEN "locked" ELSE "unlocked"

Init ==
    /\ owner = "load"
    /\ window = "none" /\ msgs = <<>> /\ quitting = FALSE /\ menu = FALSE
    /\ slock = FALSE /\ notify_data = FALSE /\ icon = NoIcon
    /\ updates = <<>> /\ posted = FALSE
    /\ fatal = 0
    /\ cancelled = FALSE /\ intentional = FALSE
    /\ ready = FALSE /\ install_failed = FALSE
    /\ icon_deleted = FALSE /\ cleanup_state = "available" /\ cleanup_error = FALSE
    /\ remover = [a \in Removers |-> "idle"]
    /\ quit_posted = FALSE /\ quitter = "idle"
    /\ main = "starting" /\ round = 1
    /\ outside = 0

Alive == owner # "dead"
At(pc) == owner = pc
Outcomes(call) == IF call \in MayFail THEN BOOLEAN ELSE {TRUE}

-----------------------------------------------------------------------------
(* Starting up.  Each stage but the last looks for a cancellation before its *)
(* native call; a failure or a cancellation leads to the cleanup.          *)

Stage == [load |-> "window", window |-> "register", register |-> "add",
          add |-> "version", version |-> "signal"]

AbortStartup ==
    /\ install_failed' = TRUE
    /\ owner' = "cleanup"
    /\ UNCHANGED <<pump, shown, feed, fatal, cancelled, intentional, ready, deletion,
                   remover, app, outside>>

StartupFails == owner \in DOMAIN Stage /\ AbortStartup

StartupCancelled ==
    /\ owner \in {"window", "register", "add", "signal"}
    /\ cancelled
    /\ AbortStartup

StartupStage ==
    /\ owner \in DOMAIN Stage
    /\ owner \in {"window", "register", "add"} => ~cancelled
    /\ owner' = Stage[owner]
    /\ window' = IF At("window") THEN "open" ELSE window
    /\ icon' = IF At("add") THEN Tip(slock) ELSE icon
    /\ notify_data' = TRUE
    /\ UNCHANGED <<msgs, quitting, menu, slock, feed, fatal, startup, deletion,
                   remover, app, outside>>

\* The last check is apart from the signal that follows it.
LastCheck ==
    /\ At("signal") /\ ~cancelled
    /\ owner' = "signal_ready"
    /\ UNCHANGED <<pump, shown, feed, fatal, startup, deletion, remover, app, outside>>

SignalReady ==
    /\ At("signal_ready")
    /\ ready' = TRUE
    /\ owner' = "loop"
    /\ UNCHANGED <<pump, shown, feed, fatal, cancelled, intentional, install_failed,
                   deletion, remover, app, outside>>

-----------------------------------------------------------------------------
(* The message loop *)

\* Mutant: every failure is published.
PublishesAgain == ~intentional

\* _publish_fatal reports once, and not during an intentional stop.
Publishes == ~intentional /\ fatal = 0

PublishFatal == fatal' = IF Publishes THEN fatal + 1 ELSE fatal

Dispatching(message) ==
    /\ At("loop") /\ msgs # <<>> /\ Head(msgs) = message
    /\ msgs' = Tail(msgs)
    /\ UNCHANGED <<owner, window, posted, startup, deletion, remover, app, outside>>

\* The window procedure catches what a handler raises.
HandlerEnds(ok) ==
    IF ok THEN UNCHANGED <<fatal, quitting>>
    ELSE PublishFatal /\ quitting' = (quitting \/ Publishes)

\* Mutant: the menu holds updates back.
DrainedOutsideMenu == IF menu THEN <<>> ELSE updates

\* The updates that _drain_updates takes.
Drained == updates

\* Mutant: the oldest of several updates wins.
LockAfterOldest(us) == IF us = <<>> THEN slock ELSE us[1]

LockAfter(us) == IF us = <<>> THEN slock ELSE us[Len(us)]

\* _drain_updates applies them in order and modifies the icon once, if the
\* lock is not what it was.  NIM_MODIFY fails if there is no icon.
HandleUpdate ==
    /\ Dispatching("update")
    /\ updates' = SubSeq(updates, Len(Drained) + 1, Len(updates))
    /\ slock' = LockAfter(Drained)
    /\ IF slock' = slock
       THEN UNCHANGED <<icon, fatal, quitting>>
       ELSE \E ok \in Outcomes("modify") :
               LET success == ok /\ icon # NoIcon IN
               /\ icon' = IF success THEN Tip(slock') ELSE icon
               /\ HandlerEnds(success)
    /\ UNCHANGED <<menu, notify_data>>

\* Mutant: a stop that arrives inside the menu is lost.
HandleStopOutsideMenu ==
    /\ Dispatching("stop")
    /\ quitting' = (quitting \/ ~menu)
    /\ UNCHANGED <<menu, shown, updates, fatal>>

HandleStop ==
    /\ Dispatching("stop")
    /\ quitting' = TRUE
    /\ UNCHANGED <<menu, shown, updates, fatal>>

\* The menu runs a message loop of its own until it is closed.
HandleClick ==
    /\ Dispatching("click")
    /\ menu' = TRUE
    /\ UNCHANGED <<quitting, shown, updates, fatal>>

MenuCloses ==
    /\ At("loop") /\ menu
    /\ menu' = FALSE
    /\ UNCHANGED <<owner, window, msgs, quitting, shown, feed, fatal, startup,
                   deletion, remover, app, outside>>

\* The loop ends with WM_QUIT, or with an error.
LoopEnds ==
    /\ At("loop") /\ quitting /\ ~menu
    /\ PublishFatal
    /\ owner' = "cleanup"
    /\ UNCHANGED <<pump, shown, feed, startup, deletion, remover, app, outside>>

LoopFails ==
    /\ At("loop") /\ ~menu
    /\ PublishFatal
    /\ quitting' = (quitting \/ Publishes)
    /\ owner' = "cleanup"
    /\ UNCHANGED <<window, msgs, menu, shown, feed, startup, deletion, remover,
                   app, outside>>

-----------------------------------------------------------------------------
(* Deleting the icon, by the tray thread's cleanup or by force_remove_icon *)

RemoverGoto(a, pc) == remover' = [remover EXCEPT ![a] = pc]

RemoverUnchanged ==
    UNCHANGED <<owner, pump, slock, notify_data, feed, fatal, startup, app, outside>>

\* Mutant: a delete in progress is not respected.
ClaimableAnyway == notify_data /\ ~icon_deleted

Claimable == notify_data /\ ~icon_deleted /\ cleanup_state = "available"

ClaimIconDelete(a) ==
    /\ remover[a] = "claim"
    /\ IF Claimable
       THEN RemoverGoto(a, "call") /\ cleanup_state' = "in_progress"
       ELSE RemoverGoto(a, "over") /\ UNCHANGED cleanup_state
    /\ RemoverUnchanged
    /\ UNCHANGED <<icon, icon_deleted, cleanup_error>>

DeleteIcon(a) ==
    /\ remover[a] = "call"
    /\ \E ok \in Outcomes("delete") :
          LET success == ok /\ icon # NoIcon IN
          /\ icon' = IF success THEN NoIcon ELSE icon
          /\ RemoverGoto(a, IF success THEN "done" ELSE "undone")
    /\ RemoverUnchanged
    /\ UNCHANGED deletion

FinishIconDelete(a) ==
    /\ remover[a] \in {"done", "undone"}
    /\ LET success == remover[a] = "done" IN
       /\ cleanup_state' = IF success THEN "done" ELSE "available"
       /\ icon_deleted' = success
       /\ RemoverGoto(a, IF success THEN "over" ELSE "report")
    /\ RemoverUnchanged
    /\ UNCHANGED <<icon, cleanup_error>>

\* Mutant: an icon that could not be deleted is not reported.
ReportDeleteErrorNot(a) ==
    /\ remover[a] = "report"
    /\ RemoverGoto(a, "over")
    /\ RemoverUnchanged
    /\ UNCHANGED <<icon, deletion>>

ReportDeleteError(a) ==
    /\ remover[a] = "report"
    /\ cleanup_error' = TRUE
    /\ RemoverGoto(a, "over")
    /\ RemoverUnchanged
    /\ UNCHANGED <<icon, icon_deleted, cleanup_state>>

RemoverStep(a) ==
    ClaimIconDelete(a) \/ DeleteIcon(a) \/ FinishIconDelete(a) \/ ReportDeleteError(a)

\* _cleanup_owner: the icon, then the window and the icon handle.
CleanupOwner ==
    /\ At("cleanup") /\ remover["owner"] = "idle"
    /\ RemoverGoto("owner", "claim")
    /\ UNCHANGED <<owner, pump, shown, feed, fatal, startup, deletion, app, outside>>

CleanupEnds ==
    /\ At("cleanup") /\ remover["owner"] = "over"
    /\ window' = IF window = "open" THEN "destroyed" ELSE window
    /\ msgs' = <<>>
    /\ ready' = TRUE
    /\ owner' = "dead"
    /\ UNCHANGED <<quitting, menu, shown, feed, fatal, cancelled, intentional,
                   install_failed, deletion, remover, app, outside>>

OwnerStep ==
    \/ StartupStage \/ StartupCancelled \/ LastCheck \/ SignalReady
    \/ HandleUpdate \/ HandleStop \/ HandleClick \/ MenuCloses
    \/ LoopEnds \/ CleanupOwner \/ CleanupEnds \/ RemoverStep("owner")

-----------------------------------------------------------------------------
(* The main thread, its emergency threads, and Explorer *)

MainGoto(pc) == main' = pc
MainUnchanged ==
    UNCHANGED <<owner, window, quitting, menu, shown, fatal, ready, install_failed,
                deletion, quit_posted, outside>>

Post(message) == msgs' = Append(msgs, message)
Postable == IF window = "open" THEN Outcomes("post") ELSE {FALSE}

\* start() returns or raises; AppLifecycle stops a tray that did not start.
Started ==
    /\ main = "starting" /\ ready
    /\ MainGoto(IF install_failed THEN "stop" ELSE "running")
    /\ MainUnchanged
    /\ UNCHANGED <<msgs, feed, cancelled, intentional, remover, quitter, round>>

StartTimesOut ==
    /\ main = "starting" /\ ~ready
    /\ cancelled' = TRUE
    /\ MainGoto("stop")
    /\ MainUnchanged
    /\ UNCHANGED <<msgs, feed, intentional, remover, quitter, round>>

\* post_update refuses a tray that has stopped, which is fatal to the
\* application; otherwise the update is queued ...
PostUpdate(l) ==
    /\ main = "running" /\ Alive /\ fatal = 0
    /\ Len(updates) < MaxUpdates /\ Len(msgs) < MaxUpdates
    /\ updates' = Append(updates, l)
    /\ posted' = l
    /\ MainGoto("posting")
    /\ MainUnchanged
    /\ UNCHANGED <<msgs, cancelled, intentional, remover, quitter, round>>

\* ... and then announced, unless the thread has gone in between.
Announce ==
    /\ main = "posting"
    /\ IF ~Alive THEN MainGoto("running") /\ UNCHANGED msgs
       ELSE \E ok \in Postable :
               IF ok THEN MainGoto("running") /\ Post("update")
               ELSE MainGoto("stop") /\ UNCHANGED msgs
    /\ MainUnchanged
    /\ UNCHANGED <<feed, cancelled, intentional, remover, quitter, round>>

\* shutdown(), also as the answer to a fatal event or a refused update.
Shutdown ==
    /\ main = "running"
    /\ MainGoto("stop")
    /\ MainUnchanged
    /\ UNCHANGED <<msgs, feed, cancelled, intentional, remover, quitter, round>>

StopRaises == IF round = 1 THEN "fallback" ELSE "gave_up"

StopDead ==
    /\ main = "stop" /\ ~Alive
    /\ MainGoto(IF cleanup_error THEN StopRaises ELSE "clean")
    /\ MainUnchanged
    /\ UNCHANGED <<msgs, feed, cancelled, intentional, remover, quitter, round>>

\* Without a window the startup is cancelled, with one it gets a message.  A
\* message that cannot be posted is not waited for.
Stop ==
    /\ main = "stop" /\ Alive
    /\ intentional' = TRUE
    /\ IF window = "none"
       THEN /\ MainGoto("cancel") /\ UNCHANGED msgs
       ELSE \E ok \in Postable :
               IF ok THEN MainGoto("join") /\ Post("stop")
               ELSE MainGoto(StopRaises) /\ UNCHANGED msgs
    /\ MainUnchanged
    /\ UNCHANGED <<feed, cancelled, remover, quitter, round>>

StopCancels ==
    /\ main = "cancel"
    /\ cancelled' = TRUE
    /\ MainGoto("join")
    /\ MainUnchanged
    /\ UNCHANGED <<msgs, feed, intentional, remover, quitter, round>>

Join ==
    /\ main = "join"
    /\ MainGoto(IF Alive \/ cleanup_error THEN StopRaises ELSE "clean")
    /\ MainUnchanged
    /\ UNCHANGED <<msgs, feed, cancelled, intentional, remover, quitter, round>>

ForceRemoveIcon ==
    /\ main = "fallback"
    /\ RemoverGoto("force_remove_icon", "claim")
    /\ MainGoto("await_remove")
    /\ MainUnchanged
    /\ UNCHANGED <<msgs, feed, cancelled, intentional, quitter, round>>

\* Each emergency thread is joined for a bounded time.
PostQuit ==
    /\ main = "await_remove"
    /\ quitter' = "quit"
    /\ MainGoto("await_quit")
    /\ MainUnchanged
    /\ UNCHANGED <<msgs, feed, cancelled, intentional, remover, round>>

StopAgain ==
    /\ main = "await_quit"
    /\ round' = round + 1
    /\ MainGoto("stop")
    /\ MainUnchanged
    /\ UNCHANGED <<msgs, feed, cancelled, intentional, remover, quitter>>

MainStep ==
    \/ Started \/ StartTimesOut \/ Announce \/ StopDead \/ Stop \/ StopCancels
    \/ Join \/ ForceRemoveIcon \/ PostQuit \/ StopAgain

\* post_quit() runs under _quit_lock, once.
QuitterStep ==
    /\ quitter = "quit"
    /\ intentional' = TRUE
    /\ quitter' = "over"
    /\ IF window = "none"
       THEN cancelled' = TRUE /\ quit_posted' = TRUE /\ UNCHANGED <<msgs, cleanup_error>>
       ELSE \E ok \in Postable :
               /\ quit_posted' = ok
               /\ cleanup_error' = (cleanup_error \/ ~ok)
               /\ IF ok THEN Post("stop") ELSE UNCHANGED msgs
               /\ UNCHANGED cancelled
    /\ UNCHANGED <<owner, window, quitting, menu, shown, feed, fatal, ready,
                   install_failed, icon_deleted, cleanup_state, remover, main, round,
                   outside>>

\* Explorer restarts without the icon.  Its broadcast TaskbarCreated does not
\* reach the tray: the window is a message-only window (a child of
\* HWND_MESSAGE), and these get no broadcasts.
ExplorerRestarts ==
    /\ outside < MaxOutside
    /\ outside' = outside + 1
    /\ icon' = NoIcon
    /\ UNCHANGED <<owner, pump, slock, notify_data, feed, fatal, startup, deletion, remover,
                   app>>

Click ==
    /\ icon # NoIcon /\ window = "open"
    /\ outside < MaxOutside
    /\ outside' = outside + 1
    /\ Post("click")
    /\ UNCHANGED <<owner, window, quitting, menu, shown, feed, fatal, startup, deletion,
                   remover, app>>

-----------------------------------------------------------------------------
Next ==
    \/ OwnerStep \/ StartupFails \/ LoopFails
    \/ MainStep \/ Shutdown \/ \E l \in BOOLEAN : PostUpdate(l)
    \/ RemoverStep("force_remove_icon") \/ QuitterStep
    \/ ExplorerRestarts \/ Click

Spec == Init /\ [][Next]_vars

\* Every thread runs, native calls return, and an open menu is closed (WM_QUIT
\* closes it, and so does its user).
FairSpec ==
    /\ Spec
    /\ WF_vars(OwnerStep) /\ WF_vars(MainStep)
    /\ WF_vars(RemoverStep("force_remove_icon")) /\ WF_vars(QuitterStep)

-----------------------------------------------------------------------------
(* Properties *)

\* The kinds of value of the tray's fields.
TypeOK ==
    /\ owner \in OwnerPc /\ remover \in [Removers -> RemoverPc]
    /\ quitter \in {"idle", "quit", "over"}
    /\ main \in MainPc /\ round \in 1..2
    /\ window \in {"none", "open", "destroyed"} /\ msgs \in Seq(Message)
    /\ {quitting, menu, slock, notify_data, posted, cancelled, intentional, ready,
        install_failed, icon_deleted, cleanup_error, quit_posted} \subseteq BOOLEAN
    /\ icon \in Presentation
    /\ updates \in Seq(BOOLEAN) /\ {fatal, outside} \subseteq Nat
    /\ cleanup_state \in {"available", "in_progress", "done"}

\* When no update waits, the tray knows the newest one, and the icon of a serving
\* tray shows it, however many updates were merged or came during a menu.
ShowsNewest ==
    /\ updates = <<>> => slock = posted
    /\ icon # NoIcon /\ At("loop") /\ fatal = 0 /\ ~intentional => icon = Tip(slock)

\* No lost wake-up: an update in the queue of a serving tray has a message on
\* its way, or its announcement is still to come or has failed.
NoLostWakeup ==
    updates # <<>> /\ At("loop") /\ main = "running"
        => \E n \in DOMAIN msgs : msgs[n] = "update"

\* The tray reports its own end, once, before it cleans up, and only if nobody
\* asked for it (docs/superpowers/plans/2026-09-04-catlocker-hardening.md:278).
EndIsToldOnce ==
    /\ fatal <= 1
    /\ owner \in {"cleanup", "dead"} /\ ~install_failed /\ ~intentional => fatal = 1

\* An icon that a dead tray thread leaves behind has been reported, unless an
\* attempt to delete it is still running; a stop() without an error leaves no
\* thread and no window.
EndRemovesIcon ==
    /\ (/\ At("dead") /\ icon # NoIcon
        /\ \A a \in Removers : remover[a] \in {"idle", "over"})
       => cleanup_error
    /\ main = "clean" => At("dead") /\ window # "open"

\* How the end of the tray thread is known: by its own report and by what is
\* left behind.
EndIsKnown == EndIsToldOnce /\ EndRemovesIcon

\* What every step of the tray keeps, whoever takes it: the types, and that the
\* newest state is shown or on its way.
TrayInv == TypeOK /\ ShowsNewest /\ NoLostWakeup

\* notify_data as the resource that a delete releases.
Data ==
    IF ~notify_data THEN "none"
    ELSE IF icon_deleted \/ \E a \in Removers : remover[a] = "done" THEN "freed" ELSE "held"

Deleting ==
    IF \E a \in Removers : remover[a] = "call"
    THEN CHOOSE a \in Removers : remover[a] = "call"
    ELSE "nobody"

Native == INSTANCE NativeResource WITH
              Caller <- Removers, Nobody <- "nobody",
              resource <- Data, caller <- Deleting

\* The icon is deleted by one native call at a time, and not again after one
\* that succeeded (tests/test_tray.py:387).
ImplementsNativeResource == Native!Spec

\* The tray remains usable after an Explorer restart
\* (docs/windows-manual-test-checklist.md:55): as long as Windows refuses no call
\* to a tray that has its icon (MayFail = {}), a tray in its message loop has no
\* failure to report, which would end the application.
RemainsUsable == At("loop") => fatal = 0

\* Stopping ends the tray thread, whatever timed out or was missed on the way;
\* only messages that cannot be posted leave it running.
StopEndsTray ==
    main = "stop" ~> \/ At("dead")
                     \/ main = "gave_up" /\ quitter = "over" /\ ~quit_posted
=============================================================================
