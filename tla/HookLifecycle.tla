--------------------------- MODULE HookLifecycle ---------------------------
(***************************************************************************)
(* Starting and stopping the hook thread of keyboard_hook.KeyboardHook, as *)
(* main.AppLifecycle does it: start() with its readiness handshake, stop() *)
(* with its STOP command and its bounded join, and the fallback that runs  *)
(* force_unhook() and post_quit() on emergency threads and then stops once *)
(* more.  Unhooking is claimed under a lock and the native call is made    *)
(* outside it, so that a call that stalls blocks nobody.                   *)
(*                                                                         *)
(* The commands of a running hook are in KeyboardHook; here only STOP and  *)
(* WM_QUIT are messages.                                                   *)
(***************************************************************************)
EXTENDS Naturals, Sequences, FiniteSets

CONSTANTS
    PostMayFail,    \* PostThreadMessage can fail while the thread is alive
    UnhookMayFail   \* UnhookWindowsHookEx can fail

ASSUME LifecycleAssumption == PostMayFail \in BOOLEAN /\ UnhookMayFail \in BOOLEAN

VARIABLES
    owner,           \* where the hook thread is
    thread_id,       \* it has recorded its thread id
    ready,           \* the readiness event
    install_failed,  \* installation_exception
    cancelled,       \* _startup_cancelled
    intentional,     \* _intentional_stop
    hook,            \* the native hook: "none", "held" or "freed"
    handle,          \* hook_handle is set
    cleanup_state,   \* _hook_cleanup_state
    cleanup_error,   \* cleanup_exception
    unhook,          \* unhooker -> where it is in the claim protocol
    quit_state,      \* _quit_state
    quit,            \* quitter -> where it is in its claim protocol
    queue,           \* messages of the thread: Quit, or the round of a STOP
    stop_state,      \* round -> what has become of the STOP it submitted
    main,            \* where AppLifecycle is
    round            \* its first or second call of stop()

thread == <<thread_id, ready, install_failed, hook, handle>>
cleanup == <<cleanup_state, cleanup_error>>
vars == <<owner, thread, cancelled, intentional, cleanup, unhook, quit_state,
          quit, queue, stop_state, main, round>>

Quit == 0
Rounds == {1, 2}

\* The hook thread unhooks and quits itself; an emergency thread does either.
Unhookers == {"owner", "force_unhook"}
Quitters == {"owner", "post_quit"}

OwnerPc == {"boot", "booted", "install", "publish", "failed", "loop", "stop_unhook",
            "stop_quit", "finally", "reject", "dead"}
UnhookPc == {"idle", "claim", "call", "done", "undone", "report", "over"}
QuitPc == {"idle", "claim", "call", "done", "undone", "over"}
MainPc == {"starting", "running", "stop", "submit", "waiting", "join", "fallback",
           "await_unhook", "await_quit", "clean", "gave_up"}

Init ==
    /\ owner = "boot"
    /\ thread_id = FALSE /\ ready = FALSE /\ install_failed = FALSE
    /\ cancelled = FALSE /\ intentional = FALSE
    /\ hook = "none" /\ handle = FALSE
    /\ cleanup_state = "available" /\ cleanup_error = FALSE
    /\ unhook = [a \in Unhookers |-> "idle"]
    /\ quit_state = "available"
    /\ quit = [a \in Quitters |-> "idle"]
    /\ queue = <<>>
    /\ stop_state = [r \in Rounds |-> "none"]
    /\ main = "starting" /\ round = 1

Alive == owner # "dead"

-----------------------------------------------------------------------------
(* The claim protocols.  _unhook_owner and force_unhook differ only in who *)
(* runs them.                                                              *)

UnhookGoto(a, pc) == unhook' = [unhook EXCEPT ![a] = pc]
QuitGoto(a, pc) == quit' = [quit EXCEPT ![a] = pc]

\* Mutant: a claim in progress is not respected.
ClaimableAnyway == handle

Claimable == handle /\ cleanup_state = "available"

ClaimHookCleanup(a) ==
    /\ unhook[a] = "claim"
    /\ IF Claimable
       THEN UnhookGoto(a, "call") /\ cleanup_state' = "in_progress"
       ELSE UnhookGoto(a, "over") /\ UNCHANGED cleanup_state
    /\ UNCHANGED <<owner, thread, cancelled, intentional, cleanup_error,
                   quit_state, quit, queue, stop_state, main, round>>

\* The native call.
CallUnhook(a) ==
    /\ unhook[a] = "call"
    /\ \E success \in (IF UnhookMayFail THEN BOOLEAN ELSE {TRUE}) :
          /\ hook' = IF success THEN "freed" ELSE hook
          /\ UnhookGoto(a, IF success THEN "done" ELSE "undone")
    /\ UNCHANGED <<owner, thread_id, ready, install_failed, handle, cancelled,
                   intentional, cleanup, quit_state, quit, queue, stop_state,
                   main, round>>

\* Mutant: the handle is dropped although the hook is still installed.
HandleAfterCleanupDropped(success) == FALSE

HandleAfterCleanup(success) == handle /\ ~success

FinishHookCleanup(a) ==
    /\ unhook[a] \in {"done", "undone"}
    /\ LET success == unhook[a] = "done" IN
       /\ handle' = HandleAfterCleanup(success)
       /\ cleanup_state' = IF success THEN "done" ELSE "available"
       /\ cleanup_error' = IF success THEN FALSE ELSE cleanup_error
       /\ UnhookGoto(a, IF success THEN "over" ELSE "report")
    /\ UNCHANGED <<owner, thread_id, ready, install_failed, hook, cancelled,
                   intentional, quit_state, quit, queue, stop_state, main, round>>

ReportCleanupError(a) ==
    /\ unhook[a] = "report"
    /\ cleanup_error' = TRUE
    /\ UnhookGoto(a, "over")
    /\ UNCHANGED <<owner, thread, cancelled, intentional, cleanup_state,
                   quit_state, quit, queue, stop_state, main, round>>

UnhookStep(a) ==
    ClaimHookCleanup(a) \/ CallUnhook(a) \/ FinishHookCleanup(a) \/ ReportCleanupError(a)

\* Mutant: nothing remembers that a quit has been claimed.
QuitClaimableAlways == thread_id

QuitClaimable == quit_state = "available" /\ thread_id

\* post_quit() needs a thread id and marks the stop as intentional first.
ClaimQuit(a) ==
    /\ quit[a] = "claim"
    /\ intentional' = TRUE
    /\ IF QuitClaimable
       THEN QuitGoto(a, "call") /\ quit_state' = "in_progress"
       ELSE QuitGoto(a, "over") /\ UNCHANGED quit_state
    /\ UNCHANGED <<owner, thread, cancelled, cleanup, unhook, queue, stop_state,
                   main, round>>

\* A thread that is gone, or has no message queue yet, gets no message.
Reachable == Alive /\ owner # "booted"

PostOutcomes ==
    IF ~Reachable THEN {FALSE} ELSE IF PostMayFail THEN BOOLEAN ELSE {TRUE}

CallQuit(a) ==
    /\ quit[a] = "call"
    /\ \E posted \in (IF a = "owner" THEN {TRUE} ELSE PostOutcomes) :
          /\ queue' = IF posted THEN Append(queue, Quit) ELSE queue
          /\ QuitGoto(a, IF posted THEN "done" ELSE "undone")
    /\ UNCHANGED <<owner, thread, cancelled, intentional, cleanup, unhook,
                   quit_state, stop_state, main, round>>

\* A quit that could not be posted is reported as a cleanup error as well.
FinishQuit(a) ==
    /\ quit[a] \in {"done", "undone"}
    /\ quit_state' = IF quit[a] = "done" THEN "done" ELSE "available"
    /\ cleanup_error' = (cleanup_error \/ quit[a] = "undone")
    /\ QuitGoto(a, "over")
    /\ UNCHANGED <<owner, thread, cancelled, intentional, cleanup_state, unhook,
                   queue, stop_state, main, round>>

QuitStep(a) == ClaimQuit(a) \/ CallQuit(a) \/ FinishQuit(a)

-----------------------------------------------------------------------------
(* The hook thread *)

At(pc) == owner = pc

Boot ==
    /\ At("boot")
    /\ thread_id' = TRUE
    /\ owner' = "booted"
    /\ UNCHANGED <<ready, install_failed, hook, handle, cancelled, intentional,
                   cleanup, unhook, quit_state, quit, queue, stop_state, main, round>>

\* The message queue and the callback are made, or that raises; a start that
\* has timed out ends here.
InitializeQueue ==
    /\ At("booted")
    /\ \/ ~cancelled /\ owner' = "install"
       \/ cancelled /\ owner' = "finally"
       \/ owner' = "failed"
    /\ UNCHANGED <<thread, cancelled, intentional, cleanup, unhook, quit_state,
                   quit, queue, stop_state, main, round>>

InstallHook ==
    /\ At("install")
    /\ \/ owner' = "publish" /\ hook' = "held"
       \/ owner' = "failed" /\ UNCHANGED hook
    /\ UNCHANGED <<thread_id, ready, install_failed, handle, cancelled, intentional,
                   cleanup, unhook, quit_state, quit, queue, stop_state, main, round>>

\* Mutant: the readiness handshake does not look at the cancellation again.
PublishTargetServing == "loop"

PublishTarget == IF cancelled THEN "finally" ELSE "loop"

\* The critical section of the startup condition after the installation.
PublishHandle ==
    /\ At("publish")
    /\ handle' = TRUE
    /\ cleanup_state' = "available"
    /\ owner' = PublishTarget
    /\ ready' = (ready \/ PublishTarget = "loop")
    /\ UNCHANGED <<thread_id, install_failed, hook, cancelled, intentional,
                   cleanup_error, unhook, quit_state, quit, queue, stop_state,
                   main, round>>

InstallFails ==
    /\ At("failed")
    /\ install_failed' = TRUE
    /\ ready' = TRUE
    /\ owner' = "finally"
    /\ UNCHANGED <<thread_id, hook, handle, cancelled, intentional, cleanup,
                   unhook, quit_state, quit, queue, stop_state, main, round>>

\* GetMessage returns WM_QUIT.  It ends the loop even if it was not intended;
\* that only decides whether the end is reported as fatal.
TakeQuit ==
    /\ At("loop") /\ queue # <<>> /\ Head(queue) = Quit
    /\ queue' = Tail(queue)
    /\ owner' = "finally"
    /\ UNCHANGED <<thread, cancelled, intentional, cleanup, unhook, quit_state,
                   quit, stop_state, main, round>>

\* A STOP that its client gave up on is skipped.  One that has begun cannot
\* be canceled: it unhooks, posts a quit message and answers.
TakeStop ==
    /\ At("loop") /\ queue # <<>> /\ Head(queue) # Quit
    /\ queue' = Tail(queue)
    /\ IF stop_state[Head(queue)] = "pending"
       THEN /\ owner' = "stop_unhook"
            /\ intentional' = TRUE
            /\ UnhookGoto("owner", "claim")
            /\ stop_state' = [stop_state EXCEPT ![Head(queue)] = "begun"]
       ELSE UNCHANGED <<owner, intentional, unhook, stop_state>>
    /\ UNCHANGED <<thread, cancelled, cleanup, quit_state, quit, main, round>>

\* GetMessage reports an error.
LoopFails ==
    /\ At("loop")
    /\ owner' = "finally"
    /\ UNCHANGED <<thread, cancelled, intentional, cleanup, unhook, quit_state,
                   quit, queue, stop_state, main, round>>

StopUnhooked ==
    /\ At("stop_unhook") /\ unhook["owner"] = "over"
    /\ UnhookGoto("owner", "idle")
    /\ QuitGoto("owner", "claim")
    /\ owner' = "stop_quit"
    /\ UNCHANGED <<thread, cancelled, intentional, cleanup, quit_state, queue,
                   stop_state, main, round>>

StopAnswers ==
    /\ At("stop_quit") /\ quit["owner"] = "over"
    /\ stop_state' = [r \in Rounds |->
                         IF stop_state[r] = "begun" THEN "answered" ELSE stop_state[r]]
    /\ owner' = "finally"
    /\ UNCHANGED <<thread, cancelled, intentional, cleanup, unhook, quit_state,
                   quit, queue, main, round>>

\* Mutant: the last cleanup is left to STOP.
CleanupAtEndNever == UnhookGoto("owner", "over")

CleanupAtEnd == UnhookGoto("owner", "claim")

\* The finally clause: it always tries to unhook once more.
Finally ==
    /\ At("finally")
    /\ ready' = TRUE
    /\ CleanupAtEnd
    /\ owner' = "reject"
    /\ UNCHANGED <<thread_id, install_failed, hook, handle, cancelled, intentional,
                   cleanup, quit_state, quit, queue, stop_state, main, round>>

RejectPending ==
    /\ At("reject") /\ unhook["owner"] = "over"
    /\ stop_state' = [r \in Rounds |->
                         IF stop_state[r] = "pending" THEN "answered" ELSE stop_state[r]]
    /\ owner' = "dead"
    /\ UNCHANGED <<thread, cancelled, intentional, cleanup, unhook, quit_state,
                   quit, queue, main, round>>

OwnerStep ==
    \/ Boot \/ InitializeQueue \/ InstallHook \/ PublishHandle \/ InstallFails
    \/ TakeQuit \/ TakeStop \/ StopUnhooked \/ StopAnswers \/ Finally \/ RejectPending
    \/ UnhookStep("owner") \/ QuitStep("owner")

-----------------------------------------------------------------------------
(* AppLifecycle *)

MainGoto(pc) == main' = pc

MainUnchanged == UNCHANGED <<owner, thread, cleanup, quit_state>>

\* start() returns or raises; a start that raises is followed by _stop_hook.
Started ==
    /\ main = "starting" /\ ready
    /\ MainGoto(IF install_failed THEN "stop" ELSE "running")
    /\ MainUnchanged
    /\ UNCHANGED <<cancelled, intentional, unhook, quit, queue, stop_state, round>>

StartTimesOut ==
    /\ main = "starting" /\ ~ready
    /\ cancelled' = TRUE
    /\ MainGoto("stop")
    /\ MainUnchanged
    /\ UNCHANGED <<intentional, unhook, quit, queue, stop_state, round>>

\* shutdown(), or the tray did not start.
Shutdown ==
    /\ main = "running"
    /\ MainGoto("stop")
    /\ MainUnchanged
    /\ UNCHANGED <<cancelled, intentional, unhook, quit, queue, stop_state, round>>

Stop ==
    /\ main = "stop"
    /\ intentional' = TRUE
    /\ MainGoto("submit")
    /\ MainUnchanged
    /\ UNCHANGED <<cancelled, unhook, quit, queue, stop_state, round>>

\* submit(STOP) unless the thread is known not to serve.
SubmitStop ==
    /\ main = "submit"
    /\ \/ /\ Alive /\ ~install_failed /\ thread_id
          /\ TRUE \in PostOutcomes
          /\ queue' = Append(queue, round)
          /\ stop_state' = [stop_state EXCEPT ![round] = "pending"]
          /\ MainGoto("waiting")
       \/ /\ ~Alive \/ install_failed \/ ~thread_id \/ FALSE \in PostOutcomes
          /\ MainGoto("join")
          /\ UNCHANGED <<queue, stop_state>>
    /\ MainUnchanged
    /\ UNCHANGED <<cancelled, intentional, unhook, quit, round>>

StopReceived ==
    /\ main = "waiting" /\ stop_state[round] = "answered"
    /\ MainGoto("join")
    /\ MainUnchanged
    /\ UNCHANGED <<cancelled, intentional, unhook, quit, queue, stop_state, round>>

StopTimesOut ==
    /\ main = "waiting" /\ stop_state[round] # "answered"
    /\ stop_state' = [stop_state EXCEPT ![round] = IF @ = "pending" THEN "canceled" ELSE @]
    /\ MainGoto("join")
    /\ MainUnchanged
    /\ UNCHANGED <<cancelled, intentional, unhook, quit, queue, round>>

StopRaises == IF round = 1 THEN "fallback" ELSE "gave_up"

\* Mutant: a hook that could not be removed goes unnoticed.
CleanupFailedErrorOnly == cleanup_error

\* _raise_cleanup_error_if_needed
CleanupFailed == cleanup_error \/ handle

Join ==
    /\ main = "join"
    /\ MainGoto(IF Alive \/ CleanupFailed THEN StopRaises ELSE "clean")
    /\ MainUnchanged
    /\ UNCHANGED <<cancelled, intentional, unhook, quit, queue, stop_state, round>>

ForceUnhook ==
    /\ main = "fallback"
    /\ UnhookGoto("force_unhook", "claim")
    /\ MainGoto("await_unhook")
    /\ MainUnchanged
    /\ UNCHANGED <<cancelled, intentional, quit, queue, stop_state, round>>

\* Mutant: the lifecycle waits for its emergency thread without a limit.
JoinsUnhookerForever == unhook["force_unhook"] = "over"

\* _emergency_call joins its thread for a bounded time only.
JoinsUnhooker == TRUE

PostQuit ==
    /\ main = "await_unhook"
    /\ JoinsUnhooker
    /\ QuitGoto("post_quit", "claim")
    /\ MainGoto("await_quit")
    /\ MainUnchanged
    /\ UNCHANGED <<cancelled, intentional, unhook, queue, stop_state, round>>

StopAgain ==
    /\ main = "await_quit"
    /\ round' = round + 1
    /\ MainGoto("stop")
    /\ MainUnchanged
    /\ UNCHANGED <<cancelled, intentional, unhook, quit, queue, stop_state>>

MainStep ==
    \/ Started \/ StartTimesOut \/ Stop \/ SubmitStop \/ StopReceived \/ StopTimesOut
    \/ Join \/ ForceUnhook \/ PostQuit \/ StopAgain

-----------------------------------------------------------------------------
Next ==
    \/ OwnerStep \/ LoopFails
    \/ MainStep \/ Shutdown
    \/ UnhookStep("force_unhook")
    \/ QuitStep("post_quit")

Spec == Init /\ [][Next]_vars

\* Only the main thread is known to run: its waits are bounded, and any other
\* thread may be stuck in a native call.
MainFairSpec == Spec /\ WF_vars(MainStep)

\* Native calls return and every other thread runs as well.
NativeCallsReturn ==
    /\ WF_vars(OwnerStep)
    /\ WF_vars(UnhookStep("force_unhook"))
    /\ WF_vars(QuitStep("post_quit"))

-----------------------------------------------------------------------------
(* Properties *)

\* Each part of the protocol is in one of its stages.
TypeOK ==
    /\ owner \in OwnerPc /\ main \in MainPc /\ round \in Rounds
    /\ {thread_id, ready, install_failed, cancelled, intentional, handle,
        cleanup_error} \subseteq BOOLEAN
    /\ hook \in {"none", "held", "freed"}
    /\ {cleanup_state, quit_state} \subseteq {"available", "in_progress", "done"}
    /\ unhook \in [Unhookers -> UnhookPc] /\ quit \in [Quitters -> QuitPc]
    /\ queue \in Seq(Rounds \cup {Quit})
    /\ stop_state \in [Rounds -> {"none", "pending", "canceled", "begun", "answered"}]

\* Between native calls the handle tells whether the hook is installed,
\* whoever unhooked it and however often that failed before.
HandleIsHook ==
    ~At("publish") /\ (\A a \in Unhookers : unhook[a] # "done")
        => (handle <=> hook = "held")

\* When stop() returns without an error the hook thread is gone and the hook
\* is no longer installed.
CleanStopIsClean == main = "clean" => At("dead") /\ hook # "held"

\* Once start() has given up, the hook thread never reads an event or a
\* message, even if the installation was already under way
\* (tests/test_keyboard_hook.py:380).
CancelledNeverServes == cancelled => ~At("loop") /\ ~At("stop_unhook")

\* The hook thread does not leave an installed hook behind in silence: if no
\* attempt to remove it is still running, its failure has been reported.
EndIsReported ==
    At("dead") /\ hook = "held" /\ (\A a \in Unhookers : unhook[a] \in {"idle", "over"})
        => cleanup_error

\* How the end of the hook thread is known: by a stop() without an error, or by
\* its report.
EndIsKnown == CleanStopIsClean /\ EndIsReported

\* The owner and the emergency thread together post one quit message at most
\* (tests/test_keyboard_hook.py:1505).
QuitOnce == Cardinality({n \in DOMAIN queue : queue[n] = Quit}) <= 1

\* What every step of the lifecycle keeps, whoever takes it: the types, the
\* handle, the cancellation and the single quit.
LifecycleInv == TypeOK /\ HandleIsHook /\ CancelledNeverServes /\ QuitOnce

Calling ==
    IF \E a \in Unhookers : unhook[a] = "call"
    THEN CHOOSE a \in Unhookers : unhook[a] = "call"
    ELSE "nobody"

Native == INSTANCE NativeResource WITH
              Caller <- Unhookers, Nobody <- "nobody",
              resource <- hook, caller <- Calling

\* The claim protocol keeps the native calls apart and never repeats one that
\* has succeeded (docs/superpowers/plans/2026-09-04-catlocker-hardening.md:154).
ImplementsNativeResource == Native!Spec

QuitNotPosted == quit["post_quit"] = "over" /\ quit_state = "available"

\* Shutting down takes bounded time although any other thread may be stuck in
\* a native call for good; the dialogs that report a failure on the way wait
\* for the user (AppLifecycle).
ShutdownIsBounded == main = "stop" ~> main \in {"clean", "gave_up"}

\* If native calls return, stopping ends the hook thread, and removes the hook
\* or reports that it could not, whatever timed out on the way; only a quit
\* message that cannot be posted leaves the thread running.
StopEndsHook ==
    NativeCallsReturn =>
        (main = "stop" ~> \/ At("dead") /\ (hook # "held" \/ cleanup_error)
                          \/ main = "gave_up" /\ QuitNotPosted)
=============================================================================
