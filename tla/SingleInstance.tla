--------------------------- MODULE SingleInstance ---------------------------
(***************************************************************************)
(* One instance per Windows session (InstanceGuard of single_instance.py   *)
(* and main() of main.py).  Every launch is a process; they meet in two    *)
(* named kernel objects only, a mutex whose existence says that there is   *)
(* an owner and an auto-reset event through which a later launch asks the  *)
(* owner to show itself.  A named object lives as long as somebody holds a *)
(* handle on it, whoever that is.  A process may be killed at any point,   *)
(* and may be launched again.                                              *)
(*                                                                         *)
(* The ownership that ReleaseMutex gives back is left out: nobody waits    *)
(* for the mutex.  What runs between building and closing is AppLifecycle. *)
(***************************************************************************)
EXTENDS FiniteSets

CONSTANT Process

ASSUME ProcessAssumption == IsFiniteSet(Process)

VARIABLES
    pc,      \* where each process is in main()
    mutex,   \* the processes with a handle on the named mutex
    event,   \* the processes with a handle on the named event
    waiting, \* the launches whose signal is still in the event
    late     \* the duplicates whose deadline has passed

gvars == <<pc, mutex, event, waiting, late>>

\* The application is being built, runs, or runs and no longer polls.
Serving == {"building", "running", "deaf"}
\* From a new mutex to its closing.
Owning == Serving \cup {"creating", "undoing", "closing", "releasing"}
\* request_activation, with the event open.
Signaling == {"setting", "signaled", "unset"}
Step == Owning \cup Signaling \cup {"off", "launched", "duplicate", "asking", "telling"}

GInit ==
    /\ pc = [p \in Process |-> "off"]
    /\ mutex = {} /\ event = {}
    /\ waiting = {} /\ late = {}

-----------------------------------------------------------------------------
(* Kernel objects *)

Go(p, step) == pc' = [pc EXCEPT ![p] = step]

\* Mutant: the last error is not looked at.
AlreadyExistsIgnored == FALSE

\* CreateMutexW: ERROR_ALREADY_EXISTS.
AlreadyExists == mutex # {}

\* OpenEventW finds the event.
EventExists == event # {}

\* p's handle on the event is closed, and with the last one the event is gone.
CloseEventHandle(p) ==
    /\ event' = event \ {p}
    /\ waiting' = IF event \subseteq {p} THEN {} ELSE waiting

\* Mutant: nobody closes the mutex.
CloseMutexHandleLeaks(p) == mutex' = mutex

CloseMutexHandle(p) == mutex' = mutex \ {p}

\* Mutant: a manual-reset event, which nobody resets.
AfterWaitStillSet == waiting

\* An auto-reset event: the wait that sees the signals takes them all.
AfterWait == {}

-----------------------------------------------------------------------------
(* acquire() *)

Launch(p) ==
    /\ pc[p] = "off"
    /\ Go(p, "launched")
    /\ late' = late \ {p}
    /\ UNCHANGED <<mutex, event, waiting>>

\* The SID cannot be read: there are no names, and no objects are touched.
NoIdentity(p) ==
    /\ pc[p] = "launched"
    /\ Go(p, "telling")
    /\ UNCHANGED <<mutex, event, waiting, late>>

\* CreateMutexW gives a handle to the creator and to a duplicate alike.
Acquire(p) ==
    /\ pc[p] = "launched"
    /\ \/ /\ Go(p, IF AlreadyExists THEN "duplicate" ELSE "creating")
          /\ mutex' = mutex \cup {p}
       \/ Go(p, "telling") /\ UNCHANGED mutex
    /\ UNCHANGED <<event, waiting, late>>

\* CreateEventW by the owner: an event that a duplicate still has open is
\* opened, signals included.
CreateEvent(p) ==
    /\ pc[p] = "creating"
    /\ \/ Go(p, "building") /\ event' = event \cup {p}
       \/ Go(p, "undoing") /\ UNCHANGED event
    /\ UNCHANGED <<mutex, waiting, late>>

\* Half an owner is none: the mutex goes before the error is reported.
UndoMutex(p) ==
    /\ pc[p] = "undoing"
    /\ CloseMutexHandle(p)
    /\ Go(p, "telling")
    /\ UNCHANGED <<event, waiting, late>>

\* A duplicate does not keep the mutex alive.  With --startup, which is looked
\* at now, that is all it does.
CloseDuplicate(p) ==
    /\ pc[p] = "duplicate"
    /\ CloseMutexHandle(p)
    /\ \E step \in {"off", "asking"} : Go(p, step)
    /\ UNCHANGED <<event, waiting, late>>

-----------------------------------------------------------------------------
(* request_activation() *)

\* Mutant: the loop has no deadline.
GivesUpNever(p) == FALSE

GivesUp(p) == p \in late

DeadlinePasses(p) ==
    /\ pc[p] = "asking" /\ p \notin late
    /\ late' = late \cup {p}
    /\ UNCHANGED <<pc, mutex, event, waiting>>

\* A round of the loop that neither opens the event nor gives up sleeps, and
\* changes nothing.
AskOwner(p) ==
    /\ pc[p] = "asking"
    /\ \/ EventExists /\ Go(p, "setting") /\ event' = event \cup {p}
       \/ ~EventExists /\ GivesUp(p) /\ Go(p, "telling") /\ UNCHANGED event
    /\ UNCHANGED <<mutex, waiting, late>>

\* OpenEventW fails with another error: there is nothing to wait for.
AskingFails(p) ==
    /\ pc[p] = "asking"
    /\ Go(p, "telling")
    /\ UNCHANGED <<mutex, event, waiting, late>>

SetEvent(p) ==
    /\ pc[p] = "setting"
    /\ \/ Go(p, "signaled") /\ waiting' = waiting \cup {p}
       \/ Go(p, "unset") /\ UNCHANGED waiting
    /\ UNCHANGED <<mutex, event, late>>

\* The handle is closed either way; only a launch that failed says so.
CloseOpened(p) ==
    /\ pc[p] \in {"signaled", "unset"}
    /\ CloseEventHandle(p)
    /\ Go(p, IF pc[p] = "signaled" THEN "off" ELSE "telling")
    /\ UNCHANGED <<mutex, late>>

\* The user closes the message box, and the process ends.
CloseMessage(p) ==
    /\ pc[p] = "telling"
    /\ Go(p, "off")
    /\ UNCHANGED <<mutex, event, waiting, late>>

-----------------------------------------------------------------------------
(* The owner *)

\* application_factory: it may raise.
Build(p) ==
    /\ pc[p] = "building"
    /\ \E step \in {"running", "closing"} : Go(p, step)
    /\ UNCHANGED <<mutex, event, waiting, late>>

\* poll_activation by the pump: a signal.
Poll(p) ==
    /\ pc[p] = "running" /\ waiting # {}
    /\ waiting' = AfterWait
    /\ UNCHANGED <<pc, mutex, event, late>>

\* The poll failed, or shutdown() has begun.
StopPolling(p) ==
    /\ pc[p] = "running"
    /\ Go(p, "deaf")
    /\ UNCHANGED <<mutex, event, waiting, late>>

\* run() returned or raised.
RunEnds(p) ==
    /\ pc[p] \in {"running", "deaf"}
    /\ Go(p, "closing")
    /\ UNCHANGED <<mutex, event, waiting, late>>

\* close(): the event first, then the mutex.
CloseEvent(p) ==
    /\ pc[p] = "closing"
    /\ CloseEventHandle(p)
    /\ Go(p, "releasing")
    /\ UNCHANGED <<mutex, late>>

CloseMutex(p) ==
    /\ pc[p] = "releasing"
    /\ CloseMutexHandle(p)
    /\ Go(p, "off")
    /\ UNCHANGED <<event, waiting, late>>

\* The process is killed; Windows closes its handles.
Crash(p) ==
    /\ pc[p] # "off"
    /\ mutex' = mutex \ {p}
    /\ CloseEventHandle(p)
    /\ Go(p, "off")
    /\ UNCHANGED late

-----------------------------------------------------------------------------
\* What a process does by itself once it is launched.
Proceed(p) ==
    \/ NoIdentity(p) \/ Acquire(p) \/ CreateEvent(p) \/ UndoMutex(p)
    \/ CloseDuplicate(p) \/ AskOwner(p) \/ SetEvent(p) \/ CloseOpened(p)
    \/ Build(p) \/ Poll(p) \/ CloseEvent(p) \/ CloseMutex(p)

GNext ==
    \E p \in Process :
        \/ Launch(p) \/ Proceed(p) \/ DeadlinePasses(p) \/ AskingFails(p)
        \/ CloseMessage(p) \/ StopPolling(p) \/ RunEnds(p) \/ Crash(p)

GSpec == GInit /\ [][GNext]_gvars

\* A process runs, its clock does, and its message box is closed sometime.  Poll
\* is in Proceed because the pump serves the activation event again and again
\* (AppLifecycle).  Nobody has to launch, quit or kill anything, and OpenEventW
\* need not fail.
Fairness ==
    \A p \in Process :
        /\ WF_gvars(Proceed(p))
        /\ WF_gvars(DeadlinePasses(p))
        /\ WF_gvars(CloseMessage(p))

GFairSpec == GSpec /\ Fairness

-----------------------------------------------------------------------------
(* Properties *)

GTypeOK ==
    /\ pc \in [Process -> Step]
    /\ mutex \subseteq Process /\ event \subseteq Process
    /\ waiting \subseteq Process /\ late \subseteq Process

\* Two processes never own the session, so there are never two keyboard hooks
\* (README.md:28-30), whatever is launched, quit or killed in between.
OneOwner == \A p, q \in Process : pc[p] \in Owning /\ pc[q] \in Owning => p = q

\* No handle outlives its use: a leaked one would make every later launch a
\* duplicate of nobody, or keep an old activation for the next owner.
HandlesAreInUse ==
    /\ mutex = {p \in Process : pc[p] \in Owning \cup {"duplicate"}}
    /\ event = {p \in Process : pc[p] \in Serving \cup {"closing"} \cup Signaling}
    /\ waiting # {} => event # {}

\* All of the above.
InstanceInv == GTypeOK /\ OneOwner /\ HandlesAreInUse

\* A launch becomes the owner or ends, and an owner that quits ends: nobody
\* waits forever, be it for an event that nobody will create
\* (request_activation retries until a deadline).
LaunchEnds ==
    \A p \in Process :
        (pc[p] \notin Serving \cup {"off"}) ~> (pc[p] \in {"off", "building"})

\* A signal that a launch left behind is taken up, also one that came before
\* the application was built, unless the owner goes or stops polling.  A signal
\* that stayed would show the window again and again.
SignalIsHeard ==
    \A p, q \in Process :
        (p \in waiting /\ pc[q] \in {"building", "running"})
            ~> (p \notin waiting \/ pc[q] \notin {"building", "running"})

=============================================================================
