---------------------------- MODULE KeyboardHook ----------------------------
(***************************************************************************)
(* The command protocol of keyboard_hook.KeyboardHook as its clients drive *)
(* it through controller.CatModeController.  One hook thread owns the      *)
(* state machine and runs key callbacks and posted commands one at a time; *)
(* a client posts a command and waits for its reply until it times out;    *)
(* any thread can set the fail-open gate at any moment.  Every test of the *)
(* gate in the code is a step of its own, so that the gate can be set      *)
(* between a test and what the test guards.                                *)
(*                                                                         *)
(* The state machine is reduced to the lock and the recording session; the *)
(* keys are in InputState.  Unhooking and quitting are abstracted to the   *)
(* result of STOP and to the end of the message loop.                      *)
(***************************************************************************)
EXTENDS Naturals, Sequences, FiniteSets

CONSTANTS
    Client,       \* threads that call the controller
    MaxCommands,  \* bound on the commands submitted
    MaxSessions,  \* bound on the recording sessions begun
    MaxQueue,     \* bound on the queue that calls made after the gate can fill
    PostMayFail   \* PostThreadMessage can fail while the thread is alive

ASSUME HookAssumption ==
    /\ MaxCommands \in Nat /\ MaxSessions \in Nat /\ MaxQueue \in Nat
    /\ PostMayFail \in BOOLEAN

VARIABLES
    gate,       \* fail_open
    locked,     \* state.locked, read and written by the hook thread only
    session,    \* _recording_session_id, 0 for None; a channel exists iff # 0
    nextSession,
    snapshot,   \* _published_snapshot.locked
    lastEvent,  \* what the newest "state" event in the queue says
    reconciled, \* _reconcile_fail_open has run
    hook,       \* where the hook thread is, and its local variables
    cmds,       \* the commands created so far, by id
    msgq,       \* the thread's message queue: command ids and FailOpenMsg
    client      \* where each client is, and the id it waits for

lockstate == <<locked, session, nextSession, snapshot, lastEvent, reconciled>>
vars == <<gate, lockstate, hook, cmds, msgq, client>>

FailOpenMsg == 0   \* a FAIL_OPEN command, which has no reply and no canceller

Kinds == {"LOCK", "UNLOCK", "TOGGLE", "REPLACE_SHORTCUT", "ENTER_RECORDING",
          "EXIT_RECORDING", "CANCEL_RECORDING", "FINISH_RECORDING", "STOP"}

SessionKinds == {"CANCEL_RECORDING", "FINISH_RECORDING"}

Command == [kind : Kinds, session : Nat, pending : BOOLEAN,
            canceled : BOOLEAN, committed : BOOLEAN,
            reply : {"none", "accepted", "rejected"},
            applied : BOOLEAN,   \* history: its operation has run
            late : BOOLEAN]      \* history: posted after the last rejection

HookPc == {"idle", "check", "commit", "op", "post", "snap", "write", "event",
           "put", "reply", "stop", "finally", "reject", "exiting", "dead"}

\* The id of a command that has been created, or 0.
Id == 0..Len(cmds)

Hook == [pc : HookPc, cmd : Id, accepted : BOOLEAN,
         changed : BOOLEAN, snap : BOOLEAN, stopping : BOOLEAN]

AtLoop == [pc |-> "idle", cmd |-> 0, accepted |-> FALSE,
           changed |-> FALSE, snap |-> FALSE, stopping |-> FALSE]

ClientPc == {"idle", "submitting", "stopping", "stop_posting", "waiting",
             "canceling", "raised", "posting"}

-----------------------------------------------------------------------------
Init ==
    /\ gate = FALSE
    /\ locked = FALSE
    /\ session = 0 /\ nextSession = 1
    /\ snapshot = FALSE
    /\ lastEvent = FALSE
    /\ reconciled = FALSE
    /\ hook = AtLoop
    /\ cmds = <<>>
    /\ msgq = <<>>
    /\ client = [c \in Client |-> [pc |-> "idle", cmd |-> 0]]

Alive == hook.pc # "dead"

-----------------------------------------------------------------------------
(* Clients *)

Goto(c, pc) == client' = [client EXCEPT ![c].pc = pc]

NewCommand(kind, s) ==
    [kind |-> kind, session |-> s, pending |-> TRUE, canceled |-> FALSE,
     committed |-> FALSE, reply |-> "none", applied |-> FALSE,
     late |-> hook.pc = "exiting"]

\* The bound, in which every call that will post a command counts.
MaySubmit ==
    Len(cmds) + Cardinality({c \in Client :
                   client[c].pc \in {"submitting", "stopping", "stop_posting"}})
        < MaxCommands

\* _create_command and _post_command.  A post that fails withdraws the
\* command and raises; a rejection that comes between the two is the same to
\* the client as one that comes after them, or as a failure.
Post(c, kind, s, ok) ==
    LET id == Len(cmds) + 1 IN
    /\ cmds' = Append(cmds, [NewCommand(kind, s) EXCEPT !.pending = ok])
    /\ IF ok
       THEN /\ msgq' = Append(msgq, id)
            /\ client' = [client EXCEPT ![c] = [pc |-> "waiting", cmd |-> id]]
       ELSE /\ client' = [client EXCEPT ![c] = [pc |-> "raised", cmd |-> id]]
            /\ UNCHANGED msgq

PostOutcomes == IF ~Alive THEN {FALSE} ELSE IF PostMayFail THEN BOOLEAN ELSE {TRUE}

\* submit() of an ordinary command looks at the gate first ...
Submit(c) ==
    /\ client[c].pc = "idle"
    /\ \/ ~gate /\ MaySubmit /\ Goto(c, "submitting")
       \/ gate /\ Len(msgq) < MaxQueue /\ Goto(c, "raised")
    /\ UNCHANGED <<gate, lockstate, hook, cmds, msgq>>

\* ... and then creates and posts the command.
PostCommand(c) ==
    /\ client[c].pc = "submitting"
    /\ \E kind \in Kinds \ {"STOP"}, s \in 0..MaxSessions, ok \in PostOutcomes :
          /\ kind \in SessionKinds <=> s # 0
          /\ kind = "ENTER_RECORDING" =>
                Cardinality({i \in DOMAIN cmds : cmds[i].kind = kind}) < MaxSessions
          /\ Post(c, kind, s, ok)
    /\ UNCHANGED <<gate, lockstate, hook>>

\* stop() sets the gate, posts a FAIL_OPEN, and then submits STOP, which posts
\* a FAIL_OPEN of its own in between; that one finds nothing left to do and is
\* not modelled apart.
Stop(c) ==
    /\ client[c].pc = "idle"
    /\ Alive
    /\ MaySubmit
    /\ gate' = TRUE
    /\ Goto(c, "stopping")
    /\ UNCHANGED <<lockstate, hook, cmds, msgq>>

\* The command that _request_fail_open posts; a failure to post it is ignored.
\* Mutant: the gate is set and the hook thread is not told.
PostFailOpenForgotten(c, from, to) ==
    /\ client[c].pc = from
    /\ Goto(c, to)
    /\ UNCHANGED <<gate, lockstate, hook, cmds, msgq>>

PostFailOpen(c, from, to) ==
    /\ client[c].pc = from
    /\ \E ok \in PostOutcomes : msgq' = IF ok THEN Append(msgq, FailOpenMsg) ELSE msgq
    /\ Goto(c, to)
    /\ UNCHANGED <<gate, lockstate, hook, cmds>>

StopFailOpen(c) == PostFailOpen(c, "stopping", "stop_posting")

PostStop(c) ==
    /\ client[c].pc = "stop_posting"
    /\ \E ok \in PostOutcomes : Post(c, "STOP", 0, ok)
    /\ UNCHANGED <<gate, lockstate, hook>>

Receive(c) ==
    /\ client[c].pc = "waiting"
    /\ cmds[client[c].cmd].reply # "none"
    /\ Goto(c, "idle")
    /\ UNCHANGED <<gate, lockstate, hook, cmds, msgq>>

\* The wait times out: lifecycle.cancel() comes first, then the command
\* leaves the pending table.  STOP and a commit that has begun stay.
Timeout(c) ==
    LET id == client[c].cmd IN
    /\ client[c].pc = "waiting"
    /\ cmds[id].reply = "none"
    /\ cmds' = [cmds EXCEPT ![id].canceled =
                   ~(cmds[id].committed \/ (cmds[id].kind = "STOP" /\ ~cmds[id].pending))]
    /\ Goto(c, "canceling")
    /\ UNCHANGED <<gate, lockstate, hook, msgq>>

Withdraw(c) ==
    /\ client[c].pc = "canceling"
    /\ cmds' = [cmds EXCEPT ![client[c].cmd].pending = FALSE]
    /\ Goto(c, "raised")
    /\ UNCHANGED <<gate, lockstate, hook, msgq>>

\* _submit turns every HookTimeout and HookStopped into enter_fail_open().
EnterFailOpen(c) ==
    /\ client[c].pc = "raised"
    /\ gate' = TRUE
    /\ Goto(c, "posting")
    /\ UNCHANGED <<lockstate, hook, cmds, msgq>>

EnterFailOpenPost(c) == PostFailOpen(c, "posting", "idle")

ClientCleanup(c) ==
    \/ PostCommand(c) \/ StopFailOpen(c) \/ PostStop(c) \/ Receive(c)
    \/ Withdraw(c) \/ EnterFailOpen(c) \/ EnterFailOpenPost(c)

-----------------------------------------------------------------------------
(* Hook thread *)

At(pc) == hook.pc = pc

HookGoto(pc) == hook' = [hook EXCEPT !.pc = pc]

\* _reconcile_fail_open, with the snapshot and the event it publishes.
Reconcile ==
    /\ locked' = FALSE
    /\ session' = 0
    /\ snapshot' = FALSE
    /\ lastEvent' = IF locked THEN FALSE ELSE lastEvent
    /\ reconciled' = TRUE
    /\ UNCHANGED nextSession

Finish == IF hook.cmd = 0 THEN "idle" ELSE "reply"

\* The message loop takes a message.  A command whose client has withdrawn
\* it is gone from the pending table; one that is canceled does not begin.
Dispatch ==
    /\ At("idle") /\ msgq # <<>>
    /\ msgq' = Tail(msgq)
    /\ UNCHANGED <<gate, client>>
    /\ \/ /\ Head(msgq) = FailOpenMsg
          /\ Reconcile
          /\ UNCHANGED <<hook, cmds>>
       \/ /\ Head(msgq) # FailOpenMsg
          /\ LET id == Head(msgq) IN
             /\ cmds' = [cmds EXCEPT ![id].pending = FALSE]
             /\ hook' = IF ~cmds[id].pending THEN hook
                        ELSE [AtLoop EXCEPT
                                !.cmd = id,
                                !.pc = IF cmds[id].canceled THEN "reply"
                                       ELSE IF cmds[id].kind = "STOP" THEN "stop"
                                       ELSE "check"]
          /\ UNCHANGED lockstate

\* Mutants: a command runs whether or not the gate is set; a refused command
\* is not answered.
CheckGateSkipped ==
    /\ At("check")
    /\ HookGoto("commit")
    /\ UNCHANGED <<gate, lockstate, cmds, msgq, client>>
CheckGateUnanswered ==
    /\ At("check")
    /\ HookGoto(IF gate THEN "idle" ELSE "commit")
    /\ UNCHANGED <<gate, lockstate, cmds, msgq, client>>

\* _run_command and _commit_command refuse while the gate is set.
CheckGate ==
    /\ At("check")
    /\ HookGoto(IF gate THEN "reply" ELSE "commit")
    /\ UNCHANGED <<gate, lockstate, cmds, msgq, client>>

\* Mutant: the commit does not look whether the client has canceled.
CommitCanceled ==
    /\ At("commit")
    /\ HookGoto("op")
    /\ cmds' = [cmds EXCEPT ![hook.cmd].committed = TRUE]
    /\ UNCHANGED <<gate, lockstate, msgq, client>>

\* lifecycle.commit: from here on the client cannot cancel.
Commit ==
    /\ At("commit")
    /\ IF cmds[hook.cmd].canceled
       THEN HookGoto("reply") /\ UNCHANGED cmds
       ELSE HookGoto("op") /\ cmds' = [cmds EXCEPT ![hook.cmd].committed = TRUE]
    /\ UNCHANGED <<gate, lockstate, msgq, client>>

\* Mutant: locking leaves the recording session open.
SessionAfterLockOpen == session

\* _set_locked_command ends a recording first.
SessionAfterLock == 0

\* The committed operation, on the lock and on the recording session.
Operation(kind, s, accepted) ==
    \/ /\ kind \in {"LOCK", "UNLOCK", "TOGGLE"}
       /\ accepted
       /\ session' = SessionAfterLock
       /\ locked' = IF kind = "TOGGLE" THEN ~locked ELSE kind = "LOCK"
       /\ UNCHANGED nextSession
    \/ /\ kind = "REPLACE_SHORTCUT"
       /\ accepted <=> ~locked
       /\ session' = 0
       /\ UNCHANGED <<locked, nextSession>>
    \/ /\ kind = "ENTER_RECORDING"
       /\ accepted <=> session = 0 /\ ~locked
       /\ session' = IF accepted THEN nextSession ELSE session
       /\ nextSession' = IF accepted THEN nextSession + 1 ELSE nextSession
       /\ UNCHANGED locked
    \/ /\ kind = "EXIT_RECORDING"
       /\ accepted
       /\ session' = 0
       /\ UNCHANGED <<locked, nextSession>>
    \/ /\ kind \in SessionKinds
       \* FINISH of an overflowed channel ends the session and is refused
       /\ accepted => s = session
       /\ ~accepted /\ s = session => kind = "FINISH_RECORDING"
       /\ session' = IF s = session THEN 0 ELSE session
       /\ UNCHANGED <<locked, nextSession>>

\* Mutant: only locking counts as a transition.
TransitionChangedLocking == locked' /\ ~locked

TransitionChanged == locked' # locked

Operate ==
    /\ At("op") /\ hook.cmd # 0
    /\ \E accepted \in BOOLEAN :
          /\ Operation(cmds[hook.cmd].kind, cmds[hook.cmd].session, accepted)
          /\ hook' = [hook EXCEPT !.pc = "post", !.accepted = accepted,
                                  !.changed = TransitionChanged]
    /\ cmds' = [cmds EXCEPT ![hook.cmd].applied = TRUE]
    /\ UNCHANGED <<gate, snapshot, lastEvent, reconciled, msgq, client>>

\* Mutant: the reply goes out and nothing is published.
PostCheckUnpublished ==
    /\ At("post")
    /\ IF gate
       THEN /\ Reconcile
            /\ hook' = [hook EXCEPT !.pc = "reply", !.accepted = FALSE]
       ELSE /\ HookGoto("reply")
            /\ UNCHANGED lockstate
    /\ UNCHANGED <<gate, cmds, msgq, client>>

\* The gate was set while the operation ran: undo and refuse.
PostCheck ==
    /\ At("post")
    /\ IF gate
       THEN /\ Reconcile
            /\ hook' = [hook EXCEPT !.pc = "reply", !.accepted = FALSE]
       ELSE /\ HookGoto("snap")
            /\ UNCHANGED lockstate
    /\ UNCHANGED <<gate, cmds, msgq, client>>

\* _publish_snapshot reads the gate, then assigns.
ReadSnapshot ==
    /\ At("snap")
    /\ hook' = [hook EXCEPT !.pc = "write", !.snap = (locked /\ ~gate)]
    /\ UNCHANGED <<gate, lockstate, cmds, msgq, client>>

WriteSnapshot ==
    /\ At("write")
    /\ snapshot' = hook.snap
    /\ HookGoto(IF hook.changed THEN "event" ELSE Finish)
    /\ UNCHANGED <<gate, locked, session, nextSession, lastEvent, reconciled,
                   cmds, msgq, client>>

\* A "locked" event is dropped if the gate is set when it is tested, ...
CheckEvent ==
    /\ At("event")
    /\ HookGoto(IF locked /\ gate THEN Finish ELSE "put")
    /\ UNCHANGED <<gate, lockstate, cmds, msgq, client>>

\* ... and goes out if the gate is set only after the test.
PutEvent ==
    /\ At("put")
    /\ lastEvent' = locked
    /\ HookGoto(Finish)
    /\ UNCHANGED <<gate, locked, session, nextSession, snapshot, reconciled,
                   cmds, msgq, client>>

Reply ==
    /\ At("reply")
    /\ cmds' = [cmds EXCEPT ![hook.cmd].reply =
                   IF hook.accepted THEN "accepted" ELSE "rejected"]
    /\ hook' = [AtLoop EXCEPT !.pc = IF hook.stopping THEN "finally" ELSE "idle"]
    /\ UNCHANGED <<gate, lockstate, msgq, client>>

\* The STOP branch of _run_command; unhooking succeeds or not.
RunStop ==
    /\ At("stop")
    /\ gate' = TRUE
    /\ Reconcile
    /\ \E unhooked \in BOOLEAN :
          hook' = [hook EXCEPT !.pc = "reply", !.accepted = unhooked,
                                  !.stopping = TRUE]
    /\ UNCHANGED <<cmds, msgq, client>>

\* A key event reaches the callback with the gate unset; handle() runs after
\* the test.  What it can do to the lock: nothing, a toggle unless a session
\* is recording, or the emergency unlock.
KeyEvent ==
    /\ At("idle") /\ ~gate
    /\ hook' = [AtLoop EXCEPT !.pc = "op"]
    /\ UNCHANGED <<gate, lockstate, cmds, msgq, client>>

HandleKey ==
    /\ At("op") /\ hook.cmd = 0
    /\ locked' \in {locked, FALSE} \cup (IF session = 0 THEN {~locked} ELSE {})
    /\ hook' = [hook EXCEPT !.pc = "snap", !.changed = TransitionChanged]
    /\ UNCHANGED <<gate, session, nextSession, snapshot, lastEvent, reconciled,
                   cmds, msgq, client>>

\* An exception in the callback or in a committed operation fails open.
Raise ==
    /\ At("op")
    /\ gate' = TRUE
    /\ Reconcile
    /\ HookGoto(Finish)
    /\ UNCHANGED <<cmds, msgq, client>>

\* GetMessage fails, or a quit message ends the loop.
LoopEnds ==
    /\ At("idle")
    /\ gate' = TRUE
    /\ Reconcile
    /\ HookGoto("finally")
    /\ UNCHANGED <<cmds, msgq, client>>

\* The finally clause of _run, up to the rejection of what is pending.
Finally ==
    /\ At("finally")
    /\ gate' = TRUE
    /\ Reconcile
    /\ HookGoto("reject")
    /\ UNCHANGED <<cmds, msgq, client>>

\* Mutant: the table is left as it is.
RejectPendingNone ==
    /\ At("reject")
    /\ HookGoto("exiting")
    /\ UNCHANGED <<gate, lockstate, cmds, msgq, client>>

RejectPending ==
    /\ At("reject")
    /\ cmds' = [i \in DOMAIN cmds |->
                  IF cmds[i].pending
                  THEN [cmds[i] EXCEPT !.pending = FALSE, !.reply = "rejected"]
                  ELSE cmds[i]]
    /\ HookGoto("exiting")
    /\ UNCHANGED <<gate, lockstate, msgq, client>>

\* Until the thread is gone a client can still post to it.
Exit ==
    /\ At("exiting")
    /\ HookGoto("dead")
    /\ UNCHANGED <<gate, lockstate, cmds, msgq, client>>

HookStep ==
    \/ Dispatch \/ CheckGate \/ Commit
    \/ Operate \/ HandleKey \/ Raise
    \/ PostCheck \/ ReadSnapshot \/ WriteSnapshot \/ CheckEvent \/ PutEvent
    \/ Reply \/ RunStop \/ Finally \/ RejectPending \/ Exit

-----------------------------------------------------------------------------
Next ==
    \/ \E c \in Client :
          \/ Submit(c)
          \/ Stop(c)
          \/ Timeout(c)
          \/ ClientCleanup(c)
    \/ KeyEvent
    \/ LoopEnds
    \/ HookStep

\* The hook thread keeps running its own code and takes posted messages even
\* if key events keep coming (they are far apart for the processor), and a
\* client that is not waiting keeps running.  Timeouts, key events and the end
\* of the loop need not happen.
Fairness ==
    /\ WF_vars(HookStep) /\ SF_vars(Dispatch)
    /\ \A c \in Client : WF_vars(ClientCleanup(c))

Spec == Init /\ [][Next]_vars

FairSpec == Spec /\ Fairness

-----------------------------------------------------------------------------
(* Properties *)

\* The kinds of value of the shared state and of each thread's locals; every id
\* that is under way names a command.
TypeOK ==
    /\ gate \in BOOLEAN /\ locked \in BOOLEAN
    /\ session \in Nat /\ nextSession \in Nat \ {0}
    /\ snapshot \in BOOLEAN /\ lastEvent \in BOOLEAN /\ reconciled \in BOOLEAN
    /\ hook \in Hook
    /\ cmds \in Seq(Command)
    /\ msgq \in Seq(Id)
    /\ client \in [Client -> [pc : ClientPc, cmd : Id]]

\* Between two messages, what the hook thread has published is the lock: no
\* path that changes it forgets the snapshot or the event.
PublishedIsTrue ==
    At("idle") /\ ~gate => snapshot = locked /\ lastEvent = locked

\* Once the hook thread has reconciled a fail-open, Cat Mode never returns and
\* no recording session is open, whatever commands and keys are in flight.
ReconciledIsFinal == reconciled => gate /\ ~locked /\ session = 0 /\ ~snapshot

\* A command canceled by its client before it commits never takes effect.
CanceledHasNoEffect == \A i \in DOMAIN cmds : ~(cmds[i].canceled /\ cmds[i].applied)

\* A recording session and Cat Mode exclude each other across commands, key
\* events and failures.
SessionOnlyUnlocked == session # 0 => ~locked

\* A thread that has ended has answered every command that was posted before
\* it stopped taking them, and has reconciled.
EndedHasAnswered ==
    At("dead") => gate /\ reconciled
                  /\ \A i \in DOMAIN cmds : cmds[i].pending => cmds[i].late

\* The types and the three facts above, as one invariant.
ProtocolInv == TypeOK /\ CanceledHasNoEffect /\ SessionOnlyUnlocked /\ EndedHasAnswered

\* When a lock or unlock command is acknowledged, its effect has already been
\* published, so that a caller who reads the state after the call sees it.
AckAfterPublish ==
    [][\A i \in DOMAIN cmds :
          /\ cmds[i].reply = "none" /\ cmds'[i].reply = "accepted"
          /\ cmds[i].kind \in {"LOCK", "UNLOCK"}
          /\ ~gate
          => /\ snapshot = (cmds[i].kind = "LOCK")
             /\ lastEvent = (cmds[i].kind = "LOCK")]_vars

\* A fail-open requested by any thread is eventually reconciled by the hook
\* thread, which releases the lock.
FailOpenReconciles == gate ~> reconciled /\ ~locked

\* A submitted command is answered without the help of its timeout, unless the
\* hook thread was already past rejecting what is pending.
Answered ==
    \A c \in Client :
        client[c].pc = "waiting" /\ ~cmds[client[c].cmd].late
            ~> client[c].pc # "waiting"
=============================================================================
