------------------------- MODULE KeyboardHookProofs -------------------------
(***************************************************************************)
(* The command protocol around the fail-open gate, for any number of       *)
(* clients, commands and recording sessions.                               *)
(*                                                                         *)
(* The proof follows the hook thread through one message: what it has      *)
(* tested, what it has done and what it has published by then.  All that   *)
(* the other threads can do in between is to add a command, cancel one     *)
(* that has not been committed, and set the gate, which nobody unsets.     *)
(***************************************************************************)
EXTENDS KeyboardHook, SequenceTheorems, TLAPS

\* Where the hook thread may be with a lock that is not to be undone.
Acting == {"commit", "op", "post", "snap", "write", "event", "put"}
Ending == {"finally", "reject", "exiting", "dead"}

\* The gate is what keeps a reconciled lock from coming back.
GateHolds ==
    /\ ReconciledIsFinal
    /\ reconciled => hook.pc \notin Acting
    /\ hook.pc \in Ending \/ hook.stopping => gate
    /\ hook.pc \in Ending \ {"finally"} => reconciled

\* Whoever announces a fail-open has set the gate.
AnnouncedIsSet ==
    /\ \A c \in Client : client[c].pc \in {"stopping", "posting"} => gate
    /\ \A j \in DOMAIN msgq : msgq[j] = FailOpenMsg => gate

\* How far the publication of a change has come.
Publishing ==
    ~gate =>
        /\ hook.pc \in {"idle", "check", "commit", "op", "stop", "reply"}
              => snapshot = locked /\ lastEvent = locked
        /\ hook.pc \in {"post", "snap", "write"}
              => lastEvent = snapshot /\ (hook.changed <=> locked # snapshot)
        /\ hook.pc = "write" => hook.snap = locked
        /\ hook.pc \in {"event", "put"} => snapshot = locked

\* A command is canceled or committed, never both, and runs after its commit.
CommandLife ==
    /\ hook.pc \in {"check", "commit", "post", "reply", "stop"} => hook.cmd # 0
    /\ hook.pc = "op" /\ hook.cmd # 0 => cmds[hook.cmd].committed
    /\ \A i \in DOMAIN cmds :
          /\ ~(cmds[i].canceled /\ cmds[i].committed)
          /\ cmds[i].applied => cmds[i].committed

\* Nothing is left in the table once it has been emptied, but for late posts.
TableIsEmptied ==
    hook.pc \in {"exiting", "dead"} => \A i \in DOMAIN cmds : cmds[i].pending => cmds[i].late

\* What a lock or unlock command has done is there until it is acknowledged.
Done ==
    \/ hook.pc \in {"post", "snap", "write", "event", "put"}
    \/ hook.pc = "reply" /\ hook.accepted

EffectIsThere ==
    /\ hook.pc \in {"check", "commit"} => ~hook.accepted
    /\ ~gate /\ hook.cmd # 0 /\ Done /\ cmds[hook.cmd].kind \in {"LOCK", "UNLOCK"}
          => (locked <=> cmds[hook.cmd].kind = "LOCK")

IInv == /\ TypeOK /\ GateHolds /\ AnnouncedIsSet /\ Publishing /\ SessionOnlyUnlocked
        /\ CommandLife /\ TableIsEmptied /\ EffectIsThere

-----------------------------------------------------------------------------
LEMMA InitIInv == ASSUME Init PROVE IInv
<1>1. /\ cmds = <<>> /\ msgq = <<>> /\ hook = AtLoop
      /\ gate = FALSE /\ reconciled = FALSE /\ session = 0 /\ nextSession = 1
      /\ snapshot = FALSE /\ locked = FALSE /\ lastEvent = FALSE
      /\ client = [c \in Client |-> [pc |-> "idle", cmd |-> 0]]
  BY DEF Init
<1>2. /\ DOMAIN cmds = {} /\ Len(cmds) = 0
      /\ cmds \in Seq(Command) /\ msgq \in Seq(Id)
  BY <1>1
<1>3. /\ hook.pc = "idle" /\ hook.cmd = 0 /\ hook.accepted = FALSE
      /\ hook.changed = FALSE /\ hook.stopping = FALSE
  BY <1>1 DEF AtLoop
<1>4. TypeOK
  <2>1. 0 \in Id
    BY <1>2 DEF Id
  <2>2. hook \in Hook
    BY <1>1, <2>1 DEF AtLoop, Hook, HookPc
  <2>3. client \in [Client -> [pc : ClientPc, cmd : Id]]
    BY <1>1, <2>1 DEF ClientPc
  <2>4. /\ gate \in BOOLEAN /\ locked \in BOOLEAN
        /\ snapshot \in BOOLEAN /\ lastEvent \in BOOLEAN /\ reconciled \in BOOLEAN
    BY <1>1
  <2>5. session \in Nat /\ nextSession \in Nat \ {0}
    BY <1>1
  <2>6. QED
    BY <1>2, <2>2, <2>3, <2>4, <2>5 DEF TypeOK
<1>5. GateHolds /\ Publishing /\ SessionOnlyUnlocked
  BY <1>1, <1>3 DEF GateHolds, Publishing, SessionOnlyUnlocked, ReconciledIsFinal,
                    Acting, Ending
<1>6. AnnouncedIsSet
  <2>1. \A c \in Client : client[c].pc = "idle"
    BY <1>1
  <2>2. DOMAIN msgq = {}
    BY <1>1
  <2>3. QED
    BY <2>1, <2>2 DEF AnnouncedIsSet
<1>7. CommandLife /\ TableIsEmptied /\ EffectIsThere
  BY <1>2, <1>3 DEF CommandLife, TableIsEmptied, EffectIsThere, Done
<1>8. QED
  BY <1>4, <1>5, <1>6, <1>7 DEF IInv

-----------------------------------------------------------------------------
(* Types *)

LEMMA CommandUpdated ==
    ASSUME NEW s \in Seq(Command), NEW id, NEW r, id \in DOMAIN s => r \in Command
    PROVE  /\ [s EXCEPT ![id] = r] \in Seq(Command)
           /\ Len([s EXCEPT ![id] = r]) = Len(s)
<1>1. CASE id \in DOMAIN s
  BY <1>1, ExceptSeq
<1>2. CASE id \notin DOMAIN s
  <2>1. [s EXCEPT ![id] = r] = s
    BY <1>2
  <2>2. QED
    BY <2>1
<1>3. QED
  BY <1>1, <1>2

LEMMA CommandFields ==
    ASSUME NEW r \in Command, NEW b \in BOOLEAN, NEW v \in {"none", "accepted", "rejected"}
    PROVE  /\ [r EXCEPT !.pending = b] \in Command /\ [r EXCEPT !.canceled = b] \in Command
           /\ [r EXCEPT !.committed = b] \in Command /\ [r EXCEPT !.applied = b] \in Command
           /\ [r EXCEPT !.reply = v] \in Command
           /\ [r EXCEPT !.pending = b, !.reply = v] \in Command
BY DEF Command

\* A step that changes the hook thread alone, or its place and its notes.
LEMMA HookFields ==
    ASSUME hook \in Hook, NEW pc \in HookPc, NEW a \in BOOLEAN, NEW b \in BOOLEAN
    PROVE  /\ [hook EXCEPT !.pc = pc] \in Hook
           /\ [hook EXCEPT !.pc = pc, !.accepted = a] \in Hook
           /\ [hook EXCEPT !.pc = pc, !.snap = a] \in Hook
           /\ [hook EXCEPT !.pc = pc, !.changed = a] \in Hook
           /\ [hook EXCEPT !.pc = pc, !.accepted = a, !.changed = b] \in Hook
           /\ [hook EXCEPT !.pc = pc, !.accepted = a, !.stopping = b] \in Hook
BY DEF Hook

LEMMA LoopHook ==
    ASSUME TypeOK, NEW pc \in HookPc, NEW id \in Id
    PROVE  /\ [AtLoop EXCEPT !.pc = pc] \in Hook
           /\ [AtLoop EXCEPT !.cmd = id, !.pc = pc] \in Hook
<1>1. 0 \in Id
  BY DEF TypeOK, Id
<1>2. QED
  BY <1>1 DEF AtLoop, Hook

LEMMA ClientMoves ==
    ASSUME TypeOK, NEW c \in Client, NEW pc \in ClientPc
    PROVE  [client EXCEPT ![c].pc = pc] \in [Client -> [pc : ClientPc, cmd : Id]]
BY DEF TypeOK

LEMMA Posted ==
    ASSUME TypeOK, NEW c \in Client, NEW kind \in Kinds, NEW s \in Nat, NEW ok \in BOOLEAN,
           Post(c, kind, s, ok), UNCHANGED <<gate, lockstate, hook>>
    PROVE  TypeOK'
<1> DEFINE r == [NewCommand(kind, s) EXCEPT !.pending = ok]
<1>1. r \in Command
  BY DEF NewCommand, Command
<1>2. cmds \in Seq(Command) /\ cmds' = Append(cmds, r)
  BY DEF TypeOK, Post
<1>3. cmds' \in Seq(Command) /\ Len(cmds') = Len(cmds) + 1
  BY <1>1, <1>2
<1>4. Id \subseteq Id' /\ Len(cmds) + 1 \in Id'
  BY <1>2, <1>3 DEF Id
<1>5. hook' \in Hook'
  BY <1>4 DEF TypeOK, Hook
<1>6. msgq' \in Seq(Id')
  <2>1. msgq \in Seq(Id')
    BY <1>4 DEF TypeOK
  <2>2. Append(msgq, Len(cmds) + 1) \in Seq(Id')
    BY <2>1, <1>4, AppendProperties
  <2>3. msgq' \in {msgq, Append(msgq, Len(cmds) + 1)}
    BY DEF Post
  <2>4. QED
    BY <2>1, <2>2, <2>3
<1>7. client' \in [Client -> [pc : ClientPc, cmd : Id']]
  <2>1. client \in [Client -> [pc : ClientPc, cmd : Id']]
    BY <1>4 DEF TypeOK
  <2>2. [pc |-> "waiting", cmd |-> Len(cmds) + 1] \in [pc : ClientPc, cmd : Id']
    BY <1>4 DEF ClientPc
  <2>3. [pc |-> "raised", cmd |-> Len(cmds) + 1] \in [pc : ClientPc, cmd : Id']
    BY <1>4 DEF ClientPc
  <2>4. QED
    BY <2>1, <2>2, <2>3 DEF Post
<1>8. QED
  BY <1>3, <1>5, <1>6, <1>7 DEF TypeOK, lockstate

\* Where no command is created, the types are those of each variable that moves.
LEMMA TypesFrom ==
    ASSUME TypeOK, cmds' \in Seq(Command), Len(cmds') = Len(cmds),
           gate' \in BOOLEAN, locked' \in BOOLEAN, session' \in Nat, nextSession' \in Nat \ {0},
           snapshot' \in BOOLEAN, lastEvent' \in BOOLEAN, reconciled' \in BOOLEAN,
           hook' \in Hook, msgq' \in Seq(Id),
           client' \in [Client -> [pc : ClientPc, cmd : Id]]
    PROVE  TypeOK'
<1>1. Id' = Id
  BY DEF Id
<1>2. hook' \in Hook'
  BY <1>1 DEF Hook
<1>3. QED
  BY <1>1, <1>2 DEF TypeOK

LEMMA ClientTypes ==
    ASSUME TypeOK, NEW c \in Client,
           Submit(c) \/ Stop(c) \/ Timeout(c) \/ ClientCleanup(c)
    PROVE  TypeOK'
<1> USE TypeOK
<1>1. ASSUME NEW pc \in ClientPc, Goto(c, pc), gate' \in BOOLEAN,
             cmds' \in Seq(Command), Len(cmds') = Len(cmds), msgq' \in Seq(Id),
             UNCHANGED <<lockstate, hook>>
      PROVE  TypeOK'
  <2>1. client' \in [Client -> [pc : ClientPc, cmd : Id]]
    BY <1>1, ClientMoves DEF Goto
  <2>2. QED
    BY <1>1, <2>1, TypesFrom DEF TypeOK, lockstate
<1>2. CASE Submit(c)
  <2>1. PICK pc \in {"submitting", "raised"} : Goto(c, pc)
    BY <1>2 DEF Submit
  <2>2. QED
    BY <1>1, <1>2, <2>1 DEF Submit, ClientPc, TypeOK
<1>3. CASE Stop(c)
  BY <1>1, <1>3 DEF Stop, ClientPc, TypeOK
<1>4. ASSUME NEW b \in BOOLEAN, NEW id \in Nat PROVE
        /\ [cmds EXCEPT ![id].canceled = b] \in Seq(Command)
        /\ Len([cmds EXCEPT ![id].canceled = b]) = Len(cmds)
        /\ [cmds EXCEPT ![id].pending = b] \in Seq(Command)
        /\ Len([cmds EXCEPT ![id].pending = b]) = Len(cmds)
  <2>1. id \in DOMAIN cmds => cmds[id] \in Command
    BY DEF TypeOK
  <2>2. id \in DOMAIN cmds => [cmds[id] EXCEPT !.canceled = b] \in Command
    BY <2>1, CommandFields
  <2>3. id \in DOMAIN cmds => [cmds[id] EXCEPT !.pending = b] \in Command
    BY <2>1, CommandFields
  <2>4. QED
    BY <2>2, <2>3, CommandUpdated DEF TypeOK
<1>5. client[c].cmd \in Nat
  BY DEF TypeOK, Id
<1>6. CASE Timeout(c)
  <2> DEFINE id == client[c].cmd
             b == ~(cmds[id].committed \/ (cmds[id].kind = "STOP" /\ ~cmds[id].pending))
  <2>1. b \in BOOLEAN /\ cmds' = [cmds EXCEPT ![id].canceled = b]
    BY <1>6 DEF Timeout
  <2>2. cmds' \in Seq(Command) /\ Len(cmds') = Len(cmds)
    BY <1>4, <1>5, <2>1
  <2>3. QED
    BY <1>1, <1>6, <2>2 DEF Timeout, ClientPc, TypeOK
<1>7. CASE Withdraw(c)
  <2>1. cmds' \in Seq(Command) /\ Len(cmds') = Len(cmds)
    BY <1>4, <1>5, <1>7 DEF Withdraw
  <2>2. QED
    BY <1>1, <1>7, <2>1 DEF Withdraw, ClientPc, TypeOK
<1>8. CASE Receive(c)
  BY <1>1, <1>8 DEF Receive, ClientPc, TypeOK
<1>9. CASE EnterFailOpen(c)
  BY <1>1, <1>9 DEF EnterFailOpen, ClientPc, TypeOK
<1>10. ASSUME NEW from, NEW to \in ClientPc, PostFailOpen(c, from, to) PROVE TypeOK'
  <2>1. Append(msgq, FailOpenMsg) \in Seq(Id)
    <3>1. FailOpenMsg \in Id
      BY DEF FailOpenMsg, Id, TypeOK
    <3>2. QED
      BY <3>1, AppendProperties DEF TypeOK
  <2>2. msgq' \in {msgq, Append(msgq, FailOpenMsg)}
    BY <1>10 DEF PostFailOpen
  <2>3. QED
    BY <1>1, <1>10, <2>1, <2>2 DEF PostFailOpen, TypeOK
<1>11. CASE StopFailOpen(c)
  BY <1>10, <1>11 DEF StopFailOpen, ClientPc
<1>12. CASE EnterFailOpenPost(c)
  BY <1>10, <1>12 DEF EnterFailOpenPost, ClientPc
<1>13. PostOutcomes \subseteq BOOLEAN
  BY DEF PostOutcomes
<1>14. CASE PostCommand(c)
  <2>1. PICK kind \in Kinds, s \in Nat, ok \in BOOLEAN : Post(c, kind, s, ok)
    BY <1>13, <1>14, HookAssumption DEF PostCommand
  <2>2. QED
    BY <1>14, <2>1, Posted DEF PostCommand
<1>15. CASE PostStop(c)
  <2>1. PICK ok \in BOOLEAN : Post(c, "STOP", 0, ok)
    BY <1>13, <1>15 DEF PostStop
  <2>2. QED
    BY <1>15, <2>1, Posted DEF PostStop, Kinds
<1>16. QED
  BY <1>2, <1>3, <1>6, <1>7, <1>8, <1>9, <1>11, <1>12, <1>14, <1>15 DEF ClientCleanup

LEMMA ReconcileTypes ==
    ASSUME TypeOK, Reconcile
    PROVE  /\ locked' \in BOOLEAN /\ session' \in Nat /\ nextSession' \in Nat \ {0}
           /\ snapshot' \in BOOLEAN /\ lastEvent' \in BOOLEAN /\ reconciled' \in BOOLEAN
<1>1. session' \in Nat /\ nextSession' \in Nat \ {0}
  BY DEF TypeOK, Reconcile
<1>2. locked' = FALSE /\ snapshot' = FALSE /\ reconciled' = TRUE
      /\ lastEvent' \in {FALSE, lastEvent}
  BY DEF Reconcile
<1>3. lastEvent \in BOOLEAN
  BY DEF TypeOK
<1>4. QED
  BY <1>1, <1>2, <1>3

LEMMA OperationTypes ==
    ASSUME TypeOK, NEW kind \in Kinds, NEW s \in Nat, NEW accepted \in BOOLEAN,
           Operation(kind, s, accepted)
    PROVE  locked' \in BOOLEAN /\ session' \in Nat /\ nextSession' \in Nat \ {0}
<1>1. session \in Nat /\ nextSession \in Nat \ {0} /\ locked \in BOOLEAN
  BY DEF TypeOK
<1>2. session' \in {0, session, nextSession} /\ nextSession' \in {nextSession, nextSession + 1}
  BY DEF Operation, SessionAfterLock
<1>3. locked' = locked \/ locked' = ~locked \/ locked' = (kind = "LOCK")
  BY DEF Operation
<1>4. locked' \in BOOLEAN
  BY <1>3, <1>1
<1>5. QED
  BY <1>1, <1>2, <1>4

LEMMA HookTypes ==
    ASSUME TypeOK, HookStep \/ KeyEvent \/ LoopEnds
    PROVE  TypeOK'
<1> USE TypeOK
<1>1. /\ Finish \in HookPc /\ hook \in Hook /\ hook.cmd \in Id /\ hook.cmd \in Nat
      /\ hook.accepted \in BOOLEAN /\ hook.changed \in BOOLEAN /\ hook.snap \in BOOLEAN
  BY DEF Finish, HookPc, TypeOK, Hook, Id
<1>2. ASSUME hook' \in Hook, UNCHANGED <<lockstate, client>>, gate' \in BOOLEAN,
             cmds' \in Seq(Command), Len(cmds') = Len(cmds), msgq' \in Seq(Id)
      PROVE  TypeOK'
  BY <1>2, TypesFrom DEF TypeOK, lockstate
<1>3. ASSUME hook' \in Hook, Reconcile, gate' \in BOOLEAN, UNCHANGED <<cmds, client>>,
             msgq' \in Seq(Id)
      PROVE  TypeOK'
  BY <1>3, ReconcileTypes, TypesFrom DEF TypeOK
<1>4. ASSUME NEW id \in Nat, NEW b \in BOOLEAN, NEW v \in {"none", "accepted", "rejected"} PROVE
        /\ [cmds EXCEPT ![id].pending = b] \in Seq(Command)
        /\ Len([cmds EXCEPT ![id].pending = b]) = Len(cmds)
        /\ [cmds EXCEPT ![id].committed = b] \in Seq(Command)
        /\ Len([cmds EXCEPT ![id].committed = b]) = Len(cmds)
        /\ [cmds EXCEPT ![id].applied = b] \in Seq(Command)
        /\ Len([cmds EXCEPT ![id].applied = b]) = Len(cmds)
        /\ [cmds EXCEPT ![id].reply = v] \in Seq(Command)
        /\ Len([cmds EXCEPT ![id].reply = v]) = Len(cmds)
  <2> DEFINE r == cmds[id]
  <2>1. id \in DOMAIN cmds => r \in Command
    BY DEF TypeOK
  <2>2. id \in DOMAIN cmds =>
          /\ [r EXCEPT !.pending = b] \in Command /\ [r EXCEPT !.committed = b] \in Command
          /\ [r EXCEPT !.applied = b] \in Command /\ [r EXCEPT !.reply = v] \in Command
    BY <2>1, CommandFields
  <2>3. QED
    BY <2>2, CommandUpdated DEF TypeOK
<1>5. CASE Dispatch
  <2>1. Head(msgq) \in Id /\ Tail(msgq) \in Seq(Id)
    BY <1>5, HeadTailProperties DEF Dispatch, TypeOK
  <2>2. CASE Head(msgq) = FailOpenMsg
    BY <1>3, <1>5, <2>1, <2>2 DEF Dispatch, TypeOK
  <2>3. CASE Head(msgq) # FailOpenMsg
    <3>1. Head(msgq) \in Nat
      BY <2>1 DEF Id
    <3>2. cmds' \in Seq(Command) /\ Len(cmds') = Len(cmds)
      <4>1. cmds' = [cmds EXCEPT ![Head(msgq)].pending = FALSE]
        BY <1>5, <2>3 DEF Dispatch
      <4>2. QED
        BY <1>4, <3>1, <4>1
    <3>3. hook' \in Hook
      BY <1>1, <1>5, <2>1, <2>3, LoopHook DEF Dispatch, HookPc
    <3>4. QED
      BY <1>2, <1>5, <2>1, <2>3, <3>2, <3>3 DEF Dispatch, TypeOK
  <2>4. QED
    BY <2>2, <2>3
<1>6. ASSUME NEW pc \in HookPc, HookGoto(pc) PROVE hook' \in Hook
  BY <1>6, <1>1, HookFields DEF HookGoto
<1>7. CASE CheckGate
  BY <1>2, <1>6, <1>7 DEF CheckGate, HookPc, TypeOK
<1>8. CASE Commit
  <2>1. cmds' \in Seq(Command) /\ Len(cmds') = Len(cmds)
    <3>1. cmds' = cmds \/ cmds' = [cmds EXCEPT ![hook.cmd].committed = TRUE]
      BY <1>8 DEF Commit
    <3>2. cmds \in Seq(Command)
      BY DEF TypeOK
    <3>3. QED
      BY <1>1, <1>4, <3>1, <3>2
  <2>2. QED
    BY <1>2, <1>6, <1>8, <2>1 DEF Commit, HookPc, TypeOK
<1>9. CASE Operate
  <2>1. hook.cmd \in DOMAIN cmds
    BY <1>1, <1>9 DEF Operate, Id, TypeOK
  <2>2. cmds[hook.cmd].kind \in Kinds /\ cmds[hook.cmd].session \in Nat
    <3>1. cmds[hook.cmd] \in Command
      BY <2>1 DEF TypeOK
    <3>2. QED
      BY <3>1 DEF Command
  <2>3. PICK accepted \in BOOLEAN :
          /\ Operation(cmds[hook.cmd].kind, cmds[hook.cmd].session, accepted)
          /\ hook' = [hook EXCEPT !.pc = "post", !.accepted = accepted,
                                  !.changed = TransitionChanged]
    BY <1>9 DEF Operate
  <2>4. locked' \in BOOLEAN /\ session' \in Nat /\ nextSession' \in Nat \ {0}
    BY <2>2, <2>3, OperationTypes
  <2>5. hook' \in Hook
    BY <1>1, <2>3, HookFields DEF TransitionChanged, HookPc
  <2>6. cmds' \in Seq(Command) /\ Len(cmds') = Len(cmds)
    BY <1>1, <1>4, <1>9 DEF Operate
  <2>7. QED
    BY <1>9, <2>4, <2>5, <2>6, TypesFrom DEF Operate, TypeOK
<1>10. CASE HandleKey
  <2>1. locked' \in BOOLEAN
    BY <1>10 DEF HandleKey, TypeOK
  <2>2. hook' \in Hook
    BY <1>1, <1>10, HookFields DEF HandleKey, TransitionChanged, HookPc
  <2>3. QED
    BY <1>10, <2>1, <2>2, TypesFrom DEF HandleKey, TypeOK
<1>11. CASE Raise
  BY <1>1, <1>3, <1>6, <1>11 DEF Raise, TypeOK
<1>12. CASE PostCheck
  <2>1. CASE gate
    <3>1. hook' \in Hook
      BY <1>1, <1>12, <2>1, HookFields DEF PostCheck, HookPc
    <3>2. QED
      BY <1>3, <1>12, <2>1, <3>1 DEF PostCheck, TypeOK
  <2>2. CASE ~gate
    BY <1>2, <1>6, <1>12, <2>2 DEF PostCheck, HookPc, TypeOK
  <2>3. QED
    BY <2>1, <2>2
<1>13. CASE ReadSnapshot
  <2>1. hook' \in Hook
    BY <1>1, <1>13, HookFields DEF ReadSnapshot, HookPc
  <2>2. QED
    BY <1>2, <1>13, <2>1 DEF ReadSnapshot, TypeOK
<1>14. CASE WriteSnapshot
  <2>1. hook' \in Hook
    BY <1>1, <1>6, <1>14 DEF WriteSnapshot, HookPc
  <2>2. QED
    BY <1>1, <1>14, <2>1, TypesFrom DEF WriteSnapshot, TypeOK
<1>15. CASE CheckEvent
  BY <1>1, <1>2, <1>6, <1>15 DEF CheckEvent, HookPc, TypeOK
<1>16. CASE PutEvent
  <2>1. hook' \in Hook
    BY <1>1, <1>6, <1>16 DEF PutEvent
  <2>2. QED
    BY <1>16, <2>1, TypesFrom DEF PutEvent, TypeOK
<1>17. CASE Reply
  <2>1. cmds' \in Seq(Command) /\ Len(cmds') = Len(cmds)
    BY <1>1, <1>4, <1>17 DEF Reply
  <2>2. hook' \in Hook
    BY <1>1, <1>17, LoopHook DEF Reply, HookPc
  <2>3. QED
    BY <1>2, <1>17, <2>1, <2>2 DEF Reply, TypeOK
<1>18. CASE RunStop
  <2>1. hook' \in Hook
    BY <1>1, <1>18, HookFields DEF RunStop, HookPc
  <2>2. QED
    BY <1>3, <1>18, <2>1 DEF RunStop, TypeOK
<1>19. CASE Finally
  BY <1>3, <1>6, <1>19 DEF Finally, HookPc, TypeOK
<1>20. CASE RejectPending
  <2>1. ASSUME NEW i \in DOMAIN cmds PROVE cmds'[i] \in Command
    <3>1. cmds[i] \in Command
      BY DEF TypeOK
    <3>2. [cmds[i] EXCEPT !.pending = FALSE, !.reply = "rejected"] \in Command
      BY <3>1, CommandFields
    <3>3. QED
      BY <1>20, <3>1, <3>2 DEF RejectPending
  <2>2. cmds' \in [1..Len(cmds) -> Command] /\ Len(cmds) \in Nat
    <3>1. DOMAIN cmds = 1..Len(cmds) /\ Len(cmds) \in Nat
      BY DEF TypeOK
    <3>2. cmds' = [i \in DOMAIN cmds |-> cmds'[i]]
      BY <1>20 DEF RejectPending
    <3>3. QED
      BY <2>1, <3>1, <3>2
  <2>3. cmds' \in Seq(Command) /\ Len(cmds') = Len(cmds)
    BY <2>2, IsASeq, LenProperties
  <2>4. QED
    BY <1>2, <1>6, <1>20, <2>3 DEF RejectPending, HookPc, TypeOK
<1>21. CASE Exit
  BY <1>2, <1>6, <1>21 DEF Exit, HookPc, TypeOK
<1>22. CASE KeyEvent
  <2>1. hook' \in Hook
    BY <1>1, <1>22, LoopHook DEF KeyEvent, HookPc
  <2>2. QED
    BY <1>2, <1>22, <2>1 DEF KeyEvent, TypeOK
<1>23. CASE LoopEnds
  BY <1>3, <1>6, <1>23 DEF LoopEnds, HookPc, TypeOK
<1>24. QED
  BY <1>5, <1>7, <1>8, <1>9, <1>10, <1>11, <1>12, <1>13, <1>14, <1>15, <1>16, <1>17,
     <1>18, <1>19, <1>20, <1>21, <1>22, <1>23 DEF HookStep
-----------------------------------------------------------------------------
(* What the clients can do to the hook thread *)

LEMMA ClientFrame ==
    ASSUME TypeOK, NEW c \in Client,
           Submit(c) \/ Stop(c) \/ Timeout(c) \/ ClientCleanup(c)
    PROVE  /\ UNCHANGED <<lockstate, hook>>
           /\ gate' = gate \/ gate' = TRUE
<1>1. CASE Submit(c) \/ Stop(c) \/ Timeout(c)
  BY <1>1 DEF Submit, Stop, Timeout
<1>2. CASE PostCommand(c) \/ PostStop(c) \/ Receive(c) \/ Withdraw(c) \/ EnterFailOpen(c)
  BY <1>2 DEF PostCommand, PostStop, Receive, Withdraw, EnterFailOpen
<1>3. CASE StopFailOpen(c) \/ EnterFailOpenPost(c)
  BY <1>3 DEF StopFailOpen, EnterFailOpenPost, PostFailOpen
<1>4. QED
  BY <1>1, <1>2, <1>3 DEF ClientCleanup

\* A command keeps what it is and what has become of it; only a timeout cancels,
\* and only what has not been committed.
KeepsCommands ==
    \A i \in DOMAIN cmds :
        /\ i \in DOMAIN cmds'
        /\ cmds'[i].kind = cmds[i].kind
        /\ cmds'[i].late = cmds[i].late
        /\ cmds'[i].reply = cmds[i].reply
        /\ cmds'[i].committed = cmds[i].committed
        /\ cmds'[i].applied = cmds[i].applied
        /\ cmds'[i].pending => cmds[i].pending
        /\ cmds'[i].canceled => cmds[i].canceled \/ ~cmds[i].committed

\* A command that is new has not got anywhere, and can only be pending where the
\* thread will still see it, or knows that it will not.
AddsCommands ==
    \A i \in DOMAIN cmds' \ DOMAIN cmds :
        /\ cmds'[i].canceled = FALSE
        /\ cmds'[i].committed = FALSE
        /\ cmds'[i].applied = FALSE
        /\ hook.pc = "exiting" => cmds'[i].late
        /\ hook.pc = "dead" => cmds'[i].pending = FALSE

LEMMA PostedCommand ==
    ASSUME TypeOK, NEW c \in Client, NEW kind \in Kinds, NEW s \in Nat,
           NEW ok \in PostOutcomes, Post(c, kind, s, ok)
    PROVE  KeepsCommands /\ AddsCommands
<1> DEFINE r == [NewCommand(kind, s) EXCEPT !.pending = ok]
<1>1. r.canceled = FALSE /\ r.committed = FALSE /\ r.applied = FALSE
      /\ r.pending = ok /\ r.late = (hook.pc = "exiting")
  BY DEF NewCommand
<1>2. ok \in BOOLEAN /\ (hook.pc = "dead" => ok = FALSE)
  BY DEF PostOutcomes, Alive
<1>3. r \in Command
  BY <1>2 DEF NewCommand, Command
<1> HIDE DEF r
<1>4. cmds \in Seq(Command) /\ cmds' = Append(cmds, r)
  BY DEF TypeOK, Post, r
<1>5. /\ DOMAIN cmds = 1..Len(cmds) /\ DOMAIN cmds' = 1..(Len(cmds) + 1)
      /\ Len(cmds) \in Nat
      /\ \A i \in 1..Len(cmds) : cmds'[i] = cmds[i]
      /\ cmds'[Len(cmds) + 1] = r
  BY <1>3, <1>4, AppendProperties
<1>6. \A i \in DOMAIN cmds : i \in DOMAIN cmds' /\ cmds'[i] = cmds[i]
  BY <1>5
<1>7. KeepsCommands
  BY <1>6 DEF KeepsCommands
<1>8. \A i \in DOMAIN cmds' \ DOMAIN cmds : cmds'[i] = r
  BY <1>5
<1>9. AddsCommands
  BY <1>1, <1>2, <1>8 DEF AddsCommands
<1>10. QED
  BY <1>7, <1>9

LEMMA ClientCommands ==
    ASSUME TypeOK, NEW c \in Client,
           Submit(c) \/ Stop(c) \/ Timeout(c) \/ ClientCleanup(c)
    PROVE  KeepsCommands /\ AddsCommands
<1>1. CASE UNCHANGED cmds
  BY <1>1 DEF KeepsCommands, AddsCommands
<1>2. ASSUME NEW i \in DOMAIN cmds PROVE cmds[i] \in Command
  BY DEF TypeOK
<1>3. CASE Timeout(c)
  <2> DEFINE id == client[c].cmd
             b == ~(cmds[id].committed \/ (cmds[id].kind = "STOP" /\ ~cmds[id].pending))
  <2>1. cmds' = [cmds EXCEPT ![id].canceled = b]
    BY <1>3 DEF Timeout
  <2>2. DOMAIN cmds' = DOMAIN cmds
    BY <2>1
  <2>3. ASSUME NEW i \in DOMAIN cmds, i # id PROVE cmds'[i] = cmds[i]
    BY <2>1, <2>3
  <2>4. ASSUME id \in DOMAIN cmds
        PROVE  /\ cmds'[id] = [cmds[id] EXCEPT !.canceled = b]
               /\ cmds[id].committed => b = FALSE
    BY <2>1, <2>4
  <2>5. ASSUME id \in DOMAIN cmds
        PROVE  /\ cmds'[id].canceled = b
               /\ cmds'[id].kind = cmds[id].kind /\ cmds'[id].late = cmds[id].late
               /\ cmds'[id].reply = cmds[id].reply
               /\ cmds'[id].committed = cmds[id].committed
               /\ cmds'[id].applied = cmds[id].applied
               /\ cmds'[id].pending = cmds[id].pending
    <3> HIDE DEF b
    <3>1. QED
      BY <1>2, <2>4, <2>5 DEF Command
  <2> HIDE DEF b
  <2>6. KeepsCommands
    BY <2>2, <2>3, <2>4, <2>5 DEF KeepsCommands
  <2>7. AddsCommands
    BY <2>2 DEF AddsCommands
  <2>8. QED
    BY <2>6, <2>7
<1>4. CASE Withdraw(c)
  <2> DEFINE id == client[c].cmd
  <2>1. cmds' = [cmds EXCEPT ![id].pending = FALSE]
    BY <1>4 DEF Withdraw
  <2>2. DOMAIN cmds' = DOMAIN cmds
    BY <2>1
  <2>3. ASSUME NEW i \in DOMAIN cmds, i # id PROVE cmds'[i] = cmds[i]
    BY <2>1, <2>3
  <2>4. ASSUME id \in DOMAIN cmds
        PROVE  /\ cmds'[id].pending = FALSE
               /\ cmds'[id].kind = cmds[id].kind /\ cmds'[id].late = cmds[id].late
               /\ cmds'[id].reply = cmds[id].reply
               /\ cmds'[id].committed = cmds[id].committed
               /\ cmds'[id].applied = cmds[id].applied
               /\ cmds'[id].canceled = cmds[id].canceled
    BY <1>2, <2>1, <2>4 DEF Command
  <2>5. KeepsCommands
    BY <2>2, <2>3, <2>4 DEF KeepsCommands
  <2>6. AddsCommands
    BY <2>2 DEF AddsCommands
  <2>7. QED
    BY <2>5, <2>6
<1>5. CASE PostCommand(c)
  <2>1. PICK kind \in Kinds, s \in Nat, ok \in PostOutcomes : Post(c, kind, s, ok)
    BY <1>5, HookAssumption DEF PostCommand
  <2>2. QED
    BY <2>1, PostedCommand
<1>6. CASE PostStop(c)
  <2>1. PICK ok \in PostOutcomes : Post(c, "STOP", 0, ok)
    BY <1>6 DEF PostStop
  <2>2. QED
    BY <2>1, PostedCommand DEF Kinds
<1>7. QED
  BY <1>1, <1>3, <1>4, <1>5, <1>6
  DEF Submit, Stop, ClientCleanup, StopFailOpen, Receive, EnterFailOpen,
      EnterFailOpenPost, PostFailOpen

LEMMA ClientAnnounces ==
    ASSUME TypeOK, AnnouncedIsSet, NEW c \in Client,
           Submit(c) \/ Stop(c) \/ Timeout(c) \/ ClientCleanup(c)
    PROVE  AnnouncedIsSet'
<1>1. gate' = gate \/ gate' = TRUE
  BY ClientFrame
<1>2. ASSUME NEW pc, Goto(c, pc), pc \in {"stopping", "posting"} => gate'
      PROVE  \A d \in Client : client'[d].pc \in {"stopping", "posting"} => gate'
  <2>1. client \in [Client -> [pc : ClientPc, cmd : Id]]
    BY DEF TypeOK
  <2>2. ASSUME NEW d \in Client PROVE client'[d].pc = IF d = c THEN pc ELSE client[d].pc
    BY <1>2, <2>1 DEF Goto
  <2>3. QED
    BY <1>1, <1>2, <2>2 DEF AnnouncedIsSet
<1>3. ASSUME NEW id \in Nat, msgq' = Append(msgq, id), id = FailOpenMsg => gate'
      PROVE  \A j \in DOMAIN msgq' : msgq'[j] = FailOpenMsg => gate'
  <2>1. msgq \in Seq(Nat)
    BY DEF TypeOK, Id
  <2>2. /\ DOMAIN msgq = 1..Len(msgq) /\ DOMAIN msgq' = 1..(Len(msgq) + 1)
        /\ Len(msgq) \in Nat
        /\ \A j \in 1..Len(msgq) : msgq'[j] = msgq[j]
        /\ msgq'[Len(msgq) + 1] = id
    BY <1>3, <2>1, AppendProperties
  <2>3. \A j \in DOMAIN msgq' :
            (j \in DOMAIN msgq /\ msgq'[j] = msgq[j]) \/ msgq'[j] = id
    BY <2>2
  <2>4. QED
    BY <1>1, <1>3, <2>3 DEF AnnouncedIsSet
<1>4. UNCHANGED msgq => \A j \in DOMAIN msgq' : msgq'[j] = FailOpenMsg => gate'
  BY <1>1 DEF AnnouncedIsSet
<1>5. CASE Submit(c)
  <2>1. PICK pc \in {"submitting", "raised"} : Goto(c, pc)
    BY <1>5 DEF Submit
  <2>2. QED
    BY <1>2, <1>4, <1>5, <2>1 DEF Submit, AnnouncedIsSet
<1>6. CASE Stop(c)
  BY <1>2, <1>4, <1>6 DEF Stop, AnnouncedIsSet
<1>7. CASE Timeout(c)
  BY <1>2, <1>4, <1>7 DEF Timeout, AnnouncedIsSet
<1>8. CASE Receive(c)
  BY <1>2, <1>4, <1>8 DEF Receive, AnnouncedIsSet
<1>9. CASE Withdraw(c)
  BY <1>2, <1>4, <1>9 DEF Withdraw, AnnouncedIsSet
<1>10. CASE EnterFailOpen(c)
  BY <1>2, <1>4, <1>10 DEF EnterFailOpen, AnnouncedIsSet
<1>11. ASSUME NEW from \in {"stopping", "posting"}, NEW to \in {"stop_posting", "idle"},
              PostFailOpen(c, from, to)
       PROVE  AnnouncedIsSet'
  <2>1. gate /\ gate'
    BY <1>1, <1>11 DEF PostFailOpen, AnnouncedIsSet
  <2>2. QED
    BY <2>1 DEF AnnouncedIsSet
<1>12. CASE StopFailOpen(c)
  BY <1>11, <1>12 DEF StopFailOpen
<1>13. CASE EnterFailOpenPost(c)
  BY <1>11, <1>13 DEF EnterFailOpenPost
<1>14. ASSUME NEW kind, NEW s, NEW ok, Post(c, kind, s, ok) PROVE AnnouncedIsSet'
  <2>1. client \in [Client -> [pc : ClientPc, cmd : Id]] /\ Len(cmds) \in Nat
    BY DEF TypeOK
  <2>2. PICK r \in {[pc |-> "waiting", cmd |-> Len(cmds) + 1],
                     [pc |-> "raised", cmd |-> Len(cmds) + 1]} :
              client' = [client EXCEPT ![c] = r]
    BY <1>14 DEF Post
  <2>3. r.pc \in {"waiting", "raised"}
    BY <2>2
  <2>4. ASSUME NEW d \in Client PROVE client'[d].pc \in {"waiting", "raised", client[d].pc}
    BY <2>1, <2>2, <2>3
  <2>5. \A d \in Client : client'[d].pc \in {"stopping", "posting"} => gate'
    BY <1>1, <2>4 DEF AnnouncedIsSet
  <2>6. msgq' = msgq \/ msgq' = Append(msgq, Len(cmds) + 1)
    BY <1>14 DEF Post
  <2>7. Len(cmds) + 1 \in Nat /\ Len(cmds) + 1 # FailOpenMsg
    BY <2>1 DEF FailOpenMsg
  <2>8. \A j \in DOMAIN msgq' : msgq'[j] = FailOpenMsg => gate'
    BY <1>3, <1>4, <2>6, <2>7
  <2>9. QED
    BY <2>5, <2>8 DEF AnnouncedIsSet
<1>15. CASE PostCommand(c) \/ PostStop(c)
  BY <1>14, <1>15 DEF PostCommand, PostStop
<1>16. QED
  BY <1>5, <1>6, <1>7, <1>8, <1>9, <1>10, <1>12, <1>13, <1>15 DEF ClientCleanup

LEMMA ClientStep ==
    ASSUME IInv, NEW c \in Client,
           Submit(c) \/ Stop(c) \/ Timeout(c) \/ ClientCleanup(c)
    PROVE  IInv'
<1>1. /\ TypeOK /\ GateHolds /\ AnnouncedIsSet /\ Publishing /\ SessionOnlyUnlocked
      /\ CommandLife /\ TableIsEmptied /\ EffectIsThere
  BY DEF IInv
<1>2. /\ locked' = locked /\ session' = session /\ snapshot' = snapshot
      /\ lastEvent' = lastEvent /\ reconciled' = reconciled /\ hook' = hook
  BY <1>1, ClientFrame DEF lockstate
<1>3. gate' = gate \/ gate' = TRUE
  BY <1>1, ClientFrame
<1>4. TypeOK' /\ AnnouncedIsSet' /\ KeepsCommands /\ AddsCommands
  BY <1>1, ClientTypes, ClientAnnounces, ClientCommands
<1>5. GateHolds' /\ Publishing' /\ SessionOnlyUnlocked'
  <2>1. GateHolds'
    BY <1>1, <1>2, <1>3 DEF GateHolds, ReconciledIsFinal
  <2>2. Publishing'
    BY <1>1, <1>2, <1>3 DEF Publishing
  <2>3. SessionOnlyUnlocked'
    BY <1>1, <1>2 DEF SessionOnlyUnlocked
  <2>4. QED
    BY <2>1, <2>2, <2>3
<1>6. hook.cmd # 0 => hook.cmd \in DOMAIN cmds
  <2>1. hook.cmd \in Id /\ DOMAIN cmds = 1..Len(cmds) /\ Len(cmds) \in Nat
    BY <1>1 DEF TypeOK, Hook
  <2>2. QED
    BY <2>1 DEF Id
<1>7. CommandLife'
  <2>1. ASSUME NEW i \in DOMAIN cmds'
        PROVE  /\ ~(cmds'[i].canceled /\ cmds'[i].committed)
               /\ cmds'[i].applied => cmds'[i].committed
    <3>1. CASE i \in DOMAIN cmds
      BY <1>1, <1>4, <3>1 DEF CommandLife, KeepsCommands
    <3>2. CASE i \notin DOMAIN cmds
      BY <1>4, <3>2 DEF AddsCommands
    <3>3. QED
      BY <3>1, <3>2
  <2>2. hook'.pc = "op" /\ hook'.cmd # 0 => cmds'[hook'.cmd].committed
    BY <1>1, <1>2, <1>4, <1>6 DEF CommandLife, KeepsCommands
  <2>3. hook'.pc \in {"check", "commit", "post", "reply", "stop"} => hook'.cmd # 0
    BY <1>1, <1>2 DEF CommandLife
  <2>4. QED
    BY <2>1, <2>2, <2>3 DEF CommandLife
<1>8. TableIsEmptied'
  <2>1. ASSUME hook'.pc \in {"exiting", "dead"}, NEW i \in DOMAIN cmds', cmds'[i].pending
        PROVE  cmds'[i].late
    <3>1. CASE i \in DOMAIN cmds
      BY <1>1, <1>2, <1>4, <2>1, <3>1 DEF TableIsEmptied, KeepsCommands
    <3>2. CASE i \notin DOMAIN cmds
      BY <1>2, <1>4, <2>1, <3>2 DEF AddsCommands
    <3>3. QED
      BY <3>1, <3>2
  <2>2. QED
    BY <2>1 DEF TableIsEmptied
<1>9. EffectIsThere'
  <2>1. hook.cmd # 0 => cmds'[hook.cmd].kind = cmds[hook.cmd].kind
    BY <1>4, <1>6 DEF KeepsCommands
  <2>2. Done' <=> Done
    BY <1>2 DEF Done
  <2>3. QED
    BY <1>1, <1>2, <1>3, <2>1, <2>2 DEF EffectIsThere
<1>10. QED
  BY <1>4, <1>5, <1>7, <1>8, <1>9 DEF IInv

-----------------------------------------------------------------------------
(* What the hook thread does *)

\* To the commands: it takes them, commits what is not canceled, runs what it has
\* committed, and accepts only the command it is at.
RunsCommands ==
    /\ DOMAIN cmds' = DOMAIN cmds
    /\ \A i \in DOMAIN cmds :
        /\ cmds'[i].kind = cmds[i].kind
        /\ cmds'[i].late = cmds[i].late
        /\ cmds'[i].canceled = cmds[i].canceled
        /\ cmds'[i].pending => cmds[i].pending
        /\ cmds[i].committed => cmds'[i].committed
        /\ cmds'[i].committed => cmds[i].committed \/ ~cmds[i].canceled
        /\ cmds'[i].applied => cmds[i].applied \/ (hook.pc = "op" /\ i = hook.cmd)
        /\ cmds'[i].reply = "accepted" =>
              \/ cmds[i].reply = "accepted"
              \/ hook.pc = "reply" /\ hook.accepted /\ i = hook.cmd

LEMMA HookCommands ==
    ASSUME TypeOK, HookStep \/ KeyEvent \/ LoopEnds
    PROVE  RunsCommands
<1>1. CASE UNCHANGED cmds
  BY <1>1 DEF RunsCommands
<1>2. ASSUME NEW i \in DOMAIN cmds PROVE cmds[i] \in Command
  BY DEF TypeOK
<1>3. CASE Dispatch
  <2> DEFINE id == Head(msgq)
  <2>1. SUFFICES ASSUME cmds' = [cmds EXCEPT ![id].pending = FALSE] PROVE RunsCommands
    BY <1>1, <1>3 DEF Dispatch
  <2>2. DOMAIN cmds' = DOMAIN cmds
    BY <2>1
  <2>3. ASSUME NEW i \in DOMAIN cmds, i # id PROVE cmds'[i] = cmds[i]
    BY <2>1, <2>3
  <2>4. ASSUME id \in DOMAIN cmds
        PROVE  /\ cmds'[id].pending = FALSE
               /\ cmds'[id].kind = cmds[id].kind /\ cmds'[id].late = cmds[id].late
               /\ cmds'[id].reply = cmds[id].reply
               /\ cmds'[id].committed = cmds[id].committed
               /\ cmds'[id].applied = cmds[id].applied
               /\ cmds'[id].canceled = cmds[id].canceled
    BY <1>2, <2>1, <2>4 DEF Command
  <2>5. QED
    BY <2>2, <2>3, <2>4 DEF RunsCommands
<1>4. CASE Commit
  <2> DEFINE id == hook.cmd
  <2>1. SUFFICES ASSUME cmds' = [cmds EXCEPT ![id].committed = TRUE], ~cmds[id].canceled
                 PROVE  RunsCommands
    BY <1>1, <1>4 DEF Commit
  <2>2. DOMAIN cmds' = DOMAIN cmds
    BY <2>1
  <2>3. ASSUME NEW i \in DOMAIN cmds, i # id PROVE cmds'[i] = cmds[i]
    BY <2>1, <2>3
  <2>4. ASSUME id \in DOMAIN cmds
        PROVE  /\ cmds'[id].committed = TRUE
               /\ cmds'[id].kind = cmds[id].kind /\ cmds'[id].late = cmds[id].late
               /\ cmds'[id].reply = cmds[id].reply
               /\ cmds'[id].pending = cmds[id].pending
               /\ cmds'[id].applied = cmds[id].applied
               /\ cmds'[id].canceled = cmds[id].canceled
    BY <1>2, <2>1, <2>4 DEF Command
  <2>5. QED
    BY <2>1, <2>2, <2>3, <2>4 DEF RunsCommands
<1>5. CASE Operate
  <2> DEFINE id == hook.cmd
  <2>1. cmds' = [cmds EXCEPT ![id].applied = TRUE] /\ hook.pc = "op"
    BY <1>5 DEF Operate, At
  <2>2. DOMAIN cmds' = DOMAIN cmds
    BY <2>1
  <2>3. ASSUME NEW i \in DOMAIN cmds, i # id PROVE cmds'[i] = cmds[i]
    BY <2>1, <2>3
  <2>4. ASSUME id \in DOMAIN cmds
        PROVE  /\ cmds'[id].committed = cmds[id].committed
               /\ cmds'[id].kind = cmds[id].kind /\ cmds'[id].late = cmds[id].late
               /\ cmds'[id].reply = cmds[id].reply
               /\ cmds'[id].pending = cmds[id].pending
               /\ cmds'[id].canceled = cmds[id].canceled
    BY <1>2, <2>1, <2>4 DEF Command
  <2>5. QED
    BY <2>1, <2>2, <2>3, <2>4 DEF RunsCommands
<1>6. CASE Reply
  <2> DEFINE id == hook.cmd
             v == IF hook.accepted THEN "accepted" ELSE "rejected"
  <2>1. cmds' = [cmds EXCEPT ![id].reply = v] /\ hook.pc = "reply"
    BY <1>6 DEF Reply, At
  <2>2. DOMAIN cmds' = DOMAIN cmds
    BY <2>1
  <2>3. ASSUME NEW i \in DOMAIN cmds, i # id PROVE cmds'[i] = cmds[i]
    BY <2>1, <2>3
  <2>4. ASSUME id \in DOMAIN cmds
        PROVE  /\ cmds'[id].committed = cmds[id].committed
               /\ cmds'[id].kind = cmds[id].kind /\ cmds'[id].late = cmds[id].late
               /\ cmds'[id].reply = v
               /\ cmds'[id].applied = cmds[id].applied
               /\ cmds'[id].pending = cmds[id].pending
               /\ cmds'[id].canceled = cmds[id].canceled
    <3> HIDE DEF v
    <3>1. QED
      BY <1>2, <2>1, <2>4 DEF Command
  <2>5. QED
    BY <2>1, <2>2, <2>3, <2>4 DEF RunsCommands
<1>7. CASE RejectPending
  <2>1. DOMAIN cmds' = DOMAIN cmds
    BY <1>7 DEF RejectPending
  <2>2. ASSUME NEW i \in DOMAIN cmds, ~cmds[i].pending PROVE cmds'[i] = cmds[i]
    BY <1>7, <2>2 DEF RejectPending
  <2>3. ASSUME NEW i \in DOMAIN cmds, cmds[i].pending
        PROVE  /\ cmds'[i].committed = cmds[i].committed
               /\ cmds'[i].kind = cmds[i].kind /\ cmds'[i].late = cmds[i].late
               /\ cmds'[i].reply = "rejected"
               /\ cmds'[i].applied = cmds[i].applied
               /\ cmds'[i].canceled = cmds[i].canceled
    <3>1. cmds'[i] = [cmds[i] EXCEPT !.pending = FALSE, !.reply = "rejected"]
      BY <1>7, <2>3 DEF RejectPending
    <3>2. QED
      BY <1>2, <3>1 DEF Command
  <2>4. QED
    BY <2>1, <2>2, <2>3 DEF RunsCommands
<1>8. QED
  BY <1>1, <1>3, <1>4, <1>5, <1>6, <1>7
  DEF HookStep, CheckGate, HandleKey, Raise, PostCheck, ReadSnapshot, WriteSnapshot,
      CheckEvent, PutEvent, RunStop, Finally, Exit, KeyEvent, LoopEnds

LEMMA HookAnnounces ==
    ASSUME TypeOK, AnnouncedIsSet, HookStep \/ KeyEvent \/ LoopEnds
    PROVE  AnnouncedIsSet'
<1>1. gate' = gate \/ gate' = TRUE
  <2>1. HookStep => gate' = gate \/ gate' = TRUE
    BY DEF HookStep, Dispatch, CheckGate, Commit, Operate, HandleKey, Raise, PostCheck,
           ReadSnapshot, WriteSnapshot, CheckEvent, PutEvent, Reply, RunStop, Finally,
           RejectPending, Exit
  <2>2. QED
    BY <2>1 DEF KeyEvent, LoopEnds
<1>2. client' = client
  <2>1. HookStep => client' = client
    BY DEF HookStep, Dispatch, CheckGate, Commit, Operate, HandleKey, Raise, PostCheck,
           ReadSnapshot, WriteSnapshot, CheckEvent, PutEvent, Reply, RunStop, Finally,
           RejectPending, Exit
  <2>2. QED
    BY <2>1 DEF KeyEvent, LoopEnds
<1>3. CASE msgq' = msgq
  BY <1>1, <1>2, <1>3 DEF AnnouncedIsSet
<1>4. CASE Dispatch
  <2>1. msgq \in Seq(Id) /\ msgq # <<>> /\ msgq' = Tail(msgq)
    BY <1>4 DEF Dispatch, TypeOK
  <2>2. \A j \in DOMAIN msgq' : j + 1 \in DOMAIN msgq /\ msgq'[j] = msgq[j + 1]
    BY <2>1
  <2>3. QED
    BY <1>1, <1>2, <2>2 DEF AnnouncedIsSet
<1>5. QED
  BY <1>3, <1>4
  DEF HookStep, CheckGate, Commit, Operate, HandleKey, Raise, PostCheck, ReadSnapshot,
      WriteSnapshot, CheckEvent, PutEvent, Reply, RunStop, Finally, RejectPending, Exit,
      KeyEvent, LoopEnds

\* To the lock: what the thread knows of it at each place.
LockInv == GateHolds /\ Publishing /\ SessionOnlyUnlocked /\ EffectIsThere

LEMMA Undone ==
    ASSUME Reconcile, gate' = TRUE, hook'.pc \notin Acting \cup {"check"}
    PROVE  LockInv'
<1>1. locked' = FALSE /\ session' = 0 /\ snapshot' = FALSE /\ reconciled' = TRUE
  BY DEF Reconcile
<1>2. GateHolds'
  BY <1>1 DEF GateHolds, ReconciledIsFinal
<1>3. Publishing' /\ SessionOnlyUnlocked' /\ EffectIsThere'
  BY <1>1 DEF Publishing, SessionOnlyUnlocked, EffectIsThere, Acting
<1>4. QED
  BY <1>2, <1>3 DEF LockInv

\* The hook thread moves on without touching what is locked or published.
LEMMA MovesOn ==
    ASSUME TypeOK, LockInv, UNCHANGED <<gate, lockstate>>,
           hook'.pc \in {"idle", "check", "commit", "op", "stop", "reply"},
           hook.pc \in {"idle", "check", "commit", "op", "stop", "reply"},
           hook'.pc \in Acting => hook.pc \in Acting \/ ~gate,
           hook'.stopping => hook.stopping,
           hook'.pc \in {"check", "commit"} => ~hook'.accepted,
           hook'.pc = "reply" => ~hook'.accepted
    PROVE  LockInv'
<1>1. /\ gate' = gate /\ locked' = locked /\ session' = session
      /\ snapshot' = snapshot /\ lastEvent' = lastEvent /\ reconciled' = reconciled
  BY DEF lockstate
<1>2. /\ gate \in BOOLEAN /\ reconciled \in BOOLEAN
  BY DEF TypeOK
<1>3. GateHolds'
  <2>1. GateHolds
    BY DEF LockInv
  <2>2. ReconciledIsFinal'
    BY <1>1, <2>1 DEF GateHolds, ReconciledIsFinal
  <2>3. reconciled => gate /\ hook.pc \notin Acting
    BY <2>1 DEF GateHolds, ReconciledIsFinal
  <2>4. reconciled' => hook'.pc \notin Acting
    BY <1>1, <2>3
  <2>5. hook'.pc \notin Ending
    BY DEF Ending
  <2>6. hook'.stopping => gate'
    BY <1>1, <2>1 DEF GateHolds
  <2>7. QED
    BY <2>2, <2>4, <2>5, <2>6 DEF GateHolds
<1>4. Publishing'
  BY <1>1 DEF LockInv, Publishing
<1>5. SessionOnlyUnlocked' /\ EffectIsThere'
  BY <1>1 DEF LockInv, SessionOnlyUnlocked, EffectIsThere, Done
<1>6. QED
  BY <1>3, <1>4, <1>5 DEF LockInv

LEMMA HookLock ==
    ASSUME TypeOK, LockInv, AnnouncedIsSet, CommandLife, HookStep \/ KeyEvent \/ LoopEnds
    PROVE  LockInv'
<1>1. /\ hook \in Hook
      /\ hook.accepted \in BOOLEAN /\ hook.changed \in BOOLEAN /\ hook.snap \in BOOLEAN
      /\ locked \in BOOLEAN /\ gate \in BOOLEAN /\ snapshot \in BOOLEAN
      /\ lastEvent \in BOOLEAN /\ reconciled \in BOOLEAN
  BY DEF TypeOK, Hook
<1>2. GateHolds /\ Publishing /\ SessionOnlyUnlocked /\ EffectIsThere
  BY DEF LockInv
<1>3. ASSUME NEW pc, HookGoto(pc)
      PROVE  /\ hook'.pc = pc /\ hook'.cmd = hook.cmd /\ hook'.accepted = hook.accepted
             /\ hook'.changed = hook.changed /\ hook'.snap = hook.snap
             /\ hook'.stopping = hook.stopping
  BY <1>1, <1>3 DEF HookGoto, Hook
<1>4. hook.cmd # 0 => cmds'[hook.cmd].kind = cmds[hook.cmd].kind
  <2>1. hook.cmd \in Id /\ DOMAIN cmds = 1..Len(cmds) /\ Len(cmds) \in Nat
    BY <1>1 DEF Hook, TypeOK
  <2>2. hook.cmd # 0 => hook.cmd \in DOMAIN cmds
    BY <2>1 DEF Id
  <2>3. QED
    BY <2>2, HookCommands DEF RunsCommands
<1>5. CASE Dispatch
  <2>1. hook.pc = "idle" /\ gate' = gate
    BY <1>5 DEF Dispatch, At
  <2>2. CASE Head(msgq) = FailOpenMsg
    <3>1. 1 \in DOMAIN msgq /\ msgq[1] = FailOpenMsg
      BY <1>5, <2>2 DEF Dispatch, TypeOK
    <3>2. gate' = TRUE
      BY <1>1, <2>1, <3>1 DEF AnnouncedIsSet
    <3>3. Reconcile /\ hook' = hook
      BY <1>5, <2>2 DEF Dispatch
    <3>4. QED
      BY <2>1, <3>2, <3>3, Undone DEF Acting
  <2>3. CASE Head(msgq) # FailOpenMsg
    <3>1. UNCHANGED lockstate
      BY <1>5, <2>3 DEF Dispatch
    <3>2. CASE hook' = hook
      BY <2>1, <3>1, <3>2, MovesOn
    <3>3. CASE hook' # hook
      <4>1. PICK pc \in {"reply", "stop", "check"} :
                hook' = [AtLoop EXCEPT !.cmd = Head(msgq), !.pc = pc]
        <5> DEFINE r == cmds[Head(msgq)]
        <5>1. hook' = IF ~r.pending THEN hook
                      ELSE [AtLoop EXCEPT
                              !.cmd = Head(msgq),
                              !.pc = IF r.canceled THEN "reply"
                                     ELSE IF r.kind = "STOP" THEN "stop" ELSE "check"]
          BY <1>5, <2>3 DEF Dispatch
        <5> HIDE DEF r
        <5> DEFINE place == IF r.canceled THEN "reply"
                            ELSE IF r.kind = "STOP" THEN "stop" ELSE "check"
        <5>2. hook' = [AtLoop EXCEPT !.cmd = Head(msgq), !.pc = place]
          BY <3>3, <5>1
        <5>3. place \in {"reply", "stop", "check"}
          OBVIOUS
        <5> HIDE DEF place
        <5>4. QED
          BY <5>2, <5>3
      <4>2. hook'.pc = pc /\ hook'.accepted = FALSE /\ hook'.stopping = FALSE
        BY <4>1 DEF AtLoop
      <4>3. QED
        BY <2>1, <3>1, <4>2, MovesOn DEF Acting
    <3>4. QED
      BY <3>2, <3>3
  <2>4. QED
    BY <2>2, <2>3
<1>6. CASE CheckGate
  <2>1. PICK pc \in {"reply", "commit"} : HookGoto(pc) /\ (pc = "commit" => ~gate)
    BY <1>6 DEF CheckGate
  <2>2. hook.pc = "check" /\ ~hook.accepted /\ UNCHANGED <<gate, lockstate>>
    BY <1>2, <1>6 DEF CheckGate, At, EffectIsThere
  <2>3. QED
    BY <1>3, <2>1, <2>2, MovesOn DEF Acting
<1>7. CASE Commit
  <2>1. PICK pc \in {"reply", "op"} : HookGoto(pc)
    BY <1>7 DEF Commit
  <2>2. hook.pc = "commit" /\ ~hook.accepted /\ UNCHANGED <<gate, lockstate>>
    BY <1>2, <1>7 DEF Commit, At, EffectIsThere
  <2>3. QED
    BY <1>3, <2>1, <2>2, MovesOn DEF Acting
<1>8. CASE KeyEvent
  <2>1. hook'.pc = "op" /\ hook'.stopping = FALSE
    BY <1>8 DEF KeyEvent, AtLoop
  <2>2. hook.pc = "idle" /\ ~gate /\ UNCHANGED <<gate, lockstate>>
    BY <1>8 DEF KeyEvent, At
  <2>3. QED
    BY <2>1, <2>2, MovesOn
<1>9. ASSUME hook.pc \in Acting, gate' = gate, reconciled' = reconciled,
             hook'.stopping = hook.stopping, hook'.pc \notin Ending
      PROVE  GateHolds'
  <2>1. reconciled' = FALSE
    BY <1>1, <1>2, <1>9 DEF GateHolds
  <2>2. hook'.stopping => gate'
    BY <1>2, <1>9 DEF GateHolds
  <2>3. QED
    BY <1>9, <2>1, <2>2 DEF GateHolds, ReconciledIsFinal, Ending
<1>10. CASE Operate
  <2> DEFINE kind == cmds[hook.cmd].kind
             s == cmds[hook.cmd].session
  <2>1. hook.pc = "op" /\ hook.cmd # 0 /\ gate' = gate /\ snapshot' = snapshot
        /\ lastEvent' = lastEvent /\ reconciled' = reconciled
    BY <1>10 DEF Operate, At
  <2>2. PICK accepted \in BOOLEAN :
          /\ Operation(kind, s, accepted)
          /\ hook' = [hook EXCEPT !.pc = "post", !.accepted = accepted,
                                  !.changed = TransitionChanged]
    BY <1>10 DEF Operate
  <2>3. /\ hook'.pc = "post" /\ hook'.cmd = hook.cmd /\ hook'.stopping = hook.stopping
        /\ hook'.changed = (locked' # locked)
    BY <1>1, <2>2 DEF Hook, TransitionChanged
  <2>4. kind \in {"LOCK", "UNLOCK"} => locked' = (kind = "LOCK")
    BY <2>2 DEF Operation, SessionKinds
  <2>5. SessionOnlyUnlocked'
    <3>1. CASE session' = 0
      BY <3>1 DEF SessionOnlyUnlocked
    <3>2. CASE session' # 0
      <4>1. \/ locked' = locked /\ session' = session
            \/ locked' = locked /\ ~locked
        BY <2>2, <3>2 DEF Operation, SessionAfterLock
      <4>2. QED
        BY <1>2, <3>2, <4>1 DEF SessionOnlyUnlocked
    <3>3. QED
      BY <3>1, <3>2
  <2>6. GateHolds'
    BY <1>9, <2>1, <2>3 DEF Acting, Ending
  <2>7. Publishing'
    <3>1. ~gate => snapshot = locked /\ lastEvent = locked
      BY <1>2, <2>1 DEF Publishing
    <3>2. ~gate' => lastEvent' = snapshot' /\ hook'.changed = (locked' # snapshot')
      BY <2>1, <2>3, <3>1
    <3>3. QED
      BY <2>3, <3>2 DEF Publishing
  <2>8. EffectIsThere'
    BY <1>4, <2>1, <2>3, <2>4 DEF EffectIsThere
  <2>9. QED
    BY <2>5, <2>6, <2>7, <2>8 DEF LockInv
<1>11. CASE HandleKey
  <2>1. hook.pc = "op" /\ hook.cmd = 0 /\ gate' = gate /\ snapshot' = snapshot
        /\ lastEvent' = lastEvent /\ reconciled' = reconciled /\ session' = session
    BY <1>11 DEF HandleKey, At
  <2>2. hook'.pc = "snap" /\ hook'.cmd = 0 /\ hook'.stopping = hook.stopping
        /\ hook'.changed = (locked' # locked)
    BY <1>1, <1>11, <2>1 DEF HandleKey, Hook, TransitionChanged
  <2>3. SessionOnlyUnlocked'
    <3>1. session # 0 => locked' = locked \/ locked' = FALSE
      BY <1>11 DEF HandleKey
    <3>2. QED
      BY <1>2, <2>1, <3>1 DEF SessionOnlyUnlocked
  <2>4. GateHolds'
    BY <1>9, <2>1, <2>2 DEF Acting, Ending
  <2>5. Publishing'
    <3>1. ~gate => snapshot = locked /\ lastEvent = locked
      BY <1>2, <2>1 DEF Publishing
    <3>2. ~gate' => lastEvent' = snapshot' /\ hook'.changed = (locked' # snapshot')
      BY <2>1, <2>2, <3>1
    <3>3. QED
      BY <2>2, <3>2 DEF Publishing
  <2>6. EffectIsThere'
    BY <2>2 DEF EffectIsThere
  <2>7. QED
    BY <2>3, <2>4, <2>5, <2>6 DEF LockInv
<1>12. CASE Raise
  <2>1. PICK pc \in {"idle", "reply"} : HookGoto(pc)
    BY <1>12 DEF Raise, Finish
  <2>2. gate' = TRUE /\ Reconcile
    BY <1>12 DEF Raise
  <2>3. QED
    BY <1>3, <2>1, <2>2, Undone DEF Acting
<1>13. ASSUME Done, gate' = gate, locked' = locked, hook'.cmd = hook.cmd,
              hook'.pc \notin {"check", "commit"}
       PROVE  EffectIsThere'
  BY <1>2, <1>4, <1>13 DEF EffectIsThere
<1>14. CASE PostCheck
  <2>1. hook.pc = "post" /\ gate' = gate
    BY <1>14 DEF PostCheck, At
  <2>2. CASE gate
    <3>1. hook'.pc = "reply"
      BY <1>1, <1>14, <2>2 DEF PostCheck, Hook
    <3>2. Reconcile /\ gate' = TRUE
      BY <1>1, <1>14, <2>1, <2>2 DEF PostCheck
    <3>3. QED
      BY <3>1, <3>2, Undone DEF Acting
  <2>3. CASE ~gate
    <3>1. HookGoto("snap") /\ locked' = locked /\ session' = session
          /\ snapshot' = snapshot /\ lastEvent' = lastEvent /\ reconciled' = reconciled
      BY <1>14, <2>3 DEF PostCheck, lockstate
    <3>2. /\ hook'.pc = "snap" /\ hook'.cmd = hook.cmd /\ hook'.changed = hook.changed
          /\ hook'.stopping = hook.stopping
      BY <1>3, <3>1
    <3>3. GateHolds'
      BY <1>9, <2>1, <3>1, <3>2 DEF Acting, Ending
    <3>4. Publishing'
      BY <1>2, <2>1, <3>1, <3>2 DEF Publishing
    <3>5. SessionOnlyUnlocked' /\ EffectIsThere'
      BY <1>2, <1>13, <2>1, <3>1, <3>2 DEF SessionOnlyUnlocked, Done
    <3>6. QED
      BY <3>3, <3>4, <3>5 DEF LockInv
  <2>4. QED
    BY <2>2, <2>3
<1>15. CASE ReadSnapshot
  <2>1. hook.pc = "snap" /\ gate' = gate /\ locked' = locked /\ session' = session
        /\ snapshot' = snapshot /\ lastEvent' = lastEvent /\ reconciled' = reconciled
    BY <1>15 DEF ReadSnapshot, At, lockstate
  <2>2. /\ hook'.pc = "write" /\ hook'.cmd = hook.cmd /\ hook'.changed = hook.changed
        /\ hook'.stopping = hook.stopping /\ hook'.snap = (locked /\ ~gate)
    BY <1>1, <1>15 DEF ReadSnapshot, Hook
  <2>3. GateHolds'
    BY <1>9, <2>1, <2>2 DEF Acting, Ending
  <2>4. Publishing'
    <3>1. ~gate => hook'.snap = locked
      BY <1>1, <2>2
    <3>2. QED
      BY <1>2, <2>1, <2>2, <3>1 DEF Publishing
  <2>5. SessionOnlyUnlocked' /\ EffectIsThere'
    BY <1>2, <1>13, <2>1, <2>2 DEF SessionOnlyUnlocked, Done
  <2>6. QED
    BY <2>3, <2>4, <2>5 DEF LockInv
<1>16. CASE WriteSnapshot
  <2>1. hook.pc = "write" /\ gate' = gate /\ locked' = locked /\ session' = session
        /\ snapshot' = hook.snap /\ lastEvent' = lastEvent /\ reconciled' = reconciled
    BY <1>16 DEF WriteSnapshot, At
  <2>2. PICK pc \in {"event", "idle", "reply"} :
            HookGoto(pc) /\ (hook.changed <=> pc = "event")
    BY <1>16 DEF WriteSnapshot, Finish
  <2>3. /\ hook'.pc = pc /\ hook'.cmd = hook.cmd /\ hook'.stopping = hook.stopping
    BY <1>3, <2>2
  <2>4. GateHolds'
    BY <1>9, <2>1, <2>3 DEF Acting, Ending
  <2>5. Publishing'
    <3>1. ~gate => snapshot' = locked'
      BY <1>2, <2>1 DEF Publishing
    <3>2. ~gate /\ ~hook.changed => lastEvent' = locked'
      BY <1>1, <1>2, <2>1 DEF Publishing
    <3>3. QED
      BY <2>1, <2>2, <2>3, <3>1, <3>2 DEF Publishing
  <2>6. SessionOnlyUnlocked' /\ EffectIsThere'
    BY <1>2, <1>13, <2>1, <2>3 DEF SessionOnlyUnlocked, Done
  <2>7. QED
    BY <2>4, <2>5, <2>6 DEF LockInv
<1>17. CASE CheckEvent
  <2>1. hook.pc = "event" /\ gate' = gate /\ locked' = locked /\ session' = session
        /\ snapshot' = snapshot /\ lastEvent' = lastEvent /\ reconciled' = reconciled
    BY <1>17 DEF CheckEvent, At, lockstate
  <2>2. PICK pc \in {"put", "idle", "reply"} : HookGoto(pc) /\ (~gate => pc = "put")
    BY <1>17 DEF CheckEvent, Finish
  <2>3. /\ hook'.pc = pc /\ hook'.cmd = hook.cmd /\ hook'.stopping = hook.stopping
    BY <1>3, <2>2
  <2>4. GateHolds'
    BY <1>9, <2>1, <2>3 DEF Acting, Ending
  <2>5. Publishing'
    BY <1>2, <2>1, <2>2, <2>3 DEF Publishing
  <2>6. SessionOnlyUnlocked' /\ EffectIsThere'
    BY <1>2, <1>13, <2>1, <2>3 DEF SessionOnlyUnlocked, Done
  <2>7. QED
    BY <2>4, <2>5, <2>6 DEF LockInv
<1>18. CASE PutEvent
  <2>1. hook.pc = "put" /\ gate' = gate /\ locked' = locked /\ session' = session
        /\ snapshot' = snapshot /\ lastEvent' = locked /\ reconciled' = reconciled
    BY <1>18 DEF PutEvent, At
  <2>2. PICK pc \in {"idle", "reply"} : HookGoto(pc)
    BY <1>18 DEF PutEvent, Finish
  <2>3. /\ hook'.pc = pc /\ hook'.cmd = hook.cmd /\ hook'.stopping = hook.stopping
    BY <1>3, <2>2
  <2>4. GateHolds'
    BY <1>9, <2>1, <2>3 DEF Acting, Ending
  <2>5. Publishing'
    BY <1>2, <2>1, <2>3 DEF Publishing
  <2>6. SessionOnlyUnlocked' /\ EffectIsThere'
    BY <1>2, <1>13, <2>1, <2>3 DEF SessionOnlyUnlocked, Done
  <2>7. QED
    BY <2>4, <2>5, <2>6 DEF LockInv
<1>19. CASE Reply
  <2>1. hook.pc = "reply" /\ gate' = gate /\ locked' = locked /\ session' = session
        /\ snapshot' = snapshot /\ lastEvent' = lastEvent /\ reconciled' = reconciled
    BY <1>19 DEF Reply, At, lockstate
  <2>2. PICK pc \in {"idle", "finally"} :
            hook' = [AtLoop EXCEPT !.pc = pc] /\ (pc = "finally" => hook.stopping)
    BY <1>19 DEF Reply
  <2>3. hook'.pc = pc /\ hook'.stopping = FALSE /\ hook'.cmd = 0
    BY <2>2 DEF AtLoop
  <2>4. GateHolds'
    BY <1>2, <2>1, <2>2, <2>3 DEF GateHolds, ReconciledIsFinal, Acting, Ending
  <2>5. Publishing'
    BY <1>2, <2>1, <2>3 DEF Publishing
  <2>6. SessionOnlyUnlocked' /\ EffectIsThere'
    BY <1>2, <2>1, <2>3 DEF SessionOnlyUnlocked, EffectIsThere
  <2>7. QED
    BY <2>4, <2>5, <2>6 DEF LockInv
<1>20. CASE RunStop
  <2>1. hook'.pc = "reply" /\ gate' = TRUE /\ Reconcile
    BY <1>1, <1>20 DEF RunStop, Hook
  <2>2. QED
    BY <2>1, Undone DEF Acting
<1>21. CASE LoopEnds
  <2>1. HookGoto("finally") /\ gate' = TRUE /\ Reconcile
    BY <1>21 DEF LoopEnds
  <2>2. QED
    BY <1>3, <2>1, Undone DEF Acting
<1>22. CASE Finally
  <2>1. HookGoto("reject") /\ gate' = TRUE /\ Reconcile
    BY <1>22 DEF Finally
  <2>2. QED
    BY <1>3, <2>1, Undone DEF Acting
<1>23. CASE RejectPending \/ Exit
  <2>1. hook.pc \in {"reject", "exiting"}
        /\ gate' = gate /\ locked' = locked /\ session' = session
        /\ snapshot' = snapshot /\ lastEvent' = lastEvent /\ reconciled' = reconciled
    BY <1>23 DEF RejectPending, Exit, At, lockstate
  <2>2. PICK pc \in {"exiting", "dead"} : HookGoto(pc)
    BY <1>23 DEF RejectPending, Exit
  <2>3. /\ hook'.pc = pc /\ hook'.stopping = hook.stopping
    BY <1>3, <2>2
  <2>4. gate = TRUE /\ reconciled = TRUE
    BY <1>1, <1>2, <2>1 DEF GateHolds, Ending
  <2>5. GateHolds'
    BY <1>2, <2>1, <2>3, <2>4 DEF GateHolds, ReconciledIsFinal, Acting
  <2>6. Publishing' /\ SessionOnlyUnlocked' /\ EffectIsThere'
    BY <1>2, <2>1, <2>3, <2>4 DEF Publishing, SessionOnlyUnlocked, EffectIsThere
  <2>7. QED
    BY <2>5, <2>6 DEF LockInv
<1>24. QED
  BY <1>5, <1>6, <1>7, <1>8, <1>10, <1>11, <1>12, <1>14, <1>15, <1>16, <1>17, <1>18,
     <1>19, <1>20, <1>21, <1>22, <1>23 DEF HookStep

\* Which command the thread is at, and when it has emptied the table.
LEMMA HookPlace ==
    ASSUME TypeOK, CommandLife, HookStep \/ KeyEvent \/ LoopEnds
    PROVE  /\ hook'.pc \in {"check", "commit", "post", "reply", "stop"} => hook'.cmd # 0
           /\ hook'.pc = "op" /\ hook'.cmd # 0 => cmds'[hook'.cmd].committed
           /\ hook'.pc \in {"exiting", "dead"} => hook.pc = "exiting" \/ RejectPending
<1> DEFINE Goal ==
      /\ hook'.pc \in {"check", "commit", "post", "reply", "stop"} => hook'.cmd # 0
      /\ hook'.pc = "op" /\ hook'.cmd # 0 => cmds'[hook'.cmd].committed
      /\ hook'.pc \in {"exiting", "dead"} => hook.pc = "exiting" \/ RejectPending
<1>1. hook \in Hook
  BY DEF TypeOK
<1>2. ASSUME NEW pc, HookGoto(pc) PROVE hook'.pc = pc /\ hook'.cmd = hook.cmd
  BY <1>1, <1>2 DEF HookGoto, Hook
<1>3. ASSUME NEW pc \in {"check", "commit", "post", "reply", "stop"}, hook.pc = pc
      PROVE  hook.cmd # 0
  BY <1>3 DEF CommandLife
<1>4. CASE Dispatch
  <2>1. CASE hook' = hook
    BY <1>4, <2>1 DEF Dispatch, At
  <2>2. CASE hook' # hook
    <3>1. Head(msgq) # 0
      BY <1>4, <2>2 DEF Dispatch, FailOpenMsg
    <3>2. PICK pc \in {"reply", "stop", "check"} :
              hook' = [AtLoop EXCEPT !.cmd = Head(msgq), !.pc = pc]
      <4> DEFINE r == cmds[Head(msgq)]
      <4>1. hook' = IF ~r.pending THEN hook
                    ELSE [AtLoop EXCEPT
                            !.cmd = Head(msgq),
                            !.pc = IF r.canceled THEN "reply"
                                   ELSE IF r.kind = "STOP" THEN "stop" ELSE "check"]
        BY <1>4, <2>2, <3>1 DEF Dispatch, FailOpenMsg
      <4> HIDE DEF r
      <4> DEFINE place == IF r.canceled THEN "reply"
                          ELSE IF r.kind = "STOP" THEN "stop" ELSE "check"
      <4>2. hook' = [AtLoop EXCEPT !.cmd = Head(msgq), !.pc = place]
        BY <2>2, <4>1
      <4>3. place \in {"reply", "stop", "check"}
        OBVIOUS
      <4> HIDE DEF place
      <4>4. QED
        BY <4>2, <4>3
    <3>3. hook'.pc = pc /\ hook'.cmd = Head(msgq)
      BY <3>2 DEF AtLoop
    <3>4. QED
      BY <3>1, <3>3
  <2>3. QED
    BY <2>1, <2>2
<1>5. CASE CheckGate
  <2>1. PICK pc \in {"reply", "commit"} : HookGoto(pc)
    BY <1>5 DEF CheckGate
  <2>2. QED
    BY <1>2, <1>3, <1>5, <2>1 DEF CheckGate, At
<1>6. CASE Commit
  <2>1. hook.pc = "commit" /\ hook.cmd # 0
    BY <1>3, <1>6 DEF Commit, At
  <2>2. CASE cmds[hook.cmd].canceled
    BY <1>2, <1>6, <2>1, <2>2 DEF Commit
  <2>3. CASE ~cmds[hook.cmd].canceled
    <3>1. HookGoto("op") /\ cmds' = [cmds EXCEPT ![hook.cmd].committed = TRUE]
      BY <1>6, <2>3 DEF Commit
    <3>2. hook'.pc = "op" /\ hook'.cmd = hook.cmd
      BY <1>2, <3>1
    <3>3. hook.cmd \in DOMAIN cmds
      <4>1. hook.cmd \in Id /\ DOMAIN cmds = 1..Len(cmds) /\ Len(cmds) \in Nat
        BY <1>1 DEF Hook, TypeOK
      <4>2. QED
        BY <2>1, <4>1 DEF Id
    <3>4. cmds[hook.cmd] \in Command
      BY <3>3 DEF TypeOK
    <3>5. cmds'[hook.cmd].committed = TRUE
      BY <3>1, <3>3, <3>4 DEF Command
    <3>6. QED
      BY <3>2, <3>5
  <2>4. QED
    BY <2>2, <2>3
<1>7. CASE Operate
  <2>1. hook'.pc = "post" /\ hook'.cmd = hook.cmd
    BY <1>1, <1>7 DEF Operate, Hook
  <2>2. QED
    BY <1>7, <2>1 DEF Operate
<1>8. CASE HandleKey
  <2>1. hook'.pc = "snap"
    BY <1>1, <1>8 DEF HandleKey, Hook
  <2>2. QED
    BY <2>1
<1>9. ASSUME NEW pc, HookGoto(pc), pc \in {"event", "put", "idle", "reply"},
             pc = "reply" => hook.cmd # 0
      PROVE  Goal
  BY <1>2, <1>9
<1>10. Finish \in {"idle", "reply"} /\ (Finish = "reply" => hook.cmd # 0)
  BY DEF Finish
<1>11. CASE Raise \/ WriteSnapshot \/ CheckEvent \/ PutEvent
  <2>1. PICK pc \in {"event", "put", Finish} : HookGoto(pc)
    BY <1>11 DEF Raise, WriteSnapshot, CheckEvent, PutEvent
  <2>2. QED
    BY <1>9, <1>10, <2>1
<1>12. CASE PostCheck
  <2>1. hook'.pc \in {"reply", "snap"} /\ hook'.cmd = hook.cmd
    BY <1>1, <1>12 DEF PostCheck, HookGoto, Hook
  <2>2. QED
    BY <1>3, <1>12, <2>1 DEF PostCheck, At
<1>13. CASE ReadSnapshot
  <2>1. hook'.pc = "write"
    BY <1>1, <1>13 DEF ReadSnapshot, Hook
  <2>2. QED
    BY <2>1
<1>14. CASE Reply
  <2>1. PICK pc \in {"idle", "finally"} : hook' = [AtLoop EXCEPT !.pc = pc]
    BY <1>14 DEF Reply
  <2>2. hook'.pc = pc
    BY <2>1 DEF AtLoop
  <2>3. QED
    BY <2>2
<1>15. CASE RunStop
  <2>1. hook'.pc = "reply" /\ hook'.cmd = hook.cmd
    BY <1>1, <1>15 DEF RunStop, Hook
  <2>2. QED
    BY <1>3, <1>15, <2>1 DEF RunStop, At
<1>16. CASE LoopEnds \/ Finally
  <2>1. PICK pc \in {"finally", "reject"} : HookGoto(pc)
    BY <1>16 DEF LoopEnds, Finally
  <2>2. QED
    BY <1>2, <2>1
<1>17. CASE RejectPending
  <2>1. HookGoto("exiting")
    BY <1>17 DEF RejectPending
  <2>2. hook'.pc = "exiting"
    BY <1>2, <2>1
  <2>3. QED
    BY <1>17, <2>2
<1>18. CASE Exit
  BY <1>2, <1>18 DEF Exit, At
<1>19. CASE KeyEvent
  <2>1. hook'.pc = "op" /\ hook'.cmd = 0
    BY <1>19 DEF KeyEvent, AtLoop
  <2>2. QED
    BY <2>1
<1>20. QED
  BY <1>4, <1>5, <1>6, <1>7, <1>8, <1>11, <1>12, <1>13, <1>14, <1>15, <1>16, <1>17,
     <1>18, <1>19 DEF HookStep

LEMMA HookStepInv ==
    ASSUME IInv, HookStep \/ KeyEvent \/ LoopEnds
    PROVE  IInv'
<1>1. /\ TypeOK /\ LockInv /\ AnnouncedIsSet /\ CommandLife /\ TableIsEmptied
  BY DEF IInv, LockInv
<1>2. TypeOK' /\ LockInv' /\ AnnouncedIsSet' /\ RunsCommands
  BY <1>1, HookTypes, HookLock, HookAnnounces, HookCommands
<1>3. /\ hook'.pc \in {"check", "commit", "post", "reply", "stop"} => hook'.cmd # 0
      /\ hook'.pc = "op" /\ hook'.cmd # 0 => cmds'[hook'.cmd].committed
      /\ hook'.pc \in {"exiting", "dead"} => hook.pc = "exiting" \/ RejectPending
  BY <1>1, HookPlace
<1>4. CommandLife'
  <2>1. ASSUME NEW i \in DOMAIN cmds'
        PROVE  /\ ~(cmds'[i].canceled /\ cmds'[i].committed)
               /\ cmds'[i].applied => cmds'[i].committed
    <3>1. i \in DOMAIN cmds
      BY <1>2 DEF RunsCommands
    <3>2. i # 0
      <4>1. DOMAIN cmds = 1..Len(cmds) /\ Len(cmds) \in Nat
        BY <1>1 DEF TypeOK
      <4>2. QED
        BY <3>1, <4>1
    <3>3. /\ cmds'[i].canceled = cmds[i].canceled
          /\ cmds[i].committed => cmds'[i].committed
          /\ cmds'[i].committed => cmds[i].committed \/ ~cmds[i].canceled
          /\ cmds'[i].applied => cmds[i].applied \/ (hook.pc = "op" /\ i = hook.cmd)
      BY <1>2, <3>1 DEF RunsCommands
    <3>4. /\ ~(cmds[i].canceled /\ cmds[i].committed)
          /\ cmds[i].applied => cmds[i].committed
          /\ hook.pc = "op" /\ i = hook.cmd => cmds[i].committed
      BY <1>1, <3>1, <3>2 DEF CommandLife
    <3>5. QED
      BY <3>3, <3>4
  <2>2. QED
    BY <1>3, <2>1 DEF CommandLife
<1>5. TableIsEmptied'
  <2>1. ASSUME hook'.pc \in {"exiting", "dead"}, NEW i \in DOMAIN cmds', cmds'[i].pending
        PROVE  cmds'[i].late
    <3>1. i \in DOMAIN cmds /\ cmds'[i].late = cmds[i].late /\ cmds[i].pending
      BY <1>2, <2>1 DEF RunsCommands
    <3>2. CASE hook.pc = "exiting"
      BY <1>1, <3>1, <3>2 DEF TableIsEmptied
    <3>3. CASE RejectPending
      <4>1. cmds[i] \in Command
        BY <1>1, <3>1 DEF TypeOK
      <4>2. cmds'[i] = [cmds[i] EXCEPT !.pending = FALSE, !.reply = "rejected"]
        BY <3>1, <3>3 DEF RejectPending
      <4>3. cmds'[i].pending = FALSE
        BY <4>1, <4>2 DEF Command
      <4>4. QED
        BY <2>1, <4>3
    <3>4. QED
      BY <1>3, <2>1, <3>2, <3>3
  <2>2. QED
    BY <2>1 DEF TableIsEmptied
<1>6. QED
  BY <1>2, <1>4, <1>5 DEF IInv, LockInv

LEMMA IInvStep == ASSUME IInv, [Next]_vars PROVE IInv'
<1>1. CASE UNCHANGED vars
  <2>1. /\ gate' = gate /\ locked' = locked /\ session' = session
        /\ nextSession' = nextSession /\ snapshot' = snapshot /\ lastEvent' = lastEvent
        /\ reconciled' = reconciled /\ hook' = hook /\ cmds' = cmds /\ msgq' = msgq
        /\ client' = client
    BY <1>1 DEF vars, lockstate
  <2>2. TypeOK'
    BY <2>1 DEF IInv, TypeOK, Id, Hook
  <2>3. GateHolds' /\ AnnouncedIsSet' /\ Publishing' /\ SessionOnlyUnlocked'
    BY <2>1 DEF IInv, GateHolds, ReconciledIsFinal, AnnouncedIsSet, Publishing,
                SessionOnlyUnlocked
  <2>4. CommandLife' /\ TableIsEmptied' /\ EffectIsThere'
    BY <2>1 DEF IInv, CommandLife, TableIsEmptied, EffectIsThere, Done
  <2>5. QED
    BY <2>2, <2>3, <2>4 DEF IInv
<1>2. CASE Next
  BY <1>2, ClientStep, HookStepInv DEF Next
<1>3. QED
  BY <1>1, <1>2

LEMMA IInvAlways == Spec => []IInv
<1>1. Init => IInv
  BY InitIInv
<1>2. IInv /\ [Next]_vars => IInv'
  BY IInvStep
<1>3. QED
  BY <1>1, <1>2, PTL DEF Spec

-----------------------------------------------------------------------------
(* Theorems *)

\* A canceled command never takes effect, a recording session and Cat Mode exclude
\* each other, and a hook thread that has ended has answered and reconciled.
THEOREM ProtocolInvariance == Spec => []ProtocolInv
<1>1. IInv => ProtocolInv
  <2>1. SUFFICES ASSUME IInv PROVE ProtocolInv
    OBVIOUS
  <2>2. CanceledHasNoEffect
    BY <2>1 DEF IInv, CommandLife, CanceledHasNoEffect
  <2>3. EndedHasAnswered
    BY <2>1 DEF IInv, GateHolds, ReconciledIsFinal, Ending, TableIsEmptied,
                EndedHasAnswered, At
  <2>4. QED
    BY <2>1, <2>2, <2>3 DEF IInv, ProtocolInv
<1>2. QED
  BY <1>1, IInvAlways, PTL

\* Once the hook thread has reconciled a fail-open, no command, key or publication
\* still in flight brings Cat Mode or a session back.
THEOREM ReconciliationIsFinal == Spec => []ReconciledIsFinal
<1>1. IInv => ReconciledIsFinal
  BY DEF IInv, GateHolds
<1>2. QED
  BY <1>1, IInvAlways, PTL

\* Between two messages the published snapshot and the last event are the lock.
THEOREM PublicationIsTrue == Spec => []PublishedIsTrue
<1>1. IInv => PublishedIsTrue
  BY DEF IInv, Publishing, PublishedIsTrue, At
<1>2. QED
  BY <1>1, IInvAlways, PTL

\* A client told that its lock or unlock was accepted finds it published.
THEOREM AcknowledgedIsPublished == Spec => AckAfterPublish
<1> DEFINE A == \A i \in DOMAIN cmds :
                  /\ cmds[i].reply = "none" /\ cmds'[i].reply = "accepted"
                  /\ cmds[i].kind \in {"LOCK", "UNLOCK"}
                  /\ ~gate
                  => /\ snapshot = (cmds[i].kind = "LOCK")
                     /\ lastEvent = (cmds[i].kind = "LOCK")
<1>1. IInv /\ [Next]_vars => [A]_vars
  <2>1. SUFFICES ASSUME IInv, Next PROVE A
    OBVIOUS
  <2>2. SUFFICES ASSUME NEW i \in DOMAIN cmds, cmds[i].reply = "none",
                        cmds'[i].reply = "accepted", cmds[i].kind \in {"LOCK", "UNLOCK"},
                        ~gate
                 PROVE  /\ snapshot = (cmds[i].kind = "LOCK")
                        /\ lastEvent = (cmds[i].kind = "LOCK")
    OBVIOUS
  <2>3. TypeOK /\ Publishing /\ CommandLife /\ EffectIsThere
    BY <2>1 DEF IInv
  <2>4. ASSUME NEW c \in Client, Submit(c) \/ Stop(c) \/ Timeout(c) \/ ClientCleanup(c)
        PROVE  FALSE
    BY <2>2, <2>3, <2>4, ClientCommands DEF KeepsCommands
  <2>5. HookStep \/ KeyEvent \/ LoopEnds
    BY <2>1, <2>4 DEF Next
  <2>6. hook.pc = "reply" /\ hook.accepted /\ i = hook.cmd
    BY <2>2, <2>3, <2>5, HookCommands DEF RunsCommands
  <2>7. snapshot = locked /\ lastEvent = locked
    BY <2>2, <2>3, <2>6 DEF Publishing
  <2>8. locked <=> cmds[i].kind = "LOCK"
    BY <2>2, <2>3, <2>6 DEF EffectIsThere, Done, CommandLife
  <2>9. locked \in BOOLEAN
    BY <2>3 DEF TypeOK
  <2>10. QED
    BY <2>7, <2>8, <2>9
<1>2. QED
  BY <1>1, IInvAlways, PTL DEF Spec, AckAfterPublish
=============================================================================
