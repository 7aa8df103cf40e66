------------------------ MODULE HookLifecycleProofs ------------------------
(***************************************************************************)
(* The start and the stop of the hook thread, whichever native calls fail: *)
(* the claim protocols exclude each other's calls, the handle is the hook, *)
(* one quit message is posted at most, the end of the thread is known, and *)
(* the claim protocol implements NativeResource.                           *)
(***************************************************************************)
EXTENDS HookLifecycle, FiniteSetTheorems, TLAPS

\* Between the claim and the end of the cleanup, or of the quit.
InCall(a) == unhook[a] \in {"call", "done", "undone"}

InQuit(a) == quit[a] \in {"call", "done", "undone"}

\* Where the two claim protocols of the hook thread are while it is elsewhere.
OwnerPlace ==
    /\ owner \notin {"stop_unhook", "reject", "dead"} => unhook["owner"] = "idle"
    /\ At("dead") => unhook["owner"] = "over"
    /\ owner \notin {"stop_quit", "finally", "reject", "dead"} => quit["owner"] = "idle"
    /\ owner \in {"loop", "stop_unhook", "stop_quit"} => ready /\ ~cancelled

\* The fallback is taken once.
MainPlace ==
    /\ unhook["force_unhook"] # "idle" => round = 2 \/ main \in {"await_unhook", "await_quit"}
    /\ quit["post_quit"] # "idle" => round = 2 \/ main = "await_quit"
    /\ main \in {"starting", "running", "fallback", "await_unhook", "await_quit"} => round = 1

\* One thread at most has claimed the cleanup, and the state tells of it.
ClaimPlace ==
    /\ ~(InCall("owner") /\ InCall("force_unhook"))
    /\ cleanup_state = "in_progress" <=> InCall("owner") \/ InCall("force_unhook")
    /\ InCall("owner") \/ InCall("force_unhook") => handle
    /\ cleanup_state = "done" => ~handle

\* HandleIsHook, with what the hook is at each stage of start and cleanup.
HookPlace ==
    /\ owner \in {"boot", "booted", "install", "failed"} => hook = "none" /\ ~handle
    /\ At("publish") => hook = "held" /\ ~handle
    /\ \A a \in Unhookers : /\ unhook[a] \in {"call", "undone"} => hook = "held"
                            /\ unhook[a] = "done" => hook = "freed"
    /\ HandleIsHook

NoQuit == \A n \in DOMAIN queue : queue[n] # Quit
OneQuit == \A m, n \in DOMAIN queue : queue[m] = Quit /\ queue[n] = Quit => m = n

\* One thread at most has claimed the quit, and while the message is still to
\* be posted there is none.
QuitPlace ==
    /\ ~(InQuit("owner") /\ InQuit("post_quit"))
    /\ quit_state = "in_progress" <=> InQuit("owner") \/ InQuit("post_quit")
    /\ quit_state = "available" => NoQuit
    /\ \A a \in Quitters : quit[a] \in {"call", "undone"} => NoQuit
    /\ OneQuit

\* A hook that outlives its thread was reported, or its cleanup is not over.
EndPlace ==
    /\ CleanStopIsClean
    /\ owner \in {"reject", "dead"} /\ unhook["owner"] = "over" /\ hook = "held" =>
          cleanup_error \/ \E a \in Unhookers : unhook[a] \in {"call", "undone", "report"}

HookInv == OwnerPlace /\ MainPlace /\ ClaimPlace /\ HookPlace /\ EndPlace

LInv == TypeOK /\ HookInv /\ QuitPlace

USE DEF thread, cleanup, At, UnhookGoto, QuitGoto, MainGoto, MainUnchanged, Rounds, Quit

-----------------------------------------------------------------------------
(* The messages of the thread *)

LEMMA TailQueue ==
    ASSUME TypeOK, queue # <<>>, queue' = Tail(queue)
    PROVE  /\ queue' \in Seq(Rounds \cup {Quit}) /\ Head(queue) \in Rounds \cup {Quit}
           /\ NoQuit => NoQuit'
           /\ OneQuit => OneQuit'
<1>1. /\ Len(queue) \in Nat /\ DOMAIN queue = 1..Len(queue)
      /\ queue' \in Seq(Rounds \cup {Quit}) /\ Head(queue) \in Rounds \cup {Quit}
      /\ DOMAIN queue' = 1..Len(queue) - 1
      /\ \A n \in 1..Len(queue) - 1 : queue'[n] = queue[n + 1]
  BY DEF TypeOK
<1>2. \A n \in DOMAIN queue' : n + 1 \in DOMAIN queue /\ queue'[n] = queue[n + 1]
  BY <1>1
<1>3. \A m, n \in DOMAIN queue' : m + 1 = n + 1 => m = n
  BY <1>1
<1>4. QED
  BY <1>1, <1>2, <1>3 DEF NoQuit, OneQuit

LEMMA AppendQueue ==
    ASSUME TypeOK, NEW m \in Rounds \cup {Quit}, queue' = Append(queue, m)
    PROVE  /\ queue' \in Seq(Rounds \cup {Quit})
           /\ m # Quit /\ NoQuit => NoQuit'
           /\ m # Quit /\ OneQuit => OneQuit'
           /\ NoQuit => OneQuit'
<1>1. /\ Len(queue) \in Nat /\ DOMAIN queue = 1..Len(queue)
      /\ queue' \in Seq(Rounds \cup {Quit})
      /\ DOMAIN queue' = 1..Len(queue) + 1 /\ queue'[Len(queue) + 1] = m
      /\ \A n \in 1..Len(queue) : queue'[n] = queue[n]
  BY DEF TypeOK
<1>2. \A n \in DOMAIN queue' : \/ n \in DOMAIN queue /\ queue'[n] = queue[n]
                               \/ n = Len(queue) + 1 /\ queue'[n] = m
  BY <1>1
<1>3. QED
  BY <1>1, <1>2 DEF NoQuit, OneQuit

LEMMA QuitFrame ==
    ASSUME QuitPlace, UNCHANGED <<quit, quit_state>>, NoQuit => NoQuit', OneQuit => OneQuit'
    PROVE  QuitPlace'
BY DEF QuitPlace, InQuit

LEMMA QueueSame ==
    ASSUME QuitPlace, UNCHANGED <<quit, quit_state, queue>>
    PROVE  QuitPlace'
BY DEF QuitPlace, InQuit, NoQuit, OneQuit

-----------------------------------------------------------------------------
(* The claim protocols *)

LEMMA UnhookKeeps ==
    ASSUME LInv, NEW a \in Unhookers, UnhookStep(a)
    PROVE  LInv'
<1> USE DEF LInv, Unhookers
<1>1. CASE ClaimHookCleanup(a)
  <2>1. TypeOK'
    BY <1>1 DEF ClaimHookCleanup, TypeOK, UnhookPc
  <2>2. OwnerPlace' /\ MainPlace'
    BY <1>1 DEF ClaimHookCleanup, TypeOK, HookInv, OwnerPlace, MainPlace
  <2>3. ClaimPlace'
    BY <1>1 DEF ClaimHookCleanup, TypeOK, HookInv, ClaimPlace, InCall, Claimable
  <2>4. HookPlace'
    BY <1>1 DEF ClaimHookCleanup, TypeOK, HookInv, ClaimPlace, InCall, Claimable, HookPlace,
       HandleIsHook
  <2>5. EndPlace'
    BY <1>1 DEF ClaimHookCleanup, TypeOK, HookInv, ClaimPlace, InCall, Claimable, HookPlace,
       HandleIsHook, EndPlace, CleanStopIsClean
  <2>6. QuitPlace'
    BY <1>1, QueueSame DEF ClaimHookCleanup
  <2>7. QED
    BY <2>1, <2>2, <2>3, <2>4, <2>5, <2>6 DEF HookInv
<1>2. CASE CallUnhook(a)
  <2>1. TypeOK'
    BY <1>2 DEF CallUnhook, TypeOK, UnhookPc
  <2>2. OwnerPlace' /\ MainPlace'
    BY <1>2 DEF CallUnhook, TypeOK, HookInv, OwnerPlace, MainPlace
  <2>3. ClaimPlace'
    BY <1>2 DEF CallUnhook, TypeOK, HookInv, ClaimPlace, InCall
  <2>4. HookPlace'
    BY <1>2 DEF CallUnhook, TypeOK, HookInv, ClaimPlace, InCall, HookPlace, HandleIsHook
  <2>5. EndPlace'
    BY <1>2 DEF CallUnhook, TypeOK, HookInv, HookPlace, EndPlace, CleanStopIsClean
  <2>6. QuitPlace'
    BY <1>2, QueueSame DEF CallUnhook
  <2>7. QED
    BY <2>1, <2>2, <2>3, <2>4, <2>5, <2>6 DEF HookInv
<1>3. CASE FinishHookCleanup(a)
  <2>1. TypeOK'
    BY <1>3 DEF FinishHookCleanup, TypeOK, UnhookPc, HandleAfterCleanup
  <2>2. OwnerPlace' /\ MainPlace'
    BY <1>3 DEF FinishHookCleanup, TypeOK, HookInv, OwnerPlace, MainPlace
  <2>3. ClaimPlace'
    BY <1>3 DEF FinishHookCleanup, TypeOK, HookInv, ClaimPlace, InCall, HandleAfterCleanup
  <2>4. HookPlace'
    BY <1>3 DEF FinishHookCleanup, TypeOK, HookInv, ClaimPlace, InCall, HookPlace,
       HandleIsHook, HandleAfterCleanup
  <2>5. EndPlace'
    BY <1>3 DEF FinishHookCleanup, TypeOK, HookInv, HookPlace, EndPlace, CleanStopIsClean
  <2>6. QuitPlace'
    BY <1>3, QueueSame DEF FinishHookCleanup
  <2>7. QED
    BY <2>1, <2>2, <2>3, <2>4, <2>5, <2>6 DEF HookInv
<1>4. CASE ReportCleanupError(a)
  <2>1. TypeOK'
    BY <1>4 DEF ReportCleanupError, TypeOK, UnhookPc
  <2>2. OwnerPlace' /\ MainPlace' /\ ClaimPlace' /\ HookPlace' /\ EndPlace'
    BY <1>4 DEF ReportCleanupError, TypeOK, HookInv, OwnerPlace, MainPlace, ClaimPlace, InCall,
       HookPlace, HandleIsHook, EndPlace, CleanStopIsClean
  <2>3. QuitPlace'
    BY <1>4, QueueSame DEF ReportCleanupError
  <2>4. QED
    BY <2>1, <2>2, <2>3 DEF HookInv
<1>5. QED
  BY <1>1, <1>2, <1>3, <1>4 DEF UnhookStep

LEMMA QuitKeeps ==
    ASSUME LInv, NEW a \in Quitters, QuitStep(a)
    PROVE  LInv'
<1> USE DEF LInv, Quitters
<1>1. /\ UNCHANGED <<owner, hook, handle, ready, cancelled, cleanup_state, unhook, main, round>>
      /\ cleanup_error => cleanup_error'
  <2>1. CASE ClaimQuit(a)
    BY <2>1 DEF ClaimQuit
  <2>2. CASE CallQuit(a)
    BY <2>2 DEF CallQuit
  <2>3. CASE FinishQuit(a)
    BY <2>3 DEF FinishQuit
  <2>4. QED
    BY <2>1, <2>2, <2>3 DEF QuitStep
<1>2. ClaimPlace' /\ HookPlace' /\ EndPlace'
  BY <1>1 DEF HookInv, ClaimPlace, InCall, HookPlace, HandleIsHook, EndPlace, CleanStopIsClean
<1>3. OwnerPlace' /\ MainPlace'
  <2>1. quit[a] # "idle" /\ \E pc : quit' = [quit EXCEPT ![a] = pc]
    <3>1. CASE ClaimQuit(a)
      BY <3>1 DEF ClaimQuit
    <3>2. CASE CallQuit(a)
      BY <3>2 DEF CallQuit
    <3>3. CASE FinishQuit(a)
      BY <3>3 DEF FinishQuit
    <3>4. QED
      BY <3>1, <3>2, <3>3 DEF QuitStep
  <2>2. QED
    BY <1>1, <2>1 DEF TypeOK, HookInv, OwnerPlace, MainPlace
<1>4. CASE ClaimQuit(a)
  <2>1. TypeOK'
    BY <1>4 DEF ClaimQuit, TypeOK, QuitPc
  <2>2. QuitPlace'
    BY <1>4 DEF ClaimQuit, QuitClaimable, TypeOK, QuitPlace, InQuit, NoQuit, OneQuit
  <2>3. QED
    BY <1>2, <1>3, <2>1, <2>2 DEF HookInv
<1>5. CASE CallQuit(a)
  <2>1. PICK posted \in BOOLEAN :
           /\ queue' = IF posted THEN Append(queue, Quit) ELSE queue
           /\ quit' = [quit EXCEPT ![a] = IF posted THEN "done" ELSE "undone"]
    BY <1>5 DEF CallQuit, PostOutcomes
  <2>2. NoQuit
    BY <1>5 DEF CallQuit, QuitPlace
  <2>3. /\ queue' \in Seq(Rounds \cup {Quit}) /\ OneQuit'
        /\ ~posted => NoQuit'
    <3>1. CASE posted
      BY <2>1, <2>2, <3>1, AppendQueue
    <3>2. CASE ~posted
      BY <2>1, <2>2, <3>2 DEF TypeOK, NoQuit, OneQuit
    <3>3. QED
      BY <3>1, <3>2
  <2>4. TypeOK'
    BY <1>5, <2>1, <2>3 DEF CallQuit, TypeOK, QuitPc
  <2>5. QuitPlace'
    BY <1>5, <2>1, <2>3 DEF CallQuit, TypeOK, QuitPlace, InQuit
  <2>6. QED
    BY <1>2, <1>3, <2>4, <2>5 DEF HookInv
<1>6. CASE FinishQuit(a)
  <2>1. TypeOK'
    BY <1>6 DEF FinishQuit, TypeOK, QuitPc
  <2>2. QuitPlace'
    BY <1>6 DEF FinishQuit, TypeOK, QuitPlace, InQuit, NoQuit, OneQuit
  <2>3. QED
    BY <1>2, <1>3, <2>1, <2>2 DEF HookInv
<1>7. QED
  BY <1>4, <1>5, <1>6 DEF QuitStep

-----------------------------------------------------------------------------
(* The hook thread *)

LEMMA OwnerKeeps ==
    ASSUME LInv, OwnerStep \/ LoopFails
    PROVE  LInv'
<1> USE DEF LInv
<1>1. CASE Boot
  <2>1. TypeOK'
    BY <1>1 DEF Boot, TypeOK, OwnerPc
  <2>2. HookInv'
    BY <1>1 DEF Boot, TypeOK, Unhookers, HookInv, OwnerPlace, MainPlace, ClaimPlace, InCall,
       HookPlace, HandleIsHook, EndPlace, CleanStopIsClean
  <2>3. QuitPlace'
    BY <1>1, QueueSame DEF Boot
  <2>4. QED
    BY <2>1, <2>2, <2>3
<1>2. CASE InitializeQueue
  <2>1. TypeOK'
    BY <1>2 DEF InitializeQueue, TypeOK, OwnerPc
  <2>2. HookInv'
    BY <1>2 DEF InitializeQueue, TypeOK, Unhookers, HookInv, OwnerPlace, MainPlace,
       ClaimPlace, InCall, HookPlace, HandleIsHook, EndPlace, CleanStopIsClean
  <2>3. QuitPlace'
    BY <1>2, QueueSame DEF InitializeQueue
  <2>4. QED
    BY <2>1, <2>2, <2>3
<1>3. CASE InstallHook
  <2>1. TypeOK'
    BY <1>3 DEF InstallHook, TypeOK, OwnerPc
  <2>2. HookInv'
    BY <1>3 DEF InstallHook, TypeOK, Unhookers, HookInv, OwnerPlace, MainPlace, ClaimPlace,
       InCall, HookPlace, HandleIsHook, EndPlace, CleanStopIsClean
  <2>3. QuitPlace'
    BY <1>3, QueueSame DEF InstallHook
  <2>4. QED
    BY <2>1, <2>2, <2>3
<1>4. CASE PublishHandle
  <2>1. TypeOK'
    BY <1>4 DEF PublishHandle, TypeOK, OwnerPc, PublishTarget
  <2>2. HookInv'
    BY <1>4 DEF PublishHandle, TypeOK, Unhookers, HookInv, OwnerPlace, MainPlace,
       ClaimPlace, InCall, HookPlace, HandleIsHook, EndPlace, CleanStopIsClean,
       PublishTarget
  <2>3. QuitPlace'
    BY <1>4, QueueSame DEF PublishHandle
  <2>4. QED
    BY <2>1, <2>2, <2>3
<1>5. CASE InstallFails
  <2>1. TypeOK'
    BY <1>5 DEF InstallFails, TypeOK, OwnerPc
  <2>2. HookInv'
    BY <1>5 DEF InstallFails, TypeOK, Unhookers, HookInv, OwnerPlace, MainPlace, ClaimPlace,
       InCall, HookPlace, HandleIsHook, EndPlace, CleanStopIsClean
  <2>3. QuitPlace'
    BY <1>5, QueueSame DEF InstallFails
  <2>4. QED
    BY <2>1, <2>2, <2>3
<1>6. CASE LoopFails
  <2>1. TypeOK'
    BY <1>6 DEF LoopFails, TypeOK, OwnerPc
  <2>2. HookInv'
    BY <1>6 DEF LoopFails, TypeOK, Unhookers, HookInv, OwnerPlace, MainPlace, ClaimPlace,
       InCall, HookPlace, HandleIsHook, EndPlace, CleanStopIsClean
  <2>3. QuitPlace'
    BY <1>6, QueueSame DEF LoopFails
  <2>4. QED
    BY <2>1, <2>2, <2>3
<1>7. CASE TakeQuit
  <2>1. /\ queue' \in Seq(Rounds \cup {Quit}) /\ (NoQuit => NoQuit') /\ (OneQuit => OneQuit')
    BY <1>7, TailQueue DEF TakeQuit
  <2>2. TypeOK'
    BY <1>7, <2>1 DEF TakeQuit, TypeOK, OwnerPc
  <2>3. HookInv'
    BY <1>7 DEF TakeQuit, TypeOK, Unhookers, HookInv, OwnerPlace, MainPlace, ClaimPlace,
       InCall, HookPlace, HandleIsHook, EndPlace, CleanStopIsClean
  <2>4. QuitPlace'
    BY <1>7, <2>1, QuitFrame DEF TakeQuit
  <2>5. QED
    BY <2>2, <2>3, <2>4
<1>8. CASE TakeStop
  <2>1. /\ queue' \in Seq(Rounds \cup {Quit}) /\ (NoQuit => NoQuit') /\ (OneQuit => OneQuit')
        /\ Head(queue) \in Rounds
    BY <1>8, TailQueue DEF TakeStop
  <2>2. TypeOK'
    BY <1>8, <2>1 DEF TakeStop, TypeOK, OwnerPc, UnhookPc, Unhookers
  <2>3. HookInv'
    BY <1>8 DEF TakeStop, TypeOK, Unhookers, HookInv, OwnerPlace, MainPlace, ClaimPlace,
       InCall, HookPlace, HandleIsHook, EndPlace, CleanStopIsClean
  <2>4. QuitPlace'
    BY <1>8, <2>1, QuitFrame DEF TakeStop
  <2>5. QED
    BY <2>2, <2>3, <2>4
<1>9. CASE StopUnhooked
  <2>1. TypeOK'
    BY <1>9 DEF StopUnhooked, TypeOK, OwnerPc, UnhookPc, QuitPc, Unhookers, Quitters
  <2>2. HookInv'
    BY <1>9 DEF StopUnhooked, TypeOK, Unhookers, Quitters, HookInv, OwnerPlace, MainPlace,
       ClaimPlace, InCall, HookPlace, HandleIsHook, EndPlace, CleanStopIsClean
  <2>3. QuitPlace'
    BY <1>9 DEF StopUnhooked, TypeOK, Quitters, HookInv, OwnerPlace, QuitPlace, InQuit,
       NoQuit, OneQuit
  <2>4. QED
    BY <2>1, <2>2, <2>3
<1>10. CASE StopAnswers
  <2>1. TypeOK'
    BY <1>10 DEF StopAnswers, TypeOK, OwnerPc
  <2>2. HookInv'
    BY <1>10 DEF StopAnswers, TypeOK, Unhookers, HookInv, OwnerPlace, MainPlace, ClaimPlace,
       InCall, HookPlace, HandleIsHook, EndPlace, CleanStopIsClean
  <2>3. QuitPlace'
    BY <1>10, QueueSame DEF StopAnswers
  <2>4. QED
    BY <2>1, <2>2, <2>3
<1>11. CASE Finally
  <2>1. TypeOK'
    BY <1>11 DEF Finally, TypeOK, OwnerPc, UnhookPc, Unhookers, CleanupAtEnd
  <2>2. HookInv'
    BY <1>11 DEF Finally, TypeOK, Unhookers, HookInv, OwnerPlace, MainPlace, ClaimPlace,
       InCall, HookPlace, HandleIsHook, EndPlace, CleanStopIsClean, CleanupAtEnd
  <2>3. QuitPlace'
    BY <1>11, QueueSame DEF Finally
  <2>4. QED
    BY <2>1, <2>2, <2>3
<1>12. CASE RejectPending
  <2>1. TypeOK'
    BY <1>12 DEF RejectPending, TypeOK, OwnerPc
  <2>2. HookInv'
    BY <1>12 DEF RejectPending, TypeOK, Unhookers, HookInv, OwnerPlace, MainPlace,
       ClaimPlace, InCall, HookPlace, HandleIsHook, EndPlace, CleanStopIsClean
  <2>3. QuitPlace'
    BY <1>12, QueueSame DEF RejectPending
  <2>4. QED
    BY <2>1, <2>2, <2>3
<1>13. QED
  BY <1>1, <1>2, <1>3, <1>4, <1>5, <1>6, <1>7, <1>8, <1>9, <1>10, <1>11, <1>12, UnhookKeeps,
     QuitKeeps
  DEF OwnerStep, Unhookers, Quitters

-----------------------------------------------------------------------------
(* The main thread *)

LEMMA MainKeeps ==
    ASSUME LInv, MainStep \/ Shutdown
    PROVE  LInv'
<1> USE DEF LInv
<1>1. CASE Started
  <2>1. TypeOK'
    BY <1>1 DEF Started, TypeOK, MainPc
  <2>2. HookInv'
    BY <1>1 DEF Started, TypeOK, Unhookers, HookInv, OwnerPlace, MainPlace, ClaimPlace,
       InCall, HookPlace, HandleIsHook, EndPlace, CleanStopIsClean
  <2>3. QuitPlace'
    BY <1>1, QueueSame DEF Started
  <2>4. QED
    BY <2>1, <2>2, <2>3
<1>2. CASE StartTimesOut
  <2>1. TypeOK'
    BY <1>2 DEF StartTimesOut, TypeOK, MainPc
  <2>2. HookInv'
    BY <1>2 DEF StartTimesOut, TypeOK, Unhookers, HookInv, OwnerPlace, MainPlace,
       ClaimPlace, InCall, HookPlace, HandleIsHook, EndPlace, CleanStopIsClean
  <2>3. QuitPlace'
    BY <1>2, QueueSame DEF StartTimesOut
  <2>4. QED
    BY <2>1, <2>2, <2>3
<1>3. CASE Shutdown
  <2>1. TypeOK'
    BY <1>3 DEF Shutdown, TypeOK, MainPc
  <2>2. HookInv'
    BY <1>3 DEF Shutdown, TypeOK, Unhookers, HookInv, OwnerPlace, MainPlace, ClaimPlace,
       InCall, HookPlace, HandleIsHook, EndPlace, CleanStopIsClean
  <2>3. QuitPlace'
    BY <1>3, QueueSame DEF Shutdown
  <2>4. QED
    BY <2>1, <2>2, <2>3
<1>4. CASE Stop
  <2>1. TypeOK'
    BY <1>4 DEF Stop, TypeOK, MainPc
  <2>2. HookInv'
    BY <1>4 DEF Stop, TypeOK, Unhookers, HookInv, OwnerPlace, MainPlace, ClaimPlace, InCall,
       HookPlace, HandleIsHook, EndPlace, CleanStopIsClean
  <2>3. QuitPlace'
    BY <1>4, QueueSame DEF Stop
  <2>4. QED
    BY <2>1, <2>2, <2>3
<1>5. CASE StopReceived
  <2>1. TypeOK'
    BY <1>5 DEF StopReceived, TypeOK, MainPc
  <2>2. HookInv'
    BY <1>5 DEF StopReceived, TypeOK, Unhookers, HookInv, OwnerPlace, MainPlace, ClaimPlace,
       InCall, HookPlace, HandleIsHook, EndPlace, CleanStopIsClean
  <2>3. QuitPlace'
    BY <1>5, QueueSame DEF StopReceived
  <2>4. QED
    BY <2>1, <2>2, <2>3
<1>6. CASE StopTimesOut
  <2>1. TypeOK'
    BY <1>6 DEF StopTimesOut, TypeOK, MainPc
  <2>2. HookInv'
    BY <1>6 DEF StopTimesOut, TypeOK, Unhookers, HookInv, OwnerPlace, MainPlace, ClaimPlace,
       InCall, HookPlace, HandleIsHook, EndPlace, CleanStopIsClean
  <2>3. QuitPlace'
    BY <1>6, QueueSame DEF StopTimesOut
  <2>4. QED
    BY <2>1, <2>2, <2>3
<1>7. CASE Join
  <2>1. TypeOK'
    BY <1>7 DEF Join, TypeOK, MainPc, StopRaises
  <2>2. HookInv'
    BY <1>7 DEF Join, TypeOK, Unhookers, HookInv, OwnerPlace, MainPlace, ClaimPlace, InCall,
       HookPlace, HandleIsHook, EndPlace, CleanStopIsClean, StopRaises, CleanupFailed, Alive
  <2>3. QuitPlace'
    BY <1>7, QueueSame DEF Join
  <2>4. QED
    BY <2>1, <2>2, <2>3
<1>8. CASE ForceUnhook
  <2>1. TypeOK'
    BY <1>8 DEF ForceUnhook, TypeOK, MainPc, UnhookPc, Unhookers
  <2>2. HookInv'
    BY <1>8 DEF ForceUnhook, TypeOK, Unhookers, HookInv, OwnerPlace, MainPlace, ClaimPlace,
       InCall, HookPlace, HandleIsHook, EndPlace, CleanStopIsClean
  <2>3. QuitPlace'
    BY <1>8, QueueSame DEF ForceUnhook
  <2>4. QED
    BY <2>1, <2>2, <2>3
<1>9. CASE StopAgain
  <2>1. TypeOK'
    BY <1>9 DEF StopAgain, TypeOK, MainPc, HookInv, MainPlace
  <2>2. HookInv'
    BY <1>9 DEF StopAgain, TypeOK, Unhookers, HookInv, OwnerPlace, MainPlace, ClaimPlace,
       InCall, HookPlace, HandleIsHook, EndPlace, CleanStopIsClean
  <2>3. QuitPlace'
    BY <1>9, QueueSame DEF StopAgain
  <2>4. QED
    BY <2>1, <2>2, <2>3
<1>10. CASE PostQuit
  <2>1. TypeOK'
    BY <1>10 DEF PostQuit, TypeOK, MainPc, QuitPc, Quitters
  <2>2. HookInv'
    BY <1>10 DEF PostQuit, TypeOK, Unhookers, Quitters, HookInv, OwnerPlace, MainPlace,
       ClaimPlace, InCall, HookPlace, HandleIsHook, EndPlace, CleanStopIsClean
  <2>3. QuitPlace'
    BY <1>10 DEF PostQuit, TypeOK, Quitters, HookInv, MainPlace, QuitPlace, InQuit,
       NoQuit, OneQuit
  <2>4. QED
    BY <2>1, <2>2, <2>3
<1>11. CASE SubmitStop
  <2>1. /\ queue' \in Seq(Rounds \cup {Quit}) /\ (NoQuit => NoQuit') /\ (OneQuit => OneQuit')
    <3>1. CASE queue' = Append(queue, round)
      <4>1. round \in Rounds \cup {Quit} /\ round # Quit
        BY DEF TypeOK
      <4>2. QED
        BY <3>1, <4>1, AppendQueue
    <3>2. CASE queue' = queue
      BY <3>2 DEF TypeOK, NoQuit, OneQuit
    <3>3. QED
      BY <1>11, <3>1, <3>2 DEF SubmitStop
  <2>2. TypeOK'
    BY <1>11, <2>1 DEF SubmitStop, TypeOK, MainPc
  <2>3. HookInv'
    BY <1>11 DEF SubmitStop, TypeOK, Unhookers, HookInv, OwnerPlace, MainPlace, ClaimPlace,
       InCall, HookPlace, HandleIsHook, EndPlace, CleanStopIsClean
  <2>4. QuitPlace'
    BY <1>11, <2>1, QuitFrame DEF SubmitStop
  <2>5. QED
    BY <2>2, <2>3, <2>4
<1>12. QED
  BY <1>1, <1>2, <1>3, <1>4, <1>5, <1>6, <1>7, <1>8, <1>9, <1>10, <1>11 DEF MainStep

LEMMA InitLInv == Init => LInv
<1> SUFFICES ASSUME Init PROVE LInv
  OBVIOUS
<1>1. TypeOK
  <2>1. queue \in Seq(Rounds \cup {Quit})
    BY DEF Init
  <2>2. unhook \in [Unhookers -> UnhookPc] /\ quit \in [Quitters -> QuitPc]
    BY DEF Init, UnhookPc, QuitPc
  <2>3. QED
    BY <2>1, <2>2 DEF Init, TypeOK, OwnerPc, MainPc
<1>2. HookInv
  BY DEF Init, Unhookers, Quitters, HookInv, OwnerPlace, MainPlace, ClaimPlace, InCall, HookPlace,
       HandleIsHook, EndPlace, CleanStopIsClean
<1>3. QuitPlace
  BY DEF Init, Quitters, QuitPlace, InQuit, NoQuit, OneQuit
<1>4. QED
  BY <1>1, <1>2, <1>3 DEF LInv

LEMMA StepLInv == LInv /\ [Next]_vars => LInv'
<1> SUFFICES ASSUME LInv, [Next]_vars PROVE LInv'
  OBVIOUS
<1>1. CASE UNCHANGED vars
  BY <1>1 DEF vars, LInv, TypeOK, HookInv, OwnerPlace, MainPlace, ClaimPlace, InCall, HookPlace,
       HandleIsHook, EndPlace, CleanStopIsClean,
     QuitPlace, InQuit, NoQuit, OneQuit
<1>2. QED
  BY <1>1, OwnerKeeps, MainKeeps, UnhookKeeps, QuitKeeps DEF Next, Unhookers, Quitters

LEMMA LifecycleAlways == Spec => []LInv
BY InitLInv, StepLInv, PTL DEF Spec

-----------------------------------------------------------------------------
(* The properties *)

\* The types, the handle that tells whether the hook is installed, the startup
\* that never serves once start() has given up, and the single quit message
\* hold whichever native calls fail and however the threads interleave.
THEOREM LifecycleCorrect == Spec => []LifecycleInv
<1>1. LInv => LifecycleInv
  <2> SUFFICES ASSUME LInv PROVE LifecycleInv
    OBVIOUS
  <2> DEFINE quits == {n \in DOMAIN queue : queue[n] = Quit}
  <2>1. Cardinality(quits) \in {0, 1}
    <3>1. CASE quits = {}
      BY <3>1, FS_EmptySet
    <3>2. CASE quits # {}
      <4>1. PICK n : quits = {n}
        BY <3>2 DEF LInv, QuitPlace, OneQuit
      <4>2. QED
        BY <4>1, FS_Singleton
    <3>3. QED
      BY <3>1, <3>2
  <2>2. QuitOnce
    BY <2>1 DEF QuitOnce
  <2>3. HandleIsHook /\ CancelledNeverServes
    BY DEF LInv, HookInv, HookPlace, OwnerPlace, CancelledNeverServes
  <2>4. QED
    BY <2>2, <2>3 DEF LInv, LifecycleInv
<1>2. QED
  BY <1>1, LifecycleAlways, PTL

\* A stop() without an error leaves neither a thread nor a hook, and a thread
\* that ends while its hook is still installed has reported it, unless somebody
\* is still trying to remove it.
THEOREM EndCorrect == Spec => []EndIsKnown
<1>1. LInv => EndIsKnown
  BY DEF LInv, HookInv, EndPlace, OwnerPlace, Unhookers, EndIsKnown, EndIsReported
<1>2. QED
  BY <1>1, LifecycleAlways, PTL

LEMMA CallingIs ==
    ASSUME ClaimPlace
    PROVE  /\ \A a \in Unhookers : unhook[a] = "call" => Calling = a
           /\ (\A a \in Unhookers : unhook[a] # "call") => Calling = "nobody"
BY DEF ClaimPlace, InCall, Unhookers, Calling

\* The native calls of the claim protocol are those of NativeResource: whoever
\* unhooks, no two calls overlap and none follows one that has succeeded.
THEOREM RefinesNativeResource == Spec => ImplementsNativeResource
<1>1. Init => Native!Init
  BY DEF Init, Native!Init, Calling, Unhookers
<1>2. LInv /\ LInv' /\ [Next]_vars => [Native!Next]_Native!rvars
  <2> SUFFICES ASSUME LInv, LInv', [Next]_vars PROVE [Native!Next]_Native!rvars
    OBVIOUS
  <2> USE DEF Native!rvars
  <2>1. ASSUME UNCHANGED unhook PROVE UNCHANGED Calling
    BY <2>1 DEF Calling
  <2>2. ASSUME ClaimPlace' PROVE
           /\ \A a \in Unhookers : unhook'[a] = "call" => Calling' = a
           /\ (\A a \in Unhookers : unhook'[a] # "call") => Calling' = "nobody"
    BY <2>2 DEF ClaimPlace, InCall, Unhookers, Calling
  <2>3. /\ unhook \in [Unhookers -> UnhookPc] /\ ClaimPlace /\ ClaimPlace'
        /\ HookPlace
    BY DEF LInv, TypeOK, HookInv
  <2>4. ASSUME UNCHANGED hook, \A a \in Unhookers : unhook[a] = "call" <=> unhook'[a] = "call"
        PROVE  UNCHANGED <<hook, Calling>>
    BY <2>2, <2>3, <2>4, CallingIs
  <2>5. ASSUME NEW a \in Unhookers, UnhookStep(a) PROVE [Native!Next]_Native!rvars
    <3>1. CASE ClaimHookCleanup(a) /\ Claimable
      <4>1. /\ hook = "held" /\ Calling = "nobody"
            /\ unhook'[a] = "call" /\ UNCHANGED hook
        BY <2>3, <3>1, CallingIs DEF ClaimHookCleanup, Claimable, ClaimPlace, InCall,
           HookPlace, HandleIsHook, Unhookers
      <4>2. Calling' = a
        BY <2>2, <2>3, <4>1
      <4>3. Native!Call(a)
        BY <4>1, <4>2 DEF Native!Call
      <4>4. QED
        BY <4>3 DEF Native!Next
    <3>2. CASE ClaimHookCleanup(a) /\ ~Claimable
      BY <2>3, <2>4, <3>2 DEF ClaimHookCleanup
    <3>3. CASE CallUnhook(a)
      <4>1. PICK success \in BOOLEAN : /\ hook' = IF success THEN "freed" ELSE hook
                                       /\ unhook' = [unhook EXCEPT ![a] =
                                                       IF success THEN "done" ELSE "undone"]
        BY <3>3 DEF CallUnhook
      <4>2. unhook[a] = "call" /\ hook = "held" /\ Calling = a
        BY <2>3, <3>3, CallingIs DEF CallUnhook, HookPlace
      <4>3. \A b \in Unhookers : unhook'[b] # "call"
        BY <2>3, <4>1, <4>2 DEF ClaimPlace, InCall, Unhookers
      <4>4. Calling' = "nobody"
        BY <2>2, <2>3, <4>3
      <4>5. Native!Return(success)
        BY <4>1, <4>2, <4>4 DEF Native!Return, Unhookers
      <4>6. QED
        BY <4>5 DEF Native!Next
    <3>4. CASE FinishHookCleanup(a)
      BY <2>3, <2>4, <3>4 DEF FinishHookCleanup
    <3>5. CASE ReportCleanupError(a)
      BY <2>3, <2>4, <3>5 DEF ReportCleanupError
    <3>6. QED
      BY <2>5, <3>1, <3>2, <3>3, <3>4, <3>5 DEF UnhookStep
  <2>6. ASSUME NEW a \in Quitters, QuitStep(a) PROVE UNCHANGED <<hook, Calling>>
    <3>1. UNCHANGED <<hook, unhook>>
      BY <2>6 DEF QuitStep, ClaimQuit, CallQuit, FinishQuit
    <3>2. QED
      BY <2>1, <3>1
  <2>7. CASE InstallHook
    <3>1. hook = "none" /\ UNCHANGED unhook /\ hook' \in {"held", hook}
      BY <2>3, <2>7 DEF InstallHook, HookPlace
    <3>2. QED
      BY <2>1, <3>1 DEF Native!Next, Native!Acquire
  <2>8. CASE TakeStop \/ StopUnhooked \/ Finally
    <3>1. UNCHANGED hook /\ \A a \in Unhookers : unhook[a] = "call" <=> unhook'[a] = "call"
      BY <2>3, <2>8 DEF TakeStop, StopUnhooked, Finally, CleanupAtEnd, LInv, HookInv,
         OwnerPlace, Unhookers
    <3>2. QED
      BY <2>4, <3>1
  <2>9. CASE Boot \/ InitializeQueue \/ PublishHandle \/ InstallFails \/ TakeQuit
             \/ StopAnswers \/ RejectPending \/ LoopFails
    <3>1. UNCHANGED <<hook, unhook>>
      BY <2>9 DEF Boot, InitializeQueue, PublishHandle, InstallFails, TakeQuit,
         StopAnswers, RejectPending, LoopFails
    <3>2. QED
      BY <2>1, <3>1
  <2>10. CASE (MainStep \/ Shutdown) /\ ~ForceUnhook
    <3>1. UNCHANGED <<hook, unhook>>
      BY <2>10 DEF MainStep, Shutdown, Started, StartTimesOut, Stop, SubmitStop,
         StopReceived, StopTimesOut, Join, PostQuit, StopAgain
    <3>2. QED
      BY <2>1, <3>1
  <2>11. CASE ForceUnhook
    <3>1. unhook["force_unhook"] = "idle"
      BY <2>11 DEF ForceUnhook, LInv, HookInv, MainPlace
    <3>2. UNCHANGED hook /\ \A a \in Unhookers : unhook[a] = "call" <=> unhook'[a] = "call"
      BY <2>3, <2>11, <3>1 DEF ForceUnhook, Unhookers
    <3>3. QED
      BY <2>4, <3>2
  <2>12. CASE UNCHANGED vars
    BY <2>1, <2>12 DEF vars
  <2>13. QED
    BY <2>5, <2>6, <2>7, <2>8, <2>9, <2>10, <2>11, <2>12
    DEF Next, OwnerStep, Unhookers, Quitters
<1>3. QED
  BY <1>1, <1>2, LifecycleAlways, PTL DEF Spec, ImplementsNativeResource, Native!Spec
=============================================================================
