----------------------------- MODULE TrayProofs -----------------------------
(***************************************************************************)
(* The tray thread, whichever native calls fail, however often Explorer is *)
(* restarted and however many updates are merged: it knows and shows the   *)
(* newest state, loses no wake-up, tells its end once and removes its icon *)
(* or reports that it could not, and the claim of the icon implements      *)
(* NativeResource.                                                         *)
(***************************************************************************)
EXTENDS Tray, TLAPS

BeforeAdd == {"load", "window", "register", "add"}
Starting == BeforeAdd \cup {"version", "signal", "signal_ready"}

\* Between the claim and the end of the deletion.
InCall(a) == remover[a] \in {"call", "done", "undone"}

Has(m) == \E n \in DOMAIN msgs : msgs[n] = m

\* The fallback is taken once, and nothing is queued before start() returns.
MainPlace ==
    /\ main \in {"starting", "running", "posting", "fallback", "await_remove", "await_quit"}
          => round = 1
    /\ main = "starting" => updates = <<>>
    /\ main \in {"running", "posting"} => ready
    /\ owner \in Starting => ~ready
    /\ remover["force_remove_icon"] # "idle" =>
          round = 2 \/ main \in {"await_remove", "await_quit"}
    /\ main = "clean" => At("dead")

\* What there is at each stage of the tray thread.
OwnerPlace ==
    /\ owner \notin {"cleanup", "dead"} => remover["owner"] = "idle"
    /\ At("dead") => remover["owner"] = "over" /\ window # "open"
    /\ At("load") => ~notify_data
    /\ ~notify_data => owner \in {"load", "cleanup", "dead"}
    /\ owner \in BeforeAdd \/ ~notify_data => icon = NoIcon

\* One thread at most has claimed the deletion, and the state tells of it.
ClaimPlace ==
    /\ ~(InCall("owner") /\ InCall("force_remove_icon"))
    /\ cleanup_state = "in_progress" <=> InCall("owner") \/ InCall("force_remove_icon")
    /\ cleanup_state = "done" <=> icon_deleted
    /\ ~notify_data => cleanup_state = "available"

Place == MainPlace /\ OwnerPlace /\ ClaimPlace /\ EndIsToldOnce

\* The updates that wait lead to the newest one, and the icon shows what the
\* tray knows from the moment it is added, not only in the loop.
ShowPlace ==
    /\ posted = LockAfter(updates)
    /\ icon # NoIcon /\ owner \in Starting \cup {"loop"} /\ fatal = 0 /\ ~intentional
          => icon = Tip(slock)

\* An icon that was deleted does not come back, and one that outlives the
\* cleanup was reported, or its deletion is not over.
DeletePlace ==
    /\ icon_deleted \/ (\E a \in Removers : remover[a] = "done") =>
          icon = NoIcon /\ owner \notin BeforeAdd
    /\ owner \in {"cleanup", "dead"} /\ remover["owner"] = "over" /\ icon # NoIcon =>
          cleanup_error \/ \E a \in Removers : remover[a] \in {"call", "undone", "report"}

\* NoLostWakeup.
WakePlace == updates # <<>> /\ At("loop") /\ main = "running" => Has("update")

LInv == TypeOK /\ Place /\ ShowPlace /\ DeletePlace /\ WakePlace

USE DEF pump, shown, feed, startup, deletion, app, At, RemoverGoto, MainGoto

-----------------------------------------------------------------------------
(* What Explorer shows, and what a handler that raises leaves behind *)

LEMMA IconFacts ==
    /\ NoIcon \in Presentation
    /\ \A l \in BOOLEAN : Tip(l) \in Presentation /\ Tip(l) # NoIcon
BY DEF NoIcon, Presentation, Tip

LEMMA Handled ==
    ASSUME TypeOK, EndIsToldOnce, NEW ok \in BOOLEAN, HandlerEnds(ok)
    PROVE  /\ fatal' \in Nat /\ fatal' <= 1 /\ quitting' \in BOOLEAN
           /\ fatal' = 0 => fatal = 0
           /\ ok \/ fatal' # 0 \/ intentional
<1>1. fatal \in Nat /\ fatal <= 1 /\ {quitting, intentional} \subseteq BOOLEAN
  BY DEF TypeOK, EndIsToldOnce
<1>2. CASE ok
  BY <1>1, <1>2 DEF HandlerEnds
<1>3. CASE ~ok
  <2>1. CASE ~intentional /\ fatal = 0
    BY <1>1, <1>3, <2>1 DEF HandlerEnds, PublishFatal, Publishes
  <2>2. CASE intentional \/ fatal # 0
    BY <1>1, <1>3, <2>2 DEF HandlerEnds, PublishFatal, Publishes
  <2>3. QED
    BY <1>1, <2>1, <2>2
<1>4. QED
  BY <1>2, <1>3

-----------------------------------------------------------------------------
(* The messages of the window *)

LEMMA TailMsgs ==
    ASSUME TypeOK, msgs # <<>>, msgs' = Tail(msgs)
    PROVE  /\ msgs' \in Seq(Message) /\ Head(msgs) \in Message
           /\ \A m : Has(m)' => Has(m)
           /\ \A m : Has(m) /\ m # Head(msgs) => Has(m)'
           /\ Has(Head(msgs))
<1>1. /\ Len(msgs) \in Nat \ {0} /\ DOMAIN msgs = 1..Len(msgs)
      /\ msgs' \in Seq(Message) /\ Head(msgs) \in Message /\ Head(msgs) = msgs[1]
      /\ DOMAIN msgs' = 1..Len(msgs) - 1
      /\ \A n \in 1..Len(msgs) - 1 : msgs'[n] = msgs[n + 1]
  BY DEF TypeOK
<1>2. \A n \in DOMAIN msgs' : n + 1 \in DOMAIN msgs /\ msgs'[n] = msgs[n + 1]
  BY <1>1
<1>3. \A n \in DOMAIN msgs : n = 1 \/ (n - 1 \in DOMAIN msgs' /\ msgs[n] = msgs'[n - 1])
  BY <1>1
<1>4. 1 \in DOMAIN msgs
  BY <1>1
<1>5. QED
  BY <1>1, <1>2, <1>3, <1>4 DEF Has

LEMMA AppendMsgs ==
    ASSUME TypeOK, NEW m \in Message, msgs' = Append(msgs, m)
    PROVE  /\ msgs' \in Seq(Message)
           /\ Has(m)' /\ \A k : Has(k) => Has(k)'
           /\ \A k : Has(k)' => Has(k) \/ k = m
<1>1. /\ Len(msgs) \in Nat /\ DOMAIN msgs = 1..Len(msgs)
      /\ msgs' \in Seq(Message)
      /\ DOMAIN msgs' = 1..Len(msgs) + 1 /\ msgs'[Len(msgs) + 1] = m
      /\ \A n \in 1..Len(msgs) : msgs'[n] = msgs[n]
  BY DEF TypeOK
<1>2. /\ \A n \in DOMAIN msgs : n \in DOMAIN msgs' /\ msgs'[n] = msgs[n]
      /\ \A n \in DOMAIN msgs' : msgs'[n] = m \/ (n \in DOMAIN msgs /\ msgs'[n] = msgs[n])
      /\ Len(msgs) + 1 \in DOMAIN msgs'
  BY <1>1
<1>3. QED
  BY <1>1, <1>2 DEF Has


-----------------------------------------------------------------------------
(* The deletion of the icon *)

LEMMA RemoverKeeps ==
    ASSUME LInv, NEW a \in Removers, RemoverStep(a)
    PROVE  LInv'
<1> USE DEF LInv, RemoverUnchanged
<1>1. CASE ClaimIconDelete(a)
  <2>1. TypeOK'
    BY <1>1 DEF ClaimIconDelete, TypeOK, RemoverPc
  <2>2. Place'
    BY <1>1 DEF ClaimIconDelete, Claimable, MainPlace, OwnerPlace, ClaimPlace, InCall, Place,
       EndIsToldOnce, Removers, TypeOK
  <2>3. ShowPlace'
    BY <1>1 DEF ClaimIconDelete, ShowPlace, LockAfter
  <2>4. DeletePlace'
    BY <1>1 DEF ClaimIconDelete, Claimable, DeletePlace, Place, OwnerPlace, ClaimPlace, InCall,
       Removers, Has, TypeOK
  <2>5. WakePlace'
    BY <1>1 DEF ClaimIconDelete, WakePlace, Has
  <2>6. QED
    BY <2>1, <2>2, <2>3, <2>4, <2>5
<1>2. CASE DeleteIcon(a)
  <2>1. PICK success \in BOOLEAN :
           /\ success => icon # NoIcon
           /\ icon' = IF success THEN NoIcon ELSE icon
           /\ RemoverGoto(a, IF success THEN "done" ELSE "undone")
    BY <1>2 DEF DeleteIcon
  <2>2. /\ UNCHANGED <<owner, pump, slock, notify_data, feed, fatal, startup, app, outside,
                      deletion>>
        /\ remover[a] = "call"
    BY <1>2 DEF DeleteIcon
  <2>3. TypeOK'
    BY <2>1, <2>2, IconFacts DEF TypeOK, RemoverPc
  <2>4. Place'
    BY <2>1, <2>2 DEF MainPlace, OwnerPlace, ClaimPlace, InCall, Place, EndIsToldOnce
  <2>5. ShowPlace'
    BY <2>1, <2>2, IconFacts DEF ShowPlace, LockAfter
  <2>6. DeletePlace'
    BY <2>1, <2>2 DEF DeletePlace, Place, OwnerPlace, Has
  <2>7. WakePlace'
    BY <2>2 DEF WakePlace, Has
  <2>8. QED
    BY <2>3, <2>4, <2>5, <2>6, <2>7
<1>3. CASE FinishIconDelete(a)
  <2>1. TypeOK'
    BY <1>3 DEF FinishIconDelete, TypeOK, RemoverPc
  <2>2. Place'
    BY <1>3 DEF FinishIconDelete, MainPlace, OwnerPlace, ClaimPlace, InCall, Place, EndIsToldOnce,
       BeforeAdd, Starting, Removers, TypeOK, NoIcon
  <2>3. ShowPlace'
    BY <1>3 DEF FinishIconDelete, ShowPlace, LockAfter
  <2>4. DeletePlace'
    BY <1>3 DEF FinishIconDelete, DeletePlace, Has, TypeOK
  <2>5. WakePlace'
    BY <1>3 DEF FinishIconDelete, WakePlace, Has
  <2>6. QED
    BY <2>1, <2>2, <2>3, <2>4, <2>5
<1>4. CASE ReportDeleteError(a)
  <2>1. TypeOK'
    BY <1>4 DEF ReportDeleteError, TypeOK, RemoverPc
  <2>2. Place'
    BY <1>4 DEF ReportDeleteError, MainPlace, OwnerPlace, ClaimPlace, InCall, Place, EndIsToldOnce
  <2>3. ShowPlace'
    BY <1>4 DEF ReportDeleteError, ShowPlace, LockAfter
  <2>4. DeletePlace'
    BY <1>4 DEF ReportDeleteError, DeletePlace, Has
  <2>5. WakePlace'
    BY <1>4 DEF ReportDeleteError, WakePlace, Has
  <2>6. QED
    BY <2>1, <2>2, <2>3, <2>4, <2>5
<1>5. QED
  BY <1>1, <1>2, <1>3, <1>4 DEF RemoverStep

-----------------------------------------------------------------------------
(* The tray thread *)

LEMMA OwnerKeeps ==
    ASSUME LInv, OwnerStep \/ StartupFails \/ LoopFails
    PROVE  LInv'
<1> USE DEF LInv
<1>1. CASE StartupStage
  <2>1. /\ owner \in {"load", "window", "register", "add", "version"}
        /\ owner' = CASE At("load") -> "window" [] At("window") -> "register"
                      [] At("register") -> "add" [] At("add") -> "version"
                      [] OTHER -> "signal"
        /\ window' = IF At("window") THEN "open" ELSE window
        /\ icon' = IF At("add") THEN Tip(slock) ELSE icon
        /\ notify_data' = TRUE
        /\ UNCHANGED <<msgs, quitting, menu, slock, feed, fatal, startup, deletion,
                       remover, app, outside>>
    BY <1>1 DEF StartupStage, Stage
  <2>2. slock \in BOOLEAN /\ owner' \in OwnerPc /\ owner' # "load"
    BY <2>1 DEF TypeOK, OwnerPc
  <2>3. TypeOK'
    BY <2>1, <2>2, IconFacts DEF TypeOK
  <2>4. Place'
    BY <2>1 DEF MainPlace, OwnerPlace, ClaimPlace, InCall, Place, EndIsToldOnce, BeforeAdd,
       Starting
  <2>5. ShowPlace'
    BY <2>1, <2>2, IconFacts DEF ShowPlace, LockAfter, Starting, BeforeAdd
  <2>6. DeletePlace'
    BY <2>1 DEF DeletePlace, BeforeAdd, Has
  <2>7. WakePlace'
    BY <2>1 DEF WakePlace
  <2>8. QED
    BY <2>3, <2>4, <2>5, <2>6, <2>7
<1>2. CASE StartupFails
  <2>1. TypeOK'
    BY <1>2 DEF StartupFails, AbortStartup, TypeOK, OwnerPc
  <2>2. Place'
    BY <1>2 DEF StartupFails, AbortStartup, Stage, MainPlace, OwnerPlace, ClaimPlace, InCall,
       Place, EndIsToldOnce, BeforeAdd, Starting
  <2>3. ShowPlace'
    BY <1>2 DEF StartupFails, AbortStartup, ShowPlace, LockAfter, Starting, BeforeAdd
  <2>4. DeletePlace'
    BY <1>2 DEF StartupFails, AbortStartup, DeletePlace, Place, OwnerPlace, BeforeAdd, Has
  <2>5. WakePlace'
    BY <1>2 DEF StartupFails, AbortStartup, WakePlace
  <2>6. QED
    BY <2>1, <2>2, <2>3, <2>4, <2>5
<1>3. CASE StartupCancelled
  <2>1. TypeOK'
    BY <1>3 DEF StartupCancelled, AbortStartup, TypeOK, OwnerPc
  <2>2. Place'
    BY <1>3 DEF StartupCancelled, AbortStartup, MainPlace, OwnerPlace, ClaimPlace, InCall, Place,
       EndIsToldOnce, BeforeAdd, Starting
  <2>3. ShowPlace'
    BY <1>3 DEF StartupCancelled, AbortStartup, ShowPlace, LockAfter, Starting, BeforeAdd
  <2>4. DeletePlace'
    BY <1>3 DEF StartupCancelled, AbortStartup, DeletePlace, Place, OwnerPlace, BeforeAdd, Has
  <2>5. WakePlace'
    BY <1>3 DEF StartupCancelled, AbortStartup, WakePlace
  <2>6. QED
    BY <2>1, <2>2, <2>3, <2>4, <2>5
<1>4. CASE LastCheck
  <2>1. TypeOK'
    BY <1>4 DEF LastCheck, TypeOK, OwnerPc
  <2>2. Place'
    BY <1>4 DEF LastCheck, MainPlace, OwnerPlace, ClaimPlace, InCall, Place, EndIsToldOnce,
       BeforeAdd, Starting
  <2>3. ShowPlace'
    BY <1>4 DEF LastCheck, ShowPlace, LockAfter, Starting
  <2>4. DeletePlace'
    BY <1>4 DEF LastCheck, DeletePlace, BeforeAdd, Has
  <2>5. WakePlace'
    BY <1>4 DEF LastCheck, WakePlace
  <2>6. QED
    BY <2>1, <2>2, <2>3, <2>4, <2>5
<1>5. CASE SignalReady
  <2>1. TypeOK'
    BY <1>5 DEF SignalReady, TypeOK, OwnerPc
  <2>2. Place'
    BY <1>5 DEF SignalReady, MainPlace, OwnerPlace, ClaimPlace, InCall, Place, EndIsToldOnce,
       BeforeAdd, Starting
  <2>3. ShowPlace'
    BY <1>5 DEF SignalReady, ShowPlace, LockAfter, Starting
  <2>4. DeletePlace'
    BY <1>5 DEF SignalReady, DeletePlace, BeforeAdd, Has
  <2>5. WakePlace'
    BY <1>5 DEF SignalReady, WakePlace, Place, MainPlace, Starting
  <2>6. QED
    BY <2>1, <2>2, <2>3, <2>4, <2>5
<1>6. CASE HandleUpdate
  <2>1. msgs' \in Seq(Message) /\ (\A m : Has(m)' => Has(m))
    BY <1>6, TailMsgs DEF HandleUpdate, Dispatching
  <2>2. /\ At("loop") /\ slock' = LockAfter(updates)
        /\ updates' = SubSeq(updates, Len(updates) + 1, Len(updates))
        /\ UNCHANGED <<owner, window, posted, startup, deletion, remover, app, outside, menu>>
    BY <1>6 DEF HandleUpdate, Dispatching, Drained
  <2>3. updates' = <<>> /\ slock' \in BOOLEAN
    BY <2>2 DEF TypeOK, LockAfter
  <2>4. notify_data' = notify_data
    BY <1>6 DEF HandleUpdate
  <2>5. /\ fatal' \in Nat /\ fatal' <= 1 /\ quitting' \in BOOLEAN /\ (fatal' = 0 => fatal = 0)
        /\ icon' \in Presentation /\ (icon = NoIcon => icon' = NoIcon)
        /\ \/ slock' = slock /\ icon' = icon
           \/ icon' = Tip(slock')
           \/ fatal' # 0 \/ intentional
    <3>1. CASE slock' = slock
      BY <1>6, <3>1 DEF HandleUpdate, TypeOK, Place, EndIsToldOnce
    <3>2. CASE slock' # slock
      <4>1. PICK ok \in BOOLEAN :
               LET success == ok /\ icon # NoIcon IN
               /\ icon' = IF success THEN Tip(slock') ELSE icon
               /\ HandlerEnds(success)
        BY <1>6, <3>2 DEF HandleUpdate
      <4>2. HandlerEnds(ok /\ icon # NoIcon) /\ (ok /\ icon # NoIcon) \in BOOLEAN
        BY <4>1
      <4>3. /\ fatal' \in Nat /\ fatal' <= 1 /\ quitting' \in BOOLEAN
            /\ fatal' = 0 => fatal = 0
            /\ (ok /\ icon # NoIcon) \/ fatal' # 0 \/ intentional
        BY <4>2, Handled DEF Place
      <4>4. QED
        BY <2>3, <4>1, <4>3, IconFacts DEF TypeOK
    <3>3. QED
      BY <3>1, <3>2
  <2>6. TypeOK'
    BY <2>1, <2>2, <2>3, <2>4, <2>5 DEF TypeOK
  <2>7. Place'
    BY <2>2, <2>3, <2>4, <2>5 DEF MainPlace, OwnerPlace, ClaimPlace, InCall, Place, EndIsToldOnce
  <2>8. ShowPlace'
    BY <2>2, <2>3, <2>5 DEF ShowPlace, LockAfter
  <2>9. DeletePlace'
    BY <2>1, <2>2, <2>5 DEF DeletePlace
  <2>10. WakePlace'
    BY <2>3 DEF WakePlace
  <2>11. QED
    BY <2>6, <2>7, <2>8, <2>9, <2>10
<1>7. CASE HandleStop
  <2>1. msgs' \in Seq(Message) /\ (\A m : Has(m)' => Has(m))
        /\ (\A m : Has(m) /\ m # Head(msgs) => Has(m)') /\ Has(Head(msgs))
    BY <1>7, TailMsgs DEF HandleStop, Dispatching
  <2>2. TypeOK'
    BY <1>7, <2>1 DEF HandleStop, Dispatching, TypeOK
  <2>3. Place'
    BY <1>7, <2>1 DEF HandleStop, Dispatching, MainPlace, OwnerPlace, ClaimPlace, InCall, Place,
       EndIsToldOnce
  <2>4. ShowPlace'
    BY <1>7, <2>1 DEF HandleStop, Dispatching, ShowPlace, LockAfter
  <2>5. DeletePlace'
    BY <1>7, <2>1 DEF HandleStop, Dispatching, DeletePlace
  <2>6. WakePlace'
    BY <1>7, <2>1 DEF HandleStop, Dispatching, WakePlace
  <2>7. QED
    BY <2>2, <2>3, <2>4, <2>5, <2>6
<1>8. CASE HandleClick
  <2>1. msgs' \in Seq(Message) /\ (\A m : Has(m)' => Has(m))
        /\ (\A m : Has(m) /\ m # Head(msgs) => Has(m)') /\ Has(Head(msgs))
    BY <1>8, TailMsgs DEF HandleClick, Dispatching
  <2>2. TypeOK'
    BY <1>8, <2>1 DEF HandleClick, Dispatching, TypeOK
  <2>3. Place'
    BY <1>8, <2>1 DEF HandleClick, Dispatching, MainPlace, OwnerPlace, ClaimPlace, InCall, Place,
       EndIsToldOnce
  <2>4. ShowPlace'
    BY <1>8, <2>1 DEF HandleClick, Dispatching, ShowPlace, LockAfter
  <2>5. DeletePlace'
    BY <1>8, <2>1 DEF HandleClick, Dispatching, DeletePlace
  <2>6. WakePlace'
    BY <1>8, <2>1 DEF HandleClick, Dispatching, WakePlace
  <2>7. QED
    BY <2>2, <2>3, <2>4, <2>5, <2>6
<1>9. CASE MenuCloses
  <2>1. TypeOK'
    BY <1>9 DEF MenuCloses, TypeOK
  <2>2. Place'
    BY <1>9 DEF MenuCloses, MainPlace, OwnerPlace, ClaimPlace, InCall, Place, EndIsToldOnce
  <2>3. ShowPlace'
    BY <1>9 DEF MenuCloses, ShowPlace, LockAfter
  <2>4. DeletePlace'
    BY <1>9 DEF MenuCloses, DeletePlace, Has
  <2>5. WakePlace'
    BY <1>9 DEF MenuCloses, WakePlace, Has
  <2>6. QED
    BY <2>1, <2>2, <2>3, <2>4, <2>5
<1>10. CASE LoopEnds
  <2>1. TypeOK'
    BY <1>10 DEF LoopEnds, PublishFatal, TypeOK, OwnerPc
  <2>2. Place'
    BY <1>10 DEF LoopEnds, PublishFatal, Publishes, MainPlace, OwnerPlace, ClaimPlace, InCall,
       Place, EndIsToldOnce, BeforeAdd, Starting, TypeOK
  <2>3. ShowPlace'
    BY <1>10 DEF LoopEnds, ShowPlace, LockAfter, Starting, BeforeAdd
  <2>4. DeletePlace'
    BY <1>10 DEF LoopEnds, DeletePlace, Place, OwnerPlace, BeforeAdd, Has
  <2>5. WakePlace'
    BY <1>10 DEF LoopEnds, WakePlace
  <2>6. QED
    BY <2>1, <2>2, <2>3, <2>4, <2>5
<1>11. CASE LoopFails
  <2>1. TypeOK'
    BY <1>11 DEF LoopFails, PublishFatal, TypeOK, OwnerPc
  <2>2. Place'
    BY <1>11 DEF LoopFails, PublishFatal, Publishes, MainPlace, OwnerPlace, ClaimPlace, InCall,
       Place, EndIsToldOnce, BeforeAdd, Starting, TypeOK
  <2>3. ShowPlace'
    BY <1>11 DEF LoopFails, ShowPlace, LockAfter, Starting, BeforeAdd
  <2>4. DeletePlace'
    BY <1>11 DEF LoopFails, DeletePlace, Place, OwnerPlace, BeforeAdd, Has
  <2>5. WakePlace'
    BY <1>11 DEF LoopFails, WakePlace
  <2>6. QED
    BY <2>1, <2>2, <2>3, <2>4, <2>5
<1>12. CASE CleanupOwner
  <2>1. TypeOK'
    BY <1>12 DEF CleanupOwner, TypeOK, RemoverPc
  <2>2. Place'
    BY <1>12 DEF CleanupOwner, MainPlace, OwnerPlace, ClaimPlace, InCall, Place, EndIsToldOnce
  <2>3. ShowPlace'
    BY <1>12 DEF CleanupOwner, ShowPlace, LockAfter
  <2>4. DeletePlace'
    BY <1>12 DEF CleanupOwner, DeletePlace, Has
  <2>5. WakePlace'
    BY <1>12 DEF CleanupOwner, WakePlace
  <2>6. QED
    BY <2>1, <2>2, <2>3, <2>4, <2>5
<1>13. CASE CleanupEnds
  <2>1. msgs' \in Seq(Message) /\ \A m : ~Has(m)'
    BY <1>13 DEF CleanupEnds, Has
  <2>2. TypeOK'
    BY <1>13, <2>1 DEF CleanupEnds, TypeOK, OwnerPc
  <2>3. Place'
    BY <1>13, <2>1 DEF CleanupEnds, MainPlace, OwnerPlace, ClaimPlace, InCall, Place,
       EndIsToldOnce, BeforeAdd, Starting
  <2>4. ShowPlace'
    BY <1>13, <2>1 DEF CleanupEnds, ShowPlace, LockAfter, Starting, BeforeAdd
  <2>5. DeletePlace'
    BY <1>13, <2>1 DEF CleanupEnds, DeletePlace, BeforeAdd
  <2>6. WakePlace'
    BY <1>13, <2>1 DEF CleanupEnds, WakePlace
  <2>7. QED
    BY <2>2, <2>3, <2>4, <2>5, <2>6
<1>14. QED
  BY <1>1, <1>2, <1>3, <1>4, <1>5, <1>6, <1>7, <1>8, <1>9, <1>10, <1>11, <1>12, <1>13,
     RemoverKeeps DEF OwnerStep, Removers

-----------------------------------------------------------------------------
(* The main thread, its emergency threads, and Explorer *)

LEMMA MainKeeps ==
    ASSUME LInv, MainStep \/ Shutdown \/ QuitterStep \/ ExplorerRestarts \/ Click
                    \/ \E l \in BOOLEAN : PostUpdate(l)
    PROVE  LInv'
<1> USE DEF LInv
<1>1. CASE Started
  <2>1. TypeOK'
    BY <1>1 DEF Started, MainUnchanged, TypeOK, MainPc
  <2>2. Place'
    BY <1>1 DEF Started, MainUnchanged, MainPlace, OwnerPlace, ClaimPlace, InCall, Place,
       EndIsToldOnce
  <2>3. ShowPlace'
    BY <1>1 DEF Started, MainUnchanged, ShowPlace, LockAfter
  <2>4. DeletePlace'
    BY <1>1 DEF Started, MainUnchanged, DeletePlace, Has
  <2>5. WakePlace'
    BY <1>1 DEF Started, WakePlace, Place, MainPlace
  <2>6. QED
    BY <2>1, <2>2, <2>3, <2>4, <2>5
<1>2. CASE StartTimesOut
  <2>1. TypeOK'
    BY <1>2 DEF StartTimesOut, MainUnchanged, TypeOK, MainPc
  <2>2. Place'
    BY <1>2 DEF StartTimesOut, MainUnchanged, MainPlace, OwnerPlace, ClaimPlace, InCall, Place,
       EndIsToldOnce
  <2>3. ShowPlace'
    BY <1>2 DEF StartTimesOut, MainUnchanged, ShowPlace, LockAfter
  <2>4. DeletePlace'
    BY <1>2 DEF StartTimesOut, MainUnchanged, DeletePlace, Has
  <2>5. WakePlace'
    BY <1>2 DEF StartTimesOut, WakePlace
  <2>6. QED
    BY <2>1, <2>2, <2>3, <2>4, <2>5
<1>3. CASE Shutdown
  <2>1. TypeOK'
    BY <1>3 DEF Shutdown, MainUnchanged, TypeOK, MainPc
  <2>2. Place'
    BY <1>3 DEF Shutdown, MainUnchanged, MainPlace, OwnerPlace, ClaimPlace, InCall, Place,
       EndIsToldOnce
  <2>3. ShowPlace'
    BY <1>3 DEF Shutdown, MainUnchanged, ShowPlace, LockAfter
  <2>4. DeletePlace'
    BY <1>3 DEF Shutdown, MainUnchanged, DeletePlace, Has
  <2>5. WakePlace'
    BY <1>3 DEF Shutdown, WakePlace
  <2>6. QED
    BY <2>1, <2>2, <2>3, <2>4, <2>5
<1>4. CASE StopDead
  <2>1. TypeOK'
    BY <1>4 DEF StopDead, MainUnchanged, StopRaises, TypeOK, MainPc
  <2>2. Place'
    BY <1>4 DEF StopDead, MainUnchanged, StopRaises, Alive, MainPlace, OwnerPlace, ClaimPlace,
       InCall, Place, EndIsToldOnce
  <2>3. ShowPlace'
    BY <1>4 DEF StopDead, MainUnchanged, ShowPlace, LockAfter
  <2>4. DeletePlace'
    BY <1>4 DEF StopDead, MainUnchanged, DeletePlace, Has
  <2>5. WakePlace'
    BY <1>4 DEF StopDead, StopRaises, WakePlace
  <2>6. QED
    BY <2>1, <2>2, <2>3, <2>4, <2>5
<1>5. CASE StopCancels
  <2>1. TypeOK'
    BY <1>5 DEF StopCancels, MainUnchanged, TypeOK, MainPc
  <2>2. Place'
    BY <1>5 DEF StopCancels, MainUnchanged, MainPlace, OwnerPlace, ClaimPlace, InCall, Place,
       EndIsToldOnce
  <2>3. ShowPlace'
    BY <1>5 DEF StopCancels, MainUnchanged, ShowPlace, LockAfter
  <2>4. DeletePlace'
    BY <1>5 DEF StopCancels, MainUnchanged, DeletePlace, Has
  <2>5. WakePlace'
    BY <1>5 DEF StopCancels, WakePlace
  <2>6. QED
    BY <2>1, <2>2, <2>3, <2>4, <2>5
<1>6. CASE Join
  <2>1. TypeOK'
    BY <1>6 DEF Join, MainUnchanged, StopRaises, TypeOK, MainPc
  <2>2. Place'
    BY <1>6 DEF Join, MainUnchanged, StopRaises, Alive, MainPlace, OwnerPlace, ClaimPlace, InCall,
       Place, EndIsToldOnce
  <2>3. ShowPlace'
    BY <1>6 DEF Join, MainUnchanged, ShowPlace, LockAfter
  <2>4. DeletePlace'
    BY <1>6 DEF Join, MainUnchanged, DeletePlace, Has
  <2>5. WakePlace'
    BY <1>6 DEF Join, StopRaises, WakePlace
  <2>6. QED
    BY <2>1, <2>2, <2>3, <2>4, <2>5
<1>7. CASE ForceRemoveIcon
  <2>1. TypeOK'
    BY <1>7 DEF ForceRemoveIcon, MainUnchanged, TypeOK, RemoverPc, MainPc
  <2>2. Place'
    BY <1>7 DEF ForceRemoveIcon, MainUnchanged, MainPlace, OwnerPlace, ClaimPlace, InCall, Place,
       EndIsToldOnce
  <2>3. ShowPlace'
    BY <1>7 DEF ForceRemoveIcon, MainUnchanged, ShowPlace, LockAfter
  <2>4. DeletePlace'
    BY <1>7 DEF ForceRemoveIcon, MainUnchanged, DeletePlace, Place, MainPlace, Has
  <2>5. WakePlace'
    BY <1>7 DEF ForceRemoveIcon, WakePlace
  <2>6. QED
    BY <2>1, <2>2, <2>3, <2>4, <2>5
<1>8. CASE PostQuit
  <2>1. TypeOK'
    BY <1>8 DEF PostQuit, MainUnchanged, TypeOK, MainPc
  <2>2. Place'
    BY <1>8 DEF PostQuit, MainUnchanged, MainPlace, OwnerPlace, ClaimPlace, InCall, Place,
       EndIsToldOnce
  <2>3. ShowPlace'
    BY <1>8 DEF PostQuit, MainUnchanged, ShowPlace, LockAfter
  <2>4. DeletePlace'
    BY <1>8 DEF PostQuit, MainUnchanged, DeletePlace, Has
  <2>5. WakePlace'
    BY <1>8 DEF PostQuit, WakePlace
  <2>6. QED
    BY <2>1, <2>2, <2>3, <2>4, <2>5
<1>9. CASE StopAgain
  <2>1. TypeOK'
    BY <1>9 DEF StopAgain, MainUnchanged, TypeOK, MainPc, Place, MainPlace
  <2>2. Place'
    BY <1>9 DEF StopAgain, MainUnchanged, MainPlace, OwnerPlace, ClaimPlace, InCall, Place,
       EndIsToldOnce
  <2>3. ShowPlace'
    BY <1>9 DEF StopAgain, MainUnchanged, ShowPlace, LockAfter
  <2>4. DeletePlace'
    BY <1>9 DEF StopAgain, MainUnchanged, DeletePlace, Has
  <2>5. WakePlace'
    BY <1>9 DEF StopAgain, WakePlace
  <2>6. QED
    BY <2>1, <2>2, <2>3, <2>4, <2>5
<1>10. CASE Announce
  <2>1. msgs' \in Seq(Message) /\ (\A k : Has(k) => Has(k)')
        /\ (\A k : Has(k)' => Has(k) \/ k = "update")
    BY <1>10, AppendMsgs DEF Announce, Post, TypeOK, Message, Has
  <2>2. TypeOK'
    BY <1>10, <2>1 DEF Announce, MainUnchanged, TypeOK, MainPc
  <2>3. Place'
    BY <1>10, <2>1 DEF Announce, MainUnchanged, MainPlace, OwnerPlace, ClaimPlace, InCall, Place,
       EndIsToldOnce
  <2>4. ShowPlace'
    BY <1>10, <2>1 DEF Announce, MainUnchanged, ShowPlace, LockAfter
  <2>5. DeletePlace'
    BY <1>10, <2>1 DEF Announce, MainUnchanged, DeletePlace
  <2>6. WakePlace'
    <3>1. CASE ~Alive
      BY <1>10, <3>1 DEF Announce, MainUnchanged, Alive, WakePlace
    <3>2. CASE Alive
      <4>1. CASE Post("update")
        BY <1>10, <4>1, AppendMsgs DEF Post, Message, WakePlace
      <4>2. CASE ~Post("update")
        BY <1>10, <3>2, <4>2 DEF Announce, WakePlace
      <4>3. QED
        BY <4>1, <4>2
    <3>3. QED
      BY <3>1, <3>2
  <2>7. QED
    BY <2>2, <2>3, <2>4, <2>5, <2>6
<1>11. CASE Stop
  <2>1. msgs' \in Seq(Message) /\ (\A k : Has(k) => Has(k)')
        /\ (\A k : Has(k)' => Has(k) \/ k = "stop")
    BY <1>11, AppendMsgs DEF Stop, Post, TypeOK, Message, Has
  <2>2. TypeOK'
    BY <1>11, <2>1 DEF Stop, MainUnchanged, StopRaises, TypeOK, MainPc
  <2>3. Place'
    BY <1>11, <2>1 DEF Stop, MainUnchanged, StopRaises, MainPlace, OwnerPlace, ClaimPlace, InCall,
       Place, EndIsToldOnce
  <2>4. ShowPlace'
    BY <1>11, <2>1 DEF Stop, MainUnchanged, ShowPlace, LockAfter
  <2>5. DeletePlace'
    BY <1>11, <2>1 DEF Stop, MainUnchanged, DeletePlace
  <2>6. WakePlace'
    BY <1>11, <2>1 DEF Stop, StopRaises, WakePlace
  <2>7. QED
    BY <2>2, <2>3, <2>4, <2>5, <2>6
<1>12. CASE QuitterStep
  <2>1. msgs' \in Seq(Message) /\ (\A k : Has(k) => Has(k)')
        /\ (\A k : Has(k)' => Has(k) \/ k = "stop")
    BY <1>12, AppendMsgs DEF QuitterStep, Post, TypeOK, Message, Has
  <2>2. TypeOK'
    <3>1. /\ quitter' = "over" /\ {intentional, cancelled}' \subseteq BOOLEAN
          /\ {quit_posted, cleanup_error}' \subseteq BOOLEAN
      BY <1>12 DEF QuitterStep, Postable, Outcomes, TypeOK
    <3>2. UNCHANGED <<owner, window, quitting, menu, shown, feed, fatal, ready, install_failed,
                      icon_deleted, cleanup_state, remover, main, round, outside>>
      BY <1>12 DEF QuitterStep
    <3>3. QED
      BY <2>1, <3>1, <3>2 DEF TypeOK
  <2>3. Place'
    BY <1>12, <2>1 DEF QuitterStep, MainPlace, OwnerPlace, ClaimPlace, InCall, Place, EndIsToldOnce
  <2>4. ShowPlace'
    BY <1>12, <2>1 DEF QuitterStep, ShowPlace, LockAfter
  <2>5. DeletePlace'
    BY <1>12, <2>1 DEF QuitterStep, DeletePlace
  <2>6. WakePlace'
    BY <1>12, <2>1 DEF QuitterStep, WakePlace
  <2>7. QED
    BY <2>2, <2>3, <2>4, <2>5, <2>6
<1>13. CASE ExplorerRestarts
  <2>1. TypeOK'
    BY <1>13, IconFacts DEF ExplorerRestarts, TypeOK
  <2>2. Place'
    BY <1>13 DEF ExplorerRestarts, MainPlace, OwnerPlace, ClaimPlace, InCall, Place,
       EndIsToldOnce
  <2>3. ShowPlace'
    BY <1>13 DEF ExplorerRestarts, ShowPlace, LockAfter
  <2>4. DeletePlace'
    BY <1>13 DEF ExplorerRestarts, DeletePlace
  <2>5. WakePlace'
    BY <1>13 DEF ExplorerRestarts, WakePlace, Has
  <2>6. QED
    BY <2>1, <2>2, <2>3, <2>4, <2>5
<1>14. CASE Click
  <2>1. msgs' \in Seq(Message) /\ (\A k : Has(k) => Has(k)')
        /\ (\A k : Has(k)' => Has(k) \/ k = "click")
    BY <1>14, AppendMsgs DEF Click, Post, Message
  <2>2. TypeOK'
    BY <1>14, <2>1 DEF Click, TypeOK
  <2>3. Place'
    BY <1>14, <2>1 DEF Click, MainPlace, OwnerPlace, ClaimPlace, InCall, Place, EndIsToldOnce
  <2>4. ShowPlace'
    BY <1>14, <2>1 DEF Click, ShowPlace, LockAfter
  <2>5. DeletePlace'
    BY <1>14, <2>1 DEF Click, DeletePlace
  <2>6. WakePlace'
    BY <1>14, <2>1 DEF Click, WakePlace
  <2>7. QED
    BY <2>2, <2>3, <2>4, <2>5, <2>6
<1>15. CASE \E l \in BOOLEAN : PostUpdate(l)
  <2>1. TypeOK'
    BY <1>15 DEF PostUpdate, MainUnchanged, TypeOK, MainPc
  <2>2. Place'
    BY <1>15 DEF PostUpdate, MainUnchanged, MainPlace, OwnerPlace, ClaimPlace, InCall, Place,
       EndIsToldOnce
  <2>3. ShowPlace'
    BY <1>15 DEF PostUpdate, MainUnchanged, ShowPlace, LockAfter
  <2>4. DeletePlace'
    BY <1>15 DEF PostUpdate, MainUnchanged, DeletePlace, Has
  <2>5. WakePlace'
    BY <1>15 DEF PostUpdate, WakePlace
  <2>6. QED
    BY <2>1, <2>2, <2>3, <2>4, <2>5
<1>16. QED
  BY <1>1, <1>2, <1>3, <1>4, <1>5, <1>6, <1>7, <1>8, <1>9, <1>10, <1>11, <1>12, <1>13, <1>14, <1>15
     DEF MainStep

LEMMA InitLInv == Init => LInv
<1> SUFFICES ASSUME Init PROVE LInv
  OBVIOUS
<1>1. TypeOK
  <2>1. updates \in Seq(BOOLEAN) /\ msgs \in Seq(Message)
    BY DEF Init
  <2>2. remover \in [Removers -> RemoverPc] /\ icon \in Presentation
    BY IconFacts DEF Init, RemoverPc
  <2>3. owner \in OwnerPc /\ main \in MainPc
    BY DEF Init, OwnerPc, MainPc
  <2>4. /\ window \in {"none", "open", "destroyed"}
        /\ cleanup_state \in {"available", "in_progress", "done"}
        /\ quitter \in {"idle", "quit", "over"} /\ round \in 1..2
        /\ {fatal, outside} \subseteq Nat
    BY DEF Init
  <2>5. {quitting, menu, slock, notify_data, posted, cancelled, intentional, ready,
         install_failed, icon_deleted, cleanup_error, quit_posted} \subseteq BOOLEAN
    BY DEF Init
  <2>6. QED
    BY <2>1, <2>2, <2>3, <2>4, <2>5 DEF TypeOK
<1>2. remover["owner"] = "idle" /\ remover["force_remove_icon"] = "idle"
  BY DEF Init, Removers
<1>3. MainPlace
  BY <1>2 DEF Init, MainPlace
<1>4. OwnerPlace
  BY <1>2 DEF Init, OwnerPlace
<1>5. ClaimPlace
  BY <1>2 DEF Init, ClaimPlace, InCall
<1>6. EndIsToldOnce
  BY DEF Init, EndIsToldOnce
<1>7. ShowPlace
  BY IconFacts DEF Init, ShowPlace, LockAfter
<1>8. DeletePlace
  BY DEF Init, DeletePlace, Has
<1>9. WakePlace
  BY DEF Init, WakePlace
<1>10. QED
  BY <1>1, <1>3, <1>4, <1>5, <1>6, <1>7, <1>8, <1>9 DEF LInv, Place

LEMMA StepLInv == LInv /\ [Next]_vars => LInv'
<1> SUFFICES ASSUME LInv, [Next]_vars PROVE LInv'
  OBVIOUS
<1>1. CASE UNCHANGED vars
  BY <1>1 DEF vars, LInv, TypeOK, Place, MainPlace, OwnerPlace, ClaimPlace, InCall, EndIsToldOnce,
     ShowPlace, LockAfter, DeletePlace, Has, WakePlace
<1>2. QED
  BY <1>1, OwnerKeeps, MainKeeps, RemoverKeeps DEF Next, Removers

LEMMA TrayAlways == Spec => []LInv
BY InitLInv, StepLInv, PTL DEF Spec

-----------------------------------------------------------------------------
(* The theorems *)

\* When nothing waits, the tray knows the newest lock state, and the icon of a
\* serving tray, if it is there, shows it; an update in the queue of a serving
\* tray has a message on its way: after any number of merged updates, menus and
\* restarts of Explorer (NativeTray.post_update, _drain_updates).
THEOREM TrayCorrect == Spec => []TrayInv
<1>1. LInv => ShowsNewest
  BY DEF LInv, ShowPlace, LockAfter, ShowsNewest
<1>2. LInv => TypeOK /\ NoLostWakeup
  BY DEF LInv, WakePlace, Has, NoLostWakeup
<1>3. LInv => TrayInv
  BY <1>1, <1>2 DEF TrayInv
<1>4. QED
  BY <1>3, TrayAlways, PTL

\* The tray thread reports its own end once; an icon that it leaves behind was
\* reported; a stop() that returned normally left no thread and no window
\* (_publish_fatal, _cleanup_owner, NativeTray.stop).
THEOREM EndCorrect == Spec => []EndIsKnown
<1>1. LInv => EndRemovesIcon
  BY DEF LInv, Place, MainPlace, OwnerPlace, DeletePlace, EndRemovesIcon
<1>2. LInv => EndIsKnown
  BY <1>1 DEF LInv, Place, EndIsKnown
<1>3. QED
  BY <1>2, TrayAlways, PTL

-----------------------------------------------------------------------------
(* The claim of the icon *)

LEMMA DeletingFacts ==
    ASSUME LInv
    PROVE  /\ \A a \in Removers : remover[a] = "call" => Deleting = a
           /\ (\A a \in Removers : remover[a] # "call") => Deleting = "nobody"
           /\ "nobody" \notin Removers
BY DEF Deleting, Removers

\* The same after a step.
LEMMA DeletingFactsNext ==
    ASSUME LInv'
    PROVE  /\ \A a \in Removers : remover'[a] = "call" => Deleting' = a
           /\ (\A a \in Removers : remover'[a] # "call") => Deleting' = "nobody"
BY DEF Deleting

\* The resource only follows notify_data, icon_deleted and the deletion.
LEMMA ClaimKept ==
    ASSUME LInv, LInv', UNCHANGED icon_deleted, UNCHANGED notify_data,
           \A a \in Removers : remover'[a] = remover[a]
                               \/ {remover[a], remover'[a]} \cap {"call", "done"} = {}
    PROVE  UNCHANGED <<Data, Deleting>>
<1>1. \A a \in Removers : /\ remover[a] = "call" <=> remover'[a] = "call"
                          /\ remover[a] = "done" <=> remover'[a] = "done"
  OBVIOUS
<1>2. Data' = Data
  BY <1>1 DEF Data
<1>3. Deleting' = Deleting
  <2>1. CASE \E a \in Removers : remover[a] = "call"
    <3>1. PICK a \in Removers : remover[a] = "call"
      BY <2>1
    <3>2. Deleting = a /\ Deleting' = a
      BY <1>1, <3>1, DeletingFacts, DeletingFactsNext
    <3>3. QED
      BY <3>2
  <2>2. CASE \A a \in Removers : remover[a] # "call"
    BY <1>1, <2>2 DEF Deleting
  <2>3. QED
    BY <2>1, <2>2
<1>4. QED
  BY <1>2, <1>3

\* A remover claims notify_data, returns from its call, or changes nothing.
LEMMA RemoverRefines ==
    ASSUME LInv, LInv', NEW a \in Removers, RemoverStep(a)
    PROVE  [Native!Next]_Native!rvars
<1> USE DEF RemoverUnchanged, Native!rvars
<1>1. CASE ClaimIconDelete(a)
  <2>1. CASE Claimable
    <3>1. /\ remover[a] = "claim" /\ remover' = [remover EXCEPT ![a] = "call"]
          /\ UNCHANGED <<notify_data, icon_deleted>>
      BY <1>1, <2>1 DEF ClaimIconDelete
    <3>2. \A b \in Removers : ~InCall(b)
      BY <2>1 DEF LInv, Place, ClaimPlace, Claimable, Removers
    <3>3. Data = "held" /\ Deleting = "nobody"
      BY <2>1, <3>2, DeletingFacts DEF Data, Claimable, InCall
    <3>4. Data' = "held" /\ Deleting' = a
      BY <2>1, <3>1, <3>2, DeletingFactsNext DEF Data, Claimable, InCall, LInv, TypeOK
    <3>5. Native!Call(a)
      BY <3>3, <3>4 DEF Native!Call
    <3>6. QED
      BY <3>5 DEF Native!Next
  <2>2. CASE ~Claimable
    BY <1>1, <2>2, ClaimKept DEF ClaimIconDelete
  <2>3. QED
    BY <2>1, <2>2
<1>2. CASE DeleteIcon(a)
  <2>1. PICK success \in BOOLEAN :
           remover' = [remover EXCEPT ![a] = IF success THEN "done" ELSE "undone"]
    BY <1>2 DEF DeleteIcon
  <2>2. /\ remover[a] = "call" /\ UNCHANGED <<notify_data, icon_deleted>>
        /\ \A b \in Removers : b # a => ~InCall(b)
        /\ ~icon_deleted /\ notify_data
    BY <1>2 DEF DeleteIcon, LInv, Place, ClaimPlace, InCall, Removers
  <2>3. Deleting = a /\ a # "nobody"
    BY <2>2, DeletingFacts
  <2>4. Deleting' = "nobody" /\ Data' = IF success THEN "freed" ELSE "held"
    BY <2>1, <2>2, DeletingFactsNext DEF Data, InCall, LInv, TypeOK
  <2>5. Native!Return(success)
    BY <2>3, <2>4 DEF Native!Return
  <2>6. QED
    BY <2>5 DEF Native!Next
<1>3. CASE FinishIconDelete(a)
  <2>1. /\ remover[a] \in {"done", "undone"} /\ icon_deleted' = (remover[a] = "done")
        /\ remover' = [remover EXCEPT ![a] = IF remover[a] = "done" THEN "over" ELSE "report"]
        /\ UNCHANGED notify_data
    BY <1>3 DEF FinishIconDelete
  <2>2. ~icon_deleted /\ \A b \in Removers : b # a => ~InCall(b)
    BY <2>1 DEF LInv, Place, ClaimPlace, InCall, Removers
  <2>3. Deleting = "nobody" /\ Deleting' = "nobody"
    BY <2>1, <2>2, DeletingFacts, DeletingFactsNext DEF InCall
  <2>4. Data' = Data
    BY <2>1, <2>2 DEF Data, LInv, TypeOK
  <2>5. QED
    BY <2>3, <2>4
<1>4. CASE ReportDeleteError(a)
  BY <1>4, ClaimKept DEF ReportDeleteError
<1>5. QED
  BY <1>1, <1>2, <1>3, <1>4 DEF RemoverStep

\* The claim of the icon is NativeResource's: whoever deletes it, no two calls
\* overlap, and none follows one that has succeeded (_claim_icon_delete).
THEOREM RefinesNativeResource == Spec => ImplementsNativeResource
<1>1. Init => Native!Init
  BY DEF Init, Native!Init, Data, Deleting
<1>2. LInv /\ LInv' /\ [Next]_vars => [Native!Next]_Native!rvars
  <2> SUFFICES ASSUME LInv, LInv', [Next]_vars PROVE [Native!Next]_Native!rvars
    OBVIOUS
  <2> USE DEF Native!rvars
  <2>1. CASE \E a \in Removers : RemoverStep(a)
    BY <2>1, RemoverRefines
  <2>2. CASE StartupStage
    <3>1. /\ notify_data' = TRUE /\ UNCHANGED <<icon_deleted, remover>>
          /\ At("load") <=> ~notify_data
      BY <2>2 DEF StartupStage, Stage, LInv, Place, OwnerPlace
    <3>2. CASE ~At("load")
      BY <3>1, <3>2, ClaimKept
    <3>3. CASE At("load")
      <4>1. /\ ~icon_deleted /\ \A a \in Removers : remover[a] \notin {"call", "done"}
        BY <3>1, <3>3 DEF LInv, Place, ClaimPlace, InCall, Removers
      <4>2. Data = "none" /\ Data' = "held" /\ UNCHANGED Deleting
        BY <3>1, <3>3, <4>1 DEF Data, Deleting
      <4>3. QED
        BY <4>2 DEF Native!Next, Native!Acquire
    <3>4. QED
      BY <3>2, <3>3
  <2>3. CASE CleanupOwner \/ ForceRemoveIcon
    <3>1. UNCHANGED <<icon_deleted, notify_data>>
      BY <2>3 DEF CleanupOwner, ForceRemoveIcon, MainUnchanged
    <3>2. PICK a \in Removers : remover[a] = "idle" /\ remover' = [remover EXCEPT ![a] = "claim"]
      BY <2>3 DEF CleanupOwner, ForceRemoveIcon, LInv, Place, MainPlace, Removers
    <3>3. QED
      BY <3>1, <3>2, ClaimKept
  <2>4. CASE HandleUpdate
    BY <2>4, ClaimKept DEF HandleUpdate, Dispatching
  <2>5. CASE OwnerStep \/ StartupFails \/ LoopFails
    <3>1. CASE StartupFails \/ StartupCancelled
      BY <3>1, ClaimKept DEF StartupFails, StartupCancelled, AbortStartup, LInv, Place, OwnerPlace
    <3>2. CASE LastCheck \/ SignalReady \/ HandleStop \/ HandleClick \/ MenuCloses
      BY <3>2, ClaimKept DEF LastCheck, SignalReady, HandleStop, HandleClick, Dispatching,
         MenuCloses
    <3>3. CASE LoopEnds \/ LoopFails \/ CleanupEnds
      BY <3>3, ClaimKept DEF LoopEnds, LoopFails, CleanupEnds
    <3>4. QED
      BY <2>1, <2>2, <2>3, <2>4, <2>5, <3>1, <3>2, <3>3 DEF OwnerStep, Removers
  <2>6. CASE MainStep \/ Shutdown \/ \E l \in BOOLEAN : PostUpdate(l)
    <3>1. CASE Started \/ StartTimesOut \/ Announce \/ StopDead \/ Stop \/ StopCancels
      BY <3>1, ClaimKept DEF Started, StartTimesOut, Announce, StopDead, Stop, StopCancels,
         MainUnchanged
    <3>2. CASE Join \/ PostQuit \/ StopAgain \/ Shutdown \/ \E l \in BOOLEAN : PostUpdate(l)
      BY <3>2, ClaimKept DEF Join, PostQuit, StopAgain, Shutdown, PostUpdate, MainUnchanged
    <3>3. QED
      BY <2>3, <2>6, <3>1, <3>2 DEF MainStep
  <2>7. CASE QuitterStep \/ ExplorerRestarts \/ Click \/ UNCHANGED vars
    BY <2>7, ClaimKept DEF QuitterStep, ExplorerRestarts, Click, vars
  <2>8. QED
    BY <2>1, <2>5, <2>6, <2>7 DEF Next, Removers
<1>3. QED
  BY <1>1, <1>2, TrayAlways, PTL DEF Spec, ImplementsNativeResource, Native!Spec
=============================================================================
