-------------------------- MODULE ApplicationProofs --------------------------
(***************************************************************************)
(* The application thread, however often the user acts, whichever step     *)
(* fails and whichever dialogs are stacked; and the guard that leaves one  *)
(* such application per session, for any number of launches.               *)
(*                                                                         *)
(* The stack of event loops is what makes this hard: a step sees its top   *)
(* only, and what lies below was begun when everything was different.  The *)
(* invariant therefore says what a stack may hold at all, by the phase the *)
(* application is in (start(), running, failed, closing, destroyed), and   *)
(* the steps of a nested event loop are shown to push nothing that changes *)
(* the phase (Follows), so that whatever is below still fits.              *)
(***************************************************************************)
EXTENDS AppLifecycle, SingleInstance, FiniteSetTheorems, TLAPS

\* The calls in a stack, and how the pump occurs there.
Calls(s) == {s[i] : i \in DOMAIN s}
NoPump(s) == Calls(s) \cap PumpPhase = {}
OnePump(s) == \A i, j \in DOMAIN s : s[i] \in PumpPhase /\ s[j] \in PumpPhase => i = j

\* start() runs alone: nothing else has begun and nothing is served.
StartPlace ==
    Calls(stack) \cap StartCall # {} =>
        /\ \E c \in StartCall : stack = <<c>> \/ stack = <<"error">> \o <<c>>
        /\ ~scheduled /\ ~app.running /\ ~app.closing /\ ~app.fatal /\ ~app.destroyed
        /\ ~window.open /\ tray.thread # "running"

\* A fatal error fails open and leads to the shutdown.
FatalPlace ==
    /\ app.fatal => hook.gate /\ ("fatal" \in Calls(stack) \/ app.closing)
    /\ "fatal" \in Calls(stack) => app.fatal

\* How far the shutdown is: the keyboard is free from its second step on, and
\* no dialog comes before.
ClosePlace ==
    /\ app.closing => ~scheduled /\ ~app.running
    /\ app.closing /\ ~hook.gate => stack # <<>> /\ Top \in {"unlock", "fail open"}
    /\ Calls(stack) \cap StopCall # {} => app.closing
    /\ Calls(stack) \cap {"stop hook", "stop tray", "report"} # {} => hook.gate

\* The root is destroyed last, by the shutdown or by a start() that failed.
EndPlace ==
    "destroy" \in Calls(stack) \/ app.destroyed =>
        /\ hook.gate /\ tray.thread # "running" /\ ~scheduled /\ ~app.running
        /\ app.closing \/ (Calls(stack) \subseteq {"error", "destroy"} /\ ~window.open)

PumpPlace == OnePump(stack) /\ (scheduled => NoPump(stack))

Place == StartPlace /\ FatalPlace /\ ClosePlace /\ EndPlace /\ PumpPlace

AInv == TypeOK /\ Place

\* The pump that a running application has, or the fatal error that ends it.
PumpGoes == app.running => scheduled \/ ~NoPump(stack) \/ "fatal" \in Calls(stack)

-----------------------------------------------------------------------------
(* Stacks *)

LEMMA Push ==
    ASSUME NEW s \in Seq(Call), NEW c \in Call
    PROVE  /\ <<c>> \o s \in Seq(Call) /\ <<c>> \o s # <<>>
           /\ Head(<<c>> \o s) = c /\ Tail(<<c>> \o s) = s
           /\ Calls(<<c>> \o s) = {c} \cup Calls(s)
           /\ c \notin PumpPhase /\ OnePump(s) => OnePump(<<c>> \o s)
           /\ NoPump(s) => OnePump(<<c>> \o s)
           /\ NoPump(<<c>> \o s) <=> c \notin PumpPhase /\ NoPump(s)
<1> DEFINE t == <<c>> \o s
<1>1. /\ t \in Seq(Call) /\ Len(s) \in Nat /\ Len(t) = Len(s) + 1
      /\ DOMAIN s = 1..Len(s) /\ DOMAIN t = 1..Len(s) + 1
      /\ t[1] = c /\ \A i \in 1..Len(s) : t[i + 1] = s[i]
      /\ t # <<>> /\ Head(t) = c
  OBVIOUS
<1>2. Tail(t) = s
  OBVIOUS
<1> HIDE DEF t
<1>3. /\ 1 \in DOMAIN t
      /\ \A i \in DOMAIN s : i + 1 \in DOMAIN t /\ t[i + 1] = s[i]
      /\ \A i \in DOMAIN t : i = 1 \/ (i - 1 \in DOMAIN s /\ t[i] = s[i - 1])
  BY <1>1
<1>4. Calls(t) = {c} \cup Calls(s)
  <2>1. Calls(t) \subseteq {c} \cup Calls(s)
    BY <1>1, <1>3 DEF Calls
  <2>2. {c} \cup Calls(s) \subseteq Calls(t)
    BY <1>1, <1>3 DEF Calls
  <2>3. QED
    BY <2>1, <2>2
<1>5. \A i, j \in DOMAIN t : i # 1 /\ j # 1 /\ i - 1 = j - 1 => i = j
  BY <1>1
<1>6. c \notin PumpPhase /\ OnePump(s) => OnePump(t)
  BY <1>1, <1>3, <1>5 DEF OnePump
<1>7. NoPump(s) => OnePump(t)
  BY <1>1, <1>3 DEF OnePump, NoPump, Calls
<1>8. NoPump(t) <=> c \notin PumpPhase /\ NoPump(s)
  BY <1>4 DEF NoPump
<1>9. QED
  BY <1>1, <1>2, <1>4, <1>6, <1>7, <1>8 DEF t

\* Two calls are pushed one after the other.
LEMMA PushTwo ==
    ASSUME NEW s \in Seq(Call), NEW c \in Call, NEW d \in Call
    PROVE  <<d, c>> \o s = <<d>> \o (<<c>> \o s)
OBVIOUS

LEMMA Pop ==
    ASSUME NEW s \in Seq(Call), s # <<>>
    PROVE  /\ Head(s) \in Call /\ Tail(s) \in Seq(Call)
           /\ s = <<Head(s)>> \o Tail(s)
           /\ Calls(s) = {Head(s)} \cup Calls(Tail(s))
           /\ OnePump(s) => OnePump(Tail(s))
           /\ NoPump(s) <=> Head(s) \notin PumpPhase /\ NoPump(Tail(s))
           /\ OnePump(s) /\ Head(s) \in PumpPhase => NoPump(Tail(s))
<1> DEFINE t == Tail(s)
<1>1. /\ t \in Seq(Call) /\ Len(s) \in Nat \ {0} /\ Len(t) = Len(s) - 1 /\ Head(s) = s[1]
      /\ Head(s) \in Call
      /\ DOMAIN s = 1..Len(s) /\ DOMAIN t = 1..Len(s) - 1
      /\ \A i \in 1..Len(s) - 1 : t[i] = s[i + 1]
  OBVIOUS
<1>2. s = <<Head(s)>> \o t
  OBVIOUS
<1> HIDE DEF t
<1>3. Calls(s) = {Head(s)} \cup Calls(t)
  BY <1>1, <1>2, Push
<1>4. \A i \in DOMAIN t : i + 1 \in DOMAIN s /\ t[i] = s[i + 1] /\ i + 1 # 1
  BY <1>1
<1>5. \A i, j \in DOMAIN t : i + 1 = j + 1 => i = j
  BY <1>1
<1>6. OnePump(s) => OnePump(t)
  BY <1>4, <1>5 DEF OnePump
<1>7. OnePump(s) /\ Head(s) \in PumpPhase => NoPump(t)
  <2>1. 1 \in DOMAIN s
    BY <1>1
  <2>2. QED
    BY <1>1, <1>4, <2>1 DEF OnePump, NoPump, Calls
<1>8. NoPump(s) <=> Head(s) \notin PumpPhase /\ NoPump(t)
  BY <1>3 DEF NoPump
<1>9. QED
  BY <1>1, <1>2, <1>3, <1>6, <1>7, <1>8 DEF t

LEMMA EmptyStack == <<>> \in Seq(Call) /\ Calls(<<>>) = {} /\ OnePump(<<>>) /\ NoPump(<<>>)
BY DEF Calls, OnePump, NoPump
-----------------------------------------------------------------------------
(* Once start() is over *)

Later == Dialog \cup PumpPhase \cup {"save"}

\* A stack that calls of the event loops may leave.
Within(s) ==
    /\ s \in Seq(Call) /\ OnePump(s)
    /\ Calls(s) \subseteq Calls(stack) \cup Later

Follows(s) == Within(s) /\ ("fatal" \in Calls(stack) => "fatal" \in Calls(s))

Looping ==
    /\ stack # <<>> /\ Calls(stack) \cap StartCall = {}
    /\ app.closing => hook.gate
    /\ "destroy" \in Calls(stack) \/ app.destroyed => app.closing

\* The fields that tell how far the application is.
SamePhase(fields) ==
    /\ fields.running = app.running /\ fields.closing = app.closing
    /\ fields.fatal = app.fatal /\ fields.destroyed = app.destroyed

\* What no step of the event loops takes back.
NothingTakenBack ==
    /\ hook.gate => hook'.gate
    /\ tray'.thread = "running" => tray.thread = "running"

LEMMA LaterCalls ==
    /\ Later \subseteq Call /\ Later \cap StartCall = {} /\ Later \cap StopCall = {}
    /\ "fatal" \notin Later /\ "destroy" \notin Later /\ "report" \notin Later
    /\ "error" \in Later /\ PumpPhase \subseteq Later /\ Dialog \cap PumpPhase = {}
    /\ {"fatal", "unlock", "save", "error"} \cap PumpPhase = {}
    /\ "fatal" \in Call /\ "unlock" \in Call
BY DEF Later, Dialog, PumpPhase, StartCall, StopCall, Call, EventLoop

LEMMA Alone == ASSUME NEW c, NEW s, s = <<>> PROVE <<c>> \o s = <<c>>
OBVIOUS

\* start() is at c, or in the dialog that comes before c.
LEMMA StartStacks ==
    ASSUME NEW c \in Call, NEW s, s = <<c>> \/ s = <<"error">> \o <<c>>
    PROVE  /\ s \in Seq(Call) /\ s # <<>> /\ Head(s) \in {"error", c}
           /\ c \in Calls(s) /\ Calls(s) \subseteq {"error", c}
           /\ Head(s) = c /\ c # "error" => Tail(s) = <<>>
           /\ c \notin PumpPhase => OnePump(s) /\ NoPump(s)
<1>1. "error" \in Call /\ "error" \notin PumpPhase
  BY LaterCalls
<1>2. <<c>> = <<c>> \o <<>>
  BY Alone
<1>3. /\ <<c>> \in Seq(Call) /\ <<c>> # <<>> /\ Calls(<<c>>) = {c}
      /\ Head(<<c>>) = c /\ Tail(<<c>>) = <<>>
      /\ c \notin PumpPhase => OnePump(<<c>>)
  BY <1>2, EmptyStack, Push
<1>4. CASE s = <<c>>
  BY <1>1, <1>3, <1>4 DEF NoPump
<1>5. CASE s = <<"error">> \o <<c>>
  <2>1. /\ s \in Seq(Call) /\ s # <<>> /\ Head(s) = "error"
        /\ Calls(s) = {"error"} \cup Calls(<<c>>)
        /\ OnePump(<<c>>) => OnePump(s)
    BY <1>1, <1>3, <1>5, Push
  <2>2. QED
    BY <1>1, <1>3, <2>1 DEF NoPump
<1>6. QED
  BY <1>4, <1>5

LEMMA LoopingAt ==
    ASSUME AInv, stack # <<>>,
           \/ Top \in PumpPhase \cup {"save", "main loop", "status", "warning", "fatal"}
           \/ Top = "error" /\ (scheduled \/ (window.open /\ ~app.destroyed))
    PROVE  Looping
<1>1. Top \in Calls(stack)
  BY Pop DEF AInv, TypeOK, Top
<1>2. Top \notin {"unlock", "fail open"} /\ Top \notin StartCall
  BY DEF PumpPhase, StartCall
<1>3. Top \notin {"error", "destroy"} \/ scheduled \/ (window.open /\ ~app.destroyed)
  BY DEF PumpPhase
<1>4. Top \notin StartCall \cup {"error"} \/ scheduled \/ window.open
  BY DEF PumpPhase, StartCall
<1>5. app.closing => hook.gate
  BY <1>2 DEF AInv, Place, ClosePlace
<1>6. Calls(stack) \cap StartCall = {}
  <2>1. ASSUME NEW c \in StartCall, stack = <<c>> \/ stack = <<"error">> \o <<c>>
        PROVE  Top \in StartCall \cup {"error"}
    BY <2>1, StartStacks DEF Top, Call
  <2>2. QED
    BY <1>1, <1>4, <2>1 DEF AInv, Place, StartPlace
<1>7. "destroy" \in Calls(stack) \/ app.destroyed => app.closing
  BY <1>1, <1>3 DEF AInv, Place, EndPlace
<1>8. QED
  BY <1>5, <1>6, <1>7 DEF Looping

\* A step that leaves the phase of the application alone.
LEMMA PlainStep ==
    ASSUME AInv, Looping, Follows(stack'), SamePhase(app'), NothingTakenBack,
           scheduled' => NoPump(stack') /\ ~app.closing
    PROVE  Place'
<1>1. Calls(stack') \cap StartCall = {}
  BY LaterCalls DEF Looping, Follows, Within
<1>2. StartPlace'
  BY <1>1 DEF StartPlace
<1>3. "fatal" \in Calls(stack') <=> "fatal" \in Calls(stack)
  BY LaterCalls DEF Follows, Within
<1>4. FatalPlace'
  BY <1>3 DEF AInv, Place, FatalPlace, SamePhase, NothingTakenBack
<1>5. /\ Calls(stack') \cap StopCall \subseteq Calls(stack) \cap StopCall
      /\ "report" \notin Calls(stack')
      /\ "destroy" \in Calls(stack') => "destroy" \in Calls(stack)
  BY <1>1, LaterCalls DEF Follows, Within, StartCall
<1>6. ClosePlace'
  BY <1>5 DEF AInv, Place, ClosePlace, SamePhase, NothingTakenBack, Looping, StopCall
<1>7. EndPlace'
  BY <1>5 DEF AInv, Place, EndPlace, SamePhase, NothingTakenBack, Looping
<1>8. PumpPlace'
  BY DEF PumpPlace, Follows, Within
<1>9. QED
  BY <1>2, <1>4, <1>6, <1>7, <1>8 DEF Place

\* A dialog changes nothing but the calls in the stack.
LEMMA ReportingCalls ==
    ASSUME NEW s \in Seq(Call)
    PROVE  /\ Reporting(s) \in Seq(Call)
           /\ Calls(Reporting(s)) \subseteq Calls(s) \cup {"error"}
           /\ Calls(s) \subseteq Calls(Reporting(s))
           /\ OnePump(s) => OnePump(Reporting(s))
           /\ NoPump(s) <=> NoPump(Reporting(s))
           /\ ~app.destroyed => Reporting(s) # <<>> /\ Head(Reporting(s)) = "error"
<1>1. "error" \in Call /\ "error" \notin PumpPhase
  BY LaterCalls
<1>2. CASE app.destroyed
  BY <1>2 DEF Reporting
<1>3. CASE ~app.destroyed
  BY <1>1, <1>3, Push DEF Reporting
<1>4. QED
  BY <1>2, <1>3

\* _handle_fatal, the first time and again.
LEMMA FatalStep ==
    ASSUME AInv, Looping, NEW s, Follows(s), NEW fields, SamePhase(fields),
           HandleFatalWith(fields, s), tray'.thread = "running" => tray.thread = "running",
           UNCHANGED scheduled, scheduled => NoPump(s), fields \in AppState
    PROVE  Place' /\ stack' \in Seq(Call)
<1>1. CASE fields.fatal
  <2>1. stack' = s /\ app' = fields /\ UNCHANGED hook
    BY <1>1 DEF HandleFatalWith
  <2>2. scheduled' => NoPump(stack') /\ ~app.closing
    BY <2>1 DEF AInv, Place, ClosePlace
  <2>3. QED
    BY <2>1, <2>2, PlainStep DEF NothingTakenBack, Follows, Within
<1>2. CASE ~fields.fatal
  <2> DEFINE t == <<"fatal">> \o s
  <2>1. /\ app' = [fields EXCEPT !.fatal = TRUE] /\ hook' = [hook EXCEPT !.gate = TRUE]
        /\ stack' = Reporting(t)
    BY <1>2 DEF HandleFatalWith, FatalCalls
  <2>2. /\ app'.fatal /\ app'.running = app.running /\ app'.closing = app.closing
        /\ app'.destroyed = app.destroyed /\ hook'.gate
    BY <2>1 DEF SamePhase
  <2>3. /\ t \in Seq(Call) /\ Calls(t) = {"fatal"} \cup Calls(s)
        /\ OnePump(t) /\ (NoPump(s) => NoPump(t))
    BY LaterCalls, Push DEF Follows, Within
  <2> HIDE DEF t
  <2>4. /\ stack' \in Seq(Call) /\ OnePump(stack') /\ (NoPump(s) => NoPump(stack'))
        /\ "fatal" \in Calls(stack')
        /\ Calls(stack') \subseteq Calls(stack) \cup Later \cup {"fatal"}
    BY <2>1, <2>3, ReportingCalls, LaterCalls DEF Follows, Within
  <2>5. /\ Calls(stack') \cap StartCall = {} /\ "report" \notin Calls(stack')
        /\ Calls(stack') \cap StopCall \subseteq Calls(stack) \cap StopCall
        /\ "destroy" \in Calls(stack') => "destroy" \in Calls(stack)
    BY <2>4, LaterCalls DEF Looping, StartCall
  <2>6. StartPlace' /\ FatalPlace'
    BY <2>2, <2>4, <2>5 DEF StartPlace, FatalPlace
  <2>7. ClosePlace' /\ EndPlace'
    BY <2>2, <2>5 DEF AInv, Place, ClosePlace, EndPlace, Looping
  <2>8. PumpPlace'
    BY <2>4 DEF PumpPlace
  <2>9. QED
    BY <2>4, <2>6, <2>7, <2>8 DEF Place
<1>3. QED
  BY <1>1, <1>2

\* shutdown(), the first time and again.
LEMMA ShutdownStep ==
    ASSUME AInv, Looping, NEW s, Within(s), CallShutdown(s), UNCHANGED <<hook, tray, window>>
    PROVE  Place' /\ stack' \in Seq(Call) /\ app' \in AppState /\ scheduled' \in BOOLEAN
           /\ app'.closing
<1>1. /\ Calls(s) \cap StartCall = {} /\ "report" \notin Calls(s)
      /\ Calls(s) \cap StopCall \subseteq Calls(stack) \cap StopCall
      /\ "destroy" \in Calls(s) => "destroy" \in Calls(stack)
      /\ "fatal" \in Calls(s) => "fatal" \in Calls(stack)
  BY LaterCalls DEF Looping, Within, StartCall
<1>2. CASE app.closing
  <2>1. stack' = s /\ UNCHANGED <<app, scheduled>> /\ s \in Seq(Call)
    BY <1>2 DEF CallShutdown, Within
  <2>2. StartPlace' /\ FatalPlace'
    BY <1>1, <1>2, <2>1 DEF AInv, Place, StartPlace, FatalPlace
  <2>3. ClosePlace' /\ EndPlace'
    BY <1>1, <1>2, <2>1 DEF AInv, Place, ClosePlace, EndPlace, Looping
  <2>4. PumpPlace'
    BY <1>2, <2>1 DEF AInv, Place, ClosePlace, PumpPlace, Within
  <2>5. QED
    BY <1>2, <2>1, <2>2, <2>3, <2>4 DEF Place, AInv, TypeOK
<1>3. CASE ~app.closing
  <2> DEFINE t == <<"unlock">> \o s
  <2>1. /\ app' = [app EXCEPT !.closing = TRUE, !.running = FALSE, !.polling = FALSE]
        /\ ~scheduled' /\ scheduled' \in BOOLEAN /\ stack' = t
    BY <1>3 DEF CallShutdown
  <2>2. /\ app' \in AppState /\ app'.closing /\ ~app'.running /\ app'.fatal = app.fatal
        /\ app'.destroyed = app.destroyed
    BY <2>1 DEF AInv, TypeOK, AppState
  <2>3. /\ t \in Seq(Call) /\ t # <<>> /\ Head(t) = "unlock" /\ OnePump(t)
        /\ Calls(t) = {"unlock"} \cup Calls(s)
    BY LaterCalls, Push DEF Within
  <2> HIDE DEF t
  <2>4. StartPlace'
    BY <1>1, <2>1, <2>3 DEF StartPlace, StartCall
  <2>5. FatalPlace'
    BY <1>1, <2>1, <2>2, <2>3 DEF AInv, Place, FatalPlace
  <2>6. ClosePlace'
    BY <1>1, <1>3, <2>1, <2>2, <2>3 DEF AInv, Place, ClosePlace, StopCall, Top
  <2>7. EndPlace'
    BY <1>1, <1>3, <2>1, <2>2, <2>3 DEF Looping, EndPlace
  <2>8. PumpPlace'
    BY <2>1, <2>3 DEF PumpPlace
  <2>9. QED
    BY <2>1, <2>2, <2>3, <2>4, <2>5, <2>6, <2>7, <2>8 DEF Place
<1>4. QED
  BY <1>2, <1>3

\* The stacks that calls of the event loops make.
LEMMA CallersFollow ==
    ASSUME AInv, stack # <<>>
    PROVE  /\ Follows(stack) /\ Within(Callers)
           /\ Top # "fatal" => Follows(Callers)
           /\ Top \in PumpPhase => NoPump(Callers) /\ ~scheduled
<1>1. /\ Callers \in Seq(Call) /\ Calls(stack) = {Top} \cup Calls(Callers)
      /\ OnePump(stack) /\ OnePump(Callers) /\ stack \in Seq(Call)
      /\ Top \in PumpPhase => NoPump(Callers)
  BY Pop DEF AInv, TypeOK, Place, PumpPlace, Callers, Top
<1>2. Top \in PumpPhase => ~scheduled
  BY <1>1 DEF AInv, Place, PumpPlace, NoPump
<1>3. QED
  BY <1>1, <1>2 DEF Follows, Within

LEMMA PushFollows ==
    ASSUME AInv, NEW s, Follows(s), NEW c \in Later, c \notin PumpPhase \/ NoPump(s)
    PROVE  /\ Follows(<<c>> \o s) /\ <<c>> \o s \in Seq(Call)
           /\ Tail(<<c>> \o s) = s
           /\ NoPump(s) /\ c \notin PumpPhase => NoPump(<<c>> \o s)
BY LaterCalls, Push DEF Follows, Within

LEMMA ReportingFollows ==
    ASSUME AInv, NEW s, Follows(s)
    PROVE  Follows(Reporting(s)) /\ (NoPump(s) <=> NoPump(Reporting(s)))
BY LaterCalls, ReportingCalls DEF Follows, Within

-----------------------------------------------------------------------------
(* The other threads *)

LEMMA EventFacts == FatalEvent \in Event /\ \A b \in BOOLEAN : StateEvent(b) \in Event
BY DEF StateEvent, FatalEvent, Event

LEMMA AppendKeeps ==
    ASSUME NEW S, NEW s \in Seq(S), NEW e \in S PROVE Append(s, e) \in Seq(S)
OBVIOUS

LEMMA SetLockedFacts ==
    ASSUME AInv, NEW value \in BOOLEAN, SetLocked(value)
    PROVE  /\ hook' \in HookState /\ events' \in Seq(Event)
           /\ hook'.gate = hook.gate /\ hook'.thread = hook.thread /\ hook'.locked = value
<1>1. hook' = [hook EXCEPT !.locked = value] /\ hook \in HookState
  BY DEF SetLocked, AInv, TypeOK
<1>2. events' = events \/ events' = Append(events, StateEvent(value))
  BY DEF SetLocked
<1>3. events' \in Seq(Event)
  <2>1. events \in Seq(Event) /\ StateEvent(value) \in Event
    BY EventFacts DEF AInv, TypeOK
  <2>2. QED
    BY <1>2, <2>1, AppendKeeps
<1>4. QED
  BY <1>1, <1>3 DEF HookState

LEMMA InputsBound ==
    ASSUME AInv, UserInput \/ UNCHANGED inputs
    PROVE  inputs' \in 0..MaxInputs
BY AppAssumption DEF UserInput, AInv, TypeOK

LEMMA OthersStep ==
    ASSUME AInv,
           \/ HotkeyPressed \/ EngineFails \/ EngineReconciles \/ TrayFails \/ SecondLaunch
           \/ \E action \in TrayAction : MenuAction(action)
    PROVE  AInv' /\ (PumpGoes => PumpGoes')
<1> USE DEF OthersKeep
<1>1. /\ UNCHANGED <<stack, scheduled, app, window, registry>>
      /\ hook.gate => hook'.gate
      /\ tray'.thread = "running" => tray.thread = "running"
  BY DEF HotkeyPressed, EngineFails, EngineReconciles, TrayFails, SecondLaunch, MenuAction,
     SetLocked, AInv, TypeOK, HookState
<1>2. Place' /\ (PumpGoes => PumpGoes')
  <2>1. StartPlace' /\ FatalPlace'
    BY <1>1 DEF AInv, Place, StartPlace, FatalPlace
  <2>2. ClosePlace'
    BY <1>1 DEF AInv, Place, ClosePlace, Top
  <2>3. EndPlace'
    BY <1>1 DEF AInv, Place, EndPlace
  <2>4. PumpPlace' /\ (PumpGoes => PumpGoes')
    BY <1>1 DEF AInv, Place, PumpPlace, PumpGoes
  <2>5. QED
    BY <2>1, <2>2, <2>3, <2>4 DEF Place
<1>3. hook' \in HookState /\ tray' \in TrayState /\ events' \in Seq(Event)
  <2>3. CASE HotkeyPressed \/ EngineReconciles
    <3>1. /\ SetLocked(~hook.locked) \/ SetLocked(FALSE)
          /\ UNCHANGED tray /\ tray \in TrayState /\ hook.locked \in BOOLEAN
      BY <2>3 DEF HotkeyPressed, EngineReconciles, AInv, TypeOK, HookState
    <3>2. QED
      BY <3>1, SetLockedFacts
  <2>4. CASE EngineFails
    <3>1. hook' = [hook EXCEPT !.gate = TRUE, !.locked = FALSE] /\ hook \in HookState
          /\ tray' = tray /\ tray \in TrayState
      BY <2>4 DEF EngineFails, AInv, TypeOK
    <3> DEFINE before == IF hook.locked THEN Append(events, StateEvent(FALSE)) ELSE events
    <3>2. before \in Seq(Event) /\ events' = before \o <<FatalEvent>>
      <4>1. events \in Seq(Event) /\ events' = before \o <<FatalEvent>>
        BY <2>4 DEF EngineFails, AInv, TypeOK
      <4>2. StateEvent(FALSE) \in Event
        BY EventFacts
      <4>3. Append(events, StateEvent(FALSE)) \in Seq(Event)
        BY <4>1, <4>2, AppendKeeps
      <4>4. QED
        BY <4>1, <4>3
    <3> HIDE DEF before
    <3>3. events' \in Seq(Event)
      BY <3>2, EventFacts
    <3>4. hook' \in HookState
      BY <3>1 DEF HookState
    <3>5. QED
      BY <3>1, <3>3, <3>4
  <2>5. CASE TrayFails
    <3>1. /\ tray' = [tray EXCEPT !.thread = "dead", !.fatal = TRUE] /\ tray \in TrayState
          /\ hook' \in HookState /\ events' \in Seq(Event)
      BY <2>5 DEF TrayFails, AInv, TypeOK
    <3>2. tray' \in TrayState
      BY <3>1 DEF TrayState
    <3>3. QED
      BY <3>1, <3>2
  <2>6. CASE SecondLaunch \/ \E action \in TrayAction : MenuAction(action)
    BY <2>6 DEF SecondLaunch, MenuAction, AInv, TypeOK
  <2>7. QED
    BY <2>3, <2>4, <2>5, <2>6
<1>4. actions' \in Seq(Action) /\ signal' \in BOOLEAN
  <2>1. CASE \E action \in TrayAction : MenuAction(action)
    <3>1. PICK action \in Action : actions' = Append(actions, action) /\ UNCHANGED signal
      BY <2>1 DEF MenuAction, Action
    <3>2. QED
      BY <3>1 DEF AInv, TypeOK
  <2>2. CASE ~\E action \in TrayAction : MenuAction(action)
    BY <2>2 DEF HotkeyPressed, EngineFails, EngineReconciles, TrayFails, SecondLaunch, AInv, TypeOK
  <2>3. QED
    BY <2>1, <2>2
<1>5. inputs' \in 0..MaxInputs
  <2>1. UserInput \/ inputs' = inputs
    BY DEF HotkeyPressed, EngineFails, EngineReconciles, TrayFails, SecondLaunch, MenuAction
  <2>2. QED
    BY <2>1, InputsBound
<1>6. TypeOK'
  BY <1>1, <1>3, <1>4, <1>5 DEF AInv, TypeOK
<1>7. QED
  BY <1>2, <1>6 DEF AInv

-----------------------------------------------------------------------------
(* start() *)

\* What _stop_hook and _stop_tray leave.
LEMMA StopHookFacts ==
    ASSUME AInv, NEW s \in Seq(Call), StopHook(s)
    PROVE  /\ hook' \in HookState /\ hook'.gate /\ UNCHANGED <<scheduled, app, tray>>
           /\ stack' = s \/ stack' = Reporting(s)
BY DEF StopHook, AInv, TypeOK, HookState

LEMMA StopTrayFacts ==
    ASSUME AInv, NEW s \in Seq(Call), StopTray(s)
    PROVE  /\ tray' \in TrayState /\ tray'.thread = "dead" /\ UNCHANGED <<scheduled, app, hook>>
           /\ stack' = s \/ stack' = Reporting(s)
BY DEF StopTray, AInv, TypeOK, TrayState

LEMMA StartStep ==
    ASSUME AInv,
           StartHook \/ CheckHook \/ StartTray \/ UndoTray \/ UndoHook \/ ReportStart
    PROVE  AInv' /\ PumpGoes'
<1> DEFINE GoesTo(c) == stack' = <<c>> \o Callers \/ stack' = Reporting(<<c>> \o Callers)
           NextCall == {"check hook", "start tray", "undo hook", "undo tray", "report",
                        "destroy"}
<1>1. /\ stack # <<>> /\ Top \in StartCall /\ Top \in Calls(stack)
      /\ UNCHANGED <<window, events, actions, signal, registry, inputs>>
  BY Pop DEF StartHook, CheckHook, StartTray, UndoTray, UndoHook, ReportStart, In, Top, StartCall,
     StartKeeps, AInv, TypeOK
<1>2. /\ \E c \in StartCall : stack = <<c>> \/ stack = <<"error">> \o <<c>>
      /\ ~scheduled /\ ~app.running /\ ~app.closing /\ ~app.fatal /\ ~app.destroyed
      /\ ~window.open /\ tray.thread # "running"
      /\ "report" \in Calls(stack) => hook.gate
  BY <1>1 DEF AInv, Place, StartPlace, ClosePlace
<1>3. Callers = <<>>
  <2>1. PICK c \in StartCall : stack = <<c>> \/ stack = <<"error">> \o <<c>>
    BY <1>2
  <2>2. c \in Call /\ c # "error" /\ "error" \notin StartCall
    BY DEF Call, StartCall
  <2>3. QED
    BY <1>1, <2>1, <2>2, StartStacks DEF Top, Callers
<1>4. ASSUME NEW c \in NextCall, GoesTo(c)
      PROVE  /\ stack' \in Seq(Call) /\ OnePump(stack') /\ NoPump(stack')
             /\ Calls(stack') \subseteq {"error", c}
             /\ stack' = <<c>> \/ stack' = <<"error">> \o <<c>>
  <2>1. c \in Call /\ c \notin PumpPhase
    BY DEF Call, StartCall, PumpPhase
  <2>2. stack' = <<c>> \/ stack' = <<"error">> \o <<c>>
    <3>1. <<c>> \o Callers = <<c>>
      BY <1>3, Alone
    <3>2. QED
      BY <1>4, <3>1 DEF Reporting
  <2>3. QED
    BY <2>1, <2>2, StartStacks
<1>5. ASSUME NEW c \in NextCall, GoesTo(c), UNCHANGED <<scheduled, app>>,
             hook' \in HookState, tray' \in TrayState, tray'.thread # "running",
             c \in {"report", "destroy"} => hook'.gate
      PROVE  AInv' /\ PumpGoes'
  <2>1. StartPlace'
    BY <1>1, <1>2, <1>4, <1>5 DEF StartPlace, StartCall
  <2>2. FatalPlace' /\ EndPlace'
    BY <1>1, <1>2, <1>4, <1>5 DEF FatalPlace, EndPlace
  <2>3. ClosePlace'
    BY <1>2, <1>4, <1>5 DEF ClosePlace, StopCall
  <2>4. PumpPlace' /\ PumpGoes'
    BY <1>2, <1>4, <1>5 DEF PumpPlace, PumpGoes
  <2>5. TypeOK'
    BY <1>1, <1>4, <1>5 DEF AInv, TypeOK
  <2>6. QED
    BY <2>1, <2>2, <2>3, <2>4, <2>5 DEF AInv, Place
<1>6. CASE StartHook
  <2>1. /\ hook' \in HookState /\ UNCHANGED <<scheduled, app, tray>>
        /\ GoesTo("check hook") \/ GoesTo("undo hook")
    BY <1>6 DEF StartHook, Goto, AInv, TypeOK, HookState
  <2>2. QED
    BY <1>2, <1>5, <2>1 DEF AInv, TypeOK
<1>7. CASE CheckHook
  <2>1. UNCHANGED <<scheduled, app, hook, tray>> /\ (GoesTo("start tray") \/ GoesTo("undo hook"))
    BY <1>7 DEF CheckHook, Goto
  <2>2. QED
    BY <1>2, <1>5, <2>1 DEF AInv, TypeOK
<1>8. CASE StartTray /\ tray'.thread = "running"
  <2>1. /\ tray' = [tray EXCEPT !.thread = "running"] /\ app' = [app EXCEPT !.running = TRUE]
        /\ scheduled' /\ scheduled' \in BOOLEAN /\ stack' = <<"main loop">> \o Callers
        /\ UNCHANGED hook
    BY <1>8 DEF StartTray, Goto, AInv, TypeOK, TrayState
  <2>2. /\ app' \in AppState /\ app'.running /\ app'.closing = app.closing
        /\ app'.fatal = app.fatal /\ app'.destroyed = app.destroyed /\ tray' \in TrayState
    BY <2>1 DEF AInv, TypeOK, AppState, TrayState
  <2>3. /\ stack' \in Seq(Call) /\ Calls(stack') \subseteq {"error", "main loop"}
        /\ OnePump(stack') /\ NoPump(stack')
    <3>1. "main loop" \in Call /\ "main loop" \notin PumpPhase
      BY DEF Call, EventLoop, PumpPhase
    <3>2. stack' = <<"main loop">>
      BY <1>3, <2>1, Alone
    <3>3. QED
      BY <3>1, <3>2, StartStacks
  <2>4. StartPlace' /\ FatalPlace' /\ EndPlace'
    BY <1>2, <2>2, <2>3 DEF StartPlace, FatalPlace, EndPlace, StartCall
  <2>5. ClosePlace'
    BY <1>2, <2>2, <2>3 DEF ClosePlace, StopCall
  <2>6. PumpPlace' /\ PumpGoes'
    BY <2>1, <2>3 DEF PumpPlace, PumpGoes
  <2>7. TypeOK'
    BY <1>1, <2>1, <2>2, <2>3 DEF AInv, TypeOK
  <2>8. QED
    BY <2>4, <2>5, <2>6, <2>7 DEF AInv, Place
<1>9. CASE StartTray /\ tray'.thread # "running"
  <2>1. /\ tray' = [tray EXCEPT !.thread = "dead"] /\ UNCHANGED <<scheduled, app, hook>>
        /\ GoesTo("undo tray")
    BY <1>9 DEF StartTray, Goto, AInv, TypeOK, TrayState
  <2>2. tray' \in TrayState
    BY <2>1 DEF AInv, TypeOK, TrayState
  <2>3. QED
    BY <1>5, <1>9, <2>1, <2>2 DEF AInv, TypeOK
<1>10. CASE UndoTray
  <2>1. <<"undo hook">> \o Callers \in Seq(Call)
    BY <1>3 DEF Call, StartCall
  <2>2. /\ GoesTo("undo hook") /\ UNCHANGED <<scheduled, app, hook>>
        /\ tray' \in TrayState /\ tray'.thread = "dead"
    BY <1>10, <2>1, StopTrayFacts DEF UndoTray
  <2>3. QED
    BY <1>5, <2>2 DEF AInv, TypeOK
<1>11. CASE UndoHook
  <2>1. <<"report">> \o Callers \in Seq(Call)
    BY <1>3 DEF Call, StartCall
  <2>2. /\ GoesTo("report") /\ UNCHANGED <<scheduled, app, tray>>
        /\ hook' \in HookState /\ hook'.gate
    BY <1>11, <2>1, StopHookFacts DEF UndoHook
  <2>3. QED
    BY <1>2, <1>5, <2>2 DEF AInv, TypeOK
<1>12. CASE ReportStart
  <2>1. GoesTo("destroy") /\ UNCHANGED <<scheduled, app, hook, tray>> /\ hook.gate
    BY <1>1, <1>2, <1>12 DEF ReportStart, In
  <2>2. QED
    BY <1>2, <1>5, <2>1 DEF AInv, TypeOK
<1>13. QED
  BY <1>6, <1>7, <1>8, <1>9, <1>10, <1>11, <1>12

-----------------------------------------------------------------------------
(* The event loops *)

\* The same as FatalStep, for the fields as they are.
LEMMA FatalNow ==
    ASSUME AInv, Looping, NEW s, Follows(s), HandleFatal(s),
           tray'.thread = "running" => tray.thread = "running",
           UNCHANGED scheduled, scheduled => NoPump(s)
    PROVE  /\ Place' /\ PumpGoes' /\ stack' \in Seq(Call)
           /\ app' \in AppState /\ hook' \in HookState
<1>1. app \in AppState /\ HandleFatalWith(app, s)
  BY DEF AInv, TypeOK, HandleFatal
<1>2. Place' /\ stack' \in Seq(Call)
  BY <1>1, FatalStep DEF SamePhase
<1>3. app' \in AppState /\ hook' \in HookState /\ app'.fatal
  BY <1>1 DEF HandleFatalWith, AInv, TypeOK, AppState, HookState
<1>4. PumpGoes'
  BY <1>2, <1>3 DEF Place, FatalPlace, ClosePlace, PumpGoes
<1>5. QED
  BY <1>2, <1>3, <1>4

LEMMA LoopStep ==
    ASSUME AInv, RunPump \/ CloseDialog \/ MainLoopEnds \/ WindowUnhealthy \/ WindowSave
                    \/ SaveContinues
    PROVE  AInv' /\ (PumpGoes => PumpGoes')
<1>1. CASE RunPump
  <2>1. /\ stack # <<>> /\ Top \in EventLoop /\ scheduled /\ ~scheduled' /\ scheduled' \in BOOLEAN
        /\ stack' = <<"tray events">> \o stack
        /\ UNCHANGED <<app, hook, tray, window, events, actions, signal, registry, inputs>>
    BY <1>1 DEF RunPump
  <2>2. Looping
    BY <2>1, LoopingAt DEF EventLoop, Dialog
  <2>3. NoPump(stack) /\ "tray events" \in Later /\ "tray events" \in PumpPhase
    BY <2>1 DEF AInv, Place, PumpPlace, Later, PumpPhase
  <2>4. Follows(stack') /\ stack' \in Seq(Call)
    BY <2>1, <2>3, CallersFollow, PushFollows
  <2>5. Place'
    BY <2>1, <2>2, <2>4, PlainStep DEF SamePhase, NothingTakenBack
  <2>6. ~NoPump(stack')
    BY <2>1, <2>3, LaterCalls, Push DEF AInv, TypeOK
  <2>7. PumpGoes'
    BY <2>6 DEF PumpGoes
  <2>8. TypeOK'
    BY <2>1, <2>4 DEF AInv, TypeOK
  <2>9. QED
    BY <2>5, <2>7, <2>8 DEF AInv
<1>2. CASE CloseDialog
  <2>1. /\ stack # <<>> /\ Top \in Dialog /\ stack' = Callers
        /\ UNCHANGED <<scheduled, app, hook, tray, window, events, actions, signal, registry,
                       inputs>>
    BY <1>2 DEF CloseDialog, Return
  <2>2. /\ stack' \in Seq(Call) /\ Calls(stack) = {Top} \cup Calls(stack') /\ OnePump(stack')
        /\ NoPump(stack) <=> NoPump(stack')
    BY <2>1, Pop, LaterCalls DEF AInv, TypeOK, Callers, Top, Place, PumpPlace
  <2>3. Top \notin StartCall \cup StopCall \cup {"fatal", "destroy", "report"}
    BY <2>1 DEF Dialog, StartCall, StopCall
  <2>4. StartPlace'
    <3>1. SUFFICES ASSUME Calls(stack) \cap StartCall # {}
                   PROVE  \E c \in StartCall : stack' = <<c>>
      BY <2>1, <2>2 DEF StartPlace, AInv, Place
    <3>2. PICK c \in StartCall : stack = <<c>> \/ stack = <<"error">> \o <<c>>
      BY <3>1 DEF AInv, Place, StartPlace
    <3>3. stack = <<"error">> \o <<c>>
      BY <2>3, <3>2, StartStacks DEF Top
    <3>4. stack' = <<c>>
      BY <2>1, <3>3, StartStacks, Push, LaterCalls DEF Callers, Call
    <3>5. QED
      BY <3>4
  <2>5. FatalPlace' /\ EndPlace'
    BY <2>1, <2>2, <2>3 DEF AInv, Place, FatalPlace, EndPlace
  <2>6. ClosePlace'
    BY <2>1, <2>2, <2>3 DEF AInv, Place, ClosePlace, StopCall
  <2>7. PumpPlace' /\ (PumpGoes => PumpGoes')
    BY <2>1, <2>2, <2>3 DEF AInv, Place, PumpPlace, PumpGoes
  <2>8. TypeOK'
    BY <2>1, <2>2 DEF AInv, TypeOK
  <2>9. QED
    BY <2>4, <2>5, <2>6, <2>7, <2>8 DEF AInv, Place
<1>3. CASE MainLoopEnds
  <2>1. /\ stack # <<>> /\ Top = "main loop" /\ app.destroyed /\ CallShutdown(<<>>)
        /\ UNCHANGED <<hook, tray, window, events, actions, signal, registry, inputs>>
    BY <1>3 DEF MainLoopEnds, In
  <2>2. Looping
    BY <2>1, LoopingAt
  <2>3. Within(<<>>)
    BY EmptyStack DEF Within
  <2>4. /\ Place' /\ stack' \in Seq(Call) /\ app' \in AppState /\ scheduled' \in BOOLEAN
        /\ app'.closing
    BY <2>1, <2>2, <2>3, ShutdownStep
  <2>5. PumpGoes'
    BY <2>4 DEF Place, ClosePlace, PumpGoes
  <2>6. TypeOK'
    BY <2>1, <2>4 DEF AInv, TypeOK
  <2>7. QED
    BY <2>4, <2>5, <2>6 DEF AInv
<1>4. CASE WindowUnhealthy
  <2>1. /\ stack # <<>> /\ Top \in EventLoop \ {"warning"} /\ window.open /\ ~app.destroyed
        /\ HandleFatal(stack)
        /\ UNCHANGED <<scheduled, tray, window, events, actions, signal, registry, inputs>>
    BY <1>4 DEF WindowUnhealthy
  <2>2. Looping
    BY <2>1, LoopingAt DEF EventLoop, Dialog
  <2>3. /\ Place' /\ PumpGoes' /\ stack' \in Seq(Call)
        /\ app' \in AppState /\ hook' \in HookState
    BY <2>1, <2>2, CallersFollow, FatalNow DEF AInv, Place, PumpPlace
  <2>4. TypeOK'
    BY <2>1, <2>3 DEF AInv, TypeOK
  <2>5. QED
    BY <2>3, <2>4 DEF AInv
<1>5. CASE WindowSave
  <2>1. /\ stack # <<>> /\ Top = "main loop" /\ UserInput
        /\ \/ stack' = <<"save">> \o stack
           \/ stack' = <<"warning", "save">> \o stack
        /\ UNCHANGED <<scheduled, app, hook, tray, window, events, actions, signal, registry>>
    BY <1>5 DEF WindowSave, WindowReady, In
  <2>2. Looping
    BY <2>1, LoopingAt
  <2>3. "save" \in Later \ PumpPhase /\ "warning" \in Later \ PumpPhase
    BY DEF Later, Dialog, PumpPhase
  <2>4. /\ Follows(stack') /\ stack' \in Seq(Call)
        /\ NoPump(stack) <=> NoPump(stack')
    <3> DEFINE t == <<"save">> \o stack
    <3>1. Follows(t) /\ t \in Seq(Call) /\ (NoPump(stack) <=> NoPump(t))
      BY <2>1, <2>3, CallersFollow, PushFollows, LaterCalls, Push DEF AInv, TypeOK
    <3> HIDE DEF t
    <3>2. CASE stack' = t
      BY <3>1, <3>2
    <3>3. CASE stack' = <<"warning">> \o t
      BY <2>3, <3>1, <3>3, PushFollows, LaterCalls, Push
    <3>4. <<"warning", "save">> \o stack = <<"warning">> \o t
      BY <2>3, PushTwo, LaterCalls DEF t
    <3>5. QED
      BY <2>1, <3>2, <3>3, <3>4 DEF t
  <2>5. scheduled => ~app.closing /\ NoPump(stack)
    BY DEF AInv, Place, ClosePlace, PumpPlace
  <2>6. Place'
    BY <2>1, <2>2, <2>4, <2>5, PlainStep DEF SamePhase, NothingTakenBack
  <2>7. PumpGoes => PumpGoes'
    BY <2>1, <2>2, <2>4 DEF PumpGoes, Follows
  <2>8. TypeOK'
    <3>1. inputs' \in 0..MaxInputs
      BY <2>1, InputsBound
    <3>2. QED
      BY <2>1, <2>4, <3>1 DEF AInv, TypeOK
  <2>9. QED
    BY <2>6, <2>7, <2>8 DEF AInv
<1>6. CASE SaveContinues
  <2>1. /\ stack # <<>> /\ Top = "save"
        /\ UNCHANGED <<scheduled, tray, window, events, actions, signal, registry, inputs>>
        /\ \/ stack' \in {Callers, Reporting(Callers)} /\ UNCHANGED <<app, hook>>
           \/ HandleFatal(Callers)
    BY <1>6 DEF SaveContinues, In, Return
  <2>2. Looping /\ Follows(Callers)
    BY <2>1, LoopingAt, CallersFollow
  <2>3. NoPump(stack) <=> NoPump(Callers)
    BY <2>1, Pop, LaterCalls DEF AInv, TypeOK, Callers, Top
  <2>4. scheduled => ~app.closing /\ NoPump(Callers)
    BY <2>3 DEF AInv, Place, ClosePlace, PumpPlace
  <2>5. CASE HandleFatal(Callers)
    <3>1. /\ Place' /\ PumpGoes' /\ stack' \in Seq(Call)
          /\ app' \in AppState /\ hook' \in HookState
      BY <2>1, <2>2, <2>4, <2>5, FatalNow
    <3>2. TypeOK'
      BY <2>1, <3>1 DEF AInv, TypeOK
    <3>3. QED
      BY <3>1, <3>2 DEF AInv
  <2>6. CASE stack' \in {Callers, Reporting(Callers)} /\ UNCHANGED <<app, hook>>
    <3>1. /\ Follows(stack') /\ stack' \in Seq(Call)
          /\ NoPump(Callers) <=> NoPump(stack')
      BY <2>2, <2>6, ReportingFollows DEF Follows, Within
    <3>2. Place'
      BY <2>1, <2>2, <2>4, <2>6, <3>1, PlainStep DEF SamePhase, NothingTakenBack
    <3>3. PumpGoes => PumpGoes'
      BY <2>1, <2>3, <2>6, <3>1 DEF PumpGoes, Follows
    <3>4. TypeOK'
      BY <2>1, <2>6, <3>1 DEF AInv, TypeOK
    <3>5. QED
      BY <3>2, <3>3, <3>4 DEF AInv
  <2>7. QED
    BY <2>1, <2>5, <2>6
<1>7. QED
  BY <1>1, <1>2, <1>3, <1>4, <1>5, <1>6

\* Start with Windows, from the check box or from the menu.
LEMMA StartupStep ==
    ASSUME AInv, Looping, NEW requested \in BOOLEAN, NEW boxed \in BOOLEAN, NEW s, Follows(s),
           SetStartup(requested, boxed, s), UNCHANGED scheduled, scheduled => NoPump(s),
           ~app.destroyed
    PROVE  /\ Place' /\ stack' \in Seq(Call)
           /\ app' \in AppState /\ hook' \in HookState /\ tray' \in TrayState
           /\ window' \in WindowState /\ registry' \in BOOLEAN
           /\ app'.fatal \/ (Follows(stack') /\ SamePhase(app') /\ (NoPump(stack') <=> NoPump(s)))
           /\ \/ registry' = registry
              \/ /\ tray'.startup = registry' /\ window'.startup = registry'
                 /\ app'.startup = registry'
              \/ Head(stack') = "error" \/ app'.fatal
           /\ app'.startup \in {app.startup, registry'}
           /\ tray'.startup \in {tray.startup, registry'}
           /\ window'.startup \in {window.startup, registry'}
<1> DEFINE shown == registry'
           fields == [app EXCEPT !.startup = shown]
<1>1. PICK written \in BOOLEAN, read \in BOOLEAN :
         /\ registry' = IF written THEN requested ELSE registry
         /\ ApplyStartup(requested, boxed, written, read, s)
  BY DEF SetStartup
<1>2. /\ app \in AppState /\ hook \in HookState /\ tray \in TrayState /\ window \in WindowState
      /\ registry' \in BOOLEAN /\ s \in Seq(Call)
      /\ scheduled => ~app.closing
  BY <1>1 DEF AInv, TypeOK, Follows, Within, Place, ClosePlace
<1>3. /\ fields \in AppState /\ SamePhase(fields) /\ fields.startup = registry'
      /\ [window EXCEPT !.startup = shown] \in WindowState
      /\ [window EXCEPT !.startup = shown].startup = registry'
      /\ [tray EXCEPT !.startup = shown] \in TrayState
      /\ [tray EXCEPT !.startup = shown].startup = registry'
      /\ [tray EXCEPT !.startup = shown].thread = tray.thread
  BY <1>2 DEF AppState, TrayState, WindowState, SamePhase
<1>4. /\ Follows(s) /\ Follows(Reporting(s)) /\ Head(Reporting(s)) = "error"
      /\ NoPump(Reporting(s)) <=> NoPump(s)
      /\ Reporting(s) \in Seq(Call)
  BY <1>2, ReportingFollows, ReportingCalls
<1> HIDE DEF fields
<1>5. CASE ~read
  <2>1. stack' = Reporting(s) /\ UNCHANGED <<app, hook, tray, window>>
    BY <1>1, <1>5 DEF ApplyStartup
  <2>2. SamePhase(app')
    BY <2>1 DEF SamePhase
  <2>3. Place'
    BY <1>2, <1>4, <2>1, <2>2, PlainStep DEF NothingTakenBack
  <2>4. QED
    BY <1>2, <1>4, <2>1, <2>2, <2>3
<1>6. CASE read /\ tray.thread = "running"
  <2>1. /\ stack' = IF written THEN s ELSE Reporting(s)
        /\ app' = fields /\ tray' = [tray EXCEPT !.startup = shown]
        /\ window' = [window EXCEPT !.startup = shown] /\ hook' = hook
    BY <1>1, <1>6 DEF ApplyStartup, ReadBack, fields
  <2>2. Place'
    BY <1>2, <1>3, <1>4, <2>1, PlainStep DEF NothingTakenBack
  <2>3. QED
    BY <1>2, <1>3, <1>4, <2>1, <2>2
<1>7. CASE read /\ tray.thread # "running"
  <2>1. /\ HandleFatalWith(fields, s) /\ UNCHANGED tray
        /\ window' = window \/ window' = [window EXCEPT !.startup = shown]
    BY <1>1, <1>7 DEF ApplyStartup, ReadBack, fields
  <2>2. Place' /\ stack' \in Seq(Call)
    BY <1>3, <2>1, FatalStep
  <2>3. /\ app' \in AppState /\ hook' \in HookState /\ app'.fatal /\ app'.startup = registry'
    BY <1>2, <1>3, <2>1 DEF HandleFatalWith, AppState, HookState
  <2>4. QED
    BY <1>2, <1>3, <2>1, <2>2, <2>3
<1>8. QED
  BY <1>5, <1>6, <1>7

LEMMA WindowStartupStep ==
    ASSUME AInv, WindowStartup
    PROVE  AInv' /\ (PumpGoes => PumpGoes')
<1>1. /\ stack # <<>> /\ Top = "main loop" /\ ~app.destroyed /\ UserInput
      /\ SetStartup(~window.startup, TRUE, stack)
      /\ UNCHANGED <<scheduled, events, actions, signal>>
  BY DEF WindowStartup, WindowReady, In
<1>2. /\ Looping /\ Follows(stack) /\ (scheduled => NoPump(stack))
      /\ (~window.startup) \in BOOLEAN
  BY <1>1, LoopingAt, CallersFollow DEF AInv, Place, PumpPlace
<1>3. /\ Place' /\ stack' \in Seq(Call)
      /\ app' \in AppState /\ hook' \in HookState /\ tray' \in TrayState
      /\ window' \in WindowState /\ registry' \in BOOLEAN
      /\ app'.fatal \/ (Follows(stack') /\ SamePhase(app') /\ (NoPump(stack') <=> NoPump(stack)))
  BY <1>1, <1>2, StartupStep
<1>4. PumpGoes => PumpGoes'
  BY <1>1, <1>3 DEF PumpGoes, Place, FatalPlace, ClosePlace, SamePhase, Follows
<1>5. inputs' \in 0..MaxInputs
  BY <1>1, InputsBound
<1>6. TypeOK'
  BY <1>1, <1>3, <1>5 DEF AInv, TypeOK
<1>7. QED
  BY <1>3, <1>4, <1>6 DEF AInv

-----------------------------------------------------------------------------
(* pump_events() *)

LEMMA PumpAt ==
    ASSUME AInv, stack # <<>>, Top \in PumpPhase
    PROVE  /\ Looping /\ ~scheduled /\ Follows(Callers) /\ Follows(stack)
           /\ Callers \in Seq(Call) /\ ~NoPump(stack)
           /\ \A c \in PumpPhase : /\ Follows(<<c>> \o Callers) /\ ~NoPump(<<c>> \o Callers)
                                   /\ <<c>> \o Callers \in Seq(Call)
                                   /\ Tail(<<c>> \o Callers) = Callers
<1>1. Looping /\ ~scheduled /\ Follows(Callers) /\ Follows(stack) /\ NoPump(Callers)
  BY LoopingAt, CallersFollow, LaterCalls
<1>2. Callers \in Seq(Call) /\ ~NoPump(stack)
  BY Pop DEF AInv, TypeOK, Callers, Top
<1>3. ASSUME NEW c \in PumpPhase
      PROVE  /\ Follows(<<c>> \o Callers) /\ ~NoPump(<<c>> \o Callers)
             /\ <<c>> \o Callers \in Seq(Call) /\ Tail(<<c>> \o Callers) = Callers
  BY <1>1, <1>2, LaterCalls, PushFollows, Push
<1>4. QED
  BY <1>1, <1>2, <1>3

\* A step of the pump after which it is still there, or that closing allows.
LEMMA PumpStays ==
    ASSUME AInv, Looping, ~scheduled, UNCHANGED scheduled, Follows(stack'), SamePhase(app'),
           NothingTakenBack, app.closing \/ ~NoPump(stack')
    PROVE  Place' /\ PumpGoes' /\ stack' \in Seq(Call)
<1>1. Place' /\ stack' \in Seq(Call)
  BY PlainStep DEF Follows, Within
<1>2. PumpGoes'
  BY DEF PumpGoes, SamePhase, AInv, Place, ClosePlace
<1>3. QED
  BY <1>1, <1>2

LEMMA PumpEventStep ==
    ASSUME AInv, PumpTrayEvents \/ PumpEngineEvent \/ PumpEventsDone \/ PumpActivation
                    \/ PumpGoesOn \/ PumpDone
    PROVE  AInv' /\ PumpGoes'
<1>1. /\ stack # <<>> /\ Top \in PumpPhase
      /\ UNCHANGED <<registry, inputs>>
  BY DEF PumpTrayEvents, PumpEngineEvent, PumpEventsDone, PumpActivation, PumpGoesOn, PumpDone, In,
     PumpPhase
<1>2. /\ Looping /\ ~scheduled /\ Follows(Callers) /\ Follows(stack) /\ Callers \in Seq(Call)
      /\ ~NoPump(stack)
      /\ \A c \in PumpPhase : /\ Follows(<<c>> \o Callers) /\ ~NoPump(<<c>> \o Callers)
                              /\ <<c>> \o Callers \in Seq(Call)
  BY <1>1, PumpAt
<1>3. /\ "engine events" \in PumpPhase /\ "activation" \in PumpPhase /\ "actions" \in PumpPhase
      /\ "acted" \in PumpPhase
  BY DEF PumpPhase
<1>4. CASE PumpTrayEvents
  <2>1. UNCHANGED <<scheduled, window, events, actions, signal>>
    BY <1>4 DEF PumpTrayEvents
  <2>2. CASE tray.fatal
    <3>1. tray' = [tray EXCEPT !.fatal = FALSE] /\ HandleFatal(Callers)
      BY <1>4, <2>2 DEF PumpTrayEvents
    <3>2. tray' \in TrayState /\ tray'.thread = tray.thread
      BY <3>1 DEF AInv, TypeOK, TrayState
    <3>3. /\ Place' /\ PumpGoes' /\ stack' \in Seq(Call)
          /\ app' \in AppState /\ hook' \in HookState
      BY <1>2, <2>1, <3>1, <3>2, FatalNow
    <3>4. TypeOK'
      BY <1>1, <2>1, <3>2, <3>3 DEF AInv, TypeOK
    <3>5. QED
      BY <3>3, <3>4 DEF AInv
  <2>3. CASE ~tray.fatal
    <3>1. stack' = <<"engine events">> \o Callers /\ UNCHANGED <<tray, app, hook>>
      BY <1>4, <2>3 DEF PumpTrayEvents, Goto
    <3>2. Place' /\ PumpGoes' /\ stack' \in Seq(Call)
      BY <1>2, <1>3, <2>1, <3>1, PumpStays DEF SamePhase, NothingTakenBack
    <3>3. TypeOK'
      BY <1>1, <2>1, <3>1, <3>2 DEF AInv, TypeOK
    <3>4. QED
      BY <3>2, <3>3 DEF AInv
  <2>4. QED
    BY <2>2, <2>3
<1>5. CASE PumpEngineEvent
  <2>1. /\ UNCHANGED <<scheduled, actions, signal>>
        /\ events # <<>> /\ events' = Tail(events)
    BY <1>5 DEF PumpEngineEvent
  <2>2. events' \in Seq(Event) /\ Head(events).locked \in BOOLEAN
    <3>1. events \in Seq(Event)
      BY DEF AInv, TypeOK
    <3>2. events' \in Seq(Event) /\ Head(events) \in Event
      BY <2>1, <3>1
    <3>3. QED
      BY <3>2 DEF Event
  <2>3. /\ tray' \in TrayState /\ tray'.thread = tray.thread
        /\ window' \in WindowState
    <3>1. /\ tray \in TrayState /\ window \in WindowState
          /\ \/ UNCHANGED <<tray, window>>
             \/ /\ tray' = [tray EXCEPT !.locked = Head(events).locked]
                /\ window' = [window EXCEPT !.locked = Head(events).locked,
                                            !.open = @ /\ ~Head(events).locked]
      BY <1>5 DEF PumpEngineEvent, AInv, TypeOK
    <3>2. QED
      BY <2>2, <3>1 DEF TrayState, WindowState
  <2>4. CASE HandleFatal(Callers) \/ HandleFatal(stack)
    <3>1. /\ Place' /\ PumpGoes' /\ stack' \in Seq(Call)
          /\ app' \in AppState /\ hook' \in HookState
      BY <1>2, <2>1, <2>3, <2>4, FatalNow
    <3>2. TypeOK'
      BY <1>1, <2>1, <2>2, <2>3, <3>1 DEF AInv, TypeOK
    <3>3. QED
      BY <3>1, <3>2 DEF AInv
  <2>5. CASE UNCHANGED <<stack, app, hook>>
    <3>1. Place' /\ PumpGoes' /\ stack' \in Seq(Call)
      BY <1>2, <2>1, <2>3, <2>5, PumpStays DEF SamePhase, NothingTakenBack
    <3>2. TypeOK'
      BY <1>1, <2>1, <2>2, <2>3, <2>5, <3>1 DEF AInv, TypeOK
    <3>3. QED
      BY <3>1, <3>2 DEF AInv
  <2>6. QED
    BY <1>5, <2>4, <2>5 DEF PumpEngineEvent
<1>6. CASE PumpEventsDone
  <2>1. /\ stack' = <<"activation">> \o Callers
        /\ UNCHANGED <<scheduled, app, hook, tray, window, events, actions, signal>>
    BY <1>6 DEF PumpEventsDone, Goto
  <2>2. Place' /\ PumpGoes' /\ stack' \in Seq(Call)
    BY <1>2, <1>3, <2>1, PumpStays DEF SamePhase, NothingTakenBack
  <2>3. TypeOK'
    BY <1>1, <2>1, <2>2 DEF AInv, TypeOK
  <2>4. QED
    BY <2>2, <2>3 DEF AInv
<1>7. CASE PumpActivation
  <2> DEFINE t == <<"actions">> \o Callers
  <2>1. /\ UNCHANGED <<scheduled, hook, tray, window, events>>
        /\ stack' \in {t, Reporting(t)}
        /\ app' = app \/ app' = [app EXCEPT !.polling = FALSE]
        /\ signal' = signal \/ signal' = FALSE
        /\ actions' = actions \/ actions' = Append(actions, "ACTIVATE")
    BY <1>7 DEF PumpActivation, Goto
  <2>2. Follows(t) /\ ~NoPump(t)
    BY <1>2, <1>3
  <2> HIDE DEF t
  <2>3. Follows(stack') /\ ~NoPump(stack')
    BY <2>1, <2>2, ReportingFollows
  <2>4. app' \in AppState /\ SamePhase(app')
    BY <2>1 DEF AInv, TypeOK, AppState, SamePhase
  <2>5. Place' /\ PumpGoes' /\ stack' \in Seq(Call)
    BY <1>2, <2>1, <2>3, <2>4, PumpStays DEF NothingTakenBack
  <2>6. actions' \in Seq(Action) /\ signal' \in BOOLEAN
    <3>1. actions \in Seq(Action) /\ signal \in BOOLEAN /\ "ACTIVATE" \in Action
      BY DEF AInv, TypeOK, Action
    <3>2. Append(actions, "ACTIVATE") \in Seq(Action)
      BY <3>1, AppendKeeps
    <3>3. QED
      BY <2>1, <3>1, <3>2
  <2>7. TypeOK'
    BY <1>1, <2>1, <2>4, <2>5, <2>6 DEF AInv, TypeOK
  <2>8. QED
    BY <2>5, <2>7 DEF AInv
<1>8. CASE PumpGoesOn
  <2>1. /\ UNCHANGED <<scheduled, app, hook, tray, window, events, actions, signal>>
        /\ (app.closing /\ stack' = Callers) \/ stack' = <<"actions">> \o Callers
    BY <1>8 DEF PumpGoesOn, Return, Goto
  <2>2. Place' /\ PumpGoes' /\ stack' \in Seq(Call)
    BY <1>2, <1>3, <2>1, PumpStays DEF SamePhase, NothingTakenBack
  <2>3. TypeOK'
    BY <1>1, <2>1, <2>2 DEF AInv, TypeOK
  <2>4. QED
    BY <2>2, <2>3 DEF AInv
<1>9. CASE PumpDone
  <2>1. /\ scheduled' = (app.running /\ ~app.closing) /\ stack' = Callers
        /\ UNCHANGED <<app, hook, tray, window, events, actions, signal>>
    BY <1>2, <1>9 DEF PumpDone, Return, Rescheduled
  <2>2. NoPump(Callers)
    BY <1>1, CallersFollow
  <2>3. Place'
    BY <1>2, <2>1, <2>2, PlainStep DEF SamePhase, NothingTakenBack
  <2>4. PumpGoes'
    BY <2>1 DEF PumpGoes, AInv, Place, ClosePlace
  <2>5. TypeOK'
    BY <1>1, <1>2, <2>1 DEF AInv, TypeOK
  <2>6. QED
    BY <2>3, <2>4, <2>5 DEF AInv
<1>10. QED
  BY <1>4, <1>5, <1>6, <1>7, <1>8, <1>9

\* handle_tray_action, called by the pump.
LEMMA HandleStep ==
    ASSUME AInv, Looping, ~scheduled, ~app.closing, NEW s, Follows(s), ~NoPump(s),
           NEW action \in Action, Handle(action, s),
           Follows(Tail(s)), Tail(s) \in Seq(Call)
    PROVE  /\ Place' /\ stack' \in Seq(Call)
           /\ scheduled' \in BOOLEAN /\ app' \in AppState /\ hook' \in HookState
           /\ tray' \in TrayState /\ window' \in WindowState /\ registry' \in BOOLEAN
           /\ events' \in Seq(Event)
           /\ ShowMayRaise \/ PumpGoes'
<1>1. /\ scheduled \in BOOLEAN /\ app \in AppState /\ hook \in HookState /\ tray \in TrayState
      /\ window \in WindowState /\ registry \in BOOLEAN /\ events \in Seq(Event)
      /\ ~app.destroyed
  BY DEF AInv, TypeOK, Looping
<1>2. Shown \in WindowState
  BY <1>1 DEF Shown, WindowState
<1>3. CASE \E value \in BOOLEAN :
              LockCommand(value, s) /\ UNCHANGED <<scheduled, tray, window, registry>>
  <2>1. PICK value \in BOOLEAN : LockCommand(value, s)
    BY <1>3
  <2>2. CASE SetLocked(value) /\ stack' = s /\ UNCHANGED app
    <3>1. hook' \in HookState /\ events' \in Seq(Event) /\ hook'.gate = hook.gate
      BY <2>2, SetLockedFacts
    <3>2. Place' /\ PumpGoes' /\ stack' \in Seq(Call)
      BY <1>3, <2>2, <3>1, PumpStays DEF SamePhase, NothingTakenBack
    <3>3. QED
      BY <1>1, <1>3, <2>2, <3>1, <3>2
  <2>3. CASE HandleFatal(s) /\ UNCHANGED events
    <3>1. /\ Place' /\ PumpGoes' /\ stack' \in Seq(Call)
          /\ app' \in AppState /\ hook' \in HookState
      BY <1>3, <2>3, FatalNow
    <3>2. QED
      BY <1>1, <1>3, <2>3, <3>1
  <2>4. QED
    BY <2>1, <2>2, <2>3 DEF LockCommand
<1>4. CASE ShowSettings(s)
  <2>1. /\ UNCHANGED <<scheduled, app, hook, tray, events, registry>>
        /\ \/ window' = Shown /\ stack' = s
           \/ ShowMayRaise /\ stack' = Tail(s) /\ UNCHANGED window
    BY <1>4 DEF ShowSettings
  <2>2. Place' /\ stack' \in Seq(Call)
    BY <1>1, <2>1, PlainStep DEF SamePhase, NothingTakenBack, Follows, Within
  <2>3. ShowMayRaise \/ PumpGoes'
    BY <2>1 DEF PumpGoes
  <2>4. QED
    BY <1>1, <1>2, <2>1, <2>2, <2>3
<1>5. CASE SetStartup(~app.startup, FALSE, s) /\ UNCHANGED <<scheduled, events>>
  <2>1. /\ Place' /\ stack' \in Seq(Call)
        /\ app' \in AppState /\ hook' \in HookState /\ tray' \in TrayState
        /\ window' \in WindowState /\ registry' \in BOOLEAN
        /\ app'.fatal \/ (NoPump(stack') <=> NoPump(s))
    <3>1. (~app.startup) \in BOOLEAN /\ FALSE \in BOOLEAN
      OBVIOUS
    <3>2. QED
      BY <1>1, <1>5, <3>1, StartupStep
  <2>2. PumpGoes'
    BY <2>1 DEF PumpGoes, Place, FatalPlace, ClosePlace
  <2>3. QED
    BY <1>1, <1>5, <2>1, <2>2
<1>6. CASE CallShutdown(s) /\ UNCHANGED <<hook, tray, window, events, registry>>
  <2>1. /\ Place' /\ stack' \in Seq(Call) /\ app' \in AppState /\ scheduled' \in BOOLEAN
        /\ app'.closing
    BY <1>6, ShutdownStep DEF Follows
  <2>2. PumpGoes'
    BY <2>1 DEF PumpGoes, Place, ClosePlace
  <2>3. QED
    BY <1>1, <1>6, <2>1, <2>2
<1>7. CASE HandleActivation(s)
  <2>1. /\ UNCHANGED <<scheduled, app, hook, tray, events, registry>>
        /\ window' = window \/ window' = Shown
        /\ stack' = s \/ stack' = <<"status">> \o s \/ stack' = Reporting(s)
    BY <1>7 DEF HandleActivation, ActivationFails
  <2>2. Follows(stack') /\ ~NoPump(stack')
    <3>1. "status" \in Later /\ "status" \notin PumpPhase
      BY DEF Later, Dialog, PumpPhase
    <3>2. Follows(<<"status">> \o s) /\ ~NoPump(<<"status">> \o s)
      BY <3>1, PushFollows, Push, LaterCalls
    <3>3. QED
      BY <2>1, <3>2, ReportingFollows
  <2>3. Place' /\ PumpGoes' /\ stack' \in Seq(Call)
    BY <2>1, <2>2, PumpStays DEF SamePhase, NothingTakenBack
  <2>4. QED
    BY <1>1, <1>2, <2>1, <2>3
<1>8. QED
  BY <1>3, <1>4, <1>5, <1>6, <1>7 DEF Handle

LEMMA PumpActionStep ==
    ASSUME AInv, PumpAction
    PROVE  AInv' /\ (ShowMayRaise \/ PumpGoes')
<1>1. /\ stack # <<>> /\ Top = "actions" /\ actions # <<>> /\ actions' = Tail(actions)
      /\ UNCHANGED <<signal, inputs>> /\ "actions" \in PumpPhase /\ "acted" \in PumpPhase
  BY DEF PumpAction, In, PumpPhase
<1>2. actions' \in Seq(Action) /\ Head(actions) \in Action
  <2>1. actions \in Seq(Action)
    BY DEF AInv, TypeOK
  <2>2. QED
    BY <1>1, <2>1
<1>3. CASE app.closing
  <2>1. /\ stack' = Callers /\ UNCHANGED <<scheduled, app, hook, tray, window, events, registry>>
    BY <1>3 DEF PumpAction, Return
  <2>2. Place' /\ PumpGoes' /\ stack' \in Seq(Call)
    BY <1>1, <1>3, <2>1, PumpAt, PumpStays DEF SamePhase, NothingTakenBack
  <2>3. TypeOK'
    BY <1>1, <1>2, <2>1, <2>2 DEF AInv, TypeOK
  <2>4. QED
    BY <2>2, <2>3 DEF AInv
<1>4. CASE ~app.closing
  <2> DEFINE s == <<"acted">> \o Callers
  <2>1. Handle(Head(actions), s)
    BY <1>4 DEF PumpAction
  <2>2. /\ Looping /\ ~scheduled /\ Follows(s) /\ ~NoPump(s) /\ Tail(s) = Callers
        /\ Follows(Callers) /\ Callers \in Seq(Call)
    BY <1>1, PumpAt
  <2> HIDE DEF s
  <2>3. /\ Place' /\ stack' \in Seq(Call)
        /\ scheduled' \in BOOLEAN /\ app' \in AppState /\ hook' \in HookState
        /\ tray' \in TrayState /\ window' \in WindowState /\ registry' \in BOOLEAN
        /\ events' \in Seq(Event)
        /\ ShowMayRaise \/ PumpGoes'
    BY <1>2, <1>4, <2>1, <2>2, HandleStep
  <2>4. TypeOK'
    BY <1>1, <1>2, <2>3 DEF AInv, TypeOK
  <2>5. QED
    BY <2>3, <2>4 DEF AInv
<1>5. QED
  BY <1>3, <1>4

-----------------------------------------------------------------------------
(* shutdown() *)

\* From one call of the shutdown to the next.
LEMMA StopStep ==
    ASSUME AInv, stack # <<>>, Top \in StopCall,
           NEW c \in {"fail open", "stop hook", "stop tray", "destroy"},
           \/ stack' = <<c>> \o Callers
           \/ stack' = Reporting(<<c>> \o Callers) /\ hook'.gate,
           c = "fail open" \/ hook'.gate, c # "destroy" \/ tray'.thread # "running",
           NothingTakenBack, UNCHANGED <<scheduled, app>>
    PROVE  Place' /\ PumpGoes' /\ stack' \in Seq(Call)
<1> DEFINE t == <<c>> \o Callers
<1>1. /\ Callers \in Seq(Call) /\ Calls(stack) = {Top} \cup Calls(Callers) /\ OnePump(Callers)
      /\ app.closing /\ ~scheduled /\ ~app.running /\ Calls(stack) \cap StartCall = {}
  BY Pop DEF AInv, TypeOK, Callers, Top, Place, PumpPlace, ClosePlace, StartPlace
<1>2. c \in Call /\ c \notin PumpPhase /\ c \notin StartCall /\ c \notin {"fatal", "report"}
  BY DEF Call, StopCall, PumpPhase, StartCall
<1>3. /\ t \in Seq(Call) /\ t # <<>> /\ Head(t) = c /\ OnePump(t)
      /\ Calls(t) = {c} \cup Calls(Callers)
  BY <1>1, <1>2, Push
<1> HIDE DEF t
<1>4. /\ stack' \in Seq(Call) /\ OnePump(stack')
      /\ Calls(Callers) \subseteq Calls(stack')
      /\ Calls(stack') \subseteq {c, "error"} \cup Calls(Callers)
      /\ hook'.gate \/ (stack' # <<>> /\ Head(stack') = c)
  BY <1>3, ReportingCalls DEF t
<1>5. Top \notin {"fatal", "report", "destroy"} /\ "error" \notin StartCall \cup StopCall
  BY DEF StopCall, StartCall
<1>6. "fatal" \in Calls(stack') <=> "fatal" \in Calls(stack)
  BY <1>1, <1>2, <1>4, <1>5
<1>7. "report" \notin Calls(stack') /\ Calls(stack') \cap StartCall = {}
  BY <1>1, <1>2, <1>4, <1>5 DEF StartCall
<1>8. StartPlace' /\ FatalPlace'
  BY <1>1, <1>6, <1>7 DEF StartPlace, FatalPlace, AInv, Place, NothingTakenBack
<1>9. ClosePlace'
  BY <1>1, <1>4, <1>7 DEF ClosePlace, AInv, Place, NothingTakenBack, Top
<1>10. EndPlace'
  BY <1>1, <1>4 DEF EndPlace, AInv, Place, NothingTakenBack
<1>11. PumpPlace' /\ PumpGoes'
  BY <1>1, <1>4 DEF PumpPlace, PumpGoes
<1>12. QED
  BY <1>4, <1>8, <1>9, <1>10, <1>11 DEF Place

LEMMA ShutdownSteps ==
    ASSUME AInv, Fatal \/ ShutdownUnlock \/ ShutdownFailsOpen \/ ShutdownHook \/ ShutdownTray
                    \/ DestroyRoot
    PROVE  AInv' /\ PumpGoes'
<1>1. CASE Fatal
  <2>1. /\ stack # <<>> /\ Top = "fatal" /\ CallShutdown(Callers)
        /\ UNCHANGED <<hook, tray, window, events, actions, signal, registry, inputs>>
    BY <1>1 DEF Fatal, In
  <2>2. Looping /\ Within(Callers)
    BY <2>1, LoopingAt, CallersFollow
  <2>3. /\ Place' /\ stack' \in Seq(Call) /\ app' \in AppState /\ scheduled' \in BOOLEAN
        /\ app'.closing
    BY <2>1, <2>2, ShutdownStep
  <2>4. PumpGoes'
    BY <2>3 DEF PumpGoes, Place, ClosePlace
  <2>5. TypeOK'
    BY <2>1, <2>3 DEF AInv, TypeOK
  <2>6. QED
    BY <2>3, <2>4, <2>5 DEF AInv
<1>2. CASE ShutdownUnlock
  <2>1. /\ stack # <<>> /\ Top \in StopCall
        /\ UNCHANGED <<scheduled, app, tray, window, actions, signal, registry, inputs>>
        /\ \/ SetLocked(FALSE) /\ stack' = <<"fail open">> \o Callers
           \/ /\ hook' = [hook EXCEPT !.gate = TRUE] /\ UNCHANGED events
              /\ stack' = Reporting(<<"fail open">> \o Callers)
    BY <1>2 DEF ShutdownUnlock, ShutdownKeeps, FailOpenAfterError, In, Goto, StopCall
  <2>2. /\ hook' \in HookState /\ events' \in Seq(Event) /\ (hook.gate => hook'.gate)
        /\ \/ stack' = <<"fail open">> \o Callers
           \/ stack' = Reporting(<<"fail open">> \o Callers) /\ hook'.gate
    <3>1. CASE SetLocked(FALSE) /\ stack' = <<"fail open">> \o Callers
      BY <3>1, SetLockedFacts
    <3>2. CASE /\ hook' = [hook EXCEPT !.gate = TRUE] /\ UNCHANGED events
               /\ stack' = Reporting(<<"fail open">> \o Callers)
      BY <3>2 DEF AInv, TypeOK, HookState
    <3>3. QED
      BY <2>1, <3>1, <3>2
  <2>3. Place' /\ PumpGoes' /\ stack' \in Seq(Call)
    BY <2>1, <2>2, StopStep DEF NothingTakenBack
  <2>4. TypeOK'
    BY <2>1, <2>2, <2>3 DEF AInv, TypeOK
  <2>5. QED
    BY <2>3, <2>4 DEF AInv
<1>3. CASE ShutdownFailsOpen
  <2>1. /\ stack # <<>> /\ Top \in StopCall
        /\ UNCHANGED <<scheduled, app, tray, window, actions, signal, registry, inputs, events>>
        /\ hook' = [hook EXCEPT !.gate = TRUE] /\ stack' = <<"stop hook">> \o Callers
    BY <1>3 DEF ShutdownFailsOpen, ShutdownKeeps, In, Goto, StopCall
  <2>2. hook' \in HookState /\ hook'.gate
    BY <2>1 DEF AInv, TypeOK, HookState
  <2>3. Place' /\ PumpGoes' /\ stack' \in Seq(Call)
    BY <2>1, <2>2, StopStep DEF NothingTakenBack
  <2>4. TypeOK'
    BY <2>1, <2>2, <2>3 DEF AInv, TypeOK
  <2>5. QED
    BY <2>3, <2>4 DEF AInv
<1>4. CASE ShutdownHook
  <2>1. /\ stack # <<>> /\ Top = "stop hook" /\ StopHook(<<"stop tray">> \o Callers)
        /\ UNCHANGED <<window, events, actions, signal, registry, inputs>>
    BY <1>4 DEF ShutdownHook, StartKeeps, In
  <2>2. <<"stop tray">> \o Callers \in Seq(Call)
    BY <2>1, Pop, Push DEF AInv, TypeOK, Callers, Call, StopCall
  <2>3. /\ hook' \in HookState /\ hook'.gate /\ UNCHANGED <<scheduled, app, tray>>
        /\ stack' = <<"stop tray">> \o Callers \/ stack' = Reporting(<<"stop tray">> \o Callers)
    BY <2>1, <2>2, StopHookFacts
  <2>4. Place' /\ PumpGoes' /\ stack' \in Seq(Call)
    BY <2>1, <2>3, StopStep DEF NothingTakenBack, StopCall
  <2>5. TypeOK'
    BY <2>1, <2>3, <2>4 DEF AInv, TypeOK
  <2>6. QED
    BY <2>4, <2>5 DEF AInv
<1>5. CASE ShutdownTray
  <2>1. /\ stack # <<>> /\ Top = "stop tray" /\ StopTray(<<"destroy">> \o Callers)
        /\ UNCHANGED <<window, events, actions, signal, registry, inputs>>
    BY <1>5 DEF ShutdownTray, StartKeeps, In
  <2>2. <<"destroy">> \o Callers \in Seq(Call)
    BY <2>1, Pop, Push DEF AInv, TypeOK, Callers, Call
  <2>3. /\ tray' \in TrayState /\ tray'.thread = "dead" /\ UNCHANGED <<scheduled, app, hook>>
        /\ stack' = <<"destroy">> \o Callers \/ stack' = Reporting(<<"destroy">> \o Callers)
    BY <2>1, <2>2, StopTrayFacts
  <2>4. hook.gate
    <3>1. "stop tray" \in Calls(stack)
      BY <2>1, Pop DEF AInv, TypeOK, Top
    <3>2. QED
      BY <3>1 DEF AInv, Place, ClosePlace
  <2>5. Place' /\ PumpGoes' /\ stack' \in Seq(Call)
    BY <2>1, <2>3, <2>4, StopStep DEF NothingTakenBack, StopCall
  <2>6. TypeOK'
    BY <2>1, <2>3, <2>5 DEF AInv, TypeOK
  <2>7. QED
    BY <2>5, <2>6 DEF AInv
<1>6. CASE DestroyRoot
  <2>1. /\ stack # <<>> /\ Top = "destroy" /\ stack' = Callers
        /\ app' = [app EXCEPT !.destroyed = TRUE] /\ window' = [window EXCEPT !.open = FALSE]
        /\ UNCHANGED <<scheduled, hook, tray, events, actions, signal, registry, inputs>>
    BY <1>6 DEF DestroyRoot, In, Return
  <2>2. /\ app' \in AppState /\ app'.closing = app.closing /\ app'.running = app.running
        /\ app'.fatal = app.fatal /\ window' \in WindowState /\ ~window'.open
    BY <2>1 DEF AInv, TypeOK, AppState, WindowState
  <2>3. /\ stack' \in Seq(Call) /\ Calls(stack) = {Top} \cup Calls(stack') /\ OnePump(stack')
    BY <2>1, Pop DEF AInv, TypeOK, Callers, Top, Place, PumpPlace
  <2>4. /\ hook.gate /\ tray.thread # "running" /\ ~scheduled /\ ~app.running
        /\ app.closing \/ Calls(stack) \subseteq {"error", "destroy"}
    BY <2>1, <2>3 DEF AInv, Place, EndPlace
  <2>5. Calls(stack') \cap StartCall = {}
    BY <2>3, <2>4 DEF AInv, Place, StartPlace, StartCall
  <2>6. StartPlace' /\ FatalPlace'
    BY <2>1, <2>2, <2>3, <2>4, <2>5 DEF StartPlace, FatalPlace, AInv, Place
  <2>7. ClosePlace' /\ EndPlace'
    BY <2>1, <2>2, <2>3, <2>4 DEF ClosePlace, EndPlace, AInv, Place
  <2>8. PumpPlace' /\ PumpGoes'
    BY <2>1, <2>2, <2>3, <2>4 DEF PumpPlace, PumpGoes
  <2>9. TypeOK'
    BY <2>1, <2>2, <2>3 DEF AInv, TypeOK
  <2>10. QED
    BY <2>6, <2>7, <2>8, <2>9 DEF AInv, Place
<1>7. QED
  BY <1>1, <1>2, <1>3, <1>4, <1>5, <1>6

-----------------------------------------------------------------------------
(* The theorems *)

LEMMA NothingYet == ASSUME NEW S PROVE <<>> \in Seq(S)
OBVIOUS

LEMMA InitAInv == Init => AInv /\ PumpGoes
<1> SUFFICES ASSUME Init PROVE AInv /\ PumpGoes
  OBVIOUS
<1>1. "start hook" \in StartCall /\ "start hook" \in Call /\ "start hook" \notin PumpPhase
  BY DEF StartCall, Call, PumpPhase
<1>2. stack = <<"start hook">>
  BY DEF Init
<1>3. /\ stack \in Seq(Call) /\ OnePump(stack) /\ NoPump(stack)
      /\ Calls(stack) \subseteq {"error", "start hook"}
  BY <1>1, <1>2, StartStacks
<1>4. PICK enabled \in BOOLEAN :
         /\ registry = enabled
         /\ app = [running |-> FALSE, closing |-> FALSE, fatal |-> FALSE,
                   destroyed |-> FALSE, polling |-> TRUE, startup |-> enabled]
         /\ tray = [thread |-> "new", fatal |-> FALSE, locked |-> FALSE, startup |-> enabled]
         /\ window = [open |-> FALSE, locked |-> FALSE, startup |-> enabled]
  BY DEF Init
<1>5. app \in AppState /\ tray \in TrayState /\ window \in WindowState /\ registry \in BOOLEAN
  BY <1>4 DEF AppState, TrayState, WindowState
<1>6. /\ hook \in HookState /\ events \in Seq(Event) /\ actions \in Seq(Action)
      /\ scheduled \in BOOLEAN /\ ~scheduled /\ signal \in BOOLEAN /\ inputs \in 0..MaxInputs
  <2>1. hook \in HookState
    BY DEF Init, HookState
  <2>2. events = <<>> /\ actions = <<>>
    BY DEF Init
  <2>3. events \in Seq(Event) /\ actions \in Seq(Action)
    BY <2>2, NothingYet
  <2>4. scheduled = FALSE /\ signal = FALSE /\ inputs = 0
    BY DEF Init
  <2>5. inputs \in 0..MaxInputs
    BY <2>4, AppAssumption
  <2>6. QED
    BY <2>1, <2>3, <2>4, <2>5
<1>7. TypeOK
  BY <1>3, <1>5, <1>6 DEF TypeOK
<1>8. StartPlace /\ FatalPlace /\ EndPlace
  BY <1>1, <1>2, <1>3, <1>4, <1>6 DEF StartPlace, FatalPlace, EndPlace
<1>9. ClosePlace
  BY <1>3, <1>4 DEF ClosePlace, StopCall
<1>10. PumpPlace /\ PumpGoes
  BY <1>3, <1>4 DEF PumpPlace, PumpGoes
<1>11. QED
  BY <1>7, <1>8, <1>9, <1>10 DEF AInv, Place

LEMMA StepAInv == AInv /\ [Next]_vars => AInv' /\ (PumpGoes => ShowMayRaise \/ PumpGoes')
<1> SUFFICES ASSUME AInv, [Next]_vars PROVE AInv' /\ (PumpGoes => ShowMayRaise \/ PumpGoes')
  OBVIOUS
<1>1. CASE UNCHANGED vars
  <2>1. TypeOK' /\ (PumpGoes => PumpGoes')
    BY <1>1 DEF vars, AInv, TypeOK, PumpGoes
  <2>2. Place'
    BY <1>1 DEF vars, AInv, Place, StartPlace, FatalPlace, ClosePlace, EndPlace, PumpPlace, Top
  <2>3. QED
    BY <2>1, <2>2 DEF AInv
<1>2. CASE MainStep
  BY <1>2, StartStep, LoopStep, PumpEventStep, PumpActionStep, ShutdownSteps DEF MainStep, PumpStep
<1>3. CASE Next /\ ~MainStep
  BY <1>3, LoopStep, WindowStartupStep, OthersStep DEF Next, UserStep
<1>4. QED
  BY <1>1, <1>2, <1>3

LEMMA AppAlways == Spec => []AInv
BY InitAInv, StepAInv, PTL DEF Spec

\* The pump is never entered while it runs, and it is not due then either.
PumpNeverNests == Cardinality(InPump) <= 1 /\ (scheduled => InPump = {})

LEMMA PumpIsOneFacts ==
    ASSUME AInv
    PROVE  /\ PumpNeverNests
           /\ PumpGoes => PumpIsOne
<1>1. NoPump(stack) <=> InPump = {}
  BY DEF NoPump, Calls, InPump
<1>2. \A i, j \in InPump : i = j
  BY DEF AInv, Place, PumpPlace, OnePump, InPump
<1>3. Cardinality(InPump) <= 1
  <2>1. CASE InPump = {}
    BY <2>1, FS_EmptySet
  <2>2. ASSUME NEW i \in InPump PROVE Cardinality(InPump) <= 1
    <3>1. InPump = {i}
      BY <1>2
    <3>2. Cardinality({i}) = 1
      BY FS_Singleton
    <3>3. QED
      BY <3>1, <3>2
  <2>3. QED
    BY <2>1, <2>2
<1>4. scheduled => InPump = {}
  BY <1>1 DEF AInv, Place, PumpPlace
<1>5. "fatal" \in Calls(stack) => \E i \in DOMAIN stack : stack[i] = "fatal"
  BY DEF Calls
<1>6. QED
  BY <1>1, <1>3, <1>4, <1>5 DEF PumpNeverNests, PumpIsOne, PumpGoes

LEMMA AppFacts == AInv => TypeOK /\ PumpNeverNests /\ NoDialogUnderTheLock /\ RootGoesLast
<1> SUFFICES ASSUME AInv PROVE TypeOK /\ PumpNeverNests /\ NoDialogUnderTheLock /\ RootGoesLast
  OBVIOUS
<1>1. NoDialogUnderTheLock
  <2>1. Dialog \cap {"unlock", "fail open"} = {}
    BY DEF Dialog
  <2>2. QED
    BY <2>1 DEF AInv, Place, FatalPlace, ClosePlace, NoDialogUnderTheLock, Locked
<1>2. RootGoesLast
  BY DEF AInv, Place, EndPlace, RootGoesLast
<1>3. QED
  BY <1>1, <1>2, PumpIsOneFacts DEF AInv

\* Whatever fails and whichever dialogs are stacked: the pump never runs inside
\* itself, no dialog of an ending application waits under the lock, and the
\* root is destroyed after both threads are served for the last time
\* (AppLifecycle.pump_events, _handle_fatal, shutdown).
THEOREM AppSafety == Spec => [](TypeOK /\ PumpNeverNests /\ NoDialogUnderTheLock /\ RootGoesLast)
BY AppAlways, AppFacts, PTL

\* As long as Tk does not raise when the tray shows the window, the pump of a
\* running application is also never lost (_run_scheduled_pump).
THEOREM AppCorrect ==
    ASSUME ~ShowMayRaise
    PROVE  Spec => []AppInv
<1>1. Init => AInv /\ PumpGoes
  BY InitAInv
<1>2. (AInv /\ PumpGoes) /\ [Next]_vars => (AInv /\ PumpGoes)'
  BY StepAInv
<1>3. AInv /\ PumpGoes => AppInv
  BY AppFacts, PumpIsOneFacts DEF AppInv
<1>4. QED
  BY <1>1, <1>2, <1>3, PTL DEF Spec

-----------------------------------------------------------------------------
(* What is shown of Start with Windows *)

LEMMA FatalShows ==
    ASSUME AInv, NEW s, HandleFatal(s)
    PROVE  app'.startup = app.startup
<1>1. app \in AppState /\ (app' = app \/ app' = [app EXCEPT !.fatal = TRUE])
  BY DEF HandleFatal, HandleFatalWith, AInv, TypeOK
<1>2. QED
  BY <1>1 DEF AppState

LEMMA ShutdownShows ==
    ASSUME AInv, NEW s, CallShutdown(s)
    PROVE  app'.startup = app.startup
<1>1. /\ app \in AppState
      /\ \/ app' = app
         \/ app' = [app EXCEPT !.closing = TRUE, !.running = FALSE, !.polling = FALSE]
  BY DEF CallShutdown, AInv, TypeOK
<1>2. QED
  BY <1>1 DEF AppState

LEMMA ShowsAction ==
    ASSUME AInv, NEW action, NEW s, Follows(s), Looping, ~scheduled, ~app.closing,
           Handle(action, s)
    PROVE  ShowsStartup
<1>1. CASE \E value : LockCommand(value, s) /\ UNCHANGED <<scheduled, tray, window, registry>>
  BY <1>1, FatalShows DEF LockCommand, ShowsStartup
<1>2. CASE ShowSettings(s) \/ HandleActivation(s)
  <2>1. /\ UNCHANGED <<app, tray, registry>>
        /\ window' = window \/ window' = [window EXCEPT !.open = @ \/ MayShow]
    BY <1>2 DEF ShowSettings, HandleActivation, Shown
  <2>2. window'.startup = window.startup
    BY <2>1 DEF AInv, TypeOK, WindowState
  <2>3. QED
    BY <2>1, <2>2 DEF ShowsStartup
<1>3. CASE SetStartup(~app.startup, FALSE, s) /\ UNCHANGED <<scheduled, events>>
  <2>1. (~app.startup) \in BOOLEAN /\ FALSE \in BOOLEAN /\ ~app.destroyed
    BY DEF Looping
  <2>2. QED
    BY <1>3, <2>1, StartupStep DEF ShowsStartup, Dialog
<1>4. CASE CallShutdown(s) /\ UNCHANGED <<hook, tray, window, events, registry>>
  BY <1>4, ShutdownShows DEF ShowsStartup
<1>5. QED
  BY <1>1, <1>2, <1>3, <1>4 DEF Handle

\* The steps that leave registry and what is shown of it alone.
LEMMA ShowsTheSame ==
    ASSUME AInv, UNCHANGED registry, app'.startup = app.startup, tray'.startup = tray.startup,
           window'.startup = window.startup
    PROVE  ShowsStartup
BY DEF ShowsStartup

\* A step of the application never shows anything but what the registry holds,
\* and tells of every change of it (set_startup_enabled, apply_startup_result).
THEOREM StartupIsTold == Spec => StartupIsShownOrReported
<1>1. AInv /\ [Next]_vars => [ShowsStartup]_vars
  <2> SUFFICES ASSUME AInv, Next PROVE ShowsStartup
    OBVIOUS
  <2>1. app \in AppState /\ tray \in TrayState /\ window \in WindowState
    BY DEF AInv, TypeOK
  <2>2. CASE StartHook \/ CheckHook \/ StartTray \/ UndoTray \/ UndoHook \/ ReportStart
    <3>1. /\ UNCHANGED <<registry, window>>
          /\ app' = app \/ app' = [app EXCEPT !.running = TRUE]
          /\ \/ tray' = tray \/ tray' = [tray EXCEPT !.thread = "running"]
             \/ tray' = [tray EXCEPT !.thread = "dead"]
      BY <2>2 DEF StartHook, CheckHook, StartTray, UndoTray, UndoHook, ReportStart, StartKeeps,
         StopHook, StopTray
    <3>2. app'.startup = app.startup /\ tray'.startup = tray.startup
      BY <2>1, <3>1 DEF AppState, TrayState
    <3>3. QED
      BY <3>1, <3>2, ShowsTheSame
  <2>3. CASE RunPump \/ CloseDialog \/ WindowSave
    BY <2>3, ShowsTheSame DEF RunPump, CloseDialog, WindowSave
  <2>4. CASE MainLoopEnds \/ Fatal
    BY <2>4, ShutdownShows, ShowsTheSame DEF MainLoopEnds, Fatal
  <2>5. CASE WindowUnhealthy \/ SaveContinues
    BY <2>5, FatalShows, ShowsTheSame DEF WindowUnhealthy, SaveContinues
  <2>6. CASE WindowStartup
    <3>1. /\ stack # <<>> /\ Top = "main loop" /\ ~app.destroyed
          /\ SetStartup(~window.startup, TRUE, stack) /\ UNCHANGED scheduled
      BY <2>6 DEF WindowStartup, WindowReady, In
    <3>2. /\ Looping /\ Follows(stack) /\ (scheduled => NoPump(stack))
          /\ (~window.startup) \in BOOLEAN /\ TRUE \in BOOLEAN
      BY <3>1, LoopingAt, CallersFollow DEF AInv, Place, PumpPlace
    <3>3. QED
      BY <3>1, <3>2, StartupStep DEF ShowsStartup, Dialog
  <2>7. CASE PumpTrayEvents
    <3>1. /\ UNCHANGED <<registry, window>>
          /\ \/ tray' = [tray EXCEPT !.fatal = FALSE] /\ HandleFatal(Callers)
             \/ UNCHANGED <<tray, app>>
      BY <2>7 DEF PumpTrayEvents
    <3>2. tray'.startup = tray.startup
      BY <2>1, <3>1 DEF TrayState
    <3>3. QED
      BY <3>1, <3>2, FatalShows, ShowsTheSame
  <2>8. CASE PumpEngineEvent
    <3>1. /\ UNCHANGED registry
          /\ app' = app \/ HandleFatal(Callers) \/ HandleFatal(stack)
          /\ \/ UNCHANGED <<tray, window>>
             \/ /\ tray' = [tray EXCEPT !.locked = Head(events).locked]
                /\ window' = [window EXCEPT !.locked = Head(events).locked,
                                            !.open = @ /\ ~Head(events).locked]
      BY <2>8 DEF PumpEngineEvent
    <3>2. tray'.startup = tray.startup /\ window'.startup = window.startup
      BY <2>1, <3>1 DEF TrayState, WindowState
    <3>3. app'.startup = app.startup
      BY <3>1, FatalShows
    <3>4. QED
      BY <3>1, <3>2, <3>3, ShowsTheSame
  <2>9. CASE PumpEventsDone \/ PumpActivation \/ PumpGoesOn \/ PumpDone
    <3>1. /\ UNCHANGED <<registry, tray, window>>
          /\ app' = app \/ app' = [app EXCEPT !.polling = FALSE]
      BY <2>9 DEF PumpEventsDone, PumpActivation, PumpGoesOn, PumpDone
    <3>2. app'.startup = app.startup
      BY <2>1, <3>1 DEF AppState
    <3>3. QED
      BY <3>1, <3>2, ShowsTheSame
  <2>10. CASE PumpAction
    <3>1. stack # <<>> /\ Top \in PumpPhase /\ "acted" \in PumpPhase
      BY <2>10 DEF PumpAction, In, PumpPhase
    <3>2. CASE app.closing
      BY <2>10, <3>2, ShowsTheSame DEF PumpAction
    <3>3. CASE ~app.closing
      <4>1. Handle(Head(actions), <<"acted">> \o Callers)
        BY <2>10, <3>3 DEF PumpAction
      <4>2. Looping /\ ~scheduled /\ Follows(<<"acted">> \o Callers)
        BY <3>1, PumpAt
      <4>3. QED
        BY <3>3, <4>1, <4>2, ShowsAction
    <3>4. QED
      BY <3>2, <3>3
  <2>11. CASE ShutdownUnlock \/ ShutdownFailsOpen
    BY <2>11, ShowsTheSame DEF ShutdownUnlock, ShutdownFailsOpen, ShutdownKeeps
  <2>12. CASE ShutdownHook \/ ShutdownTray \/ DestroyRoot
    <3>1. /\ UNCHANGED registry
          /\ app' = app \/ app' = [app EXCEPT !.destroyed = TRUE]
          /\ tray' = tray \/ tray' = [tray EXCEPT !.thread = "dead"]
          /\ window' = window \/ window' = [window EXCEPT !.open = FALSE]
      BY <2>12 DEF ShutdownHook, ShutdownTray, DestroyRoot, StartKeeps, StopHook, StopTray
    <3>2. /\ app'.startup = app.startup /\ tray'.startup = tray.startup
          /\ window'.startup = window.startup
      BY <2>1, <3>1 DEF AppState, TrayState, WindowState
    <3>3. QED
      BY <3>1, <3>2, ShowsTheSame
  <2>13. CASE TrayFails
    <3>1. /\ UNCHANGED <<registry, app, window>>
          /\ tray' = [tray EXCEPT !.thread = "dead", !.fatal = TRUE]
      BY <2>13 DEF TrayFails, OthersKeep
    <3>2. tray'.startup = tray.startup
      BY <2>1, <3>1
    <3>3. QED
      BY <3>1, <3>2, ShowsTheSame
  <2>14. CASE HotkeyPressed \/ EngineFails \/ EngineReconciles \/ SecondLaunch
                 \/ \E action \in TrayAction : MenuAction(action)
    BY <2>14, ShowsTheSame DEF HotkeyPressed, EngineFails, EngineReconciles, SecondLaunch,
       MenuAction, OthersKeep
  <2>15. QED
    BY <2>2, <2>3, <2>4, <2>5, <2>6, <2>7, <2>8, <2>9, <2>10, <2>11, <2>12, <2>13, <2>14 DEF Next,
       MainStep, PumpStep, UserStep
<1>2. QED
  BY <1>1, AppAlways, PTL DEF Spec, StartupIsShownOrReported

-----------------------------------------------------------------------------
(* One owner per session: that two processes never own it is not inductive *)
(* by itself.  An owner must be seen by the next launch, so its handle on  *)
(* the mutex has to be there for as long as it is an owner.                *)

\* InstanceInv is inductive: the three parts hold each other up.
LEMMA InstanceInit == GInit => InstanceInv
BY DEF GInit, InstanceInv, GTypeOK, OneOwner, HandlesAreInUse, Step, Owning, Serving, Signaling

LEMMA InstanceStep == InstanceInv /\ [GNext]_gvars => InstanceInv'
<1> USE DEF InstanceInv, GTypeOK, OneOwner, HandlesAreInUse, Step, Owning, Serving,
            Signaling, Go
<1> SUFFICES ASSUME InstanceInv, [GNext]_gvars PROVE InstanceInv'
  OBVIOUS
<1>1. CASE UNCHANGED gvars
  BY <1>1 DEF gvars
<1>2. ASSUME NEW p \in Process,
             Launch(p) \/ NoIdentity(p) \/ DeadlinePasses(p) \/ AskingFails(p)
                \/ CloseMessage(p) \/ Build(p) \/ StopPolling(p) \/ RunEnds(p)
      PROVE InstanceInv'
  BY <1>2 DEF Launch, NoIdentity, DeadlinePasses, AskingFails, CloseMessage, Build,
              StopPolling, RunEnds
<1>3. ASSUME NEW p \in Process, Acquire(p) PROVE InstanceInv'
  BY <1>3 DEF Acquire, AlreadyExists
<1>4. ASSUME NEW p \in Process, CreateEvent(p) \/ UndoMutex(p) \/ CloseDuplicate(p)
      PROVE InstanceInv'
  BY <1>4 DEF CreateEvent, UndoMutex, CloseDuplicate, CloseMutexHandle
<1>5. ASSUME NEW p \in Process, AskOwner(p) \/ SetEvent(p) \/ Poll(p)
      PROVE InstanceInv'
  BY <1>5 DEF AskOwner, SetEvent, Poll, AfterWait, EventExists
<1>6. ASSUME NEW p \in Process, CloseOpened(p) \/ CloseEvent(p) \/ CloseMutex(p)
      PROVE InstanceInv'
  BY <1>6 DEF CloseOpened, CloseEvent, CloseMutex, CloseEventHandle, CloseMutexHandle
<1>7. ASSUME NEW p \in Process, Crash(p) PROVE InstanceInv'
  BY <1>7 DEF Crash, CloseEventHandle
<1>8. QED
  BY <1>1, <1>2, <1>3, <1>4, <1>5, <1>6, <1>7 DEF GNext, Proceed

\* For any set of launches: one owner at most, and no handle that outlives its
\* use, whatever is launched, fails or is killed (InstanceGuard of
\* single_instance.py).
THEOREM InstanceInvariance == GSpec => []InstanceInv
BY InstanceInit, InstanceStep, PTL DEF GSpec

-----------------------------------------------------------------------------
\* What README.md:30 promises of a second launch: while a process serves, no
\* other process becomes an owner, or even creates the event, in one step.
NoSecondOwner ==
    [][\A p, q \in Process :
          p # q /\ pc[p] \in Serving => pc'[q] \notin Owning]_gvars

\* A launch finds the mutex of the process that serves, so it does not get as
\* far as create_application.
THEOREM SecondLaunchNeverOwns == GSpec => NoSecondOwner
<1>1. InstanceInv /\ InstanceInv' /\ [GNext]_gvars
         => [\A p, q \in Process :
                p # q /\ pc[p] \in Serving => pc'[q] \notin Owning]_gvars
  <2> SUFFICES ASSUME InstanceInv, InstanceInv', GNext,
                      NEW p \in Process, NEW q \in Process,
                      p # q, pc[p] \in Serving
               PROVE pc'[q] \notin Owning
    BY DEF gvars
  <2>1. pc[q] \notin Owning /\ p \in mutex
    BY DEF InstanceInv, OneOwner, HandlesAreInUse, Owning
  <2>2. PICK r \in Process :
            \/ Launch(r) \/ Proceed(r) \/ DeadlinePasses(r) \/ AskingFails(r)
            \/ CloseMessage(r) \/ StopPolling(r) \/ RunEnds(r) \/ Crash(r)
    BY DEF GNext
  <2>3. pc \in [Process -> Step]
    BY DEF InstanceInv, GTypeOK
  <2>4. CASE r # q
    BY <2>1, <2>2, <2>3, <2>4 DEF Launch, Proceed, DeadlinePasses, AskingFails, CloseMessage,
       StopPolling, RunEnds, Crash, NoIdentity, Acquire, CreateEvent, UndoMutex,
       CloseDuplicate, AskOwner, SetEvent, CloseOpened, Build, Poll, CloseEvent, CloseMutex, Go
  <2>5. CASE r = q
    BY <2>1, <2>2, <2>3, <2>5 DEF Launch, Proceed, DeadlinePasses, AskingFails, CloseMessage,
       StopPolling, RunEnds, Crash, NoIdentity, Acquire, CreateEvent, UndoMutex,
       CloseDuplicate, AskOwner, SetEvent, CloseOpened, Build, Poll, CloseEvent, CloseMutex, Go,
       AlreadyExists, Owning, Serving
  <2>6. QED
    BY <2>4, <2>5
<1>2. QED
  BY <1>1, InstanceInvariance, PTL DEF GSpec, NoSecondOwner
=============================================================================
