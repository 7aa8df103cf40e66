------------------------------ MODULE Recording ------------------------------
(***************************************************************************)
(* Recording a shortcut, from the keyboard to the Settings window.  The    *)
(* hook thread feeds each key event to the state machine and, during a     *)
(* session, publishes it into the session's bounded channel; the main      *)
(* thread (SettingsCoordinator) begins a session, polls its channel into a *)
(* ShortcutRecorder, and finishes or cancels the session by commands that  *)
(* the hook thread runs.  A command is one step here: what can happen to   *)
(* it on the way is the subject of KeyboardHook.                           *)
(***************************************************************************)
EXTENDS InputState, ShortcutRecorder, Naturals, Sequences

CONSTANTS
    Key,         \* the physical keys
    Idents,      \* key -> the virtual keys its events can carry
    Capacity,    \* RecordingChannel.capacity
    PollLimit,   \* the events one poll_recording takes
    MaxSessions  \* bound on the sessions begun

ASSUME RecordingAssumption ==
    /\ Idents \in [Key -> SUBSET VK]
    /\ Capacity \in Nat \ {0} /\ PollLimit \in Nat \ {0} /\ MaxSessions \in Nat

VARIABLES
    hold,      \* the virtual key a physical key went down with, or NoVK
    session,   \* the hook's _recording_session_id, 0 for None
    begun,     \* how many sessions were begun: _next_recording_session_id
    channels,  \* the RecordingChannel of each session
    coord,     \* the SettingsCoordinator
    recorder,  \* its ShortcutRecorder
    alone,     \* history: the key that went down last, if it was by itself since
    inside,    \* history: the held keys that went down during a session
    origin,    \* history: the event behind the recorder's candidate
    spent      \* history: the keys were not all up since the session began or
               \* since the recorder rejected an attempt

hookside == <<istate, hold, session, begun, alone, inside>>
attempt == <<recorder, origin, spent>>
rvars == <<hookside, channels, coord, attempt>>

Session == 1..MaxSessions

CoordPc == {"idle", "draining", "deciding", "finishing"}

Event == [vk : VK, is_keydown : BOOLEAN, pressed : SUBSET VK, alone : SUBSET VK]

NoEvent == [vk |-> NoVK, is_keydown |-> FALSE, pressed |-> {}, alone |-> {}]

NewChannel == [payloads |-> <<>>, open |-> TRUE, overflowed |-> FALSE, invalid |-> FALSE]

Healthy(channel) == channel.open /\ ~channel.overflowed /\ ~channel.invalid

RInit ==
    /\ Init
    /\ hold = [k \in Key |-> NoVK]
    /\ session = 0 /\ begun = 0
    /\ channels = [s \in Session |-> NewChannel]
    /\ coord = [recording |-> FALSE, session |-> 0, candidate |-> NoShortcut,
                pc |-> "idle", taken |-> 0]
    /\ recorder = NewRecorder({})
    /\ alone = {} /\ inside = {}
    /\ origin = NoEvent
    /\ spent = FALSE

-----------------------------------------------------------------------------
(* The hook thread: RecordingChannel.publish, and the ends of a session.   *)

\* Mutants: the channel grows without bound; an event that finds it full is
\* dropped without a trace.
PublishUnbounded(channel, event) ==
    IF ~Healthy(channel) THEN channel
    ELSE [channel EXCEPT !.payloads = Append(@, event)]
PublishLossy(channel, event) ==
    IF ~Healthy(channel) \/ Len(channel.payloads) >= Capacity THEN channel
    ELSE [channel EXCEPT !.payloads = Append(@, event)]

Publish(channel, event) ==
    IF ~Healthy(channel) THEN channel
    ELSE IF Len(channel.payloads) >= Capacity
         THEN [channel EXCEPT !.overflowed = TRUE]
         ELSE [channel EXCEPT !.payloads = Append(@, event)]

PublishEvent(vk, isDown) ==
    channels' =
        IF session = 0 THEN channels
        ELSE [channels EXCEPT ![session] =
                 Publish(@, [vk |-> vk, is_keydown |-> isDown,
                             pressed |-> pressed', alone |-> alone'])]

\* _end_recording, next to the state machine's own step.
EndSession(invalidate) ==
    /\ session' = 0
    /\ channels' =
          IF session = 0 THEN channels
          ELSE [channels EXCEPT ![session].open = FALSE,
                                ![session].invalid = @ \/ invalidate]

EventUnchanged == UNCHANGED <<session, begun, coord, attempt>>

\* _callback: the state machine first, then the channel.  A gate that is
\* open lets the event go by.
KeyDown(k, vk) ==
    /\ hold[k] \in {NoVK, vk}
    /\ IF fail_open THEN UNCHANGED istate ELSE HandleDown(vk)
    /\ hold' = [hold EXCEPT ![k] = vk]
    /\ alone' = IF hold[k] = vk THEN alone
                ELSE IF \E j \in Key \ {k} : hold[j] # NoVK THEN {} ELSE {vk}
    /\ inside' = IF hold[k] = NoVK /\ session # 0 THEN inside \cup {vk} ELSE inside
    /\ IF fail_open THEN UNCHANGED channels ELSE PublishEvent(vk, TRUE)
    /\ EventUnchanged

KeyUp(k, vk) ==
    /\ hold[k] # NoVK
    /\ hold' = [hold EXCEPT ![k] = NoVK]
    /\ inside' = inside \ {hold[k]}
    /\ IF fail_open
       THEN alone' = {} /\ UNCHANGED <<istate, session, channels>>
       ELSE \/ /\ HandleUp(vk)
               /\ UNCHANGED <<session, alone>>
               /\ PublishEvent(vk, FALSE)
            \/ /\ HandleUpUnpaired(vk)
               /\ EndSession(TRUE)
               /\ alone' = {}
    /\ UNCHANGED <<begun, coord, attempt>>

\* The engine fails open for a reason of its own.
HookFailsOpen ==
    /\ FailOpen
    /\ EndSession(TRUE)
    /\ UNCHANGED <<hold, begun, alone, inside, coord, attempt>>

-----------------------------------------------------------------------------
(* The main thread between two polls: commands other than the session's    *)
(* own, and the beginning and the cancellation of a session.               *)

Idle == coord.pc = "idle"

MainUnchanged == UNCHANGED <<hold, alone, inside>>

\* SET_LOCKED and TOGGLE from the tray.
LockCommand(value) ==
    /\ Idle
    /\ SetLocked(value)
    /\ EndSession(TRUE)
    /\ UNCHANGED <<begun, coord, attempt>> /\ MainUnchanged

\* Save ends a recording before it installs a shortcut.
ReplaceCommand(pair) ==
    /\ Idle /\ ~coord.recording
    /\ ReplaceShortcut(pair)
    /\ EndSession(TRUE)
    /\ UNCHANGED <<begun, coord, attempt>> /\ MainUnchanged

\* begin_recording, when the hook accepts ENTER_RECORDING; refused, it leaves
\* everything as it is.
BeginRecording ==
    /\ Idle /\ ~coord.recording
    /\ begun < MaxSessions
    /\ session = 0
    /\ EnterRecording
    /\ begun' = begun + 1
    /\ session' = begun'
    /\ coord' = [coord EXCEPT !.recording = TRUE, !.session = begun',
                              !.candidate = NoShortcut]
    /\ recorder' = NewRecorder(pressed)
    /\ origin' = NoEvent
    /\ spent' = (pressed # {})
    /\ UNCHANGED channels /\ MainUnchanged

\* Neither side refers to the channel any more.
DropChannel(s) == channels' = [channels EXCEPT ![s] = NewChannel]

\* Mutant: a cancel for another session is obeyed, its own is not.
CancelOther(s) ==
    /\ IF fail_open \/ session = s THEN UNCHANGED <<istate, session>>
       ELSE ExitRecording /\ session' = 0
    /\ DropChannel(s)

\* CANCEL_RECORDING: the hook obeys for its current session only.  The caller
\* forgets the session, and with it the channel that this invalidates.
Cancel(s) ==
    /\ IF fail_open \/ session # s THEN UNCHANGED <<istate, session>>
       ELSE ExitRecording /\ session' = 0
    /\ DropChannel(s)

\* _clear_recording; the recorder is dropped.
Cleared == [coord EXCEPT !.recording = FALSE, !.session = 0, !.pc = "idle", !.taken = 0]

DropRecorder == recorder' = NewRecorder({}) /\ origin' = NoEvent /\ spent' = FALSE

\* end_recording: lost focus, Cancel, a closed or a locked window, Save, or
\* another row's button.
EndRecording ==
    /\ Idle /\ coord.recording
    /\ Cancel(coord.session)
    /\ coord' = Cleared
    /\ DropRecorder
    /\ UNCHANGED begun /\ MainUnchanged

-----------------------------------------------------------------------------
(* poll_recording.  The hook thread runs between its steps. *)

MyChannel == channels[coord.session]

\* _cancel_native_recording, after a look at the status.
GiveUp ==
    /\ ~Healthy(MyChannel)
    /\ Cancel(coord.session)
    /\ coord' = Cleared
    /\ DropRecorder
    /\ UNCHANGED begun /\ MainUnchanged

PollBegins ==
    /\ Idle /\ coord.recording
    /\ \/ GiveUp
       \/ /\ Healthy(MyChannel)
          /\ coord' = [coord EXCEPT !.pc = "draining"]
          /\ UNCHANGED <<hookside, channels, attempt>>

\* One popleft of drain(), and what the recorder makes of the event.
Drain ==
    /\ coord.pc = "draining"
    /\ coord.taken < PollLimit /\ MyChannel.payloads # <<>>
    /\ LET event == Head(MyChannel.payloads) IN
       /\ recorder' = Consume(recorder, event.vk, event.is_keydown)
       /\ origin' = IF recorder'.candidate = recorder.candidate THEN origin ELSE event
       /\ spent' = (event.pressed # {} /\ (spent \/ recorder'.invalid))
    /\ channels' = [channels EXCEPT ![coord.session].payloads = Tail(@)]
    /\ coord' = [coord EXCEPT !.taken = @ + 1]
    /\ UNCHANGED hookside

\* Mutant: the shortcut is finished once its keys have been released.
AfterDrainReleased ==
    IF recorder.candidate = NoShortcut \/ recorder.held # {} THEN "idle" ELSE "deciding"

\* A poll without a candidate ends; the next one is scheduled.
AfterDrain == IF recorder.candidate = NoShortcut THEN "idle" ELSE "deciding"

Drained ==
    /\ coord.pc = "draining"
    /\ coord.taken = PollLimit \/ MyChannel.payloads = <<>>
    /\ coord' = [coord EXCEPT !.taken = 0, !.pc = AfterDrain]
    /\ UNCHANGED <<hookside, channels, attempt>>

Decide ==
    /\ coord.pc = "deciding"
    /\ \/ GiveUp
       \/ /\ Healthy(MyChannel)
          /\ coord' = [coord EXCEPT !.pc = "finishing"]
          /\ UNCHANGED <<hookside, channels, attempt>>

\* Mutant: the hook finishes a session whatever became of its channel.
FinishAcceptedAnyway(s) == session = s

FinishAccepted(s) == session = s /\ Healthy(channels[s])

\* FINISH_RECORDING, and the coordinator's answer to its answer.
Finish ==
    /\ coord.pc = "finishing"
    /\ LET s == coord.session
           accepted == ~fail_open /\ FinishAccepted(s) IN
       /\ IF fail_open \/ session # s
          THEN UNCHANGED <<istate, session>>
          ELSE ExitRecording /\ session' = 0
       /\ DropChannel(s)
       /\ coord' = IF accepted
                   THEN [Cleared EXCEPT !.candidate = recorder.candidate]
                   ELSE Cleared
    /\ DropRecorder
    /\ UNCHANGED begun /\ MainUnchanged

PollStep == PollBegins \/ Drain \/ Drained \/ Decide \/ Finish

RNext ==
    \/ \E k \in Key : \E vk \in Idents[k] : KeyDown(k, vk) \/ KeyUp(k, vk)
    \/ HookFailsOpen
    \/ \E value \in BOOLEAN : LockCommand(value)
    \/ \E pair \in ShortcutPairs : ReplaceCommand(pair)
    \/ BeginRecording
    \/ EndRecording
    \/ PollStep

RSpec == RInit /\ [][RNext]_rvars

\* The window polls every 10 ms for as long as a recording goes on.
RFairSpec == RSpec /\ WF_rvars(PollStep)

-----------------------------------------------------------------------------
(* Properties *)

\* The variables hold what the fields hold, and a poll belongs to a recording.
RTypeOK ==
    /\ TypeOK
    /\ hold \in [Key -> VK \cup {NoVK}]
    /\ session \in 0..begun /\ begun \in 0..MaxSessions
    /\ \A s \in Session :
          /\ channels[s].payloads \in Seq(Event)
          /\ Len(channels[s].payloads) <= Capacity
    /\ coord.recording <=> coord.session # 0
    /\ coord.pc \in CoordPc /\ (coord.pc # "idle" => coord.recording)
    /\ coord.taken \in 0..PollLimit
    /\ coord.candidate \in Shortcut \cup {NoShortcut}
    /\ recorder \in Recorder

\* The chord that is captured is one the engine would have acted on: had it
\* been installed, the very press that completed it would have matched.  The
\* recorder keeps its own account of the held keys, fed through the channel.
CapturedWouldMatch ==
    recorder.candidate # NoShortcut /\ ~IsStandalone(recorder.candidate)
        => Matches(recorder.candidate, origin.pressed, origin.vk)

\* A modifier that is captured as a tap was pressed and released by itself:
\* no other key was down at any moment of its hold (the "alone rules" of
\* docs/superpowers/specs/2026-09-05-expanded-shortcuts-design.md:50).
CapturedTapWasAlone ==
    recorder.candidate # NoShortcut /\ IsStandalone(recorder.candidate)
        => recorder.candidate.trigger_vk \in origin.alone

\* An attempt that was rejected, or keys held when the session began, cannot
\* lend a part to a shortcut: every key came up before the one captured
\* (docs/superpowers/specs/2026-09-05-expanded-shortcuts-design.md:51).
RetryOnlyAfterRelease == recorder.candidate # NoShortcut => ~spent

\* What is captured is what was pressed, in all three respects.
CapturedIsPressed == CapturedWouldMatch /\ CapturedTapWasAlone /\ RetryOnlyAfterRelease

\* The engine never stays in a session its window does not know of, where
\* the hotkey would be dead; and a window that sees a healthy channel is
\* being listened to.
SessionsAgree ==
    /\ session # 0 => coord.recording /\ coord.session = session
    /\ recording <=> session # 0
    /\ coord.recording /\ Healthy(MyChannel) => session = coord.session

\* Both as one invariant.
RecordingInv == RTypeOK /\ SessionsAgree

\* A shortcut is handed to the user only if its session lost no event to the
\* end (tests/test_recording_channel.py, plan 2026-09-05 line 128).
AcceptedIsWhole ==
    [][coord'.candidate # coord.candidate /\ coord'.candidate # NoShortcut
          => Healthy(MyChannel) /\ session = coord.session]_rvars

\* What is typed into a recording stays there: the release of a key that was
\* pressed during a session never changes the lock, not even when the session
\* has ended in between.
TypedIsNotObeyed ==
    [][\A k \in Key : hold[k] \in inside /\ hold'[k] = NoVK /\ ~fail_open'
          => locked' = locked]_rvars

\* A recording that is over for the engine, and a captured shortcut, end the
\* recording in the window.
RecordingEnds ==
    (coord.recording /\ (session = 0 \/ recorder.candidate # NoShortcut))
        ~> ~coord.recording

-----------------------------------------------------------------------------
(* The keyboards whose keys name their side in every event, or in none:    *)
(* every key has one identity, and no other key has it.                    *)
SidesAreKnown ==
    \A j, k \in Key : \A a \in Idents[j], b \in Idents[k] : a = b <=> j = k
=============================================================================
