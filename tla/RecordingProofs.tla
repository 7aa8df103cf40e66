-------------------------- MODULE RecordingProofs --------------------------
(***************************************************************************)
(* Recording, for any keys, any capacity of the channel and any number of  *)
(* sessions: engine and window agree on the session, nothing is accepted   *)
(* from a channel that lost an event, and, on keyboards whose keys name    *)
(* their side in every event or in none, what is captured is what was      *)
(* pressed and what is typed is not obeyed.                                *)
(***************************************************************************)
EXTENDS Recording, InputStateProofs

Channel == [payloads : Seq(Event), open : BOOLEAN, overflowed : BOOLEAN, invalid : BOOLEAN]

Coord == [recording : BOOLEAN, session : Nat, candidate : Shortcut \cup {NoShortcut},
          pc : CoordPc, taken : 0..PollLimit]

ChannelsOK ==
    /\ channels \in [Session -> Channel]
    /\ \A s \in Session : Len(channels[s].payloads) <= Capacity

Typed ==
    /\ IInv
    /\ hold \in [Key -> VK \cup {NoVK}]
    /\ begun \in 0..MaxSessions /\ session \in 0..begun
    /\ ChannelsOK
    /\ coord \in Coord /\ coord.session <= begun
    /\ recorder \in Recorder
    /\ alone \in SUBSET VK

\* SessionsAgree with what it needs to be inductive: a channel is new until its
\* session begins.
Agreed ==
    /\ SessionsAgree
    /\ fail_open => ~recording
    /\ coord.recording <=> coord.session # 0
    /\ coord.pc # "idle" => coord.recording
    /\ \A s \in Session : s > begun => channels[s] = NewChannel

LEMMA NewChannelType == NewChannel \in Channel /\ Len(NewChannel.payloads) = 0
BY DEF NewChannel, Channel

LEMMA PublishFacts ==
    ASSUME NEW c \in Channel, NEW e \in Event, Len(c.payloads) <= Capacity
    PROVE  /\ Publish(c, e) \in Channel
           /\ Len(Publish(c, e).payloads) <= Capacity
           /\ Healthy(Publish(c, e)) =>
                 Healthy(c) /\ Publish(c, e).payloads = Append(c.payloads, e)
           /\ ~Healthy(Publish(c, e)) => Publish(c, e).payloads = c.payloads
<1>1. c.payloads \in Seq(Event) /\ Len(c.payloads) \in Nat
  BY DEF Channel
<1>2. CASE ~Healthy(c)
  BY <1>2 DEF Publish
<1>3. CASE Healthy(c) /\ Len(c.payloads) >= Capacity
  <2>1. Publish(c, e) = [c EXCEPT !.overflowed = TRUE]
    BY <1>3 DEF Publish
  <2>2. QED
    BY <1>1, <2>1 DEF Channel, Healthy
<1>4. CASE Healthy(c) /\ ~(Len(c.payloads) >= Capacity)
  <2>1. Publish(c, e) = [c EXCEPT !.payloads = Append(@, e)]
    BY <1>4 DEF Publish
  <2>2. Append(c.payloads, e) \in Seq(Event) /\ Len(Append(c.payloads, e)) <= Capacity
    BY <1>1, <1>4, RecordingAssumption
  <2>3. QED
    BY <1>4, <2>1, <2>2 DEF Channel, Healthy
<1>5. QED
  BY <1>2, <1>3, <1>4

\* What each way to change the channels makes of one of them.
LEMMA PublishEventFacts ==
    ASSUME Typed, NEW vk \in VK, NEW isDown \in BOOLEAN, pressed' \in SUBSET VK,
           alone' \in SUBSET VK, PublishEvent(vk, isDown)
    PROVE  /\ ChannelsOK'
           /\ \A s \in Session : s # session => channels'[s] = channels[s]
           /\ \A s \in Session : s = session =>
                 channels'[s] = Publish(channels[s],
                                    [vk |-> vk, is_keydown |-> isDown,
                                     pressed |-> pressed', alone |-> alone'])
<1> DEFINE e == [vk |-> vk, is_keydown |-> isDown, pressed |-> pressed', alone |-> alone']
<1>1. e \in Event
  BY DEF Event
<1>2. CASE session = 0
  BY <1>2 DEF PublishEvent, Typed, ChannelsOK, Session
<1>3. CASE session # 0
  <2>1. session \in Session
    BY <1>3, RecordingAssumption DEF Typed, Session
  <2>2. channels' = [channels EXCEPT ![session] = Publish(@, e)]
    BY <1>3 DEF PublishEvent
  <2> HIDE DEF e
  <2>3. /\ channels[session] \in Channel /\ Len(channels[session].payloads) <= Capacity
        /\ channels \in [Session -> Channel]
    BY <2>1 DEF Typed, ChannelsOK
  <2>4. /\ Publish(channels[session], e) \in Channel
        /\ Len(Publish(channels[session], e).payloads) <= Capacity
    BY <1>1, <2>3, PublishFacts
  <2>5. QED
    BY <2>1, <2>2, <2>3, <2>4 DEF Typed, ChannelsOK, e
<1>4. QED
  BY <1>2, <1>3

LEMMA EndSessionFacts ==
    ASSUME Typed, NEW invalidate \in BOOLEAN, EndSession(invalidate)
    PROVE  /\ ChannelsOK' /\ session' = 0
           /\ \A s \in Session : s # session => channels'[s] = channels[s]
           /\ \A s \in Session : /\ channels'[s].payloads = channels[s].payloads
                                 /\ Healthy(channels'[s]) => Healthy(channels[s])
                                 /\ s = session => ~Healthy(channels'[s])
<1>1. CASE session = 0
  BY <1>1 DEF EndSession, Typed, ChannelsOK, Session
<1>2. CASE session # 0
  <2>1. session \in Session /\ channels \in [Session -> Channel]
    BY <1>2, RecordingAssumption DEF Typed, Session, ChannelsOK
  <2> DEFINE c == channels[session]
  <2> DEFINE d == [c EXCEPT !.open = FALSE, !.invalid = c.invalid \/ invalidate]
  <2>2. channels' = [channels EXCEPT ![session] = d] /\ session' = 0
    BY <1>2, <2>1 DEF EndSession
  <2>3. c \in Channel
    BY <2>1
  <2>4. d \in Channel /\ d.payloads = c.payloads /\ ~Healthy(d)
    BY <2>3 DEF Channel, Healthy
  <2> HIDE DEF d
  <2>5. QED
    BY <2>1, <2>2, <2>4 DEF Typed, ChannelsOK
<1>3. QED
  BY <1>1, <1>2

LEMMA DropChannelFacts ==
    ASSUME Typed, NEW s \in Session, DropChannel(s)
    PROVE  /\ ChannelsOK'
           /\ channels'[s] = NewChannel
           /\ \A t \in Session : t # s => channels'[t] = channels[t]
BY NewChannelType, RecordingAssumption DEF DropChannel, Typed, ChannelsOK

-----------------------------------------------------------------------------
(* The recorder *)

LEMMA NewRecorderType ==
    ASSUME NEW h \in SUBSET VK PROVE NewRecorder(h) \in Recorder
BY FreshTapFacts DEF NewRecorder, Recorder

LEMMA ObserveDownType ==
    ASSUME NEW t \in TapState, NEW vk \in VK, NEW h \in SUBSET VK
    PROVE  ObserveDown(t, vk, h) \in TapState
BY DEF ObserveDown, TapState

LEMMA StartAttemptType ==
    ASSUME NEW r \in Recorder
    PROVE  /\ StartAttempt(r) \in Recorder
           /\ StartAttempt(r).held = r.held /\ StartAttempt(r).candidate = r.candidate
           /\ StartAttempt(r).awaiting = r.awaiting
<1>1. FreshTap(NoVK) \in TapState
  BY FreshTapFacts
<1>2. QED
  BY <1>1 DEF StartAttempt, Recorder

LEMMA ModifierDownType ==
    ASSUME NEW r \in Recorder, NEW vk \in VK
    PROVE  /\ ModifierDown(r, vk) \in Recorder
           /\ ModifierDown(r, vk).held = r.held
           /\ ModifierDown(r, vk).candidate = r.candidate
<1> DEFINE tracker == IF r.tap.modifier_vk = NoVK THEN FreshTap(vk) ELSE r.tap
<1> DEFINE u == ObserveDown(tracker, vk, r.held \ {vk})
<1>1. tracker \in TapState
  BY FreshTapFacts DEF Recorder
<1>2. r.held \ {vk} \in SUBSET VK
  BY DEF Recorder
<1> HIDE DEF tracker
<1>3. u \in TapState
  BY <1>1, <1>2, ObserveDownType
<1>4. ModifierDown(r, vk) = IF vk \notin SUPPORTED_MODIFIER_VKS THEN Reject(r)
                            ELSE [r EXCEPT !.tap = u]
  BY DEF ModifierDown, tracker
<1> HIDE DEF u
<1>5. QED
  BY <1>3, <1>4 DEF Recorder, Reject

LEMMA ChordType ==
    ASSUME NEW p \in SUBSET VK, NEW vk \in VK
    PROVE  ChordShortcut(p, vk) \in Shortcut
BY DEF ChordShortcut, Shortcut

LEMMA TapShortcutType ==
    ASSUME NEW vk \in VK
    PROVE  TapShortcut(vk) \in Shortcut
BY DEF TapShortcut, Shortcut

LEMMA ConsumeDownType ==
    ASSUME NEW r \in Recorder, NEW vk \in VK
    PROVE  /\ ConsumeDown(r, vk) \in Recorder
           /\ ConsumeDown(r, vk).held = r.held \cup {vk}
<1> DEFINE now == [r EXCEPT !.held = r.held \cup {vk}]
<1> DEFINE start == StartAttempt(r)
<1> DEFINE opened == [start EXCEPT !.held = start.held \cup {vk}]
<1>1. now \in Recorder /\ now.held = r.held \cup {vk}
  BY DEF Recorder
<1>2. start \in Recorder /\ start.held = r.held
  BY StartAttemptType
<1>3. opened \in Recorder /\ opened.held = r.held \cup {vk}
  <2> HIDE DEF start
  <2>1. QED
    BY <1>2 DEF Recorder
<1>4. ConsumeDown(r, vk) =
        IF r.awaiting \/ vk \in r.held THEN now
        ELSE IF FamilyOf(vk) # NoFamily THEN ModifierDown(opened, vk)
        ELSE IF Recordable(opened.held, vk)
             THEN [opened EXCEPT !.candidate = ChordShortcut(opened.held, vk)]
             ELSE Reject(opened)
  BY DEF ConsumeDown
<1> HIDE DEF opened, now, start
<1>5. ChordShortcut(opened.held, vk) \in Shortcut
  BY <1>3, ChordType DEF Recorder
<1>6. /\ [opened EXCEPT !.candidate = ChordShortcut(opened.held, vk)] \in Recorder
      /\ [opened EXCEPT !.candidate = ChordShortcut(opened.held, vk)].held = opened.held
  BY <1>3, <1>5 DEF Recorder
<1>7. Reject(opened) \in Recorder /\ Reject(opened).held = opened.held
  BY <1>3 DEF Reject, Recorder
<1>8. QED
  BY <1>1, <1>3, <1>4, <1>6, <1>7, ModifierDownType

LEMMA ConsumeUpType ==
    ASSUME NEW r \in Recorder, NEW vk \in VK
    PROVE  /\ ConsumeUp(r, vk) \in Recorder
           /\ ConsumeUp(r, vk).held = r.held \ {vk}
<1> DEFINE now == [r EXCEPT !.held = r.held \ {vk}]
<1> DEFINE watched == [now EXCEPT !.tap = ObserveUp(now.tap, vk)]
<1>1. now \in Recorder /\ now.held = r.held \ {vk}
  BY DEF Recorder
<1>2. ConsumeUp(r, vk) =
        IF r.awaiting THEN [now EXCEPT !.awaiting = now.held # {}]
        ELSE IF ~r.started \/ r.invalid THEN now
        ELSE IF TapCaptured(r, vk) THEN [watched EXCEPT !.candidate = TapShortcut(vk)]
        ELSE IF now.held = {} /\ r.tap.modifier_vk # NoVK
             THEN [watched EXCEPT !.started = FALSE]
             ELSE watched
  BY DEF ConsumeUp
<1> HIDE DEF now
<1>3. ObserveUp(now.tap, vk) \in TapState
  BY <1>1, ObserveUpFacts DEF Recorder
<1>4. watched \in Recorder /\ watched.held = now.held
  BY <1>1, <1>3 DEF Recorder
<1> HIDE DEF watched
<1>5. TapShortcut(vk) \in Shortcut
  BY TapShortcutType
<1>6. QED
  BY <1>1, <1>2, <1>4, <1>5 DEF Recorder

\* The recorder's account of the held keys after an event.
PressedAfter(down, e) == IF e.is_keydown THEN down \cup {e.vk} ELSE down \ {e.vk}

LEMMA ConsumeType ==
    ASSUME NEW r \in Recorder, NEW e \in Event
    PROVE  /\ Consume(r, e.vk, e.is_keydown) \in Recorder
           /\ Consume(r, e.vk, e.is_keydown).held = PressedAfter(r.held, e)
<1>1. e.vk \in VK /\ e.is_keydown \in BOOLEAN
  BY DEF Event
<1>2. CASE r.candidate # NoShortcut
  <2> DEFINE h == IF e.is_keydown THEN r.held \cup {e.vk} ELSE r.held \ {e.vk}
  <2>1. Consume(r, e.vk, e.is_keydown) = [r EXCEPT !.held = h]
    BY <1>2 DEF Consume
  <2>2. h \in SUBSET VK
    BY <1>1 DEF Recorder
  <2> HIDE DEF h
  <2>3. [r EXCEPT !.held = h] \in Recorder /\ [r EXCEPT !.held = h].held = h
    BY <2>2 DEF Recorder
  <2>4. QED
    BY <2>1, <2>3 DEF PressedAfter, h
<1>3. CASE r.candidate = NoShortcut
  BY <1>1, <1>3, ConsumeDownType, ConsumeUpType DEF Consume, PressedAfter
<1>4. QED
  BY <1>2, <1>3

-----------------------------------------------------------------------------
(* Types, and the agreement on the session *)

LEMMA InitTyped == RInit => Typed /\ Agreed
<1> SUFFICES ASSUME RInit PROVE Typed /\ Agreed
  OBVIOUS
<1>1. IInv
  BY InitIInv DEF RInit
<1>2. ChannelsOK
  BY NewChannelType, RecordingAssumption DEF RInit, ChannelsOK
<1>3. NewRecorder({}) \in Recorder
  BY NewRecorderType
<1>4. coord \in Coord
  BY RecordingAssumption DEF RInit, Coord, CoordPc
<1>5. Typed
  BY <1>1, <1>2, <1>3, <1>4, RecordingAssumption DEF RInit, Typed
<1>6. Agreed
  BY DEF RInit, Init, Agreed, SessionsAgree
<1>7. QED
  BY <1>5, <1>6

\* What the hook thread and the main thread do is a step of the state machine.
LEMMA MachineStep == [RNext]_rvars => [Next]_istate
<1> SUFFICES ASSUME [RNext]_rvars PROVE Next \/ UNCHANGED istate
  OBVIOUS
<1>1. \A k \in Key : Idents[k] \subseteq VK
  BY RecordingAssumption
<1>2. ASSUME NEW k \in Key, NEW vk \in Idents[k], KeyDown(k, vk)
      PROVE  Next \/ UNCHANGED istate
  BY <1>1, <1>2 DEF KeyDown, Next
<1>3. ASSUME NEW k \in Key, NEW vk \in Idents[k], KeyUp(k, vk)
      PROVE  Next \/ UNCHANGED istate
  BY <1>1, <1>3 DEF KeyUp, Next
<1>4. HookFailsOpen => Next
  BY DEF HookFailsOpen, Next, Command
<1>5. ASSUME NEW value \in BOOLEAN, LockCommand(value) PROVE Next
  BY <1>5 DEF LockCommand, Next, Command
<1>6. ASSUME NEW pair \in ShortcutPairs, ReplaceCommand(pair) PROVE Next
  BY <1>6 DEF ReplaceCommand, Next, Command
<1>7. BeginRecording => Next
  BY DEF BeginRecording, Next, Command
<1>8. ASSUME NEW s, Cancel(s) PROVE Next \/ UNCHANGED istate
  BY <1>8 DEF Cancel, Next, Command, istate
<1>9. EndRecording => Next \/ UNCHANGED istate
  BY <1>8 DEF EndRecording
<1>10. PollStep => Next \/ UNCHANGED istate
  <2>1. GiveUp => Next \/ UNCHANGED istate
    BY <1>8 DEF GiveUp
  <2>2. Finish => Next \/ UNCHANGED istate
    BY DEF Finish, Next, Command, istate
  <2>3. UNCHANGED hookside => UNCHANGED istate
    BY DEF hookside
  <2>4. QED
    BY <2>1, <2>2, <2>3 DEF PollStep, PollBegins, Drain, Drained, Decide
<1>11. UNCHANGED rvars => UNCHANGED istate
  BY DEF rvars, hookside
<1>12. QED
  BY <1>2, <1>3, <1>4, <1>5, <1>6, <1>7, <1>9, <1>10, <1>11 DEF RNext

LEMMA MachineKeeps ==
    ASSUME Typed, [RNext]_rvars PROVE IInv'
BY MachineStep, StepIInv DEF Typed

\* An event of the keyboard, which at most adds to the channel of the session.
LEMMA EventKeeps ==
    ASSUME Typed, Agreed, IInv', ChannelsOK', hold' \in [Key -> VK \cup {NoVK}],
           alone' \in SUBSET VK, recording' = recording, fail_open' => ~recording',
           UNCHANGED <<session, begun, coord, recorder>>,
           \A s \in Session : s # session => channels'[s] = channels[s],
           \A s \in Session : Healthy(channels'[s]) => Healthy(channels[s])
    PROVE  Typed' /\ Agreed'
<1>1. Typed'
  BY DEF Typed
<1>2. \A s \in Session : s > begun => channels'[s] = channels[s]
  BY RecordingAssumption DEF Typed, Session
<1>3. coord.recording => coord.session \in Session
  BY RecordingAssumption DEF Typed, Agreed, Coord, Session
<1>4. SessionsAgree'
  BY <1>3 DEF Agreed, SessionsAgree, MyChannel
<1>5. QED
  BY <1>1, <1>2, <1>4 DEF Agreed

\* The engine ends the session.
LEMMA SessionEndKeeps ==
    ASSUME Typed, Agreed, IInv', NEW invalidate \in BOOLEAN, EndSession(invalidate),
           ~recording', hold' \in [Key -> VK \cup {NoVK}], alone' \in SUBSET VK,
           UNCHANGED <<begun, coord, recorder>>
    PROVE  Typed' /\ Agreed'
<1>1. /\ ChannelsOK' /\ session' = 0
      /\ \A s \in Session : s # session => channels'[s] = channels[s]
      /\ \A s \in Session : /\ Healthy(channels'[s]) => Healthy(channels[s])
                            /\ s = session => ~Healthy(channels'[s])
  BY EndSessionFacts
<1>2. Typed'
  BY <1>1 DEF Typed
<1>3. \A s \in Session : s > begun => channels'[s] = channels[s]
  BY <1>1, RecordingAssumption DEF Typed, Session
<1>4. coord.recording => coord.session \in Session
  BY RecordingAssumption DEF Typed, Agreed, Coord, Session
<1>5. SessionsAgree'
  <2>1. ~(coord.recording /\ Healthy(channels'[coord.session]))
    BY <1>1, <1>4 DEF Agreed, SessionsAgree, MyChannel
  <2>2. QED
    BY <1>1, <2>1 DEF SessionsAgree, MyChannel
<1>6. QED
  BY <1>2, <1>3, <1>5 DEF Agreed

LEMMA ClearedType ==
    ASSUME coord \in Coord
    PROVE  /\ Cleared \in Coord /\ ~Cleared.recording /\ Cleared.session = 0
           /\ Cleared.pc = "idle" /\ Cleared.candidate = coord.candidate
<1>1. "idle" \in CoordPc /\ 0 \in 0..PollLimit
  BY RecordingAssumption DEF CoordPc
<1>2. QED
  BY <1>1 DEF Cleared, Coord

\* The window ends the recording.
LEMMA ClearKeeps ==
    ASSUME Typed, Agreed, IInv', coord.recording, DropChannel(coord.session), DropRecorder,
           NEW c \in Shortcut \cup {NoShortcut}, coord' = [Cleared EXCEPT !.candidate = c],
           UNCHANGED <<begun, hold, alone>>,
           IF fail_open \/ session # coord.session
           THEN UNCHANGED <<istate, session>>
           ELSE ExitRecording /\ session' = 0
    PROVE  Typed' /\ Agreed'
<1>1. coord.session \in Session
  BY RecordingAssumption DEF Typed, Agreed, Coord, Session
<1>2. /\ ChannelsOK'
      /\ channels'[coord.session] = NewChannel
      /\ \A s \in Session : s # coord.session => channels'[s] = channels[s]
  BY <1>1, DropChannelFacts
<1>3. session' = 0 /\ ~recording' /\ fail_open' = fail_open
  BY DEF Agreed, SessionsAgree, ExitRecording, istate
<1>4. /\ coord' \in Coord /\ ~coord'.recording /\ coord'.session = 0 /\ coord'.pc = "idle"
  <2>1. /\ Cleared \in Coord /\ ~Cleared.recording /\ Cleared.session = 0
        /\ Cleared.pc = "idle"
    BY ClearedType DEF Typed
  <2>2. QED
    BY <2>1 DEF Coord
<1>5. recorder' \in Recorder
  BY NewRecorderType DEF DropRecorder
<1>6. begun' \in 0..MaxSessions /\ session' \in 0..begun' /\ coord'.session <= begun'
  BY <1>3, <1>4, RecordingAssumption DEF Typed
<1>7. Typed'
  BY <1>2, <1>4, <1>5, <1>6 DEF Typed
<1>8. \A s \in Session : s > begun' => channels'[s] = NewChannel
  BY <1>2 DEF Agreed
<1>9. QED
  BY <1>3, <1>4, <1>7, <1>8 DEF Agreed, SessionsAgree

LEMMA KeyDownTyped ==
    ASSUME Typed, Agreed, IInv', NEW k \in Key, NEW vk \in Idents[k], KeyDown(k, vk)
    PROVE  Typed' /\ Agreed'
<1>1. vk \in VK
  BY RecordingAssumption
<1>2. /\ hold' = [hold EXCEPT ![k] = vk]
      /\ alone' = IF hold[k] = vk THEN alone
                  ELSE IF \E j \in Key \ {k} : hold[j] # NoVK THEN {} ELSE {vk}
      /\ UNCHANGED <<session, begun, coord, recorder>>
      /\ IF fail_open THEN UNCHANGED channels ELSE PublishEvent(vk, TRUE)
  BY DEF KeyDown, EventUnchanged, attempt
<1>3. hold' \in [Key -> VK \cup {NoVK}] /\ alone' \in SUBSET VK
  BY <1>1, <1>2 DEF Typed
<1>4. recording' = recording /\ fail_open' = fail_open
  BY DEF KeyDown, HandleDown, DownRepeat, DownEmergency, DownToggle, DownPlain, FirstPress, istate
<1>5. pressed' \in SUBSET VK
  BY DEF IInv, TypeOK
<1>6. CASE fail_open
  BY <1>2, <1>3, <1>4, <1>6, EventKeeps DEF Typed, Agreed, ChannelsOK
<1>7. CASE ~fail_open
  <2>1. /\ ChannelsOK'
        /\ \A s \in Session : s # session => channels'[s] = channels[s]
        /\ \A s \in Session : s = session =>
              channels'[s] = Publish(channels[s],
                                     [vk |-> vk, is_keydown |-> TRUE,
                                      pressed |-> pressed', alone |-> alone'])
    BY <1>1, <1>2, <1>3, <1>5, <1>7, PublishEventFacts
  <2>2. [vk |-> vk, is_keydown |-> TRUE, pressed |-> pressed', alone |-> alone'] \in Event
    BY <1>1, <1>3, <1>5 DEF Event
  <2>3. \A s \in Session : Healthy(channels'[s]) => Healthy(channels[s])
    BY <2>1, <2>2, PublishFacts DEF Typed, ChannelsOK
  <2>4. QED
    BY <1>2, <1>3, <1>4, <2>1, <2>3, EventKeeps DEF Agreed
<1>8. QED
  BY <1>6, <1>7

LEMMA KeyUpTyped ==
    ASSUME Typed, Agreed, IInv', NEW k \in Key, NEW vk \in Idents[k], KeyUp(k, vk)
    PROVE  Typed' /\ Agreed'
<1>1. vk \in VK
  BY RecordingAssumption
<1>2. hold' = [hold EXCEPT ![k] = NoVK] /\ UNCHANGED <<begun, coord, recorder>>
  BY DEF KeyUp, attempt
<1>3. hold' \in [Key -> VK \cup {NoVK}]
  BY <1>2 DEF Typed
<1>4. pressed' \in SUBSET VK
  BY DEF IInv, TypeOK
<1>5. CASE fail_open
  <2>1. alone' = {} /\ UNCHANGED <<istate, session, channels>>
    BY <1>5 DEF KeyUp
  <2>2. recording' = recording /\ fail_open' = fail_open
    BY <2>1 DEF istate
  <2>3. QED
    BY <1>2, <1>3, <2>1, <2>2, EventKeeps DEF Typed, Agreed, ChannelsOK
<1>6. CASE ~fail_open /\ HandleUp(vk) /\ UNCHANGED <<session, alone>> /\ PublishEvent(vk, FALSE)
  <2>1. recording' = recording /\ fail_open' = fail_open
    BY <1>6 DEF HandleUp
  <2>2. alone' \in SUBSET VK
    BY <1>6 DEF Typed
  <2>3. /\ ChannelsOK'
        /\ \A s \in Session : s # session => channels'[s] = channels[s]
        /\ \A s \in Session : s = session =>
              channels'[s] = Publish(channels[s],
                                     [vk |-> vk, is_keydown |-> FALSE,
                                      pressed |-> pressed', alone |-> alone'])
    BY <1>1, <1>4, <1>6, <2>2, PublishEventFacts
  <2>4. [vk |-> vk, is_keydown |-> FALSE, pressed |-> pressed', alone |-> alone'] \in Event
    BY <1>1, <1>4, <2>2 DEF Event
  <2>5. \A s \in Session : Healthy(channels'[s]) => Healthy(channels[s])
    BY <2>3, <2>4, PublishFacts DEF Typed, ChannelsOK
  <2>6. QED
    BY <1>2, <1>3, <1>6, <2>1, <2>2, <2>3, <2>5, EventKeeps DEF Agreed
<1>7. CASE ~fail_open /\ HandleUpUnpaired(vk) /\ EndSession(TRUE) /\ alone' = {}
  <2>1. ~recording'
    BY <1>7 DEF HandleUpUnpaired, Reconcile
  <2>2. QED
    BY <1>2, <1>3, <1>7, <2>1, SessionEndKeeps
<1>8. QED
  BY <1>5, <1>6, <1>7 DEF KeyUp

LEMMA CommandTyped ==
    ASSUME Typed, Agreed, IInv',
           \/ HookFailsOpen
           \/ \E value \in BOOLEAN : LockCommand(value)
           \/ \E pair \in ShortcutPairs : ReplaceCommand(pair)
    PROVE  Typed' /\ Agreed'
<1>1. EndSession(TRUE) /\ UNCHANGED <<begun, coord, recorder, hold, alone>>
  BY DEF HookFailsOpen, LockCommand, ReplaceCommand, MainUnchanged, attempt
<1>2. ~recording'
  BY DEF HookFailsOpen, LockCommand, ReplaceCommand, FailOpen, Reconcile, SetLocked,
         ReplaceShortcut
<1>3. hold' \in [Key -> VK \cup {NoVK}] /\ alone' \in SUBSET VK
  BY <1>1 DEF Typed
<1>4. QED
  BY <1>1, <1>2, <1>3, SessionEndKeeps

LEMMA BeginTyped ==
    ASSUME Typed, Agreed, IInv', BeginRecording
    PROVE  Typed' /\ Agreed'
<1>1. /\ ~coord.recording /\ begun < MaxSessions /\ session = 0
      /\ EnterRecording /\ begun' = begun + 1 /\ session' = begun + 1
      /\ coord' = [coord EXCEPT !.recording = TRUE, !.session = begun + 1,
                                !.candidate = NoShortcut]
      /\ recorder' = NewRecorder(pressed)
      /\ UNCHANGED <<channels, hold, alone>>
  BY DEF BeginRecording, MainUnchanged
<1>2. begun \in Nat /\ begun' \in 0..MaxSessions /\ session' \in 0..begun' /\ begun' \in Session
  BY <1>1, RecordingAssumption DEF Typed, Session
<1>3. /\ coord' \in Coord /\ coord'.recording /\ coord'.session = begun'
      /\ coord'.session # 0
  <2>1. coord \in Coord /\ begun + 1 \in Nat /\ begun + 1 # 0
    BY <1>2 DEF Typed
  <2>2. QED
    BY <1>1, <2>1 DEF Coord
<1>4. recorder' \in Recorder
  BY <1>1, NewRecorderType DEF Typed, IInv, TypeOK
<1>5. ChannelsOK'
  BY <1>1 DEF Typed, ChannelsOK
<1>6. Typed'
  BY <1>1, <1>2, <1>3, <1>4, <1>5 DEF Typed
<1>7. recording' /\ fail_open' = fail_open /\ ~fail_open
  BY <1>1 DEF EnterRecording
<1>8. \A s \in Session : s > begun' => channels'[s] = NewChannel
  BY <1>1, <1>2 DEF Agreed, Session
<1>9. session' # 0 /\ session' = coord'.session
  BY <1>1, <1>3
<1>10. QED
  BY <1>3, <1>6, <1>7, <1>8, <1>9 DEF Agreed, SessionsAgree

LEMMA EndTyped ==
    ASSUME Typed, Agreed, IInv', EndRecording \/ GiveUp \/ Finish,
           coord.recording
    PROVE  Typed' /\ Agreed'
<1> DEFINE Clears(c) ==
        /\ DropChannel(coord.session) /\ DropRecorder
        /\ coord' = [Cleared EXCEPT !.candidate = c]
        /\ UNCHANGED <<begun, hold, alone>>
        /\ IF fail_open \/ session # coord.session
           THEN UNCHANGED <<istate, session>>
           ELSE ExitRecording /\ session' = 0
<1>1. Cleared = [Cleared EXCEPT !.candidate = coord.candidate]
  BY ClearedType DEF Typed, Coord
<1>2. EndRecording \/ GiveUp => Clears(coord.candidate)
  BY <1>1 DEF EndRecording, GiveUp, Cancel, MainUnchanged
<1>3. Finish => Clears(coord.candidate) \/ Clears(recorder.candidate)
  BY <1>1 DEF Finish, MainUnchanged
<1>4. {coord.candidate, recorder.candidate} \subseteq Shortcut \cup {NoShortcut}
  BY DEF Typed, Coord, Recorder
<1>5. QED
  BY <1>2, <1>3, <1>4, ClearKeeps

\* A step of a poll that leaves the hook thread and the session alone.
LEMMA PollKeeps ==
    ASSUME Typed, Agreed, UNCHANGED hookside, coord' \in Coord,
           coord'.recording = coord.recording, coord'.session = coord.session,
           coord.recording, ChannelsOK', recorder' \in Recorder,
           \A s \in Session : s # coord.session => channels'[s] = channels[s],
           Healthy(channels'[coord.session]) => Healthy(channels[coord.session])
    PROVE  Typed' /\ Agreed'
<1>1. UNCHANGED istate /\ UNCHANGED <<hold, session, begun, alone>>
  BY DEF hookside
<1>2. IInv'
  BY <1>1, StepIInv DEF Typed
<1>3. Typed'
  BY <1>1, <1>2 DEF Typed
<1>4. \A s \in Session : s > begun => channels'[s] = NewChannel
  BY RecordingAssumption DEF Typed, Session, Agreed
<1>5. recording' = recording /\ fail_open' = fail_open
  BY <1>1 DEF istate
<1>6. QED
  BY <1>1, <1>3, <1>4, <1>5 DEF Agreed, SessionsAgree, MyChannel

LEMMA PollTyped ==
    ASSUME Typed, Agreed, PollBegins \/ Drain \/ Drained \/ Decide, ~GiveUp
    PROVE  Typed' /\ Agreed'
<1>1. UNCHANGED hookside /\ coord.recording
  BY DEF PollBegins, Drain, Drained, Decide, Agreed
<1>2. CASE Drain
  <2>1. coord.session \in Session
    BY <1>1, RecordingAssumption DEF Typed, Agreed, Coord, Session
  <2>2. /\ coord.taken < PollLimit /\ MyChannel.payloads # <<>>
        /\ recorder' = Consume(recorder, Head(MyChannel.payloads).vk,
                               Head(MyChannel.payloads).is_keydown)
        /\ channels' = [channels EXCEPT ![coord.session].payloads = Tail(@)]
        /\ coord' = [coord EXCEPT !.taken = @ + 1]
    BY <1>2 DEF Drain
  <2> DEFINE c == channels[coord.session]
  <2> DEFINE d == [c EXCEPT !.payloads = Tail(c.payloads)]
  <2>3. c \in Channel /\ Len(c.payloads) <= Capacity /\ c.payloads # <<>>
    BY <2>1, <2>2 DEF Typed, ChannelsOK, MyChannel
  <2>4. /\ Head(c.payloads) \in Event /\ Tail(c.payloads) \in Seq(Event)
        /\ Len(Tail(c.payloads)) <= Capacity
    BY <2>3, RecordingAssumption DEF Channel
  <2>5. d \in Channel /\ Len(d.payloads) <= Capacity /\ (Healthy(d) <=> Healthy(c))
    BY <2>3, <2>4 DEF Channel, Healthy
  <2>6. channels' = [channels EXCEPT ![coord.session] = d]
    BY <2>2
  <2> HIDE DEF d
  <2>7. ChannelsOK' /\ channels'[coord.session] = d
        /\ \A s \in Session : s # coord.session => channels'[s] = channels[s]
    BY <2>1, <2>5, <2>6 DEF Typed, ChannelsOK
  <2>8. recorder' \in Recorder
    BY <2>2, <2>4, ConsumeType DEF Typed, MyChannel
  <2>9. /\ coord' \in Coord /\ coord'.recording = coord.recording
        /\ coord'.session = coord.session
    BY <2>2, RecordingAssumption DEF Typed, Coord
  <2>10. QED
    BY <1>1, <2>5, <2>7, <2>8, <2>9, PollKeeps
<1>3. CASE ~Drain
  <2>1. UNCHANGED <<channels, recorder>>
    BY <1>3 DEF PollBegins, Drained, Decide, attempt
  <2>2. \/ \E pc \in CoordPc : coord' = [coord EXCEPT !.pc = pc]
        \/ \E pc \in CoordPc : coord' = [coord EXCEPT !.taken = 0, !.pc = pc]
    BY <1>3 DEF PollBegins, Drained, Decide, AfterDrain, CoordPc
  <2>3. /\ coord' \in Coord /\ coord'.recording = coord.recording
        /\ coord'.session = coord.session
    <3>1. coord \in Coord /\ 0 \in 0..PollLimit
      BY RecordingAssumption DEF Typed
    <3>2. ASSUME NEW pc \in CoordPc, coord' = [coord EXCEPT !.pc = pc]
          PROVE  /\ coord' \in Coord /\ coord'.recording = coord.recording
                 /\ coord'.session = coord.session
      BY <3>1, <3>2 DEF Coord
    <3>3. ASSUME NEW pc \in CoordPc, coord' = [coord EXCEPT !.taken = 0, !.pc = pc]
          PROVE  /\ coord' \in Coord /\ coord'.recording = coord.recording
                 /\ coord'.session = coord.session
      BY <3>1, <3>3 DEF Coord
    <3>4. QED
      BY <2>2, <3>2, <3>3
  <2>4. QED
    BY <1>1, <2>1, <2>3, PollKeeps DEF Typed, ChannelsOK
<1>4. QED
  BY <1>2, <1>3

LEMMA TypedStep ==
    ASSUME Typed, Agreed, [RNext]_rvars
    PROVE  Typed' /\ Agreed'
<1>1. IInv'
  BY MachineKeeps
<1>2. CASE UNCHANGED rvars
  <2>1. /\ UNCHANGED <<istate, hold, session, begun, channels, coord, recorder, alone>>
    BY <1>2 DEF rvars, hookside, attempt
  <2>2. QED
    BY <1>1, <2>1 DEF Typed, Agreed, SessionsAgree, ChannelsOK, MyChannel, istate
<1>3. ASSUME NEW k \in Key, NEW vk \in Idents[k], KeyDown(k, vk) \/ KeyUp(k, vk)
      PROVE  Typed' /\ Agreed'
  BY <1>1, <1>3, KeyDownTyped, KeyUpTyped
<1>4. CASE PollStep
  <2>1. coord.recording
    BY <1>4 DEF PollStep, PollBegins, Drain, Drained, Decide, Finish, Agreed
  <2>2. QED
    BY <1>1, <1>4, <2>1, EndTyped, PollTyped DEF PollStep
<1>5. QED
  BY <1>1, <1>2, <1>3, <1>4, CommandTyped, BeginTyped, EndTyped
  DEF RNext, EndRecording

LEMMA TypedAlways == RSpec => [](Typed /\ Agreed)
<1>1. (Typed /\ Agreed) /\ [RNext]_rvars => (Typed /\ Agreed)'
  BY TypedStep
<1>2. QED
  BY <1>1, InitTyped, PTL DEF RSpec

\* Engine and window agree on the session, whatever the keys do and whichever
\* of the two ends it: the engine is never left in a recording without a window
\* that knows of it, and a window that sees a healthy channel is listened to.
THEOREM SessionsCorrect == RSpec => []RecordingInv
<1>1. Typed /\ Agreed => RecordingInv
  <2> SUFFICES ASSUME Typed, Agreed PROVE RecordingInv
    OBVIOUS
  <2>1. \A s \in Session : /\ channels[s].payloads \in Seq(Event)
                           /\ Len(channels[s].payloads) <= Capacity
    BY DEF Typed, ChannelsOK, Channel
  <2>2. /\ coord.pc \in CoordPc /\ coord.taken \in 0..PollLimit
        /\ coord.candidate \in Shortcut \cup {NoShortcut}
    BY DEF Typed, Coord
  <2>3. QED
    BY <2>1, <2>2 DEF RecordingInv, RTypeOK, Typed, Agreed, IInv
<1>2. QED
  BY <1>1, TypedAlways, PTL

\* A shortcut is handed to the user only by a session that lost no event: of
\* the steps that end a recording, only a Finish that the hook accepted brings
\* a shortcut, and what it accepted is the healthy channel of its own session.
THEOREM AcceptedWhole == RSpec => AcceptedIsWhole
<1>1. Typed /\ Agreed /\ [RNext]_rvars =>
        [coord'.candidate # coord.candidate /\ coord'.candidate # NoShortcut
            => Healthy(MyChannel) /\ session = coord.session]_rvars
  <2> SUFFICES ASSUME Typed, Agreed, RNext, coord'.candidate # coord.candidate,
                      coord'.candidate # NoShortcut
               PROVE  Healthy(MyChannel) /\ session = coord.session
    BY DEF rvars
  <2>1. coord \in Coord
    BY DEF Typed
  <2>2. Cleared.candidate = coord.candidate
    BY <2>1, ClearedType
  <2>3. ~(UNCHANGED coord \/ coord' = Cleared)
    BY <2>2
  <2>4. ~BeginRecording
    <3>1. ASSUME BeginRecording PROVE coord'.candidate = NoShortcut
      BY <2>1, <3>1 DEF BeginRecording, Coord
    <3>2. QED
      BY <3>1
  <2>5. ~(PollBegins \/ Drain \/ Drained \/ Decide)
    <3>1. ASSUME NEW c, c \in {[coord EXCEPT !.pc = "draining"], [coord EXCEPT !.pc = "finishing"],
                               [coord EXCEPT !.taken = coord.taken + 1],
                               [coord EXCEPT !.taken = 0, !.pc = AfterDrain]}
          PROVE  c.candidate = coord.candidate
      BY <2>1, <3>1 DEF Coord
    <3>2. QED
      BY <2>3, <3>1 DEF PollBegins, Drain, Drained, Decide, GiveUp
  <2>6. Finish
    BY <2>3, <2>4, <2>5
    DEF RNext, PollStep, KeyDown, KeyUp, EventUnchanged, HookFailsOpen, LockCommand,
        ReplaceCommand, EndRecording
  <2>7. QED
    BY <2>3, <2>6 DEF Finish, FinishAccepted, MyChannel
<1>2. QED
  BY <1>1, TypedAlways, PTL DEF RSpec, AcceptedIsWhole

-----------------------------------------------------------------------------
(* Keyboards whose sides are known: what is typed is not obeyed *)

SeenDown == {hold[k] : k \in Key} \ {NoVK}

\* Every key is held under its one name, and the engine sees what is down.
InSync ==
    /\ \A k \in Key : hold[k] # NoVK => hold[k] \in Idents[k]
    /\ ~fail_open => pressed = SeenDown

\* Outside a session no tap counts on a key that went down in one.
InsideIsSettled ==
    /\ inside \subseteq SeenDown
    /\ ~fail_open /\ ~recording /\ tap.active => tap.modifier_vk \notin inside

\* An event's name is its key's own, and the key's only.
LEMMA OneName ==
    ASSUME SidesAreKnown, InSync, NEW k \in Key, NEW vk \in Idents[k]
    PROVE  /\ vk \in VK /\ vk # NoVK
           /\ hold[k] # NoVK => hold[k] = vk
           /\ \A j \in Key : j # k => hold[j] # vk
<1>1. vk \in VK /\ vk # NoVK
  BY RecordingAssumption, KeyTablesAssumption
<1>2. QED
  BY <1>1 DEF SidesAreKnown, InSync

LEMMA SeenAfterDown ==
    ASSUME SidesAreKnown, Typed, InSync, NEW k \in Key, NEW vk \in Idents[k],
           hold' = [hold EXCEPT ![k] = vk]
    PROVE  /\ SeenDown' = SeenDown \cup {vk}
           /\ hold[k] # vk => vk \notin SeenDown
           /\ \A j \in Key : hold'[j] # NoVK => hold'[j] \in Idents[j]
<1>1. /\ vk # NoVK /\ hold[k] \in {NoVK, vk}
      /\ \A j \in Key : j # k => hold[j] # vk
  BY OneName
<1>2. hold'[k] = vk /\ \A j \in Key : j # k => hold'[j] = hold[j]
  BY DEF Typed
<1>3. QED
  BY <1>1, <1>2 DEF SeenDown, InSync

LEMMA SeenAfterUp ==
    ASSUME SidesAreKnown, Typed, InSync, NEW k \in Key, NEW vk \in Idents[k],
           hold[k] # NoVK, hold' = [hold EXCEPT ![k] = NoVK]
    PROVE  /\ hold[k] = vk /\ vk \in SeenDown
           /\ SeenDown' = SeenDown \ {vk}
           /\ \A j \in Key : hold'[j] # NoVK => hold'[j] \in Idents[j]
<1>1. hold[k] = vk /\ \A j \in Key : j # k => hold[j] # vk
  BY OneName
<1>2. hold'[k] = NoVK /\ \A j \in Key : j # k => hold'[j] = hold[j]
  BY DEF Typed
<1>3. QED
  BY <1>1, <1>2 DEF SeenDown, InSync

\* With the release of a pressed key goes that key.
LEMMA OwnRelease ==
    ASSUME NEW vk \in pressed
    PROVE  ReleaseVK(vk) = vk /\ ~ReleaseAmbiguous(vk)
BY DEF ReleaseVK, ReleaseAmbiguous, ReleaseCandidates

LEMMA DownFacts ==
    ASSUME IInv, NEW vk \in VK, HandleDown(vk)
    PROVE  /\ pressed' = pressed \cup {vk} /\ recording' = recording
           /\ fail_open' = fail_open
           /\ tap'.active => \/ tap.active /\ tap'.modifier_vk = tap.modifier_vk
                             \/ tap'.modifier_vk = vk /\ vk \notin pressed
<1>1. Ensured \in TapState /\ (Ensured.active => Ensured = tap)
  BY EnsuredFacts DEF IInv
<1>2. CASE DownRepeat(vk)
  BY <1>1, <1>2 DEF DownRepeat, held
<1>3. CASE FirstPress(vk)
  <2> DEFINE u == ObserveDown(Ensured, vk, pressed)
  <2>1. u \in TapState
    BY <1>1, ObserveDownType DEF IInv, TypeOK
  <2>2. u.active => \/ Ensured.active /\ u.modifier_vk = Ensured.modifier_vk
                    \/ u.modifier_vk = vk
    BY <1>1 DEF ObserveDown, TapState
  <2>3. tap' = u \/ tap' = ResetTap(u)
    BY <1>3 DEF HandleDown, FirstPress, DownRepeat, DownEmergency, DownToggle, DownPlain
  <2> HIDE DEF u
  <2>4. ResetTap(u).active = FALSE
    BY <2>1, ResetTapFacts
  <2>5. QED
    BY <1>1, <1>3, <2>2, <2>3, <2>4 DEF FirstPress
<1>4. QED
  BY <1>2, <1>3 DEF HandleDown, DownEmergency, DownToggle, DownPlain

LEMMA UpFacts ==
    ASSUME IInv, NEW vk \in VK, vk \in pressed, HandleUp(vk)
    PROVE  /\ pressed' = pressed \ {vk} /\ recording' = recording
           /\ fail_open' = fail_open
           /\ tap'.active => tap.active /\ tap'.modifier_vk = tap.modifier_vk
<1>1. ReleaseVK(vk) = vk
  BY OwnRelease
<1>2. /\ tap' = ObserveUp(Ensured, vk) /\ pressed' = pressed \ {vk}
      /\ recording' = recording /\ fail_open' = fail_open
  BY <1>1 DEF HandleUp, Forget
<1>3. Ensured \in TapState /\ (Ensured.active => Ensured = tap)
  BY EnsuredFacts DEF IInv
<1>4. QED
  BY <1>2, <1>3, ObserveUpFacts

\* What every step but an event's does to the state machine.
LEMMA QuietFacts ==
    ASSUME IInv,
           \/ UNCHANGED istate \/ EnterRecording \/ ExitRecording \/ FailOpen
           \/ \E value \in BOOLEAN : SetLocked(value)
           \/ \E pair \in ShortcutPairs : ReplaceShortcut(pair)
    PROVE  /\ ~fail_open' => ~fail_open /\ pressed' = pressed
           /\ tap'.active => tap.active /\ tap' = tap /\ recording' = recording
<1>1. tap \in TapState /\ ResetTap(tap) \in TapState /\ ResetTap(tap).active = FALSE
  BY ResetTapFacts DEF IInv, TypeOK
<1>2. ASSUME NEW pair \in ShortcutPairs
      PROVE  ResetTap(EnsureTapFor(ResetTap(tap), pair.lock)).active = FALSE
  BY <1>1, EnsureTapFacts, ResetTapFacts, ShortcutPairsAssumption DEF ShortcutPair
<1>3. ASSUME NEW pair \in ShortcutPairs, ReplaceShortcut(pair)
      PROVE  ~fail_open /\ pressed' = pressed /\ tap'.active = FALSE
  BY <1>1, <1>2, <1>3 DEF ReplaceShortcut, held
<1>4. ASSUME NEW value \in BOOLEAN, SetLocked(value)
      PROVE  ~fail_open /\ pressed' = pressed /\ tap'.active = FALSE
  BY <1>1, <1>4 DEF SetLocked, held
<1>5. ASSUME EnterRecording \/ ExitRecording
      PROVE  ~fail_open /\ pressed' = pressed /\ tap'.active = FALSE
  BY <1>1, <1>5 DEF EnterRecording, ExitRecording, held
<1>6. ASSUME FailOpen PROVE fail_open' /\ tap'.active = FALSE
  BY <1>1, <1>6 DEF FailOpen, Reconcile
<1>7. CASE UNCHANGED istate
  BY <1>7 DEF istate
<1>8. QED
  BY <1>3, <1>4, <1>5, <1>6, <1>7

\* The steps that are not an event: none moves a key.
Quiet == ~\E k \in Key : \E vk \in Idents[k] : KeyDown(k, vk) \/ KeyUp(k, vk)

LEMMA QuietStep ==
    ASSUME Typed, Agreed, [RNext]_rvars, Quiet
    PROVE  /\ UNCHANGED <<hold, inside, alone>>
           /\ ~fail_open' => ~fail_open /\ pressed' = pressed
           /\ tap'.active => tap.active /\ tap' = tap /\ recording' = recording
<1>1. /\ UNCHANGED <<hold, inside, alone>>
      /\ \/ UNCHANGED istate \/ EnterRecording \/ ExitRecording \/ FailOpen
         \/ \E value \in BOOLEAN : SetLocked(value)
         \/ \E pair \in ShortcutPairs : ReplaceShortcut(pair)
  BY DEF Quiet, RNext, rvars, hookside, HookFailsOpen, LockCommand, ReplaceCommand,
     BeginRecording, EndRecording, MainUnchanged, PollStep, PollBegins, GiveUp, Cancel,
     Drain, Drained, Decide, Finish, istate
<1>2. QED
  BY <1>1, QuietFacts DEF Typed

Settled == InSync /\ InsideIsSettled

LEMMA KeyDownSettled ==
    ASSUME SidesAreKnown, Typed, Agreed, Settled,
           NEW k \in Key, NEW vk \in Idents[k], KeyDown(k, vk)
    PROVE  Settled'
<1>1. /\ hold' = [hold EXCEPT ![k] = vk]
      /\ inside' = IF hold[k] = NoVK /\ session # 0 THEN inside \cup {vk} ELSE inside
      /\ IF fail_open THEN UNCHANGED istate ELSE HandleDown(vk)
  BY DEF KeyDown
<1>2. /\ SeenDown' = SeenDown \cup {vk}
      /\ hold[k] # vk => vk \notin SeenDown
      /\ \A j \in Key : hold'[j] # NoVK => hold'[j] \in Idents[j]
  BY <1>1, SeenAfterDown DEF Settled
<1>3. inside' \subseteq SeenDown'
  BY <1>1, <1>2 DEF Settled, InsideIsSettled
<1>4. CASE fail_open
  BY <1>1, <1>2, <1>3, <1>4 DEF Settled, InSync, InsideIsSettled, istate
<1>5. CASE ~fail_open
  <2>1. vk \in VK /\ HandleDown(vk)
    BY <1>1, <1>5, RecordingAssumption
  <2>2. /\ pressed' = pressed \cup {vk} /\ recording' = recording
        /\ fail_open' = fail_open
        /\ tap'.active => \/ tap.active /\ tap'.modifier_vk = tap.modifier_vk
                          \/ tap'.modifier_vk = vk /\ vk \notin pressed
    BY <2>1, DownFacts DEF Typed
  <2>3. InSync'
    BY <1>2, <1>5, <2>2 DEF Settled, InSync
  <2>4. ~recording' => inside' = inside
    BY <1>1, <2>2 DEF Agreed, SessionsAgree
  <2>5. ASSUME ~recording', tap'.active PROVE tap'.modifier_vk \notin inside'
    BY <1>5, <2>2, <2>4, <2>5 DEF Settled, InSync, InsideIsSettled
  <2>6. QED
    BY <1>3, <2>3, <2>5 DEF Settled, InsideIsSettled
<1>6. QED
  BY <1>4, <1>5

LEMMA KeyUpSettled ==
    ASSUME SidesAreKnown, Typed, Agreed, Settled,
           NEW k \in Key, NEW vk \in Idents[k], KeyUp(k, vk)
    PROVE  /\ Settled'
           /\ hold[k] = vk /\ (~fail_open => vk \in pressed /\ HandleUp(vk))
<1>1. /\ hold[k] # NoVK /\ hold' = [hold EXCEPT ![k] = NoVK]
      /\ inside' = inside \ {hold[k]}
      /\ fail_open => UNCHANGED istate
      /\ ~fail_open => HandleUp(vk) \/ HandleUpUnpaired(vk)
  BY DEF KeyUp
<1>2. /\ hold[k] = vk /\ vk \in SeenDown
      /\ SeenDown' = SeenDown \ {vk}
      /\ \A j \in Key : hold'[j] # NoVK => hold'[j] \in Idents[j]
  BY <1>1, SeenAfterUp DEF Settled
<1>3. inside' \subseteq SeenDown'
  BY <1>1, <1>2 DEF Settled, InsideIsSettled
<1>4. CASE fail_open
  BY <1>1, <1>2, <1>3, <1>4 DEF Settled, InSync, InsideIsSettled, istate
<1>5. CASE ~fail_open
  <2>1. vk \in pressed
    BY <1>2, <1>5 DEF Settled, InSync
  <2>2. HandleUp(vk)
    BY <1>1, <1>5, <2>1, OwnRelease DEF HandleUpUnpaired
  <2>3. /\ pressed' = pressed \ {vk} /\ recording' = recording
        /\ fail_open' = fail_open
        /\ tap'.active => tap.active /\ tap'.modifier_vk = tap.modifier_vk
    BY <2>1, <2>2, UpFacts, RecordingAssumption DEF Typed
  <2>4. InSync'
    BY <1>2, <1>5, <2>3 DEF Settled, InSync
  <2>5. ASSUME ~recording', tap'.active PROVE tap'.modifier_vk \notin inside'
    BY <1>1, <1>5, <2>3, <2>5 DEF Settled, InsideIsSettled
  <2>6. QED
    BY <1>2, <1>3, <2>1, <2>2, <2>4, <2>5 DEF Settled, InsideIsSettled
<1>6. QED
  BY <1>4, <1>5

LEMMA SettledStep ==
    ASSUME SidesAreKnown, Typed, Agreed, Settled, [RNext]_rvars
    PROVE  Settled'
<1>1. CASE Quiet
  <2>1. /\ UNCHANGED <<hold, inside, alone>>
        /\ ~fail_open' => ~fail_open /\ pressed' = pressed
        /\ tap'.active => tap.active /\ tap' = tap /\ recording' = recording
    BY <1>1, QuietStep
  <2>2. SeenDown' = SeenDown
    BY <2>1 DEF SeenDown
  <2>3. QED
    BY <2>1, <2>2 DEF Settled, InSync, InsideIsSettled
<1>2. QED
  BY <1>1, KeyDownSettled, KeyUpSettled DEF Quiet

LEMMA InitSettled == RInit => Settled
<1>1. RInit => SeenDown = {}
  BY DEF RInit, SeenDown
<1>2. QED
  BY <1>1, FreshTapFacts DEF RInit, Init, Settled, InSync, InsideIsSettled

LEMMA SettledAlways == SidesAreKnown => (RSpec => [](Typed /\ Agreed /\ Settled))
<1> SUFFICES ASSUME SidesAreKnown PROVE RSpec => [](Typed /\ Agreed /\ Settled)
  OBVIOUS
<1>1. (Typed /\ Agreed /\ Settled) /\ [RNext]_rvars => (Typed /\ Agreed /\ Settled)'
  BY TypedStep, SettledStep
<1>2. QED
  BY <1>1, InitTyped, InitSettled, PTL DEF RSpec

\* What is typed into a recording stays there: at the release of a key that
\* went down during a session the lock does not change, because the tap that
\* could change it was reset when the session began and when it ended, and no
\* tap has counted on this key since.
THEOREM TypedNeverObeyed == SidesAreKnown => (RSpec => TypedIsNotObeyed)
<1> SUFFICES ASSUME SidesAreKnown PROVE RSpec => TypedIsNotObeyed
  OBVIOUS
<1>1. (Typed /\ Agreed /\ Settled) /\ [RNext]_rvars =>
        [\A k \in Key : hold[k] \in inside /\ hold'[k] = NoVK /\ ~fail_open'
             => locked' = locked]_rvars
  <2> SUFFICES ASSUME Typed, Agreed, Settled, RNext, NEW k \in Key,
                      hold[k] \in inside, hold'[k] = NoVK, ~fail_open'
               PROVE  locked' = locked
    BY DEF rvars
  <2>1. hold[k] # NoVK
    BY DEF Settled, InsideIsSettled, SeenDown
  <2>2. PICK j \in Key : \E vk \in Idents[j] : KeyDown(j, vk) \/ KeyUp(j, vk)
    BY <2>1, QuietStep DEF Quiet
  <2>3. PICK vk \in Idents[j] : KeyDown(j, vk) \/ KeyUp(j, vk)
    BY <2>2
  <2>4. vk \in VK /\ vk # NoVK
    BY RecordingAssumption, KeyTablesAssumption
  <2>5. j = k /\ KeyUp(k, vk)
    BY <2>1, <2>3, <2>4 DEF KeyDown, KeyUp, Typed
  <2>6. /\ hold[k] = vk /\ (~fail_open => vk \in pressed /\ HandleUp(vk))
    BY <2>3, <2>5, KeyUpSettled
  <2>7. CASE fail_open
    BY <2>5, <2>7 DEF KeyUp, istate
  <2>8. CASE ~fail_open
    <3>1. vk \in pressed /\ HandleUp(vk) /\ ReleaseVK(vk) = vk
      BY <2>6, <2>8, OwnRelease
    <3>2. Ensured.active => Ensured = tap
      BY EnsuredFacts DEF Typed, IInv
    <3>3. ~TapDue(vk)
      BY <2>6, <2>8, <3>1, <3>2 DEF TapDue, TapEligible, Settled, InsideIsSettled
    <3>4. QED
      BY <3>1, <3>3 DEF HandleUp
  <2>9. QED
    BY <2>7, <2>8
<1>2. QED
  BY <1>1, SettledAlways, PTL DEF RSpec, TypedIsNotObeyed

-----------------------------------------------------------------------------
(* What is captured is what was pressed: the recorder by itself *)

Live(r) == r.candidate = NoShortcut /\ r.started /\ ~r.invalid /\ ~r.awaiting

\* The recorder follows a tap that may still become a shortcut.
Tapping(r) == Live(r) /\ TapEligible(r.tap, r.tap.modifier_vk)

\* Those keys are the tap's modifier alone, if there is such a tap.
OnTap(r, keys) == Tapping(r) => keys = {r.tap.modifier_vk}

\* A recorder waits for the release of held keys only, and a rejected attempt
\* is over once they are up.
Ready(r) ==
    /\ r.awaiting => r.held # {} /\ (~r.started \/ r.invalid)
    /\ r.invalid /\ ~r.awaiting => r.held = {}

\* The recorder, when sp says whether its keys are spent.
RecorderOK(r, sp) ==
    /\ r.candidate = NoShortcut => Ready(r) /\ (sp => r.awaiting)
    /\ r.candidate # NoShortcut => ~sp /\ ~r.invalid
    /\ OnTap(r, r.held)

\* Who was alone after an event, given who was before it.
AloneDown(a, down, vk) == IF vk \in down THEN a ELSE IF down = {} THEN {vk} ELSE {}

AloneAfter(a, down, e) == IF e.is_keydown THEN AloneDown(a, down, e.vk) ELSE a

Follows(e, down, a) == e.pressed = PressedAfter(down, e) /\ e.alone = AloneAfter(a, down, e)

\* A chord that can be recorded matches the very press that completed it.
LEMMA ChordMatches ==
    ASSUME NEW p \in SUBSET VK, NEW vk \in VK, Recordable(p, vk), FamilyOf(vk) = NoFamily
    PROVE  ~IsStandalone(ChordShortcut(p, vk)) /\ Matches(ChordShortcut(p, vk), p, vk)
<1> DEFINE c == ChordShortcut(p, vk)
<1>1. /\ c.modifiers = {} /\ c.trigger_vk = vk /\ c.activation_kind = "trigger_down"
      /\ c.exact_modifiers = p \cap SUPPORTED_MODIFIER_VKS
  BY DEF ChordShortcut
<1>2. vk \notin DOMAIN GENERIC_MODIFIER_VKS
  BY KeyTablesAssumption DEF FamilyOf
<1>3. \A w \in p : w # vk => w \in SUPPORTED_MODIFIER_VKS
  BY DEF Recordable
<1>4. p \cap DOMAIN GENERIC_MODIFIER_VKS = {}
  BY <1>2, <1>3, KeyTablesAssumption
<1>5. \A f \in Families :
        p \cap SUPPORTED_MODIFIER_VKS \cap MODIFIER_VKS[f] = p \cap MODIFIER_VKS[f]
  BY DEF SUPPORTED_MODIFIER_VKS
<1> HIDE DEF c
<1>6. ActiveFamilies(p) = RequiredFamilies(c)
  BY <1>1, <1>4, <1>5 DEF ActiveFamilies, RequiredFamilies
<1>7. QED
  BY <1>1, <1>5, <1>6 DEF Matches, IsStandalone, c

LEMMA DownOK ==
    ASSUME NEW r \in Recorder, NEW sp \in BOOLEAN, RecorderOK(r, sp),
           r.candidate = NoShortcut, NEW vk \in VK, NEW a,
           OnTap(r, a)
    PROVE  LET q == ConsumeDown(r, vk)
               b == AloneDown(a, r.held, vk)
           IN  /\ q.candidate = NoShortcut => Ready(q) /\ (sp => q.awaiting)
               /\ q.candidate # NoShortcut =>
                    /\ ~sp /\ ~q.invalid /\ FamilyOf(vk) = NoFamily
                    /\ Recordable(q.held, vk) /\ q.candidate = ChordShortcut(q.held, vk)
               /\ OnTap(q, q.held) /\ OnTap(q, b)
<1> USE DEF OnTap, AloneDown
<1> DEFINE q == ConsumeDown(r, vk)
<1> DEFINE b == AloneDown(a, r.held, vk)
<1> DEFINE now == [r EXCEPT !.held = r.held \cup {vk}]
<1> DEFINE start == StartAttempt(r)
<1> DEFINE opened == [start EXCEPT !.held = start.held \cup {vk}]
<1> DEFINE Goal ==
        /\ q.candidate = NoShortcut => Ready(q) /\ (sp => q.awaiting)
        /\ q.candidate # NoShortcut =>
             /\ ~sp /\ ~q.invalid /\ FamilyOf(vk) = NoFamily
             /\ Recordable(q.held, vk) /\ q.candidate = ChordShortcut(q.held, vk)
        /\ OnTap(q, q.held) /\ OnTap(q, b)
<1>1. q = IF r.awaiting \/ vk \in r.held THEN now
          ELSE IF FamilyOf(vk) # NoFamily THEN ModifierDown(opened, vk)
          ELSE IF Recordable(opened.held, vk)
               THEN [opened EXCEPT !.candidate = ChordShortcut(opened.held, vk)]
               ELSE Reject(opened)
  BY DEF ConsumeDown
<1>2. Ready(r) /\ (sp => r.awaiting) /\ OnTap(r, r.held)
  BY DEF RecorderOK
<1>3. /\ now.held = r.held \cup {vk} /\ now.candidate = r.candidate
      /\ now.invalid = r.invalid /\ now.started = r.started
      /\ now.awaiting = r.awaiting /\ now.tap = r.tap
  BY DEF Recorder
<1>4. CASE r.awaiting \/ vk \in r.held
  <2>1. q = now
    BY <1>1, <1>4
  <2> HIDE DEF now, q
  <2>2. Ready(q) /\ (sp => q.awaiting) /\ q.candidate = NoShortcut
    BY <1>2, <1>3, <1>4, <2>1 DEF Ready
  <2>3. Tapping(q) => Tapping(r) /\ ~r.awaiting /\ q.tap = r.tap
    BY <1>3, <2>1 DEF Tapping, Live
  <2>4. OnTap(q, q.held) /\ OnTap(q, b)
    BY <1>2, <1>3, <1>4, <2>1, <2>3
  <2>5. QED
    BY <2>2, <2>4 DEF q
<1>5. CASE ~(r.awaiting \/ vk \in r.held)
  <2>1. /\ start \in Recorder /\ start.held = r.held /\ start.candidate = NoShortcut
        /\ start.awaiting = FALSE
    BY <1>5, StartAttemptType DEF Recorder
  <2>2. /\ start.invalid = FALSE /\ start.started = TRUE
        /\ (start.tap = r.tap /\ Live(r)) \/ start.tap = FreshTap(NoVK)
    <3>1. CASE r.started /\ ~(r.invalid /\ ~r.awaiting /\ r.held = {})
      <4>1. start = r
        BY <3>1 DEF StartAttempt
      <4>2. r.invalid = FALSE /\ r.started = TRUE /\ Live(r)
        BY <1>2, <1>5, <3>1 DEF Ready, Live, Recorder
      <4>3. QED
        BY <4>1, <4>2
    <3>2. CASE ~(r.started /\ ~(r.invalid /\ ~r.awaiting /\ r.held = {}))
      BY <3>2 DEF StartAttempt, Recorder
    <3>3. QED
      BY <3>1, <3>2
  <2> HIDE DEF start
  <2>3. /\ opened \in Recorder /\ opened.held = r.held \cup {vk}
        /\ opened.candidate = NoShortcut /\ opened.awaiting = FALSE
        /\ opened.invalid = FALSE /\ opened.started = TRUE /\ opened.tap = start.tap
    BY <2>1, <2>2 DEF Recorder
  <2>4. ~sp
    BY <1>2, <1>5
  <2> HIDE DEF opened
  <2>5. ASSUME q = Reject(opened) PROVE Goal
    <3>1. q.awaiting = TRUE /\ q.invalid = TRUE /\ q.held = opened.held /\ q.candidate = NoShortcut
      BY <2>3, <2>5 DEF Reject, Recorder
    <3> HIDE DEF q
    <3>2. QED
      BY <2>3, <2>4, <3>1 DEF Ready, Tapping, Live
  <2>6. CASE FamilyOf(vk) = NoFamily /\ Recordable(opened.held, vk)
    <3>1. q = [opened EXCEPT !.candidate = ChordShortcut(opened.held, vk)]
      BY <1>1, <1>5, <2>6
    <3>2. q.held = opened.held /\ q.candidate = ChordShortcut(opened.held, vk) /\ q.invalid = FALSE
      BY <2>3, <3>1 DEF Recorder
    <3>3. q.candidate # NoShortcut
      BY <2>3, <3>2, ChordType, RecorderAssumption DEF Recorder
    <3> HIDE DEF q
    <3>4. QED
      BY <2>4, <2>6, <3>2, <3>3 DEF Tapping, Live, q
  <2>7. CASE FamilyOf(vk) # NoFamily /\ vk \in SUPPORTED_MODIFIER_VKS
    <3> DEFINE t == IF opened.tap.modifier_vk = NoVK THEN FreshTap(vk) ELSE opened.tap
    <3> DEFINE u == ObserveDown(t, vk, r.held)
    <3>1. opened.held \ {vk} = r.held
      BY <1>5, <2>3
    <3>2. q = [opened EXCEPT !.tap = u]
      BY <1>1, <1>5, <2>7, <3>1 DEF ModifierDown
    <3>3. t \in TapState
      BY <2>3, FreshTapFacts DEF Recorder
    <3>4. TapEligible(t, t.modifier_vk) => Tapping(r) /\ t = r.tap
      <4>1. FreshTap(vk).active = FALSE /\ FreshTap(NoVK).active = FALSE
        BY FreshTapFacts
      <4>2. QED
        BY <2>2, <2>3, <4>1 DEF TapEligible, Tapping
    <3>5. TapEligible(u, u.modifier_vk) =>
             \/ u = t /\ TapEligible(t, t.modifier_vk) /\ t.modifier_vk = vk
             \/ u.modifier_vk = vk /\ r.held = {}
      <4> HIDE DEF t
      <4>1. QED
        BY <3>3 DEF ObserveDown, TapEligible, TapState
    <3>6. TapEligible(u, u.modifier_vk) => u.modifier_vk = vk /\ r.held = {}
      BY <1>2, <1>5, <3>4, <3>5
    <3> HIDE DEF t, u
    <3>7. /\ q.candidate = NoShortcut /\ q.awaiting = FALSE /\ q.invalid = FALSE
          /\ q.held = r.held \cup {vk} /\ q.tap = u
      BY <2>3, <3>2 DEF Recorder
    <3> HIDE DEF q
    <3>8. OnTap(q, q.held) /\ OnTap(q, b)
      BY <3>6, <3>7 DEF Tapping
    <3>9. QED
      BY <2>4, <3>7, <3>8 DEF Ready, q
  <2>8. CASE /\ FamilyOf(vk) # NoFamily => vk \notin SUPPORTED_MODIFIER_VKS
             /\ FamilyOf(vk) = NoFamily => ~Recordable(opened.held, vk)
    BY <1>1, <1>5, <2>5, <2>8 DEF ModifierDown
  <2>9. QED
    BY <2>6, <2>7, <2>8
<1>6. QED
  BY <1>4, <1>5

LEMMA UpOK ==
    ASSUME NEW r \in Recorder, NEW sp \in BOOLEAN, RecorderOK(r, sp),
           r.candidate = NoShortcut, NEW vk \in VK
    PROVE  LET q == ConsumeUp(r, vk)
           IN  /\ q.candidate = NoShortcut =>
                     Ready(q) /\ (sp /\ q.held # {} => q.awaiting)
               /\ q.candidate # NoShortcut =>
                     /\ ~sp /\ ~q.invalid
                     /\ Tapping(r) /\ vk = r.tap.modifier_vk /\ q.candidate = TapShortcut(vk)
               /\ Tapping(q) => /\ Tapping(r) /\ q.tap = r.tap
                                /\ q.held = {q.tap.modifier_vk}
<1> USE DEF OnTap
<1> DEFINE q == ConsumeUp(r, vk)
<1> DEFINE now == [r EXCEPT !.held = r.held \ {vk}]
<1> DEFINE watched == [now EXCEPT !.tap = ObserveUp(now.tap, vk)]
<1>1. q = IF r.awaiting THEN [now EXCEPT !.awaiting = now.held # {}]
          ELSE IF ~r.started \/ r.invalid THEN now
          ELSE IF TapCaptured(r, vk) THEN [watched EXCEPT !.candidate = TapShortcut(vk)]
          ELSE IF now.held = {} /\ r.tap.modifier_vk # NoVK
               THEN [watched EXCEPT !.started = FALSE]
               ELSE watched
  BY DEF ConsumeUp
<1>2. Ready(r) /\ (sp => r.awaiting) /\ OnTap(r, r.held)
  BY DEF RecorderOK
<1>3. /\ now \in Recorder /\ now.held = r.held \ {vk} /\ now.candidate = NoShortcut
      /\ now.invalid = r.invalid /\ now.started = r.started
      /\ now.awaiting = r.awaiting /\ now.tap = r.tap
  BY DEF Recorder
<1> HIDE DEF now
<1>4. CASE r.awaiting
  <2>1. q = [now EXCEPT !.awaiting = now.held # {}]
    BY <1>1, <1>4
  <2>2. /\ q.held = now.held /\ q.candidate = NoShortcut /\ q.awaiting = (now.held # {})
        /\ q.invalid = r.invalid /\ q.started = r.started
    BY <1>3, <2>1 DEF Recorder
  <2> HIDE DEF q
  <2>3. Ready(q) /\ ~Tapping(q) /\ (q.held # {} => q.awaiting)
    BY <1>2, <1>4, <2>2 DEF Ready, Tapping, Live
  <2>4. QED
    BY <2>2, <2>3 DEF q
<1>5. CASE ~r.awaiting /\ (~r.started \/ r.invalid)
  <2>1. q = now
    BY <1>1, <1>5
  <2> HIDE DEF q
  <2>2. Ready(q) /\ ~Tapping(q) /\ ~sp
    BY <1>2, <1>3, <1>5, <2>1 DEF Ready, Tapping, Live
  <2>3. QED
    BY <1>3, <2>1, <2>2 DEF q
<1>6. CASE ~r.awaiting /\ r.started /\ ~r.invalid
  <2> DEFINE u == ObserveUp(r.tap, vk)
  <2>1. /\ watched \in Recorder /\ watched.held = now.held /\ watched.candidate = NoShortcut
        /\ watched.invalid = r.invalid /\ watched.started = r.started
        /\ watched.awaiting = r.awaiting /\ watched.tap = u
    <3>1. u \in TapState
      BY ObserveUpFacts DEF Recorder
    <3> HIDE DEF u
    <3>2. watched = [now EXCEPT !.tap = u]
      BY <1>3 DEF u
    <3>3. QED
      BY <1>3, <3>1, <3>2 DEF Recorder
  <2> HIDE DEF watched
  <2>2. Live(r) /\ ~sp
    BY <1>2, <1>6 DEF Live
  <2>3. CASE TapCaptured(r, vk)
    <3>1. q = [watched EXCEPT !.candidate = TapShortcut(vk)]
      BY <1>1, <1>6, <2>3
    <3>2. q.candidate = TapShortcut(vk) /\ q.invalid = r.invalid
      BY <2>1, <3>1 DEF Recorder
    <3>3. TapShortcut(vk) # NoShortcut
      BY TapShortcutType, RecorderAssumption
    <3>4. Tapping(r) /\ vk = r.tap.modifier_vk
      BY <2>2, <2>3 DEF TapCaptured, TapEligible, Tapping
    <3> HIDE DEF q
    <3>5. QED
      BY <1>6, <2>2, <3>2, <3>3, <3>4 DEF Tapping, Live, q
  <2>4. CASE ~TapCaptured(r, vk) /\ now.held = {} /\ r.tap.modifier_vk # NoVK
    <3>1. q = [watched EXCEPT !.started = FALSE]
      BY <1>1, <1>6, <2>4
    <3>2. /\ q.candidate = NoShortcut /\ q.invalid = r.invalid /\ q.awaiting = r.awaiting
          /\ q.started = FALSE
      BY <2>1, <3>1 DEF Recorder
    <3> HIDE DEF q
    <3>3. QED
      BY <1>6, <2>2, <3>2 DEF Tapping, Live, Ready, q
  <2>5. CASE ~TapCaptured(r, vk) /\ ~(now.held = {} /\ r.tap.modifier_vk # NoVK)
    <3>1. q = watched
      BY <1>1, <1>6, <2>5
    <3>2. TapEligible(u, u.modifier_vk) => u = r.tap /\ r.tap.modifier_vk # vk
      BY ObserveUpFacts DEF TapEligible, Recorder
    <3> HIDE DEF q, u
    <3>3. Tapping(q) => Tapping(r) /\ q.tap = r.tap /\ r.tap.modifier_vk # vk
      BY <2>1, <2>2, <3>1, <3>2 DEF Tapping
    <3>4. OnTap(q, q.held)
      BY <1>2, <1>3, <2>1, <3>1, <3>3
    <3>5. QED
      BY <1>6, <2>1, <2>2, <3>1, <3>3, <3>4 DEF Ready, q
  <2>6. QED
    BY <2>3, <2>4, <2>5
<1>7. QED
  BY <1>4, <1>5, <1>6

\* What was captured, against the event that completed it.
CapturedBy(c, e) ==
    IF IsStandalone(c) THEN c.trigger_vk \in e.alone ELSE Matches(c, e.pressed, e.vk)

LEMMA ConsumeOK ==
    ASSUME NEW r \in Recorder, NEW sp \in BOOLEAN, RecorderOK(r, sp),
           NEW e \in Event, NEW a, Follows(e, r.held, a),
           OnTap(r, a)
    PROVE  LET q == Consume(r, e.vk, e.is_keydown)
           IN  /\ RecorderOK(q, e.pressed # {} /\ (sp \/ q.invalid))
               /\ q.held = e.pressed
               /\ OnTap(q, e.alone)
               /\ q.candidate # NoShortcut =>
                     q.candidate = r.candidate \/ CapturedBy(q.candidate, e)
<1> DEFINE q == Consume(r, e.vk, e.is_keydown)
<1> DEFINE sq == e.pressed # {} /\ (sp \/ q.invalid)
<1>1. e.vk \in VK /\ e.is_keydown \in BOOLEAN
  BY DEF Event
<1>2. q \in Recorder /\ q.held = e.pressed
  BY ConsumeType DEF Follows
<1>3. CASE r.candidate # NoShortcut
  <2>1. q.candidate = r.candidate /\ q.invalid = r.invalid
    BY <1>3 DEF Consume, Recorder
  <2>2. ~sq /\ ~q.invalid
    BY <1>3, <2>1 DEF RecorderOK
  <2> HIDE DEF q
  <2>3. QED
    BY <1>2, <1>3, <2>1, <2>2 DEF RecorderOK, OnTap, Tapping, Live, q
<1>4. CASE r.candidate = NoShortcut /\ e.is_keydown
  <2> DEFINE d == ConsumeDown(r, e.vk)
  <2> DEFINE b == AloneDown(a, r.held, e.vk)
  <2>1. e.alone = b
    BY <1>4 DEF Follows, AloneAfter
  <2>2. q = d
    BY <1>4 DEF Consume
  <2> HIDE DEF q
  <2>3. /\ d.candidate = NoShortcut => Ready(d) /\ (sp => d.awaiting)
        /\ d.candidate # NoShortcut =>
             /\ ~sp /\ ~d.invalid /\ FamilyOf(e.vk) = NoFamily
             /\ Recordable(d.held, e.vk) /\ d.candidate = ChordShortcut(d.held, e.vk)
        /\ OnTap(d, d.held) /\ OnTap(d, b)
    BY <1>1, <1>4, DownOK
  <2> HIDE DEF d
  <2>4. /\ q.candidate = NoShortcut => Ready(q) /\ (sp => q.awaiting)
        /\ q.candidate # NoShortcut =>
             /\ ~sp /\ ~q.invalid /\ FamilyOf(e.vk) = NoFamily
             /\ Recordable(q.held, e.vk) /\ q.candidate = ChordShortcut(q.held, e.vk)
        /\ OnTap(q, q.held) /\ OnTap(q, b)
    BY <2>2, <2>3
  <2> HIDE DEF q, b
  <2>5. q.candidate # NoShortcut => CapturedBy(q.candidate, e)
    BY <1>1, <1>2, <2>4, ChordMatches DEF CapturedBy, Recorder
  <2>6. RecorderOK(q, sq)
    BY <1>2, <2>4 DEF RecorderOK, Ready
  <2>7. QED
    BY <1>2, <2>1, <2>4, <2>5, <2>6 DEF q
<1>5. CASE r.candidate = NoShortcut /\ ~e.is_keydown
  <2>1. e.alone = a
    BY <1>5 DEF Follows, AloneAfter
  <2>2. q = ConsumeUp(r, e.vk)
    BY <1>5 DEF Consume
  <2>3. /\ q.candidate = NoShortcut =>
              Ready(q) /\ (sp /\ q.held # {} => q.awaiting)
        /\ q.candidate # NoShortcut =>
              /\ ~sp /\ ~q.invalid
              /\ Tapping(r) /\ e.vk = r.tap.modifier_vk /\ q.candidate = TapShortcut(e.vk)
        /\ Tapping(q) => /\ Tapping(r) /\ q.tap = r.tap
                         /\ q.held = {q.tap.modifier_vk}
    BY <1>1, <1>5, <2>2, UpOK
  <2> HIDE DEF q
  <2>4. TapShortcut(e.vk).activation_kind = "release" /\ TapShortcut(e.vk).trigger_vk = e.vk
    BY DEF TapShortcut
  <2>5. q.candidate # NoShortcut => CapturedBy(q.candidate, e)
    BY <2>1, <2>3, <2>4 DEF OnTap, CapturedBy, IsStandalone
  <2>6. RecorderOK(q, sq)
    BY <1>2, <2>3 DEF OnTap, RecorderOK, Ready
  <2>7. QED
    BY <1>2, <2>1, <2>3, <2>5, <2>6 DEF OnTap, q
<1>6. QED
  BY <1>3, <1>4, <1>5

-----------------------------------------------------------------------------
(* The channel carries the keys from the engine to the recorder: each of   *)
(* its events follows on the one before, the first on what the recorder    *)
(* has seen, and the keys are now as the last one left them.               *)

InLine(p, r) ==
    /\ \A n \in 1..Len(p) - 1 : Follows(p[n + 1], p[n].pressed, p[n].alone)
    /\ p # <<>> => \E a : /\ Follows(p[1], r.held, a)
                          /\ OnTap(r, a)

LastIs(p, r, down, a) ==
    IF p = <<>> THEN down = r.held /\ OnTap(r, a)
    ELSE down = p[Len(p)].pressed /\ a = p[Len(p)].alone

LEMMA AppendInLine ==
    ASSUME NEW p \in Seq(Event), NEW e \in Event, NEW r, NEW down, NEW a,
           InLine(p, r), LastIs(p, r, down, a), Follows(e, down, a)
    PROVE  InLine(Append(p, e), r) /\ LastIs(Append(p, e), r, e.pressed, e.alone)
<1> DEFINE q == Append(p, e)
<1>1. /\ Len(p) \in Nat /\ Len(q) = Len(p) + 1 /\ q # <<>> /\ q[Len(q)] = e
      /\ \A n \in 1..Len(p) : q[n] = p[n]
  OBVIOUS
<1>2. CASE p = <<>>
  <2>1. Len(p) = 0 /\ q[1] = e
    BY <1>1, <1>2
  <2>2. Follows(q[1], r.held, a) /\ OnTap(r, a)
    BY <1>2, <2>1 DEF LastIs
  <2> HIDE DEF q
  <2>3. QED
    BY <1>1, <2>1, <2>2 DEF InLine, LastIs, q
<1>3. CASE p # <<>>
  <2>1. Len(p) >= 1 /\ q[1] = p[1] /\ q[Len(p)] = p[Len(p)] /\ q[Len(p) + 1] = e
    BY <1>1, <1>3
  <2> HIDE DEF q
  <2>2. Follows(e, p[Len(p)].pressed, p[Len(p)].alone)
    BY <1>3 DEF LastIs
  <2>3. ASSUME NEW n \in 1..Len(q) - 1
        PROVE  Follows(q[n + 1], q[n].pressed, q[n].alone)
    <3>1. CASE n = Len(p)
      BY <2>1, <2>2, <3>1
    <3>2. CASE n # Len(p)
      <4>1. n \in 1..Len(p) - 1 /\ n \in 1..Len(p) /\ n + 1 \in 1..Len(p)
        BY <1>1, <3>2
      <4>2. QED
        BY <1>1, <4>1 DEF InLine
    <3>3. QED
      BY <3>1, <3>2
  <2>4. QED
    BY <1>1, <1>3, <2>1, <2>3 DEF InLine, LastIs, q
<1>4. QED
  BY <1>2, <1>3

LEMMA TailInLine ==
    ASSUME NEW p \in Seq(Event), p # <<>>, NEW r, NEW q, NEW down, NEW a,
           InLine(p, r), q.held = p[1].pressed,
           OnTap(q, p[1].alone)
    PROVE  /\ InLine(Tail(p), q)
           /\ LastIs(p, r, down, a) => LastIs(Tail(p), q, down, a)
<1> DEFINE t == Tail(p)
<1>1. /\ Len(p) \in Nat /\ Len(p) >= 1 /\ Len(t) = Len(p) - 1
      /\ \A n \in 1..Len(t) : t[n] = p[n + 1]
      /\ t \in Seq(Event)
  OBVIOUS
<1> HIDE DEF t
<1>2. ASSUME NEW n \in 1..Len(t) - 1 PROVE Follows(t[n + 1], t[n].pressed, t[n].alone)
  <2>1. n \in 1..Len(t) /\ n + 1 \in 1..Len(t) /\ n + 1 \in 1..Len(p) - 1
    BY <1>1
  <2>2. QED
    BY <1>1, <2>1 DEF InLine
<1>3. ASSUME t # <<>> PROVE Follows(t[1], p[1].pressed, p[1].alone)
  <2>1. 1 \in 1..Len(t) /\ 1 \in 1..Len(p) - 1
    BY <1>1, <1>3
  <2>2. QED
    BY <1>1, <2>1 DEF InLine
<1>4. InLine(t, q)
  BY <1>2, <1>3 DEF InLine
<1>5. ASSUME LastIs(p, r, down, a) PROVE LastIs(t, q, down, a)
  <2>1. down = p[Len(p)].pressed /\ a = p[Len(p)].alone
    BY <1>5 DEF LastIs
  <2>2. CASE t = <<>>
    <3>1. Len(p) = 1
      BY <1>1, <2>2
    <3>2. QED
      BY <2>1, <2>2, <3>1 DEF LastIs
  <2>3. CASE t # <<>>
    <3>1. Len(t) \in 1..Len(t) /\ t[Len(t)] = p[Len(p)]
      BY <1>1, <2>3
    <3>2. QED
      BY <2>1, <2>3, <3>1 DEF LastIs
  <2>4. QED
    BY <2>2, <2>3
<1>6. QED
  BY <1>4, <1>5 DEF t

Faithful ==
    /\ spent \in BOOLEAN
    /\ RecorderOK(recorder, spent)
    /\ recorder.candidate # NoShortcut => CapturedBy(recorder.candidate, origin)
    /\ coord.recording => InLine(MyChannel.payloads, recorder)
    /\ coord.recording /\ Healthy(MyChannel) =>
          LastIs(MyChannel.payloads, recorder, pressed, alone)

LEMMA NewRecorderOK ==
    ASSUME NEW h \in SUBSET VK
    PROVE  /\ RecorderOK(NewRecorder(h), h # {})
           /\ NewRecorder(h).candidate = NoShortcut /\ NewRecorder(h).held = h
           /\ ~Tapping(NewRecorder(h))
BY DEF NewRecorder, RecorderOK, Ready, OnTap, Tapping, Live

LEMMA InitFaithful == RInit => Faithful
<1> SUFFICES ASSUME RInit PROVE Faithful
  OBVIOUS
<1>1. recorder = NewRecorder({}) /\ spent = FALSE /\ ~coord.recording
  BY DEF RInit
<1>2. {} \in SUBSET VK /\ ({} # {}) = FALSE
  OBVIOUS
<1>3. RecorderOK(recorder, FALSE) /\ recorder.candidate = NoShortcut
  BY <1>1, <1>2, NewRecorderOK
<1>4. QED
  BY <1>1, <1>3 DEF Faithful

\* A recording whose channel is healthy is the engine's session.
LEMMA MySession ==
    ASSUME Typed, Agreed, coord.recording
    PROVE  /\ coord.session \in Session
           /\ session # coord.session => ~Healthy(MyChannel) /\ session = 0
           /\ fail_open => ~Healthy(MyChannel)
<1>1. coord.session \in Session
  BY RecordingAssumption DEF Typed, Agreed, Coord, Session
<1>2. QED
  BY <1>1, RecordingAssumption DEF Agreed, SessionsAgree, Session

\* The engine publishes an event that follows on the keys as they were.
LEMMA PublishedFaithful ==
    ASSUME Typed, Agreed, Faithful, NEW vk \in VK, NEW isDown \in BOOLEAN,
           pressed' \in SUBSET VK, alone' \in SUBSET VK, PublishEvent(vk, isDown),
           Follows([vk |-> vk, is_keydown |-> isDown, pressed |-> pressed', alone |-> alone'],
                   pressed, alone),
           UNCHANGED <<session, coord, recorder, origin, spent>>
    PROVE  Faithful'
<1> DEFINE e == [vk |-> vk, is_keydown |-> isDown, pressed |-> pressed', alone |-> alone']
<1>1. e \in Event /\ e.pressed = pressed' /\ e.alone = alone' /\ Follows(e, pressed, alone)
  BY DEF Event
<1>2. /\ \A s \in Session : s # session => channels'[s] = channels[s]
      /\ \A s \in Session : s = session => channels'[s] = Publish(channels[s], e)
  BY PublishEventFacts
<1> HIDE DEF e
<1>3. ASSUME coord.recording
      PROVE  /\ InLine(MyChannel.payloads, recorder)'
             /\ Healthy(MyChannel)' => LastIs(MyChannel.payloads, recorder, pressed, alone)'
  <2> DEFINE c == channels[coord.session]
  <2> DEFINE d == channels'[coord.session]
  <2>1. /\ coord.session \in Session /\ MyChannel' = d /\ MyChannel = c
        /\ InLine(c.payloads, recorder)
        /\ Healthy(c) => LastIs(c.payloads, recorder, pressed, alone)
    BY <1>3, MySession DEF MyChannel, Faithful
  <2>2. CASE session # coord.session
    BY <1>2, <1>3, <2>1, <2>2, MySession
  <2>3. CASE session = coord.session
    <3>1. c \in Channel /\ Len(c.payloads) <= Capacity /\ c.payloads \in Seq(Event)
      BY <2>1 DEF Typed, ChannelsOK, Channel
    <3>2. d = Publish(c, e)
      BY <1>2, <2>1, <2>3
    <3> HIDE DEF c, d
    <3>3. /\ Healthy(d) => Healthy(c) /\ d.payloads = Append(c.payloads, e)
          /\ ~Healthy(d) => d.payloads = c.payloads
      BY <1>1, <3>1, <3>2, PublishFacts
    <3>4. CASE Healthy(d)
      <4>1. /\ InLine(d.payloads, recorder)
            /\ LastIs(d.payloads, recorder, e.pressed, e.alone)
        BY <1>1, <2>1, <3>1, <3>3, <3>4, AppendInLine
      <4>2. QED
        BY <1>1, <2>1, <4>1
    <3>5. CASE ~Healthy(d)
      BY <2>1, <3>3, <3>5
    <3>6. QED
      BY <3>4, <3>5
  <2>4. QED
    BY <2>2, <2>3
<1>4. QED
  BY <1>3 DEF Faithful

\* The engine's session is over, and its channel with it.
LEMMA EndedFaithful ==
    ASSUME Typed, Agreed, Faithful, EndSession(TRUE),
           UNCHANGED <<coord, recorder, origin, spent>>
    PROVE  Faithful'
<1>1. \A s \in Session : /\ channels'[s].payloads = channels[s].payloads
                         /\ Healthy(channels'[s]) => Healthy(channels[s])
                         /\ s = session => ~Healthy(channels'[s])
  BY EndSessionFacts
<1>2. ASSUME coord.recording
      PROVE  MyChannel'.payloads = MyChannel.payloads /\ ~Healthy(MyChannel')
  BY <1>1, <1>2, MySession DEF MyChannel
<1>3. QED
  BY <1>2 DEF Faithful

\* Nothing happens to the channel, and the engine's session is not its own or
\* the keys are as they were.
LEMMA SameFaithful ==
    ASSUME Typed, Agreed, Faithful, UNCHANGED <<channels, recorder, origin, spent>>,
           coord'.recording = coord.recording, coord'.session = coord.session,
           fail_open \/ UNCHANGED <<pressed, alone>>
    PROVE  Faithful'
<1>1. MyChannel' = MyChannel
  BY DEF MyChannel
<1>2. coord.recording /\ fail_open => ~Healthy(MyChannel)
  BY MySession
<1>3. QED
  BY <1>1, <1>2 DEF Faithful

LEMMA KeyDownFaithful ==
    ASSUME SidesAreKnown, Typed, Agreed, Settled, Faithful, Typed',
           NEW k \in Key, NEW vk \in Idents[k], KeyDown(k, vk)
    PROVE  Faithful'
<1>1. /\ IF fail_open THEN UNCHANGED istate ELSE HandleDown(vk)
      /\ alone' = IF hold[k] = vk THEN alone
                  ELSE IF \E j \in Key \ {k} : hold[j] # NoVK THEN {} ELSE {vk}
      /\ IF fail_open THEN UNCHANGED channels ELSE PublishEvent(vk, TRUE)
      /\ UNCHANGED <<session, coord, recorder, origin, spent>>
  BY DEF KeyDown, EventUnchanged, attempt
<1>2. CASE fail_open
  BY <1>1, <1>2, SameFaithful
<1>3. CASE ~fail_open
  <2>1. /\ vk \in VK /\ vk # NoVK /\ hold[k] \in {NoVK, vk}
        /\ \A j \in Key : j # k => hold[j] # vk
    BY OneName DEF Settled
  <2>2. pressed' = pressed \cup {vk} /\ pressed = SeenDown
    BY <1>1, <1>3, <2>1, DownFacts DEF Typed, Settled, InSync
  <2>3. /\ vk \in pressed <=> hold[k] = vk
        /\ hold[k] = NoVK => (pressed = {} <=> ~\E j \in Key \ {k} : hold[j] # NoVK)
    BY <2>1, <2>2 DEF SeenDown
  <2>4. alone' = AloneDown(alone, pressed, vk)
    BY <1>1, <2>1, <2>3 DEF AloneDown
  <2>5. Follows([vk |-> vk, is_keydown |-> TRUE, pressed |-> pressed', alone |-> alone'],
                pressed, alone)
    BY <2>2, <2>4 DEF Follows, PressedAfter, AloneAfter
  <2>6. pressed' \in SUBSET VK /\ alone' \in SUBSET VK
    BY DEF Typed, IInv, TypeOK
  <2>7. QED
    BY <1>1, <1>3, <2>1, <2>5, <2>6, PublishedFaithful
<1>4. QED
  BY <1>2, <1>3

LEMMA KeyUpFaithful ==
    ASSUME SidesAreKnown, Typed, Agreed, Settled, Faithful, Typed',
           NEW k \in Key, NEW vk \in Idents[k], KeyUp(k, vk)
    PROVE  Faithful'
<1>1. /\ UNCHANGED <<coord, recorder, origin, spent>> /\ vk \in VK
      /\ ~fail_open => vk \in pressed /\ HandleUp(vk)
  BY KeyUpSettled, RecordingAssumption DEF KeyUp, attempt
<1>2. CASE fail_open
  BY <1>1, <1>2, SameFaithful DEF KeyUp
<1>3. CASE ~fail_open
  <2>1. ~HandleUpUnpaired(vk)
    BY <1>1, <1>3, OwnRelease DEF HandleUpUnpaired
  <2>2. UNCHANGED <<session, alone>> /\ PublishEvent(vk, FALSE)
    BY <1>3, <2>1 DEF KeyUp
  <2>3. pressed' = pressed \ {vk}
    BY <1>1, <1>3, UpFacts DEF Typed
  <2>4. Follows([vk |-> vk, is_keydown |-> FALSE, pressed |-> pressed', alone |-> alone'],
                pressed, alone)
    BY <2>2, <2>3 DEF Follows, PressedAfter, AloneAfter
  <2>5. pressed' \in SUBSET VK /\ alone' \in SUBSET VK
    BY DEF Typed, IInv, TypeOK
  <2>6. QED
    BY <1>1, <2>2, <2>4, <2>5, PublishedFaithful
<1>4. QED
  BY <1>2, <1>3

LEMMA BeginFaithful ==
    ASSUME Typed, Agreed, Faithful, BeginRecording
    PROVE  Faithful'
<1>1. /\ recorder' = NewRecorder(pressed) /\ spent' = (pressed # {})
      /\ begun < MaxSessions /\ UNCHANGED <<channels, pressed, alone>>
      /\ coord' = [coord EXCEPT !.recording = TRUE, !.session = begun + 1,
                                !.candidate = NoShortcut]
  BY DEF BeginRecording, MainUnchanged, EnterRecording, held
<1>2. begun + 1 \in Session /\ begun + 1 > begun
  BY <1>1, RecordingAssumption DEF Typed, Session
<1>3. coord'.session = begun + 1
  BY <1>1 DEF Typed, Coord
<1>4. MyChannel' = NewChannel
  BY <1>1, <1>2, <1>3 DEF MyChannel, Agreed
<1>5. MyChannel'.payloads = <<>>
  BY <1>4 DEF NewChannel
<1>6. /\ RecorderOK(recorder', spent') /\ recorder'.candidate = NoShortcut
      /\ recorder'.held = pressed' /\ ~Tapping(recorder')
  BY <1>1, NewRecorderOK DEF Typed, IInv, TypeOK
<1>7. InLine(MyChannel'.payloads, recorder')
  BY <1>5 DEF InLine
<1>8. LastIs(MyChannel'.payloads, recorder', pressed', alone')
  BY <1>5, <1>6 DEF LastIs, OnTap
<1>9. spent' \in BOOLEAN
  BY <1>1
<1>10. QED
  BY <1>6, <1>7, <1>8, <1>9 DEF Faithful

LEMMA ClearFaithful ==
    ASSUME Typed, DropRecorder, NEW c,
           coord' = Cleared \/ coord' = [Cleared EXCEPT !.candidate = c]
    PROVE  Faithful'
<1>1. Cleared \in Coord /\ ~Cleared.recording
  BY ClearedType DEF Typed
<1>2. ~coord'.recording
  BY <1>1 DEF Coord
<1>3. recorder' = NewRecorder({}) /\ spent' = FALSE
  BY DEF DropRecorder
<1>4. {} \in SUBSET VK /\ ({} # {}) = FALSE
  OBVIOUS
<1>5. RecorderOK(recorder', FALSE) /\ recorder'.candidate = NoShortcut
  BY <1>3, <1>4, NewRecorderOK
<1>6. QED
  BY <1>2, <1>3, <1>5 DEF Faithful

LEMMA DrainFaithful ==
    ASSUME Typed, Agreed, Faithful, Drain
    PROVE  Faithful'
<1> DEFINE p == MyChannel.payloads
<1> DEFINE e == p[1]
<1>1. coord.recording /\ coord.session \in Session
  BY MySession DEF Drain, Agreed
<1>2. p \in Seq(Event) /\ p # <<>> /\ MyChannel \in Channel
  BY <1>1 DEF Drain, Typed, ChannelsOK, MyChannel, Channel
<1>3. e \in Event /\ Head(p) = e
  BY <1>2
<1>4. /\ recorder' = Consume(recorder, e.vk, e.is_keydown)
      /\ origin' = IF recorder'.candidate = recorder.candidate THEN origin ELSE e
      /\ spent' = (e.pressed # {} /\ (spent \/ recorder'.invalid))
      /\ channels' = [channels EXCEPT ![coord.session].payloads = Tail(@)]
      /\ coord' = [coord EXCEPT !.taken = @ + 1]
      /\ UNCHANGED hookside
  BY <1>3 DEF Drain
<1>5. coord'.recording /\ coord'.session = coord.session
  BY <1>1, <1>4 DEF Typed, Coord
<1>6. MyChannel' = [MyChannel EXCEPT !.payloads = Tail(p)]
  BY <1>1, <1>4, <1>5 DEF MyChannel, Typed, ChannelsOK
<1>7. MyChannel'.payloads = Tail(p) /\ (Healthy(MyChannel') <=> Healthy(MyChannel))
  BY <1>2, <1>6 DEF Channel, Healthy
<1>8. /\ InLine(p, recorder)
      /\ Healthy(MyChannel) => LastIs(p, recorder, pressed, alone)
      /\ RecorderOK(recorder, spent) /\ spent \in BOOLEAN
  BY <1>1 DEF Faithful
<1>9. PICK a : Follows(e, recorder.held, a) /\ OnTap(recorder, a)
  BY <1>2, <1>8 DEF InLine
<1> HIDE DEF p, e
<1>10. /\ RecorderOK(recorder', spent')
       /\ recorder'.held = e.pressed
       /\ OnTap(recorder', e.alone)
       /\ recorder'.candidate # NoShortcut =>
             recorder'.candidate = recorder.candidate \/ CapturedBy(recorder'.candidate, e)
  <2> DEFINE q == Consume(recorder, e.vk, e.is_keydown)
  <2>1. recorder \in Recorder /\ (Tapping(recorder) => a = {recorder.tap.modifier_vk})
    BY <1>9 DEF Typed, OnTap
  <2>2. /\ RecorderOK(q, e.pressed # {} /\ (spent \/ q.invalid))
        /\ q.held = e.pressed
        /\ OnTap(q, e.alone)
        /\ q.candidate # NoShortcut =>
              q.candidate = recorder.candidate \/ CapturedBy(q.candidate, e)
    BY <1>3, <1>8, <1>9, <2>1, ConsumeOK
  <2> HIDE DEF q
  <2>3. recorder' = q /\ spent' = (e.pressed # {} /\ (spent \/ q.invalid))
    BY <1>4 DEF q
  <2>4. QED
    BY <2>2, <2>3
<1>11. recorder'.candidate # NoShortcut => CapturedBy(recorder'.candidate, origin')
  BY <1>4, <1>10 DEF Faithful
<1>12. /\ InLine(Tail(p), recorder')
       /\ LastIs(p, recorder, pressed, alone) => LastIs(Tail(p), recorder', pressed, alone)
  BY <1>2, <1>8, <1>10, TailInLine DEF e
<1>13. pressed' = pressed /\ alone' = alone
  BY <1>4 DEF hookside, istate
<1>14. spent' \in BOOLEAN
  BY <1>4
<1>15. QED
  BY <1>5, <1>7, <1>8, <1>10, <1>11, <1>12, <1>13, <1>14 DEF Faithful

LEMMA FaithfulStep ==
    ASSUME SidesAreKnown, Typed, Agreed, Settled, Faithful, [RNext]_rvars
    PROVE  Faithful'
<1>1. Typed'
  BY TypedStep
<1>2. CASE UNCHANGED rvars
  BY <1>2, SameFaithful DEF rvars, hookside, istate, attempt
<1>3. ASSUME NEW k \in Key, NEW vk \in Idents[k], KeyDown(k, vk) \/ KeyUp(k, vk)
      PROVE  Faithful'
  BY <1>1, <1>3, KeyDownFaithful, KeyUpFaithful
<1>4. CASE \/ HookFailsOpen
           \/ \E value \in BOOLEAN : LockCommand(value)
           \/ \E pair \in ShortcutPairs : ReplaceCommand(pair)
  BY <1>4, EndedFaithful DEF HookFailsOpen, LockCommand, ReplaceCommand, attempt
<1>5. CASE EndRecording \/ GiveUp \/ Finish
  <2>1. DropRecorder /\ \E c : coord' = Cleared \/ coord' = [Cleared EXCEPT !.candidate = c]
    BY <1>5 DEF EndRecording, GiveUp, Finish
  <2>2. QED
    BY <2>1, ClearFaithful
<1>6. CASE (PollBegins \/ Drained \/ Decide) /\ ~GiveUp
  <2>1. UNCHANGED <<hookside, channels, attempt>>
    BY <1>6 DEF PollBegins, Drained, Decide
  <2>2. coord'.recording = coord.recording /\ coord'.session = coord.session
    BY <1>6 DEF PollBegins, Drained, Decide, Typed, Coord
  <2>3. QED
    BY <2>1, <2>2, SameFaithful DEF hookside, istate, attempt
<1>7. QED
  BY <1>2, <1>3, <1>4, <1>5, <1>6, BeginFaithful, DrainFaithful DEF RNext, PollStep

\* What the recorder captures is what was pressed: its chord matches the very
\* press that completed it, its tap was a modifier down by itself, and neither
\* used a key that was down when the session began or since a rejected attempt.
\* For every keyboard that names its sides, every capacity and poll limit.
THEOREM CapturedCorrect == SidesAreKnown => (RSpec => []CapturedIsPressed)
<1> SUFFICES ASSUME SidesAreKnown PROVE RSpec => []CapturedIsPressed
  OBVIOUS
<1>1. (Typed /\ Agreed /\ Settled /\ Faithful) /\ [RNext]_rvars =>
        (Typed /\ Agreed /\ Settled /\ Faithful)'
  BY TypedStep, SettledStep, FaithfulStep
<1>2. Faithful => CapturedIsPressed
  BY DEF Faithful, RecorderOK, CapturedBy, CapturedIsPressed, CapturedWouldMatch,
     CapturedTapWasAlone, RetryOnlyAfterRelease
<1>3. QED
  BY <1>1, <1>2, InitTyped, InitSettled, InitFaithful, PTL DEF RSpec

=============================================================================
