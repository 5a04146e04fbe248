------------------------------ MODULE SttService ------------------------------
(***************************************************************************)
(* The speech-to-text service: one task handles the audio events of every  *)
(* session, buffers audio until a session with the provider (Deepgram) is  *)
(* established, and sends it on; another polls the transcriptions that     *)
(* came back, every 100 ms, and publishes them.  A session with the        *)
(* provider is a WebSocket with a task that writes and one that reads it.  *)
(*                                                                         *)
(* Events come from an EventQueue, and all that is used of it is what that *)
(* module shows: one event at a time, each at most MaxDeliver times, first *)
(* attempts in the order of the stream, any event again later.  A crash    *)
(* empties everything here: what follows it begins in Init.                *)
(*                                                                         *)
(* A definition A_B is A with the bug B.  No specification uses it; the    *)
(* project file names the property that fails when it replaces A.          *)
(***************************************************************************)
EXTENDS Naturals, Sequences, Functions

CONSTANTS
  Session,     \* session ids; each is a UUID, as the transport makes them
  NoSession,
  MaxDeliver,  \* max_deliver of the consumer
  MaxEvents,   \* bound: events published
  MaxTexts     \* bound: transcriptions that come back

ASSUME SttAssumption ==
  NoSession \notin Session /\ MaxDeliver \in Nat \ {0} /\ {MaxEvents, MaxTexts} \subseteq Nat

VARIABLES
  log,       \* events published [session, kind]; an audio chunk is named by its place
  attempts,  \* how often each was handed to handle_audio_event
  states,    \* session_states of the service
  sessions,  \* sessions of the connector, and how the WebSocket of each is
  texts,     \* transcriptions that wait in each transcription_rx: silence or not
  pc,        \* where handle_audio_event is
  cur,       \* the event it handles, or 0
  poller,    \* where poll_transcriptions is
  left,      \* sessions its scan has yet to visit
  locked,    \* the session whose lock it holds, or NoSession
  spoken,    \* how many transcriptions have come back
  heard,     \* history: chunks given to the write task of each session, in order
  dropped,   \* history: chunks a flush failed to send, or buffered at the end
  handled,   \* history: events whose handler returned Ok
  last       \* history: the last event of each session that was begun, or 0

inputVars == <<log, attempts, last>>
sessionVars == <<states, sessions>>
pollerVars == <<poller, left, locked>>
audioVars == <<heard, dropped>>
vars == <<inputVars, sessionVars, texts, pc, cur, pollerVars, spoken, audioVars, handled>>

Kinds == {"start", "media", "other", "end"}
Chunk == 1 .. MaxEvents

\* SessionState; sample rate and channels come and go with the format.
State == [established : BOOLEAN, format : BOOLEAN, buffer : Seq(Chunk)]
NewState == [established |-> FALSE, format |-> FALSE, buffer |-> <<>>]
NoState == <<>>

\* "broken": nobody has noticed.  "mute": the write task has ended.
Connections == {"none", "up", "broken", "mute"}

InputOK ==
  /\ log \in Seq([session : Session, kind : Kinds]) /\ Len(log) <= MaxEvents
  /\ attempts \in Seq(0 .. MaxDeliver) /\ Len(attempts) = Len(log)
  /\ last \in [Session -> 0 .. MaxEvents]

SessionOK ==
  /\ states \in [Session -> State \cup {NoState}]
  /\ sessions \in [Session -> Connections]
  /\ texts \in [Session -> Seq(BOOLEAN)] /\ spoken \in 0 .. MaxTexts

HandlerOK ==
  /\ pc \in {"idle", "send", "connect", "insert", "flush", "close"}
  /\ cur \in 0 .. Len(log) /\ (cur = 0 <=> pc = "idle")

PollerOK ==
  /\ poller \in {"asleep", "scan", "publish"}
  /\ left \subseteq Session /\ locked \in Session \cup {NoSession}

AudioOK ==
  /\ heard \in [Session -> Seq(Chunk)]
  /\ dropped \subseteq Chunk /\ handled \subseteq Chunk

TypeOK == InputOK /\ SessionOK /\ HandlerOK /\ PollerOK /\ AudioOK

Init ==
  /\ log = <<>> /\ attempts = <<>>
  /\ states = [s \in Session |-> NoState]
  /\ sessions = [s \in Session |-> "none"]
  /\ texts = [s \in Session |-> <<>>] /\ spoken = 0
  /\ pc = "idle" /\ cur = 0
  /\ poller = "asleep" /\ left = {} /\ locked = NoSession
  /\ heard = [s \in Session |-> <<>>] /\ dropped = {}
  /\ handled = {} /\ last = [s \in Session |-> 0]

-----------------------------------------------------------------------------

\* The session of the event at hand.
Of == log[cur].session

\* get_or_create_session_state.
StateOf(s) == IF states[s] = NoState THEN NewState ELSE states[s]

\* What is in the buffer of a session.
Buffered(s) == Range(StateOf(s).buffer)

\* handle_audio_event returns: Ok is acked; after Err, as after an ack that gets
\* lost, the event may come again.
ReturnOk(i) ==
  /\ pc' = "idle" /\ cur' = 0
  /\ handled' = handled \cup {i}

ReturnErr == pc' = "idle" /\ cur' = 0 /\ UNCHANGED handled

Await(i, l) == pc' = l /\ cur' = i /\ UNCHANGED handled

\* send_audio has the session's lock, which the poller may hold over a publication.
SendTo(s, chunk) ==
  /\ locked # s
  /\ \/ sessions[s] \in {"up", "broken"} /\ heard' = [heard EXCEPT ![s] = Append(@, chunk)]
     \/ sessions[s] \in {"none", "mute"} /\ UNCHANGED heard

Sent(s) == sessions[s] \in {"up", "broken"}

-----------------------------------------------------------------------------
(* Steps with a bug. *)

\* A failed connection clears the buffer.
ConnectFails_Clears ==
  /\ pc = "connect"
  /\ states' = [states EXCEPT ![Of].buffer = <<>>]
  /\ IF log[cur].kind = "media" THEN ReturnOk(cur) ELSE ReturnErr
  /\ UNCHANGED <<inputVars, sessions, texts, pollerVars, spoken, audioVars>>

\* The buffer is popped from its end.
Flush_NewestFirst ==
  /\ pc = "flush"
  /\ LET buffer == states[Of].buffer
         n == Len(buffer)
     IN  IF buffer = <<>>
         THEN ReturnOk(cur) /\ UNCHANGED <<states, audioVars>>
         ELSE /\ SendTo(Of, buffer[n])
              /\ dropped' = IF Sent(Of) THEN dropped ELSE dropped \cup {buffer[n]}
              /\ states' = [states EXCEPT ![Of].buffer = SubSeq(buffer, 1, n - 1)]
              /\ Await(cur, "flush")
  /\ UNCHANGED <<inputVars, sessions, texts, pollerVars, spoken>>

\* The state of an ended session is kept.
Close_KeepsState ==
  /\ pc = "close"
  /\ poller = "asleep"
  /\ sessions' = [sessions EXCEPT ![Of] = "none"]
  /\ texts' = [texts EXCEPT ![Of] = <<>>]
  /\ ReturnOk(cur)
  /\ UNCHANGED <<inputVars, states, pollerVars, spoken, audioVars>>

\* A session the connector does not have fails the handler, state and all.
Close_NeedsConnection ==
  /\ pc = "close"
  /\ poller = "asleep"
  /\ IF sessions[Of] = "none"
     THEN ReturnErr /\ UNCHANGED <<sessionVars, texts, dropped>>
     ELSE /\ sessions' = [sessions EXCEPT ![Of] = "none"]
          /\ texts' = [texts EXCEPT ![Of] = <<>>]
          /\ dropped' = dropped \cup Buffered(Of)
          /\ states' = [states EXCEPT ![Of] = NoState]
          /\ ReturnOk(cur)
  /\ UNCHANGED <<inputVars, pollerVars, spoken, heard>>

\* Silence is looked at and stays in the channel.
PollText_Peeks ==
  /\ poller = "scan" /\ locked # NoSession
  /\ texts[locked] # <<>>
  /\ IF Head(texts[locked])
     THEN poller' = "publish" /\ texts' = [texts EXCEPT ![locked] = Tail(@)]
     ELSE UNCHANGED <<poller, texts>>
  /\ UNCHANGED <<inputVars, sessionVars, pc, cur, left, locked, spoken, audioVars, handled>>

-----------------------------------------------------------------------------
(* The event task. *)

\* The next event of the stream, or an earlier one again.
Take(i) ==
  /\ pc = "idle"
  /\ attempts[i] < MaxDeliver
  /\ attempts[i] = 0 => \A j \in DOMAIN log : j > i => attempts[j] = 0
  /\ attempts' = [attempts EXCEPT ![i] = @ + 1]
  /\ last' = [last EXCEPT ![log[i].session] = i]
  /\ UNCHANGED log

\* A payload that cannot be decoded; or an event of a type unknown here, acked.
HandleOther(i) ==
  /\ log[i].kind = "other"
  /\ ReturnErr \/ ReturnOk(i)
  /\ UNCHANGED <<sessionVars, audioVars>>

\* handle_audio_chunk: to the provider, or into the buffer and, unless a format is
\* known, on to establish the session.
HandleAudio(i) ==
  /\ log[i].kind = "media"
  /\ LET s == log[i].session
         st == StateOf(s)
     IN  IF st.established
         THEN Await(i, "send") /\ UNCHANGED states
         ELSE /\ states' = [states EXCEPT ![s] = [st EXCEPT !.buffer = Append(@, i)]]
              /\ IF st.format THEN ReturnOk(i) ELSE Await(i, "connect")
  /\ UNCHANGED <<sessions, audioVars>>

\* handle_session_start: the transport's carries no format, another's may.
\* FormatComesLast shows that the branch for a session that has a format and is
\* not established is never taken.
HandleStart(i) ==
  /\ log[i].kind = "start"
  /\ LET s == log[i].session
         st == StateOf(s)
     IN  /\ states' = [states EXCEPT ![s] = st]
         /\ \/ ReturnOk(i)
            \/ ~st.established /\ Await(i, "connect")
  /\ UNCHANGED <<sessions, audioVars>>

HandleEnd(i) ==
  /\ log[i].kind = "end"
  /\ Await(i, "close")
  /\ UNCHANGED <<sessionVars, audioVars>>

Handle(i) ==
  /\ Take(i)
  /\ HandleOther(i) \/ HandleAudio(i) \/ HandleStart(i) \/ HandleEnd(i)
  /\ UNCHANGED <<texts, pollerVars, spoken>>

\* send_audio_to_session for the chunk at hand.
Send ==
  /\ pc = "send"
  /\ SendTo(Of, cur)
  /\ IF Sent(Of) THEN ReturnOk(cur) ELSE ReturnErr
  /\ UNCHANGED <<inputVars, sessionVars, texts, pollerVars, spoken, dropped>>

\* establish_streaming_session: the format is supported, and the provider answers.
Connect ==
  /\ pc = "connect"
  /\ Await(cur, "insert")
  /\ UNCHANGED <<inputVars, sessionVars, texts, pollerVars, spoken, audioVars>>

\* It fails: an audio chunk stays in the buffer and counts as handled, a start is
\* to come again.
ConnectFails ==
  /\ pc = "connect"
  /\ IF log[cur].kind = "media" THEN ReturnOk(cur) ELSE ReturnErr
  /\ UNCHANGED <<inputVars, sessionVars, texts, pollerVars, spoken, audioVars>>

\* The session enters the connector's map, whose lock a scan shares, and is
\* established; one that was there is replaced.
Insert ==
  /\ pc = "insert"
  /\ poller = "asleep"
  /\ sessions' = [sessions EXCEPT ![Of] = "up"]
  /\ texts' = [texts EXCEPT ![Of] = <<>>]
  /\ states' = [states EXCEPT ![Of] = [StateOf(Of) EXCEPT !.established = TRUE, !.format = TRUE]]
  /\ Await(cur, "flush")
  /\ UNCHANGED <<inputVars, pollerVars, spoken, audioVars>>

\* The buffer follows, chunk by chunk; a chunk that cannot be sent is dropped.
Flush ==
  /\ pc = "flush"
  /\ LET buffer == states[Of].buffer
     IN  IF buffer = <<>>
         THEN ReturnOk(cur) /\ UNCHANGED <<states, audioVars>>
         ELSE /\ SendTo(Of, Head(buffer))
              /\ dropped' = IF Sent(Of) THEN dropped ELSE dropped \cup {Head(buffer)}
              /\ states' = [states EXCEPT ![Of].buffer = Tail(buffer)]
              /\ Await(cur, "flush")
  /\ UNCHANGED <<inputVars, sessions, texts, pollerVars, spoken>>

\* handle_session_end: the connector's session, if there is one, and the state.
Close ==
  /\ pc = "close"
  /\ poller = "asleep"
  /\ sessions' = [sessions EXCEPT ![Of] = "none"]
  /\ texts' = [texts EXCEPT ![Of] = <<>>]
  /\ dropped' = dropped \cup Buffered(Of)
  /\ states' = [states EXCEPT ![Of] = NoState]
  /\ ReturnOk(cur)
  /\ UNCHANGED <<inputVars, pollerVars, spoken, heard>>

-----------------------------------------------------------------------------
(* poll_transcriptions. *)

\* A tick: the map is locked for reading until the scan ends.  (An empty scan does
\* nothing.)
PollBegin ==
  /\ poller = "asleep"
  /\ left' = {s \in Session : sessions[s] # "none"} /\ left' # {}
  /\ poller' = "scan"
  /\ UNCHANGED <<inputVars, sessionVars, texts, pc, cur, locked, spoken, audioVars, handled>>

\* Silence is skipped, anything else published with both locks held.
PollText ==
  /\ poller = "scan" /\ locked # NoSession
  /\ texts[locked] # <<>>
  /\ texts' = [texts EXCEPT ![locked] = Tail(@)]
  /\ poller' = IF Head(texts[locked]) THEN "publish" ELSE "scan"
  /\ UNCHANGED <<inputVars, sessionVars, pc, cur, left, locked, spoken, audioVars, handled>>

\* Published, or lost with a line in the log.
PollPublish ==
  /\ poller = "publish"
  /\ poller' = "scan"
  /\ UNCHANGED <<inputVars, sessionVars, texts, pc, cur, left, locked, spoken, audioVars, handled>>

SessionDone == locked # NoSession => texts[locked] = <<>>

\* The next session is locked, or the scan ends.
PollSession ==
  /\ poller = "scan" /\ SessionDone
  /\ \E s \in left : locked' = s /\ left' = left \ {s}
  /\ UNCHANGED <<inputVars, sessionVars, texts, pc, cur, poller, spoken, audioVars, handled>>

PollEnd ==
  /\ poller = "scan" /\ SessionDone /\ left = {}
  /\ poller' = "asleep" /\ locked' = NoSession
  /\ UNCHANGED <<inputVars, sessionVars, texts, pc, cur, left, spoken, audioVars, handled>>

-----------------------------------------------------------------------------
(* Clients publish; the provider transcribes, and its WebSocket breaks. *)

Publish ==
  /\ Len(log) < MaxEvents
  /\ \E s \in Session, k \in Kinds : log' = Append(log, [session |-> s, kind |-> k])
  /\ attempts' = Append(attempts, 0)
  /\ UNCHANGED <<last, sessionVars, texts, pc, cur, pollerVars, spoken, audioVars, handled>>

\* The read task of a session; an unlocked channel, whatever the poller does.
Transcribe(s) ==
  /\ spoken < MaxTexts
  /\ sessions[s] = "up" /\ heard[s] # <<>>
  /\ spoken' = spoken + 1
  /\ \E isText \in BOOLEAN : texts' = [texts EXCEPT ![s] = Append(@, isText)]
  /\ UNCHANGED <<inputVars, sessionVars, pc, cur, pollerVars, audioVars, handled>>

\* The WebSocket breaks; then the write task meets an error and ends, and the
\* channel to it is closed.
Break(s) ==
  /\ \/ sessions[s] = "up" /\ sessions' = [sessions EXCEPT ![s] = "broken"]
     \/ sessions[s] = "broken" /\ sessions' = [sessions EXCEPT ![s] = "mute"]
  /\ UNCHANGED <<inputVars, states, texts, pc, cur, pollerVars, spoken, audioVars, handled>>

Establish == Connect \/ ConnectFails \/ Insert \/ Flush
Answer == Send \/ Establish \/ Close
Poll == PollBegin \/ PollText \/ PollPublish \/ PollSession \/ PollEnd
Environment == Publish \/ (\E s \in Session : Transcribe(s) \/ Break(s))

Next == (\E i \in DOMAIN log : Handle(i)) \/ Answer \/ Poll \/ Environment

Spec == Init /\ [][Next]_vars

\* Tokio polls both tasks; a connection attempt and a publication end; and its
\* locks are queues, so the event task gets a lock that the poller takes again and
\* again.  Events, and what the provider does, are not owed.
FairSpec == Spec /\ SF_vars(Answer) /\ WF_vars(Poll)

-----------------------------------------------------------------------------

AudioOf(s) == {i \in DOMAIN log : log[i].session = s /\ log[i].kind = "media"}

\* Between two events the two maps agree: a session is established exactly when
\* the connector has it, and then nothing is left in its buffer.  (send_audio of
\* an established session that the connector does not have fails for good.)
EstablishedIsConnected ==
  pc = "idle" =>
    \A s \in Session : LET st == StateOf(s)
                       IN  /\ st.established <=> sessions[s] # "none"
                           /\ st.established => st.buffer = <<>>

\* A session that has a format is established: the branch of handle_session_start
\* that would establish it from the format of buffered audio is dead code.
FormatComesLast == \A s \in Session : StateOf(s).format => StateOf(s).established

\* Audio whose event was acked is in the buffer or was sent, unless a flush failed
\* to send it or the session ended first: a failed connection loses none.
AckedAudioIsKept ==
  \A s \in Session : \A i \in AudioOf(s) \cap handled :
    i \in Buffered(s) \cup dropped \cup Range(heard[s])

\* As long as no event comes again, a provider hears a session's audio in the
\* order of the stream and each chunk once, buffered or not, over any number of
\* connections.
AudioInOrder ==
  (\A i \in DOMAIN attempts : attempts[i] <= 1) =>
    \A s \in Session : \A j, k \in DOMAIN heard[s] : j < k => heard[s][j] < heard[s][k]

\* After session_end nothing is left of a session, connected or not, until another
\* event of it is begun: one that comes again starts it anew, and nobody ends it.
EndLeavesNothing ==
  \A s \in Session :
    /\ pc = "idle" /\ last[s] # 0 /\ log[last[s]].kind = "end"
    => states[s] = NoState /\ sessions[s] = "none"

\* The event task never waits for ever on a lock, though the poller takes the same
\* locks again and again.
HandlerReturns == pc # "idle" ~> pc = "idle"

=============================================================================
