------------------------------ MODULE SttProofs ------------------------------
(***************************************************************************)
(* Proofs about SttService, for every set of sessions and every bound: its *)
(* type invariant, that the maps of the service and of the connector       *)
(* agree, that a session with a format is established, that acked audio is *)
(* kept and sent in order, and that session_end leaves nothing behind.     *)
(***************************************************************************)
EXTENDS SttService, SequenceTheorems, TLAPS

\* A record is not the empty sequence.
LEMMA StateIsState == \A r \in State : r # NoState
<1> SUFFICES ASSUME NEW r \in State PROVE r # NoState
  OBVIOUS
<1>1. DOMAIN r = {"established", "format", "buffer"}
  BY DEF State
<1>2. DOMAIN NoState = {}
  BY DEF NoState
<1> QED
  BY <1>1, <1>2

\* get_or_create_session_state gives a session state.
LEMMA SomeState ==
  ASSUME NEW s \in Session, states[s] \in State \cup {NoState}
  PROVE  StateOf(s) \in State
  BY EmptySeq DEF StateOf, State, NewState

\* Appending adds one element to the range.
LEMMA RangeOfAppend ==
  ASSUME NEW S, NEW q \in Seq(S), NEW x \in S
  PROVE  Range(Append(q, x)) = Range(q) \cup {x}
<1>1. /\ DOMAIN q = 1 .. Len(q) /\ Len(q) \in Nat
      /\ DOMAIN Append(q, x) = 1 .. Len(q) + 1
  BY LenProperties, AppendProperties
<1>2. /\ \A i \in 1 .. Len(q) : Append(q, x)[i] = q[i]
      /\ Append(q, x)[Len(q) + 1] = x
  BY AppendProperties
<1> QED
  BY <1>1, <1>2 DEF Range

\* A sequence that is not empty holds its head and what its tail holds.
LEMMA RangeOfTail ==
  ASSUME NEW S, NEW q \in Seq(S), q # <<>>
  PROVE  Range(q) = Range(Tail(q)) \cup {Head(q)}
<1>1. /\ DOMAIN q = 1 .. Len(q) /\ Len(q) \in Nat /\ Len(q) # 0
      /\ DOMAIN Tail(q) = 1 .. Len(q) - 1
  BY LenProperties, HeadTailProperties, EmptySeq
<1>2. /\ \A i \in 1 .. Len(q) - 1 : Tail(q)[i] = q[i + 1]
      /\ Head(q) = q[1]
  BY HeadTailProperties
<1>3. Range(q) \subseteq Range(Tail(q)) \cup {Head(q)}
  <2> SUFFICES ASSUME NEW i \in 1 .. Len(q) PROVE q[i] \in Range(Tail(q)) \cup {Head(q)}
    BY <1>1 DEF Range
  <2>1. CASE i = 1
    BY <2>1, <1>2
  <2>2. CASE i # 1
    <3>1. i - 1 \in 1 .. Len(q) - 1 /\ q[i] = Tail(q)[i - 1]
      BY <2>2, <1>1, <1>2
    <3> QED
      BY <3>1, <1>1 DEF Range
  <2> QED
    BY <2>1, <2>2
<1>4. Range(Tail(q)) \cup {Head(q)} \subseteq Range(q)
  BY <1>1, <1>2 DEF Range
<1> QED
  BY <1>3, <1>4

-----------------------------------------------------------------------------
(* The invariant. *)

\* Established means connected, and means that there is a format.
EstablishedOK ==
  \A s \in Session :
    /\ StateOf(s).established <=> sessions[s] # "none"
    /\ StateOf(s).format => StateOf(s).established

\* Only a flush finds audio in the buffer of an established session.
BufferOK ==
  \A s \in Session :
    StateOf(s).established /\ StateOf(s).buffer # <<>> => pc = "flush" /\ s = Of

InFlush == pc = "flush" => StateOf(Of).established

MapsAgree == EstablishedOK /\ BufferOK /\ InFlush

\* Where the audio of a session is, or why it is nowhere.
Kept(s) == Buffered(s) \cup dropped \cup Range(heard[s])

\* An event that was acked, or whose handler is past the point where it buffers audio.
TakenOver(i) == i \in handled \/ (i = cur /\ pc \in {"connect", "insert", "flush", "close"})

\* An ended session has left nothing behind, unless the handler is about to end it:
\* what it handles is the last event of that session.
Ended(s) == last[s] # 0 /\ log[last[s]].kind = "end"

LastOK ==
  /\ \A s \in Session : last[s] # 0 => last[s] \in DOMAIN log
  /\ pc # "idle" => cur = last[Of] /\ (pc = "close" <=> log[cur].kind = "end")

EndOK ==
  \A s \in Session : Ended(s) /\ ~(pc = "close" /\ s = Of) =>
    states[s] = NoState /\ sessions[s] = "none"

AudioKept ==
  /\ handled \subseteq DOMAIN log
  /\ \A s \in Session : \A i \in AudioOf(s) : TakenOver(i) => i \in Kept(s)


-----------------------------------------------------------------------------

\* What is known of an event of the log.
LEMMA EventAt ==
  ASSUME InputOK, NEW i \in DOMAIN log
  PROVE  /\ i \in 1 .. Len(log) /\ i \in Chunk /\ i # 0
         /\ log[i] \in [session : Session, kind : Kinds] /\ log[i].session \in Session
         /\ i \in DOMAIN attempts /\ attempts[i] \in 0 .. MaxDeliver
<1>1. /\ DOMAIN log = 1 .. Len(log) /\ Len(log) \in Nat
      /\ DOMAIN attempts = 1 .. Len(log)
  BY LenProperties DEF InputOK
<1>2. i \in 1 .. Len(log) /\ i \in Chunk /\ i # 0
  BY <1>1, SttAssumption DEF InputOK, Chunk
<1>3. log[i] \in [session : Session, kind : Kinds] /\ attempts[i] \in 0 .. MaxDeliver
  BY <1>1, ElementOfSeq DEF InputOK
<1> QED
  BY <1>1, <1>2, <1>3

\* A handler at work has an event of the log at hand.
LEMMA CurrentEvent ==
  ASSUME InputOK, HandlerOK, pc # "idle"
  PROVE  cur \in DOMAIN log /\ cur \in Chunk /\ Of \in Session
<1>1. cur \in DOMAIN log
  BY LenProperties DEF InputOK, HandlerOK
<1> QED
  BY <1>1, EventAt DEF Of

\* Taking an event leaves the input well-typed.
LEMMA TakeInput ==
  ASSUME InputOK, NEW i \in DOMAIN log, Take(i)
  PROVE  InputOK'
<1>1. attempts[i] + 1 \in 0 .. MaxDeliver /\ i \in 1 .. Len(attempts)
  BY EventAt, SttAssumption DEF Take, InputOK
<1>2. attempts' \in Seq(0 .. MaxDeliver) /\ Len(attempts') = Len(attempts)
  BY <1>1, ExceptSeq DEF Take, InputOK
<1>3. last' \in [Session -> 0 .. MaxEvents]
  BY EventAt DEF Take, InputOK, Chunk
<1> QED
  BY <1>2, <1>3 DEF Take, InputOK

\* However a handler goes on, it and the handled events stay well-typed.
LEMMA ReturnTypes ==
  ASSUME InputOK, HandlerOK, AudioOK, UNCHANGED log, NEW i \in DOMAIN log,
         \/ ReturnOk(i) \/ ReturnErr
         \/ \E l \in {"send", "connect", "insert", "flush", "close"} : Await(i, l)
  PROVE  HandlerOK' /\ handled' \subseteq Chunk
<1>1. i \in 1 .. Len(log) /\ i \in Chunk /\ i # 0
  BY EventAt
<1>2. Len(log) \in Nat
  BY LenProperties DEF InputOK
<1> QED
  BY <1>1, <1>2 DEF ReturnOk, ReturnErr, Await, HandlerOK, AudioOK

\* Sending a chunk gives it to a session.
LEMMA SendTypes ==
  ASSUME AudioOK, SessionOK, NEW s \in Session, NEW c \in Chunk, SendTo(s, c)
  PROVE  heard' \in [Session -> Seq(Chunk)]
<1>1. Append(heard[s], c) \in Seq(Chunk)
  BY AppendProperties DEF AudioOK
<1> QED
  BY <1>1 DEF SendTo, AudioOK

\* Buffering a chunk gives a session state.
LEMMA BufferedStates ==
  ASSUME SessionOK, NEW s \in Session, NEW c \in Chunk
  PROVE  [StateOf(s) EXCEPT !.buffer = Append(@, c)] \in State
<1>1. StateOf(s) \in State
  BY SomeState DEF SessionOK
<1>2. Append(StateOf(s).buffer, c) \in Seq(Chunk)
  BY <1>1, AppendProperties DEF State
<1> QED
  BY <1>1, <1>2 DEF State

\* The initial state is well-typed.
LEMMA InitOK ==
  ASSUME Init
  PROVE  TypeOK
<1>1. InputOK
  BY EmptySeq, SttAssumption DEF Init, InputOK
<1>2. SessionOK
  BY EmptySeq, SttAssumption DEF Init, SessionOK, Connections
<1>3. HandlerOK
  BY EmptySeq DEF Init, HandlerOK
<1>4. PollerOK /\ AudioOK
  BY EmptySeq DEF Init, PollerOK, AudioOK
<1> QED
  BY <1>1, <1>2, <1>3, <1>4 DEF TypeOK

\* Every step keeps the types; a flush needs its session to be established.
LEMMA TypeStep ==
  ASSUME TypeOK, InFlush, [Next]_vars
  PROVE  TypeOK'
<1>0. InputOK /\ SessionOK /\ HandlerOK /\ PollerOK /\ AudioOK
  BY DEF TypeOK
<1> USE DEF inputVars, sessionVars, pollerVars, audioVars
<1>1. ASSUME NEW i \in DOMAIN log, Handle(i) PROVE TypeOK'
  <2>1. InputOK' /\ UNCHANGED log
    BY <1>0, <1>1, TakeInput DEF Handle, Take
  <2>2. i \in Chunk /\ log[i].session \in Session
    BY <1>0, EventAt
  <2>3. PollerOK' /\ UNCHANGED <<texts, spoken, sessions, heard, dropped>>
    BY <1>0, <1>1 DEF Handle, HandleOther, HandleAudio, HandleStart, HandleEnd, PollerOK
  <2>4. \/ ReturnOk(i) \/ ReturnErr
        \/ \E l \in {"send", "connect", "insert", "flush", "close"} : Await(i, l)
    BY <1>1 DEF Handle, HandleOther, HandleAudio, HandleStart, HandleEnd
  <2>5. HandlerOK' /\ handled' \subseteq Chunk
    BY <1>0, <2>1, <2>4, ReturnTypes
  <2>6. AudioOK'
    BY <1>0, <2>3, <2>5 DEF AudioOK
  <2>7. states' \in [Session -> State \cup {NoState}]
    <3>1. CASE HandleAudio(i)
      BY <1>0, <2>2, <3>1, BufferedStates DEF HandleAudio, SessionOK
    <3>2. CASE HandleStart(i)
      BY <1>0, <2>2, <3>2, SomeState DEF HandleStart, SessionOK
    <3>3. CASE HandleOther(i) \/ HandleEnd(i)
      BY <1>0, <3>3 DEF HandleOther, HandleEnd, SessionOK
    <3> QED
      BY <1>1, <3>1, <3>2, <3>3 DEF Handle
  <2>8. SessionOK'
    BY <1>0, <2>3, <2>7 DEF SessionOK
  <2> QED
    BY <2>1, <2>3, <2>5, <2>6, <2>8 DEF TypeOK
<1>2. CASE Answer
  <2>1. pc # "idle"
    BY <1>2 DEF Answer, Establish, Send, Connect, ConnectFails, Insert, Flush, Close
  <2>2. cur \in DOMAIN log /\ cur \in Chunk /\ Of \in Session
    BY <1>0, <2>1, CurrentEvent
  <2>3. UNCHANGED <<log, attempts, last, poller, left, locked, spoken>>
    BY <1>2 DEF Answer, Establish, Send, Connect, ConnectFails, Insert, Flush, Close
  <2>4. InputOK' /\ PollerOK'
    BY <1>0, <2>3 DEF InputOK, PollerOK
  <2>5. \/ ReturnOk(cur) \/ ReturnErr
        \/ \E l \in {"send", "connect", "insert", "flush", "close"} : Await(cur, l)
    BY <1>2 DEF Answer, Establish, Send, Connect, ConnectFails, Insert, Flush, Close
  <2>6. HandlerOK' /\ handled' \subseteq Chunk
    BY <1>0, <2>2, <2>3, <2>5, ReturnTypes
  <2>7. CASE Send
    <3>1. heard' \in [Session -> Seq(Chunk)]
      BY <1>0, <2>2, <2>7, SendTypes DEF Send
    <3> QED
      BY <1>0, <2>4, <2>6, <2>7, <3>1 DEF Send, SessionOK, AudioOK, TypeOK
  <2>8. CASE Connect \/ ConnectFails
    BY <1>0, <2>4, <2>6, <2>8 DEF Connect, ConnectFails, SessionOK, AudioOK, TypeOK
  <2>9. CASE Insert
    <3>1. [StateOf(Of) EXCEPT !.established = TRUE, !.format = TRUE] \in State
      BY <1>0, <2>2, SomeState DEF SessionOK, State
    <3>2. states' \in [Session -> State \cup {NoState}]
      BY <1>0, <2>2, <2>9, <3>1 DEF Insert, SessionOK
    <3>3. texts' \in [Session -> Seq(BOOLEAN)] /\ sessions' \in [Session -> Connections]
      BY <1>0, <2>2, <2>9, EmptySeq DEF Insert, SessionOK, Connections
    <3> QED
      BY <1>0, <2>3, <2>4, <2>6, <2>9, <3>2, <3>3 DEF Insert, SessionOK, AudioOK, TypeOK
  <2>10. CASE Flush
    <3> DEFINE buffer == states[Of].buffer
    <3>1. CASE buffer = <<>>
      BY <1>0, <2>4, <2>6, <2>10, <3>1 DEF Flush, SessionOK, AudioOK, TypeOK
    <3>2. CASE buffer # <<>>
      <4>1. states[Of] \in State
        BY <1>0, <2>2, <2>10 DEF Flush, SessionOK, InFlush, StateOf, NewState
      <4>2. buffer \in Seq(Chunk) /\ Head(buffer) \in Chunk /\ Tail(buffer) \in Seq(Chunk)
        BY <3>2, <4>1, HeadTailProperties DEF State
      <4>3. /\ SendTo(Of, Head(buffer))
            /\ dropped' \in {dropped, dropped \cup {Head(buffer)}}
            /\ states' = [states EXCEPT ![Of].buffer = Tail(buffer)]
            /\ UNCHANGED <<sessions, texts, spoken>>
        BY <2>10, <3>2 DEF Flush
      <4>4. heard' \in [Session -> Seq(Chunk)]
        BY <1>0, <2>2, <4>2, <4>3, SendTypes
      <4>5. [states[Of] EXCEPT !.buffer = Tail(buffer)] \in State
        BY <4>1, <4>2 DEF State
      <4>6. states' \in [Session -> State \cup {NoState}]
        BY <1>0, <2>2, <4>3, <4>5 DEF SessionOK
      <4> QED
        BY <1>0, <2>4, <2>6, <4>2, <4>3, <4>4, <4>6 DEF SessionOK, AudioOK, TypeOK
    <3> QED
      BY <3>1, <3>2
  <2>11. CASE Close
    <3>1. Buffered(Of) \subseteq Chunk
      <4>1. StateOf(Of) \in State
        BY <1>0, <2>2, SomeState DEF SessionOK
      <4> QED
        BY <4>1, LenProperties DEF Buffered, Range, State
    <3>2. texts' \in [Session -> Seq(BOOLEAN)] /\ sessions' \in [Session -> Connections]
      BY <1>0, <2>2, <2>11, EmptySeq DEF Close, SessionOK, Connections
    <3>3. states' \in [Session -> State \cup {NoState}] /\ dropped' \subseteq Chunk
      BY <1>0, <2>2, <2>11, <3>1 DEF Close, SessionOK, AudioOK
    <3> QED
      BY <1>0, <2>3, <2>4, <2>6, <2>11, <3>2, <3>3 DEF Close, SessionOK, AudioOK, TypeOK
  <2> QED
    BY <1>2, <2>7, <2>8, <2>9, <2>10, <2>11 DEF Answer, Establish
<1>3. CASE Poll
  <2>1. InputOK' /\ HandlerOK' /\ AudioOK'
    BY <1>0, <1>3 DEF Poll, PollBegin, PollText, PollPublish, PollSession, PollEnd,
                      InputOK, HandlerOK, AudioOK
  <2>2. PollerOK'
    BY <1>0, <1>3 DEF Poll, PollBegin, PollText, PollPublish, PollSession, PollEnd, PollerOK
  <2>3. CASE PollText
    <3>1. Tail(texts[locked]) \in Seq(BOOLEAN)
      BY <1>0, <2>3, HeadTailProperties DEF PollText, SessionOK, PollerOK
    <3>2. texts' \in [Session -> Seq(BOOLEAN)]
      BY <1>0, <2>3, <3>1 DEF PollText, SessionOK
    <3> QED
      BY <1>0, <2>1, <2>2, <2>3, <3>2 DEF PollText, SessionOK, TypeOK
  <2>4. CASE ~PollText
    BY <1>0, <1>3, <2>1, <2>2, <2>4
    DEF Poll, PollBegin, PollPublish, PollSession, PollEnd, SessionOK, TypeOK
  <2> QED
    BY <2>3, <2>4
<1>4. CASE Publish
  <2>1. PICK s \in Session, k \in Kinds : log' = Append(log, [session |-> s, kind |-> k])
    BY <1>4 DEF Publish
  <2>2. log' \in Seq([session : Session, kind : Kinds]) /\ Len(log') = Len(log) + 1
    BY <1>0, <2>1, AppendProperties DEF InputOK
  <2>3. attempts' \in Seq(0 .. MaxDeliver) /\ Len(attempts') = Len(attempts) + 1
    BY <1>0, <1>4, AppendProperties, SttAssumption DEF Publish, InputOK
  <2>4. Len(log) \in Nat
    BY <1>0, LenProperties DEF InputOK
  <2>5. InputOK'
    BY <1>0, <1>4, <2>2, <2>3, <2>4, SttAssumption DEF Publish, InputOK
  <2>6. HandlerOK'
    BY <1>0, <1>4, <2>2, <2>4 DEF Publish, HandlerOK
  <2> QED
    BY <1>0, <1>4, <2>5, <2>6 DEF Publish, SessionOK, PollerOK, AudioOK, TypeOK
<1>5. ASSUME NEW s \in Session, Transcribe(s) PROVE TypeOK'
  <2>1. PICK t \in BOOLEAN : texts' = [texts EXCEPT ![s] = Append(@, t)]
    BY <1>5 DEF Transcribe
  <2>2. Append(texts[s], t) \in Seq(BOOLEAN)
    BY <1>0, AppendProperties DEF SessionOK
  <2>3. texts' \in [Session -> Seq(BOOLEAN)]
    BY <1>0, <2>1, <2>2 DEF SessionOK
  <2>4. spoken' \in 0 .. MaxTexts
    BY <1>0, <1>5, SttAssumption DEF Transcribe, SessionOK
  <2> QED
    BY <1>0, <1>5, <2>3, <2>4
    DEF Transcribe, SessionOK, InputOK, HandlerOK, PollerOK, AudioOK, TypeOK
<1>6. ASSUME NEW s \in Session, Break(s) PROVE TypeOK'
  BY <1>0, <1>6 DEF Break, SessionOK, Connections, InputOK, HandlerOK, PollerOK, AudioOK, TypeOK
<1>7. CASE UNCHANGED vars
  BY <1>0, <1>7 DEF vars, SessionOK, InputOK, HandlerOK, PollerOK, AudioOK, TypeOK
<1> QED
  BY <1>1, <1>2, <1>3, <1>4, <1>5, <1>6, <1>7 DEF Next, Environment

-----------------------------------------------------------------------------

\* The update of one session state leaves the others alone.
LEMMA StateAfter ==
  ASSUME SessionOK, NEW s \in Session, NEW r \in State, states' = [states EXCEPT ![s] = r]
  PROVE  StateOf(s)' = r /\ \A t \in Session \ {s} : StateOf(t)' = StateOf(t)
  BY StateIsState DEF StateOf, SessionOK

\* So does its removal.
LEMMA NoStateAfter ==
  ASSUME SessionOK, NEW s \in Session, states' = [states EXCEPT ![s] = NoState]
  PROVE  StateOf(s)' = NewState /\ \A t \in Session \ {s} : StateOf(t)' = StateOf(t)
  BY DEF StateOf, SessionOK

\* Every step keeps the two maps in agreement.
LEMMA MapsStep ==
  ASSUME TypeOK, MapsAgree, [Next]_vars
  PROVE  MapsAgree'
<1>0. /\ InputOK /\ SessionOK /\ HandlerOK /\ PollerOK /\ AudioOK
      /\ EstablishedOK /\ BufferOK /\ InFlush
  BY DEF TypeOK, MapsAgree
<1>a. ASSUME UNCHANGED sessionVars, pc' # "flush", pc # "flush" PROVE MapsAgree'
  BY <1>0, <1>a DEF sessionVars, MapsAgree, EstablishedOK, BufferOK, InFlush, StateOf
<1> USE DEF inputVars, sessionVars, pollerVars, audioVars
<1>1. ASSUME NEW i \in DOMAIN log, Handle(i) PROVE MapsAgree'
  <2>1. PICK s \in Session : s = log[i].session
    BY <1>0, EventAt
  <2>1a. i \in Chunk /\ StateOf(s) \in State
    BY <1>0, EventAt, SomeState DEF SessionOK
  <2>2. pc = "idle" /\ pc' # "flush" /\ UNCHANGED sessions
    BY <1>1 DEF Handle, Take, HandleOther, HandleAudio, HandleStart, HandleEnd,
                ReturnOk, ReturnErr, Await
  <2>3. CASE UNCHANGED states
    BY <2>2, <2>3, <1>a
  <2>4. CASE HandleAudio(i) /\ ~UNCHANGED states
    <3> DEFINE r == [StateOf(s) EXCEPT !.buffer = Append(@, i)]
    <3>1. states' = [states EXCEPT ![s] = r] /\ ~StateOf(s).established
      BY <2>1, <2>4 DEF HandleAudio
    <3>2. r \in State
      BY <1>0, <2>1a, BufferedStates
    <3>3. StateOf(s)' = r /\ \A t \in Session \ {s} : StateOf(t)' = StateOf(t)
      BY <1>0, <3>1, <3>2, StateAfter
    <3>4. ~r.established /\ r.format = StateOf(s).format
      BY <2>1a, <3>1 DEF State
    <3> QED
      BY <1>0, <2>2, <3>1, <3>3, <3>4 DEF MapsAgree, EstablishedOK, BufferOK, InFlush
  <2>5. CASE HandleStart(i)
    <3>1. states' = [states EXCEPT ![s] = StateOf(s)]
      BY <2>1, <2>5 DEF HandleStart
    <3>2. \A t \in Session : StateOf(t)' = StateOf(t)
      BY <1>0, <2>1a, <3>1, StateAfter
    <3> QED
      BY <1>0, <2>2, <3>2 DEF MapsAgree, EstablishedOK, BufferOK, InFlush
  <2> QED
    BY <1>1, <2>3, <2>4, <2>5 DEF Handle, HandleOther, HandleEnd
<1>2. CASE Answer
  <2>1. pc # "idle" /\ UNCHANGED log
    BY <1>2 DEF Answer, Establish, Send, Connect, ConnectFails, Insert, Flush, Close
  <2>2. PICK s \in Session : s = Of
    BY <1>0, <2>1, CurrentEvent
  <2>2a. StateOf(s) \in State
    BY <1>0, SomeState DEF SessionOK
  <2>3. CASE Send \/ Connect \/ ConnectFails
    BY <2>3, <1>a DEF Send, Connect, ConnectFails, ReturnOk, ReturnErr, Await
  <2>4. CASE Insert
    <3> DEFINE r == [StateOf(s) EXCEPT !.established = TRUE, !.format = TRUE]
    <3>1. /\ states' = [states EXCEPT ![s] = r]
          /\ sessions' = [sessions EXCEPT ![s] = "up"]
          /\ pc = "insert" /\ pc' = "flush" /\ cur' = cur
      BY <2>2, <2>4 DEF Insert, Await
    <3>2. r \in State /\ r.established /\ r.format
      BY <2>2a DEF State
    <3>3. StateOf(s)' = r /\ \A t \in Session \ {s} : StateOf(t)' = StateOf(t)
      BY <1>0, <2>2, <3>1, <3>2, StateAfter
    <3>4. Of' = s
      BY <2>1, <2>2, <3>1 DEF Of
    <3>5. EstablishedOK'
      BY <1>0, <2>2, <3>1, <3>2, <3>3 DEF EstablishedOK, SessionOK
    <3>6. BufferOK' /\ InFlush'
      BY <1>0, <2>2, <3>1, <3>2, <3>3, <3>4 DEF BufferOK, InFlush
    <3> QED
      BY <3>5, <3>6 DEF MapsAgree
  <2>5. CASE Flush
    <3>1. StateOf(s) = states[s] /\ states[s].established /\ UNCHANGED sessions
      BY <1>0, <2>2, <2>5 DEF Flush, InFlush, StateOf, NewState
    <3>2. CASE states[s].buffer = <<>>
      <4>1. UNCHANGED sessionVars /\ pc' # "flush"
        BY <2>2, <2>5, <3>1, <3>2 DEF Flush, ReturnOk
      <4>2. \A t \in Session : StateOf(t).established => StateOf(t).buffer = <<>>
        BY <1>0, <2>2, <3>1, <3>2 DEF BufferOK
      <4>3. \A t \in Session : StateOf(t)' = StateOf(t)
        BY <4>1 DEF StateOf
      <4> QED
        BY <1>0, <4>1, <4>2, <4>3 DEF MapsAgree, EstablishedOK, BufferOK, InFlush
    <3>3. CASE states[s].buffer # <<>>
      <4> DEFINE r == [states[s] EXCEPT !.buffer = Tail(@)]
      <4>1. /\ states' = [states EXCEPT ![s] = r]
            /\ pc = "flush" /\ pc' = "flush" /\ cur' = cur
        BY <2>2, <2>5, <3>3 DEF Flush, Await
      <4>2. r \in State /\ r.established /\ r.format = states[s].format
        BY <2>2a, <3>1, <3>3, HeadTailProperties DEF State
      <4>3. StateOf(s)' = r /\ \A t \in Session \ {s} : StateOf(t)' = StateOf(t)
        BY <1>0, <2>2, <4>1, <4>2, StateAfter
      <4>4. Of' = s
        BY <2>1, <2>2, <4>1 DEF Of
      <4>5. EstablishedOK'
        BY <1>0, <2>2, <3>1, <4>2, <4>3 DEF EstablishedOK
      <4>6. BufferOK' /\ InFlush'
        BY <1>0, <2>2, <4>1, <4>2, <4>3, <4>4 DEF BufferOK, InFlush
      <4> QED
        BY <4>5, <4>6 DEF MapsAgree
    <3> QED
      BY <3>2, <3>3
  <2>6. CASE Close
    <3>1. /\ states' = [states EXCEPT ![s] = NoState]
          /\ sessions' = [sessions EXCEPT ![s] = "none"]
          /\ pc = "close" /\ pc' = "idle"
      BY <2>2, <2>6 DEF Close, ReturnOk
    <3>2. StateOf(s)' = NewState /\ \A t \in Session \ {s} : StateOf(t)' = StateOf(t)
      BY <1>0, <2>2, <3>1, NoStateAfter
    <3>3. EstablishedOK'
      BY <1>0, <2>2, <3>1, <3>2 DEF EstablishedOK, NewState, SessionOK
    <3>4. BufferOK' /\ InFlush'
      BY <1>0, <2>2, <3>1, <3>2 DEF BufferOK, InFlush, NewState
    <3> QED
      BY <3>3, <3>4 DEF MapsAgree
  <2> QED
    BY <1>2, <2>3, <2>4, <2>5, <2>6 DEF Answer, Establish
<1>3. CASE Poll \/ Publish \/ (\E s \in Session : Transcribe(s)) \/ UNCHANGED vars
  <2>1. UNCHANGED <<sessionVars, pc, cur>>
    BY <1>3 DEF Poll, PollBegin, PollText, PollPublish, PollSession, PollEnd, Publish,
                Transcribe, vars
  <2>2. pc = "flush" => Of' = Of
    <3>1. CASE Publish
      <4>1. PICK s \in Session, k \in Kinds : log' = Append(log, [session |-> s, kind |-> k])
        BY <3>1 DEF Publish
      <4>2. cur \in 0 .. Len(log) /\ Len(log) \in Nat /\ (pc = "flush" => cur # 0)
        BY <1>0, LenProperties DEF InputOK, HandlerOK
      <4>3. pc = "flush" => log'[cur] = log[cur]
        BY <1>0, <4>1, <4>2, AppendProperties DEF InputOK
      <4> QED
        BY <2>1, <4>3 DEF Of
    <3>2. CASE ~Publish
      BY <1>3, <2>1, <3>2 DEF Poll, PollBegin, PollText, PollPublish, PollSession, PollEnd,
                              Transcribe, vars, Of
    <3> QED
      BY <3>1, <3>2
  <2> QED
    BY <1>0, <2>1, <2>2 DEF MapsAgree, EstablishedOK, BufferOK, InFlush, StateOf
<1>4. ASSUME NEW s \in Session, Break(s) PROVE MapsAgree'
  <2>1. /\ UNCHANGED <<states, pc, cur, log>>
        /\ \A t \in Session : sessions'[t] = "none" <=> sessions[t] = "none"
    BY <1>0, <1>4 DEF Break, SessionOK
  <2> QED
    BY <1>0, <2>1 DEF MapsAgree, EstablishedOK, BufferOK, InFlush, StateOf, Of
<1> QED
  BY <1>1, <1>2, <1>3, <1>4 DEF Next, Environment

\* The maps agree when both are empty.
LEMMA MapsInit ==
  ASSUME Init
  PROVE  MapsAgree
  BY DEF Init, MapsAgree, EstablishedOK, BufferOK, InFlush, StateOf, NewState

-----------------------------------------------------------------------------

\* No audio was taken over at the start.
LEMMA KeptInit ==
  ASSUME Init
  PROVE  AudioKept
<1>1. DOMAIN log = {}
  BY DEF Init
<1> QED
  BY <1>1 DEF Init, AudioKept, AudioOf

\* What a step has to show: it forgets no audio, and keeps what it takes over.
LEMMA KeptBy ==
  ASSUME AudioKept, UNCHANGED log, handled' \subseteq DOMAIN log,
         \A s \in Session : Kept(s) \subseteq Kept(s)',
         \A s \in Session : \A i \in AudioOf(s) : TakenOver(i)' /\ ~TakenOver(i) => i \in Kept(s)'
  PROVE  AudioKept'
<1>1. \A s \in Session : AudioOf(s)' = AudioOf(s)
  BY DEF AudioOf
<1> QED
  BY <1>1 DEF AudioKept

\* A chunk given to a live write task is heard, and nothing heard is forgotten.
LEMMA SendKeeps ==
  ASSUME AudioOK, NEW s \in Session, NEW c \in Chunk, SendTo(s, c)
  PROVE  /\ \A t \in Session : Range(heard[t]) \subseteq Range(heard'[t])
         /\ Sent(s) => c \in Range(heard'[s])
<1>1. CASE sessions[s] \in {"up", "broken"} /\ heard' = [heard EXCEPT ![s] = Append(@, c)]
  <2>1. heard[s] \in Seq(Chunk) /\ heard'[s] = Append(heard[s], c)
    BY <1>1 DEF AudioOK
  <2>2. Range(heard'[s]) = Range(heard[s]) \cup {c}
    BY <2>1, RangeOfAppend
  <2> QED
    BY <1>1, <2>2 DEF AudioOK
<1>2. CASE sessions[s] \in {"none", "mute"} /\ UNCHANGED heard
  BY <1>2 DEF Sent
<1> QED
  BY <1>1, <1>2 DEF SendTo

\* No step forgets audio that was taken over.
LEMMA KeptStep ==
  ASSUME TypeOK, MapsAgree, AudioKept, [Next]_vars
  PROVE  AudioKept'
<1>0. InputOK /\ SessionOK /\ HandlerOK /\ PollerOK /\ AudioOK /\ InFlush
  BY DEF TypeOK, MapsAgree
<1> USE DEF inputVars, sessionVars, pollerVars, audioVars
<1>1. ASSUME NEW i \in DOMAIN log, Handle(i) PROVE AudioKept'
  <2>1. PICK s \in Session : s = log[i].session
    BY <1>0, EventAt
  <2>2. i \in Chunk /\ StateOf(s) \in State
    BY <1>0, EventAt, SomeState DEF SessionOK
  <2>3. UNCHANGED <<log, heard, dropped>> /\ pc = "idle"
    BY <1>1 DEF Handle, Take, HandleOther, HandleAudio, HandleStart, HandleEnd
  <2>4. handled' \subseteq DOMAIN log
    BY <1>1 DEF Handle, HandleOther, HandleAudio, HandleStart, HandleEnd, ReturnOk,
                ReturnErr, Await, AudioKept
  <2>5. \A t \in Session : t # s => i \notin AudioOf(t)
    BY <2>1 DEF AudioOf
  <2>6. \A j : TakenOver(j)' => TakenOver(j) \/ j = i
    BY <1>1 DEF Handle, HandleOther, HandleAudio, HandleStart, HandleEnd, ReturnOk,
                ReturnErr, Await, TakenOver
  <2>7. CASE HandleAudio(i) /\ ~StateOf(s).established
    <3> DEFINE r == [StateOf(s) EXCEPT !.buffer = Append(@, i)]
    <3>1. states' = [states EXCEPT ![s] = r]
      BY <2>1, <2>7 DEF HandleAudio
    <3>2. r \in State /\ r.buffer = Append(StateOf(s).buffer, i)
      BY <1>0, <2>2, BufferedStates DEF State
    <3>3. StateOf(s)' = r /\ \A t \in Session \ {s} : StateOf(t)' = StateOf(t)
      BY <1>0, <3>1, <3>2, StateAfter
    <3>4. StateOf(s).buffer \in Seq(Chunk)
      BY <2>2 DEF State
    <3>5. Range(r.buffer) = Buffered(s) \cup {i}
      BY <2>2, <3>2, <3>4, RangeOfAppend DEF Buffered
    <3>6. \A t \in Session : Kept(t) \subseteq Kept(t)' /\ (t = s => i \in Kept(t)')
      BY <2>3, <3>3, <3>5 DEF Kept, Buffered
    <3> QED
      BY <2>3, <2>4, <2>5, <2>6, <3>6, KeptBy
  <2>8. CASE ~(HandleAudio(i) /\ ~StateOf(s).established)
    <3>1. \A t \in Session : StateOf(t)' = StateOf(t)
      <4>1. CASE UNCHANGED states
        BY <4>1 DEF StateOf
      <4>2. CASE HandleStart(i)
        BY <1>0, <2>1, <2>2, <4>2, StateAfter DEF HandleStart
      <4> QED
        BY <1>1, <2>1, <2>8, <4>1, <4>2 DEF Handle, HandleOther, HandleAudio, HandleEnd
    <3>2. \A t \in Session : Kept(t)' = Kept(t)
      BY <2>3, <3>1 DEF Kept, Buffered
    <3>3. i \in AudioOf(s) => ~TakenOver(i)' \/ TakenOver(i)
      BY <1>1, <2>1, <2>3, <2>8 DEF Handle, HandleOther, HandleAudio, HandleStart, HandleEnd,
                                    AudioOf, Await, TakenOver
    <3> QED
      BY <2>3, <2>4, <2>5, <2>6, <3>2, <3>3, KeptBy
  <2> QED
    BY <2>7, <2>8
<1>2. CASE Answer
  <2>1. pc # "idle" /\ UNCHANGED log
    BY <1>2 DEF Answer, Establish, Send, Connect, ConnectFails, Insert, Flush, Close
  <2>2. PICK s \in Session : s = Of
    BY <1>0, <2>1, CurrentEvent
  <2>3. cur \in DOMAIN log /\ cur \in Chunk /\ StateOf(s) \in State
    BY <1>0, <2>1, CurrentEvent, SomeState DEF SessionOK
  <2>4. handled' \subseteq DOMAIN log
    BY <1>2, <2>3 DEF Answer, Establish, Send, Connect, ConnectFails, Insert, Flush, Close,
                      ReturnOk, ReturnErr, Await, AudioKept
  <2>5. \A t \in Session : t # s => cur \notin AudioOf(t)
    BY <2>2 DEF AudioOf, Of
  <2>6. \A j : TakenOver(j)' => TakenOver(j) \/ j = cur
    BY <1>2 DEF Answer, Establish, Send, Connect, ConnectFails, Insert, Flush, Close,
                ReturnOk, ReturnErr, Await, TakenOver
  <2>7. CASE Send
    <3>1. SendTo(s, cur) /\ UNCHANGED <<states, dropped>>
      BY <2>2, <2>7 DEF Send
    <3>2. \A t \in Session : Kept(t) \subseteq Kept(t)'
      BY <1>0, <2>3, <3>1, SendKeeps DEF Kept, Buffered, StateOf
    <3>3. CASE Sent(s)
      <4>1. cur \in Kept(s)'
        BY <1>0, <2>3, <3>1, <3>3, SendKeeps DEF Kept
      <4> QED
        BY <2>1, <2>4, <2>5, <2>6, <3>2, <4>1, KeptBy
    <3>4. CASE ~Sent(s)
      <4>1. \A j : TakenOver(j)' => TakenOver(j)
        BY <2>2, <2>7, <3>4 DEF Send, ReturnErr, TakenOver
      <4> QED
        BY <2>1, <2>4, <3>2, <4>1, KeptBy
    <3> QED
      BY <3>3, <3>4
  <2>8. CASE Connect \/ ConnectFails
    <3>1. \A t \in Session : Kept(t)' = Kept(t)
      BY <2>8 DEF Connect, ConnectFails, Kept, Buffered, StateOf
    <3>2. \A j : TakenOver(j)' => TakenOver(j)
      BY <2>8 DEF Connect, ConnectFails, ReturnOk, ReturnErr, Await, TakenOver
    <3> QED
      BY <2>1, <2>4, <3>1, <3>2, KeptBy
  <2>9. CASE Insert
    <3> DEFINE r == [StateOf(s) EXCEPT !.established = TRUE, !.format = TRUE]
    <3>1. states' = [states EXCEPT ![s] = r] /\ UNCHANGED <<heard, dropped>>
      BY <2>2, <2>9 DEF Insert
    <3>2. r \in State /\ r.buffer = StateOf(s).buffer
      BY <2>3 DEF State
    <3>3. StateOf(s)' = r /\ \A t \in Session \ {s} : StateOf(t)' = StateOf(t)
      BY <1>0, <3>1, <3>2, StateAfter
    <3>4. \A t \in Session : Kept(t)' = Kept(t)
      BY <3>1, <3>2, <3>3 DEF Kept, Buffered
    <3>5. \A j : TakenOver(j)' => TakenOver(j)
      BY <2>9 DEF Insert, Await, TakenOver
    <3> QED
      BY <2>1, <2>4, <3>4, <3>5, KeptBy
  <2>10. CASE Flush
    <3>1. \A j : TakenOver(j)' => TakenOver(j)
      BY <2>10 DEF Flush, ReturnOk, Await, TakenOver
    <3>2. CASE states[s].buffer = <<>>
      <4>1. UNCHANGED <<states, heard, dropped>>
        BY <2>2, <2>10, <3>2 DEF Flush
      <4> QED
        BY <2>1, <2>4, <3>1, <4>1, KeptBy DEF Kept, Buffered, StateOf
    <3>3. CASE states[s].buffer # <<>>
      <4> DEFINE b == states[s].buffer
                 r == [states[s] EXCEPT !.buffer = Tail(b)]
      <4>1. /\ SendTo(s, Head(b))
            /\ dropped' = IF Sent(s) THEN dropped ELSE dropped \cup {Head(b)}
            /\ states' = [states EXCEPT ![s] = r]
        BY <2>2, <2>10, <3>3 DEF Flush
      <4>2. StateOf(s) = states[s]
        BY <2>2, <2>10, <1>0 DEF Flush, InFlush, StateOf, NewState
      <4>3. b \in Seq(Chunk) /\ Head(b) \in Chunk /\ Tail(b) \in Seq(Chunk)
        BY <2>3, <3>3, <4>2, HeadTailProperties DEF State
      <4>4. r \in State /\ r.buffer = Tail(b)
        BY <2>3, <4>2, <4>3 DEF State
      <4>5. StateOf(s)' = r /\ \A t \in Session \ {s} : StateOf(t)' = StateOf(t)
        BY <1>0, <4>1, <4>4, StateAfter
      <4>6. Buffered(s) = Range(Tail(b)) \cup {Head(b)}
        BY <3>3, <4>2, <4>3, RangeOfTail DEF Buffered
      <4>7. Buffered(s)' = Range(Tail(b)) /\ \A t \in Session \ {s} : Buffered(t)' = Buffered(t)
        BY <4>4, <4>5 DEF Buffered
      <4>8. /\ \A t \in Session : Range(heard[t]) \subseteq Range(heard'[t])
            /\ Head(b) \in dropped' \cup Range(heard'[s])
            /\ dropped \subseteq dropped'
        BY <1>0, <4>1, <4>3, SendKeeps
      <4>9. \A t \in Session : Kept(t) \subseteq Kept(t)'
        BY <4>6, <4>7, <4>8 DEF Kept
      <4> QED
        BY <2>1, <2>4, <3>1, <4>9, KeptBy
    <3> QED
      BY <3>2, <3>3
  <2>11. CASE Close
    <3>1. /\ states' = [states EXCEPT ![s] = NoState] /\ UNCHANGED heard
          /\ dropped' = dropped \cup Buffered(s)
      BY <2>2, <2>11 DEF Close
    <3>2. \A t \in Session \ {s} : StateOf(t)' = StateOf(t)
      BY <1>0, <3>1, NoStateAfter
    <3>3. \A t \in Session : Kept(t) \subseteq Kept(t)'
      BY <3>1, <3>2 DEF Kept, Buffered
    <3>4. \A j : TakenOver(j)' => TakenOver(j)
      BY <2>11 DEF Close, ReturnOk, TakenOver
    <3> QED
      BY <2>1, <2>4, <3>3, <3>4, KeptBy
  <2> QED
    BY <1>2, <2>7, <2>8, <2>9, <2>10, <2>11 DEF Answer, Establish
<1>3. CASE Poll \/ (\E s \in Session : Transcribe(s) \/ Break(s)) \/ UNCHANGED vars
  <2>1. UNCHANGED <<log, states, heard, dropped, handled, pc, cur>>
    BY <1>3 DEF Poll, PollBegin, PollText, PollPublish, PollSession, PollEnd, Transcribe,
                Break, vars
  <2>2. /\ \A t \in Session : Kept(t)' = Kept(t)
        /\ \A j : TakenOver(j)' = TakenOver(j)
    BY <2>1 DEF Kept, Buffered, StateOf, TakenOver
  <2> QED
    BY <2>1, <2>2, KeptBy DEF AudioKept
<1>4. CASE Publish
  <2>1. PICK s \in Session, k \in Kinds : log' = Append(log, [session |-> s, kind |-> k])
    BY <1>4 DEF Publish
  <2>2. /\ DOMAIN log = 1 .. Len(log) /\ Len(log) \in Nat
        /\ DOMAIN log' = 1 .. Len(log) + 1
        /\ \A j \in DOMAIN log : log'[j] = log[j]
    BY <1>0, <2>1, LenProperties, AppendProperties DEF InputOK
  <2>3. UNCHANGED <<states, heard, dropped, handled, pc, cur>>
    BY <1>4 DEF Publish
  <2>4. /\ \A t \in Session : Kept(t)' = Kept(t)
        /\ \A j : TakenOver(j)' = TakenOver(j)
    BY <2>3 DEF Kept, Buffered, StateOf, TakenOver
  <2>5. \A j : TakenOver(j) => j \in DOMAIN log
    BY <1>0, CurrentEvent DEF AudioKept, TakenOver
  <2>6. \A t \in Session : \A j \in DOMAIN log : j \in AudioOf(t)' => j \in AudioOf(t)
    BY <2>2 DEF AudioOf
  <2> QED
    BY <2>2, <2>3, <2>4, <2>5, <2>6 DEF AudioKept
<1> QED
  BY <1>1, <1>2, <1>3, <1>4 DEF Next, Environment

\* No session was ended at the start.
LEMMA EndInit ==
  ASSUME Init
  PROVE  LastOK /\ EndOK
  BY DEF Init, LastOK, EndOK, Ended

\* No step but a new event of it brings an ended session back.
LEMMA EndStep ==
  ASSUME TypeOK, LastOK, EndOK, [Next]_vars
  PROVE  LastOK' /\ EndOK'
<1>0. InputOK /\ SessionOK /\ HandlerOK
  BY DEF TypeOK
<1> USE DEF inputVars, sessionVars, pollerVars, audioVars
<1>1. ASSUME NEW i \in DOMAIN log, Handle(i) PROVE LastOK' /\ EndOK'
  <2>1. PICK s \in Session : s = log[i].session
    BY <1>0, EventAt
  <2>2. i # 0
    BY <1>0, EventAt
  <2>3. /\ UNCHANGED <<log, sessions>> /\ pc = "idle"
        /\ last' = [last EXCEPT ![s] = i]
        /\ \A t \in Session \ {s} : states'[t] = states[t]
    BY <1>0, <1>1, <2>1 DEF Handle, Take, HandleOther, HandleAudio, HandleStart, HandleEnd,
                            SessionOK
  <2>4. /\ last'[s] = i
        /\ \A t \in Session \ {s} : last'[t] = last[t]
    BY <1>0, <2>3 DEF InputOK
  <2>5. pc' # "idle" => cur' = i /\ (pc' = "close" <=> log[i].kind = "end")
    BY <1>1 DEF Handle, HandleOther, HandleAudio, HandleStart, HandleEnd, ReturnOk, ReturnErr,
                Await
  <2>6. log[i].kind = "end" => pc' = "close"
    BY <1>1 DEF Handle, HandleOther, HandleAudio, HandleStart, HandleEnd, Await
  <2>7. pc' = "close" => Of' = s
    BY <2>1, <2>3, <2>5 DEF Of
  <2>8. LastOK'
    BY <2>1, <2>2, <2>3, <2>4, <2>5 DEF LastOK, Of
  <2>9. ASSUME NEW t \in Session, Ended(t)', ~(pc' = "close" /\ t = Of')
        PROVE  states'[t] = NoState /\ sessions'[t] = "none"
    <3>1. t # s
      BY <2>2, <2>3, <2>4, <2>6, <2>7, <2>9 DEF Ended
    <3> QED
      BY <2>3, <2>4, <2>9, <3>1 DEF Ended, EndOK
  <2> QED
    BY <2>8, <2>9 DEF EndOK
<1>2. CASE Answer
  <2>1. pc # "idle" /\ UNCHANGED <<log, last>>
    BY <1>2 DEF Answer, Establish, Send, Connect, ConnectFails, Insert, Flush, Close
  <2>2. PICK s \in Session : s = Of
    BY <1>0, <2>1, CurrentEvent
  <2>3. \A t \in Session \ {s} : states'[t] = states[t] /\ sessions'[t] = sessions[t]
    BY <1>0, <1>2, <2>2 DEF Answer, Establish, Send, Connect, ConnectFails, Insert, Flush, Close,
                            SessionOK
  <2>4. pc' # "idle" => cur' = cur /\ pc # "close" /\ pc' # "close"
    BY <1>2 DEF Answer, Establish, Send, Connect, ConnectFails, Insert, Flush, Close,
                ReturnOk, ReturnErr, Await
  <2>5. LastOK'
    BY <2>1, <2>4 DEF LastOK, Of
  <2>6. ASSUME NEW t \in Session, Ended(t)' PROVE states'[t] = NoState /\ sessions'[t] = "none"
    <3>1. Ended(t)
      BY <2>1, <2>6 DEF Ended
    <3>2. CASE t # s
      BY <2>2, <2>3, <3>1, <3>2 DEF EndOK
    <3>3. CASE t = s
      <4>1. pc = "close"
        BY <2>1, <2>2, <3>1, <3>3 DEF LastOK, Ended
      <4>2. Close
        BY <1>2, <4>1 DEF Answer, Establish, Send, Connect, ConnectFails, Insert, Flush
      <4> QED
        BY <1>0, <2>2, <3>3, <4>2 DEF Close, SessionOK
    <3> QED
      BY <3>2, <3>3
  <2> QED
    BY <2>5, <2>6 DEF EndOK
<1>3. CASE Poll \/ (\E s \in Session : Transcribe(s) \/ Break(s)) \/ UNCHANGED vars
  <2>1. UNCHANGED <<log, last, states, pc, cur>>
    BY <1>3 DEF Poll, PollBegin, PollText, PollPublish, PollSession, PollEnd, Transcribe,
                Break, vars
  <2>2. \A t \in Session : sessions[t] = "none" => sessions'[t] = "none"
    BY <1>0, <1>3 DEF Poll, PollBegin, PollText, PollPublish, PollSession, PollEnd, Transcribe,
                      Break, vars, SessionOK
  <2> QED
    BY <2>1, <2>2 DEF LastOK, EndOK, Ended, Of
<1>4. CASE Publish
  <2>1. PICK s \in Session, k \in Kinds : log' = Append(log, [session |-> s, kind |-> k])
    BY <1>4 DEF Publish
  <2>2. /\ DOMAIN log \subseteq DOMAIN log'
        /\ \A j \in DOMAIN log : log'[j] = log[j]
    <3>1. /\ DOMAIN log = 1 .. Len(log) /\ Len(log) \in Nat
          /\ DOMAIN log' = 1 .. Len(log) + 1
          /\ \A j \in 1 .. Len(log) : log'[j] = log[j]
      BY <1>0, <2>1, LenProperties, AppendProperties DEF InputOK
    <3> QED
      BY <3>1
  <2>3. UNCHANGED <<last, states, sessions, pc, cur>>
    BY <1>4 DEF Publish
  <2>4. pc # "idle" => cur \in DOMAIN log /\ Of' = Of
    BY <1>0, <2>2, <2>3, CurrentEvent DEF Of
  <2>5. \A t \in Session : Ended(t)' => Ended(t)
    BY <2>2, <2>3 DEF LastOK, Ended
  <2> QED
    BY <2>2, <2>3, <2>4, <2>5 DEF LastOK, EndOK
<1> QED
  BY <1>1, <1>2, <1>3, <1>4 DEF Next, Environment

-----------------------------------------------------------------------------
(* The order of audio.  What an event that comes again does to it is not said. *)

Once == \A i \in DOMAIN attempts : attempts[i] <= 1
Begun(i) == i \in DOMAIN attempts /\ attempts[i] > 0

Rising(q) == \A j, k \in DOMAIN q : j < k => q[j] < q[k]

\* A session's provider has heard what was begun first, its buffer holds the rest,
\* and what is about to be sent comes after both.
InOrder(s) ==
  /\ Rising(heard[s]) /\ Rising(StateOf(s).buffer)
  /\ \A x \in Range(heard[s]) : \A y \in Buffered(s) : x < y
  /\ \A x \in Range(heard[s]) \cup Buffered(s) : Begun(x)
  /\ pc = "send" /\ s = Of =>
       Buffered(s) = {} /\ Begun(cur) /\ \A x \in Range(heard[s]) : x < cur

OrderInv == Once => \A s \in Session : InOrder(s)

\* A number above all others goes to the end.
LEMMA AppendRises ==
  ASSUME NEW q \in Seq(Chunk), NEW x \in Chunk, Rising(q), \A y \in Range(q) : y < x
  PROVE  Rising(Append(q, x))
<1>1. /\ DOMAIN q = 1 .. Len(q) /\ Len(q) \in Nat
      /\ DOMAIN Append(q, x) = 1 .. Len(q) + 1
  BY LenProperties, AppendProperties
<1>2. /\ \A i \in 1 .. Len(q) : Append(q, x)[i] = q[i]
      /\ Append(q, x)[Len(q) + 1] = x
  BY AppendProperties
<1>3. \A i \in 1 .. Len(q) : q[i] < x
  BY <1>1 DEF Range
<1> QED
  BY <1>1, <1>2, <1>3 DEF Rising

\* The head of a rising sequence is below its tail, which rises.
LEMMA TailRises ==
  ASSUME NEW q \in Seq(Chunk), q # <<>>, Rising(q)
  PROVE  Rising(Tail(q)) /\ \A y \in Range(Tail(q)) : Head(q) < y
<1>1. /\ DOMAIN q = 1 .. Len(q) /\ Len(q) \in Nat /\ Len(q) # 0
      /\ DOMAIN Tail(q) = 1 .. Len(q) - 1
  BY LenProperties, HeadTailProperties, EmptySeq
<1>2. /\ \A i \in 1 .. Len(q) - 1 : Tail(q)[i] = q[i + 1]
      /\ Head(q) = q[1]
  BY HeadTailProperties
<1>3. \A i, j \in 1 .. Len(q) : i < j => q[i] < q[j]
  BY <1>1 DEF Rising
<1>4. Rising(Tail(q))
  <2>1. \A i, j \in 1 .. Len(q) - 1 : i < j => Tail(q)[i] < Tail(q)[j]
    <3> SUFFICES ASSUME NEW i \in 1 .. Len(q) - 1, NEW j \in 1 .. Len(q) - 1, i < j
                 PROVE  q[i + 1] < q[j + 1]
      BY <1>2
    <3> QED
      BY <1>1, <1>3
  <2> QED
    BY <1>1, <2>1 DEF Rising
<1>5. \A i \in 1 .. Len(q) - 1 : Head(q) < Tail(q)[i]
  <2> SUFFICES ASSUME NEW i \in 1 .. Len(q) - 1 PROVE q[1] < q[i + 1]
    BY <1>2
  <2> QED
    BY <1>1, <1>3
<1> QED
  BY <1>1, <1>4, <1>5 DEF Range

\* Chunks are numbers, heard, buffered or at hand.
LEMMA AudioTypes ==
  ASSUME TypeOK, NEW s \in Session
  PROVE  /\ heard[s] \in Seq(Chunk) /\ StateOf(s).buffer \in Seq(Chunk)
         /\ Range(heard[s]) \subseteq Chunk /\ Buffered(s) \subseteq Chunk
         /\ Chunk \subseteq Nat
<1>1. heard[s] \in Seq(Chunk)
  BY DEF TypeOK, AudioOK
<1>2. StateOf(s).buffer \in Seq(Chunk)
  BY SomeState DEF TypeOK, SessionOK, State
<1>3. \A q \in Seq(Chunk) : Range(q) \subseteq Chunk
  BY LenProperties, ElementOfSeq DEF Range
<1> QED
  BY <1>1, <1>2, <1>3, SttAssumption DEF Buffered, Chunk

\* Nothing was heard at the start.
LEMMA OrderInit ==
  ASSUME Init
  PROVE  OrderInv
<1>1. \A s \in Session : heard[s] = <<>> /\ StateOf(s).buffer = <<>> /\ pc = "idle"
  BY DEF Init, StateOf, NewState
<1>2. DOMAIN <<>> = {} /\ Range(<<>>) = {}
  BY DEF Range
<1> QED
  BY <1>1, <1>2 DEF OrderInv, InOrder, Rising, Buffered

\* Events are begun, and never less often.
LEMMA BegunStays ==
  ASSUME TypeOK, [Next]_vars
  PROVE  (\A i : Begun(i) => Begun(i)') /\ (Once' => Once)
<1>0. InputOK
  BY DEF TypeOK
<1>1. DOMAIN attempts = 1 .. Len(attempts) /\ Len(attempts) \in Nat
  BY <1>0, LenProperties DEF InputOK
<1>2. \A i \in DOMAIN attempts : attempts[i] \in 0 .. MaxDeliver
  BY <1>0, <1>1, ElementOfSeq DEF InputOK
<1>3. CASE Publish
  <2>1. /\ DOMAIN attempts' = 1 .. Len(attempts) + 1
        /\ \A j \in 1 .. Len(attempts) : attempts'[j] = attempts[j]
    BY <1>0, <1>3, AppendProperties, SttAssumption DEF Publish, InputOK
  <2> QED
    BY <1>1, <2>1 DEF Begun, Once
<1>4. ASSUME NEW i \in DOMAIN log, Handle(i) PROVE (\A j : Begun(j) => Begun(j)') /\ (Once' => Once)
  <2>1. attempts' = [attempts EXCEPT ![i] = @ + 1] /\ i \in DOMAIN attempts
    BY <1>0, <1>4, EventAt DEF Handle, Take
  <2>2. DOMAIN attempts' = DOMAIN attempts
        /\ \A j \in DOMAIN attempts : attempts'[j] = IF j = i THEN attempts[j] + 1 ELSE attempts[j]
    BY <2>1
  <2> QED
    BY <1>2, <2>2, SttAssumption DEF Begun, Once
<1>5. CASE Answer \/ Poll \/ (\E s \in Session : Transcribe(s) \/ Break(s)) \/ UNCHANGED vars
  <2>1. UNCHANGED attempts
    BY <1>5 DEF Answer, Establish, Send, Connect, ConnectFails, Insert, Flush, Close, Poll,
                PollBegin, PollText, PollPublish, PollSession, PollEnd, Transcribe, Break, vars,
                inputVars
  <2> QED
    BY <2>1 DEF Begun, Once
<1> QED
  BY <1>3, <1>4, <1>5 DEF Next, Environment

\* A session the step leaves alone stays in order.
LEMMA SameOrder ==
  ASSUME TypeOK, [Next]_vars, NEW s \in Session, InOrder(s),
         heard'[s] = heard[s], StateOf(s).buffer' = StateOf(s).buffer,
         pc' = "send" /\ s = Of' => pc = "send" /\ s = Of /\ cur' = cur
  PROVE  InOrder(s)'
<1>1. Buffered(s)' = Buffered(s)
  BY DEF Buffered
<1>2. \A i : Begun(i) => Begun(i)'
  BY BegunStays
<1> QED
  BY <1>1, <1>2 DEF InOrder, Rising

\* A chunk that comes after all that was heard, and before all that is buffered, may
\* be heard next.
LEMMA HearNext ==
  ASSUME TypeOK, [Next]_vars, NEW s \in Session, InOrder(s), NEW c \in Chunk, SendTo(s, c),
         Begun(c), \A x \in Range(heard[s]) : x < c,
         Rising(StateOf(s).buffer)', Buffered(s)' \subseteq Buffered(s),
         \A y \in Buffered(s)' : c < y,
         pc' # "send"
  PROVE  InOrder(s)'
<1>1. heard[s] \in Seq(Chunk)
  BY AudioTypes
<1>2. \A i : Begun(i) => Begun(i)'
  BY BegunStays
<1>3. CASE heard' = [heard EXCEPT ![s] = Append(@, c)]
  <2>1. heard'[s] = Append(heard[s], c)
    BY <1>3 DEF TypeOK, AudioOK
  <2>2. Range(heard'[s]) = Range(heard[s]) \cup {c}
    BY <1>1, <2>1, RangeOfAppend
  <2>3. Rising(heard'[s])
    BY <1>1, <2>1, AppendRises DEF InOrder
  <2> QED
    BY <1>2, <2>2, <2>3 DEF InOrder, Rising
<1>4. CASE UNCHANGED heard
  BY <1>2, <1>4 DEF InOrder, Rising
<1> QED
  BY <1>3, <1>4 DEF SendTo

\* No step puts audio out of order as long as no event comes again.
LEMMA OrderStep ==
  ASSUME TypeOK, MapsAgree, OrderInv, [Next]_vars
  PROVE  OrderInv'
<1>0. /\ InputOK /\ SessionOK /\ HandlerOK /\ PollerOK /\ AudioOK
      /\ EstablishedOK /\ BufferOK /\ InFlush
  BY DEF TypeOK, MapsAgree
<1> USE DEF inputVars, sessionVars, pollerVars, audioVars
<1> SUFFICES ASSUME Once', NEW s \in Session PROVE InOrder(s)'
  BY DEF OrderInv
<1>1. InOrder(s) /\ \A i : Begun(i) => Begun(i)'
  BY BegunStays DEF OrderInv
<1>2. ASSUME NEW i \in DOMAIN log, Handle(i) PROVE InOrder(s)'
  <2>1. /\ i \in Chunk /\ i \in Nat /\ i \in DOMAIN attempts /\ attempts[i] \in Nat
        /\ log[i].session \in Session
    BY <1>0, EventAt, SttAssumption DEF Chunk
  <2>2. attempts' = [attempts EXCEPT ![i] = @ + 1] /\ pc = "idle"
        /\ UNCHANGED <<log, heard>>
    BY <1>2 DEF Handle, Take, HandleOther, HandleAudio, HandleStart, HandleEnd
  <2>3. attempts[i] = 0 /\ Begun(i)'
    BY <2>1, <2>2 DEF Once, Begun
  <2>4. \A j \in DOMAIN log : j > i => attempts[j] = 0
    BY <1>2, <2>3 DEF Handle, Take
  <2>5. DOMAIN attempts = DOMAIN log /\ DOMAIN log \subseteq Nat
    BY <1>0, LenProperties DEF InputOK
  <2>6. \A x : Begun(x) => x < i
    BY <2>1, <2>3, <2>4, <2>5 DEF Begun
  <2>7. \A x \in Range(heard[s]) \cup Buffered(s) : x < i
    BY <1>1, <2>6 DEF InOrder
  <2>8. pc' # "idle" => cur' = i
    BY <1>2 DEF Handle, HandleOther, HandleAudio, HandleStart, HandleEnd, ReturnOk, ReturnErr,
                Await
  <2>9. pc' = "send" => Of' = log[i].session
    BY <2>2, <2>8 DEF Of
  <2>10. CASE s # log[i].session
    <3>1. states'[s] = states[s]
      BY <1>0, <1>2, <2>1, <2>10 DEF Handle, HandleOther, HandleAudio, HandleStart, HandleEnd,
                                     SessionOK
    <3> QED
      BY <1>1, <2>2, <2>9, <2>10, <3>1, SameOrder DEF StateOf
  <2>11. CASE s = log[i].session /\ HandleAudio(i) /\ StateOf(s).established
    <3>1. UNCHANGED states /\ pc' = "send" /\ cur' = i
      BY <2>11 DEF HandleAudio, Await
    <3>2. Buffered(s) = {}
      <4>1. StateOf(s).buffer = <<>>
        BY <1>0, <2>2, <2>11 DEF BufferOK
      <4> QED
        BY <4>1 DEF Buffered, Range
    <3>3. StateOf(s)' = StateOf(s) /\ Buffered(s)' = Buffered(s)
      BY <3>1 DEF StateOf, Buffered
    <3> QED
      BY <1>1, <2>2, <2>3, <2>7, <3>1, <3>2, <3>3 DEF InOrder, Rising
  <2>12. CASE s = log[i].session /\ HandleAudio(i) /\ ~StateOf(s).established
    <3> DEFINE r == [StateOf(s) EXCEPT !.buffer = Append(@, i)]
    <3>1. states' = [states EXCEPT ![s] = r] /\ pc' # "send"
      BY <2>12 DEF HandleAudio, ReturnOk, Await
    <3>2. StateOf(s) \in State /\ StateOf(s).buffer \in Seq(Chunk)
      BY AudioTypes, <1>0, SomeState DEF SessionOK
    <3>3. r \in State /\ r.buffer = Append(StateOf(s).buffer, i)
      BY <1>0, <2>1, <3>2, BufferedStates DEF State
    <3>4. StateOf(s)' = r
      BY <1>0, <3>1, <3>3, StateAfter
    <3>5. Buffered(s)' = Buffered(s) \cup {i}
      BY <2>1, <3>2, <3>3, <3>4, RangeOfAppend DEF Buffered
    <3>6. Rising(StateOf(s).buffer)'
      <4>1. Rising(Append(StateOf(s).buffer, i))
        BY <1>1, <2>1, <2>7, <3>2, AppendRises DEF InOrder, Buffered
      <4> QED
        BY <3>3, <3>4, <4>1 DEF Rising
    <3> QED
      BY <1>1, <2>2, <2>3, <2>7, <3>1, <3>5, <3>6 DEF InOrder, Rising
  <2>13. CASE s = log[i].session /\ ~HandleAudio(i)
    <3>1. pc' # "send"
      BY <1>2, <2>13 DEF Handle, HandleOther, HandleStart, HandleEnd, ReturnOk, ReturnErr, Await
    <3>2. StateOf(s)' = StateOf(s)
      <4>1. CASE UNCHANGED states
        BY <4>1 DEF StateOf
      <4>2. CASE HandleStart(i)
        BY <1>0, <2>1, <2>13, <4>2, SomeState, StateAfter DEF HandleStart, SessionOK
      <4> QED
        BY <1>2, <2>13, <4>1, <4>2 DEF Handle, HandleOther, HandleEnd
    <3> QED
      BY <1>1, <2>2, <3>1, <3>2, SameOrder
  <2> QED
    BY <2>10, <2>11, <2>12, <2>13
<1>3. CASE Answer
  <2>1. pc # "idle" /\ pc' # "send" /\ UNCHANGED log
    BY <1>3 DEF Answer, Establish, Send, Connect, ConnectFails, Insert, Flush, Close, ReturnOk,
                ReturnErr, Await
  <2>2. Of \in Session /\ cur \in Chunk
    BY <1>0, <2>1, CurrentEvent
  <2>3. CASE s # Of
    <3>1. heard'[s] = heard[s] /\ states'[s] = states[s]
      BY <1>0, <1>3, <2>2, <2>3 DEF Answer, Establish, Send, Connect, ConnectFails, Insert, Flush,
                                    Close, SendTo, SessionOK, AudioOK
    <3> QED
      BY <1>1, <2>1, <3>1, SameOrder DEF StateOf
  <2>4. CASE s = Of /\ Send
    <3>1. SendTo(s, cur) /\ UNCHANGED states /\ pc = "send"
      BY <2>4 DEF Send
    <3>2. Buffered(s) = {} /\ Begun(cur) /\ \A x \in Range(heard[s]) : x < cur
      BY <1>1, <2>4, <3>1 DEF InOrder
    <3>3. StateOf(s)' = StateOf(s) /\ Buffered(s)' = Buffered(s)
      BY <3>1 DEF StateOf, Buffered
    <3>4. Rising(StateOf(s).buffer)'
      BY <1>1, <3>3 DEF InOrder, Rising
    <3> QED
      BY <1>1, <2>1, <2>2, <3>1, <3>2, <3>3, <3>4, HearNext
  <2>5. CASE s = Of /\ (Connect \/ ConnectFails)
    <3>1. UNCHANGED <<heard, states>>
      BY <2>5 DEF Connect, ConnectFails
    <3> QED
      BY <1>1, <2>1, <3>1, SameOrder DEF StateOf
  <2>6. CASE s = Of /\ Insert
    <3> DEFINE r == [StateOf(s) EXCEPT !.established = TRUE, !.format = TRUE]
    <3>1. states' = [states EXCEPT ![s] = r] /\ UNCHANGED heard
      BY <2>6 DEF Insert
    <3>2. r \in State /\ r.buffer = StateOf(s).buffer
      BY <1>0, SomeState DEF SessionOK, State
    <3>3. StateOf(s)' = r
      BY <1>0, <3>1, <3>2, StateAfter
    <3> QED
      BY <1>1, <2>1, <3>1, <3>2, <3>3, SameOrder
  <2>7. CASE s = Of /\ Flush
    <3>1. StateOf(s) = states[s] /\ states[s].buffer \in Seq(Chunk)
      <4>1. StateOf(s) = states[s]
        BY <2>7, <1>0 DEF Flush, InFlush, StateOf, NewState
      <4> QED
        BY <4>1, AudioTypes
    <3>2. CASE states[s].buffer = <<>>
      <4>1. UNCHANGED <<states, heard>>
        BY <2>7, <3>2 DEF Flush
      <4> QED
        BY <1>1, <2>1, <4>1, SameOrder DEF StateOf
    <3>3. CASE states[s].buffer # <<>>
      <4> DEFINE b == states[s].buffer
                 r == [states[s] EXCEPT !.buffer = Tail(b)]
      <4>1. SendTo(s, Head(b)) /\ states' = [states EXCEPT ![s] = r]
        BY <2>7, <3>3 DEF Flush
      <4>2. b \in Seq(Chunk) /\ Head(b) \in Chunk /\ Tail(b) \in Seq(Chunk)
        BY <3>1, <3>3, HeadTailProperties
      <4>3. r \in State /\ r.buffer = Tail(b)
        BY <1>0, <3>1, <4>2, SomeState DEF SessionOK, State
      <4>4. StateOf(s)' = r
        BY <1>0, <4>1, <4>3, StateAfter
      <4>5. Buffered(s) = Range(Tail(b)) \cup {Head(b)} /\ Buffered(s)' = Range(Tail(b))
        BY <3>1, <3>3, <4>2, <4>3, <4>4, RangeOfTail DEF Buffered
      <4>6. Rising(Tail(b)) /\ \A y \in Range(Tail(b)) : Head(b) < y
        BY <1>1, <3>1, <3>3, TailRises DEF InOrder
      <4>7. Rising(StateOf(s).buffer)'
        BY <4>3, <4>4, <4>6 DEF Rising
      <4>8. Begun(Head(b)) /\ \A x \in Range(heard[s]) : x < Head(b)
        BY <1>1, <4>5 DEF InOrder
      <4>9. Buffered(s)' \subseteq Buffered(s) /\ \A y \in Buffered(s)' : Head(b) < y
        BY <4>5, <4>6
      <4> QED
        BY <1>1, <2>1, <4>1, <4>2, <4>7, <4>8, <4>9, HearNext
    <3> QED
      BY <3>2, <3>3
  <2>8. CASE s = Of /\ Close
    <3>1. states' = [states EXCEPT ![s] = NoState] /\ UNCHANGED heard
      BY <2>8 DEF Close
    <3>2. StateOf(s)' = NewState
      BY <1>0, <3>1, NoStateAfter
    <3>3. StateOf(s).buffer' = <<>> /\ Buffered(s)' = {}
      BY <3>2 DEF NewState, Buffered, Range
    <3> QED
      BY <1>1, <2>1, <3>1, <3>3 DEF InOrder, Rising
  <2> QED
    BY <1>3, <2>3, <2>4, <2>5, <2>6, <2>7, <2>8 DEF Answer, Establish
<1>4. CASE Poll \/ Environment \/ UNCHANGED vars
  <2>1. UNCHANGED <<states, heard, pc, cur>>
    BY <1>4 DEF Poll, PollBegin, PollText, PollPublish, PollSession, PollEnd, Environment, Publish,
                Transcribe, Break, vars
  <2>2. pc = "send" => Of' = Of
    <3>1. CASE Publish /\ pc = "send"
      <4>1. cur \in DOMAIN log
        BY <1>0, <3>1, CurrentEvent
      <4>2. \A j \in DOMAIN log : log'[j] = log[j]
        BY <1>0, <3>1, LenProperties, AppendProperties DEF InputOK, Publish
      <4> QED
        BY <2>1, <4>1, <4>2 DEF Of
    <3>2. CASE ~Publish
      BY <1>4, <2>1, <3>2 DEF Poll, PollBegin, PollText, PollPublish, PollSession, PollEnd,
                              Environment, Transcribe, Break, vars, Of
    <3> QED
      BY <3>1, <3>2
  <2> QED
    BY <1>1, <2>1, <2>2, SameOrder DEF StateOf
<1> QED
  BY <1>2, <1>3, <1>4 DEF Next

IInv == TypeOK /\ MapsAgree /\ AudioKept /\ LastOK /\ EndOK /\ OrderInv

\* The invariant holds in every reachable state.
LEMMA Invariant == Spec => []IInv
<1>1. Init => IInv
  BY InitOK, MapsInit, KeptInit, EndInit, OrderInit DEF IInv
<1>2. IInv /\ [Next]_vars => IInv'
  BY TypeStep, MapsStep, KeptStep, EndStep, OrderStep DEF IInv, MapsAgree
<1> QED
  BY <1>1, <1>2, PTL DEF Spec

\* The type invariant holds in every reachable state.
THEOREM TypeCorrect == Spec => []TypeOK
<1>1. IInv => TypeOK
  BY DEF IInv
<1> QED
  BY <1>1, Invariant, PTL

\* Between two events the service and the connector agree on which sessions there
\* are, and no audio is left behind in the buffer of an established one.
THEOREM MapsStayTogether == Spec => []EstablishedIsConnected
<1>1. IInv => EstablishedIsConnected
  BY DEF IInv, MapsAgree, EstablishedOK, BufferOK, EstablishedIsConnected
<1> QED
  BY <1>1, Invariant, PTL

\* No session has a format before it is established.
THEOREM FormatIsLast == Spec => []FormatComesLast
<1>1. IInv => FormatComesLast
  BY DEF IInv, MapsAgree, EstablishedOK, FormatComesLast
<1> QED
  BY <1>1, Invariant, PTL

\* Audio that was acked is never lost without a trace: it is in the buffer or was
\* sent, unless a flush could not send it or its session ended.
THEOREM AudioStaysKept == Spec => []AckedAudioIsKept
<1>1. IInv => AckedAudioIsKept
  BY DEF IInv, AudioKept, AckedAudioIsKept, Kept, TakenOver
<1> QED
  BY <1>1, Invariant, PTL

\* Between two events nothing is left of a session whose last event was session_end:
\* handle_session_end forgets the state and the connection, whatever came before.
THEOREM EndedIsGone == Spec => []EndLeavesNothing
<1>1. IInv => EndLeavesNothing
  BY DEF IInv, EndOK, Ended, EndLeavesNothing
<1> QED
  BY <1>1, Invariant, PTL

\* The provider hears a session's audio in the order of the stream, each chunk once,
\* as long as no event comes again: what is buffered is sent before what comes later
\* (handle_audio_chunk, establish_streaming_session).
THEOREM AudioStaysInOrder == Spec => []AudioInOrder
<1>1. IInv => AudioInOrder
  BY DEF IInv, OrderInv, InOrder, Once, Rising, AudioInOrder
<1> QED
  BY <1>1, Invariant, PTL

=============================================================================
