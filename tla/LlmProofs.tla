------------------------------ MODULE LlmProofs ------------------------------
(***************************************************************************)
(* Proofs about LlmSessions, for any sessions, kinds, connector and bounds: *)
(* its type invariant, that what an interruption purged is not answered,   *)
(* that answers do not interleave, and that conversations are in order.    *)
(***************************************************************************)
EXTENDS LlmSessions, SequenceTheorems, TLAPS

USE LlmAssumption DEF SystemKinds, DataKinds, Answering, Start, Text, End

-----------------------------------------------------------------------------
(* Sequences. *)

\* Appending leaves the elements there are and adds one.
LEMMA Appended ==
  ASSUME NEW S, NEW q \in Seq(S), NEW x \in S
  PROVE  /\ Append(q, x) \in Seq(S)
         /\ DOMAIN q = 1 .. Len(q) /\ Len(q) \in Nat
         /\ Len(Append(q, x)) = Len(q) + 1
         /\ DOMAIN Append(q, x) = 1 .. Len(q) + 1
         /\ \A i \in 1 .. Len(q) : Append(q, x)[i] = q[i]
         /\ Append(q, x)[Len(q) + 1] = x
  BY LenProperties, AppendProperties

\* The head is the first element, and the tail the others.
LEMMA Taken ==
  ASSUME NEW S, NEW q \in Seq(S), q # <<>>
  PROVE  /\ Tail(q) \in Seq(S)
         /\ DOMAIN q = 1 .. Len(q) /\ Len(q) \in Nat \ {0} /\ 1 \in DOMAIN q
         /\ Head(q) = q[1] /\ Head(q) \in S
         /\ Len(Tail(q)) = Len(q) - 1
         /\ DOMAIN Tail(q) = 1 .. Len(q) - 1
         /\ \A i \in 1 .. Len(q) - 1 : i + 1 \in DOMAIN q /\ Tail(q)[i] = q[i + 1]
<1>1. /\ Tail(q) \in Seq(S)
      /\ DOMAIN q = 1 .. Len(q) /\ Len(q) \in Nat /\ Len(q) # 0
      /\ Head(q) = q[1] /\ Head(q) \in S
      /\ Len(Tail(q)) = Len(q) - 1
      /\ DOMAIN Tail(q) = 1 .. Len(q) - 1
      /\ \A i \in 1 .. Len(q) - 1 : Tail(q)[i] = q[i + 1]
  BY LenProperties, HeadTailProperties, EmptySeq
<1>2. 1 \in 1 .. Len(q) /\ \A i \in 1 .. Len(q) - 1 : i + 1 \in 1 .. Len(q)
  BY <1>1
<1> QED
  BY <1>1, <1>2

-----------------------------------------------------------------------------
(* Types.  The channels' bound apart, they are the types of the variables. *)

Types ==
  /\ published \in 0 .. MaxPublished
  /\ systemSub \in Seq(Frame)
  /\ dataSub \in Seq(Frame)
  /\ dpc \in {"select", "polled"}
  /\ sending \in Frame \cup {NoFrame}
  /\ hpc \in [Session -> {"none", "select", "polled", "drain", "ended"} \cup Answering]
  /\ systemCh \in [Session -> Seq(Frame)]
  /\ dataCh \in [Session -> Seq(Frame)]
  /\ \A s \in Session : Len(systemCh[s]) <= ChannelCap /\ Len(dataCh[s]) <= ChannelCap
  /\ work \in [Session -> Frame \cup {NoFrame}]
  /\ conversation \in [Session -> Seq({"user", "assistant"} \X Id)]
  /\ response \in [Session -> Seq(Id \X {Start, Text, End})]
  /\ purged \in SUBSET Id

\* A handler has a transcription in hand exactly while it answers one.
WorkShape == \A s \in Session : work[s] # NoFrame <=> hpc[s] \in Answering

\* Every variable has its type at first, and no handler works.
LEMMA InitTypes == Init => TypeOK /\ WorkShape
<1> SUFFICES ASSUME Init PROVE TypeOK /\ WorkShape
  OBVIOUS
<1>1. interrupted \in [Session -> BOOLEAN]
  BY Zenon DEF Init
<1>2. Types /\ WorkShape
  BY DEF Init, Types, WorkShape, Id
<1> QED
  BY <1>1, <1>2 DEF TypeOK, Types

\* A frame of another kind is a frame.
LEMMA OtherKind ==
  ASSUME NEW f \in Frame, NEW k \in SystemKinds \cup DataKinds
  PROVE  /\ [f EXCEPT !.kind = k] \in Frame
         /\ [f EXCEPT !.kind = k].kind = k /\ [f EXCEPT !.kind = k].id = f.id
  BY DEF Frame

\* The flags stay Boolean.
LEMMA NextFlag == interrupted \in [Session -> BOOLEAN] /\ [Next]_vars => interrupted' \in [Session -> BOOLEAN]
<1> SUFFICES ASSUME interrupted \in [Session -> BOOLEAN], [Next]_vars
             PROVE  interrupted' \in [Session -> BOOLEAN]
  OBVIOUS
<1>1. ASSUME NEW s \in Session, HandleSystem(s) PROVE interrupted' \in [Session -> BOOLEAN]
  BY <1>1, Zenon DEF HandleSystem
<1>2. ASSUME NEW s \in Session, ~HandleSystem(s), Handler(s) PROVE interrupted' = interrupted
  BY <1>2 DEF Handler, Drain, PollSystemCh, TakeData, ProcessTranscription, AddUserMessage,
       PublishStart, Generate, GenerateFails, PublishText, PublishEnd
<1>3. CASE Client \/ Dispatcher
  BY <1>3 DEF Client, Publish, Dispatcher, DispatchSystem, PollSystemSub, DispatchData, Send,
       handlerVars
<1>4. CASE UNCHANGED vars
  BY <1>4 DEF vars, handlerVars
<1> QED
  BY <1>1, <1>2, <1>3, <1>4 DEF Next

\* What the dispatcher sends is the frame it read, and a handler may begin.
LEMMA DispatchTypes ==
  ASSUME Types, NEW f \in Frame, NEW w \in BOOLEAN, Dispatch(f, w)
  PROVE  /\ sending' \in {f, sending}
         /\ hpc' \in [Session -> {"none", "select", "polled", "drain", "ended"} \cup Answering]
         /\ \A s \in Session : hpc'[s] = hpc[s] \/ (hpc[s] = "none" /\ hpc'[s] = "select")
<1>1. f.session \in Session
  BY DEF Frame
<1>2. CASE f.kind \in Decodable /\ w
  BY <1>1, <1>2 DEF Dispatch, Types
<1>3. CASE ~(f.kind \in Decodable /\ w)
  BY <1>3 DEF Dispatch, Types
<1> QED
  BY <1>2, <1>3

\* The types of the parts that a step of a handler may change, of one session.
LEMMA NextTypes == TypeOK /\ WorkShape /\ [Next]_vars => TypeOK' /\ WorkShape'
<1> SUFFICES ASSUME TypeOK, WorkShape, [Next]_vars PROVE Types' /\ WorkShape'
  BY NextFlag DEF TypeOK, Types
<1>0. Types
  BY DEF TypeOK, Types
<1> USE <1>0, NoFrameAssumption DEF clientVars, dispatcherVars, channelVars, handlerVars, outputVars
<1>1. ASSUME NEW s \in Session, NEW k \in Kinds, Publish(s, k) PROVE Types' /\ WorkShape'
  <2> DEFINE f == [id |-> published + 1, session |-> s, kind |-> k]
  <2>1. f \in Frame /\ published' \in 0 .. MaxPublished
    BY <1>1 DEF Publish, Frame, Id, Types
  <2>2. systemSub' \in Seq(Frame) /\ dataSub' \in Seq(Frame)
    <3>1. Append(systemSub, f) \in Seq(Frame) /\ Append(dataSub, f) \in Seq(Frame)
      BY <2>1, Appended DEF Types
    <3> QED
      BY <1>1, <3>1 DEF Publish, Types
  <2> QED
    BY <1>1, <2>1, <2>2 DEF Publish, Types, WorkShape
<1>2. CASE DispatchSystem
  <2>1. systemSub' \in Seq(Frame) /\ Head(systemSub) \in Frame
    BY <1>2, Taken DEF DispatchSystem, Types
  <2>2. /\ sending' \in {Head(systemSub), sending}
        /\ hpc' \in [Session -> {"none", "select", "polled", "drain", "ended"} \cup Answering]
        /\ \A s \in Session : hpc'[s] = hpc[s] \/ (hpc[s] = "none" /\ hpc'[s] = "select")
    BY <1>2, <2>1, DispatchTypes DEF DispatchSystem
  <2>3. UNCHANGED <<clientVars, dataSub, dpc, channelVars, work, outputVars, purged>>
    BY <1>2 DEF DispatchSystem
  <2> QED
    BY <2>1, <2>2, <2>3 DEF Types, WorkShape
<1>3. CASE PollSystemSub
  BY <1>3 DEF PollSystemSub, Types, WorkShape
<1>4. CASE DispatchData
  <2>1. CASE dataSub = <<>>
    BY <1>4, <2>1 DEF DispatchData, Types, WorkShape
  <2>2. CASE dataSub # <<>>
    <3>1. Tail(dataSub) \in Seq(Frame) /\ Head(dataSub) \in Frame
      BY <2>2, Taken DEF Types
    <3>2. dataSub' = Tail(dataSub) /\ Dispatch(Head(dataSub), Head(dataSub).kind = "Transcription")
      BY <1>4, <2>2 DEF DispatchData
    <3>3. /\ sending' \in {Head(dataSub), sending}
          /\ hpc' \in [Session -> {"none", "select", "polled", "drain", "ended"} \cup Answering]
          /\ \A s \in Session : hpc'[s] = hpc[s] \/ (hpc[s] = "none" /\ hpc'[s] = "select")
      BY <3>1, <3>2, DispatchTypes
    <3>4. dpc' = "select" /\ UNCHANGED <<clientVars, systemSub, channelVars, work, outputVars, purged>>
      BY <1>4 DEF DispatchData
    <3> QED
      BY <3>1, <3>2, <3>3, <3>4 DEF Types, WorkShape
  <2> QED
    BY <2>1, <2>2
<1>5. CASE Send
  <2> DEFINE s == sending.session
  <2>1. sending \in Frame /\ s \in Session
    BY <1>5 DEF Send, Types, Frame
  <2>2. CASE UNCHANGED channelVars
    BY <1>5, <2>2 DEF Send, Types, WorkShape
  <2>3. CASE systemCh' = [systemCh EXCEPT ![s] = Append(@, sending)] /\ dataCh' = dataCh
             /\ Len(systemCh[s]) < ChannelCap
    <3>1. Append(systemCh[s], sending) \in Seq(Frame) /\ Len(Append(systemCh[s], sending)) <= ChannelCap
      BY <2>1, <2>3, Appended DEF Types
    <3> QED
      BY <1>5, <2>1, <2>3, <3>1 DEF Send, Types, WorkShape
  <2>4. CASE dataCh' = [dataCh EXCEPT ![s] = Append(@, sending)] /\ systemCh' = systemCh
             /\ Len(dataCh[s]) < ChannelCap
    <3>1. Append(dataCh[s], sending) \in Seq(Frame) /\ Len(Append(dataCh[s], sending)) <= ChannelCap
      BY <2>1, <2>4, Appended DEF Types
    <3> QED
      BY <1>5, <2>1, <2>4, <3>1 DEF Send, Types, WorkShape
  <2> QED
    BY <1>5, <2>2, <2>3, <2>4 DEF Send
<1>6. ASSUME NEW s \in Session, HandleSystem(s) PROVE Types' /\ WorkShape'
  <2>1. /\ Tail(systemCh[s]) \in Seq(Frame) /\ Len(Tail(systemCh[s])) <= ChannelCap
        /\ <<>> \in Seq(Frame) /\ Len(<<>>) <= ChannelCap
    BY <1>6, Taken DEF HandleSystem, Types
  <2>2. purged' \in SUBSET Id
    <3>1. Waiting(s) \subseteq Id
      <4>1. \A i \in DOMAIN dataCh[s] : dataCh[s][i] \in Frame
        BY ElementOfSeq, LenProperties DEF Types
      <4> QED
        BY <4>1 DEF Waiting, Frame
    <3> QED
      BY <1>6, <3>1 DEF HandleSystem, Types
  <2> QED
    BY <1>6, <2>1, <2>2 DEF HandleSystem, Types, WorkShape
<1>7. ASSUME NEW s \in Session, Drain(s) PROVE Types' /\ WorkShape'
  <2>1. dataCh[s] # <<>> => Tail(dataCh[s]) \in Seq(Frame) /\ Len(Tail(dataCh[s])) <= ChannelCap
    BY <1>7, Taken DEF Types
  <2>2. CASE dataCh[s] = <<>>
    BY <1>7, <2>2 DEF Drain, Types, WorkShape
  <2>3. CASE dataCh[s] # <<>>
    <3>1. dataCh' = [dataCh EXCEPT ![s] = Tail(@)] /\ UNCHANGED hpc
      BY <1>7, <2>3 DEF Drain
    <3>2. /\ dataCh' \in [Session -> Seq(Frame)]
          /\ \A t \in Session : Len(dataCh'[t]) <= ChannelCap
      BY <2>1, <2>3, <3>1 DEF Types
    <3>3. UNCHANGED <<clientVars, dispatcherVars, systemCh, work, outputVars>>
      BY <1>7 DEF Drain
    <3>4. purged' \in SUBSET Id
      <4>1. Head(dataCh[s]) \in Frame
        BY <2>3, Taken DEF Types
      <4>2. Head(dataCh[s]).id \in Id
        BY <4>1 DEF Frame
      <4>3. purged' = purged \cup {Head(dataCh[s]).id}
        BY <1>7, <2>3 DEF Drain
      <4> QED
        BY <4>2, <4>3 DEF Types
    <3> QED
      BY <3>1, <3>2, <3>3, <3>4 DEF Types, WorkShape
  <2> QED
    BY <2>2, <2>3
<1>8. ASSUME NEW s \in Session, PollSystemCh(s) PROVE Types' /\ WorkShape'
  BY <1>8 DEF PollSystemCh, Types, WorkShape
<1>9. ASSUME NEW s \in Session, TakeData(s) PROVE Types' /\ WorkShape'
  <2>1. dataCh[s] # <<>> => /\ Tail(dataCh[s]) \in Seq(Frame) /\ Len(Tail(dataCh[s])) <= ChannelCap
                            /\ Head(dataCh[s]) \in Frame
    BY <1>9, Taken DEF Types
  <2>2. CASE interrupted[s] \/ dataCh[s] = <<>>
    BY <1>9, <2>2 DEF TakeData, Types, WorkShape
  <2>3. CASE ~(interrupted[s] \/ dataCh[s] = <<>>)
    <3>1. /\ dataCh' = [dataCh EXCEPT ![s] = Tail(@)]
          /\ work' = [work EXCEPT ![s] = Head(dataCh[s])]
          /\ hpc' = [hpc EXCEPT ![s] = "adding"]
      BY <1>9, <2>3 DEF TakeData
    <3>2. /\ dataCh' \in [Session -> Seq(Frame)]
          /\ \A t \in Session : Len(dataCh'[t]) <= ChannelCap
      BY <2>1, <2>3, <3>1 DEF Types
    <3>3. UNCHANGED <<clientVars, dispatcherVars, systemCh, outputVars, purged>>
      BY <1>9 DEF TakeData
    <3>4. work' \in [Session -> Frame \cup {NoFrame}] /\ WorkShape'
      BY <2>1, <2>3, <3>1 DEF Types, WorkShape
    <3> QED
      BY <3>1, <3>2, <3>3, <3>4 DEF Types
  <2> QED
    BY <2>2, <2>3
<1>10. ASSUME NEW s \in Session, ProcessTranscription(s) PROVE Types' /\ WorkShape'
  <2>1. work[s] \in Frame /\ work[s].id \in Id
    BY <1>10 DEF ProcessTranscription, AddUserMessage, PublishStart, Generate, GenerateFails,
         PublishText, PublishEnd, At, WorkShape, Types, Frame
  <2>2. ASSUME NEW part \in {Start, Text, End}, PublishPart(s, part)
        PROVE  response' \in [Session -> Seq(Id \X {Start, Text, End})] /\ dataSub' \in Seq(Frame)
    <3>1. Append(response[s], <<work[s].id, part>>) \in Seq(Id \X {Start, Text, End})
      BY <2>1, Appended DEF Types
    <3>2. Append(dataSub, [work[s] EXCEPT !.kind = "OtherData"]) \in Seq(Frame)
      BY <2>1, OtherKind, Appended DEF Types
    <3> QED
      BY <2>2, <3>1, <3>2 DEF PublishPart, Types
  <2>3. ASSUME NEW role \in {"user", "assistant"}, Say(s, role)
        PROVE  conversation' \in [Session -> Seq({"user", "assistant"} \X Id)]
    <3>1. Append(conversation[s], <<role, work[s].id>>) \in Seq({"user", "assistant"} \X Id)
      BY <2>1, Appended DEF Types
    <3> QED
      BY <2>3, <3>1 DEF Say, Types
  <2>4. CASE AddUserMessage(s)
    BY <2>3, <2>4 DEF AddUserMessage, At, GoTo, Done, Types, WorkShape
  <2>5. CASE PublishStart(s)
    BY <2>2, <2>5 DEF PublishStart, At, GoTo, Types, WorkShape
  <2>6. CASE Generate(s)
    BY <2>3, <2>6 DEF Generate, At, GoTo, Types, WorkShape
  <2>7. CASE GenerateFails(s)
    <3>1. systemSub' \in Seq(Frame)
      <4>1. [work[s] EXCEPT !.kind = "OtherSystem"] \in Frame
        BY <2>1, OtherKind
      <4>2. Append(systemSub, [work[s] EXCEPT !.kind = "OtherSystem"]) \in Seq(Frame)
        BY <4>1, Appended DEF Types
      <4> QED
        BY <2>7, <4>2 DEF GenerateFails, Types
    <3> QED
      BY <2>7, <3>1 DEF GenerateFails, At, Done, Types, WorkShape
  <2>8. CASE PublishText(s)
    BY <2>2, <2>8 DEF PublishText, At, GoTo, Done, Types, WorkShape
  <2>9. CASE PublishEnd(s)
    BY <2>2, <2>9 DEF PublishEnd, At, Done, Types, WorkShape
  <2> QED
    BY <1>10, <2>4, <2>5, <2>6, <2>7, <2>8, <2>9 DEF ProcessTranscription
<1>11. CASE UNCHANGED vars
  BY <1>11 DEF vars, Types, WorkShape
<1> QED
  BY <1>1, <1>2, <1>3, <1>4, <1>5, <1>6, <1>7, <1>8, <1>9, <1>10, <1>11
     DEF Next, Client, Dispatcher, Handler

LEMMA TypesHold == Spec => [](TypeOK /\ WorkShape)
<1> QED
  BY InitTypes, NextTypes, PTL DEF Spec

\* Every variable has its type, and no channel holds more than it may: the
\* dispatcher waits for room (start_dispatcher).
THEOREM TypeCorrect == Spec => []TypeOK
<1> QED
  BY TypesHold, PTL

-----------------------------------------------------------------------------
(* What has not reached a session yet.  A transcription is known by its id. *)

IsTranscription(f) == f.kind = "Transcription"

\* Older than every transcription that has not reached a session yet.
Old(n) ==
  /\ n \in Int /\ n <= published
  /\ \A i \in DOMAIN dataSub : IsTranscription(dataSub[i]) => n < dataSub[i].id
  /\ sending # NoFrame /\ IsTranscription(sending) => n < sending.id

\* Transcriptions arrive in the order they were published, and only they and
\* system frames are sent to a session.
Arrivals ==
  /\ \A i \in DOMAIN systemSub : systemSub[i].kind \in SystemKinds
  /\ \A i, j \in DOMAIN dataSub :
       i < j /\ IsTranscription(dataSub[i]) /\ IsTranscription(dataSub[j]) =>
         dataSub[i].id < dataSub[j].id
  /\ \A i \in DOMAIN dataSub : IsTranscription(dataSub[i]) => dataSub[i].id <= published
  /\ sending # NoFrame =>
       /\ sending.kind \in SystemKinds \/ IsTranscription(sending)
       /\ IsTranscription(sending) =>
            /\ sending.id <= published
            /\ \A i \in DOMAIN dataSub : IsTranscription(dataSub[i]) => sending.id < dataSub[i].id

\* What a step does to the two subscriptions and to the frame being sent.
Arrives ==
  /\ published' = published + 1
  /\ \E f \in Frame :
       /\ f.id = published + 1
       /\ \/ f.kind \in SystemKinds /\ systemSub' = Append(systemSub, f) /\ dataSub' = dataSub
          \/ f.kind \notin SystemKinds /\ dataSub' = Append(dataSub, f) /\ systemSub' = systemSub
  /\ sending' = sending
Returns ==
  /\ published' = published /\ sending' = sending
  /\ \E f \in Frame :
       \/ f.kind = "OtherSystem" /\ systemSub' = Append(systemSub, f) /\ dataSub' = dataSub
       \/ f.kind = "OtherData" /\ dataSub' = Append(dataSub, f) /\ systemSub' = systemSub
ReadsSystem ==
  /\ sending = NoFrame /\ systemSub # <<>> /\ systemSub' = Tail(systemSub)
  /\ sending' \in {Head(systemSub), NoFrame}
  /\ UNCHANGED <<published, dataSub>>
ReadsData ==
  /\ sending = NoFrame /\ dataSub # <<>> /\ dataSub' = Tail(dataSub)
  /\ sending' = NoFrame \/ (sending' = Head(dataSub) /\ IsTranscription(Head(dataSub)))
  /\ UNCHANGED <<published, systemSub>>
NothingComes ==
  /\ UNCHANGED <<published, systemSub, dataSub>>
  /\ sending' \in {sending, NoFrame}

\* The dispatcher looks at the data subscription with nothing in hand.
PolledIsFree == dpc = "polled" => sending = NoFrame

LEMMA NextPolledIsFree == PolledIsFree /\ [Next]_vars => PolledIsFree'
<1> SUFFICES ASSUME PolledIsFree, [Next]_vars PROVE PolledIsFree'
  OBVIOUS
<1>1. CASE Client
  BY <1>1 DEF Client, Publish, PolledIsFree
<1>2. CASE Dispatcher
  BY <1>2 DEF Dispatcher, DispatchSystem, PollSystemSub, DispatchData, Send, PolledIsFree
<1>3. ASSUME NEW s \in Session, Handler(s) PROVE PolledIsFree'
  BY <1>3 DEF Handler, HandleSystem, Drain, PollSystemCh, TakeData, ProcessTranscription,
       AddUserMessage, PublishStart, Generate, GenerateFails, PublishText, PublishEnd,
       PolledIsFree, dispatcherVars
<1>4. CASE UNCHANGED vars
  BY <1>4 DEF vars, dispatcherVars, PolledIsFree
<1> QED
  BY <1>1, <1>2, <1>3, <1>4 DEF Next

\* Every step is one of these.
LEMMA ArrivalKinds ==
  ASSUME TypeOK, WorkShape, PolledIsFree, [Next]_vars
  PROVE  Arrives \/ Returns \/ ReadsSystem \/ ReadsData \/ NothingComes
<1> USE DEF TypeOK, clientVars, dispatcherVars
<1>1. ASSUME NEW s \in Session, NEW k \in Kinds, Publish(s, k) PROVE Arrives
  <2> DEFINE f == [id |-> published + 1, session |-> s, kind |-> k]
  <2>1. f \in Frame /\ f.id = published + 1 /\ f.kind = k
    BY <1>1 DEF Publish, Frame, Id
  <2> QED
    BY <1>1, <2>1 DEF Publish, Arrives
<1>2. CASE DispatchSystem
  BY <1>2 DEF DispatchSystem, Dispatch, ReadsSystem
<1>3. CASE DispatchData
  BY <1>3 DEF DispatchData, Dispatch, ReadsData, NothingComes, PolledIsFree, IsTranscription
<1>4. CASE PollSystemSub \/ Send
  BY <1>4 DEF PollSystemSub, Send, NothingComes
<1>5. ASSUME NEW s \in Session, HandleSystem(s) \/ Drain(s) \/ PollSystemCh(s) \/ TakeData(s)
      PROVE  NothingComes
  BY <1>5 DEF HandleSystem, Drain, PollSystemCh, TakeData, NothingComes
<1>6. ASSUME NEW s \in Session, ProcessTranscription(s) PROVE Returns \/ NothingComes
  <2>1. work[s] \in Frame
    BY <1>6 DEF ProcessTranscription, AddUserMessage, PublishStart, Generate, GenerateFails,
         PublishText, PublishEnd, At, WorkShape
  <2>2. ASSUME NEW part, PublishPart(s, part), UNCHANGED <<published, systemSub, sending>> PROVE Returns
    BY <2>1, <2>2, OtherKind DEF PublishPart, Returns
  <2>3. CASE AddUserMessage(s) \/ Generate(s)
    BY <2>3 DEF AddUserMessage, Generate, NothingComes
  <2>4. CASE PublishStart(s) \/ PublishText(s) \/ PublishEnd(s)
    BY <2>2, <2>4 DEF PublishStart, PublishText, PublishEnd, NothingComes
  <2>5. CASE GenerateFails(s)
    <3>1. CASE systemSub' = Append(systemSub, [work[s] EXCEPT !.kind = "OtherSystem"])
      BY <2>1, <2>5, <3>1, OtherKind DEF GenerateFails, Returns
    <3>2. CASE UNCHANGED systemSub
      BY <2>5, <3>2 DEF GenerateFails, NothingComes
    <3> QED
      BY <2>5, <3>1, <3>2 DEF GenerateFails
  <2> QED
    BY <1>6, <2>3, <2>4, <2>5 DEF ProcessTranscription
<1>7. CASE UNCHANGED vars
  BY <1>7 DEF vars, NothingComes
<1> QED
  BY <1>1, <1>2, <1>3, <1>4, <1>5, <1>6, <1>7 DEF Next, Client, Dispatcher, Handler

\* The types that matter here.
LEMMA SubscriptionTypes ==
  ASSUME TypeOK
  PROVE  /\ systemSub \in Seq(Frame) /\ dataSub \in Seq(Frame) /\ sending \in Frame \cup {NoFrame}
         /\ published \in Nat /\ \A f \in Frame : f.id \in Nat
         /\ \A i \in DOMAIN dataSub : dataSub[i] \in Frame
         /\ DOMAIN dataSub = 1 .. Len(dataSub) /\ Len(dataSub) \in Nat
<1>1. systemSub \in Seq(Frame) /\ dataSub \in Seq(Frame) /\ sending \in Frame \cup {NoFrame}
  BY DEF TypeOK
<1>2. published \in Nat /\ \A f \in Frame : f.id \in Nat
  BY DEF TypeOK, Frame, Id
<1>3. DOMAIN dataSub = 1 .. Len(dataSub) /\ Len(dataSub) \in Nat
  BY <1>1, LenProperties
<1>4. \A i \in DOMAIN dataSub : dataSub[i] \in Frame
  BY <1>1, <1>3, ElementOfSeq
<1> QED
  BY <1>1, <1>2, <1>3, <1>4

\* The order of arrival is kept.
LEMMA NextArrivals ==
  TypeOK /\ WorkShape /\ PolledIsFree /\ Arrivals /\ [Next]_vars => Arrivals'
<1> SUFFICES ASSUME TypeOK, WorkShape, PolledIsFree, Arrivals, [Next]_vars PROVE Arrivals'
  OBVIOUS
<1>0. /\ systemSub \in Seq(Frame) /\ dataSub \in Seq(Frame) /\ sending \in Frame \cup {NoFrame}
      /\ published \in Nat /\ \A f \in Frame : f.id \in Nat
      /\ \A i \in DOMAIN dataSub : dataSub[i] \in Frame
      /\ DOMAIN dataSub = 1 .. Len(dataSub) /\ Len(dataSub) \in Nat
  BY SubscriptionTypes
<1> USE <1>0 DEF IsTranscription
<1>1. CASE Arrives
  <2>0. PICK f \in Frame :
       /\ f.id = published + 1
       /\ \/ f.kind \in SystemKinds /\ systemSub' = Append(systemSub, f) /\ dataSub' = dataSub
          \/ f.kind \notin SystemKinds /\ dataSub' = Append(dataSub, f) /\ systemSub' = systemSub
    BY <1>1 DEF Arrives
  <2>1. CASE systemSub' = Append(systemSub, f) /\ dataSub' = dataSub /\ f.kind \in SystemKinds
    <3>1. /\ DOMAIN systemSub' = 1 .. Len(systemSub) + 1 /\ Len(systemSub) \in Nat
          /\ DOMAIN systemSub = 1 .. Len(systemSub)
          /\ \A i \in 1 .. Len(systemSub) : systemSub'[i] = systemSub[i]
          /\ systemSub'[Len(systemSub) + 1] = f
      BY <2>1, Appended
    <3>2. \A i \in DOMAIN systemSub' : systemSub'[i].kind \in SystemKinds
      BY <2>1, <3>1 DEF Arrivals
    <3>3. published' \in Nat /\ published <= published' /\ sending' = sending
      BY <1>1 DEF Arrives
    <3>4. \A i \in DOMAIN dataSub : IsTranscription(dataSub[i]) => dataSub[i].id <= published'
      BY <3>3 DEF Arrivals
    <3>5. sending # NoFrame /\ IsTranscription(sending) => sending.id <= published'
      BY <3>3 DEF Arrivals
    <3> QED
      BY <2>1, <3>2, <3>3, <3>4, <3>5 DEF Arrivals
  <2>2. CASE dataSub' = Append(dataSub, f) /\ systemSub' = systemSub
    <3>1. /\ DOMAIN dataSub' = 1 .. Len(dataSub) + 1
          /\ \A i \in 1 .. Len(dataSub) : dataSub'[i] = dataSub[i]
          /\ dataSub'[Len(dataSub) + 1] = f
      BY <2>2, Appended
    <3>2. published' \in Nat /\ published <= published' /\ sending' = sending
      BY <1>1 DEF Arrives
    <3>3. \A i \in DOMAIN dataSub' : i \in 1 .. Len(dataSub) \/ i = Len(dataSub) + 1
      BY <3>1
    <3>4. \A i \in DOMAIN dataSub' : IsTranscription(dataSub'[i]) => dataSub'[i].id <= published'
      <4> SUFFICES ASSUME NEW i \in DOMAIN dataSub', IsTranscription(dataSub'[i])
                   PROVE  dataSub'[i].id <= published'
        OBVIOUS
      <4>1. CASE i \in 1 .. Len(dataSub)
        BY <3>1, <3>2, <4>1 DEF Arrivals
      <4>2. CASE i = Len(dataSub) + 1
        BY <1>1, <2>0, <3>1, <4>2 DEF Arrives
      <4> QED
        BY <3>3, <4>1, <4>2
    <3>5. \A i, j \in DOMAIN dataSub' :
            i < j /\ IsTranscription(dataSub'[i]) /\ IsTranscription(dataSub'[j]) =>
              dataSub'[i].id < dataSub'[j].id
      <4> SUFFICES ASSUME NEW i \in DOMAIN dataSub', NEW j \in DOMAIN dataSub', i < j,
                          IsTranscription(dataSub'[i]), IsTranscription(dataSub'[j])
                   PROVE  dataSub'[i].id < dataSub'[j].id
        OBVIOUS
      <4>1. i \in 1 .. Len(dataSub) /\ dataSub'[i] = dataSub[i]
        BY <3>1, <3>3
      <4>2. CASE j \in 1 .. Len(dataSub)
        BY <3>1, <4>1, <4>2 DEF Arrivals
      <4>3. CASE j = Len(dataSub) + 1
        BY <2>0, <3>1, <4>1, <4>3 DEF Arrivals
      <4> QED
        BY <3>3, <4>2, <4>3
    <3>6. sending' # NoFrame =>
            /\ sending'.kind \in SystemKinds \/ IsTranscription(sending')
            /\ IsTranscription(sending') =>
                 /\ sending'.id <= published'
                 /\ \A i \in DOMAIN dataSub' : IsTranscription(dataSub'[i]) => sending'.id < dataSub'[i].id
      <4>1. sending # NoFrame /\ IsTranscription(sending) => sending.id <= published /\ sending.id \in Nat
        BY DEF Arrivals
      <4>2. sending # NoFrame /\ IsTranscription(sending) =>
              sending.id <= published' /\ sending.id < f.id
        BY <1>1, <2>0, <4>1 DEF Arrives
      <4> QED
        BY <2>0, <3>1, <3>2, <3>3, <4>2 DEF Arrivals
    <3> QED
      BY <2>2, <3>4, <3>5, <3>6 DEF Arrivals
  <2> QED
    BY <2>0, <2>1, <2>2
<1>2. CASE Returns
  <2>0. PICK f \in Frame :
       \/ f.kind = "OtherSystem" /\ systemSub' = Append(systemSub, f) /\ dataSub' = dataSub
       \/ f.kind = "OtherData" /\ dataSub' = Append(dataSub, f) /\ systemSub' = systemSub
    BY <1>2 DEF Returns
  <2>1. CASE systemSub' = Append(systemSub, f) /\ dataSub' = dataSub /\ f.kind = "OtherSystem"
    <3>1. /\ DOMAIN systemSub' = 1 .. Len(systemSub) + 1 /\ Len(systemSub) \in Nat
          /\ DOMAIN systemSub = 1 .. Len(systemSub)
          /\ \A i \in 1 .. Len(systemSub) : systemSub'[i] = systemSub[i]
          /\ systemSub'[Len(systemSub) + 1] = f
      BY <2>1, Appended
    <3>2. \A i \in DOMAIN systemSub' : systemSub'[i].kind \in SystemKinds
      BY <2>1, <3>1 DEF Arrivals
    <3> QED
      BY <1>2, <2>1, <3>2 DEF Returns, Arrivals
  <2>2. CASE dataSub' = Append(dataSub, f) /\ systemSub' = systemSub /\ f.kind = "OtherData"
    <3>1. /\ DOMAIN dataSub' = 1 .. Len(dataSub) + 1
          /\ \A i \in 1 .. Len(dataSub) : dataSub'[i] = dataSub[i]
          /\ dataSub'[Len(dataSub) + 1] = f
      BY <2>2, Appended
    <3>2. published' \in Nat /\ published <= published' /\ sending' = sending
      BY <1>2 DEF Returns
    <3>3. \A i \in DOMAIN dataSub' : i \in 1 .. Len(dataSub) \/ i = Len(dataSub) + 1
      BY <3>1
    <3>4. \A i \in DOMAIN dataSub' : IsTranscription(dataSub'[i]) => dataSub'[i].id <= published'
      BY <1>2, <2>0, <2>2, <3>1, <3>2, <3>3 DEF Returns, Arrivals
    <3>5. \A i, j \in DOMAIN dataSub' :
            i < j /\ IsTranscription(dataSub'[i]) /\ IsTranscription(dataSub'[j]) =>
              dataSub'[i].id < dataSub'[j].id
      <4> SUFFICES ASSUME NEW i \in DOMAIN dataSub', NEW j \in DOMAIN dataSub', i < j,
                          IsTranscription(dataSub'[i]), IsTranscription(dataSub'[j])
                   PROVE  dataSub'[i].id < dataSub'[j].id
        OBVIOUS
      <4>1. i \in 1 .. Len(dataSub) /\ dataSub'[i] = dataSub[i]
        BY <3>1, <3>3
      <4>2. CASE j \in 1 .. Len(dataSub)
        BY <3>1, <4>1, <4>2 DEF Arrivals
      <4>3. CASE j = Len(dataSub) + 1
        BY <2>0, <3>1, <4>1, <4>3 DEF Arrivals
      <4> QED
        BY <3>3, <4>2, <4>3
    <3>6. sending' # NoFrame =>
            /\ sending'.kind \in SystemKinds \/ IsTranscription(sending')
            /\ IsTranscription(sending') =>
                 /\ sending'.id <= published'
                 /\ \A i \in DOMAIN dataSub' : IsTranscription(dataSub'[i]) => sending'.id < dataSub'[i].id
      BY <1>2, <2>0, <2>2, <3>1, <3>2, <3>3 DEF Returns, Arrivals
    <3> QED
      BY <2>2, <3>4, <3>5, <3>6 DEF Arrivals
  <2> QED
    BY <2>0, <2>1, <2>2
<1>3. CASE ReadsSystem
  BY <1>3, Taken DEF ReadsSystem, Arrivals
<1>4. CASE ReadsData
  <2>1. /\ DOMAIN dataSub' = 1 .. Len(dataSub) - 1 /\ 1 \in DOMAIN dataSub /\ Head(dataSub) = dataSub[1]
        /\ \A i \in 1 .. Len(dataSub) - 1 : i + 1 \in DOMAIN dataSub /\ dataSub'[i] = dataSub[i + 1]
    BY <1>4, Taken DEF ReadsData
  <2>2. \A i \in DOMAIN dataSub' : 1 < i + 1 /\ i \in Nat
    BY <2>1
  <2>3. \A i, j \in DOMAIN dataSub' : i < j => i + 1 < j + 1
    BY <2>2
  <2> QED
    <3>1. \A i, j \in DOMAIN dataSub' :
            i < j /\ IsTranscription(dataSub'[i]) /\ IsTranscription(dataSub'[j]) =>
              dataSub'[i].id < dataSub'[j].id
      BY <2>1, <2>3 DEF Arrivals
    <3>2. UNCHANGED <<published, systemSub>>
      BY <1>4 DEF ReadsData
    <3>3. \A i \in DOMAIN dataSub' : IsTranscription(dataSub'[i]) => dataSub'[i].id <= published
      BY <2>1 DEF Arrivals
    <3>4. sending' # NoFrame =>
            /\ IsTranscription(sending') /\ sending'.id <= published
            /\ \A i \in DOMAIN dataSub' : IsTranscription(dataSub'[i]) => sending'.id < dataSub'[i].id
      BY <1>4, <2>1, <2>2 DEF ReadsData, Arrivals
    <3> QED
      BY <3>1, <3>2, <3>3, <3>4 DEF Arrivals
<1>5. CASE NothingComes
  BY <1>5 DEF NothingComes, Arrivals
<1> QED
  BY <1>1, <1>2, <1>3, <1>4, <1>5, ArrivalKinds

\* What is old stays old.
LEMMA OldStays ==
  ASSUME TypeOK, WorkShape, PolledIsFree, Arrivals, [Next]_vars, NEW n, Old(n)
  PROVE  Old(n)'
<1>0. /\ systemSub \in Seq(Frame) /\ dataSub \in Seq(Frame) /\ sending \in Frame \cup {NoFrame}
      /\ published \in Nat /\ \A f \in Frame : f.id \in Nat
      /\ \A i \in DOMAIN dataSub : dataSub[i] \in Frame
      /\ DOMAIN dataSub = 1 .. Len(dataSub) /\ Len(dataSub) \in Nat
  BY SubscriptionTypes
<1> USE <1>0 DEF IsTranscription
<1>1. CASE Arrives
  <2>1. published' >= published /\ sending' = sending /\ published' \in Nat
    BY <1>1 DEF Arrives
  <2>2. CASE dataSub' = dataSub
    BY <2>1, <2>2 DEF Old
  <2>3. ASSUME NEW f \in Frame, dataSub' = Append(dataSub, f), IsTranscription(f) => n < f.id
        PROVE  Old(n)'
    <3>1. /\ DOMAIN dataSub' = 1 .. Len(dataSub) + 1
          /\ \A i \in 1 .. Len(dataSub) : dataSub'[i] = dataSub[i]
          /\ dataSub'[Len(dataSub) + 1] = f
      BY <2>3, Appended
    <3>2. \A i \in DOMAIN dataSub' : IsTranscription(dataSub'[i]) => n < dataSub'[i].id
      BY <2>3, <3>1 DEF Old
    <3> QED
      BY <2>1, <3>2 DEF Old
  <2> QED
    BY <1>1, <2>2, <2>3 DEF Arrives, Old
<1>2. CASE Returns
  <2>1. published' >= published /\ sending' = sending /\ published' \in Nat
    BY <1>2 DEF Returns
  <2>2. CASE dataSub' = dataSub
    BY <2>1, <2>2 DEF Old
  <2>3. ASSUME NEW f \in Frame, dataSub' = Append(dataSub, f), IsTranscription(f) => n < f.id
        PROVE  Old(n)'
    <3>1. /\ DOMAIN dataSub' = 1 .. Len(dataSub) + 1
          /\ \A i \in 1 .. Len(dataSub) : dataSub'[i] = dataSub[i]
          /\ dataSub'[Len(dataSub) + 1] = f
      BY <2>3, Appended
    <3>2. \A i \in DOMAIN dataSub' : IsTranscription(dataSub'[i]) => n < dataSub'[i].id
      BY <2>3, <3>1 DEF Old
    <3> QED
      BY <2>1, <3>2 DEF Old
  <2> QED
    BY <1>2, <2>2, <2>3 DEF Returns, Old
<1>3. CASE ReadsSystem
  <2>1. 1 \in DOMAIN systemSub /\ Head(systemSub) = systemSub[1]
    BY <1>3, Taken DEF ReadsSystem
  <2>2. sending' # NoFrame => ~IsTranscription(sending')
    BY <1>3, <2>1 DEF ReadsSystem, Arrivals
  <2> QED
    BY <1>3, <2>2 DEF ReadsSystem, Old
<1>4. CASE ReadsData
  BY <1>4, Taken DEF ReadsData, Old
<1>5. CASE NothingComes
  BY <1>5 DEF NothingComes, Old
<1> QED
  BY <1>1, <1>2, <1>3, <1>4, <1>5, ArrivalKinds

-----------------------------------------------------------------------------
(* What a step does to one session. *)

\* Nothing but a turn of its loop.
Keeps(s) ==
  /\ dataCh'[s] = dataCh[s] /\ work'[s] = work[s]
  /\ conversation'[s] = conversation[s] /\ response'[s] = response[s]
  /\ \/ hpc'[s] = hpc[s]
     \/ hpc[s] \in {"none", "select"} /\ hpc'[s] \in {"select", "polled"}

\* The dispatcher's transcription enters its channel.
Gets(s) ==
  /\ sending \in Frame /\ IsTranscription(sending) /\ sending.session = s /\ sending' = NoFrame
  /\ dataCh'[s] = Append(dataCh[s], sending) /\ work'[s] = work[s] /\ hpc'[s] = hpc[s]
  /\ conversation'[s] = conversation[s] /\ response'[s] = response[s]
  /\ UNCHANGED <<published, dataSub>>

LEMMA SessionKinds ==
  ASSUME TypeOK, Arrivals, [Next]_vars, NEW s \in Session
  PROVE  Keeps(s) \/ Gets(s) \/ HandleSystem(s) \/ Drain(s) \/ TakeData(s) \/ ProcessTranscription(s)
<1> USE DEF TypeOK, clientVars, dispatcherVars, channelVars, handlerVars, outputVars
<1>1. CASE Client
  BY <1>1 DEF Client, Publish, Keeps
<1>2. CASE DispatchSystem
  BY <1>2 DEF DispatchSystem, Dispatch, Keeps
<1>3. CASE DispatchData
  BY <1>3 DEF DispatchData, Dispatch, Keeps
<1>4. CASE PollSystemSub
  BY <1>4 DEF PollSystemSub, Keeps
<1>5. CASE Send
  <2>1. sending \in Frame /\ sending.session \in Session
    BY <1>5 DEF Send, Frame
  <2>2. CASE dataCh' = dataCh
    BY <1>5, <2>2 DEF Send, Keeps
  <2>3. CASE /\ dataCh' = [dataCh EXCEPT ![sending.session] = Append(@, sending)]
             /\ sending.kind \notin SystemKinds
    <3>1. IsTranscription(sending)
      BY <1>5, <2>3 DEF Send, Arrivals
    <3>2. CASE s = sending.session
      BY <1>5, <2>1, <2>3, <3>1, <3>2 DEF Send, Gets
    <3>3. CASE s # sending.session
      BY <1>5, <2>1, <2>3, <3>3 DEF Send, Keeps
    <3> QED
      BY <3>2, <3>3
  <2> QED
    BY <1>5, <2>2, <2>3 DEF Send
<1>6. ASSUME NEW t \in Session, t # s, HandleSystem(t) \/ Drain(t) \/ TakeData(t) PROVE Keeps(s)
  BY <1>6 DEF HandleSystem, Drain, TakeData, Keeps
<1>7. ASSUME NEW t \in Session, PollSystemCh(t) PROVE Keeps(s)
  BY <1>7 DEF PollSystemCh, Keeps
<1>8. ASSUME NEW t \in Session, t # s, ProcessTranscription(t) PROVE Keeps(s)
  BY <1>8 DEF ProcessTranscription, AddUserMessage, PublishStart, Generate, GenerateFails,
       PublishText, PublishEnd, PublishPart, Say, GoTo, Done, Keeps
<1>9. CASE UNCHANGED vars
  BY <1>9 DEF vars, Keeps
<1> QED
  BY <1>1, <1>2, <1>3, <1>4, <1>5, <1>6, <1>7, <1>8, <1>9 DEF Next, Dispatcher, Handler

\* A session's channel with one frame more or less.
LEMMA ChannelTypes ==
  ASSUME TypeOK, NEW s \in Session
  PROVE  /\ dataCh[s] \in Seq(Frame)
         /\ DOMAIN dataCh[s] = 1 .. Len(dataCh[s]) /\ Len(dataCh[s]) \in Nat
         /\ \A i \in DOMAIN dataCh[s] : dataCh[s][i] \in Frame
         /\ \A f \in Frame : f.id \in Nat
         /\ work[s] # NoFrame => work[s] \in Frame
<1>1. dataCh[s] \in Seq(Frame)
  BY DEF TypeOK
<1>2. DOMAIN dataCh[s] = 1 .. Len(dataCh[s]) /\ Len(dataCh[s]) \in Nat
  BY <1>1, LenProperties
<1>3. \A i \in DOMAIN dataCh[s] : dataCh[s][i] \in Frame
  BY <1>1, <1>2, ElementOfSeq
<1>4. \A f \in Frame : f.id \in Nat
  BY DEF Frame, Id
<1>5. work[s] # NoFrame => work[s] \in Frame
  BY DEF TypeOK
<1> QED
  BY <1>1, <1>2, <1>3, <1>4, <1>5

\* How the channel of a session changes, and with it what the handler has in hand.
Same(s) == dataCh'[s] = dataCh[s] /\ (work'[s] = work[s] \/ work'[s] = NoFrame)
Empties(s) == dataCh'[s] = <<>> /\ work'[s] = work[s]
Loses(s) == dataCh[s] # <<>> /\ dataCh'[s] = Tail(dataCh[s]) /\ work'[s] = work[s]
Takes(s) == dataCh[s] # <<>> /\ dataCh'[s] = Tail(dataCh[s]) /\ work'[s] = Head(dataCh[s])

LEMMA ChannelKinds ==
  ASSUME TypeOK, Arrivals, [Next]_vars, NEW s \in Session
  PROVE  Same(s) \/ Empties(s) \/ Loses(s) \/ Takes(s) \/ Gets(s)
<1> USE DEF TypeOK, channelVars, handlerVars
<1>1. CASE Keeps(s)
  BY <1>1 DEF Keeps, Same
<1>2. CASE HandleSystem(s)
  BY <1>2 DEF HandleSystem, Same, Empties
<1>3. CASE Drain(s)
  BY <1>3 DEF Drain, Same, Loses
<1>4. CASE TakeData(s)
  BY <1>4 DEF TakeData, Same, Takes
<1>5. CASE ProcessTranscription(s)
  BY <1>5 DEF ProcessTranscription, AddUserMessage, PublishStart, Generate, GenerateFails,
       PublishText, PublishEnd, GoTo, Done, Same
<1> QED
  BY <1>1, <1>2, <1>3, <1>4, <1>5, SessionKinds

-----------------------------------------------------------------------------
(* What a session holds. *)

Hands(s, n) == work[s] # NoFrame /\ work[s].id = n
Waits(s, n) == \E i \in DOMAIN dataCh[s] : dataCh[s][i].id = n
Held(s, n) == Hands(s, n) \/ Waits(s, n)

LEMMA WaitingIs == \A s \in Session : \A n : n \in Waiting(s) <=> Waits(s, n)
  BY DEF Waiting, Waits

\* What is held is old; the channel is in order, and comes after what is in hand.
InOrder ==
  \A s \in Session :
    /\ \A n : Held(s, n) => Old(n)
    /\ \A i, j \in DOMAIN dataCh[s] : i < j => dataCh[s][i].id < dataCh[s][j].id
    /\ \A i \in DOMAIN dataCh[s] : work[s] # NoFrame => work[s].id < dataCh[s][i].id

\* No two sessions hold the same.
Apart == \A s, t \in Session : \A n : Held(s, n) /\ Held(t, n) => s = t

\* What is sent to a session becomes old with that.
LEMMA SentIsOld ==
  ASSUME TypeOK, WorkShape, PolledIsFree, Arrivals, [Next]_vars, NEW s \in Session, Gets(s)
  PROVE  /\ \A n : n = sending.id => Old(n)'
         /\ sending.id \in Nat
         /\ \A n : Old(n) => n < sending.id
<1>1. sending # NoFrame /\ sending.id \in Nat
  BY NoFrameAssumption, SubscriptionTypes DEF Gets
<1>2. \A n : Old(n) => n < sending.id
  BY <1>1 DEF Old, Gets
<1>3. /\ sending.id <= published
      /\ \A i \in DOMAIN dataSub : IsTranscription(dataSub[i]) => sending.id < dataSub[i].id
  BY <1>1 DEF Gets, Arrivals
<1>4. sending' = NoFrame /\ published' = published /\ dataSub' = dataSub
  BY DEF Gets
<1>5. \A n : n = sending.id => Old(n)'
  BY <1>1, <1>3, <1>4 DEF Old, IsTranscription
<1> QED
  BY <1>1, <1>2, <1>5

\* What a session holds next it holds now, or is sent now.
LEMMA HeldGrows ==
  ASSUME TypeOK, Arrivals, [Next]_vars, NEW s \in Session, NEW n
  PROVE  /\ Waits(s, n)' => Waits(s, n) \/ (Gets(s) /\ n = sending.id)
         /\ Held(s, n)' => Held(s, n) \/ (Gets(s) /\ n = sending.id)
<1> USE ChannelTypes DEF Waits, Hands, Held
<1>1. CASE Same(s) \/ Empties(s)
  BY <1>1 DEF Same, Empties
<1>2. CASE Loses(s) \/ Takes(s)
  <2>1. /\ DOMAIN dataCh'[s] = 1 .. Len(dataCh[s]) - 1 /\ 1 \in DOMAIN dataCh[s]
        /\ Head(dataCh[s]) = dataCh[s][1]
        /\ \A i \in 1 .. Len(dataCh[s]) - 1 : i + 1 \in DOMAIN dataCh[s] /\ dataCh'[s][i] = dataCh[s][i + 1]
    BY <1>2, Taken DEF Loses, Takes
  <2> QED
    BY <1>2, <2>1 DEF Loses, Takes
<1>3. CASE Gets(s)
  <2>1. /\ DOMAIN dataCh'[s] = 1 .. Len(dataCh[s]) + 1
        /\ \A i \in 1 .. Len(dataCh[s]) : dataCh'[s][i] = dataCh[s][i]
        /\ dataCh'[s][Len(dataCh[s]) + 1] = sending
    BY <1>3, Appended DEF Gets
  <2>2. \A i \in DOMAIN dataCh'[s] : i \in DOMAIN dataCh[s] \/ i = Len(dataCh[s]) + 1
    BY <2>1
  <2> QED
    BY <1>3, <2>1, <2>2 DEF Gets
<1> QED
  BY <1>1, <1>2, <1>3, ChannelKinds

LEMMA NextInOrder ==
  TypeOK /\ WorkShape /\ PolledIsFree /\ Arrivals /\ InOrder /\ [Next]_vars => InOrder'
<1> SUFFICES ASSUME TypeOK, WorkShape, PolledIsFree, Arrivals, InOrder, [Next]_vars,
                    NEW s \in Session
             PROVE  /\ \A n : Held(s, n)' => Old(n)'
                    /\ \A i, j \in DOMAIN dataCh'[s] : i < j => dataCh'[s][i].id < dataCh'[s][j].id
                    /\ \A i \in DOMAIN dataCh'[s] : work'[s] # NoFrame => work'[s].id < dataCh'[s][i].id
  BY DEF InOrder
<1>1. \A n : Held(s, n)' => Old(n)'
  <2> SUFFICES ASSUME NEW n, Held(s, n)' PROVE Old(n)'
    OBVIOUS
  <2>1. CASE Held(s, n)
    <3>1. Old(n)
      BY <2>1 DEF InOrder
    <3> QED
      BY <3>1, OldStays
  <2>2. CASE Gets(s) /\ n = sending.id
    BY <2>2, SentIsOld
  <2> QED
    BY <2>1, <2>2, HeldGrows
<1>2. CASE Same(s) \/ Empties(s)
  BY <1>1, <1>2 DEF Same, Empties, InOrder
<1>3. CASE Loses(s) \/ Takes(s)
  <2>1. /\ DOMAIN dataCh'[s] = 1 .. Len(dataCh[s]) - 1 /\ 1 \in DOMAIN dataCh[s]
        /\ Head(dataCh[s]) = dataCh[s][1] /\ Len(dataCh[s]) \in Nat
        /\ \A i \in 1 .. Len(dataCh[s]) - 1 : i + 1 \in DOMAIN dataCh[s] /\ dataCh'[s][i] = dataCh[s][i + 1]
    BY <1>3, Taken, ChannelTypes DEF Loses, Takes
  <2>2. \A i, j \in DOMAIN dataCh'[s] : 1 < i + 1 /\ (i < j => i + 1 < j + 1)
    BY <2>1
  <2>3. \A i, j \in DOMAIN dataCh'[s] : i < j => dataCh'[s][i].id < dataCh'[s][j].id
    BY <2>1, <2>2 DEF InOrder
  <2>4. \A i \in DOMAIN dataCh'[s] : work'[s] # NoFrame => work'[s].id < dataCh'[s][i].id
    BY <1>3, <2>1, <2>2 DEF Loses, Takes, InOrder
  <2> QED
    BY <1>1, <2>3, <2>4
<1>4. CASE Gets(s)
  <2>1. /\ DOMAIN dataCh'[s] = 1 .. Len(dataCh[s]) + 1 /\ Len(dataCh[s]) \in Nat
        /\ DOMAIN dataCh[s] = 1 .. Len(dataCh[s])
        /\ \A i \in 1 .. Len(dataCh[s]) : dataCh'[s][i] = dataCh[s][i]
        /\ dataCh'[s][Len(dataCh[s]) + 1] = sending
    BY <1>4, Appended, ChannelTypes DEF Gets
  <2>2. \A n : Held(s, n) => n < sending.id
    BY <1>4, SentIsOld DEF InOrder
  <2>3. \A i \in DOMAIN dataCh[s] : dataCh[s][i].id < sending.id
    BY <2>2 DEF Held, Waits
  <2>4. work[s] # NoFrame => work[s].id < sending.id
    BY <2>2 DEF Held, Hands
  <2>5. \A i, j \in DOMAIN dataCh'[s] :
          i < j => i \in DOMAIN dataCh[s] /\ (j \in DOMAIN dataCh[s] \/ j = Len(dataCh[s]) + 1)
    BY <2>1
  <2>6. \A i, j \in DOMAIN dataCh'[s] : i < j => dataCh'[s][i].id < dataCh'[s][j].id
    BY <2>1, <2>3, <2>5 DEF InOrder
  <2>7. \A i \in DOMAIN dataCh'[s] : i \in DOMAIN dataCh[s] \/ i = Len(dataCh[s]) + 1
    BY <2>1
  <2>8. \A i \in DOMAIN dataCh'[s] : work'[s] # NoFrame => work'[s].id < dataCh'[s][i].id
    BY <1>4, <2>1, <2>4, <2>7 DEF Gets, InOrder
  <2> QED
    BY <1>1, <2>6, <2>8
<1> QED
  BY <1>1, <1>2, <1>3, <1>4, ChannelKinds

LEMMA NextApart ==
  TypeOK /\ WorkShape /\ PolledIsFree /\ Arrivals /\ InOrder /\ Apart /\ [Next]_vars => Apart'
<1> SUFFICES ASSUME TypeOK, WorkShape, PolledIsFree, Arrivals, InOrder, Apart, [Next]_vars,
                    NEW s \in Session, NEW t \in Session, NEW n, Held(s, n)', Held(t, n)'
             PROVE  s = t
  BY DEF Apart
<1>1. Held(s, n) \/ (Gets(s) /\ n = sending.id)
  BY HeldGrows
<1>2. Held(t, n) \/ (Gets(t) /\ n = sending.id)
  BY HeldGrows
<1>3. CASE Held(s, n) /\ Held(t, n)
  BY <1>3 DEF Apart
<1>4. CASE Gets(s) /\ Gets(t)
  BY <1>4 DEF Gets
<1>5. ASSUME NEW a \in Session, NEW b \in Session, Held(a, n), Gets(b), n = sending.id PROVE FALSE
  <2>1. Old(n)
    BY <1>5 DEF InOrder
  <2> QED
    BY <1>5, <2>1, SentIsOld
<1> QED
  BY <1>1, <1>2, <1>3, <1>4, <1>5

-----------------------------------------------------------------------------
(* What was purged. *)

\* What was purged is in nobody's hands, and in a channel only while that drains.
PurgedIsGone ==
  \A n \in purged :
    /\ Old(n)
    /\ \A s \in Session : ~Hands(s, n) /\ (Waits(s, n) => hpc[s] = "drain")

\* A session begins to drain.
Interrupts(s) ==
  HandleSystem(s) /\ hpc[s] = "select" /\ Head(systemCh[s]).kind = "StartInterruption"

\* It drops a frame.
Drops(s) == Drain(s) /\ dataCh[s] # <<>>

\* What is purged now waits in a session that begins to drain, or drains.
LEMMA PurgedGrows ==
  ASSUME TypeOK, [Next]_vars, NEW n \in purged', n \notin purged
  PROVE  \E s \in Session : Waits(s, n) /\ (Interrupts(s) \/ Drops(s))
<1>1. CASE Client \/ Dispatcher
  BY <1>1 DEF Client, Publish, Dispatcher, DispatchSystem, PollSystemSub, DispatchData, Send
<1>2. ASSUME NEW s \in Session, Handler(s), ~HandleSystem(s), ~Drain(s) PROVE FALSE
  BY <1>2 DEF Handler, PollSystemCh, TakeData, ProcessTranscription, AddUserMessage,
       PublishStart, Generate, GenerateFails, PublishText, PublishEnd
<1>3. ASSUME NEW s \in Session, HandleSystem(s)
      PROVE  Waits(s, n) /\ Interrupts(s)
  BY <1>3, WaitingIs DEF HandleSystem, Interrupts
<1>4. ASSUME NEW s \in Session, Drain(s)
      PROVE  Waits(s, n) /\ Drops(s)
  <2>1. dataCh[s] # <<>> /\ n = Head(dataCh[s]).id
    BY <1>4 DEF Drain
  <2> QED
    BY <1>4, <2>1, Taken, ChannelTypes DEF Waits, Drops
<1>5. CASE UNCHANGED vars
  BY <1>5 DEF vars
<1> QED
  BY <1>1, <1>2, <1>3, <1>4, <1>5 DEF Next, Handler

\* Nothing purged is held, or comes to be held, except where it drains.
LEMMA StaysPurged ==
  ASSUME TypeOK, WorkShape, PolledIsFree, Arrivals, InOrder, PurgedIsGone, [Next]_vars,
         NEW n \in purged, NEW s \in Session
  PROVE  ~Hands(s, n)' /\ (Waits(s, n)' => hpc'[s] = "drain")
<1>1. Old(n) /\ ~Hands(s, n) /\ (Waits(s, n) => hpc[s] = "drain")
  BY DEF PurgedIsGone
<1>2. Waits(s, n)' => Waits(s, n)
  BY <1>1, HeldGrows, SentIsOld
<1>3. CASE Keeps(s) \/ Gets(s)
  BY <1>1, <1>2, <1>3 DEF Keeps, Gets, Hands
<1>4. CASE HandleSystem(s)
  BY <1>1, <1>2, <1>4 DEF HandleSystem, Hands
<1>5. CASE Drain(s)
  <2>1. CASE dataCh[s] = <<>>
    BY <1>1, <1>2, <1>5, <2>1 DEF Drain, Hands, Waits
  <2>2. CASE dataCh[s] # <<>>
    BY <1>1, <1>5, <2>2 DEF Drain, Hands
  <2> QED
    BY <2>1, <2>2
<1>6. CASE TakeData(s)
  <2>1. ~Waits(s, n)
    BY <1>1, <1>6 DEF TakeData
  <2>2. dataCh[s] # <<>> => Head(dataCh[s]).id # n
    BY <2>1, Taken, ChannelTypes DEF Waits
  <2>3. work'[s] = work[s] \/ (dataCh[s] # <<>> /\ work'[s] = Head(dataCh[s]))
    BY <1>6 DEF TakeData, TypeOK
  <2> QED
    BY <1>1, <1>2, <2>1, <2>2, <2>3 DEF Hands
<1>7. CASE ProcessTranscription(s)
  <2>1. hpc[s] # "drain" /\ work'[s] \in {work[s], NoFrame}
    BY <1>7 DEF ProcessTranscription, AddUserMessage, PublishStart, Generate, GenerateFails,
         PublishText, PublishEnd, GoTo, Done, At, TypeOK
  <2> QED
    BY <1>1, <1>2, <2>1 DEF Hands
<1> QED
  BY <1>3, <1>4, <1>5, <1>6, <1>7, SessionKinds

LEMMA NextPurged ==
  TypeOK /\ WorkShape /\ PolledIsFree /\ Arrivals /\ InOrder /\ Apart /\ PurgedIsGone /\ [Next]_vars
    => PurgedIsGone'
<1> SUFFICES ASSUME TypeOK, WorkShape, PolledIsFree, Arrivals, InOrder, Apart, PurgedIsGone,
                    [Next]_vars, NEW n \in purged'
             PROVE  Old(n)' /\ \A s \in Session : ~Hands(s, n)' /\ (Waits(s, n)' => hpc'[s] = "drain")
  BY DEF PurgedIsGone
<1>1. CASE n \in purged
  <2>1. Old(n)
    BY <1>1 DEF PurgedIsGone
  <2> QED
    BY <1>1, <2>1, OldStays, StaysPurged
<1>2. CASE n \notin purged
  <2>1. PICK s \in Session : Waits(s, n) /\ (Interrupts(s) \/ Drops(s))
    BY <1>2, PurgedGrows
  <2>2. Old(n)
    BY <2>1 DEF InOrder, Held
  <2>3. hpc'[s] = "drain" /\ ~Hands(s, n)'
    BY <2>1 DEF Interrupts, Drops, HandleSystem, Drain, WorkShape, Hands, TypeOK
  <2>4. ASSUME NEW t \in Session, t # s PROVE ~Held(t, n)'
    <3>1. ~Held(t, n)
      BY <2>1, <2>4 DEF Apart, Held
    <3> QED
      BY <2>2, <3>1, HeldGrows, SentIsOld
  <2> QED
    BY <2>2, <2>3, <2>4, OldStays DEF Held
<1> QED
  BY <1>1, <1>2

\* The invariant so far.
FlowInv == TypeOK /\ WorkShape /\ PolledIsFree /\ Arrivals /\ InOrder /\ Apart

LEMMA InitFlow == Init => FlowInv /\ PurgedIsGone
<1> SUFFICES ASSUME Init PROVE FlowInv /\ PurgedIsGone
  OBVIOUS
<1>1. DOMAIN systemSub = {} /\ DOMAIN dataSub = {} /\ \A s \in Session : DOMAIN dataCh[s] = {}
  BY DEF Init
<1>2. PolledIsFree /\ Arrivals /\ InOrder /\ Apart /\ PurgedIsGone
  BY <1>1 DEF Init, PolledIsFree, Arrivals, InOrder, Apart, PurgedIsGone, Held, Hands, Waits
<1> QED
  BY <1>2, InitTypes DEF FlowInv

LEMMA NextFlow == FlowInv /\ [Next]_vars => FlowInv'
  BY NextTypes, NextPolledIsFree, NextArrivals, NextInOrder, NextApart DEF FlowInv

LEMMA FlowHolds == Spec => [](FlowInv /\ PurgedIsGone)
<1>1. FlowInv /\ PurgedIsGone /\ [Next]_vars => (FlowInv /\ PurgedIsGone)'
  BY NextFlow, NextPurged DEF FlowInv
<1> QED
  BY <1>1, InitFlow, PTL DEF Spec

\* What waited in a session when its interruption was handled is never answered
\* (spawn_session_handler).
THEOREM PurgedIsNeverAnswered == Spec => []InterruptedIsNotAnswered
<1>1. FlowInv /\ PurgedIsGone => InterruptedIsNotAnswered
  BY DEF PurgedIsGone, InterruptedIsNotAnswered, Hands
<1> QED
  BY <1>1, FlowHolds, PTL

-----------------------------------------------------------------------------
(* What a session is through with. *)

\* Older than what has not reached a session, and than what waits in this one.
Past(s, n) == Old(n) /\ \A i \in DOMAIN dataCh[s] : n < dataCh[s][i].id

LEMMA PastStays ==
  ASSUME FlowInv, [Next]_vars, NEW s \in Session, NEW n, Past(s, n)
  PROVE  Past(s, n)'
<1>1. Old(n)'
  BY OldStays DEF FlowInv, Past
<1>2. ASSUME NEW k, Waits(s, k)' PROVE n < k
  <2>1. Waits(s, k) \/ (Gets(s) /\ k = sending.id)
    BY <1>2, HeldGrows DEF FlowInv
  <2> QED
    BY <2>1, SentIsOld DEF FlowInv, Past, Waits
<1> QED
  BY <1>1, <1>2 DEF Past, Waits

\* What is in hand is past, and what is taken comes after what is past.
LEMMA WorkIsPast ==
  ASSUME FlowInv, NEW s \in Session, work[s] # NoFrame
  PROVE  Past(s, work[s].id) /\ work[s].id \in Id
<1>1. Held(s, work[s].id)
  BY DEF Held, Hands
<1>2. work[s].id \in Id
  BY DEF FlowInv, TypeOK, Frame
<1> QED
  BY <1>1, <1>2 DEF FlowInv, InOrder, Past

LEMMA TakenIsLater ==
  ASSUME FlowInv, NEW s \in Session, NEW n, Past(s, n), TakeData(s), hpc'[s] = "adding"
  PROVE  n < work'[s].id
<1>1. dataCh[s] # <<>> /\ work'[s] = Head(dataCh[s])
  BY DEF TakeData, FlowInv, TypeOK
<1> QED
  BY <1>1, Taken, ChannelTypes DEF Past, FlowInv

\* The handler's place outside an answer is unaffected by what is outside.
LEMMA IdleKinds ==
  ASSUME FlowInv, [Next]_vars, NEW s \in Session, ~ProcessTranscription(s)
  PROVE  /\ conversation'[s] = conversation[s] /\ response'[s] = response[s]
         /\ \/ hpc'[s] \notin Answering
            \/ hpc'[s] = hpc[s] /\ work'[s] = work[s]
            \/ TakeData(s) /\ hpc'[s] = "adding"
<1> USE DEF FlowInv, TypeOK, outputVars
<1>1. CASE Keeps(s) \/ Gets(s)
  BY <1>1 DEF Keeps, Gets
<1>2. CASE HandleSystem(s)
  BY <1>2 DEF HandleSystem
<1>3. CASE Drain(s)
  BY <1>3 DEF Drain
<1>4. CASE TakeData(s)
  BY <1>4 DEF TakeData
<1> QED
  BY <1>1, <1>2, <1>3, <1>4, SessionKinds

-----------------------------------------------------------------------------
(* Answers. *)

LastPart(s) == response[s][Len(response[s])]

\* What AnswersDoNotInterleave says of one session.
AnswersFit(s) ==
  \A i \in DOMAIN response[s] :
    LET r == response[s][i]
    IN  /\ i > 1 => LET p == response[s][i - 1]
                    IN  p[1] < r[1] \/ (p[1] = r[1] /\ p[2] < r[2])
        /\ r[2] = End => i > 1 /\ response[s][i - 1] = <<r[1], Text>>

\* What was published last is past, and fits to what the handler publishes next.
PlaceFits(s) ==
  /\ response[s] # <<>> =>
       /\ Past(s, LastPart(s)[1])
       /\ hpc[s] \in {"adding", "starting"} => LastPart(s)[1] < work[s].id
       /\ hpc[s] \in {"generating", "text"} =>
            LastPart(s)[1] < work[s].id \/ LastPart(s) = <<work[s].id, Start>>
  /\ hpc[s] = "end" => response[s] # <<>> /\ LastPart(s) = <<work[s].id, Text>>

AnswerInv == \A s \in Session : PlaceFits(s) /\ AnswersFit(s)

\* One part more.
LEMMA PublishFits ==
  ASSUME FlowInv, [Next]_vars, NEW s \in Session, AnswersFit(s), NEW part \in {Start, Text, End},
         work[s] # NoFrame, PublishPart(s, part),
         response[s] # <<>> =>
           \/ LastPart(s)[1] < work[s].id
           \/ LastPart(s)[1] = work[s].id /\ LastPart(s)[2] < part,
         part = End => response[s] # <<>> /\ LastPart(s) = <<work[s].id, Text>>
  PROVE  /\ AnswersFit(s)' /\ response'[s] # <<>>
         /\ LastPart(s)' = <<work[s].id, part>>
         /\ Past(s, work[s].id)
<1>1. /\ work[s].id \in Id /\ Past(s, work[s].id)
  BY WorkIsPast
<1>2. response[s] \in Seq(Id \X {Start, Text, End}) /\ response'[s] = Append(response[s], <<work[s].id, part>>)
  BY DEF FlowInv, TypeOK, PublishPart
<1>3. /\ DOMAIN response[s] = 1 .. Len(response[s]) /\ Len(response[s]) \in Nat
      /\ Len(response'[s]) = Len(response[s]) + 1
      /\ DOMAIN response'[s] = 1 .. Len(response[s]) + 1
      /\ \A i \in 1 .. Len(response[s]) : response'[s][i] = response[s][i]
      /\ response'[s][Len(response[s]) + 1] = <<work[s].id, part>>
  BY <1>1, <1>2, Appended
<1>4. Len(response[s]) # 0 => response[s] # <<>>
  BY <1>3
<1>5. ASSUME NEW i \in 1 .. Len(response[s])
      PROVE  /\ i > 1 => i - 1 \in 1 .. Len(response[s])
             /\ response'[s][i] = response[s][i]
             /\ i > 1 => response'[s][i - 1] = response[s][i - 1]
  BY <1>3
<1>6. AnswersFit(s)'
  <2> SUFFICES ASSUME NEW i \in 1 .. Len(response[s]) + 1
      PROVE  LET r == response'[s][i]
             IN  /\ i > 1 => LET p == response'[s][i - 1]
                             IN  p[1] < r[1] \/ (p[1] = r[1] /\ p[2] < r[2])
                 /\ r[2] = End => i > 1 /\ response'[s][i - 1] = <<r[1], Text>>
    BY <1>3 DEF AnswersFit
  <2>1. CASE i \in 1 .. Len(response[s])
    BY <2>1, <1>3, <1>5 DEF AnswersFit
  <2>2. CASE i = Len(response[s]) + 1
    <3>1. CASE i = 1
      BY <2>2, <3>1, <1>3, EmptySeq
    <3>2. CASE i # 1
      <4>1. response[s] # <<>> /\ response'[s][i - 1] = LastPart(s) /\ i > 1
        BY <2>2, <3>2, <1>3, <1>4 DEF LastPart
      <4> QED
        BY <2>2, <4>1, <1>3
    <3> QED
      BY <3>1, <3>2
  <2> QED
    BY <2>1, <2>2
<1>7. LastPart(s)' = <<work[s].id, part>> /\ response'[s] # <<>>
  BY <1>3 DEF LastPart
<1> QED
  BY <1>1, <1>6, <1>7

LEMMA NextAnswer ==
  FlowInv /\ AnswerInv /\ [Next]_vars => AnswerInv'
<1> SUFFICES ASSUME FlowInv, AnswerInv, [Next]_vars, NEW s \in Session
             PROVE  PlaceFits(s)' /\ AnswersFit(s)'
  BY DEF AnswerInv
<1>0. PlaceFits(s) /\ AnswersFit(s)
  BY DEF AnswerInv
<1>1. CASE ~ProcessTranscription(s)
  <2>1. response'[s] = response[s]
    BY <1>1, IdleKinds
  <2>2. response[s] # <<>> => Past(s, LastPart(s)[1]) /\ LastPart(s)' = LastPart(s)
    BY <1>0, <2>1 DEF PlaceFits, LastPart
  <2>3. \A n : n = LastPart(s)[1] /\ response[s] # <<>> => Past(s, n)'
    BY <2>2, PastStays
  <2>4. response'[s] # <<>> => Past(s, LastPart(s)[1])'
    BY <2>1, <2>2, <2>3 DEF Past
  <2>5. AnswersFit(s)'
    BY <1>0, <2>1 DEF AnswersFit
  <2>6. CASE hpc'[s] \notin Answering
    BY <2>4, <2>5, <2>6 DEF PlaceFits
  <2>7. CASE hpc'[s] = hpc[s] /\ work'[s] = work[s]
    BY <1>0, <2>1, <2>2, <2>4, <2>5, <2>7 DEF PlaceFits
  <2>8. CASE TakeData(s) /\ hpc'[s] = "adding"
    BY <2>1, <2>2, <2>4, <2>5, <2>8, TakenIsLater DEF PlaceFits
  <2> QED
    BY <1>1, <2>6, <2>7, <2>8, IdleKinds
<1>2. CASE ProcessTranscription(s)
  <2>1. work[s] # NoFrame
    BY <1>2 DEF ProcessTranscription, AddUserMessage, PublishStart, Generate, GenerateFails,
         PublishText, PublishEnd, At, FlowInv, WorkShape
  <2>2. ASSUME response'[s] = response[s]
        PROVE  AnswersFit(s)' /\ (response'[s] # <<>> => LastPart(s)' = LastPart(s) /\ Past(s, LastPart(s)[1])')
    <3>1. response[s] # <<>> => Past(s, LastPart(s)[1]) /\ LastPart(s)' = LastPart(s)
      BY <1>0, <2>2 DEF PlaceFits, LastPart
    <3>2. \A n : n = LastPart(s)[1] /\ response[s] # <<>> => Past(s, n)'
      BY <3>1, PastStays
    <3> QED
      BY <1>0, <2>2, <3>1, <3>2 DEF AnswersFit, Past
  <2>3. ASSUME NEW part \in {Start, Text, End}, LastPart(s)' = <<work[s].id, part>>, Past(s, work[s].id)
        PROVE  Past(s, LastPart(s)[1])'
    <3>1. \A n : n = work[s].id => Past(s, n)'
      BY <2>3, PastStays
    <3> QED
      BY <2>3, <3>1 DEF Past
  <2>4. CASE AddUserMessage(s)
    <3>1. /\ response'[s] = response[s] /\ hpc[s] = "adding"
          /\ hpc'[s] = "select" \/ (hpc'[s] = "starting" /\ work'[s] = work[s])
      BY <2>4 DEF AddUserMessage, At, GoTo, Done, FlowInv, TypeOK
    <3> QED
      BY <1>0, <2>2, <3>1 DEF PlaceFits
  <2>5. CASE PublishStart(s)
    <3>1. hpc[s] = "starting" /\ hpc'[s] = "generating" /\ work'[s] = work[s]
      BY <2>5 DEF PublishStart, At, GoTo, FlowInv, TypeOK
    <3>2. CASE PublishPart(s, Start)
      <4>1. /\ AnswersFit(s)' /\ response'[s] # <<>>
            /\ LastPart(s)' = <<work[s].id, Start>> /\ Past(s, work[s].id)
        BY <1>0, <2>1, <3>1, <3>2, PublishFits DEF PlaceFits
      <4> QED
        BY <2>3, <3>1, <4>1 DEF PlaceFits
    <3>3. CASE response' = response
      BY <1>0, <2>2, <3>1, <3>3 DEF PlaceFits
    <3> QED
      BY <2>5, <3>2, <3>3 DEF PublishStart
  <2>6. CASE Generate(s)
    <3>1. response'[s] = response[s] /\ hpc[s] = "generating" /\ hpc'[s] = "text" /\ work'[s] = work[s]
      BY <2>6 DEF Generate, At, GoTo, FlowInv, TypeOK
    <3> QED
      BY <1>0, <2>2, <3>1 DEF PlaceFits
  <2>7. CASE GenerateFails(s)
    <3>1. response'[s] = response[s] /\ hpc'[s] = "select"
      BY <2>7 DEF GenerateFails, Done, FlowInv, TypeOK, outputVars
    <3> QED
      BY <2>2, <3>1 DEF PlaceFits
  <2>8. CASE PublishText(s)
    <3>1. hpc[s] = "text"
      BY <2>8 DEF PublishText, At
    <3>2. CASE PublishPart(s, Text) /\ GoTo(s, "end")
      <4>1. hpc'[s] = "end" /\ work'[s] = work[s]
        BY <3>2 DEF GoTo, FlowInv, TypeOK
      <4>2. /\ AnswersFit(s)' /\ response'[s] # <<>>
            /\ LastPart(s)' = <<work[s].id, Text>> /\ Past(s, work[s].id)
        BY <1>0, <2>1, <3>1, <3>2, PublishFits DEF PlaceFits
      <4> QED
        BY <2>3, <4>1, <4>2 DEF PlaceFits
    <3>3. CASE response' = response /\ Done(s)
      <4>1. hpc'[s] = "select"
        BY <3>3 DEF Done, FlowInv, TypeOK
      <4> QED
        BY <2>2, <3>3, <4>1 DEF PlaceFits
    <3> QED
      BY <2>8, <3>2, <3>3 DEF PublishText
  <2>9. CASE PublishEnd(s)
    <3>1. hpc[s] = "end" /\ hpc'[s] = "select"
      BY <2>9 DEF PublishEnd, At, Done, FlowInv, TypeOK
    <3>2. CASE PublishPart(s, End)
      <4>1. /\ AnswersFit(s)' /\ response'[s] # <<>>
            /\ LastPart(s)' = <<work[s].id, End>> /\ Past(s, work[s].id)
        BY <1>0, <2>1, <3>1, <3>2, PublishFits DEF PlaceFits
      <4> QED
        BY <2>3, <3>1, <4>1 DEF PlaceFits
    <3>3. CASE response' = response
      BY <2>2, <3>1, <3>3 DEF PlaceFits
    <3> QED
      BY <2>9, <3>2, <3>3 DEF PublishEnd
  <2> QED
    BY <1>2, <2>4, <2>5, <2>6, <2>7, <2>8, <2>9 DEF ProcessTranscription
<1> QED
  BY <1>1, <1>2

\* The parts of a session's answers are published in order and answers never
\* interleave; an end is published only after its text (process_transcription).
THEOREM AnswersAreWhole == Spec => []AnswersDoNotInterleave
<1>1. Init => AnswerInv
  BY EmptySeq DEF Init, AnswerInv, PlaceFits, AnswersFit
<1>2. AnswerInv => AnswersDoNotInterleave
  BY DEF AnswerInv, AnswersFit, AnswersDoNotInterleave
<1> QED
  BY <1>1, <1>2, NextAnswer, FlowHolds, PTL DEF Spec

-----------------------------------------------------------------------------
(* Conversations. *)

LastSaid(s) == conversation[s][Len(conversation[s])]

\* What ConversationInOrder says of one session.
ConversationFits(s) ==
  \A i, j \in DOMAIN conversation[s] :
    LET m == conversation[s][i]
        n == conversation[s][j]
    IN  /\ i < j => m[2] < n[2] \/ (m[2] = n[2] /\ j = i + 1)
        /\ m[1] = "assistant" => i > 1 /\ conversation[s][i - 1] = <<"user", m[2]>>

\* What was said last is past; while the handler answers, it is the question, the
\* first message of that id, and before that it is of an earlier id.
SpeakerFits(s) ==
  /\ conversation[s] # <<>> =>
       /\ Past(s, LastSaid(s)[2])
       /\ hpc[s] = "adding" => LastSaid(s)[2] < work[s].id
  /\ hpc[s] \in {"starting", "generating"} =>
       /\ conversation[s] # <<>> /\ LastSaid(s) = <<"user", work[s].id>>
       /\ \A i \in DOMAIN conversation[s] :
            i < Len(conversation[s]) => conversation[s][i][2] < work[s].id

ConversationInv == \A s \in Session : ConversationFits(s) /\ SpeakerFits(s)

\* One message more, which begins a pair or ends it.
LEMMA SayFits ==
  ASSUME FlowInv, NEW s \in Session, ConversationFits(s), NEW role \in {"user", "assistant"},
         work[s] # NoFrame, Say(s, role),
         role = "user" /\ conversation[s] # <<>> => LastSaid(s)[2] < work[s].id,
         role = "assistant" =>
           /\ conversation[s] # <<>> /\ LastSaid(s) = <<"user", work[s].id>>
           /\ \A i \in DOMAIN conversation[s] :
                i < Len(conversation[s]) => conversation[s][i][2] < work[s].id
  PROVE  /\ ConversationFits(s)' /\ conversation'[s] # <<>>
         /\ LastSaid(s)' = <<role, work[s].id>>
         /\ role = "user" => \A i \in DOMAIN conversation'[s] :
              i < Len(conversation'[s]) => conversation'[s][i][2] < work[s].id
<1> DEFINE q == conversation[s]
           n == Len(conversation[s])
<1>1. work[s].id \in Id /\ Id \subseteq Nat
  BY WorkIsPast DEF Id
<1>2. q \in Seq({"user", "assistant"} \X Id) /\ conversation'[s] = Append(q, <<role, work[s].id>>)
  BY DEF FlowInv, TypeOK, Say
<1>3. /\ DOMAIN q = 1 .. n /\ n \in Nat
      /\ Len(conversation'[s]) = n + 1
      /\ DOMAIN conversation'[s] = 1 .. n + 1
      /\ \A i \in 1 .. n : conversation'[s][i] = q[i]
      /\ conversation'[s][n + 1] = <<role, work[s].id>>
  BY <1>1, <1>2, Appended
<1>4. \A i \in 1 .. n : q[i][2] \in Nat
  <2>1. \A i \in 1 .. n : q[i] \in {"user", "assistant"} \X Id
    BY <1>2, <1>3, ElementOfSeq
  <2>2. \A m \in {"user", "assistant"} \X Id : m[2] \in Nat
    BY <1>1
  <2> QED
    BY <2>1, <2>2
<1>5. n # 0 => q # <<>>
  BY <1>3
<1> HIDE DEF q, n
\* Everything before the last message is of an earlier id, or the question itself.
<1>6. ASSUME NEW i \in 1 .. n
      PROVE  \/ q[i][2] < work[s].id
             \/ role = "assistant" /\ i = n /\ q[i] = <<"user", work[s].id>>
  <2>1. n \in 1 .. n /\ q # <<>> /\ q[n] = LastSaid(s)
    BY <1>3, <1>5, <1>6 DEF LastSaid, q, n
  <2>2. CASE role = "assistant"
    BY <1>3, <1>6, <2>1, <2>2 DEF q, n
  <2>3. CASE role = "user"
    <3>1. q[n][2] < work[s].id
      BY <2>1, <2>3 DEF q
    <3>2. i = n \/ i < n
      BY <1>3, <1>6
    <3>3. i < n => q[i][2] < q[n][2] \/ q[i][2] = q[n][2]
      BY <1>3, <1>6, <2>1 DEF ConversationFits, q, n
    <3> QED
      <4>1. q[i][2] \in Nat /\ q[n][2] \in Nat /\ work[s].id \in Nat
        BY <1>1, <1>4, <1>6, <2>1
      <4> QED
        BY <3>1, <3>2, <3>3, <4>1
  <2> QED
    BY <2>2, <2>3
<1>7. role = "assistant" => n \in 1 .. n /\ q[n] = <<"user", work[s].id>>
  BY <1>2, <1>3, EmptySeq DEF LastSaid, q, n
<1>8. ConversationFits(s)'
  <2> SUFFICES ASSUME NEW i \in 1 .. n + 1, NEW j \in 1 .. n + 1
      PROVE  LET a == conversation'[s][i]
                 b == conversation'[s][j]
             IN  /\ i < j => a[2] < b[2] \/ (a[2] = b[2] /\ j = i + 1)
                 /\ a[1] = "assistant" => i > 1 /\ conversation'[s][i - 1] = <<"user", a[2]>>
    BY <1>3 DEF ConversationFits
  <2>1. CASE i = n + 1
    <3>1. ~(i < j)
      BY <1>3, <2>1
    <3>2. role = "assistant" => i > 1 /\ conversation'[s][i - 1] = <<"user", work[s].id>>
      BY <1>3, <1>7, <2>1
    <3> QED
      BY <1>3, <2>1, <3>1, <3>2
  <2>2. CASE i \in 1 .. n
    <3>1. conversation'[s][i] = q[i] /\ (i > 1 => i - 1 \in 1 .. n /\ conversation'[s][i - 1] = q[i - 1])
      BY <1>3, <2>2
    <3>2. q[i][1] = "assistant" => i > 1 /\ conversation'[s][i - 1] = <<"user", q[i][2]>>
      BY <1>3, <2>2, <3>1 DEF ConversationFits, q
    <3>3. CASE j \in 1 .. n
      <4>1. conversation'[s][j] = q[j] /\ i \in DOMAIN q /\ j \in DOMAIN q
        BY <1>3, <2>2, <3>3
      <4>2. i < j => q[i][2] < q[j][2] \/ (q[i][2] = q[j][2] /\ j = i + 1)
        BY <4>1 DEF ConversationFits, q
      <4> QED
        BY <3>1, <3>2, <4>1, <4>2
    <3>4. CASE j = n + 1
      BY <1>3, <1>6, <2>2, <3>1, <3>2, <3>4
    <3> QED
      BY <1>3, <3>3, <3>4
  <2> QED
    BY <1>3, <2>1, <2>2
<1>9. conversation'[s] # <<>> /\ LastSaid(s)' = <<role, work[s].id>>
  BY <1>3 DEF LastSaid
<1>10. role = "user" => \A i \in DOMAIN conversation'[s] :
         i < Len(conversation'[s]) => conversation'[s][i][2] < work[s].id
  BY <1>3, <1>6
<1> QED
  BY <1>8, <1>9, <1>10

LEMMA NextConversation ==
  FlowInv /\ ConversationInv /\ [Next]_vars => ConversationInv'
<1> SUFFICES ASSUME FlowInv, ConversationInv, [Next]_vars, NEW s \in Session
             PROVE  ConversationFits(s)' /\ SpeakerFits(s)'
  BY DEF ConversationInv
<1>0. ConversationFits(s) /\ SpeakerFits(s)
  BY DEF ConversationInv
<1>1. ASSUME conversation'[s] = conversation[s]
      PROVE  /\ ConversationFits(s)' /\ LastSaid(s)' = LastSaid(s)
             /\ conversation[s] # <<>> => Past(s, LastSaid(s)[2]) /\ Past(s, LastSaid(s)[2])'
  <2>1. LastSaid(s)' = LastSaid(s)
    BY <1>1 DEF LastSaid
  <2>2. conversation[s] # <<>> => Past(s, LastSaid(s)[2])
    BY <1>0 DEF SpeakerFits
  <2>3. \A n : n = LastSaid(s)[2] /\ conversation[s] # <<>> => Past(s, n)'
    BY <2>2, PastStays
  <2> QED
    BY <1>0, <1>1, <2>1, <2>2, <2>3 DEF ConversationFits, Past
<1>2. ASSUME NEW role \in {"user", "assistant"}, work[s] # NoFrame, LastSaid(s)' = <<role, work[s].id>>
      PROVE  Past(s, LastSaid(s)[2])'
  <2>1. \A n : n = work[s].id => Past(s, n)'
    BY <1>2, WorkIsPast, PastStays
  <2> QED
    BY <1>2, <2>1 DEF Past
<1>3. CASE ~ProcessTranscription(s)
  <2>1. conversation'[s] = conversation[s]
    BY <1>3, IdleKinds
  <2>2. CASE hpc'[s] \notin Answering
    BY <1>1, <2>1, <2>2 DEF SpeakerFits
  <2>3. CASE hpc'[s] = hpc[s] /\ work'[s] = work[s]
    BY <1>0, <1>1, <2>1, <2>3 DEF SpeakerFits
  <2>4. CASE TakeData(s) /\ hpc'[s] = "adding"
    BY <1>1, <2>1, <2>4, TakenIsLater DEF SpeakerFits
  <2> QED
    BY <1>3, <2>2, <2>3, <2>4, IdleKinds
<1>4. CASE AddUserMessage(s)
  <2>1. /\ hpc[s] = "adding" /\ work[s] # NoFrame /\ Say(s, "user")
        /\ hpc'[s] = "select" \/ (hpc'[s] = "starting" /\ work'[s] = work[s])
    BY <1>4 DEF AddUserMessage, At, GoTo, Done, FlowInv, TypeOK, WorkShape
  <2>2. /\ ConversationFits(s)' /\ conversation'[s] # <<>>
        /\ LastSaid(s)' = <<"user", work[s].id>>
        /\ \A i \in DOMAIN conversation'[s] :
             i < Len(conversation'[s]) => conversation'[s][i][2] < work[s].id
    BY <1>0, <2>1, SayFits DEF SpeakerFits
  <2>3. Past(s, LastSaid(s)[2])'
    BY <1>2, <2>1, <2>2
  <2> QED
    BY <2>1, <2>2, <2>3 DEF SpeakerFits
<1>5. CASE Generate(s)
  <2>1. hpc[s] = "generating" /\ work[s] # NoFrame /\ Say(s, "assistant") /\ hpc'[s] = "text"
    BY <1>5 DEF Generate, At, GoTo, FlowInv, TypeOK, WorkShape
  <2>2. /\ ConversationFits(s)' /\ conversation'[s] # <<>>
        /\ LastSaid(s)' = <<"assistant", work[s].id>>
    BY <1>0, <2>1, SayFits DEF SpeakerFits
  <2>3. Past(s, LastSaid(s)[2])'
    BY <1>2, <2>1, <2>2
  <2> QED
    BY <2>1, <2>2, <2>3 DEF SpeakerFits
<1>6. CASE PublishStart(s)
  <2>1. /\ hpc[s] = "starting" /\ hpc'[s] = "generating" /\ work'[s] = work[s]
        /\ conversation'[s] = conversation[s]
    BY <1>6 DEF PublishStart, At, GoTo, FlowInv, TypeOK
  <2> QED
    BY <1>0, <1>1, <2>1 DEF SpeakerFits
<1>7. CASE GenerateFails(s) \/ PublishText(s) \/ PublishEnd(s)
  <2>1. hpc'[s] \in {"select", "end"} /\ conversation'[s] = conversation[s]
    BY <1>7 DEF GenerateFails, PublishText, PublishEnd, GoTo, Done, FlowInv, TypeOK, outputVars
  <2> QED
    BY <1>1, <2>1 DEF SpeakerFits
<1> QED
  BY <1>3, <1>4, <1>5, <1>6, <1>7 DEF ProcessTranscription

\* Within a session transcriptions enter the conversation in the order they were
\* published, each at most once, and an answer stands right after its question
\* (process_transcription, add_message).
THEOREM ConversationsAreOrdered == Spec => []ConversationInOrder
<1>1. Init => ConversationInv
  BY EmptySeq DEF Init, ConversationInv, ConversationFits, SpeakerFits
<1>2. ConversationInv => ConversationInOrder
  BY DEF ConversationInv, ConversationFits, ConversationInOrder
<1> QED
  BY <1>1, <1>2, NextConversation, FlowHolds, PTL DEF Spec

=============================================================================
