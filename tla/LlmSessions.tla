---------------------------- MODULE LlmSessions ----------------------------
(***************************************************************************)
(* MultiSessionLlmService of crates/services/llm: one dispatcher task      *)
(* reads the system and the data subject and hands each frame to the       *)
(* handler task of its session through two bounded channels.  A handler    *)
(* serves system frames first, and answers one transcription at a time.    *)
(*                                                                         *)
(* Published frames wait in the dispatcher's two subscriptions, in order   *)
(* of arrival; at most MaxPublished come from the clients.  A frame is its *)
(* identity, session and kind.  Frame text is left out.                    *)
(*                                                                         *)
(* A definition A_B is A with the bug B.  No specification uses it; the    *)
(* project file names the property that fails when it replaces A.          *)
(***************************************************************************)
EXTENDS Integers, Sequences, FiniteSets

CONSTANTS
  Session,       \* session ids the frames carry
  Kinds,         \* kinds of frame the clients publish
  Decodable,     \* kinds FrameWrapper::from_bytes can read back
  ChannelCap,    \* capacity of a session's channels, 100 in the code
  HasConnector,  \* whether an LLM connector was registered at start-up
  MaxPublished,  \* bound: frames the clients publish
  NoFrame        \* nothing in hand

SystemKinds == {"StartInterruption", "StopInterruption", "End", "OtherSystem"}
DataKinds == {"Transcription", "OtherData"}

ASSUME LlmAssumption ==
  /\ Kinds \subseteq SystemKinds \cup DataKinds
  /\ Decodable \subseteq SystemKinds \cup DataKinds
  /\ ChannelCap \in Nat \ {0}
  /\ HasConnector \in BOOLEAN
  /\ MaxPublished \in Nat

Id == 1 .. MaxPublished
Frame == [id : Id, session : Session, kind : SystemKinds \cup DataKinds]

ASSUME NoFrameAssumption == NoFrame \notin Frame

VARIABLES
  published,     \* frames the clients have published
  systemSub,     \* frames waiting in the system subscription
  dataSub,       \* frames waiting in the data subscription
  dpc,           \* "polled" when the dispatcher found systemSub empty
  sending,       \* the frame the dispatcher is sending to a session
  hpc,           \* where each session's handler is; "none" before it exists
  systemCh,      \* the system channel of each session
  dataCh,        \* the data channel of each session
  interrupted,   \* the handlers' local flag
  work,          \* the transcription each handler is answering
  conversation,  \* LlmService::conversations, as <<role, frame id>>
  response,      \* what was published on DATA.session.s, as <<id, part>>
  \* history
  purged         \* transcriptions dropped, or about to be, by an interruption

clientVars == <<published>>
dispatcherVars == <<systemSub, dataSub, dpc, sending>>
channelVars == <<systemCh, dataCh>>
handlerVars == <<hpc, interrupted, work>>
outputVars == <<conversation, response>>
vars == <<clientVars, dispatcherVars, channelVars, handlerVars, outputVars, purged>>

\* The parts of an answer, in the order they are published.
Start == 1
Text == 2
End == 3

Answering == {"adding", "starting", "generating", "text", "end"}

TypeOK ==
  /\ published \in 0 .. MaxPublished
  /\ systemSub \in Seq(Frame)
  /\ dataSub \in Seq(Frame)
  /\ dpc \in {"select", "polled"}
  /\ sending \in Frame \cup {NoFrame}
  /\ hpc \in [Session -> {"none", "select", "polled", "drain", "ended"} \cup Answering]
  /\ systemCh \in [Session -> Seq(Frame)]
  /\ dataCh \in [Session -> Seq(Frame)]
  /\ \A s \in Session : Len(systemCh[s]) <= ChannelCap /\ Len(dataCh[s]) <= ChannelCap
  /\ interrupted \in [Session -> BOOLEAN]
  /\ work \in [Session -> Frame \cup {NoFrame}]
  /\ conversation \in [Session -> Seq({"user", "assistant"} \X Id)]
  /\ response \in [Session -> Seq(Id \X {Start, Text, End})]
  /\ purged \in SUBSET Id

Init ==
  /\ published = 0
  /\ systemSub = <<>>
  /\ dataSub = <<>>
  /\ dpc = "select"
  /\ sending = NoFrame
  /\ hpc = [s \in Session |-> "none"]
  /\ systemCh = [s \in Session |-> <<>>]
  /\ dataCh = [s \in Session |-> <<>>]
  /\ interrupted = [s \in Session |-> FALSE]
  /\ work = [s \in Session |-> NoFrame]
  /\ conversation = [s \in Session |-> <<>>]
  /\ response = [s \in Session |-> <<>>]
  /\ purged = {}

-----------------------------------------------------------------------------
(* Helpers of the handlers' steps. *)

At(s, l) == hpc[s] = l
GoTo(s, l) == hpc' = [hpc EXCEPT ![s] = l] /\ UNCHANGED work
Done(s) == hpc' = [hpc EXCEPT ![s] = "select"] /\ work' = [work EXCEPT ![s] = NoFrame]

Say(s, role) ==
  conversation' = [conversation EXCEPT ![s] = Append(@, <<role, work[s].id>>)]

\* A part published on the session's data subject comes back to the dispatcher,
\* which subscribes to that subject.
PublishPart(s, part) ==
  /\ response' = [response EXCEPT ![s] = Append(@, <<work[s].id, part>>)]
  /\ dataSub' = Append(dataSub, [work[s] EXCEPT !.kind = "OtherData"])

-----------------------------------------------------------------------------
(* Steps with a bug. *)

\* The send does not wait for room in the channel.
Send_Unbounded ==
  /\ sending # NoFrame
  /\ LET s == sending.session
     IN  IF sending.kind \in SystemKinds
         THEN systemCh' = [systemCh EXCEPT ![s] = Append(@, sending)] /\ UNCHANGED dataCh
         ELSE dataCh' = [dataCh EXCEPT ![s] = Append(@, sending)] /\ UNCHANGED systemCh
  /\ sending' = NoFrame
  /\ UNCHANGED <<clientVars, systemSub, dataSub, dpc, handlerVars, outputVars, purged>>

\* The send to a session that has ended waits for ever.
Send_HoldsReceivers ==
  /\ sending # NoFrame
  /\ hpc[sending.session] # "ended"
  /\ LET s == sending.session
         channel == IF sending.kind \in SystemKinds THEN systemCh ELSE dataCh
         grown == [channel EXCEPT ![s] = Append(@, sending)]
     IN  /\ Len(channel[s]) < ChannelCap
         /\ IF sending.kind \in SystemKinds
            THEN systemCh' = grown /\ UNCHANGED dataCh
            ELSE dataCh' = grown /\ UNCHANGED systemCh
  /\ sending' = NoFrame
  /\ UNCHANGED <<clientVars, systemSub, dataSub, dpc, handlerVars, outputVars, purged>>

\* The flag is set and nothing drained.
Drain_Skipped(s) ==
  /\ hpc[s] = "drain"
  /\ hpc' = [hpc EXCEPT ![s] = "select"]
  /\ UNCHANGED <<clientVars, dispatcherVars, channelVars, interrupted, work, outputVars, purged>>

\* The head is answered and stays in the channel.
TakeData_Peeks(s) ==
  /\ hpc[s] = "polled"
  /\ ~interrupted[s] /\ dataCh[s] # <<>>
  /\ work' = [work EXCEPT ![s] = Head(dataCh[s])]
  /\ hpc' = [hpc EXCEPT ![s] = "adding"]
  /\ UNCHANGED <<clientVars, dispatcherVars, channelVars, interrupted, outputVars, purged>>

\* The flag is looked at only once the frame has been received.
TakeData_ChecksLate(s) ==
  /\ hpc[s] = "polled"
  /\ IF dataCh[s] = <<>>
     THEN hpc' = [hpc EXCEPT ![s] = "select"] /\ UNCHANGED <<dataCh, work>>
     ELSE /\ dataCh' = [dataCh EXCEPT ![s] = Tail(@)]
          /\ work' = IF interrupted[s] THEN work ELSE [work EXCEPT ![s] = Head(dataCh[s])]
          /\ hpc' = [hpc EXCEPT ![s] = IF interrupted[s] THEN "select" ELSE "adding"]
  /\ UNCHANGED <<clientVars, dispatcherVars, systemCh, interrupted, outputVars, purged>>

\* A failed text is followed by the end of the answer.
PublishText_GoesOn(s) ==
  /\ At(s, "text")
  /\ \/ PublishPart(s, Text)
     \/ UNCHANGED <<response, dataSub>>
  /\ GoTo(s, "end")
  /\ UNCHANGED <<clientVars, systemSub, dpc, sending, channelVars, interrupted, conversation, purged>>

-----------------------------------------------------------------------------
(* The clients. *)

\* A frame is published on the subject of its category and session.
Publish(s, k) ==
  LET f == [id |-> published + 1, session |-> s, kind |-> k]
  IN  /\ published < MaxPublished
      /\ published' = published + 1
      /\ IF k \in SystemKinds
         THEN systemSub' = Append(systemSub, f) /\ UNCHANGED dataSub
         ELSE dataSub' = Append(dataSub, f) /\ UNCHANGED systemSub
      /\ UNCHANGED <<dpc, sending, channelVars, handlerVars, outputVars, purged>>

-----------------------------------------------------------------------------
(* The dispatcher: a biased select over the two subscriptions. *)

\* A frame that can be read back and is wanted is sent to its session, whose
\* handler is spawned on first use.  Others are dropped.
Dispatch(f, wanted) ==
  IF f.kind \in Decodable /\ wanted
  THEN /\ sending' = f
       /\ hpc' = IF hpc[f.session] = "none"
                 THEN [hpc EXCEPT ![f.session] = "select"] ELSE hpc
  ELSE UNCHANGED <<sending, hpc>>

DispatchSystem ==
  /\ sending = NoFrame /\ dpc = "select"
  /\ systemSub # <<>>
  /\ systemSub' = Tail(systemSub)
  /\ Dispatch(Head(systemSub), TRUE)
  /\ UNCHANGED <<clientVars, dataSub, dpc, channelVars, interrupted, work, outputVars, purged>>

\* The system subscription is found empty; it may fill before the other is read.
PollSystemSub ==
  /\ sending = NoFrame /\ dpc = "select"
  /\ systemSub = <<>>
  /\ dpc' = "polled"
  /\ UNCHANGED <<clientVars, systemSub, dataSub, sending, channelVars, handlerVars,
                 outputVars, purged>>

\* Only transcriptions can be processed.
DispatchData ==
  /\ dpc = "polled"
  /\ IF dataSub = <<>>
     THEN UNCHANGED <<dataSub, sending, hpc>>
     ELSE /\ dataSub' = Tail(dataSub)
          /\ Dispatch(Head(dataSub), Head(dataSub).kind = "Transcription")
  /\ dpc' = "select"
  /\ UNCHANGED <<clientVars, systemSub, channelVars, interrupted, work, outputVars, purged>>

\* The send completes when the channel has room, or fails when the handler has
\* ended and dropped its receivers; the error is ignored.  Until then the
\* dispatcher waits.
Send ==
  /\ sending # NoFrame
  /\ LET s == sending.session
         channel == IF sending.kind \in SystemKinds THEN systemCh ELSE dataCh
         grown == [channel EXCEPT ![s] = Append(@, sending)]
     IN  \/ /\ hpc[s] = "ended"
            /\ UNCHANGED channelVars
         \/ /\ hpc[s] # "ended"
            /\ Len(channel[s]) < ChannelCap
            /\ IF sending.kind \in SystemKinds
               THEN systemCh' = grown /\ UNCHANGED dataCh
               ELSE dataCh' = grown /\ UNCHANGED systemCh
  /\ sending' = NoFrame
  /\ UNCHANGED <<clientVars, systemSub, dataSub, dpc, handlerVars, outputVars, purged>>

-----------------------------------------------------------------------------
(* A session's handler: a biased select over its two channels. *)

Waiting(s) == {f.id : f \in {dataCh[s][i] : i \in DOMAIN dataCh[s]}}

\* StartInterruption sets the flag and turns to the drain; StopInterruption
\* clears it; End leaves the loop, which drops both receivers; the entry of the
\* session stays in the map.  Any other system frame is ignored.
HandleSystem(s) ==
  /\ hpc[s] = "select"
  /\ systemCh[s] # <<>>
  /\ LET k == Head(systemCh[s]).kind
     IN  /\ hpc' = [hpc EXCEPT ![s] = CASE k = "StartInterruption" -> "drain"
                                        [] k = "End" -> "ended"
                                        [] OTHER -> "select"]
         /\ interrupted' = [interrupted EXCEPT ![s] =
                              k = "StartInterruption" \/ (@ /\ k # "StopInterruption")]
         /\ systemCh' = [systemCh EXCEPT ![s] = IF k = "End" THEN <<>> ELSE Tail(@)]
         /\ dataCh' = IF k = "End" THEN [dataCh EXCEPT ![s] = <<>>] ELSE dataCh
         /\ purged' = IF k = "StartInterruption" THEN purged \cup Waiting(s) ELSE purged
  /\ UNCHANGED <<clientVars, dispatcherVars, work, outputVars>>

\* try_recv until the data channel is empty; the dispatcher may send meanwhile.
Drain(s) ==
  /\ hpc[s] = "drain"
  /\ IF dataCh[s] = <<>>
     THEN hpc' = [hpc EXCEPT ![s] = "select"] /\ UNCHANGED <<dataCh, purged>>
     ELSE /\ dataCh' = [dataCh EXCEPT ![s] = Tail(@)]
          /\ purged' = purged \cup {Head(dataCh[s]).id}
          /\ UNCHANGED hpc
  /\ UNCHANGED <<clientVars, dispatcherVars, systemCh, interrupted, work, outputVars>>

\* The system channel is found empty; it may fill before the other is read.
PollSystemCh(s) ==
  /\ hpc[s] = "select"
  /\ systemCh[s] = <<>>
  /\ hpc' = [hpc EXCEPT ![s] = "polled"]
  /\ UNCHANGED <<clientVars, dispatcherVars, channelVars, interrupted, work, outputVars, purged>>

\* The data channel is not read while interrupted.
TakeData(s) ==
  /\ hpc[s] = "polled"
  /\ IF interrupted[s] \/ dataCh[s] = <<>>
     THEN hpc' = [hpc EXCEPT ![s] = "select"] /\ UNCHANGED <<dataCh, work>>
     ELSE /\ dataCh' = [dataCh EXCEPT ![s] = Tail(@)]
          /\ work' = [work EXCEPT ![s] = Head(dataCh[s])]
          /\ hpc' = [hpc EXCEPT ![s] = "adding"]
  /\ UNCHANGED <<clientVars, dispatcherVars, systemCh, interrupted, outputVars, purged>>

(* process_transcription, awaited by the loop: no system frame is read in it. *)

AddUserMessage(s) ==
  /\ At(s, "adding")
  /\ Say(s, "user")
  /\ IF HasConnector THEN GoTo(s, "starting") ELSE Done(s)
  /\ UNCHANGED <<clientVars, dispatcherVars, channelVars, interrupted, response, purged>>

\* An error of this publication is ignored.
PublishStart(s) ==
  /\ At(s, "starting")
  /\ \/ PublishPart(s, Start)
     \/ UNCHANGED <<response, dataSub>>
  /\ GoTo(s, "generating")
  /\ UNCHANGED <<clientVars, systemSub, dpc, sending, channelVars, interrupted, conversation, purged>>

Generate(s) ==
  /\ At(s, "generating")
  /\ Say(s, "assistant")
  /\ GoTo(s, "text")
  /\ UNCHANGED <<clientVars, dispatcherVars, channelVars, interrupted, response, purged>>

\* A failed generation is reported on the session's system subject, to which
\* the dispatcher subscribes; an error of that publication is ignored.
GenerateFails(s) ==
  /\ At(s, "generating")
  /\ \/ systemSub' = Append(systemSub, [work[s] EXCEPT !.kind = "OtherSystem"])
     \/ UNCHANGED systemSub
  /\ Done(s)
  /\ UNCHANGED <<clientVars, dataSub, dpc, sending, channelVars, interrupted, outputVars, purged>>

\* An error of this publication ends the method.
PublishText(s) ==
  /\ At(s, "text")
  /\ \/ PublishPart(s, Text) /\ GoTo(s, "end")
     \/ UNCHANGED <<response, dataSub>> /\ Done(s)
  /\ UNCHANGED <<clientVars, systemSub, dpc, sending, channelVars, interrupted, conversation, purged>>

PublishEnd(s) ==
  /\ At(s, "end")
  /\ \/ PublishPart(s, End)
     \/ UNCHANGED <<response, dataSub>>
  /\ Done(s)
  /\ UNCHANGED <<clientVars, systemSub, dpc, sending, channelVars, interrupted, conversation, purged>>

ProcessTranscription(s) ==
  AddUserMessage(s) \/ PublishStart(s) \/ Generate(s) \/ GenerateFails(s)
  \/ PublishText(s) \/ PublishEnd(s)

-----------------------------------------------------------------------------

Client == \E s \in Session, k \in Kinds : Publish(s, k)
Dispatcher == DispatchSystem \/ PollSystemSub \/ DispatchData \/ Send
Handler(s) ==
  HandleSystem(s) \/ Drain(s) \/ PollSystemCh(s) \/ TakeData(s) \/ ProcessTranscription(s)

Next == Client \/ Dispatcher \/ \E s \in Session : Handler(s)

Spec == Init /\ [][Next]_vars

\* Tokio polls the dispatcher and every handler whose next await is ready, and
\* the connector answers or fails, although its HTTP client has no time-out that
\* would make it.  Nothing obliges a client to publish.
FairSpec ==
  /\ Spec
  /\ WF_vars(Dispatcher)
  /\ \A s \in Session : WF_vars(Handler(s))

-----------------------------------------------------------------------------
(* Safety. *)

\* What waited in a session when its interruption was handled, or came while the
\* drain ran, is never answered, not even after the interruption has stopped and
\* although the dispatcher sends on meanwhile (spawn_session_handler).
InterruptedIsNotAnswered ==
  \A s \in Session : work[s] # NoFrame => work[s].id \notin purged

\* Within a session the transcriptions enter the conversation in the order they
\* were published, each at most once, and an assistant message stands right
\* after the user message it answers, whatever was interrupted, lost to a
\* failed generation or in flight in other sessions.
ConversationInOrder ==
  \A s \in Session : \A i, j \in DOMAIN conversation[s] :
    LET m == conversation[s][i]
        n == conversation[s][j]
    IN  /\ i < j => m[2] < n[2] \/ (m[2] = n[2] /\ j = i + 1)
        /\ m[1] = "assistant" => i > 1 /\ conversation[s][i - 1] = <<"user", m[2]>>

\* The parts of a session's answers are published in order and answers never
\* interleave; an end is published only after its text (process_transcription
\* runs inside the handler's loop and leaves it on a failed text).
AnswersDoNotInterleave ==
  \A s \in Session : \A i \in DOMAIN response[s] :
    LET r == response[s][i]
    IN  /\ i > 1 => LET p == response[s][i - 1]
                    IN  p[1] < r[1] \/ (p[1] = r[1] /\ p[2] < r[2])
        /\ r[2] = End => i > 1 /\ response[s][i - 1] = <<r[1], Text>>

(* Liveness. *)

Queued(seq, f) == \E i \in DOMAIN seq : seq[i] = f
InSession(f) == Queued(systemCh[f.session], f) \/ Queued(dataCh[f.session], f)

Handled(f) == ~Queued(systemSub, f) /\ sending # f /\ ~InSession(f)

\* README: "Process system frames immediately".  A system frame that reached
\* the service is taken by its session's handler.
SystemFrameIsHandled ==
  \A s \in Session, i \in Id, k \in SystemKinds \ {"OtherSystem"} :
    LET f == [id |-> i, session |-> s, kind |-> k]
    IN  Queued(systemSub, f) ~> Handled(f)

\* The dispatcher waits for room in the full data channel of an interrupted
\* session that has read all its system frames: only the dispatcher could bring
\* it another one.
Wedged ==
  /\ sending # NoFrame
  /\ LET s == sending.session
     IN  /\ sending.kind \in DataKinds /\ Len(dataCh[s]) = ChannelCap
         /\ interrupted[s] /\ hpc[s] \in {"select", "polled"} /\ systemCh[s] = <<>>

\* That is the only way for a system frame to stay unhandled: neither a slow or
\* failing answer, an ended session nor a busy data subject holds it back for
\* good (the biased selects, the sends of start_dispatcher).
OnlyWedgeHoldsSystemFrames ==
  \A s \in Session, i \in Id, k \in SystemKinds \ {"OtherSystem"} :
    LET f == [id |-> i, session |-> s, kind |-> k]
    IN  Queued(systemSub, f) ~> Handled(f) \/ Wedged

\* Once the clients publish no more, and if no open session stays interrupted, a
\* transcription that reached the service enters the conversation of its session,
\* unless an interruption purged it or the session has ended.  While system frames
\* keep coming it may wait: the biased selects prefer them.
TranscriptionIsServed ==
  /\ "Transcription" \in Decodable
  /\ <>[][FALSE]_published
  /\ \A s \in Session : []<>(~interrupted[s] \/ hpc[s] = "ended")
  => \A s \in Session, i \in Id :
       Queued(dataSub, [id |-> i, session |-> s, kind |-> "Transcription"]) ~>
         \/ \E j \in DOMAIN conversation[s] : conversation[s][j] = <<"user", i>>
         \/ i \in purged \/ hpc[s] = "ended"

\* README: "Central dispatcher routes frames to per-session handlers".
FrameReachesHandler ==
  \A s \in Session :
    (\E i \in DOMAIN dataSub : dataSub[i].session = s /\ dataSub[i].kind = "Transcription")
      ~> hpc[s] # "none"

=============================================================================
