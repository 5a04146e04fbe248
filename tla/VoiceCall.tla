----------------------------- MODULE VoiceCall -----------------------------
(***************************************************************************)
(* A phone call through the event path: the WebSocket handler of the       *)
(* transport service, the LLM and the TTS handler on their event queues,   *)
(* and the way back to the caller.                                         *)
(*                                                                         *)
(* Each queue is what module Delivery promises its consumer: an event is   *)
(* attempted at most MaxDeliver times, first attempts come in the order of *)
(* the stream, and any event may come again, settled or not.  The speech-  *)
(* to-text service (module SttService) is one action: it publishes         *)
(* transcriptions of the sessions whose audio reached its stream.  The last *)
(* hop is plain NATS: what is published before the subscription is lost.   *)
(*                                                                         *)
(* An audio is named by the transcription it answers, which is an index of *)
(* the LLM stream.  A definition A_B is A with the bug B.                  *)
(***************************************************************************)
EXTENDS Integers, Sequences, FiniteSets

CONSTANTS
  Session,        \* one per WebSocket: its id is made when it opens
  HasConnector,   \* whether the LLM and TTS services have a connector
  MaxDeliver,     \* attempts at an event, 3 in the code
  ChannelCap,     \* messages the channel to the WebSocket holds, 100 in the code
  MaxTexts,       \* bound: events on the LLM stream
  MaxFaults,      \* bound: failures, crashes and repeated deliveries
  Nothing         \* no audio

ASSUME CallAssumption ==
  /\ HasConnector \in BOOLEAN
  /\ MaxDeliver \in Nat \ {0} /\ ChannelCap \in Nat \ {0}
  /\ MaxTexts \in Nat /\ MaxFaults \in Nat

Text == 1 .. MaxTexts
Answer == 1 .. MaxTexts * MaxDeliver
Message == [text : Text, named : BOOLEAN]

ASSUME NothingAssumption == Nothing \notin Message

VARIABLES
  conn,         \* of each session: "none", "open", "closed" by the caller, "over"
  loop,         \* what the handler of the WebSocket awaits
  started,      \* a start stored a stream_sid in session_info, be it "unknown"
  format,       \* media_format is Some
  sub,          \* the relay task: "none", "spawned" or "listening"
  inbox,        \* audio in the relay task's subscription
  holding,      \* the message the relay task is sending to the handler
  channel,      \* messages in the channel between the two
  sent,         \* messages written to the WebSocket
  heard,        \* audio of the session is on the STT stream
  texts,        \* the LLM stream
  textTries,    \* attempts at each of its events
  textNaks,     \* its events to be delivered again
  thinking,     \* the event the LLM handler is at, and where: <<pc, event>>
  conversation, \* LlmService::conversations, as <<role, text>>
  answers,      \* the TTS stream: the text each event answers
  answerTries,
  answerNaks,
  speaking,     \* the event the TTS handler is at, and where
  \* history
  faults,       \* how many so far
  failed,       \* texts whose answer could not be generated or synthesized
  missed        \* texts whose audio was published before the subscription

connVars == <<conn, loop, started, format>>
relayVars == <<sub, inbox, holding, channel, sent>>
llmVars == <<texts, textTries, textNaks, thinking, conversation>>
ttsVars == <<answers, answerTries, answerNaks, speaking>>
historyVars == <<faults, failed, missed>>
vars == <<connVars, relayVars, heard, llmVars, ttsVars, historyVars>>

Event == [session : Session, kind : {"transcription", "end"}]

Idle == <<"idle", 0>>

TypeOK ==
  /\ conn \in [Session -> {"none", "open", "closed", "over"}]
  /\ loop \in [Session -> {"select", "start", "media", "end"}]
  /\ started \in [Session -> BOOLEAN] /\ format \in [Session -> BOOLEAN]
  /\ sub \in [Session -> {"none", "spawned", "listening"}]
  /\ inbox \in [Session -> Seq(Text)]
  /\ holding \in [Session -> Message \cup {Nothing}]
  /\ channel \in [Session -> Seq(Message)]
  /\ \A s \in Session : Len(channel[s]) <= ChannelCap
  /\ sent \in [Session -> Seq(Message)]
  /\ heard \in [Session -> BOOLEAN]
  /\ texts \in Seq(Event) /\ Len(texts) <= MaxTexts
  /\ textTries \in [Text -> 0 .. MaxDeliver] /\ textNaks \subseteq Text
  /\ thinking \in {Idle} \cup {"generating", "publishing"} \X Text
  /\ conversation \in [Session -> Seq({"user", "assistant"} \X Text)]
  /\ answers \in Seq(Text) /\ Len(answers) <= MaxTexts * MaxDeliver
  /\ answerTries \in [Answer -> 0 .. MaxDeliver] /\ answerNaks \subseteq Answer
  /\ speaking \in {Idle} \cup {"synthesizing", "publishing"} \X Answer
  /\ faults \in 0 .. MaxFaults /\ failed \subseteq Text /\ missed \subseteq Text

Init ==
  /\ conn = [s \in Session |-> "none"]
  /\ loop = [s \in Session |-> "select"]
  /\ started = [s \in Session |-> FALSE] /\ format = [s \in Session |-> FALSE]
  /\ sub = [s \in Session |-> "none"]
  /\ inbox = [s \in Session |-> <<>>]
  /\ holding = [s \in Session |-> Nothing]
  /\ channel = [s \in Session |-> <<>>]
  /\ sent = [s \in Session |-> <<>>]
  /\ heard = [s \in Session |-> FALSE]
  /\ texts = <<>>
  /\ textTries = [t \in Text |-> 0] /\ textNaks = {}
  /\ thinking = Idle
  /\ conversation = [s \in Session |-> <<>>]
  /\ answers = <<>>
  /\ answerTries = [a \in Answer |-> 0] /\ answerNaks = {}
  /\ speaking = Idle
  /\ faults = 0 /\ failed = {} /\ missed = {}

Fault == faults < MaxFaults /\ faults' = faults + 1

-----------------------------------------------------------------------------
(* The handler of the WebSocket: a select over the caller's messages and   *)
(* the channel of the relay task.                                          *)

AtSelect(s) == conn[s] \in {"open", "closed"} /\ loop[s] = "select"
Await(s, l) == loop' = [loop EXCEPT ![s] = l]

Connect(s) ==
  /\ conn[s] = "none"
  /\ conn' = [conn EXCEPT ![s] = "open"]
  /\ sub' = [sub EXCEPT ![s] = "spawned"]
  /\ UNCHANGED <<loop, started, format, inbox, holding, channel, sent, heard,
                 llmVars, ttsVars, historyVars>>

\* A "start" stores its streamSid, or "unknown" when it has none, over whatever an
\* earlier one stored; a media format that cannot be read is left out.  The session
\* start is published next.
ReadStart(s) ==
  /\ AtSelect(s) /\ conn[s] = "open"
  /\ started' = [started EXCEPT ![s] = TRUE]
  /\ \E readable \in BOOLEAN : format' = [format EXCEPT ![s] = @ \/ readable]
  /\ Await(s, "start")
  /\ UNCHANGED <<conn, relayVars, heard, llmVars, ttsVars, historyVars>>

\* The bug: media is published whether the stream was started or not.
ReadMedia_Early(s) ==
  /\ AtSelect(s) /\ conn[s] = "open"
  /\ Await(s, "media")
  /\ UNCHANGED <<conn, started, format, relayVars, heard, llmVars, ttsVars, historyVars>>

\* Media is dropped until a start and its format have been read.
ReadMedia(s) ==
  /\ AtSelect(s) /\ conn[s] = "open"
  /\ started[s] /\ format[s]
  /\ Await(s, "media")
  /\ UNCHANGED <<conn, started, format, relayVars, heard, llmVars, ttsVars, historyVars>>

\* A Close is followed by the publication of a session_end.
ReadClose(s) ==
  /\ AtSelect(s) /\ conn[s] = "open"
  /\ conn' = [conn EXCEPT ![s] = "closed"]
  /\ Await(s, "end")
  /\ UNCHANGED <<started, format, relayVars, heard, llmVars, ttsVars, historyVars>>

\* What the handler publishes takes effect or fails with an error that is logged.
Published(s) ==
  /\ loop[s] \in {"start", "media"}
  /\ Await(s, "select")
  /\ heard' = IF loop[s] = "media" THEN [heard EXCEPT ![s] = TRUE] ELSE heard
  /\ UNCHANGED <<conn, started, format, relayVars, llmVars, ttsVars, historyVars>>

PublishFails(s) ==
  /\ loop[s] \in {"start", "media"}
  /\ Await(s, "select")
  /\ UNCHANGED <<conn, started, format, relayVars, heard, llmVars, ttsVars, historyVars>>

\* No stream has the subject of a session_end: nobody learns that the call ended.
PublishEnd(s) ==
  /\ loop[s] = "end"
  /\ Await(s, "select")
  /\ UNCHANGED <<conn, started, format, relayVars, heard, llmVars, ttsVars, historyVars>>

\* The end of the messages, or an error: the loop is left and the channel's
\* receiver dropped with what it holds.
End(s) ==
  /\ AtSelect(s)
  /\ conn' = [conn EXCEPT ![s] = "over"]
  /\ channel' = [channel EXCEPT ![s] = <<>>]
  /\ UNCHANGED <<loop, started, format, sub, inbox, holding, sent, heard, llmVars,
                 ttsVars, historyVars>>

\* The bug: a message is written and not taken from the channel.
Relay_Peeks(s) ==
  /\ AtSelect(s) /\ channel[s] # <<>> /\ conn[s] = "open"
  /\ Len(sent[s]) < 9
  /\ sent' = [sent EXCEPT ![s] = Append(@, Head(channel[s]))]
  /\ UNCHANGED <<connVars, sub, inbox, holding, channel, heard, llmVars, ttsVars, historyVars>>

\* A message of the channel is written; a failed write leaves the loop (End).
Relay(s) ==
  /\ AtSelect(s) /\ channel[s] # <<>> /\ conn[s] = "open"
  /\ sent' = [sent EXCEPT ![s] = Append(@, Head(channel[s]))]
  /\ channel' = [channel EXCEPT ![s] = Tail(@)]
  /\ UNCHANGED <<connVars, sub, inbox, holding, heard, llmVars, ttsVars, historyVars>>

-----------------------------------------------------------------------------
(* The relay task: one subscription on the session's transport subject.    *)

\* It first publishes a session_start on the subject it will listen to, which
\* nobody gets.  It never ends: the connection may be over before it subscribes.
Subscribe(s) ==
  /\ sub[s] = "spawned"
  /\ sub' = [sub EXCEPT ![s] = "listening"]
  /\ UNCHANGED <<connVars, inbox, holding, channel, sent, heard, llmVars, ttsVars, historyVars>>

\* The bug: the newest audio comes first.
Compose_Newest(s) ==
  /\ holding[s] = Nothing /\ inbox[s] # <<>>
  /\ LET n == Len(inbox[s])
     IN  /\ holding' = [holding EXCEPT ![s] = [text |-> inbox[s][n], named |-> started[s]]]
         /\ inbox' = [inbox EXCEPT ![s] = SubSeq(@, 1, n - 1)]
  /\ UNCHANGED <<connVars, sub, channel, sent, heard, llmVars, ttsVars, historyVars>>

\* The message names the stream_sid stored by now, or is not named by any start and
\* says "unknown".
Compose(s) ==
  /\ holding[s] = Nothing /\ inbox[s] # <<>>
  /\ holding' = [holding EXCEPT ![s] = [text |-> Head(inbox[s]), named |-> started[s]]]
  /\ inbox' = [inbox EXCEPT ![s] = Tail(@)]
  /\ UNCHANGED <<connVars, sub, channel, sent, heard, llmVars, ttsVars, historyVars>>

\* The bug: the send does not wait for room.
Forward_Unbounded(s) ==
  /\ holding[s] # Nothing
  /\ channel' = IF conn[s] = "over" THEN channel
                ELSE [channel EXCEPT ![s] = Append(@, holding[s])]
  /\ holding' = [holding EXCEPT ![s] = Nothing]
  /\ UNCHANGED <<connVars, sub, inbox, sent, heard, llmVars, ttsVars, historyVars>>

\* The send waits for room, or fails when the handler is gone.
Forward(s) ==
  /\ holding[s] # Nothing
  /\ conn[s] = "over" \/ Len(channel[s]) < ChannelCap
  /\ channel' = IF conn[s] = "over" THEN channel
                ELSE [channel EXCEPT ![s] = Append(@, holding[s])]
  /\ holding' = [holding EXCEPT ![s] = Nothing]
  /\ UNCHANGED <<connVars, sub, inbox, sent, heard, llmVars, ttsVars, historyVars>>

-----------------------------------------------------------------------------
(* The events of a stream and their consumer.                              *)

\* The speech-to-text service publishes a transcription of a session it heard.
Transcribe(s) ==
  /\ heard[s] /\ Len(texts) < MaxTexts
  /\ texts' = Append(texts, [session |-> s, kind |-> "transcription"])
  /\ UNCHANGED <<connVars, relayVars, heard, textTries, textNaks, thinking, conversation,
                 ttsVars, historyVars>>

\* Somebody ends the conversation of a session.
EndConversation(s) ==
  /\ conn[s] # "none" /\ Len(texts) < MaxTexts
  /\ texts' = Append(texts, [session |-> s, kind |-> "end"])
  /\ UNCHANGED <<connVars, relayVars, heard, textTries, textNaks, thinking, conversation,
                 ttsVars, historyVars>>

\* Any event may come again; unless it was refused, that is counted as a fault.
Deliverable(i, stream, tries, naks) ==
  /\ i \in DOMAIN stream /\ tries[i] < MaxDeliver
  /\ tries[i] = 0 => \A j \in 1 .. i - 1 : tries[j] > 0
  /\ IF tries[i] = 0 \/ i \in naks THEN UNCHANGED faults ELSE Fault

(* The LLM handler: one event at a time. *)

Say(s, role, i) == conversation' = [conversation EXCEPT ![s] = Append(@, <<role, i>>)]
Forget(s) == conversation' = [conversation EXCEPT ![s] = <<>>]

\* The bug: a repeated transcription is taken for one that is known.
TakeText_Skips(i) ==
  /\ thinking = Idle
  /\ Deliverable(i, texts, textTries, textNaks)
  /\ textTries' = [textTries EXCEPT ![i] = @ + 1]
  /\ textNaks' = textNaks \ {i}
  /\ LET s == texts[i].session
     IN  IF texts[i].kind = "end"
         THEN Forget(s) /\ UNCHANGED thinking
         ELSE /\ IF textTries[i] > 0 THEN UNCHANGED conversation ELSE Say(s, "user", i)
              /\ thinking' = IF HasConnector THEN <<"generating", i>> ELSE Idle
  /\ UNCHANGED <<connVars, relayVars, heard, texts, ttsVars, failed, missed>>

\* A transcription enters the conversation every time it is delivered.
TakeText(i) ==
  /\ thinking = Idle
  /\ Deliverable(i, texts, textTries, textNaks)
  /\ textTries' = [textTries EXCEPT ![i] = @ + 1]
  /\ textNaks' = textNaks \ {i}
  /\ LET s == texts[i].session
     IN  IF texts[i].kind = "end"
         THEN Forget(s) /\ UNCHANGED thinking
         ELSE /\ Say(s, "user", i)
              /\ thinking' = IF HasConnector THEN <<"generating", i>> ELSE Idle
  /\ UNCHANGED <<connVars, relayVars, heard, texts, ttsVars, failed, missed>>

Generate ==
  /\ thinking[1] = "generating"
  /\ LET i == thinking[2]
         s == texts[i].session
     IN  Say(s, "assistant", i) /\ thinking' = <<"publishing", i>>
  /\ UNCHANGED <<connVars, relayVars, heard, texts, textTries, textNaks, ttsVars, historyVars>>

\* The error is logged and the event acked.
GenerateFails ==
  /\ thinking[1] = "generating"
  /\ Fault
  /\ failed' = failed \cup {thinking[2]}
  /\ thinking' = Idle
  /\ UNCHANGED <<connVars, relayVars, heard, texts, textTries, textNaks, conversation,
                 ttsVars, missed>>

PublishAnswer ==
  /\ thinking[1] = "publishing"
  /\ answers' = Append(answers, thinking[2])
  /\ thinking' = Idle
  /\ UNCHANGED <<connVars, relayVars, heard, texts, textTries, textNaks, conversation,
                 answerTries, answerNaks, speaking, historyVars>>

\* The bug: the error is logged and the event acked.
PublishAnswerFails_Acked ==
  /\ thinking[1] = "publishing"
  /\ Fault
  /\ thinking' = Idle
  /\ UNCHANGED <<connVars, relayVars, heard, texts, textTries, textNaks, conversation,
                 ttsVars, failed, missed>>

\* The error leaves the handler: the event is refused, its messages stay in the
\* conversation.
PublishAnswerFails ==
  /\ thinking[1] = "publishing"
  /\ Fault
  /\ textNaks' = textNaks \cup {thinking[2]}
  /\ thinking' = Idle
  /\ UNCHANGED <<connVars, relayVars, heard, texts, textTries, conversation, ttsVars,
                 failed, missed>>

\* The service is restarted: the conversations are gone, and the event at hand
\* is delivered again.
LlmCrash ==
  /\ Fault
  /\ conversation' = [s \in Session |-> <<>>]
  /\ textNaks' = IF thinking = Idle THEN textNaks ELSE textNaks \cup {thinking[2]}
  /\ thinking' = Idle
  /\ UNCHANGED <<connVars, relayVars, heard, texts, textTries, ttsVars, failed, missed>>

(* The TTS handler. *)

TakeAnswer(i) ==
  /\ speaking = Idle
  /\ Deliverable(i, answers, answerTries, answerNaks)
  /\ answerTries' = [answerTries EXCEPT ![i] = @ + 1]
  /\ answerNaks' = answerNaks \ {i}
  /\ speaking' = IF HasConnector THEN <<"synthesizing", i>> ELSE Idle
  /\ UNCHANGED <<connVars, relayVars, heard, llmVars, answers, failed, missed>>

Synthesize ==
  /\ speaking[1] = "synthesizing"
  /\ speaking' = <<"publishing", speaking[2]>>
  /\ UNCHANGED <<connVars, relayVars, heard, llmVars, answers, answerTries, answerNaks,
                 historyVars>>

\* The error is logged and the event acked.
SynthesizeFails ==
  /\ speaking[1] = "synthesizing"
  /\ Fault
  /\ failed' = failed \cup {answers[speaking[2]]}
  /\ speaking' = Idle
  /\ UNCHANGED <<connVars, relayVars, heard, llmVars, answers, answerTries, answerNaks, missed>>

\* The subject has a listener or has none.
PublishAudio ==
  /\ speaking[1] = "publishing"
  /\ LET t == answers[speaking[2]]
         s == texts[t].session
     IN  IF sub[s] = "listening"
         THEN inbox' = [inbox EXCEPT ![s] = Append(@, t)] /\ UNCHANGED missed
         ELSE missed' = missed \cup {t} /\ UNCHANGED inbox
  /\ speaking' = Idle
  /\ UNCHANGED <<connVars, sub, holding, channel, sent, heard, llmVars, answers, answerTries,
                 answerNaks, faults, failed>>

\* The publication fails, or the service is restarted.
PublishAudioFails ==
  /\ speaking # Idle
  /\ Fault
  /\ answerNaks' = answerNaks \cup {speaking[2]}
  /\ speaking' = Idle
  /\ UNCHANGED <<connVars, relayVars, heard, llmVars, answers, answerTries, failed, missed>>

-----------------------------------------------------------------------------

Caller(s) == Connect(s) \/ ReadStart(s) \/ ReadMedia(s) \/ ReadClose(s) \/ End(s)
Publication(s) == Published(s) \/ PublishFails(s) \/ PublishEnd(s)
RelayTask(s) == Subscribe(s) \/ Compose(s) \/ Forward(s)
Llm ==
  \/ \E i \in DOMAIN texts : TakeText(i)
  \/ Generate \/ GenerateFails \/ PublishAnswer \/ PublishAnswerFails
Tts ==
  \/ \E i \in DOMAIN answers : TakeAnswer(i)
  \/ Synthesize \/ SynthesizeFails \/ PublishAudio \/ PublishAudioFails

Next ==
  \/ \E s \in Session :
       \/ Caller(s) \/ Publication(s) \/ Relay(s) \/ RelayTask(s)
       \/ Transcribe(s) \/ EndConversation(s)
  \/ Llm \/ LlmCrash \/ Tts

Spec == Init /\ [][Next]_vars

\* What the two handlers do on their own: what they wait for a provider to do is
\* left out, for the providers' HTTP clients have no time-out.
LlmReady == (\E i \in DOMAIN texts : TakeText(i)) \/ PublishAnswer
TtsReady == (\E i \in DOMAIN answers : TakeAnswer(i)) \/ PublishAudio

\* Tasks whose await is ready are polled, and publications end; the queues deliver
\* what is new and what was refused; the select, which picks a ready branch at
\* random, does not pass the channel over for ever.  The providers owe nothing.
FairSpec ==
  /\ Spec
  /\ \A s \in Session : WF_vars(Publication(s)) /\ SF_vars(Relay(s)) /\ WF_vars(RelayTask(s))
  /\ WF_vars(LlmReady) /\ WF_vars(TtsReady)

-----------------------------------------------------------------------------
(* Safety. *)

\* A message names "unknown" only when a start without a streamSid said so, never
\* because it was composed before any start was read: audio can only come back of a
\* session whose start was read before its media was published, however late the
\* relay task composes the message (handle_websocket).
NothingBeforeStart ==
  \A s \in Session : \A i \in DOMAIN sent[s] : sent[s][i].named

Said(s, t) == {i \in DOMAIN sent[s] : sent[s][i].text = t}
Attempts(t) == {d \in (DOMAIN answers) \X (1 .. MaxDeliver) :
                  answers[d[1]] = t /\ d[2] <= answerTries[d[1]]}

\* The caller hears an answer at most as often as the TTS service was asked to
\* speak it: nothing on the way from the queue to the WebSocket doubles it.
NoEchoWithoutRetry ==
  \A s \in Session, t \in Text : Cardinality(Said(s, t)) <= Cardinality(Attempts(t))

\* As long as nothing is delivered twice, the caller hears the answers in the
\* order the transcriptions were published, each once.
AnswersInOrder ==
  (\A t \in Text : textTries[t] <= 1) /\ (\A a \in Answer : answerTries[a] <= 1) =>
    \A s \in Session : \A i, j \in DOMAIN sent[s] : i < j => sent[s][i].text < sent[s][j].text

\* An assistant's message stands right after the message of the user it answers,
\* through redeliveries, failed publications, ends of the conversation and
\* restarts of the service (handle_transcription).
ConversationIsPaired ==
  \A s \in Session : \A i \in DOMAIN conversation[s] :
    conversation[s][i][1] = "assistant" =>
      i > 1 /\ conversation[s][i - 1] = <<"user", conversation[s][i][2]>>

(* Liveness. *)

\* If no request to a provider hangs for ever, a transcription is answered aloud
\* although publications fail and services restart, as long as that happens less than
\* MaxDeliver times: unless its answer could not be generated or synthesized, was
\* published before the relay task listened, or the call ended.
TranscriptionIsAnswered ==
  []<>(thinking[1] # "generating") /\ []<>(speaking[1] # "synthesizing") =>
    \A s \in Session, t \in Text :
      t \in DOMAIN texts /\ texts[t] = [session |-> s, kind |-> "transcription"] ~>
        Said(s, t) # {} \/ t \in failed \cup missed \/ conn[s] # "open"

=============================================================================
