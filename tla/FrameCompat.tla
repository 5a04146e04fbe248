---------------------------- MODULE FrameCompat ----------------------------
(***************************************************************************)
(* FrameWrapper::to_processing_event and from_processing_event of          *)
(* crates/shared/src/frames/compat.rs, by which a frame crosses a part of  *)
(* the system that speaks events: out as an event, back as a frame.        *)
(* Events of other producers come in too, with parts of their payload      *)
(* missing.                                                                *)
(*                                                                         *)
(* Texts, audio and metadata are one abstract content.  The fields apart   *)
(* are those the conversions lose, default or replace.  The frame_id is    *)
(* left out: every conversion to a data or control frame draws a new one.  *)
(*                                                                         *)
(* A definition A_B is A with the bug B.  No specification uses it; the    *)
(* project file names the property that fails when it replaces A.          *)
(***************************************************************************)
CONSTANTS
  Session,   \* session ids
  Content,   \* what a frame carries
  Default,   \* the content put where an event carries none
  Missing    \* an event's content field that is not there

ASSUME CompatAssumption ==
  /\ Default \in Content
  /\ Missing \notin Content \cup BOOLEAN

SystemKinds == {"Start", "End", "StartInterruption", "StopInterruption", "Error",
                "UserStartedSpeaking", "UserStoppedSpeaking", "Cancel"}
ControlKinds == {"TTSStarted", "TTSStopped", "LLMResponseStart", "LLMResponseEnd",
                 "BotStartedSpeaking", "BotStoppedSpeaking"}
AudioKinds == {"InputAudio", "OutputAudio"}
DataKinds == AudioKinds \cup {"Transcription", "LLMText", "Text", "Image"}
Kinds == SystemKinds \cup ControlKinds \cup DataKinds

\* Frames without a payload carry Default; recoverable matters in an Error,
\* complete in an LLMText, pcm16 in the audio frames, stamp outside the system
\* frames.
Bare == ControlKinds \cup {"StopInterruption", "UserStartedSpeaking",
                           "UserStoppedSpeaking", "Cancel"}
Frame ==
  {f \in [kind : Kinds, session : Session, content : Content, stamp : {0, 1},
          recoverable : BOOLEAN, complete : BOOLEAN, pcm16 : BOOLEAN] :
     /\ f.kind \in Bare => f.content = Default
     /\ f.kind # "Error" => f.recoverable
     /\ f.kind # "LLMText" => f.complete
     /\ f.kind \notin AudioKinds => f.pcm16
     /\ f.kind \in SystemKinds => f.stamp = 0}

\* The type of the event each kind becomes, in to_processing_event.
EventType ==
  [k \in Kinds |->
     CASE k = "Start" -> "session_start" [] k = "End" -> "session_end"
       [] k = "StartInterruption" -> "interrupt_start"
       [] k = "StopInterruption" -> "interrupt_stop"
       [] k = "Error" -> "error" [] k = "Cancel" -> "cancel"
       [] k = "UserStartedSpeaking" -> "user_started_speaking"
       [] k = "UserStoppedSpeaking" -> "user_stopped_speaking"
       [] k = "InputAudio" -> "audio_input" [] k = "OutputAudio" -> "audio_output"
       [] k = "Transcription" -> "transcription_output"
       [] k = "LLMText" -> "llm_response_complete"
       [] k = "Text" -> "text" [] k = "Image" -> "image"
       [] k = "TTSStarted" -> "tts_started" [] k = "TTSStopped" -> "tts_stopped"
       [] k = "LLMResponseStart" -> "llm_response_start"
       [] k = "LLMResponseEnd" -> "llm_response_end"
       [] k = "BotStartedSpeaking" -> "bot_started_speaking"
       [] k = "BotStoppedSpeaking" -> "bot_stopped_speaking"]

\* The kinds from_processing_event has an arm for.
KnownKinds == {"Start", "End", "StartInterruption", "StopInterruption", "Error",
               "UserStartedSpeaking", "UserStoppedSpeaking", "InputAudio",
               "OutputAudio", "Transcription", "LLMText", "TTSStarted", "TTSStopped"}

\* The events of producers other than to_processing_event.
ForeignEvent ==
  [type : {EventType[k] : k \in Kinds}, session : Session,
   content : Content \cup {Missing}, recoverable : BOOLEAN \cup {Missing}, stamp : {0, 1}]

\* Only an ErrorFrame writes the flag; a system frame has no time of its own,
\* its event is stamped with the present one.
ToEvent(f) ==
  [type |-> EventType[f.kind], session |-> f.session, content |-> f.content,
   recoverable |-> IF f.kind = "Error" THEN f.recoverable ELSE Missing,
   stamp |-> IF f.kind \in SystemKinds THEN 1 ELSE f.stamp]

\* An event has a frame when its type has an arm, and audio when it is there.
Convertible(e) ==
  \E k \in KnownKinds : EventType[k] = e.type /\ (k \in AudioKinds => e.content # Missing)

\* What is missing has a default; a missing flag means recoverable.  Text is
\* complete and audio is PCM16, whatever the frame was.
FromEvent(e) ==
  LET kind == CHOOSE k \in KnownKinds : EventType[k] = e.type
  IN  [kind |-> kind, session |-> e.session,
       content |-> IF kind \in Bare \/ e.content = Missing THEN Default ELSE e.content,
       stamp |-> IF kind \in SystemKinds THEN 0 ELSE e.stamp,
       recoverable |-> IF kind = "Error" /\ e.recoverable # Missing
                       THEN e.recoverable ELSE TRUE,
       complete |-> TRUE, pcm16 |-> TRUE]

-----------------------------------------------------------------------------

\* The kinds that become events and never come back: no arm reads them.
LostKinds == {"Cancel", "Text", "Image", "LLMResponseStart", "LLMResponseEnd",
              "BotStartedSpeaking", "BotStoppedSpeaking"}

\* The parts of a frame that mean something on the other side.
Meaning(f) == <<f.kind, f.session, f.content, f.recoverable, f.stamp>>

\* Every frame, except those of the seven lost kinds, comes back from its event and
\* means what it meant: its kind, session and content, the time of a data or control
\* frame, and whether an error ends the session.
MeaningSurvives ==
  \A f \in Frame : f.kind \notin LostKinds =>
    /\ Convertible(ToEvent(f))
    /\ Meaning(FromEvent(ToEvent(f))) = Meaning(f)

\* What the conversions normalise they normalise once: a frame made of an event,
\* whoever produced it, comes back from any further hop exactly as it went out, its
\* frame_id apart.
SecondHopIsExact ==
  \A e \in ForeignEvent : Convertible(e) =>
    LET f == FromEvent(e)
    IN  Convertible(ToEvent(f)) /\ FromEvent(ToEvent(f)) = f

=============================================================================
