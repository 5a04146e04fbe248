----------------------------- MODULE FrameHops -----------------------------
(***************************************************************************)
(* A frame that crosses parts of the system that speak events, any number  *)
(* of times, by the conversions of FrameCompat; or an event of another     *)
(* producer that does.                                                     *)
(***************************************************************************)
EXTENDS FrameCompat

CONSTANT NoFrame  \* no frame, or no event

VARIABLES
  frame,  \* the frame, or NoFrame while it travels or when it is lost
  event,  \* the event it travels as, or NoFrame
  last    \* the frame that was last sent out, or NoFrame

hopVars == <<frame, event, last>>

HopInit ==
  /\ \/ frame \in Frame /\ event = NoFrame
     \/ frame = NoFrame /\ event \in ForeignEvent
  /\ last = NoFrame

PublishFrame ==
  /\ frame # NoFrame
  /\ event' = ToEvent(frame)
  /\ last' = frame
  /\ frame' = NoFrame

Receive ==
  /\ event # NoFrame
  /\ Convertible(event)
  /\ frame' = FromEvent(event)
  /\ event' = NoFrame
  /\ UNCHANGED last

\* "Unknown event type", or "Missing audio_data".
Reject ==
  /\ event # NoFrame
  /\ ~Convertible(event)
  /\ event' = NoFrame
  /\ UNCHANGED <<frame, last>>

HopNext == PublishFrame \/ Receive \/ Reject

HopSpec == HopInit /\ [][HopNext]_hopVars

-----------------------------------------------------------------------------

\* tests/integration_test.rs, test_roundtrip_conversion: from_processing_event of the
\* event of a TextFrame returns Ok.
TextComesBack ==
  event # NoFrame /\ last # NoFrame /\ last.kind = "Text" => Convertible(event)

=============================================================================
