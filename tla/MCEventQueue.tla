---------------------------- MODULE MCEventQueue ----------------------------
(* Instances of EventQueue for TLC, and of the conversions of what events  *)
(* carry.                                                                  *)
EXTENDS EventQueue, FrameCompat

\* What the conversions keep has no state to be an invariant of: it is evaluated here,
\* for the frames and events of this instance, before EventQueueProofs proves it.
ASSUME ConversionsChecked == MeaningSurvives /\ SecondHopIsExact

=============================================================================
