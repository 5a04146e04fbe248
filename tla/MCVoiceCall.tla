---------------------------- MODULE MCVoiceCall ----------------------------
(* Instances of VoiceCall for TLC. *)
EXTENDS VoiceCall

=============================================================================
