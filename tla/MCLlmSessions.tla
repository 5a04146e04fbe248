--------------------------- MODULE MCLlmSessions ---------------------------
(* Instances of LlmSessions for TLC. *)
EXTENDS LlmSessions

=============================================================================
