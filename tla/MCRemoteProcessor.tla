------------------------- MODULE MCRemoteProcessor -------------------------
(* Instances of RemoteProcessor for TLC. *)
EXTENDS RemoteProcessor

=============================================================================
