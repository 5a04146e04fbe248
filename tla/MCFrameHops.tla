---------------------------- MODULE MCFrameHops ----------------------------
(* Instances of FrameHops for TLC. *)
EXTENDS FrameHops

=============================================================================
