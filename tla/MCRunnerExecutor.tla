-------------------------- MODULE MCRunnerExecutor --------------------------
(* Instances of RunnerExecutor for TLC. *)
EXTENDS RunnerExecutor

=============================================================================
