------------------------ MODULE MCTransportSessions ------------------------
(* Instances of TransportSessions for TLC. *)
EXTENDS TransportSessions, TLC

\* Every id in one shard, the worst case, and each in its own.
OneShard == [h \in Handle |-> 1]
OwnShard == [h \in Handle |-> h]

Symmetry == Permutations(Client)

=============================================================================
