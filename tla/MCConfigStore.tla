--------------------------- MODULE MCConfigStore ---------------------------
(* Instances of ConfigStore for TLC. *)
EXTENDS ConfigStore, TLC

Symmetry == Permutations(Client) \cup Permutations(Session)

=============================================================================
