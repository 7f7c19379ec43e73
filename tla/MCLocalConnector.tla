-------------------------- MODULE MCLocalConnector --------------------------
(* Small instances of LocalConnector for TLC. *)
EXTENDS LocalConnector, TLC

Symmetry == Permutations(Daemon)
=============================================================================
