-------------------------- MODULE MCExecutionQueue --------------------------
(* Small instance of ExecutionQueue for TLC. *)
EXTENDS ExecutionQueue, TLC

Symmetry == Permutations(Consumer) \cup Permutations(Job)
=============================================================================
