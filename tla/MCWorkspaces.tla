---------------------------- MODULE MCWorkspaces ----------------------------
(* Small instances of Workspaces for TLC. *)
EXTENDS Workspaces, TLC

Once == [r \in Run |-> 1]
Symmetry == Permutations(Run) \cup Permutations(Worker)

=============================================================================
