----------------------------- MODULE MCAgentRun -----------------------------
(* Small instances of AgentRun for TLC. *)
EXTENDS AgentRun, TLC

Symmetry == Permutations(Worker)

\* ExecutionPolicy.for_engineering_agent: keyed by phases.
Engineering ==
    [p \in Phase \ Terminal |->
        IF p = "verifying" THEN "strict"
        ELSE IF p \in {"clarifying", "architecting"} THEN "soft" ELSE "none"]

\* A policy that the look-up by gate type finds.
ByGateType == [g \in {"strict"} |-> "strict"]

Policies == {Engineering, ByGateType}
OnlyEngineering == {Engineering}
=============================================================================
