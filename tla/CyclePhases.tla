----------------------------- MODULE CyclePhases -----------------------------
(***************************************************************************)
(* amprealize/task_cycle_contracts.py: the phases of a task cycle (GEP),   *)
(* which phase may follow which, and the gate on leaving each.             *)
(***************************************************************************)

\* CyclePhase
Phase == {"planning", "clarifying", "architecting", "executing", "testing", "fixing",
          "verifying", "completing", "completed", "cancelled", "failed"}
Aborted == {"cancelled", "failed"}
Terminal == {"completed"} \cup Aborted      \* TaskCycle.is_terminal

\* PHASE_GATES, the strict ones
Strict == {"architecting", "verifying", "completing"}

\* VALID_TRANSITIONS
Successors(p) ==
    CASE p = "planning"     -> {"clarifying", "architecting"}
      [] p = "clarifying"   -> {"clarifying", "architecting"}
      [] p = "architecting" -> {"executing", "clarifying"}
      [] p = "executing"    -> {"testing"}
      [] p = "testing"      -> {"fixing", "verifying"}
      [] p = "fixing"       -> {"testing"}
      [] p = "verifying"    -> {"completing", "fixing"}
      [] p = "completing"   -> {"completed"}
      [] OTHER              -> {}

ValidTransitions(p) == IF p \in Terminal THEN {} ELSE Successors(p) \cup Aborted
=============================================================================
