---------------------------- MODULE MCTaskCycle -----------------------------
(* Small instances of TaskCycle for TLC. *)
EXTENDS TaskCycle, TLC

Symmetry == Permutations(Caller)

\* CANCELLED and FAILED are treated alike: one of them is enough where the
\* audit trail of two callers is followed.
OneAbort == Phase \ {"failed"}
=============================================================================
