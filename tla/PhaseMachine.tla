---------------------------- MODULE PhaseMachine ----------------------------
(***************************************************************************)
(* What the task cycle promises one caller after the other: the phase      *)
(* moves along the edges of the protocol one step at a time, every passage *)
(* of a strict gate uses up an approval of its own, testing sends work     *)
(* back for fixing only while iterations are left, and an ended cycle      *)
(* never moves again.                                                      *)
(***************************************************************************)
EXTENDS CyclePhases, Naturals

CONSTANT MaxTestIterations

VARIABLES phase,    \* the current phase
          fixes,    \* times the cycle went to FIXING
          granted   \* an approval to leave the current phase is in hand

vars == <<phase, fixes, granted>>

Init == phase = "planning" /\ fixes = 0 /\ ~granted

\* Entity B approves; the approval may be dropped before it is used.
Grant == phase \in Strict /\ granted' = TRUE /\ UNCHANGED <<phase, fixes>>
Withdraw == granted' = FALSE /\ UNCHANGED <<phase, fixes>>

\* Ordinary progress: no gate, nothing counted.
Advance(to) ==
    /\ phase \notin Strict
    /\ to \in Successors(phase) \ {"fixing"}
    /\ phase' = to
    /\ UNCHANGED <<fixes, granted>>

\* The gate of a strict phase opens, forward or back for changes.
OpenGate(to) ==
    /\ phase \in Strict /\ granted
    /\ to \in Successors(phase)
    /\ phase' = to
    /\ granted' = FALSE
    /\ fixes' = IF to = "fixing" THEN fixes + 1 ELSE fixes

\* Failed tests send the work back, MaxTestIterations times at most.
SendBack ==
    /\ phase = "testing" /\ fixes < MaxTestIterations
    /\ phase' = "fixing"
    /\ fixes' = fixes + 1
    /\ UNCHANGED granted

Abort(to) ==
    /\ phase \notin Terminal /\ to \in Aborted
    /\ phase' = to
    /\ UNCHANGED <<fixes, granted>>

Next ==
    \/ Grant \/ Withdraw \/ SendBack
    \/ \E to \in Phase : Advance(to) \/ OpenGate(to) \/ Abort(to)

Spec == Init /\ [][Next]_vars
=============================================================================
