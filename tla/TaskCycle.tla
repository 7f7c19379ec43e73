----------------------------- MODULE TaskCycle ------------------------------
(***************************************************************************)
(* amprealize/task_cycle_service.py: one task cycle in PostgreSQL and the  *)
(* calls that agents, users and workers make on it at the same time.       *)
(*                                                                         *)
(* Every operation reads the cycle, decides on that snapshot, and writes   *)
(* with neither a lock nor a comparison with what it read. The pool hands  *)
(* out connections in autocommit mode (storage/postgres_pool.py:243), so   *)
(* each statement takes effect by itself: a step here is one statement,    *)
(* and other calls, or the end of the process, come between any two.       *)
(* Timestamps, metadata, timeout counters and the clarification threads    *)
(* decide nothing and are left out.                                        *)
(***************************************************************************)
EXTENDS CyclePhases, Naturals, FiniteSets

CONSTANTS Caller,             \* concurrent calls of the service
          MaxTestIterations,  \* max_test_iterations of the cycle
          Target,             \* bound: phases that direct calls ask for
          MaxDocs,            \* bound: architecture documents ever inserted
          MaxEdges,           \* bound: distinct rows of the audit trail
          MaxFixes            \* bound: values of test_iterations

ASSUME CycleAssumption ==
    /\ MaxTestIterations \in Nat
    /\ Target \subseteq Phase
    /\ MaxDocs \in Nat
    /\ MaxEdges \in Nat
    /\ MaxFixes \in Nat

VARIABLES
    phase,       \* task_cycles.current_phase
    iterations,  \* task_cycles.test_iterations
    rows,        \* phase_transitions: edges recorded, and whether a gate was opened
    link,        \* task_cycles.architecture_doc_id, 0 if none
    review,      \* architecture_docs: id -> review_status
    call         \* caller -> its call in progress: where it is, what it read
                 \* (phase, iterations, doc) and asks for (to, approved, last)

vars == <<phase, iterations, rows, link, review, call>>
cycle == <<phase, iterations, rows, link, review>>

Row == [from : Phase, to : Phase, approved : BOOLEAN]
Doc == 1..MaxDocs

Idle == [pc |-> "idle", phase |-> "planning", iterations |-> 0, doc |-> 0,
         to |-> "planning", approved |-> FALSE, last |-> TRUE]

\* A call that works on document doc.
DocCall(pc, doc) == [pc |-> pc, phase |-> "planning", iterations |-> 0, doc |-> doc,
                     to |-> "planning", approved |-> FALSE, last |-> TRUE]

\* create_cycle has inserted the row.
Init ==
    /\ phase = "planning"
    /\ iterations = 0
    /\ rows = {}
    /\ link = 0
    /\ review = [d \in Doc |-> "none"]
    /\ call = [c \in Caller |-> Idle]

-----------------------------------------------------------------------------
(* transition_phase.                                                       *)

\* Faulty variant: the gates are not looked at.
AllowedUngated(to, approved) ==
    /\ to \in ValidTransitions(phase)
    /\ phase = "testing" /\ to = "fixing" => iterations < MaxTestIterations

\* The checks, on the cycle as it is read.
Allowed(to, approved) ==
    /\ to \in ValidTransitions(phase)
    /\ phase \in Strict /\ to \notin Aborted => approved
    /\ phase = "testing" /\ to = "fixing" => iterations < MaxTestIterations

\* The approval of a request counts where there is a gate to open.
Opens(to, approved) == approved /\ phase \in Strict /\ to \notin Aborted

\* Read and check; last says that the call ends with this transition.
ReadFor(c, to, approved, last) ==
    call' = [call EXCEPT ![c] =
        IF Allowed(to, approved)
        THEN [pc |-> "write", phase |-> phase, iterations |-> iterations, doc |-> 0,
              to |-> to, approved |-> Opens(to, approved), last |-> last]
        ELSE Idle]

\* A direct call.
TransitionPhase(c, to, approved) ==
    /\ call[c].pc = "idle"
    /\ Allowed(to, approved)
    /\ ReadFor(c, to, approved, TRUE)
    /\ UNCHANGED cycle

\* transition_phase called by another operation of the service.
Read(c) ==
    /\ call[c].pc = "read"
    /\ ReadFor(c, call[c].to, call[c].approved, call[c].last)
    /\ UNCHANGED cycle

Counted(c) == IF call[c].to = "fixing" THEN call[c].iterations + 1 ELSE call[c].iterations

\* transition_phase is about to be called by another operation.
Request(to, approved, last) ==
    [pc |-> "read", phase |-> "planning", iterations |-> 0, doc |-> 0,
     to |-> to, approved |-> approved, last |-> last]

\* What is left of a call after a transition: accept_completion goes on from
\* COMPLETING to COMPLETED.
Rest(c) ==
    IF call[c].last THEN Idle
    ELSE Request("completed", TRUE, TRUE)

RowOf(c) == [from |-> call[c].phase, to |-> call[c].to, approved |-> call[c].approved]

\* Faulty variant: the row of an aborted cycle is not recorded.
RecordUnlessAborted(c) ==
    /\ call[c].pc = "write"
    /\ RowOf(c) \in rows \/ Cardinality(rows) < MaxEdges
    /\ rows' = IF call[c].to \in Aborted THEN rows ELSE rows \cup {RowOf(c)}
    /\ call' = [call EXCEPT ![c].pc = "update"]
    /\ UNCHANGED <<phase, iterations, link, review>>

\* The transition is recorded ...
Record(c) ==
    /\ call[c].pc = "write"
    /\ RowOf(c) \in rows \/ Cardinality(rows) < MaxEdges
    /\ rows' = rows \cup {RowOf(c)}
    /\ call' = [call EXCEPT ![c].pc = "update"]
    /\ UNCHANGED <<phase, iterations, link, review>>

\* Faulty variant: the iteration counter is not written.
UpdateUncounted(c) ==
    /\ call[c].pc = "update"
    /\ phase' = call[c].to
    /\ call' = [call EXCEPT ![c] = Rest(c)]
    /\ UNCHANGED <<iterations, rows, link, review>>

\* ... then the cycle is overwritten.
Update(c) ==
    /\ call[c].pc = "update"
    /\ Counted(c) <= MaxFixes
    /\ phase' = call[c].to
    /\ iterations' = Counted(c)
    /\ call' = [call EXCEPT ![c] = Rest(c)]
    /\ UNCHANGED <<rows, link, review>>

-----------------------------------------------------------------------------
(* The operations that end in a transition.                                *)

Ask(c, to, approved, last) ==
    call' = [call EXCEPT ![c] = Request(to, approved, last)]

\* submit_test_results
SubmitTestResults(c, passed) ==
    /\ call[c].pc = "idle"
    /\ phase = "testing"
    /\ Ask(c, IF passed THEN "verifying" ELSE "fixing", FALSE, TRUE)
    /\ UNCHANGED cycle

\* accept_completion: two transitions from VERIFYING, one from COMPLETING.
AcceptCompletion(c, accepted) ==
    /\ call[c].pc = "idle"
    /\ phase \in {"verifying", "completing"}
    /\ IF ~accepted THEN Ask(c, "fixing", TRUE, TRUE)
       ELSE IF phase = "verifying" THEN Ask(c, "completing", TRUE, FALSE)
       ELSE Ask(c, "completed", TRUE, TRUE)
    /\ UNCHANGED cycle

\* Faulty variant: whether there is a document is not checked.
ApproveUnchecked(c) ==
    /\ call[c].pc = "idle"
    /\ phase = "architecting"
    /\ call' = [call EXCEPT ![c] = DocCall("approve", link)]
    /\ UNCHANGED cycle

\* approve_architecture: read and check ...
ApproveArchitecture(c) ==
    /\ call[c].pc = "idle"
    /\ phase = "architecting"
    /\ link # 0
    /\ call' = [call EXCEPT ![c] = DocCall("approve", link)]
    /\ UNCHANGED cycle

\* ... mark the document, whatever is in it by now, then transition.
ApproveWrite(c) ==
    /\ call[c].pc = "approve"
    /\ review' = [review EXCEPT ![call[c].doc] = "approved"]
    /\ Ask(c, "executing", TRUE, TRUE)
    /\ UNCHANGED <<phase, iterations, rows, link>>

-----------------------------------------------------------------------------
(* create_architecture: in any phase.                                      *)

CreateArchitecture(c) ==
    /\ call[c].pc = "idle"
    /\ call' = [call EXCEPT ![c] = DocCall("doc", link)]
    /\ UNCHANGED cycle

\* A new version of the document that was read, or a first document ...
CreateWrite(c) ==
    /\ call[c].pc = "doc"
    /\ IF call[c].doc # 0
       THEN /\ review' = [review EXCEPT ![call[c].doc] = "pending"]
            /\ call' = [call EXCEPT ![c] = Idle]
       ELSE \E d \in Doc :
              /\ review[d] = "none" /\ \A e \in Doc : e < d => review[e] # "none"
              /\ review' = [review EXCEPT ![d] = "pending"]
              /\ call' = [call EXCEPT ![c] = DocCall("link", d)]
    /\ UNCHANGED <<phase, iterations, rows, link>>

\* ... which is then linked to the cycle.
CreateLink(c) ==
    /\ call[c].pc = "link"
    /\ link' = call[c].doc
    /\ call' = [call EXCEPT ![c] = Idle]
    /\ UNCHANGED <<phase, iterations, rows, review>>

\* The caller's process dies, or its connection does, between two steps.
Crash(c) ==
    /\ call[c].pc # "idle"
    /\ call' = [call EXCEPT ![c] = Idle]
    /\ UNCHANGED cycle

Next ==
    \E c \in Caller :
       \/ \E to \in Target, approved \in BOOLEAN : TransitionPhase(c, to, approved)
       \/ Read(c) \/ Record(c) \/ Update(c)
       \/ \E b \in BOOLEAN : SubmitTestResults(c, b) \/ AcceptCompletion(c, b)
       \/ ApproveArchitecture(c) \/ ApproveWrite(c)
       \/ CreateArchitecture(c) \/ CreateWrite(c) \/ CreateLink(c)
       \/ Crash(c)

Spec == Init /\ [][Next]_vars

-----------------------------------------------------------------------------
(* Properties.                                                             *)

Call == [pc : {"idle", "read", "write", "update", "approve", "doc", "link"},
         phase : Phase, iterations : Nat, doc : 0..MaxDocs,
         to : Phase, approved : BOOLEAN, last : BOOLEAN]

TypeOK ==
    /\ phase \in Phase
    /\ iterations \in Nat
    /\ rows \subseteq Row
    /\ link \in 0..MaxDocs
    /\ review \in [Doc -> {"none", "pending", "approved"}]
    /\ call \in [Caller -> Call]
    /\ \A c \in Caller : call[c].pc = "approve" => call[c].doc # 0

\* The audit trail accounts for the phase: however calls overwrite each other,
\* recorded transitions lead from PLANNING to it. (Every set of visited phases
\* that has PLANNING and is closed under the rows has the phase.)
Visited == {"planning"} \cup {r.to : r \in rows}
Explained(p) ==
    /\ p \in Visited
    /\ \A S \in SUBSET Visited :
          "planning" \in S /\ (\A r \in rows : r.from \in S => r.to \in S) => p \in S
AuditExplainsPhase == Explained(phase)

\* No interleaving of calls takes a cycle past a strict gate that was never
\* opened by an approval: work starts after the architecture was approved, and
\* a cycle is completed after verification and final acceptance as well.
Opened(from, to) == [from |-> from, to |-> to, approved |-> TRUE] \in rows
GatesWereOpened ==
    /\ phase \in {"executing", "testing", "fixing", "verifying", "completing", "completed"}
          => Opened("architecting", "executing")
    /\ phase \in {"completing", "completed"} => Opened("verifying", "completing")
    /\ phase = "completed" => Opened("completing", "completed")

\* A transition that passed the checks and is not written yet.
Pending(c) == call[c].pc \in {"write", "update"}

\* With one caller at a time the service implements the phase machine.
Machine == INSTANCE PhaseMachine WITH
    fixes <- iterations,
    granted <- \E c \in Caller : Pending(c) /\ call[c].approved

Serial == Machine!Spec

\* An ended cycle never moves again. Two callers break it: the one that read
\* the cycle before it ended writes last.
TerminalIsFinal == [][(phase \in Terminal) => UNCHANGED phase]_vars

=============================================================================
