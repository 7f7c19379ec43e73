------------------------------ MODULE AgentRun -------------------------------
(***************************************************************************)
(* One run of an agent on a work item: the row of the run in PostgreSQL,   *)
(* its task cycle, the jobs in the execution queue that carry it, and      *)
(*                                                                         *)
(*   agent_execution_loop.py, execution_worker.py   workers that take a    *)
(*       job, drive the cycle through its phases and report on the run     *)
(*   work_item_execution_service.py   users who cancel the run or approve  *)
(*       a gate, which enqueues another job for it                         *)
(*   run_service_postgres.py   every update reads the row and writes it    *)
(*       back whole, in two statements                                     *)
(*                                                                         *)
(* The cycle is TaskCycle and its steps are that module's; the queue is    *)
(* what ExecutionQueue was shown to implement, AtLeastOnceQueue: a job     *)
(* stays claimed, and may be given to any worker, until it is settled.     *)
(* A failing database is not modelled.                                     *)
(***************************************************************************)
EXTENDS CyclePhases, Naturals

CONSTANTS Worker,             \* worker processes
          Canceller,          \* users who cancel the run
          Approver,           \* users who approve gates
          Policy,             \* execution policies: gate type -> gate policy
          MaxTestIterations,  \* max_test_iterations of the cycle
          MaxTurns,           \* MAX_TOTAL_ITERATIONS
          MaxJobs,            \* bound: jobs ever enqueued for the run
          MaxSaves            \* bound: checkpoint sequence numbers

ASSUME RunAssumption ==
    /\ MaxTestIterations \in Nat
    /\ MaxTurns \in Nat
    /\ MaxJobs \in Nat \ {0}
    /\ MaxSaves \in Nat

Status == {"PENDING", "RUNNING", "COMPLETED", "FAILED", "CANCELLED"}
Job == 1..MaxJobs
User == Canceller \cup Approver

VARIABLES
    \* the task cycle
    phase, iterations, rows, link, review, call,
    \* the queue, as AtLeastOnceQueue has it
    jobs, succeeded, buried,
    \* the rest
    policy,     \* the execution policy of the agent
    modes,      \* jobs whose payload names an execution mode
    run,        \* the row of the run: status, checkpoint sequence and phases
    worker,     \* worker -> its local state
    user        \* user -> their local state

cycle == <<phase, iterations, rows, link, review, call>>
queue == <<jobs, succeeded, buried>>
vars == <<cycle, queue, policy, modes, run, worker, user>>

\* With room for every row there can be, 2 * 11 * 11 of them.
Cycle == INSTANCE TaskCycle WITH
    Caller <- Worker \cup User, Target <- Phase, MaxDocs <- 0,
    MaxEdges <- 242, MaxFixes <- MaxTestIterations

Queue == INSTANCE AtLeastOnceQueue WITH Entries <- Job, status <- jobs

Run == [status : Status, seq : Nat, outputs : SUBSET Phase]
NewRun == [status |-> "PENDING", seq |-> 0, outputs |-> {}]

\* An update of the run: the status to put, or "same" for the status that is
\* read, whether a checkpoint is saved and under which number, and where the
\* worker goes on afterwards.
NoUpdate == [status |-> "same", save |-> FALSE, seq |-> 0, after |-> "idle"]

\* The local state of a worker: its job, the row it read last, the update under
\* way, phase_outputs, the phase it executes with what came out and where that
\* leads, and the iterations so far.
Off == [pc |-> "idle", job |-> 0, row |-> NewRun, update |-> NoUpdate, mem |-> {},
        at |-> [phase |-> "planning", result |-> "stay", next |-> "planning"], turn |-> 0]

Away == [pc |-> "idle", row |-> NewRun, to |-> "planning"]

\* execute has created the run and its cycle; the job is not enqueued yet.
Init ==
    /\ Cycle!Init
    /\ Queue!Init
    /\ policy \in Policy
    /\ modes = {}
    /\ run = NewRun
    /\ worker = [w \in Worker |-> Off]
    /\ user = [u \in User |-> Away]

-----------------------------------------------------------------------------
(* Updates of the run: read the row, write it back with the change.        *)

\* The worker goes on in a new local state.
Become(w, state) == worker' = [worker EXCEPT ![w] = state]

Go(w, pc) == Become(w, [worker[w] EXCEPT !.pc = pc])

\* An update by w is next; status "same" leaves the status as it is read.
Put(w, status, after) ==
    Become(w, [worker[w] EXCEPT !.pc = "read", !.update =
        [status |-> status, save |-> FALSE, seq |-> 0, after |-> after]])

UpdateRead(w) ==
    /\ worker[w].pc = "read"
    /\ Become(w, [worker[w] EXCEPT !.pc = "write", !.row = run])
    /\ UNCHANGED <<cycle, queue, policy, modes, run, user>>

UpdateWrite(w) ==
    LET me == worker[w]
        up == me.update
    IN  /\ me.pc = "write"
        /\ run' = [status  |-> IF up.status = "same" THEN me.row.status ELSE up.status,
                   seq     |-> IF up.save THEN up.seq ELSE me.row.seq,
                   outputs |-> IF up.save THEN me.mem ELSE me.row.outputs]
        /\ Become(w, [me EXCEPT !.pc = up.after, !.row = NewRun, !.update = NoUpdate])
        /\ UNCHANGED <<cycle, queue, policy, modes, user>>

\* Updates that set no status: heartbeats, steps, receipts.
Touch(w) ==
    /\ worker[w].pc \in {"load", "hydrate", "execute", "decide"}
    /\ Put(w, "same", worker[w].pc)
    /\ UNCHANGED <<cycle, queue, policy, modes, run, user>>

-----------------------------------------------------------------------------
(* A worker takes a job.                                                   *)

\* execute, at its end.
Enqueue(named) ==
    /\ Queue!Publish(1, {})
    /\ modes' = IF named THEN {1} ELSE {}
    /\ UNCHANGED <<cycle, policy, run, worker, user>>

\* Faulty variant: the worker does not note which job it works on.
TakeForgetsJob(w, j) ==
    /\ worker[w].pc = "idle"
    /\ Queue!Deliver({j})
    /\ Become(w, [Off EXCEPT !.pc = "load"])
    /\ UNCHANGED <<cycle, policy, modes, run, user>>

\* A new job, or one that was claimed and not settled.
Take(w, j) ==
    /\ worker[w].pc = "idle"
    /\ Queue!Deliver({j})
    /\ Become(w, [Off EXCEPT !.pc = "load", !.job = j])
    /\ UNCHANGED <<cycle, policy, modes, run, user>>

\* The context or the credentials of the job cannot be loaded.
FailEarly(w) ==
    /\ worker[w].pc = "load"
    /\ Go(w, "nack")
    /\ UNCHANGED <<cycle, queue, policy, modes, run, user>>

\* run begins: RUNNING, whatever the status is. Without an execution mode it
\* raises before that.
Begin(w) ==
    /\ worker[w].pc = "load"
    /\ IF worker[w].job \in modes THEN Put(w, "RUNNING", "hydrate") ELSE Go(w, "failed")
    /\ UNCHANGED <<cycle, queue, policy, modes, run, user>>

\* Faulty variant for a check of the checks: the checkpoint is not loaded.
HydrateNothing(w) ==
    /\ worker[w].pc = "hydrate"
    /\ Go(w, "loop")
    /\ UNCHANGED <<cycle, queue, policy, modes, run, user>>

\* The checkpoint of an earlier delivery is loaded.
Hydrate(w) ==
    /\ worker[w].pc = "hydrate"
    /\ Become(w, [worker[w] EXCEPT !.pc = "loop", !.mem = run.outputs])
    /\ UNCHANGED <<cycle, queue, policy, modes, run, user>>

-----------------------------------------------------------------------------
(* One iteration of the loop.                                              *)

GetCycle(w) ==
    /\ worker[w].pc = "loop"
    /\ IF worker[w].turn < MaxTurns
       THEN Become(w, [worker[w] EXCEPT !.pc = "execute", !.at =
                          [phase |-> phase, result |-> "stay", next |-> phase]])
       ELSE Put(w, "FAILED", "failed")
    /\ UNCHANGED <<cycle, queue, policy, modes, run, user>>

\* What comes out of a phase.
Result == {"advance", "stay", "clarify", "finish", "finishBadly", "fail"}

\* What the handler of each phase returns, and where it leads.
Planning == {<<"advance", "architecting">>, <<"clarify", "clarifying">>, <<"fail", "planning">>}
Clarifying == {<<"stay", "clarifying">>}
Architecting == {<<"advance", "executing">>}
Executing == {<<"advance", "testing">>}
Testing == {<<"advance", "verifying">>, <<"advance", "fixing">>}
Fixing == {<<"advance", "testing">>}
Verifying == {<<"advance", "completing">>, <<"stay", "verifying">>}
Completing == {<<"finish", "completing">>}

Handled(p) ==
    CASE p = "planning"     -> Planning
      [] p = "clarifying"   -> Clarifying
      [] p = "architecting" -> Architecting
      [] p = "executing"    -> Executing
      [] p = "testing"      -> Testing
      [] p = "fixing"       -> Fixing
      [] p = "verifying"    -> Verifying
      [] p = "completing"   -> Completing
      [] OTHER              -> {}

\* Faulty variant: the run ends with the verification, passed or not.
OutcomeEndsEarly(p) ==
    Handled(p) \cup (IF p \in {"verifying", "completing"} THEN {<<"finish", p>>} ELSE {<<"fail", p>>})

\* How a phase may come out: as its handler returns, or failed, because the
\* handler raises (that of CLARIFYING does nothing that could) or because an
\* ended cycle has none. COMPLETING ends the run, failed or not.
Outcome(p) ==
    Handled(p) \cup
    (CASE p = "completing" -> {<<"finishBadly", p>>}
       [] p = "clarifying" -> {}
       [] OTHER            -> {<<"fail", p>>})

\* The handler returns; its outputs replace those of the phase.
ExecutePhase(w, result, next) ==
    LET me == worker[w]
    IN  /\ me.pc = "execute"
        /\ <<result, next>> \in Outcome(me.at.phase)
        /\ Become(w, [me EXCEPT
               !.pc = "commit",
               !.at = [phase |-> me.at.phase, result |-> result, next |-> next],
               !.mem = IF result \in {"advance", "stay", "finish"}
                       THEN @ \cup {me.at.phase} ELSE @ \ {me.at.phase}])
        /\ UNCHANGED <<cycle, queue, policy, modes, run, user>>

\* asyncio.wait_for cancels the loop while it waits for the model or a tool.
TimesOut(w) ==
    /\ worker[w].pc = "execute"
    /\ Go(w, "nack")
    /\ UNCHANGED <<cycle, queue, policy, modes, run, user>>

\* _commit_gep_checkpoint, up to the update of the run.
Commit(w) ==
    /\ worker[w].pc = "commit"
    /\ run.seq < MaxSaves
    /\ Become(w, [worker[w] EXCEPT !.pc = "read", !.update =
           [status |-> "same", save |-> TRUE, seq |-> run.seq + 1, after |-> "decide"]])
    /\ UNCHANGED <<cycle, queue, policy, modes, run, user>>

PhaseGates ==
    [p \in Phase \ Terminal |->
        IF p \in Strict THEN "strict" ELSE IF p \in {"planning", "executing"} THEN "none" ELSE "soft"]

\* The policy is looked up by the type of the gate, not by the phase.
GateSatisfied(p) ==
    p \in DOMAIN PhaseGates /\ PhaseGates[p] \in DOMAIN policy => policy[PhaseGates[p]] # "strict"

EndLoop(w) ==
    /\ worker[w].pc = "decide"
    /\ CASE worker[w].at.result \in {"finish", "finishBadly"} -> Put(w, "COMPLETED", "succeeded")
         [] worker[w].at.result = "fail"                      -> Put(w, "FAILED", "failed")
         [] OTHER -> FALSE
    /\ UNCHANGED <<cycle, queue, policy, modes, run, user>>

Stay(w) ==
    /\ worker[w].pc = "decide" /\ worker[w].at.result = "stay"
    /\ Become(w, [worker[w] EXCEPT !.pc = "loop", !.turn = @ + 1])
    /\ UNCHANGED <<cycle, queue, policy, modes, run, user>>

\* The gate is to wait for an approval. The run never gets as far as PENDING:
\* the name of the gate is taken from _get_gate_type, whose default is no
\* GateType, so that the update raises before it is sent and the run fails.
Pause(w) ==
    /\ worker[w].pc = "decide" /\ worker[w].at.result = "advance"
    /\ ~GateSatisfied(worker[w].at.phase)
    /\ Put(w, "FAILED", "failed")
    /\ UNCHANGED <<cycle, queue, policy, modes, run, user>>

\* transition_phase, approved; a refusal is not noticed.
RequestPhase(c, to) ==
    IF Cycle!Allowed(to, TRUE) THEN Cycle!TransitionPhase(c, to, TRUE) ELSE UNCHANGED cycle

Move(w) ==
    /\ worker[w].pc = "decide"
    /\ \/ worker[w].at.result = "clarify"
       \/ worker[w].at.result = "advance" /\ GateSatisfied(worker[w].at.phase)
    /\ RequestPhase(w, worker[w].at.next)
    /\ Go(w, "moving")
    /\ UNCHANGED <<queue, policy, modes, run, user>>

\* The transition is over: pause for the clarification, or report and go on.
Moved(w) ==
    /\ worker[w].pc = "moving" /\ call[w].pc = "idle"
    /\ IF worker[w].at.result = "clarify"
       THEN Put(w, "PENDING", "succeeded")
       ELSE Become(w, [worker[w] EXCEPT !.pc = "read", !.turn = @ + 1,
                                        !.update = [NoUpdate EXCEPT !.after = "loop"]])
    /\ UNCHANGED <<cycle, queue, policy, modes, run, user>>

\* The steps inside transition_phase, of workers and users.
InTransition(c) ==
    /\ Cycle!Record(c) \/ Cycle!Update(c)
    /\ UNCHANGED <<queue, policy, modes, run, worker, user>>

-----------------------------------------------------------------------------
(* The end of a job.                                                       *)

\* _on_execution_failed. The worker looks at the text of the error alone: when
\* that is empty, as it is of many exceptions that a handler may raise and of a
\* plan that needs clarification and asks nothing, the job is a success. What
\* the loop raises itself, in a phase without a handler too, has a text.
ReportFailure(w, silent) ==
    /\ worker[w].pc = "failed"
    /\ silent => worker[w].at.result = "fail" /\ worker[w].at.phase \notin Terminal
    /\ Put(w, "FAILED", IF silent THEN "succeeded" ELSE "nack")
    /\ UNCHANGED <<cycle, queue, policy, modes, run, user>>

\* Faulty variant: a failed job is acknowledged.
NackAcknowledges(w, dead) ==
    /\ worker[w].pc = "nack"
    /\ Go(w, "ack")
    /\ UNCHANGED <<cycle, queue, policy, modes, run, user>>

\* A job that failed stays claimed, or is moved to the dead-letter queue.
Nack(w, dead) ==
    /\ worker[w].pc = "nack"
    /\ IF dead THEN Queue!Bury(worker[w].job) /\ Go(w, "ack")
               ELSE Become(w, Off) /\ UNCHANGED queue
    /\ UNCHANGED <<cycle, policy, modes, run, user>>

\* Completed runs, and runs that wait for a clarification, are a success.
Succeed(w) ==
    /\ worker[w].pc = "succeeded"
    /\ Queue!Complete(worker[w].job)
    /\ Go(w, "ack")
    /\ UNCHANGED <<cycle, policy, modes, run, user>>

Ack(w) ==
    /\ worker[w].pc = "ack"
    /\ IF jobs[worker[w].job] = "claimed" THEN Queue!Settle(worker[w].job) ELSE UNCHANGED queue
    /\ Become(w, Off)
    /\ UNCHANGED <<cycle, policy, modes, run, user>>

\* What a process leaves behind when it dies: a transition may be cut short.
Abandon(c) == IF call[c].pc # "idle" THEN Cycle!Crash(c) ELSE UNCHANGED cycle

Crash(w) ==
    /\ worker[w].pc # "idle"
    /\ Abandon(w)
    /\ Become(w, Off)
    /\ UNCHANGED <<queue, policy, modes, run, user>>

-----------------------------------------------------------------------------
(* Users.                                                                  *)

\* cancel: only an active run; the cycle is left as it is.
Cancel(u) ==
    /\ user[u].pc = "idle"
    /\ run.status \in {"PENDING", "RUNNING"}
    /\ user' = [user EXCEPT ![u] = [Away EXCEPT !.pc = "cancel"]]
    /\ UNCHANGED <<cycle, queue, policy, modes, run, worker>>

CancelRead(u) ==
    /\ user[u].pc = "cancel"
    /\ user' = [user EXCEPT ![u] = [Away EXCEPT !.pc = "cancelWrite", !.row = run]]
    /\ UNCHANGED <<cycle, queue, policy, modes, run, worker>>

CancelWrite(u) ==
    /\ user[u].pc = "cancelWrite"
    /\ run' = [user[u].row EXCEPT !.status = "CANCELLED"]
    /\ user' = [user EXCEPT ![u] = Away]
    /\ UNCHANGED <<cycle, queue, policy, modes, worker>>

\* approve_gate: a run that waits ...
Approve(u) ==
    /\ user[u].pc = "idle"
    /\ run.status = "PENDING"
    /\ user' = [user EXCEPT ![u] = [Away EXCEPT !.pc = "approve"]]
    /\ UNCHANGED <<cycle, queue, policy, modes, run, worker>>

\* ... in a phase with a strict gate goes to the first phase behind it ...
ApproveLook(u) ==
    /\ user[u].pc = "approve"
    /\ user' = [user EXCEPT ![u] =
           CASE phase = "architecting" -> [Away EXCEPT !.pc = "move", !.to = "executing"]
             [] phase = "verifying"    -> [Away EXCEPT !.pc = "move", !.to = "completing"]
             [] phase = "completing"   -> [Away EXCEPT !.pc = "move", !.to = "completed"]
             [] OTHER                  -> Away]
    /\ UNCHANGED <<cycle, queue, policy, modes, run, worker>>

ApproveMove(u) ==
    /\ user[u].pc = "move"
    /\ RequestPhase(u, user[u].to)
    /\ user' = [user EXCEPT ![u] =
           IF Cycle!Allowed(user[u].to, TRUE) THEN [Away EXCEPT !.pc = "enqueue"] ELSE Away]
    /\ UNCHANGED <<queue, policy, modes, run, worker>>

\* ... and a new job, which names no execution mode, is to go on from there.
\* (The update of the run that follows raises, and is only logged.)
ApproveEnqueue(u, j) ==
    /\ user[u].pc = "enqueue" /\ call[u].pc = "idle"
    /\ jobs[j] = "absent" /\ \A k \in 1..(j - 1) : jobs[k] # "absent"
    /\ Queue!Publish(j, {})
    /\ user' = [user EXCEPT ![u] = Away]
    /\ UNCHANGED <<cycle, policy, modes, run, worker>>

\* The request of the user dies with its process, or cannot enqueue.
Drop(u) ==
    /\ user[u].pc # "idle"
    /\ Abandon(u)
    /\ user' = [user EXCEPT ![u] = Away]
    /\ UNCHANGED <<queue, policy, modes, run, worker>>

-----------------------------------------------------------------------------
WorkerStep(w) ==
    \/ UpdateRead(w) \/ UpdateWrite(w) \/ Touch(w)
    \/ \E j \in Job : Take(w, j)
    \/ FailEarly(w) \/ Begin(w) \/ Hydrate(w)
    \/ GetCycle(w) \/ TimesOut(w) \/ Commit(w)
    \/ \E result \in Result, next \in Phase : ExecutePhase(w, result, next)
    \/ EndLoop(w) \/ Stay(w) \/ Pause(w) \/ Move(w) \/ Moved(w)
    \/ \E silent \in BOOLEAN : ReportFailure(w, silent)
    \/ Succeed(w) \/ Ack(w)
    \/ \E dead \in BOOLEAN : Nack(w, dead)
    \/ Crash(w)

CancelStep(u) == Cancel(u) \/ CancelRead(u) \/ CancelWrite(u)

ApproveStep(u) ==
    \/ Approve(u) \/ ApproveLook(u) \/ ApproveMove(u)
    \/ \E j \in Job : ApproveEnqueue(u, j)

Next ==
    \/ \E named \in BOOLEAN : Enqueue(named)
    \/ \E w \in Worker : WorkerStep(w)
    \/ \E c \in Worker \cup User : InTransition(c)
    \/ \E u \in Canceller : CancelStep(u)
    \/ \E u \in Approver : ApproveStep(u)
    \/ \E u \in User : Drop(u)

Spec == Init /\ [][Next]_vars

-----------------------------------------------------------------------------
(* Properties.                                                             *)

Step == {"idle", "load", "hydrate", "loop", "execute", "commit", "decide", "moving",
         "read", "write", "succeeded", "failed", "nack", "ack"}

WorkerState ==
    [pc : Step, job : 0..MaxJobs, row : Run, mem : SUBSET Phase,
     update : [status : Status \cup {"same"}, save : BOOLEAN, seq : Nat, after : Step],
     at : [phase : Phase, result : Result, next : Phase], turn : Nat]
UserState ==
    [pc : {"idle", "cancel", "cancelWrite", "approve", "move", "enqueue"},
     row : Run, to : Phase]

TypeOK ==
    /\ Cycle!TypeOK
    /\ Queue!TypeOK
    /\ policy \in Policy
    /\ modes \subseteq Job
    /\ run \in Run
    /\ worker \in [Worker -> WorkerState]
    /\ \A w \in Worker : worker[w].pc # "idle" => worker[w].job \in Job
    /\ user \in [User -> UserState]

\* A run that is reported as completed went through both gates: however many
\* workers run it at once, take it over from each other and write stale rows
\* back, an architecture was approved and a verification passed before.
Verified ==
    /\ Cycle!Opened("architecting", "executing")
    /\ Cycle!Opened("verifying", "completing")
CompletedWasVerified == run.status = "COMPLETED" => Verified

\* A worker that takes a run over after a crash, a timeout or a failure has
\* the outputs that the phase it executes is built on: they are saved before
\* the cycle moves. (For one worker; with two, see CheckpointMonotonic.)
\* Every handler is given all the outputs so far; these are the phases before.
Feeds(p) ==
    CASE p = "architecting" -> {"planning"}
      [] p = "executing"    -> {"planning", "architecting"}
      [] p = "testing"      -> {"planning", "architecting", "executing"}
      [] p = "fixing"       -> {"planning", "architecting", "executing", "testing"}
      [] p = "verifying"    -> {"planning", "architecting", "executing", "testing"}
      [] p = "completing"   -> {"planning", "architecting", "executing", "testing", "verifying"}
      [] OTHER              -> {}
ResumesWithOutputs ==
    \A w \in Worker : worker[w].pc = "execute" => Feeds(worker[w].at.phase) \subseteq worker[w].mem

\* A run that says RUNNING is not forgotten: a job of it is still to be worked
\* on, or has been given up in the dead-letter queue.
RunningHasJob ==
    run.status = "RUNNING" => \E j \in Job : jobs[j] \in {"ready", "claimed"} \/ j \in buried

\* A cancelled run stays cancelled. The code does not keep this: a loop that
\* begins or ends sets its own status, and so does a stale row.
CancelledStaysCancelled == [][run.status = "CANCELLED" => run'.status = "CANCELLED"]_vars

\* The sequence number of the checkpoint never decreases. The code does not keep
\* this either: every update writes back the number it has read, so that a
\* canceller or a second worker with an older row takes a checkpoint back.
CheckpointMonotonic == [][run'.seq >= run.seq]_vars

=============================================================================
