--------------------------- MODULE AgentRunProofs ----------------------------
(***************************************************************************)
(* Theorems about AgentRun, for any number of workers and users: types, *)
(* that it is a client of the task cycle and of the execution queue, and   *)
(* that a completed run went through both gates. The last rests on what    *)
(* TaskCycleProofs shows of the task cycle for any number of callers.      *)
(***************************************************************************)
EXTENDS AgentRun, TLAPS

\* The theorems about the cycle, for the callers and phases of the run.
Proved == INSTANCE TaskCycleProofs WITH
    Caller <- Worker \cup User, Target <- Phase, MaxDocs <- 0,
    MaxEdges <- 242, MaxFixes <- MaxTestIterations

\* The constants of the cycle are what it assumes of them.
LEMMA Assumed ==
    /\ MaxTestIterations \in Nat
    /\ Phase \subseteq Proved!Phase
    /\ 0 \in Nat
    /\ 242 \in Nat
BY RunAssumption DEF RunAssumption, Phase, Proved!Phase

-----------------------------------------------------------------------------
(* The run uses the cycle and the queue as their modules say.              *)

\* TypeOK, without the parts of the cycle and of the queue.
LocalTypes ==
    /\ modes \subseteq Job
    /\ run \in Run
    /\ worker \in [Worker -> WorkerState]
    /\ user \in [User -> UserState]

CycleStep == [Proved!Next]_(Proved!vars)

LEMMA CycleUnchanged == UNCHANGED cycle => CycleStep
BY DEF CycleStep, cycle, Proved!vars

LEMMA RequestIsCycleStep ==
    ASSUME NEW c \in Worker \cup User, NEW to \in Phase, RequestPhase(c, to)
    PROVE  CycleStep
<1>1. CASE UNCHANGED cycle
  BY <1>1, CycleUnchanged
<1>2. CASE Cycle!TransitionPhase(c, to, TRUE)
  <2>1. Proved!TransitionPhase(c, to, TRUE)
    BY <1>2
    DEF Cycle!TransitionPhase, Proved!TransitionPhase, Cycle!Allowed, Proved!Allowed,
        Cycle!ReadFor, Proved!ReadFor, Cycle!Opens, Proved!Opens, Cycle!Idle, Proved!Idle,
        Cycle!ValidTransitions, Proved!ValidTransitions, Cycle!Successors, Proved!Successors,
        Cycle!Terminal, Proved!Terminal, Cycle!Aborted, Proved!Aborted,
        Cycle!Strict, Proved!Strict, Cycle!cycle, Proved!cycle
  <2> QED BY <2>1 DEF CycleStep, Proved!Next
<1> QED BY <1>1, <1>2 DEF RequestPhase

LEMMA InTransitionIsCycleStep ==
    ASSUME NEW c \in Worker \cup User, InTransition(c)
    PROVE  CycleStep
<1>1. CASE Cycle!Record(c)
  <2>1. Cycle!Cardinality(rows) = Proved!Cardinality(rows)
    BY DEF Cycle!Cardinality, Proved!Cardinality
  <2>2. Proved!Record(c)
    BY <1>1, <2>1 DEF Cycle!Record, Proved!Record, Cycle!RowOf, Proved!RowOf
  <2> QED BY <2>2 DEF CycleStep, Proved!Next
<1>2. CASE Cycle!Update(c)
  <2>1. Cycle!Rest(c) = Proved!Rest(c)
    BY DEF Cycle!Rest, Proved!Rest, Cycle!Idle, Proved!Idle, Cycle!Request, Proved!Request
  <2>2. Cycle!Counted(c) = Proved!Counted(c)
    BY DEF Cycle!Counted, Proved!Counted
  <2>3. Proved!Update(c)
    BY <1>2, <2>1, <2>2 DEF Cycle!Update, Proved!Update
  <2> QED BY <2>3 DEF CycleStep, Proved!Next
<1> QED BY <1>1, <1>2 DEF InTransition

LEMMA AbandonIsCycleStep ==
    ASSUME NEW c \in Worker \cup User, Abandon(c)
    PROVE  CycleStep
<1>1. CASE UNCHANGED cycle
  BY <1>1, CycleUnchanged
<1>2. CASE Cycle!Crash(c)
  <2>1. Proved!Crash(c)
    BY <1>2 DEF Cycle!Crash, Proved!Crash, Cycle!Idle, Proved!Idle, Cycle!cycle, Proved!cycle
  <2> QED BY <2>1 DEF CycleStep, Proved!Next
<1> QED BY <1>1, <1>2 DEF Abandon

LEMMA StepIsCycleStep == LocalTypes /\ [Next]_vars => CycleStep
<1> SUFFICES ASSUME LocalTypes, [Next]_vars PROVE CycleStep
  OBVIOUS
<1>1. ASSUME NEW w \in Worker, WorkerStep(w) PROVE CycleStep
  <2>1. CASE Move(w)
    <3>1. worker[w].at.next \in Phase
      BY DEF LocalTypes, WorkerState
    <3> QED BY <2>1, <3>1, RequestIsCycleStep DEF Move
  <2>2. CASE Crash(w)
    BY <2>2, AbandonIsCycleStep DEF Crash
  <2> QED
    BY <1>1, <2>1, <2>2, CycleUnchanged
    DEF WorkerStep, UpdateRead, UpdateWrite, Touch, Take, FailEarly, Begin, Hydrate, GetCycle,
        TimesOut, Commit, ExecutePhase, EndLoop, Stay, Pause, Moved, ReportFailure, Succeed,
        Ack, Nack
<1>2. ASSUME NEW u \in Canceller, CancelStep(u) PROVE CycleStep
  BY <1>2, CycleUnchanged DEF CancelStep, Cancel, CancelRead, CancelWrite
<1>3. ASSUME NEW u \in Approver, ApproveStep(u) PROVE CycleStep
  <2>1. CASE ApproveMove(u)
    <3>1. user[u].to \in Phase /\ u \in Worker \cup User
      BY DEF LocalTypes, UserState, User
    <3> QED BY <2>1, <3>1, RequestIsCycleStep DEF ApproveMove
  <2> QED
    BY <1>3, <2>1, CycleUnchanged DEF ApproveStep, Approve, ApproveLook, ApproveEnqueue
<1>4. ASSUME NEW u \in User, Drop(u) PROVE CycleStep
  BY <1>4, AbandonIsCycleStep DEF Drop
<1>5. ASSUME NEW named \in BOOLEAN, Enqueue(named) PROVE CycleStep
  BY <1>5, CycleUnchanged DEF Enqueue
<1>6. CASE UNCHANGED vars
  BY <1>6, CycleUnchanged DEF vars
<1> QED BY <1>1, <1>2, <1>3, <1>4, <1>5, <1>6, InTransitionIsCycleStep DEF Next

-----------------------------------------------------------------------------
(* Types of workers and users.                                             *)

LEMMA StartTyped == Off \in WorkerState /\ NewRun \in Run /\ Away \in UserState
BY RunAssumption
   DEF Off, NoUpdate, WorkerState, NewRun, Run, Status, Step, Result, Phase, Away, UserState,
       RunAssumption

LEMMA BecomeTyped ==
    ASSUME worker \in [Worker -> WorkerState], NEW w \in Worker, NEW n \in WorkerState,
           Become(w, n)
    PROVE  worker' \in [Worker -> WorkerState]
BY DEF Become

LEMMA GoTyped ==
    ASSUME worker \in [Worker -> WorkerState], NEW w \in Worker, NEW pc \in Step, Go(w, pc)
    PROVE  worker' \in [Worker -> WorkerState]
<1> DEFINE n == [worker[w] EXCEPT !.pc = pc]
<1>1. n \in WorkerState
  BY DEF WorkerState
<1> QED BY <1>1, BecomeTyped DEF Go

LEMMA PutTyped ==
    ASSUME worker \in [Worker -> WorkerState], NEW w \in Worker,
           NEW s \in Status \cup {"same"}, NEW after \in Step, Put(w, s, after)
    PROVE  worker' \in [Worker -> WorkerState]
<1> DEFINE up == [status |-> s, save |-> FALSE, seq |-> 0, after |-> after]
<1> DEFINE n == [worker[w] EXCEPT !.pc = "read", !.update = up]
<1>1. up \in [status : Status \cup {"same"}, save : BOOLEAN, seq : Nat, after : Step]
  OBVIOUS
<1>2. "read" \in Step
  BY DEF Step
<1> HIDE DEF up
<1>3. n \in WorkerState
  BY <1>1, <1>2 DEF WorkerState
<1> QED BY <1>3, BecomeTyped DEF Put, up

LEMMA WriteTyped ==
    ASSUME LocalTypes, NEW w \in Worker, UpdateWrite(w)
    PROVE  run' \in Run /\ worker' \in [Worker -> WorkerState]
<1> DEFINE me == worker[w]
<1> DEFINE n == [me EXCEPT !.pc = me.update.after, !.row = NewRun, !.update = NoUpdate]
<1>1. /\ me.update.status \in Status \cup {"same"}
      /\ me.update.seq \in Nat /\ me.update.after \in Step /\ me.mem \subseteq Phase
      /\ me.row \in Run /\ me \in WorkerState
  BY DEF LocalTypes, WorkerState
<1>2. run' \in Run
  BY <1>1 DEF UpdateWrite, Run
<1>3. NoUpdate \in [status : Status \cup {"same"}, save : BOOLEAN, seq : Nat, after : Step]
  BY DEF NoUpdate, Step
<1>4. n \in WorkerState
  BY <1>1, <1>3, StartTyped DEF WorkerState
<1>5. Become(w, n)
  BY DEF UpdateWrite
<1> QED BY <1>2, <1>4, <1>5, BecomeTyped DEF LocalTypes

LEMMA TakeTyped ==
    ASSUME LocalTypes, NEW w \in Worker, NEW j \in Job, Take(w, j)
    PROVE  worker' \in [Worker -> WorkerState]
<1> DEFINE n == [Off EXCEPT !.pc = "load", !.job = j]
<1>1. "load" \in Step /\ j \in 0..MaxJobs
  BY RunAssumption DEF Step, Job, RunAssumption
<1>2. n \in WorkerState
  BY <1>1, StartTyped DEF WorkerState
<1>3. Become(w, n)
  BY DEF Take
<1> QED BY <1>2, <1>3, BecomeTyped DEF LocalTypes

\* The steps in which a worker reads the run, the cycle or the checkpoint.
LEMMA ReadingTyped ==
    ASSUME LocalTypes, phase \in Phase, NEW w \in Worker,
           UpdateRead(w) \/ Hydrate(w) \/ GetCycle(w) \/ Commit(w)
    PROVE  worker' \in [Worker -> WorkerState]
<1> DEFINE m == worker[w]
<1>0. m \in WorkerState /\ run \in Run /\ run.outputs \in SUBSET Phase /\ run.seq + 1 \in Nat
  BY DEF LocalTypes, Run
<1>1. CASE UpdateRead(w)
  <2> DEFINE n == [m EXCEPT !.pc = "write", !.row = run]
  <2>1. n \in WorkerState
    BY <1>0 DEF WorkerState, Step
  <2>2. Become(w, n)
    BY <1>1 DEF UpdateRead
  <2> QED BY <2>1, <2>2, BecomeTyped DEF LocalTypes
<1>2. CASE Hydrate(w)
  <2> DEFINE n == [m EXCEPT !.pc = "loop", !.mem = run.outputs]
  <2>1. n \in WorkerState
    BY <1>0 DEF WorkerState, Step
  <2>2. Become(w, n)
    BY <1>2 DEF Hydrate
  <2> QED BY <2>1, <2>2, BecomeTyped DEF LocalTypes
<1>3. CASE GetCycle(w)
  <2> DEFINE at == [phase |-> phase, result |-> "stay", next |-> phase]
  <2> DEFINE n == [m EXCEPT !.pc = "execute", !.at = at]
  <2>1. at \in [phase : Phase, result : Result, next : Phase] /\ "execute" \in Step
    BY DEF Result, Step
  <2> HIDE DEF at
  <2>2. n \in WorkerState
    BY <1>0, <2>1 DEF WorkerState
  <2>3. Become(w, n) \/ Put(w, "FAILED", "failed")
    BY <1>3 DEF GetCycle, at
  <2>4. "FAILED" \in Status /\ "failed" \in Step
    BY DEF Status, Step
  <2> QED BY <2>2, <2>3, <2>4, BecomeTyped, PutTyped DEF LocalTypes
<1>4. CASE Commit(w)
  <2> DEFINE up == [status |-> "same", save |-> TRUE, seq |-> run.seq + 1, after |-> "decide"]
  <2> DEFINE n == [m EXCEPT !.pc = "read", !.update = up]
  <2>1. /\ up \in [status : Status \cup {"same"}, save : BOOLEAN, seq : Nat, after : Step]
        /\ "read" \in Step
    BY <1>0 DEF Step
  <2> HIDE DEF up
  <2>2. n \in WorkerState
    BY <1>0, <2>1 DEF WorkerState
  <2>3. Become(w, n)
    BY <1>4 DEF Commit, up
  <2> QED BY <2>2, <2>3, BecomeTyped DEF LocalTypes
<1> QED BY <1>1, <1>2, <1>3, <1>4

LEMMA ExecuteTyped ==
    ASSUME LocalTypes, NEW w \in Worker, NEW result \in Result, NEW next \in Phase,
           ExecutePhase(w, result, next)
    PROVE  worker' \in [Worker -> WorkerState]
<1> DEFINE m == worker[w]
<1> DEFINE at == [phase |-> m.at.phase, result |-> result, next |-> next]
<1> DEFINE mem == IF result \in {"advance", "stay", "finish"}
                  THEN m.mem \cup {m.at.phase} ELSE m.mem \ {m.at.phase}
<1> DEFINE n == [m EXCEPT !.pc = "commit", !.at = at, !.mem = mem]
<1>1. m \in WorkerState /\ m.at.phase \in Phase /\ m.mem \in SUBSET Phase
  BY DEF LocalTypes, WorkerState
<1>2. /\ at \in [phase : Phase, result : Result, next : Phase]
      /\ mem \in SUBSET Phase /\ "commit" \in Step
  BY <1>1 DEF Step
<1>3. Become(w, n)
  BY DEF ExecutePhase
<1> HIDE DEF at, mem
<1>4. n \in WorkerState
  BY <1>1, <1>2 DEF WorkerState
<1> QED BY <1>3, <1>4, BecomeTyped DEF LocalTypes

\* The steps that count an iteration.
LEMMA CountingTyped ==
    ASSUME LocalTypes, NEW w \in Worker, Stay(w) \/ Moved(w)
    PROVE  worker' \in [Worker -> WorkerState]
<1> DEFINE m == worker[w]
<1> DEFINE k == m.turn + 1
<1>0. m \in WorkerState /\ k \in Nat
  BY DEF LocalTypes, WorkerState
<1>1. CASE Stay(w)
  <2> DEFINE n == [m EXCEPT !.pc = "loop", !.turn = k]
  <2>1. Become(w, n)
    BY <1>1 DEF Stay
  <2> HIDE DEF k
  <2>2. n \in WorkerState
    BY <1>0 DEF WorkerState, Step
  <2> QED BY <2>1, <2>2, BecomeTyped DEF LocalTypes
<1>2. CASE Moved(w)
  <2> DEFINE up == [NoUpdate EXCEPT !.after = "loop"]
  <2> DEFINE n == [m EXCEPT !.pc = "read", !.turn = k, !.update = up]
  <2>1. Become(w, n) \/ Put(w, "PENDING", "succeeded")
    BY <1>2 DEF Moved
  <2>2. /\ up \in [status : Status \cup {"same"}, save : BOOLEAN, seq : Nat, after : Step]
        /\ "read" \in Step /\ "succeeded" \in Step /\ "PENDING" \in Status
    BY DEF NoUpdate, Step, Status
  <2> HIDE DEF k, up
  <2>3. n \in WorkerState
    BY <1>0, <2>2 DEF WorkerState
  <2> QED BY <2>1, <2>2, <2>3, BecomeTyped, PutTyped DEF LocalTypes
<1> QED BY <1>1, <1>2

LEMMA WorkerStepTyped ==
    ASSUME LocalTypes, phase \in Phase, NEW w \in Worker, WorkerStep(w)
    PROVE  LocalTypes'
<1>0. /\ {"load", "hydrate", "execute", "decide", "failed", "nack", "succeeded", "ack", "loop",
          "moving"} \subseteq Step
      /\ {"RUNNING", "COMPLETED", "FAILED", "PENDING", "same"} \subseteq Status \cup {"same"}
  BY DEF Step, Status
<1>a. modes' \subseteq Job /\ user' \in [User -> UserState]
  BY DEF WorkerStep, LocalTypes, UpdateRead, UpdateWrite, Touch, Take, FailEarly, Begin, Hydrate,
         GetCycle, TimesOut, Commit, ExecutePhase, EndLoop, Stay, Pause, Move, Moved,
         ReportFailure, Succeed, Ack, Nack, Crash
<1>b. CASE UpdateWrite(w)
  BY <1>a, <1>b, WriteTyped DEF LocalTypes
<1>c. CASE ~UpdateWrite(w)
  <2>0. run' = run
    BY <1>c DEF WorkerStep, UpdateRead, Touch, Take, FailEarly, Begin, Hydrate, GetCycle,
         TimesOut, Commit, ExecutePhase, EndLoop, Stay, Pause, Move, Moved, ReportFailure,
         Succeed, Ack, Nack, Crash
  <2> SUFFICES worker' \in [Worker -> WorkerState]
    BY <1>a, <2>0 DEF LocalTypes
  <2>1. CASE UpdateRead(w) \/ Hydrate(w) \/ GetCycle(w) \/ Commit(w)
    BY <2>1, ReadingTyped
  <2>2. ASSUME NEW j \in Job, Take(w, j) PROVE worker' \in [Worker -> WorkerState]
    BY <2>2, TakeTyped
  <2>3. ASSUME NEW result \in Result, NEW next \in Phase, ExecutePhase(w, result, next)
        PROVE  worker' \in [Worker -> WorkerState]
    BY <2>3, ExecuteTyped
  <2>4. CASE Stay(w) \/ Moved(w)
    BY <2>4, CountingTyped
  <2>5. CASE Touch(w)
    BY <2>5, <1>0, PutTyped DEF Touch, LocalTypes
  <2>6. CASE Begin(w)
    BY <2>6, <1>0, PutTyped, GoTyped DEF Begin, LocalTypes
  <2>7. CASE EndLoop(w) \/ Pause(w)
    BY <2>7, <1>0, PutTyped DEF EndLoop, Pause, LocalTypes
  <2>8. ASSUME NEW silent \in BOOLEAN, ReportFailure(w, silent)
        PROVE  worker' \in [Worker -> WorkerState]
    BY <2>8, <1>0, PutTyped DEF ReportFailure, LocalTypes
  <2>9. CASE FailEarly(w) \/ TimesOut(w) \/ Move(w) \/ Succeed(w)
    BY <2>9, <1>0, GoTyped DEF FailEarly, TimesOut, Move, Succeed, LocalTypes
  <2>10. CASE Ack(w) \/ Crash(w)
    BY <2>10, StartTyped, BecomeTyped DEF Ack, Crash, LocalTypes
  <2>11. ASSUME NEW dead \in BOOLEAN, Nack(w, dead)
         PROVE  worker' \in [Worker -> WorkerState]
    BY <2>11, <1>0, StartTyped, BecomeTyped, GoTyped DEF Nack, LocalTypes
  <2> QED
    BY <1>c, <2>1, <2>2, <2>3, <2>4, <2>5, <2>6, <2>7, <2>8, <2>9, <2>10, <2>11 DEF WorkerStep
<1> QED BY <1>b, <1>c

LEMMA CancelStepTyped ==
    ASSUME LocalTypes, NEW u \in User, CancelStep(u)
    PROVE  LocalTypes'
<1>0. user[u].row \in Run /\ "CANCELLED" \in Status
  BY DEF LocalTypes, UserState, Status
<1>1. [user[u].row EXCEPT !.status = "CANCELLED"] \in Run
  BY <1>0 DEF Run
<1>2. /\ [Away EXCEPT !.pc = "cancel"] \in UserState
      /\ [Away EXCEPT !.pc = "cancelWrite", !.row = run] \in UserState
  BY StartTyped DEF UserState, LocalTypes
<1> QED
  BY <1>1, <1>2, StartTyped
  DEF CancelStep, Cancel, CancelRead, CancelWrite, LocalTypes

LEMMA ApproveStepTyped ==
    ASSUME LocalTypes, NEW u \in User, ApproveStep(u)
    PROVE  LocalTypes'
<1>0. {"executing", "completing", "completed"} \subseteq Phase
  BY DEF Phase
<1>1. /\ [Away EXCEPT !.pc = "approve"] \in UserState
      /\ [Away EXCEPT !.pc = "enqueue"] \in UserState
      /\ \A p \in Phase : [Away EXCEPT !.pc = "move", !.to = p] \in UserState
  BY StartTyped DEF UserState
<1>2. CASE Approve(u) \/ ApproveMove(u)
  BY <1>1, <1>2, StartTyped DEF Approve, ApproveMove, LocalTypes
<1>3. CASE ApproveLook(u)
  BY <1>0, <1>1, <1>3, StartTyped DEF ApproveLook, LocalTypes
<1>4. ASSUME NEW j \in Job, ApproveEnqueue(u, j) PROVE LocalTypes'
  BY <1>4, StartTyped DEF ApproveEnqueue, LocalTypes
<1> QED BY <1>2, <1>3, <1>4 DEF ApproveStep

LEMMA LocalStep ==
    ASSUME LocalTypes, phase \in Phase, [Next]_vars
    PROVE  LocalTypes'
<1>1. CASE \E w \in Worker : WorkerStep(w)
  BY <1>1, WorkerStepTyped
<1>2. CASE \E u \in Canceller : CancelStep(u)
  BY <1>2, CancelStepTyped DEF User
<1>3. CASE \E u \in Approver : ApproveStep(u)
  BY <1>3, ApproveStepTyped DEF User
<1>4. ASSUME NEW u \in User, Drop(u) PROVE LocalTypes'
  BY <1>4, StartTyped DEF Drop, LocalTypes
<1>5. ASSUME NEW named \in BOOLEAN, Enqueue(named) PROVE LocalTypes'
  <2>1. 1 \in Job
    BY RunAssumption DEF RunAssumption, Job
  <2> QED BY <1>5, <2>1 DEF Enqueue, LocalTypes
<1>6. CASE \E c \in Worker \cup User : InTransition(c)
  BY <1>6 DEF InTransition, LocalTypes
<1>7. CASE UNCHANGED vars
  BY <1>7 DEF vars, LocalTypes
<1> QED BY <1>1, <1>2, <1>3, <1>4, <1>5, <1>6, <1>7 DEF Next

-----------------------------------------------------------------------------
(* Type correctness.                                                       *)

Busy == \A w \in Worker : worker[w].pc # "idle" => worker[w].job \in Job

LEMMA BecomeBusy ==
    ASSUME LocalTypes, Busy, NEW w \in Worker, NEW n, Become(w, n),
           n.pc = "idle" \/ n.job \in Job
    PROVE  Busy'
BY DEF LocalTypes, Busy, Become

\* A worker keeps its job until it is idle.
LEMMA BusyWorkerStep ==
    ASSUME LocalTypes, Busy, NEW w \in Worker, WorkerStep(w)
    PROVE  Busy'
<1> DEFINE m == worker[w]
<1>0. m \in WorkerState
  BY DEF LocalTypes
<1>1. ASSUME NEW j \in Job, Take(w, j) PROVE Busy'
  <2>1. [Off EXCEPT !.pc = "load", !.job = j].job \in Job
    BY DEF Off
  <2> QED BY <1>1, <2>1, BecomeBusy DEF Take
<1>2. CASE ~\E j \in Job : Take(w, j)
  <2>1. m.pc # "idle" /\ m.job \in Job
    BY <1>2 DEF WorkerStep, UpdateRead, UpdateWrite, Touch, FailEarly, Begin, Hydrate, GetCycle,
         TimesOut, Commit, ExecutePhase, EndLoop, Stay, Pause, Move, Moved, ReportFailure,
         Succeed, Ack, Nack, Crash, Busy
  <2>2. ASSUME NEW pc, Go(w, pc) PROVE Busy'
    <3>1. [m EXCEPT !.pc = pc].job = m.job
      BY <1>0 DEF WorkerState
    <3> QED BY <2>1, <2>2, <3>1, BecomeBusy DEF Go
  <2>3. ASSUME NEW st, NEW after, Put(w, st, after) PROVE Busy'
    <3>1. \A up : [m EXCEPT !.pc = "read", !.update = up].job = m.job
      BY <1>0 DEF WorkerState
    <3> QED BY <2>1, <2>3, <3>1, BecomeBusy DEF Put
  <2>4. CASE Become(w, Off)
    BY <2>4, BecomeBusy DEF Off
  <2>5. CASE UpdateRead(w)
    <3>1. [m EXCEPT !.pc = "write", !.row = run].job = m.job
      BY <1>0 DEF WorkerState
    <3> QED BY <2>1, <2>5, <3>1, BecomeBusy DEF UpdateRead
  <2>6. CASE UpdateWrite(w)
    <3>1. [m EXCEPT !.pc = m.update.after, !.row = NewRun, !.update = NoUpdate].job = m.job
      BY <1>0 DEF WorkerState
    <3> QED BY <2>1, <2>6, <3>1, BecomeBusy DEF UpdateWrite
  <2>7. CASE Hydrate(w)
    <3>1. [m EXCEPT !.pc = "loop", !.mem = run.outputs].job = m.job
      BY <1>0 DEF WorkerState
    <3> QED BY <2>1, <2>7, <3>1, BecomeBusy DEF Hydrate
  <2>8. CASE GetCycle(w)
    <3>1. \A at : [m EXCEPT !.pc = "execute", !.at = at].job = m.job
      BY <1>0 DEF WorkerState
    <3> QED BY <2>1, <2>3, <2>8, <3>1, BecomeBusy DEF GetCycle
  <2>9. CASE Commit(w)
    <3>1. \A up : [m EXCEPT !.pc = "read", !.update = up].job = m.job
      BY <1>0 DEF WorkerState
    <3> QED BY <2>1, <2>9, <3>1, BecomeBusy DEF Commit
  <2>10. ASSUME NEW result \in Result, NEW next \in Phase, ExecutePhase(w, result, next)
         PROVE  Busy'
    <3>1. \A at, mem : [m EXCEPT !.pc = "commit", !.at = at, !.mem = mem].job = m.job
      BY <1>0 DEF WorkerState
    <3> QED BY <2>1, <2>10, <3>1, BecomeBusy DEF ExecutePhase
  <2>11. CASE Stay(w)
    <3>1. \A k : [m EXCEPT !.pc = "loop", !.turn = k].job = m.job
      BY <1>0 DEF WorkerState
    <3> QED BY <2>1, <2>11, <3>1, BecomeBusy DEF Stay
  <2>12. CASE Moved(w)
    <3>1. \A k, up : [m EXCEPT !.pc = "read", !.turn = k, !.update = up].job = m.job
      BY <1>0 DEF WorkerState
    <3> QED BY <2>1, <2>3, <2>12, <3>1, BecomeBusy DEF Moved
  <2>13. CASE Touch(w) \/ Begin(w) \/ EndLoop(w) \/ Pause(w)
    BY <2>2, <2>3, <2>13 DEF Touch, Begin, EndLoop, Pause
  <2>14. ASSUME NEW silent \in BOOLEAN, ReportFailure(w, silent) PROVE Busy'
    BY <2>3, <2>14 DEF ReportFailure
  <2>15. CASE FailEarly(w) \/ TimesOut(w) \/ Move(w) \/ Succeed(w)
    BY <2>2, <2>15 DEF FailEarly, TimesOut, Move, Succeed
  <2>16. CASE Ack(w) \/ Crash(w)
    BY <2>4, <2>16 DEF Ack, Crash
  <2>17. ASSUME NEW dead \in BOOLEAN, Nack(w, dead) PROVE Busy'
    BY <2>2, <2>4, <2>17 DEF Nack
  <2> QED
    BY <1>2, <2>5, <2>6, <2>7, <2>8, <2>9, <2>10, <2>11, <2>12, <2>13, <2>14, <2>15, <2>16,
       <2>17 DEF WorkerStep
<1> QED BY <1>1, <1>2

LEMMA BusyStep == LocalTypes /\ Busy /\ [Next]_vars => Busy'
<1> SUFFICES ASSUME LocalTypes, Busy, [Next]_vars PROVE Busy'
  OBVIOUS
<1>1. CASE \E w \in Worker : WorkerStep(w)
  BY <1>1, BusyWorkerStep
<1>2. CASE UNCHANGED worker
  BY <1>2 DEF Busy
<1> QED
  BY <1>1, <1>2
  DEF Next, vars, Enqueue, InTransition, CancelStep, Cancel, CancelRead, CancelWrite, ApproveStep,
      Approve, ApproveLook, ApproveMove, ApproveEnqueue, Drop

\* What a step does to the jobs is a step of the queue, or nothing.
QueueStep == [Queue!Next]_(Queue!avars)

LEMMA StepIsQueueStep == LocalTypes /\ Busy /\ [Next]_vars => QueueStep
<1> SUFFICES ASSUME LocalTypes, Busy, [Next]_vars PROVE QueueStep
  OBVIOUS
<1>1. CASE UNCHANGED queue
  BY <1>1 DEF queue, QueueStep, Queue!avars
<1>2. ASSUME NEW j \in Job, Queue!Publish(j, {}) PROVE QueueStep
  <2>1. {} \in SUBSET Job
    OBVIOUS
  <2> QED BY <1>2, <2>1 DEF QueueStep, Queue!Next
<1>3. ASSUME NEW j \in Job, Queue!Deliver({j}) PROVE QueueStep
  <2>1. {j} \in SUBSET Job
    OBVIOUS
  <2> QED BY <1>3, <2>1 DEF QueueStep, Queue!Next
<1>4. ASSUME NEW j \in Job, Queue!Complete(j) \/ Queue!Bury(j) \/ Queue!Settle(j) PROVE QueueStep
  BY <1>4 DEF QueueStep, Queue!Next
<1>5. ASSUME NEW w \in Worker, WorkerStep(w) PROVE QueueStep
  <2>1. worker[w].pc # "idle" => worker[w].job \in Job
    BY DEF Busy
  <2>2. ASSUME NEW j \in Job, Take(w, j) PROVE QueueStep
    BY <1>3, <2>2 DEF Take
  <2>3. ASSUME NEW dead \in BOOLEAN, Nack(w, dead) PROVE QueueStep
    BY <1>1, <1>4, <2>1, <2>3 DEF Nack
  <2>4. CASE Succeed(w)
    BY <1>4, <2>1, <2>4 DEF Succeed
  <2>5. CASE Ack(w)
    BY <1>1, <1>4, <2>1, <2>5 DEF Ack
  <2>6. CASE Crash(w)
    BY <1>1, <2>6 DEF Crash
  <2> QED
    BY <1>1, <1>5, <2>2, <2>3, <2>4, <2>5, <2>6
    DEF WorkerStep, UpdateRead, UpdateWrite, Touch, FailEarly, Begin, Hydrate, GetCycle,
        TimesOut, Commit, ExecutePhase, EndLoop, Stay, Pause, Move, Moved, ReportFailure
<1>6. ASSUME NEW named \in BOOLEAN, Enqueue(named) PROVE QueueStep
  <2>1. 1 \in Job
    BY RunAssumption DEF RunAssumption, Job
  <2> QED BY <1>2, <1>6, <2>1 DEF Enqueue
<1>7. ASSUME NEW u \in Approver, ApproveStep(u) PROVE QueueStep
  <2>1. ASSUME NEW j \in Job, ApproveEnqueue(u, j) PROVE QueueStep
    BY <1>2, <2>1 DEF ApproveEnqueue
  <2> QED BY <1>1, <1>7, <2>1 DEF ApproveStep, Approve, ApproveLook, ApproveMove
<1> QED
  BY <1>1, <1>5, <1>6, <1>7
  DEF Next, vars, InTransition, CancelStep, Cancel, CancelRead, CancelWrite, Drop

\* The jobs stay in the life cycle of the queue.
LEMMA QueueStepTyped == Queue!TypeOK /\ QueueStep => Queue!TypeOK'
<1> SUFFICES ASSUME Queue!TypeOK, QueueStep PROVE Queue!TypeOK'
  OBVIOUS
<1>1. CASE UNCHANGED Queue!avars
  BY <1>1 DEF Queue!avars, Queue!TypeOK
<1>2. ASSUME NEW j \in Job, NEW D \in SUBSET Job, Queue!Publish(j, D) PROVE Queue!TypeOK'
  BY <1>2 DEF Queue!Publish, Queue!TypeOK, Queue!Lifecycle
<1>3. ASSUME NEW S \in SUBSET Job, Queue!Deliver(S) PROVE Queue!TypeOK'
  BY <1>3 DEF Queue!Deliver, Queue!Move, Queue!TypeOK, Queue!Lifecycle
<1>4. ASSUME NEW j \in Job, Queue!Complete(j) \/ Queue!Bury(j) \/ Queue!Settle(j) PROVE Queue!TypeOK'
  BY <1>4 DEF Queue!Complete, Queue!Bury, Queue!Settle, Queue!Move, Queue!TypeOK, Queue!Lifecycle
<1> QED BY <1>1, <1>2, <1>3, <1>4 DEF QueueStep, Queue!Next

\* The types of the cycle are those of its module.
LEMMA SameCycleTypes ==
    /\ Cycle!Call = Proved!Call
    /\ Cycle!Row = Proved!Row
    /\ Cycle!Doc = Proved!Doc
    /\ Cycle!Phase = Proved!Phase
<1>1. Cycle!Call = Proved!Call
  BY DEF Cycle!Call, Proved!Call, Cycle!Phase, Proved!Phase
<1>2. Cycle!Row = Proved!Row
  BY DEF Cycle!Row, Proved!Row, Cycle!Phase, Proved!Phase
<1>3. Cycle!Doc = Proved!Doc /\ Cycle!Phase = Proved!Phase
  BY DEF Cycle!Doc, Proved!Doc, Cycle!Phase, Proved!Phase
<1> QED BY <1>1, <1>2, <1>3

LEMMA TypeStep == TypeOK /\ [Next]_vars => TypeOK'
<1> SUFFICES ASSUME TypeOK, [Next]_vars PROVE TypeOK'
  OBVIOUS
<1>1. LocalTypes /\ Busy /\ Queue!TypeOK /\ Proved!TypeOK
  BY SameCycleTypes DEF TypeOK, LocalTypes, Busy, Cycle!TypeOK, Proved!TypeOK
<1>2. phase \in Phase
  BY <1>1 DEF Proved!TypeOK, Proved!Phase, Phase
<1>3. CycleStep
  BY <1>1, StepIsCycleStep
<1>4. Proved!TypeOK'
  BY <1>1, <1>3, Assumed, Proved!TypeStep DEF CycleStep
<1>5. Cycle!TypeOK'
  BY <1>4, SameCycleTypes DEF Cycle!TypeOK, Proved!TypeOK
<1>6. LocalTypes' /\ Busy' /\ Queue!TypeOK'
  BY <1>1, <1>2, LocalStep, BusyStep, StepIsQueueStep, QueueStepTyped
<1>7. policy' = policy
  BY DEF Next, vars, Enqueue, InTransition, CancelStep, Cancel, CancelRead, CancelWrite,
         ApproveStep, Approve, ApproveLook, ApproveMove, ApproveEnqueue, Drop, WorkerStep,
         UpdateRead, UpdateWrite, Touch, Take, FailEarly, Begin, Hydrate, GetCycle, TimesOut,
         Commit, ExecutePhase, EndLoop, Stay, Pause, Move, Moved, ReportFailure, Succeed, Ack,
         Nack, Crash
<1> QED BY <1>5, <1>6, <1>7 DEF TypeOK, LocalTypes, Busy

\* The initial state of the cycle is that of its module.
LEMMA CycleInit == Init => Proved!Init
<1>1. Cycle!Idle = Proved!Idle /\ Cycle!Doc = Proved!Doc
  BY DEF Cycle!Idle, Proved!Idle, Cycle!Doc, Proved!Doc
<1> QED BY <1>1 DEF Init, Cycle!Init, Proved!Init

LEMMA TypeInit == Init => TypeOK
<1> SUFFICES ASSUME Init PROVE TypeOK
  OBVIOUS
<1>1. Proved!TypeOK
  BY CycleInit, Assumed, Proved!TypeInit
<1>2. Queue!TypeOK
  BY DEF Init, Queue!Init, Queue!TypeOK, Queue!Lifecycle
<1>3. Off.pc = "idle"
  BY DEF Off
<1>4. Cycle!TypeOK
  BY <1>1, SameCycleTypes DEF Cycle!TypeOK, Proved!TypeOK
<1> QED BY <1>2, <1>3, <1>4, StartTyped DEF Init, TypeOK

\* The run, the cycle, the jobs, and every worker and user stay well typed; a
\* worker that is not idle has a job.
THEOREM TypeCorrect == Spec => []TypeOK
BY TypeInit, TypeStep, PTL DEF Spec

\* Whatever workers and users do to the cycle of a run, and wherever they die,
\* is a behaviour of the task cycle service.
THEOREM RunUsesTaskCycle == Spec => Proved!Spec
<1>1. TypeOK /\ [Next]_vars => [Proved!Next]_(Proved!vars)
  BY StepIsCycleStep DEF TypeOK, LocalTypes, CycleStep
<1>2. Init => TypeOK /\ Proved!Init
  BY TypeInit, CycleInit
<1>3. TypeOK /\ [Next]_vars => TypeOK'
  BY TypeStep
<1> QED BY <1>1, <1>2, <1>3, PTL DEF Spec, Proved!Spec

\* The run takes no more from the queue than its contract grants: each step of
\* it, of crashes and approvals too, is one that the execution queue may take.
THEOREM RunUsesQueue == Spec => Queue!Spec
<1>1. TypeOK /\ [Next]_vars => [Queue!Next]_(Queue!avars)
  BY StepIsQueueStep DEF TypeOK, LocalTypes, Busy, QueueStep
<1>2. Init => TypeOK /\ Queue!Init
  BY TypeInit DEF Init
<1>3. TypeOK /\ [Next]_vars => TypeOK'
  BY TypeStep
<1> QED BY <1>1, <1>2, <1>3, PTL DEF Spec, Queue!Spec

\* The audit trail of the cycle explains the phase of a run as well, however
\* many workers and users move it at once, and wherever they die.
THEOREM CycleOfRunIsAudited == Spec => []Cycle!AuditExplainsPhase
<1>1. Proved!AuditInv => Cycle!AuditExplainsPhase
  BY DEF Proved!AuditInv, Cycle!AuditExplainsPhase, Cycle!Explained, Proved!Explained,
         Cycle!Visited, Proved!Visited
<1>2. Init => Proved!AuditInv
  BY CycleInit, Assumed, Proved!AuditInit
<1>3. TypeOK /\ Proved!AuditInv /\ [Next]_vars => Proved!AuditInv'
  BY StepIsCycleStep, Assumed, Proved!AuditStep DEF TypeOK, LocalTypes, CycleStep
<1> QED BY <1>1, <1>2, <1>3, TypeInit, TypeStep, PTL DEF Spec

-----------------------------------------------------------------------------
(* A completed run went through both gates.                                *)

\* Before both gates are open, nothing and nobody says that the run completed.
NoneCompleted ==
    /\ run.status # "COMPLETED"
    /\ \A w \in Worker :
          /\ worker[w].at.phase # "completing"
          /\ worker[w].row.status # "COMPLETED"
          /\ worker[w].update.status # "COMPLETED"
    /\ \A u \in User : user[u].row.status # "COMPLETED"

\* Only COMPLETING ends a run well.
EndsInCompleting ==
    \A w \in Worker : worker[w].at.result \in {"finish", "finishBadly"} =>
                          worker[w].at.phase = "completing"

VerifiedInv ==
    /\ TypeOK
    /\ Proved!GateInv
    /\ EndsInCompleting
    /\ ~Verified => NoneCompleted

\* Rows are never taken out of the audit trail.
LEMMA RowsGrow == Proved!GateInv /\ CycleStep => rows \subseteq rows'
BY Assumed, Proved!StepShape
   DEF CycleStep, Proved!GateInv, Proved!AuditInv, Proved!Record, Proved!Update

LEMMA SameGates ==
    ASSUME Proved!GateInv, phase = "completing" PROVE Verified
<1>1. Proved!GatesWereOpened
  BY Assumed, Proved!GatesOpened
<1> QED BY <1>1 DEF Proved!GatesWereOpened, Proved!Opened, Verified, Cycle!Opened

\* What becomes of the fields the invariant is about when a worker goes on.
LEMMA BecomeSound ==
    ASSUME LocalTypes, NoneCompleted, NEW w \in Worker, NEW n, Become(w, n),
           n.at.phase # "completing", n.row.status # "COMPLETED",
           n.update.status # "COMPLETED", run' = run, user' = user
    PROVE  NoneCompleted'
BY DEF Become, LocalTypes, NoneCompleted

LEMMA BecomeEnds ==
    ASSUME LocalTypes, EndsInCompleting, NEW w \in Worker, NEW n, Become(w, n),
           n.at.result \in {"finish", "finishBadly"} => n.at.phase = "completing"
    PROVE  EndsInCompleting'
BY DEF Become, LocalTypes, EndsInCompleting

LEMMA EndsWorkerStep ==
    ASSUME LocalTypes, EndsInCompleting, NEW w \in Worker, WorkerStep(w)
    PROVE  EndsInCompleting'
<1> DEFINE m == worker[w]
<1>0. m \in WorkerState
  BY DEF LocalTypes
<1>1. m.at.result \in {"finish", "finishBadly"} => m.at.phase = "completing"
  BY DEF EndsInCompleting
<1>2. ASSUME NEW n, Become(w, n), n.at = m.at \/ n.at.result = "stay"
      PROVE  EndsInCompleting'
  BY <1>1, <1>2, BecomeEnds
<1>3. ASSUME NEW pc, Go(w, pc) PROVE EndsInCompleting'
  <2>1. [m EXCEPT !.pc = pc].at = m.at
    BY <1>0 DEF WorkerState
  <2> QED BY <1>2, <1>3, <2>1 DEF Go
<1>4. ASSUME NEW st, NEW after, Put(w, st, after) PROVE EndsInCompleting'
  <2>1. \A up : [m EXCEPT !.pc = "read", !.update = up].at = m.at
    BY <1>0 DEF WorkerState
  <2> QED BY <1>2, <1>4, <2>1 DEF Put
<1>5. CASE Become(w, Off)
  BY <1>2, <1>5 DEF Off
<1>6. ASSUME NEW j \in Job, Take(w, j) PROVE EndsInCompleting'
  <2>1. [Off EXCEPT !.pc = "load", !.job = j].at.result = "stay"
    BY DEF Off
  <2> QED BY <1>2, <1>6, <2>1 DEF Take
<1>7. CASE UpdateRead(w)
  <2>1. [m EXCEPT !.pc = "write", !.row = run].at = m.at
    BY <1>0 DEF WorkerState
  <2> QED BY <1>2, <1>7, <2>1 DEF UpdateRead
<1>8. CASE UpdateWrite(w)
  <2>1. [m EXCEPT !.pc = m.update.after, !.row = NewRun, !.update = NoUpdate].at = m.at
    BY <1>0 DEF WorkerState
  <2> QED BY <1>2, <1>8, <2>1 DEF UpdateWrite
<1>9. CASE Hydrate(w)
  <2>1. [m EXCEPT !.pc = "loop", !.mem = run.outputs].at = m.at
    BY <1>0 DEF WorkerState
  <2> QED BY <1>2, <1>9, <2>1 DEF Hydrate
<1>10. CASE GetCycle(w)
  <2> DEFINE at == [phase |-> phase, result |-> "stay", next |-> phase]
  <2>1. [m EXCEPT !.pc = "execute", !.at = at].at.result = "stay"
    BY <1>0 DEF WorkerState
  <2> QED BY <1>2, <1>4, <1>10, <2>1 DEF GetCycle
<1>11. CASE Commit(w)
  <2>1. \A up : [m EXCEPT !.pc = "read", !.update = up].at = m.at
    BY <1>0 DEF WorkerState
  <2> QED BY <1>2, <1>11, <2>1 DEF Commit
<1>12. ASSUME NEW result \in Result, NEW next \in Phase, ExecutePhase(w, result, next)
       PROVE  EndsInCompleting'
  <2> DEFINE at == [phase |-> m.at.phase, result |-> result, next |-> next]
  <2>1. \A mem : [m EXCEPT !.pc = "commit", !.at = at, !.mem = mem].at = at
    BY <1>0 DEF WorkerState
  <2>2. result \in {"finish", "finishBadly"} => m.at.phase = "completing"
    BY <1>12
    DEF ExecutePhase, Outcome, Handled, Planning, Clarifying, Architecting, Executing, Testing,
        Fixing, Verifying, Completing
  <2>3. at.result \in {"finish", "finishBadly"} => at.phase = "completing"
    BY <2>2
  <2>4. PICK mem : Become(w, [m EXCEPT !.pc = "commit", !.at = at, !.mem = mem])
    BY <1>12 DEF ExecutePhase
  <2> HIDE DEF at
  <2> QED BY <2>1, <2>3, <2>4, BecomeEnds
<1>13. CASE Stay(w)
  <2>1. \A k : [m EXCEPT !.pc = "loop", !.turn = k].at = m.at
    BY <1>0 DEF WorkerState
  <2> QED BY <1>2, <1>13, <2>1 DEF Stay
<1>14. CASE Moved(w)
  <2>1. \A k, up : [m EXCEPT !.pc = "read", !.turn = k, !.update = up].at = m.at
    BY <1>0 DEF WorkerState
  <2> QED BY <1>2, <1>4, <1>14, <2>1 DEF Moved
<1>15. CASE Touch(w) \/ Begin(w) \/ EndLoop(w) \/ Pause(w)
  BY <1>3, <1>4, <1>15 DEF Touch, Begin, EndLoop, Pause
<1>16. ASSUME NEW silent \in BOOLEAN, ReportFailure(w, silent) PROVE EndsInCompleting'
  BY <1>4, <1>16 DEF ReportFailure
<1>17. CASE FailEarly(w) \/ TimesOut(w) \/ Move(w) \/ Succeed(w)
  BY <1>3, <1>17 DEF FailEarly, TimesOut, Move, Succeed
<1>18. CASE Ack(w) \/ Crash(w)
  BY <1>5, <1>18 DEF Ack, Crash
<1>19. ASSUME NEW dead \in BOOLEAN, Nack(w, dead) PROVE EndsInCompleting'
  BY <1>3, <1>5, <1>19 DEF Nack
<1> QED
  BY <1>6, <1>7, <1>8, <1>9, <1>10, <1>11, <1>12, <1>13, <1>14, <1>15, <1>16, <1>17, <1>18,
     <1>19 DEF WorkerStep

\* A worker that has read neither COMPLETING nor COMPLETED reports neither.
LEMMA SoundWorkerStep ==
    ASSUME LocalTypes, EndsInCompleting, NoneCompleted, phase # "completing",
           NEW w \in Worker, WorkerStep(w)
    PROVE  NoneCompleted'
<1> DEFINE m == worker[w]
<1>0. m \in WorkerState
  BY DEF LocalTypes
<1>1. /\ m.at.phase # "completing" /\ m.row.status # "COMPLETED"
      /\ m.update.status # "COMPLETED" /\ run.status # "COMPLETED"
      /\ m.at.result \notin {"finish", "finishBadly"}
  BY DEF NoneCompleted, EndsInCompleting
<1>o. Off.at.phase = "planning" /\ Off.row.status = "PENDING" /\ Off.update.status = "same"
  BY DEF Off, NewRun, NoUpdate
<1>u. user' = user
  BY DEF WorkerStep, UpdateRead, UpdateWrite, Touch, Take, FailEarly, Begin, Hydrate, GetCycle,
         TimesOut, Commit, ExecutePhase, EndLoop, Stay, Pause, Move, Moved, ReportFailure,
         Succeed, Ack, Nack, Crash
<1>8. CASE UpdateWrite(w)
  <2> DEFINE n == [m EXCEPT !.pc = m.update.after, !.row = NewRun, !.update = NoUpdate]
  <2>1. /\ n.at = m.at /\ n.row = NewRun /\ n.update = NoUpdate
    BY <1>0 DEF WorkerState
  <2>2. run'.status # "COMPLETED"
    BY <1>1, <1>8 DEF UpdateWrite
  <2>3. Become(w, n)
    BY <1>8 DEF UpdateWrite
  <2>4. NewRun.status # "COMPLETED" /\ NoUpdate.status # "COMPLETED"
    BY DEF NewRun, NoUpdate
  <2> HIDE DEF n
  <2> QED BY <1>1, <1>u, <2>1, <2>2, <2>3, <2>4 DEF Become, LocalTypes, NoneCompleted
<1>r. CASE ~UpdateWrite(w)
  <2>0. run' = run
    BY <1>r DEF WorkerStep, UpdateRead, Touch, Take, FailEarly, Begin, Hydrate, GetCycle,
         TimesOut, Commit, ExecutePhase, EndLoop, Stay, Pause, Move, Moved, ReportFailure,
         Succeed, Ack, Nack, Crash
  <2>1. ASSUME NEW n, Become(w, n), n.at.phase # "completing",
               n.row = m.row \/ n.row = run, n.update.status # "COMPLETED"
        PROVE  NoneCompleted'
    BY <1>1, <1>u, <2>0, <2>1, BecomeSound
  <2>2. ASSUME NEW pc, Go(w, pc) PROVE NoneCompleted'
    <3> DEFINE n == [m EXCEPT !.pc = pc]
    <3>1. n.at = m.at /\ n.row = m.row /\ n.update = m.update
      BY <1>0 DEF WorkerState
    <3> QED BY <1>1, <2>1, <2>2, <3>1 DEF Go
  <2>3. ASSUME NEW up, up.status # "COMPLETED",
               Become(w, [m EXCEPT !.pc = "read", !.update = up])
        PROVE  NoneCompleted'
    <3> DEFINE n == [m EXCEPT !.pc = "read", !.update = up]
    <3>1. n.at = m.at /\ n.row = m.row /\ n.update = up
      BY <1>0 DEF WorkerState
    <3> QED BY <1>1, <2>1, <2>3, <3>1
  <2>4. ASSUME NEW st, st # "COMPLETED", NEW after, Put(w, st, after) PROVE NoneCompleted'
    <3> DEFINE up == [status |-> st, save |-> FALSE, seq |-> 0, after |-> after]
    <3>1. up.status # "COMPLETED" /\ Become(w, [m EXCEPT !.pc = "read", !.update = up])
      BY <2>4 DEF Put
    <3> HIDE DEF up
    <3> QED BY <2>3, <3>1
  <2>5. CASE Become(w, Off)
    BY <1>o, <1>u, <2>0, <2>5, BecomeSound
  <2>6. ASSUME NEW j \in Job, Take(w, j) PROVE NoneCompleted'
    <3> DEFINE n == [Off EXCEPT !.pc = "load", !.job = j]
    <3>1. n.at = Off.at /\ n.row = Off.row /\ n.update = Off.update
      BY DEF Off
    <3>2. Become(w, n)
      BY <2>6 DEF Take
    <3> HIDE DEF n
    <3> QED BY <1>o, <1>u, <2>0, <3>1, <3>2, BecomeSound
  <2>7. CASE UpdateRead(w)
    <3> DEFINE n == [m EXCEPT !.pc = "write", !.row = run]
    <3>1. n.at = m.at /\ n.row = run /\ n.update = m.update
      BY <1>0 DEF WorkerState
    <3> QED BY <1>1, <2>1, <2>7, <3>1 DEF UpdateRead
  <2>9. CASE Hydrate(w)
    <3> DEFINE n == [m EXCEPT !.pc = "loop", !.mem = run.outputs]
    <3>1. n.at = m.at /\ n.row = m.row /\ n.update = m.update
      BY <1>0 DEF WorkerState
    <3> QED BY <1>1, <2>1, <2>9, <3>1 DEF Hydrate
  <2>10. CASE GetCycle(w)
    <3> DEFINE at == [phase |-> phase, result |-> "stay", next |-> phase]
    <3> DEFINE n == [m EXCEPT !.pc = "execute", !.at = at]
    <3>1. n.at = at /\ n.row = m.row /\ n.update = m.update
      BY <1>0 DEF WorkerState
    <3>2. at.phase # "completing"
      OBVIOUS
    <3>3. Become(w, n) \/ Put(w, "FAILED", "failed")
      BY <2>10 DEF GetCycle
    <3> HIDE DEF at
    <3> QED BY <1>1, <2>1, <2>4, <3>1, <3>2, <3>3
  <2>11. CASE Commit(w)
    <3> DEFINE up == [status |-> "same", save |-> TRUE, seq |-> run.seq + 1, after |-> "decide"]
    <3>1. up.status # "COMPLETED" /\ Become(w, [m EXCEPT !.pc = "read", !.update = up])
      BY <2>11 DEF Commit
    <3> HIDE DEF up
    <3> QED BY <2>3, <3>1
  <2>12. ASSUME NEW result \in Result, NEW next \in Phase, ExecutePhase(w, result, next)
         PROVE  NoneCompleted'
    <3> DEFINE at == [phase |-> m.at.phase, result |-> result, next |-> next]
    <3>1. PICK mem : Become(w, [m EXCEPT !.pc = "commit", !.at = at, !.mem = mem])
      BY <2>12 DEF ExecutePhase
    <3> DEFINE n == [m EXCEPT !.pc = "commit", !.at = at, !.mem = mem]
    <3>2. n.at = at /\ n.row = m.row /\ n.update = m.update
      BY <1>0 DEF WorkerState
    <3>3. at.phase # "completing"
      BY <1>1
    <3> HIDE DEF at
    <3> QED BY <1>1, <2>1, <3>1, <3>2, <3>3
  <2>13. CASE Stay(w)
    <3> DEFINE n == [m EXCEPT !.pc = "loop", !.turn = m.turn + 1]
    <3>1. n.at = m.at /\ n.row = m.row /\ n.update = m.update
      BY <1>0 DEF WorkerState
    <3> QED BY <1>1, <2>1, <2>13, <3>1 DEF Stay
  <2>14. CASE Moved(w)
    <3> DEFINE up == [NoUpdate EXCEPT !.after = "loop"]
    <3> DEFINE n == [m EXCEPT !.pc = "read", !.turn = m.turn + 1, !.update = up]
    <3>1. Become(w, n) \/ Put(w, "PENDING", "succeeded")
      BY <2>14 DEF Moved
    <3>2. up.status # "COMPLETED"
      BY DEF NoUpdate
    <3> HIDE DEF up
    <3>3. n.at = m.at /\ n.row = m.row /\ n.update = up
      BY <1>0 DEF WorkerState
    <3> QED BY <1>1, <2>1, <2>4, <3>1, <3>2, <3>3
  <2>15. CASE Touch(w) \/ Begin(w) \/ EndLoop(w) \/ Pause(w)
    BY <1>1, <2>2, <2>4, <2>15 DEF Touch, Begin, EndLoop, Pause
  <2>16. ASSUME NEW silent \in BOOLEAN, ReportFailure(w, silent) PROVE NoneCompleted'
    BY <2>4, <2>16 DEF ReportFailure
  <2>17. CASE FailEarly(w) \/ TimesOut(w) \/ Move(w) \/ Succeed(w)
    BY <2>2, <2>17 DEF FailEarly, TimesOut, Move, Succeed
  <2>18. CASE Ack(w) \/ Crash(w)
    BY <2>5, <2>18 DEF Ack, Crash
  <2>19. ASSUME NEW dead \in BOOLEAN, Nack(w, dead) PROVE NoneCompleted'
    BY <2>2, <2>5, <2>19 DEF Nack
  <2> QED
    BY <1>r, <2>6, <2>7, <2>9, <2>10, <2>11, <2>12, <2>13, <2>14, <2>15, <2>16, <2>17, <2>18,
       <2>19 DEF WorkerStep
<1> QED BY <1>8, <1>r

LEMMA SoundUserStep ==
    ASSUME LocalTypes, NoneCompleted, UNCHANGED worker,
           \/ \E u \in Canceller : CancelStep(u)
           \/ \E u \in Approver : ApproveStep(u)
           \/ \E u \in User : Drop(u)
    PROVE  NoneCompleted'
<1>1. \A p : /\ [Away EXCEPT !.pc = p].row.status # "COMPLETED"
             /\ \A t : [Away EXCEPT !.pc = p, !.to = t].row.status # "COMPLETED"
             /\ [Away EXCEPT !.pc = p, !.row = run].row = run
  BY DEF Away, NewRun
<1>2. Away.row.status # "COMPLETED"
  BY DEF Away, NewRun
<1>3. ASSUME NEW u \in User, NEW n, user' = [user EXCEPT ![u] = n],
             n.row.status # "COMPLETED", run' = run
      PROVE  NoneCompleted'
  BY <1>3 DEF NoneCompleted, LocalTypes
<1>4. ASSUME NEW u \in Canceller, CancelStep(u) PROVE NoneCompleted'
  <2>0. u \in User
    BY DEF User
  <2>1. CASE Cancel(u)
    <3> DEFINE n == [Away EXCEPT !.pc = "cancel"]
    <3>1. user' = [user EXCEPT ![u] = n] /\ run' = run
      BY <2>1 DEF Cancel
    <3>2. n.row.status # "COMPLETED"
      BY <1>1
    <3> HIDE DEF n
    <3> QED BY <1>3, <2>0, <3>1, <3>2
  <2>3. CASE CancelRead(u)
    <3> DEFINE n == [Away EXCEPT !.pc = "cancelWrite", !.row = run]
    <3>1. user' = [user EXCEPT ![u] = n] /\ run' = run
      BY <2>3 DEF CancelRead
    <3>2. n.row.status # "COMPLETED"
      BY <1>1 DEF NoneCompleted
    <3> HIDE DEF n
    <3> QED BY <1>3, <2>0, <3>1, <3>2
  <2>2. CASE CancelWrite(u)
    <3>1. [user[u].row EXCEPT !.status = "CANCELLED"].status = "CANCELLED"
      BY DEF LocalTypes, UserState, Run, User
    <3> QED BY <1>2, <2>2, <3>1 DEF CancelWrite, NoneCompleted, LocalTypes
  <2> QED BY <1>4, <2>1, <2>2, <2>3 DEF CancelStep
<1>5. ASSUME NEW u \in Approver, ApproveStep(u) PROVE NoneCompleted'
  <2>0. u \in User
    BY DEF User
  <2>1. CASE Approve(u) \/ ApproveLook(u) \/ ApproveMove(u)
    <3>0. run' = run
      BY <2>1 DEF Approve, ApproveLook, ApproveMove
    <3>1. ASSUME NEW n, user' = [user EXCEPT ![u] = n], n.row.status # "COMPLETED"
          PROVE  NoneCompleted'
      BY <1>3, <2>0, <3>0, <3>1
    <3>2. CASE Approve(u)
      <4> DEFINE n == [Away EXCEPT !.pc = "approve"]
      <4>1. n.row.status # "COMPLETED" /\ user' = [user EXCEPT ![u] = n]
        BY <1>1, <3>2 DEF Approve
      <4> HIDE DEF n
      <4> QED BY <3>1, <4>1
    <3>3. CASE ApproveLook(u)
      <4> DEFINE n(t) == [Away EXCEPT !.pc = "move", !.to = t]
      <4>1. \A t : n(t).row.status # "COMPLETED"
        BY <1>1
      <4>2. \/ \E t : user' = [user EXCEPT ![u] = n(t)]
            \/ user' = [user EXCEPT ![u] = Away]
        BY <3>3 DEF ApproveLook
      <4> HIDE DEF n
      <4> QED BY <1>2, <3>1, <4>1, <4>2
    <3>4. CASE ApproveMove(u)
      <4> DEFINE n == [Away EXCEPT !.pc = "enqueue"]
      <4>1. n.row.status # "COMPLETED"
        BY <1>1
      <4>2. user' = [user EXCEPT ![u] = n] \/ user' = [user EXCEPT ![u] = Away]
        BY <3>4 DEF ApproveMove
      <4> HIDE DEF n
      <4> QED BY <1>2, <3>1, <4>1, <4>2
    <3> QED BY <2>1, <3>2, <3>3, <3>4
  <2>2. ASSUME NEW j \in Job, ApproveEnqueue(u, j) PROVE NoneCompleted'
    BY <1>2, <1>3, <2>2 DEF ApproveEnqueue, User
  <2> QED BY <1>5, <2>1, <2>2 DEF ApproveStep
<1>6. ASSUME NEW u \in User, Drop(u) PROVE NoneCompleted'
  BY <1>2, <1>3, <1>6 DEF Drop
<1> QED BY <1>4, <1>5, <1>6

LEMMA SoundStep ==
    LocalTypes /\ EndsInCompleting /\ NoneCompleted /\ phase # "completing" /\ [Next]_vars
        => NoneCompleted'
<1> SUFFICES ASSUME LocalTypes, EndsInCompleting, NoneCompleted, phase # "completing",
                    [Next]_vars
             PROVE  NoneCompleted'
  OBVIOUS
<1>1. CASE \E w \in Worker : WorkerStep(w)
  BY <1>1, SoundWorkerStep
<1>2. CASE \/ \E u \in Canceller : CancelStep(u)
           \/ \E u \in Approver : ApproveStep(u)
           \/ \E u \in User : Drop(u)
  <2>1. UNCHANGED worker
    BY <1>2 DEF CancelStep, Cancel, CancelRead, CancelWrite, ApproveStep, Approve, ApproveLook,
                ApproveMove, ApproveEnqueue, Drop
  <2> QED BY <1>2, <2>1, SoundUserStep
<1>3. CASE UNCHANGED <<run, worker, user>>
  BY <1>3 DEF NoneCompleted
<1> QED BY <1>1, <1>2, <1>3 DEF Next, vars, Enqueue, InTransition

LEMMA EndsStep == LocalTypes /\ EndsInCompleting /\ [Next]_vars => EndsInCompleting'
<1> SUFFICES ASSUME LocalTypes, EndsInCompleting, [Next]_vars PROVE EndsInCompleting'
  OBVIOUS
<1>1. CASE \E w \in Worker : WorkerStep(w)
  BY <1>1, EndsWorkerStep
<1>2. CASE UNCHANGED worker
  BY <1>2 DEF EndsInCompleting
<1> QED
  BY <1>1, <1>2
  DEF Next, vars, Enqueue, InTransition, CancelStep, Cancel, CancelRead, CancelWrite, ApproveStep,
      Approve, ApproveLook, ApproveMove, ApproveEnqueue, Drop

LEMMA VerifiedStep == VerifiedInv /\ [Next]_vars => VerifiedInv'
<1> SUFFICES ASSUME VerifiedInv, [Next]_vars PROVE VerifiedInv'
  OBVIOUS
<1>1. LocalTypes /\ EndsInCompleting /\ Proved!GateInv
  BY DEF VerifiedInv, TypeOK, LocalTypes
<1>2. CycleStep
  BY <1>1, StepIsCycleStep
<1>3. TypeOK' /\ EndsInCompleting'
  BY <1>1, TypeStep, EndsStep DEF VerifiedInv
<1>4. Proved!GateInv'
  BY <1>1, <1>2, Assumed, Proved!GateStep DEF CycleStep
<1>5. ASSUME ~Verified' PROVE NoneCompleted'
  <2>1. ~Verified
    BY <1>1, <1>2, <1>5, RowsGrow DEF Verified, Cycle!Opened
  <2>2. phase # "completing" /\ NoneCompleted
    BY <1>1, <2>1, SameGates DEF VerifiedInv
  <2> QED BY <1>1, <2>2, SoundStep
<1> QED BY <1>3, <1>4, <1>5 DEF VerifiedInv

\* However many workers run a run at once, take it over from each other, and
\* write stale rows back, it is reported as completed only after its
\* architecture was approved and its verification passed.
THEOREM CompletionIsVerified == Spec => []CompletedWasVerified
<1>1. Init => VerifiedInv
  <2> SUFFICES ASSUME Init PROVE VerifiedInv
    OBVIOUS
  <2>1. Proved!GateInv
    BY CycleInit, Assumed, Proved!GateInit
  <2>2. TypeOK
    BY TypeInit
  <2>3. NoneCompleted /\ EndsInCompleting
    BY DEF Init, NoneCompleted, EndsInCompleting, Off, Away, NewRun, NoUpdate
  <2> QED BY <2>1, <2>2, <2>3 DEF VerifiedInv
<1>2. VerifiedInv => CompletedWasVerified
  BY DEF VerifiedInv, NoneCompleted, CompletedWasVerified
<1> QED BY <1>1, <1>2, VerifiedStep, PTL DEF Spec
=============================================================================
