---------------------- MODULE AgentRunSoleWorkerProofs ----------------------
(***************************************************************************)
(* What AgentRun promises as long as one worker at a time works on the run *)
(* (OnlyIdleIsShared says how long that is): the run is not forgotten      *)
(* while it says RUNNING; and where no user writes stale rows, whoever     *)
(* takes it over has the outputs it needs.                                 *)
(* For any number of jobs, deliveries, turns and policies.                 *)
(***************************************************************************)
EXTENDS AgentRunProofs

OneWorker == \A v, w \in Worker : v = w

\* Where the worker is, or goes on to after the update of the run under way.
Toward(m) == IF m.pc \in {"read", "write"} THEN m.update.after ELSE m.pc

LEMMA SetsWorker ==
    ASSUME LocalTypes, OneWorker, NEW w \in Worker, NEW n, Become(w, n)
    PROVE  \A v \in Worker : worker'[v] = n
BY DEF LocalTypes, OneWorker, Become

LEMMA GoState ==
    ASSUME NEW m \in WorkerState, NEW pc, NEW n, n = [m EXCEPT !.pc = pc]
    PROVE  /\ n.pc = pc /\ n.job = m.job /\ n.row = m.row /\ n.update = m.update
           /\ n.mem = m.mem /\ n.at = m.at
BY DEF WorkerState

LEMMA PutState ==
    ASSUME NEW m \in WorkerState, NEW up, NEW n, n = [m EXCEPT !.pc = "read", !.update = up]
    PROVE  /\ n.pc = "read" /\ n.job = m.job /\ n.row = m.row /\ n.update = up
           /\ n.mem = m.mem /\ n.at = m.at
BY DEF WorkerState

LEMMA OffState ==
    ASSUME NEW w \in Worker
    PROVE  Off.pc = "idle" /\ \A j : [Off EXCEPT !.pc = "load", !.job = j].pc = "load"
                                     /\ [Off EXCEPT !.pc = "load", !.job = j].job = j
BY DEF Off

-----------------------------------------------------------------------------
(* The run is not forgotten.                                               *)

\* The worker's job is claimed until it is acknowledged, and by then the run
\* does not say RUNNING any more or the job is in the dead letters.
HoldOf(m) ==
    /\ m.pc # "idle" => jobs[m.job] = "claimed"
    /\ m.pc \in {"read", "write"} =>
          /\ m.update.after \notin {"idle", "read", "write", "ack"}
          /\ m.update.after = "succeeded" => m.update.status \notin {"same", "RUNNING"}
    /\ m.pc = "succeeded" => run.status # "RUNNING"
    /\ m.pc = "ack" => run.status # "RUNNING" \/ m.job \in buried

Hold == \A w \in Worker : HoldOf(worker[w])

HoldInv == TypeOK /\ Hold /\ RunningHasJob

LEMMA HoldFacts ==
    ASSUME HoldInv
    PROVE  /\ LocalTypes /\ jobs \in [Job -> Queue!Lifecycle]
           /\ \A w \in Worker : /\ worker[w] \in WorkerState /\ HoldOf(worker[w])
                                /\ worker[w].pc # "idle" => worker[w].job \in Job
BY DEF HoldInv, TypeOK, LocalTypes, Hold, Queue!TypeOK

\* A step of the worker that changes neither the queue nor the run.
LEMMA HoldQuiet ==
    ASSUME HoldInv, OneWorker, NEW w \in Worker, NEW n, Become(w, n), HoldOf(n),
           UNCHANGED <<queue, run>>
    PROVE  Hold' /\ RunningHasJob'
<1>1. \A v \in Worker : worker'[v] = n
  BY HoldFacts, SetsWorker
<1>2. UNCHANGED <<jobs, buried, run>>
  BY DEF queue
<1>3. Hold'
  BY <1>1, <1>2 DEF Hold, HoldOf
<1>4. RunningHasJob'
  BY <1>2 DEF HoldInv, RunningHasJob
<1> QED BY <1>3, <1>4

LEMMA HoldGo ==
    ASSUME HoldInv, OneWorker, NEW w \in Worker, NEW pc, Go(w, pc),
           worker[w].pc # "idle", pc \notin {"idle", "read", "write", "succeeded", "ack"},
           UNCHANGED <<queue, run>>
    PROVE  Hold' /\ RunningHasJob'
<1>1. PICK n : n = [worker[w] EXCEPT !.pc = pc]
  OBVIOUS
<1>2. Become(w, n) /\ n.pc = pc /\ n.job = worker[w].job
  BY <1>1, GoState, HoldFacts DEF Go
<1>3. HoldOf(n)
  BY <1>2, HoldFacts DEF HoldOf
<1> QED BY <1>2, <1>3, HoldQuiet

LEMMA HoldUpdate ==
    ASSUME HoldInv, OneWorker, NEW w \in Worker, NEW up, worker[w].pc # "idle",
           Become(w, [worker[w] EXCEPT !.pc = "read", !.update = up]),
           up.after \notin {"idle", "read", "write", "ack"},
           up.after = "succeeded" => up.status \notin {"same", "RUNNING"},
           UNCHANGED <<queue, run>>
    PROVE  Hold' /\ RunningHasJob'
<1>1. PICK n : n = [worker[w] EXCEPT !.pc = "read", !.update = up]
  OBVIOUS
<1>2. Become(w, n)
  BY <1>1
<1>4. n.pc = "read" /\ n.job = worker[w].job /\ n.update = up
  BY <1>1, HoldFacts DEF WorkerState
<1>3. HoldOf(n)
  BY <1>4, HoldFacts DEF HoldOf
<1> QED BY <1>2, <1>3, HoldQuiet

LEMMA HoldPut ==
    ASSUME HoldInv, OneWorker, NEW w \in Worker, NEW status, NEW after, worker[w].pc # "idle",
           Put(w, status, after), after \notin {"idle", "read", "write", "ack"},
           after = "succeeded" => status \notin {"same", "RUNNING"},
           UNCHANGED <<queue, run>>
    PROVE  Hold' /\ RunningHasJob'
<1>1. PICK up : up = [status |-> status, save |-> FALSE, seq |-> 0, after |-> after]
  OBVIOUS
<1>2. Become(w, [worker[w] EXCEPT !.pc = "read", !.update = up])
  BY <1>1 DEF Put
<1>3. up.after = after /\ up.status = status
  BY <1>1
<1> QED BY <1>2, <1>3, HoldUpdate

LEMMA HoldOff ==
    ASSUME HoldInv, OneWorker, NEW w \in Worker, Become(w, Off), UNCHANGED <<queue, run>>
    PROVE  Hold' /\ RunningHasJob'
<1>1. HoldOf(Off)
  BY DEF HoldOf, Off
<1> QED BY <1>1, HoldQuiet

\* Updates of the run.
LEMMA HoldRun ==
    ASSUME HoldInv, OneWorker, NEW w \in Worker,
           UpdateRead(w) \/ UpdateWrite(w) \/ Touch(w)
    PROVE  Hold' /\ RunningHasJob'
<1>1. ASSUME UpdateRead(w) PROVE Hold' /\ RunningHasJob'
  <2>1. PICK n : n = [worker[w] EXCEPT !.pc = "write", !.row = run]
    OBVIOUS
  <2>2. /\ Become(w, n) /\ worker[w].pc = "read"
        /\ n.pc = "write" /\ n.job = worker[w].job /\ n.update = worker[w].update
    BY <1>1, <2>1, HoldFacts DEF UpdateRead, WorkerState
  <2>3. HoldOf(n)
    BY <2>2, HoldFacts DEF HoldOf
  <2> QED BY <1>1, <2>2, <2>3, HoldQuiet DEF UpdateRead
<1>2. ASSUME UpdateWrite(w) PROVE Hold' /\ RunningHasJob'
  <2>1. PICK m : m = worker[w]
    OBVIOUS
  <2>2. PICK n : n = [m EXCEPT !.pc = m.update.after, !.row = NewRun, !.update = NoUpdate]
    OBVIOUS
  <2>3. /\ m \in WorkerState /\ m.pc = "write" /\ m.job \in Job /\ HoldOf(m)
    BY <1>2, <2>1, HoldFacts DEF UpdateWrite
  <2>4. Become(w, n) /\ n.pc = m.update.after /\ n.job = m.job
    BY <1>2, <2>1, <2>2, <2>3 DEF UpdateWrite, WorkerState
  <2>5. run'.status = IF m.update.status = "same" THEN m.row.status ELSE m.update.status
    BY <1>2, <2>1 DEF UpdateWrite
  <2>6. UNCHANGED <<jobs, buried>> /\ jobs[m.job] = "claimed"
    BY <1>2, <2>3 DEF UpdateWrite, queue, HoldOf
  <2>7. \A v \in Worker : worker'[v] = n
    BY <2>4, HoldFacts, SetsWorker
  <2>8. Hold'
    BY <2>3, <2>4, <2>5, <2>6, <2>7 DEF Hold, HoldOf
  <2>9. RunningHasJob'
    BY <2>3, <2>6 DEF RunningHasJob
  <2> QED BY <2>8, <2>9
<1>3. ASSUME Touch(w) PROVE Hold' /\ RunningHasJob'
  <2>1. PICK after : after = worker[w].pc
    OBVIOUS
  <2>2. after \in {"load", "hydrate", "execute", "decide"} /\ Put(w, "same", after)
        /\ UNCHANGED <<queue, run>>
    BY <1>3, <2>1 DEF Touch
  <2>3. after \notin {"idle", "read", "write", "ack", "succeeded"}
    BY <2>2
  <2> QED BY <2>1, <2>2, <2>3, HoldPut
<1> QED BY <1>1, <1>2, <1>3

\* From taking the job to the end of the loop.
LEMMA HoldLoop ==
    ASSUME HoldInv, OneWorker, NEW w \in Worker,
           \/ FailEarly(w) \/ Begin(w) \/ Hydrate(w) \/ GetCycle(w) \/ TimesOut(w) \/ Commit(w)
           \/ \E result \in Result, next \in Phase : ExecutePhase(w, result, next)
           \/ EndLoop(w) \/ Stay(w) \/ Pause(w) \/ Move(w) \/ Moved(w)
           \/ \E silent \in BOOLEAN : ReportFailure(w, silent)
    PROVE  Hold' /\ RunningHasJob'
<1> DEFINE m == worker[w]
<1>0. m \in WorkerState /\ HoldOf(m)
  BY HoldFacts
<1>1. UNCHANGED <<queue, run>> /\ m.pc # "idle"
  BY DEF FailEarly, Begin, Hydrate, GetCycle, TimesOut, Commit, ExecutePhase, EndLoop, Stay,
         Pause, Move, Moved, ReportFailure
<1>2. CASE \E pc : Go(w, pc) /\ pc \in {"nack", "failed", "moving"}
  <2>1. PICK pc : Go(w, pc) /\ pc \in {"nack", "failed", "moving"}
    BY <1>2
  <2>2. pc \notin {"idle", "read", "write", "succeeded", "ack"}
    BY <2>1
  <2> QED BY <1>1, <2>1, <2>2, HoldGo
<1>3. CASE \E status, after : /\ Put(w, status, after)
                              /\ \/ after \in {"hydrate", "failed", "nack"}
                                 \/ after = "succeeded" /\ status \in {"COMPLETED", "PENDING", "FAILED"}
  <2>1. PICK status, after : /\ Put(w, status, after)
                             /\ \/ after \in {"hydrate", "failed", "nack"}
                                \/ after = "succeeded" /\ status \in {"COMPLETED", "PENDING", "FAILED"}
    BY <1>3
  <2>2. /\ after \notin {"idle", "read", "write", "ack"}
        /\ after = "succeeded" => status \notin {"same", "RUNNING"}
    BY <2>1
  <2> QED BY <1>1, <2>1, <2>2, HoldPut
<1>4. ASSUME NEW n, Become(w, n), n.job = m.job, n.pc \in {"loop", "execute", "commit"}
      PROVE  Hold' /\ RunningHasJob'
  <2>1. HoldOf(n)
    BY <1>0, <1>1, <1>4 DEF HoldOf
  <2> QED BY <1>1, <1>4, <2>1, HoldQuiet
<1>5. ASSUME NEW up, Become(w, [m EXCEPT !.pc = "read", !.update = up]),
             up.after \in {"decide", "loop"}
      PROVE  Hold' /\ RunningHasJob'
  <2>1. up.after \notin {"idle", "read", "write", "ack", "succeeded"}
    BY <1>5
  <2> QED BY <1>1, <1>5, <2>1, HoldUpdate
<1>6. CASE FailEarly(w) \/ TimesOut(w) \/ Move(w)
  BY <1>2, <1>6 DEF FailEarly, TimesOut, Move
<1>7. CASE Begin(w)
  BY <1>2, <1>3, <1>7 DEF Begin
<1>8. CASE EndLoop(w) \/ Pause(w)
  BY <1>3, <1>8 DEF EndLoop, Pause
<1>9. ASSUME NEW silent \in BOOLEAN, ReportFailure(w, silent) PROVE Hold' /\ RunningHasJob'
  BY <1>3, <1>9 DEF ReportFailure
<1>10. CASE Hydrate(w)
  <2>1. PICK n : n = [m EXCEPT !.pc = "loop", !.mem = run.outputs]
    OBVIOUS
  <2>2. Become(w, n) /\ n.job = m.job /\ n.pc = "loop"
    BY <1>0, <1>10, <2>1 DEF Hydrate, WorkerState
  <2> QED BY <1>4, <2>2
<1>11. CASE GetCycle(w)
  <2>1. CASE Put(w, "FAILED", "failed")
    BY <1>3, <2>1
  <2>2. ASSUME NEW at, Become(w, [m EXCEPT !.pc = "execute", !.at = at])
        PROVE  Hold' /\ RunningHasJob'
    <3>1. PICK n : n = [m EXCEPT !.pc = "execute", !.at = at]
      OBVIOUS
    <3>2. Become(w, n) /\ n.job = m.job /\ n.pc = "execute"
      BY <1>0, <2>2, <3>1 DEF WorkerState
    <3> QED BY <1>4, <3>2
  <2> QED BY <1>11, <2>1, <2>2 DEF GetCycle
<1>12. CASE Commit(w)
  <2>1. PICK up : up = [status |-> "same", save |-> TRUE, seq |-> run.seq + 1, after |-> "decide"]
    OBVIOUS
  <2>2. Become(w, [m EXCEPT !.pc = "read", !.update = up]) /\ up.after = "decide"
    BY <1>12, <2>1 DEF Commit
  <2> QED BY <1>5, <2>2
<1>13. ASSUME NEW result \in Result, NEW next \in Phase, ExecutePhase(w, result, next)
       PROVE  Hold' /\ RunningHasJob'
  <2>1. ASSUME NEW at, NEW mem, Become(w, [m EXCEPT !.pc = "commit", !.at = at, !.mem = mem])
        PROVE  Hold' /\ RunningHasJob'
    <3>1. PICK n : n = [m EXCEPT !.pc = "commit", !.at = at, !.mem = mem]
      OBVIOUS
    <3>2. Become(w, n) /\ n.job = m.job /\ n.pc = "commit"
      BY <1>0, <2>1, <3>1 DEF WorkerState
    <3> QED BY <1>4, <3>2
  <2> QED BY <1>13, <2>1 DEF ExecutePhase
<1>14. CASE Stay(w)
  <2>1. PICK n : n = [m EXCEPT !.pc = "loop", !.turn = @ + 1]
    OBVIOUS
  <2>2. Become(w, n) /\ n.job = m.job /\ n.pc = "loop"
    BY <1>0, <1>14, <2>1 DEF Stay, WorkerState
  <2> QED BY <1>4, <2>2
<1>15. CASE Moved(w)
  <2>1. CASE Put(w, "PENDING", "succeeded")
    BY <1>3, <2>1
  <2>2. CASE Become(w, [m EXCEPT !.pc = "read", !.turn = @ + 1,
                                 !.update = [NoUpdate EXCEPT !.after = "loop"]])
    <3>1. PICK up : up = [NoUpdate EXCEPT !.after = "loop"]
      OBVIOUS
    <3>2. PICK n : n = [m EXCEPT !.pc = "read", !.turn = @ + 1, !.update = up]
      OBVIOUS
    <3>3. /\ Become(w, n) /\ n.job = m.job /\ n.pc = "read" /\ n.update = up
          /\ up.after = "loop"
      BY <1>0, <2>2, <3>1, <3>2 DEF WorkerState, NoUpdate
    <3>4. HoldOf(n)
      BY <1>0, <1>1, <3>3 DEF HoldOf
    <3> QED BY <1>1, <3>3, <3>4, HoldQuiet
  <2> QED BY <1>15, <2>1, <2>2 DEF Moved
<1> QED
  BY <1>6, <1>7, <1>8, <1>9, <1>10, <1>11, <1>12, <1>13, <1>14, <1>15

\* Taking the job, and its end.
LEMMA HoldQueue ==
    ASSUME HoldInv, OneWorker, NEW w \in Worker,
           \/ \E j \in Job : Take(w, j)
           \/ \E dead \in BOOLEAN : Nack(w, dead)
           \/ Succeed(w) \/ Ack(w) \/ Crash(w)
    PROVE  Hold' /\ RunningHasJob'
<1> DEFINE m == worker[w]
<1>0. /\ m \in WorkerState /\ HoldOf(m) /\ jobs \in [Job -> Queue!Lifecycle]
      /\ m.pc # "idle" => m.job \in Job
  BY HoldFacts
<1>1. ASSUME NEW j \in Job, Take(w, j) PROVE Hold' /\ RunningHasJob'
  <2>1. PICK n : n = [Off EXCEPT !.pc = "load", !.job = j]
    OBVIOUS
  <2>2. Become(w, n) /\ n.pc = "load" /\ n.job = j
    BY <1>1, <2>1, OffState DEF Take
  <2>3. /\ jobs[j] \in {"ready", "claimed"} /\ UNCHANGED <<run, buried>>
        /\ jobs' = [i \in Job |-> IF i \in {j} THEN "claimed" ELSE jobs[i]]
    BY <1>1 DEF Take, Queue!Deliver, Queue!Move
  <2>4. \A v \in Worker : worker'[v] = n
    BY <2>2, HoldFacts, SetsWorker
  <2>5. Hold'
    BY <2>2, <2>3, <2>4 DEF Hold, HoldOf
  <2>6. RunningHasJob'
    BY <2>3 DEF RunningHasJob
  <2> QED BY <2>5, <2>6
<1>2. ASSUME Nack(w, TRUE) PROVE Hold' /\ RunningHasJob'
  <2>1. PICK n : n = [m EXCEPT !.pc = "ack"]
    OBVIOUS
  <2>2. Become(w, n) /\ n.pc = "ack" /\ n.job = m.job
    BY <1>0, <1>2, <2>1, GoState DEF Nack, Go
  <2>3. /\ buried' = buried \cup {m.job} /\ UNCHANGED <<jobs, run>>
        /\ m.pc = "nack"
    BY <1>2 DEF Nack, Queue!Bury
  <2>4. \A v \in Worker : worker'[v] = n
    BY <2>2, HoldFacts, SetsWorker
  <2>5. Hold'
    BY <1>0, <2>2, <2>3, <2>4 DEF Hold, HoldOf
  <2>6. RunningHasJob'
    BY <1>0, <2>3 DEF RunningHasJob
  <2> QED BY <2>5, <2>6
<1>3. ASSUME Nack(w, FALSE) \/ Crash(w) PROVE Hold' /\ RunningHasJob'
  BY <1>3, HoldOff DEF Nack, Crash
<1>4. ASSUME Succeed(w) PROVE Hold' /\ RunningHasJob'
  <2>1. PICK n : n = [m EXCEPT !.pc = "ack"]
    OBVIOUS
  <2>2. Become(w, n) /\ n.pc = "ack" /\ n.job = m.job
    BY <1>0, <1>4, <2>1, GoState DEF Succeed, Go
  <2>3. UNCHANGED <<jobs, buried, run>> /\ m.pc = "succeeded"
    BY <1>4 DEF Succeed, Queue!Complete
  <2>4. \A v \in Worker : worker'[v] = n
    BY <2>2, HoldFacts, SetsWorker
  <2>5. Hold'
    BY <1>0, <2>2, <2>3, <2>4 DEF Hold, HoldOf
  <2>6. RunningHasJob'
    BY <2>3 DEF HoldInv, RunningHasJob
  <2> QED BY <2>5, <2>6
<1>5. ASSUME Ack(w) PROVE Hold' /\ RunningHasJob'
  <2>1. /\ Become(w, Off) /\ m.pc = "ack" /\ UNCHANGED run
        /\ jobs[m.job] = "claimed" /\ m.job \in Job
        /\ run.status # "RUNNING" \/ m.job \in buried
    BY <1>0, <1>5 DEF Ack, HoldOf
  <2>2. UNCHANGED buried
    BY <1>5, <2>1 DEF Ack, Queue!Settle
  <2>3. \A v \in Worker : worker'[v].pc = "idle"
    BY <2>1, HoldFacts, SetsWorker DEF Off
  <2>4. Hold'
    BY <2>3 DEF Hold, HoldOf
  <2>5. RunningHasJob'
    BY <2>1, <2>2 DEF RunningHasJob
  <2> QED BY <2>4, <2>5
<1>6. \A dead \in BOOLEAN : Nack(w, dead) => Nack(w, TRUE) \/ Nack(w, FALSE)
  OBVIOUS
<1> QED BY <1>1, <1>2, <1>3, <1>4, <1>5, <1>6

\* The steps of everybody else: they add jobs, and write CANCELLED only.
Others ==
    \/ \E named \in BOOLEAN : Enqueue(named)
    \/ \E c \in Worker \cup User : InTransition(c)
    \/ \E u \in Canceller : CancelStep(u)
    \/ \E u \in Approver : ApproveStep(u)
    \/ \E u \in User : Drop(u)
    \/ UNCHANGED vars

LEMMA OthersEffect ==
    ASSUME LocalTypes, Others
    PROVE  /\ UNCHANGED worker
           /\ UNCHANGED run \/ run'.status = "CANCELLED"
           /\ UNCHANGED queue \/ \E j \in Job : Queue!Publish(j, {})
<1>1. ASSUME NEW named \in BOOLEAN, Enqueue(named)
      PROVE  UNCHANGED <<worker, run>> /\ \E j \in Job : Queue!Publish(j, {})
  <2>1. 1 \in Job
    BY RunAssumption DEF Job
  <2> QED BY <1>1, <2>1 DEF Enqueue
<1>2. ASSUME NEW u \in Canceller, CancelStep(u)
      PROVE  UNCHANGED <<worker, queue>> /\ (UNCHANGED run \/ run'.status = "CANCELLED")
  <2>1. CASE CancelWrite(u)
    <3>1. run' = [user[u].row EXCEPT !.status = "CANCELLED"] /\ u \in User
      BY <2>1 DEF CancelWrite, User
    <3>2. user[u].row \in [status : Status, seq : Nat, outputs : SUBSET Phase]
      BY <3>1 DEF LocalTypes, UserState, Run
    <3>3. run'.status = "CANCELLED"
      BY <3>1, <3>2
    <3> QED BY <2>1, <3>3 DEF CancelWrite
  <2> QED BY <1>2, <2>1 DEF CancelStep, Cancel, CancelRead
<1>3. ASSUME NEW u \in Approver, ApproveStep(u)
      PROVE  /\ UNCHANGED <<worker, run>>
             /\ UNCHANGED queue \/ \E j \in Job : Queue!Publish(j, {})
  BY <1>3 DEF ApproveStep, Approve, ApproveLook, ApproveMove, ApproveEnqueue
<1>4. ASSUME \/ \E c \in Worker \cup User : InTransition(c)
             \/ \E u \in User : Drop(u)
             \/ UNCHANGED vars
      PROVE  UNCHANGED <<worker, run, queue>>
  BY <1>4 DEF InTransition, Drop, vars
<1> QED BY <1>1, <1>2, <1>3, <1>4 DEF Others

LEMMA HoldOthers ==
    ASSUME HoldInv, Others
    PROVE  Hold' /\ RunningHasJob'
<1>1. /\ LocalTypes /\ UNCHANGED worker
      /\ UNCHANGED run \/ run'.status = "CANCELLED"
  BY HoldFacts, OthersEffect
<1>2. /\ UNCHANGED buried
      /\ \A j \in Job : jobs[j] \in {"ready", "claimed"} => jobs'[j] = jobs[j]
  <2>1. CASE UNCHANGED queue
    BY <2>1 DEF queue
  <2>2. ASSUME NEW j \in Job, Queue!Publish(j, {})
        PROVE  /\ UNCHANGED buried
               /\ \A k \in Job : jobs[k] \in {"ready", "claimed"} => jobs'[k] = jobs[k]
    BY <2>2 DEF Queue!Publish
  <2> QED BY <1>1, <2>1, <2>2, OthersEffect
<1>3. Hold'
  <2> SUFFICES ASSUME NEW w \in Worker PROVE HoldOf(worker[w])'
    BY DEF Hold
  <2>1. HoldOf(worker[w]) /\ worker'[w] = worker[w]
        /\ (worker[w].pc # "idle" => worker[w].job \in Job)
    BY <1>1, HoldFacts
  <2> QED BY <1>1, <1>2, <2>1 DEF HoldOf
<1>4. RunningHasJob'
  BY <1>1, <1>2 DEF HoldInv, RunningHasJob
<1> QED BY <1>3, <1>4

LEMMA NextByParts ==
    ASSUME [Next]_vars
    PROVE  Others \/ \E w \in Worker : WorkerStep(w)
BY DEF Next, Others

\* With one worker at a time a run that says RUNNING always has a job to be
\* worked on or one in the dead letters, whatever is cancelled or approved in
\* the meantime and wherever the worker dies.
THEOREM RunningIsNotForgotten ==
    ASSUME OneWorker
    PROVE  Spec => []RunningHasJob
<1>1. Init => HoldInv
  <2> SUFFICES ASSUME Init PROVE Hold /\ RunningHasJob
    BY TypeInit DEF HoldInv
  <2>1. run.status = "PENDING" /\ \A w \in Worker : worker[w].pc = "idle"
    BY DEF Init, NewRun, Off
  <2> QED BY <2>1 DEF Hold, HoldOf, RunningHasJob
<1>2. HoldInv /\ [Next]_vars => HoldInv'
  <2> SUFFICES ASSUME HoldInv, [Next]_vars PROVE Hold' /\ RunningHasJob'
    BY TypeStep DEF HoldInv
  <2>1. ASSUME NEW w \in Worker, WorkerStep(w) PROVE Hold' /\ RunningHasJob'
    BY <2>1, HoldRun, HoldLoop, HoldQueue DEF WorkerStep
  <2> QED BY <2>1, HoldOthers, NextByParts
<1>3. HoldInv => RunningHasJob
  BY DEF HoldInv
<1> QED BY <1>1, <1>2, <1>3, PTL DEF Spec

-----------------------------------------------------------------------------
(* The row of the run, with nobody else who writes it.                     *)

\* What the worker is about to write is what the row says, or a checkpoint.
RowKept(m) ==
    /\ m.pc = "write" => m.row = run
    /\ m.pc \in {"read", "write"} =>
          /\ m.update.after \notin {"read", "write"}
          /\ m.update.save => m.update.after = "decide"

RowInv == TypeOK /\ \A w \in Worker : RowKept(worker[w])

LEMMA RowFacts ==
    ASSUME RowInv
    PROVE  /\ LocalTypes /\ phase \in Phase /\ run.seq \in Nat
           /\ run \in [status : Status, seq : Nat, outputs : SUBSET Phase]
           /\ \A w \in Worker : worker[w] \in WorkerState /\ RowKept(worker[w])
<1>1. phase \in Phase
  BY DEF RowInv, TypeOK, Cycle!TypeOK, Cycle!Phase, Phase
<1> QED BY <1>1 DEF RowInv, TypeOK, LocalTypes, Run

\* Only updates look at the row; the other steps of a worker put none, or a
\* checkpoint.
LEMMA RowUntouched ==
    ASSUME RowInv, NEW w \in Worker, WorkerStep(w), ~UpdateRead(w), ~UpdateWrite(w)
    PROVE  UNCHANGED run /\ \E n : Become(w, n) /\ RowKept(n)
<1> DEFINE m == worker[w]
<1> DEFINE Goal == \E n : Become(w, n) /\ RowKept(n)
<1>0. m \in WorkerState
  BY RowFacts
<1>1. UNCHANGED run
  BY DEF WorkerStep, Touch, Take, FailEarly, Begin, Hydrate, GetCycle, TimesOut, Commit,
         ExecutePhase, EndLoop, Stay, Pause, Move, Moved, ReportFailure, Succeed, Ack, Nack, Crash
<1>2. ASSUME NEW n, Become(w, n), n.pc \notin {"read", "write"} PROVE Goal
  BY <1>2 DEF RowKept
<1>3. ASSUME NEW pc, Go(w, pc), pc \notin {"read", "write"} PROVE Goal
  <2>1. PICK n : n = [m EXCEPT !.pc = pc]
    OBVIOUS
  <2>2. Become(w, n) /\ n.pc = pc
    BY <1>0, <1>3, <2>1, GoState DEF Go
  <2> QED BY <1>2, <1>3, <2>2
<1>4. ASSUME NEW status, NEW after, Put(w, status, after), after \notin {"read", "write"} PROVE Goal
  <2>1. PICK up : up = [status |-> status, save |-> FALSE, seq |-> 0, after |-> after]
    OBVIOUS
  <2>2. PICK n : n = [m EXCEPT !.pc = "read", !.update = up]
    OBVIOUS
  <2>3. Become(w, n)
    BY <1>4, <2>1, <2>2 DEF Put
  <2>4. n.pc = "read" /\ n.update = up
    BY <1>0, <2>2 DEF WorkerState
  <2>5. up.after = after /\ up.save = FALSE
    BY <2>1
  <2>6. RowKept(n)
    BY <1>4, <2>4, <2>5 DEF RowKept
  <2> QED BY <2>3, <2>6
<1>5. ASSUME Become(w, Off) PROVE Goal
  BY <1>2, <1>5 DEF Off
<1>6. CASE Touch(w)
  <2>1. PICK after : after = m.pc
    OBVIOUS
  <2>2. Put(w, "same", after) /\ after \notin {"read", "write"}
    BY <1>6, <2>1 DEF Touch
  <2> QED BY <1>1, <1>4, <2>2
<1>7. CASE \E j \in Job : Take(w, j)
  <2>1. PICK j \in Job : Take(w, j)
    BY <1>7
  <2>2. PICK n : n = [Off EXCEPT !.pc = "load", !.job = j]
    OBVIOUS
  <2>3. Become(w, n) /\ n.pc = "load"
    BY <2>1, <2>2, OffState DEF Take
  <2> QED BY <1>1, <1>2, <2>3
<1>8. CASE FailEarly(w) \/ TimesOut(w) \/ Move(w) \/ Succeed(w)
  BY <1>1, <1>3, <1>8 DEF FailEarly, TimesOut, Move, Succeed
<1>9. CASE Begin(w)
  BY <1>1, <1>3, <1>4, <1>9 DEF Begin
<1>10. CASE Hydrate(w)
  <2>1. PICK n : n = [m EXCEPT !.pc = "loop", !.mem = run.outputs]
    OBVIOUS
  <2>2. Become(w, n) /\ n.pc = "loop"
    BY <1>0, <1>10, <2>1 DEF Hydrate, WorkerState
  <2> QED BY <1>1, <1>2, <2>2
<1>11. CASE GetCycle(w)
  <2>1. CASE Put(w, "FAILED", "failed")
    BY <1>1, <1>4, <2>1
  <2>2. ASSUME NEW at, Become(w, [m EXCEPT !.pc = "execute", !.at = at]) PROVE Goal
    <3>1. PICK n : n = [m EXCEPT !.pc = "execute", !.at = at]
      OBVIOUS
    <3>2. Become(w, n) /\ n.pc = "execute"
      BY <1>0, <2>2, <3>1 DEF WorkerState
    <3> QED BY <1>2, <3>2
  <2> QED BY <1>1, <1>11, <2>1, <2>2 DEF GetCycle
<1>12. CASE Commit(w)
  <2>1. PICK up : up = [status |-> "same", save |-> TRUE, seq |-> run.seq + 1, after |-> "decide"]
    OBVIOUS
  <2>2. PICK n : n = [m EXCEPT !.pc = "read", !.update = up]
    OBVIOUS
  <2>3. Become(w, n)
    BY <1>12, <2>1, <2>2 DEF Commit
  <2>4. n.pc = "read" /\ n.update = up
    BY <1>0, <2>2 DEF WorkerState
  <2>5. up.after = "decide" /\ up.seq = run.seq + 1
    BY <2>1
  <2>6. RowKept(n)
    BY <2>4, <2>5 DEF RowKept
  <2> QED BY <1>1, <2>3, <2>6
<1>13. ASSUME NEW result \in Result, NEW next \in Phase, ExecutePhase(w, result, next) PROVE Goal
  <2>1. ASSUME NEW at, NEW mem, Become(w, [m EXCEPT !.pc = "commit", !.at = at, !.mem = mem])
        PROVE  Goal
    <3>1. PICK n : n = [m EXCEPT !.pc = "commit", !.at = at, !.mem = mem]
      OBVIOUS
    <3>2. Become(w, n) /\ n.pc = "commit"
      BY <1>0, <2>1, <3>1 DEF WorkerState
    <3> QED BY <1>2, <3>2
  <2> QED BY <1>13, <2>1 DEF ExecutePhase
<1>14. CASE EndLoop(w) \/ Pause(w)
  BY <1>1, <1>4, <1>14 DEF EndLoop, Pause
<1>15. CASE Stay(w)
  <2>1. PICK n : n = [m EXCEPT !.pc = "loop", !.turn = @ + 1]
    OBVIOUS
  <2>2. Become(w, n) /\ n.pc = "loop"
    BY <1>0, <1>15, <2>1 DEF Stay, WorkerState
  <2> QED BY <1>1, <1>2, <2>2
<1>16. CASE Moved(w)
  <2>1. CASE Put(w, "PENDING", "succeeded")
    BY <1>1, <1>4, <2>1
  <2>2. CASE Become(w, [m EXCEPT !.pc = "read", !.turn = @ + 1,
                                 !.update = [NoUpdate EXCEPT !.after = "loop"]])
    <3>1. PICK up : up = [NoUpdate EXCEPT !.after = "loop"]
      OBVIOUS
    <3>2. PICK n : n = [m EXCEPT !.pc = "read", !.turn = @ + 1, !.update = up]
      OBVIOUS
    <3>3. Become(w, n) /\ n.pc = "read" /\ n.update = up /\ up.after = "loop" /\ up.save = FALSE
      BY <1>0, <2>2, <3>1, <3>2 DEF WorkerState, NoUpdate
    <3>4. RowKept(n)
      BY <3>3 DEF RowKept
    <3> QED BY <1>1, <3>3, <3>4
  <2> QED BY <1>16, <2>1, <2>2 DEF Moved
<1>17. ASSUME NEW silent \in BOOLEAN, ReportFailure(w, silent) PROVE Goal
  <2>1. PICK after : /\ after = (IF silent THEN "succeeded" ELSE "nack")
                     /\ Put(w, "FAILED", after)
    BY <1>17 DEF ReportFailure
  <2> QED BY <1>4, <2>1
<1>18. ASSUME NEW dead \in BOOLEAN, Nack(w, dead) PROVE Goal
  BY <1>3, <1>5, <1>18 DEF Nack
<1>19. CASE Ack(w) \/ Crash(w)
  BY <1>1, <1>5, <1>19 DEF Ack, Crash
<1> HIDE DEF Goal
<1>20. Goal
  BY <1>1, <1>6, <1>7, <1>8, <1>9, <1>10, <1>11, <1>12, <1>13, <1>14, <1>15, <1>16, <1>17, <1>18,
     <1>19
  DEF WorkerStep, Goal
<1> QED BY <1>1, <1>20 DEF Goal

LEMMA RowRead ==
    ASSUME RowInv, NEW w \in Worker, UpdateRead(w)
    PROVE  UNCHANGED run /\ \E n : Become(w, n) /\ RowKept(n)
<1>1. PICK n : n = [worker[w] EXCEPT !.pc = "write", !.row = run]
  OBVIOUS
<1>2. /\ Become(w, n) /\ worker[w].pc = "read" /\ UNCHANGED run
      /\ n.row = run /\ n.update = worker[w].update
  BY <1>1, RowFacts DEF UpdateRead, WorkerState
<1>3. RowKept(n)
  BY <1>2, RowFacts DEF RowKept
<1> QED BY <1>2, <1>3

LEMMA RowWrite ==
    ASSUME RowInv, NEW w \in Worker, UpdateWrite(w)
    PROVE  \E n : Become(w, n) /\ n.pc \notin {"read", "write"}
<1> DEFINE m == worker[w]
<1>0. m \in WorkerState /\ RowKept(m)
  BY RowFacts
<1>1. PICK n : n = [m EXCEPT !.pc = m.update.after, !.row = NewRun, !.update = NoUpdate]
  OBVIOUS
<1>2. Become(w, n) /\ m.pc = "write" /\ n.pc = m.update.after
  BY <1>0, <1>1 DEF UpdateWrite, WorkerState
<1> QED BY <1>0, <1>2 DEF RowKept

LEMMA RowStep ==
    ASSUME OneWorker, Canceller = {}, RowInv, [Next]_vars
    PROVE  (\A w \in Worker : RowKept(worker[w]))'
<1>0. LocalTypes
  BY RowFacts
<1>1. ASSUME NEW w \in Worker, WorkerStep(w)
      PROVE  (\A v \in Worker : RowKept(worker[v]))'
  <2>1. CASE UpdateWrite(w)
    <3>1. PICK n : Become(w, n) /\ n.pc \notin {"read", "write"}
      BY <2>1, RowWrite
    <3>2. \A v \in Worker : worker'[v] = n
      BY <1>0, <3>1, SetsWorker
    <3> QED BY <3>1, <3>2 DEF RowKept
  <2>2. CASE ~UpdateWrite(w)
    <3>1. PICK n : Become(w, n) /\ RowKept(n) /\ UNCHANGED run
      BY <1>1, <2>2, RowRead, RowUntouched
    <3>2. \A v \in Worker : worker'[v] = n
      BY <1>0, <3>1, SetsWorker
    <3> QED BY <1>0, <3>1, <3>2 DEF RowKept
  <2> QED BY <2>1, <2>2
<1>2. CASE Others
  <2>1. UNCHANGED <<worker, run>>
    BY <1>2
    DEF Others, Enqueue, InTransition, ApproveStep, Approve, ApproveLook, ApproveMove,
        ApproveEnqueue, Drop, vars
  <2> QED BY <1>0, <2>1, RowFacts DEF RowKept
<1> QED BY <1>1, <1>2, NextByParts

-----------------------------------------------------------------------------
(* Each phase has the outputs that it is built on.                         *)

NoUsers == User = {}

InLoop == {"loop", "execute", "commit", "decide", "moving"}

\* In the loop the worker has what the phase of the cycle is built on, and
\* before it asks for the next phase the row has what that one is built on.
LoopOf(m) ==
    /\ Toward(m) \in InLoop => Feeds(phase) \subseteq m.mem
    /\ Toward(m) \in {"execute", "commit", "decide"} => m.at.phase = phase
    /\ Toward(m) \in {"commit", "decide"} /\ m.at.result \in {"advance", "clarify"} =>
          Feeds(m.at.next) \subseteq m.mem
    /\ Toward(m) = "decide" /\ (m.pc = "decide" \/ ~m.update.save) => run.outputs = m.mem

\* A transition of the cycle under way leads where the outputs are saved for.
CallOf(w) ==
    call[w].pc # "idle" =>
        /\ worker[w].pc = "moving" /\ call[w].pc \in {"write", "update"} /\ call[w].last
        /\ Feeds(call[w].to) \subseteq worker[w].mem
        /\ Feeds(call[w].to) \subseteq run.outputs

Resume ==
    /\ Feeds(phase) \subseteq run.outputs
    /\ \A w \in Worker : LoopOf(worker[w]) /\ CallOf(w)

ResumeInv == RowInv /\ Resume

\* What the phases are built on.
LEMMA FeedsFacts ==
    /\ \A p \in Phase : p \notin Feeds(p)
    /\ Feeds("planning") = {} /\ Feeds("clarifying") = {}
<1>1. ASSUME NEW p \in Phase PROVE p \notin Feeds(p)
  BY DEF Phase, Feeds
<1>2. Feeds("planning") = {} /\ Feeds("clarifying") = {}
  BY DEF Feeds
<1> QED BY <1>1, <1>2

\* A phase that advances leads to one that is built on it and on what it is
\* built on itself.
LEMMA OutcomeFacts ==
    ASSUME NEW p \in Phase, NEW result, NEW next, <<result, next>> \in Outcome(p)
    PROVE  /\ result = "advance" => Feeds(next) \subseteq Feeds(p) \cup {p}
           /\ result = "clarify" => next = "clarifying"
<1>1. CASE p = "completing" \/ p \in Terminal
  BY <1>1 DEF Outcome, Handled, Completing, Terminal, Aborted
<1>2. CASE p \in {"planning", "clarifying", "architecting", "executing"}
  BY <1>2 DEF Outcome, Handled, Feeds, Planning, Clarifying, Architecting, Executing
<1>3. CASE p \in {"testing", "fixing", "verifying"}
  BY <1>3 DEF Outcome, Handled, Feeds, Testing, Fixing, Verifying
<1> QED BY <1>1, <1>2, <1>3 DEF Phase, Terminal, Aborted

LEMMA ResumeFacts ==
    ASSUME ResumeInv
    PROVE  /\ LocalTypes /\ phase \in Phase /\ Feeds(phase) \subseteq run.outputs
           /\ call \in [Worker \cup User -> Cycle!Call]
           /\ \A w \in Worker : /\ worker[w] \in WorkerState /\ RowKept(worker[w])
                                /\ LoopOf(worker[w]) /\ CallOf(w)
                                /\ worker[w].pc # "moving" => call[w].pc = "idle"
BY RowFacts DEF ResumeInv, RowInv, TypeOK, Resume, CallOf, Cycle!TypeOK

\* A step of the worker that changes neither the run nor the phase.
LEMMA LoopQuiet ==
    ASSUME ResumeInv, OneWorker, NEW w \in Worker, NEW n, Become(w, n), LoopOf(n),
           call'[w].pc = "idle", UNCHANGED <<phase, run>>
    PROVE  Resume'
<1>1. (\A v \in Worker : worker'[v] = n) /\ \A v \in Worker : v = w
  BY ResumeFacts, SetsWorker DEF OneWorker
<1>2. Feeds(phase)' \subseteq run'.outputs
  BY ResumeFacts
<1>3. \A v \in Worker : LoopOf(worker[v])'
  BY <1>1 DEF LoopOf, Toward
<1>4. \A v \in Worker : CallOf(v)'
  BY <1>1 DEF CallOf
<1> QED BY <1>2, <1>3, <1>4 DEF Resume

\* The worker is, or goes on, outside of the loop.
LEMMA LoopAside ==
    ASSUME ResumeInv, OneWorker, NEW w \in Worker, NEW n, Become(w, n), Toward(n) \notin InLoop,
           call'[w].pc = "idle", UNCHANGED <<phase, run>>
    PROVE  Resume'
<1>1. LoopOf(n)
  BY DEF LoopOf, InLoop
<1> QED BY <1>1, LoopQuiet

LEMMA AsideGo ==
    ASSUME ResumeInv, OneWorker, NEW w \in Worker, NEW pc, Go(w, pc),
           pc \in {"nack", "failed", "ack"}, call'[w].pc = "idle", UNCHANGED <<phase, run>>
    PROVE  Resume'
<1>1. PICK n : n = [worker[w] EXCEPT !.pc = pc]
  OBVIOUS
<1>2. Become(w, n) /\ n.pc = pc
  BY <1>1, GoState, ResumeFacts DEF Go
<1>3. Toward(n) \notin InLoop
  BY <1>2 DEF Toward, InLoop
<1> QED BY <1>2, <1>3, LoopAside

LEMMA AsidePut ==
    ASSUME ResumeInv, OneWorker, NEW w \in Worker, NEW status, NEW after, Put(w, status, after),
           after \in {"hydrate", "failed", "nack", "succeeded"}, call'[w].pc = "idle",
           UNCHANGED <<phase, run>>
    PROVE  Resume'
<1>1. PICK up : up = [status |-> status, save |-> FALSE, seq |-> 0, after |-> after]
  OBVIOUS
<1>2. PICK n : n = [worker[w] EXCEPT !.pc = "read", !.update = up]
  OBVIOUS
<1>3. worker[w] \in WorkerState /\ up.after = after
  BY <1>1, ResumeFacts
<1>4. Become(w, n)
  BY <1>1, <1>2 DEF Put
<1>5. n.pc = "read" /\ n.update = up
  BY <1>2, <1>3 DEF WorkerState
<1>6. Toward(n) \notin InLoop
  BY <1>3, <1>5 DEF Toward, InLoop
<1> QED BY <1>4, <1>6, LoopAside

\* The steps outside of the loop, and those that leave it.
LEMMA ResumeAside ==
    ASSUME ResumeInv, OneWorker, NEW w \in Worker,
           \/ \E j \in Job : Take(w, j)
           \/ FailEarly(w) \/ Begin(w) \/ TimesOut(w) \/ EndLoop(w) \/ Pause(w)
           \/ \E silent \in BOOLEAN : ReportFailure(w, silent)
           \/ Succeed(w) \/ Ack(w) \/ Crash(w)
           \/ \E dead \in BOOLEAN : Nack(w, dead)
    PROVE  Resume'
<1>0. /\ worker[w] \in WorkerState
      /\ worker[w].pc # "moving" => call[w].pc = "idle"
      /\ call \in [Worker \cup User -> Cycle!Call]
  BY ResumeFacts
<1>1. ASSUME Become(w, Off), call'[w].pc = "idle", UNCHANGED <<phase, run>> PROVE Resume'
  <2>1. Toward(Off) \notin InLoop
    BY DEF Toward, Off, InLoop
  <2> QED BY <1>1, <2>1, LoopAside
<1>2. CASE Crash(w)
  <2>1. call'[w].pc = "idle" /\ UNCHANGED phase
    BY <1>0, <1>2 DEF Crash, Abandon, Cycle!Crash, Cycle!Idle, Cycle!cycle, cycle
  <2> QED BY <1>1, <1>2, <2>1 DEF Crash
<1>3. CASE ~Crash(w)
  <2>0. UNCHANGED <<cycle, run>> /\ worker[w].pc # "moving"
    BY <1>3
    DEF Take, FailEarly, Begin, TimesOut, EndLoop, Pause, ReportFailure, Succeed, Ack, Nack
  <2>1. call'[w].pc = "idle" /\ UNCHANGED <<phase, run>>
    BY <1>0, <2>0 DEF cycle
  <2>2. ASSUME NEW j \in Job, Take(w, j) PROVE Resume'
    <3>1. PICK n : n = [Off EXCEPT !.pc = "load", !.job = j]
      OBVIOUS
    <3>2. Become(w, n) /\ n.pc = "load"
      BY <2>2, <3>1, OffState DEF Take
    <3>3. Toward(n) \notin InLoop
      BY <3>2 DEF Toward, InLoop
    <3> QED BY <2>1, <3>2, <3>3, LoopAside
  <2>3. CASE FailEarly(w) \/ TimesOut(w) \/ Succeed(w)
    BY <2>1, <2>3, AsideGo DEF FailEarly, TimesOut, Succeed
  <2>4. CASE Begin(w)
    BY <2>1, <2>4, AsideGo, AsidePut DEF Begin
  <2>5. CASE EndLoop(w) \/ Pause(w)
    BY <2>1, <2>5, AsidePut DEF EndLoop, Pause
  <2>6. ASSUME NEW silent \in BOOLEAN, ReportFailure(w, silent) PROVE Resume'
    <3>1. PICK after : /\ after = (IF silent THEN "succeeded" ELSE "nack")
                       /\ Put(w, "FAILED", after)
      BY <2>6 DEF ReportFailure
    <3> QED BY <2>1, <3>1, AsidePut
  <2>7. CASE Ack(w)
    BY <1>1, <2>1, <2>7 DEF Ack
  <2>8. ASSUME NEW dead \in BOOLEAN, Nack(w, dead) PROVE Resume'
    BY <1>1, <2>1, <2>8, AsideGo DEF Nack
  <2> QED BY <1>3, <2>2, <2>3, <2>4, <2>5, <2>6, <2>7, <2>8
<1> QED BY <1>2, <1>3

\* The updates of the run in the loop.
LEMMA ResumeUpdates ==
    ASSUME ResumeInv, OneWorker, NEW w \in Worker,
           UpdateRead(w) \/ UpdateWrite(w) \/ Touch(w) \/ Commit(w)
    PROVE  Resume'
<1> DEFINE m == worker[w]
<1>0. /\ m \in WorkerState /\ RowKept(m) /\ LoopOf(m) /\ m.pc # "moving" /\ call[w].pc = "idle"
      /\ UNCHANGED <<phase, call>>
  BY ResumeFacts DEF UpdateRead, UpdateWrite, Touch, Commit, cycle
<1>1. ASSUME UpdateRead(w) PROVE Resume'
  <2>1. PICK n : n = [m EXCEPT !.pc = "write", !.row = run]
    OBVIOUS
  <2>2. /\ Become(w, n) /\ m.pc = "read" /\ UNCHANGED run
        /\ n.pc = "write" /\ n.update = m.update /\ n.mem = m.mem /\ n.at = m.at
    BY <1>0, <1>1, <2>1 DEF UpdateRead, WorkerState
  <2>3. LoopOf(n)
    BY <1>0, <2>2 DEF LoopOf, Toward
  <2> QED BY <1>0, <2>2, <2>3, LoopQuiet
<1>2. ASSUME UpdateWrite(w) PROVE Resume'
  <2>1. PICK n : n = [m EXCEPT !.pc = m.update.after, !.row = NewRun, !.update = NoUpdate]
    OBVIOUS
  <2>2. /\ Become(w, n) /\ m.pc = "write" /\ n.pc = m.update.after
        /\ n.mem = m.mem /\ n.at = m.at
    BY <1>0, <1>2, <2>1 DEF UpdateWrite, WorkerState
  <2>3. run'.outputs = IF m.update.save THEN m.mem ELSE m.row.outputs
    BY <1>2 DEF UpdateWrite
  <2>4. /\ m.row = run /\ m.update.after \notin {"read", "write"}
        /\ m.update.save => m.update.after = "decide"
    BY <1>0, <2>2 DEF RowKept
  <2>5. Toward(m) = m.update.after /\ Toward(n) = m.update.after
    BY <2>2, <2>4 DEF Toward
  <2>6. (\A v \in Worker : worker'[v] = n) /\ \A v \in Worker : v = w
    BY <2>2, ResumeFacts, SetsWorker DEF OneWorker
  <2>7. Feeds(phase) \subseteq run'.outputs
    BY <1>0, <2>3, <2>4, <2>5, ResumeFacts DEF LoopOf, InLoop
  <2>8. run'.outputs = m.mem \/ Toward(m) # "decide"
    BY <1>0, <2>2, <2>3, <2>4 DEF LoopOf
  <2>9. \A v \in Worker : LoopOf(worker[v])'
    <3> SUFFICES ASSUME NEW v \in Worker PROVE LoopOf(worker[v])'
      OBVIOUS
    <3>1. worker'[v] = n /\ (Toward(worker[v]))' = Toward(n)
      BY <2>6 DEF Toward
    <3> QED BY <1>0, <2>2, <2>5, <2>8, <3>1 DEF LoopOf
  <2> QED BY <1>0, <2>6, <2>7, <2>9 DEF Resume, CallOf
<1>3. ASSUME NEW up, Become(w, [m EXCEPT !.pc = "read", !.update = up]), UNCHANGED run,
             \/ up.after = m.pc /\ ~up.save
             \/ up.after = "decide" /\ up.save /\ m.pc = "commit",
             m.pc \notin {"read", "write"}
      PROVE  Resume'
  <2>1. PICK n : n = [m EXCEPT !.pc = "read", !.update = up]
    OBVIOUS
  <2>2. /\ Become(w, n) /\ n.pc = "read" /\ n.update = up /\ n.mem = m.mem /\ n.at = m.at
    BY <1>0, <1>3, <2>1 DEF WorkerState
  <2>3. Toward(n) = up.after /\ Toward(m) = m.pc
    BY <1>3, <2>2 DEF Toward
  <2>4. LoopOf(n)
    BY <1>0, <1>3, <2>2, <2>3 DEF LoopOf, InLoop
  <2> QED BY <1>0, <1>3, <2>2, <2>4, LoopQuiet
<1>4. ASSUME Touch(w) PROVE Resume'
  <2>1. PICK up : up = [status |-> "same", save |-> FALSE, seq |-> 0, after |-> m.pc]
    OBVIOUS
  <2>2. up.after = m.pc /\ ~up.save /\ m.pc \notin {"read", "write"} /\ UNCHANGED run
    BY <1>4, <2>1 DEF Touch
  <2>3. Become(w, [m EXCEPT !.pc = "read", !.update = up])
    BY <1>4, <2>1 DEF Touch, Put
  <2> QED BY <1>3, <2>2, <2>3
<1>5. ASSUME Commit(w) PROVE Resume'
  <2>1. PICK up : up = [status |-> "same", save |-> TRUE, seq |-> run.seq + 1, after |-> "decide"]
    OBVIOUS
  <2>2. up.after = "decide" /\ up.save /\ m.pc = "commit" /\ UNCHANGED run
    BY <1>5, <2>1 DEF Commit
  <2>3. Become(w, [m EXCEPT !.pc = "read", !.update = up])
    BY <1>5, <2>1 DEF Commit
  <2> QED BY <1>3, <2>2, <2>3
<1> QED BY <1>1, <1>2, <1>4, <1>5

\* The iterations of the loop.
LEMMA ResumeLoop ==
    ASSUME ResumeInv, OneWorker, NEW w \in Worker,
           \/ Hydrate(w) \/ GetCycle(w) \/ Stay(w)
           \/ \E result \in Result, next \in Phase : ExecutePhase(w, result, next)
    PROVE  Resume'
<1> DEFINE m == worker[w]
<1>0. /\ m \in WorkerState /\ LoopOf(m) /\ call'[w].pc = "idle" /\ UNCHANGED <<phase, run>>
      /\ m.pc # "moving" /\ phase \in Phase
  BY ResumeFacts DEF Hydrate, GetCycle, Stay, ExecutePhase, cycle
<1>1. ASSUME Hydrate(w) PROVE Resume'
  <2>1. PICK n : n = [m EXCEPT !.pc = "loop", !.mem = run.outputs]
    OBVIOUS
  <2>2. Become(w, n) /\ n.pc = "loop" /\ n.mem = run.outputs
    BY <1>0, <1>1, <2>1 DEF Hydrate, WorkerState
  <2>3. LoopOf(n)
    BY <2>2, ResumeFacts DEF LoopOf, Toward
  <2> QED BY <1>0, <2>2, <2>3, LoopQuiet
<1>2. ASSUME GetCycle(w) PROVE Resume'
  <2>1. CASE Put(w, "FAILED", "failed")
    BY <1>0, <2>1, AsidePut
  <2>2. ASSUME NEW at, at.phase = phase, Become(w, [m EXCEPT !.pc = "execute", !.at = at])
        PROVE  Resume'
    <3>1. PICK n : n = [m EXCEPT !.pc = "execute", !.at = at]
      OBVIOUS
    <3>2. Become(w, n) /\ n.pc = "execute" /\ n.at = at /\ n.mem = m.mem /\ m.pc = "loop"
      BY <1>0, <1>2, <2>2, <3>1 DEF GetCycle, WorkerState
    <3>3. LoopOf(n)
      BY <1>0, <2>2, <3>2 DEF LoopOf, Toward, InLoop
    <3> QED BY <1>0, <3>2, <3>3, LoopQuiet
  <2>3. [phase |-> phase, result |-> "stay", next |-> phase].phase = phase
    OBVIOUS
  <2> QED BY <1>2, <2>1, <2>2, <2>3 DEF GetCycle
<1>3. ASSUME Stay(w) PROVE Resume'
  <2>1. PICK n : n = [m EXCEPT !.pc = "loop", !.turn = @ + 1]
    OBVIOUS
  <2>2. Become(w, n) /\ n.pc = "loop" /\ n.mem = m.mem /\ m.pc = "decide"
    BY <1>0, <1>3, <2>1 DEF Stay, WorkerState
  <2>3. LoopOf(n)
    BY <1>0, <2>2 DEF LoopOf, Toward, InLoop
  <2> QED BY <1>0, <2>2, <2>3, LoopQuiet
<1>4. ASSUME NEW result \in Result, NEW next \in Phase, ExecutePhase(w, result, next) PROVE Resume'
  <2>1. PICK at : at = [phase |-> m.at.phase, result |-> result, next |-> next]
    OBVIOUS
  <2>2. PICK mem : mem = IF result \in {"advance", "stay", "finish"}
                         THEN m.mem \cup {m.at.phase} ELSE m.mem \ {m.at.phase}
    OBVIOUS
  <2>3. PICK n : n = [m EXCEPT !.pc = "commit", !.at = at, !.mem = mem]
    OBVIOUS
  <2>4. Become(w, n) /\ m.pc = "execute" /\ <<result, next>> \in Outcome(m.at.phase)
    BY <1>4, <2>1, <2>2, <2>3 DEF ExecutePhase
  <2>5. n.pc = "commit" /\ n.at = at /\ n.mem = mem
    BY <1>0, <2>3 DEF WorkerState
  <2>6. at.phase = m.at.phase /\ at.result = result /\ at.next = next
    BY <2>1
  <2>7. m.at.phase = phase /\ Feeds(phase) \subseteq m.mem
    BY <1>0, <2>4 DEF LoopOf, Toward, InLoop
  <2>8. Feeds(phase) \subseteq mem
    BY <1>0, <2>2, <2>7, FeedsFacts
  <2>9. result \in {"advance", "clarify"} => Feeds(next) \subseteq mem
    BY <1>0, <2>2, <2>4, <2>7, <2>8, FeedsFacts, OutcomeFacts
  <2>10. LoopOf(n)
    BY <2>5, <2>6, <2>7, <2>8, <2>9 DEF LoopOf, Toward
  <2> QED BY <1>0, <2>4, <2>10, LoopQuiet
<1> QED BY <1>1, <1>2, <1>3, <1>4

\* The worker calls transition_phase, is inside it, and returns from it.
LEMMA ResumeMove ==
    ASSUME ResumeInv, OneWorker, NEW w \in Worker, Move(w) \/ Moved(w) \/ InTransition(w)
    PROVE  Resume'
<1> DEFINE m == worker[w]
<1>0. /\ m \in WorkerState /\ LoopOf(m) /\ CallOf(w) /\ UNCHANGED run
      /\ m.pc # "moving" => call[w].pc = "idle"
      /\ call \in [Worker \cup User -> Cycle!Call] /\ w \in Worker \cup User
      /\ Feeds(phase) \subseteq run.outputs /\ phase \in Phase /\ \A v \in Worker : v = w
  BY ResumeFacts DEF Move, Moved, InTransition, OneWorker
<1>1. ASSUME Move(w) PROVE Resume'
  <2>1. PICK n : n = [m EXCEPT !.pc = "moving"]
    OBVIOUS
  <2>2. /\ Become(w, n) /\ n.pc = "moving" /\ n.mem = m.mem
        /\ m.pc = "decide" /\ m.at.result \in {"advance", "clarify"}
    BY <1>0, <1>1, <2>1 DEF Move, Go, WorkerState
  <2>3. Feeds(phase) \subseteq m.mem /\ Feeds(m.at.next) \subseteq m.mem /\ run.outputs = m.mem
    BY <1>0, <2>2 DEF LoopOf, Toward, InLoop
  <2>4. LoopOf(n)
    BY <2>2, <2>3 DEF LoopOf, Toward
  <2>5. CASE UNCHANGED cycle
    <3>1. call'[w].pc = "idle" /\ UNCHANGED phase
      BY <1>0, <2>2, <2>5 DEF cycle
    <3> QED BY <1>0, <2>2, <2>4, <3>1, LoopQuiet
  <2>6. CASE Cycle!TransitionPhase(w, m.at.next, TRUE)
    <3>1. UNCHANGED phase
      BY <2>6 DEF Cycle!TransitionPhase, Cycle!cycle
    <3>2. call'[w].pc = "write" /\ call'[w].to = m.at.next /\ call'[w].last = TRUE
      BY <1>0, <2>6 DEF Cycle!TransitionPhase, Cycle!ReadFor
    <3>3. \A v \in Worker : worker'[v] = n
      BY <2>2, ResumeFacts, SetsWorker
    <3>4. \A v \in Worker : CallOf(v)'
      BY <1>0, <2>2, <2>3, <3>2, <3>3 DEF CallOf
    <3>5. \A v \in Worker : LoopOf(worker[v])'
      BY <1>0, <2>4, <3>1, <3>3 DEF LoopOf, Toward
    <3> QED BY <1>0, <3>1, <3>4, <3>5 DEF Resume
  <2> QED BY <1>1, <2>5, <2>6 DEF Move, RequestPhase
<1>2. ASSUME Moved(w) PROVE Resume'
  <2>1. /\ m.pc = "moving" /\ call'[w].pc = "idle" /\ UNCHANGED phase
    BY <1>2 DEF Moved, cycle
  <2>2. CASE Put(w, "PENDING", "succeeded")
    BY <1>0, <2>1, <2>2, AsidePut
  <2>3. CASE Become(w, [m EXCEPT !.pc = "read", !.turn = @ + 1,
                                 !.update = [NoUpdate EXCEPT !.after = "loop"]])
    <3>1. PICK up : up = [NoUpdate EXCEPT !.after = "loop"]
      OBVIOUS
    <3>2. PICK n : n = [m EXCEPT !.pc = "read", !.turn = @ + 1, !.update = up]
      OBVIOUS
    <3>3. Become(w, n) /\ n.pc = "read" /\ n.update = up /\ up.after = "loop" /\ n.mem = m.mem
      BY <1>0, <2>3, <3>1, <3>2 DEF WorkerState, NoUpdate
    <3>4. LoopOf(n)
      BY <1>0, <2>1, <3>3 DEF LoopOf, Toward, InLoop
    <3> QED BY <1>0, <2>1, <3>3, <3>4, LoopQuiet
  <2> QED BY <1>2, <2>2, <2>3 DEF Moved
<1>3. ASSUME InTransition(w) PROVE Resume'
  <2>0. UNCHANGED worker /\ (Cycle!Record(w) \/ Cycle!Update(w))
    BY <1>3 DEF InTransition
  <2>1. call[w].pc \in {"write", "update"}
    BY <2>0 DEF Cycle!Record, Cycle!Update
  <2>2. /\ m.pc = "moving" /\ call[w].last /\ Feeds(call[w].to) \subseteq m.mem
        /\ Feeds(call[w].to) \subseteq run.outputs
    BY <1>0, <2>1 DEF CallOf
  <2>3. CASE Cycle!Record(w)
    <3>1. UNCHANGED phase /\ call' = [call EXCEPT ![w].pc = "update"]
      BY <2>3 DEF Cycle!Record
    <3>2. call[w] \in Cycle!Call
      BY <1>0
    <3>3. call'[w].pc = "update" /\ call'[w].to = call[w].to /\ call'[w].last = call[w].last
      BY <1>0, <3>1, <3>2 DEF Cycle!Call
    <3>4. \A v \in Worker : CallOf(v)'
      BY <1>0, <2>0, <2>2, <3>3 DEF CallOf
    <3>5. \A v \in Worker : LoopOf(worker[v])'
      BY <1>0, <2>0, <3>1 DEF LoopOf, Toward
    <3> QED BY <1>0, <3>1, <3>4, <3>5 DEF Resume
  <2>4. CASE Cycle!Update(w)
    <3>1. phase' = call[w].to /\ call'[w].pc = "idle"
      BY <1>0, <2>2, <2>4 DEF Cycle!Update, Cycle!Rest, Cycle!Idle
    <3>2. \A v \in Worker : CallOf(v)'
      BY <1>0, <3>1 DEF CallOf
    <3>3. LoopOf(m)'
      BY <1>0, <2>0, <2>2, <3>1 DEF LoopOf, Toward
    <3> QED BY <1>0, <2>2, <3>1, <3>2, <3>3 DEF Resume
  <2> QED BY <2>0, <2>3, <2>4
<1> QED BY <1>1, <1>2, <1>3

LEMMA ResumeStep ==
    ASSUME OneWorker, NoUsers, ResumeInv, [Next]_vars
    PROVE  Resume'
<1>1. ASSUME NEW w \in Worker, WorkerStep(w) PROVE Resume'
  BY <1>1, ResumeAside, ResumeUpdates, ResumeLoop, ResumeMove DEF WorkerStep
<1>2. ASSUME NEW c \in Worker \cup User, InTransition(c) PROVE Resume'
  BY <1>2, ResumeMove DEF NoUsers
<1>3. CASE UNCHANGED vars \/ \E named \in BOOLEAN : Enqueue(named)
  <2>1. UNCHANGED <<phase, call, run, worker>>
    BY <1>3 DEF Enqueue, vars, cycle
  <2> QED BY <2>1 DEF ResumeInv, Resume, LoopOf, Toward, CallOf
<1> QED BY <1>1, <1>2, <1>3 DEF Next, NoUsers, User

\* One worker at a time and nobody who writes the row or moves the cycle:
\* whenever the worker dies, is timed out or gives the job back, the delivery
\* that takes over executes no phase without the outputs it is built on.
THEOREM TakeoverHasOutputs ==
    ASSUME OneWorker, NoUsers
    PROVE  Spec => []ResumesWithOutputs
<1>1. Init => ResumeInv
  <2> SUFFICES ASSUME Init PROVE ResumeInv
    OBVIOUS
  <2>1. phase = "planning" /\ \A w \in Worker : worker[w].pc = "idle" /\ call[w].pc = "idle"
    BY DEF Init, Off, Cycle!Init, Cycle!Idle
  <2>2. RowInv
    BY <2>1, TypeInit DEF RowInv, RowKept
  <2>3. \A w \in Worker : LoopOf(worker[w]) /\ CallOf(w)
    BY <2>1 DEF LoopOf, Toward, InLoop, CallOf
  <2> QED BY <2>1, <2>2, <2>3, FeedsFacts DEF ResumeInv, Resume
<1>2. ResumeInv /\ [Next]_vars => ResumeInv'
  BY RowStep, TypeStep, ResumeStep DEF ResumeInv, RowInv, NoUsers, User
<1>3. ResumeInv => ResumesWithOutputs
  BY DEF ResumeInv, Resume, LoopOf, Toward, InLoop, ResumesWithOutputs
<1> QED BY <1>1, <1>2, <1>3, PTL DEF Spec
=============================================================================
