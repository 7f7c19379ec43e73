----------------------------- MODULE Workspaces ------------------------------
(***************************************************************************)
(* The container workspaces of one tenant: the records in Redis, the       *)
(* containers, and                                                         *)
(*                                                                         *)
(*   execution_worker.py   workers that provision a workspace for the run  *)
(*       of their job, send heartbeats while they work, and clean up       *)
(*   breakeramp/orchestrator.py   what provisioning, cleaning up and       *)
(*       reaping do, one call of the store or of podman after the other    *)
(*   breakeramp/runtime/state.py   the store: every set and delete first   *)
(*       reads the old record, to know which index entries to remove       *)
(*   zombie_reaper.py   reapers that end workspaces without heartbeats     *)
(*                                                                         *)
(* Every call of Redis or podman is one step, and any other step may come  *)
(* between two of them. A tick of time is one heartbeat interval; a        *)
(* heartbeat, a record that a worker is saving, or the listing of a reaper *)
(* is never a tick late (the guard of Tick). The scope index is left out:  *)
(* the transactions of set and delete change it together with the record,  *)
(* so its size is the number of records. Redis that fails is not modelled. *)
(***************************************************************************)
EXTENDS Naturals, FiniteSets

CONSTANTS Run,            \* runs, each with at most one workspace
          Worker,         \* worker processes
          Reaper,         \* zombie reapers, one in every worker process
          NoRun,
          MaxConcurrent,  \* max_concurrent_workspaces of the tenant's plan
          MaxIdle,        \* max_idle_seconds, in heartbeat intervals
          MaxDeliveries,  \* bound: run -> deliveries of its job
          MaxFaults       \* bound: deaths, stops and failed removals

ASSUME WorkspacesAssumption ==
    /\ IsFiniteSet(Run)
    /\ IsFiniteSet(Worker)
    /\ NoRun \notin Run
    /\ MaxConcurrent \in Nat \ {0}
    /\ MaxIdle \in Nat \ {0}
    /\ MaxDeliveries \in [Run -> Nat]
    /\ MaxFaults \in Nat

VARIABLES
    \* the store: run -> its record, and the index of those that are RUNNING
    record, indexed,
    \* podman: the containers, and those that a removal has failed on
    container, stuck,
    \* workers: what they do next, for which run, with a workspace or not,
    \* the record in memory, and the status they read before they write it
    pc, run, info, mine, old,
    beat,         \* worker -> its heartbeat task
    beaten,       \* workers whose heartbeat is sent for this interval
    sweep,        \* reaper -> its sweep
    deliveries,   \* run -> how often its job was delivered
    faults        \* how often something has failed

store == <<record, indexed>>
podman == <<container, stuck>>
main == <<pc, run, info, mine, old>>
vars == <<store, podman, main, beat, beaten, sweep, deliveries, faults>>

\* Intervals since last_heartbeat; a record without one is as good as stale.
Stale == MaxIdle + 1
Age == 0..Stale

\* Statuses that are saved. A worker whose pc is one of them is saving it.
Status == {"provisioning", "ready", "running", "failed", "cleaning"}
Entry == [status : Status, age : Age]
NoEntry == [status |-> "none", age |-> Stale]
Unread == "unread"
Old == Status \cup {"none", Unread}

PC == Status \cup {"idle", "quota", "create", "prepare", "remove", "work",
                   "clean", "destroy", "delete"}
\* The heartbeat is cancelled before the workspace is cleaned up.
Ending == {"idle", "clean", "cleaning", "destroy", "delete"}

Recorded == {r \in Run : record[r] # NoEntry}

Resting == [at |-> "sleep", entry |-> NoEntry, old |-> Unread]
NoBeat == [at |-> "off", entry |-> NoEntry, old |-> Unread]
\* What a reaper still has to read, what it found silent, and what it is ending.
NoSweep == [list |-> {}, todo |-> {}, at |-> NoRun, old |-> Unread]

Init ==
    /\ record = [r \in Run |-> NoEntry]
    /\ indexed = {}
    /\ container = {}
    /\ stuck = {}
    /\ pc = [w \in Worker |-> "idle"]
    /\ run = [w \in Worker |-> NoRun]
    /\ info = [w \in Worker |-> FALSE]
    /\ mine = [w \in Worker |-> NoEntry]
    /\ old = [w \in Worker |-> Unread]
    /\ beat = [w \in Worker |-> NoBeat]
    /\ beaten = {}
    /\ sweep = [p \in Reaper |-> NoSweep]
    /\ deliveries = [r \in Run |-> 0]
    /\ faults = 0

-----------------------------------------------------------------------------
(* The store.                                                              *)

\* Faulty variant: the run leaves the index of the old status after it has
\* entered that of the new one.
SaveForgetsIndex(r, entry, was) ==
    /\ record' = [record EXCEPT ![r] = entry]
    /\ indexed' = IF was = "running" THEN indexed \ {r}
                  ELSE IF entry.status = "running" THEN indexed \cup {r}
                  ELSE indexed

\* set, after it has read the status `was`: a transaction that writes the
\* record and moves the run from the index of that status to the new one's.
Save(r, entry, was) ==
    /\ record' = [record EXCEPT ![r] = entry]
    /\ indexed' = IF entry.status = "running" THEN indexed \cup {r}
                  ELSE IF was = "running" THEN indexed \ {r}
                  ELSE indexed

\* delete, after it has read the status `was`.
Delete(r, was) ==
    \/ /\ was = "none"
       /\ UNCHANGED store
    \/ /\ was # "none"
       /\ record' = [record EXCEPT ![r] = NoEntry]
       /\ indexed' = IF was = "running" THEN indexed \ {r} ELSE indexed

Fault ==
    /\ faults < MaxFaults
    /\ faults' = faults + 1

\* remove_container(force): an error is logged and the caller goes on.
RemoveContainer(r) ==
    \/ /\ container' = container \ {r}
       /\ stuck' = stuck \ {r}
       /\ UNCHANGED faults
    \/ /\ r \in container
       /\ Fault
       /\ stuck' = stuck \cup {r}
       /\ UNCHANGED container

-----------------------------------------------------------------------------
(* provision_workspace and cleanup_workspace, called by a worker.          *)

Goto(w, next) == pc' = [pc EXCEPT ![w] = next]

\* The worker changes its copy of the record and saves it.
SaveNext(w, status, age) ==
    /\ Goto(w, status)
    /\ mine' = [mine EXCEPT ![w] = [status |-> status, age |-> age]]

\* A job is delivered, for the first time or again, and the heartbeat starts.
Take(w, r) ==
    /\ pc[w] = "idle"
    /\ deliveries[r] < MaxDeliveries[r]
    /\ deliveries' = [deliveries EXCEPT ![r] = @ + 1]
    /\ Goto(w, "quota")
    /\ run' = [run EXCEPT ![w] = r]
    /\ beat' = [beat EXCEPT ![w] = Resting]
    /\ beaten' = beaten \cup {w}
    /\ UNCHANGED <<store, podman, info, mine, old, sweep, faults>>

\* Faulty variant: the limit itself still lets one in.
CheckQuotaOffByOne(w) ==
    /\ pc[w] = "quota"
    /\ \/ /\ Cardinality(Recorded) > MaxConcurrent
          /\ Goto(w, "work")
          /\ UNCHANGED mine
       \/ /\ Cardinality(Recorded) <= MaxConcurrent
          /\ SaveNext(w, "provisioning", Stale)
    /\ UNCHANGED <<store, podman, run, info, old, beat, beaten, sweep, deliveries, faults>>

\* _enforce_quota counts the records. A worker over the limit goes on without
\* a workspace.
CheckQuota(w) ==
    /\ pc[w] = "quota"
    /\ \/ /\ Cardinality(Recorded) >= MaxConcurrent
          /\ Goto(w, "work")
          /\ UNCHANGED mine
       \/ /\ Cardinality(Recorded) < MaxConcurrent
          /\ SaveNext(w, "provisioning", Stale)
    /\ UNCHANGED <<store, podman, run, info, old, beat, beaten, sweep, deliveries, faults>>

SaveRead(w) ==
    /\ pc[w] \in Status
    /\ old[w] = Unread
    /\ old' = [old EXCEPT ![w] = record[run[w]].status]
    /\ UNCHANGED <<store, podman, pc, run, info, mine, beat, beaten, sweep, deliveries, faults>>

\* Where a worker goes on when a status is saved.
After(status) ==
    CASE status = "provisioning" -> "create"
      [] status = "ready"        -> "prepare"
      [] status = "running"      -> "work"
      [] status = "failed"       -> "remove"
      [] status = "cleaning"     -> "destroy"

SaveWrite(w) ==
    /\ pc[w] \in Status
    /\ old[w] # Unread
    /\ Save(run[w], mine[w], old[w])
    /\ old' = [old EXCEPT ![w] = Unread]
    /\ Goto(w, After(pc[w]))
    /\ mine' = [mine EXCEPT ![w] = NoEntry]
    /\ info' = [info EXCEPT ![w] = pc[w] = "running"]
    /\ UNCHANGED <<podman, run, beat, beaten, sweep, deliveries, faults>>

\* The name of a container is the run's, and podman refuses a name in use. It
\* may also fail to create the container, or to start the one it has created.
CreateContainer(w) ==
    /\ pc[w] = "create"
    /\ \/ /\ run[w] \notin container
          /\ container' = container \cup {run[w]}
          /\ SaveNext(w, "ready", Stale)
       \/ /\ container' \in {container, container \cup {run[w]}}
          /\ SaveNext(w, "failed", Stale)
    /\ UNCHANGED <<store, stuck, run, info, old, beat, beaten, sweep, deliveries, faults>>

\* Faulty variant: the workspace starts to run without a heartbeat.
PrepareWithoutHeartbeat(w) ==
    /\ pc[w] = "prepare"
    /\ run[w] \in container
    /\ SaveNext(w, "running", Stale)
    /\ UNCHANGED <<store, podman, run, info, old, beat, beaten, sweep, deliveries, faults>>

\* mkdir and git clone in the container, and the first heartbeat. exec_run takes
\* any error of the lookup for a container that is gone, and raises.
Prepare(w) ==
    /\ pc[w] = "prepare"
    /\ \/ /\ run[w] \in container
          /\ SaveNext(w, "running", 0)
       \/ SaveNext(w, "failed", Stale)
    /\ UNCHANGED <<store, podman, run, info, old, beat, beaten, sweep, deliveries, faults>>

\* Provisioning has failed: the container goes, the record stays.
RemoveFailed(w) ==
    /\ pc[w] = "remove"
    /\ RemoveContainer(run[w])
    /\ Goto(w, "work")
    /\ UNCHANGED <<store, run, info, mine, old, beat, beaten, sweep, deliveries>>

\* The heartbeat task ends, wherever it is.
Cancel(w) ==
    /\ beat' = [beat EXCEPT ![w] = NoBeat]
    /\ beaten' = beaten \ {w}

\* The worker has no job any more.
Leave(w) ==
    /\ Goto(w, "idle")
    /\ run' = [run EXCEPT ![w] = NoRun]
    /\ info' = [info EXCEPT ![w] = FALSE]
    /\ mine' = [mine EXCEPT ![w] = NoEntry]
    /\ old' = [old EXCEPT ![w] = Unread]

\* The job ends and the heartbeat is cancelled. The workspace of a success is
\* cleaned up, that of a failure is preserved.
Finish(w) ==
    /\ pc[w] = "work"
    /\ Cancel(w)
    /\ \/ /\ info[w]
          /\ Goto(w, "clean")
          /\ UNCHANGED <<run, info, mine, old>>
       \/ Leave(w)
    /\ UNCHANGED <<store, podman, sweep, deliveries, faults>>

\* cleanup_workspace reads the record and saves it as CLEANING.
CleanupGet(w) ==
    /\ pc[w] = "clean"
    /\ \/ /\ record[run[w]] = NoEntry
          /\ Leave(w)
       \/ /\ record[run[w]] # NoEntry
          /\ SaveNext(w, "cleaning", record[run[w]].age)
          /\ UNCHANGED <<run, info, old>>
    /\ UNCHANGED <<store, podman, beat, beaten, sweep, deliveries, faults>>

\* Faulty variant: the record is deleted while the container is left to a
\* later step.
DestroyLater(w) ==
    /\ pc[w] = "destroy"
    /\ Goto(w, "delete")
    /\ UNCHANGED <<store, podman, run, info, mine, old, beat, beaten, sweep, deliveries, faults>>

Destroy(w) ==
    /\ pc[w] = "destroy"
    /\ RemoveContainer(run[w])
    /\ Goto(w, "delete")
    /\ UNCHANGED <<store, run, info, mine, old, beat, beaten, sweep, deliveries>>

DeleteRead(w) ==
    /\ pc[w] = "delete"
    /\ old[w] = Unread
    /\ old' = [old EXCEPT ![w] = record[run[w]].status]
    /\ UNCHANGED <<store, podman, pc, run, info, mine, beat, beaten, sweep, deliveries, faults>>

DeleteWrite(w) ==
    /\ pc[w] = "delete"
    /\ old[w] # Unread
    /\ Delete(run[w], old[w])
    /\ Leave(w)
    /\ UNCHANGED <<podman, beat, beaten, sweep, deliveries, faults>>

\* A worker process dies, or the machine it runs on.
Crash(w) ==
    /\ pc[w] # "idle"
    /\ Fault
    /\ Leave(w)
    /\ Cancel(w)
    /\ UNCHANGED <<store, podman, sweep, deliveries>>

\* stop cancels the heartbeat of the job that it lets finish.
Stop(w) ==
    /\ beat[w].at # "off"
    /\ Fault
    /\ Cancel(w)
    /\ UNCHANGED <<store, podman, main, sweep, deliveries>>

-----------------------------------------------------------------------------
(* The heartbeat task: update_heartbeat gets the record and sets all of it *)
(* again, with a new time.                                                 *)

\* Faulty variant: the heartbeat does not look whether there is a record.
BeatGetUnchecked(w) ==
    /\ beat[w].at = "sleep"
    /\ w \notin beaten
    /\ beat' = [beat EXCEPT ![w] =
          [at |-> "save", old |-> Unread,
           entry |-> [status |-> record[run[w]].status, age |-> 0]]]
    /\ UNCHANGED <<store, podman, main, beaten, sweep, deliveries, faults>>

BeatGet(w) ==
    /\ beat[w].at = "sleep"
    /\ w \notin beaten
    /\ \/ /\ record[run[w]] = NoEntry
          /\ beaten' = beaten \cup {w}
          /\ UNCHANGED beat
       \/ /\ record[run[w]] # NoEntry
          /\ beat' = [beat EXCEPT ![w] =
                [at |-> "save", old |-> Unread,
                 entry |-> [status |-> record[run[w]].status, age |-> 0]]]
          /\ UNCHANGED beaten
    /\ UNCHANGED <<store, podman, main, sweep, deliveries, faults>>

BeatRead(w) ==
    /\ beat[w].at = "save"
    /\ beat[w].old = Unread
    /\ beat' = [beat EXCEPT ![w].old = record[run[w]].status]
    /\ UNCHANGED <<store, podman, main, beaten, sweep, deliveries, faults>>

BeatWrite(w) ==
    /\ beat[w].at = "save"
    /\ beat[w].old # Unread
    /\ Save(run[w], beat[w].entry, beat[w].old)
    /\ beat' = [beat EXCEPT ![w] = Resting]
    /\ beaten' = beaten \cup {w}
    /\ UNCHANGED <<podman, main, sweep, deliveries, faults>>

-----------------------------------------------------------------------------
(* cleanup_zombies.                                                        *)

\* find_stale asks the index of RUNNING for its runs, ...
FindList(p) ==
    /\ sweep[p] = NoSweep
    /\ indexed # {}
    /\ sweep' = [sweep EXCEPT ![p].list = indexed]
    /\ UNCHANGED <<store, podman, main, beat, beaten, deliveries, faults>>

\* ... gets the record of each, whatever has become of its status, and keeps
\* those whose heartbeat is too old.
FindGet(p, r) ==
    /\ r \in sweep[p].list
    /\ sweep' = [sweep EXCEPT
          ![p].list = @ \ {r},
          ![p].todo = @ \cup {q \in {r} : record[q] # NoEntry /\ record[q].age > MaxIdle}]
    /\ UNCHANGED <<store, podman, main, beat, beaten, deliveries, faults>>

\* Faulty variant: the record is deleted and the container is not removed.
KillSkipsContainer(p, r) ==
    /\ sweep[p].list = {}
    /\ sweep[p].at = NoRun
    /\ r \in sweep[p].todo
    /\ sweep' = [sweep EXCEPT ![p].todo = @ \ {r}, ![p].at = r]
    /\ UNCHANGED <<store, podman, main, beat, beaten, deliveries, faults>>

\* The zombies are ended one by one, and nobody looks at them again.
Kill(p, r) ==
    /\ sweep[p].list = {}
    /\ sweep[p].at = NoRun
    /\ r \in sweep[p].todo
    /\ RemoveContainer(r)
    /\ sweep' = [sweep EXCEPT ![p].todo = @ \ {r}, ![p].at = r]
    /\ UNCHANGED <<store, main, beat, beaten, deliveries>>

ReapRead(p) ==
    /\ sweep[p].at # NoRun
    /\ sweep[p].old = Unread
    /\ sweep' = [sweep EXCEPT ![p].old = record[sweep[p].at].status]
    /\ UNCHANGED <<store, podman, main, beat, beaten, deliveries, faults>>

ReapWrite(p) ==
    /\ sweep[p].old # Unread
    /\ Delete(sweep[p].at, sweep[p].old)
    /\ sweep' = [sweep EXCEPT ![p].at = NoRun, ![p].old = Unread]
    /\ UNCHANGED <<podman, main, beat, beaten, deliveries, faults>>

\* The process of the reaper dies and starts again.
ReaperDies(p) ==
    /\ sweep[p] # NoSweep
    /\ Fault
    /\ sweep' = [sweep EXCEPT ![p] = NoSweep]
    /\ UNCHANGED <<store, podman, main, beat, beaten, deliveries>>

-----------------------------------------------------------------------------
\* One heartbeat interval passes. Nobody takes longer than that to save a
\* record, to send a heartbeat or to list the workspaces; to end them may take
\* a reaper any time.
Tick ==
    /\ \A w \in Worker : /\ pc[w] \notin Status
                         /\ beat[w].at # "off" => w \in beaten
    /\ \A p \in Reaper : sweep[p].list = {}
    /\ record' = [r \in Run |->
          IF record[r].age < Stale THEN [record[r] EXCEPT !.age = @ + 1] ELSE record[r]]
    /\ beaten' = {}
    /\ UNCHANGED <<indexed, podman, main, beat, sweep, deliveries, faults>>

WorkerStep(w) ==
    \/ CheckQuota(w)
    \/ SaveRead(w)
    \/ SaveWrite(w)
    \/ CreateContainer(w)
    \/ Prepare(w)
    \/ RemoveFailed(w)
    \/ Finish(w)
    \/ CleanupGet(w)
    \/ Destroy(w)
    \/ DeleteRead(w)
    \/ DeleteWrite(w)

BeatStep(w) == BeatGet(w) \/ BeatRead(w) \/ BeatWrite(w)

ReapStep(p) ==
    \/ FindList(p)
    \/ \E r \in Run : FindGet(p, r) \/ Kill(p, r)
    \/ ReapRead(p)
    \/ ReapWrite(p)

Next ==
    \/ \E w \in Worker :
          \/ \E r \in Run : Take(w, r)
          \/ WorkerStep(w)
          \/ Crash(w)
          \/ Stop(w)
          \/ BeatStep(w)
    \/ \E p \in Reaper : ReapStep(p) \/ ReaperDies(p)
    \/ Tick

Spec == Init /\ [][Next]_vars

\* Processes run and time passes; a job ends, by its timeout if not before.
\* Nobody has to take a job, to die or to be stopped. A reaper may list again
\* and again, but it sleeps in between, which is why time is strongly fair.
FairSpec ==
    /\ Spec
    /\ WF_vars(\E w \in Worker : WorkerStep(w))
    /\ WF_vars(\E w \in Worker : BeatStep(w))
    /\ \A p \in Reaper : WF_vars(ReapStep(p))
    /\ SF_vars(Tick)

-----------------------------------------------------------------------------
(* Properties.                                                             *)

\* Every variable has its type.
TypeOK ==
    /\ record \in [Run -> Entry \cup {NoEntry}]
    /\ indexed \subseteq Run
    /\ container \subseteq Run
    /\ stuck \subseteq container
    /\ pc \in [Worker -> PC]
    /\ run \in [Worker -> Run \cup {NoRun}]
    /\ \A w \in Worker : run[w] = NoRun <=> pc[w] = "idle"
    /\ info \in [Worker -> BOOLEAN]
    /\ mine \in [Worker -> Entry \cup {NoEntry}]
    /\ \A w \in Worker : pc[w] \in Status => mine[w] \in Entry /\ mine[w].status = pc[w]
    /\ old \in [Worker -> Old]
    /\ beat \in [Worker -> [at : {"off", "sleep"}, entry : {NoEntry}, old : {Unread}]
                           \cup [at : {"save"}, entry : Entry, old : Old]]
    /\ \A w \in Worker : pc[w] \in Ending => beat[w] = NoBeat
    /\ beaten \subseteq Worker
    /\ sweep \in [Reaper ->
          [list : {{}}, todo : SUBSET Run, at : Run, old : Old]
          \cup [list : SUBSET Run, todo : SUBSET Run, at : {NoRun}, old : {Unread}]]
    /\ deliveries \in [Run -> Nat]
    /\ \A r \in Run : deliveries[r] <= MaxDeliveries[r]
    /\ faults \in 0..MaxFaults

\* Provisions at the same time exceed max_concurrent_workspaces, because the
\* count is taken before the record is stored; by no more than one workspace
\* for each other worker, even when late heartbeats bring deleted records back.
QuotaOvershoot == Cardinality(Recorded) <= MaxConcurrent + Cardinality(Worker) - 1

\* A worker has a container and a record for as long as it works with them:
\* neither reapers nor heartbeats that overtake the provisioning take them
\* away. It has to be the only worker that was ever given the run, and its
\* heartbeat must not have been cancelled by stop.
LiveWorkspaceIntact ==
    \A w \in Worker :
        pc[w] = "work" /\ info[w] /\ deliveries[run[w]] = 1 /\ beat[w].at # "off"
            => run[w] \in container \ stuck /\ run[w] \in Recorded

\* No container is forgotten: whatever dies in the middle of provisioning,
\* cleaning up or reaping, a container has a record to find it by, unless its
\* removal failed or a second delivery provisioned the run anew.
ContainerIsRecorded ==
    \A r \in container : r \in Recorded \/ r \in stuck \/ deliveries[r] > 1

\* The reaper looks at the index only: it lists every RUNNING workspace,
\* however the saves of several processes overtake each other.
ReaperSeesRunning == \A r \in Run : record[r].status = "running" => r \in indexed

\* The container of a RUNNING workspace that no worker works on, because the
\* run failed or the worker died, is removed in the end.
AbandonedIsReaped ==
    \A r \in Run :
        record[r].status = "running" /\ deliveries[r] = 1 /\ (\A w \in Worker : run[w] # r)
            ~> r \notin container \/ r \in stuck
=============================================================================
