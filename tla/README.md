# Verification of the agent execution core

This directory holds TLA+ specifications of the part of Amprealize that runs agents on work items, of
the machines they work on and of the events users follow them by, model-checking runs for TLC, and
proofs for TLAPS. The definitions are translated from the Python source; `PROJECT.json` maps each of
them to the lines it stands for, and lists the runs, the theorems, the hazards of the code and what was
found.

    tlc -config ExecutionQueueEntries.cfg MCExecutionQueue     # one of the runs
    tlapm AgentRunProofs.tla                                   # one of the proof modules

## 1. The system

A user starts a work item. `WorkItemExecutionService.execute` creates a *run* (a row in
`execution.runs`) and a *task cycle* (a row in `task_cycles`), links them to the work item and puts
a *job* into a Redis stream. A worker process reads the job and drives the cycle through the phases
of the protocol, calling a language model and tools in each. Users cancel runs, answer questions and
approve gates meanwhile.

                        enqueue                     consume
     users ──► WorkItemExecutionService ──► execution queue ──► ExecutionWorker
                 │ cancel, approve_gate      (Redis streams)       │ AgentExecutionLoop
                 ▼                                                 ▼
              runs (PostgreSQL) ◄──────── read, write back ──────► task cycle (PostgreSQL)
                                                                   │
                    containers (podman) ◄── workspace orchestrator ┘   records in Redis, a reaper

An agent works on files. A worker provisions a container for the run through the workspace
orchestrator, sends heartbeats for it and removes it; what dies is reaped. A run can also work on the
user's own machine: then its loop is a task of the API process (`execution_gateway.py`), and the
*local connector* sends each tool call over a web socket to a daemon that has called home. Users
follow conversations by web sockets and SSE streams, one *event hub* in each API process, with Redis
between them.

### Inventory

| Component | State | Operations | What is hard about it | What makes it correct |
|---|---|---|---|---|
| Execution queue (`packages/execution-queue`) | a stream per priority, the group's cursor and pending list, the dead-letter stream | enqueue with trimming; recover, read, handle, acknowledge, negative-acknowledge; retry and delete dead jobs | several commands per operation; crashes and lost replies between them; entries idle for a minute change hands | no job is lost; a job is over only after a success or a dead-letter copy; every job is over some day |
| Back-pressure (same package) | none | stream lengths against limits | – | – |
| Task cycle (`task_cycle_service.py`) | phase, test iterations, audit trail, architecture document | transition, submit results, accept, approve and create an architecture | each statement commits by itself and checks are made on what was read | gates open only by approvals; the audit trail explains the phase; ended is ended |
| Agent run (`agent_execution_loop.py`, `execution_worker.py`, `work_item_execution_service.py`, `run_service_postgres.py`) | the run's status, progress and checkpoint; memory of the loop | execute, cancel, approve_gate, provide_clarification; load, run, checkpoint, report | redelivery to another worker, stale rows written back, timeouts, users who act meanwhile | completed means verified; cancelled stays cancelled; a redelivered run has what it needs; nothing is forgotten |
| Execution gateway | none of its own | resolve mode and start; the task of a local run | a task that awaits a daemon, tools and timeouts | the daemon is leased, used and released |
| Workspace orchestrator (`packages/breakeramp`), zombie reaper | a record per run and an index in Redis, containers in podman, heartbeats in worker processes | provision, heartbeat, clean up, reap | several commands per operation on a shared store; check-then-act quota; read-modify-write heartbeats; deaths in the middle | the quota; a workspace in use stays; one that is not goes; no container is forgotten |
| Local connector hub and daemon | sockets, pending runs, buffered messages, futures; the queues of the daemon | lease, invoke a tool, resolve, release, cancel; connect, flush, receive | broadcasts that overtake each other, timeouts against late answers, reconnection | a call runs once per daemon and in order; a result is that of its attempt |
| Circuit breaker, rate limiters | counters and state per conversation | allow, record | limits checked before they are counted | limits hold |
| Conversation event hub | subscribers, remembered ids, a listener; a stream and a channel in Redis | connect, replay, broadcast, listen, leave | replay against live events, listeners opened twice or closed under somebody, slow and broken subscribers | no gap between the replay and what is heard after it, nothing twice, somebody listens |
| Conversation service, execution event hub | messages; subscribers and their queues | post, publish, subscribe | full queues | a subscriber sees the end |
| Device flow, token vault | device sessions, tokens | start, poll, approve, deny, expire | expiry against approval | one decision per code |
| Board, assignment | items, columns, positions | move, assign | concurrent moves | positions distinct |
| Audit log, retention | hash chain | append, delete old | concurrent appends | the chain is unbroken |
| Plan approval, caps | in-memory counters | approve, count | – | caps hold |
| Action replay | recorded actions, jobs | start, stop, replay | stopping half-way | order kept |
| Billing (`packages/billing`) | subscriptions, usage | webhooks | repeated and reordered events | events applied once |
| Notifications | none that is read | notify | – | – |
| Web console, extension, whiteboard, raze, migrations | – | – | – | – |

The queue, the cycle, the run, workspaces, the local connector and the conversation hub are modelled;
the rest is in the plan or given up for the reason its entry in `PROJECT.json` states.

## 2. Modules

| Module | What it is |
|---|---|
| `AtLeastOnceQueue` | abstract: what the queue promises about one entry |
| `ExecutionQueue` | the queue, one action per Redis command |
| `CyclePhases` | phases, gates and allowed transitions |
| `PhaseMachine` | abstract: what the cycle promises to one caller at a time |
| `TaskCycle` | the service, one action per SQL statement, any number of concurrent callers |
| `AgentRun` | the run: workers and users over `TaskCycle` and `AtLeastOnceQueue` |
| `Workspaces` | workers, their heartbeats and reapers over the store of workspaces, one action per command of Redis or podman |
| `LocalConnector` | runs, the hub, the handlers of sockets and the daemons, one action per stretch between two awaits |
| `ConversationHub` | the hubs of several processes over the stream and the channel of one conversation |
| `MC...` | instances for TLC |
| `ExecutionQueueProofs`, `ExecutionQueueContractProofs`, `TaskCycleProofs`, `AgentRunProofs`, `AgentRunSoleWorkerProofs`, `WorkspacesProofs`, `LocalConnectorProofs`, `ConversationHubProofs` | theorems |

`AgentRun` composes the two others: it takes its steps on the cycle from `TaskCycle` itself (a
worker or a user who is inside `transition_phase` is a caller of that module) and its queue from
`AtLeastOnceQueue`, which `ExecutionQueue` is proved to implement (section 4). So the run
is checked against everything the queue may do, and nothing has to be modelled twice.

### ExecutionQueue

Entries of all streams share one numbering: `log[i]` is what XADD stored, `present` the ids not
deleted or trimmed, `cursor` and `owner` the group's last-delivered ids and pending list, and
`stale` the pending ids that are idle for longer than `claim_min_idle_ms` (`Expire` lets time pass).
A consumer has a program counter: `recover` (`_recover_pending`, once, at the start), `poll` (the
read loop), `handle` (the handler runs), `ack`, `dlqAdd` and `dlqAck` (the commands of `ack` and
`nack`). `tries` is `retry_count` of the job object in its memory. Every command may raise: then
either Redis carried it out or it did not (`applied`), or Redis answered that it refuses it (`refused`),
and the exception goes where the code's `try` blocks send it: a refusal during recovery makes it go on
with the next stream (`NextLane`), any other error ends the worker, and what was claimed and not yet
handled is forgotten with the batch (`Forget`). `Crash` covers the death of a process and the cancellation of its task, which
neither `except` clause catches. `Enqueue` may trim: MAXLEN `~` may drop oldest entries, delivered or
not, as long as the limit's number remain.

### TaskCycle

`call[c]` is the operation a caller is in the middle of: what it read, what it asks for. The pool
hands out connections in autocommit mode (`storage/postgres_pool.py:243`), so `transition_phase` is
three steps: read and check (`TransitionPhase`, `Read`), insert the row of the audit trail
(`Record`), overwrite the cycle (`Update`). `Crash` drops a call after any of them. The audit trail
is kept as the set of its edges, with whether the row opened a gate.

### AgentRun

`run` is the row: status, checkpoint number, and which phases have saved outputs. Every update of it
is two steps, because `update_run` reads the row and writes all of it back (`UpdateRead`,
`UpdateWrite`): a worker carries the row it read in between, and so does a user who cancels.
`Touch` stands for the updates that set no status: heartbeats (any time, as the heartbeat task runs
beside the loop), steps, receipts. A worker goes

    idle -Take-> load -Begin-> hydrate -Hydrate-> loop -GetCycle-> execute -ExecutePhase-> commit
      -Commit-> decide -Move-> moving -Moved-> loop ...  or  -EndLoop/Pause-> succeeded | failed
    failed -ReportFailure-> nack -Nack-> idle;   succeeded -Succeed-> ack -Ack-> idle

and may die anywhere (`Crash`), time out where it waits (`TimesOut`) or fail to load (`FailEarly`).
What a phase produces is chosen from `Outcome`: what its handler can return, whatever the model
says (one definition for each handler, `Planning` to `Completing`), or a failure, because any handler
but that of CLARIFYING may raise. A gate that is to wait fails the run (`Pause`): the code that would set
PENDING looks for a member of `GateType` that there is not, and raises before. Only a clarification
makes a run wait. Whether a failed job is negative-acknowledged depends on the text of its error, which
may be empty (`ReportFailure`). The checkpoint that is saved is kept as the set of the phases it
has outputs of; that large outputs are cut down to their keys on the way (`run_reliability.py:98`) is
not modelled. The loop asks for every transition with `approval_granted=True`; hence an "approved" row in
the audit trail of a run says that a gate was opened, by a person or by the loop.

### Workspaces

The store is a record per run and the index of those whose status is RUNNING; `set` and `delete` first
read the old record and then change record and index in a transaction, two steps (`SaveRead`,
`SaveWrite` and so on). A worker goes

    idle -Take-> quota -CheckQuota-> provisioning -> create -CreateContainer-> ready -> prepare
      -Prepare-> running -> work -Finish-> clean -CleanupGet-> cleaning -> destroy -Destroy-> delete -> idle

where a program counter that is a status means that this status is being saved; when something fails
it saves `failed`, removes the container and works without a workspace. `beat[w]` is its heartbeat
task, which runs beside it, and `sweep[p]` the sweep of a reaper, which lists the runs of the index
(`FindList`), reads the record of each, keeps those whose heartbeat is old (`FindGet`), and then
kills one after the other without looking again. `Crash` may come anywhere, `Stop` cancels the heartbeat as `stop` does. A
record that is brought back by a late heartbeat, a reaper that acts on what it found a while ago, and
a second delivery that meets the container of the first are all in the model. Time is a `Tick` of one
heartbeat interval (30 s), and its guard is the one assumption about speed: no save and no heartbeat
of a worker takes an interval, and neither does the listing of a reaper, which compares what it has read
with the time at its end. Killing may take any time. Without the assumption any live workspace may be
reaped; the code's margin is four intervals. The properties of a workspace in use and of its container
speak of a run that was delivered once: a second delivery removes the container of the first (section 5),
and what it provisions anew may meet the reaper that is after the old one.

### LocalConnector

The server is one event loop, so that an action is what happens between two awaits. `out[s]` is what a
task has yet to send and to which sockets: the targets of a broadcast are those that were registered
when it began, and other tasks act between two sends. `down` and `up` are the connections; a broken
one loses what is sent until somebody notices (`Lose`, `ReplyAndBecome`). A run's task waits for the
lease, invokes tools, each up to `MaxTries` times, and releases the daemon. The daemon is a pump, which
sorts messages into the queue of the lease that is served, and a main loop. Timeouts may come at any
moment. An invocation is identified by run, call and attempt, as its uuid does.

### ConversationHub

A subscriber connects in four steps: registered, subscribed, replay fetched, replay sent (`Connect`,
`Record`, `Fetch`, `Resend`), and the SUBSCRIBE takes effect at some time of its own (`Attach`), for
the client library does not wait for the reply. A publisher broadcasts to the targets it has seen,
stores the event and announces it on the channel (`Publish`, `Send`, `Put`, `Store`, `Announce`); a
listener broadcasts what it hears of other hubs. Leaving, or a send that raises, takes the subscriber
out, and the last one closes the listener, in the middle of a broadcast if need be (`Disconnect`). The
variables under `history` serve the properties only.

## 3. Runs

| Run | Checks | Bounds | Shows |
|---|---|---|---|
| `queue_jobs` | `NoJobLost` | 1 job, 2 workers, 1 operator, 3 entries, 1 lost reply | through crashes, lost replies and dead-letter retries some live entry holds the job until it is over |
| `queue_entries` | `TypeOK`, `ExclusiveUnlessIdle`, `AtLeastOnce` | 2 jobs, 2 priorities, 2 workers, 2 entries, trimming, 1 lost reply | workers share only idle entries; the queue implements `AtLeastOnceQueue` |
| `queue_liveness` | `EventuallySettled`, `IdleIsRecovered` | 1 job, 2 priorities, 2 workers, 3 entries, no retries | if one worker stays up every new entry is settled or trimmed, unless the worker it was given to goes down with it; a worker that starts settles what is idle by then |
| `cycle_concurrent` | `AuditExplainsPhase`, `GatesWereOpened` | 2 callers, 7 rows, 1 fixing round | stale writers cannot pass a gate nobody opened, nor leave the audit trail |
| `cycle_serial` | `TypeOK`, `Serial` | 1 caller, 2 documents, 11 rows, 3 fixing rounds | one caller at a time: `TaskCycle` implements `PhaseMachine` |
| `agent_approvals` | `TypeOK`, `CompletedWasVerified` | 1 worker, 1 approver, 2 jobs, 2 policies, 6 turns | no run is completed before its gates were opened, by a person or by the loop |
| `agent_takeover` | `ResumesWithOutputs` | 1 worker, 1 job, 2 fixing rounds, 10 turns, 13 checkpoints | each delivery has the outputs of the phases before |
| `agent_cancels` | `RunningHasJob` | 1 worker, 1 canceller, 1 job, 3 turns | a RUNNING run has a job or a dead-letter copy |
| `workspaces` | `TypeOK`, `QuotaOvershoot`, `LiveWorkspaceIntact` | 3 runs, 2 workers, 1 reaper, limit 1, idle limit 1, no faults | the quota is exceeded by one at most, workspaces in use stay |
| `workspaces_abandoned` | `LiveWorkspaceIntact`, `ContainerIsRecorded`, `ReaperSeesRunning`, `AbandonedIsReaped` | 2 runs, 1 worker, 1 reaper, idle limit 2, 3 faults | workspaces in use stay, no container is forgotten, the reaper sees what runs, what nobody works on is removed in the end |
| `connector` | `TypeOK`, `NoRepeat`, `InOrderUnlessStored`, `ResultIsOfAttempt` | 1 run, 1 call with 2 attempts, 2 daemons, 1 fault, 2 messages on a wire | invocations run once per daemon and in order, and late results are not mistaken |
| `conversation_hub` | `TypeOK`, `OnceLive`, `Listening`, `NoGap` | 2 hubs, 2 subscribers (1 web socket), 2 events, replay limit 1, 1 fault | no event of another hub falls between a replay and the live events (under the conditions below), nothing comes twice, a hub with subscribers listens |

Why these bounds. *Queue*: what goes wrong takes two workers and one entry they both know (one of
them stale), or an operator and a worker; three entries are an original, its dead-letter copy and
the retry of that. One lost reply is enough to meet every `except` clause once; combined with
crashes, which are not counted, all orders of a failed acknowledgement and a takeover occur. With
`MaxRetries` = 1 every failure goes to the dead-letter stream, which is the path with the most commands; what
happens to a job with retries left is the subject of two findings. The liveness run has one job, its
dead-letter copies and no lost replies, and two workers that go down and come back at any time: the state
graph with a second job is too big for the liveness check. A copy needs room, hence "or there are `MaxEntries` entries" in both
properties. *Cycle*: two callers, because every hazard is one stale writer. The way from PLANNING
to COMPLETED takes six rows; seven, and eleven in the serial run, leave room for a clarification,
fixing rounds and changes that are asked for. *Run*: six turns are the way from
PLANNING to COMPLETING; ten with two fixing rounds. The bound on turns is per delivery and
deliveries are not bounded, so longer histories occur; the bound on checkpoints limits those. Model
checking of a run with two workers is out of TLC's reach for the state space as a whole: all three runs
have one worker, and take a user as the second writer of the row or the cycle. What holds of two workers
is proved (`CompletionIsVerified`, for any number), and what does not is said under "Not what one would
expect" below. *Workspaces*: the third run makes two provisions at once exceed the
limit while the record of another is being deleted. Two workers meet at the quota only, as each run of
these instances is delivered once; what a record and its container go through is between the worker, its
heartbeat and the reaper, and there three faults are taken: a death, a stop or a failed removal at any three
moments. With several workers and faults the three safety properties are proved. An idle limit of one
interval is the hardest case for a live workspace, two let a heartbeat be missed. *Connector*: a
retry needs two attempts, a broadcast that overtakes another needs two sockets, and a daemon that
reconnects is another element of `Daemon`. Two messages on a wire (`MaxWire`; a sender then waits, as
for a full socket) are two attempts, or their results, that are under way at once. *Conversation hub*: two subscribers of one hub open two
listeners at once and close them under each other; one event comes from another hub and one from their
own, of which a replay holds one, and one fault is a command or a listener that fails. `NoGap` is about
events of other hubs, for a subscriber whose hub was listening when its replay was fetched, and about
those events only that are among the oldest of the stream, as many as a replay returns (250). The client
does not wait for the reply to SUBSCRIBE: what is announced between a replay that answers sooner and the
SUBSCRIBE is missed, and so is what is stored before the replay and behind its limit (section 5). The
order of events is not looked at; the hub does not promise one.

`CHECK_DEADLOCK FALSE` is set for `AgentRun`, `LocalConnector` and `ConversationHub`: when runs are over,
daemons gone and users done, these really stop. The other models never stop by themselves (a worker can
always be started, a call always be made) and deadlock is checked for them.

**Fairness.** Two runs need it. *Queue* (`FairSpec`): a worker that is up takes its next step (weak
fairness of `Running(c)` for each worker: the loop never blocks for longer than its read timeout, and a
handler ends, by the timeout of the job if not before, in success or in failure). Nobody has to start a
worker; any worker may go down at any time and for ever; nothing becomes idle, is published or is tried
again of necessity, and no handler has to succeed. So `EventuallySettled` says what it needs: that some
worker stays up; and `IdleIsRecovered` is about a worker that has started, until it goes down. What
one would like to have beyond that, the code does not keep: `FailedIsRetried` fails, because recovery
runs only when a worker starts and no worker has to; so does `RecoveryEnds`, with `MaxRetries = 2`. *Workspaces*
(`FairSpec`): workers, heartbeats and reapers take their next steps (weak fairness: the tasks of an event
loop are scheduled, and each job has a timeout) and time passes (strong fairness of `Tick`, which the
listing of a reaper holds up for a moment: a reaper sleeps between two sweeps; two reapers in the model could
list in turns for ever, which is why this run has one); nobody has to take a job, to
die or to be stopped.

**Mutants.** Each property of a passing run comes with a faulty variant of an operation (the
definitions whose comments begin with "Faulty variant"): the property fails when it takes the place
of the original.

## 4. Proofs

All theorems hold for every value of the constants that satisfies the named assumptions
(`QueueAssumption`, `CycleAssumption`, `RunAssumption`, `WorkspacesAssumption`, `ConnectorAssumption`,
`HubAssumption`), which say no more than that counters are natural numbers, that the priorities are among the three the code
knows, that there is room for one job, that runs and workers are finitely many, and that no element
plays two parts.

- `ExecutionQueueProofs!TypeCorrect`. It also establishes that only entries that exist are pending,
  processed, or in the hands of an operator.
- `ExecutionQueueProofs!NoJobIsLost` (`NoJobLost`). `NoJobLost` alone is not inductive: an XACK or an
  XDEL removes an entry, and nothing in the property says another one holds the job. The invariant
  adds, for each program counter, who accounts for the entry about to be removed: in `ack` a
  success; in `dlqAck` and `del` a newer live entry, or that the job is over.
- `ExecutionQueueContractProofs!QueueImplementsContract` (`AtLeastOnce`): each step of the queue is a
  step or a stutter of `AtLeastOnceQueue`. The abstract status of an entry is computed from the streams,
  the cursors and the pending list, which only mean something together: what is not yet read or not yet
  acknowledged is stored unless it was trimmed (or a read would skip it and it would look settled), only
  entries that were read are pending or held by a worker, and a worker about to acknowledge has a success
  or a dead-letter copy. This is the invariant `ContractInv`, on top of the one of `NoJobIsLost`.
- `ExecutionQueueContractProofs!OnlyIdleIsShared` (`ExclusiveUnlessIdle`), from the same invariant: a
  recovery takes idle entries, and a read those that nobody can hold, because what is held was read.
- `TaskCycleProofs!TypeCorrect`.
- `TaskCycleProofs!AuditTrailIsSound` (`AuditExplainsPhase`), for any number of callers. The
  invariant says the same of every snapshot about to be written: it is explained by the rows, and
  after `Record` so is its target. Rows are never removed, so explanations stay.
- `TaskCycleProofs!GatesHold` (`GatesWereOpened`). The phases behind a gate that has no approved row
  are cut off: no recorded row leads into them. Every write moves along a row.
- `TaskCycleProofs!SerialImplements` (`Serial`): with one caller, each step is a step or a stutter of
  `PhaseMachine`; the abstract `granted` is "an approved call has passed its checks".
- `AgentRunProofs!TypeCorrect`: only a worker with a job acts on the run.
- `AgentRunProofs!RunUsesTaskCycle`: each step of a run is a step or a stutter of `TaskCycle`, so the
  theorems about the cycle hold inside a run; `CycleOfRunIsAudited` states one of them, that the audit
  trail explains the phase of a run, for any number of workers and users who move it.
- `AgentRunProofs!RunUsesQueue`: each step of a run, of crashes and approvals too, is a step or a
  stutter of `AtLeastOnceQueue`. Together with `QueueImplementsContract` it closes the composition: a
  worker that settles, buries or completes a job asks nothing of the queue that the queue does not grant.
- `AgentRunProofs!CompletionIsVerified` (`CompletedWasVerified`), for any number of workers on one
  run. The status COMPLETED is written from a decision taken in phase COMPLETING, by a worker that may
  be long out of date; and it can come back in any stale row. The invariant says that before the
  gates were opened no row, in the table or in the hands of a worker or a user, is COMPLETED, no
  update is about to make it so, and no worker executes COMPLETING. It uses the gate invariant of
  `TaskCycleProofs` through `RunUsesTaskCycle`.
- `AgentRunSoleWorkerProofs!RunningIsNotForgotten` (`RunningHasJob`), for one worker at a time (the
  assumption `OneWorker`; `OnlyIdleIsShared` says when the queue gives a run to a second one) and any
  number of users. The invariant follows the job the worker holds: it stays claimed until it is
  acknowledged, and by then the run does not say RUNNING or the job is in the dead letters; an update
  under way never leads straight to the acknowledgement. With two workers nothing of the kind is
  claimed: the stale row of one can bring RUNNING back while the other, done, acknowledges the last job
  (TLC finds it with two workers in `AgentRunCancels.cfg`).
- `AgentRunSoleWorkerProofs!TakeoverHasOutputs` (`ResumesWithOutputs`), for one worker at a time and no
  users. The invariant `ResumeInv` says that what the phase of the cycle is built on is in the
  saved outputs, at all times and for the target of a transition under way, and that the worker's memory
  is the saved outputs or those with the phase it has just executed; so it does not matter where a
  delivery ends. An approver moves the cycle from a phase whose outputs nobody has saved, if the
  approval comes before the worker gets there, and a canceller's row has the outputs of some time ago:
  either of them breaks the property, in the model and in the code.
- `WorkspacesProofs!TypeCorrect`, and `RunningIsListed` (`ReaperSeesRunning`), which is inductive: whoever
  takes a run out of the index writes another status, or none, in the same transaction.
- `WorkspacesProofs!QuotaBound` (`QuotaOvershoot`), for any number of workers, deliveries and late
  heartbeats. A worker between its count and its record has a *claim* on a record, and so has one whose
  heartbeat may bring a record back; records and claims together never exceed the bound, because the
  count that lets a worker claim looks at the records, and each other worker has one claim at most.
- `WorkspacesProofs!LiveIsIntact` (`LiveWorkspaceIntact`) and `ContainersAreRecorded`
  (`ContainerIsRecorded`), for any number of workers, reapers and runs, and any idle limit. Both properties
  speak of a run that was delivered once, and the idea of their invariant `WorkspaceInv` is that such a
  run belongs to one worker: what its container, its record and its index entry are follows from
  where that worker and its heartbeat are (`Owned`), all others keep aside (`Apart`), a run that was never
  delivered has left no trace (`Fresh`), a reaper that is about to delete a record has removed the container
  or marked it (`Killed`), and a container that nobody owns has its record (`Kept`). A reaper can know of a
  workspace only once RUNNING was saved, and what it has found in the index it judges by the record it reads
  afterwards (`Marked`, `Swept`); from then on the heartbeats keep its age under the limit, or
  the heartbeat was cancelled and nothing is claimed.
- `LocalConnectorProofs!TypeCorrect`, with `TasksInRange`: a task makes no more attempts than it may.
- `LocalConnectorProofs!ResultsMatch` (`ResultIsOfAttempt`). The invariant follows results from the
  daemon to the task: each one on a connection is of an invocation that was executed, and `got` is set
  only for the attempt the task waits for, and reset with the next.
- `LocalConnectorProofs!NoRepeats` (`NoRepeat`) and `RunsInOrder` (`InOrderUnlessStored`), for any
  number of runs, sockets, calls and broken connections. There is one way to a daemon: its connection, its
  queue of tools, what it has executed. The invariant `OnceInv` says that this way as a whole is in order
  (`WayInOrder`), and what may still be put on it: a task sends one attempt, the newest, to daemons that do
  not have it; a handler sends what was stored, once, and no two handlers the same; what is buffered is
  nowhere else (`RunSends`, `SentOnce`, `KeptOnce`); and whatever is anywhere was made before the attempt
  the task is at (`AllMade`), so that a new one is new everywhere. An attempt that was stored may be
  overtaken, but never comes twice.
- `ConversationHubProofs!TypeCorrect`, and `AlwaysListening` (`Listening`). The recorded listener of a hub
  belongs to a subscriber of that hub that is past subscribing, and is open unless Redis failed it; who
  closes it takes the last subscriber out in the same step.
- `ConversationHubProofs!DeliveredOnce` (`OnceLive`), for any number of listeners. Each target of a
  broadcast has not had its event yet, its hub remembers the event, and two broadcasts of one event
  share no target.
- `ConversationHubProofs!NoGapEver` (`NoGap`). A hub remembers an event of another hub only when it has
  been announced and all subscribers with a replay had it, have it in their replay or are targets of a
  broadcast in progress; so a second listener may drop it. What is announced goes into the inbox of a
  listener, for who has fetched a replay has an open one at its hub.

Only model-checked: the three liveness properties, `EventuallySettled` and `IdleIsRecovered` of the queue
and `AbandonedIsReaped` of the workspaces; the prover handles neither fairness nor ENABLED. Every other
property of a run is proved, under no more than the assumptions on the constants, but for the two
of `AgentRunSoleWorkerProofs` and `Serial`, whose theorems say how many workers, callers and users there
are. No module declares a RECURSIVE operator; reachability along the audit trail is stated by closed sets instead.

## 5. Findings

What was met while modelling, quoted in `PROJECT.json`. Some of these have a property that the code does
not keep; it stands in its module, and TLC gives the counterexample when it is added to a
configuration: `FailedIsRetried` and `RecoveryEnds` under `FairSpec` of the queue with `MaxRetries = 2`,
`TerminalIsFinal` to `TaskCycleConcurrent.cfg`, `CancelledStaysCancelled` and `CheckpointMonotonic` to
`AgentRunCancels.cfg`; and `LiveWorkspaceIntact` without one of the conditions on its left.

- A failed job is not retried until some worker restarts.
- `max_retries` is not counted over deliveries.
- Recovery asks for idle entries until there are none. An entry whose handler fails after more than a
  minute, with retries left, is idle again by then: the worker never gets to its read loop.
- An ended cycle can be overwritten by a stale writer.
- A cancelled run is revived: the loop sets RUNNING, COMPLETED or FAILED whatever the status is.
  Cancelling also leaves the cycle as it is (a TODO at `work_item_execution_service.py:1636`) and the job
  in the queue.
- Gate policies are keyed by phase and looked up by gate type, so that no gate ever waits. A policy that the look-up did find would not make the run wait either:
  `_get_gate_type` raises, and the run fails.
- An exception without a text, a timeout of the model's client for one, or a plan that needs clarification
  and asks nothing, fails the run while the job is acknowledged as a success.
- The job that follows an approval names no execution mode, and fails; the update of the status
  before it fails too, silently.
- A clarification can be answered only in a status no run ever has; and a question asked while
  architecting or executing fails the run.
- The checkpoint number is not monotonic: a second worker writes an older row back, and so does
  already a user who cancels.
- *Workspaces.* Concurrent provisions exceed the quota. A FAILED record is never deleted and counts
  against the quota for ever. `retain_on_failure` never retains. A worker that is told to stop loses its
  workspace while it finishes its job. A late heartbeat can take RUNNING back to READY, after which the
  reaper does not see the workspace. A second delivery removes the container of the first.
- *Connector.* A lease is replayed to a socket that connects after the run is over: the daemon stays in
  it for ever, and its acknowledgement sets the run RUNNING again. A cancellation does not reach a
  daemon that is connected, and when it does it ends whatever lease is served. Leases are lost when
  their replay breaks off.
- *Conversation hub.* The replay is the oldest part of the stream. A second listener is forgotten and
  never closed. An event of the same hub is missed by a subscriber that connects between its broadcast
  and its XADD. A listener that fails is not replaced.

Not what one would expect, though no text says otherwise:

- With two workers on one run (a second delivery after a minute), or with an approver who moves the
  cycle while a worker executes a phase, a worker may lack the outputs its phase builds on:
  `ResumesWithOutputs` is a property of one worker by itself. A user who cancels can take the
  checkpoint back with the stale row, which breaks it as well.
- A timeout ends neither the run nor the cycle; when the job is dead-lettered the run says RUNNING
  until an operator acts. `RunningHasJob` says that it is then in the dead-letter queue.
- A failing COMPLETING phase completes the run. A rejection of the finished work (`accept_completion`
  with `accepted=False`) asks for a transition that COMPLETING does not have, and is refused.
- `test_iterations` also counts the way from VERIFYING back to FIXING, which has no limit.
- The depth that back-pressure looks at is XLEN, and XACK does not shorten a stream: under it the
  queue looks full until trimming.
- A daemon notices that its socket is closed only when it sends; between leases it never does.
- When the wait for a tool is cancelled from outside, its future stays in `_tool_futures`.
- A slow web socket holds up the listener of its hub, and with it everybody's events of other hubs.
- `stop` of the consumer does not cut a batch short: the loop ends after all entries it has read.

## 6. Not modelled

- *Queue*: `claim_job` and `ack_job` (a second way to take a single job, not used by the worker), the
  priority boost, and the read timeout as a time.
- *Cycle*: clarification threads and messages, phase timeouts, contents of results and documents.
- *Run*: two concurrent `execute` calls; answers to clarifications; direct execution without a queue
  and jobs that only stage a local connector; workspaces, pull requests, tools, model fall-back;
  session mode and `skip_phases` (every handler that advances names its next phase, so the fall-back
  that looks at them is not reached); failures of the database; trimming of the run's own job by
  others; sizes of checkpoints and that large ones keep only the keys of their outputs; the reaper.
- *Workspaces*: commands in a container, cloning as more than its failure, resources and plans, the
  in-memory store, a Redis that fails, other tenants (scopes do not meet), the bigger environment
  manager of the package (`executors/`, `cli.py`), which agent runs do not use.
- *Connector*: pairing, tokens, probes, heartbeats, progress reports, the tools themselves.
- *Conversation hub*: the cap on subscriptions, trimming and expiry of streams, the 2048 remembered ids,
  typing indicators, read receipts, commands of clients.
- *Other components*: as in the inventory, with the reasons in `PROJECT.json`.

## 7. Plan

Done, in this order: queue, cycle, run; workspaces, local connector, conversation hub; type invariants
and the safety theorems of section 4.

Next, the models (each with its hazards in `PROJECT.json`):

1. *Starting a run*: two `execute` calls on one work item, a death between run, cycle, link and job;
   abstract specification: at most one active run per item.
2. *Two workers on one run*: the checkpoint alone (rows read and written by two loops and a
   heartbeat), small enough for TLC when the cycle is replaced by its abstract steps.
3. *Clarifications*: threads and messages in `TaskCycle`, answers in `AgentRun`.
4. *Circuit breaker, device flow, execution event hub*: small modules with a discrete clock.
5. *Billing webhooks and action replay*, then board positions.

Then the proofs: the safety properties of the modules there are have theorems; each new model gets its
own. What two workers on one run still guarantee of its checkpoint is to be stated with the second
model of this list.
