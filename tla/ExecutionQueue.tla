--------------------------- MODULE ExecutionQueue ---------------------------
(***************************************************************************)
(* packages/execution-queue: priority queues of agent-execution jobs kept  *)
(* as Redis streams that one consumer group reads.                         *)
(*                                                                         *)
(*   ExecutionQueuePublisher   XADD to the stream of the job's priority    *)
(*   ExecutionQueueConsumer    recovers idle pending entries once, when it *)
(*                             starts, then reads new ones; XACKs an entry *)
(*                             when its handler succeeds; on a failure it  *)
(*                             leaves the entry pending or, when the job   *)
(*                             has used up its retries, copies it to the   *)
(*                             dead-letter stream and XACKs it             *)
(*   DeadLetterQueue           operators put a dead job back or delete it  *)
(*                                                                         *)
(* Every Redis command is one step, so other consumers, crashes, and lost  *)
(* connections interleave between the commands of one operation.           *)
(* All streams share one numbering: entry i of any stream is log[i].       *)
(***************************************************************************)
EXTENDS Naturals, FiniteSets

CONSTANTS Job,              \* jobs producers submit, each at most once
          Consumer,         \* worker processes of the consumer group
          Operator,         \* people or scripts working on the dead-letter queue
          Priority,         \* the priorities that are served
          MaxRetries,       \* max_retries: failures after which a job is dead
          BatchSize,        \* batch_size: XREADGROUP COUNT, per stream
          ClaimCount,       \* XAUTOCLAIM COUNT (10)
          MaxStreamLength,  \* XADD MAXLEN of the publisher
          MaxEntries,       \* bound: entries ever added to any stream
          MaxFaults,        \* bound: commands that raise (lost connections)
          NoJob, NoConsumer

ASSUME QueueAssumption ==
    /\ Priority \subseteq {"high", "normal", "low"}
    /\ MaxRetries \in Nat \ {0}
    /\ BatchSize \in Nat \ {0}
    /\ ClaimCount \in Nat \ {0}
    /\ MaxStreamLength \in Nat \ {0}
    /\ MaxEntries \in Nat
    /\ MaxFaults \in Nat
    /\ NoJob \notin Job
    /\ NoConsumer \notin Consumer

Ids == 1..MaxEntries
Rank(p) == CASE p = "high" -> 1 [] p = "normal" -> 2 [] p = "low" -> 3 [] OTHER -> 0
\* Recovery visits the streams in priority order.
LastLane == Cardinality(Priority)
InLane(s, k) == s \in Priority /\ Cardinality({p \in Priority : Rank(p) < Rank(s)}) = k - 1

Entry == [job : Job \cup {NoJob}, stream : Priority \cup {"dlq", "none"}, retries : Nat]
NoEntry == [job |-> NoJob, stream |-> "none", retries |-> 0]

VARIABLES
    \* Redis: the streams, and the group's cursor and pending-entries list
    last,       \* the newest entry id
    log,        \* id -> what XADD stored there
    present,    \* ids that have not been deleted or trimmed
    cursor,     \* priority -> last id delivered to the group
    owner,      \* id -> consumer it is pending for, or NoConsumer
    stale,      \* pending ids idle for more than claim_min_idle_ms
    \* consumers (memory of one process, lost when it stops)
    pc,         \* consumer -> where its loop is
    phase,      \* consumer -> the loop it returns to: "recover" or "poll"
    lane,       \* consumer -> recovery: position in the priority order, from 1
    cur,        \* consumer -> id being processed, 0 if none
    todo,       \* consumer -> ids claimed with it and not yet processed
    tries,      \* consumer -> retry_count of the job object in memory
    guarded,    \* consumer -> is the current nack inside the try of _process_message?
    stopping,   \* consumers asked to stop
    \* operators of the dead-letter queue
    opc, opId, opRetries,
    \* history, never read by a guard except against a bound
    succeeded,  \* ids some handler run completed successfully
    buried,     \* ids for which a dead-letter copy was written
    lost,       \* live ids discarded by trimming or by an operator
    faults      \* commands that raised so far

redis == <<last, log, present, cursor, owner, stale>>
local == <<pc, phase, lane, cur, todo, tries, guarded, stopping>>
ops == <<opc, opId, opRetries>>
history == <<succeeded, buried, lost, faults>>
vars == <<redis, local, ops, history>>

Init ==
    /\ last = 0
    /\ log = [i \in Ids |-> NoEntry]
    /\ present = {}
    /\ cursor = [p \in Priority |-> 0]
    /\ owner = [i \in Ids |-> NoConsumer]
    /\ stale = {}
    /\ pc = [c \in Consumer |-> "off"]
    /\ phase = [c \in Consumer |-> "poll"]
    /\ lane = [c \in Consumer |-> 1]
    /\ cur = [c \in Consumer |-> 0]
    /\ todo = [c \in Consumer |-> {}]
    /\ tries = [c \in Consumer |-> 0]
    /\ guarded = [c \in Consumer |-> FALSE]
    /\ stopping = {}
    /\ opc = [o \in Operator |-> "idle"]
    /\ opId = [o \in Operator |-> 0]
    /\ opRetries = [o \in Operator |-> 0]
    /\ succeeded = {}
    /\ buried = {}
    /\ lost = {}
    /\ faults = 0

-----------------------------------------------------------------------------
(* Streams.                                                                *)

InStream(s) == {i \in present : log[i].stream = s}
Undelivered(p) == {i \in InStream(p) : i > cursor[p]}

\* An entry of a priority stream is live while the group still owes it a
\* delivery or an acknowledgement; a dead-letter entry while it exists.
Live(i) ==
    /\ i \in present
    /\ \/ log[i].stream = "dlq"
       \/ /\ log[i].stream \in Priority
          /\ i > cursor[log[i].stream] \/ owner[i] # NoConsumer

Published == {log[i].job : i \in 1..last}

\* XADD of one entry.
XAdd(e) ==
    /\ last < MaxEntries
    /\ last' = last + 1
    /\ log' = [log EXCEPT ![last + 1] = e]

-----------------------------------------------------------------------------
(* ExecutionQueuePublisher.                                                *)

\* enqueue: XADD with MAXLEN ~, which may drop oldest entries of the stream,
\* delivered or not, but never leaves fewer than MaxStreamLength.
Enqueue(j, p, upto) ==
    LET cut == {i \in InStream(p) : i <= upto}
    IN  /\ j \notin Published
        /\ XAdd([job |-> j, stream |-> p, retries |-> 0])
        /\ upto \in cut \cup {0}
        /\ cut # {} => Cardinality(InStream(p)) + 1 - Cardinality(cut) >= MaxStreamLength
        /\ present' = (present \ cut) \cup {last + 1}
        /\ lost' = lost \cup {i \in cut : Live(i)}
        /\ UNCHANGED <<cursor, owner, stale, local, ops>>
        /\ UNCHANGED <<succeeded, buried, faults>>

-----------------------------------------------------------------------------
(* ExecutionQueueConsumer.                                                 *)

\* Messages of one reply are handled stream by stream in priority order, and
\* in id order within a stream.
Before(i, k) ==
    \/ Rank(log[i].stream) < Rank(log[k].stream)
    \/ log[i].stream = log[k].stream /\ i < k

\* Nothing is being processed, and nothing waits to be.
Forget(c) ==
    /\ cur' = [cur EXCEPT ![c] = 0]
    /\ todo' = [todo EXCEPT ![c] = {}]
    /\ tries' = [tries EXCEPT ![c] = 0]
    /\ guarded' = [guarded EXCEPT ![c] = FALSE]

\* Take up the first message of S, deserialising it (retry_count comes from
\* the stored entry), or go back to the loop it was read by.
Load(c, S) ==
    IF S = {}
    THEN pc' = [pc EXCEPT ![c] = phase[c]] /\ Forget(c)
    ELSE \E i \in S :
            /\ \A k \in S \ {i} : Before(i, k)
            /\ pc' = [pc EXCEPT ![c] = "handle"]
            /\ cur' = [cur EXCEPT ![c] = i]
            /\ todo' = [todo EXCEPT ![c] = S \ {i}]
            /\ tries' = [tries EXCEPT ![c] = log[i].retries]
            /\ guarded' = [guarded EXCEPT ![c] = FALSE]

\* Faulty variant for a check of the checks: failures are acknowledged too.
NackAcknowledges(c, inTry) ==
    /\ pc' = [pc EXCEPT ![c] = "ack"]
    /\ UNCHANGED <<cur, todo, tries, guarded>>

\* nack, up to its first Redis command: count the failure on the job object,
\* then either leave the entry pending or go on to the dead-letter stream.
Nack(c, inTry) ==
    IF tries[c] + 1 >= MaxRetries
    THEN /\ pc' = [pc EXCEPT ![c] = "dlqAdd"]
         /\ tries' = [tries EXCEPT ![c] = @ + 1]
         /\ guarded' = [guarded EXCEPT ![c] = inTry]
         /\ UNCHANGED <<cur, todo>>
    ELSE Load(c, todo[c])

\* Faulty variant: the next recovery would start before the first stream.
EndedBeforeFirst(c) ==
    /\ pc' = [pc EXCEPT ![c] = "off"]
    /\ lane' = [lane EXCEPT ![c] = 0]
    /\ UNCHANGED <<phase, stopping, cur, todo, tries, guarded>>

\* The process ends, and its memory with it.
Ended(c) ==
    /\ pc' = [pc EXCEPT ![c] = "off"]
    /\ phase' = [phase EXCEPT ![c] = "poll"]
    /\ lane' = [lane EXCEPT ![c] = 1]
    /\ stopping' = stopping \ {c}
    /\ Forget(c)

\* consume: the groups exist (created at id 0, so nothing published earlier
\* is missed); recovery runs before the first read.
Start(c) ==
    /\ pc[c] = "off"
    /\ pc' = [pc EXCEPT ![c] = "recover"]
    /\ phase' = [phase EXCEPT ![c] = "recover"]
    /\ UNCHANGED <<redis, lane, cur, todo, tries, guarded, stopping, ops, history>>

\* Faulty variant: recovery takes pending entries that are not idle.
ClaimableAtOnce(c) ==
    {i \in present : owner[i] # NoConsumer /\ InLane(log[i].stream, lane[c])}

\* The entries the next XAUTOCLAIM of c would return: idle ones of the stream
\* it is at, whoever they are pending for, oldest first, ClaimCount at most.
Claimable(c) ==
    LET idle == {i \in stale : i \in present /\ InLane(log[i].stream, lane[c])}
    IN  {i \in idle : Cardinality({k \in idle : k < i}) < ClaimCount}

Assign(c, S) ==
    /\ owner' = [i \in Ids |-> IF i \in S THEN c ELSE owner[i]]
    /\ stale' = stale \ S

\* _recover_pending: one XAUTOCLAIM that returned messages; the loop asks the
\* same stream again when they are processed.
RecoverClaim(c) ==
    /\ pc[c] = "recover"
    /\ Claimable(c) # {}
    /\ Assign(c, Claimable(c))
    /\ Load(c, Claimable(c))
    /\ UNCHANGED <<last, log, present, cursor, phase, lane, stopping, ops, history>>

\* The next stream, or the read loop after the last.
NextLane(c) ==
    IF lane[c] < LastLane
    THEN /\ lane' = [lane EXCEPT ![c] = @ + 1]
         /\ pc' = [pc EXCEPT ![c] = "recover"]
         /\ UNCHANGED phase
    ELSE /\ lane' = [lane EXCEPT ![c] = 1]
         /\ pc' = [pc EXCEPT ![c] = "poll"]
         /\ phase' = [phase EXCEPT ![c] = "poll"]

\* Faulty variant: recovery is over after the first stream.
RecoverNextEnds(c) ==
    /\ pc[c] = "recover"
    /\ Claimable(c) = {}
    /\ pc' = [pc EXCEPT ![c] = "poll"]
    /\ phase' = [phase EXCEPT ![c] = "poll"]
    /\ UNCHANGED <<redis, lane, cur, todo, tries, guarded, stopping, ops, history>>

\* ... and one that returned none.
RecoverNext(c) ==
    /\ pc[c] = "recover"
    /\ Claimable(c) = {}
    /\ NextLane(c)
    /\ UNCHANGED <<redis, cur, todo, tries, guarded, stopping, ops, history>>

\* XREADGROUP ">" COUNT BatchSize reads each stream up to upto[p].
ReadsUpTo(p, upto) ==
    IF Undelivered(p) = {}
    THEN upto[p] = cursor[p]
    ELSE LET read == {i \in Undelivered(p) : i <= upto[p]}
         IN  /\ upto[p] \in Undelivered(p)
             /\ Cardinality(read) <= BatchSize
             /\ Cardinality(read) = BatchSize \/ read = Undelivered(p)

ReadBatch(upto) ==
    {i \in present : log[i].stream \in Priority /\ i > cursor[log[i].stream]
                                                /\ i <= upto[log[i].stream]}

XReadGroup(c, upto) ==
    /\ \A p \in Priority : ReadsUpTo(p, upto)
    /\ ReadBatch(upto) # {}
    /\ cursor' = upto
    /\ Assign(c, ReadBatch(upto))

Poll(c, upto) ==
    /\ pc[c] = "poll" /\ c \notin stopping
    /\ XReadGroup(c, upto)
    /\ Load(c, ReadBatch(upto))
    /\ UNCHANGED <<last, log, present, phase, lane, stopping, ops, history>>

\* stop only clears the flag that the read loop tests between two reads.
Stop(c) ==
    /\ pc[c] # "off" /\ c \notin stopping
    /\ stopping' = stopping \cup {c}
    /\ UNCHANGED <<redis, pc, phase, lane, cur, todo, tries, guarded, ops, history>>

Exit(c) ==
    /\ pc[c] = "poll" /\ c \in stopping
    /\ Ended(c)
    /\ UNCHANGED <<redis, ops, history>>

-----------------------------------------------------------------------------
(* _process_message: one handler run and what follows it.                  *)

HandlerSucceeds(c) ==
    /\ pc[c] = "handle"
    /\ succeeded' = succeeded \cup {cur[c]}
    /\ pc' = [pc EXCEPT ![c] = "ack"]
    /\ UNCHANGED <<redis, phase, lane, cur, todo, tries, guarded, stopping, ops>>
    /\ UNCHANGED <<buried, lost, faults>>

\* FAILURE, TIMEOUT or CANCELLED is nacked in the try block; an exception of
\* the handler is nacked in the except block.
HandlerFails(c, raised) ==
    /\ pc[c] = "handle"
    /\ Nack(c, ~raised)
    /\ UNCHANGED <<redis, phase, lane, stopping, ops, history>>

\* XACK takes the entry off the pending list, whoever it is pending for.
XAck(i) ==
    /\ owner' = [owner EXCEPT ![i] = NoConsumer]
    /\ stale' = stale \ {i}

\* Faulty variant: the success is not acknowledged.
AckForgotten(c) ==
    /\ pc[c] = "ack"
    /\ Load(c, todo[c])
    /\ UNCHANGED <<redis, phase, lane, stopping, ops, history>>

Ack(c) ==
    /\ pc[c] = "ack"
    /\ XAck(cur[c])
    /\ Load(c, todo[c])
    /\ UNCHANGED <<last, log, present, cursor, phase, lane, stopping, ops, history>>

\* nack with no retries left: XADD to the dead-letter stream ...
DeadLetterAdd(c) ==
    /\ pc[c] = "dlqAdd"
    /\ XAdd([job |-> log[cur[c]].job, stream |-> "dlq", retries |-> tries[c]])
    /\ present' = present \cup {last + 1}
    /\ buried' = buried \cup {cur[c]}
    /\ pc' = [pc EXCEPT ![c] = "dlqAck"]
    /\ UNCHANGED <<cursor, owner, stale, phase, lane, cur, todo, tries, guarded, stopping, ops>>
    /\ UNCHANGED <<succeeded, lost, faults>>

\* ... and only then XACK of the original.
DeadLetterAck(c) ==
    /\ pc[c] = "dlqAck"
    /\ XAck(cur[c])
    /\ Load(c, todo[c])
    /\ UNCHANGED <<last, log, present, cursor, phase, lane, stopping, ops, history>>

-----------------------------------------------------------------------------
(* Failing commands. The connection is lost, before Redis carried the      *)
(* command out or with the reply (applied), or Redis refuses the command   *)
(* (refused: redis.ResponseError). Each costs one of MaxFaults.            *)

Fault ==
    /\ faults < MaxFaults
    /\ faults' = faults + 1

\* An exception that leaves _process_message: the read loop logs it and reads
\* on, forgetting the rest of its batch. Recovery goes on with the next stream
\* after a refused command, and has no handler for anything else, so that
\* consume ends and the worker with it.
Escape(c, refused) ==
    \/ phase[c] = "poll" /\ Load(c, {}) /\ UNCHANGED <<phase, lane, stopping>>
    \/ phase[c] = "recover" /\ refused /\ NextLane(c) /\ Forget(c) /\ UNCHANGED stopping
    \/ phase[c] = "recover" /\ ~refused /\ Ended(c)

\* The XACK of a success raises: the except block nacks the job.
AckRaises(c, applied) ==
    /\ pc[c] = "ack"
    /\ Fault
    /\ IF applied THEN XAck(cur[c]) ELSE UNCHANGED <<owner, stale>>
    /\ Nack(c, FALSE)
    /\ UNCHANGED <<last, log, present, cursor, phase, lane, stopping, ops>>
    /\ UNCHANGED <<succeeded, buried, lost>>

\* After an exception of a nack: once more from the except block, or out.
NackRaises(c, refused) ==
    IF guarded[c]
    THEN Nack(c, FALSE) /\ UNCHANGED <<phase, lane, stopping>>
    ELSE Escape(c, refused)

DeadLetterAddRaises(c, applied, refused) ==
    /\ pc[c] = "dlqAdd"
    /\ Fault /\ ~(applied /\ refused)
    /\ IF applied
       THEN /\ XAdd([job |-> log[cur[c]].job, stream |-> "dlq", retries |-> tries[c]])
            /\ present' = present \cup {last + 1}
            /\ buried' = buried \cup {cur[c]}
       ELSE UNCHANGED <<last, log, present, buried>>
    /\ NackRaises(c, refused)
    /\ UNCHANGED <<cursor, owner, stale, ops>>
    /\ UNCHANGED <<succeeded, lost>>

DeadLetterAckRaises(c, applied, refused) ==
    /\ pc[c] = "dlqAck"
    /\ Fault /\ ~(applied /\ refused)
    /\ IF applied THEN XAck(cur[c]) ELSE UNCHANGED <<owner, stale>>
    /\ NackRaises(c, refused)
    /\ UNCHANGED <<last, log, present, cursor, ops>>
    /\ UNCHANGED <<succeeded, buried, lost>>

\* The reply to a read is lost: the entries are pending for c, which does not
\* know them. The read loop goes on; recovery ends the worker.
PollRaises(c, upto) ==
    /\ pc[c] = "poll" /\ c \notin stopping
    /\ Fault
    /\ XReadGroup(c, upto)
    /\ UNCHANGED <<last, log, present, local, ops>>
    /\ UNCHANGED <<succeeded, buried, lost>>

RecoverRaises(c, applied, refused) ==
    /\ pc[c] = "recover"
    /\ Fault /\ ~(applied /\ refused)
    /\ IF applied THEN Assign(c, Claimable(c)) ELSE UNCHANGED <<owner, stale>>
    /\ Escape(c, refused)
    /\ UNCHANGED <<last, log, present, cursor, ops>>
    /\ UNCHANGED <<succeeded, buried, lost>>

\* The process dies, or its task is cancelled (CancelledError is caught by
\* neither except clause of _process_message): what it claimed stays pending.
Crash(c) ==
    /\ pc[c] # "off"
    /\ Ended(c)
    /\ UNCHANGED <<redis, ops, history>>

\* A pending entry has been idle for a minute, its handler running or not.
Expire(i) ==
    /\ owner[i] # NoConsumer /\ i \notin stale
    /\ stale' = stale \cup {i}
    /\ UNCHANGED <<last, log, present, cursor, owner, local, ops, history>>

-----------------------------------------------------------------------------
(* DeadLetterQueue.                                                        *)

\* Faulty variant: the dead-letter entry is deleted before it is put back.
RetryReadDeletes(o, d, reset) ==
    /\ opc[o] = "idle"
    /\ d \in InStream("dlq")
    /\ present' = present \ {d}
    /\ opc' = [opc EXCEPT ![o] = "add"]
    /\ opId' = [opId EXCEPT ![o] = d]
    /\ opRetries' = [opRetries EXCEPT ![o] = IF reset THEN 0 ELSE log[d].retries]
    /\ UNCHANGED <<last, log, cursor, owner, stale, local, history>>

\* retry_job: read the entry; the job object may get a fresh retry count ...
RetryRead(o, d, reset) ==
    /\ opc[o] = "idle"
    /\ d \in InStream("dlq")
    /\ opc' = [opc EXCEPT ![o] = "add"]
    /\ opId' = [opId EXCEPT ![o] = d]
    /\ opRetries' = [opRetries EXCEPT ![o] = IF reset THEN 0 ELSE log[d].retries]
    /\ UNCHANGED <<redis, local, history>>

\* ... XADD it to a priority stream (no MAXLEN here) ...
RetryAdd(o, p) ==
    /\ opc[o] = "add"
    /\ XAdd([job |-> log[opId[o]].job, stream |-> p, retries |-> opRetries[o]])
    /\ present' = present \cup {last + 1}
    /\ opc' = [opc EXCEPT ![o] = "del"]
    /\ UNCHANGED <<cursor, owner, stale, local, opId, opRetries, history>>

\* ... and XDEL it from the dead-letter stream.
RetryDelete(o) ==
    /\ opc[o] = "del"
    /\ present' = present \ {opId[o]}
    /\ opc' = [opc EXCEPT ![o] = "idle"]
    /\ opId' = [opId EXCEPT ![o] = 0]
    /\ opRetries' = [opRetries EXCEPT ![o] = 0]
    /\ UNCHANGED <<last, log, cursor, owner, stale, local, history>>

\* The operator's process dies between two commands.
RetryAbandoned(o) ==
    /\ opc[o] # "idle"
    /\ opc' = [opc EXCEPT ![o] = "idle"]
    /\ opId' = [opId EXCEPT ![o] = 0]
    /\ opRetries' = [opRetries EXCEPT ![o] = 0]
    /\ UNCHANGED <<redis, local, history>>

\* delete_job, and purge for each entry it selected.
DeadLetterDelete(d) ==
    /\ d \in InStream("dlq")
    /\ present' = present \ {d}
    /\ lost' = lost \cup {d}
    /\ UNCHANGED <<last, log, cursor, owner, stale, local, ops>>
    /\ UNCHANGED <<succeeded, buried, faults>>

-----------------------------------------------------------------------------
ConsumerStep(c) ==
    \/ Start(c) \/ RecoverClaim(c) \/ RecoverNext(c)
    \/ \E upto \in [Priority -> 0..MaxEntries] : Poll(c, upto)
    \/ Exit(c)
    \/ HandlerSucceeds(c) \/ Ack(c) \/ DeadLetterAdd(c) \/ DeadLetterAck(c)

HandlerFailure(c) == \E raised \in BOOLEAN : HandlerFails(c, raised)

ConsumerFault(c) ==
    \/ Crash(c)
    \/ \E upto \in [Priority -> 0..MaxEntries] : PollRaises(c, upto)
    \/ \E applied \in BOOLEAN : AckRaises(c, applied)
    \/ \E applied, refused \in BOOLEAN :
          \/ RecoverRaises(c, applied, refused)
          \/ DeadLetterAddRaises(c, applied, refused)
          \/ DeadLetterAckRaises(c, applied, refused)

OperatorStep(o) ==
    \/ \E d \in Ids, reset \in BOOLEAN : RetryRead(o, d, reset)
    \/ \E p \in Priority : RetryAdd(o, p)
    \/ RetryDelete(o)
    \/ RetryAbandoned(o)

\* Everything but a failing handler.
NextOther ==
    \/ \E j \in Job, p \in Priority, upto \in 0..MaxEntries : Enqueue(j, p, upto)
    \/ \E c \in Consumer : ConsumerStep(c) \/ Stop(c) \/ ConsumerFault(c)
    \/ \E i \in Ids : Expire(i) \/ DeadLetterDelete(i)
    \/ \E o \in Operator : OperatorStep(o)

Next == NextOther \/ \E c \in Consumer : HandlerFailure(c)

Spec == Init /\ [][Next]_vars

\* A worker that is up goes on: its loop runs, and the handler of a job ends
\* one way or the other, by the timeout of the job at the latest. Nobody has to
\* start a worker, and any worker may go down at any time.
Running(c) == pc[c] # "off" /\ (ConsumerStep(c) \/ HandlerFailure(c))

FairSpec == Spec /\ \A c \in Consumer : WF_vars(Running(c))

-----------------------------------------------------------------------------
(* Properties.                                                             *)

TypeOK ==
    /\ last \in 0..MaxEntries
    /\ log \in [Ids -> Entry]
    /\ present \subseteq 1..last
    /\ cursor \in [Priority -> 0..last]
    /\ owner \in [Ids -> Consumer \cup {NoConsumer}]
    /\ stale \subseteq 1..last
    /\ pc \in [Consumer -> {"off", "recover", "poll", "handle", "ack", "dlqAdd", "dlqAck"}]
    /\ phase \in [Consumer -> {"recover", "poll"}]
    /\ lane \in [Consumer -> Nat \ {0}]
    /\ cur \in [Consumer -> 0..last]
    /\ todo \in [Consumer -> SUBSET (1..last)]
    /\ tries \in [Consumer -> Nat]
    /\ guarded \in [Consumer -> BOOLEAN]
    /\ stopping \subseteq Consumer
    /\ opc \in [Operator -> {"idle", "add", "del"}]
    /\ opId \in [Operator -> 0..last]
    /\ opRetries \in [Operator -> Nat]
    /\ succeeded \subseteq 1..last
    /\ buried \subseteq 1..last
    /\ lost \subseteq 1..last
    /\ faults \in Nat

\* A job is over when a handler run of one of its entries succeeded, or when
\* capacity trimming or an operator discarded a live entry of it.
Over(j) == \E i \in succeeded \cup lost : log[i].job = j

\* No published job is ever nowhere: until it is over, some stream still holds
\* an entry of it that the group owes a delivery or an acknowledgement, or that
\* waits in the dead-letter queue. It is what the order of the commands in
\* nack (XADD, then XACK) and in retry_job (XADD, then XDEL) is for, whatever
\* crash, lost reply, second consumer or second operator comes between them.
NoJobLost ==
    \A j \in Published : Over(j) \/ \E i \in present : Live(i) /\ log[i].job = j

\* A worker is never handed an entry that another worker is still busy with
\* unless that entry has been idle for a minute: no mix of reads, recoveries,
\* lost replies, crashes and restarts runs one job twice at the same time
\* otherwise.
Held(c) == {cur[c]} \cup todo[c]
ExclusiveUnlessIdle ==
    [][\A c, d \in Consumer :
          c # d => Held(c) \cap (Held(d)' \ Held(d)) \subseteq stale \cup {0}]_vars

\* Entry by entry the queue implements the at-least-once contract: an entry
\* leaves the group only after a successful run or a dead-letter copy, is never
\* delivered again once it left, and is dropped by nothing but trimming.
EntryStatus(i) ==
    IF log[i].stream \notin Priority THEN "absent"
    ELSE IF i \in lost THEN "dropped"
    ELSE IF i > cursor[log[i].stream] THEN "ready"
    ELSE IF owner[i] # NoConsumer THEN "claimed"
    ELSE "settled"

Contract == INSTANCE AtLeastOnceQueue WITH
    Entries <- Ids,
    status <- [i \in Ids |-> EntryStatus(i)],
    succeeded <- succeeded,
    buried <- buried

AtLeastOnce == Contract!Spec

Done(i) == EntryStatus(i) \in {"settled", "dropped"}

\* Every new entry is finally acknowledged, by a success or a copy in the dead
\* letters, or trimmed, if one worker stays up, whatever becomes of the others;
\* except that the worker it was given to may go down with it. (MaxRetries = 1;
\* a job with retries left waits for a worker that starts, see FailedIsRetried.
\* The instance may be out of entries for the copies.)
EventuallySettled ==
    (\E c \in Consumer : <>[](pc[c] # "off")) =>
        \A i \in Ids : EntryStatus(i) = "ready" ~>
            \/ Done(i)
            \/ \E c \in Consumer : owner[i] = c /\ pc[c] = "off"
            \/ last = MaxEntries

\* What a worker that went down has left behind is not left for ever: a worker
\* that starts settles every entry idle by then, in each of the streams, unless
\* it goes down itself or another worker has the entry.
Recovering(c, i) ==
    /\ pc[c] = "recover" /\ i \in stale \cap present
    /\ \E k \in lane[c]..LastLane : InLane(log[i].stream, k)
IdleIsRecovered ==
    \A c \in Consumer, i \in Ids : Recovering(c, i) ~>
        \/ Done(i)
        \/ pc[c] = "off"
        \/ \E d \in Consumer \ {c} : i \in Held(d)
        \/ last = MaxEntries

\* A failed entry is finally acknowledged or trimmed, which is what "left in
\* pending for retry" asks. The code does not keep this: no worker has to start,
\* and only one that does looks at the pending entries.
FailedIsRetried ==
    \A i \in Ids : EntryStatus(i) = "claimed" ~> Done(i)

\* A worker that starts gets as far as its read loop, or goes down. The code does
\* not keep this for MaxRetries > 1: an entry that keeps failing after more than
\* a minute is idle again when recovery asks once more, with its old count.
RecoveryEnds ==
    \A c \in Consumer : pc[c] = "recover" ~> pc[c] \in {"poll", "off"}

=============================================================================
