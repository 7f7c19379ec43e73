------------------------ MODULE ExecutionQueueProofs ------------------------
(***************************************************************************)
(* Proofs about ExecutionQueue for every set of jobs, consumers and        *)
(* operators and every value of the limits.                                *)
(***************************************************************************)
EXTENDS ExecutionQueue, TLAPS

PCs == {"off", "recover", "poll", "handle", "ack", "dlqAdd", "dlqAck"}

Busy == {"handle", "ack", "dlqAdd", "dlqAck"}

\* TypeOK is inductive with this: only entries that exist are pending, a
\* consumer that works on a message has one, and so has an operator in the
\* middle of a retry.
TypeInv ==
    /\ TypeOK
    /\ \A i \in Ids : owner[i] # NoConsumer => i \in 1..last
    /\ \A c \in Consumer : pc[c] \in Busy => cur[c] # 0
    /\ \A o \in Operator : opc[o] # "idle" => opId[o] # 0

\* The part of TypeInv about a consumer's memory of its messages, for ids up to n.
WorkOK(n) ==
    /\ pc \in [Consumer -> PCs]
    /\ cur \in [Consumer -> 0..n]
    /\ todo \in [Consumer -> SUBSET (1..n)]
    /\ tries \in [Consumer -> Nat]
    /\ guarded \in [Consumer -> BOOLEAN]
    /\ \A c \in Consumer : pc[c] \in Busy => cur[c] # 0

LoopOK ==
    /\ phase \in [Consumer -> {"recover", "poll"}]
    /\ lane \in [Consumer -> Nat \ {0}]
    /\ stopping \subseteq Consumer

RedisOK(n) ==
    /\ log \in [Ids -> Entry]
    /\ present \subseteq 1..n
    /\ cursor \in [Priority -> 0..n]
    /\ owner \in [Ids -> Consumer \cup {NoConsumer}]
    /\ \A i \in Ids : owner[i] # NoConsumer => i \in 1..n
    /\ stale \subseteq 1..n

OpsOK(n) ==
    /\ opc \in [Operator -> {"idle", "add", "del"}]
    /\ opId \in [Operator -> 0..n]
    /\ opRetries \in [Operator -> Nat]
    /\ \A o \in Operator : opc[o] # "idle" => opId[o] # 0

HistoryOK(n) ==
    /\ succeeded \subseteq 1..n
    /\ buried \subseteq 1..n
    /\ lost \subseteq 1..n
    /\ faults \in Nat

\* TypeInv in parts; each part stays true when more ids come to exist.
LEMMA TypeParts ==
    ASSUME TypeInv, NEW n \in Nat, last <= n
    PROVE  /\ RedisOK(n) /\ WorkOK(n) /\ LoopOK /\ OpsOK(n) /\ HistoryOK(n)
           /\ last \in Nat /\ last <= MaxEntries /\ MaxEntries \in Nat
<1>1. last \in Nat /\ MaxEntries \in Nat /\ last <= MaxEntries
  BY QueueAssumption DEF TypeInv, TypeOK
<1>2. 0..last \subseteq 0..n /\ 1..last \subseteq 1..n
  BY <1>1
<1>3. SUBSET (1..last) \subseteq SUBSET (1..n)
  BY <1>2
<1> QED
  BY <1>1, <1>2, <1>3 DEF TypeInv, TypeOK, RedisOK, WorkOK, LoopOK, OpsOK, HistoryOK, PCs, Busy

\* Load keeps the consumer's memory well-formed.
LEMMA LoadType ==
    ASSUME TypeInv, NEW n \in Nat, last <= n,
           NEW c \in Consumer, NEW S \in SUBSET (1..last), Load(c, S)
    PROVE  WorkOK(n)'
<1>1. log \in [Ids -> Entry] /\ last \in 0..MaxEntries /\ MaxEntries \in Nat
  BY QueueAssumption DEF TypeInv, TypeOK
<1>2. \A i \in 1..last : log[i].retries \in Nat
  BY <1>1 DEF Ids, Entry
<1>3. phase[c] \in PCs \ Busy
  BY DEF TypeInv, TypeOK, PCs, Busy
<1>4. WorkOK(n)
  BY TypeParts
<1>5. CASE S = {}
  <2>1. 0 \in 0..n /\ {} \in SUBSET (1..n) /\ 0 \in Nat
    OBVIOUS
  <2> QED BY <1>3, <1>4, <1>5, <2>1 DEF Load, Forget, WorkOK
<1>6. CASE S # {}
  <2>1. PICK i \in S : /\ pc' = [pc EXCEPT ![c] = "handle"]
                       /\ cur' = [cur EXCEPT ![c] = i]
                       /\ todo' = [todo EXCEPT ![c] = S \ {i}]
                       /\ tries' = [tries EXCEPT ![c] = log[i].retries]
                       /\ guarded' = [guarded EXCEPT ![c] = FALSE]
    BY <1>6 DEF Load
  <2>2. i \in 0..n /\ i # 0 /\ S \ {i} \in SUBSET (1..n) /\ log[i].retries \in Nat
    BY <1>1, <1>2
  <2> QED
    BY <2>1, <2>2, <1>4 DEF WorkOK, PCs, Busy
<1> QED
  BY <1>5, <1>6

\* Nack keeps it well-formed too.
LEMMA NackType ==
    ASSUME TypeInv, NEW n \in Nat, last <= n,
           NEW c \in Consumer, NEW inTry \in BOOLEAN, pc[c] \in Busy, Nack(c, inTry)
    PROVE  WorkOK(n)'
<1>1. CASE tries[c] + 1 >= MaxRetries
  <2>1. WorkOK(n)
    BY TypeParts
  <2>2. tries[c] + 1 \in Nat
    BY DEF TypeInv, TypeOK
  <2> QED BY <1>1, <2>1, <2>2 DEF Nack, WorkOK, PCs, Busy
<1>2. CASE ~(tries[c] + 1 >= MaxRetries)
  <2>1. Load(c, todo[c]) /\ todo[c] \in SUBSET (1..last)
    BY <1>2 DEF Nack, TypeInv, TypeOK
  <2> QED BY <2>1, LoadType
<1> QED BY <1>1, <1>2

LEMMA EndedType ==
    ASSUME TypeInv, NEW n \in Nat, last <= n, NEW c \in Consumer, Ended(c)
    PROVE  WorkOK(n)' /\ LoopOK'
<1>1. 0 \in 0..n /\ {} \in SUBSET (1..n)
  OBVIOUS
<1>2. WorkOK(n) /\ LoopOK
  BY TypeParts
<1> QED BY <1>1, <1>2 DEF Ended, Forget, WorkOK, LoopOK, PCs, Busy

\* The parts put together again.
LEMMA TypeWhole ==
    ASSUME NEW n \in Nat, n <= MaxEntries, last' = n,
           RedisOK(n)', WorkOK(n)', LoopOK', OpsOK(n)', HistoryOK(n)'
    PROVE  TypeInv'
BY DEF TypeInv, TypeOK, RedisOK, WorkOK, LoopOK, OpsOK, HistoryOK, PCs, Busy

LEMMA XAddType ==
    ASSUME TypeInv, NEW e \in Entry, XAdd(e)
    PROVE  /\ last' = last + 1 /\ last' \in Nat /\ last' <= MaxEntries /\ last' \in Ids
           /\ log' \in [Ids -> Entry]
           /\ log'[last'] = e
           /\ \A i \in 1..last : i \in Ids /\ log'[i] = log[i]
BY QueueAssumption DEF TypeInv, TypeOK, XAdd, Ids

LEMMA AssignType ==
    ASSUME TypeInv, NEW c \in Consumer, NEW S \in SUBSET (1..last), Assign(c, S)
    PROVE  /\ owner' \in [Ids -> Consumer \cup {NoConsumer}]
           /\ \A i \in Ids : owner'[i] # NoConsumer => i \in 1..last
           /\ stale' \subseteq 1..last
BY DEF TypeInv, TypeOK, Assign

LEMMA XAckType ==
    ASSUME TypeInv, NEW i, XAck(i)
    PROVE  /\ owner' \in [Ids -> Consumer \cup {NoConsumer}]
           /\ \A k \in Ids : owner'[k] # NoConsumer => k \in 1..last
           /\ stale' \subseteq 1..last
BY DEF TypeInv, TypeOK, XAck

\* A read moves the cursor to ids that exist.
LEMMA ReadsType ==
    ASSUME TypeInv, NEW upto, \A p \in Priority : ReadsUpTo(p, upto)
    PROVE  \A p \in Priority : upto[p] \in 0..last
<1> SUFFICES ASSUME NEW p \in Priority PROVE upto[p] \in 0..last
  OBVIOUS
<1>1. ReadsUpTo(p, upto)
  OBVIOUS
<1>3. cursor[p] \in 0..last /\ last \in Nat
  BY QueueAssumption DEF TypeInv, TypeOK
<1>4. Undelivered(p) \subseteq 1..last
  BY DEF Undelivered, InStream, TypeInv, TypeOK
<1>2. upto[p] = cursor[p] \/ upto[p] \in Undelivered(p)
  BY <1>1 DEF ReadsUpTo
<1> QED BY <1>2, <1>3, <1>4

LEMMA EnqueueType ==
    ASSUME TypeInv, NEW j \in Job, NEW p \in Priority, NEW upto \in 0..MaxEntries,
           Enqueue(j, p, upto)
    PROVE  TypeInv'
<1> DEFINE e == [job |-> j, stream |-> p, retries |-> 0]
<1>1. e \in Entry /\ XAdd(e)
  BY DEF Entry, Enqueue
<1>2. PICK n \in Nat : n = last + 1
  BY QueueAssumption DEF TypeInv, TypeOK
<1>3. last' = n /\ n <= MaxEntries /\ n \in 1..n /\ last <= n /\ log' \in [Ids -> Entry]
  BY <1>1, <1>2, XAddType, QueueAssumption DEF TypeInv, TypeOK
<1>4. RedisOK(n) /\ WorkOK(n) /\ LoopOK /\ OpsOK(n) /\ HistoryOK(n)
  BY <1>3, TypeParts
<1>5. lost' \subseteq 1..n
  BY <1>4 DEF Enqueue, Live, InStream, RedisOK, HistoryOK
<1>6. RedisOK(n)' /\ HistoryOK(n)'
  BY <1>2, <1>3, <1>4, <1>5 DEF Enqueue, RedisOK, HistoryOK
<1>7. WorkOK(n)' /\ LoopOK' /\ OpsOK(n)'
  BY <1>4 DEF Enqueue, WorkOK, LoopOK, OpsOK, local, ops
<1> QED
  BY <1>3, <1>6, <1>7, TypeWhole


\* A step of a consumer that adds no entry.
LEMMA ConsumerType ==
    ASSUME TypeInv, NEW c \in Consumer,
           ConsumerStep(c) \/ HandlerFailure(c) \/ Stop(c), ~DeadLetterAdd(c)
    PROVE  TypeInv'
<1>1. PICK n \in Nat : n = last
  BY QueueAssumption DEF TypeInv, TypeOK
<1>2. RedisOK(n) /\ WorkOK(n) /\ LoopOK /\ OpsOK(n) /\ HistoryOK(n) /\ n <= MaxEntries
  BY <1>1, TypeParts
<1> DEFINE Parts == last' = n /\ RedisOK(n)' /\ WorkOK(n)' /\ LoopOK' /\ OpsOK(n)' /\ HistoryOK(n)'
<1>3. ASSUME Start(c) PROVE Parts
  BY <1>1, <1>2, <1>3 DEF Start, redis, ops, history, RedisOK, WorkOK, LoopOK, OpsOK, HistoryOK, PCs, Busy
<1>4. ASSUME RecoverClaim(c) PROVE Parts
  <2>1. Claimable(c) \in SUBSET (1..last)
    BY DEF Claimable, TypeInv, TypeOK
  <2>2. WorkOK(n)'
    BY <2>1, <1>1, <1>4, LoadType DEF RecoverClaim
  <2>3. RedisOK(n)'
    BY <1>1, <1>2, <1>4, <2>1, AssignType DEF RecoverClaim, RedisOK
  <2> QED
    BY <1>1, <1>2, <1>4, <2>2, <2>3 DEF RecoverClaim, ops, history, LoopOK, OpsOK, HistoryOK
<1>5. ASSUME RecoverNext(c) PROVE Parts
  <2>1. lane[c] + 1 \in Nat \ {0}
    BY <1>2 DEF LoopOK
  <2>2. WorkOK(n)' /\ LoopOK'
    BY <1>2, <1>5, <2>1 DEF RecoverNext, NextLane, WorkOK, LoopOK, PCs, Busy
  <2> QED
    BY <1>1, <1>2, <1>5, <2>2 DEF RecoverNext, redis, ops, history, RedisOK, OpsOK, HistoryOK
<1>6. ASSUME NEW upto \in [Priority -> 0..MaxEntries], Poll(c, upto) PROVE Parts
  <2>1. ReadBatch(upto) \in SUBSET (1..last)
    BY DEF ReadBatch, TypeInv, TypeOK
  <2>2. WorkOK(n)'
    BY <2>1, <1>1, <1>6, LoadType DEF Poll
  <2>3. \A p \in Priority : upto[p] \in 0..n
    BY <1>1, <1>6, ReadsType DEF Poll, XReadGroup
  <2>4. RedisOK(n)'
    BY <1>1, <1>2, <1>6, <2>1, <2>3, AssignType DEF Poll, XReadGroup, RedisOK
  <2> QED
    BY <1>1, <1>2, <1>6, <2>2, <2>4 DEF Poll, ops, history, LoopOK, OpsOK, HistoryOK
<1>7. ASSUME Exit(c) PROVE Parts
  <2>1. WorkOK(n)' /\ LoopOK'
    BY <1>1, <1>7, EndedType DEF Exit
  <2> QED
    BY <1>1, <1>2, <1>7, <2>1 DEF Exit, redis, ops, history, RedisOK, OpsOK, HistoryOK
<1>8. ASSUME HandlerSucceeds(c) PROVE Parts
  <2>1. cur[c] \in 1..n
    BY <1>2, <1>8 DEF HandlerSucceeds, WorkOK, Busy
  <2>2. WorkOK(n)'
    BY <1>2, <1>8, <2>1 DEF HandlerSucceeds, WorkOK, PCs, Busy
  <2>3. RedisOK(n)' /\ HistoryOK(n)'
    BY <1>2, <1>8, <2>1 DEF HandlerSucceeds, redis, RedisOK, HistoryOK
  <2> QED
    BY <1>1, <1>2, <1>8, <2>2, <2>3 DEF HandlerSucceeds, redis, ops, LoopOK, OpsOK
<1>9. ASSUME NEW i, XAck(i), Load(c, todo[c]),
             UNCHANGED <<last, log, present, cursor, phase, lane, stopping, ops, history>>
      PROVE  Parts
  <2>1. todo[c] \in SUBSET (1..last)
    BY DEF TypeInv, TypeOK
  <2>2. WorkOK(n)'
    BY <2>1, <1>1, <1>9, LoadType
  <2>3. RedisOK(n)'
    BY <1>1, <1>2, <1>9, XAckType DEF RedisOK
  <2> QED
    BY <1>1, <1>2, <1>9, <2>2, <2>3 DEF ops, history, LoopOK, OpsOK, HistoryOK
<1>10. ASSUME NEW raised \in BOOLEAN, HandlerFails(c, raised) PROVE Parts
  <2>1. pc[c] \in Busy /\ Nack(c, ~raised) /\ (~raised) \in BOOLEAN
    BY <1>10 DEF HandlerFails, Busy
  <2>2. last <= n
    BY <1>1
  <2>3. WorkOK(n)'
    BY <2>1, <2>2, NackType, Zenon
  <2> QED
    BY <1>1, <1>2, <1>10, <2>3 DEF HandlerFails, redis, ops, history, RedisOK, LoopOK, OpsOK, HistoryOK
<1>11. ASSUME Stop(c) PROVE Parts
  BY <1>1, <1>2, <1>11 DEF Stop, redis, ops, history, RedisOK, WorkOK, LoopOK, OpsOK, HistoryOK
<1>12. Parts
  BY <1>3, <1>4, <1>5, <1>6, <1>7, <1>8, <1>9, <1>10, <1>11
     DEF ConsumerStep, HandlerFailure, Ack, DeadLetterAck
<1> QED
  BY <1>2, <1>12, TypeWhole

\* The dead-letter copy a busy consumer would write.
LEMMA DeadLetterEntry ==
    ASSUME TypeInv, NEW c \in Consumer, pc[c] \in Busy
    PROVE  /\ cur[c] \in 1..last /\ cur[c] \in Ids
           /\ [job |-> log[cur[c]].job, stream |-> "dlq", retries |-> tries[c]] \in Entry
<1>1. cur[c] \in 1..last /\ cur[c] \in Ids
  BY QueueAssumption DEF TypeInv, TypeOK, Ids
<1>2. log[cur[c]] \in Entry /\ tries[c] \in Nat
  BY <1>1 DEF TypeInv, TypeOK
<1> QED
  BY <1>1, <1>2 DEF Entry

LEMMA DeadLetterAddType ==
    ASSUME TypeInv, NEW c \in Consumer, DeadLetterAdd(c)
    PROVE  TypeInv'
<1>1. PICK n \in Nat : n = last + 1
  BY QueueAssumption DEF TypeInv, TypeOK
<1>2. XAdd([job |-> log[cur[c]].job, stream |-> "dlq", retries |-> tries[c]])
  BY DEF DeadLetterAdd
<1>3. pc[c] \in Busy
  BY DEF DeadLetterAdd, Busy
<1>4. last' = n /\ n <= MaxEntries /\ n \in 1..n /\ last <= n /\ log' \in [Ids -> Entry]
  BY <1>1, <1>2, <1>3, DeadLetterEntry, XAddType, QueueAssumption DEF TypeInv, TypeOK
<1>5. RedisOK(n) /\ WorkOK(n) /\ LoopOK /\ OpsOK(n) /\ HistoryOK(n)
  BY <1>4, TypeParts
<1>6. cur[c] \in 1..n
  BY <1>1, <1>3, DeadLetterEntry DEF TypeInv, TypeOK
<1>7. RedisOK(n)'
  BY <1>1, <1>4, <1>5 DEF DeadLetterAdd, RedisOK
<1>8. WorkOK(n)'
  BY <1>5, <1>6 DEF DeadLetterAdd, WorkOK, PCs, Busy
<1>9. LoopOK' /\ OpsOK(n)' /\ HistoryOK(n)'
  BY <1>5, <1>6 DEF DeadLetterAdd, ops, LoopOK, OpsOK, HistoryOK
<1> QED
  BY <1>4, <1>7, <1>8, <1>9, TypeWhole

LEMMA EscapeType ==
    ASSUME TypeInv, NEW n \in Nat, last <= n, NEW c \in Consumer,
           NEW refused \in BOOLEAN, Escape(c, refused)
    PROVE  WorkOK(n)' /\ LoopOK'
<1>0. WorkOK(n) /\ LoopOK
  BY TypeParts
<1>1. ASSUME Load(c, {}), UNCHANGED <<phase, lane, stopping>>
      PROVE  WorkOK(n)' /\ LoopOK'
  <2>1. {} \in SUBSET (1..last)
    OBVIOUS
  <2> QED BY <1>0, <1>1, <2>1, LoadType DEF LoopOK
<1>2. ASSUME NextLane(c), Forget(c), UNCHANGED stopping
      PROVE  WorkOK(n)' /\ LoopOK'
  <2>1. lane[c] + 1 \in Nat \ {0} /\ 0 \in 0..n /\ {} \in SUBSET (1..n)
    BY <1>0 DEF LoopOK
  <2>2. LoopOK'
    BY <1>0, <1>2, <2>1 DEF NextLane, LoopOK
  <2> QED BY <1>0, <1>2, <2>1, <2>2 DEF NextLane, Forget, WorkOK, PCs, Busy
<1> QED BY <1>1, <1>2, EndedType DEF Escape

LEMMA NackRaisesType ==
    ASSUME TypeInv, NEW n \in Nat, last <= n, NEW c \in Consumer, pc[c] \in Busy,
           NEW refused \in BOOLEAN, NackRaises(c, refused)
    PROVE  WorkOK(n)' /\ LoopOK'
<1>1. CASE guarded[c]
  <2>1. Nack(c, FALSE) /\ UNCHANGED <<phase, lane, stopping>> /\ FALSE \in BOOLEAN
    BY <1>1 DEF NackRaises
  <2>2. LoopOK
    BY TypeParts
  <2>3. WorkOK(n)'
    BY <2>1, NackType
  <2> QED BY <2>1, <2>2, <2>3 DEF LoopOK
<1>2. CASE ~guarded[c]
  BY <1>2, EscapeType DEF NackRaises
<1> QED BY <1>1, <1>2

\* A fault of a consumer.
LEMMA FaultType ==
    ASSUME TypeInv, NEW c \in Consumer, ConsumerFault(c),
           \A refused \in BOOLEAN : ~DeadLetterAddRaises(c, TRUE, refused)
    PROVE  TypeInv'
<1>1. PICK n \in Nat : n = last
  BY QueueAssumption DEF TypeInv, TypeOK
<1>2. RedisOK(n) /\ WorkOK(n) /\ LoopOK /\ OpsOK(n) /\ HistoryOK(n) /\ n <= MaxEntries
  BY <1>1, TypeParts
<1> DEFINE Parts == last' = n /\ RedisOK(n)' /\ WorkOK(n)' /\ LoopOK' /\ OpsOK(n)' /\ HistoryOK(n)'
<1>3. ASSUME Crash(c) PROVE Parts
  <2>1. WorkOK(n)' /\ LoopOK'
    BY <1>1, <1>3, EndedType DEF Crash
  <2> QED
    BY <1>1, <1>2, <1>3, <2>1 DEF Crash, redis, ops, history, RedisOK, OpsOK, HistoryOK
<1>4. ASSUME NEW upto \in [Priority -> 0..MaxEntries], PollRaises(c, upto) PROVE Parts
  <2>1. \A p \in Priority : upto[p] \in 0..n
    BY <1>1, <1>2, <1>4, ReadsType DEF PollRaises, XReadGroup
  <2>4. ReadBatch(upto) \in SUBSET (1..last)
    BY DEF ReadBatch, TypeInv, TypeOK
  <2>2. RedisOK(n)'
    BY <1>1, <1>2, <1>4, <2>1, <2>4, AssignType DEF PollRaises, XReadGroup, RedisOK
  <2>3. WorkOK(n)' /\ LoopOK'
    BY <1>2, <1>4 DEF PollRaises, local, WorkOK, LoopOK
  <2> QED
    BY <1>1, <1>2, <1>4, <2>2, <2>3 DEF PollRaises, Fault, ops, OpsOK, HistoryOK
<1>5. ASSUME NEW applied \in BOOLEAN, NEW refused \in BOOLEAN,
             RecoverRaises(c, applied, refused)
      PROVE  Parts
  <2>1. WorkOK(n)' /\ LoopOK'
    BY <1>1, <1>5, EscapeType DEF RecoverRaises
  <2>3. Claimable(c) \in SUBSET (1..last)
    BY DEF Claimable, TypeInv, TypeOK
  <2>2. RedisOK(n)'
    BY <1>1, <1>2, <1>5, <2>3, AssignType DEF RecoverRaises, RedisOK
  <2> QED
    BY <1>1, <1>2, <1>5, <2>1, <2>2 DEF RecoverRaises, Fault, ops, OpsOK, HistoryOK
<1>6. ASSUME NEW applied \in BOOLEAN, AckRaises(c, applied) PROVE Parts
  <2>1. pc[c] \in Busy /\ Nack(c, FALSE) /\ FALSE \in BOOLEAN
    BY <1>6 DEF AckRaises, Busy
  <2>2. last <= n
    BY <1>1
  <2>4. WorkOK(n)'
    BY <2>1, <2>2, NackType, Zenon
  <2>3. RedisOK(n)'
    BY <1>1, <1>2, <1>6, XAckType DEF AckRaises, RedisOK
  <2> QED
    BY <1>1, <1>2, <1>6, <2>3, <2>4 DEF AckRaises, Fault, ops, LoopOK, OpsOK, HistoryOK
<1>7. ASSUME NEW applied \in BOOLEAN, NEW refused \in BOOLEAN,
             DeadLetterAckRaises(c, applied, refused)
      PROVE  Parts
  <2>1. pc[c] \in Busy /\ NackRaises(c, refused)
    BY <1>7 DEF DeadLetterAckRaises, Busy
  <2>2. WorkOK(n)' /\ LoopOK'
    BY <1>1, <2>1, NackRaisesType
  <2>3. RedisOK(n)'
    BY <1>1, <1>2, <1>7, XAckType DEF DeadLetterAckRaises, RedisOK
  <2> QED
    BY <1>1, <1>2, <1>7, <2>2, <2>3 DEF DeadLetterAckRaises, Fault, ops, OpsOK, HistoryOK
<1>8. ASSUME NEW refused \in BOOLEAN, DeadLetterAddRaises(c, FALSE, refused) PROVE Parts
  <2>1. pc[c] \in Busy /\ NackRaises(c, refused)
    BY <1>8 DEF DeadLetterAddRaises, Busy
  <2>2. WorkOK(n)' /\ LoopOK'
    BY <1>1, <2>1, NackRaisesType
  <2>3. /\ faults' = faults + 1
        /\ UNCHANGED <<last, log, present, cursor, owner, stale>>
        /\ UNCHANGED <<opc, opId, opRetries, succeeded, buried, lost>>
    BY <1>8, Zenon DEF DeadLetterAddRaises, Fault, ops
  <2> QED
    BY <1>1, <1>2, <2>2, <2>3 DEF RedisOK, OpsOK, HistoryOK
<1>9. Parts
  BY <1>3, <1>4, <1>5, <1>6, <1>7, <1>8 DEF ConsumerFault
<1> QED
  BY <1>2, <1>9, TypeWhole

LEMMA DeadLetterAddRaisesType ==
    ASSUME TypeInv, NEW c \in Consumer,
           NEW refused \in BOOLEAN, DeadLetterAddRaises(c, TRUE, refused)
    PROVE  TypeInv'
<1>1. PICK n \in Nat : n = last + 1
  BY QueueAssumption DEF TypeInv, TypeOK
<1>2. XAdd([job |-> log[cur[c]].job, stream |-> "dlq", retries |-> tries[c]])
  BY DEF DeadLetterAddRaises
<1>3. pc[c] \in Busy /\ NackRaises(c, refused)
  BY DEF DeadLetterAddRaises, Busy
<1>4. last' = n /\ n <= MaxEntries /\ n \in 1..n /\ last <= n /\ log' \in [Ids -> Entry]
  BY <1>1, <1>2, <1>3, DeadLetterEntry, XAddType, QueueAssumption DEF TypeInv, TypeOK
<1>5. RedisOK(n) /\ OpsOK(n) /\ HistoryOK(n)
  BY <1>4, TypeParts
<1>6. cur[c] \in 1..n
  BY <1>1, <1>3, DeadLetterEntry DEF TypeInv, TypeOK
<1>7. RedisOK(n)'
  BY <1>1, <1>4, <1>5 DEF DeadLetterAddRaises, RedisOK
<1>8. WorkOK(n)' /\ LoopOK'
  BY <1>3, <1>4, NackRaisesType
<1>9. /\ faults' = faults + 1 /\ buried' = buried \cup {cur[c]}
      /\ UNCHANGED <<opc, opId, opRetries, succeeded, lost>>
  BY Zenon DEF DeadLetterAddRaises, Fault, ops
<1>10. OpsOK(n)'
  BY <1>5, <1>9 DEF OpsOK
<1>11. HistoryOK(n)'
  <2>1. buried' \subseteq 1..n
    BY <1>5, <1>6, <1>9 DEF HistoryOK
  <2>2. faults' \in Nat
    BY <1>5, <1>9 DEF HistoryOK
  <2> QED BY <2>1, <2>2, <1>5, <1>9 DEF HistoryOK
<1> QED
  BY <1>4, <1>7, <1>8, <1>10, <1>11, TypeWhole

LEMMA ExpireType ==
    ASSUME TypeInv, NEW i \in Ids, Expire(i) \/ DeadLetterDelete(i)
    PROVE  TypeInv'
<1>1. PICK n \in Nat : n = last
  BY QueueAssumption DEF TypeInv, TypeOK
<1>2. RedisOK(n) /\ WorkOK(n) /\ LoopOK /\ OpsOK(n) /\ HistoryOK(n) /\ n <= MaxEntries
  BY <1>1, TypeParts
<1> DEFINE Parts == last' = n /\ RedisOK(n)' /\ WorkOK(n)' /\ LoopOK' /\ OpsOK(n)' /\ HistoryOK(n)'
<1>3. ASSUME Expire(i) PROVE Parts
  <2>1. i \in 1..n
    BY <1>2, <1>3 DEF Expire, RedisOK
  <2> QED
    BY <1>1, <1>2, <1>3, <2>1
       DEF Expire, local, ops, history, RedisOK, WorkOK, LoopOK, OpsOK, HistoryOK
<1>4. ASSUME DeadLetterDelete(i) PROVE Parts
  BY <1>1, <1>2, <1>4
     DEF DeadLetterDelete, InStream, local, ops, RedisOK, WorkOK, LoopOK, OpsOK, HistoryOK
<1>6. Parts
  BY <1>3, <1>4
<1> QED
  BY <1>2, <1>6, TypeWhole

LEMMA OperatorType ==
    ASSUME TypeInv, NEW o \in Operator, OperatorStep(o)
    PROVE  TypeInv'
<1>1. PICK n \in Nat : n = last
  BY QueueAssumption DEF TypeInv, TypeOK
<1>2. RedisOK(n) /\ WorkOK(n) /\ LoopOK /\ OpsOK(n) /\ HistoryOK(n) /\ n <= MaxEntries
  BY <1>1, TypeParts
<1> DEFINE Parts == last' = n /\ RedisOK(n)' /\ WorkOK(n)' /\ LoopOK' /\ OpsOK(n)' /\ HistoryOK(n)'
<1>3. ASSUME NEW d \in Ids, NEW reset \in BOOLEAN, RetryRead(o, d, reset) PROVE TypeInv'
  <2>1. d \in 0..n /\ d # 0 /\ log[d].retries \in Nat
    BY <1>2, <1>3 DEF RetryRead, InStream, RedisOK, Entry
  <2>2. OpsOK(n)'
    BY <1>2, <1>3, <2>1 DEF RetryRead, OpsOK
  <2>3. Parts
    BY <1>1, <1>2, <1>3, <2>2
       DEF RetryRead, redis, local, history, RedisOK, WorkOK, LoopOK, HistoryOK
  <2> QED BY <1>2, <2>3, TypeWhole
<1>4. ASSUME RetryDelete(o) \/ RetryAbandoned(o) PROVE TypeInv'
  <2>1. OpsOK(n)'
    BY <1>2, <1>4 DEF RetryDelete, RetryAbandoned, OpsOK
  <2>2. Parts
    BY <1>1, <1>2, <1>4, <2>1
       DEF RetryDelete, RetryAbandoned, redis, local, history, RedisOK, WorkOK, LoopOK, HistoryOK
  <2> QED BY <1>2, <2>2, TypeWhole
<1>5. ASSUME NEW p \in Priority, RetryAdd(o, p) PROVE TypeInv'
  <2> DEFINE e == [job |-> log[opId[o]].job, stream |-> p, retries |-> opRetries[o]]
  <2>1. opId[o] \in Ids /\ XAdd(e)
    BY <1>2, <1>5, QueueAssumption DEF RetryAdd, OpsOK, Ids
  <2>2. e \in Entry
    BY <1>2, <2>1 DEF RedisOK, OpsOK, Entry
  <2>3. PICK m \in Nat : m = last + 1
    BY QueueAssumption DEF TypeInv, TypeOK
  <2>4. last' = m /\ m <= MaxEntries /\ m \in 1..m /\ last <= m /\ log' \in [Ids -> Entry]
    BY <2>1, <2>2, <2>3, XAddType, QueueAssumption DEF TypeInv, TypeOK
  <2>5. RedisOK(m) /\ WorkOK(m) /\ LoopOK /\ OpsOK(m) /\ HistoryOK(m)
    BY <2>4, TypeParts
  <2>6. RedisOK(m)' /\ OpsOK(m)'
    BY <1>5, <2>3, <2>4, <2>5 DEF RetryAdd, RedisOK, OpsOK
  <2>7. WorkOK(m)' /\ LoopOK' /\ HistoryOK(m)'
    BY <1>5, <2>5 DEF RetryAdd, local, history, WorkOK, LoopOK, HistoryOK
  <2> QED
    BY <2>4, <2>6, <2>7, TypeWhole
<1> QED
  BY <1>3, <1>4, <1>5 DEF OperatorStep

LEMMA InitType == Init => TypeInv
<1> SUFFICES ASSUME Init PROVE TypeInv
  OBVIOUS
<1>1. NoEntry \in Entry
  BY DEF NoEntry, Entry
<1>2. MaxEntries \in Nat /\ 0 \in 0..0 /\ 1..0 = {}
  BY QueueAssumption
<1>3. last = 0 /\ last \in 0..MaxEntries
  BY <1>2 DEF Init
<1> QED
  BY <1>1, <1>2, <1>3 DEF Init, TypeInv, TypeOK, Busy

LEMMA StepType == TypeInv /\ [Next]_vars => TypeInv'
<1> SUFFICES ASSUME TypeInv, [Next]_vars PROVE TypeInv'
  OBVIOUS
<1>1. ASSUME NEW j \in Job, NEW p \in Priority, NEW upto \in 0..MaxEntries, Enqueue(j, p, upto)
      PROVE  TypeInv'
  BY <1>1, EnqueueType
<1>2. ASSUME NEW c \in Consumer, ConsumerStep(c) \/ Stop(c) \/ ConsumerFault(c) \/ HandlerFailure(c)
      PROVE  TypeInv'
  BY <1>2, ConsumerType, DeadLetterAddType, FaultType, DeadLetterAddRaisesType
<1>3. ASSUME NEW i \in Ids, Expire(i) \/ DeadLetterDelete(i) PROVE TypeInv'
  BY <1>3, ExpireType
<1>4. ASSUME NEW o \in Operator, OperatorStep(o) PROVE TypeInv'
  BY <1>4, OperatorType
<1>5. ASSUME UNCHANGED vars PROVE TypeInv'
  BY <1>5 DEF TypeInv, TypeOK, vars, redis, local, ops, history
<1> QED
  BY <1>1, <1>2, <1>3, <1>4, <1>5 DEF Next, NextOther

\* Ids, owners and per-process memory always have their types: no step refers
\* to an entry that was never added.
THEOREM TypeCorrect == Spec => []TypeOK
<1>1. TypeInv => TypeOK
  BY DEF TypeInv
<1> QED
  BY <1>1, InitType, StepType, PTL DEF Spec

-----------------------------------------------------------------------------
(* No job is lost.                                                         *)

\* Job j is over, or a live entry of it exists among the ids above n.
Acc(j, n) ==
    \/ \E i \in succeeded \cup lost : log[i].job = j
    \/ \E i \in present : i > n /\ Live(i) /\ log[i].job = j

\* The inductive invariant. Where the code is about to remove an entry from
\* the pending list or from the dead-letter stream, the job is already held by
\* something else: it succeeded, or a newer entry of it is live.
Accounted == \A i \in 1..last : Acc(log[i].job, 0)
Acked == \A c \in Consumer : pc[c] = "ack" => cur[c] \in succeeded
Copied == \A c \in Consumer : pc[c] = "dlqAck" => Acc(log[cur[c]].job, cur[c])
PutBack == \A o \in Operator : opc[o] = "del" => Acc(log[opId[o]].job, opId[o])

SafeInv == TypeInv /\ Accounted /\ Acked /\ Copied /\ PutBack

\* A step keeps what is over, and keeps alive every live entry but g (0: none).
Kept(g) ==
    /\ \A i \in 1..last : log'[i] = log[i]
    /\ succeeded \subseteq succeeded'
    /\ lost \subseteq lost'
    /\ \A i \in present : Live(i) /\ i # g => (i \in present' /\ Live(i)') \/ i \in lost'

\* Such a step forgets no job if the job of g is held by something newer.
LEMMA AccKept ==
    ASSUME TypeInv, NEW g \in Nat, Kept(g), g # 0 => Acc(log[g].job, g),
           NEW j, NEW n \in Nat, Acc(j, n)
    PROVE  Acc(j, n)'
<1>1. /\ succeeded \cup lost \subseteq 1..last
      /\ present \subseteq 1..last /\ last \in Nat
  BY QueueAssumption DEF TypeInv, TypeOK
<1>2. ASSUME NEW i \in succeeded \cup lost PROVE i \in succeeded' \cup lost' /\ log'[i] = log[i]
  BY <1>1 DEF Kept
<1>3. ASSUME NEW i \in present, Live(i), i # g
      PROVE  log'[i] = log[i] /\ ((i \in present' /\ Live(i)') \/ i \in lost')
  BY <1>1, <1>3 DEF Kept
<1>4. CASE \E i \in succeeded \cup lost : log[i].job = j
  <2>1. PICK i \in succeeded \cup lost : log[i].job = j
    BY <1>4
  <2> QED BY <1>2, <2>1 DEF Acc
<1>5. CASE \E i \in present : i > n /\ Live(i) /\ log[i].job = j
  <2>1. PICK i \in present : i > n /\ Live(i) /\ log[i].job = j
    BY <1>5
  <2>2. CASE i # g
    BY <1>3, <2>1, <2>2 DEF Acc
  <2>3. CASE i = g
    <3>1. g # 0 /\ g > n /\ log[g].job = j
      BY <1>1, <2>1, <2>3
    <3>2. Acc(j, g)
      BY <3>1
    <3>3. CASE \E k \in succeeded \cup lost : log[k].job = j
      BY <1>2, <3>3 DEF Acc
    <3>4. CASE \E k \in present : k > g /\ Live(k) /\ log[k].job = j
      <4>1. PICK k \in present : k > g /\ Live(k) /\ log[k].job = j
        BY <3>4
      <4>2. k # g /\ k > n
        BY <1>1, <3>1, <4>1
      <4> QED BY <1>3, <4>1, <4>2 DEF Acc
    <3> QED BY <3>2, <3>3, <3>4 DEF Acc
  <2> QED BY <2>2, <2>3
<1> QED BY <1>4, <1>5 DEF Acc

\* What is left to show of a step that keeps everything but g.
LEMMA SafeKept ==
    ASSUME SafeInv, TypeInv', NEW g \in Nat, Kept(g), g # 0 => Acc(log[g].job, g),
           \A i \in 1..last' : i \notin 1..last => Acc(log[i].job, 0)',
           \A c \in Consumer :
              \/ pc'[c] \notin {"ack", "dlqAck"}
              \/ pc'[c] = pc[c] /\ cur'[c] = cur[c]
              \/ pc'[c] = "ack" /\ cur'[c] \in succeeded'
              \/ pc'[c] = "dlqAck" /\ Acc(log[cur[c]].job, cur[c])',
           \A o \in Operator :
              \/ opc'[o] # "del"
              \/ opc'[o] = opc[o] /\ opId'[o] = opId[o]
              \/ Acc(log[opId[o]].job, opId[o])'
    PROVE  SafeInv'
<1>1. TypeInv /\ \A j : \A n \in Nat : Acc(j, n) => Acc(j, n)'
  BY AccKept DEF SafeInv
<1>2. Accounted'
  <2> SUFFICES ASSUME NEW i \in 1..last' PROVE Acc(log[i].job, 0)'
    BY DEF Accounted
  <2>1. CASE i \in 1..last
    <3>1. PICK j : j = log[i].job
      OBVIOUS
    <3>2. Acc(j, 0)
      BY <2>1, <3>1 DEF SafeInv, Accounted
    <3>3. Acc(j, 0)'
      BY <1>1, <3>2
    <3>4. log'[i].job = j
      BY <2>1, <3>1 DEF Kept
    <3> QED BY <3>3, <3>4 DEF Acc
  <2> QED BY <2>1
<1>3. Acked'
  BY DEF Acked, SafeInv, Kept
<1>4. Copied'
  <2> SUFFICES ASSUME NEW c \in Consumer, pc'[c] = "dlqAck" PROVE Acc(log[cur[c]].job, cur[c])'
    BY DEF Copied
  <2>1. CASE pc'[c] = pc[c] /\ cur'[c] = cur[c]
    <3>1. PICK j, n : j = log[cur[c]].job /\ n = cur[c]
      OBVIOUS
    <3>2. n \in Nat /\ n \in 1..last
      BY <1>1, <2>1, <3>1, QueueAssumption DEF TypeInv, TypeOK, Busy
    <3>3. Acc(j, n)
      BY <2>1, <3>1 DEF SafeInv, Copied
    <3>4. Acc(j, n)'
      BY <1>1, <3>2, <3>3
    <3>5. log'[cur'[c]].job = j /\ cur'[c] = n
      BY <2>1, <3>1, <3>2 DEF Kept
    <3> QED BY <3>4, <3>5 DEF Acc
  <2> QED BY <2>1
<1>5. PutBack'
  <2> SUFFICES ASSUME NEW o \in Operator, opc'[o] = "del" PROVE Acc(log[opId[o]].job, opId[o])'
    BY DEF PutBack
  <2>1. CASE opc'[o] = opc[o] /\ opId'[o] = opId[o]
    <3>1. PICK j, n : j = log[opId[o]].job /\ n = opId[o]
      OBVIOUS
    <3>2. n \in Nat /\ n \in 1..last
      BY <1>1, <2>1, <3>1, QueueAssumption DEF TypeInv, TypeOK
    <3>3. Acc(j, n)
      BY <2>1, <3>1 DEF SafeInv, PutBack
    <3>4. Acc(j, n)'
      BY <1>1, <3>2, <3>3
    <3>5. log'[opId'[o]].job = j /\ opId'[o] = n
      BY <2>1, <3>1, <3>2 DEF Kept
    <3> QED BY <3>4, <3>5 DEF Acc
  <2> QED BY <2>1
<1> QED
  BY <1>2, <1>3, <1>4, <1>5 DEF SafeInv

\* The kinds of step on the streams, and the entry each may let go.
LEMMA KeptSame ==
    ASSUME UNCHANGED <<log, present, cursor, owner>>,
           succeeded \subseteq succeeded', lost \subseteq lost'
    PROVE  Kept(0)
BY DEF Kept, Live

LEMMA KeptAssign ==
    ASSUME TypeInv, NEW c \in Consumer, NEW S, Assign(c, S),
           UNCHANGED <<last, log, present, cursor, succeeded, lost>>
    PROVE  Kept(0)
<1>1. c # NoConsumer
  BY QueueAssumption
<1>2. \A i \in Ids : owner[i] # NoConsumer => owner'[i] # NoConsumer
  BY <1>1 DEF Assign
<1>3. present \subseteq Ids
  BY QueueAssumption DEF TypeInv, TypeOK, Ids
<1> QED
  BY <1>2, <1>3 DEF Kept, Live

LEMMA KeptRead ==
    ASSUME TypeInv, NEW c \in Consumer, NEW upto \in [Priority -> 0..MaxEntries],
           XReadGroup(c, upto),
           UNCHANGED <<last, log, present, succeeded, lost>>
    PROVE  Kept(0)
<1>1. c # NoConsumer /\ present \subseteq Ids /\ present \subseteq Nat
  BY QueueAssumption DEF TypeInv, TypeOK, Ids
<1>2. \A i \in Ids : owner'[i] = IF i \in ReadBatch(upto) THEN c ELSE owner[i]
  BY DEF XReadGroup, Assign
<1>3. ASSUME NEW i \in present, Live(i) PROVE Live(i)'
  <2>1. CASE log[i].stream = "dlq"
    BY <1>3, <2>1 DEF Live
  <2>2. CASE log[i].stream # "dlq"
    <3>1. log[i].stream \in Priority /\ (i > cursor[log[i].stream] \/ owner[i] # NoConsumer)
      BY <1>3, <2>2 DEF Live
    <3>6. upto[log[i].stream] \in 0..MaxEntries
      BY <3>1
    <3>2. cursor' = upto /\ upto[log[i].stream] \in Nat
      BY <3>6, QueueAssumption DEF XReadGroup
    <3>3. i > upto[log[i].stream] \/ i <= upto[log[i].stream]
      BY <1>1, <3>2
    <3>4. CASE i > upto[log[i].stream]
      BY <3>1, <3>2, <3>4 DEF Live
    <3>5. CASE i <= upto[log[i].stream]
      <4>1. owner'[i] # NoConsumer
        BY <1>1, <1>2, <3>1, <3>5 DEF ReadBatch
      <4> QED BY <3>1, <4>1 DEF Live
    <3> QED BY <3>3, <3>4, <3>5
  <2> QED BY <2>1, <2>2
<1> QED
  BY <1>3 DEF Kept

LEMMA KeptXAck ==
    ASSUME TypeInv, NEW g, XAck(g),
           UNCHANGED <<last, log, present, cursor, succeeded, lost>>
    PROVE  Kept(g)
<1>1. present \subseteq Ids
  BY QueueAssumption DEF TypeInv, TypeOK, Ids
<1>2. \A i \in Ids : i # g => owner'[i] = owner[i]
  BY DEF XAck, TypeInv, TypeOK
<1> QED
  BY <1>1, <1>2 DEF Kept, Live

\* An XADD also accounts for the new entry itself, above any older id.
LEMMA KeptXAdd ==
    ASSUME TypeInv, NEW e \in Entry, XAdd(e), e.stream \in Priority \cup {"dlq"},
           NEW cut \in SUBSET present, present' = (present \ cut) \cup {last + 1},
           UNCHANGED <<cursor, owner, succeeded>>,
           lost' = lost \cup {i \in cut : Live(i)}
    PROVE  /\ Kept(0)
           /\ \A i \in 1..last' : i \notin 1..last => Acc(log[i].job, 0)'
           /\ \A n \in 0..last : Acc(e.job, n)'
<1>1. /\ last' = last + 1 /\ last' \in Ids /\ last \in Nat
      /\ log'[last'] = e
      /\ \A i \in 1..last : i \in Ids /\ log'[i] = log[i]
  BY XAddType, QueueAssumption DEF TypeInv, TypeOK
<1>2. present \subseteq 1..last
  BY DEF TypeInv, TypeOK
<1>3. Kept(0)
  BY <1>1, <1>2 DEF Kept, Live
<1>4. last' \in present' /\ Live(last)'
  <2>1. last' \in present'
    BY <1>1
  <2>2. CASE e.stream = "dlq"
    BY <1>1, <2>1, <2>2 DEF Live
  <2>3. CASE e.stream \in Priority
    <3>1. cursor'[e.stream] \in 0..last
      BY <2>3 DEF TypeInv, TypeOK
    <3>2. last' > cursor'[e.stream]
      BY <1>1, <3>1
    <3> QED BY <1>1, <2>1, <2>3, <3>2 DEF Live
  <2> QED BY <2>2, <2>3
<1>5. \A n \in 0..last : last' > n
  BY <1>1
<1>6. \A n \in 0..last : Acc(e.job, n)'
  BY <1>1, <1>4, <1>5 DEF Acc
<1>7. \A i \in 1..last' : i \notin 1..last => i = last'
  BY <1>1
<1>8. 0 \in 0..last
  BY <1>1
<1>9. \A i \in 1..last' : i \notin 1..last => Acc(log[i].job, 0)'
  BY <1>1, <1>4, <1>5, <1>7, <1>8 DEF Acc
<1> QED
  BY <1>3, <1>6, <1>9

LEMMA KeptDelete ==
    ASSUME TypeInv, NEW d, present' = present \ {d},
           UNCHANGED <<last, log, cursor, owner, succeeded>>, lost \subseteq lost'
    PROVE  Kept(d) /\ (d \in lost' => Kept(0))
BY DEF Kept, Live

\* After these, a consumer is neither acknowledging nor past a dead-letter copy.
Quiet(c) ==
    /\ pc'[c] \notin {"ack", "dlqAck"}
    /\ \A d \in Consumer \ {c} : pc'[d] = pc[d] /\ cur'[d] = cur[d]

LEMMA LoadQuiet ==
    ASSUME TypeInv, NEW c \in Consumer, NEW S, Load(c, S)
    PROVE  Quiet(c)
<1>1. phase[c] \notin {"ack", "dlqAck"}
  BY DEF TypeInv, TypeOK
<1>2. pc \in [Consumer -> PCs] /\ cur \in [Consumer -> 0..last]
  BY DEF TypeInv, TypeOK, PCs
<1>3. CASE S = {}
  BY <1>1, <1>2, <1>3 DEF Load, Forget, Quiet
<1>4. CASE S # {}
  BY <1>2, <1>4 DEF Load, Quiet
<1> QED BY <1>3, <1>4

LEMMA NackQuiet ==
    ASSUME TypeInv, NEW c \in Consumer, NEW inTry \in BOOLEAN, Nack(c, inTry)
    PROVE  Quiet(c)
<1>1. CASE tries[c] + 1 >= MaxRetries
  BY <1>1 DEF Nack, Quiet, TypeInv, TypeOK
<1>2. CASE ~(tries[c] + 1 >= MaxRetries)
  BY <1>2, LoadQuiet DEF Nack
<1> QED BY <1>1, <1>2

LEMMA EndedQuiet ==
    ASSUME TypeInv, NEW c \in Consumer, Ended(c)
    PROVE  Quiet(c)
BY DEF Ended, Forget, Quiet, TypeInv, TypeOK

LEMMA NackRaisesQuiet ==
    ASSUME TypeInv, NEW c \in Consumer, NEW refused \in BOOLEAN,
           NackRaises(c, refused) \/ Escape(c, refused)
    PROVE  Quiet(c)
<1>1. ASSUME Escape(c, refused) PROVE Quiet(c)
  <2>1. ASSUME NextLane(c), Forget(c) PROVE Quiet(c)
    BY <2>1 DEF NextLane, Forget, Quiet, TypeInv, TypeOK
  <2> QED BY <1>1, <2>1, LoadQuiet, EndedQuiet DEF Escape
<1>2. ASSUME Nack(c, FALSE) PROVE Quiet(c)
  <2>1. FALSE \in BOOLEAN
    OBVIOUS
  <2> QED BY <1>2, <2>1, NackQuiet, Zenon
<1> QED BY <1>1, <1>2 DEF NackRaises

\* A step of one consumer that is quiet and adds nothing.
LEMMA QuietSafe ==
    ASSUME SafeInv, TypeInv', NEW c \in Consumer, Quiet(c),
           NEW g \in Nat, Kept(g), g # 0 => Acc(log[g].job, g),
           UNCHANGED <<last, ops>>
    PROVE  SafeInv'
<1>1. \A i \in 1..last' : i \notin 1..last => Acc(log[i].job, 0)'
  OBVIOUS
<1>2. \A d \in Consumer :
         \/ pc'[d] \notin {"ack", "dlqAck"}
         \/ pc'[d] = pc[d] /\ cur'[d] = cur[d]
  BY DEF Quiet
<1>3. \A o \in Operator : opc'[o] = opc[o] /\ opId'[o] = opId[o]
  BY DEF ops
<1> QED
  BY <1>1, <1>2, <1>3, SafeKept

\* A step that touches no consumer's position and no operator's, and adds nothing.
LEMMA StillSafe ==
    ASSUME SafeInv, TypeInv', NEW g \in Nat, Kept(g), g # 0 => Acc(log[g].job, g),
           UNCHANGED <<last, pc, cur>>,
           \A o \in Operator : opc'[o] # "del" \/ (opc'[o] = opc[o] /\ opId'[o] = opId[o])
    PROVE  SafeInv'
<1>1. \A i \in 1..last' : i \notin 1..last => Acc(log[i].job, 0)'
  OBVIOUS
<1>2. \A d \in Consumer : pc'[d] = pc[d] /\ cur'[d] = cur[d]
  OBVIOUS
<1> QED
  BY <1>1, <1>2, SafeKept

\* The entry a consumer acknowledges has succeeded or has a newer copy.
LEMMA AckAccounted ==
    ASSUME SafeInv, NEW c \in Consumer, pc[c] \in {"ack", "dlqAck"}
    PROVE  /\ cur[c] \in Nat /\ cur[c] # 0
           /\ Acc(log[cur[c]].job, cur[c])
<1>1. cur[c] \in Nat /\ cur[c] # 0
  BY QueueAssumption DEF SafeInv, TypeInv, TypeOK, Busy
<1>2. CASE pc[c] = "ack"
  BY <1>1, <1>2 DEF SafeInv, Acked, Acc
<1>3. CASE pc[c] = "dlqAck"
  BY <1>1, <1>3 DEF SafeInv, Copied
<1> QED BY <1>2, <1>3

LEMMA XAckSafe ==
    ASSUME SafeInv, TypeInv', NEW c \in Consumer, pc[c] \in {"ack", "dlqAck"}, Quiet(c),
           XAck(cur[c]), UNCHANGED <<last, log, present, cursor, succeeded, lost, ops>>
    PROVE  SafeInv'
<1>1. PICK g : g = cur[c]
  OBVIOUS
<1>2. g \in Nat /\ Acc(log[g].job, g)
  BY <1>1, AckAccounted
<1>3. TypeInv /\ XAck(g)
  BY <1>1 DEF SafeInv
<1>4. Kept(g)
  BY <1>3, KeptXAck
<1> QED
  BY <1>2, <1>4, QuietSafe DEF SafeInv

LEMMA ConsumerSafe ==
    ASSUME SafeInv, TypeInv', NEW c \in Consumer,
           ConsumerStep(c) \/ HandlerFailure(c), ~DeadLetterAdd(c)
    PROVE  SafeInv'
<1>0. TypeInv /\ 0 \in Nat
  BY DEF SafeInv
<1>1. ASSUME Start(c) PROVE SafeInv'
  <2>1. Quiet(c)
    BY <1>0, <1>1 DEF Start, Quiet, TypeInv, TypeOK
  <2>2. Kept(0) /\ UNCHANGED <<last, ops>>
    BY <1>1, KeptSame DEF Start, redis, history
  <2> QED BY <1>0, <2>1, <2>2, QuietSafe
<1>2. ASSUME RecoverClaim(c) PROVE SafeInv'
  <2>1. Quiet(c)
    BY <1>0, <1>2, LoadQuiet DEF RecoverClaim
  <2>2. Kept(0) /\ UNCHANGED <<last, ops>>
    BY <1>0, <1>2, KeptAssign DEF RecoverClaim, history
  <2> QED BY <1>0, <2>1, <2>2, QuietSafe
<1>3. ASSUME RecoverNext(c) PROVE SafeInv'
  <2>1. Quiet(c)
    BY <1>0, <1>3 DEF RecoverNext, NextLane, Quiet, TypeInv, TypeOK
  <2>2. Kept(0) /\ UNCHANGED <<last, ops>>
    BY <1>3, KeptSame DEF RecoverNext, redis, history
  <2> QED BY <1>0, <2>1, <2>2, QuietSafe
<1>4. ASSUME NEW upto \in [Priority -> 0..MaxEntries], Poll(c, upto) PROVE SafeInv'
  <2>1. Quiet(c)
    BY <1>0, <1>4, LoadQuiet DEF Poll
  <2>2. Kept(0) /\ UNCHANGED <<last, ops>>
    BY <1>0, <1>4, KeptRead DEF Poll, history
  <2> QED BY <1>0, <2>1, <2>2, QuietSafe
<1>5. ASSUME Exit(c) PROVE SafeInv'
  <2>1. Quiet(c)
    BY <1>0, <1>5, EndedQuiet DEF Exit
  <2>2. Kept(0) /\ UNCHANGED <<last, ops>>
    BY <1>5, KeptSame DEF Exit, redis, history
  <2> QED BY <1>0, <2>1, <2>2, QuietSafe
<1>6. ASSUME HandlerSucceeds(c) PROVE SafeInv'
  <2>1. Kept(0) /\ \A i \in 1..last' : i \notin 1..last => Acc(log[i].job, 0)'
    BY <1>6, KeptSame DEF HandlerSucceeds, redis
  <2>2. \A d \in Consumer : \/ pc'[d] = pc[d] /\ cur'[d] = cur[d]
                            \/ pc'[d] = "ack" /\ cur'[d] \in succeeded'
    BY <1>0, <1>6 DEF HandlerSucceeds, TypeInv, TypeOK
  <2>3. \A o \in Operator : opc'[o] = opc[o] /\ opId'[o] = opId[o]
    BY <1>6 DEF HandlerSucceeds, ops
  <2> QED BY <1>0, <2>1, <2>2, <2>3, SafeKept
<1>7. ASSUME NEW raised \in BOOLEAN, HandlerFails(c, raised) PROVE SafeInv'
  <2>1. Nack(c, ~raised) /\ (~raised) \in BOOLEAN
    BY <1>7 DEF HandlerFails
  <2>2. Quiet(c)
    BY <1>0, <2>1, NackQuiet, Zenon
  <2>3. Kept(0) /\ UNCHANGED <<last, ops>>
    BY <1>7, KeptSame DEF HandlerFails, redis, history
  <2> QED BY <1>0, <2>2, <2>3, QuietSafe
<1>8. ASSUME Ack(c) \/ DeadLetterAck(c) PROVE SafeInv'
  <2>1. Quiet(c)
    BY <1>0, <1>8, LoadQuiet DEF Ack, DeadLetterAck
  <2> QED
    BY <1>8, <2>1, XAckSafe DEF Ack, DeadLetterAck, history
<1> QED
  BY <1>1, <1>2, <1>3, <1>4, <1>5, <1>6, <1>7, <1>8 DEF ConsumerStep, HandlerFailure

LEMMA FaultSafe ==
    ASSUME SafeInv, TypeInv', NEW c \in Consumer, ConsumerFault(c),
           \A refused \in BOOLEAN : ~DeadLetterAddRaises(c, TRUE, refused)
    PROVE  SafeInv'
<1>0. TypeInv /\ 0 \in Nat
  BY DEF SafeInv
<1>1. ASSUME Crash(c) PROVE SafeInv'
  <2>1. Quiet(c)
    BY <1>0, <1>1, EndedQuiet DEF Crash
  <2>2. Kept(0) /\ UNCHANGED <<last, ops>>
    BY <1>1, KeptSame DEF Crash, redis, history
  <2> QED BY <1>0, <2>1, <2>2, QuietSafe
<1>2. ASSUME NEW upto \in [Priority -> 0..MaxEntries], PollRaises(c, upto) PROVE SafeInv'
  <2>1. Kept(0) /\ UNCHANGED <<last, pc, cur, opc, opId>>
    BY <1>0, <1>2, KeptRead DEF PollRaises, local, ops
  <2> QED BY <1>0, <2>1, StillSafe
<1>3. ASSUME NEW applied \in BOOLEAN, NEW refused \in BOOLEAN,
             RecoverRaises(c, applied, refused)
      PROVE  SafeInv'
  <2>1. Quiet(c)
    BY <1>0, <1>3, NackRaisesQuiet DEF RecoverRaises
  <2>2. Kept(0) /\ UNCHANGED <<last, ops>>
    BY <1>0, <1>3, KeptSame, KeptAssign DEF RecoverRaises
  <2> QED BY <1>0, <2>1, <2>2, QuietSafe
<1>4. ASSUME NEW applied \in BOOLEAN, AckRaises(c, applied) PROVE SafeInv'
  <2>1. pc[c] = "ack" /\ Nack(c, FALSE) /\ FALSE \in BOOLEAN
    BY <1>4 DEF AckRaises
  <2>2. Quiet(c)
    BY <1>0, <2>1, NackQuiet, Zenon
  <2>3. CASE applied
    BY <1>4, <2>1, <2>2, <2>3, XAckSafe DEF AckRaises
  <2>4. CASE ~applied
    <3>1. Kept(0) /\ UNCHANGED <<last, ops>>
      BY <1>4, <2>4, KeptSame DEF AckRaises
    <3> QED BY <1>0, <2>2, <3>1, QuietSafe
  <2> QED BY <2>3, <2>4
<1>5. ASSUME NEW applied \in BOOLEAN, NEW refused \in BOOLEAN,
             DeadLetterAckRaises(c, applied, refused)
      PROVE  SafeInv'
  <2>1. pc[c] = "dlqAck" /\ Quiet(c)
    BY <1>0, <1>5, NackRaisesQuiet DEF DeadLetterAckRaises
  <2>2. CASE applied
    BY <1>5, <2>1, <2>2, XAckSafe DEF DeadLetterAckRaises
  <2>3. CASE ~applied
    <3>1. Kept(0) /\ UNCHANGED <<last, ops>>
      BY <1>5, <2>3, KeptSame DEF DeadLetterAckRaises
    <3> QED BY <1>0, <2>1, <3>1, QuietSafe
  <2> QED BY <2>2, <2>3
<1>6. ASSUME NEW refused \in BOOLEAN, DeadLetterAddRaises(c, FALSE, refused) PROVE SafeInv'
  <2>1. Quiet(c)
    BY <1>0, <1>6, NackRaisesQuiet DEF DeadLetterAddRaises
  <2>2. UNCHANGED <<last, log, present, cursor, owner, succeeded, lost, ops>>
    BY <1>6, Zenon DEF DeadLetterAddRaises
  <2>3. Kept(0)
    BY <2>2, KeptSame
  <2> QED BY <1>0, <2>1, <2>2, <2>3, QuietSafe
<1> QED
  BY <1>1, <1>2, <1>3, <1>4, <1>5, <1>6 DEF ConsumerFault

\* The dead-letter copy is live, and newer than the entry it replaces.
LEMMA DeadLetterCopy ==
    ASSUME SafeInv, NEW c \in Consumer, pc[c] \in Busy,
           XAdd([job |-> log[cur[c]].job, stream |-> "dlq", retries |-> tries[c]]),
           present' = present \cup {last + 1},
           UNCHANGED <<cursor, owner, succeeded, lost>>
    PROVE  /\ Kept(0)
           /\ \A i \in 1..last' : i \notin 1..last => Acc(log[i].job, 0)'
           /\ log'[cur[c]] = log[cur[c]]
           /\ \E j : j = log[cur[c]].job /\ \A n \in 0..last : Acc(j, n)'
<1>1. TypeInv
  BY DEF SafeInv
<1>2. PICK e \in Entry :
         e = [job |-> log[cur[c]].job, stream |-> "dlq", retries |-> tries[c]]
  BY <1>1, DeadLetterEntry
<1>3. XAdd(e) /\ e.stream = "dlq" /\ e.job = log[cur[c]].job
  BY <1>2
<1>4. {} \in SUBSET present /\ present' = (present \ {}) \cup {last + 1}
      /\ lost' = lost \cup {i \in {} : Live(i)}
  OBVIOUS
<1>5. /\ Kept(0)
      /\ \A i \in 1..last' : i \notin 1..last => Acc(log[i].job, 0)'
      /\ \A n \in 0..last : Acc(e.job, n)'
  BY <1>1, <1>3, <1>4, KeptXAdd
<1>6. cur[c] \in 1..last
  BY <1>1, DeadLetterEntry
<1>7. log'[cur[c]] = log[cur[c]]
  BY <1>6, <1>5 DEF Kept
<1> QED
  BY <1>3, <1>5, <1>7

LEMMA DeadLetterAddSafe ==
    ASSUME SafeInv, TypeInv', NEW c \in Consumer, DeadLetterAdd(c)
    PROVE  SafeInv'
<1>1. TypeInv /\ pc[c] \in Busy /\ 0 \in Nat
  BY DEF SafeInv, DeadLetterAdd, Busy
<1>2. /\ Kept(0)
      /\ \A i \in 1..last' : i \notin 1..last => Acc(log[i].job, 0)'
      /\ log'[cur[c]] = log[cur[c]]
      /\ \E j : j = log[cur[c]].job /\ \A n \in 0..last : Acc(j, n)'
  BY <1>1, DeadLetterCopy DEF DeadLetterAdd
<1>3. PICK j, n : j = log[cur[c]].job /\ n = cur[c]
  OBVIOUS
<1>4. Acc(j, n)' /\ cur' = cur
  BY <1>1, <1>2, <1>3 DEF DeadLetterAdd, TypeInv, TypeOK
<1>5. Acc(log[cur[c]].job, cur[c])'
  BY <1>2, <1>3, <1>4 DEF Acc
<1>6. \A d \in Consumer : \/ pc'[d] = pc[d] /\ cur'[d] = cur[d]
                          \/ d = c /\ pc'[d] = "dlqAck"
  BY <1>1 DEF DeadLetterAdd, TypeInv, TypeOK
<1>7. \A o \in Operator : opc'[o] = opc[o] /\ opId'[o] = opId[o]
  BY DEF DeadLetterAdd, ops
<1> QED
  BY <1>1, <1>2, <1>5, <1>6, <1>7, SafeKept

LEMMA DeadLetterAddRaisesSafe ==
    ASSUME SafeInv, TypeInv', NEW c \in Consumer,
           NEW refused \in BOOLEAN, DeadLetterAddRaises(c, TRUE, refused)
    PROVE  SafeInv'
<1>1. TypeInv /\ pc[c] \in Busy /\ 0 \in Nat
  BY DEF SafeInv, DeadLetterAddRaises, Busy
<1>2. /\ Kept(0)
      /\ \A i \in 1..last' : i \notin 1..last => Acc(log[i].job, 0)'
  BY <1>1, DeadLetterCopy DEF DeadLetterAddRaises
<1>3. Quiet(c)
  BY <1>1, NackRaisesQuiet DEF DeadLetterAddRaises
<1>4. \A d \in Consumer :
         \/ pc'[d] \notin {"ack", "dlqAck"}
         \/ pc'[d] = pc[d] /\ cur'[d] = cur[d]
  BY <1>3 DEF Quiet
<1>5. \A o \in Operator : opc'[o] = opc[o] /\ opId'[o] = opId[o]
  BY DEF DeadLetterAddRaises, ops
<1> QED
  BY <1>1, <1>2, <1>4, <1>5, SafeKept

LEMMA EnqueueSafe ==
    ASSUME SafeInv, TypeInv', NEW j \in Job, NEW p \in Priority, NEW upto \in 0..MaxEntries,
           Enqueue(j, p, upto)
    PROVE  SafeInv'
<1> DEFINE e == [job |-> j, stream |-> p, retries |-> 0]
<1>1. TypeInv /\ 0 \in Nat /\ e \in Entry /\ e.stream \in Priority \cup {"dlq"}
  BY DEF SafeInv, Entry
<1>2. PICK cut : cut = {i \in InStream(p) : i <= upto}
  OBVIOUS
<1>3. /\ XAdd(e) /\ cut \in SUBSET present
      /\ present' = (present \ cut) \cup {last + 1}
      /\ lost' = lost \cup {i \in cut : Live(i)}
      /\ UNCHANGED <<cursor, owner, succeeded>>
  BY <1>2 DEF Enqueue, InStream
<1>4. Kept(0) /\ \A i \in 1..last' : i \notin 1..last => Acc(log[i].job, 0)'
  BY <1>1, <1>3, KeptXAdd
<1>5. UNCHANGED <<pc, cur, opc, opId>>
  BY DEF Enqueue, local, ops
<1> QED
  BY <1>1, <1>4, <1>5, SafeKept

LEMMA ExpireSafe ==
    ASSUME SafeInv, TypeInv', NEW i \in Ids, Expire(i) \/ DeadLetterDelete(i)
    PROVE  SafeInv'
<1>0. TypeInv /\ 0 \in Nat
  BY DEF SafeInv
<1>1. ASSUME Expire(i) PROVE SafeInv'
  <2>1. Kept(0) /\ UNCHANGED <<last, pc, cur, opc, opId>>
    BY <1>1, KeptSame DEF Expire, local, ops, history
  <2> QED BY <1>0, <2>1, StillSafe
<1>2. ASSUME DeadLetterDelete(i) PROVE SafeInv'
  <2>1. Kept(0) /\ UNCHANGED <<last, pc, cur, opc, opId>>
    BY <1>0, <1>2, KeptDelete DEF DeadLetterDelete, local, ops
  <2> QED BY <1>0, <2>1, StillSafe
<1> QED BY <1>1, <1>2

LEMMA OperatorSafe ==
    ASSUME SafeInv, TypeInv', NEW o \in Operator, OperatorStep(o)
    PROVE  SafeInv'
<1>0. TypeInv /\ 0 \in Nat
  BY DEF SafeInv
<1>1. ASSUME NEW d \in Ids, NEW reset \in BOOLEAN, RetryRead(o, d, reset) PROVE SafeInv'
  <2>1. Kept(0) /\ UNCHANGED <<last, pc, cur>>
    BY <1>1, KeptSame DEF RetryRead, redis, local, history
  <2>2. \A k \in Operator : opc'[k] # "del" \/ (opc'[k] = opc[k] /\ opId'[k] = opId[k])
    BY <1>0, <1>1 DEF RetryRead, TypeInv, TypeOK
  <2> QED BY <1>0, <2>1, <2>2, StillSafe
<1>2. ASSUME RetryAbandoned(o) PROVE SafeInv'
  <2>1. Kept(0) /\ UNCHANGED <<last, pc, cur>>
    BY <1>2, KeptSame DEF RetryAbandoned, redis, local, history
  <2>2. \A k \in Operator : opc'[k] # "del" \/ (opc'[k] = opc[k] /\ opId'[k] = opId[k])
    BY <1>0, <1>2 DEF RetryAbandoned, TypeInv, TypeOK
  <2> QED BY <1>0, <2>1, <2>2, StillSafe
<1>3. ASSUME RetryDelete(o) PROVE SafeInv'
  <2>1. PICK g : g = opId[o]
    OBVIOUS
  <2>2. g \in Nat /\ Acc(log[g].job, g)
    BY <1>0, <1>3, <2>1 DEF RetryDelete, SafeInv, PutBack, TypeInv, TypeOK
  <2>3. Kept(g) /\ UNCHANGED <<last, pc, cur>>
    BY <1>0, <1>3, <2>1, KeptDelete DEF RetryDelete, local, history
  <2>4. \A k \in Operator : opc'[k] # "del" \/ (opc'[k] = opc[k] /\ opId'[k] = opId[k])
    BY <1>0, <1>3 DEF RetryDelete, TypeInv, TypeOK
  <2> QED BY <2>2, <2>3, <2>4, StillSafe
<1>4. ASSUME NEW p \in Priority, RetryAdd(o, p) PROVE SafeInv'
  <2>1. opId[o] \in 1..last /\ opId[o] \in Ids
    BY <1>0, <1>4, QueueAssumption DEF RetryAdd, TypeInv, TypeOK, Ids
  <2>2. [job |-> log[opId[o]].job, stream |-> p, retries |-> opRetries[o]] \in Entry
    BY <1>0, <2>1 DEF TypeInv, TypeOK, Entry
  <2>3. PICK e \in Entry :
           e = [job |-> log[opId[o]].job, stream |-> p, retries |-> opRetries[o]]
    BY <2>2
  <2>4. /\ XAdd(e) /\ e.stream \in Priority \cup {"dlq"} /\ {} \in SUBSET present
        /\ present' = (present \ {}) \cup {last + 1}
        /\ lost' = lost \cup {i \in {} : Live(i)}
        /\ UNCHANGED <<cursor, owner, succeeded>>
    BY <1>4, <2>3 DEF RetryAdd, history
  <2>5. /\ Kept(0)
        /\ \A i \in 1..last' : i \notin 1..last => Acc(log[i].job, 0)'
        /\ \A n \in 0..last : Acc(e.job, n)'
    BY <1>0, <2>4, KeptXAdd
  <2>6. PICK n : n = opId[o]
    OBVIOUS
  <2>7. Acc(e.job, n)' /\ opId' = opId /\ log'[opId[o]] = log[opId[o]]
    BY <1>0, <1>4, <2>1, <2>5, <2>6 DEF RetryAdd, Kept, TypeInv, TypeOK
  <2>8. Acc(log[opId[o]].job, opId[o])'
    BY <2>3, <2>6, <2>7 DEF Acc
  <2>9. \A k \in Operator : k = o \/ (opc'[k] = opc[k] /\ opId'[k] = opId[k])
    BY <1>0, <1>4 DEF RetryAdd, TypeInv, TypeOK
  <2>10. UNCHANGED <<pc, cur>>
    BY <1>4 DEF RetryAdd, local
  <2> QED BY <1>0, <2>5, <2>8, <2>9, <2>10, SafeKept
<1> QED
  BY <1>1, <1>2, <1>3, <1>4 DEF OperatorStep

LEMMA InitSafe == Init => SafeInv
<1> SUFFICES ASSUME Init PROVE SafeInv
  OBVIOUS
<1>1. 1..0 = {} /\ last = 0
  BY DEF Init
<1> QED
  BY <1>1, InitType DEF Init, SafeInv, Accounted, Acked, Copied, PutBack

LEMMA StepSafe == SafeInv /\ [Next]_vars => SafeInv'
<1> SUFFICES ASSUME SafeInv, [Next]_vars PROVE SafeInv'
  OBVIOUS
<1>0. TypeInv' /\ 0 \in Nat
  BY StepType DEF SafeInv
<1>1. ASSUME NEW j \in Job, NEW p \in Priority, NEW upto \in 0..MaxEntries, Enqueue(j, p, upto)
      PROVE  SafeInv'
  BY <1>0, <1>1, EnqueueSafe
<1>2. ASSUME NEW c \in Consumer, ConsumerStep(c) \/ HandlerFailure(c)
      PROVE  SafeInv'
  BY <1>0, <1>2, ConsumerSafe, DeadLetterAddSafe
<1>3. ASSUME NEW c \in Consumer, ConsumerFault(c)
      PROVE  SafeInv'
  BY <1>0, <1>3, FaultSafe, DeadLetterAddRaisesSafe
<1>4. ASSUME NEW c \in Consumer, Stop(c)
      PROVE  SafeInv'
  <2>1. Kept(0) /\ UNCHANGED <<last, pc, cur, opc, opId>>
    BY <1>4, KeptSame DEF Stop, redis, ops, history
  <2> QED BY <1>0, <2>1, StillSafe
<1>5. ASSUME NEW i \in Ids, Expire(i) \/ DeadLetterDelete(i) PROVE SafeInv'
  BY <1>0, <1>5, ExpireSafe
<1>6. ASSUME NEW o \in Operator, OperatorStep(o) PROVE SafeInv'
  BY <1>0, <1>6, OperatorSafe
<1>7. ASSUME UNCHANGED vars PROVE SafeInv'
  <2>1. Kept(0) /\ UNCHANGED <<last, pc, cur, opc, opId>>
    BY <1>7, KeptSame DEF vars, redis, local, ops, history
  <2> QED BY <1>0, <2>1, StillSafe
<1> QED
  BY <1>1, <1>2, <1>3, <1>4, <1>5, <1>6, <1>7 DEF Next, NextOther

LEMMA SafeImplies == SafeInv => NoJobLost
<1> SUFFICES ASSUME SafeInv, NEW i \in 1..last
             PROVE  Over(log[i].job) \/ \E k \in present : Live(k) /\ log[k].job = log[i].job
  BY DEF NoJobLost, Published
<1>1. Acc(log[i].job, 0)
  BY DEF SafeInv, Accounted
<1> QED
  BY <1>1 DEF Acc, Over

\* A published job is over or held by a live entry, for any number of jobs,
\* workers, operators, priorities, failures, crashes and lost replies.
THEOREM NoJobIsLost == Spec => []NoJobLost
BY InitSafe, StepSafe, SafeImplies, PTL DEF Spec

=============================================================================
