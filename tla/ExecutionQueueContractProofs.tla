-------------------- MODULE ExecutionQueueContractProofs --------------------
(***************************************************************************)
(* ExecutionQueue implements AtLeastOnceQueue, and two workers share an    *)
(* entry only when it was idle, for every value of the constants.          *)
(***************************************************************************)
EXTENDS ExecutionQueueProofs

\* The group has read entry i at least once.
Delivered(i) == log[i].stream \in Priority /\ i <= cursor[log[i].stream]

\* What the streams, the cursor and the pending list say of one another: an
\* entry the group still owes something to is stored or was trimmed, and only
\* entries that were read are pending.
Books ==
    /\ \A i \in Ids : i \notin 1..last => log[i] = NoEntry
    /\ lost \cap present = {}
    /\ \A i \in 1..last : EntryStatus(i) \in {"ready", "claimed"} => i \in present
    /\ \A i \in Ids : owner[i] # NoConsumer => Delivered(i)
    /\ \A i \in stale : owner[i] # NoConsumer

\* A worker holds only entries that were read, and takes an entry off the
\* pending list without a success only when its copy is in the dead letters.
Works ==
    /\ \A c \in Consumer : \A i \in Held(c) \ {0} : Delivered(i)
    /\ \A c \in Consumer : pc[c] = "dlqAck" => cur[c] \in buried

\* Operators put back dead letters only.
Retries == \A o \in Operator : opc[o] # "idle" => log[opId[o]].stream = "dlq"

ContractInv == SafeInv /\ Books /\ Works /\ Retries

\* The contract's step, and the step of ExclusiveUnlessIdle.
Implements == [Contract!Next]_(Contract!avars)
Exclusive ==
    \A c, d \in Consumer : c # d => Held(c) \cap (Held(d)' \ Held(d)) \subseteq stale \cup {0}

-----------------------------------------------------------------------------
(* What the Redis commands do to the books and to the status of entries.   *)

LEMMA IdFacts ==
    ASSUME TypeInv
    PROVE  /\ last \in Nat /\ MaxEntries \in Nat /\ 0 \notin Ids
           /\ 1..last \subseteq Ids /\ Ids \subseteq Nat
           /\ present \subseteq 1..last /\ stale \subseteq 1..last /\ lost \subseteq 1..last
           /\ \A p \in Priority : cursor[p] \in 0..last /\ cursor[p] \in Nat
BY QueueAssumption DEF TypeInv, TypeOK, Ids

LEMMA StreamNames ==
    /\ "none" \notin Priority /\ "dlq" \notin Priority
    /\ NoEntry.stream \notin Priority
BY QueueAssumption DEF NoEntry

\* A read entry is claimed, settled or dropped.
LEMMA DeliveredStatus ==
    ASSUME TypeInv, NEW i \in Ids, Delivered(i)
    PROVE  /\ EntryStatus(i) \in {"claimed", "settled", "dropped"}
           /\ EntryStatus(i) = "claimed" <=> i \notin lost /\ owner[i] # NoConsumer
           /\ EntryStatus(i) = "dropped" <=> i \in lost
<1>1. log[i].stream \in Priority /\ ~(i > cursor[log[i].stream])
  BY IdFacts DEF Delivered
<1> QED BY <1>1 DEF EntryStatus

LEMMA SameBooks ==
    ASSUME TypeInv, Books, UNCHANGED <<last, log, present, cursor, owner, lost>>,
           \A i \in stale' : owner[i] # NoConsumer
    PROVE  Books' /\ \A i \in Ids : EntryStatus(i)' = EntryStatus(i)
BY DEF Books, EntryStatus, Delivered

LEMMA ClaimBooks ==
    ASSUME TypeInv, Books, NEW c \in Consumer, Assign(c, Claimable(c)),
           UNCHANGED <<last, log, present, cursor, lost>>
    PROVE  Books' /\ \A i \in Ids : EntryStatus(i)' = EntryStatus(i)
<1>1. c # NoConsumer /\ Claimable(c) \subseteq stale
  BY QueueAssumption DEF Claimable
<1>2. \A i \in Claimable(c) : owner[i] # NoConsumer
  BY <1>1 DEF Books
<1>3. \A i \in Ids : owner'[i] # NoConsumer <=> owner[i] # NoConsumer
  BY <1>1, <1>2 DEF Assign
<1>4. \A i \in Ids : EntryStatus(i)' = EntryStatus(i)
  BY <1>3 DEF EntryStatus
<1>5. stale' \subseteq stale /\ stale \subseteq Ids
  BY IdFacts DEF Assign
<1> QED BY <1>3, <1>4, <1>5, IdFacts DEF Books, Delivered

LEMMA ReadBooks ==
    ASSUME TypeInv, Books, NEW c \in Consumer, NEW upto \in [Priority -> 0..MaxEntries],
           XReadGroup(c, upto), UNCHANGED <<last, log, present, lost>>
    PROVE  /\ Books'
           /\ \A p \in Priority : cursor[p] <= cursor'[p]
           /\ ReadBatch(upto) \subseteq 1..last
           /\ \A i \in ReadBatch(upto) : /\ EntryStatus(i) = "ready"
                                         /\ ~Delivered(i) /\ Delivered(i)'
                                         /\ EntryStatus(i)' = "claimed"
           /\ \A i \in Ids \ ReadBatch(upto) : EntryStatus(i)' = EntryStatus(i)
<1>1. /\ c # NoConsumer /\ cursor' = upto
      /\ \A i \in Ids : owner'[i] = IF i \in ReadBatch(upto) THEN c ELSE owner[i]
      /\ stale' = stale \ ReadBatch(upto)
  BY QueueAssumption DEF XReadGroup, Assign
<1>2. \A p \in Priority : upto[p] \in Nat /\ cursor[p] \in Nat
  BY QueueAssumption, IdFacts
<1>3. \A p \in Priority : cursor[p] <= cursor'[p]
  <2> SUFFICES ASSUME NEW p \in Priority PROVE cursor[p] <= upto[p]
    BY <1>1
  <2>1. ReadsUpTo(p, upto)
    BY DEF XReadGroup
  <2>2. Undelivered(p) = {} => upto[p] = cursor[p]
    BY <2>1 DEF ReadsUpTo
  <2>3. Undelivered(p) # {} => upto[p] \in Undelivered(p)
    BY <2>1 DEF ReadsUpTo
  <2> QED BY <1>2, <2>2, <2>3 DEF Undelivered
<1>4. ReadBatch(upto) \subseteq 1..last
  BY IdFacts DEF ReadBatch
<1>5. ASSUME NEW i \in ReadBatch(upto)
      PROVE  /\ EntryStatus(i) = "ready" /\ ~Delivered(i) /\ Delivered(i)'
             /\ EntryStatus(i)' = "claimed"
  <2>1. /\ i \in Ids /\ i \in Nat /\ i \in present
        /\ log[i].stream \in Priority /\ i > cursor[log[i].stream]
        /\ i <= upto[log[i].stream]
    BY <1>4, <1>5, IdFacts DEF ReadBatch
  <2>2. i \notin lost /\ owner'[i] = c
    BY <1>1, <1>5, <2>1 DEF Books
  <2>3. ~(i > upto[log[i].stream]) /\ ~(i <= cursor[log[i].stream])
    BY <1>2, <2>1
  <2> QED BY <1>1, <2>1, <2>2, <2>3 DEF EntryStatus, Delivered
<1>6. ASSUME NEW i \in Ids \ ReadBatch(upto) PROVE EntryStatus(i)' = EntryStatus(i)
  <2>1. owner'[i] = owner[i] /\ i \in Nat
    BY <1>1, IdFacts
  <2>2. CASE log[i].stream \notin Priority \/ i \in lost
    BY <2>2 DEF EntryStatus
  <2>3. CASE log[i].stream \in Priority /\ i \notin lost
    <3>1. upto[log[i].stream] \in Nat /\ cursor[log[i].stream] \in Nat
          /\ cursor[log[i].stream] <= upto[log[i].stream]
      BY <1>1, <1>2, <1>3, <2>3
    <3>2. CASE i > cursor[log[i].stream]
      <4>1. EntryStatus(i) = "ready" /\ i \in 1..last
        BY <2>3, <3>2, StreamNames DEF EntryStatus, Books
      <4>2. i \in present
        BY <4>1 DEF Books
      <4>3. i > upto[log[i].stream]
        BY <1>6, <2>1, <2>3, <3>1, <3>2, <4>2 DEF ReadBatch
      <4> QED BY <1>1, <2>3, <4>1, <4>3 DEF EntryStatus
    <3>3. CASE ~(i > cursor[log[i].stream])
      <4>1. ~(i > upto[log[i].stream])
        BY <2>1, <3>1, <3>3
      <4> QED BY <1>1, <2>1, <2>3, <3>3, <4>1 DEF EntryStatus
    <3> QED BY <3>2, <3>3
  <2> QED BY <2>2, <2>3
<1>7. ASSUME NEW i \in Ids, owner'[i] # NoConsumer PROVE Delivered(i)'
  <2>1. CASE i \in ReadBatch(upto)
    BY <1>5, <2>1
  <2>2. CASE i \notin ReadBatch(upto)
    <3>1. Delivered(i)
      BY <1>1, <1>7, <2>2 DEF Books
    <3>2. i \in Nat /\ cursor[log[i].stream] \in Nat /\ cursor'[log[i].stream] \in Nat
      BY <1>1, <1>2, <3>1, IdFacts DEF Delivered
    <3> QED BY <1>3, <3>1, <3>2 DEF Delivered
  <2> QED BY <2>1, <2>2
<1>8. \A i \in 1..last : EntryStatus(i)' \in {"ready", "claimed"} => i \in present
  <2> SUFFICES ASSUME NEW i \in 1..last, EntryStatus(i)' \in {"ready", "claimed"}
               PROVE  i \in present
    OBVIOUS
  <2>1. i \in Ids
    BY IdFacts
  <2> QED BY <2>1, <1>6 DEF Books, ReadBatch
<1>9. \A i \in stale' : owner'[i] # NoConsumer
  BY <1>1, IdFacts DEF Books
<1>10. Books'
  BY <1>7, <1>8, <1>9 DEF Books
<1> QED BY <1>3, <1>4, <1>5, <1>6, <1>10

LEMMA AckBooks ==
    ASSUME TypeInv, Books, NEW g \in Ids, Delivered(g), XAck(g),
           UNCHANGED <<last, log, present, cursor, lost>>
    PROVE  /\ Books'
           /\ EntryStatus(g) = "claimed" => EntryStatus(g)' = "settled"
           /\ EntryStatus(g) # "claimed" => EntryStatus(g)' = EntryStatus(g)
           /\ \A i \in Ids \ {g} : EntryStatus(i)' = EntryStatus(i)
<1>1. /\ owner \in [Ids -> Consumer \cup {NoConsumer}]
      /\ owner' = [owner EXCEPT ![g] = NoConsumer] /\ stale' = stale \ {g}
  BY DEF XAck, TypeInv, TypeOK
<1>2. /\ owner'[g] = NoConsumer
      /\ \A i \in Ids \ {g} : owner'[i] = owner[i]
  BY <1>1
<1>3. log[g].stream \in Priority /\ ~(g > cursor[log[g].stream])
  BY IdFacts DEF Delivered
<1>4. /\ EntryStatus(g) = "claimed" => EntryStatus(g)' = "settled"
      /\ EntryStatus(g) # "claimed" => EntryStatus(g)' = EntryStatus(g)
  BY <1>2, <1>3 DEF EntryStatus
<1>5. \A i \in Ids \ {g} : EntryStatus(i)' = EntryStatus(i)
  BY <1>2 DEF EntryStatus
<1>6. \A i \in Ids : owner'[i] # NoConsumer => owner[i] # NoConsumer
  BY <1>2
<1>7. \A i \in stale' : owner'[i] # NoConsumer
  BY <1>1, <1>2, IdFacts DEF Books
<1>8. \A i \in 1..last : EntryStatus(i)' \in {"ready", "claimed"} => EntryStatus(i) = EntryStatus(i)'
  BY <1>4, <1>5, IdFacts
<1>9. Books'
  BY <1>6, <1>7, <1>8 DEF Books, Delivered
<1> QED BY <1>4, <1>5, <1>9

\* XADD of one entry, with the capacity trimming of the entries cut.
LEMMA AddBooks ==
    ASSUME TypeInv, Books, NEW e \in Entry, XAdd(e),
           NEW cut \in SUBSET present, \A i \in cut : log[i].stream \in Priority,
           present' = (present \ cut) \cup {last + 1},
           lost' = lost \cup {i \in cut : Live(i)},
           UNCHANGED <<cursor, owner, stale>>
    PROVE  /\ Books'
           /\ \A i \in 1..last : log'[i] = log[i]
           /\ last + 1 \in Ids /\ EntryStatus(last + 1) = "absent"
           /\ \A i \in Ids : i = last + 1 => EntryStatus(i)' = IF e.stream \in Priority THEN "ready" ELSE "absent"
           /\ \A i \in cut : Live(i) => EntryStatus(i) \in {"ready", "claimed"} /\ EntryStatus(i)' = "dropped"
           /\ \A i \in Ids : i # last + 1 /\ ~(i \in cut /\ Live(i)) => EntryStatus(i)' = EntryStatus(i)
<1>1. PICK n : n = last + 1
  OBVIOUS
<1>2. /\ n \in Ids /\ last \in Nat /\ n \notin 1..last /\ last' = n
      /\ log' = [log EXCEPT ![n] = e] /\ log \in [Ids -> Entry]
      /\ 1..last' = (1..last) \cup {n}
  BY <1>1, XAddType, QueueAssumption DEF TypeInv, TypeOK, XAdd, Ids
<1>3. log'[n] = e /\ \A i \in Ids \ {n} : log'[i] = log[i]
  BY <1>2
<1>4. n \notin present /\ n \notin cut /\ n \notin lost /\ n \notin lost'
  BY <1>2, IdFacts
<1>5. log[n].stream \notin Priority /\ log[n] = NoEntry
  BY <1>2, StreamNames DEF Books
<1>6. EntryStatus(n) = "absent"
  BY <1>5 DEF EntryStatus
<1>7. EntryStatus(n)' = IF e.stream \in Priority THEN "ready" ELSE "absent"
  <2>1. CASE e.stream \notin Priority
    BY <1>3, <2>1 DEF EntryStatus
  <2>2. CASE e.stream \in Priority
    <3>1. n > cursor[e.stream]
      BY <1>1, <2>2, IdFacts
    <3> QED BY <1>3, <1>4, <2>2, <3>1 DEF EntryStatus
  <2> QED BY <2>1, <2>2
<1>8. ASSUME NEW i \in cut, Live(i)
      PROVE  EntryStatus(i) \in {"ready", "claimed"} /\ EntryStatus(i)' = "dropped"
  <2>1. i \in Ids \ {n} /\ i \in present /\ i \notin lost /\ i \in lost' /\ log[i].stream \in Priority
    BY <1>2, <1>4, <1>8, IdFacts DEF Books
  <2>2. log[i].stream # "dlq" /\ log'[i] = log[i]
    BY <1>3, <2>1, StreamNames
  <2>3. i > cursor[log[i].stream] \/ owner[i] # NoConsumer
    BY <1>8, <2>2 DEF Live
  <2> QED BY <2>1, <2>2, <2>3 DEF EntryStatus
<1>9. ASSUME NEW i \in Ids, i # n, ~(i \in cut /\ Live(i)) PROVE EntryStatus(i)' = EntryStatus(i)
  <2>1. log'[i] = log[i] /\ (i \in lost' <=> i \in lost)
    BY <1>3, <1>9
  <2> QED BY <2>1 DEF EntryStatus
<1>10. \A i \in 1..last' : EntryStatus(i)' \in {"ready", "claimed"} => i \in present'
  <2> SUFFICES ASSUME NEW i \in 1..last', EntryStatus(i)' \in {"ready", "claimed"}
               PROVE  i \in present'
    OBVIOUS
  <2>1. CASE i = n
    BY <1>1, <2>1
  <2>2. CASE i # n
    <3>1. i \in 1..last /\ i \in Ids
      BY <1>2, <2>2, IdFacts
    <3>2. ~(i \in cut /\ Live(i))
      BY <1>8
    <3>3. EntryStatus(i) = EntryStatus(i)' /\ i \in present
      BY <1>9, <2>2, <3>1, <3>2 DEF Books
    <3>4. i \in cut => Live(i)
      <4> SUFFICES ASSUME i \in cut PROVE Live(i)
        OBVIOUS
      <4>1. log[i].stream \in Priority /\ (i > cursor[log[i].stream] \/ owner[i] # NoConsumer)
        BY <3>3 DEF EntryStatus
      <4> QED BY <3>3, <4>1 DEF Live
    <3> QED BY <3>2, <3>3, <3>4
  <2> QED BY <2>1, <2>2
<1>11. \A i \in Ids : i \notin 1..last' => log'[i] = NoEntry
  BY <1>2, <1>3 DEF Books
<1>12. lost' \cap present' = {}
  BY <1>1, <1>4 DEF Books
<1>13. \A i \in Ids : owner'[i] # NoConsumer => Delivered(i)'
  <2> SUFFICES ASSUME NEW i \in Ids, owner[i] # NoConsumer PROVE Delivered(i)'
    OBVIOUS
  <2>1. Delivered(i) /\ i # n
    BY <1>5 DEF Books, Delivered
  <2> QED BY <1>3, <2>1 DEF Delivered
<1>14. \A i \in stale' : owner'[i] # NoConsumer
  BY DEF Books
<1>15. Books'
  BY <1>10, <1>11, <1>12, <1>13, <1>14 DEF Books
<1>16. \A i \in 1..last : log'[i] = log[i]
  BY <1>2, <1>3, IdFacts
<1> QED BY <1>1, <1>2, <1>6, <1>7, <1>8, <1>9, <1>15, <1>16

LEMMA DeleteBooks ==
    ASSUME TypeInv, Books, NEW d \in Ids, log[d].stream = "dlq",
           present' = present \ {d}, lost' = lost \/ lost' = lost \cup {d},
           UNCHANGED <<last, log, cursor, owner, stale>>
    PROVE  Books' /\ \A i \in Ids : EntryStatus(i)' = EntryStatus(i)
<1>1. EntryStatus(d) = "absent" /\ EntryStatus(d)' = "absent"
  BY StreamNames DEF EntryStatus
<1>2. \A i \in Ids \ {d} : EntryStatus(i)' = EntryStatus(i)
  BY DEF EntryStatus
<1> QED BY <1>1, <1>2, IdFacts DEF Books, Delivered

-----------------------------------------------------------------------------
(* Steps of the contract.                                                  *)

LEMMA Stutters ==
    ASSUME \A i \in Ids : EntryStatus(i)' = EntryStatus(i), UNCHANGED <<succeeded, buried>>
    PROVE  Implements
BY DEF Implements, Contract!avars

LEMMA Delivers ==
    ASSUME NEW S \in SUBSET Ids, \A i \in S : EntryStatus(i) = "ready" /\ EntryStatus(i)' = "claimed",
           \A i \in Ids \ S : EntryStatus(i)' = EntryStatus(i), UNCHANGED <<succeeded, buried>>
    PROVE  Implements
<1>1. Contract!Deliver(S)
  BY DEF Contract!Deliver, Contract!Move
<1> QED BY <1>1 DEF Implements, Contract!Next

LEMMA Completes ==
    ASSUME TypeInv, NEW g \in Ids, Delivered(g),
           \A i \in Ids : EntryStatus(i)' = EntryStatus(i),
           \/ succeeded' = succeeded \cup {g} /\ buried' = buried
           \/ buried' = buried \cup {g} /\ succeeded' = succeeded
    PROVE  Implements
<1>1. Contract!Complete(g) \/ Contract!Bury(g)
  BY DeliveredStatus DEF Contract!Complete, Contract!Bury
<1> QED BY <1>1 DEF Implements, Contract!Next

LEMMA Settles ==
    ASSUME NEW g \in Ids, g \in succeeded \cup buried,
           EntryStatus(g) = "claimed" => EntryStatus(g)' = "settled",
           EntryStatus(g) # "claimed" => EntryStatus(g)' = EntryStatus(g),
           \A i \in Ids \ {g} : EntryStatus(i)' = EntryStatus(i), UNCHANGED <<succeeded, buried>>
    PROVE  Implements
<1>1. CASE EntryStatus(g) = "claimed"
  <2>1. Contract!Settle(g)
    BY <1>1 DEF Contract!Settle, Contract!Move
  <2> QED BY <2>1 DEF Implements, Contract!Next
<1>2. CASE EntryStatus(g) # "claimed"
  BY <1>2, Stutters
<1> QED BY <1>1, <1>2

LEMMA Publishes ==
    ASSUME NEW n \in Ids, NEW D \in SUBSET Ids, n \notin D,
           EntryStatus(n) = "absent", EntryStatus(n)' = "ready",
           \A i \in D : EntryStatus(i) \in {"ready", "claimed"} /\ EntryStatus(i)' = "dropped",
           \A i \in Ids : i # n /\ i \notin D => EntryStatus(i)' = EntryStatus(i),
           UNCHANGED <<succeeded, buried>>
    PROVE  Implements
<1>1. Contract!Publish(n, D)
  BY DEF Contract!Publish
<1> QED BY <1>1 DEF Implements, Contract!Next

-----------------------------------------------------------------------------
(* What a worker holds after a step.                                       *)

\* Ids are never renamed and the cursors only move forward.
Forward ==
    /\ \A i \in 1..last : log'[i] = log[i]
    /\ \A p \in Priority : cursor[p] <= cursor'[p]

\* After the step c holds nothing outside S, and the others what they held.
Takes(c, S) ==
    /\ \A d \in Consumer \ {c} : cur'[d] = cur[d] /\ todo'[d] = todo[d]
    /\ Held(c)' \subseteq S \cup {0}

LEMMA HeldFacts ==
    ASSUME TypeInv, NEW c \in Consumer
    PROVE  /\ Held(c) \subseteq 0..last /\ Held(c) \ {0} \subseteq 1..last
           /\ cur[c] \in Held(c) /\ todo[c] \subseteq Held(c) /\ todo[c] \subseteq 1..last
<1>1. cur[c] \in 0..last /\ todo[c] \in SUBSET (1..last) /\ last \in Nat
  BY IdFacts DEF TypeInv, TypeOK
<1> QED BY <1>1 DEF Held

LEMMA DeliveredKept ==
    ASSUME TypeInv, TypeInv', Forward, NEW i \in 1..last, Delivered(i)
    PROVE  Delivered(i)'
<1>1. log'[i] = log[i] /\ log[i].stream \in Priority /\ i \in Nat /\ i <= cursor[log[i].stream]
  BY DEF Forward, Delivered
<1>2. cursor[log[i].stream] \in Nat
  BY <1>1, IdFacts
<1>3. cursor'[log[i].stream] \in Nat
  <2>1. cursor' \in [Priority -> 0..last']
    BY DEF TypeInv, TypeOK
  <2> QED BY <1>1, <2>1
<1>4. cursor[log[i].stream] <= cursor'[log[i].stream]
  BY <1>1 DEF Forward
<1> QED BY <1>1, <1>2, <1>3, <1>4 DEF Delivered

LEMMA SameForward ==
    ASSUME TypeInv, UNCHANGED <<log, cursor>>
    PROVE  Forward
BY IdFacts DEF Forward

LEMMA LoadTakes ==
    ASSUME TypeInv, NEW c \in Consumer, NEW S, Load(c, S)
    PROVE  Takes(c, S)
<1>1. cur \in [Consumer -> 0..last] /\ todo \in [Consumer -> SUBSET (1..last)]
  BY DEF TypeInv, TypeOK
<1>2. CASE S = {}
  BY <1>1, <1>2 DEF Load, Forget, Takes, Held
<1>3. CASE S # {}
  <2>1. PICK i \in S : /\ cur' = [cur EXCEPT ![c] = i]
                       /\ todo' = [todo EXCEPT ![c] = S \ {i}]
    BY <1>3 DEF Load
  <2> QED BY <1>1, <2>1 DEF Takes, Held
<1> QED BY <1>2, <1>3

LEMMA TakesLess ==
    ASSUME NEW c \in Consumer, NEW S, NEW T, Takes(c, S), S \subseteq T
    PROVE  Takes(c, T)
BY DEF Takes

LEMMA NackTakes ==
    ASSUME TypeInv, NEW c \in Consumer, NEW inTry \in BOOLEAN, Nack(c, inTry)
    PROVE  Takes(c, Held(c))
<1>1. CASE tries[c] + 1 >= MaxRetries
  BY <1>1 DEF Nack, Takes, Held
<1>2. CASE ~(tries[c] + 1 >= MaxRetries)
  <2>1. Takes(c, todo[c])
    BY <1>2, LoadTakes DEF Nack
  <2> QED BY <2>1, HeldFacts, TakesLess
<1> QED BY <1>1, <1>2

LEMMA EndedTakes ==
    ASSUME TypeInv, NEW c \in Consumer, Ended(c)
    PROVE  Takes(c, Held(c))
<1>1. cur \in [Consumer -> 0..last] /\ todo \in [Consumer -> SUBSET (1..last)]
  BY DEF TypeInv, TypeOK
<1> QED BY <1>1 DEF Ended, Forget, Takes, Held

LEMMA NackRaisesTakes ==
    ASSUME TypeInv, NEW c \in Consumer, NEW refused \in BOOLEAN,
           NackRaises(c, refused) \/ Escape(c, refused)
    PROVE  Takes(c, Held(c))
<1>1. ASSUME Escape(c, refused) PROVE Takes(c, Held(c))
  <2>1. CASE Load(c, {})
    BY <2>1, LoadTakes, TakesLess
  <2>2. CASE Forget(c)
    <3>1. cur \in [Consumer -> 0..last] /\ todo \in [Consumer -> SUBSET (1..last)]
      BY DEF TypeInv, TypeOK
    <3> QED BY <2>2, <3>1 DEF Forget, Takes, Held
  <2> QED BY <1>1, <2>1, <2>2, EndedTakes DEF Escape
<1>2. ASSUME Nack(c, FALSE) PROVE Takes(c, Held(c))
  <2>1. FALSE \in BOOLEAN
    OBVIOUS
  <2> QED BY <1>2, <2>1, NackTakes, Zenon
<1> QED BY <1>1, <1>2 DEF NackRaises

\* A worker takes entries that were read, idle ones or such as nobody holds.
LEMMA WorksKept ==
    ASSUME TypeInv, TypeInv', Works, Forward, buried \subseteq buried',
           NEW c \in Consumer, NEW S, Takes(c, S),
           \A i \in S \ {0} : Delivered(i)',
           \A d \in Consumer \ {c} : S \cap Held(d) \subseteq stale \cup Held(c) \cup {0},
           \A d \in Consumer : \/ pc'[d] # "dlqAck"
                               \/ pc'[d] = pc[d] /\ cur'[d] = cur[d]
                               \/ cur'[d] \in buried'
    PROVE  Works' /\ Exclusive
<1>1. \A d \in Consumer \ {c} : Held(d)' = Held(d)
  BY DEF Takes, Held
<1>2. Held(c)' \subseteq S \cup {0}
  BY DEF Takes
<1>3. ASSUME NEW d \in Consumer, NEW i \in Held(d)' \ {0} PROVE Delivered(i)'
  <2>1. CASE d = c
    BY <1>2, <1>3, <2>1
  <2>2. CASE d # c
    <3>1. i \in Held(d) \ {0} /\ i \in 1..last
      BY <1>1, <1>3, <2>2, HeldFacts
    <3>2. Delivered(i)
      BY <3>1 DEF Works
    <3> QED BY <3>1, <3>2, DeliveredKept
  <2> QED BY <2>1, <2>2
<1>4. \A d \in Consumer : pc'[d] = "dlqAck" => cur'[d] \in buried'
  BY DEF Works
<1>5. Works'
  BY <1>3, <1>4 DEF Works
<1>6. Exclusive
  BY <1>1, <1>2 DEF Exclusive
<1> QED BY <1>5, <1>6

\* The same when it takes nothing new.
LEMMA WorksOn ==
    ASSUME TypeInv, TypeInv', Works, Forward, buried \subseteq buried',
           NEW c \in Consumer, Takes(c, Held(c)),
           \A d \in Consumer : \/ pc'[d] # "dlqAck"
                               \/ pc'[d] = pc[d] /\ cur'[d] = cur[d]
                               \/ cur'[d] \in buried'
    PROVE  Works' /\ Exclusive
<1>1. \A i \in Held(c) \ {0} : i \in 1..last /\ Delivered(i)
  BY HeldFacts DEF Works
<1>2. \A i \in Held(c) \ {0} : Delivered(i)'
  BY <1>1, DeliveredKept
<1> QED BY <1>2, WorksKept

LEMMA WorksStill ==
    ASSUME TypeInv, TypeInv', Works, Forward, buried \subseteq buried',
           UNCHANGED <<pc, cur, todo>>
    PROVE  Works' /\ Exclusive
<1>1. \A d \in Consumer : Held(d)' = Held(d)
  BY DEF Held
<1>2. ASSUME NEW d \in Consumer, NEW i \in Held(d)' \ {0} PROVE Delivered(i)'
  <2>1. i \in 1..last /\ Delivered(i)
    BY <1>1, <1>2, HeldFacts DEF Works
  <2> QED BY <2>1, DeliveredKept
<1>3. Works'
  BY <1>2 DEF Works
<1> QED BY <1>1, <1>3 DEF Exclusive

LEMMA RetriesStill ==
    ASSUME TypeInv, Retries, Forward, UNCHANGED ops
    PROVE  Retries'
<1>1. \A o \in Operator : opc[o] # "idle" => opId[o] \in 1..last
  BY IdFacts DEF TypeInv, TypeOK
<1> QED BY <1>1 DEF Retries, Forward, ops

-----------------------------------------------------------------------------
(* Every step keeps the invariant, implements the contract and hands over  *)
(* only idle entries.                                                      *)

Good == Books' /\ Works' /\ Retries' /\ Implements /\ Exclusive

\* A worker's step that changes nothing in the streams.
LEMMA PrivateGood ==
    ASSUME TypeInv, TypeInv', Books, Works, Retries, NEW c \in Consumer,
           UNCHANGED <<last, log, present, cursor, owner, stale, lost, succeeded, buried, ops>>,
           Takes(c, Held(c)), Quiet(c)
    PROVE  Good
<1>1. Books' /\ (\A i \in Ids : EntryStatus(i)' = EntryStatus(i))
  BY SameBooks DEF Books
<1>2. Forward
  BY SameForward
<1>3. Works' /\ Exclusive
  BY <1>2, WorksOn DEF Quiet
<1> QED BY <1>1, <1>2, <1>3, Stutters, RetriesStill DEF Good

\* A worker's acknowledgement of an entry that succeeded or was copied.
LEMMA AckGood ==
    ASSUME TypeInv, TypeInv', Books, Works, Retries, NEW c \in Consumer,
           XAck(cur[c]), pc[c] \in Busy, cur[c] \in succeeded \cup buried,
           UNCHANGED <<last, log, present, cursor, lost, succeeded, buried, ops>>,
           Takes(c, Held(c)), Quiet(c)
    PROVE  Good
<1>1. cur[c] \in Ids /\ cur[c] # 0
  BY DeadLetterEntry, IdFacts
<1>2. Delivered(cur[c])
  BY <1>1, HeldFacts DEF Works
<1>3. PICK g \in Ids : g = cur[c]
  BY <1>1
<1>4. /\ Books'
      /\ EntryStatus(g) = "claimed" => EntryStatus(g)' = "settled"
      /\ EntryStatus(g) # "claimed" => EntryStatus(g)' = EntryStatus(g)
      /\ \A i \in Ids \ {g} : EntryStatus(i)' = EntryStatus(i)
  BY <1>2, <1>3, AckBooks
<1>5. Forward
  BY SameForward
<1>6. Works' /\ Exclusive
  BY <1>5, WorksOn DEF Quiet
<1>7. Implements
  BY <1>3, <1>4, Settles
<1> QED BY <1>4, <1>5, <1>6, <1>7, RetriesStill DEF Good

LEMMA StartGood ==
    ASSUME ContractInv, TypeInv', NEW c \in Consumer,
           Start(c) \/ RecoverNext(c) \/ Exit(c) \/ HandlerFailure(c) \/ Crash(c)
    PROVE  Good
<1>1. TypeInv /\ Books /\ Works /\ Retries
  BY DEF ContractInv, SafeInv
<1> DEFINE Private == /\ UNCHANGED <<last, log, present, cursor, owner, stale>>
                      /\ UNCHANGED <<lost, succeeded, buried, ops>>
                      /\ Takes(c, Held(c)) /\ Quiet(c)
<1>2. ASSUME Start(c) \/ RecoverNext(c) PROVE Private
  <2>1. Quiet(c)
    BY <1>1, <1>2 DEF Start, RecoverNext, NextLane, Quiet, TypeInv, TypeOK
  <2>2. UNCHANGED <<cur, todo>>
    BY <1>2 DEF Start, RecoverNext
  <2>3. Takes(c, Held(c))
    BY <2>2 DEF Takes, Held
  <2> QED BY <1>2, <2>1, <2>3 DEF Start, RecoverNext, redis, history
<1>3. ASSUME Exit(c) \/ Crash(c) PROVE Private
  BY <1>1, <1>3, EndedTakes, EndedQuiet DEF Exit, Crash, redis, history
<1>4. ASSUME NEW raised \in BOOLEAN, HandlerFails(c, raised) PROVE Private
  <2>1. Nack(c, ~raised) /\ (~raised) \in BOOLEAN
    BY <1>4 DEF HandlerFails
  <2>2. Takes(c, Held(c)) /\ Quiet(c)
    BY <1>1, <2>1, NackTakes, NackQuiet, Zenon
  <2> QED BY <1>4, <2>2 DEF HandlerFails, redis, history
<1>5. Private
  BY <1>2, <1>3, <1>4 DEF HandlerFailure
<1> QED BY <1>1, <1>5, PrivateGood

LEMMA ClaimGood ==
    ASSUME ContractInv, TypeInv', NEW c \in Consumer, RecoverClaim(c)
    PROVE  Good
<1>1. TypeInv /\ Books /\ Works /\ Retries
  BY DEF ContractInv, SafeInv
<1>2. Books' /\ (\A i \in Ids : EntryStatus(i)' = EntryStatus(i))
  BY <1>1, ClaimBooks DEF RecoverClaim, history
<1>3. Forward /\ Takes(c, Claimable(c)) /\ Quiet(c)
  BY <1>1, SameForward, LoadTakes, LoadQuiet DEF RecoverClaim
<1>4. \A i \in Claimable(c) \ {0} : Delivered(i)'
  <2>1. \A i \in Claimable(c) : i \in 1..last /\ i \in Ids /\ i \in stale
    BY <1>1, IdFacts DEF Claimable
  <2>2. \A i \in Claimable(c) : i \in 1..last /\ Delivered(i)
    BY <1>1, <2>1 DEF Books
  <2> QED BY <1>1, <1>3, <2>2, DeliveredKept
<1>5. Claimable(c) \subseteq stale
  BY DEF Claimable
<1>6. buried' = buried /\ succeeded' = succeeded
  BY DEF RecoverClaim, history
<1>7. Works' /\ Exclusive
  BY <1>1, <1>3, <1>4, <1>5, <1>6, WorksKept DEF Quiet
<1>8. Retries'
  BY <1>1, <1>3, RetriesStill DEF RecoverClaim
<1> QED BY <1>2, <1>6, <1>7, <1>8, Stutters DEF Good

\* The entries of a read are new to every worker.
LEMMA ReadGood ==
    ASSUME ContractInv, TypeInv', NEW c \in Consumer,
           NEW upto \in [Priority -> 0..MaxEntries],
           Poll(c, upto) \/ PollRaises(c, upto)
    PROVE  Good
<1>1. TypeInv /\ Books /\ Works /\ Retries
  BY DEF ContractInv, SafeInv
<1>2. /\ XReadGroup(c, upto)
      /\ UNCHANGED <<last, log, present, lost, succeeded, buried, ops>>
  BY DEF Poll, PollRaises, history
<1>3. /\ Books'
      /\ \A p \in Priority : cursor[p] <= cursor'[p]
      /\ ReadBatch(upto) \subseteq 1..last
      /\ \A i \in ReadBatch(upto) : /\ EntryStatus(i) = "ready"
                                    /\ ~Delivered(i) /\ Delivered(i)'
                                    /\ EntryStatus(i)' = "claimed"
      /\ \A i \in Ids \ ReadBatch(upto) : EntryStatus(i)' = EntryStatus(i)
  BY <1>1, <1>2, ReadBooks
<1>4. Forward
  BY <1>2, <1>3 DEF Forward
<1>5. Implements
  <2>1. ReadBatch(upto) \in SUBSET Ids
    BY <1>1, <1>3, IdFacts
  <2> QED BY <1>2, <1>3, <2>1, Delivers
<1>6. Works' /\ Exclusive
  <2>1. CASE Poll(c, upto)
    <3>1. Takes(c, ReadBatch(upto)) /\ Quiet(c)
      BY <1>1, <2>1, LoadTakes, LoadQuiet DEF Poll
    <3>2. \A d \in Consumer : ReadBatch(upto) \cap Held(d) \subseteq {0}
      <4>1. ASSUME NEW d \in Consumer, NEW i \in Held(d) \ {0} PROVE i \notin ReadBatch(upto)
        <5>1. Delivered(i)
          BY <1>1 DEF Works
        <5> QED BY <1>3, <5>1
      <4> QED BY <4>1
    <3> QED BY <1>1, <1>2, <1>3, <1>4, <3>1, <3>2, WorksKept DEF Quiet
  <2>2. CASE PollRaises(c, upto)
    <3>1. UNCHANGED <<pc, cur, todo>>
      BY <2>2 DEF PollRaises, local
    <3> QED BY <1>1, <1>2, <1>4, <3>1, WorksStill
  <2> QED BY <2>1, <2>2
<1>7. Retries'
  BY <1>1, <1>2, <1>4, RetriesStill
<1> QED BY <1>3, <1>5, <1>6, <1>7 DEF Good

LEMMA SuccessGood ==
    ASSUME ContractInv, TypeInv', NEW c \in Consumer, HandlerSucceeds(c)
    PROVE  Good
<1>1. TypeInv /\ Books /\ Works /\ Retries /\ pc[c] \in Busy
  BY DEF ContractInv, SafeInv, HandlerSucceeds, Busy
<1>2. /\ UNCHANGED <<last, log, present, cursor, owner, stale, lost, buried, cur, todo, ops>>
      /\ succeeded' = succeeded \cup {cur[c]} /\ pc' = [pc EXCEPT ![c] = "ack"]
  BY DEF HandlerSucceeds, redis
<1>3. Forward
  BY <1>1, <1>2, SameForward
<1>4. Books' /\ (\A i \in Ids : EntryStatus(i)' = EntryStatus(i))
  BY <1>1, <1>2, SameBooks DEF Books
<1>5. PICK g \in Ids : g = cur[c] /\ g # 0
  BY <1>1, DeadLetterEntry, IdFacts
<1>6. Delivered(g)
  BY <1>1, <1>5, HeldFacts DEF Works
<1>7. Implements
  BY <1>1, <1>2, <1>4, <1>5, <1>6, Completes
<1>8. Works' /\ Exclusive
  <2>1. Takes(c, Held(c))
    BY <1>2 DEF Takes, Held
  <2>2. \A d \in Consumer : pc'[d] # "dlqAck" \/ (pc'[d] = pc[d] /\ cur'[d] = cur[d])
    BY <1>1, <1>2 DEF TypeInv, TypeOK
  <2> QED BY <1>1, <1>2, <1>3, <2>1, <2>2, WorksOn
<1> QED BY <1>1, <1>2, <1>3, <1>4, <1>7, <1>8, RetriesStill DEF Good

LEMMA AcksGood ==
    ASSUME ContractInv, TypeInv', NEW c \in Consumer,
           \/ Ack(c) \/ DeadLetterAck(c)
           \/ \E applied \in BOOLEAN : AckRaises(c, applied)
           \/ \E applied, refused \in BOOLEAN : \/ RecoverRaises(c, applied, refused)
                                                \/ DeadLetterAckRaises(c, applied, refused)
    PROVE  Good
<1>1. TypeInv /\ Books /\ Works /\ Retries
  BY DEF ContractInv, SafeInv
<1>2. /\ pc[c] = "ack" => cur[c] \in succeeded
      /\ pc[c] = "dlqAck" => cur[c] \in buried
  BY DEF ContractInv, SafeInv, Acked, Works
<1>3. ASSUME Ack(c) \/ DeadLetterAck(c) PROVE Good
  <2>1. Takes(c, todo[c]) /\ Quiet(c)
    BY <1>1, <1>3, LoadTakes, LoadQuiet DEF Ack, DeadLetterAck
  <2>2. Takes(c, Held(c))
    BY <1>1, <2>1, HeldFacts, TakesLess
  <2>3. pc[c] \in Busy /\ cur[c] \in succeeded \cup buried
    BY <1>2, <1>3 DEF Ack, DeadLetterAck, Busy
  <2>4. /\ XAck(cur[c])
        /\ UNCHANGED <<last, log, present, cursor, lost, succeeded, buried, ops>>
    BY <1>3 DEF Ack, DeadLetterAck, history
  <2> QED BY <1>1, <2>1, <2>2, <2>3, <2>4, AckGood
<1>4. ASSUME NEW applied \in BOOLEAN, NEW refused \in BOOLEAN,
             AckRaises(c, applied) \/ DeadLetterAckRaises(c, applied, refused)
      PROVE  Good
  <2>1. Takes(c, Held(c)) /\ Quiet(c)
    <3>1. CASE AckRaises(c, applied)
      <4>1. Nack(c, FALSE) /\ FALSE \in BOOLEAN
        BY <3>1 DEF AckRaises
      <4> QED BY <1>1, <4>1, NackTakes, NackQuiet, Zenon
    <3>2. CASE DeadLetterAckRaises(c, applied, refused)
      BY <1>1, <3>2, NackRaisesTakes, NackRaisesQuiet DEF DeadLetterAckRaises
    <3> QED BY <1>4, <3>1, <3>2
  <2>2. pc[c] \in Busy /\ cur[c] \in succeeded \cup buried
    BY <1>2, <1>4 DEF AckRaises, DeadLetterAckRaises, Busy
  <2>3. UNCHANGED <<last, log, present, cursor, lost, succeeded, buried, ops>>
    BY <1>4 DEF AckRaises, DeadLetterAckRaises
  <2>4. CASE applied
    <3>1. XAck(cur[c])
      BY <1>4, <2>4 DEF AckRaises, DeadLetterAckRaises
    <3> QED BY <1>1, <2>1, <2>2, <2>3, <3>1, AckGood
  <2>5. CASE ~applied
    <3>1. UNCHANGED <<owner, stale>>
      BY <1>4, <2>5 DEF AckRaises, DeadLetterAckRaises
    <3> QED BY <1>1, <2>1, <2>3, <3>1, PrivateGood
  <2> QED BY <2>4, <2>5
<1>5. ASSUME NEW applied \in BOOLEAN, NEW refused \in BOOLEAN,
             RecoverRaises(c, applied, refused)
      PROVE  Good
  <2>1. Takes(c, Held(c)) /\ Quiet(c)
    BY <1>1, <1>5, NackRaisesTakes, NackRaisesQuiet DEF RecoverRaises
  <2>2. UNCHANGED <<last, log, present, cursor, lost, succeeded, buried, ops>>
    BY <1>5 DEF RecoverRaises
  <2>3. CASE applied
    <3>1. Books' /\ (\A i \in Ids : EntryStatus(i)' = EntryStatus(i))
      BY <1>1, <1>5, <2>2, <2>3, ClaimBooks DEF RecoverRaises
    <3>2. Forward
      BY <1>1, <2>2, SameForward
    <3>3. Works' /\ Exclusive
      BY <1>1, <2>1, <2>2, <3>2, WorksOn DEF Quiet
    <3> QED BY <1>1, <2>2, <3>1, <3>2, <3>3, Stutters, RetriesStill DEF Good
  <2>4. CASE ~applied
    <3>1. UNCHANGED <<owner, stale>>
      BY <1>5, <2>4 DEF RecoverRaises
    <3> QED BY <1>1, <2>1, <2>2, <3>1, PrivateGood
  <2> QED BY <2>3, <2>4
<1> QED BY <1>3, <1>4, <1>5

\* Writing the dead-letter copy, its reply lost or not.
LEMMA BuryGood ==
    ASSUME ContractInv, TypeInv', NEW c \in Consumer, NEW refused \in BOOLEAN,
           DeadLetterAdd(c) \/ DeadLetterAddRaises(c, TRUE, refused)
    PROVE  Good
<1>1. TypeInv /\ Books /\ Works /\ Retries /\ pc[c] \in Busy
  BY DEF ContractInv, SafeInv, DeadLetterAdd, DeadLetterAddRaises, Busy
<1>2. PICK e \in Entry : e = [job |-> log[cur[c]].job, stream |-> "dlq", retries |-> tries[c]]
  BY <1>1, DeadLetterEntry
<1>3. /\ XAdd(e) /\ present' = (present \ {}) \cup {last + 1}
      /\ buried' = buried \cup {cur[c]}
      /\ UNCHANGED <<cursor, owner, stale, ops, succeeded, lost>>
  BY <1>2, Zenon DEF DeadLetterAdd, DeadLetterAddRaises
<1>4. e.stream \notin Priority
  BY <1>2, StreamNames
<1>5. {} \in SUBSET present /\ lost' = lost \cup {i \in {} : Live(i)}
  BY <1>3
<1>6. /\ Books'
      /\ \A i \in 1..last : log'[i] = log[i]
      /\ last + 1 \in Ids /\ EntryStatus(last + 1) = "absent"
      /\ \A i \in Ids : i = last + 1 => EntryStatus(i)' = IF e.stream \in Priority THEN "ready" ELSE "absent"
      /\ \A i \in Ids : i # last + 1 => EntryStatus(i)' = EntryStatus(i)
  BY <1>1, <1>3, <1>5, AddBooks
<1>7. \A i \in Ids : EntryStatus(i)' = EntryStatus(i)
  BY <1>4, <1>6
<1>8. Forward
  <2>1. \A p \in Priority : cursor[p] <= cursor[p]
    BY <1>1, IdFacts
  <2> QED BY <1>3, <1>6, <2>1 DEF Forward
<1>9. PICK g \in Ids : g = cur[c] /\ g # 0
  BY <1>1, DeadLetterEntry, IdFacts
<1>10. Delivered(g)
  BY <1>1, <1>9, HeldFacts DEF Works
<1>11. Implements
  BY <1>1, <1>3, <1>7, <1>9, <1>10, Completes
<1>12. Works' /\ Exclusive
  <2>1. CASE DeadLetterAdd(c)
    <3>1. UNCHANGED <<cur, todo>> /\ pc' = [pc EXCEPT ![c] = "dlqAck"]
      BY <2>1 DEF DeadLetterAdd
    <3>2. Takes(c, Held(c))
      BY <3>1 DEF Takes, Held
    <3>3. \A d \in Consumer : (pc'[d] = pc[d] /\ cur'[d] = cur[d]) \/ cur'[d] \in buried'
      BY <1>1, <1>3, <3>1 DEF TypeInv, TypeOK
    <3> QED BY <1>1, <1>3, <1>8, <3>2, <3>3, WorksOn
  <2>2. CASE DeadLetterAddRaises(c, TRUE, refused)
    <3>1. Takes(c, Held(c)) /\ Quiet(c)
      BY <1>1, <2>2, NackRaisesTakes, NackRaisesQuiet DEF DeadLetterAddRaises
    <3> QED BY <1>1, <1>3, <1>8, <3>1, WorksOn DEF Quiet
  <2> QED BY <2>1, <2>2
<1> QED BY <1>1, <1>3, <1>6, <1>8, <1>11, <1>12, RetriesStill DEF Good

LEMMA NotBuriedGood ==
    ASSUME ContractInv, TypeInv', NEW c \in Consumer, NEW refused \in BOOLEAN,
           DeadLetterAddRaises(c, FALSE, refused)
    PROVE  Good
<1>1. TypeInv /\ Books /\ Works /\ Retries
  BY DEF ContractInv, SafeInv
<1>2. NackRaises(c, refused)
  BY DEF DeadLetterAddRaises
<1>3. UNCHANGED <<last, log, present, cursor, owner, stale, lost, succeeded, buried, ops>>
  BY Zenon DEF DeadLetterAddRaises
<1> QED BY <1>1, <1>2, <1>3, NackRaisesTakes, NackRaisesQuiet, PrivateGood

LEMMA EnqueueGood ==
    ASSUME ContractInv, TypeInv', NEW j \in Job, NEW p \in Priority, NEW upto \in 0..MaxEntries,
           Enqueue(j, p, upto)
    PROVE  Good
<1>1. TypeInv /\ Books /\ Works /\ Retries
  BY DEF ContractInv, SafeInv
<1>2. PICK e \in Entry : e = [job |-> j, stream |-> p, retries |-> 0]
  BY DEF Entry
<1>3. PICK cut : cut = {i \in InStream(p) : i <= upto}
  OBVIOUS
<1>4. /\ XAdd(e) /\ cut \in SUBSET present /\ \A i \in cut : log[i].stream \in Priority
      /\ present' = (present \ cut) \cup {last + 1}
      /\ lost' = lost \cup {i \in cut : Live(i)}
      /\ UNCHANGED <<cursor, owner, stale, pc, cur, todo, ops, succeeded, buried>>
      /\ e.stream \in Priority
  BY <1>2, <1>3 DEF Enqueue, InStream, local
<1>5. /\ Books'
      /\ \A i \in 1..last : log'[i] = log[i]
      /\ last + 1 \in Ids /\ EntryStatus(last + 1) = "absent"
      /\ \A i \in Ids : i = last + 1 => EntryStatus(i)' = IF e.stream \in Priority THEN "ready" ELSE "absent"
      /\ \A i \in cut : Live(i) => EntryStatus(i) \in {"ready", "claimed"} /\ EntryStatus(i)' = "dropped"
      /\ \A i \in Ids : i # last + 1 /\ ~(i \in cut /\ Live(i)) => EntryStatus(i)' = EntryStatus(i)
  BY <1>1, <1>4, AddBooks
<1>6. PICK n, D : n = last + 1 /\ D = {i \in cut : Live(i)}
  OBVIOUS
<1>7. n \in Ids /\ D \in SUBSET Ids /\ n \notin D
  BY <1>1, <1>4, <1>5, <1>6, IdFacts
<1>8. Implements
  BY <1>4, <1>5, <1>6, <1>7, Publishes
<1>9. Forward
  <2>1. \A q \in Priority : cursor[q] <= cursor[q]
    BY <1>1, IdFacts
  <2> QED BY <1>4, <1>5, <2>1 DEF Forward
<1>10. Works' /\ Exclusive
  BY <1>1, <1>4, <1>9, WorksStill
<1> QED BY <1>1, <1>4, <1>5, <1>8, <1>9, <1>10, RetriesStill DEF Good

LEMMA StillGood ==
    ASSUME ContractInv, TypeInv',
           \/ UNCHANGED vars
           \/ \E c \in Consumer : Stop(c)
           \/ \E i \in Ids : Expire(i) \/ DeadLetterDelete(i)
    PROVE  Good
<1>1. TypeInv /\ Books /\ Works /\ Retries
  BY DEF ContractInv, SafeInv
<1> DEFINE Same == \A i \in Ids : EntryStatus(i)' = EntryStatus(i)
<1>2. ASSUME UNCHANGED vars \/ \E c \in Consumer : Stop(c)
      PROVE  Books' /\ Same
  <2>1. UNCHANGED <<last, log, present, cursor, owner, stale, lost>>
    BY <1>2 DEF vars, Stop, redis, history
  <2> QED BY <1>1, <2>1, SameBooks DEF Books
<1>3. ASSUME NEW i \in Ids, Expire(i) PROVE Books' /\ Same
  <2>1. UNCHANGED <<last, log, present, cursor, owner, lost>>
    BY <1>3 DEF Expire, history
  <2>2. \A k \in stale' : owner[k] # NoConsumer
    BY <1>1, <1>3 DEF Expire, Books
  <2> QED BY <1>1, <2>1, <2>2, SameBooks
<1>4. ASSUME NEW d \in Ids, DeadLetterDelete(d) PROVE Books' /\ Same
  <2>1. /\ log[d].stream = "dlq" /\ present' = present \ {d} /\ lost' = lost \cup {d}
        /\ UNCHANGED <<last, log, cursor, owner, stale>>
    BY <1>4 DEF DeadLetterDelete, InStream
  <2> QED BY <1>1, <2>1, DeleteBooks
<1>5. UNCHANGED <<log, cursor, pc, cur, todo, ops, succeeded, buried>>
  BY DEF Stop, Expire, DeadLetterDelete, vars, redis, local, ops, history
<1>6. Forward
  BY <1>1, <1>5, SameForward
<1>7. Works' /\ Exclusive
  BY <1>1, <1>5, <1>6, WorksStill
<1>8. Retries'
  BY <1>1, <1>5, <1>6, RetriesStill
<1>9. Books' /\ Same
  BY <1>2, <1>3, <1>4
<1> QED BY <1>5, <1>7, <1>8, <1>9, Stutters DEF Good

LEMMA RetryGood ==
    ASSUME ContractInv, TypeInv', NEW o \in Operator, OperatorStep(o)
    PROVE  Good
<1>1. TypeInv /\ Books /\ Works /\ Retries
  BY DEF ContractInv, SafeInv
<1>2. \A k \in Operator : opc[k] # "idle" => opId[k] \in 1..last /\ opId[k] \in Ids
  BY <1>1, IdFacts DEF TypeInv, TypeOK
<1>3. UNCHANGED <<cursor, owner, stale, pc, cur, todo, succeeded, buried, lost>>
  BY DEF OperatorStep, RetryRead, RetryAdd, RetryDelete, RetryAbandoned, redis, local, history
<1>4. opc \in [Operator -> {"idle", "add", "del"}] /\ opId \in [Operator -> 0..last]
  BY <1>1 DEF TypeInv, TypeOK
<1> DEFINE Same == \A i \in Ids : EntryStatus(i)' = EntryStatus(i)
<1>5. ASSUME NEW d \in Ids, NEW reset \in BOOLEAN, RetryRead(o, d, reset)
      PROVE  Books' /\ Implements /\ Forward /\ Retries'
  <2>1. UNCHANGED <<last, log, present>> /\ log[d].stream = "dlq"
    BY <1>5 DEF RetryRead, redis, InStream
  <2>2. Books' /\ Same
    BY <1>1, <1>3, <2>1, SameBooks DEF Books
  <2>3. opc' = [opc EXCEPT ![o] = "add"] /\ opId' = [opId EXCEPT ![o] = d]
    BY <1>5 DEF RetryRead
  <2>4. Retries'
    BY <1>1, <1>4, <2>1, <2>3 DEF Retries
  <2> QED BY <1>1, <1>3, <2>1, <2>2, <2>4, Stutters, SameForward
<1>6. ASSUME RetryDelete(o) \/ RetryAbandoned(o)
      PROVE  Books' /\ Implements /\ Forward /\ Retries'
  <2>1. UNCHANGED <<last, log>> /\ opc' = [opc EXCEPT ![o] = "idle"]
        /\ opId' = [opId EXCEPT ![o] = 0]
    BY <1>6 DEF RetryDelete, RetryAbandoned, redis
  <2>2. ASSUME RetryAbandoned(o) PROVE Books' /\ Implements
    <3>1. UNCHANGED present
      BY <2>2 DEF RetryAbandoned, redis
    <3>2. Books' /\ Same
      BY <1>1, <1>3, <2>1, <3>1, SameBooks DEF Books
    <3> QED BY <1>3, <3>2, Stutters
  <2>3. ASSUME RetryDelete(o) PROVE Books' /\ Implements
    <3>1. opc[o] # "idle" /\ present' = present \ {opId[o]}
      BY <2>3 DEF RetryDelete
    <3>2. PICK d \in Ids : d = opId[o]
      BY <1>2, <3>1
    <3>3. log[d].stream = "dlq" /\ present' = present \ {d}
      BY <1>1, <3>1, <3>2 DEF Retries
    <3>4. Books' /\ Same
      BY <1>1, <1>3, <2>1, <3>3, DeleteBooks
    <3> QED BY <1>3, <3>4, Stutters
  <2>4. Retries'
    BY <1>1, <1>4, <2>1 DEF Retries
  <2> QED BY <1>1, <1>3, <1>6, <2>1, <2>2, <2>3, <2>4, SameForward
<1>7. ASSUME NEW p \in Priority, RetryAdd(o, p)
      PROVE  Books' /\ Implements /\ Forward /\ Retries'
  <2>1. opId[o] \in Ids /\ log[opId[o]] \in Entry /\ opRetries[o] \in Nat
    BY <1>1, <1>2, <1>7 DEF RetryAdd, TypeInv, TypeOK
  <2>2. PICK e \in Entry : e = [job |-> log[opId[o]].job, stream |-> p, retries |-> opRetries[o]]
    BY <2>1 DEF Entry
  <2>3. /\ XAdd(e) /\ {} \in SUBSET present /\ present' = (present \ {}) \cup {last + 1}
        /\ lost' = lost \cup {i \in {} : Live(i)} /\ e.stream \in Priority
        /\ opc' = [opc EXCEPT ![o] = "del"] /\ UNCHANGED opId
    BY <1>3, <1>7, <2>2 DEF RetryAdd
  <2>4. /\ Books'
        /\ \A i \in 1..last : log'[i] = log[i]
        /\ last + 1 \in Ids /\ EntryStatus(last + 1) = "absent"
        /\ \A i \in Ids : i = last + 1 => EntryStatus(i)' = IF e.stream \in Priority THEN "ready" ELSE "absent"
        /\ \A i \in Ids : i # last + 1 => EntryStatus(i)' = EntryStatus(i)
    BY <1>1, <1>3, <2>3, AddBooks
  <2>5. Implements
    <3>1. PICK n \in Ids : n = last + 1
      BY <2>4
    <3>2. {} \in SUBSET Ids
      OBVIOUS
    <3> QED BY <1>3, <2>3, <2>4, <3>1, <3>2, Publishes
  <2>6. Forward
    <3>1. \A q \in Priority : cursor[q] <= cursor[q]
      BY <1>1, IdFacts
    <3> QED BY <1>3, <2>4, <3>1 DEF Forward
  <2>7. Retries'
    <3>1. opc[o] # "idle"
      BY <1>7 DEF RetryAdd
    <3>2. \A k \in Operator : opc'[k] # "idle" => opc[k] # "idle"
      BY <1>4, <2>3, <3>1
    <3> QED BY <1>1, <1>2, <2>3, <2>4, <3>2 DEF Retries
  <2> QED BY <2>4, <2>5, <2>6, <2>7
<1>8. Books' /\ Implements /\ Forward /\ Retries'
  BY <1>5, <1>6, <1>7 DEF OperatorStep
<1>9. Works' /\ Exclusive
  BY <1>1, <1>3, <1>8, WorksStill
<1> QED BY <1>8, <1>9 DEF Good

-----------------------------------------------------------------------------
LEMMA EveryStepGood ==
    ASSUME ContractInv, [Next]_vars
    PROVE  ContractInv' /\ Implements /\ Exclusive
<1>1. SafeInv' /\ TypeInv'
  BY StepSafe DEF ContractInv, SafeInv
<1>2. ASSUME NEW c \in Consumer, ConsumerStep(c) \/ HandlerFailure(c) PROVE Good
  BY <1>1, <1>2, StartGood, ClaimGood, ReadGood, SuccessGood, AcksGood, BuryGood DEF ConsumerStep
<1>3. ASSUME NEW c \in Consumer, ConsumerFault(c) PROVE Good
  <2>1. ASSUME NEW applied \in BOOLEAN, NEW refused \in BOOLEAN,
               DeadLetterAddRaises(c, applied, refused)
        PROVE  Good
    <3>1. CASE applied = TRUE
      BY <1>1, <2>1, <3>1, BuryGood
    <3>2. CASE applied = FALSE
      BY <1>1, <2>1, <3>2, NotBuriedGood
    <3> QED BY <3>1, <3>2
  <2> QED BY <1>1, <1>3, <2>1, StartGood, ReadGood, AcksGood DEF ConsumerFault
<1>4. ASSUME NEW j \in Job, NEW p \in Priority, NEW upto \in 0..MaxEntries, Enqueue(j, p, upto)
      PROVE  Good
  BY <1>1, <1>4, EnqueueGood
<1>5. ASSUME NEW o \in Operator, OperatorStep(o) PROVE Good
  BY <1>1, <1>5, RetryGood
<1>6. ASSUME \/ UNCHANGED vars
             \/ \E c \in Consumer : Stop(c)
             \/ \E i \in Ids : Expire(i) \/ DeadLetterDelete(i)
      PROVE  Good
  BY <1>1, <1>6, StillGood
<1>7. Good
  BY <1>2, <1>3, <1>4, <1>5, <1>6 DEF Next, NextOther
<1> QED BY <1>1, <1>7 DEF Good, ContractInv

LEMMA ContractInit == Init => ContractInv /\ Contract!Init
<1> SUFFICES ASSUME Init PROVE ContractInv /\ Contract!Init
  OBVIOUS
<1>1. 1..last = {} /\ \A i \in Ids : log[i] = NoEntry
  BY DEF Init
<1>2. Books /\ Retries
  BY <1>1 DEF Init, Books, Retries
<1>3. Works
  BY DEF Init, Works, Held
<1>4. \A i \in Ids : EntryStatus(i) = "absent"
  BY <1>1, StreamNames DEF EntryStatus
<1>5. Contract!Init
  BY <1>4 DEF Init, Contract!Init
<1> QED BY <1>2, <1>3, <1>5, InitSafe DEF ContractInv

\* The queue implements the at-least-once contract entry by entry: whatever
\* workers, producers and operators do and wherever they die, an entry of a
\* priority stream leaves the group only after a success or a dead-letter
\* copy, never comes back once it left, and is dropped by trimming alone.
THEOREM QueueImplementsContract == Spec => AtLeastOnce
<1>1. ContractInv /\ [Next]_vars => ContractInv' /\ [Contract!Next]_(Contract!avars)
  BY EveryStepGood DEF Implements
<1> QED BY <1>1, ContractInit, PTL DEF Spec, AtLeastOnce, Contract!Spec

\* Two workers hold one entry at a time only when it had been idle before the
\* second one took it over in recovery.
THEOREM OnlyIdleIsShared == Spec => ExclusiveUnlessIdle
<1>1. ContractInv /\ [Next]_vars
      => ContractInv' /\ [\A c, d \in Consumer :
            c # d => Held(c) \cap (Held(d)' \ Held(d)) \subseteq stale \cup {0}]_vars
  BY EveryStepGood DEF Exclusive
<1> QED BY <1>1, ContractInit, PTL DEF Spec, ExclusiveUnlessIdle

=============================================================================
