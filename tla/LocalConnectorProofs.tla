------------------------- MODULE LocalConnectorProofs -------------------------
(***************************************************************************)
(* Theorems about LocalConnector, for any number of runs, daemons, tool    *)
(* calls, attempts and faults: its types, that the result of a call is     *)
(* that of the attempt the run waits for, that no daemon executes an       *)
(* invocation twice, and in which order it executes those of a run.        *)
(***************************************************************************)
EXTENDS LocalConnector, SequenceTheorems, TLAPS

TaskState == [pc : {"new", "lease", "loop", "wait", "release", "over"},
              call : 1..(MaxCalls + 1), try : 0..MaxTries, got : BOOLEAN]
DaemonState == [proc : {"new", "up", "gone"}, incoming : Seq(Run),
                tools : Seq(Message), lease : Run \cup {NoRun}, cancel : BOOLEAN]

\* TypeOK by parts: the tasks of the runs, ...
TaskTypes ==
    /\ task \in [Run -> TaskState]
    /\ status \in [Run -> {"pending", "running", "ended", "cancelled"}]
\* ... what the hub keeps, and what is being sent, ...
HubTypes ==
    /\ pending \in Seq(Run)
    /\ buffer \in Seq(Message)
    /\ acked \subseteq Run
    /\ registered \subseteq Daemon
    /\ handler \in [Daemon -> {"off", "replay", "serve"}]
    /\ soon \subseteq Run
OutTypes == out \in [Sender -> Seq(Sending)]
\* ... the connections, the daemons, and the history.
NetTypes ==
    /\ wire \in [Daemon -> {"open", "cut"}]
    /\ down \in [Daemon -> Seq(Message)]
    /\ up \in [Daemon -> Seq(Reply)]
DaemonTypes ==
    /\ daemon \in [Daemon -> DaemonState]
    /\ \A d \in Daemon : \A i \in DOMAIN daemon[d].tools :
          daemon[d].tools[i].run = daemon[d].lease
HistoryTypes ==
    /\ faults \in 0..MaxFaults
    /\ executed \in [Daemon -> Seq(Invocation)]
    /\ stored \subseteq Invocation

\* A task makes no more attempts than it may. With it, TypeOK is inductive.
TasksInRange ==
    \A r \in Run : /\ task[r].pc = "loop" => task[r].try < MaxTries
                   /\ task[r].pc = "wait" => task[r].try >= 1 /\ task[r].call <= MaxCalls
                   /\ task[r].pc \in {"new", "lease"} => task[r].try = 0

LEMMA TypeParts ==
    TypeOK <=> TaskTypes /\ HubTypes /\ OutTypes /\ NetTypes /\ DaemonTypes /\ HistoryTypes
BY DEF TypeOK, TaskTypes, HubTypes, OutTypes, NetTypes, DaemonTypes, HistoryTypes, TaskState,
       DaemonState

-----------------------------------------------------------------------------
(* Sequences.                                                              *)

LEMMA HeadAndTail ==
    ASSUME NEW S, NEW s \in Seq(S), s # <<>>
    PROVE  /\ Head(s) \in S /\ Head(s) = s[1] /\ 1 \in DOMAIN s
           /\ Tail(s) \in Seq(S)
           /\ \A i \in DOMAIN Tail(s) : i \in Nat /\ i + 1 \in DOMAIN s /\ Tail(s)[i] = s[i + 1]
BY HeadTailProperties

LEMMA AtTheEnd ==
    ASSUME NEW S, NEW s \in Seq(S), NEW e \in S
    PROVE  /\ Append(s, e) \in Seq(S)
           /\ \A i \in DOMAIN Append(s, e) :
                 \/ i \in DOMAIN s /\ Append(s, e)[i] = s[i]
                 \/ i = Len(s) + 1 /\ Append(s, e)[i] = e
           /\ \A i \in DOMAIN s : i \in 1..Len(s) /\ i \in DOMAIN Append(s, e)
           /\ Len(s) + 1 \in DOMAIN Append(s, e) /\ Append(s, e)[Len(s) + 1] = e
BY AppendProperties

LEMMA InSeq ==
    ASSUME NEW S, NEW s \in Seq(S), NEW i \in DOMAIN s
    PROVE  s[i] \in S /\ i \in Nat /\ s # <<>>
BY ElementOfSeq

LEMMA IsSequence ==
    ASSUME NEW S, NEW n \in Nat, NEW f \in [1..n -> S]
    PROVE  f \in Seq(S) /\ Len(f) = n
BY SeqDef

-----------------------------------------------------------------------------
(* What actions do to a task.                                              *)

\* The task of the run is now as said, and every other as it was.
TaskIs(r, pc, call, try, got) ==
    /\ task' \in [Run -> TaskState]
    /\ task'[r].pc = pc /\ task'[r].call = call /\ task'[r].try = try /\ task'[r].got = got
    /\ \A q \in Run \ {r} : task'[q] = task[q]

LEMMA TaskSet ==
    ASSUME TaskTypes, NEW r \in Run, NEW t \in TaskState, SetTask(r, t)
    PROVE  TaskIs(r, t.pc, t.call, t.try, t.got)
BY DEF TaskTypes, SetTask, TaskIs

LEMMA TaskGoes ==
    ASSUME TaskTypes, NEW r \in Run,
           NEW pc \in {"new", "lease", "loop", "wait", "release", "over"}, Goto(r, pc)
    PROVE  TaskIs(r, pc, task[r].call, task[r].try, task[r].got)
<1> DEFINE t == [task[r] EXCEPT !.pc = pc]
<1>1. task[r] \in TaskState
  BY DEF TaskTypes
<1>2. t \in TaskState /\ t.pc = pc /\ t.call = task[r].call /\ t.try = task[r].try /\ t.got = task[r].got
  BY <1>1 DEF TaskState
<1>3. SetTask(r, t)
  BY DEF Goto
<1> QED BY <1>2, <1>3, TaskSet

LEMMA TaskEnds ==
    ASSUME TaskTypes, NEW r \in Run, SetTask(r, [NewTask EXCEPT !.pc = "release"])
    PROVE  TaskIs(r, "release", 1, 0, FALSE)
<1> DEFINE t == [NewTask EXCEPT !.pc = "release"]
<1>0. NewTask \in TaskState
  BY ConnectorAssumption DEF TaskState, NewTask, ConnectorAssumption
<1>1. t \in TaskState /\ t.pc = "release" /\ t.call = 1 /\ t.try = 0 /\ t.got = FALSE
  <2>1. NewTask.call = 1 /\ NewTask.try = 0 /\ NewTask.got = FALSE
    BY DEF NewTask
  <2> QED BY <1>0, <2>1 DEF TaskState
<1> QED BY <1>1, TaskSet

LEMMA TaskInvokes ==
    ASSUME TaskTypes, TasksInRange, NEW r \in Run, task[r].pc = "loop",
           SetTask(r, [task[r] EXCEPT !.pc = "wait", !.try = @ + 1, !.got = FALSE])
    PROVE  TaskIs(r, "wait", task[r].call, task[r].try + 1, FALSE)
<1> DEFINE t == [task[r] EXCEPT !.pc = "wait", !.try = @ + 1, !.got = FALSE]
<1>1. task[r] \in TaskState /\ task[r].try \in Nat /\ task[r].try + 1 <= MaxTries
  BY ConnectorAssumption DEF TaskTypes, TaskState, TasksInRange, ConnectorAssumption
<1>2. PICK n \in TaskState, k \in 0..MaxTries : n = task[r] /\ k = task[r].try + 1
  BY <1>1, ConnectorAssumption DEF ConnectorAssumption
<1>3. t = [n EXCEPT !.pc = "wait", !.try = k, !.got = FALSE]
  BY <1>2
<1> HIDE DEF t
<1>4. t \in TaskState /\ t.pc = "wait" /\ t.call = n.call /\ t.try = k /\ t.got = FALSE
  BY <1>3 DEF TaskState
<1>5. SetTask(r, t)
  BY DEF t
<1> QED BY <1>2, <1>4, <1>5, TaskSet

\* A task that waited goes on with the next call, or with the next attempt.
LEMMA TaskGoesOn ==
    ASSUME TaskTypes, TasksInRange, NEW r \in Run, task[r].pc = "wait", NextCall(r) \/ TryAgain(r)
    PROVE  \/ TaskIs(r, "loop", task[r].call + 1, 0, FALSE)
           \/ task[r].try < MaxTries /\ TaskIs(r, "loop", task[r].call, task[r].try, task[r].got)
<1>1. CASE NextCall(r)
  <2> DEFINE t == [pc |-> "loop", call |-> task[r].call + 1, try |-> 0, got |-> FALSE]
  <2>1. task[r].call \in 1..(MaxCalls + 1) /\ task[r].call <= MaxCalls
    BY <1>1 DEF TaskTypes, TaskState, TasksInRange
  <2>2. t \in TaskState /\ t.pc = "loop" /\ t.call = task[r].call + 1 /\ t.try = 0 /\ t.got = FALSE
    BY <2>1, ConnectorAssumption DEF TaskState, ConnectorAssumption
  <2>3. SetTask(r, t)
    BY <1>1 DEF NextCall
  <2> QED BY <2>2, <2>3, TaskSet
<1>2. CASE TryAgain(r) /\ ~NextCall(r)
  BY <1>2, TaskGoes DEF TryAgain
<1> QED BY <1>1, <1>2

-----------------------------------------------------------------------------
(* What actions do to the sends to come.                                   *)

LEMMA OutSet ==
    ASSUME OutTypes, NEW s \in Sender, NEW q \in Seq(Sending), out' = [out EXCEPT ![s] = q]
    PROVE  OutTypes' /\ out'[s] = q /\ \A u \in Sender \ {s} : out'[u] = out[u]
BY DEF OutTypes

LEMMA Planned ==
    ASSUME OutTypes, NEW s \in Sender, NEW to \in SUBSET Daemon, NEW m \in Message, Plan(s, to, m)
    PROVE  /\ OutTypes'
           /\ to = {} => out'[s] = out[s]
           /\ to # {} => out'[s] = Append(out[s], [to |-> to, msg |-> m])
           /\ \A u \in Sender \ {s} : out'[u] = out[u]
<1>1. CASE to = {}
  BY <1>1 DEF Plan, OutTypes
<1>2. CASE to # {}
  <2> DEFINE q == Append(out[s], [to |-> to, msg |-> m])
  <2>1. [to |-> to, msg |-> m] \in Sending
    BY <1>2 DEF Sending
  <2>2. q \in Seq(Sending)
    BY <2>1, AtTheEnd DEF OutTypes
  <2>3. out' = [out EXCEPT ![s] = q]
    BY <1>2 DEF Plan
  <2> QED BY <1>2, <2>2, <2>3, OutSet
<1> QED BY <1>1, <1>2

\* One send less: what is left are sends of before, in their order, the first
\* of them no longer to d.
SendsLess(s, d, k) ==
    /\ Len(out'[s]) = Len(out[s]) - k
    /\ \A i \in DOMAIN out'[s] :
          /\ i \in Nat /\ i + k \in DOMAIN out[s]
          /\ out'[s][i].msg = out[s][i + k].msg
          /\ out'[s][i].to \subseteq out[s][i + k].to
          /\ i + k = 1 => d \notin out'[s][i].to

LEMMA SentOne ==
    ASSUME OutTypes, NEW s \in Sender, NEW d \in Daemon, IsNext(s, d), SentTo(s, d)
    PROVE  /\ OutTypes'
           /\ \E k \in {0, 1} : SendsLess(s, d, k)
           /\ \A u \in Sender \ {s} : out'[u] = out[u]
<1> DEFINE h == Head(out[s])
           g == [h EXCEPT !.to = @ \ {d}]
           t == Tail(out[s])
<1>1. out[s] \in Seq(Sending) /\ out[s] # <<>> /\ d \in h.to
  BY DEF OutTypes, IsNext
<1>2. h \in Sending /\ h = out[s][1] /\ t \in Seq(Sending) /\ Len(t) = Len(out[s]) - 1
      /\ Len(out[s]) \in Nat \ {0} /\ DOMAIN out[s] = 1..Len(out[s]) /\ DOMAIN t = 1..Len(t)
      /\ \A i \in DOMAIN t : t[i] = out[s][i + 1]
  BY <1>1, HeadTailProperties
<1>3. CASE h.to = {d}
  <2>1. out' = [out EXCEPT ![s] = t]
    BY <1>3 DEF SentTo
  <2> HIDE DEF t, h, g
  <2>2. OutTypes' /\ out'[s] = t /\ \A u \in Sender \ {s} : out'[u] = out[u]
    BY <1>2, <2>1, OutSet
  <2>3. SendsLess(s, d, 1)
    BY <1>2, <2>2 DEF SendsLess
  <2> QED BY <2>2, <2>3
<1>4. CASE h.to # {d}
  <2>1. g \in Sending /\ g.msg = h.msg /\ g.to = h.to \ {d}
    BY <1>1, <1>2, <1>4 DEF Sending
  <2>2. out' = [out EXCEPT ![s] = <<g>> \o t]
    BY <1>4 DEF SentTo
  <2> HIDE DEF t, h, g
  <2>3. <<g>> \in Seq(Sending) /\ Len(<<g>>) = 1 /\ <<g>>[1] = g
    BY <2>1
  <2>4. <<g>> \o t \in Seq(Sending) /\ Len(<<g>> \o t) = 1 + Len(t) /\ (<<g>> \o t)[1] = g
        /\ \A i \in 1..Len(t) : (<<g>> \o t)[1 + i] = t[i]
    BY <1>2, <2>3, ConcatProperties
  <2>5. OutTypes' /\ out'[s] = <<g>> \o t /\ \A u \in Sender \ {s} : out'[u] = out[u]
    BY <2>2, <2>4, OutSet
  <2>6. SendsLess(s, d, 0)
    <3>1. Len(out'[s]) = Len(out[s]) - 0
      BY <1>2, <2>4, <2>5
    <3>2. DOMAIN out'[s] = 1..Len(out[s])
      BY <1>2, <2>4, <2>5
    <3> SUFFICES ASSUME NEW i \in 1..Len(out[s])
                 PROVE  /\ i \in Nat /\ i + 0 \in DOMAIN out[s]
                        /\ out'[s][i].msg = out[s][i + 0].msg
                        /\ out'[s][i].to \subseteq out[s][i + 0].to
                        /\ i + 0 = 1 => d \notin out'[s][i].to
      BY <3>1, <3>2 DEF SendsLess
    <3>3. CASE i = 1
      BY <1>2, <2>1, <2>4, <2>5, <3>3
    <3>4. CASE i # 1
      <4>1. out'[s][i] = out[s][i]
        <5>1. i - 1 \in 1..Len(t) /\ 1 + (i - 1) = i /\ (i - 1) + 1 = i
          BY <1>2, <3>4
        <5>2. (<<g>> \o t)[1 + (i - 1)] = t[i - 1] /\ t[i - 1] = out[s][(i - 1) + 1]
          BY <1>2, <2>4, <5>1
        <5> QED BY <2>5, <5>1, <5>2
      <4> QED BY <1>2, <3>4, <4>1
    <3> QED BY <3>3, <3>4
  <2> QED BY <2>5, <2>6
<1> QED BY <1>3, <1>4

-----------------------------------------------------------------------------
(* What actions do to a daemon.                                            *)

\* The daemon is n now, and every other is as it was.
LEMMA DaemonSet ==
    ASSUME DaemonTypes, NEW d \in Daemon, NEW n \in DaemonState,
           \A i \in DOMAIN n.tools : n.tools[i].run = n.lease, Become(d, n)
    PROVE  DaemonTypes' /\ daemon'[d] = n /\ \A c \in Daemon \ {d} : daemon'[c] = daemon[c]
BY DEF DaemonTypes, Become

LEMMA GoneTypes == Gone \in DaemonState /\ Gone.tools = <<>>
<1>1. Off \in DaemonState /\ Off.tools = <<>>
  BY DEF Off, DaemonState
<1> QED BY <1>1 DEF Gone, DaemonState

LEMMA LeftTypes ==
    ASSUME NEW n \in DaemonState PROVE Left(n) \in DaemonState /\ Left(n).tools = <<>>
<1>1. <<>> \in Seq(Message)
  OBVIOUS
<1> QED BY <1>1 DEF Left, DaemonState

\* Without a lease there are no tools.
LEMMA NoTools ==
    ASSUME DaemonTypes, NEW d \in Daemon, daemon[d].lease = NoRun
    PROVE  daemon[d].tools = <<>>
<1>1. daemon[d].tools \in Seq(Message)
  BY DEF DaemonTypes, DaemonState
<1>2. \A m \in Message : m.run \in Run
  BY DEF Message, Invocation
<1> SUFFICES ASSUME daemon[d].tools # <<>> PROVE FALSE
  OBVIOUS
<1>3. 1 \in DOMAIN daemon[d].tools
  BY <1>1, HeadAndTail
<1>4. daemon[d].tools[1] \in Message
  BY <1>1, <1>3, InSeq
<1> QED BY <1>2, <1>3, <1>4, ConnectorAssumption DEF DaemonTypes, ConnectorAssumption

-----------------------------------------------------------------------------
(* Types.                                                                  *)

TypeInv == TypeOK /\ TasksInRange

LEMMA TypeInit == Init => TypeInv
<1> SUFFICES ASSUME Init PROVE TypeInv
  OBVIOUS
<1>1. NewTask \in TaskState /\ NewTask.pc = "new"
  BY ConnectorAssumption DEF TaskState, NewTask, ConnectorAssumption
<1>2. TaskTypes /\ TasksInRange
  BY <1>1 DEF Init, NewTask, TaskTypes, TasksInRange
<1>3. Off \in DaemonState /\ Off.tools = <<>>
  BY DEF Off, DaemonState
<1>4. DaemonTypes
  BY <1>3 DEF Init, DaemonTypes
<1>5. HubTypes /\ OutTypes /\ NetTypes /\ HistoryTypes
  BY ConnectorAssumption DEF Init, HubTypes, OutTypes, NetTypes, HistoryTypes, ConnectorAssumption
<1> QED BY <1>2, <1>4, <1>5, TypeParts DEF TypeInv

\* The messages that the server makes.
LEMMA Messages ==
    ASSUME NEW r \in Run
    PROVE  /\ Lease(r) \in Message
           /\ [type |-> "run.connector_release", run |-> r] \in Message
           /\ [type |-> "run.cancel_requested", run |-> r] \in Message
           /\ Invocation \subseteq Message
           /\ \A m \in Message : m.type = "tool.invoke" <=> m \in Invocation
           /\ \A m \in Message : m.run \in Run
           /\ \A s \in {"notify", "run"} : <<s, r>> \in Sender
BY DEF Lease, Message, Invocation, Sender

LEMMA TasksKept ==
    ASSUME TaskTypes, TasksInRange, NEW r \in Run, NEW pc, NEW call, NEW try, NEW got,
           TaskIs(r, pc, call, try, got), pc = "loop" => try < MaxTries,
           pc = "wait" => try >= 1 /\ call <= MaxCalls, pc \in {"new", "lease"} => try = 0
    PROVE  TasksInRange'
BY DEF TaskIs, TasksInRange

\* What invoke_tool does.
InvokeDoes(r) ==
    /\ TaskIs(r, "wait", task[r].call, task[r].try + 1, FALSE) /\ TasksInRange'
    /\ Invoked(r)' \in Invocation
    /\ OutTypes' /\ \A u \in Sender \ {<<"run", r>>} : out'[u] = out[u]
    /\ \/ /\ registered = {}
          /\ out'[<<"run", r>>] = out[<<"run", r>>]
          /\ buffer' = Append(buffer, Invoked(r)')
          /\ stored' = stored \cup {Invoked(r)'}
       \/ /\ registered # {}
          /\ out'[<<"run", r>>] = Append(out[<<"run", r>>], [to |-> registered, msg |-> Invoked(r)'])
          /\ UNCHANGED <<buffer, stored>>

LEMMA InvokeEffect ==
    ASSUME TypeInv, NEW r \in Run, Invoke(r)
    PROVE  InvokeDoes(r)
<1>0. TaskTypes /\ HubTypes /\ OutTypes /\ TasksInRange
  BY TypeParts DEF TypeInv
<1>1. TaskIs(r, "wait", task[r].call, task[r].try + 1, FALSE)
  BY <1>0, TaskInvokes DEF Invoke
<1>2. task[r].call \in 1..MaxCalls /\ task[r].try + 1 \in 1..MaxTries
  BY <1>0, ConnectorAssumption DEF Invoke, TaskTypes, TaskState, TasksInRange, ConnectorAssumption
<1>3. TasksInRange'
  <2>1. task[r].call <= MaxCalls /\ task[r].try + 1 >= 1
    BY <1>2, ConnectorAssumption DEF ConnectorAssumption
  <2> QED BY <1>0, <1>1, <2>1 DEF TasksInRange, TaskIs
<1>4. Invoked(r)' \in Invocation
  BY <1>1, <1>2 DEF TaskIs, Invoked, Invocation
<1> PICK m \in Invocation : m = Invoked(r)'
  BY <1>4
<1>5. Plan(<<"run", r>>, registered, m)
      /\ buffer' = (IF registered = {} THEN Append(buffer, m) ELSE buffer)
      /\ stored' = (IF registered = {} THEN stored \cup {m} ELSE stored)
  BY DEF Invoke, BroadcastOrBuffer
<1>6. <<"run", r>> \in Sender /\ m \in Message /\ registered \in SUBSET Daemon
  BY <1>0, Messages DEF HubTypes
<1> QED BY <1>0, <1>1, <1>3, <1>5, <1>6, Planned DEF InvokeDoes

LEMMA TaskStepTypes ==
    ASSUME TypeInv, NEW r \in Run, Start(r) \/ Notify(r) \/ TaskStep(r) \/ Cancel(r)
    PROVE  TypeInv'
<1>0. TaskTypes /\ HubTypes /\ OutTypes /\ NetTypes /\ DaemonTypes /\ HistoryTypes /\ TasksInRange
  BY TypeParts DEF TypeInv
<1> SUFFICES /\ TaskTypes' /\ HubTypes' /\ OutTypes' /\ NetTypes' /\ DaemonTypes' /\ HistoryTypes'
             /\ TasksInRange'
  BY DEF TypeInv, TypeOK, TaskTypes, HubTypes, OutTypes, NetTypes, DaemonTypes, HistoryTypes,
         TaskState, DaemonState
<1>1. NetTypes' /\ DaemonTypes'
  BY <1>0 DEF Start, Notify, TaskStep, LeaseAcked, LeaseTimeout, Finish, End, Invoke, Timeout,
              Return, Release, Cancel, remote, net, NetTypes, DaemonTypes
<1>2. CASE Start(r)
  <2>1. TaskIs(r, "lease", task[r].call, task[r].try, task[r].got)
    BY <1>0, <1>2, TaskGoes DEF Start
  <2>2. TasksInRange'
    BY <1>0, <1>2, <2>1 DEF Start, TaskIs, TasksInRange
  <2>3. pending' \in Seq(Run)
    BY <1>0, <1>2, AtTheEnd DEF Start, HubTypes
  <2> QED BY <1>0, <1>1, <1>2, <2>1, <2>2, <2>3
      DEF Start, TaskIs, TaskTypes, HubTypes, OutTypes, HistoryTypes, remote, history
<1>3. CASE Notify(r)
  <2>1. OutTypes'
    BY <1>0, <1>3, Planned, Messages DEF Notify, HubTypes
  <2> QED BY <1>0, <1>1, <1>3, <2>1
      DEF Notify, TaskTypes, TasksInRange, HubTypes, HistoryTypes, remote, history
<1>4. CASE LeaseAcked(r)
  <2>1. TaskIs(r, "loop", task[r].call, task[r].try, task[r].got)
    BY <1>0, <1>4, TaskGoes DEF LeaseAcked
  <2>2. TasksInRange'
    <3>1. task[r].try = 0
      BY <1>0, <1>4 DEF LeaseAcked, TasksInRange
    <3> QED BY <1>0, <2>1, <3>1, TasksKept, ConnectorAssumption DEF ConnectorAssumption
  <2> QED BY <1>0, <1>1, <1>4, <2>1, <2>2
      DEF LeaseAcked, TaskIs, TaskTypes, HubTypes, OutTypes, HistoryTypes, remote, history
<1>5. CASE LeaseTimeout(r) \/ Finish(r)
  <2>1. TaskIs(r, "release", 1, 0, FALSE) /\ status' = [status EXCEPT ![r] = "ended"]
    BY <1>0, <1>5, TaskEnds DEF LeaseTimeout, Finish, End
  <2>2. TasksInRange'
    BY <1>0, <2>1, TasksKept
  <2> QED BY <1>0, <1>1, <1>5, <2>1, <2>2
      DEF LeaseTimeout, Finish, End, TaskIs, TaskTypes, HubTypes, OutTypes, HistoryTypes, remote,
          history
<1>6. CASE Invoke(r)
  <2>1. InvokeDoes(r)
    BY <1>6, InvokeEffect
  <2> PICK m \in Invocation : m = Invoked(r)'
    BY <2>1 DEF InvokeDoes
  <2>2. stored' \subseteq Invocation /\ buffer' \in Seq(Message)
    <3>1. m \in Message /\ Append(buffer, m) \in Seq(Message)
      BY <1>0, Messages, AtTheEnd DEF HubTypes
    <3> QED BY <1>0, <2>1, <3>1 DEF InvokeDoes, HubTypes, HistoryTypes
  <2> QED BY <1>0, <1>1, <1>6, <2>1, <2>2
      DEF Invoke, InvokeDoes, TaskIs, TaskTypes, HubTypes, HistoryTypes
<1>7. CASE Timeout(r) \/ Return(r)
  <2>1. /\ TaskTypes' /\ TasksInRange'
    <3>1. \/ TaskIs(r, "loop", task[r].call + 1, 0, FALSE)
          \/ task[r].try < MaxTries /\ TaskIs(r, "loop", task[r].call, task[r].try, task[r].got)
      BY <1>0, <1>7, TaskGoesOn DEF Timeout, Return
    <3> QED BY <1>0, <1>7, <3>1, ConnectorAssumption
        DEF Timeout, Return, TaskIs, TaskTypes, TasksInRange, ConnectorAssumption
  <2>2. OutTypes'
    <3>1. <<>> \in Seq(Sending) /\ <<"run", r>> \in Sender
      BY Messages, EmptySeq
    <3> QED BY <1>0, <1>7, <3>1 DEF Timeout, Return, OutTypes
  <2> QED BY <1>0, <1>1, <1>7, <2>1, <2>2
      DEF Timeout, Return, HubTypes, HistoryTypes, remote, history
<1>8. CASE Release(r)
  <2> PICK m \in Message : m = [type |-> "run.connector_release", run |-> r]
    BY Messages
  <2>1. TaskIs(r, "over", task[r].call, task[r].try, task[r].got)
    BY <1>0, <1>8, TaskGoes DEF Release
  <2>2. TasksInRange'
    BY <1>0, <2>1, TasksKept
  <2>3. OutTypes'
    BY <1>0, <1>8, Planned, Messages DEF Release, BroadcastOrBuffer, HubTypes
  <2>4. buffer' \in Seq(Message)
    BY <1>0, <1>8, AtTheEnd DEF Release, BroadcastOrBuffer, HubTypes
  <2> QED BY <1>0, <1>1, <1>8, <2>1, <2>2, <2>3, <2>4
      DEF Release, TaskIs, TaskTypes, HubTypes, HistoryTypes, remote, history
<1>9. CASE Cancel(r)
  <2>1. buffer' \in Seq(Message)
    <3> PICK m \in Message : m = [type |-> "run.cancel_requested", run |-> r]
      BY Messages
    <3> QED BY <1>0, <1>9, AtTheEnd DEF Cancel, HubTypes
  <2>2. status' = [status EXCEPT ![r] = "cancelled"] /\ task' = task
    BY <1>9 DEF Cancel
  <2> QED BY <1>0, <1>1, <1>9, <2>1, <2>2, ConnectorAssumption
      DEF Cancel, Fault, TaskTypes, TasksInRange, HubTypes, OutTypes, HistoryTypes, history,
          ConnectorAssumption
<1> QED BY <1>2, <1>3, <1>4, <1>5, <1>6, <1>7, <1>8, <1>9 DEF TaskStep

\* What a step of d leaves on the way to it and in it: less of what there was, ...
WayShrinks(d) ==
    /\ down'[d] \in {down[d], <<>>} \/ (down[d] # <<>> /\ down'[d] = Tail(down[d]))
    /\ daemon'[d].tools \in {daemon[d].tools, <<>>}
    /\ executed'[d] = executed[d]
\* ... a message that is with the tools now, ...
WayMoves(d) ==
    /\ down[d] # <<>>
    /\ daemon'[d].tools = Append(daemon[d].tools, Head(down[d]))
    /\ down'[d] = Tail(down[d])
    /\ executed'[d] = executed[d]
\* ... or a tool that is executed.
WayExecutes(d) ==
    /\ daemon[d].tools # <<>> /\ Head(daemon[d].tools) \in Invocation
    /\ executed'[d] = Append(executed[d], Head(daemon[d].tools))
    /\ daemon'[d].tools \in {Tail(daemon[d].tools), <<>>}
    /\ down'[d] \in {down[d], <<>>}

\* A step of d touches nothing of another daemon, and up[d] gets what d replies.
DaemonDoes(d) ==
    /\ UNCHANGED stored
    /\ DaemonTypes' /\ NetTypes' /\ HistoryTypes'
    /\ \A c \in Daemon \ {d} : /\ down'[c] = down[c] /\ up'[c] = up[c]
                               /\ daemon'[c] = daemon[c] /\ executed'[c] = executed[c]
    /\ WayShrinks(d) \/ WayMoves(d) \/ WayExecutes(d)
    /\ \/ up'[d] = up[d]
       \/ \E m \in Reply : /\ up'[d] = Append(up[d], m)
                           /\ m.type = "tool.result" => WayExecutes(d) /\ m.of = Head(daemon[d].tools)

LEMMA PumpEffect ==
    ASSUME TypeInv, NEW d \in Daemon, Pump(d)
    PROVE  DaemonDoes(d)
<1>0. NetTypes /\ DaemonTypes /\ HistoryTypes
  BY TypeParts DEF TypeInv
<1>1. PICK m \in Message, n \in DaemonState, rest \in Seq(Message) :
        m = Head(down[d]) /\ n = daemon[d] /\ rest = Tail(down[d]) /\ down[d] # <<>>
  BY <1>0, HeadAndTail DEF Pump, NetTypes, DaemonTypes
<1>2. down' = [down EXCEPT ![d] = rest] /\ wire' = wire /\ up' = up
      /\ executed' = executed /\ stored' = stored /\ faults' = faults
  BY <1>1 DEF Pump, history
<1>3. PICK k \in DaemonState :
        /\ Become(d, k)
        /\ \/ k.tools = n.tools /\ k.lease = n.lease
           \/ k.tools = Append(n.tools, m) /\ k.lease = n.lease /\ m.run = n.lease
  <2>1. m.run \in Run
    BY Messages DEF Message, Invocation
  <2>2. CASE m.type = "run.cancel_requested"
    <3> DEFINE k == [n EXCEPT !.cancel = TRUE]
    <3>1. k \in DaemonState /\ k.tools = n.tools /\ k.lease = n.lease
      BY DEF DaemonState
    <3>2. Become(d, k)
      BY <1>1, <2>2 DEF Pump
    <3> QED BY <3>1, <3>2
  <2>3. CASE m.type = "run_lease"
    <3>1. Append(n.incoming, m.run) \in Seq(Run)
      BY <2>1, AtTheEnd DEF DaemonState
    <3> DEFINE k == [n EXCEPT !.incoming = Append(n.incoming, m.run)]
    <3>2. k \in DaemonState /\ k.tools = n.tools /\ k.lease = n.lease
      BY <3>1 DEF DaemonState
    <3>3. Become(d, k)
      BY <1>1, <2>3 DEF Pump
    <3> QED BY <3>2, <3>3
  <2>4. CASE m.type \notin {"run.cancel_requested", "run_lease"} /\ m.run = n.lease
    <3>1. Append(n.tools, m) \in Seq(Message)
      BY AtTheEnd DEF DaemonState
    <3> DEFINE k == [n EXCEPT !.tools = Append(n.tools, m)]
    <3>2. k \in DaemonState /\ k.tools = Append(n.tools, m) /\ k.lease = n.lease
      BY <3>1 DEF DaemonState
    <3>3. Become(d, k)
      BY <1>1, <2>4 DEF Pump
    <3> QED BY <2>4, <3>2, <3>3
  <2>5. CASE m.type \notin {"run.cancel_requested", "run_lease"} /\ m.run # n.lease
    <3>1. Become(d, n)
      BY <1>1, <2>5 DEF Pump
    <3> QED BY <3>1
  <2> QED BY <2>2, <2>3, <2>4, <2>5
<1>4. \A i \in DOMAIN k.tools : k.tools[i].run = k.lease
  <2>1. \A i \in DOMAIN n.tools : n.tools[i].run = n.lease
    BY <1>0, <1>1 DEF DaemonTypes
  <2>2. n.tools \in Seq(Message)
    BY DEF DaemonState
  <2> QED BY <1>3, <2>1, <2>2, AtTheEnd
<1>5. DaemonTypes' /\ daemon'[d] = k /\ \A c \in Daemon \ {d} : daemon'[c] = daemon[c]
  BY <1>0, <1>3, <1>4, DaemonSet
<1>6. NetTypes' /\ down'[d] = rest /\ (\A c \in Daemon \ {d} : down'[c] = down[c]) /\ up' = up
  BY <1>0, <1>2 DEF NetTypes
<1>7. HistoryTypes'
  BY <1>0, <1>2 DEF HistoryTypes
<1>8. WayShrinks(d) \/ WayMoves(d)
  BY <1>1, <1>2, <1>3, <1>5, <1>6 DEF WayShrinks, WayMoves
<1> QED BY <1>2, <1>5, <1>6, <1>7, <1>8 DEF DaemonDoes

\* A step that sends m: what becomes of the connection.
LEMMA Replied ==
    ASSUME NetTypes, DaemonTypes, NEW d \in Daemon, NEW m \in Reply, NEW n \in DaemonState,
           \A i \in DOMAIN n.tools : n.tools[i].run = n.lease,
           ReplyAndBecome(d, m, n), wire' = wire
    PROVE  /\ NetTypes' /\ DaemonTypes'
           /\ \A c \in Daemon \ {d} : /\ down'[c] = down[c] /\ up'[c] = up[c]
                                      /\ daemon'[c] = daemon[c]
           /\ down'[d] \in {down[d], <<>>}
           /\ daemon'[d].tools \in {n.tools, <<>>}
           /\ up'[d] = up[d] \/ up'[d] = Append(up[d], m)
<1>1. Become(d, n) \/ Become(d, Gone)
  BY DEF ReplyAndBecome
<1>2. /\ DaemonTypes' /\ daemon'[d].tools \in {n.tools, <<>>}
      /\ \A c \in Daemon \ {d} : daemon'[c] = daemon[c]
  <2>1. CASE Become(d, n)
    BY <2>1, DaemonSet
  <2>2. CASE Become(d, Gone)
    BY <2>2, DaemonSet, GoneTypes
  <2> QED BY <1>1, <2>1, <2>2
<1>3. /\ NetTypes' /\ down'[d] \in {down[d], <<>>}
      /\ \A c \in Daemon \ {d} : down'[c] = down[c] /\ up'[c] = up[c]
      /\ up'[d] = up[d] \/ up'[d] = Append(up[d], m)
  <2>1. Append(up[d], m) \in Seq(Reply) /\ <<>> \in Seq(Message)
    BY AtTheEnd, EmptySeq DEF NetTypes
  <2> DEFINE q == Append(up[d], m)
  <2>2. up' = [up EXCEPT ![d] = q] \/ up' = up
    BY DEF ReplyAndBecome
  <2>3. down' = [down EXCEPT ![d] = <<>>] \/ down' = down
    BY DEF ReplyAndBecome
  <2> HIDE DEF q
  <2>4. q \in Seq(Reply) /\ q = Append(up[d], m)
    BY <2>1 DEF q
  <2> QED BY <2>1, <2>2, <2>3, <2>4 DEF NetTypes
<1> QED BY <1>2, <1>3

LEMMA TakeLeaseEffect ==
    ASSUME TypeInv, NEW d \in Daemon, TakeLease(d)
    PROVE  DaemonDoes(d)
<1>0. NetTypes /\ DaemonTypes /\ HistoryTypes
  BY TypeParts DEF TypeInv
<1>1. PICK n \in DaemonState : n = daemon[d] /\ n.incoming # <<>> /\ n.lease = NoRun
  BY <1>0 DEF TakeLease, DaemonTypes
<1>2. PICK r \in Run, rest \in Seq(Run) : r = Head(n.incoming) /\ rest = Tail(n.incoming)
  BY <1>1, HeadAndTail DEF DaemonState
<1>3. n.tools = <<>>
  BY <1>0, <1>1, NoTools
<1> DEFINE k == [n EXCEPT !.incoming = rest, !.lease = r]
           m == [type |-> "run.lease_ack", run |-> r]
<1>4. ReplyAndBecome(d, m, k) /\ wire' = wire
      /\ executed' = executed /\ stored' = stored /\ faults' = faults
  BY <1>1, <1>2 DEF TakeLease, history
<1>5. k \in DaemonState /\ k.tools = <<>>
  BY <1>3 DEF DaemonState
<1>6. m \in Reply /\ m.type # "tool.result"
  BY DEF Reply
<1> HIDE DEF k, m
<1>7. /\ NetTypes' /\ DaemonTypes'
      /\ \A c \in Daemon \ {d} : down'[c] = down[c] /\ up'[c] = up[c] /\ daemon'[c] = daemon[c]
      /\ down'[d] \in {down[d], <<>>}
      /\ daemon'[d].tools = <<>>
      /\ up'[d] = up[d] \/ up'[d] = Append(up[d], m)
  <2>1. \A i \in DOMAIN k.tools : k.tools[i].run = k.lease
    BY <1>5
  <2> QED BY <1>0, <1>4, <1>5, <1>6, <2>1, Replied
<1>8. HistoryTypes' /\ WayShrinks(d)
  BY <1>0, <1>4, <1>7 DEF HistoryTypes, WayShrinks
<1> QED BY <1>4, <1>6, <1>7, <1>8 DEF DaemonDoes

LEMMA ExecuteEffect ==
    ASSUME TypeInv, NEW d \in Daemon, Execute(d)
    PROVE  DaemonDoes(d)
<1>0. NetTypes /\ DaemonTypes /\ HistoryTypes
  BY TypeParts DEF TypeInv
<1>1. PICK n \in DaemonState : n = daemon[d] /\ n.tools # <<>>
  BY <1>0 DEF Execute, DaemonTypes
<1>2. n.tools \in Seq(Message)
  BY DEF DaemonState
<1>3. PICK i \in Message, rest \in Seq(Message) : i = Head(n.tools) /\ rest = Tail(n.tools)
  BY <1>1, <1>2, HeadAndTail
<1>4. i \in Invocation
  BY <1>1, <1>3 DEF Execute, Message, Invocation
<1> DEFINE k == [n EXCEPT !.tools = rest]
           m == [type |-> "tool.result", of |-> i]
<1>5. ReplyAndBecome(d, m, k) /\ wire' = wire /\ stored' = stored /\ faults' = faults
      /\ executed' = [executed EXCEPT ![d] = Append(executed[d], i)]
  BY <1>1, <1>3 DEF Execute
<1>6. k \in DaemonState /\ k.tools = rest /\ k.lease = n.lease
  BY DEF DaemonState
<1>7. m \in Reply /\ m.of = i
  BY <1>4 DEF Reply
<1> HIDE DEF k, m
<1>8. /\ NetTypes' /\ DaemonTypes'
      /\ \A c \in Daemon \ {d} : down'[c] = down[c] /\ up'[c] = up[c] /\ daemon'[c] = daemon[c]
      /\ down'[d] \in {down[d], <<>>}
      /\ daemon'[d].tools \in {rest, <<>>}
      /\ up'[d] = up[d] \/ up'[d] = Append(up[d], m)
  <2>1. \A j \in DOMAIN k.tools : k.tools[j].run = k.lease
    <3>1. \A j \in DOMAIN n.tools : n.tools[j].run = n.lease
      BY <1>0, <1>1 DEF DaemonTypes
    <3> QED BY <1>1, <1>2, <1>3, <1>6, <3>1, HeadAndTail
  <2> QED BY <1>0, <1>5, <1>6, <1>7, <2>1, Replied
<1>9. /\ HistoryTypes' /\ executed'[d] = Append(executed[d], i)
      /\ \A c \in Daemon \ {d} : executed'[c] = executed[c]
  <2> DEFINE q == Append(executed[d], i)
  <2>1. q \in Seq(Invocation)
    BY <1>0, <1>4, AtTheEnd DEF HistoryTypes
  <2>2. executed' = [executed EXCEPT ![d] = q]
    BY <1>5
  <2> HIDE DEF q
  <2>3. HistoryTypes' /\ executed'[d] = q /\ \A c \in Daemon \ {d} : executed'[c] = executed[c]
    BY <1>0, <1>5, <2>1, <2>2 DEF HistoryTypes
  <2> QED BY <2>3 DEF q
<1>10. WayExecutes(d)
  BY <1>1, <1>3, <1>4, <1>8, <1>9 DEF WayExecutes
<1> QED BY <1>1, <1>3, <1>5, <1>7, <1>8, <1>9, <1>10 DEF DaemonDoes

\* A lease is left, a connection breaks, or a daemon connects or exits.
LEMMA LeaveEffect ==
    ASSUME TypeInv, NEW d \in Daemon, LeaveCancelled(d) \/ LeaveReleased(d)
    PROVE  DaemonDoes(d)
<1>0. NetTypes /\ DaemonTypes /\ HistoryTypes
  BY TypeParts DEF TypeInv
<1>1. PICK k \in DaemonState : k = Left(daemon[d]) /\ k.tools = <<>>
  BY <1>0, LeftTypes DEF DaemonTypes
<1>2. Become(d, k) /\ UNCHANGED <<net, history, faults>>
  BY <1>1 DEF LeaveCancelled, LeaveReleased
<1>3. DaemonTypes' /\ daemon'[d] = k /\ \A c \in Daemon \ {d} : daemon'[c] = daemon[c]
  BY <1>0, <1>1, <1>2, DaemonSet
<1> QED BY <1>0, <1>1, <1>2, <1>3
        DEF net, history, NetTypes, HistoryTypes, DaemonDoes, WayShrinks

LEMMA ConnectionEffect ==
    ASSUME TypeInv, NEW d \in Daemon, Cut(d) \/ Exit(d) \/ Connect(d)
    PROVE  DaemonDoes(d)
<1>0. NetTypes /\ DaemonTypes /\ HistoryTypes
  BY TypeParts DEF TypeInv
<1>1. UNCHANGED <<up, executed, stored>> /\ HistoryTypes'
  BY <1>0, ConnectorAssumption
  DEF Cut, Exit, Connect, Fault, history, HistoryTypes, ConnectorAssumption
<1>2. /\ DaemonTypes' /\ daemon'[d].tools \in {daemon[d].tools, <<>>}
      /\ \A c \in Daemon \ {d} : daemon'[c] = daemon[c]
  <2>1. CASE Cut(d)
    BY <1>0, <2>1 DEF Cut, DaemonTypes
  <2>2. CASE Exit(d)
    BY <1>0, <2>2, DaemonSet, GoneTypes DEF Exit
  <2>3. CASE Connect(d)
    <3> PICK n \in DaemonState : n = daemon[d]
      BY <1>0 DEF DaemonTypes
    <3> DEFINE k == [n EXCEPT !.proc = "up"]
    <3>1. k \in DaemonState /\ k.tools = n.tools /\ k.lease = n.lease
      BY DEF DaemonState
    <3>2. Become(d, k)
      BY <2>3 DEF Connect, Become
    <3> HIDE DEF k
    <3>3. \A i \in DOMAIN k.tools : k.tools[i].run = k.lease
      BY <1>0, <3>1 DEF DaemonTypes
    <3> QED BY <1>0, <3>1, <3>2, <3>3, DaemonSet
  <2> QED BY <2>1, <2>2, <2>3
<1>3. /\ NetTypes' /\ down'[d] \in {down[d], <<>>}
      /\ \A c \in Daemon \ {d} : down'[c] = down[c]
  <2>1. <<>> \in Seq(Message)
    BY EmptySeq
  <2>2. /\ down' = down \/ down' = [down EXCEPT ![d] = <<>>]
        /\ wire' = [wire EXCEPT ![d] = "open"] \/ wire' = [wire EXCEPT ![d] = "cut"]
    BY DEF Cut, Exit, Connect
  <2> QED BY <1>0, <1>1, <2>1, <2>2 DEF NetTypes
<1> QED BY <1>1, <1>2, <1>3 DEF DaemonDoes, WayShrinks

LEMMA DaemonEffect ==
    ASSUME TypeInv, NEW d \in Daemon, Connect(d) \/ DaemonStep(d) \/ Cut(d) \/ Exit(d)
    PROVE  DaemonDoes(d)
BY PumpEffect, TakeLeaseEffect, ExecuteEffect, LeaveEffect, ConnectionEffect DEF DaemonStep

\* A send that arrives or is lost.
DeliverDoes(s, d) ==
    /\ out[s] # <<>> /\ Head(out[s]) \in Sending /\ d \in Head(out[s]).to
    /\ OutTypes' /\ (\E k \in {0, 1} : SendsLess(s, d, k))
    /\ \A u \in Sender \ {s} : out'[u] = out[u]
    /\ NetTypes' /\ up' = up
    /\ down'[d] = down[d] \/ down'[d] = Append(down[d], Head(out[s]).msg)
    /\ \A c \in Daemon \ {d} : down'[c] = down[c]
    /\ HubTypes' /\ UNCHANGED <<task, buffer, daemon, executed, stored>>

LEMMA DeliverEffect ==
    ASSUME TypeInv, NEW s \in Sender, NEW d \in Daemon, Deliver(s, d) \/ Lose(s, d)
    PROVE  DeliverDoes(s, d)
<1>0. HubTypes /\ OutTypes /\ NetTypes
  BY TypeParts DEF TypeInv
<1>1. IsNext(s, d) /\ SentTo(s, d)
  BY DEF Deliver, Lose
<1>2. OutTypes' /\ (\E k \in {0, 1} : SendsLess(s, d, k)) /\ \A u \in Sender \ {s} : out'[u] = out[u]
  BY <1>0, <1>1, SentOne
<1>3. out[s] # <<>> /\ Head(out[s]) \in Sending /\ d \in Head(out[s]).to
  BY <1>0, <1>1, HeadAndTail DEF IsNext, OutTypes
<1>4. /\ NetTypes' /\ up' = up
      /\ down'[d] = down[d] \/ down'[d] = Append(down[d], Head(out[s]).msg)
      /\ \A c \in Daemon \ {d} : down'[c] = down[c]
  <2>1. CASE Deliver(s, d)
    <3> PICK m \in Message : m = Head(out[s]).msg
      BY <1>3 DEF Sending
    <3>0. down[d] \in Seq(Message)
      BY <1>0 DEF NetTypes
    <3>1. PICK q \in Seq(Message) : q = Append(down[d], m)
      BY <3>0, AppendProperties
    <3>2. down' = [down EXCEPT ![d] = q] /\ up' = up /\ wire' = wire
      BY <2>1, <3>1 DEF Deliver
    <3> QED BY <1>0, <3>1, <3>2 DEF NetTypes
  <2>2. CASE Lose(s, d)
    BY <1>0, <2>2 DEF Lose, remote, net, NetTypes
  <2> QED BY <2>1, <2>2
<1>5. HubTypes' /\ UNCHANGED <<task, buffer, daemon, executed, stored>>
  BY <1>0 DEF Deliver, Lose, HubTypes, remote, history
<1> QED BY <1>2, <1>3, <1>4, <1>5 DEF DeliverDoes

\* The sends of a handler that has just connected, and of one that flushes the buffer.
ConnectSends(d) ==
    /\ OutTypes' /\ \A u \in Sender \ {<<"handler", d>>} : out'[u] = out[u]
    /\ \A i \in DOMAIN out'[<<"handler", d>>] : out'[<<"handler", d>>][i].msg.type = "run_lease"
FlushSends(d) ==
    /\ OutTypes' /\ \A u \in Sender \ {<<"handler", d>>} : out'[u] = out[u]
    /\ \A i \in DOMAIN out'[<<"handler", d>>] :
          i \in DOMAIN buffer /\ out'[<<"handler", d>>][i].msg = buffer[i]

LEMMA ConnectEffect ==
    ASSUME TypeInv, NEW d \in Daemon, Connect(d) PROVE ConnectSends(d) /\ HubTypes'
<1>0. HubTypes /\ OutTypes /\ <<"handler", d>> \in Sender
  BY TypeParts DEF TypeInv, Sender
<1> DEFINE q == [i \in DOMAIN pending |-> [to |-> {d}, msg |-> Lease(pending[i])]]
<1>1. Len(pending) \in Nat /\ DOMAIN pending = 1..Len(pending) /\ \A i \in DOMAIN pending : pending[i] \in Run
  BY <1>0, LenProperties, InSeq DEF HubTypes
<1>2. \A i \in DOMAIN pending : [to |-> {d}, msg |-> Lease(pending[i])] \in Sending
  BY <1>1, Messages DEF Sending
<1>3. q \in Seq(Sending)
  BY <1>1, <1>2, IsSequence
<1>4. \A i \in DOMAIN q : q[i].msg.type = "run_lease"
  BY DEF Lease
<1>5. out' = [out EXCEPT ![<<"handler", d>>] = q]
  BY DEF Connect
<1> HIDE DEF q
<1>6. ConnectSends(d)
  BY <1>0, <1>3, <1>4, <1>5, OutSet DEF ConnectSends
<1>7. HubTypes'
  BY <1>0, EmptySeq DEF Connect, HubTypes
<1> QED BY <1>6, <1>7

LEMMA FlushEffect ==
    ASSUME TypeInv, NEW d \in Daemon, Flush(d) PROVE FlushSends(d) /\ HubTypes'
<1>0. HubTypes /\ OutTypes /\ <<"handler", d>> \in Sender
  BY TypeParts DEF TypeInv, Sender
<1> DEFINE q == [i \in DOMAIN buffer |-> [to |-> registered, msg |-> buffer[i]]]
<1>1. Len(buffer) \in Nat /\ DOMAIN buffer = 1..Len(buffer) /\ \A i \in DOMAIN buffer : buffer[i] \in Message
  BY <1>0, LenProperties, InSeq DEF HubTypes
<1>2. CASE registered = {}
  <2>1. out' = [out EXCEPT ![<<"handler", d>>] = <<>>] /\ <<>> \in Seq(Sending)
    BY <1>2, EmptySeq DEF Flush
  <2>2. OutTypes' /\ out'[<<"handler", d>>] = <<>> /\ \A u \in Sender \ {<<"handler", d>>} : out'[u] = out[u]
    BY <1>0, <2>1, OutSet
  <2>3. FlushSends(d)
    BY <2>2 DEF FlushSends
  <2> QED BY <1>0, <2>3, EmptySeq DEF Flush, HubTypes
<1>3. CASE registered # {}
  <2>1. \A i \in DOMAIN buffer : [to |-> registered, msg |-> buffer[i]] \in Sending
    BY <1>0, <1>1, <1>3 DEF Sending, HubTypes
  <2>2. q \in Seq(Sending)
    BY <1>1, <2>1, IsSequence
  <2>3. \A i \in DOMAIN q : i \in DOMAIN buffer /\ q[i].msg = buffer[i]
    OBVIOUS
  <2>4. out' = [out EXCEPT ![<<"handler", d>>] = q]
    BY <1>3 DEF Flush
  <2> HIDE DEF q
  <2>5. FlushSends(d)
    BY <1>0, <2>2, <2>3, <2>4, OutSet DEF FlushSends
  <2> QED BY <1>0, <2>5, EmptySeq DEF Flush, HubTypes
<1> QED BY <1>2, <1>3

\* What the handler does with a message.
ReceiveDoes(d) ==
    /\ TaskTypes' /\ NetTypes'
    /\ up[d] # <<>> /\ Head(up[d]) \in Reply
    /\ up'[d] = Tail(up[d]) /\ \A c \in Daemon \ {d} : up'[c] = up[c]
    /\ UNCHANGED <<down, buffer, out, daemon, executed, stored>>
    /\ \/ UNCHANGED task
       \/ \E i \in Invocation :
             /\ Head(up[d]).type = "tool.result" /\ Head(up[d]).of = i
             /\ task[i.run].pc = "wait" /\ i = Invoked(i.run)
             /\ TaskIs(i.run, "wait", task[i.run].call, task[i.run].try, TRUE)

LEMMA ReceiveEffect ==
    ASSUME TypeInv, NEW d \in Daemon, Receive(d) PROVE ReceiveDoes(d) /\ HubTypes' /\ TasksInRange'
<1>0. TaskTypes /\ HubTypes /\ NetTypes /\ TasksInRange
  BY TypeParts DEF TypeInv
<1>1. PICK m \in Reply, rest \in Seq(Reply) :
        m = Head(up[d]) /\ rest = Tail(up[d]) /\ up[d] # <<>>
  BY <1>0, HeadAndTail DEF Receive, NetTypes
<1>2. /\ up' = [up EXCEPT ![d] = rest]
      /\ UNCHANGED <<wire, down, buffer, out, daemon, executed, stored>>
  BY <1>1 DEF Receive, history
<1>3. NetTypes' /\ up'[d] = rest /\ \A c \in Daemon \ {d} : up'[c] = up[c]
  BY <1>0, <1>2 DEF NetTypes
<1>4. CASE m.type = "run.lease_ack"
  <2>1. m.run \in Run
    BY <1>4 DEF Reply
  <2>2. task' = task /\ status' = [status EXCEPT ![m.run] = "running"] /\ acked' = acked \cup {m.run}
    BY <1>1, <1>4 DEF Receive
  <2>3. TaskTypes' /\ HubTypes' /\ TasksInRange'
    BY <1>0, <2>1, <2>2 DEF Receive, TaskTypes, HubTypes, TasksInRange
  <2> QED BY <1>1, <1>2, <1>3, <2>2, <2>3 DEF ReceiveDoes
<1>5. CASE m.type = "tool.result"
  <2> PICK i \in Invocation : i = m.of
    BY <1>5 DEF Reply
  <2>1. ResolveToolResult(i) /\ UNCHANGED <<acked, status>>
    BY <1>1, <1>5 DEF Receive
  <2>2. HubTypes'
    BY <1>0, <2>1 DEF Receive, HubTypes
  <2>3. CASE UNCHANGED task
    <3>1. TaskTypes' /\ TasksInRange'
      BY <1>0, <2>1, <2>3 DEF TaskTypes, TasksInRange
    <3> QED BY <1>1, <1>2, <1>3, <2>2, <2>3, <3>1 DEF ReceiveDoes
  <2>4. CASE task[i.run].pc = "wait" /\ i = Invoked(i.run) /\ task' = [task EXCEPT ![i.run].got = TRUE]
    <3>1. i.run \in Run
      BY DEF Invocation
    <3>2. PICK n \in TaskState : n = task[i.run]
      BY <1>0, <3>1 DEF TaskTypes
    <3> DEFINE t == [n EXCEPT !.got = TRUE]
    <3>3. t \in TaskState /\ t.pc = n.pc /\ t.call = n.call /\ t.try = n.try /\ t.got = TRUE
      BY DEF TaskState
    <3>4. SetTask(i.run, t)
      BY <2>4, <3>2 DEF SetTask
    <3> HIDE DEF t
    <3>5. TaskIs(i.run, "wait", task[i.run].call, task[i.run].try, TRUE)
      BY <1>0, <2>4, <3>1, <3>2, <3>3, <3>4, TaskSet
    <3>6. TaskTypes' /\ TasksInRange'
      BY <1>0, <2>1, <2>4, <3>1, <3>5 DEF TaskTypes, TasksInRange, TaskIs
    <3> QED BY <1>1, <1>2, <1>3, <1>5, <2>2, <2>4, <3>5, <3>6 DEF ReceiveDoes
  <2> QED BY <2>1, <2>3, <2>4 DEF ResolveToolResult
<1> QED BY <1>4, <1>5 DEF Reply

LEMMA TypeStep == TypeInv /\ [Next]_vars => TypeInv'
<1> SUFFICES ASSUME TypeInv, [Next]_vars PROVE TypeInv'
  OBVIOUS
<1>0. TaskTypes /\ HubTypes /\ OutTypes /\ NetTypes /\ DaemonTypes /\ HistoryTypes /\ TasksInRange
  BY TypeParts DEF TypeInv
<1>a. TaskTypes' /\ HubTypes' /\ OutTypes' /\ NetTypes' /\ DaemonTypes' /\ HistoryTypes' /\ TasksInRange'
      => TypeInv'
  BY DEF TypeInv, TypeOK, TaskTypes, HubTypes, OutTypes, NetTypes, DaemonTypes, HistoryTypes,
         TaskState, DaemonState
<1>1. CASE UNCHANGED vars
  BY <1>0, <1>1, <1>a
  DEF vars, hub, remote, net, history, TaskTypes, HubTypes, OutTypes, NetTypes, DaemonTypes,
      HistoryTypes, TasksInRange
<1>2. ASSUME NEW r \in Run, Start(r) \/ Notify(r) \/ TaskStep(r) \/ Cancel(r) PROVE TypeInv'
  BY <1>2, TaskStepTypes
<1>3. ASSUME NEW s \in Sender, NEW d \in Daemon, Deliver(s, d) \/ Lose(s, d) PROVE TypeInv'
  <2>1. DeliverDoes(s, d) /\ UNCHANGED <<task, status, daemon, faults, executed, stored>>
    BY <1>3, DeliverEffect DEF Deliver, Lose, remote, history
  <2> QED BY <1>0, <1>a, <2>1 DEF DeliverDoes, TaskTypes, TasksInRange, DaemonTypes, HistoryTypes
<1>4. ASSUME NEW d \in Daemon, Connect(d) \/ DaemonStep(d) \/ Cut(d) \/ Exit(d) PROVE TypeInv'
  <2>1. NetTypes' /\ DaemonTypes' /\ HistoryTypes'
    BY <1>4, DaemonEffect DEF DaemonDoes
  <2>2. UNCHANGED <<task, status>>
    BY <1>4 DEF Connect, DaemonStep, Pump, TakeLease, LeaveCancelled, LeaveReleased, Execute, Cut,
                Exit, hub
  <2>3. OutTypes' /\ HubTypes'
    <3>1. CASE Connect(d)
      BY <3>1, ConnectEffect DEF ConnectSends
    <3>2. CASE ~Connect(d)
      BY <1>0, <1>4, <3>2 DEF DaemonStep, Pump, TakeLease, LeaveCancelled, LeaveReleased, Execute,
                  Cut, Exit, hub, OutTypes, HubTypes
    <3> QED BY <3>1, <3>2
  <2> QED BY <1>0, <1>a, <2>1, <2>2, <2>3 DEF TaskTypes, TasksInRange
<1>5. ASSUME NEW d \in Daemon, Flush(d) PROVE TypeInv'
  <2>1. OutTypes' /\ HubTypes'
    BY <1>5, FlushEffect DEF FlushSends
  <2>2. UNCHANGED <<task, status, wire, down, up, daemon, faults, executed, stored>>
    BY <1>5 DEF Flush, remote, net, history
  <2> QED BY <1>0, <1>a, <2>1, <2>2
      DEF TaskTypes, TasksInRange, NetTypes, DaemonTypes, HistoryTypes
<1>6. ASSUME NEW d \in Daemon, Receive(d) PROVE TypeInv'
  <2>1. TaskTypes' /\ NetTypes' /\ HubTypes' /\ TasksInRange'
    BY <1>6, ReceiveEffect DEF ReceiveDoes
  <2>2. UNCHANGED <<out, daemon, faults, executed, stored>>
    BY <1>6 DEF Receive, history
  <2> QED BY <1>0, <1>a, <2>1, <2>2 DEF OutTypes, DaemonTypes, HistoryTypes
<1>7. ASSUME NEW d \in Daemon, HandlerEnds(d) PROVE TypeInv'
  <2>1. <<"handler", d>> \in Sender /\ <<>> \in Seq(Sending) /\ <<>> \in Seq(Reply)
    BY EmptySeq DEF Sender
  <2>2. UNCHANGED <<task, status, pending, buffer, acked, soon, wire, down, daemon, faults, executed, stored>>
    BY <1>7 DEF HandlerEnds, history
  <2>3. HubTypes' /\ OutTypes' /\ NetTypes'
    BY <1>0, <1>7, <2>1, <2>2 DEF HandlerEnds, HubTypes, OutTypes, NetTypes
  <2> QED BY <1>0, <1>a, <2>2, <2>3 DEF TaskTypes, TasksInRange, DaemonTypes, HistoryTypes
<1> QED BY <1>1, <1>2, <1>3, <1>4, <1>5, <1>6, <1>7 DEF Next, SendStep, HandlerStep

\* Every variable has its type, and the tools of a daemon are those of its lease,
\* for any number of runs, daemons, calls and attempts.
THEOREM TypeCorrect == Spec => []TypeOK
<1>1. TypeInv => TypeOK
  BY DEF TypeInv
<1> QED BY <1>1, TypeInit, TypeStep, PTL DEF Spec

-----------------------------------------------------------------------------
(* Results.                                                                *)

Holds(s, m) == \E i \in DOMAIN s : s[i] = m
Done(m) == \E d \in Daemon : Holds(executed[d], m)
DoneNow(m) == \E d \in Daemon : Holds(executed'[d], m)

\* A result, on its way to the server or there, is of something executed.
ResultInv ==
    /\ \A d \in Daemon : \A i \in DOMAIN up[d] :
          up[d][i].type = "tool.result" => Done(up[d][i].of)
    /\ \A r \in Run : task[r].pc = "wait" /\ task[r].got => Done(Invoked(r))

LEMMA DoneStays ==
    ASSUME HistoryTypes,
           \A c \in Daemon : \/ executed'[c] = executed[c]
                             \/ \E e \in Invocation : executed'[c] = Append(executed[c], e),
           NEW m, Done(m)
    PROVE  DoneNow(m)
<1> PICK d \in Daemon : Holds(executed[d], m)
  BY DEF Done, DoneNow
<1>1. CASE executed'[d] = executed[d]
  BY <1>1 DEF Done, DoneNow, Holds
<1>2. ASSUME NEW e \in Invocation, executed'[d] = Append(executed[d], e) PROVE DoneNow(m)
  <2>1. executed[d] \in Seq(Invocation)
    BY DEF HistoryTypes
  <2>2. \A i \in DOMAIN executed[d] : /\ i \in DOMAIN Append(executed[d], e)
                                      /\ Append(executed[d], e)[i] = executed[d][i]
    BY <2>1, AppendProperties
  <2> QED BY <1>2, <2>2 DEF Done, DoneNow, Holds
<1> QED BY <1>1, <1>2

\* When the task of a run waits, it has waited before and not got anything
\* since, or it has just begun to wait.
LEMMA OwnTasks ==
    ASSUME TypeInv, NEW r \in Run, Start(r) \/ Notify(r) \/ TaskStep(r) \/ Cancel(r)
    PROVE  \A q \in Run : task'[q] = task[q] \/ ~(task'[q].pc = "wait" /\ task'[q].got)
<1>0. TaskTypes /\ TasksInRange
  BY TypeParts DEF TypeInv
<1>1. CASE Notify(r) \/ Cancel(r)
  BY <1>1 DEF Notify, Cancel
<1>2. CASE Start(r)
  BY <1>0, <1>2, TaskGoes DEF Start, TaskIs
<1>3. CASE LeaseAcked(r)
  BY <1>0, <1>3, TaskGoes DEF LeaseAcked, TaskIs
<1>4. CASE LeaseTimeout(r) \/ Finish(r)
  BY <1>0, <1>4, TaskEnds DEF LeaseTimeout, Finish, End, TaskIs
<1>5. CASE Invoke(r)
  BY <1>5, InvokeEffect DEF InvokeDoes, TaskIs
<1>6. CASE Timeout(r) \/ Return(r)
  BY <1>0, <1>6, TaskGoesOn DEF Timeout, Return, TaskIs
<1>7. CASE Release(r)
  BY <1>0, <1>7, TaskGoes DEF Release, TaskIs
<1> QED BY <1>1, <1>2, <1>3, <1>4, <1>5, <1>6, <1>7 DEF TaskStep

LEMMA ResultStep == TypeInv /\ ResultInv /\ [Next]_vars => ResultInv'
<1> SUFFICES ASSUME TypeInv, ResultInv, [Next]_vars PROVE ResultInv'
  OBVIOUS
<1>0. TaskTypes /\ NetTypes /\ DaemonTypes /\ HistoryTypes
  BY TypeParts DEF TypeInv
\* What is neither executed, sent up nor received.
<1>a. ASSUME UNCHANGED executed, \A d \in Daemon : up'[d] \in {up[d], <<>>},
             \A q \in Run : task'[q] = task[q] \/ ~(task'[q].pc = "wait" /\ task'[q].got)
      PROVE  ResultInv'
  <2>1. \A m : Done(m) => DoneNow(m)
    BY <1>a DEF Done, DoneNow
  <2>2. ASSUME NEW d \in Daemon, NEW i \in DOMAIN up'[d], up'[d][i].type = "tool.result"
        PROVE  DoneNow(up'[d][i].of)
    <3>1. up'[d] = up[d]
      BY <1>a, <2>2
    <3> QED BY <2>2, <3>1, <1>a DEF ResultInv, Done, DoneNow
  <2>3. ASSUME NEW q \in Run, task'[q].pc = "wait", task'[q].got PROVE DoneNow(Invoked(q)')
    <3>1. task'[q] = task[q]
      BY <1>a, <2>3
    <3> QED BY <1>a, <2>3, <3>1 DEF ResultInv, Done, DoneNow, Invoked
  <2> QED BY <2>2, <2>3 DEF ResultInv, Done, DoneNow, Holds
<1>1. CASE UNCHANGED vars
  BY <1>1, <1>a DEF vars, hub, remote, net, history
<1>2. ASSUME NEW r \in Run, Start(r) \/ Notify(r) \/ TaskStep(r) \/ Cancel(r) PROVE ResultInv'
  <2>1. UNCHANGED <<executed, up>>
    BY <1>2 DEF Start, Notify, TaskStep, LeaseAcked, LeaseTimeout, Finish, End, Invoke, Timeout,
                Return, Release, Cancel, remote, net, history
  <2>2. \A q \in Run : task'[q] = task[q] \/ ~(task'[q].pc = "wait" /\ task'[q].got)
    BY <1>2, OwnTasks
  <2> QED BY <1>a, <2>1, <2>2
<1>3. ASSUME NEW s \in Sender, NEW d \in Daemon, Deliver(s, d) \/ Lose(s, d) PROVE ResultInv'
  <2>1. UNCHANGED <<executed, up, task>>
    BY <1>3, DeliverEffect DEF DeliverDoes
  <2> QED BY <1>a, <2>1
<1>4. ASSUME NEW d \in Daemon, Flush(d) \/ HandlerEnds(d) PROVE ResultInv'
  <2>1. UNCHANGED <<executed, task>> /\ \A c \in Daemon : up'[c] \in {up[c], <<>>}
    BY <1>0, <1>4 DEF Flush, HandlerEnds, remote, net, history, NetTypes
  <2> QED BY <1>a, <2>1
<1>5. ASSUME NEW d \in Daemon, Receive(d) PROVE ResultInv'
  <2>1. ReceiveDoes(d)
    BY <1>5, ReceiveEffect
  <2>2. executed' = executed
    BY <2>1 DEF ReceiveDoes
  <2>3. ASSUME NEW c \in Daemon, NEW i \in DOMAIN up'[c], up'[c][i].type = "tool.result"
        PROVE  DoneNow(up'[c][i].of)
    <3>1. up'[c] = up[c] \/ (c = d /\ up[d] # <<>> /\ up'[d] = Tail(up[d]))
      BY <2>1 DEF ReceiveDoes
    <3>2. PICK j \in DOMAIN up[c] : up[c][j] = up'[c][i]
      <4>1. up[c] \in Seq(Reply)
        BY <1>0 DEF NetTypes
      <4>2. CASE up'[c] = up[c]
        BY <2>3, <4>2
      <4>3. CASE up[c] # <<>> /\ up'[c] = Tail(up[c])
        <5>1. i + 1 \in DOMAIN up[c] /\ up'[c][i] = up[c][i + 1]
          BY <2>3, <4>1, <4>3, HeadAndTail
        <5> QED BY <5>1
      <4> QED BY <3>1, <4>2, <4>3
    <3> QED BY <2>2, <2>3, <3>2 DEF ResultInv, Done, DoneNow
  <2>4. ASSUME NEW q \in Run, task'[q].pc = "wait", task'[q].got PROVE DoneNow(Invoked(q)')
    <3>1. CASE task'[q] = task[q]
      BY <2>2, <2>4, <3>1 DEF ResultInv, Done, DoneNow, Invoked
    <3>2. CASE task'[q] # task[q]
      <4> PICK i \in Invocation :
            /\ Head(up[d]).type = "tool.result" /\ Head(up[d]).of = i
            /\ task[i.run].pc = "wait" /\ i = Invoked(i.run) /\ i.run = q
            /\ task'[q].call = task[q].call /\ task'[q].try = task[q].try
        BY <2>1, <3>2 DEF ReceiveDoes, TaskIs
      <4>1. Done(i)
        <5>1. Head(up[d]) = up[d][1] /\ 1 \in DOMAIN up[d]
          BY <1>0, <2>1, HeadAndTail DEF ReceiveDoes, NetTypes
        <5> QED BY <5>1 DEF ResultInv
      <4>2. Invoked(q)' = i
        BY DEF Invoked
      <4>3. DoneNow(i)
        BY <2>2, <4>1 DEF Done, DoneNow
      <4> QED BY <4>2, <4>3 DEF Done, DoneNow
    <3> QED BY <3>1, <3>2
  <2> QED BY <2>3, <2>4 DEF ResultInv, Done, DoneNow, Holds
<1>6. ASSUME NEW d \in Daemon, Connect(d) \/ DaemonStep(d) \/ Cut(d) \/ Exit(d) PROVE ResultInv'
  <2>1. DaemonDoes(d)
    BY <1>6, DaemonEffect
  <2>2. UNCHANGED task
    BY <1>6 DEF Connect, DaemonStep, Pump, TakeLease, LeaveCancelled, LeaveReleased, Execute, Cut,
                Exit, hub
  <2>3. \A c \in Daemon : \/ executed'[c] = executed[c]
                          \/ \E e \in Invocation : executed'[c] = Append(executed[c], e)
    BY <2>1 DEF DaemonDoes, WayShrinks, WayMoves, WayExecutes
  <2>4. ASSUME NEW m, Done(m) PROVE DoneNow(m)
    BY <1>0, <2>3, <2>4, DoneStays
  <2>5. ASSUME NEW c \in Daemon, NEW i \in DOMAIN up'[c], up'[c][i].type = "tool.result"
        PROVE  DoneNow(up'[c][i].of)
    <3> PICK n : n = up'[c][i].of
      OBVIOUS
    <3>1. CASE up'[c] = up[c]
      <4>1. Done(n)
        BY <2>5, <3>1 DEF ResultInv
      <4> QED BY <2>4, <4>1 DEF Done, DoneNow
    <3>2. CASE up'[c] # up[c]
      <4>0. c = d
        BY <2>1, <3>2 DEF DaemonDoes
      <4> PICK m \in Reply : /\ up'[d] = Append(up[d], m)
                             /\ m.type = "tool.result" => WayExecutes(d) /\ m.of = Head(daemon[d].tools)
        BY <2>1, <3>2, <4>0 DEF DaemonDoes
      <4>1. up[d] \in Seq(Reply)
        BY <1>0 DEF NetTypes
      <4>2. \/ i \in DOMAIN up[d] /\ up'[d][i] = up[d][i]
            \/ up'[d][i] = m
        BY <2>5, <4>0, <4>1, AtTheEnd
      <4>3. CASE i \in DOMAIN up[d] /\ up'[d][i] = up[d][i]
        <5>1. Done(n)
          BY <2>5, <4>0, <4>3 DEF ResultInv
        <5> QED BY <2>4, <5>1 DEF Done, DoneNow
      <4>4. CASE up'[d][i] = m
        <5>1. n = Head(daemon[d].tools) /\ executed'[d] = Append(executed[d], n) /\ n \in Invocation
          BY <2>5, <4>0, <4>4 DEF WayExecutes
        <5>2. Holds(executed'[d], n)
          <6>1. executed[d] \in Seq(Invocation)
            BY <1>0 DEF HistoryTypes
          <6>2. Len(executed[d]) + 1 \in DOMAIN executed'[d] /\ executed'[d][Len(executed[d]) + 1] = n
            BY <5>1, <6>1, AtTheEnd
          <6> QED BY <6>2 DEF Holds
        <5> QED BY <5>2 DEF Done, DoneNow
      <4> QED BY <4>2, <4>3, <4>4
    <3> QED BY <3>1, <3>2
  <2>6. ASSUME NEW q \in Run, task'[q].pc = "wait", task'[q].got PROVE DoneNow(Invoked(q)')
    <3> PICK n : n = Invoked(q)
      OBVIOUS
    <3>1. Done(n) /\ Invoked(q)' = n
      BY <2>2, <2>6 DEF ResultInv, Invoked
    <3> QED BY <2>4, <3>1 DEF Done, DoneNow
  <2> QED BY <2>5, <2>6 DEF ResultInv, Done, DoneNow, Holds
<1> QED BY <1>1, <1>2, <1>3, <1>4, <1>5, <1>6 DEF Next, SendStep, HandlerStep

LEMMA ResultInit == Init => ResultInv
BY DEF Init, ResultInv, NewTask

\* A late result of an attempt that has timed out is never taken for that of a
\* later one, for any number of calls, attempts, daemons and broken connections.
THEOREM ResultsMatch == Spec => []ResultIsOfAttempt
<1>1. ResultInv => ResultIsOfAttempt
  BY DEF ResultInv, ResultIsOfAttempt, Done, DoneNow, Holds
<1> QED BY <1>1, TypeInit, TypeStep, ResultInit, ResultStep, PTL DEF Spec

-----------------------------------------------------------------------------
(* The order of invocations on the way to a daemon, and in it. `late` are  *)
(* those that had to wait for a daemon: they may be overtaken.             *)

IsInvocation(m) == m.type = "tool.invoke"

\* m may come before n.
Ahead(late, m, n) ==
    IsInvocation(m) /\ IsInvocation(n) => m # n /\ (m.run = n.run /\ n \notin late => Older(m, n))
Sorted(late, a) == \A i, j \in DOMAIN a : i < j => Ahead(late, a[i], a[j])
AllAhead(late, a, b) == \A i \in DOMAIN a, j \in DOMAIN b : Ahead(late, a[i], b[j])

\* What is executed, then the tools that wait, then what is on the connection.
InOrder(late, done, tools, coming) ==
    /\ Sorted(late, done) /\ Sorted(late, tools) /\ Sorted(late, coming)
    /\ AllAhead(late, done, tools)
    /\ AllAhead(late, done, coming)
    /\ AllAhead(late, tools, coming)

LEMMA NothingInOrder ==
    ASSUME NEW late, NEW S, NEW a \in Seq(S)
    PROVE  Sorted(late, <<>>) /\ AllAhead(late, a, <<>>) /\ AllAhead(late, <<>>, a)
BY DEF Sorted, AllAhead

LEMMA TailInOrder ==
    ASSUME NEW late, NEW S, NEW a \in Seq(S), a # <<>>, Sorted(late, a), NEW b
    PROVE  /\ Sorted(late, Tail(a))
           /\ \A i \in DOMAIN Tail(a) : Ahead(late, Head(a), Tail(a)[i])
           /\ AllAhead(late, a, b) => AllAhead(late, Tail(a), b) /\ \A j \in DOMAIN b : Ahead(late, Head(a), b[j])
           /\ AllAhead(late, b, a) => AllAhead(late, b, Tail(a)) /\ \A j \in DOMAIN b : Ahead(late, b[j], Head(a))
<1>1. /\ Head(a) = a[1] /\ 1 \in DOMAIN a
      /\ \A i \in DOMAIN Tail(a) : i \in Nat \ {0} /\ i + 1 \in DOMAIN a /\ Tail(a)[i] = a[i + 1]
  BY HeadTailProperties
<1>2. Sorted(late, Tail(a))
  <2> SUFFICES ASSUME NEW i \in DOMAIN Tail(a), NEW j \in DOMAIN Tail(a), i < j
               PROVE  Ahead(late, Tail(a)[i], Tail(a)[j])
    BY DEF Sorted
  <2>1. i + 1 < j + 1
    BY <1>1
  <2> QED BY <1>1, <2>1 DEF Sorted
<1>3. ASSUME NEW i \in DOMAIN Tail(a) PROVE Ahead(late, Head(a), Tail(a)[i])
  <2>1. 1 < i + 1
    BY <1>1
  <2> QED BY <1>1, <2>1 DEF Sorted
<1>4. AllAhead(late, a, b) => AllAhead(late, Tail(a), b) /\ \A j \in DOMAIN b : Ahead(late, Head(a), b[j])
  BY <1>1 DEF AllAhead
<1>5. AllAhead(late, b, a) => AllAhead(late, b, Tail(a)) /\ \A j \in DOMAIN b : Ahead(late, b[j], Head(a))
  BY <1>1 DEF AllAhead
<1> QED BY <1>2, <1>3, <1>4, <1>5

LEMMA AppendInOrder ==
    ASSUME NEW late, NEW S, NEW a \in Seq(S), NEW m \in S, NEW b
    PROVE  /\ Sorted(late, a) /\ (\A i \in DOMAIN a : Ahead(late, a[i], m)) => Sorted(late, Append(a, m))
           /\ AllAhead(late, a, b) /\ (\A j \in DOMAIN b : Ahead(late, m, b[j])) => AllAhead(late, Append(a, m), b)
           /\ AllAhead(late, b, a) /\ (\A j \in DOMAIN b : Ahead(late, b[j], m)) => AllAhead(late, b, Append(a, m))
<1>1. \A i \in DOMAIN Append(a, m) : \/ i \in DOMAIN a /\ Append(a, m)[i] = a[i]
                                     \/ i = Len(a) + 1 /\ Append(a, m)[i] = m
  BY AtTheEnd
<1>2. ASSUME Sorted(late, a), \A i \in DOMAIN a : Ahead(late, a[i], m) PROVE Sorted(late, Append(a, m))
  <2> SUFFICES ASSUME NEW i \in DOMAIN Append(a, m), NEW j \in DOMAIN Append(a, m), i < j
               PROVE  Ahead(late, Append(a, m)[i], Append(a, m)[j])
    BY DEF Sorted
  <2>1. i \in DOMAIN a
    <3>1. j \in Nat /\ j <= Len(a) + 1 /\ Len(a) \in Nat
      BY AppendProperties, LenProperties
    <3> QED BY <1>1, <3>1
  <2>2. Append(a, m)[i] = a[i]
    BY <1>1, <2>1, AppendProperties, LenProperties
  <2> QED BY <1>1, <1>2, <2>1, <2>2 DEF Sorted
<1>3. ASSUME AllAhead(late, a, b), \A j \in DOMAIN b : Ahead(late, m, b[j]) PROVE AllAhead(late, Append(a, m), b)
  BY <1>1, <1>3 DEF AllAhead
<1>4. ASSUME AllAhead(late, b, a), \A j \in DOMAIN b : Ahead(late, b[j], m) PROVE AllAhead(late, b, Append(a, m))
  BY <1>1, <1>4 DEF AllAhead
<1> QED BY <1>2, <1>3, <1>4

\* The order stays when something is dropped, when more is allowed to be late, ...
LEMMA LessInOrder ==
    ASSUME NEW S, NEW T, NEW late, NEW done \in Seq(S), NEW tools \in Seq(T), NEW coming \in Seq(T),
           InOrder(late, done, tools, coming),
           NEW t, t \in {tools, <<>>} \/ (tools # <<>> /\ t = Tail(tools)),
           NEW c, c \in {coming, <<>>} \/ (coming # <<>> /\ c = Tail(coming))
    PROVE  InOrder(late, done, t, c)
<1>1. Sorted(late, done) /\ Sorted(late, t) /\ AllAhead(late, done, t) /\ AllAhead(late, t, coming)
  <2>1. CASE t = tools
    BY <2>1 DEF InOrder
  <2>2. CASE t = <<>>
    BY <2>2, NothingInOrder DEF InOrder
  <2>3. CASE tools # <<>> /\ t = Tail(tools)
    BY <2>3, TailInOrder DEF InOrder
  <2> QED BY <2>1, <2>2, <2>3
<1>2. Sorted(late, c) /\ AllAhead(late, done, c) /\ AllAhead(late, t, c)
  <2>1. CASE c = coming
    BY <1>1, <2>1 DEF InOrder
  <2>2. CASE c = <<>>
    BY <2>2 DEF AllAhead, Sorted
  <2>3. CASE coming # <<>> /\ c = Tail(coming)
    BY <1>1, <2>3, TailInOrder DEF InOrder
  <2> QED BY <2>1, <2>2, <2>3
<1> QED BY <1>1, <1>2 DEF InOrder

LEMMA LaterInOrder ==
    ASSUME NEW late, NEW later, late \subseteq later, NEW done, NEW tools, NEW coming,
           InOrder(late, done, tools, coming)
    PROVE  InOrder(later, done, tools, coming)
<1>1. \A m, n : Ahead(late, m, n) => Ahead(later, m, n)
  BY DEF Ahead
<1> QED BY <1>1 DEF InOrder, Sorted, AllAhead

\* ... when the first goes on, from one place to the next, ...
LEMMA PumpInOrder ==
    ASSUME NEW S, NEW T, NEW late, NEW done \in Seq(S), NEW tools \in Seq(T), NEW coming \in Seq(T),
           InOrder(late, done, tools, coming), coming # <<>>
    PROVE  InOrder(late, done, Append(tools, Head(coming)), Tail(coming))
<1>1. Head(coming) \in T
  BY HeadAndTail
<1>2. /\ Sorted(late, Tail(coming)) /\ AllAhead(late, done, Tail(coming))
      /\ AllAhead(late, tools, Tail(coming))
      /\ \A i \in DOMAIN Tail(coming) : Ahead(late, Head(coming), Tail(coming)[i])
      /\ \A i \in DOMAIN tools : Ahead(late, tools[i], Head(coming))
      /\ \A i \in DOMAIN done : Ahead(late, done[i], Head(coming))
  BY TailInOrder DEF InOrder
<1> QED BY <1>1, <1>2, AppendInOrder DEF InOrder

LEMMA ExecuteInOrder ==
    ASSUME NEW S, NEW T, NEW late, NEW done \in Seq(S), NEW tools \in Seq(T), NEW coming \in Seq(T),
           InOrder(late, done, tools, coming), tools # <<>>, Head(tools) \in S
    PROVE  InOrder(late, Append(done, Head(tools)), Tail(tools), coming)
<1>1. /\ Sorted(late, Tail(tools)) /\ AllAhead(late, done, Tail(tools))
      /\ AllAhead(late, Tail(tools), coming)
      /\ \A i \in DOMAIN Tail(tools) : Ahead(late, Head(tools), Tail(tools)[i])
      /\ \A i \in DOMAIN coming : Ahead(late, Head(tools), coming[i])
      /\ \A i \in DOMAIN done : Ahead(late, done[i], Head(tools))
  BY TailInOrder DEF InOrder
<1> QED BY <1>1, AppendInOrder DEF InOrder

\* ... and when something arrives that all of it is ahead of.
LEMMA ArriveInOrder ==
    ASSUME NEW T, NEW late, NEW done, NEW tools, NEW coming \in Seq(T), NEW m \in T,
           InOrder(late, done, tools, coming),
           \A i \in DOMAIN done : Ahead(late, done[i], m),
           \A i \in DOMAIN tools : Ahead(late, tools[i], m),
           \A i \in DOMAIN coming : Ahead(late, coming[i], m)
    PROVE  InOrder(late, done, tools, Append(coming, m))
BY AppendInOrder DEF InOrder

-----------------------------------------------------------------------------
(* Invocations are made once, and there is one way for each to a daemon.   *)

OnWay(d, m) == Holds(executed[d], m) \/ Holds(daemon[d].tools, m) \/ Holds(down[d], m)

LEMMA HoldsLess ==
    ASSUME NEW S, NEW s \in Seq(S), NEW m
    PROVE  /\ ~Holds(<<>>, m)
           /\ s # <<>> => Holds(s, Head(s)) /\ (Holds(Tail(s), m) => Holds(s, m))
           /\ \A e \in S : Holds(Append(s, e), m) => Holds(s, m) \/ m = e
<1>1. ~Holds(<<>>, m)
  BY DEF Holds
<1>2. s # <<>> => Holds(s, Head(s)) /\ (Holds(Tail(s), m) => Holds(s, m))
  BY HeadAndTail DEF Holds
<1>3. ASSUME NEW e \in S, Holds(Append(s, e), m) PROVE Holds(s, m) \/ m = e
  BY <1>3, AtTheEnd DEF Holds
<1> QED BY <1>1, <1>2, <1>3

\* The task has made the attempt m.
Made(m) ==
    LET t == task[m.run]
    IN  \/ t.pc \in {"release", "over"}
        \/ t.pc \in {"loop", "wait"} /\ (m.call < t.call \/ (m.call = t.call /\ m.try <= t.try))

WayInOrder == \A d \in Daemon : InOrder(stored, executed[d], daemon[d].tools, down[d])

AllMade == \A m \in Invocation : m \in stored \/ (\E d \in Daemon : OnWay(d, m)) => Made(m)

\* A run sends the attempt it waits for, to daemons that do not have it yet.
RunSends(r) ==
    \/ out[<<"run", r>>] = <<>>
    \/ /\ task[r].pc = "over"
       /\ \A i \in DOMAIN out[<<"run", r>>] : ~IsInvocation(out[<<"run", r>>][i].msg)
    \/ /\ task[r].pc = "wait"
       /\ Len(out[<<"run", r>>]) = 1
       /\ out[<<"run", r>>][1].msg = Invoked(r)
       /\ Invoked(r) \notin stored
       /\ \A d \in out[<<"run", r>>][1].to : ~OnWay(d, Invoked(r))

NotifySends(r) ==
    \A i \in DOMAIN out[<<"notify", r>>] : ~IsInvocation(out[<<"notify", r>>][i].msg)

\* A handler sends an invocation once, and only if it was stored; ...
SentOnce(m) ==
    \A h \in Daemon : \A i \in DOMAIN out[<<"handler", h>>] :
        out[<<"handler", h>>][i].msg = m =>
            /\ m \in stored
            /\ \A d \in out[<<"handler", h>>][i].to : ~OnWay(d, m)
            /\ \A g \in Daemon : \A j \in DOMAIN out[<<"handler", g>>] :
                  out[<<"handler", g>>][j].msg = m => g = h /\ j = i

\* ... while it is buffered it is nowhere else.
KeptOnce(m) ==
    \A i \in DOMAIN buffer : buffer[i] = m =>
        /\ m \in stored
        /\ \A d \in Daemon : ~OnWay(d, m)
        /\ \A h \in Daemon : \A j \in DOMAIN out[<<"handler", h>>] : out[<<"handler", h>>][j].msg # m
        /\ \A j \in DOMAIN buffer : buffer[j] = m => j = i

OnceInv ==
    /\ WayInOrder
    /\ AllMade
    /\ \A r \in Run : RunSends(r) /\ NotifySends(r)
    /\ \A m \in Invocation : SentOnce(m) /\ KeptOnce(m)

\* m is sent by the handlers, and buffered, where it was before, if it is still.
LEMMA OnceStays ==
    ASSUME OutTypes, NEW m \in Invocation, SentOnce(m), KeptOnce(m), m \in stored => m \in stored',
           NEW k \in [Daemon -> Nat],
           \A h \in Daemon : \A i \in DOMAIN out'[<<"handler", h>>] :
              out'[<<"handler", h>>][i].msg = m =>
                  /\ i \in Nat /\ i + k[h] \in DOMAIN out[<<"handler", h>>]
                  /\ out[<<"handler", h>>][i + k[h]].msg = m
                  /\ \A d \in out'[<<"handler", h>>][i].to :
                        d \in out[<<"handler", h>>][i + k[h]].to /\ (OnWay(d, m)' => OnWay(d, m)),
           \A i \in DOMAIN buffer' : buffer'[i] = m =>
               /\ i \in DOMAIN buffer /\ buffer[i] = m
               /\ \A d \in Daemon : OnWay(d, m)' => OnWay(d, m)
    PROVE  SentOnce(m)' /\ KeptOnce(m)'
<1>1. ASSUME NEW h \in Daemon, NEW i \in DOMAIN out'[<<"handler", h>>], out'[<<"handler", h>>][i].msg = m
      PROVE  /\ m \in stored'
             /\ \A d \in out'[<<"handler", h>>][i].to : ~OnWay(d, m)'
             /\ \A g \in Daemon : \A j \in DOMAIN out'[<<"handler", g>>] :
                   out'[<<"handler", g>>][j].msg = m => g = h /\ j = i
  <2>1. /\ i \in Nat /\ k[h] \in Nat /\ i + k[h] \in DOMAIN out[<<"handler", h>>]
        /\ out[<<"handler", h>>][i + k[h]].msg = m
    BY <1>1
  <2>2. m \in stored' /\ \A d \in out'[<<"handler", h>>][i].to : ~OnWay(d, m)'
    <3>1. ASSUME NEW d \in out'[<<"handler", h>>][i].to PROVE ~OnWay(d, m)'
      <4>1. d \in out[<<"handler", h>>][i + k[h]].to /\ (OnWay(d, m)' => OnWay(d, m))
        BY <1>1, <3>1
      <4>2. ~OnWay(d, m)
        BY <2>1, <4>1 DEF SentOnce
      <4> QED BY <4>1, <4>2
    <3> QED BY <2>1, <3>1 DEF SentOnce
  <2>3. ASSUME NEW g \in Daemon, NEW j \in DOMAIN out'[<<"handler", g>>], out'[<<"handler", g>>][j].msg = m
        PROVE  g = h /\ j = i
    <3>1. /\ j \in Nat /\ k[g] \in Nat /\ j + k[g] \in DOMAIN out[<<"handler", g>>]
          /\ out[<<"handler", g>>][j + k[g]].msg = m
      BY <2>3
    <3>2. g = h /\ j + k[g] = i + k[h]
      BY <2>1, <3>1 DEF SentOnce
    <3> QED BY <2>1, <3>1, <3>2
  <2> QED BY <2>2, <2>3
<1>2. SentOnce(m)'
  BY <1>1 DEF SentOnce
<1>3. ASSUME NEW i \in DOMAIN buffer', buffer'[i] = m
      PROVE  /\ m \in stored'
             /\ \A d \in Daemon : ~OnWay(d, m)'
             /\ \A h \in Daemon : \A j \in DOMAIN out'[<<"handler", h>>] : out'[<<"handler", h>>][j].msg # m
             /\ \A j \in DOMAIN buffer' : buffer'[j] = m => j = i
  BY <1>3 DEF KeptOnce
<1>4. KeptOnce(m)'
  BY <1>3 DEF KeptOnce
<1> QED BY <1>2, <1>4

\* A run goes on to send what it sends.
LEMMA RunStays ==
    ASSUME NEW r \in Run, RunSends(r), out'[<<"run", r>>] = out[<<"run", r>>],
           task'[r].pc = task[r].pc, task'[r].call = task[r].call, task'[r].try = task[r].try,
           NEW m, m = Invoked(r), m \in stored' => m \in stored,
           \A d \in out[<<"run", r>>][1].to : OnWay(d, m)' => OnWay(d, m)
    PROVE  RunSends(r)'
<1>1. Invoked(r)' = m
  BY DEF Invoked
<1>2. CASE out[<<"run", r>>] = <<>>
  BY <1>2 DEF RunSends
<1>3. CASE /\ task[r].pc = "over"
           /\ \A i \in DOMAIN out[<<"run", r>>] : ~IsInvocation(out[<<"run", r>>][i].msg)
  BY <1>3 DEF RunSends
<1>4. CASE /\ task[r].pc = "wait"
           /\ Len(out[<<"run", r>>]) = 1
           /\ out[<<"run", r>>][1].msg = m
           /\ m \notin stored
           /\ \A d \in out[<<"run", r>>][1].to : ~OnWay(d, m)
  <2>1. \A d \in out'[<<"run", r>>][1].to : ~OnWay(d, m)'
    BY <1>4
  <2> QED BY <1>1, <1>4, <2>1 DEF RunSends, OnWay
<1> QED BY <1>2, <1>3, <1>4 DEF RunSends

\* The way to a daemon after a step of its own.
LEMMA WayAfterOwnStep ==
    ASSUME TypeInv, NEW d \in Daemon, DaemonDoes(d), WayInOrder
    PROVE  /\ WayInOrder'
           /\ \A c \in Daemon, m \in Invocation : OnWay(c, m)' => OnWay(c, m)
<1>0. NetTypes /\ DaemonTypes /\ HistoryTypes
  BY TypeParts DEF TypeInv
<1>1. PICK done \in Seq(Invocation), tools \in Seq(Message), coming \in Seq(Message) :
        done = executed[d] /\ tools = daemon[d].tools /\ coming = down[d]
  BY <1>0 DEF NetTypes, DaemonTypes, DaemonState, HistoryTypes
<1>2. InOrder(stored, done, tools, coming)
  BY <1>1 DEF WayInOrder
<1>3. InOrder(stored, executed'[d], daemon'[d].tools, down'[d])
  <2>1. CASE WayShrinks(d)
    BY <1>1, <1>2, <2>1, LessInOrder DEF WayShrinks
  <2>2. CASE WayMoves(d)
    BY <1>1, <1>2, <2>2, PumpInOrder DEF WayMoves
  <2>3. CASE WayExecutes(d)
    <3>1. /\ tools # <<>> /\ Head(tools) \in Invocation
          /\ executed'[d] = Append(done, Head(tools))
          /\ daemon'[d].tools \in {Tail(tools), <<>>}
          /\ down'[d] \in {coming, <<>>}
      BY <1>1, <2>3 DEF WayExecutes
    <3>2. InOrder(stored, Append(done, Head(tools)), Tail(tools), coming)
      BY <1>2, <3>1, ExecuteInOrder
    <3>3. Append(done, Head(tools)) \in Seq(Invocation) /\ Tail(tools) \in Seq(Message)
      BY <3>1, AtTheEnd, HeadAndTail
    <3> QED BY <3>1, <3>2, <3>3, LessInOrder
  <2> QED BY <2>1, <2>2, <2>3 DEF DaemonDoes
<1>4. WayInOrder'
  BY <1>3 DEF WayInOrder, DaemonDoes
<1>5. ASSUME NEW m \in Invocation, OnWay(d, m)' PROVE OnWay(d, m)
  <2>1. CASE WayShrinks(d)
    <3>1. executed'[d] = done /\ daemon'[d].tools \in {tools, <<>>}
          /\ (down'[d] \in {coming, <<>>} \/ (coming # <<>> /\ down'[d] = Tail(coming)))
      BY <1>1, <2>1 DEF WayShrinks
    <3> QED BY <1>1, <1>5, <3>1, HoldsLess DEF OnWay
  <2>2. CASE WayMoves(d)
    <3>1. coming # <<>> /\ executed'[d] = done /\ Head(coming) \in Message
          /\ daemon'[d].tools = Append(tools, Head(coming)) /\ down'[d] = Tail(coming)
      BY <1>1, <2>2, HeadAndTail DEF WayMoves
    <3> QED BY <1>1, <1>5, <3>1, HoldsLess DEF OnWay
  <2>3. CASE WayExecutes(d)
    <3>1. /\ tools # <<>> /\ Head(tools) \in Invocation
          /\ executed'[d] = Append(done, Head(tools))
          /\ daemon'[d].tools \in {Tail(tools), <<>>}
          /\ down'[d] \in {coming, <<>>}
      BY <1>1, <2>3 DEF WayExecutes
    <3>2. CASE Holds(executed'[d], m)
      <4>1. Holds(done, m) \/ m = Head(tools)
        BY <3>1, <3>2, HoldsLess
      <4> QED BY <1>1, <3>1, <4>1, HoldsLess DEF OnWay
    <3>3. CASE Holds(daemon'[d].tools, m)
      <4>1. Holds(tools, m)
        BY <3>1, <3>3, HoldsLess
      <4> QED BY <1>1, <4>1 DEF OnWay
    <3>4. CASE Holds(down'[d], m)
      <4>1. Holds(coming, m)
        BY <3>1, <3>4, HoldsLess
      <4> QED BY <1>1, <4>1 DEF OnWay
    <3> QED BY <1>5, <3>2, <3>3, <3>4 DEF OnWay
  <2> QED BY <2>1, <2>2, <2>3 DEF DaemonDoes
<1> QED BY <1>4, <1>5 DEF DaemonDoes, OnWay

\* What is made stays made, as a task never goes back.
LEMMA MadeStays ==
    ASSUME TypeInv, NEW m \in Invocation, Made(m), NEW r \in Run, NEW pc, NEW call, NEW try, NEW got,
           TaskIs(r, pc, call, try, got),
           \/ pc \in {"release", "over"}
           \/ task[r].pc \in {"new", "lease"}
           \/ /\ pc \in {"loop", "wait"} /\ task[r].pc \in {"loop", "wait"}
              /\ call > task[r].call \/ (call = task[r].call /\ try >= task[r].try)
    PROVE  Made(m)'
<1>1. TaskTypes
  BY TypeParts DEF TypeInv
<1>2. m.run \in Run /\ m.call \in Nat /\ m.try \in Nat
  BY ConnectorAssumption DEF Invocation, ConnectorAssumption
<1>3. CASE m.run # r
  <2>1. task'[m.run] = task[m.run]
    BY <1>2, <1>3 DEF TaskIs
  <2> QED BY <2>1 DEF Made
<1>4. CASE m.run = r
  <2>1. task'[r].pc = pc /\ task'[r].call = call /\ task'[r].try = try
    BY DEF TaskIs
  <2>2. /\ task[r].call \in Nat /\ task[r].try \in Nat
        /\ task'[r].call \in Nat /\ task'[r].try \in Nat
    BY <1>1, ConnectorAssumption DEF TaskTypes, TaskIs, TaskState, ConnectorAssumption
  <2>3. \/ task[r].pc \in {"release", "over"}
        \/ /\ task[r].pc \in {"loop", "wait"}
           /\ m.call < task[r].call \/ (m.call = task[r].call /\ m.try <= task[r].try)
    BY <1>4 DEF Made
  <2>4. \/ pc \in {"release", "over"}
        \/ /\ pc \in {"loop", "wait"}
           /\ m.call < call \/ (m.call = call /\ m.try <= try)
    BY <1>2, <2>1, <2>2, <2>3
  <2> QED BY <1>4, <2>1, <2>4 DEF Made
<1> QED BY <1>3, <1>4

\* A step that neither makes nor moves an invocation.
LEMMA QuietStep ==
    ASSUME TypeInv, OnceInv, UNCHANGED <<down, daemon, executed, stored>>,
           \A m \in Invocation : Made(m) => Made(m)',
           \A r \in Run : RunSends(r)' /\ NotifySends(r)',
           \A h \in Daemon : \A i \in DOMAIN out'[<<"handler", h>>] :
              /\ i \in DOMAIN out[<<"handler", h>>]
              /\ out'[<<"handler", h>>][i] = out[<<"handler", h>>][i],
           \A i \in DOMAIN buffer' :
              ~IsInvocation(buffer'[i]) \/ (i \in DOMAIN buffer /\ buffer'[i] = buffer[i])
    PROVE  OnceInv'
<1>0. OutTypes
  BY TypeParts DEF TypeInv
<1>1. \A d \in Daemon : \A m : OnWay(d, m)' <=> OnWay(d, m)
  BY DEF OnWay
<1>2. WayInOrder'
  BY DEF OnceInv, WayInOrder
<1>3. AllMade'
  BY <1>1 DEF OnceInv, AllMade
<1>4. ASSUME NEW m \in Invocation PROVE SentOnce(m)' /\ KeptOnce(m)'
  <2>1. PICK k \in [Daemon -> Nat] : \A h \in Daemon : k[h] = 0
    <3>1. [h \in Daemon |-> 0] \in [Daemon -> Nat]
      OBVIOUS
    <3> QED BY <3>1
  <2>2. SentOnce(m) /\ KeptOnce(m)
    BY DEF OnceInv
  <2>3. \A h \in Daemon : \A i \in DOMAIN out'[<<"handler", h>>] :
              out'[<<"handler", h>>][i].msg = m =>
                  /\ i \in Nat /\ i + k[h] \in DOMAIN out[<<"handler", h>>]
                  /\ out[<<"handler", h>>][i + k[h]].msg = m
                  /\ \A d \in out'[<<"handler", h>>][i].to :
                        d \in out[<<"handler", h>>][i + k[h]].to /\ (OnWay(d, m)' => OnWay(d, m))
    <3> SUFFICES ASSUME NEW h \in Daemon, NEW i \in DOMAIN out'[<<"handler", h>>],
                        out'[<<"handler", h>>][i].msg = m
                 PROVE  /\ i \in Nat /\ i + k[h] \in DOMAIN out[<<"handler", h>>]
                        /\ out[<<"handler", h>>][i + k[h]].msg = m
                        /\ \A d \in out'[<<"handler", h>>][i].to :
                              d \in out[<<"handler", h>>][i + k[h]].to /\ (OnWay(d, m)' => OnWay(d, m))
      OBVIOUS
    <3>1. /\ i \in DOMAIN out[<<"handler", h>>]
          /\ out'[<<"handler", h>>][i] = out[<<"handler", h>>][i]
          /\ out[<<"handler", h>>] \in Seq(Sending)
      BY <1>0 DEF OutTypes, Sender
    <3>2. i \in Nat /\ i + k[h] = i /\ out[<<"handler", h>>][i] \in Sending
      BY <2>1, <3>1, InSeq
    <3>3. \A d \in out[<<"handler", h>>][i].to : OnWay(d, m)' => OnWay(d, m)
      BY <1>1, <3>2 DEF Sending
    <3> QED BY <3>1, <3>2, <3>3
  <2>4. \A i \in DOMAIN buffer' : buffer'[i] = m =>
               /\ i \in DOMAIN buffer /\ buffer[i] = m
               /\ \A d \in Daemon : OnWay(d, m)' => OnWay(d, m)
    BY <1>1 DEF IsInvocation, Invocation
  <2>5. m \in stored => m \in stored'
    OBVIOUS
  <2> QED BY <1>0, <2>2, <2>3, <2>4, <2>5, OnceStays
<1> QED BY <1>2, <1>3, <1>4 DEF OnceInv

LEMMA RunQuiet ==
    ASSUME UNCHANGED <<down, daemon, executed, stored>>, NEW q \in Run, RunSends(q),
           out'[<<"run", q>>] = out[<<"run", q>>],
           task'[q].pc = task[q].pc, task'[q].call = task[q].call, task'[q].try = task[q].try
    PROVE  RunSends(q)'
<1>1. PICK m : m = Invoked(q)
  OBVIOUS
<1>2. \A d \in out[<<"run", q>>][1].to : OnWay(d, m)' => OnWay(d, m)
  BY DEF OnWay
<1> QED BY <1>1, <1>2, RunStays

\* A task that goes on, and has nothing more to send.
LEMMA TaskOnce ==
    ASSUME TypeInv, OnceInv, UNCHANGED <<down, daemon, executed, stored, buffer>>,
           NEW r \in Run, NEW pc, NEW call, NEW try, NEW got, TaskIs(r, pc, call, try, got),
           \/ pc \in {"release", "over"}
           \/ task[r].pc \in {"new", "lease"}
           \/ /\ pc \in {"loop", "wait"} /\ task[r].pc \in {"loop", "wait"}
              /\ call > task[r].call \/ (call = task[r].call /\ try >= task[r].try),
           out'[<<"run", r>>] = <<>>,
           \A u \in Sender \ {<<"run", r>>} : out'[u] = out[u]
    PROVE  OnceInv'
<1>1. \A m \in Invocation : Made(m) => Made(m)'
  <2> SUFFICES ASSUME NEW m \in Invocation, Made(m) PROVE Made(m)'
    OBVIOUS
  <2> QED BY MadeStays
<1>2. ASSUME NEW q \in Run PROVE RunSends(q)' /\ NotifySends(q)'
  <2>1. out'[<<"notify", q>>] = out[<<"notify", q>>]
    BY DEF Sender
  <2>2. RunSends(q) /\ NotifySends(q)
    BY DEF OnceInv
  <2>3. NotifySends(q)'
    BY <2>1, <2>2 DEF NotifySends
  <2>4. CASE q = r
    BY <2>3, <2>4 DEF RunSends
  <2>5. CASE q # r
    <3>1. out'[<<"run", q>>] = out[<<"run", q>>] /\ task'[q] = task[q]
      BY <2>5 DEF Sender, TaskIs
    <3> QED BY <2>2, <2>3, <3>1, RunQuiet
  <2> QED BY <2>4, <2>5
<1>3. \A h \in Daemon : out'[<<"handler", h>>] = out[<<"handler", h>>]
  BY DEF Sender
<1> QED BY <1>1, <1>2, <1>3, QuietStep

\* The steps of a task by itself, other than those that send.
LEMMA TaskStepOnce ==
    ASSUME TypeInv, OnceInv, NEW r \in Run,
           Start(r) \/ LeaseAcked(r) \/ LeaseTimeout(r) \/ Finish(r) \/ Timeout(r) \/ Return(r)
    PROVE  OnceInv'
<1>0. TaskTypes /\ TasksInRange /\ OutTypes /\ <<"run", r>> \in Sender /\ RunSends(r)
  BY TypeParts, Messages DEF TypeInv, OnceInv
<1>1. CASE Start(r)
  <2>1. TaskIs(r, "lease", task[r].call, task[r].try, task[r].got)
    BY <1>0, <1>1, TaskGoes DEF Start
  <2>2. out[<<"run", r>>] = <<>> /\ task[r].pc = "new" /\ out' = out
        /\ UNCHANGED <<down, daemon, executed, stored, buffer>>
    BY <1>0, <1>1 DEF Start, RunSends, remote, net, history
  <2> QED BY <2>1, <2>2, TaskOnce
<1>2. CASE LeaseAcked(r)
  <2>1. TaskIs(r, "loop", task[r].call, task[r].try, task[r].got)
    BY <1>0, <1>2, TaskGoes DEF LeaseAcked
  <2>2. out[<<"run", r>>] = <<>> /\ task[r].pc = "lease" /\ out' = out
        /\ UNCHANGED <<down, daemon, executed, stored, buffer>>
    BY <1>0, <1>2 DEF LeaseAcked, RunSends, remote, net, history
  <2> QED BY <2>1, <2>2, TaskOnce
<1>3. CASE LeaseTimeout(r) \/ Finish(r)
  <2>1. TaskIs(r, "release", 1, 0, FALSE)
    BY <1>0, <1>3, TaskEnds DEF LeaseTimeout, Finish, End
  <2>2. out[<<"run", r>>] = <<>> /\ out' = out
        /\ UNCHANGED <<down, daemon, executed, stored, buffer>>
    BY <1>0, <1>3 DEF LeaseTimeout, Finish, End, RunSends, remote, net, history
  <2> QED BY <2>1, <2>2, TaskOnce
<1>4. CASE Timeout(r) \/ Return(r)
  <2>1. task[r].pc = "wait" /\ UNCHANGED <<down, daemon, executed, stored, buffer>>
        /\ (NextCall(r) \/ TryAgain(r))
    BY <1>4 DEF Timeout, Return, remote, net, history
  <2>2. \/ TaskIs(r, "loop", task[r].call + 1, 0, FALSE)
        \/ TaskIs(r, "loop", task[r].call, task[r].try, task[r].got)
    BY <1>0, <2>1, TaskGoesOn
  <2>3. out'[<<"run", r>>] = <<>> /\ \A u \in Sender \ {<<"run", r>>} : out'[u] = out[u]
    BY <1>0, <1>4 DEF Timeout, Return, OutTypes
  <2>4. task[r].call \in Nat /\ task[r].try \in Nat
    BY <1>0, ConnectorAssumption DEF TaskTypes, TaskState, ConnectorAssumption
  <2>5. CASE TaskIs(r, "loop", task[r].call + 1, 0, FALSE)
    <3>1. task[r].call + 1 > task[r].call
      BY <2>4
    <3> QED BY <2>1, <2>3, <2>5, <3>1, TaskOnce
  <2>6. CASE TaskIs(r, "loop", task[r].call, task[r].try, task[r].got)
    <3>1. task[r].try >= task[r].try
      BY <2>4
    <3> QED BY <2>1, <2>3, <2>6, <3>1, TaskOnce
  <2> QED BY <2>2, <2>5, <2>6
<1> QED BY <1>1, <1>2, <1>3, <1>4

\* Messages that are no invocations are sent, buffered or forgotten.
LEMMA OtherMessages ==
    ASSUME TypeInv, OnceInv, NEW r \in Run, Notify(r) \/ Release(r) \/ Cancel(r)
    PROVE  OnceInv'
<1> DEFINE released == [type |-> "run.connector_release", run |-> r]
           cancelled == [type |-> "run.cancel_requested", run |-> r]
<1>0. /\ TaskTypes /\ HubTypes /\ OutTypes /\ RunSends(r) /\ NotifySends(r)
      /\ <<"run", r>> \in Sender /\ <<"notify", r>> \in Sender
      /\ Lease(r) \in Message /\ released \in Message /\ cancelled \in Message
      /\ buffer \in Seq(Message) /\ registered \in SUBSET Daemon
  BY TypeParts, Messages DEF TypeInv, OnceInv, HubTypes
<1>1. ~IsInvocation(Lease(r)) /\ ~IsInvocation(released) /\ ~IsInvocation(cancelled)
  BY DEF IsInvocation, Lease
<1> HIDE DEF released, cancelled
<1>2. CASE Notify(r)
  <2>1. UNCHANGED <<task, down, daemon, executed, stored, buffer>>
    BY <1>2 DEF Notify, remote, net, history
  <2>2. /\ out'[<<"notify", r>>] = out[<<"notify", r>>]
           \/ out'[<<"notify", r>>] = Append(out[<<"notify", r>>], [to |-> registered, msg |-> Lease(r)])
        /\ \A u \in Sender \ {<<"notify", r>>} : out'[u] = out[u]
    <3>1. Plan(<<"notify", r>>, registered, Lease(r))
      BY <1>2 DEF Notify
    <3> QED BY <1>0, <3>1, Planned
  <2>3. NotifySends(r)'
    <3>1. CASE out'[<<"notify", r>>] = out[<<"notify", r>>]
      BY <1>0, <3>1 DEF NotifySends
    <3>2. CASE out'[<<"notify", r>>] # out[<<"notify", r>>]
      <4> PICK q \in Seq(Sending) : q = out[<<"notify", r>>]
        BY <1>0 DEF OutTypes
      <4> PICK e : e = [to |-> registered, msg |-> Lease(r)]
        OBVIOUS
      <4>1. registered # {}
        <5>1. Plan(<<"notify", r>>, registered, Lease(r))
          BY <1>2 DEF Notify
        <5> QED BY <1>0, <3>2, <5>1, Planned
      <4>2. e \in Sending /\ ~IsInvocation(e.msg)
        BY <1>0, <1>1, <4>1 DEF Sending
      <4>3. out'[<<"notify", r>>] = Append(q, e)
        BY <2>2, <3>2
      <4>4. \A i \in DOMAIN Append(q, e) : \/ i \in DOMAIN q /\ Append(q, e)[i] = q[i]
                                           \/ Append(q, e)[i] = e
        BY <4>2, AtTheEnd
      <4> QED BY <1>0, <4>2, <4>3, <4>4 DEF NotifySends
    <3> QED BY <3>1, <3>2
  <2>4. ASSUME NEW q \in Run PROVE RunSends(q)' /\ NotifySends(q)'
    <3>1. RunSends(q) /\ NotifySends(q) /\ out'[<<"run", q>>] = out[<<"run", q>>]
      BY <2>2 DEF OnceInv, Sender
    <3>2. RunSends(q)'
      BY <2>1, <3>1, RunQuiet
    <3>3. CASE q # r
      <4>1. out'[<<"notify", q>>] = out[<<"notify", q>>]
        BY <2>2, <3>3 DEF Sender
      <4> QED BY <3>1, <3>2, <4>1 DEF NotifySends
    <3> QED BY <2>3, <3>2, <3>3
  <2>5. \A h \in Daemon : out'[<<"handler", h>>] = out[<<"handler", h>>]
    BY <2>2 DEF Sender
  <2>6. \A m \in Invocation : Made(m) => Made(m)'
    BY <2>1 DEF Made
  <2> QED BY <2>1, <2>4, <2>5, <2>6, QuietStep
<1>3. CASE Release(r)
  <2>1. /\ UNCHANGED <<down, daemon, executed, stored>> /\ out[<<"run", r>>] = <<>>
        /\ TaskIs(r, "over", task[r].call, task[r].try, task[r].got)
        /\ BroadcastOrBuffer(<<"run", r>>, released)
    BY <1>0, <1>3, TaskGoes DEF Release, RunSends, remote, net, history, released
  <2>2. /\ out'[<<"run", r>>] = <<>> \/ out'[<<"run", r>>] = <<[to |-> registered, msg |-> released]>>
        /\ \A u \in Sender \ {<<"run", r>>} : out'[u] = out[u]
        /\ buffer' \in {buffer, Append(buffer, released)}
    <3>1. Plan(<<"run", r>>, registered, released) /\ buffer' \in {buffer, Append(buffer, released)}
      BY <2>1 DEF BroadcastOrBuffer
    <3>2. /\ out'[<<"run", r>>] \in {<<>>, Append(<<>>, [to |-> registered, msg |-> released])}
          /\ \A u \in Sender \ {<<"run", r>>} : out'[u] = out[u]
      BY <1>0, <2>1, <3>1, Planned
    <3> QED BY <3>1, <3>2
  <2>3. \A i \in DOMAIN out'[<<"run", r>>] : ~IsInvocation(out'[<<"run", r>>][i].msg)
    BY <1>1, <2>2
  <2>4. ASSUME NEW q \in Run PROVE RunSends(q)' /\ NotifySends(q)'
    <3>1. RunSends(q) /\ NotifySends(q) /\ out'[<<"notify", q>>] = out[<<"notify", q>>]
      BY <2>2 DEF OnceInv, Sender
    <3>2. NotifySends(q)'
      BY <3>1 DEF NotifySends
    <3>3. CASE q # r
      <4>1. out'[<<"run", q>>] = out[<<"run", q>>] /\ task'[q] = task[q]
        BY <2>1, <2>2, <3>3 DEF Sender, TaskIs
      <4> QED BY <2>1, <3>1, <3>2, <4>1, RunQuiet
    <3>4. CASE q = r
      BY <2>1, <2>3, <3>2, <3>4 DEF RunSends, TaskIs
    <3> QED BY <3>3, <3>4
  <2>5. \A h \in Daemon : out'[<<"handler", h>>] = out[<<"handler", h>>]
    BY <2>2 DEF Sender
  <2>6. \A m \in Invocation : Made(m) => Made(m)'
    <3> SUFFICES ASSUME NEW m \in Invocation, Made(m) PROVE Made(m)'
      OBVIOUS
    <3> QED BY <2>1, MadeStays
  <2>7. \A i \in DOMAIN buffer' :
              ~IsInvocation(buffer'[i]) \/ (i \in DOMAIN buffer /\ buffer'[i] = buffer[i])
    BY <1>0, <1>1, <2>2, AtTheEnd
  <2> QED BY <2>1, <2>4, <2>5, <2>6, <2>7, QuietStep
<1>4. CASE Cancel(r)
  <2>1. UNCHANGED <<task, out, down, daemon, executed, stored>> /\ buffer' = Append(buffer, cancelled)
    BY <1>4 DEF Cancel, net, history, cancelled
  <2>2. ASSUME NEW q \in Run PROVE RunSends(q)' /\ NotifySends(q)'
    <3>1. RunSends(q) /\ NotifySends(q)
      BY DEF OnceInv
    <3> QED BY <2>1, <3>1, RunQuiet DEF NotifySends
  <2>3. \A m \in Invocation : Made(m) => Made(m)'
    BY <2>1 DEF Made
  <2>4. \A i \in DOMAIN buffer' :
              ~IsInvocation(buffer'[i]) \/ (i \in DOMAIN buffer /\ buffer'[i] = buffer[i])
    BY <1>0, <1>1, <2>1, AtTheEnd
  <2> QED BY <2>1, <2>2, <2>3, <2>4, QuietStep
<1> QED BY <1>2, <1>3, <1>4

LEMMA HandlerOnce ==
    ASSUME TypeInv, OnceInv, NEW d \in Daemon, Receive(d) \/ HandlerEnds(d)
    PROVE  OnceInv'
<1>0. OutTypes /\ <<"handler", d>> \in Sender
  BY TypeParts DEF TypeInv, Sender
<1>1. /\ UNCHANGED <<down, daemon, executed, stored, buffer>>
      /\ \A q \in Run : /\ task'[q].pc = task[q].pc
                        /\ task'[q].call = task[q].call /\ task'[q].try = task[q].try
      /\ out'[<<"handler", d>>] = out[<<"handler", d>>] \/ out'[<<"handler", d>>] = <<>>
      /\ \A u \in Sender \ {<<"handler", d>>} : out'[u] = out[u]
  <2>1. CASE Receive(d)
    <3>1. ReceiveDoes(d)
      BY <2>1, ReceiveEffect
    <3>2. CASE UNCHANGED task
      BY <3>1, <3>2 DEF ReceiveDoes
    <3>3. CASE ~UNCHANGED task
      <4> PICK i \in Invocation :
             task[i.run].pc = "wait" /\ TaskIs(i.run, "wait", task[i.run].call, task[i.run].try, TRUE)
        BY <3>1, <3>3 DEF ReceiveDoes
      <4>1. UNCHANGED <<down, daemon, executed, stored, buffer, out>>
        BY <3>1 DEF ReceiveDoes
      <4> QED BY <4>1 DEF TaskIs
    <3> QED BY <3>2, <3>3
  <2>2. CASE HandlerEnds(d)
    BY <1>0, <2>2 DEF HandlerEnds, history, OutTypes
  <2> QED BY <2>1, <2>2
<1>2. ASSUME NEW q \in Run PROVE RunSends(q)' /\ NotifySends(q)'
  <2>1. /\ RunSends(q) /\ NotifySends(q)
        /\ out'[<<"run", q>>] = out[<<"run", q>>] /\ out'[<<"notify", q>>] = out[<<"notify", q>>]
    BY <1>1 DEF OnceInv, Sender
  <2>2. RunSends(q)'
    BY <1>1, <2>1, RunQuiet
  <2> QED BY <2>1, <2>2 DEF NotifySends
<1>3. \A m \in Invocation : Made(m) => Made(m)'
  BY <1>1 DEF Made, Invocation
<1>4. \A h \in Daemon : \A i \in DOMAIN out'[<<"handler", h>>] :
              /\ i \in DOMAIN out[<<"handler", h>>]
              /\ out'[<<"handler", h>>][i] = out[<<"handler", h>>][i]
  <2> SUFFICES ASSUME NEW h \in Daemon
               PROVE  \A i \in DOMAIN out'[<<"handler", h>>] :
                         /\ i \in DOMAIN out[<<"handler", h>>]
                         /\ out'[<<"handler", h>>][i] = out[<<"handler", h>>][i]
    OBVIOUS
  <2>1. CASE h = d
    BY <1>1, <2>1
  <2>2. CASE h # d
    <3>1. out'[<<"handler", h>>] = out[<<"handler", h>>]
      BY <1>1, <2>2 DEF Sender
    <3> QED BY <3>1
  <2> QED BY <2>1, <2>2
<1> QED BY <1>1, <1>2, <1>3, <1>4, QuietStep

\* The invocation that a run is sending.
LEMMA RunSendsIt ==
    ASSUME TypeInv, NEW r \in Run, RunSends(r), out[<<"run", r>>] # <<>>, task[r].pc # "over"
    PROVE  /\ task[r].pc = "wait" /\ Invoked(r) \in Invocation /\ Invoked(r) \notin stored
           /\ Len(out[<<"run", r>>]) = 1 /\ 1 \in DOMAIN out[<<"run", r>>]
           /\ out[<<"run", r>>][1] \in Sending /\ out[<<"run", r>>][1].to \subseteq Daemon
           /\ out[<<"run", r>>][1].msg = Invoked(r)
           /\ \A d \in out[<<"run", r>>][1].to : ~OnWay(d, Invoked(r))
<1>0. TaskTypes /\ TasksInRange /\ out[<<"run", r>>] \in Seq(Sending)
  BY TypeParts, Messages DEF TypeInv, OutTypes
<1>1. task[r].pc = "wait" /\ Len(out[<<"run", r>>]) = 1
      /\ out[<<"run", r>>][1].msg = Invoked(r) /\ Invoked(r) \notin stored
      /\ \A d \in out[<<"run", r>>][1].to : ~OnWay(d, Invoked(r))
  BY DEF RunSends
<1>2. task[r].call \in 1..MaxCalls /\ task[r].try \in 1..MaxTries
  BY <1>0, <1>1, ConnectorAssumption DEF TaskTypes, TaskState, TasksInRange, ConnectorAssumption
<1>3. Invoked(r) \in Invocation
  BY <1>2 DEF Invoked, Invocation
<1>4. 1 \in DOMAIN out[<<"run", r>>] /\ out[<<"run", r>>][1] \in Sending
  BY <1>0, HeadAndTail
<1> QED BY <1>1, <1>3, <1>4 DEF Sending

LEMMA DaemonOnce ==
    ASSUME TypeInv, OnceInv, NEW d \in Daemon, Connect(d) \/ DaemonStep(d) \/ Cut(d) \/ Exit(d)
    PROVE  OnceInv'
<1>0. OutTypes /\ DaemonDoes(d) /\ WayInOrder
  BY TypeParts, DaemonEffect DEF TypeInv, OnceInv
<1>1. WayInOrder'
  BY <1>0, WayAfterOwnStep
<1>2. \A c \in Daemon, m \in Invocation : OnWay(c, m)' => OnWay(c, m)
  BY <1>0, WayAfterOwnStep
<1>3. UNCHANGED <<task, buffer, stored>>
  BY DEF Connect, DaemonStep, Pump, TakeLease, LeaveCancelled, LeaveReleased, Execute, Cut, Exit, hub,
         history
<1>4. /\ \A i \in DOMAIN out'[<<"handler", d>>] :
            \/ i \in DOMAIN out[<<"handler", d>>] /\ out'[<<"handler", d>>][i] = out[<<"handler", d>>][i]
            \/ out'[<<"handler", d>>][i].msg.type = "run_lease"
      /\ \A u \in Sender \ {<<"handler", d>>} : out'[u] = out[u]
  <2>1. CASE Connect(d)
    BY <2>1, ConnectEffect DEF ConnectSends
  <2>2. CASE ~Connect(d)
    <3>1. out' = out
      BY <2>2 DEF DaemonStep, Pump, TakeLease, LeaveCancelled, LeaveReleased, Execute, Cut, Exit, hub
    <3> QED BY <3>1
  <2> QED BY <2>1, <2>2
<1>5. AllMade'
  <2> SUFFICES ASSUME NEW m \in Invocation, m \in stored' \/ (\E c \in Daemon : OnWay(c, m)')
               PROVE  Made(m)'
    BY DEF AllMade
  <2>1. Made(m)
    BY <1>2, <1>3 DEF OnceInv, AllMade
  <2> QED BY <1>3, <2>1 DEF Made
<1>6. ASSUME NEW q \in Run PROVE RunSends(q)' /\ NotifySends(q)'
  <2>1. /\ RunSends(q) /\ NotifySends(q)
        /\ out'[<<"run", q>>] = out[<<"run", q>>] /\ out'[<<"notify", q>>] = out[<<"notify", q>>]
    BY <1>4 DEF OnceInv, Sender
  <2>2. NotifySends(q)'
    BY <2>1 DEF NotifySends
  <2>3. CASE out[<<"run", q>>] = <<>>
    BY <2>1, <2>2, <2>3 DEF RunSends
  <2>4. CASE out[<<"run", q>>] # <<>> /\ task[q].pc = "over"
    BY <1>3, <2>1, <2>2, <2>4 DEF RunSends
  <2>5. CASE out[<<"run", q>>] # <<>> /\ task[q].pc # "over"
    <3> PICK m \in Invocation : m = Invoked(q)
      BY <2>1, <2>5, RunSendsIt
    <3>1. \A c \in out[<<"run", q>>][1].to : OnWay(c, m)' => OnWay(c, m)
      BY <1>2, <2>1, <2>5, RunSendsIt
    <3>2. RunSends(q)'
      BY <1>3, <2>1, <3>1, RunStays
    <3> QED BY <2>2, <3>2
  <2> QED BY <2>3, <2>4, <2>5
<1>7. ASSUME NEW m \in Invocation PROVE SentOnce(m)' /\ KeptOnce(m)'
  <2>1. PICK k \in [Daemon -> Nat] : \A h \in Daemon : k[h] = 0
    <3>1. [h \in Daemon |-> 0] \in [Daemon -> Nat]
      OBVIOUS
    <3> QED BY <3>1
  <2>2. SentOnce(m) /\ KeptOnce(m)
    BY DEF OnceInv
  <2>3. \A h \in Daemon : \A i \in DOMAIN out'[<<"handler", h>>] :
              out'[<<"handler", h>>][i].msg = m =>
                  /\ i \in Nat /\ i + k[h] \in DOMAIN out[<<"handler", h>>]
                  /\ out[<<"handler", h>>][i + k[h]].msg = m
                  /\ \A c \in out'[<<"handler", h>>][i].to :
                        c \in out[<<"handler", h>>][i + k[h]].to /\ (OnWay(c, m)' => OnWay(c, m))
    <3> SUFFICES ASSUME NEW h \in Daemon, NEW i \in DOMAIN out'[<<"handler", h>>],
                        out'[<<"handler", h>>][i].msg = m
                 PROVE  /\ i \in Nat /\ i + k[h] \in DOMAIN out[<<"handler", h>>]
                        /\ out[<<"handler", h>>][i + k[h]].msg = m
                        /\ \A c \in out'[<<"handler", h>>][i].to :
                              c \in out[<<"handler", h>>][i + k[h]].to /\ (OnWay(c, m)' => OnWay(c, m))
      OBVIOUS
    <3>1. /\ i \in DOMAIN out[<<"handler", h>>]
          /\ out'[<<"handler", h>>][i] = out[<<"handler", h>>][i]
          /\ out[<<"handler", h>>] \in Seq(Sending)
      <4>1. m.type # "run_lease" /\ <<"handler", h>> \in Sender
        BY DEF Invocation, Sender
      <4>2. CASE h = d
        BY <1>0, <1>4, <4>1, <4>2 DEF OutTypes
      <4>3. CASE h # d
        <5>1. out'[<<"handler", h>>] = out[<<"handler", h>>]
          BY <1>4, <4>1, <4>3
        <5> QED BY <1>0, <4>1, <5>1 DEF OutTypes
      <4> QED BY <4>2, <4>3
    <3>2. i \in Nat /\ i + k[h] = i /\ out[<<"handler", h>>][i] \in Sending
      BY <2>1, <3>1, InSeq
    <3>3. \A c \in out[<<"handler", h>>][i].to : OnWay(c, m)' => OnWay(c, m)
      BY <1>2, <3>2 DEF Sending
    <3> QED BY <3>1, <3>2, <3>3
  <2>4. \A i \in DOMAIN buffer' : buffer'[i] = m =>
               /\ i \in DOMAIN buffer /\ buffer[i] = m
               /\ \A c \in Daemon : OnWay(c, m)' => OnWay(c, m)
    BY <1>2, <1>3
  <2>5. m \in stored => m \in stored'
    BY <1>3
  <2> QED BY <1>0, <2>2, <2>3, <2>4, <2>5, OnceStays
<1> QED BY <1>1, <1>5, <1>6, <1>7 DEF OnceInv

\* What was buffered is sent by the handler that flushes, and by no other.
LEMMA FlushOnce ==
    ASSUME TypeInv, OnceInv, NEW d \in Daemon, Flush(d) PROVE OnceInv'
<1>0. OutTypes /\ OutTypes' /\ FlushSends(d) /\ <<"handler", d>> \in Sender
  BY TypeParts, FlushEffect DEF TypeInv, FlushSends, Sender
<1>1. UNCHANGED <<task, down, daemon, executed, stored>> /\ buffer' = <<>>
      /\ out[<<"handler", d>>] = <<>>
  BY DEF Flush, remote, net, history
<1>2. \A c \in Daemon : \A m : OnWay(c, m)' <=> OnWay(c, m)
  BY <1>1 DEF OnWay
<1>3. WayInOrder' /\ AllMade'
  BY <1>1, <1>2 DEF OnceInv, WayInOrder, AllMade, Made
<1>4. ASSUME NEW q \in Run PROVE RunSends(q)' /\ NotifySends(q)'
  <2>1. /\ RunSends(q) /\ NotifySends(q)
        /\ out'[<<"run", q>>] = out[<<"run", q>>] /\ out'[<<"notify", q>>] = out[<<"notify", q>>]
    BY <1>0 DEF OnceInv, Sender, FlushSends
  <2>2. RunSends(q)'
    BY <1>1, <2>1, RunQuiet
  <2> QED BY <2>1, <2>2 DEF NotifySends
<1>5. ASSUME NEW m \in Invocation PROVE SentOnce(m)' /\ KeptOnce(m)'
  <2>0. SentOnce(m) /\ KeptOnce(m)
    BY DEF OnceInv
  <2>1. \A h \in Daemon \ {d} : out'[<<"handler", h>>] = out[<<"handler", h>>]
    BY <1>0 DEF FlushSends, Sender
  <2>2. \A i \in DOMAIN out'[<<"handler", d>>] :
           i \in DOMAIN buffer /\ out'[<<"handler", d>>][i].msg = buffer[i]
    BY <1>0 DEF FlushSends
  <2>3. ASSUME NEW h \in Daemon, NEW i \in DOMAIN out'[<<"handler", h>>], out'[<<"handler", h>>][i].msg = m
        PROVE  /\ m \in stored'
               /\ \A c \in out'[<<"handler", h>>][i].to : ~OnWay(c, m)'
               /\ \A g \in Daemon : \A j \in DOMAIN out'[<<"handler", g>>] :
                     out'[<<"handler", g>>][j].msg = m => g = h /\ j = i
    <3>1. CASE h = d
      <4>1. i \in DOMAIN buffer /\ buffer[i] = m
        BY <2>2, <2>3, <3>1
      <4>2. m \in stored /\ \A c \in Daemon : ~OnWay(c, m)
        BY <2>0, <4>1 DEF KeptOnce
      <4>3. out'[<<"handler", h>>][i].to \subseteq Daemon
        <5>1. out'[<<"handler", h>>] \in Seq(Sending)
          BY <1>0, <3>1 DEF OutTypes
        <5>2. out'[<<"handler", h>>][i] \in Sending
          BY <2>3, <5>1, InSeq
        <5> QED BY <5>2 DEF Sending
      <4>4. ASSUME NEW g \in Daemon, NEW j \in DOMAIN out'[<<"handler", g>>],
                   out'[<<"handler", g>>][j].msg = m
            PROVE  g = h /\ j = i
        <5>1. CASE g = d
          BY <2>0, <2>2, <3>1, <4>1, <4>4, <5>1 DEF KeptOnce
        <5>2. CASE g # d
          BY <2>0, <2>1, <4>1, <4>4, <5>2 DEF KeptOnce
        <5> QED BY <5>1, <5>2
      <4> QED BY <1>1, <1>2, <4>2, <4>3, <4>4
    <3>2. CASE h # d
      <4>1. out'[<<"handler", h>>] = out[<<"handler", h>>]
        BY <2>1, <3>2
      <4>2. m \in stored /\ \A c \in out[<<"handler", h>>][i].to : ~OnWay(c, m)
        BY <2>0, <2>3, <4>1 DEF SentOnce
      <4>3. out[<<"handler", h>>][i].to \subseteq Daemon
        <5>1. out[<<"handler", h>>] \in Seq(Sending)
          BY <1>0 DEF OutTypes, Sender
        <5>2. out[<<"handler", h>>][i] \in Sending
          BY <2>3, <4>1, <5>1, InSeq
        <5> QED BY <5>2 DEF Sending
      <4>4. ASSUME NEW g \in Daemon, NEW j \in DOMAIN out'[<<"handler", g>>],
                   out'[<<"handler", g>>][j].msg = m
            PROVE  g = h /\ j = i
        <5>1. CASE g = d
          BY <2>0, <2>2, <2>3, <4>1, <4>4, <5>1 DEF KeptOnce
        <5>2. CASE g # d
          BY <2>0, <2>1, <2>3, <4>1, <4>4, <5>2 DEF SentOnce
        <5> QED BY <5>1, <5>2
      <4> QED BY <1>1, <1>2, <4>1, <4>2, <4>3, <4>4
    <3> QED BY <3>1, <3>2
  <2>4. SentOnce(m)'
    BY <2>3 DEF SentOnce
  <2>5. KeptOnce(m)'
    BY <1>1 DEF KeptOnce
  <2> QED BY <2>4, <2>5
<1> QED BY <1>3, <1>4, <1>5 DEF OnceInv

\* The attempt that invoke_tool makes is a new one: nothing is anywhere of it.
LEMMA NewAttempt ==
    ASSUME TypeInv, OnceInv, NEW r \in Run, task[r].pc = "loop", NEW m \in Invocation,
           m.run = r, m.call = task[r].call, m.try = task[r].try + 1
    PROVE  /\ ~Made(m) /\ m \notin stored /\ \A d \in Daemon : ~OnWay(d, m)
           /\ \A h \in Daemon : \A i \in DOMAIN out[<<"handler", h>>] : out[<<"handler", h>>][i].msg # m
           /\ \A i \in DOMAIN buffer : buffer[i] # m
<1>1. task[r].call \in Nat /\ task[r].try \in Nat
  BY TypeParts, ConnectorAssumption DEF TypeInv, TaskTypes, TaskState, ConnectorAssumption
<1>2. ~Made(m)
  BY <1>1 DEF Made
<1>3. m \notin stored /\ \A d \in Daemon : ~OnWay(d, m)
  BY <1>2 DEF OnceInv, AllMade
<1>4. SentOnce(m) /\ KeptOnce(m)
  BY DEF OnceInv
<1> QED BY <1>2, <1>3, <1>4 DEF SentOnce, KeptOnce

LEMMA InvokeOnce ==
    ASSUME TypeInv, OnceInv, NEW r \in Run, Invoke(r) PROVE OnceInv'
<1>0. /\ TaskTypes /\ OutTypes /\ RunSends(r) /\ InvokeDoes(r) /\ <<"run", r>> \in Sender
      /\ buffer \in Seq(Message)
  BY TypeParts, InvokeEffect, Messages DEF TypeInv, OnceInv, HubTypes
<1>1. task[r].pc = "loop" /\ UNCHANGED <<down, daemon, executed>> /\ out[<<"run", r>>] = <<>>
  BY <1>0 DEF Invoke, RunSends, net
<1>2. task[r].call \in Nat /\ task[r].try \in Nat
  BY <1>0, ConnectorAssumption DEF TaskTypes, TaskState, ConnectorAssumption
<1>3. PICK m0 \in Invocation : m0 = Invoked(r)'
  BY <1>0 DEF InvokeDoes
<1>4. m0.run = r /\ m0.call = task[r].call /\ m0.try = task[r].try + 1
  BY <1>0, <1>3 DEF Invoked, InvokeDoes, TaskIs
<1>5. /\ m0 \notin stored /\ \A d \in Daemon : ~OnWay(d, m0)
      /\ \A h \in Daemon : \A i \in DOMAIN out[<<"handler", h>>] : out[<<"handler", h>>][i].msg # m0
      /\ \A i \in DOMAIN buffer : buffer[i] # m0
  BY <1>1, <1>3, <1>4, NewAttempt
<1>6. TaskIs(r, "wait", task[r].call, task[r].try + 1, FALSE)
  BY <1>0 DEF InvokeDoes
<1>7. \A d \in Daemon : \A m : OnWay(d, m)' <=> OnWay(d, m)
  BY <1>1 DEF OnWay
<1>8. /\ \A u \in Sender \ {<<"run", r>>} : out'[u] = out[u]
      /\ \/ /\ out'[<<"run", r>>] = <<>>
            /\ buffer' = Append(buffer, m0) /\ stored' = stored \cup {m0}
         \/ /\ out'[<<"run", r>>] = <<[to |-> registered, msg |-> m0]>>
            /\ buffer' = buffer /\ stored' = stored
  <2>1. CASE registered = {}
    BY <1>0, <1>1, <1>3, <2>1 DEF InvokeDoes
  <2>2. CASE registered # {}
    <3>1. out'[<<"run", r>>] = Append(<<>>, [to |-> registered, msg |-> m0])
      BY <1>0, <1>1, <1>3, <2>2 DEF InvokeDoes
    <3> QED BY <1>0, <2>2, <3>1 DEF InvokeDoes
  <2> QED BY <2>1, <2>2
<1>9. stored \subseteq stored' /\ \A m \in stored' : m \in stored \/ m = m0
  BY <1>8
<1>10. WayInOrder'
  <2>1. WayInOrder
    BY DEF OnceInv
  <2> SUFFICES ASSUME NEW d \in Daemon PROVE InOrder(stored', executed'[d], daemon'[d].tools, down'[d])
    BY DEF WayInOrder
  <2>2. InOrder(stored, executed[d], daemon[d].tools, down[d])
    BY <2>1 DEF WayInOrder
  <2>3. InOrder(stored', executed[d], daemon[d].tools, down[d])
    BY <1>9, <2>2, LaterInOrder
  <2> QED BY <1>1, <2>3
<1>11. AllMade'
  <2> SUFFICES ASSUME NEW m \in Invocation, m \in stored' \/ (\E d \in Daemon : OnWay(d, m)')
               PROVE  Made(m)'
    BY DEF AllMade
  <2>1. CASE m = m0
    BY <1>2, <1>4, <1>6, <2>1 DEF Made, TaskIs
  <2>2. CASE m # m0
    <3>1. Made(m)
      BY <1>7, <1>9, <2>2 DEF OnceInv, AllMade
    <3>2. task[r].try + 1 >= task[r].try
      BY <1>2
    <3> QED BY <1>1, <1>6, <3>1, <3>2, MadeStays
  <2> QED BY <2>1, <2>2
<1>12. ASSUME NEW q \in Run PROVE RunSends(q)' /\ NotifySends(q)'
  <2>1. RunSends(q) /\ NotifySends(q) /\ out'[<<"notify", q>>] = out[<<"notify", q>>]
    BY <1>8 DEF OnceInv, Sender
  <2>2. NotifySends(q)'
    BY <2>1 DEF NotifySends
  <2>3. CASE q # r
    <3>1. out'[<<"run", q>>] = out[<<"run", q>>] /\ task'[q] = task[q]
      BY <1>6, <1>8, <2>3 DEF Sender, TaskIs
    <3>2. PICK m : m = Invoked(q)
      OBVIOUS
    <3>3. m \in stored' => m \in stored
      BY <1>4, <1>9, <2>3, <3>2 DEF Invoked
    <3>4. \A d \in out[<<"run", q>>][1].to : OnWay(d, m)' => OnWay(d, m)
      BY <1>1 DEF OnWay
    <3>5. RunSends(q)'
      BY <2>1, <3>1, <3>2, <3>3, <3>4, RunStays
    <3> QED BY <2>2, <3>5
  <2>4. CASE q = r
    <3>1. CASE out'[<<"run", r>>] = <<>>
      BY <2>2, <2>4, <3>1 DEF RunSends
    <3>2. CASE out'[<<"run", r>>] # <<>>
      <4>1. out'[<<"run", r>>] = <<[to |-> registered, msg |-> m0]>> /\ stored' = stored
        BY <1>8, <3>2
      <4>2. registered \subseteq Daemon
        BY TypeParts DEF TypeInv, HubTypes
      <4>3. Len(out'[<<"run", r>>]) = 1 /\ out'[<<"run", r>>][1].msg = m0 /\ out'[<<"run", r>>][1].to = registered
        BY <4>1
      <4>4. \A d \in out'[<<"run", r>>][1].to : ~OnWay(d, m0)'
        BY <1>5, <1>7, <4>2, <4>3
      <4>5. task'[r].pc = "wait" /\ Invoked(r)' = m0 /\ m0 \notin stored'
        BY <1>3, <1>5, <1>6, <4>1 DEF TaskIs
      <4>6. \A d \in out'[<<"run", r>>][1].to : ~OnWay(d, Invoked(r))'
        BY <4>4, <4>5 DEF OnWay
      <4>7. RunSends(r)'
        BY <4>3, <4>5, <4>6 DEF RunSends
      <4> QED BY <2>2, <2>4, <4>7
    <3> QED BY <3>1, <3>2
  <2> QED BY <2>3, <2>4
<1>13. ASSUME NEW m \in Invocation PROVE SentOnce(m)' /\ KeptOnce(m)'
  <2>0. \A h \in Daemon : out'[<<"handler", h>>] = out[<<"handler", h>>]
    BY <1>8 DEF Sender
  <2>1. SentOnce(m) /\ KeptOnce(m)
    BY DEF OnceInv
  <2>2. \A i \in DOMAIN buffer' : \/ i \in DOMAIN buffer /\ buffer'[i] = buffer[i]
                                  \/ /\ i = Len(buffer) + 1 /\ buffer'[i] = m0
                                     /\ m0 \in stored'
    <3>1. m0 \in Message
      BY Messages, <1>3
    <3> QED BY <1>0, <1>8, <3>1, AtTheEnd
  <2>3. SentOnce(m)'
    <3>1. m \in stored => m \in stored'
      BY <1>9
    <3>2. \A d : OnWay(d, m)' <=> OnWay(d, m)
      BY <1>1 DEF OnWay
    <3> SUFFICES ASSUME NEW h \in Daemon, NEW i \in DOMAIN out'[<<"handler", h>>],
                        out'[<<"handler", h>>][i].msg = m
                 PROVE  /\ m \in stored'
                        /\ \A d \in out'[<<"handler", h>>][i].to : ~OnWay(d, m)'
                        /\ \A g \in Daemon : \A j \in DOMAIN out'[<<"handler", g>>] :
                              out'[<<"handler", g>>][j].msg = m => g = h /\ j = i
      BY DEF SentOnce
    <3>3. i \in DOMAIN out[<<"handler", h>>] /\ out[<<"handler", h>>][i].msg = m
          /\ out'[<<"handler", h>>][i].to = out[<<"handler", h>>][i].to
      BY <2>0
    <3>4. m \in stored /\ \A d \in out[<<"handler", h>>][i].to : ~OnWay(d, m)
      BY <2>1, <3>3 DEF SentOnce
    <3>5. \A g \in Daemon : \A j \in DOMAIN out'[<<"handler", g>>] :
              out'[<<"handler", g>>][j].msg = m => g = h /\ j = i
      BY <2>0, <2>1, <3>3 DEF SentOnce
    <3> QED BY <3>1, <3>2, <3>3, <3>4, <3>5
  <2>4. KeptOnce(m)'
    <3>1. CASE m = m0
      BY <1>5, <1>7, <2>0, <2>2, <3>1 DEF KeptOnce
    <3>2. CASE m # m0
      BY <1>7, <1>9, <2>0, <2>1, <2>2, <3>2 DEF KeptOnce
    <3> QED BY <3>1, <3>2
  <2> QED BY <2>3, <2>4
<1> QED BY <1>10, <1>11, <1>12, <1>13 DEF OnceInv

\* A message that s sends to d: if it is an invocation, d does not have it, and
\* it was stored and is sent by a handler, or it is what its run waits for.
FreshFor(s, d, m) ==
    /\ ~OnWay(d, m)
    /\ \/ m \in stored /\ \E h \in Daemon : s = <<"handler", h>>
       \/ /\ m \notin stored /\ s = <<"run", m.run>>
          /\ task[m.run].pc = "wait" /\ m = Invoked(m.run)

LEMMA SendsFresh ==
    ASSUME TypeInv, OnceInv, NEW s \in Sender, NEW d \in Daemon, DeliverDoes(s, d),
           NEW m \in Invocation, m = Head(out[s]).msg
    PROVE  FreshFor(s, d, m)
<1>1. /\ out[s] # <<>> /\ 1 \in DOMAIN out[s] /\ out[s][1].msg = m
      /\ d \in out[s][1].to
  <2>1. out[s] \in Seq(Sending) /\ out[s] # <<>> /\ d \in Head(out[s]).to
    BY TypeParts DEF TypeInv, OutTypes, DeliverDoes
  <2>2. Head(out[s]) = out[s][1] /\ 1 \in DOMAIN out[s]
    BY <2>1, HeadAndTail
  <2> QED BY <2>1, <2>2
<1>2. IsInvocation(m)
  BY DEF IsInvocation, Invocation
<1>3. CASE \E h \in Daemon : s = <<"handler", h>>
  <2> PICK h \in Daemon : s = <<"handler", h>>
    BY <1>3
  <2>1. SentOnce(m)
    BY DEF OnceInv
  <2>2. m \in stored /\ ~OnWay(d, m)
    BY <1>1, <2>1 DEF SentOnce
  <2> QED BY <2>2 DEF FreshFor
<1>4. CASE \E r \in Run : s = <<"notify", r>>
  <2> PICK r \in Run : s = <<"notify", r>>
    BY <1>4
  <2>1. NotifySends(r)
    BY DEF OnceInv
  <2> QED BY <1>1, <1>2, <2>1 DEF NotifySends
<1>5. CASE \E r \in Run : s = <<"run", r>>
  <2> PICK r \in Run : s = <<"run", r>>
    BY <1>5
  <2>1. RunSends(r)
    BY DEF OnceInv
  <2>2. task[r].pc = "wait" /\ m = Invoked(r) /\ m \notin stored /\ ~OnWay(d, m)
    BY <1>1, <1>2, <2>1 DEF RunSends
  <2>3. m.run = r
    BY <2>2 DEF Invoked
  <2> QED BY <2>2, <2>3 DEF FreshFor
<1> QED BY <1>3, <1>4, <1>5 DEF Sender

\* It may come after all that is on the way.
LEMMA FreshIsLast ==
    ASSUME TypeInv, OnceInv, NEW s, NEW d \in Daemon, NEW m \in Invocation, FreshFor(s, d, m),
           NEW e \in Message, OnWay(d, e)
    PROVE  Ahead(stored, e, m)
<1> SUFFICES ASSUME IsInvocation(e)
             PROVE  e # m /\ (e.run = m.run /\ m \notin stored => Older(e, m))
  BY DEF Ahead
<1>1. e \in Invocation
  BY DEF IsInvocation, Message
<1>2. e # m
  BY DEF FreshFor
<1>3. Made(e)
  BY <1>1 DEF OnceInv, AllMade
<1>4. ASSUME e.run = m.run, m \notin stored PROVE Older(e, m)
  <2>1. task[m.run].pc = "wait" /\ m.call = task[m.run].call /\ m.try = task[m.run].try
    BY <1>4 DEF FreshFor, Invoked
  <2>2. e.call < m.call \/ (e.call = m.call /\ e.try <= m.try)
    BY <1>3, <1>4, <2>1 DEF Made
  <2>3. /\ e.call \in Nat /\ e.try \in Nat /\ m.call \in Nat /\ m.try \in Nat
        /\ e.call = m.call /\ e.run = m.run /\ e.try = m.try => e = m
    BY <1>1, ConnectorAssumption DEF Invocation, ConnectorAssumption
  <2>4. e.call < m.call \/ (e.call = m.call /\ e.try < m.try)
    BY <1>2, <1>4, <2>2, <2>3
  <2> QED BY <1>4, <2>4 DEF Older
<1> QED BY <1>2, <1>4

\* What is on the way to a daemon after a send.
LEMMA WayAfterSend ==
    ASSUME TypeInv, OnceInv, NEW s \in Sender, NEW d \in Daemon, DeliverDoes(s, d)
    PROVE  /\ WayInOrder'
           /\ \A c \in Daemon : \A m : OnWay(c, m)' => OnWay(c, m) \/ (c = d /\ m = Head(out[s]).msg)
<1>0. /\ UNCHANGED <<daemon, executed, stored>>
      /\ \A c \in Daemon \ {d} : down'[c] = down[c]
      /\ down'[d] = down[d] \/ down'[d] = Append(down[d], Head(out[s]).msg)
  BY DEF DeliverDoes
<1>1. PICK e \in Message : e = Head(out[s]).msg
  BY DEF DeliverDoes, Sending
<1>2. PICK done \in Seq(Invocation), tools \in Seq(Message), coming \in Seq(Message) :
        done = executed[d] /\ tools = daemon[d].tools /\ coming = down[d]
  BY TypeParts DEF TypeInv, NetTypes, DaemonTypes, DaemonState, HistoryTypes
<1>3. InOrder(stored, done, tools, coming)
  BY <1>2 DEF OnceInv, WayInOrder
<1>4. ASSUME NEW f \in Message, OnWay(d, f) PROVE Ahead(stored, f, e)
  <2>1. CASE e \in Invocation
    <3>1. FreshFor(s, d, e)
      BY <1>1, <2>1, SendsFresh
    <3> QED BY <1>4, <2>1, <3>1, FreshIsLast
  <2>2. CASE e \notin Invocation
    BY <2>2, Messages DEF Ahead, IsInvocation, Message
  <2> QED BY <2>1, <2>2
<1>5. /\ \A i \in DOMAIN done : Ahead(stored, done[i], e)
      /\ \A i \in DOMAIN tools : Ahead(stored, tools[i], e)
      /\ \A i \in DOMAIN coming : Ahead(stored, coming[i], e)
  <2>1. ASSUME NEW i \in DOMAIN done PROVE Ahead(stored, done[i], e)
    <3>1. done[i] \in Message /\ OnWay(d, done[i])
      BY <1>2, <2>1, InSeq DEF OnWay, Holds, Message
    <3> QED BY <1>4, <3>1
  <2>2. ASSUME NEW i \in DOMAIN tools PROVE Ahead(stored, tools[i], e)
    <3>1. tools[i] \in Message /\ OnWay(d, tools[i])
      BY <1>2, <2>2, InSeq DEF OnWay, Holds
    <3> QED BY <1>4, <3>1
  <2>3. ASSUME NEW i \in DOMAIN coming PROVE Ahead(stored, coming[i], e)
    <3>1. coming[i] \in Message /\ OnWay(d, coming[i])
      BY <1>2, <2>3, InSeq DEF OnWay, Holds
    <3> QED BY <1>4, <3>1
  <2> QED BY <2>1, <2>2, <2>3
<1>6. InOrder(stored, done, tools, Append(coming, e))
  BY <1>3, <1>5, ArriveInOrder
<1>7. InOrder(stored', executed'[d], daemon'[d].tools, down'[d])
  BY <1>0, <1>1, <1>2, <1>3, <1>6
<1>8. WayInOrder'
  <2> SUFFICES ASSUME NEW c \in Daemon PROVE InOrder(stored', executed'[c], daemon'[c].tools, down'[c])
    BY DEF WayInOrder
  <2>1. CASE c = d
    BY <1>7, <2>1
  <2>2. CASE c # d
    <3>1. InOrder(stored, executed[c], daemon[c].tools, down[c])
      BY DEF OnceInv, WayInOrder
    <3> QED BY <1>0, <2>2, <3>1
  <2> QED BY <2>1, <2>2
<1>9. ASSUME NEW c \in Daemon, NEW m, OnWay(c, m)' PROVE OnWay(c, m) \/ (c = d /\ m = e)
  <2>1. CASE Holds(executed'[c], m) \/ Holds(daemon'[c].tools, m)
    BY <1>0, <2>1 DEF OnWay
  <2>2. CASE Holds(down'[c], m)
    <3>1. CASE down'[c] = down[c]
      BY <2>2, <3>1 DEF OnWay
    <3>2. CASE down'[c] # down[c]
      <4>1. c = d /\ down'[c] = Append(coming, e)
        BY <1>0, <1>1, <1>2, <3>2
      <4>2. Holds(coming, m) \/ m = e
        BY <2>2, <4>1, HoldsLess
      <4> QED BY <1>2, <4>1, <4>2 DEF OnWay
    <3> QED BY <3>1, <3>2
  <2> QED BY <1>9, <2>1, <2>2 DEF OnWay
<1> QED BY <1>1, <1>8, <1>9

LEMMA SendOnce ==
    ASSUME TypeInv, OnceInv, NEW s \in Sender, NEW d \in Daemon, Deliver(s, d) \/ Lose(s, d)
    PROVE  OnceInv'
<1>0. DeliverDoes(s, d) /\ OutTypes
  BY DeliverEffect, TypeParts DEF TypeInv
<1>1. /\ UNCHANGED <<task, buffer, stored>>
      /\ \A u \in Sender \ {s} : out'[u] = out[u]
      /\ out[s] \in Seq(Sending) /\ out[s] # <<>>
  BY <1>0 DEF DeliverDoes, OutTypes
<1>2. PICK e \in Message : e = Head(out[s]).msg
  BY <1>0 DEF DeliverDoes, Sending
<1>3. 1 \in DOMAIN out[s] /\ out[s][1].msg = e
  BY <1>1, <1>2, HeadAndTail
<1>4. PICK b \in {0, 1} : SendsLess(s, d, b)
  BY <1>0 DEF DeliverDoes
<1>5. WayInOrder'
  BY <1>0, WayAfterSend
<1>6. \A c \in Daemon : \A m : OnWay(c, m)' => OnWay(c, m) \/ (c = d /\ m = e)
  BY <1>0, <1>2, WayAfterSend
<1>7. e \in Invocation => FreshFor(s, d, e)
  BY <1>0, <1>2, SendsFresh
<1>8. AllMade'
  <2> SUFFICES ASSUME NEW m \in Invocation, m \in stored' \/ (\E c \in Daemon : OnWay(c, m)')
               PROVE  Made(m)'
    BY DEF AllMade
  <2>1. CASE m \in stored \/ (\E c \in Daemon : OnWay(c, m))
    <3>1. Made(m)
      BY <2>1 DEF OnceInv, AllMade
    <3> QED BY <1>1, <3>1 DEF Made
  <2>2. CASE ~(m \in stored \/ (\E c \in Daemon : OnWay(c, m)))
    <3>1. m = e /\ m \notin stored
      BY <1>1, <1>6, <2>2
    <3>2. task[m.run].pc = "wait" /\ m = Invoked(m.run)
      BY <1>7, <3>1 DEF FreshFor
    <3>3. m.call = task[m.run].call /\ m.try = task[m.run].try /\ m.try \in Nat
      BY <3>2, ConnectorAssumption DEF Invoked, Invocation, ConnectorAssumption
    <3> QED BY <1>1, <3>2, <3>3 DEF Made
  <2> QED BY <2>1, <2>2
<1>9. ASSUME NEW q \in Run PROVE RunSends(q)' /\ NotifySends(q)'
  <2>0. RunSends(q) /\ NotifySends(q) /\ <<"notify", q>> \in Sender /\ <<"run", q>> \in Sender
    BY Messages DEF OnceInv
  <2>1. NotifySends(q)'
    <3>1. CASE s = <<"notify", q>>
      BY <1>4, <2>0, <3>1 DEF NotifySends, SendsLess
    <3>2. CASE s # <<"notify", q>>
      BY <1>1, <2>0, <3>2 DEF NotifySends
    <3> QED BY <3>1, <3>2
  <2>2. CASE out[<<"run", q>>] = <<>>
    <3>1. out'[<<"run", q>>] = <<>>
      BY <1>1, <2>0, <2>2
    <3> QED BY <2>1, <3>1 DEF RunSends
  <2>3. CASE out[<<"run", q>>] # <<>> /\ task[q].pc = "over"
    <3>1. \A i \in DOMAIN out[<<"run", q>>] : ~IsInvocation(out[<<"run", q>>][i].msg)
      BY <2>0, <2>3 DEF RunSends
    <3>2. \A i \in DOMAIN out'[<<"run", q>>] : ~IsInvocation(out'[<<"run", q>>][i].msg)
      <4>1. CASE s = <<"run", q>>
        BY <1>4, <3>1, <4>1 DEF SendsLess
      <4>2. CASE s # <<"run", q>>
        BY <1>1, <2>0, <3>1, <4>2
      <4> QED BY <4>1, <4>2
    <3> QED BY <1>1, <2>1, <2>3, <3>2 DEF RunSends
  <2>4. CASE out[<<"run", q>>] # <<>> /\ task[q].pc # "over"
    <3> PICK m \in Invocation : m = Invoked(q)
      BY <2>0, <2>4, RunSendsIt
    <3>1. /\ task[q].pc = "wait" /\ m \notin stored /\ m.run = q
          /\ Len(out[<<"run", q>>]) = 1 /\ out[<<"run", q>>][1].msg = m
          /\ out[<<"run", q>>][1].to \subseteq Daemon
          /\ \A c \in out[<<"run", q>>][1].to : ~OnWay(c, m)
      BY <2>0, <2>4, RunSendsIt DEF Invoked
    <3>2. CASE s = <<"run", q>>
      <4>1. CASE b = 1
        <5>1. Len(out'[<<"run", q>>]) = 0 /\ out'[<<"run", q>>] \in Seq(Sending)
          <6>1. out'[<<"run", q>>] \in Seq(Sending)
            BY <1>0, <2>0 DEF DeliverDoes, OutTypes
          <6>2. SendsLess(<<"run", q>>, d, 1)
            BY <1>4, <3>2, <4>1
          <6> QED BY <3>1, <6>1, <6>2 DEF SendsLess
        <5>2. out'[<<"run", q>>] = <<>>
          BY <5>1, EmptySeq
        <5> QED BY <2>1, <5>2 DEF RunSends
      <4>2. CASE b = 0
        <5>1. Len(out'[<<"run", q>>]) = 1 /\ out'[<<"run", q>>] \in Seq(Sending)
          <6>1. out'[<<"run", q>>] \in Seq(Sending)
            BY <1>0, <2>0 DEF DeliverDoes, OutTypes
          <6>2. SendsLess(<<"run", q>>, d, 0)
            BY <1>4, <3>2, <4>2
          <6> QED BY <3>1, <6>1, <6>2 DEF SendsLess
        <5>2. 1 \in DOMAIN out'[<<"run", q>>]
          BY <5>1, LenProperties
        <5>3. /\ out'[<<"run", q>>][1].msg = m
              /\ out'[<<"run", q>>][1].to \subseteq out[<<"run", q>>][1].to
              /\ d \notin out'[<<"run", q>>][1].to
          BY <1>4, <3>1, <3>2, <4>2, <5>2 DEF SendsLess
        <5>4. \A c \in out'[<<"run", q>>][1].to : ~OnWay(c, m)'
          BY <1>6, <3>1, <5>3
        <5>5. Invoked(q)' = m
          BY <1>1 DEF Invoked
        <5>6. \A c \in out'[<<"run", q>>][1].to : ~OnWay(c, Invoked(q))'
          BY <5>4, <5>5 DEF OnWay
        <5>7. RunSends(q)'
          BY <1>1, <3>1, <5>1, <5>3, <5>5, <5>6 DEF RunSends
        <5> QED BY <2>1, <5>7
      <4> QED BY <4>1, <4>2
    <3>3. CASE s # <<"run", q>>
      <4>1. m # e
        BY <1>7, <3>1, <3>3 DEF FreshFor
      <4>2. \A c \in out[<<"run", q>>][1].to : OnWay(c, m)' => OnWay(c, m)
        BY <1>6, <3>1, <4>1
      <4>3. out'[<<"run", q>>] = out[<<"run", q>>]
        BY <1>1, <2>0, <3>3
      <4>4. RunSends(q)'
        BY <1>1, <2>0, <4>2, <4>3, RunStays
      <4> QED BY <2>1, <4>4
    <3> QED BY <3>2, <3>3
  <2> QED BY <2>2, <2>3, <2>4
<1>10. ASSUME NEW m \in Invocation PROVE SentOnce(m)' /\ KeptOnce(m)'
  <2>1. PICK k \in [Daemon -> Nat] : \A h \in Daemon : k[h] = IF s = <<"handler", h>> THEN b ELSE 0
    <3>1. [h \in Daemon |-> IF s = <<"handler", h>> THEN b ELSE 0] \in [Daemon -> Nat]
      OBVIOUS
    <3> QED BY <3>1
  <2>2. SentOnce(m) /\ KeptOnce(m)
    BY DEF OnceInv
  <2>3. \A h \in Daemon : \A i \in DOMAIN out'[<<"handler", h>>] :
              out'[<<"handler", h>>][i].msg = m =>
                  /\ i \in Nat /\ i + k[h] \in DOMAIN out[<<"handler", h>>]
                  /\ out[<<"handler", h>>][i + k[h]].msg = m
                  /\ \A c \in out'[<<"handler", h>>][i].to :
                        c \in out[<<"handler", h>>][i + k[h]].to /\ (OnWay(c, m)' => OnWay(c, m))
    <3> SUFFICES ASSUME NEW h \in Daemon, NEW i \in DOMAIN out'[<<"handler", h>>],
                        out'[<<"handler", h>>][i].msg = m
                 PROVE  /\ i \in Nat /\ i + k[h] \in DOMAIN out[<<"handler", h>>]
                        /\ out[<<"handler", h>>][i + k[h]].msg = m
                        /\ \A c \in out'[<<"handler", h>>][i].to :
                              c \in out[<<"handler", h>>][i + k[h]].to /\ (OnWay(c, m)' => OnWay(c, m))
      OBVIOUS
    <3>0. <<"handler", h>> \in Sender /\ out[<<"handler", h>>] \in Seq(Sending)
      BY <1>0 DEF OutTypes, Sender
    <3>1. /\ i \in Nat /\ i + k[h] \in DOMAIN out[<<"handler", h>>]
          /\ out[<<"handler", h>>][i + k[h]].msg = m
          /\ out'[<<"handler", h>>][i].to \subseteq out[<<"handler", h>>][i + k[h]].to
          /\ s = <<"handler", h>> /\ i + k[h] = 1 => d \notin out'[<<"handler", h>>][i].to
      <4>1. CASE s = <<"handler", h>>
        BY <1>4, <2>1, <4>1 DEF SendsLess
      <4>2. CASE s # <<"handler", h>>
        <5>1. out'[<<"handler", h>>] = out[<<"handler", h>>]
          BY <1>1, <3>0, <4>2
        <5>2. i \in Nat /\ k[h] = 0
          BY <2>1, <3>0, <4>2, <5>1, InSeq
        <5> QED BY <4>2, <5>1, <5>2
      <4> QED BY <4>1, <4>2
    <3>2. out[<<"handler", h>>][i + k[h]].to \subseteq Daemon /\ m \in stored
      <4>1. PICK j \in DOMAIN out[<<"handler", h>>] : j = i + k[h]
        BY <3>1
      <4>2. out[<<"handler", h>>][j] \in Sending
        BY <3>0, <4>1, InSeq
      <4>3. m \in stored
        BY <2>2, <3>1, <4>1 DEF SentOnce
      <4> QED BY <4>1, <4>2, <4>3 DEF Sending
    <3>3. ASSUME NEW c \in out'[<<"handler", h>>][i].to, OnWay(c, m)' PROVE OnWay(c, m)
      <4>1. CASE ~(c = d /\ m = e)
        BY <1>6, <3>1, <3>2, <3>3, <4>1
      <4>2. CASE c = d /\ m = e
        <5>1. PICK g \in Daemon : s = <<"handler", g>>
          BY <1>7, <3>2, <4>2 DEF FreshFor
        <5>2. g = h /\ 1 = i + k[h]
          BY <1>3, <2>2, <3>1, <4>2, <5>1 DEF SentOnce
        <5> QED BY <3>1, <3>3, <4>2, <5>1, <5>2
      <4> QED BY <4>1, <4>2
    <3> QED BY <3>1, <3>3
  <2>4. \A i \in DOMAIN buffer' : buffer'[i] = m =>
               /\ i \in DOMAIN buffer /\ buffer[i] = m
               /\ \A c \in Daemon : OnWay(c, m)' => OnWay(c, m)
    <3> SUFFICES ASSUME NEW i \in DOMAIN buffer', buffer'[i] = m
                 PROVE  /\ i \in DOMAIN buffer /\ buffer[i] = m
                        /\ \A c \in Daemon : OnWay(c, m)' => OnWay(c, m)
      OBVIOUS
    <3>1. i \in DOMAIN buffer /\ buffer[i] = m
      BY <1>1
    <3>2. m # e
      BY <1>3, <1>7, <2>2, <3>1 DEF KeptOnce, FreshFor
    <3> QED BY <1>6, <3>1, <3>2
  <2>5. m \in stored => m \in stored'
    BY <1>1
  <2> QED BY <1>0, <2>2, <2>3, <2>4, <2>5, OnceStays
<1> QED BY <1>5, <1>8, <1>9, <1>10 DEF OnceInv

-----------------------------------------------------------------------------

LEMMA OnceInit == Init => OnceInv
<1> SUFFICES ASSUME Init PROVE OnceInv
  OBVIOUS
<1>1. \A d \in Daemon : executed[d] = <<>> /\ daemon[d].tools = <<>> /\ down[d] = <<>>
  BY DEF Init, Off
<1>2. stored = {} /\ buffer = <<>> /\ \A s \in Sender : out[s] = <<>>
  BY DEF Init
<1>3. \A d \in Daemon : \A m : ~OnWay(d, m)
  BY <1>1 DEF OnWay, Holds
<1>4. WayInOrder
  BY <1>1 DEF WayInOrder, InOrder, Sorted, AllAhead
<1>5. AllMade
  BY <1>2, <1>3 DEF AllMade
<1>6. \A r \in Run : RunSends(r) /\ NotifySends(r)
  BY <1>2 DEF RunSends, NotifySends, Sender
<1>7. \A m \in Invocation : SentOnce(m) /\ KeptOnce(m)
  BY <1>2 DEF SentOnce, KeptOnce, Sender
<1> QED BY <1>4, <1>5, <1>6, <1>7 DEF OnceInv

LEMMA OnceStep == TypeInv /\ OnceInv /\ [Next]_vars => OnceInv'
<1> SUFFICES ASSUME TypeInv, OnceInv, [Next]_vars PROVE OnceInv'
  OBVIOUS
<1>1. CASE UNCHANGED vars
  BY <1>1, QuietStep DEF vars, hub, remote, net, history, OnceInv, Made, RunSends, NotifySends, OnWay,
     Invoked
<1>2. ASSUME NEW r \in Run, Start(r) \/ Notify(r) \/ TaskStep(r) \/ Cancel(r) PROVE OnceInv'
  BY <1>2, TaskStepOnce, OtherMessages, InvokeOnce DEF TaskStep
<1>3. ASSUME NEW s \in Sender, NEW d \in Daemon, Deliver(s, d) \/ Lose(s, d) PROVE OnceInv'
  BY <1>3, SendOnce
<1>4. ASSUME NEW d \in Daemon, Connect(d) \/ HandlerStep(d) \/ DaemonStep(d) \/ Cut(d) \/ Exit(d)
      PROVE  OnceInv'
  BY <1>4, FlushOnce, HandlerOnce, DaemonOnce DEF HandlerStep
<1> QED BY <1>1, <1>2, <1>3, <1>4 DEF Next, SendStep

LEMMA OnceAlways == Spec => [](TypeInv /\ OnceInv)
<1> QED BY TypeInit, TypeStep, OnceInit, OnceStep, PTL DEF Spec

\* No daemon executes an invocation twice: each is on the way to it once, as
\* its broadcast and its copy in the buffer never both exist.
THEOREM NoRepeats == Spec => []NoRepeat
<1>1. TypeInv /\ OnceInv => NoRepeat
  <2> SUFFICES ASSUME TypeInv, OnceInv, NEW d \in Daemon, NEW i \in DOMAIN executed[d],
                      NEW j \in DOMAIN executed[d], executed[d][i] = executed[d][j]
               PROVE  i = j
    BY DEF NoRepeat
  <2>1. Sorted(stored, executed[d])
    BY DEF OnceInv, WayInOrder, InOrder
  <2>2. executed[d] \in Seq(Invocation)
    BY TypeParts DEF TypeInv, HistoryTypes
  <2>3. i \in Nat /\ j \in Nat /\ executed[d][i] \in Invocation
    BY <2>2, InSeq
  <2>4. ~Ahead(stored, executed[d][i], executed[d][j]) /\ ~Ahead(stored, executed[d][j], executed[d][i])
    BY <2>3 DEF Ahead, IsInvocation, Invocation
  <2>5. ~(i < j) /\ ~(j < i)
    BY <2>1, <2>4 DEF Sorted
  <2> QED BY <2>3, <2>5
<1> QED BY <1>1, OnceAlways, PTL

\* A daemon executes the invocations of a run in their order, but for those
\* that had to wait for a socket, however many calls time out and whatever
\* connections break.
THEOREM RunsInOrder == Spec => []InOrderUnlessStored
<1>1. TypeInv /\ OnceInv => InOrderUnlessStored
  <2> SUFFICES ASSUME TypeInv, OnceInv, NEW d \in Daemon, NEW i \in DOMAIN executed[d],
                      NEW j \in DOMAIN executed[d], i < j, Older(executed[d][j], executed[d][i]),
                      executed[d][j] \notin stored
               PROVE  FALSE
    BY DEF InOrderUnlessStored
  <2>1. Ahead(stored, executed[d][i], executed[d][j])
    BY DEF OnceInv, WayInOrder, InOrder, Sorted
  <2>2. executed[d][i] \in Invocation /\ executed[d][j] \in Invocation
    BY TypeParts, InSeq DEF TypeInv, HistoryTypes
  <2>3. Older(executed[d][i], executed[d][j])
    BY <2>1, <2>2 DEF Ahead, IsInvocation, Invocation, Older
  <2> QED BY <2>2, <2>3, ConnectorAssumption DEF Older, Invocation, ConnectorAssumption
<1> QED BY <1>1, OnceAlways, PTL
=============================================================================
