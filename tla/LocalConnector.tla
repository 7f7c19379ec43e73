--------------------------- MODULE LocalConnector ----------------------------
(***************************************************************************)
(* Runs of one user that work on the user's own machine: the agent loop is *)
(* on the server, its tools are run by a daemon that has called home.      *)
(*                                                                         *)
(*   execution_gateway.py, mode_executors.py, tool_executor.py   the task  *)
(*       of a run: it waits for a lease_ack, invokes tools, each of them   *)
(*       again when it times out, and releases the daemon                  *)
(*   local_execution_connector_hub.py   pending runs, sockets, messages    *)
(*       that are kept until a socket connects, and what is waited for     *)
(*   local_execution_connector_api.py   the handler of one web socket      *)
(*   connector_daemon/runner.py   the daemon, with a task that sorts what  *)
(*       it receives and one that serves a lease after the other           *)
(*                                                                         *)
(* The server is one event loop: other tasks run where one of them awaits. *)
(* A broadcast takes the sockets there are and then awaits one send after  *)
(* the other. A daemon process has one connection in its life, so that a   *)
(* restarted or reconnected daemon is another element of Daemon. Timeouts  *)
(* may come at any moment. Pairing, probes and heartbeats are left out.    *)
(***************************************************************************)
EXTENDS Naturals, Sequences

CONSTANTS Run,       \* runs with the workspace kind local_connector
          Daemon,    \* daemon processes
          NoRun,
          MaxCalls,  \* tool calls of a run
          MaxTries,  \* max_retries of a tool, and the first attempt
          MaxFaults, \* bound: broken connections, dead daemons, cancellations
          MaxWire    \* bound: messages on the wire, in each direction

ASSUME ConnectorAssumption ==
    /\ NoRun \notin Run
    /\ MaxCalls \in Nat
    /\ MaxTries \in Nat \ {0}
    /\ MaxFaults \in Nat
    /\ MaxWire \in Nat \ {0}

VARIABLES
    \* the server
    status,      \* run -> status of its row
    task,        \* run -> its task: where it is, the tool call, the attempt
    pending,     \* runs that are offered to the next daemon
    buffer,      \* messages kept for the next socket
    acked,       \* runs with a lease_ack
    registered,  \* daemons with a registered socket
    handler,     \* daemon -> the handler of its socket
    soon,        \* runs whose notification has not begun
    out,         \* task -> its sends to come, each to the sockets it has seen
    \* connections and daemons
    wire, down, up, daemon,
    faults,      \* how often something has failed or was cancelled
    \* history: what each daemon has executed, and what was ever buffered
    executed, stored

hub == <<status, task, pending, buffer, acked, registered, handler, soon, out>>
net == <<wire, down, up>>
history == <<executed, stored>>
remote == <<net, daemon, faults, history>>
vars == <<hub, remote>>

Invocation == [type : {"tool.invoke"}, run : Run, call : 1..MaxCalls, try : 1..MaxTries]
Message ==
    [type : {"run_lease", "run.connector_release", "run.cancel_requested"}, run : Run]
    \cup Invocation
Reply == [type : {"run.lease_ack"}, run : Run] \cup [type : {"tool.result"}, of : Invocation]

\* Tasks of the server that send: for a run its notification and the run
\* itself, and for a daemon the handler of its socket.
Sender == ({"notify", "run"} \X Run) \cup ({"handler"} \X Daemon)

Lease(r) == [type |-> "run_lease", run |-> r]
Invoked(r) == [type |-> "tool.invoke", run |-> r, call |-> task[r].call, try |-> task[r].try]

NewTask == [pc |-> "new", call |-> 1, try |-> 0, got |-> FALSE]

Off == [proc |-> "new", incoming |-> <<>>, tools |-> <<>>, lease |-> NoRun, cancel |-> FALSE]
Gone == [Off EXCEPT !.proc = "gone"]

Init ==
    /\ status = [r \in Run |-> "pending"]
    /\ task = [r \in Run |-> NewTask]
    /\ pending = <<>>
    /\ buffer = <<>>
    /\ acked = {}
    /\ registered = {}
    /\ handler = [d \in Daemon |-> "off"]
    /\ soon = {}
    /\ out = [s \in Sender |-> <<>>]
    /\ wire = [d \in Daemon |-> "cut"]
    /\ down = [d \in Daemon |-> <<>>]
    /\ up = [d \in Daemon |-> <<>>]
    /\ daemon = [d \in Daemon |-> Off]
    /\ faults = 0
    /\ executed = [d \in Daemon |-> <<>>]
    /\ stored = {}

Fault ==
    /\ faults < MaxFaults
    /\ faults' = faults + 1

-----------------------------------------------------------------------------
(* Sending.                                                                *)

\* s will send m to every daemon of `to`.
Plan(s, to, m) ==
    out' = IF to = {} THEN out ELSE [out EXCEPT ![s] = Append(@, [to |-> to, msg |-> m])]

\* Faulty variant: the message is kept for later sockets in any case.
BroadcastAndBuffer(s, m) ==
    /\ Plan(s, registered, m)
    /\ buffer' = Append(buffer, m)

\* broadcast_or_buffer
BroadcastOrBuffer(s, m) ==
    /\ Plan(s, registered, m)
    /\ buffer' = IF registered = {} THEN Append(buffer, m) ELSE buffer

\* The head of what s has to send, without its send to d.
SentTo(s, d) ==
    LET head == Head(out[s])
    IN  out' = [out EXCEPT ![s] =
            IF head.to = {d} THEN Tail(@)
            ELSE <<[head EXCEPT !.to = @ \ {d}]>> \o Tail(@)]

IsNext(s, d) == out[s] # <<>> /\ d \in Head(out[s]).to

Deliver(s, d) ==
    /\ IsNext(s, d)
    /\ wire[d] = "open"
    /\ Len(down[d]) < MaxWire
    /\ SentTo(s, d)
    /\ down' = [down EXCEPT ![d] = Append(@, Head(out[s]).msg)]
    /\ UNCHANGED <<status, task, pending, buffer, acked, registered, handler, soon,
                   wire, up, daemon, faults, history>>

\* Faulty variant: a message whose send raises is kept for the next socket.
LoseBuffers(s, d) ==
    /\ IsNext(s, d)
    /\ wire[d] = "cut"
    /\ SentTo(s, d)
    /\ \/ UNCHANGED <<registered, buffer>>
       \/ /\ handler[d] # "replay"
          /\ registered' = registered \ {d}
          /\ buffer' = Append(buffer, Head(out[s]).msg)
    /\ UNCHANGED <<status, task, pending, acked, handler, soon, remote>>

\* A send on a broken connection is lost, or it raises and the socket is no
\* longer used. While it replays leases, the handler does not catch that: it
\* ends (HandlerEnds).
Lose(s, d) ==
    /\ IsNext(s, d)
    /\ wire[d] = "cut"
    /\ SentTo(s, d)
    /\ \/ UNCHANGED registered
       \/ handler[d] # "replay" /\ registered' = registered \ {d}
    /\ UNCHANGED <<status, task, pending, buffer, acked, handler, soon, remote>>

-----------------------------------------------------------------------------
(* The task of a run.                                                      *)

SetTask(r, state) == task' = [task EXCEPT ![r] = state]

Goto(r, pc) == SetTask(r, [task[r] EXCEPT !.pc = pc])

\* execute: the run is enqueued, and the daemons are told by another task.
Start(r) ==
    /\ task[r].pc = "new"
    /\ Goto(r, "lease")
    /\ pending' = Append(pending, r)
    /\ soon' = soon \cup {r}
    /\ UNCHANGED <<status, buffer, acked, registered, handler, out, remote>>

\* notify_pending_run_async begins.
Notify(r) ==
    /\ r \in soon
    /\ soon' = soon \ {r}
    /\ Plan(<<"notify", r>>, registered, Lease(r))
    /\ UNCHANGED <<status, task, pending, buffer, acked, registered, handler, remote>>

\* wait_for_lease_ack
LeaseAcked(r) ==
    /\ task[r].pc = "lease"
    /\ r \in acked
    /\ Goto(r, "loop")
    /\ UNCHANGED <<status, pending, buffer, acked, registered, handler, soon, out, remote>>

\* _on_success and _on_failure set the status.
End(r) ==
    /\ SetTask(r, [NewTask EXCEPT !.pc = "release"])
    /\ status' = [status EXCEPT ![r] = "ended"]
    /\ UNCHANGED <<pending, buffer, acked, registered, handler, soon, out, remote>>

LeaseTimeout(r) ==
    /\ task[r].pc = "lease"
    /\ r \notin acked
    /\ End(r)

\* The loop has what it wants, or fails.
Finish(r) ==
    /\ task[r].pc = "loop"
    /\ task[r].try = 0
    /\ End(r)

\* invoke_tool: the next attempt of the tool call is broadcast.
Invoke(r) ==
    /\ task[r].pc = "loop"
    /\ task[r].call <= MaxCalls
    /\ SetTask(r, [task[r] EXCEPT !.pc = "wait", !.try = @ + 1, !.got = FALSE])
    /\ BroadcastOrBuffer(<<"run", r>>, Invoked(r)')
    /\ stored' = IF registered = {} THEN stored \cup {Invoked(r)'} ELSE stored
    /\ UNCHANGED <<status, pending, acked, registered, handler, soon, net, daemon, faults, executed>>

NextCall(r) == SetTask(r, [pc |-> "loop", call |-> task[r].call + 1, try |-> 0, got |-> FALSE])

\* execute of ToolExecutor tries again, or the failure is the result of the call.
TryAgain(r) == IF task[r].try < MaxTries THEN Goto(r, "loop") ELSE NextCall(r)

\* The attempt is cancelled, together with sends that are under way.
Timeout(r) ==
    /\ task[r].pc = "wait"
    /\ TryAgain(r)
    /\ out' = [out EXCEPT ![<<"run", r>>] = <<>>]
    /\ UNCHANGED <<status, pending, buffer, acked, registered, handler, soon, remote>>

\* The result of the attempt; a result that says timeout is tried again too.
Return(r) ==
    /\ task[r].pc = "wait"
    /\ task[r].got
    /\ out[<<"run", r>>] = <<>>
    /\ NextCall(r) \/ TryAgain(r)
    /\ UNCHANGED <<status, pending, buffer, acked, registered, handler, soon, out, remote>>

Release(r) ==
    /\ task[r].pc = "release"
    /\ Goto(r, "over")
    /\ BroadcastOrBuffer(<<"run", r>>, [type |-> "run.connector_release", run |-> r])
    /\ UNCHANGED <<status, pending, acked, registered, handler, soon, remote>>

\* A user cancels the run; the loop goes on. Cancellations are handled in
\* threads of their own, where no event loop is running: the message is
\* buffered even if there are sockets.
Cancel(r) ==
    /\ task[r].pc # "new"
    /\ status[r] \in {"pending", "running"}
    /\ Fault
    /\ status' = [status EXCEPT ![r] = "cancelled"]
    /\ buffer' = Append(buffer, [type |-> "run.cancel_requested", run |-> r])
    /\ UNCHANGED <<task, pending, acked, registered, handler, soon, out, net, daemon, history>>

-----------------------------------------------------------------------------
(* The handler of a socket.                                                *)

\* A daemon connects: it is registered, and the pending runs are its leases.
Connect(d) ==
    /\ daemon[d].proc = "new"
    /\ daemon' = [daemon EXCEPT ![d].proc = "up"]
    /\ wire' = [wire EXCEPT ![d] = "open"]
    /\ registered' = registered \cup {d}
    /\ handler' = [handler EXCEPT ![d] = "replay"]
    /\ pending' = <<>>
    /\ out' = [out EXCEPT ![<<"handler", d>>] =
           [i \in DOMAIN pending |-> [to |-> {d}, msg |-> Lease(pending[i])]]]
    /\ UNCHANGED <<status, task, buffer, acked, soon, down, up, faults, history>>

\* flush_outbound_buffer, to all sockets there are.
Flush(d) ==
    /\ handler[d] = "replay"
    /\ out[<<"handler", d>>] = <<>>
    /\ handler' = [handler EXCEPT ![d] = "serve"]
    /\ buffer' = <<>>
    /\ out' = [out EXCEPT ![<<"handler", d>>] =
           IF registered = {} THEN <<>>
           ELSE [i \in DOMAIN buffer |-> [to |-> registered, msg |-> buffer[i]]]]
    /\ UNCHANGED <<status, task, pending, acked, registered, soon, remote>>

\* Faulty variant: results are matched by their run and call.
ResolveAnyAttempt(of) ==
    IF task[of.run].pc = "wait" /\ of.call = task[of.run].call
    THEN task' = [task EXCEPT ![of.run].got = TRUE]
    ELSE UNCHANGED task

\* resolve_tool_result: a result of another attempt is of no use.
ResolveToolResult(of) ==
    IF task[of.run].pc = "wait" /\ of = Invoked(of.run)
    THEN task' = [task EXCEPT ![of.run].got = TRUE]
    ELSE UNCHANGED task

\* One message of the daemon. A lease_ack sets RUNNING, whatever the status.
Receive(d) ==
    /\ handler[d] = "serve"
    /\ out[<<"handler", d>>] = <<>>
    /\ up[d] # <<>>
    /\ up' = [up EXCEPT ![d] = Tail(@)]
    /\ LET m == Head(up[d])
       IN  \/ /\ m.type = "run.lease_ack"
              /\ acked' = acked \cup {m.run}
              /\ status' = [status EXCEPT ![m.run] = "running"]
              /\ UNCHANGED task
           \/ /\ m.type = "tool.result"
              /\ ResolveToolResult(m.of)
              /\ UNCHANGED <<acked, status>>
    /\ UNCHANGED <<pending, buffer, registered, handler, soon, out, wire, down, daemon, faults, history>>

\* The handler notices that its connection is broken.
HandlerEnds(d) ==
    /\ wire[d] = "cut"
    /\ handler[d] = "replay" \/ (handler[d] = "serve" /\ out[<<"handler", d>>] = <<>>)
    /\ handler' = [handler EXCEPT ![d] = "off"]
    /\ registered' = registered \ {d}
    /\ out' = [out EXCEPT ![<<"handler", d>>] = <<>>]
    /\ up' = [up EXCEPT ![d] = <<>>]
    /\ UNCHANGED <<status, task, pending, buffer, acked, soon, wire, down, daemon, faults, history>>

-----------------------------------------------------------------------------
(* The daemon.                                                             *)

Become(d, state) == daemon' = [daemon EXCEPT ![d] = state]

\* Faulty variant: tools are kept for whatever lease comes.
PumpAnyRun(d) ==
    LET m == Head(down[d])
        me == daemon[d]
    IN  /\ me.proc = "up"
        /\ down[d] # <<>>
        /\ down' = [down EXCEPT ![d] = Tail(@)]
        /\ Become(d,
             CASE m.type = "run.cancel_requested" -> [me EXCEPT !.cancel = TRUE]
               [] m.type = "run_lease"            -> [me EXCEPT !.incoming = Append(@, m.run)]
               [] OTHER -> [me EXCEPT !.tools = Append(@, m)])
        /\ UNCHANGED <<hub, wire, up, faults, history>>

\* pump_in: tools and releases go to the lease that is served, if it is of
\* their run. What the main loop would only throw away is dropped here.
Pump(d) ==
    LET m == Head(down[d])
        me == daemon[d]
    IN  /\ me.proc = "up"
        /\ down[d] # <<>>
        /\ down' = [down EXCEPT ![d] = Tail(@)]
        /\ Become(d,
             CASE m.type = "run.cancel_requested" -> [me EXCEPT !.cancel = TRUE]
               [] m.type = "run_lease"            -> [me EXCEPT !.incoming = Append(@, m.run)]
               [] OTHER -> IF m.run = me.lease THEN [me EXCEPT !.tools = Append(@, m)] ELSE me)
        /\ UNCHANGED <<hub, wire, up, faults, history>>

\* The daemon sends m and goes on as `next`; a broken connection makes it exit,
\* or is not noticed yet.
ReplyAndBecome(d, m, next) ==
    \/ /\ wire[d] = "open"
       /\ Len(up[d]) < MaxWire
       /\ up' = [up EXCEPT ![d] = Append(@, m)]
       /\ Become(d, next)
       /\ UNCHANGED down
    \/ /\ wire[d] = "cut"
       /\ UNCHANGED up
       /\ \/ Become(d, next) /\ UNCHANGED down
          \/ Become(d, Gone) /\ down' = [down EXCEPT ![d] = <<>>]

\* handle_run_lease begins.
TakeLease(d) ==
    LET me == daemon[d]
    IN  /\ me.proc = "up"
        /\ me.lease = NoRun
        /\ me.incoming # <<>>
        /\ ReplyAndBecome(d, [type |-> "run.lease_ack", run |-> Head(me.incoming)],
               [me EXCEPT !.incoming = Tail(@), !.lease = Head(me.incoming)])
        /\ UNCHANGED <<hub, wire, faults, history>>

\* The lease loop is left, and the cancel event is cleared.
Left(me) == [me EXCEPT !.tools = <<>>, !.lease = NoRun, !.cancel = FALSE]

\* The cancel event is one for all runs.
LeaveCancelled(d) ==
    /\ daemon[d].lease # NoRun
    /\ daemon[d].cancel
    /\ Become(d, Left(daemon[d]))
    /\ UNCHANGED <<hub, net, faults, history>>

LeaveReleased(d) ==
    LET me == daemon[d]
    IN  /\ me.tools # <<>>
        /\ Head(me.tools).type = "run.connector_release"
        /\ Become(d, Left(me))
        /\ UNCHANGED <<hub, net, faults, history>>

Execute(d) ==
    LET me == daemon[d]
        m == Head(me.tools)
    IN  /\ me.tools # <<>>
        /\ m.type = "tool.invoke"
        /\ executed' = [executed EXCEPT ![d] = Append(@, m)]
        /\ ReplyAndBecome(d, [type |-> "tool.result", of |-> m], [me EXCEPT !.tools = Tail(@)])
        /\ UNCHANGED <<hub, wire, faults, stored>>

\* The connection breaks; the daemon does not notice before it sends.
Cut(d) ==
    /\ wire[d] = "open"
    /\ Fault
    /\ wire' = [wire EXCEPT ![d] = "cut"]
    /\ UNCHANGED <<hub, down, up, daemon, history>>

Exit(d) ==
    /\ daemon[d].proc = "up"
    /\ Fault
    /\ Become(d, Gone)
    /\ wire' = [wire EXCEPT ![d] = "cut"]
    /\ down' = [down EXCEPT ![d] = <<>>]
    /\ UNCHANGED <<hub, up, history>>

-----------------------------------------------------------------------------
\* What the task of a run does by itself.
TaskStep(r) ==
    \/ LeaseAcked(r) \/ LeaseTimeout(r)
    \/ Finish(r) \/ Invoke(r) \/ Timeout(r) \/ Return(r) \/ Release(r)

SendStep == \E s \in Sender, d \in Daemon : Deliver(s, d) \/ Lose(s, d)

HandlerStep(d) == Flush(d) \/ Receive(d) \/ HandlerEnds(d)

DaemonStep(d) ==
    \/ Pump(d) \/ TakeLease(d) \/ LeaveCancelled(d) \/ LeaveReleased(d) \/ Execute(d)

Next ==
    \/ \E r \in Run : Start(r) \/ Notify(r) \/ TaskStep(r) \/ Cancel(r)
    \/ SendStep
    \/ \E d \in Daemon :
          Connect(d) \/ HandlerStep(d) \/ DaemonStep(d) \/ Cut(d) \/ Exit(d)

Spec == Init /\ [][Next]_vars

-----------------------------------------------------------------------------
(* Properties.                                                             *)

Sending == [to : (SUBSET Daemon) \ {{}}, msg : Message]

\* Every variable has its type, and a tool queue holds what is for its lease.
TypeOK ==
    /\ status \in [Run -> {"pending", "running", "ended", "cancelled"}]
    /\ task \in [Run -> [pc : {"new", "lease", "loop", "wait", "release", "over"},
                         call : 1..(MaxCalls + 1), try : 0..MaxTries, got : BOOLEAN]]
    /\ pending \in Seq(Run)
    /\ buffer \in Seq(Message)
    /\ acked \subseteq Run
    /\ registered \subseteq Daemon
    /\ handler \in [Daemon -> {"off", "replay", "serve"}]
    /\ soon \subseteq Run
    /\ out \in [Sender -> Seq(Sending)]
    /\ wire \in [Daemon -> {"open", "cut"}]
    /\ down \in [Daemon -> Seq(Message)]
    /\ up \in [Daemon -> Seq(Reply)]
    /\ daemon \in [Daemon -> [proc : {"new", "up", "gone"}, incoming : Seq(Run),
                              tools : Seq(Message), lease : Run \cup {NoRun},
                              cancel : BOOLEAN]]
    /\ \A d \in Daemon : \A i \in DOMAIN daemon[d].tools :
          daemon[d].tools[i].run = daemon[d].lease
    /\ faults \in 0..MaxFaults
    /\ executed \in [Daemon -> Seq(Invocation)]
    /\ stored \subseteq Invocation

\* No daemon executes an invocation twice, although it is broadcast, buffered
\* and flushed to all sockets, by tasks that overtake each other.
NoRepeat ==
    \A d \in Daemon : \A i, j \in DOMAIN executed[d] :
        executed[d][i] = executed[d][j] => i = j

\* A daemon executes the invocations of a run in the order of its calls and
\* attempts, however many of them have timed out; only one that had to wait
\* for a daemon to connect may be overtaken, and then comes late.
Older(m, n) == m.run = n.run /\ (m.call < n.call \/ (m.call = n.call /\ m.try < n.try))
InOrderUnlessStored ==
    \A d \in Daemon : \A i, j \in DOMAIN executed[d] :
        i < j /\ Older(executed[d][j], executed[d][i]) => executed[d][j] \in stored

\* The result that a task goes on with is that of the attempt it waits for: a
\* late result of an attempt that has timed out is never taken for it.
ResultIsOfAttempt ==
    \A r \in Run : task[r].pc = "wait" /\ task[r].got =>
        \E d \in Daemon : \E i \in DOMAIN executed[d] : executed[d][i] = Invoked(r)
=============================================================================
