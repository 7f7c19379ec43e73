-------------------------- MODULE ConversationHub ---------------------------
(***************************************************************************)
(* The realtime events of one conversation, in several API processes.      *)
(*                                                                         *)
(*   conversation_event_hub.py       the hub of a process: subscribers,    *)
(*       broadcasts, the replay for a new subscriber, the listener on the  *)
(*       channel of the conversation                                       *)
(*   conversation_realtime_redis.py  the stream and the channel in Redis   *)
(*   conversation_events_api.py      web sockets, SSE streams that         *)
(*       subscribe as a queue, and how they leave                          *)
(*                                                                         *)
(* A hub is one event loop, and a step of it ends at an await; its lock is *)
(* never held across one. Subscribing sends SUBSCRIBE and does not wait    *)
(* for Redis, which answers the XRANGE of the replay on another            *)
(* connection. A listener is named by the subscriber that opened it.       *)
(* Streams of one reply are alike, with a stream of their own. The cap on  *)
(* subscriptions, the trimming of streams and of remembered ids, and typing*)
(* indicators are left out. How fast a queue is read is not followed: it   *)
(* may be full at any time.                                                *)
(***************************************************************************)
EXTENDS Naturals, Sequences

CONSTANTS Hub,         \* API processes
          Sub,         \* subscribers; one that reconnects is another element
          WebSocket,   \* those with a web socket, the others are queues
          Event,
          Home,        \* the hub of each subscriber
          Origin,      \* the hub each event is published in
          NoSub, NoEvent,
          ReplayLimit, \* limit of replay: 250
          MaxFaults    \* bound: failing Redis commands and listeners

ASSUME HubAssumption ==
    /\ WebSocket \subseteq Sub
    /\ Home \in [Sub -> Hub]
    /\ Origin \in [Event -> Hub]
    /\ Sub \cap Event = {}
    /\ NoSub \notin Sub
    /\ NoEvent \notin Event
    /\ ReplayLimit \in Nat
    /\ MaxFaults \in Nat

VARIABLES
    \* hubs
    pc,        \* subscriber -> where its connect, and then its handler, is
    members,   \* the subscribers their hubs know
    rest,      \* subscriber -> what it has fetched for its replay
    recorded,  \* hub -> _remote_subscriptions: the listener to close
    seen,      \* hub -> _seen_event_ids
    task,      \* event -> where its publisher is
    cast,      \* publisher or listener -> the broadcast it is in
    \* Redis and web sockets
    stream,    \* the stream of the conversation
    channel,   \* listener -> its connection to the channel
    inbox,     \* listener -> published events it has not read
    broken,    \* web sockets whose peer is gone
    faults,    \* Redis commands and listeners that have failed
    \* history
    live,      \* subscriber -> how often an event has reached it live
    had,       \* subscriber -> the events of its replay or lost by its full queue
    covered,   \* subscribers that fetched their replay while the hub listened
    deaf       \* hubs that failed to subscribe, or whose listener has failed

hubs == <<pc, members, rest, recorded, seen, task, cast>>
redis == <<stream, channel, inbox>>
history == <<live, had, covered, deaf>>
vars == <<hubs, redis, broken, faults, history>>

\* A broadcast: its event, and the subscribers it still has to reach.
Caster == Event \cup Sub
Idle == [event |-> NoEvent, to |-> {}]

Init ==
    /\ pc = [s \in Sub |-> "new"]
    /\ members = {}
    /\ rest = [s \in Sub |-> {}]
    /\ recorded = [h \in Hub |-> NoSub]
    /\ seen = [h \in Hub |-> {}]
    /\ task = [e \in Event |-> "new"]
    /\ cast = [t \in Caster |-> Idle]
    /\ stream = <<>>
    /\ channel = [l \in Sub |-> "none"]
    /\ inbox = [l \in Sub |-> <<>>]
    /\ broken = {}
    /\ faults = 0
    /\ live = [s \in Sub |-> [e \in Event |-> 0]]
    /\ had = [s \in Sub |-> {}]
    /\ covered = {}
    /\ deaf = {}

Fault ==
    /\ faults < MaxFaults
    /\ faults' = faults + 1

At(h) == {s \in members : Home[s] = h}

-----------------------------------------------------------------------------
(* Leaving.                                                                *)

\* Faulty variant: the listener goes with anybody who leaves.
ClosesForAnyone(s) == s \in members /\ recorded[Home[s]] # NoSub

\* _maybe_teardown_remote_subscription: nobody else is left.
Closes(s) == At(Home[s]) = {s} /\ recorded[Home[s]] # NoSub

\* Faulty variant: the listener's task is not cancelled.
DisconnectKeepsTask(s, now) ==
    LET l == recorded[Home[s]]
    IN  /\ members' = members \ {s}
        /\ cast' = now
        /\ UNCHANGED inbox
        /\ IF Closes(s)
           THEN /\ recorded' = [recorded EXCEPT ![Home[s]] = NoSub]
                /\ channel' = [channel EXCEPT ![l] = "closed"]
           ELSE UNCHANGED <<recorded, channel>>

\* disconnect and unsubscribe_queue, by a task that leaves `now` in cast. A
\* listener that is closed is cancelled in the broadcast it may be in.
Disconnect(s, now) ==
    LET l == recorded[Home[s]]
    IN  /\ members' = members \ {s}
        /\ IF Closes(s)
           THEN /\ recorded' = [recorded EXCEPT ![Home[s]] = NoSub]
                /\ channel' = [channel EXCEPT ![l] = "closed"]
                /\ inbox' = [inbox EXCEPT ![l] = <<>>]
                /\ cast' = [now EXCEPT ![l] = Idle]
           ELSE cast' = now /\ UNCHANGED <<recorded, channel, inbox>>

\* The handler of a web socket or the generator of an SSE stream ends. What the
\* subscriber had is no longer of interest.
Nothing == [e \in Event |-> 0]

Leave(s) ==
    /\ pc[s] = "on"
    /\ pc' = [pc EXCEPT ![s] = "left"]
    /\ Disconnect(s, cast)
    /\ broken' = broken \cup ({s} \cap WebSocket)
    /\ live' = [live EXCEPT ![s] = Nothing]
    /\ had' = [had EXCEPT ![s] = {}]
    /\ covered' = covered \ {s}
    /\ UNCHANGED <<rest, seen, task, stream, faults, deaf>>

Break(s) ==
    /\ s \in (WebSocket \cap members) \ broken
    /\ broken' = broken \cup {s}
    /\ UNCHANGED <<hubs, redis, faults, history>>

-----------------------------------------------------------------------------
(* Connecting.                                                             *)

Goto(s, where) == pc' = [pc EXCEPT ![s] = where]

\* connect and subscribe_queue: the subscriber is registered, and the hub
\* subscribes unless it has done so.
Connect(s) ==
    /\ pc[s] = "new"
    /\ members' = members \cup {s}
    /\ IF recorded[Home[s]] = NoSub
       THEN Goto(s, "subscribe") /\ channel' = [channel EXCEPT ![s] = "opening"]
       ELSE Goto(s, "replay") /\ UNCHANGED channel
    /\ UNCHANGED <<rest, recorded, seen, task, cast, stream, inbox, broken, faults, history>>

\* The exception is logged, and the subscriber goes on without a listener.
SubscribeFails(s) ==
    /\ pc[s] = "subscribe"
    /\ channel[s] = "opening"
    /\ Fault
    /\ Goto(s, "replay")
    /\ channel' = [channel EXCEPT ![s] = "failed"]
    /\ deaf' = deaf \cup {Home[s]}
    /\ UNCHANGED <<members, rest, recorded, seen, task, cast, stream, inbox, broken,
                   live, had, covered>>

\* Redis executes the SUBSCRIBE.
Attach(l) ==
    /\ channel[l] = "opening"
    /\ channel' = [channel EXCEPT ![l] = "attached"]
    /\ UNCHANGED <<hubs, stream, inbox, broken, faults, history>>

\* The listener starts. One that another subscriber has recorded meanwhile is
\* forgotten, and goes on.
Record(s) ==
    /\ pc[s] = "subscribe"
    /\ Goto(s, "replay")
    /\ recorded' = [recorded EXCEPT ![Home[s]] = s]
    /\ UNCHANGED <<members, rest, seen, task, cast, redis, broken, faults, history>>

\* XRANGE from the start of the stream.
Oldest == {stream[i] : i \in {n \in DOMAIN stream : n <= ReplayLimit}}

Listens(h) == \E l \in Sub : Home[l] = h /\ channel[l] = "attached"

Fetch(s) ==
    /\ pc[s] = "replay"
    /\ Goto(s, "resend")
    /\ rest' = [rest EXCEPT ![s] = Oldest]
    /\ covered' = IF Listens(Home[s]) THEN covered \cup {s} ELSE covered
    /\ UNCHANGED <<members, recorded, seen, task, cast, redis, broken, faults,
                   live, had, deaf>>

FetchFails(s) ==
    /\ pc[s] = "replay"
    /\ Fault
    /\ Goto(s, "on")
    /\ UNCHANGED <<members, rest, recorded, seen, task, cast, redis, broken, history>>

\* The replay is sent. A queue that is full loses what is left of it, a web
\* socket that raises is disconnected.
Resend(s) ==
    /\ pc[s] = "resend"
    /\ Goto(s, "on")
    /\ rest' = [rest EXCEPT ![s] = {}]
    /\ \/ /\ s \notin broken
          /\ had' = [had EXCEPT ![s] = @ \cup rest[s]]
          /\ UNCHANGED <<members, recorded, cast, channel, inbox>>
       \/ /\ s \in broken
          /\ \/ rest[s] # {} /\ Disconnect(s, cast)
             \/ UNCHANGED <<members, recorded, cast, channel, inbox>>
          /\ UNCHANGED had
    /\ UNCHANGED <<seen, task, stream, broken, faults, live, covered, deaf>>

-----------------------------------------------------------------------------
(* Broadcasting.                                                           *)

\* _remember_event_id
Remember(h, e) == seen' = [seen EXCEPT ![h] = @ \cup {e}]

\* Faulty variant: a subscriber that is being connected is left to its replay.
BroadcastToSettled(h, t, e) ==
    /\ Remember(h, e)
    /\ cast' = [cast EXCEPT ![t] = [event |-> e, to |-> {s \in At(h) : pc[s] = "on"}]]

\* _broadcast: who is registered now is to be reached.
Broadcast(h, t, e) ==
    /\ Remember(h, e)
    /\ cast' = [cast EXCEPT ![t] = [event |-> e, to |-> At(h)]]

\* publish schedules the task that begins here.
Publish(e) ==
    /\ task[e] = "new"
    /\ task' = [task EXCEPT ![e] = "cast"]
    /\ Broadcast(Origin[e], e, e)
    /\ UNCHANGED <<pc, members, rest, recorded, redis, broken, faults, history>>

Reached(t, some) == [cast EXCEPT ![t].to = @ \ some]

\* One web socket after the other; one that raises is disconnected.
Send(t, s) ==
    /\ s \in cast[t].to \cap WebSocket
    /\ \/ /\ s \notin broken
          /\ live' = [live EXCEPT ![s][cast[t].event] = @ + 1]
          /\ cast' = Reached(t, {s})
          /\ UNCHANGED <<members, recorded, channel, inbox>>
       \/ /\ s \in broken
          /\ \/ Disconnect(s, Reached(t, {s}))
             \/ cast' = Reached(t, {s}) /\ UNCHANGED <<members, recorded, channel, inbox>>
          /\ UNCHANGED live
    /\ UNCHANGED <<pc, rest, seen, task, stream, broken, faults, had, covered, deaf>>

\* Then all queues at once; a full one loses the event.
Put(t) ==
    /\ cast[t].to # {}
    /\ cast[t].to \cap WebSocket = {}
    /\ \E full \in SUBSET (cast[t].to \cap members) :
          /\ live' = [s \in Sub |->
                 IF s \in (cast[t].to \cap members) \ full THEN [live[s] EXCEPT ![cast[t].event] = @ + 1]
                 ELSE live[s]]
          /\ had' = [s \in Sub |-> IF s \in full THEN had[s] \cup {cast[t].event} ELSE had[s]]
    /\ cast' = Reached(t, cast[t].to)
    /\ UNCHANGED <<pc, members, rest, recorded, seen, task, redis, broken, faults,
                   covered, deaf>>

\* publish of the backend: the event is added to the stream, ...
Store(e) ==
    /\ task[e] = "cast"
    /\ cast[e].to = {}
    /\ task' = [task EXCEPT ![e] = "stored"]
    /\ cast' = [cast EXCEPT ![e] = Idle]
    /\ stream' = Append(stream, e)
    /\ UNCHANGED <<pc, members, rest, recorded, seen, channel, inbox, broken, faults, history>>

\* ... and then published on the channel.
Announce(e) ==
    /\ task[e] = "stored"
    /\ task' = [task EXCEPT ![e] = "announced"]
    /\ inbox' = [l \in Sub |-> IF channel[l] = "attached" THEN Append(inbox[l], e) ELSE inbox[l]]
    /\ UNCHANGED <<pc, members, rest, recorded, seen, cast, stream, channel, broken, faults, history>>

\* Either command fails, and what follows is left out.
PublishFails(e) ==
    /\ task[e] \in {"cast", "stored"}
    /\ cast[e].to = {}
    /\ Fault
    /\ task' = [task EXCEPT ![e] = "failed"]
    /\ cast' = [cast EXCEPT ![e] = Idle]
    /\ UNCHANGED <<pc, members, rest, recorded, seen, redis, broken, history>>

\* Faulty variant: every listener of a hub broadcasts what it hears.
KnownIfOwn(h, e) == Origin[e] = h

\* _handle_remote_event and _remember_event_id: what a hub does not broadcast.
Known(h, e) == Origin[e] = h \/ e \in seen[h]

\* A listener takes its next event once the last broadcast of it is over.
Started(l) == pc[l] # "subscribe"

Receive(l) ==
    LET h == Home[l]
        e == Head(inbox[l])
    IN  /\ Started(l)
        /\ inbox[l] # <<>>
        /\ cast[l].to = {}
        /\ inbox' = [inbox EXCEPT ![l] = Tail(@)]
        /\ IF Known(h, e) THEN UNCHANGED <<seen, cast>> ELSE Broadcast(h, l, e)
        /\ UNCHANGED <<pc, members, rest, recorded, task, stream, channel, broken, faults, history>>

\* The connection is lost: the listener ends, but it stays recorded.
ListenerFails(l) ==
    /\ Started(l)
    /\ channel[l] \in {"opening", "attached"}
    /\ cast[l].to = {}
    /\ Fault
    /\ channel' = [channel EXCEPT ![l] = "failed"]
    /\ inbox' = [inbox EXCEPT ![l] = <<>>]
    /\ deaf' = deaf \cup {Home[l]}
    /\ UNCHANGED <<hubs, stream, broken, live, had, covered>>

-----------------------------------------------------------------------------
ConnectStep(s) == Record(s) \/ Fetch(s) \/ Resend(s)

CastStep(t) == Put(t) \/ \E s \in WebSocket : Send(t, s)

Next ==
    \/ \E s \in Sub :
          \/ Connect(s) \/ ConnectStep(s) \/ SubscribeFails(s) \/ FetchFails(s)
          \/ Leave(s) \/ Break(s)
          \/ Attach(s) \/ Receive(s) \/ ListenerFails(s)
    \/ \E e \in Event :
          Publish(e) \/ Store(e) \/ Announce(e) \/ PublishFails(e)
    \/ \E t \in Caster : CastStep(t)

Spec == Init /\ [][Next]_vars

-----------------------------------------------------------------------------
(* Properties.                                                             *)

\* Every variable has its type, and no listener hears before it is attached.
TypeOK ==
    /\ pc \in [Sub -> {"new", "subscribe", "replay", "resend", "on", "left"}]
    /\ members \subseteq Sub
    /\ rest \in [Sub -> SUBSET Event]
    /\ recorded \in [Hub -> Sub \cup {NoSub}]
    /\ seen \in [Hub -> SUBSET Event]
    /\ task \in [Event -> {"new", "cast", "stored", "announced", "failed"}]
    /\ cast \in [Caster -> [event : Event \cup {NoEvent}, to : SUBSET Sub]]
    /\ stream \in Seq(Event)
    /\ channel \in [Sub -> {"none", "opening", "attached", "failed", "closed"}]
    /\ inbox \in [Sub -> Seq(Event)]
    /\ \A l \in Sub : inbox[l] # <<>> => channel[l] = "attached"
    /\ broken \subseteq WebSocket
    /\ faults \in 0..MaxFaults
    /\ live \in [Sub -> [Event -> Nat]]
    /\ had \in [Sub -> SUBSET Event]
    /\ covered \subseteq Sub
    /\ deaf \subseteq Hub

\* A subscriber gets an event live once at most, although its hub may have
\* several listeners and hears its own events.
OnceLive == \A s \in Sub, e \in Event : live[s][e] <= 1

\* A hub never stops listening while it has a subscriber, whoever leaves and
\* connects meanwhile, and however many subscriptions it has opened at once.
Listening ==
    \A s \in members :
        pc[s] \in {"replay", "resend", "on"} /\ Home[s] \notin deaf =>
            \E l \in Sub : recorded[Home[s]] = l /\ channel[l] \in {"opening", "attached"}

\* There is no gap between the replay and the live events: what another hub has
\* stored and published has reached a subscriber, was lost by its full queue or
\* is on its way, if the hub listened when the replay was fetched and the limit
\* of the replay does not leave it out.
Owed(s, e) ==
    /\ s \in (members \cap covered) \ broken
    /\ Home[s] \notin deaf
    /\ task[e] = "announced"
    /\ Origin[e] # Home[s]
    /\ e \in Oldest

Has(s, e) == live[s][e] > 0 \/ e \in had[s]

OnItsWay(s, e) ==
    \/ e \in rest[s]
    \/ \E l \in Sub :
          /\ Home[l] = Home[s]
          /\ \/ \E i \in DOMAIN inbox[l] : inbox[l][i] = e
             \/ cast[l].event = e /\ s \in cast[l].to

NoGap == \A s \in Sub, e \in Event : Owed(s, e) => Has(s, e) \/ OnItsWay(s, e)
=============================================================================
