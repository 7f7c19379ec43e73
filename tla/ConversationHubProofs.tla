------------------------ MODULE ConversationHubProofs ------------------------
(***************************************************************************)
(* Theorems about ConversationHub, for any number of hubs, subscribers and *)
(* events, and any limit of the replay: its types, that a hub listens for  *)
(* its subscribers, that an event reaches a subscriber live once at most,  *)
(* and that there is no gap between the replay and the live events.        *)
(***************************************************************************)
EXTENDS ConversationHub, SequenceTheorems, TLAPS

Casting == [Caster -> [event : Event \cup {NoEvent}, to : SUBSET Sub]]

\* TypeOK by parts.
HubTypes ==
    /\ pc \in [Sub -> {"new", "subscribe", "replay", "resend", "on", "left"}]
    /\ members \subseteq Sub
    /\ rest \in [Sub -> SUBSET Event]
    /\ recorded \in [Hub -> Sub \cup {NoSub}]
    /\ seen \in [Hub -> SUBSET Event]
    /\ task \in [Event -> {"new", "cast", "stored", "announced", "failed"}]
CastTypes == cast \in Casting
RedisTypes ==
    /\ stream \in Seq(Event)
    /\ channel \in [Sub -> {"none", "opening", "attached", "failed", "closed"}]
    /\ inbox \in [Sub -> Seq(Event)]
    /\ \A l \in Sub : inbox[l] # <<>> => channel[l] = "attached"
OtherTypes ==
    /\ broken \subseteq WebSocket
    /\ faults \in 0..MaxFaults
    /\ live \in [Sub -> [Event -> Nat]]
    /\ had \in [Sub -> SUBSET Event]
    /\ covered \subseteq Sub
    /\ deaf \subseteq Hub

LEMMA TypeParts == TypeOK <=> HubTypes /\ CastTypes /\ RedisTypes /\ OtherTypes
BY DEF TypeOK, HubTypes, CastTypes, RedisTypes, OtherTypes, Casting

\* Where a subscriber is and what its listener is, and the listener that a hub
\* has recorded. With it, TypeOK and Listening are inductive.
Linked ==
    /\ \A s \in Sub : pc[s] = "new" => channel[s] = "none"
    /\ \A s \in Sub : pc[s] = "subscribe" => channel[s] \in {"opening", "attached"}
    /\ \A h \in Hub : recorded[h] # NoSub =>
          /\ Home[recorded[h]] = h
          /\ pc[recorded[h]] \notin {"new", "subscribe"}
          /\ channel[recorded[h]] \in {"opening", "attached"} \/ h \in deaf
    /\ \A s \in members : pc[s] \in {"replay", "resend", "on"} /\ Home[s] \notin deaf =>
          recorded[Home[s]] # NoSub
    /\ \A t \in Caster : cast[t].to # {} => cast[t].event \in Event

\* What a broadcast in progress, and what a subscriber has got, say of what its
\* hub remembers. With it, OnceLive is inductive.
Once ==
    /\ \A s \in Sub, e \in Event : live[s][e] <= 1
    /\ \A s \in Sub, e \in Event : live[s][e] > 0 => e \in seen[Home[s]]
    /\ \A t \in Caster, s \in Sub : s \in cast[t].to =>
          cast[t].event \in seen[Home[s]] /\ live[s][cast[t].event] = 0
    /\ \A t, u \in Caster, s \in Sub :
          s \in cast[t].to /\ s \in cast[u].to /\ cast[t].event = cast[u].event => t = u
    /\ \A e \in Event : task[e] = "new" => e \notin seen[Origin[e]]

\* What has reached a subscriber, or has got beyond the inbox of a listener.
Reach(s, e) ==
    \/ Has(s, e)
    \/ e \in rest[s]
    \/ \E l \in Sub : Home[l] = Home[s] /\ cast[l].event = e /\ s \in cast[l].to

Heard(s, e) == \E l \in Sub : Home[l] = Home[s] /\ \E i \in DOMAIN inbox[l] : inbox[l][i] = e

\* A hub listens for those it covers, and remembers of another hub's events only
\* what it has passed on to them. With it, NoGap is inductive.
Passed ==
    /\ \A s \in covered : pc[s] \in {"resend", "on"}
    /\ \A s \in covered \cap members : Home[s] \notin deaf => Listens(Home[s])
    /\ \A h \in Hub, e \in Event : e \in seen[h] /\ Origin[e] # h => task[e] = "announced"
    /\ \A l \in Sub : \A i \in DOMAIN inbox[l] : task[inbox[l][i]] = "announced"
    /\ \A s \in (members \cap covered) \ broken, e \in Oldest :
          Origin[e] # Home[s] /\ e \in seen[Home[s]] => Reach(s, e)
Covers ==
    \A s \in (members \cap covered) \ broken, e \in Oldest :
        Home[s] \notin deaf /\ task[e] = "announced" /\ Origin[e] # Home[s] =>
            Reach(s, e) \/ Heard(s, e)

-----------------------------------------------------------------------------
(* Effects that several actions share.                                     *)

\* What a step does that takes `gone` out of the members and leaves `now` in
\* cast: a listener that is closed had nobody else to listen for.
Detaches(gone, now) ==
    /\ members' = members \ gone
    /\ recorded' \in [Hub -> Sub \cup {NoSub}]
    /\ CastTypes' /\ channel' \in [Sub -> {"none", "opening", "attached", "failed", "closed"}]
    /\ inbox' \in [Sub -> Seq(Event)]
    /\ \A h \in Hub : recorded'[h] = recorded[h] \/ (recorded'[h] = NoSub /\ At(h) \subseteq gone)
    /\ \A e \in Event : cast'[e] = now[e]
    /\ \A l \in Sub :
          \/ channel'[l] = channel[l] /\ inbox'[l] = inbox[l] /\ cast'[l] = now[l]
          \/ /\ channel'[l] = "closed" /\ inbox'[l] = <<>> /\ cast'[l] = Idle
             /\ pc[l] \notin {"new", "subscribe"}
             /\ recorded'[Home[l]] = NoSub
             /\ At(Home[l]) \subseteq gone

LEMMA Detached ==
    ASSUME TypeOK, Linked, NEW s \in Sub, NEW now \in Casting, Disconnect(s, now)
    PROVE  Detaches({s}, now)
<1> DEFINE l == recorded[Home[s]]
<1>0. HubTypes /\ CastTypes /\ RedisTypes /\ Home[s] \in Hub
  BY TypeParts, HubAssumption DEF HubAssumption
<1>1. CASE Closes(s)
  <2>1. /\ At(Home[s]) = {s}
        /\ l \in Sub /\ Home[l] = Home[s]
        /\ pc[l] \notin {"new", "subscribe"}
    BY <1>0, <1>1 DEF Closes, Linked, HubTypes
  <2>2. /\ members' = members \ {s}
        /\ recorded' = [recorded EXCEPT ![Home[s]] = NoSub]
        /\ channel' = [channel EXCEPT ![l] = "closed"]
        /\ inbox' = [inbox EXCEPT ![l] = <<>>]
        /\ cast' = [now EXCEPT ![l] = Idle]
    BY <1>1 DEF Disconnect
  <2> HIDE DEF l
  <2>3. Idle \in [event : Event \cup {NoEvent}, to : SUBSET Sub] /\ l \in Caster
    BY <2>1 DEF Idle, Caster
  <2>4. cast' \in Casting /\ cast'[l] = Idle /\ \A t \in Caster \ {l} : cast'[t] = now[t]
    BY <2>2, <2>3 DEF Casting
  <2>5. /\ recorded' \in [Hub -> Sub \cup {NoSub}]
        /\ \A h \in Hub : recorded'[h] = recorded[h] \/ (recorded'[h] = NoSub /\ h = Home[s])
    <3>1. recorded \in [Hub -> Sub \cup {NoSub}]
      BY <1>0 DEF HubTypes
    <3> QED BY <2>2, <3>1
  <2>6. /\ channel' \in [Sub -> {"none", "opening", "attached", "failed", "closed"}]
        /\ inbox' \in [Sub -> Seq(Event)]
        /\ channel'[l] = "closed" /\ inbox'[l] = <<>>
        /\ \A k \in Sub \ {l} : channel'[k] = channel[k] /\ inbox'[k] = inbox[k]
    BY <1>0, <2>1, <2>2 DEF RedisTypes
  <2>7. \A e \in Event : e \in Caster /\ e # l
    BY <2>1, HubAssumption DEF Caster, HubAssumption
  <2>8. recorded'[Home[l]] = NoSub
    BY <1>0, <2>1, <2>2 DEF HubTypes
  <2>9. \A k \in Sub : k \in Caster
    BY DEF Caster
  <2> QED BY <2>1, <2>2, <2>4, <2>5, <2>6, <2>7, <2>8, <2>9 DEF Detaches, CastTypes
<1>2. CASE ~Closes(s)
  <2>1. /\ members' = members \ {s} /\ cast' = now
        /\ recorded' = recorded /\ channel' = channel /\ inbox' = inbox
    BY <1>2 DEF Disconnect
  <2> QED BY <1>0, <2>1 DEF Detaches, HubTypes, CastTypes, RedisTypes
<1> QED BY <1>1, <1>2

LEMMA NotDetached ==
    ASSUME TypeOK, NEW now \in Casting, cast' = now,
           UNCHANGED <<members, recorded, channel, inbox>>
    PROVE  Detaches({}, now)
<1>1. members \ {} = members
  OBVIOUS
<1> QED BY <1>1, TypeParts DEF Detaches, HubTypes, CastTypes, RedisTypes

\* A broadcast that some subscribers leave.
LEMMA ReachedEffect ==
    ASSUME TypeOK, NEW t \in Caster, NEW some
    PROVE  /\ Reached(t, some) \in Casting
           /\ Reached(t, some)[t].event = cast[t].event
           /\ Reached(t, some)[t].to = cast[t].to \ some
           /\ \A u \in Caster \ {t} : Reached(t, some)[u] = cast[u]
<1>1. cast \in Casting /\ cast[t] \in [event : Event \cup {NoEvent}, to : SUBSET Sub]
  BY TypeParts DEF CastTypes, Casting
<1>2. Reached(t, some) = [cast EXCEPT ![t] = [cast[t] EXCEPT !.to = cast[t].to \ some]]
  BY <1>1 DEF Reached, Casting
<1>3. /\ [cast[t] EXCEPT !.to = cast[t].to \ some] \in [event : Event \cup {NoEvent}, to : SUBSET Sub]
      /\ [cast[t] EXCEPT !.to = cast[t].to \ some].to = cast[t].to \ some
      /\ [cast[t] EXCEPT !.to = cast[t].to \ some].event = cast[t].event
  BY <1>1
<1> QED BY <1>1, <1>2, <1>3 DEF Casting

LEMMA BroadcastEffect ==
    ASSUME TypeOK, NEW h \in Hub, NEW t \in Caster, NEW e \in Event, Broadcast(h, t, e)
    PROVE  /\ CastTypes'
           /\ cast'[t].event = e /\ cast'[t].to = At(h)
           /\ \A u \in Caster \ {t} : cast'[u] = cast[u]
           /\ seen' \in [Hub -> SUBSET Event]
           /\ seen'[h] = seen[h] \cup {e}
           /\ \A g \in Hub \ {h} : seen'[g] = seen[g]
<1>1. HubTypes /\ CastTypes /\ At(h) \subseteq Sub
  BY TypeParts DEF HubTypes, At
<1> DEFINE c == [event |-> e, to |-> At(h)]
<1>2. c \in [event : Event \cup {NoEvent}, to : SUBSET Sub] /\ c.event = e /\ c.to = At(h)
  BY <1>1
<1>3. cast' = [cast EXCEPT ![t] = c] /\ seen' = [seen EXCEPT ![h] = @ \cup {e}]
  BY DEF Broadcast, Remember
<1> HIDE DEF c
<1>4. cast' \in Casting /\ cast'[t] = c /\ \A u \in Caster \ {t} : cast'[u] = cast[u]
  BY <1>1, <1>2, <1>3 DEF CastTypes, Casting
<1>5. /\ seen' \in [Hub -> SUBSET Event]
      /\ seen'[h] = seen[h] \cup {e}
      /\ \A g \in Hub \ {h} : seen'[g] = seen[g]
  BY <1>1, <1>3 DEF HubTypes
<1> QED BY <1>2, <1>4, <1>5 DEF CastTypes

\* A task that is done with its broadcast.
LEMMA IdleEffect ==
    ASSUME TypeOK, NEW e \in Event, cast' = [cast EXCEPT ![e] = Idle]
    PROVE  /\ CastTypes'
           /\ cast'[e].to = {}
           /\ \A u \in Caster \ {e} : cast'[u] = cast[u]
<1>1. Idle \in [event : Event \cup {NoEvent}, to : SUBSET Sub] /\ e \in Caster /\ Idle.to = {}
  BY DEF Idle, Caster
<1> QED BY <1>1, TypeParts DEF CastTypes, Casting

\* What a web socket has got of a broadcast.
LEMMA SendEffect ==
    ASSUME TypeOK, NEW s \in Sub, NEW e \in Event,
           live' = [live EXCEPT ![s][e] = @ + 1]
    PROVE  /\ live' \in [Sub -> [Event -> Nat]]
           /\ live'[s][e] = live[s][e] + 1
           /\ \A q \in Sub, f \in Event : q # s \/ f # e => live'[q][f] = live[q][f]
<1>1. live \in [Sub -> [Event -> Nat]]
  BY TypeParts DEF OtherTypes
<1> DEFINE f == [live[s] EXCEPT ![e] = live[s][e] + 1]
<1>2. f \in [Event -> Nat] /\ f[e] = live[s][e] + 1 /\ \A x \in Event \ {e} : f[x] = live[s][x]
  BY <1>1
<1>3. live' = [live EXCEPT ![s] = f]
  BY <1>1
<1> HIDE DEF f
<1> QED BY <1>1, <1>2, <1>3

\* What the queues have got of a broadcast.
LEMMA PutEffect ==
    ASSUME TypeOK, NEW t \in Caster, Put(t), cast[t].event \in Event
    PROVE  \E full \in SUBSET (cast[t].to \cap members) :
              /\ live' \in [Sub -> [Event -> Nat]]
              /\ had' \in [Sub -> SUBSET Event]
              /\ \A s \in Sub, e \in Event :
                    /\ live'[s][e] = IF e = cast[t].event /\ s \in (cast[t].to \cap members) \ full
                                     THEN live[s][e] + 1 ELSE live[s][e]
                    /\ e \in had'[s] <=> (e \in had[s] \/ (e = cast[t].event /\ s \in full))
<1>0. live \in [Sub -> [Event -> Nat]] /\ had \in [Sub -> SUBSET Event]
  BY TypeParts DEF OtherTypes
<1>1. PICK full \in SUBSET (cast[t].to \cap members) :
          /\ live' = [s \in Sub |->
                 IF s \in (cast[t].to \cap members) \ full THEN [live[s] EXCEPT ![cast[t].event] = @ + 1]
                 ELSE live[s]]
          /\ had' = [s \in Sub |-> IF s \in full THEN had[s] \cup {cast[t].event} ELSE had[s]]
  BY DEF Put
<1>2. /\ had' \in [Sub -> SUBSET Event]
      /\ \A s \in Sub, e \in Event : e \in had'[s] <=> (e \in had[s] \/ (e = cast[t].event /\ s \in full))
  BY <1>0, <1>1
<1>3. ASSUME NEW s \in Sub
      PROVE  /\ live'[s] \in [Event -> Nat]
             /\ \A e \in Event : live'[s][e] = IF e = cast[t].event /\ s \in (cast[t].to \cap members) \ full
                                     THEN live[s][e] + 1 ELSE live[s][e]
  <2> DEFINE x == cast[t].event
  <2>1. live[s] \in [Event -> Nat] /\ x \in Event /\ live[s][x] + 1 \in Nat
    BY <1>0
  <2>2. live'[s] = IF s \in (cast[t].to \cap members) \ full
                   THEN [live[s] EXCEPT ![x] = live[s][x] + 1] ELSE live[s]
    BY <1>1
  <2> HIDE DEF x
  <2>3. /\ live'[s] \in [Event -> Nat]
        /\ \A e \in Event : live'[s][e] = IF e = x /\ s \in (cast[t].to \cap members) \ full
                                     THEN live[s][e] + 1 ELSE live[s][e]
    BY <2>1, <2>2
  <2> QED BY <2>3 DEF x
<1>4. live' \in [Sub -> [Event -> Nat]]
  BY <1>1, <1>3
<1>5. \A s \in Sub, e \in Event :
          /\ live'[s][e] = IF e = cast[t].event /\ s \in (cast[t].to \cap members) \ full
                           THEN live[s][e] + 1 ELSE live[s][e]
          /\ e \in had'[s] <=> (e \in had[s] \/ (e = cast[t].event /\ s \in full))
  BY <1>2, <1>3
<1> QED BY <1>2, <1>4, <1>5

-----------------------------------------------------------------------------
(* Types.                                                                  *)

LEMMA TypeInit == Init => TypeOK /\ Linked
BY HubAssumption DEF Init, TypeOK, Linked, HubAssumption, Caster, Idle

LEMMA LeaveTypes ==
    ASSUME TypeOK, Linked, NEW s \in Sub, Leave(s) \/ Break(s)
    PROVE  TypeOK'
<1> SUFFICES HubTypes' /\ CastTypes' /\ RedisTypes' /\ OtherTypes'
  BY DEF TypeOK, HubTypes, CastTypes, RedisTypes, OtherTypes, Casting
<1>0. HubTypes /\ CastTypes /\ RedisTypes /\ OtherTypes
  BY TypeParts
<1>1. CASE Leave(s)
  <2>1. Detaches({s}, cast)
    BY <1>0, <1>1, Detached DEF Leave, CastTypes
  <2>2. HubTypes' /\ CastTypes'
    BY <1>0, <1>1, <2>1 DEF Leave, HubTypes, Detaches
  <2>3. RedisTypes'
    BY <1>0, <1>1, <2>1 DEF Leave, RedisTypes, Detaches
  <2>4. Nothing \in [Event -> Nat]
    BY DEF Nothing
  <2>5. OtherTypes'
    BY <1>0, <1>1, <2>4 DEF Leave, OtherTypes
  <2> QED BY <2>2, <2>3, <2>5
<1>2. CASE Break(s)
  BY <1>0, <1>2 DEF Break, HubTypes, CastTypes, RedisTypes, OtherTypes, hubs, redis, history
<1> QED BY <1>1, <1>2

LEMMA ConnectTypes ==
    ASSUME TypeOK, Linked, NEW s \in Sub,
           Connect(s) \/ SubscribeFails(s) \/ Record(s) \/ Fetch(s) \/ FetchFails(s) \/ Resend(s)
    PROVE  TypeOK'
<1> SUFFICES HubTypes' /\ CastTypes' /\ RedisTypes' /\ OtherTypes'
  BY DEF TypeOK, HubTypes, CastTypes, RedisTypes, OtherTypes, Casting
<1>0. HubTypes /\ CastTypes /\ RedisTypes /\ OtherTypes
  BY TypeParts
<1>1. CASE Connect(s)
  <2>1. HubTypes' /\ CastTypes' /\ OtherTypes'
    BY <1>0, <1>1 DEF Connect, Goto, HubTypes, CastTypes, OtherTypes, history
  <2>2. RedisTypes'
    BY <1>0, <1>1 DEF Connect, RedisTypes, Linked
  <2> QED BY <2>1, <2>2
<1>2. CASE SubscribeFails(s)
  <2>0. Home[s] \in Hub /\ MaxFaults \in Nat
    BY HubAssumption DEF HubAssumption
  <2>1. HubTypes' /\ CastTypes' /\ OtherTypes'
    BY <1>0, <1>2, <2>0 DEF SubscribeFails, Fault, Goto, HubTypes, CastTypes, OtherTypes
  <2>2. RedisTypes'
    BY <1>0, <1>2 DEF SubscribeFails, RedisTypes
  <2> QED BY <2>1, <2>2
<1>3. CASE Record(s)
  BY <1>0, <1>3 DEF Record, Goto, HubTypes, CastTypes, RedisTypes, OtherTypes, redis, history
<1>4. CASE Fetch(s)
  <2>1. Oldest \subseteq Event
    BY <1>0 DEF Oldest, RedisTypes
  <2> QED BY <1>0, <1>4, <2>1 DEF Fetch, Goto, HubTypes, CastTypes, RedisTypes, OtherTypes, redis
<1>5. CASE FetchFails(s)
  BY <1>0, <1>5, HubAssumption
  DEF FetchFails, Fault, Goto, HubTypes, CastTypes, RedisTypes, OtherTypes, redis, history,
      HubAssumption
<1>6. CASE Resend(s)
  <2>1. Detaches({s}, cast) \/ Detaches({}, cast)
    BY <1>0, <1>6, Detached, NotDetached DEF Resend, CastTypes
  <2>2. HubTypes' /\ CastTypes'
    BY <1>0, <1>6, <2>1 DEF Resend, Goto, HubTypes, Detaches
  <2>3. RedisTypes'
    BY <1>0, <1>6, <2>1 DEF Resend, RedisTypes, Detaches
  <2>4. OtherTypes'
    BY <1>0, <1>6 DEF Resend, HubTypes, OtherTypes
  <2> QED BY <2>2, <2>3, <2>4
<1> QED BY <1>1, <1>2, <1>3, <1>4, <1>5, <1>6

LEMMA ListenTypes ==
    ASSUME TypeOK, Linked, NEW l \in Sub, Attach(l) \/ Receive(l) \/ ListenerFails(l)
    PROVE  TypeOK'
<1> SUFFICES HubTypes' /\ CastTypes' /\ RedisTypes' /\ OtherTypes'
  BY DEF TypeOK, HubTypes, CastTypes, RedisTypes, OtherTypes, Casting
<1>0. HubTypes /\ CastTypes /\ RedisTypes /\ OtherTypes
  BY TypeParts
<1>1. CASE Attach(l)
  BY <1>0, <1>1 DEF Attach, HubTypes, CastTypes, RedisTypes, OtherTypes, hubs, history
<1>2. CASE Receive(l)
  <2> DEFINE h == Home[l]
             e == Head(inbox[l])
  <2>1. h \in Hub /\ l \in Caster /\ e \in Event /\ Tail(inbox[l]) \in Seq(Event)
    <3>1. inbox[l] \in Seq(Event) /\ inbox[l] # <<>>
      BY <1>0, <1>2 DEF Receive, RedisTypes
    <3>2. e \in Event /\ Tail(inbox[l]) \in Seq(Event)
      BY <3>1, HeadTailProperties
    <3> QED BY <3>2, HubAssumption DEF Caster, HubAssumption
  <2>2. CASE Known(h, e)
    BY <1>0, <1>2, <2>1, <2>2
    DEF Receive, HubTypes, CastTypes, RedisTypes, OtherTypes, history
  <2>3. CASE ~Known(h, e)
    <3>1. Broadcast(h, l, e)
      BY <1>2, <2>3 DEF Receive
    <3>2. CastTypes' /\ seen' \in [Hub -> SUBSET Event]
      BY <2>1, <3>1, BroadcastEffect
    <3> QED BY <1>0, <1>2, <2>1, <3>2 DEF Receive, HubTypes, RedisTypes, OtherTypes, history
  <2> QED BY <2>2, <2>3
<1>3. CASE ListenerFails(l)
  <2>1. Home[l] \in Hub /\ MaxFaults \in Nat
    BY HubAssumption DEF HubAssumption
  <2> QED BY <1>0, <1>3, <2>1
    DEF ListenerFails, Fault, HubTypes, CastTypes, RedisTypes, OtherTypes, hubs
<1> QED BY <1>1, <1>2, <1>3

LEMMA PublishTypes ==
    ASSUME TypeOK, NEW e \in Event, Publish(e) \/ Store(e) \/ Announce(e) \/ PublishFails(e)
    PROVE  TypeOK'
<1> SUFFICES HubTypes' /\ CastTypes' /\ RedisTypes' /\ OtherTypes'
  BY DEF TypeOK, HubTypes, CastTypes, RedisTypes, OtherTypes, Casting
<1>0. HubTypes /\ CastTypes /\ RedisTypes /\ OtherTypes
  BY TypeParts
<1>1. CASE Publish(e)
  <2>1. Origin[e] \in Hub /\ e \in Caster
    BY HubAssumption DEF Caster, HubAssumption
  <2>2. CastTypes' /\ seen' \in [Hub -> SUBSET Event]
    BY <1>1, <2>1, BroadcastEffect DEF Publish
  <2> QED BY <1>0, <1>1, <2>2 DEF Publish, HubTypes, RedisTypes, OtherTypes, redis, history
<1>2. CASE Store(e)
  <2>1. CastTypes'
    BY <1>2, IdleEffect DEF Store
  <2>2. stream' \in Seq(Event)
    BY <1>0, <1>2 DEF Store, RedisTypes
  <2> QED BY <1>0, <1>2, <2>1, <2>2 DEF Store, HubTypes, RedisTypes, OtherTypes, history
<1>3. CASE Announce(e)
  <2>1. ASSUME NEW l \in Sub
        PROVE  inbox'[l] \in Seq(Event) /\ (inbox'[l] # <<>> => channel[l] = "attached")
    BY <1>0, <1>3 DEF Announce, RedisTypes
  <2>2. inbox' \in [Sub -> Seq(Event)]
    BY <1>3, <2>1 DEF Announce
  <2>3. RedisTypes'
    BY <1>0, <1>3, <2>1, <2>2 DEF Announce, RedisTypes
  <2> QED BY <1>0, <1>3, <2>3 DEF Announce, HubTypes, CastTypes, OtherTypes, history
<1>4. CASE PublishFails(e)
  <2>1. CastTypes'
    BY <1>4, IdleEffect DEF PublishFails
  <2> QED BY <1>0, <1>4, <2>1, HubAssumption
    DEF PublishFails, Fault, HubTypes, RedisTypes, OtherTypes, redis, history, HubAssumption
<1> QED BY <1>1, <1>2, <1>3, <1>4

LEMMA CastStepTypes ==
    ASSUME TypeOK, Linked, NEW t \in Caster, CastStep(t)
    PROVE  TypeOK'
<1> SUFFICES HubTypes' /\ CastTypes' /\ RedisTypes' /\ OtherTypes'
  BY DEF TypeOK, HubTypes, CastTypes, RedisTypes, OtherTypes, Casting
<1>0. HubTypes /\ CastTypes /\ RedisTypes /\ OtherTypes
  BY TypeParts
<1>1. CASE Put(t)
  <2>1. CastTypes'
    BY <1>1, ReachedEffect DEF Put, CastTypes
  <2>2. cast[t].event \in Event
    BY <1>1 DEF Put, Linked
  <2>3. live' \in [Sub -> [Event -> Nat]] /\ had' \in [Sub -> SUBSET Event]
    BY <1>1, <2>2, PutEffect
  <2> QED BY <1>0, <1>1, <2>1, <2>3 DEF Put, HubTypes, RedisTypes, OtherTypes, redis
<1>2. ASSUME NEW s \in WebSocket, Send(t, s)
      PROVE  HubTypes' /\ CastTypes' /\ RedisTypes' /\ OtherTypes'
  <2>1. s \in Sub /\ cast[t].event \in Event
    BY <1>2, HubAssumption DEF Send, Linked, HubAssumption
  <2> DEFINE now == Reached(t, {s})
  <2>2. now \in Casting
    BY ReachedEffect
  <2>3. Detaches({s}, now) \/ Detaches({}, now)
    BY <1>2, <2>1, <2>2, Detached, NotDetached DEF Send
  <2> HIDE DEF now
  <2>4. HubTypes' /\ CastTypes'
    BY <1>0, <1>2, <2>3 DEF Send, HubTypes, Detaches
  <2>5. RedisTypes'
    BY <1>0, <1>2, <2>3 DEF Send, RedisTypes, Detaches
  <2>6. live' \in [Sub -> [Event -> Nat]]
    <3>1. CASE UNCHANGED live
      BY <1>0, <3>1 DEF OtherTypes
    <3>2. CASE live' = [live EXCEPT ![s][cast[t].event] = @ + 1]
      BY <2>1, <3>2, SendEffect
    <3> QED BY <1>2, <3>1, <3>2 DEF Send
  <2> QED BY <1>0, <1>2, <2>4, <2>5, <2>6 DEF Send, OtherTypes
<1> QED BY <1>1, <1>2 DEF CastStep

-----------------------------------------------------------------------------
(* Who listens.                                                            *)

\* A step after which some subscribers are gone, and a handler is where it was
\* or further than its replay.

LEMMA LinkedDetaches ==
    ASSUME TypeOK, Linked, NEW gone \in SUBSET Sub, NEW now \in Casting, Detaches(gone, now),
           UNCHANGED deaf,
           \A s \in Sub : pc'[s] = pc[s] \/ (pc[s] \in {"resend", "on"} /\ pc'[s] \in {"on", "left"}),
           \A t \in Caster : now[t].to # {} => now[t].event \in Event
    PROVE  Linked'
<1>0. HubTypes /\ RedisTypes /\ Home \in [Sub -> Hub] /\ NoSub \notin Sub
  BY TypeParts, HubAssumption DEF HubAssumption
<1>1. \A s \in Sub : pc'[s] = "new" => channel'[s] = "none"
  BY <1>0 DEF Detaches, Linked
<1>2. \A s \in Sub : pc'[s] = "subscribe" => channel'[s] \in {"opening", "attached"}
  BY <1>0 DEF Detaches, Linked
<1>3. ASSUME NEW h \in Hub, recorded'[h] # NoSub
      PROVE  /\ Home[recorded'[h]] = h
             /\ pc'[recorded'[h]] \notin {"new", "subscribe"}
             /\ channel'[recorded'[h]] \in {"opening", "attached"} \/ h \in deaf'
  <2>1. recorded'[h] = recorded[h] /\ recorded[h] \in Sub
    BY <1>0, <1>3 DEF Detaches, HubTypes
  <2>2. PICK l \in Sub : l = recorded[h]
    BY <2>1
  <2>3. /\ Home[l] = h /\ pc[l] \notin {"new", "subscribe"}
        /\ channel[l] \in {"opening", "attached"} \/ h \in deaf
    BY <1>3, <2>1, <2>2 DEF Linked
  <2>4. channel'[l] = channel[l]
    BY <1>3, <2>3 DEF Detaches
  <2>5. pc'[l] \notin {"new", "subscribe"}
    BY <2>3
  <2> QED BY <2>1, <2>2, <2>3, <2>4, <2>5
<1>4. ASSUME NEW s \in members', pc'[s] \in {"replay", "resend", "on"}, Home[s] \notin deaf'
      PROVE  recorded'[Home[s]] # NoSub
  <2>1. s \in members /\ s \in Sub /\ s \notin gone /\ s \in At(Home[s])
    BY <1>0, <1>4 DEF Detaches, HubTypes, At
  <2>2. pc[s] \in {"replay", "resend", "on"}
    BY <1>4, <2>1
  <2>3. recorded[Home[s]] # NoSub
    BY <1>4, <2>1, <2>2 DEF Linked
  <2>4. recorded'[Home[s]] = recorded[Home[s]]
    BY <1>0, <2>1 DEF Detaches
  <2> QED BY <2>3, <2>4
<1>5. ASSUME NEW t \in Caster, cast'[t].to # {}
      PROVE  cast'[t].event \in Event
  BY <1>5 DEF Detaches, Caster, Idle
<1> QED BY <1>1, <1>2, <1>3, <1>4, <1>5 DEF Linked

LEMMA LinkedConnect ==
    ASSUME TypeOK, Linked, NEW s \in Sub,
           Connect(s) \/ SubscribeFails(s) \/ Record(s) \/ Fetch(s) \/ FetchFails(s)
    PROVE  Linked'
<1>0. HubTypes /\ RedisTypes /\ Home \in [Sub -> Hub] /\ NoSub \notin Sub
  BY TypeParts, HubAssumption DEF HubAssumption
<1>1. CASE Connect(s)
  <2>1. /\ pc[s] = "new"
        /\ \A q \in Sub \ {s} : pc'[q] = pc[q] /\ channel'[q] = channel[q]
        /\ \/ pc'[s] = "subscribe" /\ channel'[s] = "opening"
           \/ pc'[s] = "replay" /\ recorded[Home[s]] # NoSub
    <3>1. CASE recorded[Home[s]] = NoSub
      BY <1>0, <1>1, <3>1 DEF Connect, Goto, HubTypes, RedisTypes
    <3>2. CASE recorded[Home[s]] # NoSub
      BY <1>0, <1>1, <3>2 DEF Connect, Goto, HubTypes, RedisTypes
    <3> QED BY <3>1, <3>2
  <2>2. members' = members \cup {s} /\ UNCHANGED <<recorded, cast, deaf>>
    BY <1>1 DEF Connect, history
  <2> QED BY <1>0, <2>1, <2>2 DEF Linked, HubTypes
<1>2. CASE SubscribeFails(s)
  BY <1>0, <1>2 DEF SubscribeFails, Goto, Linked, HubTypes, RedisTypes
<1>3. CASE Record(s)
  BY <1>0, <1>3 DEF Record, Goto, Linked, HubTypes, RedisTypes, redis, history
<1>4. CASE Fetch(s)
  BY <1>0, <1>4 DEF Fetch, Goto, Linked, HubTypes, RedisTypes, redis
<1>5. CASE FetchFails(s)
  BY <1>0, <1>5 DEF FetchFails, Goto, Linked, HubTypes, RedisTypes, redis, history
<1> QED BY <1>1, <1>2, <1>3, <1>4, <1>5

\* A step that leaves the members and the listeners of hubs alone.
LEMMA LinkedCast ==
    ASSUME TypeOK, Linked, UNCHANGED <<pc, members, recorded, channel, deaf>>,
           \A t \in Caster : cast'[t].to # {} => cast'[t].event \in Event
    PROVE  Linked'
BY DEF Linked

LEMMA LinkedListen ==
    ASSUME TypeOK, Linked, NEW l \in Sub, Attach(l) \/ Receive(l) \/ ListenerFails(l)
    PROVE  Linked'
<1>0. HubTypes /\ RedisTypes /\ Home \in [Sub -> Hub] /\ NoSub \notin Sub
  BY TypeParts, HubAssumption DEF HubAssumption
<1>1. CASE Attach(l)
  BY <1>0, <1>1 DEF Attach, Linked, HubTypes, RedisTypes, hubs, history
<1>2. CASE Receive(l)
  <2> DEFINE e == Head(inbox[l])
  <2>1. Home[l] \in Hub /\ l \in Caster /\ e \in Event
    BY <1>0, <1>2, HeadTailProperties DEF Receive, RedisTypes, Caster
  <2>2. cast' = cast \/ Broadcast(Home[l], l, e)
    BY <1>2 DEF Receive
  <2>3. \A t \in Caster : cast'[t].to # {} => cast'[t].event \in Event
    BY <2>1, <2>2, BroadcastEffect DEF Linked
  <2> QED BY <1>2, <2>3, LinkedCast DEF Receive, history
<1>3. CASE ListenerFails(l)
  BY <1>0, <1>3 DEF ListenerFails, Started, Linked, HubTypes, RedisTypes, hubs
<1> QED BY <1>1, <1>2, <1>3

LEMMA LinkedPublish ==
    ASSUME TypeOK, Linked, NEW e \in Event,
           Publish(e) \/ Store(e) \/ Announce(e) \/ PublishFails(e)
    PROVE  Linked'
<1>1. UNCHANGED <<pc, members, recorded, channel, deaf>>
  BY DEF Publish, Store, Announce, PublishFails, redis, history
<1>2. Origin[e] \in Hub /\ e \in Caster
  BY HubAssumption DEF Caster, HubAssumption
<1>3. \A t \in Caster : cast'[t].to # {} => cast'[t].event \in Event
  <2>1. CASE Publish(e)
    BY <1>2, <2>1, BroadcastEffect DEF Publish, Linked
  <2>2. CASE Announce(e)
    BY <2>2 DEF Announce, Linked
  <2>3. CASE Store(e) \/ PublishFails(e)
    BY <1>2, <2>3, IdleEffect DEF Store, PublishFails, Linked
  <2> QED BY <2>1, <2>2, <2>3
<1> QED BY <1>1, <1>3, LinkedCast

\* TypeOK and Linked are an invariant together.
LEMMA LinkedStep == ASSUME TypeOK, Linked, Next PROVE TypeOK' /\ Linked'
<1>0. HubTypes /\ CastTypes /\ WebSocket \subseteq Sub
  BY TypeParts, HubAssumption DEF HubAssumption
<1>1. \A t \in Caster : cast[t].to # {} => cast[t].event \in Event
  BY DEF Linked
<1>2. ASSUME NEW s \in Sub,
             Connect(s) \/ SubscribeFails(s) \/ Record(s) \/ Fetch(s) \/ FetchFails(s)
      PROVE  TypeOK' /\ Linked'
  BY <1>2, ConnectTypes, LinkedConnect
<1>3. ASSUME NEW s \in Sub, Resend(s)
      PROVE  TypeOK' /\ Linked'
  <2>1. Detaches({s}, cast) \/ Detaches({}, cast)
    BY <1>0, <1>3, Detached, NotDetached DEF Resend, CastTypes
  <2>2. \A q \in Sub : pc'[q] = pc[q] \/ (pc[q] \in {"resend", "on"} /\ pc'[q] \in {"on", "left"})
    BY <1>0, <1>3 DEF Resend, Goto, HubTypes
  <2>3. Linked'
    BY <1>0, <1>1, <1>3, <2>1, <2>2, LinkedDetaches DEF Resend, CastTypes
  <2> QED BY <1>3, <2>3, ConnectTypes
<1>4. ASSUME NEW s \in Sub, Leave(s)
      PROVE  TypeOK' /\ Linked'
  <2>1. Detaches({s}, cast)
    BY <1>0, <1>4, Detached DEF Leave, CastTypes
  <2>2. \A q \in Sub : pc'[q] = pc[q] \/ (pc[q] \in {"resend", "on"} /\ pc'[q] \in {"on", "left"})
    BY <1>0, <1>4 DEF Leave, HubTypes
  <2>3. Linked'
    BY <1>0, <1>1, <1>4, <2>1, <2>2, LinkedDetaches DEF Leave, CastTypes
  <2> QED BY <1>4, <2>3, LeaveTypes
<1>5. ASSUME NEW s \in Sub, Break(s)
      PROVE  TypeOK' /\ Linked'
  BY <1>1, <1>5, LeaveTypes, LinkedCast DEF Break, hubs, redis, history
<1>6. ASSUME NEW l \in Sub, Attach(l) \/ Receive(l) \/ ListenerFails(l)
      PROVE  TypeOK' /\ Linked'
  BY <1>6, ListenTypes, LinkedListen
<1>7. ASSUME NEW e \in Event, Publish(e) \/ Store(e) \/ Announce(e) \/ PublishFails(e)
      PROVE  TypeOK' /\ Linked'
  BY <1>7, PublishTypes, LinkedPublish
<1>8. ASSUME NEW t \in Caster, Put(t)
      PROVE  TypeOK' /\ Linked'
  <2>1. \A u \in Caster : cast'[u].to # {} => cast'[u].event \in Event
    BY <1>1, <1>8, ReachedEffect DEF Put
  <2> QED BY <1>8, <2>1, CastStepTypes, LinkedCast DEF CastStep, Put, redis
<1>9. ASSUME NEW t \in Caster, NEW s \in WebSocket, Send(t, s)
      PROVE  TypeOK' /\ Linked'
  <2> DEFINE now == Reached(t, {s})
  <2>1. now \in Casting /\ \A u \in Caster : now[u].to # {} => now[u].event \in Event
    BY <1>1, ReachedEffect
  <2>2. Detaches({s}, now) \/ Detaches({}, now)
    BY <1>0, <1>9, <2>1, Detached, NotDetached DEF Send
  <2> HIDE DEF now
  <2>3. UNCHANGED <<pc, deaf>>
    BY <1>9 DEF Send
  <2>4. {s} \in SUBSET Sub /\ {} \in SUBSET Sub
    BY <1>0
  <2>5. Linked'
    BY <2>1, <2>2, <2>3, <2>4, LinkedDetaches
  <2> QED BY <1>9, <2>5, CastStepTypes DEF CastStep
<1> QED BY <1>2, <1>3, <1>4, <1>5, <1>6, <1>7, <1>8, <1>9 DEF Next, ConnectStep, CastStep

LEMMA LinkedStutter == ASSUME TypeOK, Linked, UNCHANGED vars PROVE TypeOK' /\ Linked'
BY DEF TypeOK, Linked, vars, hubs, redis, history

LEMMA LinkedAlways == Spec => [](TypeOK /\ Linked)
<1>1. TypeOK /\ Linked /\ [Next]_vars => TypeOK' /\ Linked'
  BY LinkedStep, LinkedStutter
<1> QED BY <1>1, TypeInit, PTL DEF Spec

\* Every variable has its type in every reachable state.
THEOREM TypeCorrect == Spec => []TypeOK
BY LinkedAlways, PTL

\* In every reachable state, a hub with subscribers listens, unless Redis has
\* failed it: what connects, leaves or is thrown out of a broadcast meanwhile
\* never closes the listener of somebody who stays.
THEOREM AlwaysListening == Spec => []Listening
<1>1. TypeOK /\ Linked => Listening
  <2> SUFFICES ASSUME TypeOK, Linked, NEW s \in members, pc[s] \in {"replay", "resend", "on"},
                      Home[s] \notin deaf
               PROVE  \E l \in Sub : recorded[Home[s]] = l /\ channel[l] \in {"opening", "attached"}
    BY DEF Listening
  <2>1. Home[s] \in Hub /\ recorded[Home[s]] \in Sub \cup {NoSub}
    BY TypeParts, HubAssumption DEF HubTypes, HubAssumption
  <2>2. recorded[Home[s]] # NoSub
    BY DEF Linked
  <2> QED BY <2>1, <2>2 DEF Linked
<1> QED BY <1>1, LinkedAlways, PTL

-----------------------------------------------------------------------------
(* Nothing comes twice.                                                    *)

\* Broadcasts go on, or end.
Shrinks ==
    \A t \in Caster :
        cast'[t].to \subseteq cast[t].to /\ (cast'[t].to # {} => cast'[t].event = cast[t].event)

LEMMA DetachesShrinks ==
    ASSUME NEW gone, NEW now, Detaches(gone, now),
           \A t \in Caster :
               now[t].to \subseteq cast[t].to /\ (now[t].to # {} => now[t].event = cast[t].event)
    PROVE  Shrinks
BY DEF Detaches, Shrinks, Caster, Idle

LEMMA OnceKept ==
    ASSUME TypeOK, Once, Shrinks, UNCHANGED seen,
           \A s \in Sub, e \in Event : live'[s][e] = live[s][e] \/ live'[s][e] = 0,
           \A e \in Event : task'[e] = "new" => task[e] = "new"
    PROVE  Once'
<1>1. \A h \in Hub : seen[h] \subseteq Event
  BY TypeParts DEF HubTypes
<1>2. Home \in [Sub -> Hub]
  BY HubAssumption DEF HubAssumption
<1> QED BY <1>1, <1>2 DEF Once, Shrinks

\* Some targets of a broadcast get its event.
LEMMA OnceGets ==
    ASSUME TypeOK, Once, Shrinks, UNCHANGED <<seen, task>>,
           NEW t \in Caster, NEW some \in SUBSET cast[t].to, cast'[t].to \cap some = {},
           cast[t].event \in Event,
           \A s \in Sub, e \in Event :
               live'[s][e] = IF e = cast[t].event /\ s \in some THEN live[s][e] + 1 ELSE live[s][e]
    PROVE  Once'
<1>0. /\ \A h \in Hub : seen[h] \subseteq Event
      /\ Home \in [Sub -> Hub]
      /\ live \in [Sub -> [Event -> Nat]]
  BY TypeParts, HubAssumption DEF HubTypes, OtherTypes, HubAssumption
<1>1. \A s \in some \cap Sub :
          cast[t].event \in seen[Home[s]] /\ live[s][cast[t].event] = 0
  BY DEF Once
<1>2. \A s \in Sub, e \in Event :
          live'[s][e] <= 1 /\ (live'[s][e] > 0 => e \in seen[Home[s]])
  BY <1>0, <1>1 DEF Once
<1>3. ASSUME NEW u \in Caster, NEW s \in Sub, s \in cast'[u].to
      PROVE  cast'[u].event \in seen[Home[s]] /\ live'[s][cast'[u].event] = 0
  <2>1. s \in cast[u].to /\ cast'[u].event = cast[u].event
    BY <1>3 DEF Shrinks
  <2>2. cast[u].event \in seen[Home[s]] /\ live[s][cast[u].event] = 0 /\ cast[u].event \in Event
    BY <1>0, <2>1 DEF Once
  <2>3. ~(cast[u].event = cast[t].event /\ s \in some)
    BY <1>3, <2>1 DEF Once
  <2> QED BY <2>1, <2>2, <2>3
<1>4. \A u, v \in Caster, s \in Sub :
          s \in cast'[u].to /\ s \in cast'[v].to /\ cast'[u].event = cast'[v].event => u = v
  BY DEF Once, Shrinks
<1> QED BY <1>2, <1>3, <1>4 DEF Once

\* An event that a hub does not remember is broadcast.
LEMMA OnceBroadcast ==
    ASSUME TypeOK, Once, NEW h \in Hub, NEW t \in Caster, NEW e \in Event, Broadcast(h, t, e),
           e \notin seen[h], UNCHANGED live,
           \A f \in Event : task'[f] = "new" => task[f] = "new",
           task'[e] = "new" => Origin[e] # h
    PROVE  Once'
<1>0. /\ \A g \in Hub : seen[g] \subseteq Event
      /\ Home \in [Sub -> Hub] /\ Origin \in [Event -> Hub]
      /\ live \in [Sub -> [Event -> Nat]]
  BY TypeParts, HubAssumption DEF HubTypes, OtherTypes, HubAssumption
<1>1. /\ cast'[t].event = e /\ cast'[t].to = At(h)
      /\ \A u \in Caster \ {t} : cast'[u] = cast[u]
      /\ seen'[h] = seen[h] \cup {e}
      /\ \A g \in Hub \ {h} : seen'[g] = seen[g]
  BY BroadcastEffect
<1>2. \A g \in Hub : seen[g] \subseteq seen'[g]
  BY <1>1
<1>3. \A s \in At(h) : Home[s] = h
  BY DEF At
<1>4. ASSUME NEW u \in Caster, NEW s \in Sub, s \in cast'[u].to
      PROVE  cast'[u].event \in seen'[Home[s]] /\ live'[s][cast'[u].event] = 0
  <2>1. CASE u = t
    <3>1. Home[s] = h /\ cast'[u].event = e
      BY <1>1, <1>3, <1>4, <2>1
    <3>2. ~(live[s][e] > 0) /\ live[s][e] \in Nat
      BY <1>0, <3>1 DEF Once
    <3> QED BY <1>1, <3>1, <3>2
  <2>2. CASE u # t
    <3>1. cast'[u] = cast[u]
      BY <1>1, <2>2
    <3>2. cast[u].event \in seen[Home[s]] /\ live[s][cast[u].event] = 0
      BY <1>4, <3>1 DEF Once
    <3> QED BY <1>0, <1>2, <3>1, <3>2
  <2> QED BY <2>1, <2>2
<1>5. ASSUME NEW u \in Caster, u # t, NEW s \in Sub, s \in cast'[u].to, s \in cast'[t].to
      PROVE  cast'[u].event # e
  BY <1>1, <1>3, <1>5 DEF Once
<1>6. \A u, v \in Caster, s \in Sub :
          s \in cast'[u].to /\ s \in cast'[v].to /\ cast'[u].event = cast'[v].event => u = v
  BY <1>1, <1>5 DEF Once
<1>7. \A f \in Event : task'[f] = "new" => f \notin seen'[Origin[f]]
  BY <1>0, <1>1 DEF Once
<1>8. \A s \in Sub, f \in Event : live'[s][f] <= 1 /\ (live'[s][f] > 0 => f \in seen'[Home[s]])
  BY <1>0, <1>2 DEF Once
<1> QED BY <1>4, <1>6, <1>7, <1>8 DEF Once

LEMMA OnceStep == ASSUME TypeOK, Linked, Once, Next PROVE Once'
<1>0. HubTypes /\ CastTypes /\ RedisTypes /\ OtherTypes /\ WebSocket \subseteq Sub
  BY TypeParts, HubAssumption DEF HubAssumption
<1>1. UNCHANGED cast => Shrinks
  BY DEF Shrinks
<1>2. ASSUME NEW s \in Sub,
             \/ Connect(s) \/ SubscribeFails(s) \/ Record(s) \/ Fetch(s) \/ FetchFails(s)
             \/ Break(s) \/ Attach(s) \/ ListenerFails(s)
      PROVE  Once'
  <2>1. UNCHANGED <<cast, seen, live, task>>
    BY <1>2 DEF Connect, SubscribeFails, Record, Fetch, FetchFails, Break, Attach, ListenerFails,
                hubs, redis, history
  <2> QED BY <1>1, <2>1, OnceKept
<1>3. ASSUME NEW s \in Sub, Leave(s) \/ Resend(s)
      PROVE  Once'
  <2>1. Detaches({s}, cast) \/ Detaches({}, cast)
    BY <1>0, <1>3, Detached, NotDetached DEF Leave, Resend, CastTypes
  <2>2. Shrinks
    BY <2>1, DetachesShrinks
  <2>3. \A q \in Sub, e \in Event : live'[q][e] = live[q][e] \/ live'[q][e] = 0
    BY <1>0, <1>3 DEF Leave, Resend, OtherTypes, Nothing
  <2> QED BY <1>3, <2>2, <2>3, OnceKept DEF Leave, Resend
<1>4. ASSUME NEW l \in Sub, Receive(l)
      PROVE  Once'
  <2> DEFINE h == Home[l]
             e == Head(inbox[l])
  <2>1. h \in Hub /\ l \in Caster /\ e \in Event
    BY <1>0, <1>4, HeadTailProperties, HubAssumption DEF Receive, RedisTypes, Caster, HubAssumption
  <2>2. UNCHANGED <<live, task>>
    BY <1>4 DEF Receive, history
  <2>3. CASE Known(h, e)
    BY <1>1, <1>4, <2>2, <2>3, OnceKept DEF Receive
  <2>4. CASE ~Known(h, e)
    <3>1. Broadcast(h, l, e) /\ e \notin seen[h] /\ Origin[e] # h
      BY <1>4, <2>4 DEF Receive, Known
    <3> QED BY <2>1, <2>2, <3>1, OnceBroadcast
  <2> QED BY <2>3, <2>4
<1>5. ASSUME NEW e \in Event, Publish(e)
      PROVE  Once'
  <2>1. Origin[e] \in Hub /\ e \in Caster
    BY HubAssumption DEF Caster, HubAssumption
  <2>2. Broadcast(Origin[e], e, e) /\ e \notin seen[Origin[e]] /\ UNCHANGED live
    BY <1>5 DEF Publish, Once, history
  <2>3. task'[e] # "new" /\ \A f \in Event : task'[f] = "new" => task[f] = "new"
    BY <1>0, <1>5 DEF Publish, HubTypes
  <2> QED BY <2>1, <2>2, <2>3, OnceBroadcast
<1>6. ASSUME NEW e \in Event, Store(e) \/ Announce(e) \/ PublishFails(e)
      PROVE  Once'
  <2>1. Shrinks
    BY <1>1, <1>6, IdleEffect DEF Store, Announce, PublishFails, Shrinks
  <2>2. UNCHANGED <<seen, live>> /\ \A f \in Event : task'[f] = "new" => task[f] = "new"
    BY <1>0, <1>6 DEF Store, Announce, PublishFails, HubTypes, history
  <2> QED BY <2>1, <2>2, OnceKept
<1>7. ASSUME NEW t \in Caster, Put(t)
      PROVE  Once'
  <2>1. cast[t].event \in Event
    BY <1>7 DEF Put, Linked
  <2>2. PICK full \in SUBSET (cast[t].to \cap members) :
            /\ live' \in [Sub -> [Event -> Nat]]
            /\ had' \in [Sub -> SUBSET Event]
            /\ \A s \in Sub, e \in Event :
                  /\ live'[s][e] = IF e = cast[t].event /\ s \in (cast[t].to \cap members) \ full
                                   THEN live[s][e] + 1 ELSE live[s][e]
                  /\ e \in had'[s] <=> (e \in had[s] \/ (e = cast[t].event /\ s \in full))
    BY <1>7, <2>1, PutEffect
  <2>3. Shrinks /\ cast'[t].to = {}
    BY <1>7, ReachedEffect DEF Put, Shrinks
  <2> DEFINE some == (cast[t].to \cap members) \ full
  <2>4. some \in SUBSET cast[t].to /\ cast'[t].to \cap some = {}
    BY <2>3
  <2> HIDE DEF some
  <2>5. \A s \in Sub, e \in Event :
            live'[s][e] = IF e = cast[t].event /\ s \in some THEN live[s][e] + 1 ELSE live[s][e]
    BY <2>2 DEF some
  <2> QED BY <1>7, <2>1, <2>3, <2>4, <2>5, OnceGets DEF Put
<1>8. ASSUME NEW t \in Caster, NEW s \in WebSocket, Send(t, s)
      PROVE  Once'
  <2> DEFINE now == Reached(t, {s})
  <2>1. /\ now \in Casting
        /\ \A u \in Caster :
              now[u].to \subseteq cast[u].to /\ (now[u].to # {} => now[u].event = cast[u].event)
        /\ s \notin now[t].to
    BY ReachedEffect
  <2>2. Detaches({s}, now) \/ Detaches({}, now)
    BY <1>0, <1>8, <2>1, Detached, NotDetached DEF Send
  <2>3. cast[t].event \in Event /\ s \in cast[t].to
    BY <1>8 DEF Send, Linked
  <2>4. UNCHANGED <<seen, task>>
    BY <1>8 DEF Send
  <2>5. CASE UNCHANGED live
    <3>1. Shrinks
      BY <2>1, <2>2, DetachesShrinks
    <3> QED BY <2>4, <2>5, <3>1, OnceKept
  <2>6. CASE cast' = now /\ live' = [live EXCEPT ![s][cast[t].event] = @ + 1]
    <3>1. Shrinks /\ cast'[t].to \cap {s} = {}
      BY <2>1, <2>6 DEF Shrinks
    <3>2. \A q \in Sub, e \in Event :
              live'[q][e] = IF e = cast[t].event /\ q \in {s} THEN live[q][e] + 1 ELSE live[q][e]
      BY <1>0, <2>3, <2>6, SendEffect
    <3>3. {s} \in SUBSET cast[t].to
      BY <2>3
    <3> QED BY <2>3, <2>4, <3>1, <3>2, <3>3, OnceGets
  <2> QED BY <1>8, <2>5, <2>6 DEF Send
<1> QED BY <1>2, <1>3, <1>4, <1>5, <1>6, <1>7, <1>8 DEF Next, ConnectStep, CastStep

\* In every reachable state, no event has reached a subscriber live twice: not by
\* two listeners of its hub, nor by its hub and by Redis.
THEOREM DeliveredOnce == Spec => []OnceLive
<1>1. Init => Once
  BY HubAssumption DEF Init, Once, Idle, HubAssumption
<1>2. TypeOK /\ Linked /\ Once /\ UNCHANGED vars => Once'
  BY DEF Once, vars, hubs, history
<1>3. Once => OnceLive
  BY DEF Once, OnceLive
<1> QED BY <1>1, <1>2, <1>3, OnceStep, LinkedAlways, PTL DEF Spec

-----------------------------------------------------------------------------
(* No gap.                                                                 *)

\* A step that only takes subscribers out of what Passed and Covers speak of, and
\* leaves to the others what has reached them or is on its way.
LEMMA GapKept ==
    ASSUME Passed, Covers, UNCHANGED <<seen, stream>>,
           members' \cap covered' \subseteq members \cap covered,
           broken \subseteq broken', deaf \subseteq deaf',
           \A s \in covered' : pc'[s] \in {"resend", "on"},
           \A s \in covered' \cap members' : Home[s] \notin deaf' => Listens(Home[s])',
           \A e \in Event : task[e] = "announced" <=> task'[e] = "announced",
           \A l \in Sub : \A i \in DOMAIN inbox'[l] : task'[inbox'[l][i]] = "announced",
           \A s \in (members' \cap covered') \ broken', e \in Oldest :
               /\ Reach(s, e) => Reach(s, e)'
               /\ Home[s] \notin deaf' /\ Heard(s, e) => Heard(s, e)',
           Oldest \subseteq Event
    PROVE  Passed' /\ Covers'
<1>1. Oldest' = Oldest
  BY DEF Oldest
<1>2. Passed'
  BY <1>1 DEF Passed
<1>3. Covers'
  BY <1>1 DEF Covers
<1> QED BY <1>2, <1>3

\* The same when listeners and their inboxes stay.
LEMMA GapStays ==
    ASSUME TypeOK, Passed, Covers, UNCHANGED <<seen, stream, channel, inbox, task>>,
           members' \cap covered' \subseteq members \cap covered,
           broken \subseteq broken', deaf \subseteq deaf',
           \A s \in covered' : pc'[s] \in {"resend", "on"},
           \A s \in (members' \cap covered') \ broken', e \in Oldest : Reach(s, e) => Reach(s, e)'
    PROVE  Passed' /\ Covers'
<1>0. Oldest \subseteq Event
  BY TypeParts DEF Oldest, RedisTypes
<1>1. \A h \in Hub : Listens(h) => Listens(h)'
  BY DEF Listens
<1>2. \A s \in covered' \cap members' : Home[s] \notin deaf' => Listens(Home[s])'
  BY <1>1 DEF Passed, Listens
<1>3. \A s, e : Heard(s, e) => Heard(s, e)'
  BY DEF Heard
<1>4. \A l \in Sub : \A i \in DOMAIN inbox'[l] : task'[inbox'[l][i]] = "announced"
  BY DEF Passed
<1> QED BY <1>0, <1>2, <1>3, <1>4, GapKept

\* Who stays keeps the listeners of its hub.
LEMMA GapDetaches ==
    ASSUME TypeOK, Passed, Covers, NEW gone \in SUBSET Sub, NEW now \in Casting,
           Detaches(gone, now), UNCHANGED <<seen, stream, deaf, task>>,
           covered' \subseteq covered, broken \subseteq broken',
           \A s \in covered' : pc'[s] \in {"resend", "on"},
           \A s \in (members' \cap covered') \ broken', e \in Oldest :
               Reach(s, e) =>
                   \/ Has(s, e)' \/ e \in rest'[s]
                   \/ \E l \in Sub : Home[l] = Home[s] /\ now[l].event = e /\ s \in now[l].to
    PROVE  Passed' /\ Covers'
<1>0. Oldest \subseteq Event /\ members \subseteq Sub
  BY TypeParts DEF Oldest, RedisTypes, HubTypes
<1>1. ASSUME NEW s \in members', NEW l \in Sub, Home[l] = Home[s]
      PROVE  channel'[l] = channel[l] /\ inbox'[l] = inbox[l] /\ cast'[l] = now[l]
  <2>1. s \in At(Home[l]) /\ s \notin gone
    BY <1>1 DEF Detaches, At
  <2> QED BY <2>1 DEF Detaches
<1>2. \A s \in covered' \cap members' : Home[s] \notin deaf' => Listens(Home[s])'
  <2> SUFFICES ASSUME NEW s \in covered' \cap members', Home[s] \notin deaf'
               PROVE  Listens(Home[s])'
    OBVIOUS
  <2>1. s \in covered \cap members
    BY DEF Detaches
  <2>2. PICK l \in Sub : Home[l] = Home[s] /\ channel[l] = "attached"
    BY <2>1 DEF Passed, Listens
  <2> QED BY <1>1, <2>2 DEF Listens
<1>3. \A l \in Sub : inbox'[l] = inbox[l] \/ inbox'[l] = <<>>
  BY DEF Detaches
<1>4. \A l \in Sub : \A i \in DOMAIN inbox'[l] : task'[inbox'[l][i]] = "announced"
  <2> TAKE l \in Sub
  <2>1. CASE inbox'[l] = inbox[l]
    BY <2>1 DEF Passed
  <2>2. CASE inbox'[l] = <<>>
    BY <2>2
  <2> QED BY <1>3, <2>1, <2>2
<1>5. ASSUME NEW s \in (members' \cap covered') \ broken', NEW e \in Oldest
      PROVE  /\ Reach(s, e) => Reach(s, e)'
             /\ Heard(s, e) => Heard(s, e)'
  <2>1. Heard(s, e) => Heard(s, e)'
    BY <1>1 DEF Heard
  <2>2. ASSUME NEW l \in Sub, Home[l] = Home[s], now[l].event = e, s \in now[l].to
        PROVE  Reach(s, e)'
    BY <1>1, <2>2 DEF Reach
  <2>3. Has(s, e)' \/ e \in rest'[s] => Reach(s, e)'
    BY DEF Reach
  <2> QED BY <2>1, <2>2, <2>3
<1>6. members' \cap covered' \subseteq members \cap covered
  BY DEF Detaches
<1> QED BY <1>0, <1>2, <1>4, <1>5, <1>6, GapKept

LEMMA GapConnect ==
    ASSUME TypeOK, Linked, Passed, Covers, NEW s \in Sub,
           Connect(s) \/ SubscribeFails(s) \/ Record(s) \/ Attach(s) \/ FetchFails(s)
    PROVE  Passed' /\ Covers'
<1>0. HubTypes /\ RedisTypes /\ OtherTypes /\ Oldest \subseteq Event
  BY TypeParts DEF RedisTypes, Oldest
<1>1. /\ UNCHANGED <<rest, seen, task, cast, stream, inbox, broken, live, had, covered>>
      /\ deaf \subseteq deaf'
      /\ s \notin covered \/ Attach(s)
      /\ members' \cap covered' \subseteq members \cap covered
  BY <1>0 DEF Connect, SubscribeFails, Record, Attach, FetchFails, Passed, hubs, redis, history
<1>2. \A q \in covered' : pc'[q] \in {"resend", "on"}
  <2> SUFFICES ASSUME NEW q \in covered PROVE pc'[q] \in {"resend", "on"}
    BY <1>1
  <2>1. pc[q] \in {"resend", "on"} /\ q \in Sub
    BY <1>0 DEF Passed, OtherTypes
  <2>2. UNCHANGED pc \/ (pc[s] \notin {"resend", "on"} /\ \E where : Goto(s, where))
    BY <1>0 DEF Connect, SubscribeFails, Record, Attach, FetchFails, hubs
  <2> QED BY <1>0, <2>1, <2>2 DEF Goto, HubTypes
<1>3. ASSUME NEW l \in Sub, channel[l] = "attached"
      PROVE  channel'[l] = "attached"
  BY <1>0, <1>3
  DEF Connect, SubscribeFails, Record, Attach, FetchFails, Linked, RedisTypes, redis
<1>4. \A q \in covered' \cap members' : Home[q] \notin deaf' => Listens(Home[q])'
  BY <1>1, <1>3 DEF Passed, Listens
<1>5. \A q, e : (Reach(q, e) => Reach(q, e)') /\ (Heard(q, e) => Heard(q, e)')
  BY <1>1 DEF Reach, Has, Heard
<1>6. \A l \in Sub : \A i \in DOMAIN inbox'[l] : task'[inbox'[l][i]] = "announced"
  BY <1>1 DEF Passed
<1> QED BY <1>0, <1>1, <1>2, <1>4, <1>5, <1>6, GapKept

LEMMA GapFetch ==
    ASSUME TypeOK, Passed, Covers, NEW s \in Sub, Fetch(s)
    PROVE  Passed' /\ Covers'
<1>0. HubTypes /\ OtherTypes
  BY TypeParts
<1>1. /\ UNCHANGED <<members, seen, task, cast, stream, channel, inbox, broken, live, had, deaf>>
      /\ pc[s] = "replay" /\ pc'[s] = "resend" /\ \A q \in Sub \ {s} : pc'[q] = pc[q]
      /\ rest'[s] = Oldest /\ \A q \in Sub \ {s} : rest'[q] = rest[q]
      /\ covered' = covered \/ (covered' = covered \cup {s} /\ Listens(Home[s]))
  BY <1>0 DEF Fetch, Goto, HubTypes, redis
<1>2. Oldest' = Oldest /\ \A h : Listens(h)' = Listens(h)
  BY <1>1 DEF Oldest, Listens
<1>3. s \notin covered /\ covered \subseteq Sub /\ covered' \subseteq Sub
  BY <1>0, <1>1 DEF Passed, OtherTypes
<1>4. \A q \in covered', e \in Oldest :
          /\ q = s => Reach(q, e)'
          /\ q # s => (Reach(q, e) => Reach(q, e)') /\ (Heard(q, e) => Heard(q, e)')
  BY <1>1, <1>3 DEF Reach, Has, Heard
<1>5. Passed'
  BY <1>1, <1>2, <1>3, <1>4 DEF Passed
<1>6. Covers'
  BY <1>1, <1>2, <1>3, <1>4 DEF Covers
<1> QED BY <1>5, <1>6

\* Who leaves is not covered any more; who has been sent its replay has got it.
LEMMA GapLeave ==
    ASSUME TypeOK, Linked, Passed, Covers, NEW s \in Sub, Leave(s) \/ Resend(s) \/ Break(s)
    PROVE  Passed' /\ Covers'
<1>0. HubTypes /\ CastTypes /\ OtherTypes
  BY TypeParts
<1>1. CASE Leave(s)
  <2>1. Detaches({s}, cast)
    BY <1>0, <1>1, Detached DEF Leave, CastTypes
  <2>2. \A q \in covered' : pc'[q] \in {"resend", "on"}
    BY <1>0, <1>1 DEF Leave, Passed, HubTypes, OtherTypes
  <2>3. ASSUME NEW q \in (members' \cap covered') \ broken', NEW e \in Oldest
        PROVE  (Has(q, e) <=> Has(q, e)') /\ rest'[q] = rest[q]
    BY <1>0, <1>1, <2>3 DEF Leave, OtherTypes, Has
  <2>4. ASSUME NEW q \in (members' \cap covered') \ broken', NEW e \in Oldest, Reach(q, e)
        PROVE  \/ Has(q, e)' \/ e \in rest'[q]
               \/ \E l \in Sub : Home[l] = Home[q] /\ cast[l].event = e /\ q \in cast[l].to
    BY <2>3, <2>4 DEF Reach
  <2> QED BY <1>0, <1>1, <2>1, <2>2, <2>4, GapDetaches DEF Leave, CastTypes
<1>2. CASE Resend(s)
  <2>1. Detaches({s}, cast) \/ Detaches({}, cast)
    BY <1>0, <1>2, Detached, NotDetached DEF Resend, CastTypes
  <2>2. \A q \in covered' : pc'[q] \in {"resend", "on"}
    BY <1>0, <1>2 DEF Resend, Goto, Passed, HubTypes, OtherTypes
  <2>3. ASSUME NEW q \in (members' \cap covered') \ broken', NEW e \in Oldest
        PROVE  Has(q, e) \/ e \in rest[q] => Has(q, e)' \/ e \in rest'[q]
    <3>1. CASE q = s
      <4>1. had'[s] = had[s] \cup rest[s] /\ UNCHANGED live
        BY <1>0, <1>2, <2>3, <3>1 DEF Resend, OtherTypes
      <4> QED BY <3>1, <4>1 DEF Has
    <3>2. CASE q # s
      <4>1. q \in Sub
        BY <1>0, <1>2, <2>3 DEF Resend, OtherTypes
      <4>2. had'[q] = had[q] /\ UNCHANGED live /\ rest'[q] = rest[q]
        BY <1>0, <1>2, <3>2, <4>1 DEF Resend, HubTypes, OtherTypes
      <4> QED BY <4>2 DEF Has
    <3> QED BY <3>1, <3>2
  <2>4. ASSUME NEW q \in (members' \cap covered') \ broken', NEW e \in Oldest, Reach(q, e)
        PROVE  \/ Has(q, e)' \/ e \in rest'[q]
               \/ \E l \in Sub : Home[l] = Home[q] /\ cast[l].event = e /\ q \in cast[l].to
    BY <2>3, <2>4 DEF Reach
  <2>5. UNCHANGED <<seen, stream, deaf, task, covered, broken>>
    BY <1>2 DEF Resend
  <2>6. {s} \in SUBSET Sub /\ {} \in SUBSET Sub /\ cast \in Casting
    BY <1>0 DEF CastTypes
  <2> QED BY <2>1, <2>2, <2>4, <2>5, <2>6, GapDetaches
<1>3. CASE Break(s)
  <2>1. /\ UNCHANGED <<pc, rest, seen, stream, channel, inbox, task, members, covered, deaf, cast, live, had>>
        /\ broken \subseteq broken'
    BY <1>3 DEF Break, hubs, redis, history
  <2>2. \A q, e : Reach(q, e) => Reach(q, e)'
    BY <2>1 DEF Reach, Has
  <2>3. \A q \in covered' : pc'[q] \in {"resend", "on"}
    BY <2>1 DEF Passed
  <2> QED BY <2>1, <2>2, <2>3, GapStays
<1> QED BY <1>1, <1>2, <1>3

\* Whom a broadcast reaches has got its event, or lost it by a full queue.
LEMMA GapCast ==
    ASSUME TypeOK, Linked, Passed, Covers, NEW t \in Caster, CastStep(t)
    PROVE  Passed' /\ Covers'
<1>0. HubTypes /\ OtherTypes /\ WebSocket \subseteq Sub
  BY TypeParts, HubAssumption DEF HubAssumption
<1>1. CASE Put(t)
  <2>1. cast[t].event \in Event
    BY <1>1 DEF Put, Linked
  <2>2. PICK full \in SUBSET (cast[t].to \cap members) :
            /\ live' \in [Sub -> [Event -> Nat]]
            /\ had' \in [Sub -> SUBSET Event]
            /\ \A s \in Sub, e \in Event :
                  /\ live'[s][e] = IF e = cast[t].event /\ s \in (cast[t].to \cap members) \ full
                                   THEN live[s][e] + 1 ELSE live[s][e]
                  /\ e \in had'[s] <=> (e \in had[s] \/ (e = cast[t].event /\ s \in full))
    BY <1>1, <2>1, PutEffect
  <2>3. \A u \in Caster \ {t} : cast'[u] = cast[u]
    BY <1>1, ReachedEffect DEF Put
  <2>4. UNCHANGED <<pc, rest, seen, stream, channel, inbox, task, members, covered, broken, deaf>>
    BY <1>1 DEF Put, redis
  <2>5. Oldest \subseteq Event
    BY TypeParts DEF Oldest, RedisTypes
  <2>6. ASSUME NEW s \in (members' \cap covered') \ broken', NEW e \in Oldest, Reach(s, e)
        PROVE  Reach(s, e)'
    <3>0. s \in Sub /\ s \in members /\ e \in Event /\ live[s][e] \in Nat
      BY <1>0, <2>4, <2>5, <2>6 DEF HubTypes, OtherTypes
    <3>1. CASE Has(s, e)
      <4>1. Has(s, e)'
        BY <2>2, <3>0, <3>1 DEF Has
      <4> QED BY <4>1 DEF Reach
    <3>2. CASE e \in rest[s]
      BY <2>4, <3>2 DEF Reach
    <3>3. CASE s \in cast[t].to /\ e = cast[t].event
      <4>1. Has(s, e)'
        BY <2>2, <3>0, <3>3 DEF Has
      <4> QED BY <4>1 DEF Reach
    <3>4. ASSUME NEW l \in Sub, l # t, Home[l] = Home[s], cast[l].event = e, s \in cast[l].to
          PROVE  Reach(s, e)'
      BY <2>3, <3>4 DEF Reach, Caster
    <3> QED BY <2>6, <3>1, <3>2, <3>3, <3>4 DEF Reach
  <2>7. \A q \in covered' : pc'[q] \in {"resend", "on"}
    BY <2>4 DEF Passed
  <2> QED BY <2>4, <2>6, <2>7, GapStays
<1>2. ASSUME NEW q \in WebSocket, Send(t, q)
      PROVE  Passed' /\ Covers'
  <2> DEFINE now == Reached(t, {q})
  <2>1. /\ now \in Casting
        /\ now[t].event = cast[t].event /\ now[t].to = cast[t].to \ {q}
        /\ \A u \in Caster \ {t} : now[u] = cast[u]
    BY ReachedEffect
  <2>2. Detaches({q}, now) \/ Detaches({}, now)
    BY <1>0, <1>2, <2>1, Detached, NotDetached DEF Send
  <2>3. cast[t].event \in Event /\ Oldest \subseteq Event
    BY <1>2, TypeParts DEF Send, Linked, Oldest, RedisTypes
  <2>4. UNCHANGED <<pc, rest, seen, task, stream, broken, had, covered, deaf>>
    BY <1>2 DEF Send
  <2>5. q \notin broken => live' = [live EXCEPT ![q][cast[t].event] = @ + 1]
    BY <1>2 DEF Send
  <2>6. q \in broken => UNCHANGED live
    BY <1>2 DEF Send
  <2> HIDE DEF now
  <2>7. ASSUME NEW s \in (members' \cap covered') \ broken', NEW e \in Oldest, Reach(s, e)
        PROVE  \/ Has(s, e)' \/ e \in rest'[s]
               \/ \E l \in Sub : Home[l] = Home[s] /\ now[l].event = e /\ s \in now[l].to
    <3>0. s \in Sub /\ e \in Event /\ live[s][e] \in Nat /\ s \notin broken
      BY <1>0, <2>3, <2>4, <2>7 DEF OtherTypes
    <3>1. live'[s][e] = live[s][e] \/ live'[s][e] = live[s][e] + 1
      BY <1>0, <2>3, <2>5, <2>6, <3>0, SendEffect
    <3>2. CASE Has(s, e)
      BY <2>4, <3>0, <3>1, <3>2 DEF Has
    <3>3. CASE e \in rest[s]
      BY <2>4, <3>3
    <3>4. CASE s = q /\ e = cast[t].event
      <4>1. live'[s][e] = live[s][e] + 1
        BY <1>0, <2>3, <2>5, <3>0, <3>4, SendEffect
      <4> QED BY <3>0, <4>1 DEF Has
    <3>5. ASSUME NEW l \in Sub, Home[l] = Home[s], cast[l].event = e, s \in cast[l].to,
                 ~(s = q /\ e = cast[t].event)
          PROVE  now[l].event = e /\ s \in now[l].to
      BY <2>1, <3>5 DEF Caster
    <3> QED BY <2>7, <3>2, <3>3, <3>4, <3>5 DEF Reach
  <2>8. \A s \in covered' : pc'[s] \in {"resend", "on"}
    BY <2>4 DEF Passed
  <2>9. {q} \in SUBSET Sub /\ {} \in SUBSET Sub
    BY <1>0
  <2> QED BY <2>1, <2>2, <2>4, <2>7, <2>8, <2>9, GapDetaches
<1> QED BY <1>1, <1>2 DEF CastStep

\* A listener reads an event: what it does not broadcast has reached everybody.
LEMMA GapReceive ==
    ASSUME TypeOK, Linked, Passed, Covers, NEW l \in Sub, Receive(l)
    PROVE  Passed' /\ Covers'
<1>0. HubTypes /\ OtherTypes /\ Oldest \subseteq Event /\ Home \in [Sub -> Hub] /\ l \in Caster
  BY TypeParts, HubAssumption DEF RedisTypes, Oldest, HubAssumption, Caster
<1>1. inbox \in [Sub -> Seq(Event)] /\ inbox[l] \in Seq(Event) /\ inbox[l] # <<>>
  BY TypeParts DEF Receive, RedisTypes
<1>h. PICK h \in Hub : h = Home[l]
  BY <1>0
<1>2. PICK e \in Event : e = Head(inbox[l])
  BY <1>1, HeadTailProperties
<1>3. /\ inbox'[l] = Tail(inbox[l])
      /\ \A k \in Sub \ {l} : inbox'[k] = inbox[k]
  BY <1>1 DEF Receive
<1>4. /\ UNCHANGED <<pc, members, rest, recorded, task, stream, channel, broken, live, had, covered, deaf>>
      /\ cast[l].to = {}
      /\ \/ Known(h, e) /\ UNCHANGED <<seen, cast>>
         \/ ~Known(h, e) /\ Broadcast(h, l, e)
  BY <1>2, <1>h DEF Receive, history
<1>5. task[e] = "announced"
  <2>1. 1 \in DOMAIN inbox[l] /\ inbox[l][1] = e
    BY <1>1, <1>2
  <2> QED BY <2>1 DEF Passed
<1>6. \A i \in DOMAIN Tail(inbox[l]) : i + 1 \in DOMAIN inbox[l] /\ Tail(inbox[l])[i] = inbox[l][i + 1]
  BY <1>1
<1>7. \A i \in DOMAIN inbox[l] :
          inbox[l][i] = e \/ \E j \in DOMAIN Tail(inbox[l]) : Tail(inbox[l])[j] = inbox[l][i]
  <2> TAKE i \in DOMAIN inbox[l]
  <2>1. CASE i = 1
    BY <1>1, <1>2, <2>1
  <2>2. CASE i # 1
    <3>1. i - 1 \in DOMAIN Tail(inbox[l]) /\ Tail(inbox[l])[i - 1] = inbox[l][i]
      BY <1>1, <2>2
    <3> QED BY <3>1
  <2> QED BY <2>1, <2>2
<1>8. /\ seen'[h] \subseteq seen[h] \cup {e}
      /\ \A g \in Hub \ {h} : seen'[g] = seen[g]
      /\ \A u \in Caster \ {l} : cast'[u] = cast[u]
      /\ cast' = cast \/ (cast'[l].event = e /\ cast'[l].to = At(h) /\ e \notin seen[h])
  BY <1>0, <1>2, <1>4, BroadcastEffect DEF Known
<1>9. \A s, f : Reach(s, f) => Reach(s, f)'
  <2> SUFFICES ASSUME NEW s, NEW f, Reach(s, f) PROVE Reach(s, f)'
    OBVIOUS
  <2>1. CASE Has(s, f) \/ f \in rest[s]
    BY <1>4, <2>1 DEF Reach, Has
  <2>2. ASSUME NEW k \in Sub, Home[k] = Home[s], cast[k].event = f, s \in cast[k].to
        PROVE  Reach(s, f)'
    <3>1. k # l
      BY <1>4, <2>2
    <3>2. cast'[k] = cast[k]
      BY <1>8, <3>1 DEF Caster
    <3> QED BY <2>2, <3>2 DEF Reach
  <2> QED BY <2>1, <2>2 DEF Reach
<1>10. ASSUME NEW s \in (members \cap covered) \ broken, Home[s] = h, Origin[e] # h, e \in Oldest
       PROVE  Reach(s, e)'
  <2>1. CASE e \in seen[h]
    BY <1>9, <1>10, <2>1 DEF Passed
  <2>2. CASE e \notin seen[h]
    <3>1. Broadcast(h, l, e)
      BY <1>4, <1>10, <2>2 DEF Known
    <3>2. cast'[l].event = e /\ cast'[l].to = At(h)
      BY <1>0, <1>2, <3>1, BroadcastEffect
    <3>3. s \in At(h)
      BY <1>10 DEF At
    <3> QED BY <1>10, <1>h, <3>2, <3>3 DEF Reach
  <2> QED BY <2>1, <2>2
<1>11. Oldest' = Oldest /\ \A g : Listens(g)' = Listens(g)
  BY <1>4 DEF Oldest, Listens
<1>12. Passed'
  <2>1. /\ \A s \in covered' : pc'[s] \in {"resend", "on"}
        /\ \A s \in covered' \cap members' : Home[s] \notin deaf' => Listens(Home[s])'
    BY <1>4, <1>11 DEF Passed
  <2>2. \A g \in Hub, f \in Event : f \in seen'[g] /\ Origin[f] # g => task'[f] = "announced"
    BY <1>0, <1>4, <1>5, <1>8 DEF Passed
  <2>3. \A k \in Sub : \A i \in DOMAIN inbox'[k] : task'[inbox'[k][i]] = "announced"
    <3> TAKE k \in Sub
    <3>1. CASE k = l
      <4>1. \A i \in DOMAIN inbox[l] : task[inbox[l][i]] = "announced"
        BY DEF Passed
      <4>2. ASSUME NEW i \in DOMAIN Tail(inbox[l])
            PROVE  task[Tail(inbox[l])[i]] = "announced"
        <5>1. i + 1 \in DOMAIN inbox[l] /\ Tail(inbox[l])[i] = inbox[l][i + 1]
          BY <1>6
        <5> QED BY <4>1, <5>1
      <4> QED BY <1>3, <1>4, <3>1, <4>2
    <3>2. CASE k # l
      BY <1>3, <1>4, <3>2 DEF Passed
    <3> QED BY <3>1, <3>2
  <2>4. ASSUME NEW s \in (members' \cap covered') \ broken', NEW f \in Oldest',
               Origin[f] # Home[s], f \in seen'[Home[s]]
        PROVE  Reach(s, f)'
    <3>1. s \in (members \cap covered) \ broken /\ f \in Oldest /\ Home[s] \in Hub
      BY <1>0, <1>4, <1>11, <2>4 DEF HubTypes
    <3>2. CASE f \in seen[Home[s]]
      BY <1>9, <2>4, <3>1, <3>2 DEF Passed
    <3>3. CASE f \notin seen[Home[s]]
      <4>1. Home[s] = h /\ f = e
        BY <1>8, <2>4, <3>1, <3>3
      <4> QED BY <1>10, <2>4, <3>1, <4>1
    <3> QED BY <3>2, <3>3
  <2> QED BY <2>1, <2>2, <2>3, <2>4 DEF Passed
<1>13. Covers'
  <2> SUFFICES ASSUME NEW s \in (members' \cap covered') \ broken', NEW f \in Oldest',
                      Home[s] \notin deaf', task'[f] = "announced", Origin[f] # Home[s]
               PROVE  Reach(s, f)' \/ Heard(s, f)'
    BY DEF Covers
  <2>1. s \in (members \cap covered) \ broken /\ f \in Oldest
    BY <1>4, <1>11
  <2>2. Reach(s, f) \/ Heard(s, f)
    BY <1>4, <2>1 DEF Covers
  <2>3. CASE Reach(s, f)
    BY <1>9, <2>3
  <2>4. ASSUME NEW k \in Sub, Home[k] = Home[s], NEW i \in DOMAIN inbox[k], inbox[k][i] = f
        PROVE  Reach(s, f)' \/ Heard(s, f)'
    <3>1. CASE k # l
      BY <1>3, <2>4, <3>1 DEF Heard
    <3>2. CASE k = l /\ f = e
      BY <1>10, <1>h, <2>1, <2>4, <3>2
    <3>3. CASE k = l /\ f # e
      <4>1. PICK j \in DOMAIN Tail(inbox[l]) : Tail(inbox[l])[j] = f
        BY <1>7, <2>4, <3>3
      <4> QED BY <1>3, <2>4, <3>3, <4>1 DEF Heard
    <3> QED BY <3>1, <3>2, <3>3
  <2> QED BY <2>2, <2>3, <2>4 DEF Heard
<1> QED BY <1>12, <1>13

\* A hub whose listener fails is deaf, and nothing is promised to it.
LEMMA GapFails ==
    ASSUME TypeOK, Linked, Passed, Covers, NEW l \in Sub, ListenerFails(l)
    PROVE  Passed' /\ Covers'
<1>0. RedisTypes /\ OtherTypes /\ Oldest \subseteq Event
  BY TypeParts DEF RedisTypes, Oldest
<1>1. /\ UNCHANGED <<pc, members, rest, seen, task, cast, stream, broken, live, had, covered>>
      /\ deaf' = deaf \cup {Home[l]}
      /\ inbox'[l] = <<>>
      /\ \A k \in Sub \ {l} : channel'[k] = channel[k] /\ inbox'[k] = inbox[k]
  BY <1>0 DEF ListenerFails, RedisTypes, hubs
<1>2. \A s \in covered' : pc'[s] \in {"resend", "on"}
  BY <1>1 DEF Passed
<1>3. \A s \in covered' \cap members' : Home[s] \notin deaf' => Listens(Home[s])'
  BY <1>1 DEF Passed, Listens
<1>4. \A s, e : Reach(s, e) => Reach(s, e)'
  BY <1>1 DEF Reach, Has
<1>5. \A s, e : Home[s] \notin deaf' /\ Heard(s, e) => Heard(s, e)'
  BY <1>1 DEF Heard
<1>6. \A k \in Sub : \A i \in DOMAIN inbox'[k] : task'[inbox'[k][i]] = "announced"
  BY <1>1 DEF Passed
<1> QED BY <1>0, <1>1, <1>2, <1>3, <1>4, <1>5, <1>6, GapKept

LEMMA GapPublish ==
    ASSUME TypeOK, Linked, Passed, Covers, NEW e \in Event, Publish(e) \/ PublishFails(e)
    PROVE  Passed' /\ Covers'
<1>0. /\ HubTypes /\ Oldest \subseteq Event
      /\ e \in Caster /\ e \notin Sub
      /\ Origin[e] \in Hub /\ Home \in [Sub -> Hub]
  BY TypeParts, HubAssumption DEF RedisTypes, Oldest, Caster, HubAssumption
<1>1. /\ UNCHANGED <<pc, members, rest, stream, channel, inbox, broken, live, had, covered, deaf>>
      /\ \A f \in Event : task[f] = "announced" <=> task'[f] = "announced"
  BY <1>0 DEF Publish, PublishFails, HubTypes, redis, history
<1>2. \A u \in Caster \ {e} : cast'[u] = cast[u]
  BY <1>0, BroadcastEffect, IdleEffect DEF Publish, PublishFails
<1>3. \A h \in Hub, f \in Event : f \in seen'[h] /\ Origin[f] # h => f \in seen[h]
  BY <1>0, BroadcastEffect DEF Publish, PublishFails
<1>4. Oldest' = Oldest /\ \A h : Listens(h)' = Listens(h)
  BY <1>1 DEF Oldest, Listens
<1>5. \A s, f : Reach(s, f) => Reach(s, f)'
  BY <1>0, <1>1, <1>2 DEF Reach, Has, Caster
<1>6. \A s, f : Heard(s, f) => Heard(s, f)'
  BY <1>1 DEF Heard
<1>7. Passed'
  <2>1. /\ \A s \in covered' : pc'[s] \in {"resend", "on"}
        /\ \A s \in covered' \cap members' : Home[s] \notin deaf' => Listens(Home[s])'
    BY <1>1, <1>4 DEF Passed
  <2>2. \A h \in Hub, f \in Event : f \in seen'[h] /\ Origin[f] # h => task'[f] = "announced"
    BY <1>1, <1>3 DEF Passed
  <2>3. ASSUME NEW l \in Sub, NEW i \in DOMAIN inbox'[l]
        PROVE  task'[inbox'[l][i]] = "announced"
    <3>1. inbox[l][i] \in Event /\ task[inbox[l][i]] = "announced"
      BY <1>1, TypeParts DEF Passed, RedisTypes
    <3> QED BY <1>1, <3>1
  <2>4. \A s \in (members' \cap covered') \ broken', f \in Oldest' :
            Origin[f] # Home[s] /\ f \in seen'[Home[s]] => Reach(s, f)'
    BY <1>0, <1>1, <1>3, <1>4, <1>5 DEF Passed, HubTypes
  <2> QED BY <2>1, <2>2, <2>3, <2>4 DEF Passed
<1>8. Covers'
  BY <1>0, <1>1, <1>4, <1>5, <1>6 DEF Covers
<1> QED BY <1>7, <1>8

\* What is stored is not announced yet, so the replay is promised nothing new.
LEMMA GapStore ==
    ASSUME TypeOK, Linked, Passed, Covers, NEW e \in Event, Store(e)
    PROVE  Passed' /\ Covers'
<1>0. HubTypes /\ stream \in Seq(Event) /\ e \in Caster /\ e \notin Sub /\ Home \in [Sub -> Hub]
  BY TypeParts, HubAssumption DEF RedisTypes, Caster, HubAssumption
<1>1. /\ UNCHANGED <<pc, members, rest, seen, channel, inbox, broken, live, had, covered, deaf>>
      /\ stream' = Append(stream, e)
      /\ task[e] = "cast" /\ task'[e] = "stored" /\ \A f \in Event \ {e} : task'[f] = task[f]
  BY <1>0 DEF Store, HubTypes, history
<1>2. \A u \in Caster \ {e} : cast'[u] = cast[u]
  BY IdleEffect DEF Store
<1>3. \A f \in Oldest' : f = e \/ (f \in Oldest /\ f \in Event)
  <2> SUFFICES ASSUME NEW i \in DOMAIN stream', i <= ReplayLimit, stream'[i] # e
               PROVE  stream'[i] \in Oldest /\ stream'[i] \in Event
    BY DEF Oldest
  <2>1. i \in DOMAIN stream /\ stream'[i] = stream[i]
    BY <1>0, <1>1
  <2> QED BY <1>0, <2>1 DEF Oldest
<1>4. \A h : Listens(h)' = Listens(h)
  BY <1>1 DEF Listens
<1>5. \A s, f : (Reach(s, f) => Reach(s, f)') /\ (Heard(s, f) => Heard(s, f)')
  BY <1>0, <1>1, <1>2 DEF Reach, Has, Heard, Caster
<1>6. Passed'
  <2>1. /\ \A s \in covered' : pc'[s] \in {"resend", "on"}
        /\ \A s \in covered' \cap members' : Home[s] \notin deaf' => Listens(Home[s])'
    BY <1>1, <1>4 DEF Passed
  <2>2. \A h \in Hub, f \in Event : f \in seen'[h] /\ Origin[f] # h => task'[f] = "announced" /\ f # e
    BY <1>1 DEF Passed
  <2>3. ASSUME NEW l \in Sub, NEW i \in DOMAIN inbox'[l]
        PROVE  task'[inbox'[l][i]] = "announced"
    <3>1. inbox[l][i] \in Event /\ task[inbox[l][i]] = "announced"
      BY <1>1, TypeParts DEF Passed, RedisTypes
    <3> QED BY <1>1, <3>1
  <2>4. ASSUME NEW s \in (members' \cap covered') \ broken', NEW f \in Oldest',
               Origin[f] # Home[s], f \in seen'[Home[s]]
        PROVE  Reach(s, f)'
    <3>1. Home[s] \in Hub /\ f \in Event
      BY <1>0, <1>1, <1>3, <2>4 DEF HubTypes
    <3>2. f \in Oldest
      BY <1>3, <2>2, <2>4, <3>1
    <3> QED BY <1>1, <1>5, <2>4, <3>2 DEF Passed
  <2> QED BY <2>1, <2>2, <2>3, <2>4 DEF Passed
<1>7. Covers'
  BY <1>1, <1>3, <1>5 DEF Covers
<1> QED BY <1>6, <1>7

\* What is announced is heard wherever a hub listens.
LEMMA GapAnnounce ==
    ASSUME TypeOK, Linked, Passed, Covers, NEW e \in Event, Announce(e)
    PROVE  Passed' /\ Covers'
<1>0. HubTypes /\ inbox \in [Sub -> Seq(Event)] /\ Oldest \subseteq Event
  BY TypeParts DEF RedisTypes, Oldest
<1>1. /\ UNCHANGED <<pc, members, rest, seen, cast, stream, channel, broken, live, had, covered, deaf>>
      /\ task'[e] = "announced" /\ \A f \in Event \ {e} : task'[f] = task[f]
  BY <1>0 DEF Announce, HubTypes, history
<1>2. ASSUME NEW l \in Sub
      PROVE  /\ channel[l] = "attached" => \E i \in DOMAIN inbox'[l] : inbox'[l][i] = e
             /\ \A i \in DOMAIN inbox[l] : i \in DOMAIN inbox'[l] /\ inbox'[l][i] = inbox[l][i]
             /\ \A i \in DOMAIN inbox'[l] :
                   inbox'[l][i] = e \/ (i \in DOMAIN inbox[l] /\ inbox'[l][i] = inbox[l][i])
  <2>1. /\ inbox[l] \in Seq(Event)
        /\ inbox'[l] = IF channel[l] = "attached" THEN Append(inbox[l], e) ELSE inbox[l]
    BY <1>0 DEF Announce
  <2>2. CASE channel[l] = "attached"
    <3>1. Len(inbox[l]) + 1 \in DOMAIN inbox'[l] /\ inbox'[l][Len(inbox[l]) + 1] = e
      BY <2>1, <2>2
    <3>2. /\ \A i \in DOMAIN inbox[l] : i \in DOMAIN inbox'[l] /\ inbox'[l][i] = inbox[l][i]
          /\ \A i \in DOMAIN inbox'[l] :
                inbox'[l][i] = e \/ (i \in DOMAIN inbox[l] /\ inbox'[l][i] = inbox[l][i])
      BY <2>1, <2>2
    <3> QED BY <3>1, <3>2
  <2>3. CASE channel[l] # "attached"
    BY <2>1, <2>3
  <2> QED BY <2>2, <2>3
<1>3. Oldest' = Oldest /\ \A h : Listens(h)' = Listens(h)
  BY <1>1 DEF Oldest, Listens
<1>4. \A s, f : (Reach(s, f) => Reach(s, f)') /\ (Heard(s, f) => Heard(s, f)')
  <2>1. \A s, f : Reach(s, f) => Reach(s, f)'
    BY <1>1 DEF Reach, Has
  <2>2. \A s, f : Heard(s, f) => Heard(s, f)'
    BY <1>2 DEF Heard
  <2> QED BY <2>1, <2>2
<1>5. Passed'
  <2>1. ASSUME NEW l \in Sub, NEW i \in DOMAIN inbox'[l]
        PROVE  task'[inbox'[l][i]] = "announced"
    <3>1. CASE inbox'[l][i] = e
      BY <1>1, <3>1
    <3>2. CASE i \in DOMAIN inbox[l] /\ inbox'[l][i] = inbox[l][i]
      <4>1. inbox[l][i] \in Event /\ task[inbox[l][i]] = "announced"
        BY <1>0, <3>2 DEF Passed
      <4> QED BY <1>1, <3>2, <4>1
    <3> QED BY <1>2, <3>1, <3>2
  <2>2. \A h \in Hub, f \in Event : f \in seen'[h] /\ Origin[f] # h => task'[f] = "announced"
    BY <1>1 DEF Passed
  <2>3. /\ \A s \in covered' : pc'[s] \in {"resend", "on"}
        /\ \A s \in covered' \cap members' : Home[s] \notin deaf' => Listens(Home[s])'
    BY <1>1, <1>3 DEF Passed
  <2>4. \A s \in (members' \cap covered') \ broken', f \in Oldest' :
            Origin[f] # Home[s] /\ f \in seen'[Home[s]] => Reach(s, f)'
    BY <1>1, <1>3, <1>4 DEF Passed
  <2> QED BY <2>1, <2>2, <2>3, <2>4 DEF Passed
<1>6. ASSUME NEW s \in (members' \cap covered') \ broken', NEW f \in Oldest',
             Home[s] \notin deaf', task'[f] = "announced", Origin[f] # Home[s]
      PROVE  Reach(s, f)' \/ Heard(s, f)'
  <2>1. CASE f = e
    <3>1. PICK l \in Sub : Home[l] = Home[s] /\ channel[l] = "attached"
      BY <1>1, <1>6 DEF Passed, Listens
    <3> QED BY <1>2, <2>1, <3>1 DEF Heard
  <2>2. CASE f # e
    <3>1. task[f] = "announced" /\ f \in Oldest
      BY <1>0, <1>1, <1>3, <1>6, <2>2
    <3> QED BY <1>1, <1>4, <1>6, <3>1 DEF Covers
  <2> QED BY <2>1, <2>2
<1> QED BY <1>5, <1>6 DEF Covers

LEMMA GapStep == ASSUME TypeOK, Linked, Passed, Covers, Next PROVE Passed' /\ Covers'
BY GapConnect, GapFetch, GapLeave, GapCast, GapReceive, GapFails, GapPublish, GapStore, GapAnnounce
DEF Next, ConnectStep

\* In every reachable state, a subscriber has got every event of another hub that
\* is promised to it, or the event is on its way: in its replay, in the inbox of a
\* listener, or in a broadcast.
THEOREM NoGapEver == Spec => []NoGap
<1>1. Init => Passed /\ Covers
  BY DEF Init, Passed, Covers, Oldest
<1>2. TypeOK /\ Linked /\ Passed /\ Covers /\ UNCHANGED vars => Passed' /\ Covers'
  BY DEF Passed, Covers, Oldest, Listens, Reach, Has, Heard, vars, hubs, redis, history
<1>3. TypeOK /\ Covers => NoGap
  <2> SUFFICES ASSUME TypeOK, Covers, NEW s \in Sub, NEW e \in Event, Owed(s, e)
               PROVE  Has(s, e) \/ OnItsWay(s, e)
    BY DEF NoGap
  <2>1. Reach(s, e) \/ Heard(s, e)
    BY DEF Owed, Covers
  <2> QED BY <2>1 DEF Reach, Heard, OnItsWay
<1> QED BY <1>1, <1>2, <1>3, GapStep, LinkedAlways, PTL DEF Spec
=============================================================================
