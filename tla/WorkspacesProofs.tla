-------------------------- MODULE WorkspacesProofs ---------------------------
(***************************************************************************)
(* Theorems about Workspaces, for any number of runs, workers, reapers and *)
(* deliveries: its types, that the reaper's index misses no RUNNING        *)
(* workspace, the bound on how far the quota is exceeded, and, for a run   *)
(* that was delivered once, that its container is recorded and that it is  *)
(* not taken away from the worker that uses it.                            *)
(***************************************************************************)
EXTENDS Workspaces, FiniteSetTheorems, TLAPS

Beat == [at : {"off", "sleep"}, entry : {NoEntry}, old : {Unread}]
        \cup [at : {"save"}, entry : Entry, old : Old]
Sweep == [list : {{}}, todo : SUBSET Run, at : Run, old : Old]
         \cup [list : SUBSET Run, todo : SUBSET Run, at : {NoRun}, old : {Unread}]

\* TypeOK by parts: what the store and podman hold, ...
StoreTypes ==
    /\ record \in [Run -> Entry \cup {NoEntry}]
    /\ indexed \subseteq Run
PodmanTypes ==
    /\ container \subseteq Run
    /\ stuck \subseteq container
\* ... a worker, its heartbeat, ...
MainTypes ==
    /\ pc \in [Worker -> PC]
    /\ run \in [Worker -> Run \cup {NoRun}]
    /\ \A w \in Worker : run[w] = NoRun <=> pc[w] = "idle"
    /\ info \in [Worker -> BOOLEAN]
    /\ mine \in [Worker -> Entry \cup {NoEntry}]
    /\ \A w \in Worker : pc[w] \in Status => mine[w] \in Entry /\ mine[w].status = pc[w]
    /\ old \in [Worker -> Old]
BeatTypes ==
    /\ beat \in [Worker -> Beat]
    /\ \A w \in Worker : pc[w] \in Ending => beat[w] = NoBeat
    /\ beaten \subseteq Worker
\* ... and the rest.
OtherTypes ==
    /\ sweep \in [Reaper -> Sweep]
    /\ deliveries \in [Run -> Nat]
    /\ \A r \in Run : deliveries[r] <= MaxDeliveries[r]
    /\ faults \in 0..MaxFaults

LEMMA TypeParts ==
    TypeOK <=> StoreTypes /\ PodmanTypes /\ MainTypes /\ BeatTypes /\ OtherTypes
BY DEF TypeOK, StoreTypes, PodmanTypes, MainTypes, BeatTypes, OtherTypes, Beat, Sweep

\* A record that is not NoEntry is an entry, and its status is one.
LEMMA EntryTypes ==
    ASSUME StoreTypes, NEW r \in Run
    PROVE  /\ record[r] \in Entry \/ record[r] = NoEntry
           /\ record[r].status \in Old \ {Unread}
           /\ record[r].age \in Age
           /\ record[r] # NoEntry => record[r] \in Entry
           /\ record[r] # NoEntry <=> record[r].status # "none"
BY WorkspacesAssumption
DEF StoreTypes, Entry, NoEntry, Status, Old, Unread, Age, Stale, WorkspacesAssumption

LEMMA SaveTypes ==
    ASSUME StoreTypes, NEW r \in Run, NEW e \in Entry, NEW was \in Old, Save(r, e, was)
    PROVE  StoreTypes'
BY DEF StoreTypes, Save

LEMMA DeleteTypes ==
    ASSUME StoreTypes, NEW r \in Run, NEW was \in Old, Delete(r, was)
    PROVE  StoreTypes'
BY DEF StoreTypes, Delete, store

LEMMA RemoveTypes ==
    ASSUME PodmanTypes, faults \in 0..MaxFaults, NEW r \in Run, RemoveContainer(r)
    PROVE  PodmanTypes' /\ faults' \in 0..MaxFaults
BY WorkspacesAssumption DEF PodmanTypes, RemoveContainer, Fault, WorkspacesAssumption

\* A worker that goes on to save a status, for a job it has.
LEMMA SaveNextTypes ==
    ASSUME MainTypes, NEW w \in Worker, pc[w] # "idle",
           NEW s \in Status, NEW a \in Age, SaveNext(w, s, a),
           UNCHANGED <<run, info, old>>
    PROVE  MainTypes' /\ pc'[w] = s /\ \A v \in Worker \ {w} : pc'[v] = pc[v]
BY DEF MainTypes, SaveNext, Goto, Status, PC, Entry

LEMMA GotoTypes ==
    ASSUME MainTypes, NEW w \in Worker, pc[w] # "idle",
           NEW next \in PC \ (Status \cup {"idle"}), Goto(w, next),
           UNCHANGED <<run, mine>>, info' \in [Worker -> BOOLEAN], old' \in [Worker -> Old]
    PROVE  MainTypes' /\ pc'[w] = next /\ \A v \in Worker \ {w} : pc'[v] = pc[v]
BY DEF MainTypes, Goto

LEMMA LeaveTypes ==
    ASSUME MainTypes, NEW w \in Worker, Leave(w)
    PROVE  MainTypes' /\ \A v \in Worker \ {w} : pc'[v] = pc[v]
BY WorkspacesAssumption DEF MainTypes, Leave, Goto, Status, PC, Old, WorkspacesAssumption

\* The heartbeats keep their types when only workers without one end their job.
LEMMA BeatsStay ==
    ASSUME BeatTypes, UNCHANGED <<beat, beaten>>, NEW w \in Worker,
           \A v \in Worker \ {w} : pc'[v] = pc[v], pc'[w] \in Ending => beat[w] = NoBeat
    PROVE  BeatTypes'
BY DEF BeatTypes

LEMMA OldTyped ==
    ASSUME StoreTypes, MainTypes, NEW w \in Worker, pc[w] # "idle"
    PROVE  run[w] \in Run /\ record[run[w]].status \in Old
BY EntryTypes DEF MainTypes

-----------------------------------------------------------------------------
(* Types.                                                                  *)

LEMMA TypeInit == Init => TypeOK
BY WorkspacesAssumption
DEF Init, TypeOK, NoBeat, NoSweep, PC, Status, Old, WorkspacesAssumption

LEMMA WorkerTypes ==
    ASSUME TypeOK, NEW w \in Worker, WorkerStep(w)
    PROVE  TypeOK'
<1> USE TypeParts
<1> SUFFICES StoreTypes' /\ PodmanTypes' /\ MainTypes' /\ BeatTypes' /\ OtherTypes'
  BY DEF TypeOK, StoreTypes, PodmanTypes, MainTypes, BeatTypes, OtherTypes, Beat, Sweep
<1> HIDE TypeParts
<1>0. StoreTypes /\ PodmanTypes /\ MainTypes /\ BeatTypes /\ OtherTypes
  BY TypeParts
<1>1. CASE CheckQuota(w)
  <2>1. StoreTypes' /\ PodmanTypes' /\ OtherTypes'
    BY <1>0, <1>1 DEF CheckQuota, StoreTypes, PodmanTypes, OtherTypes, store, podman
  <2>2. MainTypes' /\ pc'[w] \notin Ending /\ \A v \in Worker \ {w} : pc'[v] = pc[v]
    <3>1. pc[w] = "quota" /\ "provisioning" \in Status \ Ending /\ "work" \notin Ending /\ Stale \in Age /\ "work" \in PC \ (Status \cup {"idle"})
      BY <1>1, WorkspacesAssumption DEF CheckQuota, Status, Stale, Age, PC, Ending, WorkspacesAssumption
    <3>2. CASE SaveNext(w, "provisioning", Stale)
      BY <1>0, <1>1, <3>1, <3>2, SaveNextTypes DEF CheckQuota
    <3>3. CASE Goto(w, "work") /\ UNCHANGED mine
      BY <1>0, <1>1, <3>1, <3>3, GotoTypes DEF CheckQuota, MainTypes
    <3> QED BY <1>1, <3>2, <3>3 DEF CheckQuota
  <2>3. BeatTypes'
    BY <1>0, <1>1, <2>2, BeatsStay DEF CheckQuota
  <2> QED BY <2>1, <2>2, <2>3
<1>2. CASE SaveRead(w) \/ DeleteRead(w)
  <2>1. StoreTypes' /\ PodmanTypes' /\ OtherTypes' /\ BeatTypes'
    BY <1>0, <1>2 DEF SaveRead, DeleteRead, StoreTypes, PodmanTypes, OtherTypes, BeatTypes, store, podman
  <2>2. record[run[w]].status \in Old
    BY <1>0, <1>2, OldTyped DEF SaveRead, DeleteRead, Status
  <2>3. MainTypes'
    BY <1>0, <1>2, <2>2 DEF SaveRead, DeleteRead, MainTypes
  <2> QED BY <2>1, <2>3
<1>3. CASE SaveWrite(w)
  <2>1. run[w] \in Run /\ mine[w] \in Entry /\ pc[w] \in Status /\ old[w] \in Old /\ pc[w] # "idle"
    BY <1>0, <1>3 DEF SaveWrite, MainTypes, Status
  <2>2. StoreTypes'
    BY <1>0, <1>3, <2>1, SaveTypes DEF SaveWrite
  <2>3. PodmanTypes' /\ OtherTypes'
    BY <1>0, <1>3 DEF SaveWrite, PodmanTypes, OtherTypes, podman
  <2>4. PICK next \in PC \ (Status \cup {"idle"}) :
          Goto(w, next) /\ (next \in Ending => pc[w] = "cleaning")
    BY <1>3, <2>1 DEF SaveWrite, After, Status, PC, Ending
  <2>7. info' \in [Worker -> BOOLEAN]
    BY <1>0, <1>3 DEF SaveWrite, MainTypes
  <2>5. MainTypes' /\ pc'[w] = next /\ \A v \in Worker \ {w} : pc'[v] = pc[v]
    <3>1. /\ pc' = [pc EXCEPT ![w] = next]
          /\ mine' = [mine EXCEPT ![w] = NoEntry]
          /\ old' = [old EXCEPT ![w] = Unread]
          /\ run' = run
      BY <1>3, <2>4 DEF SaveWrite, Goto
    <3>2. Unread \in Old
      BY DEF Old
    <3> QED BY <1>0, <2>1, <2>4, <2>7, <3>1, <3>2 DEF MainTypes
  <2>6. BeatTypes'
    <3>1. pc'[w] \in Ending => beat[w] = NoBeat
      BY <1>0, <2>4, <2>5 DEF BeatTypes, Ending
    <3> QED BY <1>0, <1>3, <2>5, <3>1, BeatsStay DEF SaveWrite
  <2> QED BY <2>2, <2>3, <2>5, <2>6
<1>4. CASE CreateContainer(w) \/ Prepare(w)
  <2>1. pc[w] # "idle" /\ run[w] \in Run
    BY <1>0, <1>4 DEF CreateContainer, Prepare, MainTypes
  <2>2. StoreTypes' /\ PodmanTypes' /\ OtherTypes'
    BY <1>0, <1>4, <2>1
    DEF CreateContainer, Prepare, StoreTypes, PodmanTypes, OtherTypes, store, podman
  <2>3. "ready" \in Status /\ "failed" \in Status /\ "running" \in Status /\ Stale \in Age /\ 0 \in Age
    BY WorkspacesAssumption DEF Status, Stale, Age, WorkspacesAssumption
  <2>4. MainTypes' /\ pc'[w] \notin Ending /\ \A v \in Worker \ {w} : pc'[v] = pc[v]
    <3>1. PICK s \in Status \ Ending, a \in Age : SaveNext(w, s, a)
      BY <1>4, <2>3 DEF CreateContainer, Prepare, Ending
    <3> QED BY <1>0, <1>4, <2>1, <3>1, SaveNextTypes DEF CreateContainer, Prepare
  <2>5. BeatTypes'
    BY <1>0, <1>4, <2>4, BeatsStay DEF CreateContainer, Prepare
  <2> QED BY <2>2, <2>4, <2>5
<1>5. CASE RemoveFailed(w) \/ Destroy(w)
  <2>1. pc[w] # "idle" /\ run[w] \in Run /\ RemoveContainer(run[w])
    BY <1>0, <1>5 DEF RemoveFailed, Destroy, MainTypes
  <2>2. StoreTypes' /\ PodmanTypes' /\ OtherTypes'
    BY <1>0, <1>5, <2>1, RemoveTypes DEF RemoveFailed, Destroy, StoreTypes, OtherTypes, store
  <2>3. /\ MainTypes'
        /\ pc'[w] \in Ending => beat[w] = NoBeat
        /\ \A v \in Worker \ {w} : pc'[v] = pc[v]
    <3>1. PICK next \in PC \ (Status \cup {"idle"}) :
            Goto(w, next) /\ (next \in Ending => beat[w] = NoBeat)
      BY <1>0, <1>5 DEF RemoveFailed, Destroy, PC, Status, Ending, BeatTypes
    <3> QED BY <1>0, <1>5, <2>1, <3>1, GotoTypes DEF RemoveFailed, Destroy, MainTypes
  <2>4. BeatTypes'
    BY <1>0, <1>5, <2>3, BeatsStay DEF RemoveFailed, Destroy
  <2> QED BY <2>2, <2>3, <2>4
<1>6. CASE Finish(w)
  <2>1. StoreTypes' /\ PodmanTypes' /\ OtherTypes'
    BY <1>0, <1>6 DEF Finish, StoreTypes, PodmanTypes, OtherTypes, store, podman
  <2>2. MainTypes' /\ \A v \in Worker \ {w} : pc'[v] = pc[v]
    <3>1. CASE Leave(w)
      BY <1>0, <3>1, LeaveTypes
    <3>2. CASE Goto(w, "clean") /\ UNCHANGED <<run, info, mine, old>>
      BY <1>0, <1>6, <3>2, GotoTypes DEF Finish, MainTypes, PC, Status
    <3> QED BY <1>6, <3>1, <3>2 DEF Finish
  <2>3. BeatTypes'
    BY <1>0, <1>6, <2>2 DEF Cancel, Finish, BeatTypes, Beat, NoBeat
  <2> QED BY <2>1, <2>2, <2>3
<1>7. CASE CleanupGet(w)
  <2>1. StoreTypes' /\ PodmanTypes' /\ OtherTypes'
    BY <1>0, <1>7 DEF CleanupGet, StoreTypes, PodmanTypes, OtherTypes, store, podman
  <2>2. /\ MainTypes'
        /\ \A v \in Worker \ {w} : pc'[v] = pc[v]
    <3>1. CASE Leave(w)
      BY <1>0, <3>1, LeaveTypes
    <3>2. CASE SaveNext(w, "cleaning", record[run[w]].age) /\ UNCHANGED <<run, info, old>>
      <4>1. record[run[w]].age \in Age /\ pc[w] # "idle" /\ "cleaning" \in Status
        BY <1>0, <1>7, EntryTypes DEF CleanupGet, MainTypes, Status
      <4> QED BY <1>0, <3>2, <4>1, SaveNextTypes
    <3> QED BY <1>7, <3>1, <3>2 DEF CleanupGet
  <2>3. BeatTypes'
    <3>1. beat[w] = NoBeat
      BY <1>0, <1>7 DEF CleanupGet, BeatTypes, Ending
    <3> QED BY <1>0, <1>7, <2>2, <3>1, BeatsStay DEF CleanupGet
  <2> QED BY <2>1, <2>2, <2>3
<1>8. CASE DeleteWrite(w)
  <2>1. run[w] \in Run /\ old[w] \in Old
    BY <1>0, <1>8 DEF DeleteWrite, MainTypes
  <2>2. StoreTypes' /\ PodmanTypes' /\ OtherTypes'
    BY <1>0, <1>8, <2>1, DeleteTypes DEF DeleteWrite, PodmanTypes, OtherTypes, podman
  <2>3. MainTypes' /\ \A v \in Worker \ {w} : pc'[v] = pc[v]
    BY <1>0, <1>8, LeaveTypes DEF DeleteWrite
  <2>4. BeatTypes'
    <3>1. beat[w] = NoBeat
      BY <1>0, <1>8 DEF DeleteWrite, BeatTypes, Ending
    <3> QED BY <1>0, <1>8, <2>3, <3>1, BeatsStay DEF DeleteWrite
  <2> QED BY <2>2, <2>3, <2>4
<1> QED BY <1>1, <1>2, <1>3, <1>4, <1>5, <1>6, <1>7, <1>8 DEF WorkerStep

\* A heartbeat or a crash, a stop or a delivery.
LEMMA BeatTypesKept ==
    ASSUME TypeOK, NEW w \in Worker,
           BeatStep(w) \/ Crash(w) \/ Stop(w) \/ (\E r \in Run : Take(w, r))
    PROVE  TypeOK'
<1> SUFFICES StoreTypes' /\ PodmanTypes' /\ MainTypes' /\ BeatTypes' /\ OtherTypes'
  BY DEF TypeOK, StoreTypes, PodmanTypes, MainTypes, BeatTypes, OtherTypes, Beat, Sweep
<1>0. StoreTypes /\ PodmanTypes /\ MainTypes /\ BeatTypes /\ OtherTypes
  BY TypeParts
<1>1. CASE BeatStep(w)
  <2>1. beat[w].at # "off" /\ run[w] \in Run /\ pc[w] \notin Ending
    BY <1>0, <1>1
    DEF BeatStep, BeatGet, BeatRead, BeatWrite, BeatTypes, MainTypes, NoBeat, Ending
  <2>2. MainTypes' /\ PodmanTypes' /\ OtherTypes'
    BY <1>0, <1>1
    DEF BeatStep, BeatGet, BeatRead, BeatWrite, MainTypes, PodmanTypes, OtherTypes, main, podman
  <2>3. CASE BeatGet(w)
    <3>1. StoreTypes'
      BY <1>0, <2>3 DEF BeatGet, StoreTypes, store
    <3>2. CASE record[run[w]] = NoEntry
      BY <1>0, <2>3, <3>2, <3>1, <2>2 DEF BeatGet, BeatTypes, main
    <3>3. CASE record[run[w]] # NoEntry
      <4> DEFINE e == [status |-> record[run[w]].status, age |-> 0]
      <4>1. e \in Entry
        BY <1>0, <2>1, <3>3, EntryTypes, WorkspacesAssumption
        DEF Entry, Age, Stale, WorkspacesAssumption
      <4>2. [at |-> "save", old |-> Unread, entry |-> e] \in Beat
        BY <4>1 DEF Beat, Old
      <4>3. beat' = [beat EXCEPT ![w] = [at |-> "save", old |-> Unread, entry |-> e]]
        BY <2>3, <3>3 DEF BeatGet
      <4> HIDE DEF e
      <4> QED BY <1>0, <2>1, <2>2, <2>3, <3>1, <3>3, <4>2, <4>3 DEF BeatGet, BeatTypes, main
    <3> QED BY <3>2, <3>3
  <2>4. CASE BeatRead(w)
    <3>1. record[run[w]].status \in Old
      BY <1>0, <2>1, EntryTypes
    <3>2. [beat[w] EXCEPT !.old = record[run[w]].status] \in Beat
      BY <1>0, <2>4, <3>1 DEF BeatTypes, Beat, BeatRead
    <3>3. beat' = [beat EXCEPT ![w] = [beat[w] EXCEPT !.old = record[run[w]].status]]
      BY <2>4 DEF BeatRead
    <3> DEFINE b == [beat[w] EXCEPT !.old = record[run[w]].status]
    <3> HIDE DEF b
    <3>4. b \in Beat /\ beat' = [beat EXCEPT ![w] = b]
      BY <3>2, <3>3 DEF b
    <3>5. BeatTypes'
      BY <1>0, <2>1, <2>4, <3>4 DEF BeatRead, BeatTypes, main
    <3> QED BY <1>0, <2>2, <2>4, <3>5 DEF BeatRead, StoreTypes, store
  <2>5. CASE BeatWrite(w)
    <3>1. beat[w].entry \in Entry /\ beat[w].old \in Old
      BY <1>0, <2>5 DEF BeatWrite, BeatTypes, Beat
    <3>2. StoreTypes'
      BY <1>0, <2>1, <2>5, <3>1, SaveTypes DEF BeatWrite
    <3>3. Resting \in Beat
      BY DEF Resting, Beat
    <3>4. BeatTypes'
      BY <1>0, <2>1, <2>5, <3>3 DEF BeatWrite, BeatTypes, main
    <3> QED BY <2>2, <3>2, <3>4
  <2> QED BY <1>1, <2>3, <2>4, <2>5 DEF BeatStep
<1>2. CASE Crash(w)
  <2>1. StoreTypes' /\ PodmanTypes' /\ OtherTypes'
    BY <1>0, <1>2, WorkspacesAssumption
    DEF Crash, Fault, StoreTypes, PodmanTypes, OtherTypes, store, podman, WorkspacesAssumption
  <2>2. MainTypes' /\ \A v \in Worker \ {w} : pc'[v] = pc[v]
    BY <1>0, <1>2, LeaveTypes DEF Crash
  <2>3. BeatTypes'
    BY <1>0, <1>2, <2>2 DEF Cancel, Crash, BeatTypes, Beat, NoBeat
  <2> QED BY <2>1, <2>2, <2>3
<1>3. CASE Stop(w)
  <2>1. StoreTypes' /\ PodmanTypes' /\ OtherTypes' /\ MainTypes'
    BY <1>0, <1>3, WorkspacesAssumption
    DEF Stop, Fault, StoreTypes, PodmanTypes, MainTypes, OtherTypes, store, podman, main,
        WorkspacesAssumption
  <2>2. BeatTypes'
    BY <1>0, <1>3 DEF Cancel, Stop, BeatTypes, Beat, NoBeat, main
  <2> QED BY <2>1, <2>2
<1>4. ASSUME NEW r \in Run, Take(w, r)
      PROVE  StoreTypes' /\ PodmanTypes' /\ MainTypes' /\ BeatTypes' /\ OtherTypes'
  <2>1. StoreTypes' /\ PodmanTypes'
    BY <1>0, <1>4 DEF Take, StoreTypes, PodmanTypes, store, podman
  <2>2. OtherTypes'
    <3>1. MaxDeliveries[r] \in Nat /\ deliveries[r] \in Nat
      BY <1>0, WorkspacesAssumption DEF OtherTypes, WorkspacesAssumption
    <3>2. deliveries[r] + 1 \in Nat /\ deliveries[r] + 1 <= MaxDeliveries[r]
      BY <1>4, <3>1 DEF Take
    <3>3. deliveries' \in [Run -> Nat] /\ \A q \in Run : deliveries'[q] <= MaxDeliveries[q]
      BY <1>0, <1>4, <3>2 DEF Take, OtherTypes
    <3> QED BY <1>0, <1>4, <3>3 DEF Take, OtherTypes
  <2>3. MainTypes'
    BY <1>0, <1>4, WorkspacesAssumption DEF Take, Goto, MainTypes, PC, Status, WorkspacesAssumption
  <2>4. BeatTypes'
    BY <1>0, <1>4 DEF Take, Goto, BeatTypes, Beat, Resting, MainTypes, Ending
  <2> QED BY <2>1, <2>2, <2>3, <2>4
<1> QED BY <1>1, <1>2, <1>3, <1>4

LEMMA SweepTypes ==
    ASSUME TypeOK, NEW p \in Reaper, ReapStep(p) \/ ReaperDies(p)
    PROVE  TypeOK'
<1> SUFFICES StoreTypes' /\ PodmanTypes' /\ MainTypes' /\ BeatTypes' /\ OtherTypes'
  BY DEF TypeOK, StoreTypes, PodmanTypes, MainTypes, BeatTypes, OtherTypes, Beat, Sweep
<1>0. StoreTypes /\ PodmanTypes /\ MainTypes /\ BeatTypes /\ OtherTypes
  BY TypeParts
<1>1. MainTypes' /\ BeatTypes'
  BY <1>0
  DEF ReapStep, ReaperDies, FindList, FindGet, Kill, ReapRead, ReapWrite, MainTypes, BeatTypes, main
<1>2. sweep[p] \in Sweep
  BY <1>0 DEF OtherTypes
<1>3. CASE FindList(p)
  <2> DEFINE s == [sweep[p] EXCEPT !.list = indexed]
  <2>1. s \in Sweep
    BY <1>0, <1>2, <1>3 DEF FindList, Sweep, NoSweep, StoreTypes
  <2>2. sweep' = [sweep EXCEPT ![p] = s]
    BY <1>3 DEF FindList
  <2> HIDE DEF s
  <2>3. OtherTypes'
    BY <1>0, <1>3, <2>1, <2>2 DEF FindList, OtherTypes
  <2> QED BY <1>0, <1>1, <1>3, <2>3 DEF FindList, StoreTypes, PodmanTypes, store, podman
<1>8. ASSUME NEW r \in Run, FindGet(p, r)
      PROVE  StoreTypes' /\ PodmanTypes' /\ OtherTypes'
  <2> DEFINE silent == {q \in {r} : record[q] # NoEntry /\ record[q].age > MaxIdle}
             s == [sweep[p] EXCEPT !.list = @ \ {r}, !.todo = @ \cup silent]
  <2>1. s \in Sweep
    BY <1>2, <1>8 DEF FindGet, Sweep
  <2>2. sweep' = [sweep EXCEPT ![p] = s]
    BY <1>8 DEF FindGet
  <2> HIDE DEF s
  <2>3. OtherTypes'
    BY <1>0, <1>8, <2>1, <2>2 DEF FindGet, OtherTypes
  <2> QED BY <1>0, <1>8, <2>3 DEF FindGet, StoreTypes, PodmanTypes, store, podman
<1>4. ASSUME NEW r \in Run, Kill(p, r)
      PROVE  StoreTypes' /\ PodmanTypes' /\ OtherTypes'
  <2> DEFINE s == [sweep[p] EXCEPT !.todo = @ \ {r}, !.at = r]
  <2>1. s \in Sweep
    BY <1>2, <1>4 DEF Kill, Sweep, Old
  <2>2. sweep' = [sweep EXCEPT ![p] = s]
    BY <1>4 DEF Kill
  <2> HIDE DEF s
  <2>3. PodmanTypes' /\ faults' \in 0..MaxFaults
    BY <1>0, <1>4, RemoveTypes DEF Kill, OtherTypes
  <2>4. OtherTypes'
    BY <1>0, <1>4, <2>1, <2>2, <2>3 DEF Kill, OtherTypes
  <2> QED BY <1>0, <1>4, <2>3, <2>4 DEF Kill, StoreTypes, store
<1>5. CASE ReapRead(p)
  <2> DEFINE s == [sweep[p] EXCEPT !.old = record[sweep[p].at].status]
  <2>1. sweep[p].at \in Run
    BY <1>2, <1>5 DEF ReapRead, Sweep
  <2>2. s \in Sweep
    BY <1>0, <1>2, <1>5, <2>1, EntryTypes DEF ReapRead, Sweep
  <2>3. sweep' = [sweep EXCEPT ![p] = s]
    BY <1>5 DEF ReapRead
  <2> HIDE DEF s
  <2>4. OtherTypes'
    BY <1>0, <1>5, <2>2, <2>3 DEF ReapRead, OtherTypes
  <2> QED BY <1>0, <1>1, <1>5, <2>4 DEF ReapRead, StoreTypes, PodmanTypes, store, podman
<1>6. CASE ReapWrite(p)
  <2> DEFINE s == [sweep[p] EXCEPT !.at = NoRun, !.old = Unread]
  <2>1. sweep[p].at \in Run /\ sweep[p].old \in Old
    BY <1>2, <1>6 DEF ReapWrite, Sweep
  <2>2. s \in Sweep
    BY <1>2 DEF Sweep
  <2>3. sweep' = [sweep EXCEPT ![p] = s]
    BY <1>6 DEF ReapWrite
  <2> HIDE DEF s
  <2>4. OtherTypes'
    BY <1>0, <1>6, <2>2, <2>3 DEF ReapWrite, OtherTypes
  <2>5. StoreTypes'
    BY <1>0, <1>6, <2>1, DeleteTypes DEF ReapWrite
  <2> QED BY <1>0, <1>1, <1>6, <2>4, <2>5 DEF ReapWrite, PodmanTypes, podman
<1>7. CASE ReaperDies(p)
  <2>1. NoSweep \in Sweep
    BY DEF NoSweep, Sweep
  <2>2. OtherTypes'
    BY <1>0, <1>7, <2>1, WorkspacesAssumption DEF ReaperDies, Fault, OtherTypes, WorkspacesAssumption
  <2> QED BY <1>0, <1>1, <1>7, <2>2 DEF ReaperDies, StoreTypes, PodmanTypes, store, podman
<1> QED BY <1>1, <1>3, <1>4, <1>5, <1>6, <1>7, <1>8 DEF ReapStep

LEMMA TickTypes == ASSUME TypeOK, Tick PROVE TypeOK'
<1>0. StoreTypes /\ PodmanTypes /\ MainTypes /\ BeatTypes /\ OtherTypes
  BY TypeParts
<1>1. ASSUME NEW r \in Run
      PROVE  (IF record[r].age < Stale THEN [record[r] EXCEPT !.age = @ + 1] ELSE record[r])
                \in Entry \cup {NoEntry}
  <2>1. CASE record[r] = NoEntry
    BY <2>1, WorkspacesAssumption DEF NoEntry, Stale, WorkspacesAssumption
  <2>2. CASE record[r] \in Entry
    BY <2>2, WorkspacesAssumption DEF Entry, Age, Stale, WorkspacesAssumption
  <2> QED BY <1>0, <2>1, <2>2, EntryTypes
<1>2. StoreTypes'
  BY <1>0, <1>1 DEF Tick, StoreTypes
<1>3. PodmanTypes' /\ MainTypes' /\ BeatTypes' /\ OtherTypes'
  BY <1>0 DEF Tick, PodmanTypes, MainTypes, BeatTypes, OtherTypes, podman, main
<1> QED
  BY <1>2, <1>3
  DEF TypeOK, StoreTypes, PodmanTypes, MainTypes, BeatTypes, OtherTypes, Beat, Sweep

LEMMA TypeStep == TypeOK /\ [Next]_vars => TypeOK'
<1>1. ASSUME TypeOK, UNCHANGED vars PROVE TypeOK'
  BY <1>1 DEF TypeOK, vars, store, podman, main
<1> QED BY <1>1, WorkerTypes, BeatTypesKept, SweepTypes, TickTypes DEF Next

\* Every variable keeps its type.
THEOREM TypeCorrect == Spec => []TypeOK
BY TypeInit, TypeStep, PTL DEF Spec

-----------------------------------------------------------------------------
(* The index.                                                              *)

LEMMA SaveIndexes ==
    ASSUME ReaperSeesRunning, StoreTypes,
           NEW r \in Run, NEW e \in Entry, NEW was, Save(r, e, was)
    PROVE  ReaperSeesRunning'
BY DEF ReaperSeesRunning, StoreTypes, Save

LEMMA DeleteIndexes ==
    ASSUME ReaperSeesRunning, StoreTypes, NEW r \in Run, NEW was, Delete(r, was)
    PROVE  ReaperSeesRunning'
BY DEF ReaperSeesRunning, StoreTypes, Delete, store, NoEntry

LEMMA IndexStep == TypeOK /\ ReaperSeesRunning /\ [Next]_vars => ReaperSeesRunning'
<1> SUFFICES ASSUME TypeOK, ReaperSeesRunning, [Next]_vars PROVE ReaperSeesRunning'
  OBVIOUS
<1>0. StoreTypes /\ MainTypes /\ BeatTypes /\ OtherTypes
  BY TypeParts
<1>1. CASE UNCHANGED store
  BY <1>1 DEF ReaperSeesRunning, store
<1>2. ASSUME NEW w \in Worker, SaveWrite(w) PROVE ReaperSeesRunning'
  <2>1. run[w] \in Run /\ mine[w] \in Entry
    BY <1>0, <1>2 DEF SaveWrite, MainTypes, Status
  <2> QED BY <1>0, <1>2, <2>1, SaveIndexes DEF SaveWrite
<1>3. ASSUME NEW w \in Worker, BeatWrite(w) PROVE ReaperSeesRunning'
  <2>1. run[w] \in Run /\ beat[w].entry \in Entry
    BY <1>0, <1>3 DEF BeatWrite, MainTypes, BeatTypes, Beat, NoBeat, Ending
  <2> QED BY <1>0, <1>3, <2>1, SaveIndexes DEF BeatWrite
<1>4. ASSUME NEW w \in Worker, DeleteWrite(w) PROVE ReaperSeesRunning'
  <2>1. run[w] \in Run
    BY <1>0, <1>4 DEF DeleteWrite, MainTypes
  <2> QED BY <1>0, <1>4, <2>1, DeleteIndexes DEF DeleteWrite
<1>5. ASSUME NEW p \in Reaper, ReapWrite(p) PROVE ReaperSeesRunning'
  <2>1. sweep[p].at \in Run
    BY <1>0, <1>5 DEF ReapWrite, OtherTypes, Sweep
  <2> QED BY <1>0, <1>5, <2>1, DeleteIndexes DEF ReapWrite
<1>6. CASE Tick
  BY <1>0, <1>6 DEF Tick, ReaperSeesRunning, StoreTypes, Entry, NoEntry
<1> QED
  <2>1. CASE \E w \in Worker : \/ \E r \in Run : Take(w, r)
                               \/ CheckQuota(w) \/ SaveRead(w) \/ CreateContainer(w) \/ Prepare(w)
                               \/ RemoveFailed(w) \/ Finish(w) \/ CleanupGet(w) \/ Destroy(w)
                               \/ DeleteRead(w) \/ Crash(w) \/ Stop(w) \/ BeatGet(w) \/ BeatRead(w)
    BY <1>1, <2>1
    DEF Take, CheckQuota, SaveRead, CreateContainer, Prepare, RemoveFailed, Finish, CleanupGet,
        Destroy, DeleteRead, Crash, Stop, BeatGet, BeatRead
  <2>2. CASE \E p \in Reaper : \/ FindList(p) \/ (\E r \in Run : FindGet(p, r) \/ Kill(p, r))
                               \/ ReapRead(p) \/ ReaperDies(p)
    BY <1>1, <2>2 DEF FindList, FindGet, Kill, ReapRead, ReaperDies
  <2>3. CASE UNCHANGED vars
    BY <1>1, <2>3 DEF vars
  <2> QED BY <1>2, <1>3, <1>4, <1>5, <1>6, <2>1, <2>2, <2>3 DEF Next, WorkerStep, BeatStep, ReapStep

\* However saves and deletes overtake each other, the index lists every record
\* that says RUNNING.
THEOREM RunningIsListed == Spec => []ReaperSeesRunning
<1>1. Init => ReaperSeesRunning
  BY DEF Init, ReaperSeesRunning, NoEntry
<1> QED BY <1>1, TypeCorrect, IndexStep, PTL DEF Spec

-----------------------------------------------------------------------------
(* The quota. Between the count and the record a worker has a claim on a   *)
(* record; so has one whose heartbeat may bring a record back. The claims  *)
(* and the records together are what never exceeds the bound.              *)

Writer == {w \in Worker : \/ pc[w] \in Status \cup {"create", "prepare"}
                          \/ beat[w].at = "save"}
Claimed == Recorded \cup {run[w] : w \in Writer}
ClaimsBounded == Cardinality(Claimed) <= MaxConcurrent + Cardinality(Worker) - 1

LEMMA ClaimedFinite == ASSUME TypeOK PROVE Claimed \subseteq Run /\ IsFiniteSet(Claimed)
<1>0. MainTypes /\ BeatTypes
  BY TypeParts
<1>1. \A w \in Writer : run[w] \in Run
  BY <1>0 DEF Writer, MainTypes, BeatTypes, Status, NoBeat, Ending
<1>2. Claimed \subseteq Run
  BY <1>1 DEF Claimed, Recorded
<1> QED BY <1>2, FS_Subset, WorkspacesAssumption DEF WorkspacesAssumption

\* A step after which nobody claims more keeps the bound.
LEMMA FewerClaims ==
    ASSUME TypeOK, ClaimsBounded, Claimed' \subseteq Claimed
    PROVE  ClaimsBounded'
<1>1. Cardinality(Claimed') <= Cardinality(Claimed) /\ IsFiniteSet(Claimed')
  BY ClaimedFinite, FS_Subset
<1>2. Cardinality(Claimed') \in Nat /\ Cardinality(Claimed) \in Nat /\ Cardinality(Worker) \in Nat
  BY <1>1, ClaimedFinite, FS_CardinalityType, WorkspacesAssumption DEF WorkspacesAssumption
<1> QED BY <1>1, <1>2, WorkspacesAssumption DEF ClaimsBounded, WorkspacesAssumption

\* After the count every worker may add one, to less than the limit.
LEMMA CountedClaims ==
    ASSUME TypeOK, TypeOK', UNCHANGED record, Cardinality(Recorded) < MaxConcurrent
    PROVE  ClaimsBounded'
<1> DEFINE C == {run'[w] : w \in Writer'}
<1>1. IsFiniteSet(Recorded) /\ Claimed' = Recorded \cup C
  <2>1. Recorded' = Recorded
    BY DEF Recorded
  <2>2. Recorded \subseteq Run
    BY DEF Recorded
  <2> QED BY <2>1, <2>2, FS_Subset, WorkspacesAssumption DEF Claimed, WorkspacesAssumption
<1>2. IsFiniteSet(C) /\ Cardinality(C) <= Cardinality(Worker)
  <2>1. Writer' \subseteq Worker
    BY DEF Writer
  <2>2. IsFiniteSet(Writer') /\ Cardinality(Writer') <= Cardinality(Worker)
    BY <2>1, FS_Subset, WorkspacesAssumption DEF WorkspacesAssumption
  <2>3. IsFiniteSet(C) /\ Cardinality(C) <= Cardinality(Writer')
    <3> DEFINE f == [w \in Writer' |-> run'[w]]
    <3>1. f \in Surjection(Writer', C)
      BY DEF Surjection
    <3> HIDE DEF f, C
    <3> QED BY <2>2, <3>1, FS_Surjection
  <2>4. Cardinality(C) \in Nat /\ Cardinality(Writer') \in Nat /\ Cardinality(Worker) \in Nat
    BY <2>2, <2>3, FS_CardinalityType, WorkspacesAssumption DEF WorkspacesAssumption
  <2> QED BY <2>2, <2>3, <2>4
<1>3. Cardinality(Recorded \cup C) <= Cardinality(Recorded) + Cardinality(C)
  <2>1. /\ IsFiniteSet(Recorded \cap C)
        /\ Cardinality(Recorded \cup C)
              = Cardinality(Recorded) + Cardinality(C) - Cardinality(Recorded \cap C)
    BY <1>1, <1>2, FS_Union, FS_Intersection
  <2> QED BY <1>1, <1>2, <2>1, FS_CardinalityType
<1>4. Cardinality(Recorded) \in Nat /\ Cardinality(C) \in Nat /\ Cardinality(Worker) \in Nat
      /\ Cardinality(Claimed') \in Nat
  BY <1>1, <1>2, ClaimedFinite, FS_CardinalityType, FS_Union, WorkspacesAssumption
  DEF WorkspacesAssumption
<1> HIDE DEF C
<1> QED BY <1>1, <1>2, <1>3, <1>4, WorkspacesAssumption DEF ClaimsBounded, WorkspacesAssumption

LEMMA ClaimsStep == TypeOK /\ ClaimsBounded /\ [Next]_vars => ClaimsBounded'
<1> SUFFICES ASSUME TypeOK, ClaimsBounded, [Next]_vars PROVE ClaimsBounded'
  OBVIOUS
<1>0. StoreTypes /\ MainTypes /\ BeatTypes /\ OtherTypes
  BY TypeParts
<1>1. CASE UNCHANGED vars
  BY <1>1, FewerClaims DEF vars, store, main, Claimed, Recorded, Writer
<1>2. ASSUME NEW w \in Worker, NEW r \in Run, Take(w, r) PROVE ClaimsBounded'
  <2>1. \A v \in Writer' : v \in Writer /\ run'[v] = run[v]
    BY <1>0, <1>2 DEF Take, Goto, Writer, MainTypes, BeatTypes, Resting, Status
  <2>2. Recorded' = Recorded
    BY <1>2 DEF Take, Recorded, store
  <2> QED BY <2>1, <2>2, FewerClaims DEF Claimed
<1>3. ASSUME NEW w \in Worker, CheckQuota(w) PROVE ClaimsBounded'
  <2>1. CASE Cardinality(Recorded) < MaxConcurrent
    <3>1. TypeOK'
      BY <1>3, WorkerTypes DEF WorkerStep
    <3>2. UNCHANGED record
      BY <1>3 DEF CheckQuota, store
    <3> QED BY <2>1, <3>1, <3>2, CountedClaims
  <2>2. CASE Goto(w, "work")
    <3>1. \A v \in Writer' : v \in Writer /\ run'[v] = run[v]
      BY <1>0, <1>3, <2>2 DEF CheckQuota, Goto, Writer, MainTypes, Status
    <3>2. Recorded' = Recorded
      BY <1>3 DEF CheckQuota, Recorded, store
    <3> QED BY <3>1, <3>2, FewerClaims DEF Claimed
  <2> QED BY <1>3, <2>1, <2>2 DEF CheckQuota
<1>4. ASSUME NEW w \in Worker,
             \/ SaveRead(w) \/ CreateContainer(w) \/ Prepare(w) \/ RemoveFailed(w)
             \/ Finish(w) \/ CleanupGet(w) \/ Destroy(w) \/ DeleteRead(w) \/ Crash(w)
             \/ Stop(w) \/ BeatGet(w) \/ BeatRead(w)
      PROVE  ClaimsBounded'
  <2>1. Recorded' = Recorded
    BY <1>4
    DEF SaveRead, CreateContainer, Prepare, RemoveFailed, Finish, CleanupGet, Destroy,
        DeleteRead, Crash, Stop, BeatGet, BeatRead, Recorded, store
  <2>2. \A v \in Worker \ {w} : (v \in Writer' <=> v \in Writer) /\ run'[v] = run[v]
    BY <1>0, <1>4
    DEF SaveRead, CreateContainer, Prepare, RemoveFailed, Cancel, Finish, CleanupGet, Destroy, Leave,
        DeleteRead, Crash, Stop, BeatGet, BeatRead, Goto, SaveNext, main, Writer, MainTypes,
        BeatTypes
  <2>3. w \in Writer' => run'[w] = run[w] /\ (w \in Writer \/ run[w] \in Recorded)
    <3>1. CASE SaveRead(w) \/ CreateContainer(w) \/ Prepare(w)
      BY <1>0, <3>1 DEF SaveRead, CreateContainer, Prepare, Writer, Status
    <3>2. CASE RemoveFailed(w) \/ Destroy(w) \/ DeleteRead(w)
      BY <1>0, <3>2 DEF RemoveFailed, Destroy, DeleteRead, Goto, Writer, Status, MainTypes
    <3>3. CASE Finish(w) \/ Crash(w)
      BY <1>0, <3>3 DEF Cancel, Finish, Crash, Leave, Goto, Writer, Status, MainTypes, BeatTypes, NoBeat
    <3>4. CASE CleanupGet(w)
      BY <1>0, <3>4
      DEF CleanupGet, Leave, Goto, SaveNext, Writer, Status, MainTypes, BeatTypes, NoBeat,
          Ending, Recorded
    <3>5. CASE Stop(w)
      BY <1>0, <3>5 DEF Cancel, Stop, Writer, BeatTypes, NoBeat, main
    <3>6. CASE BeatGet(w)
      <4>1. run[w] \in Run
        BY <1>0, <3>6 DEF BeatGet, MainTypes, BeatTypes, NoBeat, Ending
      <4> QED BY <3>6, <4>1 DEF BeatGet, Writer, Recorded, main
    <3>7. CASE BeatRead(w)
      BY <3>7 DEF BeatRead, Writer, main
    <3> QED BY <1>4, <3>1, <3>2, <3>3, <3>4, <3>5, <3>6, <3>7
  <2>4. Writer' \subseteq Worker
    BY DEF Writer
  <2> QED BY <2>1, <2>2, <2>3, <2>4, FewerClaims DEF Claimed
<1>5. ASSUME NEW w \in Worker, SaveWrite(w) \/ BeatWrite(w) PROVE ClaimsBounded'
  <2>1. w \in Writer
    BY <1>5 DEF SaveWrite, BeatWrite, Writer
  <2>2. Recorded' \subseteq Recorded \cup {run[w]}
    BY <1>0, <1>5 DEF SaveWrite, BeatWrite, Save, Recorded, StoreTypes
  <2>3. \A v \in Writer' : v \in Writer /\ run'[v] = run[v]
    <3>1. CASE SaveWrite(w)
      BY <1>0, <2>1, <3>1 DEF SaveWrite, Goto, Writer, MainTypes
    <3>2. CASE BeatWrite(w)
      BY <1>0, <2>1, <3>2 DEF BeatWrite, Writer, BeatTypes, main
    <3> QED BY <1>5, <3>1, <3>2
  <2> QED BY <2>1, <2>2, <2>3, FewerClaims DEF Claimed
<1>6. ASSUME NEW w \in Worker, DeleteWrite(w) PROVE ClaimsBounded'
  <2>1. Recorded' \subseteq Recorded
    BY <1>0, <1>6 DEF DeleteWrite, Delete, Recorded, StoreTypes, store
  <2>2. \A v \in Writer' : v \in Writer /\ run'[v] = run[v]
    BY <1>0, <1>6
    DEF DeleteWrite, Leave, Goto, Writer, MainTypes, BeatTypes, NoBeat, Ending, Status
  <2> QED BY <2>1, <2>2, FewerClaims DEF Claimed
<1>7. ASSUME NEW p \in Reaper, ReapStep(p) \/ ReaperDies(p) PROVE ClaimsBounded'
  <2>1. Recorded' \subseteq Recorded
    BY <1>0, <1>7
    DEF ReapStep, ReaperDies, FindList, FindGet, Kill, ReapRead, ReapWrite, Delete, Recorded, StoreTypes, store
  <2>2. Writer' = Writer /\ run' = run
    BY <1>7 DEF ReapStep, ReaperDies, FindList, FindGet, Kill, ReapRead, ReapWrite, Writer, main
  <2> QED BY <2>1, <2>2, FewerClaims DEF Claimed
<1>8. CASE Tick
  <2>1. Recorded' \subseteq Recorded
    BY <1>0, <1>8, WorkspacesAssumption
    DEF Tick, Recorded, StoreTypes, NoEntry, Stale, WorkspacesAssumption
  <2>2. Writer' = Writer /\ run' = run
    BY <1>8 DEF Tick, Writer, main
  <2> QED BY <2>1, <2>2, FewerClaims DEF Claimed
<1> QED BY <1>1, <1>2, <1>3, <1>4, <1>5, <1>6, <1>7, <1>8 DEF Next, WorkerStep, BeatStep

LEMMA ClaimsInit == Init => ClaimsBounded
<1> SUFFICES ASSUME Init PROVE ClaimsBounded
  OBVIOUS
<1>1. Claimed = {}
  BY DEF Init, Claimed, Recorded, Writer, Status, NoBeat
<1>2. Cardinality(Claimed) = 0 /\ Cardinality(Worker) \in Nat
  BY <1>1, FS_EmptySet, FS_CardinalityType, WorkspacesAssumption DEF WorkspacesAssumption
<1> QED BY <1>2, WorkspacesAssumption DEF ClaimsBounded, WorkspacesAssumption

\* With any number of workers, deliveries and late heartbeats, a tenant has at
\* most one workspace over the limit for each worker but one.
THEOREM QuotaBound == Spec => []QuotaOvershoot
<1>1. TypeOK /\ ClaimsBounded => QuotaOvershoot
  <2> SUFFICES ASSUME TypeOK, ClaimsBounded PROVE QuotaOvershoot
    OBVIOUS
  <2>1. Recorded \subseteq Claimed
    BY DEF Claimed
  <2>2. IsFiniteSet(Recorded) /\ Cardinality(Recorded) <= Cardinality(Claimed)
    BY <2>1, ClaimedFinite, FS_Subset
  <2>3. Cardinality(Recorded) \in Nat /\ Cardinality(Claimed) \in Nat /\ Cardinality(Worker) \in Nat
    BY <2>2, ClaimedFinite, FS_CardinalityType, WorkspacesAssumption DEF WorkspacesAssumption
  <2> QED BY <2>2, <2>3, WorkspacesAssumption DEF ClaimsBounded, QuotaOvershoot, WorkspacesAssumption
<1> QED BY <1>1, TypeCorrect, ClaimsInit, ClaimsStep, PTL DEF Spec

-----------------------------------------------------------------------------
(* A run that was delivered once belongs to one worker: what its container *)
(* and its record are follows from how far that worker is.                 *)

\* Some reaper is going to end the workspace of the run, or is doing so.
Swept(r) == \E p \in Reaper : r \in sweep[p].todo \/ r = sweep[p].at

\* Some reaper has found the run in the index and is going to read its record.
Marked(r) == \E p \in Reaper : r \in sweep[p].list

\* The workspace runs, as far as a reaper can see, or some reaper has seen it.
Listed(r) == r \in indexed \/ record[r].status = "running" \/ Marked(r) \/ Swept(r)

Sound(r) == r \in container /\ r \notin stuck

Alone(w) == pc[w] # "idle" /\ deliveries[run[w]] = 1

Apart ==
    /\ \A w \in Worker : pc[w] # "idle" => deliveries[run[w]] >= 1
    /\ \A v, w \in Worker : v # w /\ pc[w] # "idle" /\ run[v] = run[w] => deliveries[run[w]] > 1

Fresh == \A r \in Run : deliveries[r] = 0 => ~Listed(r) /\ r \notin Recorded /\ r \notin container

Killed == \A p \in Reaper : sweep[p].at # NoRun /\ deliveries[sweep[p].at] = 1 => ~Sound(sweep[p].at)

\* Until the status RUNNING is saved no reaper can know of the workspace.
Before == {"quota", "provisioning", "create", "ready", "prepare", "running", "failed", "remove"}

Local(w) ==
    /\ info[w] => pc[w] \in {"work", "clean", "cleaning"}
    /\ pc[w] = "running" => mine[w].age = 0
    /\ beat[w].at = "save" => beat[w].entry.age = 0

\* While it works, its heartbeats are younger than what a reaper looks for.
Live(w) ==
    /\ Sound(run[w]) /\ run[w] \in Recorded /\ ~Swept(run[w])
    /\ record[run[w]].age <= 1
    /\ w \in beaten => record[run[w]].age = 0

Owner(w) ==
    /\ pc[w] \in Before => ~Listed(run[w]) /\ beat[w].entry.status # "running"
    /\ pc[w] \in Before \ {"quota", "provisioning"} => run[w] \in Recorded
    /\ pc[w] \in {"ready", "prepare", "running"} => Sound(run[w])
    /\ pc[w] = "delete" => ~Sound(run[w])
    /\ pc[w] = "work" /\ info[w] /\ beat[w].at # "off" => Live(w)

\* A container that no worker has is recorded too.
Kept == \A r \in Run : Sound(r) /\ deliveries[r] = 1 => r \in Recorded

Owned == \A w \in Worker : Local(w) /\ (Alone(w) => Owner(w))

WorkspaceInv == TypeOK /\ Apart /\ Fresh /\ Killed /\ Kept /\ Owned

\* Nothing happens to the workspace of the run.
Aside(q) ==
    /\ record'[q] = record[q]
    /\ q \in indexed' <=> q \in indexed
    /\ q \in container' <=> q \in container
    /\ q \in stuck' <=> q \in stuck

\* A step of one worker, or of its heartbeat.
StepOf(w) ==
    /\ pc[w] # "idle" /\ run[w] \in Run
    /\ pc'[w] # "idle" => run'[w] = run[w]
    /\ UNCHANGED <<sweep, deliveries>>
    /\ \A v \in Worker \ {w} :
          /\ pc'[v] = pc[v] /\ run'[v] = run[v] /\ info'[v] = info[v] /\ mine'[v] = mine[v]
          /\ beat'[v] = beat[v] /\ (v \in beaten' <=> v \in beaten)
    /\ \A q \in Run \ {run[w]} : Aside(q)
    /\ \A q \in Run : Sound(q)' => Sound(q) \/ (q = run[w] /\ pc[w] = "create")

LEMMA SaveAside ==
    ASSUME StoreTypes, NEW r \in Run, NEW e, NEW was, Save(r, e, was),
           NEW q \in Run \ {r}
    PROVE  record'[q] = record[q] /\ (q \in indexed' <=> q \in indexed)
BY DEF StoreTypes, Save

LEMMA DeleteAside ==
    ASSUME StoreTypes, NEW r \in Run, NEW was, Delete(r, was), NEW q \in Run \ {r}
    PROVE  record'[q] = record[q] /\ (q \in indexed' <=> q \in indexed)
BY DEF StoreTypes, Delete, store

LEMMA RemoveAside ==
    ASSUME PodmanTypes, NEW r \in Run, RemoveContainer(r)
    PROVE  /\ ~Sound(r)'
           /\ \A q \in Run \ {r} : /\ q \in container' <=> q \in container
                                   /\ q \in stuck' <=> q \in stuck
           /\ container' \subseteq container
BY DEF PodmanTypes, RemoveContainer, Sound

LEMMA StepsAside ==
    ASSUME TypeOK, NEW w \in Worker, WorkerStep(w) \/ BeatStep(w) \/ Crash(w) \/ Stop(w)
    PROVE  StepOf(w)
<1>0. StoreTypes /\ PodmanTypes /\ MainTypes /\ BeatTypes
  BY TypeParts
<1>1. pc[w] # "idle" /\ run[w] \in Run
  <2>1. pc[w] # "idle"
    BY <1>0
    DEF WorkerStep, BeatStep, CheckQuota, SaveRead, SaveWrite, CreateContainer, Prepare,
        RemoveFailed, Finish, CleanupGet, Destroy, DeleteRead, DeleteWrite, Crash, Stop, BeatGet,
        BeatRead, BeatWrite, Status, BeatTypes, NoBeat, Ending
  <2> QED BY <1>0, <2>1 DEF MainTypes
<1>2. UNCHANGED <<sweep, deliveries>>
  BY DEF WorkerStep, BeatStep, CheckQuota, SaveRead, SaveWrite, CreateContainer, Prepare,
         RemoveFailed, Finish, CleanupGet, Destroy, DeleteRead, DeleteWrite, Crash, Stop, BeatGet,
         BeatRead, BeatWrite
<1>3. pc'[w] # "idle" => run'[w] = run[w]
  BY <1>0
  DEF WorkerStep, BeatStep, CheckQuota, SaveRead, SaveWrite, CreateContainer, Prepare,
      RemoveFailed, Finish, CleanupGet, Destroy, DeleteRead, DeleteWrite, Crash, Stop, BeatGet,
      BeatRead, BeatWrite, Leave, Goto, main, MainTypes
<1>4. ASSUME NEW v \in Worker \ {w}
      PROVE  /\ pc'[v] = pc[v] /\ run'[v] = run[v] /\ info'[v] = info[v] /\ mine'[v] = mine[v]
             /\ beat'[v] = beat[v] /\ (v \in beaten' <=> v \in beaten)
  <2>1. CASE WorkerStep(w)
    BY <1>0, <2>1
    DEF WorkerStep, CheckQuota, SaveRead, SaveWrite, CreateContainer, Prepare, RemoveFailed,
        Cancel, Finish, CleanupGet, Destroy, DeleteRead, DeleteWrite, Leave, Goto, SaveNext, MainTypes,
        BeatTypes
  <2>2. CASE BeatStep(w) \/ Crash(w) \/ Stop(w)
    BY <1>0, <2>2
    DEF BeatStep, BeatGet, BeatRead, BeatWrite, Cancel, Crash, Stop, Leave, Goto, main, MainTypes, BeatTypes
  <2> QED BY <2>1, <2>2
<1>5. /\ \A q \in Run \ {run[w]} : Aside(q)
      /\ \A q \in Run : Sound(q)' => Sound(q) \/ (q = run[w] /\ pc[w] = "create")
  <2> PICK r \in Run : r = run[w]
    BY <1>1
  <2>1. CASE SaveWrite(w) \/ BeatWrite(w)
    <3>1. UNCHANGED podman
      BY <2>1 DEF SaveWrite, BeatWrite
    <3>2. PICK e, was : Save(r, e, was)
      BY <2>1 DEF SaveWrite, BeatWrite
    <3>3. \A q \in Run \ {r} : Aside(q)
      BY <1>0, <3>1, <3>2, SaveAside DEF podman, Aside
    <3> QED BY <3>1, <3>3 DEF podman, Sound
  <2>2. CASE DeleteWrite(w)
    <3>1. UNCHANGED podman /\ Delete(r, old[w])
      BY <2>2 DEF DeleteWrite
    <3>2. \A q \in Run \ {r} : Aside(q)
      BY <1>0, <3>1, DeleteAside DEF podman, Aside
    <3> QED BY <3>1, <3>2 DEF podman, Sound
  <2>3. CASE RemoveFailed(w) \/ Destroy(w)
    <3>1. UNCHANGED store /\ RemoveContainer(r)
      BY <2>3 DEF RemoveFailed, Destroy
    <3>2. \A q \in Run \ {r} : Aside(q)
      BY <1>0, <3>1, RemoveAside DEF store, Aside
    <3>3. \A q \in Run : Sound(q)' => Sound(q)
      BY <1>0, <3>1, RemoveAside DEF Sound
    <3> QED BY <3>2, <3>3
  <2>4. CASE CreateContainer(w)
    <3>1. \A q \in Run \ {r} : Aside(q)
      BY <1>0, <2>4 DEF CreateContainer, store, Aside
    <3>2. pc[w] = "create"
      BY <2>4 DEF CreateContainer
    <3> QED BY <3>1, <3>2 DEF Aside, Sound
  <2>5. CASE UNCHANGED <<store, podman>>
    BY <2>5 DEF store, podman, Aside, Sound
  <2>6. SaveWrite(w) \/ BeatWrite(w) \/ DeleteWrite(w) \/ RemoveFailed(w) \/ Destroy(w)
        \/ CreateContainer(w) \/ UNCHANGED <<store, podman>>
    BY DEF WorkerStep, BeatStep, CheckQuota, SaveRead, Prepare, Finish, CleanupGet, DeleteRead,
           Crash, Stop, BeatGet, BeatRead
  <2> QED BY <2>1, <2>2, <2>3, <2>4, <2>5, <2>6
<1> QED BY <1>1, <1>2, <1>3, <1>4, <1>5 DEF StepOf

\* A step of one worker takes nothing from a worker that has a run for itself.
LEMMA OthersKept ==
    ASSUME WorkspaceInv, TypeOK', NEW w \in Worker, StepOf(w)
    PROVE  Apart' /\ Fresh' /\ Killed' /\ \A v \in Worker \ {w} : Local(v)' /\ (Alone(v)' => Owner(v)')
<1>0. StoreTypes /\ PodmanTypes /\ MainTypes /\ BeatTypes /\ OtherTypes
  BY TypeParts DEF WorkspaceInv
<1>1. MainTypes' /\ OtherTypes'
  BY DEF TypeOK, MainTypes, OtherTypes, Sweep
<1>2. Apart'
  BY <1>0, <1>1 DEF WorkspaceInv, Apart, StepOf, MainTypes
<1>3. \A q \in Run : (Swept(q)' <=> Swept(q)) /\ (Marked(q)' <=> Marked(q))
  BY DEF Swept, Marked, StepOf
<1>4. Fresh'
  <2> SUFFICES ASSUME NEW q \in Run, (deliveries[q] = 0)'
               PROVE  (~Listed(q) /\ q \notin Recorded /\ q \notin container)'
    BY DEF Fresh
  <2>1. deliveries[q] = 0 /\ q # run[w]
    BY <1>0 DEF WorkspaceInv, StepOf, Apart, OtherTypes
  <2>2. Aside(q)
    BY <2>1 DEF StepOf
  <2> QED BY <1>3, <2>1, <2>2 DEF WorkspaceInv, Fresh, Listed, Recorded, Aside
<1>5. Killed'
  <2> SUFFICES ASSUME NEW p \in Reaper, (sweep[p].at # NoRun /\ deliveries[sweep[p].at] = 1)'
               PROVE  ~Sound(sweep[p].at)'
    BY DEF Killed
  <2> PICK q \in Run : q = sweep[p].at /\ q = sweep'[p].at /\ deliveries[q] = 1
    BY <1>0 DEF StepOf, OtherTypes, Sweep
  <2>1. ~Sound(q)
    BY <1>0, WorkspacesAssumption DEF WorkspaceInv, Killed, WorkspacesAssumption
  <2>2. ~(q = run[w] /\ pc[w] = "create")
    BY DEF WorkspaceInv, Owned, Owner, Alone, Before, Listed, Marked, Swept
  <2> QED BY <2>1, <2>2 DEF StepOf, Sound
<1>6. ASSUME NEW v \in Worker \ {w} PROVE Local(v)' /\ (Alone(v)' => Owner(v)')
  <2>1. /\ pc'[v] = pc[v] /\ run'[v] = run[v] /\ info'[v] = info[v] /\ mine'[v] = mine[v]
        /\ beat'[v] = beat[v] /\ (v \in beaten' <=> v \in beaten)
        /\ deliveries' = deliveries
    BY DEF StepOf
  <2>2. Local(v)'
    BY <2>1 DEF WorkspaceInv, Owned, Local
  <2>3. ASSUME Alone(v)' PROVE Owner(v)'
    <3>1. Alone(v)
      BY <2>1, <2>3 DEF Alone
    <3>2. PICK q \in Run : q = run[v] /\ q = run'[v] /\ q # run[w]
      BY <1>0, <2>1, <3>1 DEF Alone, WorkspaceInv, Apart, StepOf, MainTypes
    <3>3. Aside(q)
      BY <3>2 DEF StepOf
    <3>4. Owner(v)
      BY <3>1 DEF WorkspaceInv, Owned
    <3>5. (Sound(q)' <=> Sound(q)) /\ (q \in Recorded' <=> q \in Recorded) /\ (Listed(q)' <=> Listed(q))
      BY <1>3, <3>3 DEF Aside, Sound, Recorded, Listed
    <3>6. Live(v) => Live(v)'
      BY <1>3, <2>1, <3>2, <3>3, <3>5 DEF Live, Aside, Sound, Swept, Recorded
    <3> QED BY <2>1, <3>2, <3>4, <3>5, <3>6 DEF Owner, Sound, Listed, Marked, Recorded, Swept
  <2> QED BY <2>2, <2>3
<1> QED BY <1>2, <1>4, <1>5, <1>6

LEMMA LocalKept ==
    ASSUME WorkspaceInv, TypeOK', NEW w \in Worker,
           WorkerStep(w) \/ BeatStep(w) \/ Crash(w) \/ Stop(w)
    PROVE  Local(w)'
<1>0. MainTypes /\ BeatTypes /\ Local(w)
  BY TypeParts DEF WorkspaceInv, Owned
<1>1. CASE CheckQuota(w) \/ SaveRead(w) \/ DeleteRead(w)
  BY <1>0, <1>1 DEF CheckQuota, SaveRead, DeleteRead, SaveNext, Goto, Local, MainTypes
<1>2. CASE SaveWrite(w)
  <2>1. beat' = beat /\ info'[w] = (pc[w] = "running") /\ pc'[w] = After(pc[w]) /\ pc[w] \in Status
    BY <1>0, <1>2 DEF SaveWrite, Goto, MainTypes
  <2> QED BY <1>0, <2>1 DEF Local, After, Status
<1>3. CASE CreateContainer(w) \/ Prepare(w) \/ RemoveFailed(w) \/ Destroy(w)
  BY <1>0, <1>3 DEF CreateContainer, Prepare, RemoveFailed, Destroy, SaveNext, Goto, Local, MainTypes
<1>4. CASE Finish(w) \/ CleanupGet(w) \/ DeleteWrite(w) \/ Crash(w)
  BY <1>0, <1>4
  DEF Cancel, Finish, CleanupGet, DeleteWrite, Crash, SaveNext, Leave, Goto, Local, MainTypes, BeatTypes, NoBeat
<1>5. CASE Stop(w) \/ BeatStep(w)
  BY <1>0, <1>5
  DEF Cancel, Stop, BeatStep, BeatGet, BeatRead, BeatWrite, Local, main, BeatTypes, Beat, NoBeat, Resting
<1> QED BY <1>1, <1>2, <1>3, <1>4, <1>5 DEF WorkerStep

\* What a step of the worker leaves of its own workspace.
LEMMA OwnerKept ==
    ASSUME WorkspaceInv, TypeOK', NEW w \in Worker, NEW r \in Run, r = run[w], deliveries[r] = 1,
           WorkerStep(w) \/ BeatStep(w) \/ Crash(w) \/ Stop(w)
    PROVE  /\ pc'[w] # "idle" => Owner(w)'
           /\ Sound(r)' => r \in Recorded'
<1>0. StoreTypes /\ PodmanTypes /\ MainTypes /\ BeatTypes /\ OtherTypes /\ Local(w) /\ StepOf(w)
  BY TypeParts, StepsAside DEF WorkspaceInv, Owned
<1>a. Owner(w) /\ (Sound(r) => r \in Recorded)
  BY <1>0 DEF WorkspaceInv, Owned, Alone, Kept, StepOf
<1>b. /\ Swept(r)' <=> Swept(r)
      /\ Marked(r)' <=> Marked(r)
      /\ pc'[w] # "idle" => run'[w] = r
  BY <1>0 DEF StepOf, Swept, Marked
<1>1. CASE CheckQuota(w)
  BY <1>0, <1>1, <1>a, <1>b
  DEF CheckQuota, SaveNext, Goto, Owner, Before, Local, MainTypes, Listed, Recorded, Sound, store,
      podman
<1>2. CASE SaveRead(w) \/ DeleteRead(w)
  BY <1>0, <1>2, <1>a, <1>b
  DEF SaveRead, DeleteRead, Owner, Before, Listed, Recorded, Sound, Live, Status, store, podman
<1>3. CASE SaveWrite(w)
  <2>1. /\ mine[w] \in Entry /\ mine[w].status = pc[w] /\ pc[w] \in Status
        /\ record' = [record EXCEPT ![r] = mine[w]]
        /\ indexed' = IF pc[w] = "running" THEN indexed \cup {r}
                      ELSE IF old[w] = "running" THEN indexed \ {r} ELSE indexed
        /\ UNCHANGED <<podman, run, beat, beaten>>
        /\ pc'[w] = After(pc[w]) /\ info'[w] = (pc[w] = "running")
    BY <1>0, <1>3 DEF SaveWrite, Save, MainTypes, Goto
  <2>2. record'[r] = mine[w] /\ mine[w] # NoEntry /\ r \in Recorded'
    BY <1>0, <2>1 DEF StoreTypes, Entry, NoEntry, Status, Recorded
  <2>3. pc[w] # "running" => (Listed(r)' => Listed(r))
    BY <1>b, <2>1, <2>2 DEF Listed
  <2>4. Sound(r)' <=> Sound(r)
    BY <2>1 DEF podman, Sound
  <2>5. CASE pc[w] = "running"
    <3>1. pc'[w] = "work" /\ mine[w].age = 0 /\ Sound(r) /\ ~Swept(r)
      BY <1>0, <1>a, <2>1, <2>5 DEF After, Local, Owner, Before, Listed
    <3>2. Live(w)'
      BY <1>b, <2>2, <2>4, <3>1 DEF Live, Sound, Swept, Recorded
    <3>3. pc'[w] \notin Before /\ pc'[w] # "delete"
      BY <3>1 DEF Before
    <3> QED BY <2>2, <3>2, <3>3 DEF Owner, Before
  <2>6. CASE pc[w] # "running"
    <3>1. pc'[w] \in Before => pc[w] \in Before
      BY <2>1, <2>6 DEF After, Status, Before
    <3>2. pc'[w] \in Before => ~Listed(r)' /\ beat'[w].entry.status # "running"
      BY <1>a, <2>1, <2>3, <2>6, <3>1 DEF Owner
    <3>3. pc'[w] \in {"ready", "prepare", "running"} => Sound(r)'
      BY <1>a, <2>1, <2>4, <2>6 DEF After, Status, Owner
    <3>4. pc'[w] \notin {"delete", "work"}
      BY <2>1, <2>6 DEF After, Status
    <3> QED BY <1>b, <2>2, <3>2, <3>3, <3>4 DEF Owner, Sound, Listed, Marked, Recorded, Swept
  <2> QED BY <2>5, <2>6
<1>4. CASE CreateContainer(w)
  <2>1. /\ UNCHANGED <<store, stuck, beat>> /\ pc[w] = "create"
        /\ \/ pc'[w] = "ready" /\ r \notin container /\ r \in container'
           \/ pc'[w] = "failed"
    BY <1>0, <1>4 DEF CreateContainer, SaveNext, Goto, MainTypes
  <2>2. ~Listed(r)' /\ r \in Recorded'
    BY <1>a, <1>b, <2>1 DEF Owner, Before, Listed, Recorded, store
  <2>3. pc'[w] = "ready" => Sound(r)'
    BY <1>0, <2>1 DEF Sound, PodmanTypes
  <2>4. beat'[w].entry.status # "running"
    BY <1>a, <2>1 DEF Owner, Before
  <2> QED BY <1>b, <2>1, <2>2, <2>3, <2>4 DEF Owner, Sound, Listed, Marked, Recorded, Swept
<1>5. CASE Prepare(w)
  <2>1. /\ UNCHANGED <<store, podman, beat>> /\ pc[w] = "prepare" /\ pc'[w] \in {"running", "failed"}
    BY <1>0, <1>5 DEF Prepare, SaveNext, Goto, MainTypes
  <2>2. ~Listed(r)' /\ r \in Recorded' /\ Sound(r)'
    BY <1>a, <1>b, <2>1 DEF Owner, Before, Listed, Recorded, Sound, store, podman
  <2>3. beat'[w].entry.status # "running"
    BY <1>a, <2>1 DEF Owner, Before
  <2> QED BY <1>b, <2>1, <2>2, <2>3 DEF Owner, Sound, Listed, Marked, Recorded, Swept
<1>6. CASE RemoveFailed(w) \/ Destroy(w)
  <2>1. /\ UNCHANGED <<store, beat, info>> /\ RemoveContainer(r)
        /\ \/ pc[w] = "remove" /\ pc'[w] = "work"
           \/ pc'[w] = "delete"
    BY <1>0, <1>6 DEF RemoveFailed, Destroy, Goto, MainTypes
  <2>2. ~Sound(r)'
    BY <1>0, <2>1, RemoveAside
  <2>3. pc'[w] = "work" => ~info'[w]
    BY <1>0, <2>1 DEF Local
  <2> QED BY <1>b, <2>1, <2>2, <2>3 DEF Owner, Before, Sound
<1>7. CASE Finish(w) \/ CleanupGet(w) \/ Crash(w)
  <2>1. UNCHANGED <<store, podman>> /\ pc'[w] \in {"idle", "clean", "cleaning"}
    BY <1>0, <1>7 DEF Finish, CleanupGet, Crash, Leave, SaveNext, Goto, MainTypes
  <2> QED BY <1>a, <2>1 DEF Owner, Before, Sound, Recorded, store, podman
<1>8. CASE DeleteWrite(w)
  <2>1. UNCHANGED podman /\ pc'[w] = "idle" /\ pc[w] = "delete"
    BY <1>0, <1>8 DEF DeleteWrite, Leave, Goto, MainTypes
  <2> QED BY <1>a, <2>1 DEF Owner, Sound, podman
<1>9. CASE Stop(w)
  <2>1. UNCHANGED <<store, podman, main>> /\ beat'[w] = NoBeat
    BY <1>0, <1>9 DEF Cancel, Stop, BeatTypes
  <2>2. beat'[w].at = "off" /\ beat'[w].entry.status # "running"
    BY <2>1 DEF NoBeat, NoEntry
  <2> QED BY <1>a, <1>b, <2>1, <2>2 DEF Owner, Before, Sound, Recorded, Listed, Marked, Swept, store, podman, main
<1>10. CASE BeatGet(w) \/ BeatRead(w)
  <2>1. UNCHANGED <<store, podman, main>> /\ beat[w].at # "off"
    BY <1>0, <1>10 DEF BeatGet, BeatRead
  <2>2. /\ (r \in Recorded' <=> r \in Recorded)
        /\ (Listed(r)' <=> Listed(r)) /\ (Sound(r)' <=> Sound(r))
        /\ record'[r] = record[r]
    BY <1>b, <2>1 DEF store, podman, Recorded, Listed, Sound
  <2>3. pc[w] \in Before => beat'[w].entry.status # "running"
    <3>1. CASE beat' = [beat EXCEPT ![w] = [at |-> "save", old |-> Unread,
                          entry |-> [status |-> record[r].status, age |-> 0]]]
      BY <1>0, <1>a, <3>1 DEF Owner, Listed, BeatTypes
    <3>2. CASE beat'[w].entry = beat[w].entry
      BY <1>a, <3>2 DEF Owner
    <3>3. BeatRead(w) => beat'[w].entry = beat[w].entry
      BY <1>0 DEF BeatRead, BeatTypes, Beat
    <3> QED BY <1>10, <3>1, <3>2, <3>3 DEF BeatGet
  <2>4. Live(w) => Live(w)'
    <3> SUFFICES ASSUME Live(w) PROVE Live(w)'
      OBVIOUS
    <3>1. beaten' = beaten
      BY <1>0, <1>10 DEF BeatGet, BeatRead, Live, Recorded
    <3> QED BY <1>b, <2>1, <2>2, <3>1 DEF Live, main, Sound, Swept, Recorded
  <2> QED BY <1>a, <1>b, <2>1, <2>2, <2>3, <2>4 DEF Owner, main, Sound, Listed, Marked, Recorded, Swept
<1>11. CASE BeatWrite(w)
  <2> PICK e \in Entry, b \in Old : e = beat[w].entry /\ b = beat[w].old /\ e.age = 0
    BY <1>0, <1>11 DEF BeatWrite, BeatTypes, Beat, Local
  <2>1. /\ UNCHANGED <<podman, main>> /\ beat' = [beat EXCEPT ![w] = Resting]
        /\ beaten' = beaten \cup {w}
        /\ record' = [record EXCEPT ![r] = e]
        /\ indexed' = IF e.status = "running" THEN indexed \cup {r}
                      ELSE IF b = "running" THEN indexed \ {r} ELSE indexed
    BY <1>11 DEF BeatWrite, Save
  <2>2. record'[r] = e /\ r \in Recorded' /\ (Sound(r)' <=> Sound(r))
    BY <1>0, <2>1 DEF StoreTypes, Entry, NoEntry, Status, Recorded, Sound, podman
  <2>3. pc[w] \in Before => ~Listed(r)'
    <3> SUFFICES ASSUME pc[w] \in Before PROVE ~Listed(r)'
      OBVIOUS
    <3>1. ~Listed(r) /\ e.status # "running"
      BY <1>a DEF Owner
    <3> QED BY <1>b, <2>1, <2>2, <3>1 DEF Listed
  <2>4. beat'[w].entry.status # "running"
    BY <1>0, <2>1 DEF BeatTypes, Resting, NoEntry
  <2>5. Live(w) => Live(w)'
    BY <1>b, <2>1, <2>2 DEF Live, main, Sound, Swept, Recorded
  <2>6. beat[w].at # "off"
    BY <1>11 DEF BeatWrite
  <2> QED BY <1>a, <1>b, <2>1, <2>2, <2>3, <2>4, <2>5, <2>6 DEF Owner, main, Sound, Listed, Marked, Recorded, Swept
<1> QED BY <1>1, <1>2, <1>3, <1>4, <1>5, <1>6, <1>7, <1>8, <1>9, <1>10, <1>11 DEF WorkerStep, BeatStep

LEMMA WorkersKeep ==
    ASSUME WorkspaceInv, TypeOK', NEW w \in Worker,
           WorkerStep(w) \/ BeatStep(w) \/ Crash(w) \/ Stop(w)
    PROVE  WorkspaceInv'
<1>0. TypeOK /\ StepOf(w)
  BY StepsAside DEF WorkspaceInv
<1>1. Apart' /\ Fresh' /\ Killed' /\ \A v \in Worker \ {w} : Local(v)' /\ (Alone(v)' => Owner(v)')
  BY <1>0, OthersKept
<1>2. Local(w)'
  BY LocalKept
<1>3. Alone(w)' => Owner(w)'
  <2> SUFFICES ASSUME Alone(w)' PROVE Owner(w)'
    OBVIOUS
  <2> PICK r \in Run : r = run[w]
    BY <1>0 DEF StepOf
  <2>1. pc'[w] # "idle" /\ deliveries[r] = 1
    BY <1>0 DEF Alone, StepOf
  <2> QED BY <2>1, OwnerKept
<1>4. Kept'
  <2> SUFFICES ASSUME NEW q \in Run, Sound(q)', deliveries'[q] = 1 PROVE q \in Recorded'
    BY DEF Kept, Sound
  <2>1. deliveries[q] = 1
    BY <1>0 DEF StepOf
  <2>2. CASE q = run[w]
    BY <2>1, <2>2, OwnerKept
  <2>3. CASE q # run[w]
    BY <1>0, <2>1, <2>3 DEF StepOf, Aside, Sound, Recorded, WorkspaceInv, Kept
  <2> QED BY <2>2, <2>3
<1> QED BY <1>1, <1>2, <1>3, <1>4 DEF WorkspaceInv, Owned

\* A run that was never delivered has nothing yet, and another delivery ends
\* that any worker has the run for itself.
LEMMA TakeKeeps ==
    ASSUME WorkspaceInv, TypeOK', NEW w \in Worker, NEW r \in Run, Take(w, r)
    PROVE  WorkspaceInv'
<1>0. StoreTypes /\ PodmanTypes /\ MainTypes /\ BeatTypes /\ OtherTypes
  BY TypeParts DEF WorkspaceInv
<1>1. /\ UNCHANGED <<store, podman, info, mine, sweep>>
      /\ pc[w] = "idle" /\ pc'[w] = "quota" /\ run'[w] = r
      /\ beat'[w] = Resting /\ beat[w] = NoBeat
      /\ deliveries' = [deliveries EXCEPT ![r] = @ + 1]
      /\ \A v \in Worker \ {w} : /\ pc'[v] = pc[v] /\ run'[v] = run[v] /\ beat'[v] = beat[v]
                                 /\ (v \in beaten' <=> v \in beaten)
  BY <1>0 DEF Take, Goto, MainTypes, BeatTypes, Ending
<1>2. deliveries'[r] = deliveries[r] + 1 /\ deliveries[r] \in Nat
      /\ \A q \in Run : deliveries[q] \in Nat /\ (q # r => deliveries'[q] = deliveries[q])
  BY <1>0, <1>1 DEF OtherTypes
<1>3. /\ \A q \in Run : (Listed(q)' <=> Listed(q)) /\ (Sound(q)' <=> Sound(q)) /\ (Swept(q)' <=> Swept(q))
      /\ Recorded' = Recorded /\ container' = container /\ record' = record
  BY <1>1 DEF Listed, Marked, Swept, Sound, Recorded, store, podman
<1>4. Apart'
  <2>1. \A v \in Worker : pc'[v] # "idle" => run'[v] \in Run /\ deliveries'[run'[v]] >= 1
    BY <1>0, <1>1, <1>2 DEF WorkspaceInv, Apart, MainTypes
  <2>2. ASSUME NEW u \in Worker, NEW v \in Worker, u # v, pc'[v] # "idle", run'[u] = run'[v]
        PROVE  deliveries'[run'[v]] > 1
    <3>1. CASE v = w
      <4>1. pc[u] # "idle" /\ run[u] = r
        BY <1>0, <1>1, <2>2, <3>1, WorkspacesAssumption DEF MainTypes, WorkspacesAssumption
      <4> QED BY <1>1, <1>2, <3>1, <4>1 DEF WorkspaceInv, Apart
    <3>2. CASE u = w
      BY <1>1, <1>2, <2>2, <3>2 DEF WorkspaceInv, Apart
    <3>3. CASE u # w /\ v # w
      <4>1. deliveries[run[v]] > 1 /\ run'[v] = run[v] /\ run[v] \in Run
        BY <1>0, <1>1, <2>2, <3>3 DEF WorkspaceInv, Apart, MainTypes
      <4> QED BY <1>2, <4>1
    <3> QED BY <3>1, <3>2, <3>3
  <2> QED BY <2>1, <2>2 DEF Apart
<1>5. Fresh'
  BY <1>2, <1>3 DEF WorkspaceInv, Fresh
<1>6. Killed'
  <2> SUFFICES ASSUME NEW p \in Reaper, (sweep[p].at # NoRun /\ deliveries[sweep[p].at] = 1)'
               PROVE  ~Sound(sweep[p].at)'
    BY DEF Killed
  <2> PICK q \in Run : q = sweep[p].at /\ q = sweep'[p].at /\ deliveries'[q] = 1
    BY <1>0, <1>1 DEF OtherTypes, Sweep
  <2>1. deliveries[q] = 1
    <3>1. deliveries[q] # 0
      BY DEF WorkspaceInv, Fresh, Listed, Marked, Swept
    <3> QED BY <1>2, <3>1
  <2>2. ~Sound(q)
    BY <2>1, WorkspacesAssumption DEF WorkspaceInv, Killed, WorkspacesAssumption
  <2> QED BY <1>3, <2>2 DEF Sound
<1>7. Kept'
  BY <1>2, <1>3 DEF WorkspaceInv, Kept, Fresh, Sound
<1>8. ASSUME NEW v \in Worker PROVE Local(v)' /\ (Alone(v)' => Owner(v)')
  <2>1. CASE v = w
    <3>1. Local(v)'
      BY <1>1, <2>1 DEF WorkspaceInv, Owned, Local, Resting
    <3>2. ASSUME deliveries'[r] = 1 PROVE Owner(v)'
      <4>1. ~Listed(r)' 
        BY <1>2, <1>3, <3>2 DEF WorkspaceInv, Fresh
      <4>2. beat'[v].entry.status # "running"
        BY <1>1, <2>1 DEF Resting, NoEntry
      <4> QED BY <1>1, <2>1, <4>1, <4>2 DEF Owner, Listed, Marked, Swept
    <3> QED BY <1>1, <2>1, <3>1, <3>2 DEF Alone
  <2>2. CASE v # w
    <3>1. /\ pc'[v] = pc[v] /\ run'[v] = run[v] /\ info'[v] = info[v] /\ mine'[v] = mine[v]
          /\ beat'[v] = beat[v] /\ (v \in beaten' <=> v \in beaten)
      BY <1>1, <2>2
    <3>2. Local(v)'
      BY <3>1 DEF WorkspaceInv, Owned, Local
    <3>3. ASSUME Alone(v)' PROVE Owner(v)'
      <4>1. PICK q \in Run : q = run[v] /\ q = run'[v]
        BY <1>0, <3>1, <3>3 DEF Alone, MainTypes
      <4>2. Alone(v)
        <5>1. deliveries[q] >= 1
          BY <3>1, <3>3, <4>1 DEF Alone, WorkspaceInv, Apart
        <5> QED BY <1>2, <3>1, <3>3, <4>1, <5>1 DEF Alone
      <4>3. Owner(v)
        BY <4>2 DEF WorkspaceInv, Owned
      <4>4. Live(v) => Live(v)'
        BY <1>3, <3>1, <4>1 DEF Live, Sound, Swept, Recorded
      <4> QED BY <1>3, <3>1, <4>1, <4>3, <4>4 DEF Owner, Sound, Listed, Marked, Swept, Recorded
    <3> QED BY <3>2, <3>3
  <2> QED BY <2>1, <2>2
<1> QED BY <1>4, <1>5, <1>6, <1>7, <1>8 DEF WorkspaceInv, Owned

\* Reapers only come to workspaces whose workers are gone or without a heartbeat.
LEMMA ReapersKeep ==
    ASSUME WorkspaceInv, TypeOK', NEW p \in Reaper, ReapStep(p) \/ ReaperDies(p)
    PROVE  WorkspaceInv'
<1>0. StoreTypes /\ PodmanTypes /\ MainTypes /\ BeatTypes /\ OtherTypes /\ OtherTypes'
  BY TypeParts DEF WorkspaceInv, TypeOK, OtherTypes, Sweep
<1>1. /\ UNCHANGED <<main, beat, beaten, deliveries>>
      /\ \A o \in Reaper \ {p} : sweep'[o] = sweep[o]
  BY <1>0 DEF ReapStep, ReaperDies, FindList, FindGet, Kill, ReapRead, ReapWrite, OtherTypes
\* Whom the reaper reads was in the index, and whom it takes up is not young.
<1>2. \A q \in Run : /\ Marked(q)' => Marked(q) \/ q \in indexed
                     /\ Swept(q)' => Swept(q) \/ (Marked(q) /\ record[q].age > MaxIdle)
  <2>1. CASE FindList(p)
    BY <1>0, <1>1, <2>1 DEF FindList, OtherTypes, Sweep, Swept, Marked
  <2>2. ASSUME NEW r \in Run, Kill(p, r)
        PROVE  \A q \in Run : (Marked(q)' => Marked(q)) /\ (Swept(q)' => Swept(q))
    BY <1>0, <1>1, <2>2 DEF Kill, OtherTypes, Sweep, Swept, Marked
  <2>3. CASE ReapRead(p)
    BY <1>0, <1>1, <2>3 DEF ReapRead, OtherTypes, Sweep, Swept, Marked
  <2>4. CASE ReapWrite(p)
    BY <1>0, <1>1, <2>4, WorkspacesAssumption
    DEF ReapWrite, OtherTypes, Sweep, Swept, Marked, WorkspacesAssumption
  <2>5. CASE ReaperDies(p)
    BY <1>0, <1>1, <2>5, WorkspacesAssumption
    DEF ReaperDies, NoSweep, OtherTypes, Sweep, Swept, Marked, WorkspacesAssumption
  <2>6. ASSUME NEW r \in Run, FindGet(p, r)
        PROVE  \A q \in Run : /\ Marked(q)' => Marked(q)
                              /\ Swept(q)' => Swept(q) \/ (Marked(q) /\ record[q].age > MaxIdle)
    <3>1. /\ sweep'[p].list = sweep[p].list \ {r}
          /\ sweep'[p].todo = sweep[p].todo \cup {q \in {r} : record[q] # NoEntry /\ record[q].age > MaxIdle}
          /\ sweep'[p].at = sweep[p].at
          /\ r \in sweep[p].list
      BY <1>0, <2>6 DEF FindGet, OtherTypes, Sweep
    <3> QED BY <1>1, <3>1 DEF Swept, Marked
  <2> QED BY <2>1, <2>2, <2>3, <2>4, <2>5, <2>6 DEF ReapStep
\* What it changes is the workspace it has taken up.
<1>3. /\ \A q \in Run : ~Swept(q) => Aside(q)
      /\ \A q \in Run : q \in indexed' => q \in indexed
      /\ \A q \in Run : record'[q] = record[q] \/ record'[q] = NoEntry
      /\ \A q \in Run : Sound(q)' => Sound(q)
      /\ \A q \in Run : q \in container' => q \in container
  <2>1. CASE FindList(p) \/ (\E r \in Run : FindGet(p, r)) \/ ReapRead(p) \/ ReaperDies(p)
    BY <2>1 DEF FindList, FindGet, ReapRead, ReaperDies, Aside, Sound, store, podman
  <2>2. CASE \E r \in Run : Kill(p, r)
    <3> PICK r \in Run : Kill(p, r)
      BY <2>2
    <3>1. UNCHANGED store /\ RemoveContainer(r) /\ Swept(r)
      BY DEF Kill, Swept
    <3>2. \A q \in Run : ~Swept(q) => Aside(q)
      BY <1>0, <3>1, RemoveAside DEF store, Aside
    <3>3. \A q \in Run : Sound(q)' => Sound(q)
      BY <1>0, <3>1, RemoveAside DEF Sound
    <3>4. container' \subseteq container
      BY <1>0, <3>1, RemoveAside
    <3> QED BY <3>1, <3>2, <3>3, <3>4 DEF store
  <2>3. CASE ReapWrite(p)
    <3> PICK r \in Run, was \in Old : r = sweep[p].at /\ was = sweep[p].old
      BY <1>0, <2>3 DEF ReapWrite, OtherTypes, Sweep
    <3>1. UNCHANGED podman /\ Delete(r, was) /\ Swept(r)
      BY <2>3 DEF ReapWrite, Swept
    <3>2. \A q \in Run : ~Swept(q) => Aside(q)
      BY <1>0, <3>1, DeleteAside DEF podman, Aside
    <3>3. indexed' \subseteq indexed /\ \A q \in Run : record'[q] = record[q] \/ record'[q] = NoEntry
      BY <1>0, <3>1 DEF Delete, store, StoreTypes
    <3> QED BY <3>1, <3>2, <3>3 DEF podman, Sound
  <2> QED BY <2>1, <2>2, <2>3 DEF ReapStep
<1>4. Apart'
  BY <1>1 DEF WorkspaceInv, Apart, main
<1>5. Fresh'
  <2> SUFFICES ASSUME NEW q \in Run, deliveries[q] = 0
               PROVE  ~Listed(q)' /\ q \notin Recorded' /\ q \notin container'
    BY <1>1 DEF Fresh
  <2>1. ~Listed(q) /\ q \notin Recorded /\ q \notin container
    BY DEF WorkspaceInv, Fresh
  <2> QED BY <1>2, <1>3, <2>1 DEF Listed, Recorded, NoEntry
<1>6. Killed'
  <2> SUFFICES ASSUME NEW o \in Reaper, (sweep[o].at # NoRun /\ deliveries[sweep[o].at] = 1)'
               PROVE  ~Sound(sweep[o].at)'
    BY DEF Killed
  <2> PICK q \in Run : q = sweep'[o].at /\ deliveries[q] = 1
    BY <1>0, <1>1 DEF OtherTypes, Sweep
  <2>1. CASE q = sweep[o].at
    <3>1. ~Sound(q)
      BY <2>1, WorkspacesAssumption DEF WorkspaceInv, Killed, WorkspacesAssumption
    <3> QED BY <1>3, <3>1 DEF Sound
  <2>2. CASE q # sweep[o].at
    <3>1. RemoveContainer(q)
      <4>1. o = p
        BY <1>1, <2>2
      <4>2. ASSUME NEW r \in Run, Kill(p, r) PROVE RemoveContainer(q)
        <5>1. sweep'[p].at = r
          BY <1>0, <4>2 DEF Kill, OtherTypes, Sweep
        <5> QED BY <4>1, <4>2, <5>1 DEF Kill
      <4>3. \E r \in Run : Kill(p, r)
        <5>1. sweep'[p].at # sweep[p].at /\ sweep'[p].at # NoRun
          BY <2>2, <4>1, WorkspacesAssumption DEF WorkspacesAssumption
        <5>2. ASSUME NEW r \in Run PROVE ~FindGet(p, r)
          BY <1>0, <5>1 DEF FindGet, OtherTypes, Sweep
        <5>3. ~FindList(p) /\ ~ReapRead(p) /\ ~ReapWrite(p) /\ ~ReaperDies(p)
          BY <1>0, <5>1 DEF FindList, ReapRead, ReapWrite, ReaperDies, OtherTypes, Sweep, NoSweep
        <5> QED BY <5>2, <5>3 DEF ReapStep
      <4> QED BY <4>2, <4>3
    <3>2. ~Sound(q)'
      BY <1>0, <3>1, RemoveAside
    <3> QED BY <3>2 DEF Sound
  <2> QED BY <2>1, <2>2
<1>7. Kept'
  <2> SUFFICES ASSUME NEW q \in Run, Sound(q)', deliveries[q] = 1 PROVE record'[q] # NoEntry
    BY <1>1 DEF Kept, Recorded
  <2>1. Sound(q) /\ q \in Recorded
    BY <1>3 DEF WorkspaceInv, Kept
  <2>2. record'[q] = record[q]
    <3>1. CASE ReapWrite(p)
      <4>1. q # sweep[p].at
        BY <1>0, <2>1, <3>1, WorkspacesAssumption
        DEF ReapWrite, WorkspaceInv, Killed, WorkspacesAssumption
      <4>2. PICK r \in Run, was \in Old : r = sweep[p].at /\ was = sweep[p].old
        BY <1>0, <3>1 DEF ReapWrite, OtherTypes, Sweep
      <4>3. Delete(r, was) /\ q # r
        BY <3>1, <4>1, <4>2 DEF ReapWrite
      <4> QED BY <1>0, <4>3, DeleteAside
    <3>2. CASE ~ReapWrite(p)
      BY <3>2 DEF ReapStep, ReaperDies, FindList, FindGet, Kill, ReapRead, store
    <3> QED BY <3>1, <3>2
  <2> QED BY <2>1, <2>2 DEF Recorded
<1>8. ASSUME NEW v \in Worker PROVE Local(v)' /\ (Alone(v)' => Owner(v)')
  <2>1. Local(v)'
    BY <1>1 DEF WorkspaceInv, Owned, Local, main
  <2>2. ASSUME Alone(v)' PROVE Owner(v)'
    <3> PICK q \in Run : q = run[v] /\ q = run'[v]
      BY <1>0, <1>1, <2>2 DEF Alone, MainTypes, main
    <3>1. Alone(v) /\ Owner(v)
      BY <1>1, <2>2 DEF Alone, WorkspaceInv, Owned, main
    <3>2. CASE pc[v] \in Before
      <4>1. ~Listed(q) /\ ~Swept(q) /\ ~Marked(q)
        BY <3>1, <3>2 DEF Owner, Listed
      <4>2. Aside(q) /\ ~Swept(q)' /\ ~Marked(q)'
        BY <1>2, <1>3, <4>1 DEF Listed
      <4>3. ~Listed(q)'
        BY <4>1, <4>2 DEF Listed, Aside
      <4>4. pc[v] # "work" /\ pc[v] # "delete"
        BY <3>2 DEF Before
      <4> QED BY <1>1, <3>1, <4>2, <4>3, <4>4
          DEF Owner, Sound, Listed, Marked, Recorded, Swept, Aside, main
    <3>3. CASE pc[v] = "delete"
      BY <1>1, <1>3, <3>1, <3>3 DEF Owner, Before, Sound, main
    <3>4. CASE pc[v] = "work"
      <4>1. Live(v) => Live(v)'
        <5> SUFFICES ASSUME Live(v) PROVE Live(v)'
          OBVIOUS
        <5>1. ~Swept(q) /\ ~(record[q].age > MaxIdle)
          BY <1>0, EntryTypes, WorkspacesAssumption DEF Live, Age, Stale, WorkspacesAssumption
        <5>2. Aside(q) /\ ~Swept(q)'
          BY <1>2, <1>3, <5>1
        <5> QED BY <1>1, <5>2 DEF Live, Sound, Recorded, Swept, Aside, main
      <4> QED BY <1>1, <3>1, <3>4, <4>1 DEF Owner, Before, main
    <3>5. CASE pc[v] \notin Before \cup {"delete", "work"}
      BY <1>1, <3>5 DEF Owner, Before, main
    <3> QED BY <3>2, <3>3, <3>4, <3>5
  <2> QED BY <2>1, <2>2
<1> QED BY <1>4, <1>5, <1>6, <1>7, <1>8 DEF WorkspaceInv, Owned

LEMMA TickKeeps == WorkspaceInv /\ TypeOK' /\ Tick => WorkspaceInv'
<1> SUFFICES ASSUME WorkspaceInv, TypeOK', Tick PROVE WorkspaceInv'
  OBVIOUS
<1>0. StoreTypes /\ PodmanTypes /\ MainTypes /\ BeatTypes /\ OtherTypes
  BY TypeParts DEF WorkspaceInv
<1>1. UNCHANGED <<indexed, podman, main, beat, sweep, deliveries>> /\ beaten' = {}
  BY DEF Tick
<1>2. \A q \in Run : /\ record'[q].status = record[q].status
                     /\ q \in Recorded' <=> q \in Recorded
                     /\ record[q].age = 0 => record'[q].age = 1
  <2> SUFFICES ASSUME NEW q \in Run
               PROVE  /\ record'[q].status = record[q].status
                      /\ q \in Recorded' <=> q \in Recorded
                      /\ record[q].age = 0 => record'[q].age = 1
    OBVIOUS
  <2>1. /\ record'[q] = IF record[q].age < Stale THEN [record[q] EXCEPT !.age = @ + 1] ELSE record[q]
        /\ Stale \in Nat /\ Stale > 0 /\ NoEntry.age = Stale
    BY WorkspacesAssumption DEF Tick, Stale, NoEntry, WorkspacesAssumption
  <2>2. CASE record[q] = NoEntry
    BY <2>1, <2>2 DEF Recorded
  <2>3. CASE record[q] \in Entry
    <3>1. record'[q].status = record[q].status
      BY <2>1, <2>3 DEF Entry
    <3>2. record[q].age = 0 => record'[q].age = 1
      BY <2>1, <2>3 DEF Entry
    <3>3. record[q].status # "none"
      BY <2>3 DEF Entry, Status
    <3>4. record[q] # NoEntry /\ record'[q] # NoEntry
      BY <3>1, <3>3 DEF NoEntry
    <3> QED BY <3>1, <3>2, <3>4 DEF Recorded
  <2> QED BY <1>0, <2>2, <2>3, EntryTypes
<1>3. \A q \in Run : (Listed(q)' <=> Listed(q)) /\ (Sound(q)' <=> Sound(q)) /\ (Swept(q)' <=> Swept(q))
  BY <1>1, <1>2 DEF Listed, Marked, Swept, Sound, podman
<1>4. Apart' /\ Fresh' /\ Kept'
  BY <1>1, <1>2, <1>3 DEF WorkspaceInv, Apart, Fresh, Kept, main, podman
<1>5. Killed'
  BY <1>1 DEF WorkspaceInv, Killed, Sound, podman
<1>6. ASSUME NEW v \in Worker PROVE Local(v)' /\ (Alone(v)' => Owner(v)')
  <2>1. Local(v)'
    BY <1>1 DEF WorkspaceInv, Owned, Local, main
  <2>2. ASSUME Alone(v)' PROVE Owner(v)'
    <3> PICK q \in Run : q = run[v] /\ q = run'[v]
      BY <1>0, <1>1, <2>2 DEF Alone, MainTypes, main
    <3>1. Owner(v)
      BY <1>1, <2>2 DEF Alone, WorkspaceInv, Owned, main
    <3>2. Live(v) /\ beat[v].at # "off" => Live(v)'
      <4> SUFFICES ASSUME Live(v), beat[v].at # "off" PROVE Live(v)'
        OBVIOUS
      <4>1. v \in beaten
        BY DEF Tick
      <4>2. record'[q].age = 1
        BY <1>2, <4>1 DEF Live
      <4> QED BY <1>1, <1>2, <1>3, <4>2 DEF Live, Sound, Swept, Recorded
    <3> QED BY <1>1, <1>2, <1>3, <3>1, <3>2 DEF Owner, main, Sound, Listed, Marked, Swept, Recorded
  <2> QED BY <2>1, <2>2
<1> QED BY <1>4, <1>5, <1>6 DEF WorkspaceInv, Owned

LEMMA WorkspaceInit == Init => WorkspaceInv
<1> SUFFICES ASSUME Init PROVE WorkspaceInv
  OBVIOUS
<1>1. TypeOK
  BY TypeInit
<1>2. Apart /\ Killed /\ Kept /\ Owned
  BY DEF Init, Apart, Killed, Kept, Owned, Local, Alone, Sound, NoBeat, NoSweep
<1>3. Fresh
  BY WorkspacesAssumption
  DEF Init, Fresh, Listed, Marked, Swept, Recorded, NoSweep, NoEntry, WorkspacesAssumption
<1> QED BY <1>1, <1>2, <1>3 DEF WorkspaceInv

LEMMA WorkspaceStep == WorkspaceInv /\ TypeOK' /\ [Next]_vars => WorkspaceInv'
<1> SUFFICES ASSUME WorkspaceInv, TypeOK', [Next]_vars PROVE WorkspaceInv'
  OBVIOUS
<1>1. CASE UNCHANGED vars
  <2>1. UNCHANGED <<record, indexed, container, stuck, pc, run, info, mine, beat, beaten, sweep, deliveries>>
    BY <1>1 DEF vars, store, podman, main
  <2>2. Apart' /\ Fresh' /\ Killed' /\ Kept'
    BY <2>1 DEF WorkspaceInv, Apart, Fresh, Killed, Kept, Listed, Marked, Swept, Sound, Recorded
  <2>3. Owned'
    BY <2>1 DEF WorkspaceInv, Owned, Local, Alone, Owner, Live, Listed, Marked, Swept, Sound, Recorded
  <2> QED BY <2>2, <2>3 DEF WorkspaceInv
<1>2. CASE Next
  BY <1>2, WorkersKeep, TakeKeeps, ReapersKeep, TickKeeps DEF Next
<1> QED BY <1>1, <1>2

LEMMA WorkspacesKept == Spec => []WorkspaceInv
BY TypeCorrect, WorkspaceInit, WorkspaceStep, PTL DEF Spec

\* No crash, failure, heartbeat or reaper leaves a container without a record,
\* save where a removal failed or the run was delivered twice.
THEOREM ContainersAreRecorded == Spec => []ContainerIsRecorded
<1>1. WorkspaceInv => ContainerIsRecorded
  <2> SUFFICES ASSUME WorkspaceInv, NEW r \in container
               PROVE  r \in Recorded \/ r \in stuck \/ deliveries[r] > 1
    BY DEF ContainerIsRecorded
  <2>1. r \in Run /\ deliveries[r] \in Nat
    BY DEF WorkspaceInv, TypeOK
  <2>2. deliveries[r] # 0
    BY <2>1 DEF WorkspaceInv, Fresh
  <2> QED BY <2>1, <2>2 DEF WorkspaceInv, Kept, Sound
<1> QED BY <1>1, WorkspacesKept, PTL

\* No reaper and no heartbeat takes the workspace of a worker that sends
\* heartbeats and has the run for itself, in any number of them.
THEOREM LiveIsIntact == Spec => []LiveWorkspaceIntact
<1>1. WorkspaceInv => LiveWorkspaceIntact
  <2> SUFFICES ASSUME WorkspaceInv, NEW w \in Worker, pc[w] = "work", info[w],
                      deliveries[run[w]] = 1, beat[w].at # "off"
               PROVE  run[w] \in container \ stuck /\ run[w] \in Recorded
    BY DEF LiveWorkspaceIntact
  <2>1. Owner(w)
    BY DEF WorkspaceInv, Owned, Alone
  <2> QED BY <2>1 DEF Owner, Live, Sound
<1> QED BY <1>1, WorkspacesKept, PTL
=============================================================================
