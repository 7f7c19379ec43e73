-------------------------- MODULE TaskCycleProofs ---------------------------
(***************************************************************************)
(* Theorems about TaskCycle, for any number of concurrent callers: types,  *)
(* the audit trail, the gates; and for one caller at a time the            *)
(* implementation of the phase machine.                                    *)
(***************************************************************************)
EXTENDS TaskCycle, TLAPS

LEMMA IdleIsCall == Idle \in Call
BY CycleAssumption DEF Idle, Call, Phase

LEMMA ReadIsCall ==
    ASSUME NEW t \in Phase, NEW o \in BOOLEAN, NEW l \in BOOLEAN
    PROVE  Request(t, o, l) \in Call /\ Request(t, o, l).pc = "read"
BY CycleAssumption DEF Request, Call, Phase

LEMMA DocIsCall ==
    ASSUME NEW d \in 0..MaxDocs, NEW p \in {"approve", "doc", "link"}
    PROVE  /\ DocCall(p, d) \in Call
           /\ DocCall(p, d).pc = p
           /\ DocCall(p, d).doc = d
BY DEF DocCall, Call, Phase

LEMMA WriteIsCall ==
    ASSUME NEW p \in Phase, NEW i \in Nat, NEW t \in Phase, NEW o \in BOOLEAN,
           NEW l \in BOOLEAN
    PROVE  /\ [pc |-> "write", phase |-> p, iterations |-> i, doc |-> 0,
               to |-> t, approved |-> o, last |-> l] \in Call
           /\ [pc |-> "write", phase |-> p, iterations |-> i, doc |-> 0,
               to |-> t, approved |-> o, last |-> l].pc = "write"
BY CycleAssumption DEF Call, Phase

-----------------------------------------------------------------------------
(* Type correctness.                                                       *)

LEMMA AskTyped ==
    ASSUME TypeOK, NEW c \in Caller, NEW to \in Phase, NEW approved \in BOOLEAN,
           NEW last \in BOOLEAN, Ask(c, to, approved, last)
    PROVE  /\ call' \in [Caller -> Call]
           /\ \A d \in Caller : call'[d].pc = "approve" => call'[d].doc # 0
<1> DEFINE n == Request(to, approved, last)
<1>1. n \in Call /\ n.pc = "read"
  BY ReadIsCall, Zenon
<1>2. call' = [call EXCEPT ![c] = n]
  BY Zenon DEF Ask
<1> HIDE DEF n
<1> QED BY <1>1, <1>2 DEF TypeOK

LEMMA ReadTyped ==
    ASSUME TypeOK, NEW c \in Caller, NEW to \in Phase, NEW approved \in BOOLEAN,
           NEW last \in BOOLEAN, ReadFor(c, to, approved, last)
    PROVE  /\ call' \in [Caller -> Call]
           /\ \A d \in Caller : call'[d].pc = "approve" => call'[d].doc # 0
<1> DEFINE n == [pc |-> "write", phase |-> phase, iterations |-> iterations, doc |-> 0,
                 to |-> to, approved |-> Opens(to, approved), last |-> last]
<1>1. Opens(to, approved) \in BOOLEAN
  BY DEF Opens
<1>2. n \in Call /\ n.pc = "write"
  BY <1>1, WriteIsCall, Zenon DEF TypeOK
<1>4. Idle \in Call /\ Idle.pc # "approve"
  BY IdleIsCall DEF Idle
<1>5. call' = [call EXCEPT ![c] = IF Allowed(to, approved) THEN n ELSE Idle]
  BY Zenon DEF ReadFor
<1> HIDE DEF n
<1>3. PICK m \in {n, Idle} : call' = [call EXCEPT ![c] = m]
  <2>2. CASE Allowed(to, approved)
    BY <1>5, <2>2, Zenon
  <2>3. CASE ~Allowed(to, approved)
    BY <1>5, <2>3, Zenon
  <2> QED BY <2>2, <2>3
<1> QED BY <1>2, <1>3, <1>4 DEF TypeOK

LEMMA TypeStep == TypeOK /\ [Next]_vars => TypeOK'
<1> SUFFICES ASSUME TypeOK, [Next]_vars PROVE TypeOK'
  OBVIOUS
<1>0. CASE UNCHANGED vars
  BY <1>0 DEF vars, TypeOK
<1> SUFFICES ASSUME NEW c \in Caller,
       \/ \E to \in Target, approved \in BOOLEAN : TransitionPhase(c, to, approved)
       \/ Read(c) \/ Record(c) \/ Update(c)
       \/ \E b \in BOOLEAN : SubmitTestResults(c, b) \/ AcceptCompletion(c, b)
       \/ ApproveArchitecture(c) \/ ApproveWrite(c)
       \/ CreateArchitecture(c) \/ CreateWrite(c) \/ CreateLink(c)
       \/ Crash(c)
     PROVE TypeOK'
  BY <1>0 DEF Next
<1> USE CycleAssumption
<1>a. call[c] \in Call
  BY DEF TypeOK
<1>1. ASSUME NEW to \in Target, NEW approved \in BOOLEAN, TransitionPhase(c, to, approved)
      PROVE TypeOK'
  BY <1>1, ReadTyped DEF TransitionPhase, TypeOK, cycle
<1>2. CASE Read(c)
  <2>1. ReadFor(c, call[c].to, call[c].approved, call[c].last) /\ UNCHANGED cycle
    BY <1>2 DEF Read
  <2>2. call[c].to \in Phase /\ call[c].approved \in BOOLEAN /\ call[c].last \in BOOLEAN
    BY <1>a DEF Call
  <2> QED BY <2>1, <2>2, ReadTyped DEF TypeOK, cycle
<1>3. CASE Record(c)
  <2>1. RowOf(c) \in Row
    BY <1>a DEF Row, RowOf, Call
  <2>2. [call[c] EXCEPT !.pc = "update"] \in Call
    BY <1>a DEF Call
  <2>3. [call[c] EXCEPT !.pc = "update"].pc # "approve"
    BY <1>a DEF Call
  <2>4. rows' \subseteq Row
    BY <1>3, <2>1 DEF Record, TypeOK
  <2>5. call' = [call EXCEPT ![c] = [call[c] EXCEPT !.pc = "update"]]
        /\ UNCHANGED <<phase, iterations, link, review>>
    BY <1>3 DEF Record
  <2> QED BY <2>2, <2>3, <2>4, <2>5 DEF TypeOK
<1>11. CASE Update(c)
  <2>1. Rest(c) \in Call /\ Rest(c).pc # "approve"
    BY <1>a, IdleIsCall DEF Rest, Request, Idle, Call, Phase
  <2>2. Counted(c) \in Nat
    BY <1>a DEF Counted, Call
  <2>3. phase' \in Phase /\ iterations' \in Nat
    BY <1>11, <1>a, <2>2 DEF Update, Call
  <2>4. call' = [call EXCEPT ![c] = Rest(c)] /\ UNCHANGED <<rows, link, review>>
    BY <1>11 DEF Update
  <2> QED BY <2>1, <2>3, <2>4 DEF TypeOK
<1>4. ASSUME NEW b \in BOOLEAN, SubmitTestResults(c, b) PROVE TypeOK'
  BY <1>4, AskTyped DEF SubmitTestResults, TypeOK, cycle, Phase
<1>5. ASSUME NEW b \in BOOLEAN, AcceptCompletion(c, b) PROVE TypeOK'
  <2>1. PICK to \in Phase, last \in BOOLEAN : Ask(c, to, TRUE, last)
    BY <1>5 DEF AcceptCompletion, Phase
  <2> QED BY <1>5, <2>1, AskTyped DEF AcceptCompletion, TypeOK, cycle
<1>6. CASE ApproveArchitecture(c)
  <2>1. DocCall("approve", link) \in Call
    BY DocIsCall DEF TypeOK
  <2>2. DocCall("approve", link).doc # 0
    BY <1>6 DEF ApproveArchitecture, DocCall
  <2> QED BY <1>6, <2>1, <2>2 DEF ApproveArchitecture, TypeOK, cycle
<1>7. CASE ApproveWrite(c)
  <2>1. call[c].doc \in Doc
    BY <1>7, <1>a DEF ApproveWrite, TypeOK, Doc, Call
  <2>2. review' \in [Doc -> {"none", "pending", "approved"}]
    BY <1>7, <2>1 DEF ApproveWrite, TypeOK
  <2> QED BY <1>7, <2>2, AskTyped DEF ApproveWrite, TypeOK, Phase
<1>8. CASE CreateArchitecture(c)
  <2>1. DocCall("doc", link) \in Call
    BY DocIsCall DEF TypeOK
  <2>2. DocCall("doc", link).pc # "approve"
    BY DEF DocCall
  <2> QED BY <1>8, <2>1, <2>2 DEF CreateArchitecture, TypeOK, cycle
<1>9. CASE CreateWrite(c)
  <2>1. CASE call[c].doc # 0
    <3>1. call[c].doc \in Doc
      BY <2>1, <1>a DEF Doc, Call
    <3>2. Idle.pc # "approve"
      BY DEF Idle
    <3>3. /\ review' = [review EXCEPT ![call[c].doc] = "pending"]
          /\ call' = [call EXCEPT ![c] = Idle]
          /\ UNCHANGED <<phase, iterations, rows, link>>
      BY <1>9, <2>1 DEF CreateWrite
    <3> QED BY <3>1, <3>2, <3>3, IdleIsCall DEF TypeOK
  <2>2. CASE call[c].doc = 0
    <3>1. PICK d \in Doc :
            /\ review' = [review EXCEPT ![d] = "pending"]
            /\ call' = [call EXCEPT ![c] = DocCall("link", d)]
      BY <1>9, <2>2 DEF CreateWrite
    <3>2. PICK m : m = DocCall("link", d)
      OBVIOUS
    <3>3. m \in Call /\ m.pc # "approve"
      BY <3>2, DocIsCall DEF Doc
    <3>4. UNCHANGED <<phase, iterations, rows, link>>
      BY <1>9 DEF CreateWrite
    <3> QED BY <3>1, <3>2, <3>3, <3>4 DEF TypeOK
  <2> QED BY <2>1, <2>2
<1>12. CASE CreateLink(c)
  <2>1. Idle.pc # "approve"
    BY DEF Idle
  <2> QED BY <1>12, <1>a, <2>1, IdleIsCall DEF CreateLink, TypeOK, Call
<1>10. CASE Crash(c)
  <2>1. Idle.pc # "approve"
    BY DEF Idle
  <2> QED BY <1>10, <2>1, IdleIsCall DEF Crash, TypeOK, cycle
<1> QED BY <1>1, <1>2, <1>3, <1>4, <1>5, <1>6, <1>7, <1>8, <1>9, <1>10, <1>11, <1>12

LEMMA TypeInit == Init => TypeOK
<1> SUFFICES ASSUME Init PROVE TypeOK
  OBVIOUS
<1>1. Idle.pc # "approve"
  BY DEF Idle
<1> QED BY <1>1, IdleIsCall, CycleAssumption DEF Init, TypeOK, Phase

\* The state of the cycle and of every call in progress is always well typed;
\* in particular an approval never marks a document that does not exist.
THEOREM TypeCorrect == Spec => []TypeOK
BY TypeInit, TypeStep, PTL DEF Spec

-----------------------------------------------------------------------------
(* What a step does to the cycle and to the snapshots about to be written.  *)

\* An edge that transition_phase lets through, with what it records.
Legal(from, to, approved) ==
    /\ to \in ValidTransitions(from)
    /\ from \in Strict /\ to \notin Aborted => approved

\* A transition not yet recorded was there already, or it is of the phase now; a
\* recorded one was there already, or it is being recorded.
SnapshotOf(d) ==
    /\ call'[d].pc = "write" =>
         \/ call[d].pc = "write" /\ call'[d] = call[d]
         \/ /\ call'[d].phase = phase /\ call'[d].iterations = iterations
            /\ Legal(phase, call'[d].to, call'[d].approved)
            /\ call'[d].approved => phase \in Strict /\ call'[d].to \notin Aborted
            /\ phase = "testing" /\ call'[d].to = "fixing" => iterations < MaxTestIterations
    /\ call'[d].pc = "update" =>
         \/ call[d].pc = "update" /\ call'[d] = call[d]
         \/ /\ call[d].pc = "write" /\ Record(d)
            /\ call'[d].phase = call[d].phase /\ call'[d].iterations = call[d].iterations
            /\ call'[d].to = call[d].to /\ call'[d].approved = call[d].approved

LEMMA ReadSnapshot ==
    ASSUME TypeOK, NEW c \in Caller, NEW to, NEW approved \in BOOLEAN, NEW last,
           ReadFor(c, to, approved, last), NEW d \in Caller
    PROVE  SnapshotOf(d)
<1> DEFINE n == [pc |-> "write", phase |-> phase, iterations |-> iterations, doc |-> 0,
                 to |-> to, approved |-> Opens(to, approved), last |-> last]
<1>1. /\ n.phase = phase /\ n.iterations = iterations
      /\ n.to = to /\ n.approved = Opens(to, approved) /\ n.pc = "write"
  OBVIOUS
<1>2. call' = [call EXCEPT ![c] = IF Allowed(to, approved) THEN n ELSE Idle]
  BY Zenon DEF ReadFor
<1>3. Idle.pc = "idle"
  BY DEF Idle
<1>4. Allowed(to, approved) =>
         /\ Legal(phase, to, Opens(to, approved))
         /\ Opens(to, approved) => phase \in Strict /\ to \notin Aborted
         /\ phase = "testing" /\ to = "fixing" => iterations < MaxTestIterations
  BY DEF Allowed, Legal, Opens
<1>5. CASE d # c
  <2>1. call'[d] = call[d]
    BY <1>2, <1>5, Zenon DEF TypeOK
  <2> QED BY <2>1, Zenon DEF SnapshotOf
<1>6. CASE d = c
  <2>1. call'[d] = IF Allowed(to, approved) THEN n ELSE Idle
    BY <1>2, <1>6, Zenon DEF TypeOK
  <2>2. CASE Allowed(to, approved)
    <3>1. call'[d] = n
      BY <2>1, <2>2, Zenon
    <3>2. /\ call'[d].phase = phase /\ call'[d].iterations = iterations
          /\ call'[d].to = to /\ call'[d].approved = Opens(to, approved)
          /\ call'[d].pc = "write"
      BY <1>1, <3>1, Zenon
    <3> QED BY <1>4, <2>2, <3>2, Zenon DEF SnapshotOf
  <2>3. CASE ~Allowed(to, approved)
    BY <2>1, <2>3, <1>3, Zenon DEF SnapshotOf
  <2> QED BY <2>2, <2>3
<1> QED BY <1>5, <1>6

LEMMA OtherSnapshot ==
    ASSUME TypeOK, NEW c \in Caller, NEW m, m.pc \notin {"write", "update"}, call' = [call EXCEPT ![c] = m],
           NEW d \in Caller
    PROVE  SnapshotOf(d)
BY DEF SnapshotOf, TypeOK

LEMMA NotWriting ==
    ASSUME NEW c \in Caller, NEW to, NEW approved, NEW last
    PROVE  /\ Idle.pc \notin {"write", "update"}
           /\ Request(to, approved, last).pc \notin {"write", "update"}
           /\ Rest(c).pc \notin {"write", "update"}
BY DEF Idle, Request, Rest

\* Only Record adds to the audit trail, only Update changes the phase.
LEMMA StepShape ==
    ASSUME TypeOK, [Next]_vars
    PROVE  /\ \A d \in Caller : SnapshotOf(d)
           /\ \/ UNCHANGED <<phase, iterations, rows>>
              \/ \E c \in Caller : Record(c) \/ Update(c)
<1> DEFINE Goal == /\ \A d \in Caller : SnapshotOf(d)
                   /\ \/ UNCHANGED <<phase, iterations, rows>>
                      \/ \E c \in Caller : Record(c) \/ Update(c)
<1>0. CASE UNCHANGED vars
  BY <1>0 DEF vars, SnapshotOf
<1> SUFFICES ASSUME NEW c \in Caller,
       \/ \E to \in Target, approved \in BOOLEAN : TransitionPhase(c, to, approved)
       \/ Read(c) \/ Record(c) \/ Update(c)
       \/ \E b \in BOOLEAN : SubmitTestResults(c, b) \/ AcceptCompletion(c, b)
       \/ ApproveArchitecture(c) \/ ApproveWrite(c)
       \/ CreateArchitecture(c) \/ CreateWrite(c) \/ CreateLink(c)
       \/ Crash(c)
     PROVE Goal
  BY <1>0 DEF Next
<1>i. Idle.pc \notin {"write", "update"}
  BY NotWriting
<1>d. \A p \in {"approve", "doc", "link"}, d \in 0..MaxDocs :
         DocCall(p, d).pc \notin {"write", "update"}
  BY DEF DocCall
<1>1. ASSUME NEW to \in Target, NEW approved \in BOOLEAN, TransitionPhase(c, to, approved)
      PROVE Goal
  BY <1>1, ReadSnapshot DEF TransitionPhase, cycle
<1>2. CASE Read(c)
  <2>1. ReadFor(c, call[c].to, call[c].approved, call[c].last) /\ UNCHANGED cycle
    BY <1>2 DEF Read
  <2>2. call[c].approved \in BOOLEAN
    BY DEF TypeOK, Call
  <2> QED BY <2>1, <2>2, ReadSnapshot DEF cycle
<1>3. CASE Record(c)
  <2>1. call[c].pc = "write" /\ call' = [call EXCEPT ![c] = [call[c] EXCEPT !.pc = "update"]]
    BY <1>3 DEF Record
  <2>2. ASSUME NEW d \in Caller PROVE SnapshotOf(d)
    <3>1. CASE d # c
      BY <2>1, <3>1 DEF SnapshotOf, TypeOK
    <3>2. CASE d = c
      BY <1>3, <2>1, <3>2 DEF SnapshotOf, TypeOK, Call
    <3> QED BY <3>1, <3>2
  <2> QED BY <1>3, <2>2
<1>11. CASE Update(c)
  <2>1. call' = [call EXCEPT ![c] = Rest(c)]
    BY <1>11 DEF Update
  <2>2. Rest(c).pc \notin {"write", "update"}
    BY NotWriting
  <2> QED BY <1>11, <2>1, <2>2, OtherSnapshot
<1>a. ASSUME NEW to, NEW approved, NEW last, Ask(c, to, approved, last),
             UNCHANGED <<phase, iterations, rows>>
      PROVE Goal
  <2>1. call' = [call EXCEPT ![c] = Request(to, approved, last)]
    BY <1>a DEF Ask
  <2>2. Request(to, approved, last).pc \notin {"write", "update"}
    BY NotWriting
  <2> QED BY <1>a, <2>1, <2>2, OtherSnapshot
<1>4. ASSUME NEW b \in BOOLEAN, SubmitTestResults(c, b) PROVE Goal
  BY <1>4, <1>a DEF SubmitTestResults, cycle
<1>5. ASSUME NEW b \in BOOLEAN, AcceptCompletion(c, b) PROVE Goal
  <2>1. PICK to, last : Ask(c, to, TRUE, last)
    BY <1>5 DEF AcceptCompletion
  <2> QED BY <1>5, <2>1, <1>a DEF AcceptCompletion, cycle
<1>6. CASE ApproveArchitecture(c)
  BY <1>6, <1>d, OtherSnapshot DEF ApproveArchitecture, cycle, TypeOK
<1>7. CASE ApproveWrite(c)
  BY <1>7, <1>a DEF ApproveWrite
<1>8. CASE CreateArchitecture(c)
  BY <1>8, <1>d, OtherSnapshot DEF CreateArchitecture, cycle, TypeOK
<1>9. CASE CreateWrite(c)
  <2>1. PICK m : m.pc \notin {"write", "update"} /\ call' = [call EXCEPT ![c] = m]
    BY <1>9, <1>i, <1>d DEF CreateWrite, Doc
  <2> QED BY <1>9, <2>1, OtherSnapshot DEF CreateWrite
<1>12. CASE CreateLink(c)
  BY <1>12, <1>i, OtherSnapshot DEF CreateLink
<1>10. CASE Crash(c)
  BY <1>10, <1>i, OtherSnapshot DEF Crash, cycle
<1> QED BY <1>1, <1>2, <1>3, <1>4, <1>5, <1>6, <1>7, <1>8, <1>9, <1>10, <1>11, <1>12

-----------------------------------------------------------------------------
(* The audit trail.                                                        *)

\* The invariant: the phase, and every phase that a call read and is about to
\* leave, is explained, and a call that is about to overwrite the cycle has
\* recorded how; a stale writer therefore leaves an explained phase.
AuditInv ==
    /\ TypeOK
    /\ Explained(phase)
    /\ \A c \in Caller : Pending(c) => Explained(call[c].phase)
    /\ \A c \in Caller : call[c].pc = "update" => RowOf(c) \in rows

\* More rows explain no phase less.
LEMMA ExplainedGrows ==
    ASSUME rows \subseteq rows', NEW p, Explained(p)
    PROVE  Explained(p)'
<1>1. Visited \subseteq Visited'
  BY DEF Visited
<1>2. ASSUME NEW S \in SUBSET (Visited'), "planning" \in S,
             \A s \in rows' : s.from \in S => s.to \in S
      PROVE  p \in S
  <2> DEFINE T == S \cap Visited
  <2>1. T \in SUBSET Visited /\ "planning" \in T
    BY <1>2 DEF Visited
  <2>2. \A s \in rows : s.from \in T => s.to \in T
    BY <1>2 DEF Visited
  <2>3. p \in T
    BY <2>1, <2>2 DEF Explained
  <2> QED BY <2>3
<1> QED BY <1>1, <1>2 DEF Explained

\* A row explains where it leads.
LEMMA ExplainedAlong ==
    ASSUME NEW r \in rows, Explained(r.from)
    PROVE  Explained(r.to)
BY DEF Explained, Visited

LEMMA AuditStep == AuditInv /\ [Next]_vars => AuditInv'
<1> SUFFICES ASSUME AuditInv, [Next]_vars PROVE AuditInv'
  OBVIOUS
<1>t. TypeOK /\ TypeOK'
  BY TypeStep DEF AuditInv
<1>s. \A d \in Caller : SnapshotOf(d)
  BY <1>t, StepShape
<1>g. rows \subseteq rows'
  BY <1>t, StepShape DEF Record, Update
<1>1. ASSUME NEW d \in Caller, Pending(d)' PROVE Explained(call[d].phase)'
  <2>1. PICK p : p = call'[d].phase
    OBVIOUS
  <2>2. Explained(p)
    BY <1>s, <1>1, <2>1 DEF SnapshotOf, AuditInv, Pending
  <2>3. Explained(p)'
    BY <1>g, <2>2, ExplainedGrows
  <2> QED BY <2>1, <2>3 DEF Explained, Visited
<1>2. ASSUME NEW d \in Caller, (call[d].pc = "update")' PROVE (RowOf(d) \in rows)'
  <2>1. CASE call[d].pc = "update" /\ call'[d] = call[d]
    BY <1>g, <2>1 DEF AuditInv, RowOf
  <2>2. CASE /\ call[d].pc = "write" /\ Record(d)
             /\ call'[d].phase = call[d].phase
             /\ call'[d].to = call[d].to /\ call'[d].approved = call[d].approved
    <3>1. RowOf(d)' = RowOf(d)
      BY <2>2 DEF RowOf
    <3>2. RowOf(d) \in rows'
      BY <2>2 DEF Record
    <3> QED BY <3>1, <3>2
  <2> QED BY <1>s, <1>2, <2>1, <2>2 DEF SnapshotOf
<1>3. Explained(phase)'
  <2>1. CASE UNCHANGED phase
    <3>1. PICK p : p = phase
      OBVIOUS
    <3>2. Explained(p)'
      BY <1>g, <3>1, ExplainedGrows DEF AuditInv
    <3> QED BY <2>1, <3>1, <3>2 DEF Explained, Visited
  <2>2. ASSUME NEW c \in Caller, Update(c) PROVE Explained(phase)'
    <3>1. call[c].pc = "update" /\ phase' = call[c].to /\ rows' = rows
      BY <2>2 DEF Update
    <3>2. PICK r : r = RowOf(c)
      OBVIOUS
    <3>3. r \in rows /\ Explained(r.from) /\ r.to = phase'
      BY <3>1, <3>2 DEF AuditInv, RowOf, Pending
    <3>4. PICK p : p = r.to
      OBVIOUS
    <3>5. Explained(p)
      BY <3>3, <3>4, ExplainedAlong
    <3>6. Explained(p)'
      BY <1>g, <3>5, ExplainedGrows
    <3> QED BY <3>3, <3>4, <3>6 DEF Explained, Visited
  <2> QED BY <1>t, <2>1, <2>2, StepShape DEF Record
<1> QED BY <1>t, <1>1, <1>2, <1>3 DEF AuditInv

LEMMA AuditInit == Init => AuditInv
<1> SUFFICES ASSUME Init PROVE AuditInv
  OBVIOUS
<1>1. TypeOK
  BY TypeInit
<1>2. Explained(phase)
  BY DEF Init, Explained, Visited
<1>3. \A c \in Caller : call[c].pc \notin {"write", "update"}
  BY NotWriting DEF Init
<1> QED BY <1>1, <1>2, <1>3 DEF AuditInv, Pending

\* However many calls interleave and overwrite each other, recorded transitions
\* lead from PLANNING to the phase the cycle is in.
THEOREM AuditTrailIsSound == Spec => []AuditExplainsPhase
<1>1. AuditInv => AuditExplainsPhase
  BY DEF AuditInv, AuditExplainsPhase
<1> QED BY <1>1, AuditInit, AuditStep, PTL DEF Spec
-----------------------------------------------------------------------------
(* The gates.                                                              *)

\* Every row, and every transition about to be written, is legal.
GateInv ==
    /\ AuditInv
    /\ \A r \in rows : Legal(r.from, r.to, r.approved)
    /\ \A c \in Caller : Pending(c) => Legal(call[c].phase, call[c].to, call[c].approved)

LEMMA GateStep == GateInv /\ [Next]_vars => GateInv'
<1> SUFFICES ASSUME GateInv, [Next]_vars PROVE GateInv'
  OBVIOUS
<1>a. AuditInv'
  BY AuditStep DEF GateInv
<1>s. \A d \in Caller : SnapshotOf(d)
  BY StepShape DEF GateInv, AuditInv
<1>1. ASSUME NEW d \in Caller, Pending(d)'
      PROVE  Legal(call'[d].phase, call'[d].to, call'[d].approved)
  BY <1>1, <1>s DEF SnapshotOf, GateInv, Pending
<1>2. \A r \in rows' : Legal(r.from, r.to, r.approved)
  <2>1. CASE UNCHANGED rows
    BY <2>1 DEF GateInv
  <2>2. ASSUME NEW c \in Caller, Record(c)
        PROVE  \A r \in rows' : Legal(r.from, r.to, r.approved)
    <3>1. Pending(c) /\ rows' = rows \cup {RowOf(c)}
      BY <2>2 DEF Record, Pending
    <3>2. Legal(RowOf(c).from, RowOf(c).to, RowOf(c).approved)
      BY <3>1 DEF GateInv, RowOf
    <3> QED BY <3>1, <3>2 DEF GateInv
  <2> QED BY <2>1, <2>2, StepShape DEF GateInv, AuditInv, Update
<1> QED BY <1>a, <1>1, <1>2 DEF GateInv, Legal

\* Where recorded transitions can lead without the row that leaves a gate.
LEMMA Unreached ==
    ASSUME Explained(phase), NEW S \in SUBSET Visited, "planning" \in S,
           \A r \in rows : r.from \in S => r.to \in S
    PROVE  phase \in S
BY DEF Explained

LEMMA LegalRow ==
    ASSUME NEW r \in rows, rows \subseteq Row, Legal(r.from, r.to, r.approved),
           NEW p, NEW q, r.from = p, r.to = q, p \in Strict, q \notin Aborted
    PROVE  Opened(p, q)
<1>1. r.approved = TRUE
  BY DEF Legal, Row
<1>2. r = [from |-> p, to |-> q, approved |-> TRUE]
  BY <1>1 DEF Row
<1> QED BY <1>2 DEF Opened

LEMMA GatesOpened == GateInv => GatesWereOpened
<1> SUFFICES ASSUME GateInv PROVE GatesWereOpened
  OBVIOUS
<1>0. /\ Explained(phase) /\ rows \subseteq Row /\ phase \in Phase
      /\ "planning" \in Visited
  BY DEF GateInv, AuditInv, TypeOK, Visited
<1>v. \A r \in rows : r.to \in Visited /\ r.to \in ValidTransitions(r.from)
  BY DEF GateInv, Legal, Visited
<1>1. ASSUME ~Opened("architecting", "executing")
      PROVE  phase \in {"planning", "clarifying", "architecting", "cancelled", "failed"}
  <2> DEFINE S == Visited \cap
                  {"planning", "clarifying", "architecting", "cancelled", "failed"}
  <2>1. ASSUME NEW r \in rows, r.from \in S PROVE r.to \in S
    <3>1. ~(r.from = "architecting" /\ r.to = "executing")
      BY <1>0, <1>1, LegalRow DEF GateInv, Strict, Aborted
    <3> QED BY <1>v, <2>1, <3>1 DEF ValidTransitions, Successors, Terminal, Aborted
  <2> QED BY <1>0, <2>1, Unreached
<1>2. ASSUME ~Opened("verifying", "completing")
      PROVE  phase \notin {"completing", "completed"}
  <2> DEFINE S == Visited \ {"completing", "completed"}
  <2>1. ASSUME NEW r \in rows, r.from \in S PROVE r.to \in S
    <3>1. ~(r.from = "verifying" /\ r.to = "completing")
      BY <1>0, <1>2, LegalRow DEF GateInv, Strict, Aborted
    <3> QED BY <1>v, <2>1, <3>1 DEF ValidTransitions, Successors, Terminal, Aborted
  <2> QED BY <1>0, <2>1, Unreached
<1>3. ASSUME ~Opened("completing", "completed")
      PROVE  phase # "completed"
  <2> DEFINE S == Visited \ {"completed"}
  <2>1. ASSUME NEW r \in rows, r.from \in S PROVE r.to \in S
    <3>1. ~(r.from = "completing" /\ r.to = "completed")
      BY <1>0, <1>3, LegalRow DEF GateInv, Strict, Aborted
    <3> QED BY <1>v, <2>1, <3>1 DEF ValidTransitions, Successors, Terminal, Aborted
  <2> QED BY <1>0, <2>1, Unreached
<1> QED BY <1>1, <1>2, <1>3 DEF GatesWereOpened

LEMMA GateInit == Init => GateInv
<1> SUFFICES ASSUME Init PROVE GateInv
  OBVIOUS
<1>1. rows = {} /\ \A c \in Caller : ~Pending(c)
  BY NotWriting DEF Init, Pending
<1> QED BY <1>1, AuditInit DEF GateInv

\* No interleaving of any number of calls takes a cycle past a strict gate that
\* was never opened by an approval.
THEOREM GatesHold == Spec => []GatesWereOpened
BY GateInit, GateStep, GatesOpened, PTL DEF Spec

-----------------------------------------------------------------------------
(* One caller at a time.                                                   *)

\* What the only caller is about to write is of the cycle as it still is, and
\* within the iterations.
FreshInv ==
    /\ TypeOK
    /\ \A c \in Caller : Pending(c) =>
          /\ call[c].phase = phase /\ call[c].iterations = iterations
          /\ Legal(phase, call[c].to, call[c].approved)
          /\ call[c].approved => phase \in Strict /\ call[c].to \notin Aborted
          /\ phase = "testing" /\ call[c].to = "fixing" => iterations < MaxTestIterations

\* After the update of a call the call is not pending.
LEMMA UpdateEnds ==
    ASSUME TypeOK, NEW c \in Caller, Update(c)
    PROVE  ~Pending(c)'
BY NotWriting DEF Update, TypeOK, Pending

LEMMA FreshStep ==
    ASSUME \A c, d \in Caller : c = d
    PROVE  FreshInv /\ [Next]_vars => FreshInv'
<1> SUFFICES ASSUME FreshInv, [Next]_vars PROVE FreshInv'
  OBVIOUS
<1>t. TypeOK /\ TypeOK'
  BY TypeStep DEF FreshInv
<1>s. \A d \in Caller : SnapshotOf(d)
  BY <1>t, StepShape
<1>1. CASE UNCHANGED <<phase, iterations>>
  BY <1>1, <1>t, <1>s DEF FreshInv, SnapshotOf, Legal, Pending
<1>2. ASSUME NEW c \in Caller, Update(c) PROVE FreshInv'
  BY <1>2, <1>t, UpdateEnds DEF FreshInv
<1> QED BY <1>t, <1>1, <1>2, StepShape DEF Record

\* The approval that is in the only caller's hand.
Granted == \E c \in Caller : Pending(c) /\ call[c].approved

LEMMA GateIsStep ==
    ASSUME NEW to \in Machine!Phase, Machine!OpenGate(to)
    PROVE  Machine!Next
BY Zenon DEF Machine!Next

\* An update by the only caller is a step of the phase machine.
LEMMA UpdateImplements ==
    ASSUME \A c, d \in Caller : c = d, FreshInv, NEW c \in Caller, Update(c)
    PROVE  Machine!Next
<1> DEFINE to == call[c].to
<1>1. /\ phase' = to /\ iterations' = Counted(c) /\ to \in Phase /\ iterations \in Nat
      /\ Pending(c) /\ call[c].phase = phase /\ call[c].iterations = iterations
      /\ call[c].approved \in BOOLEAN
  BY DEF Update, FreshInv, TypeOK, Call, Pending
<1>2. iterations' = IF to = "fixing" THEN iterations + 1 ELSE iterations
  BY <1>1 DEF Counted
<1>3. (Granted <=> call[c].approved) /\ ~Granted'
  <2>1. Granted <=> call[c].approved
    BY <1>1 DEF Granted
  <2>2. ~Pending(c)'
    BY UpdateEnds DEF FreshInv
  <2> QED BY <2>1, <2>2 DEF Granted
<1>4. to \in ValidTransitions(phase) /\ (phase \in Strict /\ to \notin Aborted => call[c].approved)
  BY <1>1 DEF FreshInv, Legal
<1>5. call[c].approved => phase \in Strict /\ to \notin Aborted
  BY <1>1 DEF FreshInv
<1>6. CASE to \in Aborted
  <2>1. phase \notin Terminal /\ to # "fixing" /\ ~call[c].approved
    BY <1>4, <1>5, <1>6 DEF ValidTransitions, Aborted
  <2>2. Machine!Abort(to)
    BY <1>1, <1>2, <1>3, <1>6, <2>1
       DEF Granted, Machine!Abort, Machine!Terminal, Machine!Aborted, Terminal, Aborted
  <2> QED BY <1>1, <2>2 DEF Machine!Next, Machine!Phase, Phase
<1>7. CASE to \notin Aborted /\ phase \in Strict
  <2>1. PICK t : t = to
    OBVIOUS
  <2>2. t \in Machine!Successors(phase)
    BY <1>4, <1>7, <2>1 DEF ValidTransitions, Successors, Machine!Successors
  <2>3. Machine!OpenGate(t)
    BY <1>1, <1>2, <1>3, <1>4, <1>7, <2>1, <2>2
       DEF Granted, Machine!OpenGate, Machine!Strict, Strict
  <2>4. t \in Machine!Phase
    BY <1>1, <2>1 DEF Machine!Phase, Phase
  <2> QED BY <2>3, <2>4, GateIsStep, Zenon
<1>8. CASE to \notin Aborted /\ phase \notin Strict /\ to = "fixing"
  <2>1. phase = "testing"
    BY <1>4, <1>8 DEF ValidTransitions, Successors, Strict, Terminal
  <2>2. iterations < MaxTestIterations
    BY <1>1, <1>8, <2>1 DEF FreshInv
  <2>3. Machine!SendBack
    BY <1>1, <1>2, <1>3, <1>5, <1>8, <2>1, <2>2 DEF Granted, Machine!SendBack
  <2> QED BY <2>3 DEF Machine!Next
<1>9. CASE to \notin Aborted /\ phase \notin Strict /\ to # "fixing"
  <2>1. to \in Machine!Successors(phase)
    BY <1>4, <1>9 DEF ValidTransitions, Successors, Machine!Successors
  <2>2. Machine!Advance(to)
    BY <1>1, <1>2, <1>3, <1>5, <1>9, <2>1 DEF Granted, Machine!Advance, Machine!Strict, Strict
  <2> QED BY <1>1, <2>2 DEF Machine!Next, Machine!Phase, Phase
<1> QED BY <1>6, <1>7, <1>8, <1>9

\* Every other step of the only caller leaves the machine alone, takes an
\* approval in hand or drops it.
LEMMA OtherImplements ==
    ASSUME FreshInv', UNCHANGED <<phase, iterations>>
    PROVE  [Machine!Next]_(Machine!vars)
<1>1. CASE Granted' <=> Granted
  BY <1>1 DEF Granted, Machine!vars
<1>2. CASE ~Granted'
  <2>1. Machine!Withdraw
    BY <1>2 DEF Granted, Machine!Withdraw
  <2> QED BY <2>1 DEF Machine!Next
<1>3. CASE Granted'
  <2>1. phase' \in Strict
    BY <1>3 DEF Granted, FreshInv
  <2>2. Machine!Grant
    BY <1>3, <2>1 DEF Granted, Machine!Grant, Machine!Strict, Strict
  <2> QED BY <2>2 DEF Machine!Next
<1> QED BY <1>1, <1>2, <1>3

\* With one caller at a time the service implements the phase machine: one edge
\* of the protocol after another, an approval for every passage of a gate, no
\* more rounds of fixing than allowed, and an ended cycle never moves.
THEOREM SerialImplements ==
    ASSUME \A c, d \in Caller : c = d
    PROVE  Spec => Serial
<1>1. Init => Machine!Init /\ FreshInv
  <2> SUFFICES ASSUME Init PROVE Machine!Init /\ FreshInv
    OBVIOUS
  <2>1. \A c \in Caller : ~Pending(c)
    BY NotWriting DEF Init, Pending
  <2>2. Machine!Init
    BY <2>1 DEF Init, Machine!Init
  <2> QED BY <2>1, <2>2, AuditInit DEF FreshInv, AuditInv
<1>2. FreshInv /\ [Next]_vars => FreshInv'
  BY FreshStep
<1>3. FreshInv /\ [Next]_vars => [Machine!Next]_(Machine!vars)
  <2> SUFFICES ASSUME FreshInv, [Next]_vars PROVE [Machine!Next]_(Machine!vars)
    OBVIOUS
  <2>1. CASE UNCHANGED <<phase, iterations>>
    BY <1>2, <2>1, OtherImplements
  <2>2. ASSUME NEW c \in Caller, Update(c) PROVE Machine!Next
    BY <2>2, UpdateImplements
  <2> QED BY <2>1, <2>2, StepShape DEF FreshInv, Record
<1> QED BY <1>1, <1>2, <1>3, PTL DEF Spec, Serial, Machine!Spec
=============================================================================
