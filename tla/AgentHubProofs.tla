--------------------------- MODULE AgentHubProofs ---------------------------
(***************************************************************************)
(* Proofs about AgentHub, for every set of nodes, profiles, requests and   *)
(* task kinds and every value of the bounds.                               *)
(***************************************************************************)
EXTENDS AgentHub, SequenceTheorems, FiniteSetTheorems, TLAPS

-----------------------------------------------------------------------------
(* What the handlers do to the task table.                                 *)

\* Changing the status of a row keeps the table a sequence of task rows of
\* the same length (UPDATE agent_tasks SET status).
LEMMA StatusUpdate ==
  ASSUME NEW t \in Seq(Task), NEW i \in DOMAIN t, NEW s \in Status
  PROVE  LET u == [t EXCEPT ![i].status = s]
         IN /\ u \in Seq(Task)
            /\ DOMAIN u = DOMAIN t
            /\ \A j \in DOMAIN t :
                 u[j] = IF j = i THEN [t[i] EXCEPT !.status = s] ELSE t[j]
<1>1. t[i] \in Task
  BY ElementOfSeq, LenProperties
<1>2. [t[i] EXCEPT !.status = s] \in Task
  BY <1>1 DEF Task
<1>3. [t EXCEPT ![i].status = s] = [t EXCEPT ![i] = [t[i] EXCEPT !.status = s]]
  OBVIOUS
<1>4. i \in 1 .. Len(t)
  BY LenProperties
<1>5. [t EXCEPT ![i] = [t[i] EXCEPT !.status = s]] \in Seq(Task)
  BY <1>2, <1>4, ExceptSeq
<1> QED
  BY <1>3, <1>5

\* Inserting a row appends it and leaves the others alone (INSERT INTO
\* agent_tasks).
LEMMA RowInsert ==
  ASSUME NEW t \in Seq(Task), NEW e \in Task
  PROVE  LET u == Append(t, e)
         IN /\ u \in Seq(Task)
            /\ DOMAIN u = DOMAIN t \union {Len(t) + 1}
            /\ \A j \in DOMAIN t : u[j] = t[j]
            /\ u[Len(t) + 1] = e
            /\ Len(t) + 1 \notin DOMAIN t
            /\ \A j \in DOMAIN t : j \in Nat /\ j < Len(t) + 1
<1>1. /\ Append(t, e) \in Seq(Task)
      /\ Len(Append(t, e)) = Len(t) + 1
      /\ \A j \in 1 .. Len(t) : Append(t, e)[j] = t[j]
      /\ Append(t, e)[Len(t) + 1] = e
  BY AppendProperties
<1>2. DOMAIN t = 1 .. Len(t) /\ Len(t) \in Nat
  BY LenProperties
<1>3. DOMAIN Append(t, e) = 1 .. Len(t) + 1
  BY <1>1, LenProperties
<1> QED
  BY <1>1, <1>2, <1>3

-----------------------------------------------------------------------------
(* Type correctness.                                                       *)

\* The empty database of a new panel is well typed.
LEMMA InitTypeOK == Init => TypeOK
<1> SUFFICES ASSUME Init PROVE TypeOK
  OBVIOUS
<1>1. <<>> \in Seq(Profiles) /\ <<>> \in Seq(Task)
  BY EmptySeq
<1>2. NoRequest \in Request
  BY DEF Request
<1> QED
  BY <1>1, <1>2 DEF Init, TypeOK

\* The request that starts and the row that is inserted are well formed.
LEMMA StartType ==
  ASSUME TypeOK, NEW q \in Requests,
         NEW stage \in ApplyStages \union CoalesceStages \union {"enqueue.insert"},
         NEW n \in Nodes, NEW kind \in Kinds, NEW key \in Keys, NEW r \in Nat,
         Start(q, stage, n, kind, key, r)
  PROVE  request' \in [Requests -> Request]
<1>1. [stage |-> stage, node |-> n, kind |-> kind, key |-> key, revision |-> r]
        \in Request
  BY DEF Request
<1> QED
  BY <1>1 DEF Start, TypeOK

\* An inserted row keeps the table well typed (CreateTask).
LEMMA InsertType ==
  ASSUME TypeOK, NEW n \in Nodes, NEW kind \in Kinds, NEW key \in Keys,
         NEW r \in Nat, NEW c \in BOOLEAN, Insert(n, kind, key, r, c)
  PROVE  tasks' \in Seq(Task)
<1> DEFINE e == [node |-> n, kind |-> kind, key |-> key, revision |-> r,
                 status |-> "queued", coalesced |-> c]
<1>1. e \in Task
  BY DEF Task, Status
<1>2. tasks \in Seq(Task)
  BY DEF TypeOK
<1>3. tasks' = Append(tasks, e)
  BY DEF Insert
<1> QED
  BY <1>1, <1>2, <1>3, RowInsert

\* A running request has a node, a kind, a key and a revision.
LEMMA RunningRequest ==
  ASSUME TypeOK, NEW q \in Requests, request[q].stage # "idle"
  PROVE  /\ request[q] \in [stage : ApplyStages \union CoalesceStages
                                       \union {"enqueue.insert"},
                             node : Nodes, kind : Kinds, key : Keys,
                             revision : Nat]
         /\ request[q].node \in Nodes
         /\ request[q].kind \in Kinds
         /\ request[q].key \in Keys
         /\ request[q].revision \in Nat
<1>1. request[q] \in Request
  BY DEF TypeOK
<1>2. request[q] # NoRequest
  BY DEF NoRequest
<1> QED
  BY <1>1, <1>2 DEF Request

\* A handler that returns leaves the requests well typed.
LEMMA ReturnType ==
  ASSUME TypeOK, NEW q \in Requests, Return(q)
  PROVE  request' \in [Requests -> Request]
<1>1. NoRequest \in Request
  BY DEF Request
<1> QED
  BY <1>1 DEF Return, TypeOK

\* A handler that moves to its next database access stays well typed.
LEMMA GotoType ==
  ASSUME TypeOK, NEW q \in Requests, request[q].stage # "idle",
         NEW stage \in ApplyStages \union CoalesceStages \union {"enqueue.insert"},
         Goto(q, stage)
  PROVE  request' \in [Requests -> Request]
<1> DEFINE R == [stage : ApplyStages \union CoalesceStages \union {"enqueue.insert"},
                 node : Nodes, kind : Kinds, key : Keys, revision : Nat]
<1>1. request[q] \in R
  BY RunningRequest
<1>2. [request[q] EXCEPT !.stage = stage] \in R
  BY <1>1
<1>3. [request[q] EXCEPT !.stage = stage] \in Request
  BY <1>2 DEF Request
<1>4. request' = [request EXCEPT ![q] = [request[q] EXCEPT !.stage = stage]]
  BY DEF Goto
<1> QED
  BY <1>3, <1>4 DEF TypeOK

\* A deferred Unlock leaves the mutexes well typed.
LEMMA UnlockType ==
  ASSUME TypeOK, NEW k, Unlock(k)
  PROVE  mutex' \in [Mutexes -> Requests \union {None}]
BY ZenonT(30) DEF TypeOK, Unlock

\* Every handler preserves the type invariant.
LEMMA NextTypeOK == TypeOK /\ [Next]_vars => TypeOK'
<1> SUFFICES ASSUME TypeOK, [Next]_vars PROVE TypeOK'
  OBVIOUS
<1>1. ASSUME NEW n \in Nodes, RegisterNode(n) PROVE TypeOK'
  BY <1>1 DEF RegisterNode, TypeOK
<1>2. ASSUME NEW n \in Nodes, HeartbeatExpires(n) PROVE TypeOK'
  BY <1>2 DEF HeartbeatExpires, TypeOK
<1>3. ASSUME NEW n \in Nodes, NEW c \in CapabilitySets,
             NEW o \in ReportedObservations, Heartbeat(n, c, o)
      PROVE  TypeOK'
  <2>1. c \in SUBSET Kinds
    BY ConstantsAssumption DEF Kinds
  <2>2. o \in Observations \union {None}
    BY ConstantsAssumption DEF ReportedObservations, Observations
  <2> QED
    BY <1>3, <2>1, <2>2 DEF Heartbeat, TypeOK
<1>4. ASSUME NEW n \in Nodes, NEW p \in Profiles, NEW e \in 0 .. MaxRevision,
             UpdateNodeProfile(n, p, e)
      PROVE  TypeOK'
  <2>1. Append(saved[n], p) \in Seq(Profiles)
    BY AppendProperties DEF TypeOK
  <2> QED
    BY <1>4, <2>1 DEF UpdateNodeProfile, TypeOK
<1>5. ASSUME NEW n \in Nodes, NEW i \in DOMAIN tasks, ClaimNextTask(n, i)
      PROVE  TypeOK'
  <2>1. tasks' \in Seq(Task)
    BY ZenonT(30), <1>5, StatusUpdate, "running" \in Status DEF ClaimNextTask, TypeOK, Status
  <2> QED
    BY <1>5, <2>1 DEF ClaimNextTask, TypeOK
<1>6. ASSUME NEW n \in Nodes, NEW i \in DOMAIN tasks,
             NEW s \in {"completed", "failed"}, CompleteTask(n, i, s)
      PROVE  TypeOK'
  <2>1. s \in Status
    BY DEF Status
  <2>2. tasks' \in Seq(Task)
    BY <1>6, <2>1, StatusUpdate DEF CompleteTask, TypeOK
  <2> QED
    BY <1>6, <2>2 DEF CompleteTask, TypeOK
<1>7. ASSUME NEW q \in Requests, NEW n \in Nodes, NEW r \in 1 .. MaxRevision,
             ApplyNodeProfile(q, n, r)
      PROVE  TypeOK'
  <2>1. r \in Nat /\ r \in 1 .. Len(saved[n])
    BY <1>7, ConstantsAssumption DEF ApplyNodeProfile, Revision, TypeOK
  <2>2. saved[n][r] \in Keys
    BY <2>1, ElementOfSeq DEF TypeOK, Keys
  <2>3. request' \in [Requests -> Request]
    BY <1>7, <2>1, <2>2, StartType DEF ApplyNodeProfile, ApplyStages, Kinds
  <2>4. mutex' \in [Mutexes -> Requests \union {None}]
    BY ZenonT(30), <1>7 DEF ApplyNodeProfile, TypeOK
  <2> QED
    BY <1>7, <2>3, <2>4 DEF ApplyNodeProfile, TypeOK
<1>8. ASSUME NEW q \in Requests, ApplyReadLatest(q) PROVE TypeOK'
  <2>1. request' \in [Requests -> Request]
    BY <1>8, ReturnType, GotoType DEF ApplyReadLatest, ApplyStages
  <2>2. mutex' \in [Mutexes -> Requests \union {None}]
    BY <1>8, UnlockType DEF ApplyReadLatest, TypeOK
  <2> QED
    BY <1>8, <2>1, <2>2 DEF ApplyReadLatest, TypeOK
<1>9. ASSUME NEW q \in Requests, CreateProfileApplyTask(q) PROVE TypeOK'
  <2>1. /\ request[q].node \in Nodes
        /\ request[q].key \in Keys
        /\ request[q].revision \in Nat
    BY <1>9, RunningRequest DEF CreateProfileApplyTask
  <2>2. tasks' \in Seq(Task)
    BY ZenonT(30), <1>9, <2>1, InsertType DEF CreateProfileApplyTask, TypeOK, Kinds
  <2>3. /\ request' \in [Requests -> Request]
        /\ mutex' \in [Mutexes -> Requests \union {None}]
    BY <1>9, ReturnType, UnlockType DEF CreateProfileApplyTask
  <2> QED
    BY <1>9, <2>2, <2>3 DEF CreateProfileApplyTask, TypeOK
<1>10. ASSUME NEW q \in Requests, NEW n \in Nodes, NEW k \in PlainKinds,
              EnqueueTask(q, n, k)
       PROVE  TypeOK'
  <2>1. k \in Kinds /\ None \in Keys
    BY DEF Kinds, Keys
  <2>2. request' \in [Requests -> Request]
    BY <1>10, <2>1, StartType DEF EnqueueTask
  <2> QED
    BY <1>10, <2>2 DEF EnqueueTask, TypeOK
<1>11. ASSUME NEW q \in Requests, CreateTask(q) PROVE TypeOK'
  <2>1. request[q].node \in Nodes /\ request[q].kind \in Kinds /\ None \in Keys
    BY <1>11, RunningRequest DEF CreateTask, Keys
  <2>2. tasks' \in Seq(Task)
    BY ZenonT(30), <1>11, <2>1, InsertType DEF CreateTask
  <2>3. request' \in [Requests -> Request]
    BY <1>11, ReturnType DEF CreateTask
  <2> QED
    BY <1>11, <2>2, <2>3 DEF CreateTask, TypeOK
<1>12. ASSUME NEW q \in Requests, NEW n \in Nodes, NEW w \in CoalescedWork,
              NEW r \in 0 .. MaxRevision,
              EnqueueCoalesced(q, n, w[1], w[2], IF w[1] = Ensure THEN r ELSE 0)
       PROVE  TypeOK'
  <2>1. w[1] \in Kinds /\ w[2] \in Keys
    BY DEF CoalescedWork, Kinds, Keys
  <2>2. (IF w[1] = Ensure THEN r ELSE 0) \in Nat
    BY ConstantsAssumption
  <2>3. request' \in [Requests -> Request]
    BY <1>12, <2>1, <2>2, StartType DEF EnqueueCoalesced, CoalesceStages
  <2>4. mutex' \in [Mutexes -> Requests \union {None}]
    BY ZenonT(30), <1>12 DEF EnqueueCoalesced, TypeOK
  <2> QED
    BY <1>12, <2>3, <2>4 DEF EnqueueCoalesced, TypeOK
<1>13. ASSUME NEW q \in Requests, CoalesceList(q) PROVE TypeOK'
  <2>1. request' \in [Requests -> Request]
    BY <1>13, ReturnType, GotoType DEF CoalesceList, CoalesceStages
  <2>2. mutex' \in [Mutexes -> Requests \union {None}]
    BY <1>13, UnlockType DEF CoalesceList, TypeOK
  <2> QED
    BY <1>13, <2>1, <2>2 DEF CoalesceList, TypeOK
<1>14. ASSUME NEW q \in Requests, CoalesceInsert(q) PROVE TypeOK'
  <2>1. /\ request[q].node \in Nodes
        /\ request[q].kind \in Kinds
        /\ request[q].key \in Keys
        /\ request[q].revision \in Nat
    BY <1>14, RunningRequest DEF CoalesceInsert
  <2>2. tasks' \in Seq(Task)
    BY ZenonT(30), <1>14, <2>1, InsertType DEF CoalesceInsert
  <2>3. /\ request' \in [Requests -> Request]
        /\ mutex' \in [Mutexes -> Requests \union {None}]
    BY <1>14, ReturnType, UnlockType DEF CoalesceInsert
  <2> QED
    BY <1>14, <2>2, <2>3 DEF CoalesceInsert, TypeOK
<1>15. CASE PanelRestart
  <2>1. NoRequest \in Request
    BY DEF Request
  <2> QED
    BY <1>15, <2>1 DEF PanelRestart, TypeOK
<1>16. CASE UNCHANGED vars
  BY <1>16 DEF vars, TypeOK
<1> QED
  BY <1>1, <1>2, <1>3, <1>4, <1>5, <1>6, <1>7, <1>8, <1>9, <1>10, <1>11, <1>12,
     <1>13, <1>14, <1>15, <1>16 DEF Next

\* Every reachable state of the hub has the shape the schema and the handlers
\* give it.
THEOREM TypeCorrect == Spec => []TypeOK
<1> QED
  BY InitTypeOK, NextTypeOK, PTL DEF Spec

-----------------------------------------------------------------------------
(* The critical sections.                                                  *)

\* Which kinds of work reach which stage of a request.
StageKinds ==
  \A q \in Requests :
    /\ request[q].stage \in ApplyStages => request[q].kind = ProfileApply
    /\ request[q].stage \in CoalesceStages => request[q].kind \in CoalescedKinds
    /\ request[q].stage = "enqueue.insert" => request[q].kind \in PlainKinds

\* Before the first request no mutex is held.
LEMMA InitMutex == Init => MutualExclusion /\ StageKinds
BY ConstantsAssumption
   DEF Init, MutualExclusion, StageKinds, Inside, NoRequest, ApplyStages,
       CoalesceStages, Mutexes

\* A request that starts at a stage of mutex m, which it takes.
LEMMA LockStep ==
  ASSUME TypeOK, MutualExclusion, StageKinds,
         NEW q \in Requests, NEW m \in Mutexes, NEW n \in Nodes,
         NEW key, NEW r, NEW stage,
         stage \in IF m = ProfileApply THEN ApplyStages ELSE CoalesceStages,
         m # ProfileApply => m \in CoalescedKinds,
         mutex[m] = None,
         mutex' = [mutex EXCEPT ![m] = q],
         Start(q, stage, n, m, key, r)
  PROVE  MutualExclusion' /\ StageKinds'
<1>1. request[q].stage = "idle"
  BY DEF Start, MayStart
<1>2. \A k \in Mutexes : mutex[k] # q
  BY <1>1 DEF MutualExclusion, Inside, ApplyStages, CoalesceStages
<1>3. /\ request'[q].stage = stage /\ request'[q].kind = m
      /\ \A p \in Requests \ {q} : request'[p] = request[p]
  BY DEF Start, TypeOK
<1>4. /\ mutex'[m] = q
      /\ \A k \in Mutexes \ {m} : mutex'[k] = mutex[k]
  BY DEF TypeOK
<1>5. MutualExclusion'
  <2> SUFFICES ASSUME NEW k \in Mutexes, NEW p \in Requests
               PROVE  mutex'[k] = p <=> Inside(p, k)'
    BY DEF MutualExclusion
  <2>1. CASE p = q
    BY <2>1, <1>2, <1>3, <1>4 DEF Inside
  <2>2. CASE p # q /\ k = m
    BY <2>2, <1>3, <1>4, ConstantsAssumption DEF MutualExclusion, Inside
  <2>3. CASE p # q /\ k # m
    BY <2>3, <1>3, <1>4 DEF MutualExclusion, Inside
  <2> QED
    BY <2>1, <2>2, <2>3
<1>6. StageKinds'
  BY <1>3 DEF StageKinds, ApplyStages, CoalesceStages
<1> QED
  BY <1>5, <1>6

\* A request inside mutex m that returns and unlocks it.
LEMMA UnlockStep ==
  ASSUME TypeOK, MutualExclusion, StageKinds,
         NEW q \in Requests, NEW m \in Mutexes, Inside(q, m),
         Return(q), Unlock(m)
  PROVE  MutualExclusion' /\ StageKinds'
<1>1. /\ request'[q] = NoRequest
      /\ \A p \in Requests \ {q} : request'[p] = request[p]
  BY DEF Return, TypeOK
<1>2. /\ mutex'[m] = None
      /\ \A k \in Mutexes \ {m} : mutex'[k] = mutex[k]
  BY DEF Unlock, TypeOK
<1>3. mutex[m] = q /\ \A k \in Mutexes \ {m} : mutex[k] # q
  BY DEF MutualExclusion, Inside
<1>4. NoRequest.stage = "idle"
  BY DEF NoRequest
<1>5. MutualExclusion'
  <2> SUFFICES ASSUME NEW k \in Mutexes, NEW p \in Requests
               PROVE  mutex'[k] = p <=> Inside(p, k)'
    BY DEF MutualExclusion
  <2>1. CASE p = q
    <3>1. ~Inside(p, k)'
      BY <2>1, <1>1, <1>4 DEF Inside, ApplyStages, CoalesceStages
    <3>2. mutex'[k] # p
      BY <2>1, <1>2, <1>3, ConstantsAssumption
    <3> QED
      BY <3>1, <3>2
  <2>2. CASE p # q
    BY <2>2, <1>1, <1>2, <1>3, ConstantsAssumption DEF MutualExclusion, Inside
  <2> QED
    BY <2>1, <2>2
<1>6. StageKinds'
  BY <1>1, <1>4 DEF StageKinds, ApplyStages, CoalesceStages
<1> QED
  BY <1>5, <1>6

\* A request that moves on inside its critical section.
LEMMA MoveStep ==
  ASSUME TypeOK, MutualExclusion, StageKinds,
         NEW q \in Requests, NEW m \in Mutexes, Inside(q, m), NEW stage,
         stage \in IF m = ProfileApply THEN ApplyStages ELSE CoalesceStages,
         Goto(q, stage), UNCHANGED mutex
  PROVE  MutualExclusion' /\ StageKinds'
<1>1. request[q].stage # "idle"
  BY DEF Inside, ApplyStages, CoalesceStages
<1>2. /\ request'[q].stage = stage
      /\ request'[q].kind = request[q].kind
      /\ \A p \in Requests \ {q} : request'[p] = request[p]
  BY <1>1, RunningRequest DEF Goto, TypeOK
<1>3. MutualExclusion'
  BY <1>2 DEF MutualExclusion, Inside
<1>4. StageKinds'
  BY <1>2 DEF StageKinds, Inside, ApplyStages, CoalesceStages
<1> QED
  BY <1>3, <1>4

\* Every handler preserves mutual exclusion and the kinds of its stages.
LEMMA NextMutex ==
  TypeOK /\ MutualExclusion /\ StageKinds /\ [Next]_vars
    => MutualExclusion' /\ StageKinds'
<1> SUFFICES ASSUME TypeOK, MutualExclusion, StageKinds, [Next]_vars
             PROVE  MutualExclusion' /\ StageKinds'
  OBVIOUS
<1>0. CASE UNCHANGED <<mutex, request>>
  BY <1>0 DEF MutualExclusion, StageKinds, Inside
<1>1. ASSUME NEW n \in Nodes,
             \/ RegisterNode(n)
             \/ HeartbeatExpires(n)
             \/ \E c \in CapabilitySets, o \in ReportedObservations : Heartbeat(n, c, o)
             \/ \E p \in Profiles, e \in 0 .. MaxRevision : UpdateNodeProfile(n, p, e)
             \/ \E i \in DOMAIN tasks : ClaimNextTask(n, i)
             \/ \E i \in DOMAIN tasks, s \in {"completed", "failed"} : CompleteTask(n, i, s)
      PROVE  UNCHANGED <<mutex, request>>
  BY <1>1 DEF RegisterNode, HeartbeatExpires, Heartbeat, UpdateNodeProfile,
              ClaimNextTask, CompleteTask
<1>2. ASSUME NEW q \in Requests, NEW n \in Nodes, NEW r \in 1 .. MaxRevision,
             ApplyNodeProfile(q, n, r)
      PROVE  MutualExclusion' /\ StageKinds'
  BY ZenonT(30), <1>2, LockStep, ProfileApply \in Mutexes
     DEF ApplyNodeProfile, ApplyStages, Mutexes
<1>3. ASSUME NEW q \in Requests, ApplyReadLatest(q)
      PROVE  MutualExclusion' /\ StageKinds'
  <2>1. Inside(q, ProfileApply) /\ ProfileApply \in Mutexes
    BY <1>3 DEF ApplyReadLatest, StageKinds, Inside, ApplyStages, Mutexes
  <2>2. "apply.create" \in ApplyStages
    BY DEF ApplyStages
  <2> QED
    BY <1>3, <2>1, <2>2, UnlockStep, MoveStep DEF ApplyReadLatest
<1>4. ASSUME NEW q \in Requests, CreateProfileApplyTask(q)
      PROVE  MutualExclusion' /\ StageKinds'
  <2>1. Inside(q, ProfileApply) /\ ProfileApply \in Mutexes
    BY <1>4 DEF CreateProfileApplyTask, StageKinds, Inside, ApplyStages, Mutexes
  <2> QED
    BY <1>4, <2>1, UnlockStep DEF CreateProfileApplyTask
<1>5. ASSUME NEW q \in Requests, NEW n \in Nodes, NEW k \in PlainKinds,
             EnqueueTask(q, n, k)
      PROVE  MutualExclusion' /\ StageKinds'
  <2>1. /\ request[q].stage = "idle"
        /\ request'[q].stage = "enqueue.insert" /\ request'[q].kind = k
        /\ \A p \in Requests \ {q} : request'[p] = request[p]
        /\ UNCHANGED mutex
    BY <1>5 DEF EnqueueTask, Start, MayStart, TypeOK
  <2> QED
    BY <2>1 DEF MutualExclusion, StageKinds, Inside, ApplyStages, CoalesceStages
<1>6. ASSUME NEW q \in Requests, CreateTask(q)
      PROVE  MutualExclusion' /\ StageKinds'
  <2>1. /\ request[q].stage = "enqueue.insert"
        /\ request'[q].stage = "idle"
        /\ \A p \in Requests \ {q} : request'[p] = request[p]
        /\ UNCHANGED mutex
    BY <1>6 DEF CreateTask, Return, NoRequest, TypeOK
  <2> QED
    BY <2>1 DEF MutualExclusion, StageKinds, Inside, ApplyStages, CoalesceStages
<1>7. ASSUME NEW q \in Requests, NEW n \in Nodes, NEW w \in CoalescedWork,
             NEW r \in 0 .. MaxRevision,
             EnqueueCoalesced(q, n, w[1], w[2], IF w[1] = Ensure THEN r ELSE 0)
      PROVE  MutualExclusion' /\ StageKinds'
  <2>1. w[1] \in CoalescedKinds /\ w[1] \in Mutexes /\ w[1] # ProfileApply
    BY ConstantsAssumption DEF CoalescedWork, Mutexes
  <2>2. "coalesce.list" \in CoalesceStages
    BY DEF CoalesceStages
  <2> QED
    BY ZenonT(30), <1>7, <2>1, <2>2, LockStep DEF EnqueueCoalesced
<1>8. ASSUME NEW q \in Requests, CoalesceList(q)
      PROVE  MutualExclusion' /\ StageKinds'
  <2> DEFINE m == request[q].kind
  <2>1. m \in CoalescedKinds /\ m \in Mutexes /\ m # ProfileApply
    BY <1>8, ConstantsAssumption DEF CoalesceList, StageKinds, CoalesceStages, Mutexes
  <2>2. Inside(q, m)
    BY <1>8, <2>1 DEF CoalesceList, Inside, CoalesceStages
  <2>3. "coalesce.insert" \in CoalesceStages
    BY DEF CoalesceStages
  <2> QED
    BY <1>8, <2>1, <2>2, <2>3, UnlockStep, MoveStep DEF CoalesceList
<1>9. ASSUME NEW q \in Requests, CoalesceInsert(q)
      PROVE  MutualExclusion' /\ StageKinds'
  <2> DEFINE m == request[q].kind
  <2>1. m \in CoalescedKinds /\ m \in Mutexes /\ m # ProfileApply
    BY <1>9, ConstantsAssumption DEF CoalesceInsert, StageKinds, CoalesceStages, Mutexes
  <2>2. Inside(q, m)
    BY <1>9, <2>1 DEF CoalesceInsert, Inside, CoalesceStages
  <2> QED
    BY <1>9, <2>1, <2>2, UnlockStep DEF CoalesceInsert
<1>10. CASE PanelRestart
  BY <1>10, ConstantsAssumption
     DEF PanelRestart, MutualExclusion, StageKinds, Inside, NoRequest,
         ApplyStages, CoalesceStages
<1> QED
  BY <1>0, <1>1, <1>2, <1>3, <1>4, <1>5, <1>6, <1>7, <1>8, <1>9, <1>10 DEF Next, vars

\* A mutex of the service is held by exactly the request inside its critical
\* section, whatever requests, restarts and database steps interleave.
THEOREM CriticalSections == Spec => []MutualExclusion
<1>1. TypeOK /\ MutualExclusion /\ StageKinds /\ [Next]_vars
        => (TypeOK /\ MutualExclusion /\ StageKinds)'
  BY NextTypeOK, NextMutex
<1>2. Init => TypeOK /\ MutualExclusion /\ StageKinds
  BY InitTypeOK, InitMutex
<1> QED
  BY <1>1, <1>2, PTL DEF Spec

-----------------------------------------------------------------------------
(* What a step does to the task table and to the desired profiles.         *)

\* Request q has found no task to reuse and inserts its own.
InsertsCoalesced(q, e) ==
  /\ request[q].stage = "coalesce.insert"
  /\ e.node = request[q].node
  /\ e.kind = request[q].kind
  /\ e.key = request[q].key
  /\ request'[q].stage = "idle"

\* A new row is queued; a new apply task names the revision just checked, its
\* profile, and a node with no apply in flight.
Inserted(e) ==
  /\ e \in Task
  /\ e.status = "queued"
  /\ tasks' = Append(tasks, e)
  /\ UNCHANGED saved
  /\ e.kind = ProfileApply =>
       /\ InFlightApply(e.node) = {}
       /\ e.revision \in DOMAIN saved[e.node]
       /\ e.revision = Len(saved[e.node])
       /\ e.key = saved[e.node][e.revision]
  /\ e.coalesced => \E q \in Requests : InsertsCoalesced(q, e)

\* A row moves along queued, running, completed or failed.
Moved(i, s) ==
  /\ tasks' = [tasks EXCEPT ![i].status = s]
  /\ UNCHANGED saved
  /\ \/ s = "running" /\ \E n \in Nodes : OldestQueued(n, i)
     \/ s \in {"completed", "failed"} /\ tasks[i].status = "running"

Saved(n, p) ==
  /\ UNCHANGED tasks
  /\ saved' = [saved EXCEPT ![n] = Append(@, p)]

TableStep ==
  \/ UNCHANGED <<tasks, saved>>
  \/ \E e \in Task : Inserted(e)
  \/ \E i \in DOMAIN tasks, s \in Status : Moved(i, s)
  \/ \E n \in Nodes, p \in Profiles : Saved(n, p)

\* Every handler inserts a row, moves one, saves a profile, or leaves the
\* task table and the desired profiles alone.
LEMMA NextTableStep ==
  TypeOK /\ StageKinds /\ [Next]_vars => TableStep
<1> SUFFICES ASSUME TypeOK, StageKinds, [Next]_vars PROVE TableStep
  OBVIOUS
<1>1. ASSUME NEW n \in Nodes, NEW i \in DOMAIN tasks, ClaimNextTask(n, i)
      PROVE  TableStep
  BY ZenonT(30), <1>1 DEF ClaimNextTask, TableStep, Moved, Status
<1>2. ASSUME NEW n \in Nodes, NEW i \in DOMAIN tasks,
             NEW s \in {"completed", "failed"}, CompleteTask(n, i, s)
      PROVE  TableStep
  BY ZenonT(30), <1>2 DEF CompleteTask, TableStep, Moved, Status
<1>3. ASSUME NEW n \in Nodes, NEW p \in Profiles, NEW e \in 0 .. MaxRevision,
             UpdateNodeProfile(n, p, e)
      PROVE  TableStep
  BY ZenonT(30), <1>3 DEF UpdateNodeProfile, TableStep, Saved
<1>4. ASSUME NEW q \in Requests, CreateProfileApplyTask(q) PROVE TableStep
  <2> DEFINE n == request[q].node
             r == request[q].revision
             p == request[q].key
             e == [node |-> n, kind |-> ProfileApply, key |-> p, revision |-> r,
                   status |-> "queued", coalesced |-> FALSE]
  <2>1. n \in Nodes /\ p \in Keys /\ r \in Nat
    BY <1>4, RunningRequest DEF CreateProfileApplyTask
  <2>2. e \in Task
    BY <2>1 DEF Task, Kinds, Status
  <2>3. request[q].stage = "apply.create" /\ UNCHANGED saved
    BY <1>4 DEF CreateProfileApplyTask
  <2>4. CASE MayCreateApply(n, r, p) /\ Insert(n, ProfileApply, p, r, FALSE)
    <3>1. tasks' = Append(tasks, e)
      BY <2>4 DEF Insert
    <3>2. InFlightApply(n) = {} /\ r >= 1 /\ Len(saved[n]) = r /\ saved[n][r] = p
      BY <2>4 DEF MayCreateApply, Revision
    <3>3. r \in DOMAIN saved[n]
      BY <3>2, <2>1, LenProperties DEF TypeOK
    <3> QED
      BY <2>2, <2>3, <3>1, <3>2, <3>3 DEF TableStep, Inserted
  <2>5. CASE UNCHANGED tasks
    BY <2>3, <2>5 DEF TableStep
  <2> QED
    BY ZenonT(30), <1>4, <2>4, <2>5 DEF CreateProfileApplyTask
<1>5. ASSUME NEW q \in Requests, NEW n \in Nodes, NEW k \in Kinds,
             NEW key \in Keys, NEW r \in Nat, NEW c \in BOOLEAN,
             k # ProfileApply, Insert(n, k, key, r, c), UNCHANGED saved,
             c => /\ request[q].stage = "coalesce.insert" /\ n = request[q].node
                  /\ k = request[q].kind /\ key = request[q].key
                  /\ request'[q].stage = "idle"
      PROVE  TableStep
  <2> DEFINE e == [node |-> n, kind |-> k, key |-> key, revision |-> r,
                   status |-> "queued", coalesced |-> c]
  <2>1. e \in Task
    BY DEF Task, Status
  <2>2. Inserted(e)
    BY <1>5, <2>1 DEF Inserted, Insert, InsertsCoalesced
  <2> QED
    BY <2>1, <2>2 DEF TableStep
<1>6. ASSUME NEW q \in Requests, CreateTask(q) PROVE TableStep
  <2>1. /\ request[q].node \in Nodes /\ request[q].kind \in Kinds
        /\ request[q].kind # ProfileApply
        /\ None \in Keys
    BY <1>6, RunningRequest, ConstantsAssumption DEF CreateTask, StageKinds, Keys
  <2>2. UNCHANGED saved /\ Insert(request[q].node, request[q].kind, None, 0, FALSE)
    BY ZenonT(30), <1>6 DEF CreateTask
  <2> QED
    BY ZenonT(30), <2>1, <2>2, <1>5
<1>7. ASSUME NEW q \in Requests, CoalesceInsert(q) PROVE TableStep
  <2>1. /\ request[q].node \in Nodes /\ request[q].kind \in Kinds
        /\ request[q].key \in Keys /\ request[q].revision \in Nat
        /\ request[q].kind # ProfileApply
    BY <1>7, RunningRequest, ConstantsAssumption
       DEF CoalesceInsert, StageKinds, CoalesceStages
  <2>2. UNCHANGED saved /\ Insert(request[q].node, request[q].kind, request[q].key,
                                 request[q].revision, TRUE)
    BY ZenonT(30), <1>7 DEF CoalesceInsert
  <2>3. request[q].stage = "coalesce.insert" /\ request'[q].stage = "idle"
    BY SMTT(30), <1>7 DEF CoalesceInsert, Return, NoRequest, TypeOK
  <2> QED
    BY ZenonT(30), <2>1, <2>2, <2>3, <1>5
<1>8. ASSUME NEW q \in Requests,
             \/ \E n \in Nodes, r \in 1 .. MaxRevision : ApplyNodeProfile(q, n, r)
             \/ ApplyReadLatest(q)
             \/ \E n \in Nodes, k \in PlainKinds : EnqueueTask(q, n, k)
             \/ \E n \in Nodes, w \in CoalescedWork, r \in 0 .. MaxRevision :
                  EnqueueCoalesced(q, n, w[1], w[2], IF w[1] = Ensure THEN r ELSE 0)
             \/ CoalesceList(q)
      PROVE  TableStep
  BY <1>8 DEF ApplyNodeProfile, ApplyReadLatest, EnqueueTask, EnqueueCoalesced,
              CoalesceList, TableStep
<1>9. ASSUME NEW n \in Nodes,
             \/ RegisterNode(n)
             \/ HeartbeatExpires(n)
             \/ \E c \in CapabilitySets, o \in ReportedObservations : Heartbeat(n, c, o)
      PROVE  TableStep
  BY <1>9 DEF RegisterNode, HeartbeatExpires, Heartbeat, TableStep
<1>10. CASE PanelRestart \/ UNCHANGED vars
  BY <1>10 DEF PanelRestart, vars, TableStep
<1> QED
  BY <1>1, <1>2, <1>3, <1>4, <1>6, <1>7, <1>8, <1>9, <1>10 DEF Next

\* The rows before and after a step that inserts one, and one that moves one.
LEMMA AfterInsert ==
  ASSUME TypeOK, NEW e \in Task, Inserted(e)
  PROVE  /\ DOMAIN tasks' = DOMAIN tasks \union {Len(tasks) + 1}
         /\ \A j \in DOMAIN tasks : tasks'[j] = tasks[j]
         /\ tasks'[Len(tasks) + 1] = e
         /\ Len(tasks) + 1 \notin DOMAIN tasks
         /\ \A j \in DOMAIN tasks : j \in Nat /\ j < Len(tasks) + 1
<1>1. tasks \in Seq(Task) /\ tasks' = Append(tasks, e)
  BY DEF TypeOK, Inserted
<1> QED
  BY <1>1, RowInsert

\* The rows of a well-typed table.
LEMMA Rows ==
  ASSUME TypeOK, NEW i \in DOMAIN tasks
  PROVE  i \in Nat /\ tasks[i] \in Task /\ tasks[i].node \in Nodes
<1>1. i \in 1 .. Len(tasks) /\ tasks \in Seq(Task) /\ Len(tasks) \in Nat
  BY LenProperties DEF TypeOK
<1>2. tasks[i] \in Task
  BY <1>1, ElementOfSeq
<1> QED
  BY <1>1, <1>2 DEF Task

\* A status update changes the status of one row and nothing else.
LEMMA AfterMove ==
  ASSUME TypeOK, NEW i \in DOMAIN tasks, NEW s \in Status, Moved(i, s)
  PROVE  /\ DOMAIN tasks' = DOMAIN tasks
         /\ \A j \in DOMAIN tasks :
              /\ tasks'[j] = [tasks[j] EXCEPT !.status = tasks'[j].status]
              /\ tasks'[j].node = tasks[j].node
              /\ tasks'[j].kind = tasks[j].kind
              /\ tasks'[j].key = tasks[j].key
              /\ tasks'[j].revision = tasks[j].revision
              /\ tasks'[j].coalesced = tasks[j].coalesced
              /\ j # i => tasks'[j].status = tasks[j].status
         /\ tasks'[i].status = s
         /\ \A j \in DOMAIN tasks : j \in Nat /\ tasks[j] \in Task
<1>1. tasks \in Seq(Task) /\ tasks' = [tasks EXCEPT ![i].status = s]
  BY DEF TypeOK, Moved
<1>2. /\ DOMAIN tasks' = DOMAIN tasks
      /\ \A j \in DOMAIN tasks :
           tasks'[j] = IF j = i THEN [tasks[i] EXCEPT !.status = s] ELSE tasks[j]
  BY <1>1, StatusUpdate
<1>3. \A j \in DOMAIN tasks : j \in Nat /\ tasks[j] \in Task
  BY <1>1, LenProperties, ElementOfSeq
<1> QED
  BY <1>2, <1>3 DEF Task

-----------------------------------------------------------------------------
(* The invariants of the task table.                                       *)

\* The in-flight check of CreateProfileApplyTask preserves single flight.
LEMMA SingleFlightStep ==
  TypeOK /\ ProfileSingleFlight /\ TableStep => ProfileSingleFlight'
<1> SUFFICES ASSUME TypeOK, ProfileSingleFlight, TableStep
             PROVE  ProfileSingleFlight'
  OBVIOUS
<1>1. CASE UNCHANGED tasks
  BY <1>1 DEF ProfileSingleFlight, InFlightApply, ApplyTasks
<1>2. ASSUME NEW e \in Task, Inserted(e) PROVE ProfileSingleFlight'
  <2>1. e.kind = ProfileApply => InFlightApply(e.node) = {}
    BY <1>2 DEF Inserted
  <2> QED
    BY <1>2, <2>1, AfterInsert DEF ProfileSingleFlight, InFlightApply, ApplyTasks
<1>3. ASSUME NEW i \in DOMAIN tasks, NEW s \in Status, Moved(i, s)
      PROVE  ProfileSingleFlight'
  <2>1. tasks[i].status \in InFlightStatus
    BY <1>3 DEF Moved, OldestQueued, InFlightStatus
  <2>2. \A n \in Nodes : InFlightApply(n)' \subseteq InFlightApply(n)
    BY ZenonT(30), <1>3, <2>1, AfterMove DEF InFlightApply, ApplyTasks
  <2> QED
    BY <2>2 DEF ProfileSingleFlight
<1> QED
  BY <1>1, <1>2, <1>3 DEF TableStep, Saved

\* A save appends a revision and an apply names one that exists.
LEMMA CarriesStep ==
  TypeOK /\ ApplyCarriesSavedProfile /\ TableStep => ApplyCarriesSavedProfile'
<1> SUFFICES ASSUME TypeOK, ApplyCarriesSavedProfile, TableStep
             PROVE  ApplyCarriesSavedProfile'
  OBVIOUS
<1>1. CASE UNCHANGED <<tasks, saved>>
  BY <1>1 DEF ApplyCarriesSavedProfile
<1>2. ASSUME NEW e \in Task, Inserted(e) PROVE ApplyCarriesSavedProfile'
  BY <1>2, AfterInsert DEF ApplyCarriesSavedProfile, Inserted
<1>3. ASSUME NEW i \in DOMAIN tasks, NEW s \in Status, Moved(i, s)
      PROVE  ApplyCarriesSavedProfile'
  <2>1. UNCHANGED saved
    BY <1>3 DEF Moved
  <2>2. /\ DOMAIN tasks' = DOMAIN tasks
        /\ \A j \in DOMAIN tasks :
             /\ tasks'[j].node = tasks[j].node /\ tasks'[j].kind = tasks[j].kind
             /\ tasks'[j].key = tasks[j].key /\ tasks'[j].revision = tasks[j].revision
    BY ZenonT(30), <1>3, AfterMove
  <2> QED
    BY <2>1, <2>2 DEF ApplyCarriesSavedProfile
<1>4. ASSUME NEW n \in Nodes, NEW p \in Profiles, Saved(n, p)
      PROVE  ApplyCarriesSavedProfile'
  <2>1. \A k \in Nodes : \A r \in DOMAIN saved[k] :
          r \in DOMAIN saved'[k] /\ saved'[k][r] = saved[k][r]
    BY <1>4, AppendProperties, LenProperties DEF Saved, TypeOK
  <2>2. UNCHANGED tasks
    BY <1>4 DEF Saved
  <2>3. \A i \in DOMAIN tasks : tasks[i].node \in Nodes
    BY Rows
  <2> QED
    BY <2>1, <2>2, <2>3 DEF ApplyCarriesSavedProfile
<1> QED
  BY <1>1, <1>2, <1>3, <1>4 DEF TableStep

\* The apply tasks of a node are created in the order of their revisions: what
\* the node relies on when it orders the profiles it is sent.
ApplyInRevisionOrder ==
  \A i, j \in DOMAIN tasks :
    ( /\ i < j /\ tasks[i].node = tasks[j].node
      /\ tasks[i].kind = ProfileApply /\ tasks[j].kind = ProfileApply )
    => tasks[i].revision <= tasks[j].revision

\* A new apply names the newest revision, and no earlier one names a later.
LEMMA RevisionOrderStep ==
  ASSUME TypeOK, ApplyCarriesSavedProfile, ApplyInRevisionOrder, TableStep
  PROVE  ApplyInRevisionOrder'
<1>1. CASE UNCHANGED tasks
  BY <1>1, ApplyInRevisionOrder DEF ApplyInRevisionOrder
<1>2. ASSUME NEW e \in Task, Inserted(e) PROVE ApplyInRevisionOrder'
  <2>1. \A i \in DOMAIN tasks :
          e.kind = ProfileApply /\ tasks[i].kind = ProfileApply /\ tasks[i].node = e.node
            => tasks[i].revision <= e.revision
    <3> SUFFICES ASSUME NEW i \in DOMAIN tasks, e.kind = ProfileApply,
                        tasks[i].kind = ProfileApply, tasks[i].node = e.node
                 PROVE  tasks[i].revision <= e.revision
      OBVIOUS
    <3>1. tasks[i].revision \in DOMAIN saved[e.node] /\ e.revision = Len(saved[e.node])
      BY <1>2, ApplyCarriesSavedProfile DEF ApplyCarriesSavedProfile, Inserted
    <3>2. saved[e.node] \in Seq(Profiles)
      BY TypeOK DEF TypeOK, Task
    <3> QED
      BY <3>1, <3>2, LenProperties
  <2>2. /\ DOMAIN tasks' = DOMAIN tasks \union {Len(tasks) + 1}
        /\ \A j \in DOMAIN tasks : tasks'[j] = tasks[j] /\ j \in Nat /\ j < Len(tasks) + 1
        /\ tasks'[Len(tasks) + 1] = e
        /\ Len(tasks) \in Nat
    BY ZenonT(30), <1>2, TypeOK, AfterInsert, LenProperties DEF TypeOK
  <2>3. SUFFICES ASSUME NEW i \in DOMAIN tasks', NEW j \in DOMAIN tasks', i < j,
                        tasks'[i].node = tasks'[j].node,
                        tasks'[i].kind = ProfileApply, tasks'[j].kind = ProfileApply
                 PROVE  tasks'[i].revision <= tasks'[j].revision
    BY DEF ApplyInRevisionOrder
  <2>4. i \in DOMAIN tasks
    BY <2>2, <2>3
  <2>5. CASE j \in DOMAIN tasks
    BY <2>2, <2>3, <2>4, <2>5, ApplyInRevisionOrder DEF ApplyInRevisionOrder
  <2>6. CASE j = Len(tasks) + 1
    BY <2>1, <2>2, <2>3, <2>4, <2>6
  <2> QED
    BY <2>2, <2>5, <2>6
<1>3. ASSUME NEW i \in DOMAIN tasks, NEW s \in Status, Moved(i, s)
      PROVE  ApplyInRevisionOrder'
  <2>1. /\ DOMAIN tasks' = DOMAIN tasks
        /\ \A j \in DOMAIN tasks :
             /\ tasks'[j].node = tasks[j].node /\ tasks'[j].kind = tasks[j].kind
             /\ tasks'[j].revision = tasks[j].revision
    BY ZenonT(30), <1>3, TypeOK, AfterMove
  <2> QED
    BY <2>1, ApplyInRevisionOrder DEF ApplyInRevisionOrder
<1> QED
  BY <1>1, <1>2, <1>3, TableStep DEF TableStep, Saved

\* Claiming the oldest queued row preserves the order of claims.
LEMMA ClaimOrderStep ==
  TypeOK /\ ClaimedInOrder /\ TableStep => ClaimedInOrder'
<1> SUFFICES ASSUME TypeOK, ClaimedInOrder, TableStep
             PROVE  ClaimedInOrder'
  OBVIOUS
<1>1. CASE UNCHANGED tasks
  BY <1>1 DEF ClaimedInOrder
<1>2. ASSUME NEW e \in Task, Inserted(e) PROVE ClaimedInOrder'
  <2>1. e.status = "queued" /\ Len(tasks) \in Nat
    BY <1>2, LenProperties DEF Inserted, TypeOK
  <2> QED
    BY <1>2, <2>1, AfterInsert DEF ClaimedInOrder
<1>3. ASSUME NEW i \in DOMAIN tasks, NEW s \in Status, Moved(i, s)
      PROVE  ClaimedInOrder'
  <2>1. CASE \E n \in Nodes : OldestQueued(n, i)
    <3>1. \A j \in DOMAIN tasks : j < i /\ tasks[j].node = tasks[i].node
             => tasks[j].status # "queued"
      BY <2>1, LenProperties DEF OldestQueued, TypeOK
    <3> QED
      BY <1>3, <3>1, <2>1, AfterMove DEF ClaimedInOrder, Moved, OldestQueued
  <2>2. CASE tasks[i].status = "running" /\ s \in {"completed", "failed"}
    <3>0. /\ DOMAIN tasks' = DOMAIN tasks
          /\ \A j \in DOMAIN tasks : tasks'[j].node = tasks[j].node
      BY ZenonT(30), <1>3, AfterMove
    <3> SUFFICES ASSUME NEW a \in DOMAIN tasks, NEW b \in DOMAIN tasks, a < b,
                        tasks[a].node = tasks[b].node,
                        tasks'[a].status = "queued"
                 PROVE  tasks'[b].status = "queued"
      BY <3>0 DEF ClaimedInOrder
    <3>1. a # i /\ tasks[a].status = "queued"
      BY ZenonT(30), <1>3, <2>2, AfterMove
    <3>2. tasks[b].status = "queued" /\ b # i
      BY <3>1, <2>2 DEF ClaimedInOrder
    <3> QED
      BY ZenonT(30), <1>3, <3>2, AfterMove
  <2> QED
    BY <1>3, <2>1, <2>2 DEF Moved
<1> QED
  BY <1>1, <1>2, <1>3 DEF TableStep, Saved

\* The apply task in flight is the newest one, so the task profileResponse
\* and ApplyNodeProfile read is the one in flight.
InFlightIsLatest ==
  \A n \in Nodes : \A i \in InFlightApply(n) : LatestApply(n, i)

\* An apply is inserted only when none is in flight, so the one in flight
\* stays the newest.
LEMMA LatestStep ==
  TypeOK /\ InFlightIsLatest /\ TableStep => InFlightIsLatest'
<1> SUFFICES ASSUME TypeOK, InFlightIsLatest, TableStep
             PROVE  InFlightIsLatest'
  OBVIOUS
<1>1. CASE UNCHANGED tasks
  BY <1>1 DEF InFlightIsLatest, InFlightApply, LatestApply, ApplyTasks
<1>2. ASSUME NEW e \in Task, Inserted(e) PROVE InFlightIsLatest'
  <2>1. e.kind = ProfileApply => InFlightApply(e.node) = {}
    BY <1>2 DEF Inserted
  <2>2. Len(tasks) \in Nat
    BY LenProperties DEF TypeOK
  <2>3. ASSUME NEW n \in Nodes, n # e.node \/ e.kind # ProfileApply
        PROVE  ApplyTasks(n)' = ApplyTasks(n) /\ InFlightApply(n)' = InFlightApply(n)
    BY <1>2, <2>3, AfterInsert DEF InFlightApply, ApplyTasks
  <2>4. ASSUME NEW n \in Nodes, n = e.node, e.kind = ProfileApply
        PROVE  /\ InFlightApply(n)' \subseteq {Len(tasks) + 1}
               /\ ApplyTasks(n)' = ApplyTasks(n) \union {Len(tasks) + 1}
               /\ \A j \in ApplyTasks(n) : j <= Len(tasks) + 1
    BY <1>2, <2>1, <2>2, <2>4, AfterInsert DEF InFlightApply, ApplyTasks
  <2>5. Len(tasks) + 1 <= Len(tasks) + 1
    BY <2>2
  <2> QED
    BY <2>3, <2>4, <2>5 DEF InFlightIsLatest, LatestApply
<1>3. ASSUME NEW i \in DOMAIN tasks, NEW s \in Status, Moved(i, s)
      PROVE  InFlightIsLatest'
  <2>1. tasks[i].status \in InFlightStatus
    BY <1>3 DEF Moved, OldestQueued, InFlightStatus
  <2>2. \A n \in Nodes : /\ InFlightApply(n)' \subseteq InFlightApply(n)
                        /\ ApplyTasks(n)' = ApplyTasks(n)
    BY ZenonT(30), <1>3, <2>1, AfterMove DEF InFlightApply, ApplyTasks
  <2> QED
    BY <2>2 DEF InFlightIsLatest, LatestApply
<1> QED
  BY <1>1, <1>2, <1>3 DEF TableStep, Saved

\* profileResponse derives an in-flight state from the newest apply task.
LEMMA LatestIsShown ==
  TypeOK /\ ApplyCarriesSavedProfile /\ InFlightIsLatest => InFlightApplyIsShown
<1> SUFFICES ASSUME TypeOK, ApplyCarriesSavedProfile, InFlightIsLatest,
                    NEW n \in Nodes, NEW i \in InFlightApply(n),
                    HasCapability(n, ProfileApply),
                    tasks[i].revision = Revision(n)
             PROVE  ApplyState(n) \in {"queued", "running", "awaiting_heartbeat",
                                      "applied", "failed"}
  BY DEF InFlightApplyIsShown
<1>1. /\ i \in DOMAIN tasks /\ LatestApply(n, i)
      /\ tasks[i].node = n /\ tasks[i].kind = ProfileApply
      /\ tasks[i].status \in {"queued", "running"}
  BY DEF InFlightIsLatest, InFlightApply, ApplyTasks, InFlightStatus
<1>2. Revision(n) \in DOMAIN saved[n]
  BY <1>1 DEF ApplyCarriesSavedProfile
<1>3. Revision(n) > 0
  BY <1>2, LenProperties DEF TypeOK, Revision
<1> DEFINE Seen(state) == Observed(n, state, Revision(n))
<1>4. CASE Seen("applied")
  BY <1>3, <1>4 DEF ApplyState, Observed
<1>5. CASE Seen("pending_restart")
  BY <1>3, <1>5 DEF ApplyState, Observed
<1>6. CASE Seen("failed")
  BY <1>3, <1>6 DEF ApplyState, Observed
<1>7. CASE ~Seen("applied") /\ ~Seen("pending_restart") /\ ~Seen("failed")
  BY <1>1, <1>3, <1>7 DEF ApplyState
<1> QED
  BY <1>4, <1>5, <1>6, <1>7

-----------------------------------------------------------------------------
(* The window of the coalescing endpoints.                                 *)

\* A request that found nothing to reuse still has nothing to reuse when it
\* inserts, among the rows the coalescing endpoints inserted: the mutex of its
\* kind keeps the others out, and rows only move out of the window.
WindowInv ==
  \A q \in Requests : request[q].stage = "coalesce.insert" =>
    \A i \in DOMAIN tasks :
      ~(tasks[i].coalesced
          /\ Reusable(request[q].node, request[q].kind, request[q].key, i))

\* The rows of a node that are newer than row i.
Newer(n, i) == {j \in DOMAIN tasks : tasks[j].node = n /\ j > i}

\* The rows newer than a given one can be counted.
LEMMA NewerFinite ==
  ASSUME NEW t \in Seq(Task), NEW n, NEW i
  PROVE  LET newer == {j \in DOMAIN t : t[j].node = n /\ j > i}
         IN IsFiniteSet(newer) /\ Cardinality(newer) \in Nat
<1> DEFINE newer == {j \in DOMAIN t : t[j].node = n /\ j > i}
<1>1. Len(t) \in Nat /\ DOMAIN t = 1 .. Len(t)
  BY LenProperties
<1>2. IsFiniteSet(1 .. Len(t))
  BY <1>1, FS_Interval
<1>3. newer \in SUBSET (1 .. Len(t))
  BY <1>1
<1>4. IsFiniteSet(newer)
  BY <1>2, <1>3, FS_Subset
<1> QED
  BY <1>4, FS_CardinalityType

\* Rows are only ever added, so a row only gets older.
LEMMA NewerGrows ==
  ASSUME TypeOK, TypeOK', TableStep, NEW n, NEW i
  PROVE  Newer(n, i) \subseteq Newer(n, i)'
<1>1. CASE UNCHANGED tasks
  BY <1>1 DEF Newer
<1>2. ASSUME NEW e \in Task, Inserted(e)
      PROVE  Newer(n, i) \subseteq Newer(n, i)'
  BY <1>2, AfterInsert DEF Newer
<1>3. ASSUME NEW j \in DOMAIN tasks, NEW s \in Status, Moved(j, s)
      PROVE  Newer(n, i) \subseteq Newer(n, i)'
  BY ZenonT(30), <1>3, AfterMove DEF Newer
<1> QED
  BY <1>1, <1>2, <1>3 DEF TableStep, Saved

\* A row that a coalescing endpoint could not reuse stays out of reach.
LEMMA ReusableShrinks ==
  ASSUME TypeOK, TypeOK', TableStep, NEW n, NEW kind, NEW key, NEW i \in DOMAIN tasks,
         Reusable(n, kind, key, i)'
  PROVE  Reusable(n, kind, key, i) /\ tasks'[i].coalesced = tasks[i].coalesced
<1>1. /\ IsFiniteSet(Newer(n, i)')
      /\ Cardinality(Newer(n, i)) \in Nat
      /\ Cardinality(Newer(n, i)') \in Nat
      /\ ListLimit \in Nat
  <2>1. tasks \in Seq(Task) /\ tasks' \in Seq(Task)
    BY DEF TypeOK
  <2>2. IsFiniteSet(Newer(n, i)) /\ Cardinality(Newer(n, i)) \in Nat
    BY ZenonT(30), <2>1, NewerFinite DEF Newer
  <2>3. IsFiniteSet(Newer(n, i)') /\ Cardinality(Newer(n, i)') \in Nat
    BY ZenonT(30), <2>1, NewerFinite DEF Newer
  <2> QED
    BY <2>2, <2>3, ConstantsAssumption
<1>2. Cardinality(Newer(n, i)) <= Cardinality(Newer(n, i)')
  <2>1. Newer(n, i) \in SUBSET Newer(n, i)'
    BY NewerGrows
  <2> QED
    BY <1>1, <2>1, FS_Subset
<1>3. /\ tasks'[i].node = tasks[i].node /\ tasks'[i].kind = tasks[i].kind
      /\ tasks'[i].key = tasks[i].key /\ tasks'[i].coalesced = tasks[i].coalesced
      /\ tasks'[i].status \in InFlightStatus => tasks[i].status \in InFlightStatus
  <2>1. CASE UNCHANGED tasks
    BY <2>1
  <2>2. ASSUME NEW e \in Task, Inserted(e)
        PROVE  tasks'[i] = tasks[i]
    BY <2>2, AfterInsert
  <2>3. ASSUME NEW j \in DOMAIN tasks, NEW s \in Status, Moved(j, s)
        PROVE  /\ tasks'[i].node = tasks[i].node /\ tasks'[i].kind = tasks[i].kind
               /\ tasks'[i].key = tasks[i].key
               /\ tasks'[i].coalesced = tasks[i].coalesced
               /\ tasks'[i].status \in InFlightStatus
                    => tasks[i].status \in InFlightStatus
    <3>1. tasks[j].status \in InFlightStatus
      BY <2>3 DEF Moved, OldestQueued, InFlightStatus
    <3> QED
      BY ZenonT(30), <2>3, <3>1, AfterMove
  <2> QED
    BY <2>1, <2>2, <2>3 DEF TableStep, Saved
<1>4. Cardinality(Newer(n, i)') < ListLimit /\ tasks'[i].node = n
  BY DEF Reusable, Recent, Newer
<1>5. Recent(n, i)
  BY <1>1, <1>2, <1>3, <1>4 DEF Recent, Newer
<1> QED
  BY <1>3, <1>5 DEF Reusable

\* A request reaches its insert through CoalesceList.
LEMMA InsertStage ==
  ASSUME TypeOK, [Next]_vars, NEW q \in Requests,
         request'[q].stage = "coalesce.insert"
  PROVE  \/ request'[q] = request[q]
         \/ /\ UNCHANGED tasks
            /\ request'[q] = [request[q] EXCEPT !.stage = "coalesce.insert"]
            /\ ~\E i \in DOMAIN tasks :
                  Reusable(request[q].node, request[q].kind, request[q].key, i)
<1>1. CASE UNCHANGED request
  BY <1>1
<1>2. ASSUME NEW p \in Requests, Return(p) PROVE request'[q] = request[q]
  BY <1>2 DEF Return, NoRequest, TypeOK
<1>3. ASSUME NEW p \in Requests, NEW stage, NEW n, NEW kind, NEW key, NEW r,
             Start(p, stage, n, kind, key, r), stage # "coalesce.insert"
      PROVE  request'[q] = request[q]
  BY <1>3 DEF Start, TypeOK
<1>4. ASSUME NEW p \in Requests, Goto(p, "apply.create")
      PROVE  request'[q] = request[q]
  <2>1. CASE p # q
    BY <1>4, <2>1 DEF Goto, TypeOK
  <2>2. CASE p = q
    <3>1. request'[q].stage = "apply.create"
      BY <1>4, <2>2 DEF Goto, TypeOK
    <3> QED
      BY <3>1
  <2> QED
    BY <2>1, <2>2
<1>5. ASSUME NEW p \in Requests, CoalesceList(p)
      PROVE  \/ request'[q] = request[q]
             \/ /\ UNCHANGED tasks
                /\ request'[q] = [request[q] EXCEPT !.stage = "coalesce.insert"]
                /\ ~\E i \in DOMAIN tasks :
                      Reusable(request[q].node, request[q].kind, request[q].key, i)
  BY ZenonT(30), <1>5, <1>2 DEF CoalesceList, Goto, TypeOK
<1>6. CASE PanelRestart
  BY <1>6 DEF PanelRestart, NoRequest
<1>7. ASSUME NEW p \in Requests, ApplyReadLatest(p) PROVE request'[q] = request[q]
  BY <1>7, <1>2, <1>4 DEF ApplyReadLatest
<1>8. ASSUME NEW p \in Requests,
             CreateProfileApplyTask(p) \/ CreateTask(p) \/ CoalesceInsert(p)
      PROVE  request'[q] = request[q]
  BY ZenonT(30), <1>8, <1>2 DEF CreateProfileApplyTask, CreateTask, CoalesceInsert
<1>9. ASSUME NEW p \in Requests, NEW n \in Nodes, NEW r \in 1 .. MaxRevision,
             ApplyNodeProfile(p, n, r)
      PROVE  request'[q] = request[q]
  BY <1>9, <1>3 DEF ApplyNodeProfile
<1>10. ASSUME NEW p \in Requests, NEW n \in Nodes, NEW k \in PlainKinds,
              EnqueueTask(p, n, k)
       PROVE  request'[q] = request[q]
  BY <1>10, <1>3 DEF EnqueueTask
<1>11. ASSUME NEW p \in Requests, NEW n \in Nodes, NEW w \in CoalescedWork,
              NEW r \in 0 .. MaxRevision,
              EnqueueCoalesced(p, n, w[1], w[2], IF w[1] = Ensure THEN r ELSE 0)
       PROVE  request'[q] = request[q]
  BY <1>11, <1>3 DEF EnqueueCoalesced
<1>12. ASSUME NEW n \in Nodes,
              \/ RegisterNode(n)
              \/ HeartbeatExpires(n)
              \/ \E c \in CapabilitySets, o \in ReportedObservations : Heartbeat(n, c, o)
              \/ \E p \in Profiles, e \in 0 .. MaxRevision : UpdateNodeProfile(n, p, e)
              \/ \E i \in DOMAIN tasks : ClaimNextTask(n, i)
              \/ \E i \in DOMAIN tasks, s \in {"completed", "failed"} :
                   CompleteTask(n, i, s)
       PROVE  UNCHANGED request
  BY <1>12 DEF RegisterNode, HeartbeatExpires, Heartbeat, UpdateNodeProfile,
               ClaimNextTask, CompleteTask
<1> QED
  BY <1>1, <1>5, <1>6, <1>7, <1>8, <1>9, <1>10, <1>11, <1>12 DEF Next, vars

\* The mutex of its kind keeps what CoalesceList saw true until the insert.
LEMMA WindowStep ==
  ASSUME TypeOK, TypeOK', MutualExclusion, StageKinds, WindowInv, [Next]_vars
  PROVE  WindowInv'
<1>1. TableStep
  BY NextTableStep
<1> SUFFICES ASSUME NEW q \in Requests, NEW i \in DOMAIN tasks',
                    NEW n, NEW kind, NEW key,
                    request'[q].stage = "coalesce.insert",
                    n = request'[q].node, kind = request'[q].kind,
                    key = request'[q].key,
                    tasks'[i].coalesced, Reusable(n, kind, key, i)'
             PROVE  FALSE
  BY DEF WindowInv, Reusable, Recent
<1>2. CASE request'[q] = request[q]
  <2>1. CASE i \in DOMAIN tasks
    <3>1. Reusable(n, kind, key, i) /\ tasks[i].coalesced
      BY <1>1, <2>1, ReusableShrinks
    <3> QED
      BY <1>2, <2>1, <3>1 DEF WindowInv
  <2>2. CASE i \notin DOMAIN tasks
    <3>1. PICK e \in Task : Inserted(e)
      BY <1>1, <2>2, AfterMove DEF TableStep, Saved
    <3>2. tasks'[i] = e
      BY <2>2, <3>1, AfterInsert
    <3>3. PICK p \in Requests : InsertsCoalesced(p, e)
      BY <3>1, <3>2 DEF Inserted
    <3>4. p # q /\ request[p].kind = request[q].kind
      BY <1>2, <3>2, <3>3 DEF InsertsCoalesced, Reusable
    <3>5. /\ request[p].kind \in CoalescedKinds
          /\ Inside(p, request[p].kind) /\ Inside(q, request[p].kind)
      BY <1>2, <3>3, <3>4, ConstantsAssumption
         DEF InsertsCoalesced, StageKinds, CoalesceStages, Inside
    <3>6. mutex[request[p].kind] = p /\ mutex[request[p].kind] = q
      BY <3>5 DEF MutualExclusion, Mutexes
    <3> QED
      BY <3>4, <3>6
  <2> QED
    BY <2>1, <2>2
<1>3. CASE /\ UNCHANGED tasks
           /\ request'[q] = [request[q] EXCEPT !.stage = "coalesce.insert"]
           /\ ~\E j \in DOMAIN tasks :
                 Reusable(request[q].node, request[q].kind, request[q].key, j)
  <2>1. n = request[q].node /\ kind = request[q].kind /\ key = request[q].key
    BY <1>3
  <2>2. Reusable(n, kind, key, i) /\ i \in DOMAIN tasks
    BY <1>3 DEF Reusable, Recent
  <2> QED
    BY <1>3, <2>1, <2>2
<1> QED
  BY <1>2, <1>3, InsertStage

\* A coalesced row is inserted only beyond the window of its elders.
LEMMA CoalescedStep ==
  ASSUME TypeOK, TypeOK', WindowInv, CoalescedWithinWindow, TableStep
  PROVE  CoalescedWithinWindow'
<1>1. CASE UNCHANGED tasks
  BY <1>1 DEF CoalescedWithinWindow
<1>2. ASSUME NEW e \in Task, Inserted(e) PROVE CoalescedWithinWindow'
  <2> SUFFICES ASSUME NEW i \in DOMAIN tasks', NEW j \in DOMAIN tasks', i < j,
                      tasks'[i].coalesced, tasks'[j].coalesced,
                      tasks'[i].status \in InFlightStatus,
                      tasks'[i].node = tasks'[j].node,
                      tasks'[i].kind = tasks'[j].kind,
                      tasks'[i].key = tasks'[j].key
               PROVE  Cardinality({k \in i + 1 .. j - 1 :
                                     tasks'[k].node = tasks'[i].node}) >= ListLimit
    BY DEF CoalescedWithinWindow
  <2>0. Len(tasks) \in Nat /\ DOMAIN tasks = 1 .. Len(tasks)
    BY LenProperties DEF TypeOK
  <2>1. i \in DOMAIN tasks
    BY <1>2, <2>0, AfterInsert
  <2>2. tasks'[i] = tasks[i] /\ i \in 1 .. Len(tasks)
    BY <1>2, <2>0, <2>1, AfterInsert
  <2>3. CASE j \in DOMAIN tasks
    <3>1. tasks'[j] = tasks[j] /\ \A k \in i + 1 .. j - 1 : tasks'[k] = tasks[k]
      BY <1>2, <2>0, <2>2, <2>3, AfterInsert
    <3>2. {k \in i + 1 .. j - 1 : tasks'[k].node = tasks'[i].node}
            = {k \in i + 1 .. j - 1 : tasks[k].node = tasks[i].node}
      BY <2>2, <3>1
    <3> QED
      BY <2>1, <2>2, <2>3, <3>1, <3>2 DEF CoalescedWithinWindow
  <2>4. CASE j = Len(tasks) + 1
    <3>1. tasks'[j] = e
      BY <1>2, <2>4, AfterInsert
    <3>2. PICK q \in Requests : InsertsCoalesced(q, e)
      BY <1>2, <3>1 DEF Inserted
    <3>3. ~Recent(request[q].node, i)
      BY <2>1, <2>2, <3>1, <3>2 DEF WindowInv, Reusable, InsertsCoalesced
    <3>4. tasks[i].node = request[q].node
      BY <2>2, <3>1, <3>2 DEF InsertsCoalesced
    <3>5. {k \in i + 1 .. j - 1 : tasks'[k].node = tasks'[i].node}
            = Newer(request[q].node, i)
      <4>1. \A k \in DOMAIN tasks : tasks'[k] = tasks[k]
        BY <1>2, AfterInsert
      <4> QED
        BY <4>1, <2>0, <2>2, <2>4, <3>4 DEF Newer
    <3>6. Cardinality(Newer(request[q].node, i)) \in Nat
      <4>1. tasks \in Seq(Task)
        BY DEF TypeOK
      <4> QED
        BY ZenonT(30), <4>1, NewerFinite DEF Newer
    <3>7. Newer(request[q].node, i)
            = {k \in DOMAIN tasks : tasks[k].node = request[q].node /\ k > i}
      BY DEF Newer
    <3>8. ~(Cardinality(Newer(request[q].node, i)) < ListLimit)
      BY <3>3, <3>4, <3>7 DEF Recent
    <3>9. Cardinality(Newer(request[q].node, i)) >= ListLimit
      BY <3>6, <3>8, ConstantsAssumption
    <3> QED
      BY ZenonT(30), <3>5, <3>9, Zenon
  <2> QED
    BY <1>2, <2>3, <2>4, AfterInsert
<1>3. ASSUME NEW m \in DOMAIN tasks, NEW s \in Status, Moved(m, s)
      PROVE  CoalescedWithinWindow'
  <2>1. tasks[m].status \in InFlightStatus
    BY <1>3 DEF Moved, OldestQueued, InFlightStatus
  <2>2. /\ DOMAIN tasks' = DOMAIN tasks
        /\ \A k \in DOMAIN tasks :
             /\ tasks'[k].node = tasks[k].node /\ tasks'[k].kind = tasks[k].kind
             /\ tasks'[k].key = tasks[k].key
             /\ tasks'[k].coalesced = tasks[k].coalesced
             /\ tasks'[k].status \in InFlightStatus => tasks[k].status \in InFlightStatus
    BY ZenonT(30), <1>3, <2>1, AfterMove
  <2> SUFFICES ASSUME NEW i \in DOMAIN tasks, NEW j \in DOMAIN tasks, i < j,
                      tasks[i].coalesced, tasks[j].coalesced,
                      tasks[i].status \in InFlightStatus,
                      tasks[i].node = tasks[j].node,
                      tasks[i].kind = tasks[j].kind,
                      tasks[i].key = tasks[j].key
               PROVE  Cardinality({k \in i + 1 .. j - 1 :
                                     tasks'[k].node = tasks'[i].node}) >= ListLimit
    BY <2>2 DEF CoalescedWithinWindow
  <2>3. \A k \in i + 1 .. j - 1 : k \in DOMAIN tasks
    BY LenProperties DEF TypeOK
  <2>4. {k \in i + 1 .. j - 1 : tasks'[k].node = tasks'[i].node}
          = {k \in i + 1 .. j - 1 : tasks[k].node = tasks[i].node}
    BY SMTT(30), <2>2, <2>3
  <2> QED
    BY <2>4 DEF CoalescedWithinWindow
<1> QED
  BY <1>1, <1>2, <1>3 DEF TableStep, Saved

-----------------------------------------------------------------------------
(* The theorems.                                                           *)

\* The inductive invariant of the hub.
HubInv ==
  /\ TypeOK
  /\ MutualExclusion
  /\ StageKinds
  /\ WindowInv
  /\ ProfileSingleFlight
  /\ ApplyCarriesSavedProfile
  /\ ApplyInRevisionOrder
  /\ ClaimedInOrder
  /\ InFlightIsLatest
  /\ CoalescedWithinWindow

\* The empty database satisfies the inductive invariant.
LEMMA InitHub == Init => HubInv
<1> SUFFICES ASSUME Init PROVE HubInv
  OBVIOUS
<1>1. DOMAIN tasks = {} /\ \A q \in Requests : request[q].stage = "idle"
  BY DEF Init, NoRequest
<1> QED
  BY <1>1, InitTypeOK, InitMutex
     DEF HubInv, WindowInv, ProfileSingleFlight, ApplyCarriesSavedProfile,
         ApplyInRevisionOrder, ClaimedInOrder, InFlightIsLatest, InFlightApply, ApplyTasks,
         CoalescedWithinWindow

\* Every handler preserves the inductive invariant.
LEMMA NextHub == HubInv /\ [Next]_vars => HubInv'
<1> SUFFICES ASSUME HubInv, [Next]_vars PROVE HubInv'
  OBVIOUS
<1>1. TypeOK' /\ MutualExclusion' /\ StageKinds' /\ TableStep
  BY NextTypeOK, NextMutex, NextTableStep DEF HubInv
<1>2. WindowInv' /\ CoalescedWithinWindow'
  BY <1>1, WindowStep, CoalescedStep DEF HubInv
<1>3. ProfileSingleFlight' /\ ApplyCarriesSavedProfile' /\ ClaimedInOrder'
      /\ InFlightIsLatest' /\ ApplyInRevisionOrder'
  BY <1>1, SingleFlightStep, CarriesStep, RevisionOrderStep, ClaimOrderStep, LatestStep
     DEF HubInv
<1> QED
  BY <1>1, <1>2, <1>3 DEF HubInv

\* The inductive invariant holds in every reachable state of the hub.
THEOREM HubInvariant == Spec => []HubInv
BY InitHub, NextHub, PTL DEF Spec

\* However many requests, agents and restarts there are, a node never has two
\* profile applies in flight (CreateProfileApplyTask).
THEOREM ApplySingleFlight == Spec => []ProfileSingleFlight
<1>1. HubInv => ProfileSingleFlight
  BY DEF HubInv
<1> QED
  BY <1>1, HubInvariant, PTL

\* The apply tasks of a node are created, and by ClaimOrder handed out, in the
\* order of their revisions (CreateProfileApplyTask).
THEOREM RevisionOrder == Spec => []ApplyInRevisionOrder
<1>1. HubInv => ApplyInRevisionOrder
  BY DEF HubInv
<1> QED
  BY <1>1, HubInvariant, PTL

\* Every apply task ever created carries the profile saved under its revision
\* (ApplyNodeProfile, CreateProfileApplyTask, SaveNodeProfile).
THEOREM ApplyCarriesProfile == Spec => []ApplyCarriesSavedProfile
<1>1. HubInv => ApplyCarriesSavedProfile
  BY DEF HubInv
<1> QED
  BY <1>1, HubInvariant, PTL

\* ClaimNextTask hands out the tasks of each node in creation order.
THEOREM ClaimOrder == Spec => []ClaimedInOrder
<1>1. HubInv => ClaimedInOrder
  BY DEF HubInv
<1> QED
  BY <1>1, HubInvariant, PTL

\* The coalescing endpoints never duplicate work within their window of
\* recent tasks, for every length of the window.
THEOREM CoalescingWindow == Spec => []CoalescedWithinWindow
<1>1. HubInv => CoalescedWithinWindow
  BY DEF HubInv
<1> QED
  BY <1>1, HubInvariant, PTL

\* profileResponse always shows an apply of the desired revision in flight.
THEOREM ApplyShown == Spec => []InFlightApplyIsShown
<1>1. HubInv => InFlightApplyIsShown
  BY LatestIsShown DEF HubInv
<1> QED
  BY <1>1, HubInvariant, PTL

\* A row of the task table stays, with its revision, and never goes back to the
\* queue.
LEMMA RowsStay ==
  ASSUME HubInv, [Next]_vars
  PROVE  \A i \in DOMAIN tasks :
           /\ i \in DOMAIN tasks' /\ tasks'[i].revision = tasks[i].revision
           /\ tasks[i].status # "queued" => tasks'[i].status # "queued"
<1>1. TypeOK /\ TableStep
  BY NextTableStep DEF HubInv
<1>2. ASSUME NEW e \in Task, Inserted(e)
      PROVE  \A i \in DOMAIN tasks : i \in DOMAIN tasks' /\ tasks'[i] = tasks[i]
  BY <1>1, <1>2, AfterInsert
<1>3. ASSUME NEW j \in DOMAIN tasks, NEW s \in Status, Moved(j, s)
      PROVE  \A i \in DOMAIN tasks :
               /\ i \in DOMAIN tasks' /\ tasks'[i].revision = tasks[i].revision
               /\ tasks[i].status # "queued" => tasks'[i].status # "queued"
  <2>1. s # "queued"
    BY <1>3 DEF Moved
  <2> QED
    BY ZenonT(30), <1>1, <1>3, <2>1, AfterMove
<1> QED
  BY <1>1, <1>2, <1>3 DEF TableStep, Saved

\* SaveNodeProfile stops at the bound of the model.
RevisionsBounded == \A n \in Nodes : Revision(n) <= MaxRevision

\* Only SaveNodeProfile adds a revision.
LEMMA BoundedStep ==
  ASSUME TypeOK, RevisionsBounded, [Next]_vars
  PROVE  RevisionsBounded'
<1>1. \/ UNCHANGED saved
      \/ \E n \in Nodes, p \in Profiles, e \in 0 .. MaxRevision : UpdateNodeProfile(n, p, e)
  BY ZenonT(30) DEF Next, vars, RegisterNode, HeartbeatExpires, Heartbeat, ClaimNextTask,
     CompleteTask, ApplyNodeProfile, ApplyReadLatest, CreateProfileApplyTask, EnqueueTask,
     CreateTask, EnqueueCoalesced, CoalesceList, CoalesceInsert, PanelRestart
<1>2. ASSUME NEW n \in Nodes, NEW p \in Profiles, NEW e \in 0 .. MaxRevision,
             UpdateNodeProfile(n, p, e)
      PROVE  RevisionsBounded'
  <2>1. saved \in [Nodes -> Seq(Profiles)] /\ Len(saved[n]) < MaxRevision
    BY <1>2 DEF TypeOK, UpdateNodeProfile, Revision
  <2>2. /\ saved'[n] = Append(saved[n], p)
        /\ \A m \in Nodes : m # n => saved'[m] = saved[m]
    BY <1>2, <2>1 DEF UpdateNodeProfile
  <2>3. Len(saved[n]) \in Nat /\ Len(saved'[n]) = Len(saved[n]) + 1
    BY <2>1, <2>2, LenProperties, AppendProperties
  <2>4. Len(saved'[n]) <= MaxRevision
    BY <2>1, <2>3, ConstantsAssumption
  <2> QED
    BY <2>2, <2>4 DEF RevisionsBounded, Revision
<1> QED
  BY <1>1, <1>2 DEF RevisionsBounded, Revision

\* Rows are never removed, changed but in their status, queued again, or
\* given a second result (ClaimNextTask, CompleteTask).
THEOREM RowLifecycle == Spec => TaskLifecycle
<1> DEFINE Step ==
      \A i \in DOMAIN tasks :
       /\ i \in DOMAIN tasks'
       /\ tasks'[i] = [tasks[i] EXCEPT !.status = tasks'[i].status]
       /\ <<tasks[i].status, tasks'[i].status>> \in
            {<<s, s>> : s \in Status}
              \union {<<"queued", "running">>}
              \union {<<"running", s>> : s \in {"completed", "failed"}}
<1>1. HubInv /\ [Next]_vars => [Step]_tasks
  <2> SUFFICES ASSUME HubInv, [Next]_vars PROVE [Step]_tasks
    OBVIOUS
  <2>1. TypeOK /\ TableStep
    BY NextTableStep DEF HubInv
  <2>2. \A i \in DOMAIN tasks : tasks[i] \in Task
    BY <2>1, Rows
  <2>3. ASSUME NEW e \in Task, Inserted(e) PROVE Step
    <3>1. \A i \in DOMAIN tasks : i \in DOMAIN tasks' /\ tasks'[i] = tasks[i]
      BY <2>1, <2>3, AfterInsert
    <3> QED
      BY <2>2, <3>1 DEF Task
  <2>4. ASSUME NEW j \in DOMAIN tasks, NEW s \in Status, Moved(j, s) PROVE Step
    <3>1. \/ tasks[j].status = "queued" /\ s = "running"
          \/ tasks[j].status = "running" /\ s \in {"completed", "failed"}
      BY <2>4 DEF Moved, OldestQueued
    <3>2. \A i \in DOMAIN tasks : tasks[i].status \in Status
      BY <2>2 DEF Task
    <3> QED
      BY <2>1, <2>4, <3>1, <3>2, AfterMove
  <2> QED
    BY <2>1, <2>3, <2>4 DEF TableStep, Saved
<1>2. Spec => [][Step]_tasks
  BY <1>1, HubInvariant, PTL DEF Spec
<1> QED
  BY <1>2 DEF TaskLifecycle
=============================================================================
