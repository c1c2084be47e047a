-------------------------- MODULE DeployRunsProofs --------------------------
(***************************************************************************)
(* Proofs about DeployRuns, for any number of targets, directories, runs,  *)
(* commits, requests and deliveries.                                       *)
(*                                                                         *)
(* The inductive invariant Inv adds to the properties what the code relies *)
(* on: identifiers are never used twice (Counted), a goroutine at work     *)
(* holds the mutex (Locked), a registered delivery has one holder, request *)
(* or run (Once), and nothing that was delivered is newer than the branch  *)
(* (Fresh).                                                                *)
(***************************************************************************)
EXTENDS DeployRuns, TLAPS

\* Identifiers beyond the counters are unused; a deleted target does not return.
Counted ==
    /\ \A t \in TargetIds : Exists(t) => t <= created
    /\ \A r \in RunIds : r > queued =>
           /\ runs[r].status = "none" /\ runs[r].target = 0
           /\ runs[r].delivery = NoDelivery /\ jobs[r].pc = "none"
    /\ \A r \in RunIds : r <= queued => runs[r].target \in 1..created /\ runs[r].status # "none"
    /\ \A q \in Requests : requests[q].pc # "idle" => requests[q].target \in 1..created

\* A goroutine past s.mu.Lock holds the mutex.
Locked ==
    \A r \in RunIds : jobs[r].pc \in {"prepare", "pull", "checkout", "execute"} => mu = r

\* The request has registered its delivery and has not queued its run.
Holds(q) ==
    requests[q].pc \in {"load", "preflight", "queue"} /\ requests[q].delivery # NoDelivery

\* A delivery that a run or a request holds is registered while its target
\* exists, and is held once.
Once ==
    /\ \A r \in RunIds : runs[r].delivery # NoDelivery /\ Exists(runs[r].target)
           => <<runs[r].target, runs[r].delivery>> \in consumed
    /\ \A q \in Requests : Holds(q) /\ Exists(requests[q].target)
           => <<requests[q].target, requests[q].delivery>> \in consumed
    /\ \A q \in Requests, r \in RunIds :
           Holds(q) /\ requests[q].target = runs[r].target
           => requests[q].delivery # runs[r].delivery
    /\ \A p, q \in Requests :
           Holds(p) /\ Holds(q) /\ requests[p].target = requests[q].target
             /\ requests[p].delivery = requests[q].delivery
           => p = q
    /\ DeliveryQueuesOnce

\* A delivery is a webhook's, was sent, and announces a commit of the branch; a
\* run it triggered pulls the branch.
Fresh ==
    /\ \A d \in Deliveries : pushed[d].commit <= upstream
    /\ \A q \in Requests : requests[q].pc = "register" => requests[q].delivery # NoDelivery
    /\ \A q \in Requests : requests[q].delivery # NoDelivery =>
           /\ requests[q].trigger = "webhook" /\ requests[q].pc # "choose"
           /\ pushed[requests[q].delivery].sent
    /\ \A r \in RunIds : runs[r].delivery # NoDelivery =>
           /\ pushed[runs[r].delivery].sent
           /\ jobs[r].pc \notin {"rollback", "checkout"}
           /\ jobs[r].pc = "execute" /\ jobs[r].commit # 0
                => jobs[r].commit >= pushed[runs[r].delivery].commit
    /\ PushIsDeployed

\* A run was queued before the restarts that followed.
Alive ==
    /\ \A r \in RunIds : runs[r].epoch <= crashes
    /\ UnfinishedHasGoroutine

Inv == /\ TypeOK /\ Counted /\ Locked /\ ExecutesWhatItRecords /\ Once /\ StagingIsIsolated
       /\ Fresh /\ Alive

-----------------------------------------------------------------------------
LEMMA Ids == TargetIds \subseteq Nat \ {0} /\ RunIds \subseteq Nat \ {0} /\ Commits \subseteq Nat
  BY DeployAssumption DEF TargetIds, RunIds, Commits

\* The records of what is not there.
LEMMA Defaults ==
  /\ NoTarget \in Row /\ NoTarget.env = "none"
  /\ Idle \in Request /\ Idle.pc = "idle" /\ Idle.delivery = NoDelivery
  /\ NoJob \in Job /\ NoJob.pc = "none"
  <1>1. (CHOOSE d \in Dirs : TRUE) \in Dirs
    BY DeployAssumption
  <1> QED
    BY <1>1, DeployAssumption DEF NoTarget, Row, Idle, Request, NoJob, Job, Commits

LEMMA InvInit == Init => Inv
  <1> SUFFICES ASSUME Init PROVE Inv
    OBVIOUS
  <1>1. \A t \in TargetIds : ~Exists(t)
    BY Defaults DEF Init, Exists
  <1>2. \A r \in RunIds :
          /\ runs[r].status = "none" /\ runs[r].delivery = NoDelivery /\ runs[r].epoch = 0
          /\ runs[r].target = 0
          /\ jobs[r].pc = "none"
    BY Defaults DEF Init
  <1>3. \A q \in Requests : requests[q].pc = "idle" /\ requests[q].delivery = NoDelivery
    BY Defaults DEF Init
  <1>4. Types
    <2>1. runs \in [RunIds -> Run]
      BY DeployAssumption DEF Init, Run, Commits
    <2>2. trees \in [Dirs -> Commits] /\ upstream \in 1..MaxCommit
      BY DeployAssumption DEF Init, Commits
    <2>3. pushed \in [Deliveries -> [sent : BOOLEAN, commit : Commits]]
      BY DeployAssumption DEF Init, Commits
    <2> QED BY <2>1, <2>2, <2>3, Defaults, DeployAssumption DEF Init, Types
  <1>5. TypeOK
    BY <1>1, <1>2, <1>4 DEF TypeOK, ForeignKeys, Init, Exists
  <1>6. Counted
    BY <1>1, <1>2, <1>3, Ids DEF Counted, Init
  <1>7. Locked /\ ExecutesWhatItRecords
    BY <1>2 DEF Locked, ExecutesWhatItRecords
  <1>8. Once
    BY <1>2, <1>3 DEF Once, Holds, DeliveryQueuesOnce
  <1>9. StagingIsIsolated
    BY <1>1 DEF StagingIsIsolated, Exists
  <1>10. Fresh
    BY <1>2, <1>3, DeployAssumption DEF Fresh, PushIsDeployed, Init
  <1>11. Alive
    BY <1>2, DeployAssumption DEF Alive, UnfinishedHasGoroutine, Init
  <1> QED BY <1>5, <1>6, <1>7, <1>8, <1>9, <1>10, <1>11 DEF Inv

-----------------------------------------------------------------------------
(* The targets.                                                             *)

\* What the creation, the derivation and the update of a target have in common.
Edited(t, row) ==
  /\ targets' = [targets EXCEPT ![t] = row] /\ row.env # "none"
  /\ created' \in 0..MaxTargets /\ created <= created' /\ t <= created'
  /\ Exists(t) \/ t > created
  /\ targets[t].env = "production" => row.env = "production"
  /\ row.env = "staging" =>
       /\ IsolatedDirIsFree(t, row.dir)
       /\ row.source \in TargetIds \ {t} /\ targets[row.source].env = "production"
  /\ row.env = "production" => ProductionDirIsFree(t, row.dir)
  /\ UNCHANGED <<runs, queued, consumed, requests, jobs, mu, trees, upstream, pushed, crashes>>
  /\ events' \in 0..MaxEvents

LEMMA EventCounts ==
  ASSUME TypeOK, Event
  PROVE  events' \in 0..MaxEvents
  BY DeployAssumption DEF TypeOK, Types, Event

LEMMA EditsEdit ==
  ASSUME Inv,
         \/ \E dir \in Dirs, mode \in {"manual", "auto"} : CreateTarget(dir, mode)
         \/ \E t \in TargetIds, dir \in Dirs : CreateStagingTarget(t, dir)
         \/ \E t \in TargetIds, dir \in Dirs, mode \in {"disabled", "manual", "auto"} :
               UpdateTarget(t, dir, mode)
  PROVE  \E t \in TargetIds, row \in Row : Edited(t, row)
  <1>a. TypeOK /\ Types /\ Counted /\ ForeignKeys
    BY DEF Inv, TypeOK
  <1>b. created \in 0..MaxTargets /\ targets \in [TargetIds -> Row]
    BY <1>a DEF Types
  <1>1. ASSUME NEW dir \in Dirs, NEW mode \in {"manual", "auto"}, CreateTarget(dir, mode)
        PROVE  \E t \in TargetIds, row \in Row : Edited(t, row)
    <2> DEFINE row == [env |-> "production", dir |-> dir, source |-> 0, mode |-> mode]
    <2>1. row \in Row
      BY DeployAssumption DEF Row
    <2>2. created + 1 \in TargetIds
      BY <1>1, <1>b, DeployAssumption DEF CreateTarget, TargetIds
    <2>3. ProductionDirIsFree(created + 1, row.dir)
      BY <1>1, <2>2, Ids DEF CreateTarget, ProductionDirIsFree
    <2>4. targets[created + 1].env = "none"
      BY <1>a, <1>b, <2>2 DEF Counted, Exists
    <2>5. Edited(created + 1, row)
      BY <1>1, <1>a, <1>b, <2>2, <2>3, <2>4, EventCounts, DeployAssumption
      DEF CreateTarget, TablesOnly, Edited, TargetIds
    <2> QED BY <2>1, <2>2, <2>5
  <1>2. ASSUME NEW s \in TargetIds, NEW dir \in Dirs, CreateStagingTarget(s, dir)
        PROVE  \E t \in TargetIds, row \in Row : Edited(t, row)
    <2> DEFINE row == [env |-> "staging", dir |-> dir, source |-> s, mode |-> "manual"]
    <2>1. row \in Row
      BY DeployAssumption DEF Row, TargetIds
    <2>2. created + 1 \in TargetIds
      BY <1>2, <1>b, DeployAssumption DEF CreateStagingTarget, TargetIds
    <2>3. IsolatedDirIsFree(created + 1, row.dir)
      BY <1>2, <2>2, Ids DEF CreateStagingTarget, IsolatedDirIsFree
    <2>4. targets[created + 1].env = "none"
      BY <1>a, <1>b, <2>2 DEF Counted, Exists
    <2>5. s # created + 1
      BY <1>2, <2>4 DEF CreateStagingTarget
    <2>6. Edited(created + 1, row)
      BY <1>2, <1>a, <1>b, <2>2, <2>3, <2>4, <2>5, EventCounts, DeployAssumption
      DEF CreateStagingTarget, TablesOnly, Edited, TargetIds
    <2> QED BY <2>1, <2>2, <2>6
  <1>3. ASSUME NEW t \in TargetIds, NEW dir \in Dirs, NEW mode \in {"disabled", "manual", "auto"},
               UpdateTarget(t, dir, mode)
        PROVE  \E u \in TargetIds, row \in Row : Edited(u, row)
    <2> DEFINE row == [targets[t] EXCEPT !.dir = dir, !.mode = mode]
    <2>1. row \in Row /\ row.env = targets[t].env /\ row.source = targets[t].source
            /\ row.dir = dir
      BY ZenonT(30), <1>b DEF Row
    <2>2. targets' = [targets EXCEPT ![t] = row]
      BY ZenonT(30), <1>3, <1>b DEF UpdateTarget, Row
    <2>3. t <= created
      BY <1>3, <1>a DEF UpdateTarget, Counted
    <2>4. row.env = "staging" =>
            row.source \in TargetIds \ {t} /\ targets[row.source].env = "production"
      BY <2>1, <1>a DEF ForeignKeys
    <2>5. row.env # "none" /\ (row.env = "staging" => IsolatedDirIsFree(t, row.dir))
            /\ (row.env = "production" => ProductionDirIsFree(t, row.dir))
      BY <1>3, <2>1 DEF UpdateTarget, Exists
    <2> HIDE DEF row
    <2>6. Exists(t) /\ UNCHANGED created /\ TablesOnly /\ events' \in 0..MaxEvents
      BY <1>3, <1>a, EventCounts DEF UpdateTarget
    <2>7. Edited(t, row)
      BY <1>b, <2>1, <2>2, <2>3, <2>4, <2>5, <2>6, DeployAssumption DEF TablesOnly, Edited
    <2> QED BY <2>1, <2>7
  <1> QED BY <1>1, <1>2, <1>3

\* An edit of a target keeps the invariant: no request and no run knows an
\* identifier that is new, and the directory was compared with the other rows.
LEMMA EditKeeps ==
  ASSUME Inv, NEW t \in TargetIds, NEW row \in Row, Edited(t, row)
  PROVE  Inv'
  <1>a. TypeOK /\ Types /\ Counted /\ ForeignKeys /\ Once /\ StagingIsIsolated
    BY DEF Inv, TypeOK
  <1>b. targets \in [TargetIds -> Row] /\ created \in 0..MaxTargets /\ created' \in Nat
    BY <1>a, DeployAssumption DEF Types, Edited
  <1>c. UNCHANGED <<runs, queued, consumed, requests, jobs, mu, trees, upstream, pushed, crashes>>
    BY DEF Edited
  <1>d. targets'[t] = row /\ \A u \in TargetIds \ {t} : targets'[u] = targets[u]
    BY <1>b DEF Edited
  <1>e. Exists(t)' /\ \A u \in TargetIds \ {t} : Exists(u)' <=> Exists(u)
    BY <1>d DEF Edited, Exists
  <1>f. \A u \in 1..created : u \in TargetIds /\ (Exists(u)' <=> Exists(u))
    <2> SUFFICES ASSUME NEW u \in 1..created PROVE u \in TargetIds /\ (Exists(u)' <=> Exists(u))
      OBVIOUS
    <2>1. u \in TargetIds
      BY <1>b, DeployAssumption DEF TargetIds
    <2>2. u = t => Exists(t)
      BY <1>b, Ids DEF Edited
    <2> QED BY <2>1, <2>2, <1>e
  <1>1. Types'
    BY <1>a, <1>b, <1>c DEF Types, Edited
  <1>2. ForeignKeys'
    <2>1. \A u \in TargetIds : targets[u].env = "production" => targets'[u].env = "production"
      BY <1>d DEF Edited
    <2>2. \A u \in TargetIds : targets'[u].env = "staging" =>
            targets'[u].source \in TargetIds /\ targets[targets'[u].source].env = "production"
      BY <1>a, <1>d DEF ForeignKeys, Edited
    <2>3. \A u \in TargetIds : targets'[u].env = "staging" =>
            targets'[u].source \in TargetIds /\ targets'[targets'[u].source].env = "production"
      BY <2>1, <2>2
    <2>4. \A u \in TargetIds : Exists(u) => Exists(u)'
      BY <1>e
    <2>5. \A c \in consumed : c[1] \in TargetIds
      BY <1>a DEF Types
    <2> QED BY <1>a, <1>c, <2>3, <2>4, <2>5 DEF ForeignKeys
  <1>3. Counted'
    <2>1. \A u \in TargetIds : Exists(u)' => u <= created'
      BY <1>a, <1>b, <1>e, Ids DEF Counted, Edited
    <2>2. 1..created \subseteq 1..created'
      BY <1>b DEF Edited
    <2> QED BY <1>a, <1>c, <2>1, <2>2 DEF Counted
  <1>4. Locked' /\ ExecutesWhatItRecords' /\ Alive' /\ Fresh'
    BY <1>c DEF Inv, Locked, ExecutesWhatItRecords, Alive, UnfinishedHasGoroutine, Fresh, PushIsDeployed
  <1>5. Once'
    <2>1. \A r \in RunIds : runs[r].delivery # NoDelivery => runs[r].target \in 1..created
      BY <1>a, <1>b, Ids, DeployAssumption DEF Counted, Types
    <2>2. \A q \in Requests : Holds(q) => requests[q].target \in 1..created
      BY <1>a DEF Counted, Holds
    <2>3. \A q \in Requests : Holds(q)' <=> Holds(q)
      BY <1>c DEF Holds
    <2> QED BY <1>a, <1>c, <1>f, <2>1, <2>2, <2>3 DEF Once, DeliveryQueuesOnce
  <1>6. StagingIsIsolated'
    <2> SUFFICES ASSUME NEW u \in TargetIds, NEW v \in TargetIds, u # v,
                        targets'[u].env = "staging", Exists(v)'
                 PROVE  ~Overlap(targets'[u].dir, targets'[v].dir)
      BY DEF StagingIsIsolated, Overlap
    <2>1. CASE u = t
      BY <2>1, <1>d, <1>e DEF Edited, IsolatedDirIsFree
    <2>2. CASE v = t
      <3>1. targets[u].env = "staging" /\ Exists(u) /\ targets'[u] = targets[u]
        BY <2>2, <1>d DEF Exists
      <3>2. ~Overlap(row.dir, targets[u].dir)
        BY <2>2, <3>1 DEF Edited, IsolatedDirIsFree, ProductionDirIsFree, Row
      <3> QED BY <2>2, <3>1, <3>2, <1>d DEF Overlap
    <2>3. CASE u # t /\ v # t
      BY <2>3, <1>a, <1>d, <1>e DEF StagingIsIsolated
    <2> QED BY <2>1, <2>2, <2>3
  <1> QED BY <1>1, <1>2, <1>3, <1>4, <1>5, <1>6 DEF Inv, TypeOK

\* The deletion of a target takes its deliveries and its runs with it.
LEMMA DeleteKeeps ==
  ASSUME Inv, NEW t \in TargetIds, DeleteTarget(t)
  PROVE  Inv'
  <1>a. TypeOK /\ Types /\ Counted /\ ForeignKeys /\ Once /\ StagingIsIsolated /\ Fresh /\ Alive
    BY DEF Inv, TypeOK
  <1>b. targets \in [TargetIds -> Row] /\ runs \in [RunIds -> Run]
    BY <1>a DEF Types
  <1>c. UNCHANGED <<created, queued, requests, jobs, mu, trees, upstream, pushed, crashes>>
    BY ZenonT(30) DEF DeleteTarget
  <1>d. targets'[t].env = "none" /\ \A u \in TargetIds \ {t} : targets'[u] = targets[u]
    BY <1>b, Defaults, ZenonT(30) DEF DeleteTarget
  <1>e. ~Exists(t)' /\ \A u \in TargetIds \ {t} : Exists(u)' <=> Exists(u)
    BY <1>d DEF Exists
  <1>f. \A r \in RunIds :
          /\ runs'[r].target = runs[r].target /\ runs'[r].delivery = runs[r].delivery
          /\ runs'[r].epoch = runs[r].epoch
          /\ runs[r].target = t => runs'[r].status = "gone"
          /\ runs[r].target # t => runs'[r] = runs[r]
    BY <1>b, ZenonT(30) DEF DeleteTarget, Run
  <1>g. consumed' = {c \in consumed : c[1] # t}
    BY ZenonT(30) DEF DeleteTarget
  <1>1. Types'
    <2>1. runs' \in [RunIds -> Run]
      <3>1. \A r \in RunIds : [runs[r] EXCEPT !.status = "gone", !.prev = 0, !.commit = 0] \in Run
        <4>1. \A run \in Run : [run EXCEPT !.status = "gone", !.prev = 0, !.commit = 0] \in Run
          <5>1. 0 \in Commits
            BY DeployAssumption DEF Commits
          <5> QED BY ONLY ZenonT(30), <5>1 DEF Run
        <4> QED BY ONLY <1>b, <4>1, ZenonT(30)
      <3> QED BY <1>b, <3>1, ZenonT(30) DEF DeleteTarget
    <2>2. targets' \in [TargetIds -> Row]
      BY <1>b, Defaults, ZenonT(30) DEF DeleteTarget
    <2>3. events' \in 0..MaxEvents
      BY <1>a, EventCounts, ZenonT(30) DEF DeleteTarget
    <2> QED BY <1>a, <1>c, <1>g, <2>1, <2>2, <2>3 DEF Types
  <1>2. ForeignKeys'
    <2>1. \A u \in TargetIds : targets'[u].env = "staging" =>
            /\ targets[u].env = "staging" /\ Exists(u) /\ u # t
            /\ targets'[u] = targets[u]
      BY <1>d DEF Exists
    <2>2. \A u \in TargetIds : targets'[u].env = "staging" => targets[u].source # t
      BY <2>1, ZenonT(30) DEF DeleteTarget
    <2>3. \A u \in TargetIds : targets'[u].env = "staging" =>
            targets'[u].source \in TargetIds /\ targets'[targets'[u].source].env = "production"
      BY <1>a, <1>d, <2>1, <2>2 DEF ForeignKeys
    <2>4. \A r \in RunIds : runs'[r].status \notin {"none", "gone"} =>
            runs'[r].target \in TargetIds /\ Exists(runs[r].target)'
      BY <1>a, <1>e, <1>f DEF ForeignKeys
    <2>5. \A c \in consumed' : c \in consumed /\ c[1] \in TargetIds \ {t}
      BY <1>a, <1>g DEF Types
    <2>6. \A c \in consumed' : targets'[c[1]].env # "none"
      BY <1>a, <1>d, <2>5 DEF ForeignKeys, Exists
    <2>7. \A r \in RunIds : runs'[r].status \notin {"none", "gone"} =>
            runs'[r].target \in TargetIds /\ targets'[runs'[r].target].env # "none"
      BY <1>a, <1>d, <1>f DEF ForeignKeys, Exists
    <2> QED BY <2>3, <2>6, <2>7 DEF ForeignKeys, Exists
  <1>3. Counted'
    <2>1. \A r \in RunIds : r > queued => runs'[r] = runs[r]
      BY <1>a, <1>f, Ids DEF Counted
    <2> QED BY <1>a, <1>c, <1>e, <1>f, <2>1 DEF Counted
  <1>4. Locked' /\ ExecutesWhatItRecords'
    BY <1>c DEF Inv, Locked, ExecutesWhatItRecords
  <1>5. Once'
    <2>1. \A r \in RunIds : runs[r].delivery # NoDelivery => runs[r].target \in TargetIds
      BY <1>a, Ids, DeployAssumption DEF Counted, Types, TargetIds
    <2>2. \A q \in Requests : Holds(q) => requests[q].target \in TargetIds
      BY <1>a, DeployAssumption DEF Counted, Holds, Types, TargetIds
    <2>3. \A q \in Requests : Holds(q)' <=> Holds(q)
      BY <1>c DEF Holds
    <2>4. \A u \in TargetIds : \A d : Exists(u)' /\ (Exists(u) => <<u, d>> \in consumed)
                                 => <<u, d>> \in consumed'
      BY <1>e, <1>g
    <2>5. \A r \in RunIds : runs'[r].delivery # NoDelivery /\ targets'[runs'[r].target].env # "none"
            => <<runs'[r].target, runs'[r].delivery>> \in consumed'
      BY <1>a, <1>f, <2>1, <2>4 DEF Once, Exists
    <2>6. \A q \in Requests : Holds(q) /\ targets'[requests[q].target].env # "none"
            => <<requests[q].target, requests[q].delivery>> \in consumed'
      BY <1>a, <2>2, <2>4 DEF Once, Exists
    <2> QED BY <1>a, <1>c, <1>f, <2>3, <2>5, <2>6 DEF Once, DeliveryQueuesOnce, Exists
  <1>6. StagingIsIsolated'
    BY SMTT(30), <1>a, <1>d, <1>e DEF StagingIsIsolated, Exists, Overlap
  <1>7. Fresh'
    BY SMTT(30), <1>a, <1>c, <1>f DEF Fresh, PushIsDeployed
  <1>8. Alive'
    BY <1>a, <1>c, <1>f DEF Alive, UnfinishedHasGoroutine
  <1> QED BY <1>1, <1>2, <1>3, <1>4, <1>5, <1>6, <1>7, <1>8 DEF Inv, TypeOK

-----------------------------------------------------------------------------
(* The requests.                                                            *)

\* A step of one request that neither registers a delivery nor queues a run: it
\* comes to hold no delivery it did not hold.
Stepped(q, rq) ==
  /\ requests' = [requests EXCEPT ![q] = rq]
  /\ rq.pc # "idle" => rq.target \in 1..created
  /\ rq.pc = "register" => rq.delivery # NoDelivery
  /\ rq.delivery # NoDelivery =>
       rq.trigger = "webhook" /\ rq.pc # "choose" /\ pushed[rq.delivery].sent
  /\ rq.pc \in {"load", "preflight", "queue"} /\ rq.delivery # NoDelivery =>
       Holds(q) /\ rq.target = requests[q].target /\ rq.delivery = requests[q].delivery
  /\ RequestOnly
  /\ events' \in 0..MaxEvents

LEMMA TargetsCounted ==
  ASSUME TypeOK, Counted, NEW t \in TargetIds, Exists(t)
  PROVE  t \in 1..created
  BY Ids, DeployAssumption DEF TypeOK, Types, Counted, TargetIds

LEMMA EventsStay ==
  ASSUME TypeOK, UNCHANGED events
  PROVE  events' \in 0..MaxEvents
  BY DEF TypeOK, Types

\* The records of the requests that arrive.
WebhookRecord(t, d, b) ==
  [Idle EXCEPT !.pc = "register", !.trigger = "webhook", !.target = t, !.delivery = d,
               !.accepts = b]

ManualRecord(t, trigger, dir) ==
  [Idle EXCEPT !.pc = "preflight", !.trigger = trigger, !.target = t, !.dir = dir]

LEMMA WebhookRequest ==
  ASSUME NEW t \in TargetIds, NEW d \in Deliveries, NEW b \in BOOLEAN
  PROVE  /\ WebhookRecord(t, d, b) \in Request /\ WebhookRecord(t, d, b).pc = "register"
         /\ WebhookRecord(t, d, b).target = t /\ WebhookRecord(t, d, b).delivery = d
         /\ WebhookRecord(t, d, b).trigger = "webhook"
  <1>1. t \in 0..MaxTargets
    BY DEF TargetIds
  <1> QED BY ONLY ZenonT(30), <1>1, Defaults, d \in Deliveries, b \in BOOLEAN
      DEF Request, WebhookRecord

LEMMA ManualRequest ==
  ASSUME NEW t \in TargetIds, NEW dir \in Dirs, NEW trigger \in {"manual", "rollback"}
  PROVE  /\ ManualRecord(t, trigger, dir) \in Request
         /\ ManualRecord(t, trigger, dir).pc = "preflight"
         /\ ManualRecord(t, trigger, dir).target = t
         /\ ManualRecord(t, trigger, dir).delivery = NoDelivery
  <1>1. t \in 0..MaxTargets
    BY DEF TargetIds
  <1> QED BY ONLY ZenonT(30), <1>1, Defaults, dir \in Dirs, trigger \in {"manual", "rollback"}
      DEF Request, ManualRecord

LEMMA StepsStep ==
  ASSUME Inv, NEW q \in Requests,
         \/ \E t \in TargetIds, d \in Deliveries : WebhookArrives(q, t, d)
         \/ TriggerDeploy(q)
         \/ \E t \in TargetIds : ManualDeploy(q, t)
         \/ \E t \in TargetIds : Rollback(q, t)
         \/ Preflight(q)
         \/ ChooseRollback(q)
  PROVE  \E rq \in Request : Stepped(q, rq)
  <1>a. TypeOK /\ Types /\ Counted /\ Fresh
    BY DEF Inv, TypeOK
  <1>b. requests[q] \in Request /\ requests \in [Requests -> Request]
    BY <1>a DEF Types
  <1>c. requests[q].pc # "idle" => requests[q].target \in 1..created
    BY <1>a DEF Counted
  <1>d. requests[q].delivery # NoDelivery =>
          /\ requests[q].trigger = "webhook" /\ requests[q].pc # "choose"
          /\ pushed[requests[q].delivery].sent
    BY <1>a DEF Fresh
  <1>e. ASSUME requests' = [requests EXCEPT ![q] = Idle], RequestOnly, events' \in 0..MaxEvents
        PROVE  \E rq \in Request : Stepped(q, rq)
    BY ZenonT(30), <1>e, Defaults DEF Stepped
  <1>1. ASSUME NEW t \in TargetIds, NEW d \in Deliveries, WebhookArrives(q, t, d)
        PROVE  \E rq \in Request : Stepped(q, rq)
    <2> DEFINE b == targets[t].mode = "auto"
               rq == WebhookRecord(t, d, b)
    <2>1. /\ rq \in Request /\ rq.pc = "register" /\ rq.target = t /\ rq.delivery = d
          /\ rq.trigger = "webhook"
      <3>1. b \in BOOLEAN
        OBVIOUS
      <3> HIDE DEF b
      <3> QED BY <3>1, WebhookRequest
    <2>2. /\ requests' = [requests EXCEPT ![q] = rq] /\ Exists(t) /\ pushed[d].sent
          /\ RequestOnly /\ events' \in 0..MaxEvents
      BY ZenonT(30), <1>1, <1>a, EventCounts DEF WebhookArrives, WebhookRecord
    <2>3. t \in 1..created
      BY <1>a, <2>2, TargetsCounted
    <2> HIDE DEF rq
    <2> QED BY ZenonT(30), <2>1, <2>2, <2>3, DeployAssumption DEF Stepped
  <1>2. CASE TriggerDeploy(q)
    <2>0. requests[q].pc = "load" /\ RequestOnly /\ events' \in 0..MaxEvents
      BY <1>2, <1>a, EventsStay DEF TriggerDeploy
    <2>1. CASE requests' = [requests EXCEPT ![q] = Idle]
      BY <2>0, <2>1, <1>e
    <2>2. CASE /\ requests[q].target \in TargetIds
               /\ requests' = [requests EXCEPT ![q].pc = "preflight",
                                               ![q].dir = targets[requests[q].target].dir]
      <3> DEFINE rq == [requests[q] EXCEPT !.pc = "preflight",
                                           !.dir = targets[requests[q].target].dir]
      <3>1. targets[requests[q].target].dir \in Dirs
        BY <1>a, <2>2 DEF Types, Row
      <3>2. /\ rq \in Request /\ rq.pc = "preflight" /\ rq.target = requests[q].target
            /\ rq.delivery = requests[q].delivery /\ rq.trigger = requests[q].trigger
        BY ZenonT(30), <1>b, <3>1 DEF Request
      <3>3. requests' = [requests EXCEPT ![q] = rq]
        BY ZenonT(30), <2>2, <1>b
      <3> HIDE DEF rq
      <3> QED BY ZenonT(30), <2>0, <3>2, <3>3, <1>c, <1>d DEF Stepped, Holds
    <2>3. requests[q].target \in TargetIds
      BY <2>0, <1>a, <1>c, DeployAssumption DEF Types, TargetIds
    <2> QED BY <1>2, <2>1, <2>2, <2>3 DEF TriggerDeploy
  <1>3. ASSUME NEW t \in TargetIds, ManualDeploy(q, t) \/ Rollback(q, t)
        PROVE  \E rq \in Request : Stepped(q, rq)
    <2>0. PICK trigger \in {"manual", "rollback"} :
            requests' = [requests EXCEPT ![q] =
              [Idle EXCEPT !.pc = "preflight", !.trigger = trigger, !.target = t,
                           !.dir = targets[t].dir]]
      BY <1>3, ZenonT(30) DEF ManualDeploy, Rollback
    <2> DEFINE rq == ManualRecord(t, trigger, targets[t].dir)
    <2>1. Exists(t) /\ RequestOnly /\ events' \in 0..MaxEvents
      BY <1>3, <1>a, EventCounts, ZenonT(30) DEF ManualDeploy, Rollback, Active
    <2>2. t \in 1..created
      BY <1>a, <2>1, TargetsCounted
    <2>3. targets[t].dir \in Dirs
      BY <1>a DEF Types, Row
    <2>4. rq \in Request /\ rq.target = t /\ rq.delivery = NoDelivery /\ rq.pc = "preflight"
      BY <2>3, ManualRequest
    <2>5. requests' = [requests EXCEPT ![q] = rq]
      BY <2>0 DEF ManualRecord
    <2> HIDE DEF rq
    <2> QED BY ZenonT(30), <2>1, <2>2, <2>4, <2>5 DEF Stepped
  <1>4. CASE Preflight(q)
    <2>0. requests[q].pc = "preflight" /\ RequestOnly /\ events' \in 0..MaxEvents
      BY <1>4, <1>a, EventsStay DEF Preflight
    <2>1. CASE requests' = [requests EXCEPT ![q] = Idle]
      BY <2>0, <2>1, <1>e
    <2>2. CASE requests' = [requests EXCEPT ![q].pc =
                 IF requests[q].trigger = "rollback" THEN "choose" ELSE "queue"]
      <3> DEFINE pc == IF requests[q].trigger = "rollback" THEN "choose" ELSE "queue"
                 rq == [requests[q] EXCEPT !.pc = pc]
      <3>1. /\ rq \in Request /\ rq.pc = pc /\ rq.target = requests[q].target
            /\ rq.delivery = requests[q].delivery /\ rq.trigger = requests[q].trigger
        BY <1>b DEF Request
      <3>2. requests' = [requests EXCEPT ![q] = rq]
        BY <2>2, <1>b
      <3> HIDE DEF rq
      <3> QED BY ZenonT(30), <2>0, <3>1, <3>2, <1>c, <1>d DEF Stepped, Holds
    <2> QED BY <1>4, <2>1, <2>2 DEF Preflight
  <1>5. CASE ChooseRollback(q)
    <2>0. requests[q].pc = "choose" /\ RequestOnly /\ events' \in 0..MaxEvents
      BY <1>5, <1>a, EventsStay DEF ChooseRollback
    <2>1. CASE requests' = [requests EXCEPT ![q] = Idle]
      BY <2>0, <2>1, <1>e
    <2>2. ASSUME NEW r \in RunIds,
                 requests' = [requests EXCEPT ![q].pc = "queue", ![q].to = runs[r].prev]
          PROVE  \E rq \in Request : Stepped(q, rq)
      <3> DEFINE rq == [requests[q] EXCEPT !.pc = "queue", !.to = runs[r].prev]
      <3>1. runs[r].prev \in Commits
        BY <1>a DEF Types, Run
      <3>2. /\ rq \in Request /\ rq.target = requests[q].target
            /\ rq.delivery = requests[q].delivery /\ rq.pc = "queue"
        BY ZenonT(30), <1>b, <3>1 DEF Request
      <3>3. requests' = [requests EXCEPT ![q] = rq]
        BY ZenonT(30), <2>2, <1>b
      <3>4. rq.delivery = NoDelivery
        BY <2>0, <3>2, <1>d
      <3> HIDE DEF rq
      <3> QED BY ZenonT(30), <2>0, <3>2, <3>3, <3>4, <1>c DEF Stepped
    <2> QED BY <1>5, <2>1, <2>2 DEF ChooseRollback, Reversible
  <1> QED BY <1>1, <1>2, <1>3, <1>4, <1>5

\* Such a step keeps the invariant.
LEMMA StepKeeps ==
  ASSUME Inv, NEW q \in Requests, NEW rq \in Request, Stepped(q, rq)
  PROVE  Inv'
  <1>a. TypeOK /\ Types /\ ForeignKeys /\ Counted /\ Once /\ Fresh
    BY DEF Inv, TypeOK
  <1>b. requests \in [Requests -> Request]
    BY <1>a DEF Types
  <1>c. UNCHANGED <<targets, created, runs, queued, consumed, jobs, mu, trees, upstream, pushed,
                    crashes>>
    BY DEF Stepped, RequestOnly
  <1>d. requests'[q] = rq /\ \A p \in Requests \ {q} : requests'[p] = requests[p]
    BY <1>b DEF Stepped
  <1>1. Types'
    BY <1>a, <1>b, <1>c DEF Types, Stepped
  <1>2. ForeignKeys' /\ Locked' /\ ExecutesWhatItRecords' /\ StagingIsIsolated' /\ Alive'
    BY SMTT(30), <1>c DEF Inv, TypeOK, ForeignKeys, Exists, Locked, ExecutesWhatItRecords, StagingIsIsolated,
                Overlap, Alive, UnfinishedHasGoroutine
  <1>3. Counted'
    BY <1>a, <1>c, <1>d DEF Counted, Stepped, Exists
  <1>4. Once'
    <2>1. \A p \in Requests : Holds(p)' =>
            /\ Holds(p) /\ requests'[p].target = requests[p].target
            /\ requests'[p].delivery = requests[p].delivery
      BY SMTT(30), <1>d DEF Stepped, Holds
    <2> QED BY <1>a, <1>c, <2>1 DEF Once, DeliveryQueuesOnce, Exists
  <1>5. Fresh'
    BY <1>a, <1>c, <1>d DEF Fresh, PushIsDeployed, Stepped
  <1> QED BY <1>1, <1>2, <1>3, <1>4, <1>5 DEF Inv, TypeOK

\* The first insert of a delivery finds no run and no other request with it, for
\* both would have registered it.
LEMMA RegisterKeeps ==
  ASSUME Inv, NEW q \in Requests, RegisterWebhookDelivery(q)
  PROVE  Inv'
  <1>a. TypeOK /\ Types /\ ForeignKeys /\ Counted /\ Once /\ Fresh
    BY DEF Inv, TypeOK
  <1>b. requests \in [Requests -> Request] /\ requests[q] \in Request
    BY <1>a DEF Types
  <1>c. /\ UNCHANGED <<targets, created, runs, queued, jobs, mu, trees, upstream, pushed, crashes,
                       events>>
        /\ requests[q].pc = "register"
    BY DEF RegisterWebhookDelivery
  <1> DEFINE t == requests[q].target
             d == requests[q].delivery
  <1>1. CASE requests' = [requests EXCEPT ![q] = Idle] /\ UNCHANGED consumed
    <2>1. Stepped(q, Idle)
      BY <1>1, <1>a, <1>c, EventsStay, Defaults DEF Stepped, RequestOnly
    <2> QED BY <2>1, StepKeeps, Defaults
  <1>2. CASE /\ Exists(t) /\ <<t, d>> \notin consumed
             /\ consumed' = consumed \union {<<t, d>>} /\ requests' = AfterRegister(q)
    <2>1. t \in TargetIds
      BY <1>a, <1>c, DeployAssumption DEF Counted, Types, TargetIds
    <2>2. d \in Deliveries
      BY <1>a, <1>b, <1>c DEF Fresh, Request
    <2>3. PICK rq \in Request :
            /\ requests' = [requests EXCEPT ![q] = rq]
            /\ rq.pc \in {"idle", "load"} /\ (rq.pc # "idle" => rq.target = t)
            /\ rq.delivery # NoDelivery =>
                 /\ rq.trigger = "webhook" /\ rq.pc # "choose" /\ pushed[rq.delivery].sent
                 /\ rq.target = t /\ rq.delivery = d
      <3> DEFINE rq == [requests[q] EXCEPT !.pc = "load"]
      <3>1. /\ rq \in Request /\ rq.pc = "load" /\ rq.target = t /\ rq.delivery = d
            /\ rq.trigger = requests[q].trigger
        BY <1>b DEF Request
      <3>2. d # NoDelivery => requests[q].trigger = "webhook" /\ pushed[d].sent
        BY <1>a DEF Fresh
      <3>3. requests' = [requests EXCEPT ![q] = Idle] \/ requests' = [requests EXCEPT ![q] = rq]
        BY <1>2, <1>b DEF AfterRegister
      <3> HIDE DEF rq
      <3> QED BY <3>1, <3>2, <3>3, Defaults
    <2>4. requests'[q] = rq /\ \A p \in Requests \ {q} : requests'[p] = requests[p]
      BY <1>b, <2>3
    <2>5. \A c \in consumed : c \in consumed'
      BY <1>2
    <2>6. Types'
      BY SMTT(30), <1>a, <1>b, <1>c, <1>2, <2>1, <2>2, <2>3 DEF Types
    <2>7. ForeignKeys'
      <3>1. \A c \in consumed' : Exists(c[1])
        BY SMTT(30), <1>a, <1>2 DEF ForeignKeys
      <3> QED BY <3>1, <1>a, <1>c DEF ForeignKeys, Exists
    <2>8. Locked' /\ ExecutesWhatItRecords' /\ StagingIsIsolated' /\ Alive'
      BY <1>c DEF Inv, Exists, Locked, ExecutesWhatItRecords, StagingIsIsolated, Overlap, Alive,
                  UnfinishedHasGoroutine
    <2>9. Counted'
      BY <1>a, <1>c, <2>3, <2>4 DEF Counted, Exists
    <2>10. Fresh'
      BY SMTT(30), <1>a, <1>c, <2>3, <2>4 DEF Fresh, PushIsDeployed
    <2>11. Once'
      <3>1. \A r \in RunIds : ~(runs[r].target = t /\ runs[r].delivery = d)
        BY <1>a, <1>2, <2>2, DeployAssumption DEF Once
      <3>2. \A p \in Requests : Holds(p) => ~(requests[p].target = t /\ requests[p].delivery = d)
        BY <1>a, <1>2 DEF Once
      <3>3. \A p \in Requests \ {q} : Holds(p)' <=> Holds(p)
        BY <2>4 DEF Holds
      <3>4. Holds(q)' => requests'[q].target = t /\ requests'[q].delivery = d
        BY <2>3, <2>4 DEF Holds
      <3>5. \A p \in Requests : Holds(p)' /\ Exists(requests'[p].target)
              => <<requests'[p].target, requests'[p].delivery>> \in consumed'
        BY SMTT(30), <1>a, <1>2, <2>4, <2>5, <3>3, <3>4 DEF Once
      <3>6. \A p \in Requests, r \in RunIds :
              Holds(p)' /\ requests'[p].target = runs[r].target
              => requests'[p].delivery # runs[r].delivery
        BY <1>a, <2>4, <3>1, <3>3, <3>4 DEF Once
      <3>7. \A p, u \in Requests :
              Holds(p)' /\ Holds(u)' /\ requests'[p].target = requests'[u].target
                /\ requests'[p].delivery = requests'[u].delivery
              => p = u
        BY <1>a, <2>4, <3>2, <3>3, <3>4 DEF Once
      <3>8. \A r \in RunIds : runs[r].delivery # NoDelivery /\ Exists(runs[r].target)
              => <<runs[r].target, runs[r].delivery>> \in consumed'
        BY <1>a, <2>5 DEF Once
      <3>9. DeliveryQueuesOnce'
        BY SMTT(30), <1>a, <1>c DEF Once, DeliveryQueuesOnce
      <3> QED BY <1>c, <3>5, <3>6, <3>7, <3>8, <3>9 DEF Once, Exists
    <2> QED BY <2>6, <2>7, <2>8, <2>9, <2>10, <2>11 DEF Inv, TypeOK
  <1> QED BY <1>1, <1>2 DEF RegisterWebhookDelivery

\* The new run takes the delivery over from its request.
LEMMA QueueKeeps ==
  ASSUME Inv, NEW q \in Requests, Queue(q)
  PROVE  Inv'
  <1>a. TypeOK /\ Types /\ ForeignKeys /\ Counted /\ Locked /\ Once /\ Fresh /\ Alive
    BY DEF Inv, TypeOK
  <1>b. /\ requests \in [Requests -> Request] /\ requests[q] \in Request
        /\ runs \in [RunIds -> Run] /\ jobs \in [RunIds -> Job]
    BY <1>a DEF Types
  <1>c. /\ UNCHANGED <<targets, created, consumed, mu, trees, upstream, pushed, crashes, events>>
        /\ requests' = [requests EXCEPT ![q] = Idle]
        /\ requests[q].pc = "queue"
    BY DEF Queue
  <1> DEFINE rq == requests[q]
             n == queued + 1
             run == [target |-> rq.target, trigger |-> rq.trigger, status |-> "pending",
                     prev |-> 0, commit |-> rq.to, delivery |-> rq.delivery, epoch |-> crashes]
             job == [pc |-> IF rq.trigger = "rollback" THEN "rollback" ELSE "deploy",
                     dir |-> rq.dir, prev |-> 0, commit |-> rq.to]
  <1>1. CASE UNCHANGED <<queued, runs, jobs>>
    <2>1. Stepped(q, Idle)
      BY <1>1, <1>a, <1>c, EventsStay, Defaults DEF Stepped, RequestOnly
    <2> QED BY <2>1, StepKeeps, Defaults
  <1>2. CASE /\ Exists(rq.target) /\ queued' = n
             /\ runs' = [runs EXCEPT ![n] = run] /\ jobs' = [jobs EXCEPT ![n] = job]
    <2>1. n \in RunIds /\ queued \in Nat /\ queued' \in 0..MaxRuns /\ n > queued
      BY <1>a, <1>2, DeployAssumption DEF Types, Queue, RunIds
    <2>2. rq.target \in 1..created /\ rq.target \in TargetIds
      BY <1>a, <1>c, DeployAssumption DEF Counted, Types, TargetIds
    <2>3. 0 \in Commits /\ crashes \in 0..MaxCrashes
      BY <1>a, DeployAssumption DEF Commits, Types
    <2>4. run \in Run /\ job \in Job
      BY <1>b, <2>3 DEF Request, Run, Job
    <2>5. /\ runs'[n] = run /\ \A r \in RunIds \ {n} : runs'[r] = runs[r]
          /\ jobs'[n] = job /\ \A r \in RunIds \ {n} : jobs'[r] = jobs[r]
      BY <1>b, <1>2, <2>1
    <2>6. requests'[q] = Idle /\ \A p \in Requests \ {q} : requests'[p] = requests[p]
      BY <1>b, <1>c
    <2>7. /\ run.status = "pending" /\ run.target = rq.target /\ run.delivery = rq.delivery
          /\ run.epoch = crashes /\ job.pc \in {"deploy", "rollback"}
          /\ rq.trigger = "webhook" => job.pc = "deploy"
      OBVIOUS
    <2> HIDE DEF run, job
    <2>8. Types'
      BY SMTT(30), <1>a, <1>b, <1>c, <1>2, <2>1, <2>4, Defaults DEF Types
    <2>9. ForeignKeys'
      BY <1>a, <1>c, <1>2, <2>2, <2>5, <2>7 DEF ForeignKeys, Exists
    <2>10. Locked' /\ ExecutesWhatItRecords' /\ StagingIsIsolated'
      BY SMTT(30), <1>c, <2>5, <2>7 DEF Inv, Exists, Locked, ExecutesWhatItRecords, StagingIsIsolated, Overlap
    <2>11. Alive'
      BY <1>a, <1>c, <2>3, <2>5, <2>7 DEF Alive, UnfinishedHasGoroutine
    <2>12. Counted'
      <3>1. \A p \in Requests : requests'[p].pc # "idle" => requests'[p].target \in 1..created
        BY <1>a, <2>6, Defaults DEF Counted
      <3>2. \A r \in RunIds : r > n => r > queued /\ r # n
        BY <2>1, Ids
      <3>3. \A r \in RunIds : r <= n => r <= queued \/ r = n
        BY SMTT(30), <2>1, Ids
      <3> QED BY <1>a, <1>c, <1>2, <2>2, <2>5, <2>7, <3>1, <3>2, <3>3 DEF Counted, Exists
    <2>13. Fresh'
      <3>1. rq.delivery # NoDelivery => rq.trigger = "webhook" /\ pushed[rq.delivery].sent
        BY SMTT(30), <1>a DEF Fresh
      <3> QED BY SMTT(30), <1>a, <1>c, <2>5, <2>6, <2>7, <3>1, Defaults DEF Fresh, PushIsDeployed
    <2>14. Once'
      <3>1. rq.delivery # NoDelivery => Holds(q)
        BY SMTT(30), <1>c DEF Holds
      <3>2. \A p \in Requests : Holds(p)' => p # q /\ Holds(p)
        BY <2>6, Defaults DEF Holds
      <3>3. \A r \in RunIds : runs'[r].delivery # NoDelivery /\ Exists(runs'[r].target)
              => <<runs'[r].target, runs'[r].delivery>> \in consumed
        <4> SUFFICES ASSUME NEW r \in RunIds, runs'[r].delivery # NoDelivery,
                            Exists(runs'[r].target)
                     PROVE  <<runs'[r].target, runs'[r].delivery>> \in consumed
          OBVIOUS
        <4>1. CASE r = n
          <5>1. runs'[r].target = rq.target /\ runs'[r].delivery = rq.delivery
            BY <2>5, <2>7, <4>1
          <5>2. Holds(q) /\ Exists(requests[q].target)
            BY SMTT(30), <1>2, <3>1, <5>1
          <5>3. <<requests[q].target, requests[q].delivery>> \in consumed
            BY <1>a, <5>2 DEF Once
          <5> QED BY <5>1, <5>3
        <4>2. CASE r # n
          <5>1. runs'[r] = runs[r]
            BY <2>5, <4>2
          <5> QED BY <1>a, <5>1 DEF Once
        <4> QED BY <4>1, <4>2
      <3>4. \A p \in Requests : Holds(p)' /\ Exists(requests'[p].target)
              => <<requests'[p].target, requests'[p].delivery>> \in consumed
        BY <1>a, <2>6, <3>2 DEF Once
      <3>5. \A p \in Requests, r \in RunIds :
              Holds(p)' /\ requests'[p].target = runs'[r].target
              => requests'[p].delivery # runs'[r].delivery
        <4> SUFFICES ASSUME NEW p \in Requests, NEW r \in RunIds, Holds(p)',
                            requests'[p].target = runs'[r].target
                     PROVE  requests'[p].delivery # runs'[r].delivery
          OBVIOUS
        <4>1. p # q /\ Holds(p) /\ requests'[p] = requests[p] /\ requests[p].delivery # NoDelivery
          BY <2>6, <3>2 DEF Holds
        <4>2. CASE r = n
          BY SMTT(30), <1>a, <2>5, <2>7, <3>1, <4>1, <4>2 DEF Once
        <4>3. CASE r # n
          BY SMTT(30), <1>a, <2>5, <4>1, <4>3 DEF Once
        <4> QED BY <4>2, <4>3
      <3>6. \A p, u \in Requests :
              Holds(p)' /\ Holds(u)' /\ requests'[p].target = requests'[u].target
                /\ requests'[p].delivery = requests'[u].delivery
              => p = u
        BY <1>a, <2>6, <3>2 DEF Once
      <3>7. DeliveryQueuesOnce'
        BY <1>a, <2>5, <2>7, <3>1 DEF Once, DeliveryQueuesOnce
      <3> QED BY <1>c, <3>3, <3>4, <3>5, <3>6, <3>7 DEF Once, Exists
    <2> QED BY <2>8, <2>9, <2>10, <2>11, <2>12, <2>13, <2>14 DEF Inv, TypeOK
  <1> QED BY <1>1, <1>2 DEF Queue

-----------------------------------------------------------------------------
\* What a step of the goroutine of run r does: it writes its own row, which
\* stays gone if it was, and touches the trees only while it holds the mutex.
Worked(r, run, job) ==
  /\ JobOnly
  /\ jobs[r].pc # "none" /\ mu \in {0, r} /\ mu' \in {0, r}
  /\ runs' = [runs EXCEPT ![r] = run] /\ jobs' = [jobs EXCEPT ![r] = job]
  /\ run \in Run /\ job \in Job /\ trees' \in [Dirs -> Commits]
  /\ run.target = runs[r].target /\ run.delivery = runs[r].delivery /\ run.epoch = runs[r].epoch
  /\ run.status # "none" /\ (runs[r].status = "gone" => run.status = "gone")
  /\ run.status \in {"pending", "running"} => job.pc # "none" \/ runs[r].epoch # crashes
  /\ job.pc \in {"prepare", "pull", "checkout", "execute"} => mu' = r
  /\ job.pc = "execute" => job.commit \in {0, trees'[job.dir]}
  /\ run.delivery # NoDelivery =>
       /\ job.pc \notin {"rollback", "checkout"}
       /\ job.pc = "execute" /\ job.commit # 0 => job.commit >= pushed[run.delivery].commit
       /\ run.status = "success" /\ run.commit # 0 => run.commit >= pushed[run.delivery].commit

LEMMA WorkKeeps ==
  ASSUME Inv, NEW r \in RunIds, NEW run, NEW job, Worked(r, run, job)
  PROVE  Inv'
  <1>a. TypeOK /\ Types /\ ForeignKeys /\ Counted /\ Locked /\ Once /\ Fresh /\ Alive
    BY DEF Inv, TypeOK
  <1>b. runs \in [RunIds -> Run] /\ jobs \in [RunIds -> Job] /\ queued \in Nat /\ r \in Nat \ {0}
    BY <1>a, Ids, DeployAssumption DEF Types
  <1>c. UNCHANGED <<targets, created, queued, consumed, requests, upstream, pushed, crashes, events>>
    BY DEF Worked, JobOnly
  <1>d. /\ runs'[r] = run /\ \A s \in RunIds \ {r} : runs'[s] = runs[s]
        /\ jobs'[r] = job /\ \A s \in RunIds \ {r} : jobs'[s] = jobs[s]
    BY <1>b DEF Worked
  <1>e. \A s \in RunIds \ {r} : jobs[s].pc \notin {"prepare", "pull", "checkout", "execute"}
    BY <1>a, Ids DEF Locked, Worked
  <1>f. r <= queued /\ runs[r].status # "none"
    BY <1>a, <1>b DEF Counted, Worked
  <1>g. \A s \in RunIds : runs'[s].target = runs[s].target /\ runs'[s].delivery = runs[s].delivery
                          /\ runs'[s].epoch = runs[s].epoch
    BY <1>d DEF Worked
  <1>1. Types'
    <2>1. mu' \in 0..MaxRuns
      BY DeployAssumption DEF Worked, RunIds
    <2>2. runs' \in [RunIds -> Run] /\ jobs' \in [RunIds -> Job] /\ trees' \in [Dirs -> Commits]
      BY <1>b DEF Worked
    <2> QED BY <1>a, <1>c, <2>1, <2>2 DEF Types
  <1>2. ForeignKeys'
    <2>1. \A s \in RunIds : runs'[s].status \notin {"none", "gone"} =>
             runs[s].status \notin {"none", "gone"}
      BY <1>d, <1>f DEF Worked
    <2> QED BY <1>a, <1>c, <1>g, <2>1 DEF ForeignKeys, Exists
  <1>3. Counted'
    <2>1. \A s \in RunIds : s > queued => s # r
      BY <1>b, <1>f
    <2>2. \A s \in RunIds : s <= queued => runs'[s].status # "none"
      BY SMTT(30), <1>a, <1>d DEF Counted, Worked
    <2> QED BY <1>a, <1>c, <1>d, <1>g, <2>1, <2>2 DEF Counted, Exists
  <1>4. Locked' /\ ExecutesWhatItRecords'
    BY SMTT(30), <1>d, <1>e DEF Locked, ExecutesWhatItRecords, Worked
  <1>5. Once'
    <2>1. \A q \in Requests : Holds(q)' <=> Holds(q)
      BY SMTT(30), <1>c DEF Holds
    <2>2. DeliveryQueuesOnce'
      BY SMTT(30), <1>a, <1>g DEF Once, DeliveryQueuesOnce
    <2> QED BY <1>a, <1>c, <1>g, <2>1, <2>2 DEF Once, Exists
  <1>6. StagingIsIsolated'
    BY SMTT(30), <1>c DEF Inv, StagingIsIsolated, Exists, Overlap
  <1>7. Fresh'
    <2>1. \A s \in RunIds : runs'[s].delivery # NoDelivery =>
            /\ pushed[runs'[s].delivery].sent
            /\ jobs'[s].pc \notin {"rollback", "checkout"}
            /\ jobs'[s].pc = "execute" /\ jobs'[s].commit # 0
                 => jobs'[s].commit >= pushed[runs'[s].delivery].commit
      BY SMTT(30), <1>a, <1>d, <1>g DEF Fresh, Worked
    <2>2. PushIsDeployed'
      BY <1>a, <1>c, <1>d DEF Fresh, PushIsDeployed, Worked
    <2> QED BY SMTT(30), <1>a, <1>c, <2>1, <2>2 DEF Fresh
  <1>8. Alive'
    BY <1>a, <1>c, <1>d, <1>g DEF Alive, UnfinishedHasGoroutine, Worked
  <1> QED BY <1>1, <1>2, <1>3, <1>4, <1>5, <1>6, <1>7, <1>8 DEF Inv, TypeOK

\* The row finaliseRun leaves.
Finalised(run, status, prev, commit) ==
  IF run.status = "gone" THEN run
  ELSE [run EXCEPT !.status = status, !.prev = prev, !.commit = commit]

\* A run that ends has let go of the mutex, and its success is as new as its push.
LEMMA FinaliseWorks ==
  ASSUME Inv, NEW r \in RunIds, NEW status \in {"success", "failed"}, NEW prev \in Commits,
         NEW commit \in Commits, FinaliseRun(r, status, prev, commit), UNCHANGED trees,
         jobs[r].pc \in {"prepare", "pull", "checkout", "execute"},
         status = "success" => jobs[r].pc = "execute" /\ commit = jobs[r].commit
  PROVE  Inv'
  <1> DEFINE run == Finalised(runs[r], status, prev, commit)
  <1>a. Types /\ Locked /\ Fresh
    BY DEF Inv, TypeOK
  <1>b. runs[r] \in Run /\ trees \in [Dirs -> Commits]
    BY <1>a DEF Types
  <1>c. /\ run \in Run /\ run.target = runs[r].target /\ run.delivery = runs[r].delivery
        /\ run.epoch = runs[r].epoch
        /\ runs[r].status = "gone" => run.status = "gone"
        /\ runs[r].status # "gone" => run.status = status /\ run.commit = commit
    BY ZenonT(30), <1>b DEF Finalised, Run
  <1>1. runs' = [runs EXCEPT ![r] = run]
    BY DEF FinaliseRun, Finalised
  <1>2. mu = r
    BY <1>a DEF Locked
  <1>3. run.delivery # NoDelivery /\ run.status = "success" /\ run.commit # 0
          => run.commit >= pushed[run.delivery].commit
    BY <1>a, <1>c DEF Fresh
  <1> HIDE DEF run
  <1>4. Worked(r, run, NoJob)
    BY ZenonT(30), <1>b, <1>c, <1>1, <1>2, <1>3, Defaults DEF Worked, FinaliseRun
  <1> QED BY <1>4, WorkKeeps

\* A goroutine that holds the mutex and goes on to its next command.
LEMMA ContinueWorks ==
  ASSUME Inv, NEW r \in RunIds, NEW job \in Job, JobOnly, UNCHANGED <<runs, mu>>,
         jobs' = [jobs EXCEPT ![r] = job], trees' \in [Dirs -> Commits],
         jobs[r].pc \in {"prepare", "pull", "checkout", "execute"},
         job.pc \in {"pull", "execute"},
         job.pc = "execute" => job.commit \in {0, trees'[job.dir]},
         runs[r].delivery # NoDelivery /\ job.pc = "execute" /\ job.commit # 0
           => job.commit >= pushed[runs[r].delivery].commit
  PROVE  Inv'
  <1>a. Types /\ Locked /\ Fresh /\ Counted
    BY DEF Inv, TypeOK
  <1>b. runs \in [RunIds -> Run] /\ runs' = [runs EXCEPT ![r] = runs[r]] /\ queued \in Nat
    BY <1>a, DeployAssumption DEF Types
  <1>c. runs[r].status # "none"
    BY <1>a, <1>b, Ids DEF Counted
  <1>d. mu = r /\ mu' = r
    BY <1>a DEF Locked
  <1>e. runs[r].delivery # NoDelivery /\ runs[r].status = "success" /\ runs[r].commit # 0
          => runs[r].commit >= pushed[runs[r].delivery].commit
    BY SMTT(30), <1>a DEF Fresh, PushIsDeployed
  <1>1. Worked(r, runs[r], job)
    BY ZenonT(30), <1>b, <1>c, <1>d, <1>e DEF Worked
  <1> QED BY <1>1, WorkKeeps

LEMMA JobsWork ==
  ASSUME Inv, NEW r \in RunIds,
         \/ ExecuteRun(r) \/ EnsureDeployCheckout(r) \/ GitPull(r) \/ GitCheckout(r) \/ Execute(r)
  PROVE  Inv'
  <1>a. Types /\ Locked /\ Fresh /\ Counted /\ Alive
    BY DEF Inv, TypeOK
  <1>b. /\ runs \in [RunIds -> Run] /\ runs[r] \in Run /\ jobs \in [RunIds -> Job]
        /\ jobs[r] \in Job /\ trees \in [Dirs -> Commits] /\ upstream \in Commits /\ 0 \in Commits
        /\ queued \in Nat
    BY <1>a, DeployAssumption DEF Types, Commits
  <1>c. jobs[r].dir \in Dirs /\ jobs[r].prev \in Commits /\ jobs[r].commit \in Commits
    BY <1>b DEF Job
  <1>d. runs[r].delivery # NoDelivery => pushed[runs[r].delivery].commit <= upstream
    BY <1>a, <1>b DEF Fresh, Run
  <1>1. CASE ExecuteRun(r)
    <2> DEFINE run == [runs[r] EXCEPT !.status = IF @ = "gone" THEN @ ELSE "running"]
               job == [jobs[r] EXCEPT !.pc = IF @ = "deploy" THEN "prepare" ELSE "checkout"]
    <2>1. /\ run \in Run /\ run.target = runs[r].target /\ run.delivery = runs[r].delivery
          /\ run.epoch = runs[r].epoch
          /\ run.status = IF runs[r].status = "gone" THEN "gone" ELSE "running"
      BY <1>b DEF Run
    <2>2. /\ job \in Job /\ job.pc = IF jobs[r].pc = "deploy" THEN "prepare" ELSE "checkout"
      BY <1>b DEF Job
    <2>3. runs' = [runs EXCEPT ![r] = run] /\ jobs' = [jobs EXCEPT ![r] = job]
      BY <1>1 DEF ExecuteRun
    <2>4. jobs[r].pc \in {"deploy", "rollback"} /\ mu = 0 /\ mu' = r /\ trees' = trees /\ JobOnly
      BY <1>1 DEF ExecuteRun
    <2>5. runs[r].delivery # NoDelivery => jobs[r].pc = "deploy"
      BY <1>a, <2>4 DEF Fresh
    <2> HIDE DEF run, job
    <2>6. Worked(r, run, job)
      BY <1>b, <2>1, <2>2, <2>3, <2>4, <2>5 DEF Worked
    <2> QED BY <2>6, WorkKeeps
  <1>2. CASE EnsureDeployCheckout(r)
    <2>a. jobs[r].pc = "prepare"
      BY <1>2 DEF EnsureDeployCheckout
    <2>1. ASSUME NEW prev \in {trees[jobs[r].dir], 0},
                 jobs' = [jobs EXCEPT ![r].pc = "pull", ![r].prev = prev],
                 UNCHANGED <<runs, mu, trees>>, JobOnly
          PROVE  Inv'
      <3> DEFINE job == [jobs[r] EXCEPT !.pc = "pull", !.prev = prev]
      <3>1. job \in Job /\ job.pc = "pull"
        BY ZenonT(30), <1>b, <1>c DEF Job
      <3>2. jobs' = [jobs EXCEPT ![r] = job]
        BY ZenonT(30), <1>b, <2>1
      <3> HIDE DEF job
      <3> QED BY ZenonT(30), <1>b, <2>a, <2>1, <3>1, <3>2, ContinueWorks
    <2>2. ASSUME trees' = [trees EXCEPT ![jobs[r].dir] = upstream], NEW commit \in {upstream, 0},
                 jobs' = [jobs EXCEPT ![r].pc = "execute", ![r].commit = commit],
                 UNCHANGED <<runs, mu>>, JobOnly
          PROVE  Inv'
      <3> DEFINE job == [jobs[r] EXCEPT !.pc = "execute", !.commit = commit]
      <3>1. job \in Job /\ job.pc = "execute" /\ job.commit = commit /\ job.dir = jobs[r].dir
        BY ZenonT(30), <1>b, <1>c DEF Job
      <3>2. jobs' = [jobs EXCEPT ![r] = job]
        BY ZenonT(30), <1>b, <2>2
      <3>3. trees' \in [Dirs -> Commits] /\ trees'[jobs[r].dir] = upstream
        BY <1>b, <1>c, <2>2
      <3>4. runs[r].delivery # NoDelivery /\ commit # 0 => commit >= pushed[runs[r].delivery].commit
        BY <1>d
      <3> HIDE DEF job
      <3> QED BY ZenonT(30), <2>a, <2>2, <3>1, <3>2, <3>3, <3>4, ContinueWorks
    <2>3. ASSUME FinaliseRun(r, "failed", 0, 0), UNCHANGED trees
          PROVE  Inv'
      BY <1>b, <2>a, <2>3, FinaliseWorks
    <2> QED BY <1>2, <2>1, <2>2, <2>3 DEF EnsureDeployCheckout
  <1>3. CASE GitPull(r)
    <2>a. jobs[r].pc = "pull"
      BY <1>3 DEF GitPull
    <2>1. ASSUME trees' = [trees EXCEPT ![jobs[r].dir] = upstream], NEW commit \in {upstream, 0},
                 jobs' = [jobs EXCEPT ![r].pc = "execute", ![r].commit = commit],
                 UNCHANGED <<runs, mu>>, JobOnly
          PROVE  Inv'
      <3> DEFINE job == [jobs[r] EXCEPT !.pc = "execute", !.commit = commit]
      <3>1. job \in Job /\ job.pc = "execute" /\ job.commit = commit /\ job.dir = jobs[r].dir
        BY ZenonT(30), <1>b, <1>c DEF Job
      <3>2. jobs' = [jobs EXCEPT ![r] = job]
        BY ZenonT(30), <1>b, <2>1
      <3>3. trees' \in [Dirs -> Commits] /\ trees'[jobs[r].dir] = upstream
        BY <1>b, <1>c, <2>1
      <3>4. runs[r].delivery # NoDelivery /\ commit # 0 => commit >= pushed[runs[r].delivery].commit
        BY <1>d
      <3> HIDE DEF job
      <3> QED BY ZenonT(30), <2>a, <2>1, <3>1, <3>2, <3>3, <3>4, ContinueWorks
    <2>2. ASSUME FinaliseRun(r, "failed", jobs[r].prev, 0), UNCHANGED trees
          PROVE  Inv'
      BY <1>b, <1>c, <2>a, <2>2, FinaliseWorks
    <2> QED BY <1>3, <2>1, <2>2 DEF GitPull
  <1>4. CASE GitCheckout(r)
    <2>a. jobs[r].pc = "checkout" /\ runs[r].delivery = NoDelivery
      BY <1>a, <1>4 DEF GitCheckout, Fresh
    <2>1. ASSUME trees' = [trees EXCEPT ![jobs[r].dir] = jobs[r].commit],
                 jobs' = [jobs EXCEPT ![r].pc = "execute"], UNCHANGED <<runs, mu>>, JobOnly
          PROVE  Inv'
      <3> DEFINE job == [jobs[r] EXCEPT !.pc = "execute"]
      <3>1. job \in Job /\ job.pc = "execute" /\ job.commit = jobs[r].commit /\ job.dir = jobs[r].dir
        BY <1>b, <1>c DEF Job
      <3>2. jobs' = [jobs EXCEPT ![r] = job]
        BY <1>b, <2>1
      <3>3. trees' \in [Dirs -> Commits] /\ trees'[jobs[r].dir] = jobs[r].commit
        BY <1>b, <1>c, <2>1
      <3> HIDE DEF job
      <3> QED BY ZenonT(30), <2>a, <2>1, <3>1, <3>2, <3>3, ContinueWorks
    <2>2. ASSUME FinaliseRun(r, "failed", 0, jobs[r].commit), UNCHANGED trees
          PROVE  Inv'
      BY <1>b, <1>c, <2>a, <2>2, FinaliseWorks
    <2> QED BY <1>4, <2>1, <2>2 DEF GitCheckout
  <1>5. CASE Execute(r)
    <2>1. PICK status \in {"success", "failed"} :
            FinaliseRun(r, status, jobs[r].prev, jobs[r].commit)
      BY <1>5 DEF Execute
    <2> QED BY SMTT(30), <1>c, <1>5, <2>1, FinaliseWorks DEF Execute
  <1> QED BY <1>1, <1>2, <1>3, <1>4, <1>5

-----------------------------------------------------------------------------
LEMMA PushKeeps ==
  ASSUME Inv, NEW d \in Deliveries, Push(d)
  PROVE  Inv'
  <1>a. TypeOK /\ Types /\ ForeignKeys /\ Counted /\ Once /\ Fresh /\ Alive
    BY DEF Inv, TypeOK
  <1>b. /\ UNCHANGED <<targets, created, runs, queued, consumed, requests, jobs, mu, trees, crashes>>
        /\ ~pushed[d].sent
    BY DEF Push
  <1>c. PICK c \in Commits : /\ pushed' = [pushed EXCEPT ![d] = [sent |-> TRUE, commit |-> c]]
                             /\ c <= upstream' /\ upstream <= upstream' /\ upstream' \in 1..MaxCommit
    BY <1>a, DeployAssumption DEF Push, Types, Commits
  <1>d. /\ pushed' \in [Deliveries -> [sent : BOOLEAN, commit : Commits]]
        /\ pushed'[d].sent /\ pushed'[d].commit = c
        /\ \A e \in Deliveries \ {d} : pushed'[e] = pushed[e]
    BY <1>a, <1>c DEF Types
  <1>e. \A e \in Deliveries : pushed[e].sent => e # d /\ pushed'[e] = pushed[e]
    BY <1>b, <1>d
  <1>1. Types'
    BY SMTT(30), <1>a, <1>b, <1>c, <1>d, EventCounts DEF Types, Push
  <1>2. /\ ForeignKeys' /\ Counted' /\ Locked' /\ ExecutesWhatItRecords' /\ Once'
        /\ StagingIsIsolated' /\ Alive'
    BY ZenonT(30), <1>b DEF Inv, TypeOK, ForeignKeys, Counted, Locked, ExecutesWhatItRecords, Once, Holds,
                DeliveryQueuesOnce, StagingIsIsolated, Exists, Overlap, Alive, UnfinishedHasGoroutine
  <1>3. Fresh'
    <2>1. \A e \in Deliveries : pushed'[e].commit <= upstream'
      BY SMTT(30), <1>a, <1>c, <1>d, DeployAssumption DEF Fresh, Types, Commits
    <2>2. \A r \in RunIds : runs[r].delivery # NoDelivery =>
            runs[r].delivery \in Deliveries /\ pushed'[runs[r].delivery] = pushed[runs[r].delivery]
      BY ZenonT(30), <1>a, <1>e DEF Fresh, Types, Run
    <2>3. \A q \in Requests : requests[q].delivery # NoDelivery =>
            pushed'[requests[q].delivery] = pushed[requests[q].delivery]
      BY SMTT(30), <1>a, <1>e DEF Fresh, Types, Request
    <2>4. PushIsDeployed'
      BY <1>a, <1>b, <2>2 DEF Fresh, PushIsDeployed
    <2> QED BY SMTT(30), <1>a, <1>b, <2>1, <2>2, <2>3, <2>4 DEF Fresh
  <1> QED BY <1>1, <1>2, <1>3 DEF Inv, TypeOK

LEMMA RestartKeeps ==
  ASSUME Inv, Restart
  PROVE  Inv'
  <1>a. TypeOK /\ Types /\ ForeignKeys /\ Counted /\ Once /\ Fresh /\ Alive
    BY DEF Inv, TypeOK
  <1>b. /\ UNCHANGED <<targets, created, runs, queued, consumed, trees, upstream, pushed>>
        /\ crashes' = crashes + 1 /\ mu' = 0
    BY DEF Restart
  <1>c. \A q \in Requests : requests'[q].pc = "idle" /\ requests'[q].delivery = NoDelivery
    BY Defaults DEF Restart
  <1>d. \A r \in RunIds : jobs'[r].pc = "none"
    BY Defaults DEF Restart
  <1>1. Types'
    <2>1. crashes' \in 0..MaxCrashes /\ mu' \in 0..MaxRuns
      BY <1>a, DeployAssumption DEF Restart, Types
    <2>2. requests' \in [Requests -> Request] /\ jobs' \in [RunIds -> Job]
      BY SMTT(30), Defaults DEF Restart
    <2> QED BY <1>a, <1>b, <2>1, <2>2, EventCounts DEF Types, Restart
  <1>2. ForeignKeys' /\ StagingIsIsolated'
    BY ZenonT(30), <1>b DEF Inv, TypeOK, ForeignKeys, StagingIsIsolated, Exists, Overlap
  <1>3. Counted'
    BY <1>a, <1>b, <1>c, <1>d DEF Counted, Exists
  <1>4. Locked' /\ ExecutesWhatItRecords'
    BY <1>d DEF Locked, ExecutesWhatItRecords
  <1>5. Once'
    BY <1>a, <1>b, <1>c DEF Once, Holds, DeliveryQueuesOnce, Exists
  <1>6. Fresh'
    BY <1>a, <1>b, <1>c, <1>d DEF Fresh, PushIsDeployed
  <1>7. Alive'
    BY <1>a, <1>b, DeployAssumption DEF Alive, UnfinishedHasGoroutine, Types, Run
  <1> QED BY <1>1, <1>2, <1>3, <1>4, <1>5, <1>6, <1>7 DEF Inv, TypeOK

-----------------------------------------------------------------------------
LEMMA InvStep == Inv /\ [Next]_vars => Inv'
  <1> SUFFICES ASSUME Inv, [Next]_vars PROVE Inv'
    OBVIOUS
  <1>1. CASE \E d \in Deliveries : Push(d)
    BY <1>1, PushKeeps
  <1>2. CASE \/ \E dir \in Dirs, mode \in {"manual", "auto"} : CreateTarget(dir, mode)
             \/ \E t \in TargetIds, dir \in Dirs : CreateStagingTarget(t, dir)
             \/ \E t \in TargetIds, dir \in Dirs, mode \in {"disabled", "manual", "auto"} :
                   UpdateTarget(t, dir, mode)
    BY <1>2, EditsEdit, EditKeeps
  <1>3. CASE \E t \in TargetIds : DeleteTarget(t)
    BY <1>3, DeleteKeeps
  <1>4. ASSUME NEW q \in Requests,
               \/ \E t \in TargetIds, d \in Deliveries : WebhookArrives(q, t, d)
               \/ TriggerDeploy(q)
               \/ \E t \in TargetIds : ManualDeploy(q, t)
               \/ \E t \in TargetIds : Rollback(q, t)
               \/ Preflight(q)
               \/ ChooseRollback(q)
        PROVE  Inv'
    BY <1>4, StepsStep, StepKeeps
  <1>5. ASSUME NEW q \in Requests, RegisterWebhookDelivery(q) PROVE Inv'
    BY <1>5, RegisterKeeps
  <1>6. ASSUME NEW q \in Requests, Queue(q) PROVE Inv'
    BY <1>6, QueueKeeps
  <1>7. ASSUME NEW r \in RunIds,
               \/ ExecuteRun(r) \/ EnsureDeployCheckout(r) \/ GitPull(r) \/ GitCheckout(r)
               \/ Execute(r)
        PROVE  Inv'
    BY <1>7, JobsWork
  <1>8. CASE Restart
    BY SMTT(30), <1>8, RestartKeeps
  <1>9. CASE UNCHANGED vars
    BY ZenonT(30), <1>9 DEF vars, Inv, TypeOK, Types, ForeignKeys, Counted, Locked, ExecutesWhatItRecords, Once,
                Holds, DeliveryQueuesOnce, StagingIsIsolated, Exists, Overlap, Fresh,
                PushIsDeployed, Alive, UnfinishedHasGoroutine
  <1> QED BY <1>1, <1>2, <1>3, <1>4, <1>5, <1>6, <1>7, <1>8, <1>9 DEF Next

\* Inv is an invariant of the deploy service, whatever the interleaving of its
\* handlers, the goroutines of its runs, pushes and restarts.
THEOREM Invariance == Spec => []Inv
  BY InvInit, InvStep, PTL DEF Spec

\* The rows stay well-typed and no run, delivery or staging target is orphaned
\* by DeleteTarget.
THEOREM DeployTypes == Spec => []TypeOK
  <1>1. Inv => TypeOK
    BY DEF Inv
  <1> QED BY Invariance, <1>1, PTL

\* The commit executeRun is about to record is the one in the tree its executor
\* sees: Service.mu keeps the other runs out of a shared directory.
THEOREM RecordedCommitIsDeployed == Spec => []ExecutesWhatItRecords
  <1>1. Inv => ExecutesWhatItRecords
    BY DEF Inv
  <1> QED BY Invariance, <1>1, PTL

\* RegisterWebhookDelivery: no delivery queues two runs of a target, however its
\* retries interleave with restarts and with deletions of targets.
THEOREM RetriesQueueNothing == Spec => []DeliveryQueuesOnce
  <1>1. Inv => DeliveryQueuesOnce
    BY ZenonT(30) DEF Inv, Once
  <1> QED BY Invariance, <1>1, PTL

\* validateProductionProjectDir and validateIsolatedProjectDir keep the directory
\* of every staging target apart from all the others.
THEOREM StagingStaysIsolated == Spec => []StagingIsIsolated
  <1>1. Inv => StagingIsIsolated
    BY DEF Inv
  <1> QED BY Invariance, <1>1, PTL

\* GitPull runs under the mutex and after the delivery: a run that a push
\* triggered succeeds with that push or with a newer one.
THEOREM PushesAreDeployed == Spec => []PushIsDeployed
  <1>1. Inv => PushIsDeployed
    BY DEF Inv, Fresh
  <1> QED BY Invariance, <1>1, PTL

\* Every path through executeRun and executeRollback finalises the run: only a
\* restart of the panel leaves one pending or running without a goroutine.
THEOREM OnlyRestartsAbandon == Spec => []UnfinishedHasGoroutine
  <1>1. Inv => UnfinishedHasGoroutine
    BY DEF Inv, Alive
  <1> QED BY Invariance, <1>1, PTL
=============================================================================
