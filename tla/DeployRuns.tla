----------------------------- MODULE DeployRuns -----------------------------
(***************************************************************************)
(* The local deploy service: targets and their staging children, webhook,  *)
(* manual and rollback requests, the goroutine of each run, the mutex that *)
(* serialises them, and the Git trees they work in.                        *)
(*                                                                         *)
(* internal/services/deploy/{deploy,staging,webhooks,revisions}.go and the *)
(* deploy handlers of internal/api/handlers_deploy.go.                     *)
(*                                                                         *)
(* Every target follows one branch of one repository, whose commits are    *)
(* 1, 2, ... in the order in which they are pushed; 0 is the empty string  *)
(* of a commit column and the HEAD of a directory without a checkout.      *)
(* Handlers that hold Service.mu from their first read to their last write *)
(* are one step, taken while no run holds it.  Requests to trigger a run   *)
(* hold no lock and take one step per statement.                           *)
(***************************************************************************)
EXTENDS Naturals, FiniteSets

CONSTANTS
    Dirs,          \* project directories
    Nested,        \* the pairs {d, e} of directories one of which holds the other
    Requests,      \* HTTP handlers that can be at work at once
    Deliveries,    \* delivery identities of the Git provider
    NoDelivery,    \* the delivery of a run that no webhook triggered
    MaxTargets, MaxRuns, MaxCommit, MaxCrashes,
    MaxEvents      \* pushes, edits of targets, requests and restarts

ASSUME DeployAssumption ==
    /\ MaxTargets \in Nat /\ MaxRuns \in Nat /\ MaxCrashes \in Nat /\ MaxEvents \in Nat
    /\ MaxCommit \in Nat \ {0}
    /\ Dirs # {} /\ NoDelivery \notin Deliveries

VARIABLES
    targets,    \* deploy_targets: a row per identifier
    created,    \* its AUTOINCREMENT counter
    runs,       \* deploy_runs: a row per identifier
    queued,     \* its AUTOINCREMENT counter
    consumed,   \* deploy_webhook_deliveries: pairs of a target and a delivery
    requests,   \* the handlers at work
    jobs,       \* the goroutine of each run
    mu,         \* Service.mu: the run that holds it, or 0
    trees,      \* HEAD of the checkout in each directory
    upstream,   \* the newest commit of the branch at the provider
    pushed,     \* what each delivery announces: a commit, 0 another branch
    crashes,    \* restarts of the panel so far
    events      \* pushes, edits, requests and restarts so far

vars == <<targets, created, runs, queued, consumed, requests, jobs, mu, trees,
          upstream, pushed, crashes, events>>

TargetIds == 1..MaxTargets
RunIds == 1..MaxRuns
Commits == 0..MaxCommit

Row == [env : {"none", "production", "staging"}, dir : Dirs, source : 0..MaxTargets,
        mode : {"disabled", "manual", "auto"}]
Run == [target : 0..MaxTargets, trigger : {"manual", "webhook", "rollback"},
        status : {"none", "pending", "running", "success", "failed", "gone"},
        prev : Commits, commit : Commits,
        delivery : Deliveries \union {NoDelivery}, epoch : 0..MaxCrashes]
Request == [pc : {"idle", "register", "load", "preflight", "choose", "queue"},
            trigger : {"manual", "webhook", "rollback"}, target : 0..MaxTargets,
            delivery : Deliveries \union {NoDelivery}, accepts : BOOLEAN,
            dir : Dirs, to : Commits]
Job == [pc : {"none", "deploy", "rollback", "prepare", "pull", "checkout", "execute"},
        dir : Dirs, prev : Commits, commit : Commits]

\* A target that is in the table.
Exists(t) == targets[t].env # "none"

\* is_active and auto_deploy: an active target is deployed by hand or also by
\* pushes.
Active(t) == Exists(t) /\ targets[t].mode # "disabled"

\* One more thing that happens to the service, within the bound.
Event == events < MaxEvents /\ events' = events + 1

Overlap(d, e) == d = e \/ {d, e} \in Nested

NoTarget == [env |-> "none", dir |-> CHOOSE d \in Dirs : TRUE, source |-> 0,
             mode |-> "disabled"]
Idle == [pc |-> "idle", trigger |-> "manual", target |-> 0, delivery |-> NoDelivery,
         accepts |-> FALSE, dir |-> CHOOSE d \in Dirs : TRUE, to |-> 0]
NoJob == [pc |-> "none", dir |-> CHOOSE d \in Dirs : TRUE, prev |-> 0, commit |-> 0]

Init ==
    /\ targets = [t \in TargetIds |-> NoTarget]
    /\ created = 0
    /\ runs = [r \in RunIds |->
           [target |-> 0, trigger |-> "manual", status |-> "none", prev |-> 0,
            commit |-> 0, delivery |-> NoDelivery, epoch |-> 0]]
    /\ queued = 0
    /\ consumed = {}
    /\ requests = [q \in Requests |-> Idle]
    /\ jobs = [r \in RunIds |-> NoJob]
    /\ mu = 0
    /\ trees \in [Dirs -> {0, 1}]
    /\ upstream = 1
    /\ pushed = [d \in Deliveries |-> [sent |-> FALSE, commit |-> 0]]
    /\ crashes = 0
    /\ events = 0

(***************************************************************************)
(* The provider: a push to the branch or to another one, and its delivery. *)
(***************************************************************************)
Push(d) ==
    /\ ~pushed[d].sent /\ Event
    /\ \/ /\ upstream < MaxCommit
          /\ upstream' = upstream + 1
          /\ pushed' = [pushed EXCEPT ![d] = [sent |-> TRUE, commit |-> upstream + 1]]
       \/ /\ pushed' = [pushed EXCEPT ![d] = [sent |-> TRUE, commit |-> 0]]
          /\ UNCHANGED upstream
    /\ UNCHANGED <<targets, created, runs, queued, consumed, requests, jobs, mu,
                   trees, crashes>>

(***************************************************************************)
(* Targets.  validateProductionProjectDir and validateIsolatedProjectDir   *)
(* compare a directory with those of the other rows.                       *)
(***************************************************************************)
ProductionDirIsFree(t, dir) ==
    \A u \in TargetIds \ {t} : targets[u].env = "staging" => ~Overlap(dir, targets[u].dir)

IsolatedDirIsFree(t, dir) ==
    \A u \in TargetIds \ {t} : Exists(u) => ~Overlap(dir, targets[u].dir)

TablesOnly == UNCHANGED <<runs, queued, consumed, requests, jobs, mu, trees, upstream,
                          pushed, crashes>>

CreateTarget(dir, mode) ==
    /\ mu = 0 /\ created < MaxTargets /\ Event
    /\ ProductionDirIsFree(0, dir)
    /\ created' = created + 1
    /\ targets' = [targets EXCEPT ![created + 1] =
           [env |-> "production", dir |-> dir, source |-> 0, mode |-> mode]]
    /\ TablesOnly

CreateStagingTarget(source, dir) ==
    /\ mu = 0 /\ created < MaxTargets /\ Event
    /\ targets[source].env = "production"
    /\ IsolatedDirIsFree(0, dir)
    /\ created' = created + 1
    /\ targets' = [targets EXCEPT ![created + 1] =
           [env |-> "staging", dir |-> dir, source |-> source, mode |-> "manual"]]
    /\ TablesOnly

UpdateTarget_AnyDir(t, dir, mode) ==
    /\ mu = 0 /\ Exists(t) /\ Event
    /\ targets[t].env = "staging" => IsolatedDirIsFree(t, dir)
    /\ targets' = [targets EXCEPT ![t].dir = dir, ![t].mode = mode]
    /\ UNCHANGED created /\ TablesOnly

\* An update that carries the updatedAt of the row; any other is refused.
UpdateTarget(t, dir, mode) ==
    /\ mu = 0 /\ Exists(t) /\ Event
    /\ IF targets[t].env = "staging" THEN IsolatedDirIsFree(t, dir)
                                     ELSE ProductionDirIsFree(t, dir)
    /\ targets' = [targets EXCEPT ![t].dir = dir, ![t].mode = mode]
    /\ UNCHANGED created /\ TablesOnly

\* The delivery rows and, by ON DELETE CASCADE, the runs go with their target.
DeleteTarget(t) ==
    /\ mu = 0 /\ Exists(t) /\ Event
    /\ \A u \in TargetIds : Exists(u) => targets[u].source # t
    /\ targets' = [targets EXCEPT ![t] = NoTarget]
    /\ consumed' = {c \in consumed : c[1] # t}
    /\ runs' = [r \in RunIds |->
           IF runs[r].target = t
           THEN [runs[r] EXCEPT !.status = "gone", !.prev = 0, !.commit = 0] ELSE runs[r]]
    /\ UNCHANGED <<created, queued, requests, jobs, mu, trees, upstream, pushed, crashes>>

(***************************************************************************)
(* Requests that end in a run.                                             *)
(***************************************************************************)
RequestOnly == UNCHANGED <<targets, created, runs, queued, consumed, jobs, mu, trees,
                           upstream, pushed, crashes>>

\* handleDeployWebhook reads the target of an authenticated push delivery,
\* the first one or a provider's retry.
WebhookArrives(q, t, d) ==
    /\ requests[q].pc = "idle" /\ Exists(t) /\ pushed[d].sent /\ Event
    /\ requests' = [requests EXCEPT ![q] =
           [Idle EXCEPT !.pc = "register", !.trigger = "webhook", !.target = t, !.delivery = d,
                        !.accepts = targets[t].mode = "auto"]]
    /\ RequestOnly

\* What the handler does once the delivery is registered as new: the checks on
\* the row it read and on the ref, then TriggerDeploy.
AfterRegister(q) ==
    IF requests[q].accepts /\ pushed[requests[q].delivery].commit # 0
    THEN [requests EXCEPT ![q].pc = "load"]
    ELSE [requests EXCEPT ![q] = Idle]

RegisterWebhookDelivery_Replayed(q) ==
    /\ requests[q].pc = "register"
    /\ \/ /\ Exists(requests[q].target)
          /\ consumed' = consumed \union {<<requests[q].target, requests[q].delivery>>}
          /\ requests' = AfterRegister(q)
       \/ /\ ~Exists(requests[q].target)
          /\ requests' = [requests EXCEPT ![q] = Idle]
          /\ UNCHANGED consumed
    /\ UNCHANGED <<targets, created, runs, queued, jobs, mu, trees, upstream, pushed, crashes, events>>

\* INSERT ... ON CONFLICT DO NOTHING: one insert of a delivery succeeds; a
\* replay, or a target that is gone (a foreign key), ends the request.
RegisterWebhookDelivery(q) ==
    /\ requests[q].pc = "register"
    /\ LET key == <<requests[q].target, requests[q].delivery>> IN
       \/ /\ Exists(requests[q].target) /\ key \notin consumed
          /\ consumed' = consumed \union {key}
          /\ requests' = AfterRegister(q)
       \/ /\ ~Exists(requests[q].target) \/ key \in consumed
          /\ requests' = [requests EXCEPT ![q] = Idle]
          /\ UNCHANGED consumed
    /\ UNCHANGED <<targets, created, runs, queued, jobs, mu, trees, upstream, pushed, crashes, events>>

\* TriggerDeploy, called for a webhook, reads the target again.
TriggerDeploy(q) ==
    /\ requests[q].pc = "load"
    /\ LET t == requests[q].target IN
       IF Active(t)
       THEN requests' = [requests EXCEPT ![q].pc = "preflight", ![q].dir = targets[t].dir]
       ELSE requests' = [requests EXCEPT ![q] = Idle]
    /\ RequestOnly /\ UNCHANGED events

\* handleDeployManual: TriggerDeploy reads the target first.
ManualDeploy(q, t) ==
    /\ requests[q].pc = "idle" /\ Active(t) /\ Event
    /\ requests' = [requests EXCEPT ![q] =
           [Idle EXCEPT !.pc = "preflight", !.trigger = "manual", !.target = t,
                        !.dir = targets[t].dir]]
    /\ RequestOnly

\* handleDeployRollback: so does Rollback.
Rollback(q, t) ==
    /\ requests[q].pc = "idle" /\ Exists(t) /\ Event
    /\ requests' = [requests EXCEPT ![q] =
           [Idle EXCEPT !.pc = "preflight", !.trigger = "rollback", !.target = t,
                        !.dir = targets[t].dir]]
    /\ RequestOnly

\* Preflight reads the target once more and looks at the host: it refuses a
\* disabled or deleted target and passes or refuses any other.
Preflight(q) ==
    /\ requests[q].pc = "preflight"
    /\ \/ /\ Active(requests[q].target)
          /\ requests' = [requests EXCEPT ![q].pc =
                 IF requests[q].trigger = "rollback" THEN "choose" ELSE "queue"]
       \/ requests' = [requests EXCEPT ![q] = Idle]
    /\ RequestOnly /\ UNCHANGED events

\* The successful runs of a target that recorded the commit before them.
Reversible(t) ==
    {r \in RunIds : runs[r].target = t /\ runs[r].status = "success" /\ runs[r].prev # 0}

\* Rollback selects prev_commit of the one with the greatest identifier.
ChooseRollback(q) ==
    /\ requests[q].pc = "choose"
    /\ LET found == Reversible(requests[q].target) IN
       \/ /\ found = {}
          /\ requests' = [requests EXCEPT ![q] = Idle]
       \/ \E r \in found :
             /\ \A s \in found : s <= r
             /\ requests' = [requests EXCEPT ![q].pc = "queue", ![q].to = runs[r].prev]
    /\ RequestOnly /\ UNCHANGED events

\* INSERT INTO deploy_runs and go executeRun or executeRollback; the foreign
\* key refuses a target that is gone.
Queue(q) ==
    /\ requests[q].pc = "queue" /\ queued < MaxRuns
    /\ LET rq == requests[q] IN
       \/ /\ Exists(rq.target)
          /\ queued' = queued + 1
          /\ runs' = [runs EXCEPT ![queued + 1] =
                 [target |-> rq.target, trigger |-> rq.trigger, status |-> "pending",
                  prev |-> 0, commit |-> rq.to, delivery |-> rq.delivery, epoch |-> crashes]]
          /\ jobs' = [jobs EXCEPT ![queued + 1] =
                 [pc |-> IF rq.trigger = "rollback" THEN "rollback" ELSE "deploy",
                  dir |-> rq.dir, prev |-> 0, commit |-> rq.to]]
       \/ /\ ~Exists(rq.target)
          /\ UNCHANGED <<queued, runs, jobs>>
    /\ requests' = [requests EXCEPT ![q] = Idle]
    /\ UNCHANGED <<targets, created, consumed, mu, trees, upstream, pushed, crashes, events>>

(***************************************************************************)
(* The goroutine of a run, executeRun or executeRollback, works with the   *)
(* target its request read.  A command ends within its timeout, well or    *)
(* not.  An UPDATE of a run that is gone changes no row.                   *)
(***************************************************************************)
JobOnly == UNCHANGED <<targets, created, queued, consumed, requests, upstream, pushed, crashes,
                     events>>

ExecuteRun_Unlocked(r) ==
    /\ jobs[r].pc \in {"deploy", "rollback"}
    /\ mu' = r
    /\ jobs' = [jobs EXCEPT ![r].pc = IF @ = "deploy" THEN "prepare" ELSE "checkout"]
    /\ runs' = [runs EXCEPT ![r].status = IF @ = "gone" THEN @ ELSE "running"]
    /\ UNCHANGED trees /\ JobOnly

\* s.mu.Lock and setRunStatus(running).
ExecuteRun(r) ==
    /\ jobs[r].pc \in {"deploy", "rollback"}
    /\ mu = 0
    /\ mu' = r
    /\ jobs' = [jobs EXCEPT ![r].pc = IF @ = "deploy" THEN "prepare" ELSE "checkout"]
    /\ runs' = [runs EXCEPT ![r].status = IF @ = "gone" THEN @ ELSE "running"]
    /\ UNCHANGED trees /\ JobOnly

\* finaliseRun, and the deferred unlock.
FinaliseRun(r, status, prev, commit) ==
    /\ runs' = [runs EXCEPT ![r] = IF @.status = "gone" THEN @
           ELSE [@ EXCEPT !.status = status, !.prev = prev, !.commit = commit]]
    /\ jobs' = [jobs EXCEPT ![r] = NoJob]
    /\ mu' = 0
    /\ JobOnly

EnsureDeployCheckout_Silent(r) ==
    /\ jobs[r].pc = "prepare"
    /\ LET dir == jobs[r].dir IN
       \/ /\ trees[dir] # 0
          /\ \E prev \in {trees[dir], 0} :
                jobs' = [jobs EXCEPT ![r].pc = "pull", ![r].prev = prev]
          /\ UNCHANGED <<runs, mu, trees>> /\ JobOnly
       \/ /\ trees[dir] = 0
          /\ trees' = [trees EXCEPT ![dir] = upstream]
          /\ \E commit \in {upstream, 0} :
                jobs' = [jobs EXCEPT ![r].pc = "execute", ![r].commit = commit]
          /\ UNCHANGED <<runs, mu>> /\ JobOnly
       \/ /\ trees[dir] = 0
          /\ jobs' = [jobs EXCEPT ![r] = NoJob]
          /\ mu' = 0
          /\ UNCHANGED <<runs, trees>> /\ JobOnly

\* An existing checkout gives the commit to roll back to, unless its HEAD
\* cannot be read; an empty directory is cloned into, or the clone fails.
EnsureDeployCheckout(r) ==
    /\ jobs[r].pc = "prepare"
    /\ LET dir == jobs[r].dir IN
       \/ /\ trees[dir] # 0
          /\ \E prev \in {trees[dir], 0} :
                jobs' = [jobs EXCEPT ![r].pc = "pull", ![r].prev = prev]
          /\ UNCHANGED <<runs, mu, trees>> /\ JobOnly
       \/ /\ trees[dir] = 0
          /\ trees' = [trees EXCEPT ![dir] = upstream]
          /\ \E commit \in {upstream, 0} :
                jobs' = [jobs EXCEPT ![r].pc = "execute", ![r].commit = commit]
          /\ UNCHANGED <<runs, mu>> /\ JobOnly
       \/ /\ trees[dir] = 0
          /\ FinaliseRun(r, "failed", 0, 0)
          /\ UNCHANGED trees

GitPull_Cached(r) ==
    /\ jobs[r].pc = "pull"
    /\ jobs' = [jobs EXCEPT ![r].pc = "execute", ![r].commit = trees[jobs[r].dir]]
    /\ UNCHANGED <<runs, mu, trees>> /\ JobOnly

\* git pull --ff-only and the new HEAD, or a failed pull.
GitPull(r) ==
    /\ jobs[r].pc = "pull"
    /\ \/ /\ trees' = [trees EXCEPT ![jobs[r].dir] = upstream]
          /\ \E commit \in {upstream, 0} :
                jobs' = [jobs EXCEPT ![r].pc = "execute", ![r].commit = commit]
          /\ UNCHANGED <<runs, mu>> /\ JobOnly
       \/ /\ FinaliseRun(r, "failed", jobs[r].prev, 0)
          /\ UNCHANGED trees

\* executeRollback: git checkout of the chosen commit, which fails where the
\* directory has no checkout or the checkout lacks the commit.
GitCheckout(r) ==
    /\ jobs[r].pc = "checkout"
    /\ \/ /\ trees[jobs[r].dir] # 0
          /\ trees' = [trees EXCEPT ![jobs[r].dir] = jobs[r].commit]
          /\ jobs' = [jobs EXCEPT ![r].pc = "execute"]
          /\ UNCHANGED <<runs, mu>> /\ JobOnly
       \/ /\ FinaliseRun(r, "failed", 0, jobs[r].commit)
          /\ UNCHANGED trees

\* runDeploymentExecutor and the end of the run.
Execute(r) ==
    /\ jobs[r].pc = "execute"
    /\ \E status \in {"success", "failed"} :
          FinaliseRun(r, status, jobs[r].prev, jobs[r].commit)
    /\ UNCHANGED trees

(***************************************************************************)
(* The panel stops.  Handlers, goroutines and the mutex go; the tables and *)
(* the trees stay.  Nothing looks at unfinished runs when it starts again. *)
(***************************************************************************)
Restart ==
    /\ crashes < MaxCrashes /\ Event
    /\ crashes' = crashes + 1
    /\ requests' = [q \in Requests |-> Idle]
    /\ jobs' = [r \in RunIds |-> NoJob]
    /\ mu' = 0
    /\ UNCHANGED <<targets, created, runs, queued, consumed, trees, upstream, pushed>>

Next ==
    \/ \E d \in Deliveries : Push(d)
    \/ \E dir \in Dirs, mode \in {"manual", "auto"} : CreateTarget(dir, mode)
    \/ \E t \in TargetIds, dir \in Dirs : CreateStagingTarget(t, dir)
    \/ \E t \in TargetIds, dir \in Dirs, mode \in {"disabled", "manual", "auto"} :
          UpdateTarget(t, dir, mode)
    \/ \E t \in TargetIds : DeleteTarget(t)
    \/ \E q \in Requests :
          \/ \E t \in TargetIds, d \in Deliveries : WebhookArrives(q, t, d)
          \/ RegisterWebhookDelivery(q)
          \/ TriggerDeploy(q)
          \/ \E t \in TargetIds : ManualDeploy(q, t)
          \/ \E t \in TargetIds : Rollback(q, t)
          \/ Preflight(q)
          \/ ChooseRollback(q)
          \/ Queue(q)
    \/ \E r \in RunIds :
          \/ ExecuteRun(r)
          \/ EnsureDeployCheckout(r)
          \/ GitPull(r)
          \/ GitCheckout(r)
          \/ Execute(r)
    \/ Restart

Spec == Init /\ [][Next]_vars

-----------------------------------------------------------------------------
Types ==
    /\ targets \in [TargetIds -> Row]
    /\ created \in 0..MaxTargets
    /\ runs \in [RunIds -> Run]
    /\ queued \in 0..MaxRuns
    /\ consumed \subseteq TargetIds \X Deliveries
    /\ requests \in [Requests -> Request]
    /\ jobs \in [RunIds -> Job]
    /\ mu \in 0..MaxRuns
    /\ trees \in [Dirs -> Commits]
    /\ upstream \in 1..MaxCommit
    /\ pushed \in [Deliveries -> [sent : BOOLEAN, commit : Commits]]
    /\ crashes \in 0..MaxCrashes
    /\ events \in 0..MaxEvents

\* What the foreign keys and the mutex keep true of the tables: the target of a
\* run or a delivery and the production source of a staging target are there.
ForeignKeys ==
    /\ \A r \in RunIds : runs[r].status \notin {"none", "gone"} =>
           runs[r].target \in TargetIds /\ Exists(runs[r].target)
    /\ \A c \in consumed : Exists(c[1])
    /\ \A t \in TargetIds : targets[t].env = "staging" =>
           targets[t].source \in TargetIds /\ targets[targets[t].source].env = "production"

\* Types and references.  DeleteTarget refuses a target with staging children and
\* takes the runs and the deliveries with it, so that nothing is orphaned.
TypeOK == Types /\ ForeignKeys

\* Service.mu "prevents two concurrent deployments from racing on a shared git
\* tree" (deploy.go:34): the commit a run is about to record as deployed is the
\* one its executor finds in the directory, even when targets share it.
ExecutesWhatItRecords ==
    \A r \in RunIds : jobs[r].pc = "execute" => jobs[r].commit \in {0, trees[jobs[r].dir]}

\* RegisterWebhookDelivery: "A duplicate never queues another deployment,
\* including across restarts" (webhooks.go:182), whatever happens to the target
\* while the handlers of a delivery and its retries are at work.
DeliveryQueuesOnce ==
    \A r, s \in RunIds :
        /\ runs[r].delivery = runs[s].delivery /\ runs[r].delivery # NoDelivery
        /\ runs[r].target = runs[s].target
        => r = s

\* No sequence of creations, moves and deletions of targets lets a staging
\* directory overlap that of another target (validateIsolatedProjectDir,
\* validateProductionProjectDir).
StagingIsIsolated ==
    \A t, u \in TargetIds :
        t # u /\ targets[t].env = "staging" /\ Exists(u) => ~Overlap(targets[t].dir, targets[u].dir)

\* A successful deployment that a push triggered is not older than that push,
\* however long its run waited for the mutex and whatever ran before it.
PushIsDeployed ==
    \A r \in RunIds :
        runs[r].status = "success" /\ runs[r].delivery # NoDelivery /\ runs[r].commit # 0
        => runs[r].commit >= pushed[runs[r].delivery].commit

\* A run that is pending or running has a goroutine that will finish it, unless
\* the panel was restarted after it was queued.
UnfinishedHasGoroutine ==
    \A r \in RunIds :
        runs[r].status \in {"pending", "running"} /\ runs[r].epoch = crashes
        => jobs[r].pc # "none"
=============================================================================
