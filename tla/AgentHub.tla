------------------------------ MODULE AgentHub ------------------------------
(***************************************************************************)
(* The hub side of the managed-agent protocol: internal/agenthub.          *)
(*                                                                         *)
(* The hub keeps three tables in SQLite: the nodes with the snapshot of    *)
(* their last heartbeat, the panel-owned desired profile of each node, and *)
(* the task queue.  The database has one connection, so every statement    *)
(* and every transaction is one atomic step; what a handler does between   *)
(* two of them interleaves with every other handler, restrained only by    *)
(* the mutexes of Service.  Each request of the panel is therefore a small *)
(* process that advances one database access at a time.                    *)
(*                                                                         *)
(* A task's identifier is its index in the sequence of tasks: the table    *)
(* has an AUTOINCREMENT key and no statement deletes from it.  The desired *)
(* profile of a node is the sequence of the profiles saved for it: the     *)
(* table holds the last element and its index, the revision; the earlier   *)
(* elements are history that only the properties read.                     *)
(***************************************************************************)
EXTENDS Naturals, Sequences, FiniteSets

CONSTANTS
  Nodes,            \* managed nodes
  Profiles,         \* values a desired profile can take
  Domains,          \* target/domain pairs of deploy.domain.action ensure
  PlainKinds,       \* task kinds that POST /nodes/{id}/tasks may create
  CoalescedKinds,   \* task kinds whose endpoint reuses an in-flight task
  CapabilitySets,   \* capability sets an agent may advertise
  Requests,         \* concurrent panel requests
  None,             \* no observation, no payload key, no mutex holder
  ListLimit,        \* how many recent tasks a coalescing endpoint reads (50)
  MaxTasks,         \* bound of the model: tasks ever created
  MaxRevision       \* bound of the model: revisions ever saved

ProfileApply == "agent.profile.apply"
Ensure == "deploy.domain.ensure"
Probes == {"integration.status", "metrics.read"}

ASSUME ConstantsAssumption ==
  /\ ProfileApply \notin PlainKinds \union CoalescedKinds
  /\ Ensure \notin PlainKinds
  /\ CoalescedKinds \subseteq Probes \union {Ensure}
  /\ CapabilitySets \subseteq SUBSET ({ProfileApply} \union PlainKinds \union CoalescedKinds)
  /\ None \notin Requests \union Nodes \union Profiles \union Domains
  /\ ListLimit \in Nat \ {0}
  /\ MaxTasks \in Nat
  /\ MaxRevision \in Nat

Kinds == {ProfileApply} \union PlainKinds \union CoalescedKinds
Keys == Profiles \union Domains \union {None}
Status == {"queued", "running", "completed", "failed"}
InFlightStatus == {"queued", "running"}
ObservedStates == {"not_configured", "pending_restart", "applied", "failed"}
Observations == [state : ObservedStates, revision : Nat]
ReportedObservations ==
  [state : ObservedStates, revision : 0 .. MaxRevision] \union {None}

\* The kind and payload key a coalescing endpoint can be asked for.
CoalescedWork ==
  ((CoalescedKinds \intersect {Ensure}) \X Domains)
    \union ((CoalescedKinds \intersect Probes) \X {None})

\* The critical sections of Service: one mutex for profile changes and one
\* for each coalescing endpoint.
Mutexes == {ProfileApply} \union CoalescedKinds

\* A task row.  key is the payload that identifies the work (the profile of
\* an apply, the domain of an ensure), revision the profile revision of an
\* apply or the expected_revision of an ensure.  coalesced is history: the
\* row was inserted by a coalescing endpoint.
Task == [node : Nodes, kind : Kinds, key : Keys, revision : Nat,
         status : Status, coalesced : BOOLEAN]

NoRequest == [stage |-> "idle", node |-> None, kind |-> ProfileApply,
              key |-> None, revision |-> 0]

\* What a panel request is about to do, for which node and which payload.
ApplyStages == {"apply.latest", "apply.create"}
CoalesceStages == {"coalesce.list", "coalesce.insert"}
Request ==
  {NoRequest} \union
  [stage : ApplyStages \union CoalesceStages \union {"enqueue.insert"},
   node : Nodes, kind : Kinds, key : Keys, revision : Nat]

VARIABLES
  registered,   \* nodes with a row in agent_nodes
  caps,         \* capabilities of the last accepted heartbeat
  online,       \* the last heartbeat is within NodeOnlineWindow
  saved,        \* desired profiles saved for each node, oldest first
  observation,  \* profile observation of the last accepted heartbeat
  tasks,        \* the task table in insertion order
  mutex,        \* holder of each mutex
  request       \* what each panel request is about to do

vars == <<registered, caps, online, saved, observation, tasks, mutex, request>>

-----------------------------------------------------------------------------
(* The tables as the handlers read them.                                   *)

Revision(n) == Len(saved[n])

\* IsNodeOnline reads last_seen_at of a row that exists.
IsNodeOnline(n) == online[n]

HasCapability(n, k) == k \in caps[n]

Observed(n, state, r) ==
  observation[n] = [state |-> state, revision |-> r]

ApplyTasks(n) ==
  {i \in DOMAIN tasks : tasks[i].node = n /\ tasks[i].kind = ProfileApply}

InFlightApply(n) == {i \in ApplyTasks(n) : tasks[i].status \in InFlightStatus}

\* Mutant: the latest task is read in ascending order.
FirstApply(n, i) == i \in ApplyTasks(n) /\ \A j \in ApplyTasks(n) : i <= j

\* GetLatestProfileApplyTask: the newest apply task of the node.
LatestApply(n, i) == i \in ApplyTasks(n) /\ \A j \in ApplyTasks(n) : j <= i

\* ListTasksForNode with a limit: task i is among the newest rows of its node.
Recent(n, i) ==
  /\ tasks[i].node = n
  /\ Cardinality({j \in DOMAIN tasks : tasks[j].node = n /\ j > i}) < ListLimit

\* The row a coalescing endpoint would reuse.
Reusable(n, kind, key, i) ==
  /\ Recent(n, i)
  /\ tasks[i].kind = kind
  /\ tasks[i].status \in InFlightStatus
  /\ tasks[i].key = key

\* The receipt of an apply of revision r is still awaiting its heartbeat.
AwaitingHeartbeat(n, r) ==
  /\ \E i \in DOMAIN tasks : /\ LatestApply(n, i)
                             /\ tasks[i].status = "completed"
                             /\ tasks[i].revision = r
  /\ ~Observed(n, "failed", r)

\* profileResponse derives the apply state it shows from the desired row,
\* the observation and the latest apply task; an observation outweighs the
\* task, and counts only while the node advertises the capability.
ApplyState(n) ==
  LET capable == HasCapability(n, ProfileApply)
      configured == Revision(n) > 0
      current == {i \in DOMAIN tasks : /\ configured
                                       /\ LatestApply(n, i)
                                       /\ tasks[i].revision = Revision(n)}
      reported(state) == configured /\ Observed(n, state, Revision(n))
      latest(status) == \E i \in current : tasks[i].status = status
  IN CASE ~capable -> "manual_required"
       [] capable /\ reported("applied") -> "applied"
       [] capable /\ reported("pending_restart") -> "awaiting_heartbeat"
       [] capable /\ reported("failed") -> "failed"
       [] OTHER ->
            IF latest("queued") THEN "queued"
            ELSE IF latest("running") THEN "running"
            ELSE IF latest("completed") THEN "awaiting_heartbeat"
            ELSE IF latest("failed") THEN "failed"
            ELSE IF /\ configured
                    /\ observation[n] # None
                    /\ observation[n].revision # Revision(n) THEN "drifted"
            ELSE "not_requested"

-----------------------------------------------------------------------------
(* Requests.                                                               *)

Return(q) == request' = [request EXCEPT ![q] = NoRequest]

Unlock(m) == mutex' = [mutex EXCEPT ![m] = None]

Goto(q, stage) == request' = [request EXCEPT ![q].stage = stage]

\* A new request may start: it is not running, and the tasks that the running
\* requests can still insert stay within the bound.
MayStart(q) ==
  /\ request[q].stage = "idle"
  /\ Len(tasks) + Cardinality({p \in Requests : request[p].stage # "idle"})
       < MaxTasks

Start(q, stage, n, kind, key, r) ==
  /\ MayStart(q)
  /\ request' = [request EXCEPT ![q] =
       [stage |-> stage, node |-> n, kind |-> kind, key |-> key, revision |-> r]]

Insert(n, kind, key, r, coalesced) ==
  tasks' = Append(tasks, [node |-> n, kind |-> kind, key |-> key,
                          revision |-> r, status |-> "queued",
                          coalesced |-> coalesced])

-----------------------------------------------------------------------------
(* Nodes.                                                                  *)

RegisterNode(n) ==
  /\ n \notin registered
  /\ registered' = registered \union {n}
  /\ UNCHANGED <<caps, online, saved, observation, tasks, mutex, request>>

\* An accepted heartbeat replaces the whole snapshot of the node in one
\* transaction, under profileApplyMu.  A heartbeat that lacks the capability
\* or the observation clears the stored observation.
Heartbeat(n, c, o) ==
  /\ n \in registered
  /\ mutex[ProfileApply] = None
  /\ caps' = [caps EXCEPT ![n] = c]
  /\ online' = [online EXCEPT ![n] = TRUE]
  /\ observation' = [observation EXCEPT ![n] =
       IF ProfileApply \in c THEN o ELSE None]
  /\ UNCHANGED <<registered, saved, tasks, mutex, request>>

\* NodeOnlineWindow passes without a heartbeat.
HeartbeatExpires(n) ==
  /\ online[n]
  /\ online' = [online EXCEPT ![n] = FALSE]
  /\ UNCHANGED <<registered, caps, saved, observation, tasks, mutex, request>>

-----------------------------------------------------------------------------
(* The desired profile and its apply task.                                 *)

\* SaveNodeProfile is one transaction: the revision check and the write.
UpdateNodeProfile(n, p, expected) ==
  /\ n \in registered
  /\ Revision(n) < MaxRevision
  /\ expected = Revision(n)
  /\ saved' = [saved EXCEPT ![n] = Append(@, p)]
  /\ UNCHANGED <<registered, caps, online, observation, tasks, mutex, request>>

\* ApplyNodeProfile takes profileApplyMu and passes the checks that come
\* before the task table is read.  Every failed check returns an error, or
\* "already applied", and leaves the state as it was.
ApplyNodeProfile(q, n, r) ==
  /\ n \in registered
  /\ mutex[ProfileApply] = None
  /\ Revision(n) >= 1
  /\ Revision(n) = r
  /\ HasCapability(n, ProfileApply)
  /\ ~Observed(n, "applied", r)
  /\ IsNodeOnline(n)
  /\ mutex' = [mutex EXCEPT ![ProfileApply] = q]
  /\ Start(q, "apply.latest", n, ProfileApply, saved[n][r], r)
  /\ UNCHANGED <<registered, caps, online, saved, observation, tasks>>

\* The second read of ApplyNodeProfile: a receipt that still awaits its
\* heartbeat is returned instead of queueing another apply.
ApplyReadLatest(q) ==
  /\ request[q].stage = "apply.latest"
  /\ \/ /\ AwaitingHeartbeat(request[q].node, request[q].revision)
        /\ Return(q)
        /\ Unlock(ProfileApply)
     \/ /\ ~AwaitingHeartbeat(request[q].node, request[q].revision)
        /\ Goto(q, "apply.create")
        /\ UNCHANGED mutex
  /\ UNCHANGED <<registered, caps, online, saved, observation, tasks>>

\* Mutant: the transaction repeats every check but the in-flight one.
MayCreateAnotherApply(n, r, p) ==
  /\ Revision(n) = r
  /\ saved[n][r] = p
  /\ ~Observed(n, "applied", r)

\* The transaction of CreateProfileApplyTask repeats the revision, profile,
\* observation and in-flight checks.
MayCreateApply(n, r, p) ==
  /\ r >= 1
  /\ Revision(n) = r
  /\ saved[n][r] = p
  /\ ~Observed(n, "applied", r)
  /\ InFlightApply(n) = {}

\* Mutant: the transaction takes the stored profile, not the one checked.
CreateApplyFromStoredRow(q) ==
  LET n == request[q].node
  IN /\ request[q].stage = "apply.create"
     /\ \/ /\ InFlightApply(n) = {}
           /\ Insert(n, ProfileApply, saved[n][Revision(n)], request[q].revision, FALSE)
        \/ /\ InFlightApply(n) # {}
           /\ UNCHANGED tasks
     /\ Return(q)
     /\ Unlock(ProfileApply)
     /\ UNCHANGED <<registered, caps, online, saved, observation>>

CreateProfileApplyTask(q) ==
  LET n == request[q].node
      r == request[q].revision
      p == request[q].key
  IN /\ request[q].stage = "apply.create"
     /\ \/ /\ MayCreateApply(n, r, p)
           /\ Insert(n, ProfileApply, p, r, FALSE)
        \/ /\ ~MayCreateApply(n, r, p)
           /\ UNCHANGED tasks
     /\ Return(q)
     /\ Unlock(ProfileApply)
     /\ UNCHANGED <<registered, caps, online, saved, observation>>

-----------------------------------------------------------------------------
(* The other task kinds.                                                   *)

\* EnqueueTask reads the node, and inserts in a second statement.
EnqueueTask(q, n, kind) ==
  /\ n \in registered
  /\ HasCapability(n, kind)
  /\ IsNodeOnline(n)
  /\ Start(q, "enqueue.insert", n, kind, None, 0)
  /\ UNCHANGED <<registered, caps, online, saved, observation, tasks, mutex>>

CreateTask(q) ==
  /\ request[q].stage = "enqueue.insert"
  /\ Insert(request[q].node, request[q].kind, None, 0, FALSE)
  /\ Return(q)
  /\ UNCHANGED <<registered, caps, online, saved, observation, mutex>>

\* Mutant: the endpoint does not wait for the mutex of its kind.
EnqueueWithoutMutex(q, n, kind, key, r) ==
  /\ n \in registered
  /\ HasCapability(n, kind)
  /\ IsNodeOnline(n)
  /\ mutex' = [mutex EXCEPT ![kind] = q]
  /\ Start(q, "coalesce.list", n, kind, key, r)
  /\ UNCHANGED <<registered, caps, online, saved, observation, tasks>>

\* enqueueDeployDomainEnsure, EnqueueIntegrationStatusTask and
\* EnqueueMetricsTask take the mutex of their kind and read the node.
EnqueueCoalesced(q, n, kind, key, r) ==
  /\ n \in registered
  /\ mutex[kind] = None
  /\ HasCapability(n, kind)
  /\ IsNodeOnline(n)
  /\ mutex' = [mutex EXCEPT ![kind] = q]
  /\ Start(q, "coalesce.list", n, kind, key, r)
  /\ UNCHANGED <<registered, caps, online, saved, observation, tasks>>

\* They then read the newest tasks: one in flight for the same work is
\* returned, or, for an ensure of another revision, refused as a conflict.
CoalesceList(q) ==
  LET reusable == {i \in DOMAIN tasks :
        Reusable(request[q].node, request[q].kind, request[q].key, i)}
  IN /\ request[q].stage = "coalesce.list"
     /\ \/ /\ reusable # {}
           /\ Return(q)
           /\ Unlock(request[q].kind)
        \/ /\ reusable = {}
           /\ Goto(q, "coalesce.insert")
           /\ UNCHANGED mutex
     /\ UNCHANGED <<registered, caps, online, saved, observation, tasks>>

CoalesceInsert(q) ==
  /\ request[q].stage = "coalesce.insert"
  /\ Insert(request[q].node, request[q].kind, request[q].key,
            request[q].revision, TRUE)
  /\ Return(q)
  /\ Unlock(request[q].kind)
  /\ UNCHANGED <<registered, caps, online, saved, observation>>

-----------------------------------------------------------------------------
(* The agent's side of the queue.                                          *)

OldestQueued(n, i) ==
  /\ tasks[i].node = n
  /\ tasks[i].status = "queued"
  /\ \A j \in 1 .. i - 1 : ~(tasks[j].node = n /\ tasks[j].status = "queued")

\* ClaimNextTask selects and claims in one UPDATE ... RETURNING.
ClaimNextTask(n, i) ==
  /\ OldestQueued(n, i)
  /\ tasks' = [tasks EXCEPT ![i].status = "running"]
  /\ UNCHANGED <<registered, caps, online, saved, observation, mutex, request>>

\* Mutant: a result is stored whatever the status of the row.
CompleteAnyTask(n, i, s) ==
  /\ tasks[i].node = n
  /\ tasks' = [tasks EXCEPT ![i].status = s]
  /\ UNCHANGED <<registered, caps, online, saved, observation, mutex, request>>

\* CompleteTask updates the row only while it is running and owned by n.
CompleteTask(n, i, s) ==
  /\ tasks[i].node = n
  /\ tasks[i].status = "running"
  /\ tasks' = [tasks EXCEPT ![i].status = s]
  /\ UNCHANGED <<registered, caps, online, saved, observation, mutex, request>>

-----------------------------------------------------------------------------
\* The panel process dies and comes back: its requests and mutexes are gone,
\* the database is not.
PanelRestart ==
  /\ \E q \in Requests : request[q].stage # "idle"
  /\ request' = [q \in Requests |-> NoRequest]
  /\ mutex' = [m \in Mutexes |-> None]
  /\ UNCHANGED <<registered, caps, online, saved, observation, tasks>>

Init ==
  /\ registered = {}
  /\ caps = [n \in Nodes |-> {}]
  /\ online = [n \in Nodes |-> FALSE]
  /\ saved = [n \in Nodes |-> <<>>]
  /\ observation = [n \in Nodes |-> None]
  /\ tasks = <<>>
  /\ mutex = [m \in Mutexes |-> None]
  /\ request = [q \in Requests |-> NoRequest]

Next ==
  \/ \E n \in Nodes :
       \/ RegisterNode(n)
       \/ HeartbeatExpires(n)
       \/ \E c \in CapabilitySets, o \in ReportedObservations : Heartbeat(n, c, o)
       \/ \E p \in Profiles, e \in 0 .. MaxRevision : UpdateNodeProfile(n, p, e)
       \/ \E i \in DOMAIN tasks : ClaimNextTask(n, i)
       \/ \E i \in DOMAIN tasks, s \in {"completed", "failed"} : CompleteTask(n, i, s)
  \/ \E q \in Requests :
       \/ \E n \in Nodes, r \in 1 .. MaxRevision : ApplyNodeProfile(q, n, r)
       \/ ApplyReadLatest(q)
       \/ CreateProfileApplyTask(q)
       \/ \E n \in Nodes, k \in PlainKinds : EnqueueTask(q, n, k)
       \/ CreateTask(q)
       \/ \E n \in Nodes, w \in CoalescedWork, r \in 0 .. MaxRevision :
            EnqueueCoalesced(q, n, w[1], w[2], IF w[1] = Ensure THEN r ELSE 0)
       \/ CoalesceList(q)
       \/ CoalesceInsert(q)
  \/ PanelRestart

Spec == Init /\ [][Next]_vars

-----------------------------------------------------------------------------
(* Properties.                                                             *)

\* The tables, the mutexes and the requests have the shape the code gives
\* them.
TypeOK ==
  /\ registered \subseteq Nodes
  /\ caps \in [Nodes -> SUBSET Kinds]
  /\ online \in [Nodes -> BOOLEAN]
  /\ saved \in [Nodes -> Seq(Profiles)]
  /\ observation \in [Nodes -> Observations \union {None}]
  /\ tasks \in Seq(Task)
  /\ mutex \in [Mutexes -> Requests \union {None}]
  /\ request \in [Requests -> Request]

\* CreateProfileApplyTask "coalesces a queued/running profile apply": a node
\* never has two apply tasks in flight, whichever requests, saves, claims,
\* completions and restarts interleave.
ProfileSingleFlight ==
  \A n \in Nodes : \A i, j \in InFlightApply(n) : i = j

\* An apply task carries the profile that was saved under the revision it
\* names, although the profile is read before the transaction that inserts
\* the task and UpdateNodeProfile does not take profileApplyMu.
ApplyCarriesSavedProfile ==
  \A i \in DOMAIN tasks : tasks[i].kind = ProfileApply =>
    /\ tasks[i].revision \in DOMAIN saved[tasks[i].node]
    /\ tasks[i].key = saved[tasks[i].node][tasks[i].revision]

\* ClaimNextTask hands the tasks of a node out in creation order: while a task
\* is queued no later task of the node has left the queue.
ClaimedInOrder ==
  \A i, j \in DOMAIN tasks :
    (i < j /\ tasks[i].node = tasks[j].node /\ tasks[i].status = "queued")
      => tasks[j].status = "queued"

\* The coalescing endpoints create a second task for work that is in flight
\* only when the first one has dropped out of the newest ListLimit tasks of
\* its node.
CoalescedWithinWindow ==
  \A i, j \in DOMAIN tasks :
    ( /\ i < j
      /\ tasks[i].coalesced /\ tasks[j].coalesced
      /\ tasks[i].status \in InFlightStatus
      /\ tasks[i].node = tasks[j].node
      /\ tasks[i].kind = tasks[j].kind
      /\ tasks[i].key = tasks[j].key )
    => Cardinality({k \in i + 1 .. j - 1 : tasks[k].node = tasks[i].node})
         >= ListLimit

\* While an apply of the desired revision is in flight at a capable node, the
\* panel shows it as requested: profileResponse never falls back to
\* not_requested, drifted or manual_required.
InFlightApplyIsShown ==
  \A n \in Nodes :
    ( /\ HasCapability(n, ProfileApply)
      /\ \E i \in InFlightApply(n) : tasks[i].revision = Revision(n) )
    => ApplyState(n) \in
         {"queued", "running", "awaiting_heartbeat", "applied", "failed"}

\* Request q is between the Lock and the deferred Unlock of mutex m.
Inside(q, m) ==
  /\ request[q].kind = m
  /\ request[q].stage \in IF m = ProfileApply THEN ApplyStages ELSE CoalesceStages

\* A mutex is held by exactly the request that is inside its critical section:
\* two requests never run the read, check and insert of one endpoint at once,
\* no handler returns with a mutex held, and a restart leaves none locked.
MutualExclusion ==
  \A m \in Mutexes, q \in Requests : mutex[m] = q <=> Inside(q, m)

\* A row of the task table never changes its node, kind or payload, is never
\* queued again, and keeps its first result: "the conditional update also
\* makes duplicate completion idempotently fail".
TaskLifecycle ==
  [][\A i \in DOMAIN tasks :
       /\ i \in DOMAIN tasks'
       /\ tasks'[i] = [tasks[i] EXCEPT !.status = tasks'[i].status]
       /\ <<tasks[i].status, tasks'[i].status>> \in
            {<<s, s>> : s \in Status}
              \union {<<"queued", "running">>}
              \union {<<"running", s>> : s \in {"completed", "failed"}}]_tasks

\* ApplyNodeProfile treats a completed apply task as the receipt of the
\* revision "rather than queueing a second restart while the first transition
\* is still pending" (service.go:270-273).
NoSecondRestart ==
  [][\A i \in DOMAIN tasks' \ DOMAIN tasks :
       tasks'[i].kind = ProfileApply =>
         ~AwaitingHeartbeat(tasks'[i].node, tasks'[i].revision)]_tasks
=============================================================================
