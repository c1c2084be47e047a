--------------------------- MODULE ProfileRollout ---------------------------
(***************************************************************************)
(* The hub of the panel (AgentHub), one managed node (ProfileNode) and the *)
(* HTTP calls between them: cmd/hserver-agent/client.go against            *)
(* internal/api/handlers_agenthub.go.                                      *)
(*                                                                         *)
(* The agent makes one call at a time and retries none of them.  A call    *)
(* can be lost before it reaches the hub, its answer can be lost after the *)
(* hub has acted on it, and a heartbeat the agent has given up on can      *)
(* still be accepted later.                                                *)
(***************************************************************************)
EXTENDS Naturals, Sequences, FiniteSets

CONSTANTS
  Node,          \* the managed node
  Profile,       \* the value of its desired profile
  Requests,      \* concurrent panel requests
  None,          \* no observation, payload key, mutex holder or late call
  MaxTasks,      \* bound of the model: tasks ever created
  MaxRevision,   \* bound of the model: revisions ever saved
  MaxCrashes,    \* bound of the model: crashes of the agent and the host
  Faults,        \* what may go wrong at the node
  Losses         \* what may go wrong between the node and the hub

ASSUME RolloutAssumption ==
  /\ None \notin Requests \union {Node, Profile}
  /\ None \notin [state : {"applied"}, revision : Nat]
  /\ MaxTasks \in Nat /\ MaxRevision \in Nat /\ MaxCrashes \in Nat
  /\ Faults \subseteq {"write", "snapshot", "schedule", "start", "checks", "rollback",
                     "agent crash", "host crash"}
  /\ Losses \subseteq {"heartbeat lost", "heartbeat late", "poll lost", "report lost"}

VARIABLES
  registered, caps, online, saved, observation, tasks, mutex, request,
  candidate, active, previous, state, unit, timer, agent, installer, reported,
  crashes,
  claimed,   \* the task the agent is working on
  late,      \* a heartbeat the agent has given up on
  lost       \* history: a call was lost, or a process crashed

hubVars == <<registered, caps, online, saved, observation, tasks, mutex, request>>
nodeVars == <<candidate, active, previous, state, unit, timer, agent, installer,
              reported, crashes>>
vars == <<hubVars, nodeVars, claimed, late, lost>>

Hub == INSTANCE AgentHub WITH
  Nodes <- {Node}, Profiles <- {Profile}, Domains <- {}, PlainKinds <- {},
  CoalescedKinds <- {}, CapabilitySets <- {{"agent.profile.apply"}}, ListLimit <- 50

Side == INSTANCE ProfileNode WITH StrictUnit <- TRUE

-----------------------------------------------------------------------------
Accept(o) == Hub!Heartbeat(Node, {"agent.profile.apply"}, o)

\* A heartbeat of the agent is accepted, refused or lost, or arrives after the
\* agent has given up on it.  The agent goes on in every case.
Heartbeat ==
  /\ Side!SendHeartbeat
  /\ \/ Accept(Side!Observe(agent.saw, state)) /\ UNCHANGED <<late, lost>>
     \/ Node \notin registered /\ UNCHANGED <<hubVars, late, lost>>
     \/ /\ "heartbeat lost" \in Losses
        /\ lost' = TRUE /\ UNCHANGED <<hubVars, late>>
     \/ /\ "heartbeat late" \in Losses /\ late = None
        /\ late' = Side!Observe(agent.saw, state) /\ lost' = TRUE
        /\ UNCHANGED hubVars
  /\ UNCHANGED claimed

LateHeartbeat ==
  /\ late # None
  /\ Accept(late)
  /\ late' = None
  /\ UNCHANGED <<nodeVars, claimed, lost>>

\* Mutant: a poll may be answered with a task that was handed out before.
Poll_Again ==
  /\ agent.at = "poll" /\ ~agent.stopping
  /\ \E i \in DOMAIN tasks :
       /\ Hub!ClaimNextTask(Node, i) \/ (tasks[i].status # "queued" /\ UNCHANGED hubVars)
       /\ agent' = [agent EXCEPT !.at = "read active", !.task = tasks[i].revision]
       /\ claimed' = i
  /\ UNCHANGED <<candidate, active, previous, state, unit, timer, installer,
                 reported, crashes, late, lost>>

\* A poll is answered with the oldest queued task, which the agent executes.
Poll ==
  /\ agent.at = "poll" /\ ~agent.stopping
  /\ \E i \in DOMAIN tasks :
       /\ Hub!ClaimNextTask(Node, i)
       /\ agent' = [agent EXCEPT !.at = "read active", !.task = tasks[i].revision]
       /\ claimed' = i
  /\ UNCHANGED <<candidate, active, previous, state, unit, timer, installer,
                 reported, crashes, late, lost>>

\* The poll finds no task, or does not reach the hub.
EmptyPoll ==
  /\ Side!NoTask
  /\ \/ (\A i \in DOMAIN tasks : tasks[i].status # "queued") /\ UNCHANGED lost
     \/ "poll lost" \in Losses /\ lost' = TRUE
  /\ UNCHANGED <<hubVars, claimed, late>>

\* Mutant: the hub takes back a task whose answer was lost.
PollAnswerLost_Requeued ==
  /\ agent.at = "poll"
  /\ \E i \in DOMAIN tasks :
       /\ tasks[i].status = "running"
       /\ tasks' = [tasks EXCEPT ![i].status = "queued"]
  /\ Side!NoTask
  /\ UNCHANGED <<registered, caps, online, saved, observation, mutex, request,
                 claimed, late, lost>>

\* The hub hands the task out and the answer is lost: on the way, with the
\* request that a terminating agent cancels, or with the agent.
PollAnswerLost ==
  /\ agent.at = "poll"
  /\ \E i \in DOMAIN tasks : Hub!ClaimNextTask(Node, i)
  /\ \/ "poll lost" \in Losses /\ Side!NoTask
     \/ Side!Exit
     \/ Side!AgentCrash
  /\ lost' = TRUE
  /\ UNCHANGED <<claimed, late>>

\* The result is stored although the agent may not learn of it, or it is lost.
Report ==
  /\ agent.at = "report"
  /\ \/ (Side!Report \/ Side!Exit) /\ UNCHANGED lost
     \/ Side!AgentCrash /\ lost' = TRUE
  /\ Hub!CompleteTask(Node, claimed, agent.result)
  /\ UNCHANGED <<claimed, late>>

ReportLost ==
  /\ "report lost" \in Losses
  /\ Side!Report
  /\ lost' = TRUE
  /\ UNCHANGED <<hubVars, claimed, late>>

\* The steps of one side alone.
PanelStep ==
  /\ \E q \in Requests : Hub!ApplyReadLatest(q) \/ Hub!CreateProfileApplyTask(q)
  /\ UNCHANGED <<nodeVars, claimed, late, lost>>
Panel ==
  /\ \/ Hub!RegisterNode(Node)
     \/ Hub!HeartbeatExpires(Node)
     \/ \E e \in 0 .. MaxRevision : Hub!UpdateNodeProfile(Node, Profile, e)
     \/ \E q \in Requests, r \in 1 .. MaxRevision : Hub!ApplyNodeProfile(q, Node, r)
     \/ Hub!PanelRestart
  /\ UNCHANGED <<nodeVars, claimed, late, lost>>

LocalStep == Side!AgentLocal /\ UNCHANGED <<hubVars, claimed, late, lost>>
InstallerStep == Side!InstallerNext /\ UNCHANGED <<hubVars, claimed, late, lost>>
SystemdStep == Side!Systemd /\ UNCHANGED <<hubVars, claimed, late, lost>>
CrashStep == Side!Crash /\ lost' = TRUE /\ UNCHANGED <<hubVars, claimed, late>>

AgentStep ==
  \/ LocalStep \/ Heartbeat \/ Poll \/ EmptyPoll \/ PollAnswerLost
  \/ Report \/ ReportLost

Init == Hub!Init /\ Side!Init /\ claimed = 0 /\ late = None /\ lost = FALSE

Next ==
  \/ Panel \/ PanelStep \/ LateHeartbeat
  \/ AgentStep \/ InstallerStep \/ SystemdStep \/ CrashStep

Spec == Init /\ [][Next]_vars

\* The agent's loop, the installer, systemd and the handlers keep running.  A
\* heartbeat waits for profileApplyMu, which other requests take again and
\* again: a sync.Mutex hands itself to a waiter that has waited for long.
FairSpec ==
  /\ Spec
  /\ SF_vars(AgentStep)
  /\ WF_vars(InstallerStep) /\ WF_vars(SystemdStep) /\ WF_vars(PanelStep)

-----------------------------------------------------------------------------
(* Properties.                                                             *)

\* Whatever the node and the network do, the hub sees nothing it is not
\* specified for.
HubSpec == Hub!Spec

\* Whatever the panel and the network do, the node sees nothing it is not
\* specified for; in particular no apply task is older than one it has had.
NodeSpec == Side!Spec

\* When the panel shows the desired profile as applied, active.json of the node
\* holds it: "only a subsequent accepted heartbeat ... proves that the requested
\* profile is applied", however late the heartbeat and whatever crashed.
AppliedShownIsActive ==
  Side!SoundRollback /\ Hub!ApplyState(Node) = "applied"
    => active = Hub!Revision(Node)

\* As long as no call is lost and nothing crashes, an apply that was queued is
\* eventually shown as applied or failed, unless the desired profile changes.
RolloutSettles ==
  \A r \in 1 .. MaxRevision :
    /\ Hub!ApplyState(Node) \in {"queued", "running", "awaiting_heartbeat"}
    /\ Hub!Revision(Node) = r
    ~> \/ Hub!ApplyState(Node) \in {"applied", "failed"}
       \/ Hub!Revision(Node) # r
       \/ lost
=============================================================================
