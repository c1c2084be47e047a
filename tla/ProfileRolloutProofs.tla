------------------------ MODULE ProfileRolloutProofs ------------------------
(***************************************************************************)
(* Proofs about ProfileRollout, for every number of requests, tasks,       *)
(* revisions and crashes and every set of faults and losses: the hub and   *)
(* the node of the composition each behave as their own modules specify,   *)
(* and what the panel shows as applied is applied.                         *)
(*                                                                         *)
(* The theorems about the two components are used as they stand, through   *)
(* instances of the modules that prove them.                               *)
(***************************************************************************)
EXTENDS ProfileRollout, TLAPS

HubProofs == INSTANCE AgentHubProofs WITH
  Nodes <- {Node}, Profiles <- {Profile}, Domains <- {}, PlainKinds <- {},
  CoalescedKinds <- {}, CapabilitySets <- {{"agent.profile.apply"}}, ListLimit <- 50

SideProofs == INSTANCE ProfileNodeProofs WITH StrictUnit <- TRUE

\* What the agent works on was handed out by the hub, and every revision it has
\* had is that of a task that has left the queue.
HandedOut ==
  /\ agent.at \in SideProofs!Busy => claimed \in DOMAIN tasks
  /\ agent.task # 0 =>
       \E i \in DOMAIN tasks : tasks[i].status # "queued" /\ tasks[i].revision = agent.task

Applied(r) == [state |-> "applied", revision |-> r]

\* What the hub has stored, or may still be sent by a late heartbeat, as applied
\* was applied and cannot be undone.
ShownIsSettled ==
  SideProofs!SoundRollback =>
    \A r \in Nat :
      observation[Node] = Applied(r) \/ late = Applied(r) => SideProofs!Settled(r)

RolloutInv ==
  /\ HubProofs!HubInv
  /\ HubProofs!RevisionsBounded
  /\ SideProofs!ReportingInv
  /\ HandedOut
  /\ late \in HubProofs!ReportedObservations
  /\ ShownIsSettled

-----------------------------------------------------------------------------
(* The instances.                                                          *)

\* The constants of the composition satisfy what the components assume.
LEMMA HubConstants == HubProofs!ConstantsAssumption
<1>1. None \notin Requests \union {Node, Profile} /\ MaxTasks \in Nat /\ MaxRevision \in Nat
  BY RolloutAssumption
<1> QED
  BY <1>1 DEF HubProofs!ConstantsAssumption, HubProofs!ProfileApply, HubProofs!Ensure,
     HubProofs!Probes

\* So they do for the node.
LEMMA SideConstants == SideProofs!NodeAssumption
BY RolloutAssumption DEF SideProofs!NodeAssumption, SideProofs!AllFaults

\* The actions of the two instances of the hub are the same formulas.
LEMMA SameHubNext == HubProofs!Next <=> Hub!Next
BY DEF HubProofs!Next, Hub!Next, HubProofs!RegisterNode, Hub!RegisterNode,
   HubProofs!HeartbeatExpires, Hub!HeartbeatExpires, HubProofs!ReportedObservations,
   Hub!ReportedObservations, HubProofs!ObservedStates, Hub!ObservedStates,
   HubProofs!Heartbeat, Hub!Heartbeat, HubProofs!ProfileApply, Hub!ProfileApply,
   HubProofs!UpdateNodeProfile, Hub!UpdateNodeProfile, HubProofs!Revision, Hub!Revision,
   HubProofs!ClaimNextTask, Hub!ClaimNextTask, HubProofs!OldestQueued, Hub!OldestQueued,
   HubProofs!CompleteTask, Hub!CompleteTask, HubProofs!ApplyNodeProfile,
   Hub!ApplyNodeProfile, HubProofs!HasCapability, Hub!HasCapability, HubProofs!Observed,
   Hub!Observed, HubProofs!IsNodeOnline, Hub!IsNodeOnline, HubProofs!Start, Hub!Start,
   HubProofs!MayStart, Hub!MayStart, HubProofs!ApplyReadLatest, Hub!ApplyReadLatest,
   HubProofs!AwaitingHeartbeat, Hub!AwaitingHeartbeat, HubProofs!LatestApply,
   Hub!LatestApply, HubProofs!ApplyTasks, Hub!ApplyTasks, HubProofs!Return, Hub!Return,
   HubProofs!NoRequest, Hub!NoRequest, HubProofs!Unlock, Hub!Unlock, HubProofs!Goto,
   Hub!Goto, HubProofs!CreateProfileApplyTask, Hub!CreateProfileApplyTask,
   HubProofs!MayCreateApply, Hub!MayCreateApply, HubProofs!InFlightApply,
   Hub!InFlightApply, HubProofs!InFlightStatus, Hub!InFlightStatus, HubProofs!Insert,
   Hub!Insert, HubProofs!EnqueueTask, Hub!EnqueueTask, HubProofs!CreateTask,
   Hub!CreateTask, HubProofs!CoalescedWork, Hub!CoalescedWork, HubProofs!Ensure,
   Hub!Ensure, HubProofs!Probes, Hub!Probes, HubProofs!EnqueueCoalesced,
   Hub!EnqueueCoalesced, HubProofs!CoalesceList, Hub!CoalesceList, HubProofs!Reusable,
   Hub!Reusable, HubProofs!Recent, Hub!Recent, HubProofs!CoalesceInsert,
   Hub!CoalesceInsert, HubProofs!PanelRestart, Hub!PanelRestart, HubProofs!Mutexes,
   Hub!Mutexes, HubProofs!Cardinality, Hub!Cardinality

\* So are their initial states.
LEMMA SameHubInit == HubProofs!Init <=> Hub!Init
BY DEF HubProofs!Init, Hub!Init, HubProofs!Mutexes, Hub!Mutexes, HubProofs!ProfileApply,
   Hub!ProfileApply, HubProofs!NoRequest, Hub!NoRequest

\* The same holds of the two instances of the node: of the steps of the agent,
LEMMA SameLocal == SideProofs!AgentLocal <=> Side!AgentLocal
BY DEF SideProofs!AgentLocal, Side!AgentLocal, SideProofs!Boot, Side!Boot,
   SideProofs!Overlay, Side!Overlay, SideProofs!files, Side!files, SideProofs!ReadActive,
   Side!ReadActive, SideProofs!ApplyReadActive, Side!ApplyReadActive,
   SideProofs!ApplyReadState, Side!ApplyReadState, SideProofs!Finish, Side!Finish,
   SideProofs!Step, Side!Step, SideProofs!ApplyWriteFails, Side!ApplyWriteFails,
   SideProofs!ApplyWritePrevious, Side!ApplyWritePrevious, SideProofs!ApplyWriteCandidate,
   Side!ApplyWriteCandidate, SideProofs!ApplyWriteState, Side!ApplyWriteState,
   SideProofs!ScheduleProfileApply, Side!ScheduleProfileApply, SideProofs!ScheduleFails,
   Side!ScheduleFails, SideProofs!ApplyWriteFailed, Side!ApplyWriteFailed, SideProofs!Exit,
   Side!Exit, SideProofs!Resting, Side!Resting

\* of its calls,
LEMMA SameCalls ==
  /\ (SideProofs!SendHeartbeat <=> Side!SendHeartbeat) /\ (SideProofs!NoTask <=> Side!NoTask)
  /\ (SideProofs!Report <=> Side!Report)
  /\ \A r \in 1 .. MaxRevision : SideProofs!ReceiveTask(r) <=> Side!ReceiveTask(r)
BY DEF SideProofs!SendHeartbeat, Side!SendHeartbeat, SideProofs!Observe, Side!Observe,
   SideProofs!NoTask, Side!NoTask, SideProofs!Report, Side!Report, SideProofs!ReceiveTask,
   Side!ReceiveTask, SideProofs!files, Side!files, SideProofs!Finish, Side!Finish,
   SideProofs!Step, Side!Step

\* of the steps of the installer,
LEMMA SameInstaller == SideProofs!InstallerNext <=> Side!InstallerNext
BY DEF SideProofs!InstallerNext, Side!InstallerNext, SideProofs!Parse, Side!Parse,
   SideProofs!Fail, Side!Fail, SideProofs!TakeSnapshot, Side!TakeSnapshot,
   SideProofs!AgentIsDown, Side!AgentIsDown, SideProofs!SnapshotFails, Side!SnapshotFails,
   SideProofs!NoSnapshot, Side!NoSnapshot, SideProofs!NoDocument, Side!NoDocument,
   SideProofs!InstallFails, Side!InstallFails, SideProofs!WritePending, Side!WritePending,
   SideProofs!Advance, Side!Advance, SideProofs!MoveUnit, Side!MoveUnit,
   SideProofs!StopAgent, Side!StopAgent, SideProofs!StartAgent, Side!StartAgent,
   SideProofs!ActiveChecks, Side!ActiveChecks, SideProofs!Promote, Side!Promote,
   SideProofs!WritePrevious, Side!WritePrevious, SideProofs!WriteActive, Side!WriteActive,
   SideProofs!CleanUp, Side!CleanUp, SideProofs!NoInstaller, Side!NoInstaller,
   SideProofs!RestoreUnit, Side!RestoreUnit, SideProofs!RestoreProfiles,
   Side!RestoreProfiles, SideProofs!RestoreState, Side!RestoreState,
   SideProofs!StartFailedAgent, Side!StartFailedAgent, SideProofs!WriteFailure,
   Side!WriteFailure, SideProofs!files, Side!files, SideProofs!Resting, Side!Resting,
   SideProofs!Overlay, Side!Overlay

\* and of systemd and the crashes.
LEMMA SameSystem ==
  /\ (SideProofs!Systemd <=> Side!Systemd) /\ (SideProofs!Crash <=> Side!Crash)
  /\ (SideProofs!AgentCrash <=> Side!AgentCrash)
BY DEF SideProofs!Systemd, Side!Systemd, SideProofs!TimerFires, Side!TimerFires,
   SideProofs!SystemdRestart, Side!SystemdRestart, SideProofs!Crash, Side!Crash,
   SideProofs!AgentCrash, Side!AgentCrash, SideProofs!HostCrash, Side!HostCrash,
   SideProofs!AgentIsDown, Side!AgentIsDown, SideProofs!NoInstaller, Side!NoInstaller,
   SideProofs!NoSnapshot, Side!NoSnapshot, SideProofs!NoDocument, Side!NoDocument,
   SideProofs!files, Side!files

\* So all their steps are the same.
LEMMA SameSideNext == SideProofs!Next <=> Side!Next
BY SameLocal, SameCalls, SameInstaller, SameSystem
   DEF SideProofs!Next, Side!Next, SideProofs!AgentNext, Side!AgentNext

\* So are their initial states.
LEMMA SameSideInit == SideProofs!Init <=> Side!Init
BY DEF SideProofs!Init, Side!Init, SideProofs!NoDocument, Side!NoDocument,
   SideProofs!NoInstaller, Side!NoInstaller, SideProofs!NoSnapshot, Side!NoSnapshot

\* The two instances agree on what the agent observes.
LEMMA SameObserve == SideProofs!Observe(agent.saw, state) = Side!Observe(agent.saw, state)
BY DEF SideProofs!Observe, Side!Observe

\* A step of the hub keeps the invariants of the hub.
LEMMA HubKeeps ==
  ASSUME RolloutInv, [Hub!Next]_(Hub!vars)
  PROVE  /\ HubProofs!HubInv' /\ HubProofs!RevisionsBounded'
         /\ \A i \in DOMAIN tasks :
              /\ i \in DOMAIN tasks' /\ tasks'[i].revision = tasks[i].revision
              /\ tasks[i].status # "queued" => tasks'[i].status # "queued"
<1>1. [HubProofs!Next]_(HubProofs!vars)
  BY SameHubNext DEF Hub!vars, HubProofs!vars
<1>2. HubProofs!HubInv /\ HubProofs!RevisionsBounded /\ HubProofs!TypeOK
  BY DEF RolloutInv, HubProofs!HubInv
<1>3. HubProofs!HubInv'
  BY <1>1, <1>2, HubConstants, HubProofs!NextHub
<1>4. HubProofs!RevisionsBounded'
  BY <1>1, <1>2, HubConstants, HubProofs!BoundedStep
<1>5. \A i \in DOMAIN tasks :
        /\ i \in DOMAIN tasks' /\ tasks'[i].revision = tasks[i].revision
        /\ tasks[i].status # "queued" => tasks'[i].status # "queued"
  BY <1>1, <1>2, HubConstants, HubProofs!RowsStay
<1> QED
  BY <1>3, <1>4, <1>5

\* A step of the node keeps the invariants of the node, and what was settled.
LEMMA SideKeeps ==
  ASSUME RolloutInv, [Side!Next]_(Side!vars)
  PROVE  /\ SideProofs!ReportingInv'
         /\ SideProofs!SoundRollback =>
              \A r \in Nat : SideProofs!Settled(r) => SideProofs!Settled(r)'
<1>1. [SideProofs!Next]_(SideProofs!vars)
  BY SameSideNext DEF Side!vars, SideProofs!vars, Side!files, SideProofs!files
<1>2. SideProofs!ReportingInv /\ SideProofs!NodeInv
  BY DEF RolloutInv, SideProofs!ReportingInv
<1>3. SideProofs!ReportingInv'
  BY <1>1, <1>2, SideConstants, SideProofs!ReportingStep
<1>4. ASSUME SideProofs!SoundRollback, NEW r \in Nat, SideProofs!Settled(r)
      PROVE  SideProofs!Settled(r)'
  BY <1>1, <1>2, <1>4, SideConstants, SideProofs!SettledStep
<1> QED
  BY <1>3, <1>4

-----------------------------------------------------------------------------
(* Every step of the composition is a step of each side.                   *)

\* The tasks of the only node, as the hub's invariants describe them.
LEMMA TaskFacts ==
  ASSUME RolloutInv
  PROVE  /\ Len(saved[Node]) \in Nat /\ Len(saved[Node]) <= MaxRevision
         /\ \A i \in DOMAIN tasks :
              i \in Nat /\ tasks[i].revision \in 1 .. Len(saved[Node])
         /\ \A i, j \in DOMAIN tasks : i < j =>
              /\ tasks[i].revision <= tasks[j].revision
              /\ tasks[i].status = "queued" => tasks[j].status = "queued"
<1>0. /\ HubProofs!TypeOK /\ HubProofs!ApplyCarriesSavedProfile /\ HubProofs!ClaimedInOrder
      /\ HubProofs!ApplyInRevisionOrder /\ HubProofs!RevisionsBounded
  BY DEF RolloutInv, HubProofs!HubInv
<1>1. saved[Node] \in Seq({Profile})
  BY <1>0 DEF HubProofs!TypeOK
<1>2. Len(saved[Node]) \in Nat /\ DOMAIN saved[Node] = 1 .. Len(saved[Node])
  BY <1>1
<1>3. Len(saved[Node]) <= MaxRevision
  BY <1>0 DEF HubProofs!RevisionsBounded, HubProofs!Revision
<1>4. \A i \in DOMAIN tasks :
        i \in Nat /\ tasks[i].node = Node /\ tasks[i].kind = HubProofs!ProfileApply
  <2>1. tasks \in Seq(HubProofs!Task)
    BY <1>0 DEF HubProofs!TypeOK
  <2>2. \A i \in DOMAIN tasks : i \in Nat /\ tasks[i] \in HubProofs!Task
    BY <2>1
  <2> QED
    BY <2>2 DEF HubProofs!Task, HubProofs!Kinds
<1>5. \A i \in DOMAIN tasks : tasks[i].revision \in 1 .. Len(saved[Node])
  BY <1>0, <1>2, <1>4 DEF HubProofs!ApplyCarriesSavedProfile
<1>6. \A i, j \in DOMAIN tasks : i < j =>
        /\ tasks[i].revision <= tasks[j].revision
        /\ tasks[i].status = "queued" => tasks[j].status = "queued"
  BY <1>0, <1>4 DEF HubProofs!ApplyInRevisionOrder, HubProofs!ClaimedInOrder
<1> QED
  BY <1>2, <1>3, <1>4, <1>5, <1>6

\* A task that is handed out is no older than any the agent has had.
LEMMA PollOrder ==
  ASSUME RolloutInv, NEW i \in DOMAIN tasks, tasks[i].status = "queued"
  PROVE  tasks[i].revision \in 1 .. MaxRevision /\ tasks[i].revision >= agent.task
<1>0. MaxRevision \in Nat
  BY RolloutAssumption
<1>1. Len(saved[Node]) \in Nat /\ Len(saved[Node]) <= MaxRevision
      /\ tasks[i].revision \in 1 .. Len(saved[Node])
  BY TaskFacts
<1>2. tasks[i].revision \in Nat /\ tasks[i].revision \in 1 .. MaxRevision
  BY <1>0, <1>1, SMTT(30)
<1>3. CASE agent.task = 0
  BY <1>2, <1>3, <1>0, SMTT(30)
<1>4. CASE agent.task # 0
  <2>1. PICK j \in DOMAIN tasks : tasks[j].status # "queued" /\ tasks[j].revision = agent.task
    BY <1>4 DEF RolloutInv, HandedOut
  <2>2. /\ i \in Nat /\ j \in Nat /\ i # j
        /\ i < j => tasks[j].status = "queued"
        /\ j < i => tasks[j].revision <= tasks[i].revision
        /\ tasks[j].revision \in 1 .. Len(saved[Node])
    BY <2>1, TaskFacts
  <2>3. j < i
    BY <2>1, <2>2, SMTT(30)
  <2>4. tasks[j].revision <= tasks[i].revision
    BY <2>2, <2>3
  <2>5. tasks[j].revision \in Nat
    BY <1>1, <2>2, SMTT(30)
  <2> QED
    BY <1>2, <2>1, <2>4, <2>5, SMTT(30)
<1> QED
  BY <1>2, <1>3, <1>4

\* Every step is one of the node, or leaves the node alone.
LEMMA SideStep ==
  ASSUME RolloutInv, [Next]_vars
  PROVE  [Side!Next]_(Side!vars)
<1> USE DEF Side!vars, Side!files, nodeVars
<1>1. CASE Panel \/ PanelStep \/ LateHeartbeat \/ UNCHANGED vars
  BY <1>1 DEF Panel, PanelStep, LateHeartbeat, vars
<1>2. CASE LocalStep \/ Heartbeat \/ EmptyPoll \/ ReportLost
  BY <1>2 DEF LocalStep, Heartbeat, EmptyPoll, ReportLost, Side!Next, Side!AgentNext
<1>3. CASE Poll
  <2>1. PICK i \in DOMAIN tasks :
          /\ Hub!ClaimNextTask(Node, i)
          /\ agent' = [agent EXCEPT !.at = "read active", !.task = tasks[i].revision]
    BY <1>3 DEF Poll
  <2>2. tasks[i].status = "queued"
    BY <2>1 DEF Hub!ClaimNextTask, Hub!OldestQueued
  <2>3. tasks[i].revision \in 1 .. MaxRevision /\ tasks[i].revision >= agent.task
    BY <2>2, PollOrder
  <2>4. Side!ReceiveTask(tasks[i].revision)
    BY <1>3, <2>1, <2>3 DEF Poll, Side!ReceiveTask
  <2> QED
    BY <2>3, <2>4 DEF Side!Next, Side!AgentNext
<1>4. CASE PollAnswerLost \/ Report
  <2>1. Side!NoTask \/ Side!Exit \/ Side!AgentCrash \/ Side!Report
    BY <1>4 DEF PollAnswerLost, Report
  <2> QED
    BY <2>1 DEF Side!Next, Side!AgentNext, Side!AgentLocal, Side!Crash
<1>5. CASE InstallerStep \/ SystemdStep \/ CrashStep
  BY <1>5 DEF InstallerStep, SystemdStep, CrashStep, Side!Next
<1> QED
  BY <1>1, <1>2, <1>3, <1>4, <1>5 DEF Next, AgentStep

\* What the agent observes is an observation the hub accepts.
LEMMA ObservationReported ==
  ASSUME RolloutInv
  PROVE  Side!Observe(agent.saw, state) \in HubProofs!ReportedObservations
<1>1. SideProofs!NodeInv /\ SideProofs!ReportInv
  BY DEF RolloutInv, SideProofs!ReportingInv
<1>2. /\ SideProofs!Observe(agent.saw, state) \in SideProofs!Observation
      /\ SideProofs!Observe(agent.saw, state).revision <= MaxRevision
  BY <1>1, SideConstants, SideProofs!ObservedRevision
<1>3. PICK o : o = SideProofs!Observe(agent.saw, state)
  OBVIOUS
<1>4. /\ o = [state |-> o.state, revision |-> o.revision] /\ o.revision \in Nat
      /\ o.state \in {"not_configured", "pending_restart", "applied", "failed"}
  BY <1>2, <1>3 DEF SideProofs!Observation
<1>5. MaxRevision \in Nat /\ o.revision <= MaxRevision
  BY <1>2, <1>3, RolloutAssumption
<1>6. o.revision \in 0 .. MaxRevision
  BY <1>4, <1>5, SMTT(30)
<1> QED
  BY <1>3, <1>4, <1>6, SameObserve
     DEF HubProofs!ReportedObservations, HubProofs!ObservedStates

\* Every step is one of the hub, or leaves the hub alone.
LEMMA HubStep ==
  ASSUME RolloutInv, [Next]_vars
  PROVE  [Hub!Next]_(Hub!vars)
<1> USE DEF Hub!vars, hubVars
<1>1. CASE LocalStep \/ EmptyPoll \/ ReportLost \/ InstallerStep \/ SystemdStep \/ CrashStep
           \/ UNCHANGED vars
  BY <1>1 DEF LocalStep, EmptyPoll, ReportLost, InstallerStep, SystemdStep, CrashStep, vars
<1>2. ASSUME NEW o \in HubProofs!ReportedObservations, Accept(o)
      PROVE  Hub!Next
  <2>1. o \in Hub!ReportedObservations
    BY DEF HubProofs!ReportedObservations, Hub!ReportedObservations,
       HubProofs!Observations, Hub!Observations, HubProofs!ObservedStates, Hub!ObservedStates
  <2> QED
    BY <1>2, <2>1 DEF Accept, Hub!Next
<1>3. CASE Heartbeat
  <2>1. Side!Observe(agent.saw, state) \in HubProofs!ReportedObservations
    BY ObservationReported
  <2>2. Accept(Side!Observe(agent.saw, state)) \/ UNCHANGED hubVars
    BY <1>3 DEF Heartbeat
  <2> QED
    BY <1>2, <2>1, <2>2
<1>4. CASE LateHeartbeat
  <2>1. Accept(late) /\ late \in HubProofs!ReportedObservations
    BY <1>4 DEF LateHeartbeat, RolloutInv
  <2> QED
    BY <1>2, <2>1
<1>5. CASE Poll \/ PollAnswerLost
  <2>1. PICK i \in DOMAIN tasks : Hub!ClaimNextTask(Node, i)
    BY <1>5 DEF Poll, PollAnswerLost
  <2> QED
    BY <2>1 DEF Hub!Next
<1>6. CASE Report
  <2>1. claimed \in DOMAIN tasks
    BY <1>6 DEF Report, RolloutInv, HandedOut, SideProofs!Busy
  <2>2. agent.result \in {"completed", "failed"}
    BY DEF RolloutInv, SideProofs!ReportingInv, SideProofs!NodeInv, SideProofs!TypeOK,
       SideProofs!Agent
  <2> QED
    BY <1>6, <2>1, <2>2 DEF Report, Hub!Next
<1>7. CASE Panel \/ PanelStep
  BY <1>7 DEF Panel, PanelStep, Hub!Next
<1> QED
  BY <1>1, <1>3, <1>4, <1>5, <1>6, <1>7 DEF Next, AgentStep

-----------------------------------------------------------------------------
(* The invariant of the composition.                                       *)

\* Only a poll gives the agent a task.
LEMMA TaskKept ==
  ASSUME RolloutInv, [Next]_vars, ~Poll
  PROVE  /\ claimed' = claimed /\ agent'.task = agent.task
         /\ agent'.at \in SideProofs!Busy => agent.at \in SideProofs!Busy
<1> DEFINE Kept == /\ agent'.task = agent.task
                   /\ agent'.at \in SideProofs!Busy => agent.at \in SideProofs!Busy
<1>0. SideProofs!TypeOK
  BY DEF RolloutInv, SideProofs!ReportingInv, SideProofs!NodeInv
<1>1. claimed' = claimed
  BY DEF Next, AgentStep, Panel, PanelStep, LateHeartbeat, LocalStep, Heartbeat, EmptyPoll,
     PollAnswerLost, Report, ReportLost, InstallerStep, SystemdStep, CrashStep, vars
<1>2. ASSUME Side!AgentLocal \/ Side!SendHeartbeat \/ Side!NoTask \/ Side!Report PROVE Kept
  <2>1. SideProofs!AgentLocal \/ SideProofs!SendHeartbeat \/ SideProofs!NoTask \/ SideProofs!Report
    BY <1>2, SameLocal, SameCalls
  <2>2. SideProofs!Continues
    BY <1>0, <2>1, SideConstants, SideProofs!AgentContinues
  <2> QED
    BY <2>2 DEF SideProofs!Continues
<1>3. ASSUME Side!InstallerNext PROVE Kept
  <2>1. SideProofs!InstallerWrites
    BY <1>0, <1>3, SameInstaller, SideConstants, SideProofs!InstallerWriting
  <2> QED
    BY <2>1 DEF SideProofs!InstallerWrites
<1>4. ASSUME Side!Systemd \/ Side!Crash PROVE Kept
  <2>1. SideProofs!TimerFires \/ SideProofs!SystemdRestart \/ SideProofs!AgentCrash
        \/ SideProofs!HostCrash
    BY <1>4, SameSystem DEF SideProofs!Systemd, SideProofs!Crash
  <2> QED
    BY <1>0, <2>1, SideConstants, SideProofs!OtherSteps
<1>5. ASSUME Side!Exit \/ Side!AgentCrash PROVE Kept
  BY <1>2, <1>4, <1>5 DEF Side!AgentLocal, Side!Crash
<1>6. CASE AgentStep
  <2>1. CASE LocalStep \/ Heartbeat \/ EmptyPoll \/ ReportLost
    BY <1>2, <2>1 DEF LocalStep, Heartbeat, EmptyPoll, ReportLost
  <2>2. CASE PollAnswerLost \/ Report
    BY <1>2, <1>5, <2>2 DEF PollAnswerLost, Report
  <2> QED
    BY <1>1, <1>6, <2>1, <2>2 DEF AgentStep
<1>7. CASE Panel \/ PanelStep \/ LateHeartbeat \/ UNCHANGED vars
  BY <1>1, <1>7 DEF Panel, PanelStep, LateHeartbeat, vars, nodeVars
<1>8. CASE InstallerStep \/ SystemdStep \/ CrashStep
  BY <1>1, <1>3, <1>4, <1>8 DEF InstallerStep, SystemdStep, CrashStep
<1> QED
  BY <1>6, <1>7, <1>8 DEF Next

\* What the agent works on has been handed out by the hub.
LEMMA HandedStep ==
  ASSUME RolloutInv, [Next]_vars
  PROVE  HandedOut'
<1>0. \A i \in DOMAIN tasks :
        /\ i \in DOMAIN tasks' /\ tasks'[i].revision = tasks[i].revision
        /\ tasks[i].status # "queued" => tasks'[i].status # "queued"
  BY HubStep, HubKeeps
<1>1. CASE Poll
  <2>1. PICK i \in DOMAIN tasks :
          /\ Hub!ClaimNextTask(Node, i)
          /\ agent' = [agent EXCEPT !.at = "read active", !.task = tasks[i].revision]
          /\ claimed' = i
    BY <1>1 DEF Poll
  <2>2. agent'.task = tasks[i].revision
    BY <2>1 DEF RolloutInv, SideProofs!ReportingInv, SideProofs!NodeInv, SideProofs!TypeOK,
       SideProofs!Agent
  <2>3. tasks'[i].status = "running"
    <3>1. tasks \in Seq(HubProofs!Task)
      BY DEF RolloutInv, HubProofs!HubInv, HubProofs!TypeOK
    <3>2. tasks[i] \in HubProofs!Task
      BY <3>1
    <3> QED
      BY <2>1, <3>2 DEF Hub!ClaimNextTask, HubProofs!Task
  <2> QED
    BY <1>0, <2>1, <2>2, <2>3 DEF HandedOut
<1>2. CASE ~Poll
  BY <1>0, <1>2, TaskKept DEF HandedOut, RolloutInv
<1> QED
  BY <1>1, <1>2

\* The panel is shown what the agent observes, or what a late heartbeat carries.
LEMMA ShownFrom ==
  ASSUME RolloutInv, [Next]_vars
  PROVE  /\ late' \in {late, None, Side!Observe(agent.saw, state)}
         /\ observation'[Node] \in {observation[Node], late, None, Side!Observe(agent.saw, state)}
<1>1. late' \in {late, None, Side!Observe(agent.saw, state)}
  BY DEF Next, AgentStep, Panel, PanelStep, LateHeartbeat, LocalStep, Heartbeat, Poll, EmptyPoll,
     PollAnswerLost, Report, ReportLost, InstallerStep, SystemdStep, CrashStep, vars
<1>2. DOMAIN observation = {Node}
  BY DEF RolloutInv, HubProofs!HubInv, HubProofs!TypeOK
<1>3. ASSUME NEW o, Accept(o) PROVE observation'[Node] \in {o, None}
  BY <1>2, <1>3 DEF Accept, Hub!Heartbeat
<1>4. CASE Heartbeat
  BY <1>3, <1>4 DEF Heartbeat, hubVars
<1>5. CASE LateHeartbeat
  BY <1>3, <1>5 DEF LateHeartbeat
<1>6. CASE Panel \/ PanelStep
  <2>1. UNCHANGED observation
    BY <1>6 DEF Panel, PanelStep, Hub!RegisterNode, Hub!HeartbeatExpires,
       Hub!UpdateNodeProfile, Hub!ApplyNodeProfile, Hub!Start, Hub!PanelRestart,
       Hub!ApplyReadLatest, Hub!CreateProfileApplyTask, Hub!Return, Hub!Goto, Hub!Insert
  <2> QED
    BY <1>1, <2>1
<1>7. CASE Poll \/ PollAnswerLost \/ Report
  <2>1. UNCHANGED observation
    BY <1>7 DEF Poll, PollAnswerLost, Report, Hub!ClaimNextTask, Hub!CompleteTask
  <2> QED
    BY <1>1, <2>1
<1>8. CASE LocalStep \/ EmptyPoll \/ ReportLost \/ InstallerStep \/ SystemdStep \/ CrashStep
           \/ UNCHANGED vars
  <2>1. UNCHANGED observation
    BY <1>8 DEF LocalStep, EmptyPoll, ReportLost, InstallerStep, SystemdStep, CrashStep,
       vars, hubVars
  <2> QED
    BY <1>1, <2>1
<1> QED
  BY <1>1, <1>4, <1>5, <1>6, <1>7, <1>8 DEF Next, AgentStep

\* An observation is not the absence of one.
LEMMA SomeObservation == \A r \in Nat : Applied(r) # None
<1>1. \A r \in Nat : Applied(r) \in [state : {"applied"}, revision : Nat]
  BY DEF Applied
<1>2. None \notin [state : {"applied"}, revision : Nat]
  BY RolloutAssumption
<1> QED
  BY <1>1, <1>2, ZenonT(30)

\* What the panel is shown as applied stays settled.
LEMMA ShownStep ==
  ASSUME RolloutInv, [Next]_vars
  PROVE  ShownIsSettled'
<1>0. ASSUME SideProofs!SoundRollback, NEW r \in Nat,
             observation'[Node] = Applied(r) \/ late' = Applied(r)
      PROVE  SideProofs!Settled(r)'
  <2>1. Applied(r) \in {observation[Node], late, Side!Observe(agent.saw, state)}
    <3>1. Applied(r) # None
      BY SomeObservation
    <3> QED
      BY <1>0, <3>1, ShownFrom
  <2>2. SideProofs!Settled(r)
    <3>1. CASE Applied(r) = observation[Node] \/ Applied(r) = late
      BY <1>0, <3>1 DEF RolloutInv, ShownIsSettled
    <3>2. CASE Applied(r) = Side!Observe(agent.saw, state)
      <4>1. /\ SideProofs!Observe(agent.saw, state).state = "applied"
            /\ SideProofs!Observe(agent.saw, state).revision = r
        BY <3>2, SameObserve DEF Applied
      <4>2. SideProofs!NodeInv /\ SideProofs!AbsentInv
        BY DEF RolloutInv, SideProofs!ReportingInv
      <4>3. SideProofs!Settled(SideProofs!Observe(agent.saw, state).revision)
        BY <1>0, <4>1, <4>2, SideConstants, SideProofs!AppliedIsSettled
      <4> QED
        BY <4>1, <4>3
    <3> QED
      BY <2>1, <3>1, <3>2
  <2> QED
    BY <1>0, <2>2, SideStep, SideKeeps
<1> QED
  BY <1>0 DEF ShownIsSettled, Applied, SideProofs!SoundRollback

\* The invariant holds before the agent has started.
LEMMA InitRollout == Init => RolloutInv
<1> SUFFICES ASSUME Init PROVE RolloutInv
  OBVIOUS
<1>1. HubProofs!Init /\ SideProofs!Init /\ late = None
  BY SameHubInit, SameSideInit DEF Init
<1>2. HubProofs!HubInv
  BY <1>1, HubConstants, HubProofs!InitHub
<1>3. SideProofs!ReportingInv
  BY <1>1, SideConstants, SideProofs!InitReporting
<1>4. saved[Node] = <<>> /\ observation[Node] = None
  BY <1>1 DEF HubProofs!Init
<1>5. HubProofs!RevisionsBounded
  <2>1. Len(<<>>) = 0 /\ MaxRevision \in Nat
    BY RolloutAssumption
  <2> QED
    BY <1>4, <2>1 DEF HubProofs!RevisionsBounded, HubProofs!Revision
<1>6. HandedOut
  BY <1>1 DEF HandedOut, SideProofs!Init, SideProofs!Busy, SideProofs!Applying
<1>7. ShownIsSettled
  BY <1>1, <1>4, SomeObservation DEF ShownIsSettled
<1> QED
  BY <1>1, <1>2, <1>3, <1>5, <1>6, <1>7 DEF RolloutInv, HubProofs!ReportedObservations

\* Every step keeps it.
LEMMA NextRollout == RolloutInv /\ [Next]_vars => RolloutInv'
<1> SUFFICES ASSUME RolloutInv, [Next]_vars PROVE RolloutInv'
  OBVIOUS
<1>1. HubProofs!HubInv' /\ HubProofs!RevisionsBounded'
  BY HubStep, HubKeeps
<1>2. SideProofs!ReportingInv'
  BY SideStep, SideKeeps
<1>3. late' \in HubProofs!ReportedObservations
  BY ShownFrom, ObservationReported DEF RolloutInv, HubProofs!ReportedObservations
<1> QED
  BY <1>1, <1>2, <1>3, HandedStep, ShownStep DEF RolloutInv

-----------------------------------------------------------------------------
(* The theorems.                                                           *)

\* Whatever panel, agent, installer, crashes and lost calls do, hub and node keep
\* their invariants and agree on the tasks that were handed out.
THEOREM RolloutInvariant == Spec => []RolloutInv
BY InitRollout, NextRollout, PTL DEF Spec

\* The composition implements the hub: whatever the node and the network do, the
\* hub sees nothing that AgentHub does not specify.
THEOREM HubRefined == Spec => HubSpec
<1>1. Init => Hub!Init
  BY DEF Init
<1>2. RolloutInv /\ [Next]_vars => [Hub!Next]_(Hub!vars)
  BY HubStep
<1> QED
  BY <1>1, <1>2, RolloutInvariant, PTL DEF Spec, HubSpec, Hub!Spec

\* The composition implements the node: whatever the panel and the network do,
\* the node sees nothing that ProfileNode does not specify.  In particular no
\* apply task is older than one it has had.
THEOREM NodeRefined == Spec => NodeSpec
<1>1. Init => Side!Init
  BY DEF Init
<1>2. RolloutInv /\ [Next]_vars => [Side!Next]_(Side!vars)
  BY SideStep
<1> QED
  BY <1>1, <1>2, RolloutInvariant, PTL DEF Spec, NodeSpec, Side!Spec

\* When the panel shows the desired profile as applied, active.json of the node
\* holds that revision, however late the heartbeat and whatever crashed.
THEOREM AppliedShown == Spec => []AppliedShownIsActive
<1>1. ASSUME RolloutInv, Side!SoundRollback, Hub!ApplyState(Node) = "applied"
      PROVE  active = Hub!Revision(Node)
  <2>0. Hub!Revision(Node) = Len(saved[Node]) /\ Len(saved[Node]) \in Nat
    BY <1>1, TaskFacts DEF Hub!Revision
  <2>1. observation[Node] = Applied(Len(saved[Node]))
    BY <1>1, <2>0 DEF Hub!ApplyState, Hub!Observed, Applied
  <2>2. SideProofs!SoundRollback
    BY <1>1 DEF Side!SoundRollback, SideProofs!SoundRollback
  <2>3. Len(saved[Node]) <= active
    BY <1>1, <2>0, <2>1, <2>2 DEF RolloutInv, ShownIsSettled, SideProofs!Settled
  <2>4. active \in Nat /\ agent.task \in Nat /\ active <= agent.task
    BY <1>1 DEF RolloutInv, SideProofs!ReportingInv, SideProofs!NodeInv, SideProofs!TypeOK,
       SideProofs!Agent, SideProofs!OrderInv, SideProofs!Ordered
  <2>5. agent.task <= Len(saved[Node])
    <3>1. CASE agent.task = 0
      BY <2>0, <3>1, SMTT(30)
    <3>2. CASE agent.task # 0
      <4>1. PICK i \in DOMAIN tasks : tasks[i].revision = agent.task
        BY <1>1, <3>2 DEF RolloutInv, HandedOut
      <4>2. agent.task \in 1 .. Len(saved[Node])
        BY <1>1, <4>1, TaskFacts
      <4> QED
        BY <2>0, <4>2, SMTT(30)
    <3> QED
      BY <3>1, <3>2
  <2> QED
    BY <2>0, <2>3, <2>4, <2>5, SMTT(30)
<1>2. RolloutInv => AppliedShownIsActive
  BY <1>1 DEF AppliedShownIsActive
<1> QED
  BY <1>2, RolloutInvariant, PTL
=============================================================================
