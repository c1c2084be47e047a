-------------------------- MODULE ProfileNodeProofs --------------------------
(***************************************************************************)
(* Proofs about ProfileNode, for every number of revisions and crashes and *)
(* every set of faults: type correctness, one installer at a time, the     *)
(* agreement of the state file and of the service unit with active.json,   *)
(* the driver of a pending application, and the two action properties.     *)
(*                                                                         *)
(* NodeInv is the inductive invariant.  Its parts after TypeOK and         *)
(* OneInstaller say, for each place the installer can be, how active.json, *)
(* the state file and the unit relate to its snapshot and its revision.    *)
(***************************************************************************)
EXTENDS ProfileNode, TLAPS

\* The places of a transaction with a snapshot, before the promotion, after it,
\* and in its rollback.
Prepared == {"write pending", "move unit", "stop agent", "start agent",
             "check", "promote"}
Promoted == {"write previous", "write active", "clean up"}
Undoing == {"restore unit", "restore profiles"}
Undone == {"restore state", "stop failed agent", "start failed agent"}

\* Every revision on the node was received as a task, and the candidate and the
\* installer are never behind active.json.
Ordered(act, cand, task, rev, snapCand, snapAct) ==
  /\ act <= task /\ cand <= task /\ rev <= task /\ snapCand <= task
  /\ snapAct <= act
  /\ cand # 0 => act <= cand /\ rev <= cand
  /\ rev # 0 => act <= rev
  /\ snapCand # 0 => rev <= snapCand
OrderInv ==
  Ordered(active, candidate, agent.task, installer.revision,
          installer.snapshot.candidate, installer.snapshot.active)

\* The installer has a revision from the parse to the end of the rollback, and a
\* snapshot after that.
KnownInv ==
  /\ installer.at \in {"idle", "parse"} => installer.revision = 0
  /\ installer.at \in {"idle", "parse", "snapshot"} => installer.snapshot = NoSnapshot
  /\ installer.at \in {"snapshot"} \union Prepared \union Promoted \union Undoing
       => installer.revision # 0

\* What a transaction knows: its snapshot is consistent; active.json is still the
\* snapshot's, or already its own; and the state file does not say "active" from
\* the announcement of the restart to the end of the promotion.
TransactionInv ==
  SoundRollback =>
    /\ installer.at \in Prepared \union Promoted \union Undoing \union Undone =>
         (installer.snapshot.state.state = "active"
            => installer.snapshot.state.revision = installer.snapshot.active)
    /\ installer.at \in Prepared \union Undone => active = installer.snapshot.active
    /\ installer.at \in Promoted => active = installer.revision
    /\ installer.at \in Undoing =>
         /\ active \in {installer.snapshot.active, installer.revision}
         /\ state.state = "active" => active = installer.snapshot.active
    /\ installer.at \in (Prepared \ {"write pending"}) \union {"write previous", "write active"}
         => state.state # "active"

\* The unit is that of active.json, of the transaction, or of its snapshot.
UnitInSnapshot ==
  installer.at \in Prepared \union Promoted \union Undoing \union Undone
    => installer.snapshot.unit = installer.snapshot.active
UnitAtRest ==
  installer.at \in {"idle", "parse", "snapshot", "write pending", "move unit",
                   "write failure"} \union Promoted \union Undone
    => unit = active
UnitInTransaction ==
  installer.at \in {"stop agent", "start agent", "check", "promote"}
    => unit = installer.revision
UnitInRollback ==
  installer.at = "restore profiles" => unit = installer.snapshot.active
UnitKept == SoundRollback /\ "host crash" \notin Faults
UnitInv ==
  UnitKept =>
    UnitInSnapshot /\ UnitAtRest /\ UnitInTransaction /\ UnitInRollback

\* A pending state the agent wrote behind the last write of an installer is the
\* agent's to settle.
DriverInv ==
  /\ Faults \intersect {"rollback", "agent crash", "host crash"} = {}
  /\ installer.at = "clean up" /\ state.state = "pending_restart"
  => agent.at \in {"schedule", "write failed"}

NodeInv ==
  /\ TypeOK
  /\ OneInstaller
  /\ OrderInv
  /\ KnownInv
  /\ TransactionInv
  /\ ActiveStateMatches
  /\ UnitInv
  /\ PendingHasDriver
  /\ DriverInv

-----------------------------------------------------------------------------
(* The shape of the state.                                                 *)

\* What loadActiveProfile reports is an observation, and the overlay a revision.
LEMMA ObserveType ==
  ASSUME NEW a \in Nat, NEW d \in Document \union {NoDocument}
  PROVE  Observe(a, d) \in Observation /\ Overlay(a, d) \in Nat
<1>1. d.state \in {"absent", "pending_restart", "active", "failed"} /\ d.revision \in Nat
  BY DEF Document, NoDocument
<1> QED
  BY <1>1 DEF Observe, Overlay, Observation

\* The fields of the state document.
LEMMA StateType ==
  ASSUME TypeOK
  PROVE  state.state \in {"absent", "pending_restart", "active", "failed"} /\ state.revision \in Nat
BY DEF TypeOK, Document, NoDocument

\* profile_apply_fail always finds a revision to blame.
LEMMA FailType ==
  ASSUME TypeOK, NEW rollback \in BOOLEAN, Fail(rollback)
  PROVE  /\ installer' \in Installer
         /\ installer'.at = IF rollback THEN "restore unit" ELSE "write failure"
         /\ installer'.revision = installer.revision
         /\ installer'.snapshot = installer.snapshot
<1>1. installer \in Installer /\ installer.revision \in Nat
  BY DEF TypeOK, Installer
<1> DEFINE b == CASE installer.revision # 0 -> installer.revision
                  [] installer.revision = 0 /\ state.revision # 0 -> state.revision
                  [] OTHER -> 1
<1>2. b \in Nat
  BY <1>1, StateType
<1>3. installer' = [installer EXCEPT !.at = IF rollback THEN "restore unit" ELSE "write failure",
                                     !.blamed = b]
  BY DEF Fail
<1> HIDE DEF b
<1> QED
  BY <1>1, <1>2, <1>3 DEF Installer, Forward, Backward

\* Every step of the agent keeps the types.
LEMMA AgentType ==
  ASSUME TypeOK, AgentNext
  PROVE  TypeOK'
<1> USE DEF files
<1>1. ASSUME Boot PROVE TypeOK'
  BY <1>1, TypeOK, ObserveType DEF Boot, TypeOK, Agent, Resting, Applying
<1>2. ASSUME ReadActive PROVE TypeOK'
  BY <1>2, TypeOK DEF ReadActive, TypeOK, Agent, Resting, Applying
<1>3. ASSUME ApplyReadActive PROVE TypeOK'
  BY <1>3, TypeOK DEF ApplyReadActive, TypeOK, Agent, Resting, Applying
<1>4. ASSUME ApplyReadState PROVE TypeOK'
  BY <1>4, TypeOK DEF ApplyReadState, Finish, Step, TypeOK, Agent, Resting, Applying
<1>5. ASSUME ApplyWriteFails PROVE TypeOK'
  BY <1>5, TypeOK DEF ApplyWriteFails, Finish, TypeOK, Agent, Resting, Applying
<1>6. ASSUME ApplyWritePrevious PROVE TypeOK'
  BY <1>6, TypeOK DEF ApplyWritePrevious, Step, TypeOK, Agent, Resting, Applying
<1>7. ASSUME ApplyWriteCandidate PROVE TypeOK'
  BY <1>7, TypeOK DEF ApplyWriteCandidate, Step, TypeOK, Agent, Resting, Applying
<1>8. ASSUME ApplyWriteState PROVE TypeOK'
  BY <1>8, TypeOK DEF ApplyWriteState, Step, TypeOK, Agent, Resting, Applying, Document
<1>9. ASSUME ScheduleProfileApply PROVE TypeOK'
  BY <1>9, TypeOK DEF ScheduleProfileApply, Finish, TypeOK, Agent, Resting, Applying
<1>10. ASSUME ScheduleFails PROVE TypeOK'
  BY <1>10, TypeOK DEF ScheduleFails, Step, TypeOK, Agent, Resting, Applying
<1>11. ASSUME ApplyWriteFailed PROVE TypeOK'
  <2>1. agent' \in Agent /\ agent.task \in Nat
    BY <1>11, TypeOK DEF ApplyWriteFailed, Finish, TypeOK, Agent, Resting
  <2>2. [state |-> "failed", revision |-> agent.task] \in Document
    BY <2>1 DEF Document
  <2> QED
    BY <1>11, <2>1, <2>2, TypeOK DEF ApplyWriteFailed, TypeOK
<1>12. ASSUME Exit PROVE TypeOK'
  BY <1>12, TypeOK DEF Exit, TypeOK, Agent, Resting, Applying
<1>13. ASSUME SendHeartbeat PROVE TypeOK'
  BY <1>13, TypeOK, ObserveType DEF SendHeartbeat, Step, TypeOK, Agent, Resting, Applying
<1>14. ASSUME NoTask PROVE TypeOK'
  BY <1>14, TypeOK DEF NoTask, Step, TypeOK, Agent, Resting, Applying
<1>15. ASSUME Report PROVE TypeOK'
  BY <1>15, TypeOK DEF Report, Step, TypeOK, Agent, Resting, Applying
<1>16. ASSUME NEW r \in 1 .. MaxRevision, ReceiveTask(r) PROVE TypeOK'
  <2>1. r \in Nat
    BY NodeAssumption
  <2> QED
    BY <1>16, <2>1, TypeOK DEF ReceiveTask, TypeOK, Agent, Resting, Applying
<1> QED
  BY AgentNext, <1>1, <1>2, <1>3, <1>4, <1>5, <1>6, <1>7, <1>8, <1>9, <1>10, <1>11, <1>12, <1>13, <1>14, <1>15, <1>16 DEF AgentNext, AgentLocal

\* Every step of the installer keeps the types.
LEMMA InstallerType ==
  ASSUME TypeOK, InstallerNext
  PROVE  TypeOK'
<1> USE DEF files
<1>1. ASSUME Parse PROVE TypeOK'
  <2>1. installer' \in Installer
    BY <1>1, TypeOK, FailType DEF Parse, TypeOK, Installer, Forward, Backward
  <2> QED
    BY <1>1, <2>1, TypeOK DEF Parse, TypeOK
<1>2. ASSUME TakeSnapshot PROVE TypeOK'
  BY <1>2, TypeOK DEF TakeSnapshot, AgentIsDown, TypeOK, Installer, Forward, Backward, Snapshot
<1>3. ASSUME NEW k \in 0 .. 3, SnapshotFails(k) PROVE TypeOK'
  BY <1>3, TypeOK DEF SnapshotFails, TypeOK, Installer, Forward, Backward, Snapshot, NoSnapshot, NoDocument
<1>4. ASSUME InstallFails PROVE TypeOK'
  BY <1>4, TypeOK, FailType DEF InstallFails, TypeOK
<1>5. ASSUME WritePending PROVE TypeOK'
  BY <1>5, TypeOK DEF WritePending, Advance, TypeOK, Installer, Forward, Backward, Document
<1>6. ASSUME MoveUnit PROVE TypeOK'
  BY <1>6, TypeOK DEF MoveUnit, Advance, TypeOK, Installer, Forward, Backward
<1>7. ASSUME StopAgent("stop agent", "start agent") PROVE TypeOK'
  BY <1>7, TypeOK DEF StopAgent, Advance, TypeOK, Installer, Forward, Backward, Agent, Resting, Applying
<1>8. ASSUME StartAgent PROVE TypeOK'
  <2>1. installer' \in Installer
    BY <1>8, TypeOK, FailType DEF StartAgent, Advance, TypeOK, Installer, Forward
  <2>2. agent' \in Agent
    BY <1>8, TypeOK DEF StartAgent, TypeOK, Agent, Resting
  <2> QED
    BY <1>8, <2>1, <2>2, TypeOK DEF StartAgent, TypeOK
<1>9. ASSUME ActiveChecks PROVE TypeOK'
  <2>1. installer' \in Installer
    BY <1>9, TypeOK, FailType DEF ActiveChecks, Advance, TypeOK, Installer, Forward
  <2> QED
    BY <1>9, <2>1, TypeOK DEF ActiveChecks, TypeOK
<1>10. ASSUME Promote PROVE TypeOK'
  BY <1>10, TypeOK DEF Promote, Advance, TypeOK, Installer, Forward, Backward, Snapshot
<1>11. ASSUME WritePrevious PROVE TypeOK'
  BY <1>11, TypeOK DEF WritePrevious, Advance, TypeOK, Installer, Forward, Backward, Snapshot
<1>12. ASSUME WriteActive PROVE TypeOK'
  BY <1>12, TypeOK DEF WriteActive, Advance, TypeOK, Installer, Forward, Backward, Document
<1>13. ASSUME CleanUp PROVE TypeOK'
  BY <1>13, TypeOK DEF CleanUp, TypeOK, Installer, Forward, Backward, NoInstaller, NoSnapshot, Snapshot, NoDocument
<1>14. ASSUME RestoreUnit PROVE TypeOK'
  BY <1>14, TypeOK DEF RestoreUnit, Advance, TypeOK, Installer, Forward, Backward, Snapshot
<1>15. ASSUME RestoreProfiles PROVE TypeOK'
  BY <1>15, TypeOK DEF RestoreProfiles, Advance, TypeOK, Installer, Forward, Backward, Snapshot
<1>16. ASSUME RestoreState PROVE TypeOK'
  BY <1>16, TypeOK DEF RestoreState, Advance, TypeOK, Installer, Forward, Backward, Snapshot
<1>17. ASSUME StopAgent("stop failed agent", "start failed agent") PROVE TypeOK'
  BY <1>17, TypeOK DEF StopAgent, Advance, TypeOK, Installer, Forward, Backward, Agent, Resting, Applying
<1>18. ASSUME StartFailedAgent PROVE TypeOK'
  BY <1>18, TypeOK DEF StartFailedAgent, Advance, TypeOK, Installer, Forward, Backward, Agent, Resting, Applying
<1>19. ASSUME WriteFailure PROVE TypeOK'
  <2>1. installer' \in Installer
    BY <1>19 DEF WriteFailure, Installer, NoInstaller, NoSnapshot, Snapshot, NoDocument
  <2>2. installer.blamed \in Nat
    BY TypeOK DEF TypeOK, Installer
  <2>3. [state |-> "failed", revision |-> installer.blamed] \in Document
    BY <2>2 DEF Document
  <2> QED
    BY <1>19, <2>1, <2>3, TypeOK DEF WriteFailure, TypeOK
<1> QED
  BY InstallerNext, <1>1, <1>2, <1>3, <1>4, <1>5, <1>6, <1>7, <1>8, <1>9, <1>10, <1>11, <1>12, <1>13, <1>14, <1>15, <1>16, <1>17, <1>18, <1>19 DEF InstallerNext

\* Every step keeps the types.
LEMMA TypeStep ==
  ASSUME TypeOK, [Next]_vars
  PROVE  TypeOK'
<1>0. NoInstaller \in Installer /\ [NoInstaller EXCEPT !.at = "parse"] \in Installer
  BY DEF NoInstaller, Installer, Forward, NoSnapshot, Snapshot, NoDocument
<1>1. ASSUME Systemd PROVE TypeOK'
  <2>1. CASE TimerFires
    BY <2>1, <1>0, TypeOK DEF TimerFires, files, TypeOK
  <2>2. CASE SystemdRestart
    BY <2>2, TypeOK DEF SystemdRestart, files, TypeOK, Agent, Resting
  <2> QED
    BY <1>1, <2>1, <2>2 DEF Systemd
<1>2. ASSUME Crash PROVE TypeOK'
  <2>1. CASE AgentCrash
    <3>1. agent' \in Agent
      BY <2>1, TypeOK DEF AgentCrash, TypeOK, Agent
    <3>2. crashes' = crashes + 1 /\ crashes \in Nat
      BY <2>1, TypeOK, Zenon DEF AgentCrash, TypeOK
    <3>3. crashes' \in Nat
      BY <3>2
    <3> QED
      BY <2>1, <3>1, <3>3, TypeOK DEF AgentCrash, files, TypeOK
  <2>2. CASE HostCrash
    <3>1. agent' \in Agent
      BY <2>2, TypeOK DEF HostCrash, TypeOK, Agent
    <3>2. crashes' = crashes + 1 /\ crashes \in Nat
      BY <2>2, TypeOK, Zenon DEF HostCrash, TypeOK
    <3>3. crashes' \in Nat
      BY <3>2
    <3> QED
      BY <2>2, <3>1, <3>3, <1>0, TypeOK DEF HostCrash, files, TypeOK
  <2> QED
    BY <1>2, <2>1, <2>2 DEF Crash
<1>3. ASSUME UNCHANGED vars PROVE TypeOK'
  BY <1>3, TypeOK DEF vars, files, TypeOK
<1> QED
  BY <1>1, <1>2, <1>3, AgentType, InstallerType DEF Next

\* The state of the node always has the shape the code gives it.
THEOREM TypeCorrect == Spec => []TypeOK
<1>1. Init => TypeOK
  BY DEF Init, TypeOK, Agent, Resting, Installer, NoInstaller, NoSnapshot, Snapshot,
     NoDocument, Observation
<1>2. TypeOK /\ [Next]_vars => TypeOK'
  BY TypeStep
<1> QED
  BY <1>1, <1>2, PTL DEF Spec

-----------------------------------------------------------------------------
(* What a step does to what the invariant talks about.                     *)

\* The fields the invariant compares are numbers.
LEMMA Fields ==
  ASSUME TypeOK
  PROVE  /\ active \in Nat /\ candidate \in Nat /\ unit \in Nat /\ agent.task \in Nat
         /\ installer.revision \in Nat
         /\ installer.snapshot.candidate \in Nat /\ installer.snapshot.active \in Nat
         /\ installer.snapshot.unit \in Nat
         /\ installer.at \in {"idle"} \union Forward \union Backward
<1>1. installer.snapshot \in Snapshot /\ installer.revision \in Nat
      /\ installer.at \in {"idle"} \union Forward \union Backward
  BY DEF TypeOK, Installer
<1>2. agent.task \in Nat
  BY DEF TypeOK, Agent
<1> QED
  BY <1>1, <1>2 DEF TypeOK, Snapshot

\* A step of the installer to its next place changes nothing else of it.
LEMMA AdvanceFields ==
  ASSUME TypeOK, NEW at, Advance(at)
  PROVE  /\ installer'.at = at
         /\ installer'.revision = installer.revision
         /\ installer'.snapshot = installer.snapshot
BY DEF TypeOK, Installer, Advance

\* Outside the installer and the crashes of the host, active.json, the unit and
\* the installer stay; the candidate becomes the agent's task; the state becomes
\* pending or failed; and a free timer is set.
Outside ==
  /\ UNCHANGED <<active, unit, installer>>
  /\ agent.task <= agent'.task
  /\ candidate' \in {candidate, agent'.task}
  /\ state' = state \/ state'.state \in {"pending_restart", "failed"}
  /\ timer' = timer \/ (timer = "free" /\ timer' = "waiting")

\* A step of the agent to its next place keeps the task.
LEMMA TaskKept ==
  ASSUME TypeOK, NEW x, Step(x) \/ Finish(x)
  PROVE  agent'.task = agent.task
BY DEF TypeOK, Agent, Step, Finish

\* The steps of the agent are of that kind.
LEMMA AgentOutside ==
  ASSUME TypeOK, AgentNext
  PROVE  Outside
<1> USE DEF files, Outside
<1>0. agent \in Agent /\ agent.task \in Nat /\ agent.task <= agent.task
  BY DEF TypeOK, Agent
<1>1. ASSUME Boot PROVE Outside
  <2>1. agent'.task = agent.task
    BY <1>1, <1>0 DEF Boot, Agent
  <2> QED
    BY <1>1, <1>0, <2>1 DEF Boot
<1>2. ASSUME ReadActive PROVE Outside
  <2>1. agent'.task = agent.task
    BY <1>2, <1>0 DEF ReadActive, Agent
  <2> QED
    BY <1>2, <1>0, <2>1 DEF ReadActive
<1>3. ASSUME ApplyReadActive PROVE Outside
  <2>1. agent'.task = agent.task
    BY <1>3, <1>0 DEF ApplyReadActive, Agent
  <2> QED
    BY <1>3, <1>0, <2>1 DEF ApplyReadActive
<1>4. ASSUME ApplyReadState PROVE Outside
  <2>1. agent'.task = agent.task
    BY <1>4, TypeOK, TaskKept DEF ApplyReadState
  <2> QED
    BY <1>4, <1>0, <2>1 DEF ApplyReadState
<1>5. ASSUME ApplyWriteFails PROVE Outside
  <2>1. agent'.task = agent.task
    BY <1>5, TypeOK, TaskKept DEF ApplyWriteFails
  <2> QED
    BY <1>5, <1>0, <2>1 DEF ApplyWriteFails
<1>6. ASSUME ApplyWritePrevious PROVE Outside
  <2>1. agent'.task = agent.task
    BY <1>6, TypeOK, TaskKept DEF ApplyWritePrevious
  <2> QED
    BY <1>6, <1>0, <2>1 DEF ApplyWritePrevious
<1>7. ASSUME ApplyWriteCandidate PROVE Outside
  <2>1. agent'.task = agent.task
    BY <1>7, TypeOK, TaskKept DEF ApplyWriteCandidate
  <2> QED
    BY <1>7, <1>0, <2>1 DEF ApplyWriteCandidate
<1>8. ASSUME ApplyWriteState PROVE Outside
  <2>1. agent'.task = agent.task
    BY <1>8, TypeOK, TaskKept DEF ApplyWriteState
  <2> QED
    BY <1>8, <1>0, <2>1 DEF ApplyWriteState
<1>9. ASSUME ScheduleProfileApply PROVE Outside
  <2>1. agent'.task = agent.task
    BY <1>9, TypeOK, TaskKept DEF ScheduleProfileApply
  <2> QED
    BY <1>9, <1>0, <2>1 DEF ScheduleProfileApply
<1>10. ASSUME ScheduleFails PROVE Outside
  <2>1. agent'.task = agent.task
    BY <1>10, TypeOK, TaskKept DEF ScheduleFails
  <2> QED
    BY <1>10, <1>0, <2>1 DEF ScheduleFails
<1>11. ASSUME ApplyWriteFailed PROVE Outside
  <2>1. agent'.task = agent.task
    BY <1>11, TypeOK, TaskKept DEF ApplyWriteFailed
  <2>2. state' = state \/ state' = [state |-> "failed", revision |-> agent.task]
    BY <1>11, Zenon DEF ApplyWriteFailed
  <2>3. state' = state \/ state'.state = "failed"
    BY <2>2
  <2>4. UNCHANGED <<candidate, active, unit, installer, timer>>
    BY <1>11 DEF ApplyWriteFailed
  <2> QED
    BY <1>0, <2>1, <2>3, <2>4
<1>12. ASSUME Exit PROVE Outside
  <2>1. agent'.task = agent.task
    BY <1>12, <1>0 DEF Exit, Agent
  <2> QED
    BY <1>12, <1>0, <2>1 DEF Exit
<1>13. ASSUME SendHeartbeat PROVE Outside
  <2>1. agent'.task = agent.task
    BY <1>13, TypeOK, TaskKept DEF SendHeartbeat
  <2> QED
    BY <1>13, <1>0, <2>1 DEF SendHeartbeat
<1>14. ASSUME NoTask PROVE Outside
  <2>1. agent'.task = agent.task
    BY <1>14, TypeOK, TaskKept DEF NoTask
  <2> QED
    BY <1>14, <1>0, <2>1 DEF NoTask
<1>15. ASSUME Report PROVE Outside
  <2>1. agent'.task = agent.task
    BY <1>15, TypeOK, TaskKept DEF Report
  <2> QED
    BY <1>15, <1>0, <2>1 DEF Report
<1>16. ASSUME NEW r \in 1 .. MaxRevision, ReceiveTask(r) PROVE Outside
  BY <1>16, <1>0, NodeAssumption DEF ReceiveTask, Agent
<1> QED
  BY AgentNext, <1>1, <1>2, <1>3, <1>4, <1>5, <1>6, <1>7, <1>8, <1>9, <1>10, <1>11, <1>12, <1>13, <1>14, <1>15, <1>16 DEF AgentNext, AgentLocal

\* So are a restart by systemd, a crash of the agent and a stuttering step.
LEMMA OtherOutside ==
  ASSUME TypeOK, SystemdRestart \/ AgentCrash \/ UNCHANGED vars
  PROVE  Outside
<1>2. agent \in Agent /\ agent.task \in Nat /\ agent.task <= agent.task
  BY DEF TypeOK, Agent
<1>3. CASE SystemdRestart
  BY <1>2, <1>3 DEF SystemdRestart, Agent, files, Outside
<1>4. CASE AgentCrash
  <2>1. agent'.task = agent.task
    BY <1>2, <1>4 DEF AgentCrash, Agent
  <2> QED
    BY <1>2, <1>4, <2>1, Zenon DEF AgentCrash, files, Outside
<1>5. CASE UNCHANGED vars
  BY <1>2, <1>5 DEF vars, files, Outside
<1> QED
  BY <1>3, <1>4, <1>5


-----------------------------------------------------------------------------
(* The installer preserves the invariant.                             *)

\* The part of the invariant that is about the installer.
InstallerInv ==
  OneInstaller /\ OrderInv /\ KnownInv /\ TransactionInv /\ ActiveStateMatches /\ UnitInv

\* The installer records the pending revision.
LEMMA KeepsWritePending ==
  ASSUME TypeOK, InstallerInv, WritePending
  PROVE  InstallerInv'
<1>1. /\ installer.at = "write pending" /\ installer'.at = "move unit"
      /\ installer'.revision = installer.revision /\ installer'.snapshot = installer.snapshot
  BY TypeOK, AdvanceFields DEF WritePending
<1>2. /\ UNCHANGED <<candidate, active, unit, timer>> /\ agent'.task = agent.task
      /\ state'.state = "pending_restart"
  BY TypeOK DEF WritePending, files
<1>0. OneInstaller /\ OrderInv /\ KnownInv /\ TransactionInv /\ ActiveStateMatches /\ UnitInv
  BY InstallerInv DEF InstallerInv
<1>3. OneInstaller'
  BY <1>0, <1>1, <1>2 DEF OneInstaller
<1>4. OrderInv'
  BY <1>0, <1>1, <1>2 DEF OrderInv
<1>5. KnownInv'
  BY <1>0, <1>1, <1>2 DEF KnownInv, Prepared, Promoted, Undoing
<1>6. TransactionInv'
  BY <1>0, <1>1, <1>2 DEF TransactionInv, Prepared, Promoted, Undoing, Undone
<1>7. ActiveStateMatches'
  BY <1>0, <1>1, <1>2 DEF ActiveStateMatches
<1>8. UnitInv'
  <2>1. UnitKept => UnitInSnapshot'
    BY <1>0, <1>1, <1>2 DEF UnitInv, UnitInSnapshot, Prepared, Promoted, Undoing, Undone
  <2>2. UnitKept => UnitAtRest'
    BY <1>0, <1>1, <1>2 DEF UnitInv, UnitInSnapshot, UnitAtRest, UnitInTransaction, UnitInRollback, Promoted, Undoing, Undone
  <2>3. UnitKept => UnitInTransaction'
    BY <1>0, <1>1, <1>2 DEF UnitInv, UnitInTransaction
  <2>4. UnitKept => UnitInRollback'
    BY <1>0, <1>1, <1>2 DEF UnitInv, UnitInRollback, UnitInSnapshot, Undoing
  <2> QED
    BY <2>1, <2>2, <2>3, <2>4 DEF UnitInv, UnitKept, SoundRollback
<1> QED
  BY <1>3, <1>4, <1>5, <1>6, <1>7, <1>8 DEF InstallerInv

\* The new unit replaces the old one, whose paths the snapshot keeps.
LEMMA KeepsMoveUnit ==
  ASSUME TypeOK, InstallerInv, MoveUnit
  PROVE  InstallerInv'
<1>1. /\ installer.at = "move unit" /\ installer'.at = "stop agent"
      /\ installer'.revision = installer.revision /\ installer'.snapshot = installer.snapshot
  BY TypeOK, AdvanceFields DEF MoveUnit
<1>2. /\ UNCHANGED <<candidate, active, state, timer>> /\ agent'.task = agent.task
      /\ unit' = installer.revision
  BY TypeOK DEF MoveUnit, files
<1>0. OneInstaller /\ OrderInv /\ KnownInv /\ TransactionInv /\ ActiveStateMatches /\ UnitInv
  BY InstallerInv DEF InstallerInv
<1>3. OneInstaller'
  BY <1>0, <1>1, <1>2 DEF OneInstaller
<1>4. OrderInv'
  BY <1>0, <1>1, <1>2 DEF OrderInv
<1>5. KnownInv'
  BY <1>0, <1>1, <1>2 DEF KnownInv, Prepared, Promoted, Undoing
<1>6. TransactionInv'
  BY <1>0, <1>1, <1>2 DEF TransactionInv, Prepared, Promoted, Undoing, Undone
<1>7. ActiveStateMatches'
  BY <1>0, <1>1, <1>2 DEF ActiveStateMatches
<1>8. UnitInv'
  <2>1. UnitKept => UnitInSnapshot'
    BY <1>0, <1>1, <1>2 DEF UnitInv, UnitInSnapshot, Prepared, Promoted, Undoing, Undone
  <2>2. UnitKept => UnitAtRest'
    BY <1>0, <1>1, <1>2 DEF UnitInv, UnitInSnapshot, UnitAtRest, UnitInTransaction, UnitInRollback, Promoted, Undoing, Undone
  <2>3. UnitKept => UnitInTransaction'
    BY <1>0, <1>1, <1>2 DEF UnitInv, UnitInTransaction
  <2>4. UnitKept => UnitInRollback'
    BY <1>0, <1>1, <1>2 DEF UnitInv, UnitInRollback, UnitInSnapshot, Undoing
  <2> QED
    BY <2>1, <2>2, <2>3, <2>4 DEF UnitInv, UnitKept, SoundRollback
<1> QED
  BY <1>3, <1>4, <1>5, <1>6, <1>7, <1>8 DEF InstallerInv

\* The agent is stopped under the new unit.
LEMMA KeepsStop ==
  ASSUME TypeOK, InstallerInv, StopAgent("stop agent", "start agent")
  PROVE  InstallerInv'
<1>1. /\ installer.at = "stop agent" /\ installer'.at = "start agent"
      /\ installer'.revision = installer.revision /\ installer'.snapshot = installer.snapshot
  BY TypeOK, AdvanceFields DEF StopAgent
<1>2. /\ UNCHANGED <<candidate, active, state, unit, timer>> /\ agent'.task = agent.task
  BY TypeOK DEF StopAgent, files, TypeOK, Agent
<1>0. OneInstaller /\ OrderInv /\ KnownInv /\ TransactionInv /\ ActiveStateMatches /\ UnitInv
  BY InstallerInv DEF InstallerInv
<1>3. OneInstaller'
  BY <1>0, <1>1, <1>2 DEF OneInstaller
<1>4. OrderInv'
  BY <1>0, <1>1, <1>2 DEF OrderInv
<1>5. KnownInv'
  BY <1>0, <1>1, <1>2 DEF KnownInv, Prepared, Promoted, Undoing
<1>6. TransactionInv'
  BY <1>0, <1>1, <1>2 DEF TransactionInv, Prepared, Promoted, Undoing, Undone
<1>7. ActiveStateMatches'
  BY <1>0, <1>1, <1>2 DEF ActiveStateMatches
<1>8. UnitInv'
  <2>1. UnitKept => UnitInSnapshot'
    BY <1>0, <1>1, <1>2 DEF UnitInv, UnitInSnapshot, Prepared, Promoted, Undoing, Undone
  <2>2. UnitKept => UnitAtRest'
    BY <1>0, <1>1, <1>2 DEF UnitInv, UnitInSnapshot, UnitAtRest, UnitInTransaction, UnitInRollback, Promoted, Undoing, Undone
  <2>3. UnitKept => UnitInTransaction'
    BY <1>0, <1>1, <1>2 DEF UnitInv, UnitInTransaction
  <2>4. UnitKept => UnitInRollback'
    BY <1>0, <1>1, <1>2 DEF UnitInv, UnitInRollback, UnitInSnapshot, Undoing
  <2> QED
    BY <2>1, <2>2, <2>3, <2>4 DEF UnitInv, UnitKept, SoundRollback
<1> QED
  BY <1>3, <1>4, <1>5, <1>6, <1>7, <1>8 DEF InstallerInv

\* The candidate becomes the active profile.
LEMMA KeepsPromote ==
  ASSUME TypeOK, InstallerInv, Promote
  PROVE  InstallerInv'
<1>1. /\ installer.at = "promote" /\ installer'.at \in {"write active", "write previous"}
      /\ installer'.revision = installer.revision /\ installer'.snapshot = installer.snapshot
  BY TypeOK, AdvanceFields DEF Promote
<1>2. /\ UNCHANGED <<candidate, state, unit, timer>> /\ agent'.task = agent.task
      /\ active' = installer.revision
  BY TypeOK DEF Promote, files
<1>0. OneInstaller /\ OrderInv /\ KnownInv /\ TransactionInv /\ ActiveStateMatches /\ UnitInv
  BY InstallerInv DEF InstallerInv
<1>3. OneInstaller'
  BY <1>0, <1>1, <1>2 DEF OneInstaller
<1>4. OrderInv'
  <2>1. installer.revision # 0
    BY <1>0, <1>1 DEF KnownInv, Prepared
  <2>2. Ordered(installer.revision, candidate, agent.task, installer.revision,
                installer.snapshot.candidate, installer.snapshot.active)
    BY <1>0, <2>1, Fields, TypeOK DEF OrderInv, Ordered
  <2> QED
    BY <1>1, <1>2, <2>2 DEF OrderInv
<1>5. KnownInv'
  BY <1>0, <1>1, <1>2 DEF KnownInv, Prepared, Promoted, Undoing
<1>6. TransactionInv'
  BY <1>0, <1>1, <1>2 DEF TransactionInv, Prepared, Promoted, Undoing, Undone
<1>7. ActiveStateMatches'
  BY <1>0, <1>1, <1>2 DEF ActiveStateMatches, TransactionInv, Prepared, Promoted, Undoing, Undone
<1>8. UnitInv'
  <2>1. UnitKept => UnitInSnapshot'
    BY <1>0, <1>1, <1>2 DEF UnitInv, UnitInSnapshot, Prepared, Promoted, Undoing, Undone
  <2>2. UnitKept => UnitAtRest'
    BY <1>0, <1>1, <1>2 DEF UnitInv, UnitInSnapshot, UnitAtRest, UnitInTransaction, UnitInRollback, Promoted, Undoing, Undone
  <2>3. UnitKept => UnitInTransaction'
    BY <1>0, <1>1, <1>2 DEF UnitInv, UnitInTransaction
  <2>4. UnitKept => UnitInRollback'
    BY <1>0, <1>1, <1>2 DEF UnitInv, UnitInRollback, UnitInSnapshot, Undoing
  <2> QED
    BY <2>1, <2>2, <2>3, <2>4 DEF UnitInv, UnitKept, SoundRollback
<1> QED
  BY <1>3, <1>4, <1>5, <1>6, <1>7, <1>8 DEF InstallerInv

\* The profile it replaces becomes the previous one.
LEMMA KeepsWritePrevious ==
  ASSUME TypeOK, InstallerInv, WritePrevious
  PROVE  InstallerInv'
<1>1. /\ installer.at = "write previous" /\ installer'.at = "write active"
      /\ installer'.revision = installer.revision /\ installer'.snapshot = installer.snapshot
  BY TypeOK, AdvanceFields DEF WritePrevious
<1>2. /\ UNCHANGED <<candidate, active, state, unit, timer>> /\ agent'.task = agent.task
  BY TypeOK DEF WritePrevious, files
<1>0. OneInstaller /\ OrderInv /\ KnownInv /\ TransactionInv /\ ActiveStateMatches /\ UnitInv
  BY InstallerInv DEF InstallerInv
<1>3. OneInstaller'
  BY <1>0, <1>1, <1>2 DEF OneInstaller
<1>4. OrderInv'
  BY <1>0, <1>1, <1>2 DEF OrderInv
<1>5. KnownInv'
  BY <1>0, <1>1, <1>2 DEF KnownInv, Prepared, Promoted, Undoing
<1>6. TransactionInv'
  BY <1>0, <1>1, <1>2 DEF TransactionInv, Prepared, Promoted, Undoing, Undone
<1>7. ActiveStateMatches'
  BY <1>0, <1>1, <1>2 DEF ActiveStateMatches
<1>8. UnitInv'
  <2>1. UnitKept => UnitInSnapshot'
    BY <1>0, <1>1, <1>2 DEF UnitInv, UnitInSnapshot, Prepared, Promoted, Undoing, Undone
  <2>2. UnitKept => UnitAtRest'
    BY <1>0, <1>1, <1>2 DEF UnitInv, UnitInSnapshot, UnitAtRest, UnitInTransaction, UnitInRollback, Promoted, Undoing, Undone
  <2>3. UnitKept => UnitInTransaction'
    BY <1>0, <1>1, <1>2 DEF UnitInv, UnitInTransaction
  <2>4. UnitKept => UnitInRollback'
    BY <1>0, <1>1, <1>2 DEF UnitInv, UnitInRollback, UnitInSnapshot, Undoing
  <2> QED
    BY <2>1, <2>2, <2>3, <2>4 DEF UnitInv, UnitKept, SoundRollback
<1> QED
  BY <1>3, <1>4, <1>5, <1>6, <1>7, <1>8 DEF InstallerInv

\* The state says "active" once active.json has the revision.
LEMMA KeepsWriteActive ==
  ASSUME TypeOK, InstallerInv, WriteActive
  PROVE  InstallerInv'
<1>1. /\ installer.at = "write active" /\ installer'.at = "clean up"
      /\ installer'.revision = installer.revision /\ installer'.snapshot = installer.snapshot
  BY TypeOK, AdvanceFields DEF WriteActive
<1>2. /\ UNCHANGED <<candidate, active, unit, timer>> /\ agent'.task = agent.task
      /\ state'.state = "active" /\ state'.revision = installer.revision
  BY TypeOK DEF WriteActive, files
<1>0. OneInstaller /\ OrderInv /\ KnownInv /\ TransactionInv /\ ActiveStateMatches /\ UnitInv
  BY InstallerInv DEF InstallerInv
<1>3. OneInstaller'
  BY <1>0, <1>1, <1>2 DEF OneInstaller
<1>4. OrderInv'
  BY <1>0, <1>1, <1>2 DEF OrderInv
<1>5. KnownInv'
  BY <1>0, <1>1, <1>2 DEF KnownInv, Prepared, Promoted, Undoing
<1>6. TransactionInv'
  BY <1>0, <1>1, <1>2 DEF TransactionInv, Prepared, Promoted, Undoing, Undone
<1>7. ActiveStateMatches'
  BY <1>0, <1>1, <1>2 DEF ActiveStateMatches, TransactionInv, Prepared, Promoted, Undoing, Undone
<1>8. UnitInv'
  <2>1. UnitKept => UnitInSnapshot'
    BY <1>0, <1>1, <1>2 DEF UnitInv, UnitInSnapshot, Prepared, Promoted, Undoing, Undone
  <2>2. UnitKept => UnitAtRest'
    BY <1>0, <1>1, <1>2 DEF UnitInv, UnitInSnapshot, UnitAtRest, UnitInTransaction, UnitInRollback, Promoted, Undoing, Undone
  <2>3. UnitKept => UnitInTransaction'
    BY <1>0, <1>1, <1>2 DEF UnitInv, UnitInTransaction
  <2>4. UnitKept => UnitInRollback'
    BY <1>0, <1>1, <1>2 DEF UnitInv, UnitInRollback, UnitInSnapshot, Undoing
  <2> QED
    BY <2>1, <2>2, <2>3, <2>4 DEF UnitInv, UnitKept, SoundRollback
<1> QED
  BY <1>3, <1>4, <1>5, <1>6, <1>7, <1>8 DEF InstallerInv

\* The rollback puts the unit of the snapshot back.
LEMMA KeepsRestoreUnit ==
  ASSUME TypeOK, InstallerInv, RestoreUnit
  PROVE  InstallerInv'
<1>1. /\ installer.at = "restore unit" /\ installer'.at = "restore profiles"
      /\ installer'.revision = installer.revision /\ installer'.snapshot = installer.snapshot
  BY TypeOK, AdvanceFields DEF RestoreUnit
<1>2. /\ UNCHANGED <<candidate, active, state, timer>> /\ agent'.task = agent.task
      /\ unit' = installer.snapshot.unit \/ ("rollback" \in Faults /\ unit' = unit)
  BY TypeOK DEF RestoreUnit, files
<1>0. OneInstaller /\ OrderInv /\ KnownInv /\ TransactionInv /\ ActiveStateMatches /\ UnitInv
  BY InstallerInv DEF InstallerInv
<1>3. OneInstaller'
  BY <1>0, <1>1, <1>2 DEF OneInstaller
<1>4. OrderInv'
  BY <1>0, <1>1, <1>2 DEF OrderInv
<1>5. KnownInv'
  BY <1>0, <1>1, <1>2 DEF KnownInv, Prepared, Promoted, Undoing
<1>6. TransactionInv'
  BY <1>0, <1>1, <1>2 DEF TransactionInv, Prepared, Promoted, Undoing, Undone, SoundRollback, ActiveStateMatches
<1>7. ActiveStateMatches'
  BY <1>0, <1>1, <1>2 DEF ActiveStateMatches, SoundRollback, TransactionInv, Prepared, Promoted, Undoing, Undone
<1>8. UnitInv'
  <2>1. UnitKept => UnitInSnapshot'
    BY <1>0, <1>1, <1>2 DEF UnitInv, UnitInSnapshot, Prepared, Promoted, Undoing, Undone
  <2>2. UnitKept => UnitAtRest'
    BY <1>0, <1>1, <1>2 DEF UnitInv, UnitInSnapshot, UnitAtRest, UnitInTransaction, UnitInRollback, Promoted, Undoing, Undone, UnitKept, SoundRollback
  <2>3. UnitKept => UnitInTransaction'
    BY <1>0, <1>1, <1>2 DEF UnitInv, UnitInTransaction
  <2>4. UnitKept => UnitInRollback'
    BY <1>0, <1>1, <1>2 DEF UnitInv, UnitInRollback, UnitInSnapshot, Undoing, UnitKept, SoundRollback
  <2> QED
    BY <2>1, <2>2, <2>3, <2>4 DEF UnitInv, UnitKept, SoundRollback
<1> QED
  BY <1>3, <1>4, <1>5, <1>6, <1>7, <1>8 DEF InstallerInv

\* The rollback puts the profiles of the snapshot back.
LEMMA KeepsRestoreProfiles ==
  ASSUME TypeOK, InstallerInv, RestoreProfiles
  PROVE  InstallerInv'
<1>1. /\ installer.at = "restore profiles" /\ installer'.at = "restore state"
      /\ installer'.revision = installer.revision /\ installer'.snapshot = installer.snapshot
  BY TypeOK, AdvanceFields DEF RestoreProfiles
<1>2. /\ UNCHANGED <<state, unit, timer>> /\ agent'.task = agent.task
      /\ \/ (candidate' = installer.snapshot.candidate /\ active' = installer.snapshot.active)
         \/ ("rollback" \in Faults /\ candidate' = candidate /\ active' = active)
  BY TypeOK DEF RestoreProfiles, files
<1>0. OneInstaller /\ OrderInv /\ KnownInv /\ TransactionInv /\ ActiveStateMatches /\ UnitInv
  BY InstallerInv DEF InstallerInv
<1>3. OneInstaller'
  BY <1>0, <1>1, <1>2 DEF OneInstaller
<1>4. OrderInv'
  <2>1. installer.revision # 0
    BY <1>0, <1>1 DEF KnownInv, Undoing
  <2>2. Ordered(installer.snapshot.active, installer.snapshot.candidate, agent.task,
                installer.revision, installer.snapshot.candidate, installer.snapshot.active)
    BY <1>0, <2>1, Fields, TypeOK DEF OrderInv, Ordered
  <2> QED
    BY <1>0, <1>1, <1>2, <2>2 DEF OrderInv
<1>5. KnownInv'
  BY <1>0, <1>1, <1>2 DEF KnownInv, Prepared, Promoted, Undoing
<1>6. TransactionInv'
  BY <1>0, <1>1, <1>2 DEF TransactionInv, Prepared, Promoted, Undoing, Undone, SoundRollback
<1>7. ActiveStateMatches'
  BY <1>0, <1>1, <1>2 DEF ActiveStateMatches, SoundRollback, TransactionInv, Prepared, Promoted, Undoing, Undone
<1>8. UnitInv'
  <2>1. UnitKept => UnitInSnapshot'
    BY <1>0, <1>1, <1>2 DEF UnitInv, UnitInSnapshot, Prepared, Promoted, Undoing, Undone
  <2>2. UnitKept => UnitAtRest'
    BY <1>0, <1>1, <1>2 DEF UnitInv, UnitInSnapshot, UnitAtRest, UnitInTransaction, UnitInRollback, Promoted, Undoing, Undone, UnitKept, SoundRollback
  <2>3. UnitKept => UnitInTransaction'
    BY <1>0, <1>1, <1>2 DEF UnitInv, UnitInTransaction
  <2>4. UnitKept => UnitInRollback'
    BY <1>0, <1>1, <1>2 DEF UnitInv, UnitInRollback, UnitInSnapshot, Undoing, UnitKept, SoundRollback
  <2> QED
    BY <2>1, <2>2, <2>3, <2>4 DEF UnitInv, UnitKept, SoundRollback
<1> QED
  BY <1>3, <1>4, <1>5, <1>6, <1>7, <1>8 DEF InstallerInv

\* The rollback puts the state of the snapshot back.
LEMMA KeepsRestoreState ==
  ASSUME TypeOK, InstallerInv, RestoreState
  PROVE  InstallerInv'
<1>1. /\ installer.at = "restore state" /\ installer'.at = "stop failed agent"
      /\ installer'.revision = installer.revision /\ installer'.snapshot = installer.snapshot
  BY TypeOK, AdvanceFields DEF RestoreState
<1>2. /\ UNCHANGED <<candidate, active, unit, timer>> /\ agent'.task = agent.task
      /\ state' = installer.snapshot.state \/ ("rollback" \in Faults /\ state' = state)
  BY TypeOK DEF RestoreState, files
<1>0. OneInstaller /\ OrderInv /\ KnownInv /\ TransactionInv /\ ActiveStateMatches /\ UnitInv
  BY InstallerInv DEF InstallerInv
<1>3. OneInstaller'
  BY <1>0, <1>1, <1>2 DEF OneInstaller
<1>4. OrderInv'
  BY <1>0, <1>1, <1>2 DEF OrderInv
<1>5. KnownInv'
  BY <1>0, <1>1, <1>2 DEF KnownInv, Prepared, Promoted, Undoing
<1>6. TransactionInv'
  BY <1>0, <1>1, <1>2 DEF TransactionInv, Prepared, Promoted, Undoing, Undone, SoundRollback
<1>7. ActiveStateMatches'
  BY <1>0, <1>1, <1>2 DEF ActiveStateMatches, SoundRollback, TransactionInv, Prepared, Promoted, Undoing, Undone
<1>8. UnitInv'
  <2>1. UnitKept => UnitInSnapshot'
    BY <1>0, <1>1, <1>2 DEF UnitInv, UnitInSnapshot, Prepared, Promoted, Undoing, Undone
  <2>2. UnitKept => UnitAtRest'
    BY <1>0, <1>1, <1>2 DEF UnitInv, UnitInSnapshot, UnitAtRest, UnitInTransaction, UnitInRollback, Promoted, Undoing, Undone, UnitKept, SoundRollback
  <2>3. UnitKept => UnitInTransaction'
    BY <1>0, <1>1, <1>2 DEF UnitInv, UnitInTransaction
  <2>4. UnitKept => UnitInRollback'
    BY <1>0, <1>1, <1>2 DEF UnitInv, UnitInRollback, UnitInSnapshot, Undoing, UnitKept, SoundRollback
  <2> QED
    BY <2>1, <2>2, <2>3, <2>4 DEF UnitInv, UnitKept, SoundRollback
<1> QED
  BY <1>3, <1>4, <1>5, <1>6, <1>7, <1>8 DEF InstallerInv

\* The rollback stops the agent that runs under the new unit.
LEMMA KeepsStopFailed ==
  ASSUME TypeOK, InstallerInv, StopAgent("stop failed agent", "start failed agent")
  PROVE  InstallerInv'
<1>1. /\ installer.at = "stop failed agent" /\ installer'.at = "start failed agent"
      /\ installer'.revision = installer.revision /\ installer'.snapshot = installer.snapshot
  BY TypeOK, AdvanceFields DEF StopAgent
<1>2. /\ UNCHANGED <<candidate, active, state, unit, timer>> /\ agent'.task = agent.task
  BY TypeOK DEF StopAgent, files, TypeOK, Agent
<1>0. OneInstaller /\ OrderInv /\ KnownInv /\ TransactionInv /\ ActiveStateMatches /\ UnitInv
  BY InstallerInv DEF InstallerInv
<1>3. OneInstaller'
  BY <1>0, <1>1, <1>2 DEF OneInstaller
<1>4. OrderInv'
  BY <1>0, <1>1, <1>2 DEF OrderInv
<1>5. KnownInv'
  BY <1>0, <1>1, <1>2 DEF KnownInv, Prepared, Promoted, Undoing
<1>6. TransactionInv'
  BY <1>0, <1>1, <1>2 DEF TransactionInv, Prepared, Promoted, Undoing, Undone
<1>7. ActiveStateMatches'
  BY <1>0, <1>1, <1>2 DEF ActiveStateMatches
<1>8. UnitInv'
  <2>1. UnitKept => UnitInSnapshot'
    BY <1>0, <1>1, <1>2 DEF UnitInv, UnitInSnapshot, Prepared, Promoted, Undoing, Undone
  <2>2. UnitKept => UnitAtRest'
    BY <1>0, <1>1, <1>2 DEF UnitInv, UnitInSnapshot, UnitAtRest, UnitInTransaction, UnitInRollback, Promoted, Undoing, Undone
  <2>3. UnitKept => UnitInTransaction'
    BY <1>0, <1>1, <1>2 DEF UnitInv, UnitInTransaction
  <2>4. UnitKept => UnitInRollback'
    BY <1>0, <1>1, <1>2 DEF UnitInv, UnitInRollback, UnitInSnapshot, Undoing
  <2> QED
    BY <2>1, <2>2, <2>3, <2>4 DEF UnitInv, UnitKept, SoundRollback
<1> QED
  BY <1>3, <1>4, <1>5, <1>6, <1>7, <1>8 DEF InstallerInv

\* The rollback starts the agent when it was up at the snapshot.
LEMMA KeepsStartFailedAgent ==
  ASSUME TypeOK, InstallerInv, StartFailedAgent
  PROVE  InstallerInv'
<1>1. /\ installer.at = "start failed agent" /\ installer'.at = "write failure"
      /\ installer'.revision = installer.revision /\ installer'.snapshot = installer.snapshot
  BY TypeOK, AdvanceFields DEF StartFailedAgent
<1>2. /\ UNCHANGED <<candidate, active, state, unit, timer>> /\ agent'.task = agent.task
  BY TypeOK DEF StartFailedAgent, files, TypeOK, Agent
<1>0. OneInstaller /\ OrderInv /\ KnownInv /\ TransactionInv /\ ActiveStateMatches /\ UnitInv
  BY InstallerInv DEF InstallerInv
<1>3. OneInstaller'
  BY <1>0, <1>1, <1>2 DEF OneInstaller
<1>4. OrderInv'
  BY <1>0, <1>1, <1>2 DEF OrderInv
<1>5. KnownInv'
  BY <1>0, <1>1, <1>2 DEF KnownInv, Prepared, Promoted, Undoing
<1>6. TransactionInv'
  BY <1>0, <1>1, <1>2 DEF TransactionInv, Prepared, Promoted, Undoing, Undone
<1>7. ActiveStateMatches'
  BY <1>0, <1>1, <1>2 DEF ActiveStateMatches
<1>8. UnitInv'
  <2>1. UnitKept => UnitInSnapshot'
    BY <1>0, <1>1, <1>2 DEF UnitInv, UnitInSnapshot, Prepared, Promoted, Undoing, Undone
  <2>2. UnitKept => UnitAtRest'
    BY <1>0, <1>1, <1>2 DEF UnitInv, UnitInSnapshot, UnitAtRest, UnitInTransaction, UnitInRollback, Promoted, Undoing, Undone
  <2>3. UnitKept => UnitInTransaction'
    BY <1>0, <1>1, <1>2 DEF UnitInv, UnitInTransaction
  <2>4. UnitKept => UnitInRollback'
    BY <1>0, <1>1, <1>2 DEF UnitInv, UnitInRollback, UnitInSnapshot, Undoing
  <2> QED
    BY <2>1, <2>2, <2>3, <2>4 DEF UnitInv, UnitKept, SoundRollback
<1> QED
  BY <1>3, <1>4, <1>5, <1>6, <1>7, <1>8 DEF InstallerInv

\* A transaction that turns to its rollback.
LEMMA KeepsFail ==
  ASSUME TypeOK, InstallerInv, Fail(TRUE), UNCHANGED <<candidate, active, state, unit, timer, agent.task>>,
         installer.at \in Prepared \union {"write previous", "write active"}
  PROVE  InstallerInv'
<1>0. OneInstaller /\ OrderInv /\ KnownInv /\ TransactionInv /\ ActiveStateMatches /\ UnitInv
  BY InstallerInv DEF InstallerInv
<1>1. /\ installer'.at = "restore unit"
      /\ installer'.revision = installer.revision /\ installer'.snapshot = installer.snapshot
  BY TypeOK, FailType
<1>2. /\ UNCHANGED <<candidate, active, state, unit, timer>> /\ agent'.task = agent.task
      /\ installer.at \in Prepared \union {"write previous", "write active"}
  OBVIOUS
<1>3. OneInstaller'
  BY <1>0, <1>1, <1>2 DEF OneInstaller, Prepared
<1>4. OrderInv'
  BY <1>0, <1>1, <1>2 DEF OrderInv
<1>5. KnownInv'
  BY <1>0, <1>1, <1>2 DEF KnownInv, Prepared, Promoted, Undoing
<1>6. TransactionInv'
  BY <1>0, <1>1, <1>2 DEF TransactionInv, Prepared, Promoted, Undoing, Undone, ActiveStateMatches
<1>7. ActiveStateMatches'
  BY <1>0, <1>1, <1>2 DEF ActiveStateMatches
<1>8. UnitInv'
  <2>1. UnitKept => UnitInSnapshot'
    BY <1>0, <1>1, <1>2 DEF UnitInv, UnitInSnapshot, Promoted
  <2>2. UnitKept => UnitAtRest'
    BY <1>0, <1>1, <1>2 DEF UnitInv, UnitAtRest, Prepared, Promoted, Undoing, Undone
  <2>3. UnitKept => UnitInTransaction'
    BY <1>0, <1>1, <1>2 DEF UnitInv, UnitInTransaction
  <2>4. UnitKept => UnitInRollback'
    BY <1>0, <1>1, <1>2 DEF UnitInv, UnitInRollback
  <2> QED
    BY <2>1, <2>2, <2>3, <2>4 DEF UnitInv, UnitKept, SoundRollback
<1> QED
  BY <1>3, <1>4, <1>5, <1>6, <1>7, <1>8 DEF InstallerInv

\* A check of the transaction that passes.
LEMMA KeepsCheck ==
  ASSUME TypeOK, InstallerInv, UNCHANGED <<candidate, active, state, unit, timer, agent.task>>,
         \/ installer.at = "start agent" /\ Advance("check")
         \/ installer.at = "check" /\ Advance("promote")
  PROVE  InstallerInv'
<1>0. OneInstaller /\ OrderInv /\ KnownInv /\ TransactionInv /\ ActiveStateMatches /\ UnitInv
  BY InstallerInv DEF InstallerInv
<1>1. /\ installer'.at \in {"check", "promote"}
      /\ installer'.revision = installer.revision /\ installer'.snapshot = installer.snapshot
  BY TypeOK, AdvanceFields
<1>2. /\ UNCHANGED <<candidate, active, state, unit, timer>> /\ agent'.task = agent.task
      /\ installer.at \in {"start agent", "check"}
  OBVIOUS
<1>3. OneInstaller'
  BY <1>0, <1>1, <1>2 DEF OneInstaller
<1>4. OrderInv'
  BY <1>0, <1>1, <1>2 DEF OrderInv
<1>5. KnownInv'
  BY <1>0, <1>1, <1>2 DEF KnownInv, Prepared, Promoted, Undoing
<1>6. TransactionInv'
  BY <1>0, <1>1, <1>2 DEF TransactionInv, Prepared, Promoted, Undoing, Undone, ActiveStateMatches
<1>7. ActiveStateMatches'
  BY <1>0, <1>1, <1>2 DEF ActiveStateMatches
<1>8. UnitInv'
  <2>1. UnitKept => UnitInSnapshot'
    BY <1>0, <1>1, <1>2 DEF UnitInv, UnitInSnapshot, Prepared, Promoted, Undoing, Undone
  <2>2. UnitKept => UnitAtRest'
    BY <1>0, <1>1, <1>2 DEF UnitInv, UnitAtRest, Prepared, Promoted, Undoing, Undone
  <2>3. UnitKept => UnitInTransaction'
    BY <1>0, <1>1, <1>2 DEF UnitInv, UnitInTransaction
  <2>4. UnitKept => UnitInRollback'
    BY <1>0, <1>1, <1>2 DEF UnitInv, UnitInRollback
  <2> QED
    BY <2>1, <2>2, <2>3, <2>4 DEF UnitInv, UnitKept, SoundRollback
<1> QED
  BY <1>3, <1>4, <1>5, <1>6, <1>7, <1>8 DEF InstallerInv

\* The failures and the checks of the transaction.
LEMMA KeepsInstallFails ==
  ASSUME TypeOK, InstallerInv, InstallFails
  PROVE  InstallerInv'
<1>1. UNCHANGED <<candidate, active, state, unit, timer, agent.task>> /\ Fail(TRUE)
      /\ installer.at \in Prepared \union {"write previous", "write active"}
  BY DEF InstallFails, files, Prepared
<1> QED
  BY <1>1, TypeOK, InstallerInv, KeepsFail

\* The start of the agent, successful or not.
LEMMA KeepsStartAgent ==
  ASSUME TypeOK, InstallerInv, StartAgent
  PROVE  InstallerInv'
<1>1. UNCHANGED <<candidate, active, state, unit, timer>> /\ installer.at = "start agent"
      /\ (Advance("check") \/ Fail(TRUE))
  BY DEF StartAgent, files
<1>2. UNCHANGED agent.task
  BY TypeOK DEF StartAgent, TypeOK, Agent
<1>3. installer.at \in Prepared
  BY <1>1 DEF Prepared
<1> QED
  BY <1>1, <1>2, <1>3, TypeOK, InstallerInv, KeepsFail, KeepsCheck

\* The health checks of the agent, passed or not.
LEMMA KeepsActiveChecks ==
  ASSUME TypeOK, InstallerInv, ActiveChecks
  PROVE  InstallerInv'
<1>1. UNCHANGED <<candidate, active, state, unit, timer, agent.task>> /\ installer.at = "check"
      /\ (Advance("promote") \/ Fail(TRUE))
  BY DEF ActiveChecks, files
<1>2. installer.at \in Prepared
  BY <1>1 DEF Prepared
<1> QED
  BY <1>1, <1>2, TypeOK, InstallerInv, KeepsFail, KeepsCheck

\* The installer starts with nothing but the timer.
LEMMA KeepsTimerFires ==
  ASSUME TypeOK, InstallerInv, TimerFires
  PROVE  InstallerInv'
<1>0. OneInstaller /\ OrderInv /\ KnownInv /\ TransactionInv /\ ActiveStateMatches /\ UnitInv
  BY InstallerInv DEF InstallerInv
<1>1. /\ installer.at # "idle" <=> timer = "running"
      /\ timer = "waiting" /\ timer' = "running" /\ installer'.at = "parse" /\ installer'.revision = 0 /\ installer'.snapshot = NoSnapshot
      /\ NoSnapshot.candidate = 0 /\ NoSnapshot.active = 0 /\ NoSnapshot.unit = 0
  BY <1>0 DEF TimerFires, NoInstaller, NoSnapshot, OneInstaller
<1>2. UNCHANGED <<candidate, active, state, unit>> /\ agent'.task = agent.task
  BY DEF TimerFires, files
<1>3. OneInstaller'
  BY <1>0, <1>1, <1>2 DEF OneInstaller
<1>4. OrderInv'
  <2>1. Ordered(active, candidate, agent.task, 0, 0, 0)
    BY <1>0, Fields, TypeOK DEF OrderInv, Ordered
  <2> QED
    BY <1>1, <1>2, <2>1 DEF OrderInv
<1>5. KnownInv'
  BY <1>0, <1>1, <1>2 DEF KnownInv, Prepared, Promoted, Undoing
<1>6. TransactionInv'
  BY <1>0, <1>1, <1>2 DEF TransactionInv, Prepared, Promoted, Undoing, Undone, ActiveStateMatches
<1>7. ActiveStateMatches'
  BY <1>0, <1>1, <1>2 DEF ActiveStateMatches
<1>8. UnitInv'
  <2>1. UnitKept => UnitInSnapshot'
    BY <1>0, <1>1, <1>2 DEF UnitInv, UnitInSnapshot, UnitAtRest, Prepared, Promoted, Undoing, Undone
  <2>2. UnitKept => UnitAtRest'
    BY <1>0, <1>1, <1>2 DEF UnitInv, UnitAtRest, Prepared, Promoted, Undoing, Undone
  <2>3. UnitKept => UnitInTransaction'
    BY <1>0, <1>1, <1>2 DEF UnitInv, UnitInTransaction
  <2>4. UnitKept => UnitInRollback'
    BY <1>0, <1>1, <1>2 DEF UnitInv, UnitInRollback
  <2> QED
    BY <2>1, <2>2, <2>3, <2>4 DEF UnitInv, UnitKept, SoundRollback
<1> QED
  BY <1>3, <1>4, <1>5, <1>6, <1>7, <1>8 DEF InstallerInv

\* The installer takes its revision from the candidate, or fails before it has one.
LEMMA KeepsParse ==
  ASSUME TypeOK, InstallerInv, Parse
  PROVE  InstallerInv'
<1>0. OneInstaller /\ OrderInv /\ KnownInv /\ TransactionInv /\ ActiveStateMatches /\ UnitInv
  BY InstallerInv DEF InstallerInv
<1>1. /\ installer.at = "parse" /\ installer'.snapshot = installer.snapshot
      /\ \/ installer'.at \in {"snapshot", "write failure"} /\ installer'.revision = candidate /\ candidate # 0
         \/ installer'.at = "write failure" /\ installer'.revision = installer.revision
  BY TypeOK, FailType DEF Parse, TypeOK, Installer
<1>2. UNCHANGED <<candidate, active, state, unit, timer>> /\ agent'.task = agent.task
  BY DEF Parse, files
<1>3. OneInstaller'
  BY <1>0, <1>1, <1>2 DEF OneInstaller
<1>4. OrderInv'
  <2>0. installer.snapshot.candidate = 0 /\ installer.snapshot.active = 0
    <3>1. installer.snapshot = NoSnapshot
      BY <1>0, <1>1 DEF KnownInv
    <3> QED
      BY <3>1 DEF NoSnapshot
  <2>1. candidate # 0 => Ordered(active, candidate, agent.task, candidate, 0, 0)
    BY <1>0, <2>0, Fields, TypeOK DEF OrderInv, Ordered
  <2>2. Ordered(active, candidate, agent.task, installer.revision, 0, 0)
    BY <1>0, <2>0, Fields, TypeOK DEF OrderInv, Ordered
  <2> QED
    BY <1>1, <1>2, <2>0, <2>1, <2>2 DEF OrderInv
<1>5. KnownInv'
  BY <1>0, <1>1, <1>2 DEF KnownInv, Prepared, Promoted, Undoing
<1>6. TransactionInv'
  BY <1>0, <1>1, <1>2 DEF TransactionInv, Prepared, Promoted, Undoing, Undone, ActiveStateMatches
<1>7. ActiveStateMatches'
  BY <1>0, <1>1, <1>2 DEF ActiveStateMatches
<1>8. UnitInv'
  <2>1. UnitKept => UnitInSnapshot'
    BY <1>0, <1>1, <1>2 DEF UnitInv, UnitInSnapshot, UnitAtRest, Prepared, Promoted, Undoing, Undone
  <2>2. UnitKept => UnitAtRest'
    BY <1>0, <1>1, <1>2 DEF UnitInv, UnitAtRest, Prepared, Promoted, Undoing, Undone
  <2>3. UnitKept => UnitInTransaction'
    BY <1>0, <1>1, <1>2 DEF UnitInv, UnitInTransaction
  <2>4. UnitKept => UnitInRollback'
    BY <1>0, <1>1, <1>2 DEF UnitInv, UnitInRollback
  <2> QED
    BY <2>1, <2>2, <2>3, <2>4 DEF UnitInv, UnitKept, SoundRollback
<1> QED
  BY <1>3, <1>4, <1>5, <1>6, <1>7, <1>8 DEF InstallerInv

\* The complete snapshot.
LEMMA KeepsTakeSnapshot ==
  ASSUME TypeOK, InstallerInv, TakeSnapshot
  PROVE  InstallerInv'
<1>0. OneInstaller /\ OrderInv /\ KnownInv /\ TransactionInv /\ ActiveStateMatches /\ UnitInv
  BY InstallerInv DEF InstallerInv
<1>1. /\ installer.at = "snapshot" /\ installer'.at = "write pending" /\ installer'.revision = installer.revision
      /\ installer'.snapshot.candidate = candidate /\ installer'.snapshot.active = active
      /\ installer'.snapshot.unit = unit /\ installer'.snapshot.state = state
  BY TypeOK DEF TakeSnapshot, TypeOK, Installer
<1>2. UNCHANGED <<candidate, active, state, unit, timer>> /\ agent'.task = agent.task
  BY DEF TakeSnapshot, files
<1>3. OneInstaller'
  BY <1>0, <1>1, <1>2 DEF OneInstaller
<1>4. OrderInv'
  <2>1. Ordered(active, candidate, agent.task, installer.revision, candidate, active)
    BY <1>0, Fields, TypeOK DEF OrderInv, Ordered
  <2> QED
    BY <1>1, <1>2, <2>1 DEF OrderInv
<1>5. KnownInv'
  BY <1>0, <1>1, <1>2 DEF KnownInv, Prepared, Promoted, Undoing
<1>6. TransactionInv'
  BY <1>0, <1>1, <1>2 DEF TransactionInv, Prepared, Promoted, Undoing, Undone, ActiveStateMatches
<1>7. ActiveStateMatches'
  BY <1>0, <1>1, <1>2 DEF ActiveStateMatches
<1>8. UnitInv'
  <2>1. UnitKept => UnitInSnapshot'
    BY <1>0, <1>1, <1>2 DEF UnitInv, UnitInSnapshot, UnitAtRest, Prepared, Promoted, Undoing, Undone
  <2>2. UnitKept => UnitAtRest'
    BY <1>0, <1>1, <1>2 DEF UnitInv, UnitAtRest, Prepared, Promoted, Undoing, Undone
  <2>3. UnitKept => UnitInTransaction'
    BY <1>0, <1>1, <1>2 DEF UnitInv, UnitInTransaction
  <2>4. UnitKept => UnitInRollback'
    BY <1>0, <1>1, <1>2 DEF UnitInv, UnitInRollback
  <2> QED
    BY <2>1, <2>2, <2>3, <2>4 DEF UnitInv, UnitKept, SoundRollback
<1> QED
  BY <1>3, <1>4, <1>5, <1>6, <1>7, <1>8 DEF InstallerInv

\* The incomplete snapshot: nothing is promised of its rollback.
LEMMA KeepsSnapshotFails ==
  ASSUME TypeOK, InstallerInv, NEW k \in 0 .. 3, SnapshotFails(k)
  PROVE  InstallerInv'
<1>0. OneInstaller /\ OrderInv /\ KnownInv /\ TransactionInv /\ ActiveStateMatches /\ UnitInv
  BY InstallerInv DEF InstallerInv
<1>1. /\ installer.at = "snapshot" /\ installer'.at = "restore unit"
      /\ installer'.revision = installer.revision
      /\ installer'.snapshot.candidate \in {0, candidate} /\ installer'.snapshot.active \in {0, active}
      /\ ~SoundRollback
  BY TypeOK DEF SnapshotFails, TypeOK, Installer, NoSnapshot, SoundRollback
<1>2. UNCHANGED <<candidate, active, state, unit, timer>> /\ agent'.task = agent.task
  BY DEF SnapshotFails, files
<1>3. OneInstaller'
  BY <1>0, <1>1, <1>2 DEF OneInstaller
<1>4. OrderInv'
  <2>1. \A c \in {0, candidate}, a \in {0, active} :
           Ordered(active, candidate, agent.task, installer.revision, c, a)
    BY <1>0, Fields, TypeOK DEF OrderInv, Ordered
  <2> QED
    BY <1>1, <1>2, <2>1 DEF OrderInv
<1>5. KnownInv'
  BY <1>0, <1>1 DEF KnownInv
<1> QED
  BY <1>1, <1>3, <1>4, <1>5 DEF InstallerInv, TransactionInv, ActiveStateMatches, UnitInv, UnitKept,
     SoundRollback

\* The end of a successful application.
LEMMA KeepsCleanUp ==
  ASSUME TypeOK, InstallerInv, CleanUp
  PROVE  InstallerInv'
<1>0. OneInstaller /\ OrderInv /\ KnownInv /\ TransactionInv /\ ActiveStateMatches /\ UnitInv
  BY InstallerInv DEF InstallerInv
<1>1. /\ installer.at = "clean up" /\ installer'.at = "idle" /\ timer' = "free" /\ installer'.revision = 0 /\ installer'.snapshot = NoSnapshot
      /\ NoSnapshot.candidate = 0 /\ NoSnapshot.active = 0 /\ NoSnapshot.unit = 0
  BY DEF CleanUp, NoInstaller, NoSnapshot
<1>2. UNCHANGED <<active, state, unit>> /\ candidate' = 0 /\ agent'.task = agent.task
  BY DEF CleanUp
<1>3. OneInstaller'
  BY <1>0, <1>1, <1>2 DEF OneInstaller
<1>4. OrderInv'
  <2>1. Ordered(active, 0, agent.task, 0, 0, 0)
    BY <1>0, Fields, TypeOK DEF OrderInv, Ordered
  <2> QED
    BY <1>1, <1>2, <2>1 DEF OrderInv
<1>5. KnownInv'
  BY <1>0, <1>1, <1>2 DEF KnownInv, Prepared, Promoted, Undoing
<1>6. TransactionInv'
  BY <1>0, <1>1, <1>2 DEF TransactionInv, Prepared, Promoted, Undoing, Undone, ActiveStateMatches
<1>7. ActiveStateMatches'
  BY <1>0, <1>1, <1>2 DEF ActiveStateMatches
<1>8. UnitInv'
  <2>1. UnitKept => UnitInSnapshot'
    BY <1>0, <1>1, <1>2 DEF UnitInv, UnitInSnapshot, UnitAtRest, Prepared, Promoted, Undoing, Undone
  <2>2. UnitKept => UnitAtRest'
    BY <1>0, <1>1, <1>2 DEF UnitInv, UnitAtRest, Prepared, Promoted, Undoing, Undone
  <2>3. UnitKept => UnitInTransaction'
    BY <1>0, <1>1, <1>2 DEF UnitInv, UnitInTransaction
  <2>4. UnitKept => UnitInRollback'
    BY <1>0, <1>1, <1>2 DEF UnitInv, UnitInRollback
  <2> QED
    BY <2>1, <2>2, <2>3, <2>4 DEF UnitInv, UnitKept, SoundRollback
<1> QED
  BY <1>3, <1>4, <1>5, <1>6, <1>7, <1>8 DEF InstallerInv

\* The end of a failed one.
LEMMA KeepsWriteFailure ==
  ASSUME TypeOK, InstallerInv, WriteFailure
  PROVE  InstallerInv'
<1>0. OneInstaller /\ OrderInv /\ KnownInv /\ TransactionInv /\ ActiveStateMatches /\ UnitInv
  BY InstallerInv DEF InstallerInv
<1>1. /\ installer.at = "write failure" /\ installer'.at = "idle" /\ timer' = "free" /\ installer'.revision = 0 /\ installer'.snapshot = NoSnapshot
      /\ NoSnapshot.candidate = 0 /\ NoSnapshot.active = 0 /\ NoSnapshot.unit = 0
  BY DEF WriteFailure, NoInstaller, NoSnapshot
<1>2. /\ UNCHANGED <<candidate, active, unit>> /\ agent'.task = agent.task
      /\ state'.state = "failed" \/ state' = state
  <2>1. state' = state \/ state' = [state |-> "failed", revision |-> installer.blamed]
    BY Zenon DEF WriteFailure
  <2>2. state'.state = "failed" \/ state' = state
    BY <2>1
  <2>3. UNCHANGED <<candidate, active, unit>> /\ agent'.task = agent.task
    BY DEF WriteFailure
  <2> QED
    BY <2>2, <2>3
<1>3. OneInstaller'
  BY <1>0, <1>1, <1>2 DEF OneInstaller
<1>4. OrderInv'
  <2>1. Ordered(active, candidate, agent.task, 0, 0, 0)
    BY <1>0, Fields, TypeOK DEF OrderInv, Ordered
  <2> QED
    BY <1>1, <1>2, <2>1 DEF OrderInv
<1>5. KnownInv'
  BY <1>0, <1>1, <1>2 DEF KnownInv, Prepared, Promoted, Undoing
<1>6. TransactionInv'
  BY <1>0, <1>1, <1>2 DEF TransactionInv, Prepared, Promoted, Undoing, Undone, ActiveStateMatches
<1>7. ActiveStateMatches'
  BY <1>0, <1>1, <1>2 DEF ActiveStateMatches
<1>8. UnitInv'
  <2>1. UnitKept => UnitInSnapshot'
    BY <1>0, <1>1, <1>2 DEF UnitInv, UnitInSnapshot, UnitAtRest, Prepared, Promoted, Undoing, Undone
  <2>2. UnitKept => UnitAtRest'
    BY <1>0, <1>1, <1>2 DEF UnitInv, UnitAtRest, Prepared, Promoted, Undoing, Undone
  <2>3. UnitKept => UnitInTransaction'
    BY <1>0, <1>1, <1>2 DEF UnitInv, UnitInTransaction
  <2>4. UnitKept => UnitInRollback'
    BY <1>0, <1>1, <1>2 DEF UnitInv, UnitInRollback
  <2> QED
    BY <2>1, <2>2, <2>3, <2>4 DEF UnitInv, UnitKept, SoundRollback
<1> QED
  BY <1>3, <1>4, <1>5, <1>6, <1>7, <1>8 DEF InstallerInv

\* A crash of the host leaves the files and no installer.
LEMMA KeepsHostCrash ==
  ASSUME TypeOK, InstallerInv, HostCrash
  PROVE  InstallerInv'
<1>0. OneInstaller /\ OrderInv /\ KnownInv /\ TransactionInv /\ ActiveStateMatches /\ UnitInv
  BY InstallerInv DEF InstallerInv
<1>1. /\ installer'.at = "idle" /\ timer' = "free" /\ installer'.revision = 0 /\ installer'.snapshot = NoSnapshot
      /\ NoSnapshot.candidate = 0 /\ NoSnapshot.active = 0 /\ NoSnapshot.unit = 0
      /\ "host crash" \in Faults
  BY DEF HostCrash, NoInstaller, NoSnapshot
<1>2. UNCHANGED <<candidate, active, state, unit>> /\ agent'.task = agent.task
  BY TypeOK DEF HostCrash, files, TypeOK, Agent
<1>3. OneInstaller'
  BY <1>0, <1>1, <1>2 DEF OneInstaller
<1>4. OrderInv'
  <2>1. Ordered(active, candidate, agent.task, 0, 0, 0)
    BY <1>0, Fields, TypeOK DEF OrderInv, Ordered
  <2> QED
    BY <1>1, <1>2, <2>1 DEF OrderInv
<1>5. KnownInv'
  BY <1>0, <1>1, <1>2 DEF KnownInv, Prepared, Promoted, Undoing
<1>6. TransactionInv'
  BY <1>0, <1>1, <1>2 DEF TransactionInv, Prepared, Promoted, Undoing, Undone, ActiveStateMatches
<1>7. ActiveStateMatches'
  BY <1>0, <1>1, <1>2 DEF ActiveStateMatches
<1>8. UnitInv'
  <2>1. UnitKept => UnitInSnapshot'
    BY <1>0, <1>1, <1>2 DEF UnitInv, UnitInSnapshot, UnitAtRest, Prepared, Promoted, Undoing, Undone, UnitKept
  <2>2. UnitKept => UnitAtRest'
    BY <1>0, <1>1, <1>2 DEF UnitInv, UnitAtRest, Prepared, Promoted, Undoing, Undone, UnitKept
  <2>3. UnitKept => UnitInTransaction'
    BY <1>0, <1>1, <1>2 DEF UnitInv, UnitInTransaction, UnitKept
  <2>4. UnitKept => UnitInRollback'
    BY <1>0, <1>1, <1>2 DEF UnitInv, UnitInRollback, UnitKept
  <2> QED
    BY <2>1, <2>2, <2>3, <2>4 DEF UnitInv, UnitKept, SoundRollback
<1> QED
  BY <1>3, <1>4, <1>5, <1>6, <1>7, <1>8 DEF InstallerInv

\* A step outside the installer.
LEMMA KeepsOutside ==
  ASSUME TypeOK, TypeOK', InstallerInv, Outside
  PROVE  InstallerInv'
<1>0. OneInstaller /\ OrderInv /\ KnownInv /\ TransactionInv /\ ActiveStateMatches /\ UnitInv
  BY InstallerInv DEF InstallerInv
<1>1. UNCHANGED <<active, unit, installer>>
  BY DEF Outside
<1>2. state' = state \/ state'.state \in {"pending_restart", "failed"}
  BY DEF Outside
<1>3. OneInstaller'
  BY <1>0, <1>1 DEF OneInstaller, Outside
<1>4. OrderInv'
  <2>1. agent.task \in Nat /\ agent'.task \in Nat /\ agent.task <= agent'.task
    BY Fields, TypeOK, TypeOK' DEF Outside, TypeOK, Agent
  <2>2. \A c \in {candidate, agent'.task} :
           Ordered(active, c, agent'.task, installer.revision, installer.snapshot.candidate,
                   installer.snapshot.active)
    BY <1>0, <2>1, Fields, TypeOK DEF OrderInv, Ordered
  <2> QED
    BY <1>1, <2>2 DEF OrderInv, Outside
<1>5. KnownInv'
  BY <1>0, <1>1 DEF KnownInv
<1>6. TransactionInv'
  BY <1>0, <1>1, <1>2 DEF TransactionInv
<1>7. ActiveStateMatches'
  BY <1>0, <1>1, <1>2 DEF ActiveStateMatches
<1>8. UnitInv'
  BY <1>0, <1>1 DEF UnitInv, UnitInSnapshot, UnitAtRest, UnitInTransaction, UnitInRollback
<1> QED
  BY <1>3, <1>4, <1>5, <1>6, <1>7, <1>8 DEF InstallerInv

\* Every step keeps the installer's part.
LEMMA InstallerInvStep ==
  ASSUME TypeOK, InstallerInv, [Next]_vars
  PROVE  InstallerInv'
<1>1. TypeOK'
  BY TypeStep
<1>2. CASE AgentNext
  BY <1>1, <1>2, TypeOK, InstallerInv, AgentOutside, KeepsOutside
<1>3. CASE InstallerNext
  BY <1>3, TypeOK, InstallerInv, KeepsParse, KeepsTakeSnapshot, KeepsSnapshotFails, KeepsInstallFails, KeepsWritePending, KeepsMoveUnit, KeepsStop, KeepsStartAgent, KeepsActiveChecks, KeepsPromote, KeepsWritePrevious, KeepsWriteActive, KeepsCleanUp, KeepsRestoreUnit, KeepsRestoreProfiles, KeepsRestoreState, KeepsStopFailed, KeepsStartFailedAgent, KeepsWriteFailure
     DEF InstallerNext
<1>4. CASE TimerFires \/ HostCrash
  BY <1>4, TypeOK, InstallerInv, KeepsTimerFires, KeepsHostCrash
<1>5. CASE SystemdRestart \/ AgentCrash \/ UNCHANGED vars
  BY <1>1, <1>5, TypeOK, InstallerInv, OtherOutside, KeepsOutside
<1> QED
  BY <1>2, <1>3, <1>4, <1>5 DEF Next, Systemd, Crash

-----------------------------------------------------------------------------
(* Who settles a pending state.                                            *)

\* The installer ends in two steps, and says "active" before it cleans up.
LEMMA InstallerEnds ==
  ASSUME TypeOK, InstallerNext
  PROVE  /\ CleanUp \/ WriteFailure \/ installer'.at # "idle"
         /\ installer'.at = "clean up" => state'.state = "active"
<1> DEFINE Runs == /\ installer'.at # "idle"
                   /\ installer'.at = "clean up" => state'.state = "active"
<1>1. ASSUME Parse PROVE Runs
  <2>1. installer'.at \in {"snapshot", "write failure"}
    BY <1>1, TypeOK, FailType DEF Parse, TypeOK, Installer
  <2> QED
    BY <2>1
<1>2. ASSUME TakeSnapshot PROVE Runs
  BY <1>2, TypeOK DEF TakeSnapshot, TypeOK, Installer
<1>3. ASSUME NEW k \in 0 .. 3, SnapshotFails(k) PROVE Runs
  BY <1>3, TypeOK DEF SnapshotFails, TypeOK, Installer
<1>4. ASSUME InstallFails PROVE Runs
  <2>1. installer'.at = "restore unit"
    BY <1>4, TypeOK, FailType DEF InstallFails
  <2> QED
    BY <2>1
<1>5. ASSUME WritePending PROVE Runs
  <2>1. installer'.at = "move unit"
    BY <1>5, TypeOK, AdvanceFields DEF WritePending
  <2> QED
    BY <2>1
<1>6. ASSUME MoveUnit PROVE Runs
  <2>1. installer'.at = "stop agent"
    BY <1>6, TypeOK, AdvanceFields DEF MoveUnit
  <2> QED
    BY <2>1
<1>7. ASSUME StopAgent("stop agent", "start agent") PROVE Runs
  <2>1. installer'.at = "start agent"
    BY <1>7, TypeOK, AdvanceFields DEF StopAgent
  <2> QED
    BY <2>1
<1>8. ASSUME StartAgent PROVE Runs
  <2>1. installer'.at \in {"check", "restore unit"}
    BY <1>8, TypeOK, AdvanceFields, FailType DEF StartAgent
  <2> QED
    BY <2>1
<1>9. ASSUME ActiveChecks PROVE Runs
  <2>1. installer'.at \in {"promote", "restore unit"}
    BY <1>9, TypeOK, AdvanceFields, FailType DEF ActiveChecks
  <2> QED
    BY <2>1
<1>10. ASSUME Promote PROVE Runs
  <2>1. installer'.at \in {"write active", "write previous"}
    BY <1>10, TypeOK, AdvanceFields DEF Promote
  <2> QED
    BY <2>1
<1>11. ASSUME WritePrevious PROVE Runs
  <2>1. installer'.at = "write active"
    BY <1>11, TypeOK, AdvanceFields DEF WritePrevious
  <2> QED
    BY <2>1
<1>12. ASSUME WriteActive PROVE Runs
  <2>1. installer'.at = "clean up" /\ state'.state = "active"
    BY <1>12, TypeOK, AdvanceFields DEF WriteActive
  <2> QED
    BY <2>1
<1>13. ASSUME CleanUp PROVE installer'.at = "idle"
  BY <1>13 DEF CleanUp, NoInstaller
<1>14. ASSUME RestoreUnit PROVE Runs
  <2>1. installer'.at = "restore profiles"
    BY <1>14, TypeOK, AdvanceFields DEF RestoreUnit
  <2> QED
    BY <2>1
<1>15. ASSUME RestoreProfiles PROVE Runs
  <2>1. installer'.at = "restore state"
    BY <1>15, TypeOK, AdvanceFields DEF RestoreProfiles
  <2> QED
    BY <2>1
<1>16. ASSUME RestoreState PROVE Runs
  <2>1. installer'.at = "stop failed agent"
    BY <1>16, TypeOK, AdvanceFields DEF RestoreState
  <2> QED
    BY <2>1
<1>17. ASSUME StopAgent("stop failed agent", "start failed agent") PROVE Runs
  <2>1. installer'.at = "start failed agent"
    BY <1>17, TypeOK, AdvanceFields DEF StopAgent
  <2> QED
    BY <2>1
<1>18. ASSUME StartFailedAgent PROVE Runs
  <2>1. installer'.at = "write failure"
    BY <1>18, TypeOK, AdvanceFields DEF StartFailedAgent
  <2> QED
    BY <2>1
<1>19. ASSUME WriteFailure PROVE installer'.at = "idle"
  BY <1>19 DEF WriteFailure, NoInstaller
<1> QED
  BY InstallerNext, <1>1, <1>2, <1>3, <1>4, <1>5, <1>6, <1>7, <1>8, <1>9, <1>10, <1>11, <1>12, <1>13, <1>14, <1>15, <1>16, <1>17, <1>18, <1>19 DEF InstallerNext

\* The places at which the agent still has to settle the state it wrote.
Settling == {"schedule", "write failed"}

\* A step of the agent outside those places changes neither state nor timer; a
\* step from or to them keeps the agent there, sets the timer or settles.
AgentDrives ==
  \/ UNCHANGED <<state, timer>> /\ (agent.at \notin Settling \/ agent'.at \in Settling)
  \/ UNCHANGED state /\ timer = "free" /\ timer' = "waiting"
  \/ UNCHANGED timer /\ agent'.at \in Settling
  \/ UNCHANGED timer /\ (state'.state = "failed" \/ "rollback" \in Faults)

\* The steps of the agent are of that kind.
LEMMA AgentDriver ==
  ASSUME TypeOK, AgentNext
  PROVE  AgentDrives
<1> USE DEF files, AgentDrives, Settling
<1>1. ASSUME Boot PROVE AgentDrives
  BY <1>1 DEF Boot
<1>2. ASSUME ReadActive PROVE AgentDrives
  BY <1>2 DEF ReadActive
<1>3. ASSUME ApplyReadActive PROVE AgentDrives
  BY <1>3 DEF ApplyReadActive
<1>4. ASSUME ApplyReadState PROVE AgentDrives
  BY <1>4 DEF ApplyReadState
<1>5. ASSUME ApplyWriteFails PROVE AgentDrives
  BY <1>5 DEF ApplyWriteFails
<1>6. ASSUME ApplyWritePrevious PROVE AgentDrives
  BY <1>6 DEF ApplyWritePrevious
<1>7. ASSUME ApplyWriteCandidate PROVE AgentDrives
  BY <1>7 DEF ApplyWriteCandidate
<1>8. ASSUME Exit PROVE AgentDrives
  BY <1>8 DEF Exit, Resting
<1>9. ASSUME SendHeartbeat PROVE AgentDrives
  BY <1>9 DEF SendHeartbeat
<1>10. ASSUME NoTask PROVE AgentDrives
  BY <1>10 DEF NoTask
<1>11. ASSUME Report PROVE AgentDrives
  BY <1>11 DEF Report
<1>12. ASSUME NEW r \in 1 .. MaxRevision, ReceiveTask(r) PROVE AgentDrives
  BY <1>12 DEF ReceiveTask
<1>13. ASSUME ApplyWriteState PROVE AgentDrives
  BY <1>13, TypeOK DEF ApplyWriteState, Step, TypeOK, Agent
<1>14. ASSUME ScheduleProfileApply PROVE AgentDrives
  BY <1>14 DEF ScheduleProfileApply
<1>15. ASSUME ScheduleFails PROVE AgentDrives
  BY <1>15, TypeOK DEF ScheduleFails, Step, TypeOK, Agent
<1>16. ASSUME ApplyWriteFailed PROVE AgentDrives
  <2>1. state' = [state |-> "failed", revision |-> agent.task] \/ "rollback" \in Faults
    BY <1>16, Zenon DEF ApplyWriteFailed
  <2>2. state'.state = "failed" \/ "rollback" \in Faults
    BY <2>1
  <2> QED
    BY <1>16, <2>2, Zenon DEF ApplyWriteFailed
<1> QED
  BY AgentNext, <1>1, <1>2, <1>3, <1>4, <1>5, <1>6, <1>7, <1>8, <1>9, <1>10, <1>11, <1>12, <1>13, <1>14, <1>15, <1>16 DEF AgentNext, AgentLocal

\* Every step keeps the driver of a pending state.
LEMMA DriverStep ==
  ASSUME TypeOK, InstallerInv, InstallerInv', PendingHasDriver, DriverInv, [Next]_vars
  PROVE  PendingHasDriver' /\ DriverInv'
<1> DEFINE Free == Faults \intersect {"rollback", "agent crash", "host crash"} = {}
           Pending == state.state = "pending_restart"
<1>0. /\ Free => "rollback" \notin Faults /\ "agent crash" \notin Faults /\ "host crash" \notin Faults
      /\ OneInstaller /\ OneInstaller'
  BY InstallerInv, InstallerInv' DEF InstallerInv
<1>1. CASE AgentNext
  <2>1. AgentDrives /\ Outside
    BY <1>1, TypeOK, AgentDriver, AgentOutside
  <2>2. UNCHANGED installer /\ (installer.at = "clean up" => timer = "running")
    BY <1>0, <2>1 DEF OneInstaller, Outside
  <2>3. PendingHasDriver'
    BY <1>0, <2>1, PendingHasDriver DEF PendingHasDriver, AgentDrives, Settling
  <2>4. DriverInv'
    BY <1>0, <2>1, <2>2, DriverInv DEF DriverInv, AgentDrives, Settling
  <2> QED
    BY <2>3, <2>4
<1>2. CASE InstallerNext
  <2>1. /\ CleanUp \/ WriteFailure \/ installer'.at # "idle"
        /\ installer'.at = "clean up" => state'.state = "active"
    BY <1>2, TypeOK, InstallerEnds
  <2>2. DriverInv'
    BY <2>1 DEF DriverInv
  <2>3. CASE CleanUp
    BY <2>2, <2>3, DriverInv DEF CleanUp, DriverInv, PendingHasDriver
  <2>4. CASE WriteFailure
    <3>1. state' = [state |-> "failed", revision |-> installer.blamed] \/ "rollback" \in Faults
      BY <2>4, Zenon DEF WriteFailure
    <3>2. state'.state = "failed" \/ "rollback" \in Faults
      BY <3>1
    <3> QED
      BY <1>0, <2>2, <3>2 DEF PendingHasDriver
  <2>5. CASE installer'.at # "idle"
    BY <1>0, <2>2, <2>5 DEF OneInstaller, PendingHasDriver
  <2> QED
    BY <2>1, <2>3, <2>4, <2>5
<1>3. CASE TimerFires
  <2>1. installer'.at = "parse" /\ timer' = "running"
    BY <1>3 DEF TimerFires, NoInstaller
  <2> QED
    BY <2>1 DEF PendingHasDriver, DriverInv
<1>4. CASE SystemdRestart
  BY <1>4, PendingHasDriver, DriverInv DEF SystemdRestart, PendingHasDriver, DriverInv, files
<1>5. CASE AgentCrash \/ HostCrash
  BY <1>0, <1>5 DEF AgentCrash, HostCrash, PendingHasDriver, DriverInv
<1>6. CASE UNCHANGED vars
  BY <1>6, PendingHasDriver, DriverInv DEF vars, files, PendingHasDriver, DriverInv
<1> QED
  BY <1>1, <1>2, <1>3, <1>4, <1>5, <1>6 DEF Next, Systemd, Crash

-----------------------------------------------------------------------------
(* The theorems.                                                           *)

\* NodeInv holds before the agent has started.
LEMMA InitNode == Init => NodeInv
<1> SUFFICES ASSUME Init PROVE NodeInv
  OBVIOUS
<1>1. TypeOK
  BY DEF Init, TypeOK, Agent, Resting, Installer, NoInstaller, NoSnapshot, Snapshot,
     NoDocument, Observation
<1>2. /\ installer.at = "idle" /\ installer.revision = 0 /\ installer.snapshot = NoSnapshot
      /\ NoSnapshot.candidate = 0 /\ NoSnapshot.active = 0 /\ agent.task = 0
      /\ state.state = "absent"
  BY DEF Init, NoInstaller, NoSnapshot, NoDocument
<1>3. OneInstaller /\ ActiveStateMatches /\ PendingHasDriver /\ DriverInv
  BY <1>2 DEF Init, OneInstaller, ActiveStateMatches, PendingHasDriver, DriverInv
<1>4. OrderInv
  BY <1>2 DEF Init, OrderInv, Ordered
<1>5. KnownInv /\ TransactionInv /\ UnitInv
  BY <1>2 DEF Init, KnownInv, TransactionInv, UnitInv, UnitInSnapshot, UnitAtRest,
     UnitInTransaction, UnitInRollback, Prepared, Promoted, Undoing, Undone
<1> QED
  BY <1>1, <1>3, <1>4, <1>5 DEF NodeInv

\* Every step of the agent, the installer, systemd and the crashes keeps NodeInv.
LEMMA NodeStep == NodeInv /\ [Next]_vars => NodeInv'
<1> SUFFICES ASSUME NodeInv, [Next]_vars PROVE NodeInv'
  OBVIOUS
<1>1. TypeOK /\ InstallerInv /\ PendingHasDriver /\ DriverInv
  BY NodeInv DEF NodeInv, InstallerInv
<1>2. TypeOK' /\ InstallerInv'
  BY <1>1, TypeStep, InstallerInvStep
<1>3. PendingHasDriver' /\ DriverInv'
  BY <1>1, <1>2, DriverStep
<1> QED
  BY <1>2, <1>3 DEF NodeInv, InstallerInv

\* NodeInv is an invariant of every behaviour of the node.
THEOREM NodeInvariant == Spec => []NodeInv
BY InitNode, NodeStep, PTL DEF Spec

\* At most one installer runs, under the transient unit of its name, whatever
\* fails or crashes.
THEOREM SingleInstaller == Spec => []OneInstaller
<1>1. NodeInv => OneInstaller
  BY DEF NodeInv
<1> QED
  BY <1>1, NodeInvariant, PTL

\* state.json and active.json agree whenever the former says "active", for any
\* interleaving of agent and installer and any crash.
THEOREM StateAgrees == Spec => []ActiveStateMatches
<1>1. NodeInv => ActiveStateMatches
  BY DEF NodeInv
<1> QED
  BY <1>1, NodeInvariant, PTL

\* Between two applications the unit grants the write paths of the active
\* profile.
THEOREM UnitAgrees == Spec => []UnitMatchesActive
<1>1. NodeInv => UnitMatchesActive
  BY DEF NodeInv, UnitInv, UnitKept, UnitAtRest, UnitMatchesActive
<1> QED
  BY <1>1, NodeInvariant, PTL

\* A pending application always has someone to settle it, as long as nothing
\* crashes.
THEOREM PendingDriven == Spec => []PendingHasDriver
<1>1. NodeInv => PendingHasDriver
  BY DEF NodeInv
<1> QED
  BY <1>1, NodeInvariant, PTL

\* When snapshots are complete and rollbacks run through, the rollback of a
\* profile that was not promoted leaves active.json alone.
THEOREM FailureRestores == SoundRollback => (Spec => RollbackRestores)
<1>1. ASSUME SoundRollback, NodeInv, NodeInv', [Next]_vars
      PROVE  installer.at = "restore profiles" /\ active # installer.revision => active' = active
  <2> SUFFICES ASSUME installer.at = "restore profiles", active # installer.revision
               PROVE  active' = active
    OBVIOUS
  <2>1. active = installer.snapshot.active
    BY <1>1 DEF NodeInv, TransactionInv, Undoing
  <2>2. CASE AgentNext \/ SystemdRestart \/ AgentCrash \/ UNCHANGED vars
    BY <1>1, <2>2, AgentOutside, OtherOutside DEF NodeInv, Outside
  <2>3. CASE TimerFires \/ HostCrash
    BY <2>3 DEF TimerFires, HostCrash, files
  <2>4. CASE InstallerNext
    BY <2>1, <2>4 DEF InstallerNext, Parse, TakeSnapshot, SnapshotFails, InstallFails,
       WritePending, MoveUnit, StopAgent, StartAgent, ActiveChecks, Promote, WritePrevious,
       WriteActive, CleanUp, RestoreUnit, RestoreProfiles, RestoreState, StartFailedAgent,
       WriteFailure, files
  <2> QED
    BY <1>1, <2>2, <2>3, <2>4 DEF Next, Systemd, Crash
<1>2. ASSUME SoundRollback
      PROVE  Spec => RollbackRestores
  <2>1. NodeInv /\ NodeInv' /\ [Next]_vars =>
          [installer.at = "restore profiles" /\ active # installer.revision => active' = active]_vars
    BY <1>1, <1>2
  <2> QED
    BY <2>1, NodeInvariant, PTL DEF Spec, RollbackRestores
<1> QED
  BY <1>2

\* The order of the naturals is reflexive.
LEMMA NatOrder == \A n \in Nat : n >= n
OBVIOUS

\* active.json never goes back to an earlier revision but in a rollback,
\* whatever fails or crashes.
THEOREM OnlyAdvances == Spec => ActiveAdvances
<1>1. NodeInv /\ [Next]_vars => [active' >= active \/ installer.at = "restore profiles"]_vars
  <2> SUFFICES ASSUME NodeInv, [Next]_vars, installer.at # "restore profiles"
               PROVE  active' >= active
    OBVIOUS
  <2>0. TypeOK /\ active \in Nat /\ installer.revision \in Nat /\ active >= active
    <3>1. TypeOK
      BY DEF NodeInv
    <3>2. active \in Nat /\ installer.revision \in Nat
      BY <3>1, Fields
    <3> QED
      BY <3>1, <3>2, NatOrder
  <2>1. CASE AgentNext \/ SystemdRestart \/ AgentCrash \/ UNCHANGED vars
    BY <2>0, <2>1, AgentOutside, OtherOutside DEF Outside
  <2>2. CASE TimerFires \/ HostCrash
    BY <2>0, <2>2 DEF TimerFires, HostCrash, files
  <2>3. CASE Promote
    <3>1. installer.revision # 0 /\ active' = installer.revision
      BY <2>3 DEF NodeInv, KnownInv, Promote, Prepared
    <3> QED
      BY <2>0, <3>1 DEF NodeInv, OrderInv, Ordered
  <2>4. CASE InstallerNext /\ ~Promote
    <3>1. active' = active
      BY <2>4 DEF InstallerNext, Parse, TakeSnapshot, SnapshotFails, InstallFails,
         WritePending, MoveUnit, StopAgent, StartAgent, ActiveChecks, WritePrevious,
         WriteActive, CleanUp, RestoreUnit, RestoreProfiles, RestoreState, StartFailedAgent,
         WriteFailure, files
    <3> QED
      BY <2>0, <3>1
  <2> QED
    BY <2>1, <2>2, <2>3, <2>4 DEF Next, Systemd, Crash
<1> QED
  BY <1>1, NodeInvariant, PTL DEF Spec, ActiveAdvances

-----------------------------------------------------------------------------
(* What a report of the node is worth.                                     *)

\* The revisions that an observation or a blame can name were received as tasks,
\* and nothing is staged, scheduled or installed before the first task.
KnownRevisions(max, task, saw, rev, snapRev, blamed) ==
  /\ task <= max /\ saw <= task /\ rev <= task /\ snapRev <= task /\ blamed <= task
ReportInv ==
  /\ KnownRevisions(MaxRevision, agent.task, agent.saw, state.revision,
                    installer.snapshot.state.revision, installer.blamed)
  /\ agent.at \in Applying \/ timer # "free" => agent.task # 0

\* The places from which a rollback can still restore active.json.
Revocable == Prepared \union {"write previous", "write active"} \union Undoing \union Undone

\* The state file is absent only as long as no profile was ever staged.
AbsentInv ==
  SoundRollback =>
    /\ state.state = "absent" =>
         active = 0 /\ agent.saw = 0 /\ timer = "free" /\ agent.at \notin Settling
    /\ installer.at \in Revocable => installer.snapshot.state.state # "absent"

\* Revision r was applied: active.json has not fallen behind it, and no rollback
\* can bring it there.
Settled(r) ==
  /\ r <= active
  /\ installer.at \in Revocable => r <= installer.snapshot.active

\* What the last heartbeat reported as applied still is, or was replaced by a
\* later revision.
AppliedReportHolds ==
  SoundRollback /\ reported.state = "applied" => Settled(reported.revision)

\* The agent has a task in hand.
Busy == Applying \union {"report"}

\* A step that does not receive a task.
Continues ==
  /\ agent'.task = agent.task
  /\ agent'.at \in Applying => agent.at \in Applying
  /\ agent'.at \in Busy => agent.at \in Busy

\* What a step of the agent does to what a report rests on: it looks at
\* active.json, takes a task, writes the state of its task, or sets the timer.
AgentReads ==
  /\ UNCHANGED <<active, installer>>
  /\ agent'.saw \in {agent.saw, active}
  /\ \/ Continues
     \/ UNCHANGED <<state, timer>> /\ agent'.task \in 1 .. MaxRevision /\ agent'.task >= agent.task
  /\ \/ UNCHANGED state
     \/ state'.state # "absent" /\ state'.revision = agent.task
  /\ \/ UNCHANGED timer
     \/ UNCHANGED state /\ agent.at \in Settling
  /\ agent'.at \in Settling => agent.at \in Settling \/ state'.state # "absent"
  /\ reported' \in {reported, Observe(agent.saw, state)}

\* The steps of the agent but the receipt of a task are of both kinds.
LEMMA AgentContinues ==
  ASSUME TypeOK, AgentLocal \/ SendHeartbeat \/ NoTask \/ Report
  PROVE  Continues /\ AgentReads
<1> USE DEF files, AgentReads, Continues, Busy, Settling
<1>0. /\ agent = [at |-> agent.at, stopping |-> agent.stopping, overlay |-> agent.overlay,
                  saw |-> agent.saw, task |-> agent.task, result |-> agent.result]
      /\ agent.task \in Nat
  BY DEF TypeOK, Agent
<1>1. ASSUME Boot PROVE Continues /\ AgentReads
  BY <1>0, <1>1 DEF Boot, Applying
<1>2. ASSUME ReadActive PROVE Continues /\ AgentReads
  BY <1>0, <1>2 DEF ReadActive, Applying
<1>3. ASSUME ApplyReadActive PROVE Continues /\ AgentReads
  BY <1>0, <1>3 DEF ApplyReadActive, Applying
<1>4. ASSUME ApplyReadState PROVE Continues /\ AgentReads
  <2>1. PICK x : /\ x \in {"write candidate", "write previous", "report"}
                 /\ agent'.at = x /\ agent'.saw = agent.saw /\ agent'.task = agent.task
    BY <1>0, <1>4 DEF ApplyReadState, Finish, Step
  <2> QED BY <1>4, <2>1 DEF ApplyReadState, Applying
<1>5. ASSUME ApplyWriteFails PROVE Continues /\ AgentReads
  BY <1>0, <1>5 DEF ApplyWriteFails, Finish, Applying
<1>6. ASSUME ApplyWritePrevious PROVE Continues /\ AgentReads
  BY <1>0, <1>6 DEF ApplyWritePrevious, Step, Applying
<1>7. ASSUME ApplyWriteCandidate PROVE Continues /\ AgentReads
  BY <1>0, <1>7 DEF ApplyWriteCandidate, Step, Applying
<1>8. ASSUME Exit PROVE Continues /\ AgentReads
  BY <1>0, <1>8 DEF Exit, Applying
<1>9. ASSUME SendHeartbeat PROVE Continues /\ AgentReads
  BY <1>0, <1>9 DEF SendHeartbeat, Step, Applying
<1>10. ASSUME NoTask PROVE Continues /\ AgentReads
  BY <1>0, <1>10 DEF NoTask, Step, Applying
<1>11. ASSUME Report PROVE Continues /\ AgentReads
  BY <1>0, <1>11 DEF Report, Step, Applying
<1>12. ASSUME ApplyWriteState PROVE Continues /\ AgentReads
  BY <1>0, <1>12 DEF ApplyWriteState, Step, Applying
<1>13. ASSUME ScheduleProfileApply PROVE Continues /\ AgentReads
  BY <1>0, <1>13 DEF ScheduleProfileApply, Finish, Applying
<1>14. ASSUME ScheduleFails PROVE Continues /\ AgentReads
  BY <1>0, <1>14 DEF ScheduleFails, Step, Applying
<1>15. ASSUME ApplyWriteFailed PROVE Continues /\ AgentReads
  <2>1. state' = [state |-> "failed", revision |-> agent.task] \/ UNCHANGED state
    BY <1>15, Zenon DEF ApplyWriteFailed
  <2>2. UNCHANGED state \/ (state'.state # "absent" /\ state'.revision = agent.task)
    BY <2>1
  <2>3. /\ agent.at = "write failed" /\ agent'.at = "report"
        /\ agent'.saw = agent.saw /\ agent'.task = agent.task
        /\ UNCHANGED <<active, installer, timer, reported>>
    BY <1>0, <1>15 DEF ApplyWriteFailed, Finish
  <2> QED
    BY <2>2, <2>3 DEF Applying
<1> QED
  BY <1>1, <1>2, <1>3, <1>4, <1>5, <1>6, <1>7, <1>8, <1>9, <1>10, <1>11, <1>12, <1>13, <1>14, <1>15 DEF AgentLocal

\* Every step of the agent reads or writes as AgentReads says.
LEMMA AgentReading ==
  ASSUME TypeOK, AgentNext
  PROVE  AgentReads
<1>1. ASSUME NEW r \in 1 .. MaxRevision, ReceiveTask(r) PROVE AgentReads
  BY <1>1, TypeOK DEF ReceiveTask, AgentReads, Settling, files, TypeOK, Agent
<1> QED
  BY <1>1, AgentContinues DEF AgentNext

\* What a step of the installer does to it: the state and the blame name a known
\* revision, active.json is promoted or restored, and a rollback can begin only
\* from a snapshot of the files.
InstallerWrites ==
  /\ UNCHANGED reported /\ agent'.task = agent.task /\ agent'.saw = agent.saw
  /\ agent'.at \in Busy => agent'.at = agent.at
  /\ timer' \in {timer, "free"}
  /\ \/ UNCHANGED state
     \/ state'.state # "absent" /\ state'.revision \in {installer.revision, installer.blamed}
     \/ installer.at = "restore state" /\ state' = installer.snapshot.state
  /\ installer'.blamed \in {installer.blamed, installer.revision, state.revision, candidate, 0, 1}
  /\ installer'.snapshot.state.revision \in {installer.snapshot.state.revision, state.revision, 0}
  /\ \/ UNCHANGED active
     \/ installer.at = "promote" /\ active' = installer.revision
     \/ installer.at = "restore profiles" /\ active' = installer.snapshot.active
  /\ SoundRollback /\ installer'.at \in Revocable =>
       \/ installer.at \in Revocable /\ installer'.snapshot = installer.snapshot
       \/ /\ UNCHANGED <<active, state>>
          /\ installer'.snapshot.active = active /\ installer'.snapshot.state = state

\* The fields of the installer and of the agent after the helper steps.
LEMMA AfterAdvance ==
  ASSUME TypeOK, NEW at, Advance(at)
  PROVE  /\ installer'.at = at /\ installer'.blamed = installer.blamed
         /\ installer'.snapshot = installer.snapshot
BY DEF TypeOK, Installer, Advance

\* profile_apply_fail blames the parsed revision, that of the state, or 1.
LEMMA AfterFail ==
  ASSUME TypeOK, NEW rollback \in BOOLEAN, Fail(rollback)
  PROVE  /\ installer'.at \in {"restore unit", "write failure"}
         /\ installer'.blamed \in {installer.revision, state.revision, 1}
         /\ installer'.snapshot = installer.snapshot
BY DEF TypeOK, Installer, Fail

\* The steps of the installer are of that kind.
LEMMA InstallerWriting ==
  ASSUME TypeOK, InstallerNext
  PROVE  InstallerWrites
<1> USE DEF files, InstallerWrites, Revocable, Prepared, Undoing, Undone
<1>0. /\ agent = [at |-> agent.at, stopping |-> agent.stopping, overlay |-> agent.overlay,
                  saw |-> agent.saw, task |-> agent.task, result |-> agent.result]
      /\ installer = [at |-> installer.at, revision |-> installer.revision,
                      blamed |-> installer.blamed, snapshot |-> installer.snapshot]
      /\ NoSnapshot.state.revision = 0 /\ NoInstaller.at = "idle" /\ NoInstaller.blamed = 0
      /\ NoInstaller.snapshot = NoSnapshot
  BY DEF TypeOK, Agent, Installer, NoSnapshot, NoInstaller, NoDocument
<1>1. ASSUME Parse PROVE InstallerWrites
  <2>1. \/ /\ installer'.at \in {"snapshot", "write failure"} /\ installer'.snapshot = installer.snapshot
           /\ installer'.blamed \in {installer.blamed, candidate}
        \/ Fail(FALSE)
    BY <1>0, <1>1 DEF Parse
  <2>2. ASSUME Fail(FALSE)
        PROVE  /\ installer'.at = "write failure" /\ installer'.snapshot = installer.snapshot
               /\ installer'.blamed \in {installer.revision, state.revision, 1}
    BY <1>0, <2>2 DEF Fail
  <2> QED BY <1>1, <2>1, <2>2 DEF Parse
<1>2. ASSUME TakeSnapshot PROVE InstallerWrites
  BY <1>0, <1>2 DEF TakeSnapshot
<1>3. ASSUME NEW k \in 0 .. 3, SnapshotFails(k) PROVE InstallerWrites
  <2>1. ~SoundRollback
    BY <1>3 DEF SnapshotFails, SoundRollback
  <2> QED BY <1>0, <1>3, <2>1 DEF SnapshotFails, NoSnapshot
<1>4. ASSUME InstallFails PROVE InstallerWrites
  <2>1. installer.at \in Revocable
    BY <1>4 DEF InstallFails
  <2> QED BY <1>4, <2>1, TypeOK, AfterFail DEF InstallFails
<1>5. ASSUME WritePending PROVE InstallerWrites
  BY <1>5, TypeOK, AfterAdvance DEF WritePending
<1>6. ASSUME MoveUnit PROVE InstallerWrites
  BY <1>6, TypeOK, AfterAdvance DEF MoveUnit
<1>7. ASSUME NEW at \in {"stop agent", "stop failed agent"},
             NEW next \in {"start agent", "start failed agent"}, StopAgent(at, next)
      PROVE  InstallerWrites
  <2>1. /\ agent'.task = agent.task /\ agent'.saw = agent.saw
        /\ agent'.at \in Busy => agent'.at = agent.at
    BY <1>0, <1>7 DEF StopAgent, Busy, Applying
  <2> QED BY <1>7, <2>1, TypeOK, AfterAdvance DEF StopAgent
<1>8. ASSUME StartAgent PROVE InstallerWrites
  <2>1. /\ agent'.task = agent.task /\ agent'.saw = agent.saw
        /\ agent'.at \in Busy => agent'.at = agent.at
    BY <1>0, <1>8 DEF StartAgent, Busy, Applying
  <2> QED BY <1>8, <2>1, TypeOK, AfterAdvance, AfterFail DEF StartAgent
<1>9. ASSUME ActiveChecks PROVE InstallerWrites
  BY <1>9, TypeOK, AfterAdvance, AfterFail DEF ActiveChecks
<1>10. ASSUME Promote PROVE InstallerWrites
  BY <1>10, TypeOK, AfterAdvance DEF Promote
<1>11. ASSUME WritePrevious PROVE InstallerWrites
  BY <1>11, TypeOK, AfterAdvance DEF WritePrevious
<1>12. ASSUME WriteActive PROVE InstallerWrites
  BY <1>12, TypeOK, AfterAdvance DEF WriteActive
<1>13. ASSUME CleanUp PROVE InstallerWrites
  BY <1>0, <1>13 DEF CleanUp
<1>14. ASSUME RestoreUnit PROVE InstallerWrites
  BY <1>14, TypeOK, AfterAdvance DEF RestoreUnit
<1>15. ASSUME RestoreProfiles PROVE InstallerWrites
  BY <1>15, TypeOK, AfterAdvance DEF RestoreProfiles
<1>16. ASSUME RestoreState PROVE InstallerWrites
  BY <1>16, TypeOK, AfterAdvance DEF RestoreState
<1>17. ASSUME StartFailedAgent PROVE InstallerWrites
  <2>1. /\ agent'.task = agent.task /\ agent'.saw = agent.saw
        /\ agent'.at \in Busy => agent'.at = agent.at
    BY <1>0, <1>17 DEF StartFailedAgent, Busy, Applying, AgentIsDown
  <2> QED BY <1>17, <2>1, TypeOK, AfterAdvance DEF StartFailedAgent
<1>18. ASSUME WriteFailure PROVE InstallerWrites
  <2>1. state' = [state |-> "failed", revision |-> installer.blamed] \/ UNCHANGED state
    BY <1>18, Zenon DEF WriteFailure
  <2>2. UNCHANGED state \/ (state'.state # "absent" /\ state'.revision = installer.blamed)
    BY <2>1
  <2>3. installer' = NoInstaller /\ timer' = "free" /\ UNCHANGED <<active, agent, reported>>
    BY <1>18 DEF WriteFailure
  <2> QED BY <1>0, <2>2, <2>3
<1> QED
  BY InstallerNext, <1>1, <1>2, <1>3, <1>4, <1>5, <1>6, <1>7, <1>8, <1>9, <1>10, <1>11, <1>12,
     <1>13, <1>14, <1>15, <1>16, <1>17, <1>18 DEF InstallerNext

\* The revisions a report or a blame can name are numbers.
LEMMA ReportFields ==
  ASSUME TypeOK
  PROVE  /\ agent.task \in Nat /\ agent.saw \in Nat /\ state.revision \in Nat
         /\ installer.blamed \in Nat /\ installer.snapshot.state.revision \in Nat
<1>1. installer.snapshot \in Snapshot
  BY DEF TypeOK, Installer
<1> QED
  BY <1>1 DEF TypeOK, Agent, Installer, Snapshot, Document, NoDocument

\* A crash of the host, a timer, a restart by systemd and a crash of the agent
\* leave the files and what the agent has seen alone.
LEMMA OtherSteps ==
  ASSUME TypeOK, TimerFires \/ SystemdRestart \/ AgentCrash \/ HostCrash \/ UNCHANGED vars
  PROVE  /\ UNCHANGED <<active, state, reported>>
         /\ agent'.task = agent.task /\ agent'.saw = agent.saw
         /\ agent'.at \in Busy => agent'.at = agent.at
         /\ timer' # "free" => timer # "free"
         /\ installer'.blamed \in {installer.blamed, 0}
         /\ installer'.snapshot.state.revision \in {installer.snapshot.state.revision, 0}
         /\ installer'.at \in Revocable => UNCHANGED installer
<1> USE DEF files
<1>0. /\ agent = [at |-> agent.at, stopping |-> agent.stopping, overlay |-> agent.overlay,
                  saw |-> agent.saw, task |-> agent.task, result |-> agent.result]
      /\ NoSnapshot.state.revision = 0 /\ NoInstaller.at = "idle" /\ NoInstaller.blamed = 0
      /\ NoInstaller.snapshot = NoSnapshot
      /\ "idle" \notin Revocable /\ "parse" \notin Revocable
  BY DEF TypeOK, Agent, NoSnapshot, NoInstaller, NoDocument, Revocable, Prepared, Undoing, Undone
<1>1. CASE TimerFires
  <2>1. installer'.at = "parse" /\ installer'.blamed = 0 /\ installer'.snapshot = NoSnapshot
    BY <1>1, <1>0 DEF TimerFires, NoInstaller
  <2> QED BY <1>0, <1>1, <2>1 DEF TimerFires
<1>2. CASE SystemdRestart
  BY <1>0, <1>2 DEF SystemdRestart, Busy, Applying
<1>3. CASE AgentCrash
  BY <1>0, <1>3 DEF AgentCrash, Busy, Applying
<1>4. CASE HostCrash
  BY <1>0, <1>4 DEF HostCrash, Busy, Applying
<1>5. CASE UNCHANGED vars
  BY <1>5 DEF vars
<1> QED BY <1>1, <1>2, <1>3, <1>4, <1>5

\* Every step keeps the revisions known.
LEMMA ReportStep ==
  ASSUME NodeInv, ReportInv, [Next]_vars
  PROVE  ReportInv'
<1>0. /\ TypeOK /\ OneInstaller /\ MaxRevision \in Nat
      /\ active <= agent.task /\ candidate <= agent.task /\ installer.revision <= agent.task
  BY NodeAssumption DEF NodeInv, OrderInv, Ordered
<1>1. /\ agent.task \in Nat /\ agent.saw \in Nat /\ state.revision \in Nat
      /\ installer.blamed \in Nat /\ installer.snapshot.state.revision \in Nat
      /\ active \in Nat /\ candidate \in Nat /\ installer.revision \in Nat
  BY <1>0, ReportFields, Fields
<1>2. /\ agent.task <= MaxRevision /\ agent.saw <= agent.task /\ state.revision <= agent.task
      /\ installer.snapshot.state.revision <= agent.task /\ installer.blamed <= agent.task
      /\ agent.at \in Applying \/ timer # "free" => agent.task # 0
  BY ReportInv DEF ReportInv, KnownRevisions
<1>3. CASE AgentNext
  <2>1. AgentReads
    BY <1>0, <1>3, AgentReading
  <2>2. /\ agent'.task \in Nat /\ agent.task <= agent'.task /\ agent'.task <= MaxRevision
        /\ agent'.saw <= agent.task /\ state'.revision <= agent.task /\ installer' = installer
    BY <1>0, <1>1, <1>2, <2>1 DEF AgentReads, Continues
  <2>3. /\ agent'.saw \in Nat /\ state'.revision \in Nat
    BY <1>1, <2>1 DEF AgentReads
  <2>4. agent'.at \in Applying \/ timer' # "free" => agent'.task # 0
    <3>1. CASE Continues
      <4>1. timer' # "free" => timer # "free" \/ agent.at \in Applying
        BY <2>1 DEF AgentReads, Settling, Applying
      <4> QED BY <1>2, <3>1, <4>1 DEF Continues
    <3>2. CASE agent'.task \in 1 .. MaxRevision
      BY <1>0, <3>2
    <3> QED BY <2>1, <3>1, <3>2 DEF AgentReads
  <2>5. agent'.saw <= agent'.task /\ state'.revision <= agent'.task
        /\ installer.snapshot.state.revision <= agent'.task /\ installer.blamed <= agent'.task
    BY <1>1, <1>2, <2>2, <2>3
  <2> QED BY <2>2, <2>4, <2>5 DEF ReportInv, KnownRevisions
<1>4. CASE InstallerNext
  <2>1. InstallerWrites
    BY <1>0, <1>4, InstallerWriting
  <2>2. installer.at # "idle"
    BY <1>4 DEF InstallerNext, Parse, TakeSnapshot, SnapshotFails, InstallFails, WritePending,
       MoveUnit, StopAgent, StartAgent, ActiveChecks, Promote, WritePrevious, WriteActive,
       CleanUp, RestoreUnit, RestoreProfiles, RestoreState, StartFailedAgent, WriteFailure
  <2>3. agent.task # 0
    BY <1>0, <1>2, <2>2 DEF OneInstaller
  <2>4. /\ agent'.task = agent.task /\ agent'.saw = agent.saw /\ state'.revision <= agent.task
        /\ installer'.snapshot.state.revision <= agent.task /\ installer'.blamed <= agent.task
    <3>1. state'.revision \in {state.revision, installer.revision, installer.blamed,
                               installer.snapshot.state.revision}
      BY <2>1 DEF InstallerWrites
    <3>2. /\ installer'.snapshot.state.revision
               \in {installer.snapshot.state.revision, state.revision, 0}
          /\ installer'.blamed
               \in {installer.blamed, installer.revision, state.revision, candidate, 0, 1}
          /\ agent'.task = agent.task /\ agent'.saw = agent.saw
      BY <2>1 DEF InstallerWrites
    <3>3. 0 <= agent.task /\ 1 <= agent.task
      BY <1>1, <2>3
    <3> QED BY <1>0, <1>2, <3>1, <3>2, <3>3
  <2> QED BY <1>2, <2>1, <2>3, <2>4 DEF ReportInv, KnownRevisions, InstallerWrites, Busy
<1>5. CASE TimerFires \/ SystemdRestart \/ AgentCrash \/ HostCrash \/ UNCHANGED vars
  <2>1. /\ UNCHANGED state /\ agent'.task = agent.task /\ agent'.saw = agent.saw
        /\ agent'.at \in Busy => agent'.at = agent.at
        /\ timer' # "free" => timer # "free"
        /\ installer'.blamed \in {installer.blamed, 0}
        /\ installer'.snapshot.state.revision \in {installer.snapshot.state.revision, 0}
    BY <1>0, <1>5, OtherSteps
  <2> QED BY <1>1, <1>2, <2>1 DEF ReportInv, KnownRevisions, Busy
<1> QED
  BY <1>3, <1>4, <1>5 DEF Next, Systemd, Crash

\* Every step keeps the meaning of an absent state file.
LEMMA AbsentStep ==
  ASSUME NodeInv, AbsentInv, [Next]_vars
  PROVE  AbsentInv'
<1> SUFFICES ASSUME SoundRollback PROVE AbsentInv'
  BY DEF AbsentInv, SoundRollback
<1>0. /\ TypeOK /\ OneInstaller
      /\ state.state = "absent" =>
           active = 0 /\ agent.saw = 0 /\ timer = "free" /\ agent.at \notin Settling
      /\ installer.at \in Revocable => installer.snapshot.state.state # "absent"
  BY AbsentInv DEF NodeInv, AbsentInv
<1>1. CASE AgentNext
  <2>1. AgentReads
    BY <1>0, <1>1, AgentReading
  <2> QED BY <1>0, <2>1 DEF AgentReads, AbsentInv
<1>2. CASE InstallerNext
  <2>1. InstallerWrites
    BY <1>0, <1>2, InstallerWriting
  <2>2. installer.at # "idle"
    BY <1>2 DEF InstallerNext, Parse, TakeSnapshot, SnapshotFails, InstallFails, WritePending,
       MoveUnit, StopAgent, StartAgent, ActiveChecks, Promote, WritePrevious, WriteActive,
       CleanUp, RestoreUnit, RestoreProfiles, RestoreState, StartFailedAgent, WriteFailure
  <2>3. state.state # "absent"
    BY <1>0, <2>2 DEF OneInstaller
  <2>4. state'.state # "absent"
    BY <1>0, <2>1, <2>3 DEF InstallerWrites, Revocable, Undone
  <2>5. installer'.at \in Revocable => installer'.snapshot.state.state # "absent"
    BY <1>0, <2>1, <2>3 DEF InstallerWrites
  <2> QED BY <2>4, <2>5 DEF AbsentInv
<1>3. CASE TimerFires \/ SystemdRestart \/ AgentCrash \/ HostCrash \/ UNCHANGED vars
  <2>1. /\ UNCHANGED <<active, state>> /\ agent'.saw = agent.saw
        /\ agent'.at \in Busy => agent'.at = agent.at
        /\ timer' # "free" => timer # "free"
        /\ installer'.at \in Revocable => UNCHANGED installer
    BY <1>0, <1>3, OtherSteps
  <2> QED BY <1>0, <2>1 DEF AbsentInv, Settling, Busy, Applying
<1> QED
  BY <1>1, <1>2, <1>3 DEF Next, Systemd, Crash

\* A revision that is settled stays settled.
LEMMA SettledStep ==
  ASSUME NodeInv, [Next]_vars, SoundRollback, NEW r \in Nat, Settled(r)
  PROVE  Settled(r)'
<1>0. /\ TypeOK /\ r <= active
      /\ installer.at \in Revocable => r <= installer.snapshot.active
  BY DEF NodeInv, Settled
<1>1. CASE AgentNext
  <2>1. UNCHANGED <<active, installer>>
    BY <1>0, <1>1, AgentReading DEF AgentReads
  <2> QED BY <1>0, <2>1 DEF Settled
<1>2. CASE InstallerNext
  <2>1. InstallerWrites
    BY <1>0, <1>2, InstallerWriting
  <2>2. installer.at = "promote" => active <= installer.revision
    BY DEF NodeInv, KnownInv, OrderInv, Ordered, Prepared
  <2>3. active \in Nat /\ installer.revision \in Nat /\ installer.snapshot.active \in Nat
    BY <1>0, Fields
  <2>4. installer.at = "promote" => r <= installer.revision
    BY <1>0, <2>2, <2>3
  <2>5. r <= active'
    BY <1>0, <2>1, <2>4 DEF InstallerWrites, Revocable, Undoing
  <2>6. installer'.at \in Revocable => r <= installer'.snapshot.active
    BY <1>0, <2>1 DEF InstallerWrites
  <2> QED BY <2>5, <2>6 DEF Settled
<1>3. CASE TimerFires \/ SystemdRestart \/ AgentCrash \/ HostCrash \/ UNCHANGED vars
  <2>1. UNCHANGED active /\ (installer'.at \in Revocable => UNCHANGED installer)
    BY <1>0, <1>3, OtherSteps
  <2> QED BY <1>0, <2>1 DEF Settled
<1> QED
  BY <1>1, <1>2, <1>3 DEF Next, Systemd, Crash

\* An observation of "applied" is made of a profile that is settled, although
\* active.json and the state file are read one after the other.
LEMMA AppliedIsSettled ==
  ASSUME NodeInv, AbsentInv, SoundRollback, Observe(agent.saw, state).state = "applied"
  PROVE  Settled(Observe(agent.saw, state).revision)
<1>0. TypeOK /\ ActiveStateMatches /\ TransactionInv
  BY DEF NodeInv
<1>1. /\ state.state \in {"absent", "pending_restart", "active", "failed"}
      /\ active \in Nat /\ active <= active
  BY <1>0, StateType, Fields
<1>2. /\ state.state = "active" /\ state.revision = agent.saw
      /\ Observe(agent.saw, state).revision = agent.saw
  <2>1. state.state = "absent" => agent.saw = 0
    BY DEF AbsentInv
  <2>2. state.state = "active" /\ state.revision = agent.saw
    BY <1>1, <2>1 DEF Observe
  <2> QED BY <2>2 DEF Observe
<1>3. active = agent.saw
  BY <1>0, <1>2 DEF ActiveStateMatches
<1>4. installer.at \in Revocable => installer.snapshot.active = active
  BY <1>0, <1>2 DEF TransactionInv, Revocable, Prepared, Promoted, Undoing, Undone
<1> QED
  BY <1>1, <1>2, <1>3, <1>4 DEF Settled

\* An observation names a revision the hub has sent, or none.
LEMMA ObservedRevision ==
  ASSUME NodeInv, ReportInv
  PROVE  /\ Observe(agent.saw, state) \in Observation
         /\ Observe(agent.saw, state).revision <= MaxRevision
<1>1. /\ agent.task \in Nat /\ agent.saw \in Nat /\ state.revision \in Nat
      /\ state.state \in {"absent", "pending_restart", "active", "failed"}
      /\ state \in Document \union {NoDocument} /\ MaxRevision \in Nat
  BY ReportFields, StateType, NodeAssumption DEF NodeInv, TypeOK
<1>2. agent.saw <= MaxRevision /\ state.revision <= MaxRevision /\ 0 <= MaxRevision
  BY <1>1 DEF ReportInv, KnownRevisions
<1>3. Observe(agent.saw, state).revision \in {0, agent.saw, state.revision}
  BY <1>1 DEF Observe
<1> QED
  BY <1>1, <1>2, <1>3, ObserveType

\* The invariant behind the reports of the node.
ReportingInv == NodeInv /\ ReportInv /\ AbsentInv /\ AppliedReportHolds

\* It holds before the agent has started.
LEMMA InitReporting == Init => ReportingInv
<1> SUFFICES ASSUME Init PROVE ReportingInv
  OBVIOUS
<1>1. NodeInv
  BY InitNode
<1>2. /\ installer.at = "idle" /\ installer.snapshot.state.revision = 0 /\ installer.blamed = 0
      /\ agent.task = 0 /\ agent.saw = 0 /\ agent.at = "boot" /\ state.revision = 0
      /\ timer = "free" /\ reported.state = "not_configured" /\ active = 0
  BY DEF Init, NoInstaller, NoSnapshot, NoDocument
<1>3. ReportInv
  BY <1>2, NodeAssumption DEF ReportInv, KnownRevisions, Applying
<1>4. AbsentInv /\ AppliedReportHolds
  BY <1>2 DEF AbsentInv, AppliedReportHolds, Settling, Revocable, Prepared, Undoing, Undone
<1> QED
  BY <1>1, <1>3, <1>4 DEF ReportingInv

\* Every step of the node keeps it.
LEMMA ReportingStep == ReportingInv /\ [Next]_vars => ReportingInv'
<1> SUFFICES ASSUME ReportingInv, [Next]_vars PROVE ReportingInv'
  OBVIOUS
<1>0. NodeInv /\ ReportInv /\ AbsentInv /\ AppliedReportHolds /\ TypeOK
  BY DEF ReportingInv, NodeInv
<1>1. NodeInv' /\ ReportInv' /\ AbsentInv'
  BY <1>0, NodeStep, ReportStep, AbsentStep
<1>2. ASSUME SoundRollback, reported'.state = "applied"
      PROVE  Settled(reported.revision)'
  <2>1. reported' = reported \/ (reported' = Observe(agent.saw, state))
    <3>1. CASE AgentNext
      BY <1>0, <3>1, AgentReading DEF AgentReads
    <3>2. CASE InstallerNext
      BY <1>0, <3>2, InstallerWriting DEF InstallerWrites
    <3>3. CASE TimerFires \/ SystemdRestart \/ AgentCrash \/ HostCrash \/ UNCHANGED vars
      BY <1>0, <3>3, OtherSteps
    <3> QED BY <3>1, <3>2, <3>3 DEF Next, Systemd, Crash
  <2>2. reported' \in Observation
    BY <1>1 DEF NodeInv, TypeOK
  <2>3. PICK r \in Nat : r = reported'.revision
    BY <2>2 DEF Observation
  <2>4. Settled(r)
    BY <1>0, <1>2, <2>1, <2>3, AppliedIsSettled DEF AppliedReportHolds
  <2>5. Settled(r)'
    BY <1>0, <1>2, <2>4, SettledStep
  <2> QED BY <2>3, <2>5 DEF Settled
<1>3. AppliedReportHolds'
  BY <1>2 DEF AppliedReportHolds, SoundRollback, Settled
<1> QED
  BY <1>1, <1>3 DEF ReportingInv

\* Whatever was last reported as applied has stayed applied or was replaced by a
\* later revision, however agent, installer and crashes interleave.
THEOREM ReportsHold == Spec => []AppliedReportHolds
<1>1. ReportingInv => AppliedReportHolds
  BY DEF ReportingInv
<1> QED
  BY <1>1, InitReporting, ReportingStep, PTL DEF Spec
=============================================================================
