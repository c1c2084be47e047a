---------------------------- MODULE ProfileNode -----------------------------
(***************************************************************************)
(* A desired profile on the managed node: the agent that stages it         *)
(* (cmd/hserver-agent) and the installer, started by a transient systemd   *)
(* timer, that applies it (scripts/hserver-agent-install.sh apply-profile).*)
(*                                                                         *)
(* The two processes share four files and no lock: candidate, active and   *)
(* previous hold a profile, state the progress of its application.  Every  *)
(* file is replaced by a rename, so a write is one atomic step.  The hub   *)
(* saves one profile under each revision, so a profile is represented by   *)
(* its revision, and an absent file by 0; unit is the revision whose write *)
(* paths the service unit grants, 0 for those of the local configuration.  *)
(***************************************************************************)
EXTENDS Naturals

CONSTANTS
  MaxRevision,   \* bound of the model: revisions the hub sends
  MaxCrashes,    \* bound of the model: crashes
  Faults,        \* what may go wrong, a subset of AllFaults
  StrictUnit     \* the unit has the sandbox profile_validate_service wants

\* A write before the transaction is complete, a copy of the snapshot, the
\* scheduling of the installer, the start or the health of the agent under the
\* new unit, a write of the rollback; a crash of the agent or of the host.
AllFaults == {"write", "snapshot", "schedule", "start", "checks", "rollback",
              "agent crash", "host crash"}

ASSUME NodeAssumption ==
  /\ MaxRevision \in Nat
  /\ MaxCrashes \in Nat
  /\ Faults \subseteq AllFaults
  /\ StrictUnit \in BOOLEAN

Document == [state : {"pending_restart", "active", "failed"}, revision : Nat]
NoDocument == [state |-> "absent", revision |-> 0]
Observation == [state : {"not_configured", "pending_restart", "applied", "failed"},
                revision : Nat]

VARIABLES
  candidate, active, previous,  \* the profile files
  state,                        \* the state file
  unit,                         \* the write paths in the service unit
  timer,                        \* the transient unit hserver-agent-profile
  agent,                        \* the agent process
  installer,                    \* the installer process
  reported,                     \* the last observation a heartbeat carried
  crashes                       \* crashes so far

files == <<candidate, active, previous, state>>
vars == <<files, unit, timer, agent, installer, reported, crashes>>

\* The agent is between two steps of run; "crashed" waits for systemd to start
\* it again, "stopped" does not.  overlay is the profile loaded at startup, saw
\* the active revision read by the current step, task the revision to apply
\* (kept across restarts to order the tasks, the agent itself keeps nothing).
Resting == {"boot", "cycle", "observe", "poll", "report"}
Applying == {"read active", "read state", "write previous", "write candidate",
             "write state", "schedule", "write failed"}
Agent == [at : {"crashed", "stopped"} \union Resting \union Applying,
          stopping : BOOLEAN, overlay : Nat, saw : Nat, task : Nat,
          result : {"completed", "failed"}]

\* What profile_snapshot_transaction has copied.  The rollback removes a file
\* that was not copied, as it removes one that was absent: both are 0 here.
Snapshot == [up : BOOLEAN, unit : Nat, candidate : Nat, active : Nat,
             previous : Nat, state : Document \union {NoDocument}]
NoSnapshot == [up |-> FALSE, unit |-> 0, candidate |-> 0, active |-> 0,
               previous |-> 0, state |-> NoDocument]

Forward == {"parse", "snapshot", "write pending", "move unit", "stop agent",
            "start agent", "check", "promote", "write previous",
            "write active", "clean up"}
Backward == {"restore unit", "restore profiles", "restore state",
             "stop failed agent", "start failed agent", "write failure"}
Installer == [at : {"idle"} \union Forward \union Backward,
              revision : Nat, blamed : Nat, snapshot : Snapshot]
NoInstaller == [at |-> "idle", revision |-> 0, blamed |-> 0,
                snapshot |-> NoSnapshot]

AgentIsDown == agent.at \in {"crashed", "stopped"}

-----------------------------------------------------------------------------
(* What the agent makes of the files.                                      *)

\* loadActiveProfile: the observation of an active revision a and a state
\* document d, read one after the other.
Observe(a, d) ==
  CASE d.state = "absent" /\ a = 0 -> [state |-> "not_configured", revision |-> 0]
    [] d.state = "absent" /\ a # 0 -> [state |-> "applied", revision |-> a]
    [] d.state = "pending_restart" -> [state |-> "pending_restart", revision |-> d.revision]
    [] d.state = "failed" -> [state |-> "failed", revision |-> d.revision]
    [] d.state = "active" /\ d.revision = a -> [state |-> "applied", revision |-> a]
    [] d.state = "active" /\ d.revision # a ->
         [state |-> "failed", revision |-> IF a = 0 THEN d.revision ELSE a]

\* The configuration takes the active profile as its overlay unless the state
\* document contradicts it.
Overlay(a, d) == IF d.state = "active" /\ d.revision # a THEN 0 ELSE a

-----------------------------------------------------------------------------
(* The agent.                                                              *)

Step(at) == agent' = [agent EXCEPT !.at = at]
Finish(result) == agent' = [agent EXCEPT !.at = "report", !.result = result]

\* loadConfig.
Boot ==
  /\ agent.at = "boot"
  /\ agent' = [agent EXCEPT !.at = "cycle", !.overlay = Overlay(active, state)]
  /\ UNCHANGED <<files, unit, timer, installer, reported, crashes>>

\* Mutant: the heartbeat looks at the candidate.
ReadActive_Candidate ==
  /\ agent.at = "cycle" /\ ~agent.stopping
  /\ agent' = [agent EXCEPT !.at = "observe", !.saw = candidate]
  /\ UNCHANGED <<files, unit, timer, installer, reported, crashes>>

\* runCycle observes the files: active first, then the state.
ReadActive ==
  /\ agent.at = "cycle" /\ ~agent.stopping
  /\ agent' = [agent EXCEPT !.at = "observe", !.saw = active]
  /\ UNCHANGED <<files, unit, timer, installer, reported, crashes>>

SendHeartbeat ==
  /\ agent.at = "observe" /\ ~agent.stopping
  /\ reported' = Observe(agent.saw, state)
  /\ Step("poll")
  /\ UNCHANGED <<files, unit, timer, installer, crashes>>

\* The poll returns an apply task.  The hub creates the apply tasks of a node
\* in the order of their revisions.
ReceiveTask(r) ==
  /\ agent.at = "poll" /\ ~agent.stopping
  /\ r >= agent.task
  /\ agent' = [agent EXCEPT !.at = "read active", !.task = r]
  /\ UNCHANGED <<files, unit, timer, installer, reported, crashes>>

\* The poll fails, or returns no task or one of another kind.
NoTask ==
  /\ agent.at = "poll" /\ ~agent.stopping
  /\ Step("cycle")
  /\ UNCHANGED <<files, unit, timer, installer, reported, crashes>>

\* profileApplyController.apply reads active, then the state.
ApplyReadActive ==
  /\ agent.at = "read active"
  /\ agent' = [agent EXCEPT !.at = "read state", !.saw = active]
  /\ UNCHANGED <<files, unit, timer, installer, reported, crashes>>

ApplyReadState ==
  LET older == agent.task < agent.saw
      same == agent.task = agent.saw
      pending == state.state = "pending_restart"
  IN /\ agent.at = "read state"
     /\ CASE older -> Finish("failed")
          [] same -> Finish("completed")
          [] ~older /\ ~same /\ pending /\ agent.task < state.revision -> Finish("failed")
          [] ~older /\ ~same /\ pending /\ agent.task = state.revision -> Finish("completed")
          [] OTHER -> Step(IF agent.saw = 0 THEN "write candidate" ELSE "write previous")
     /\ UNCHANGED <<files, unit, timer, installer, reported, crashes>>

\* A write of the agent fails: the task fails and the files stay as they are.
ApplyWriteFails ==
  /\ "write" \in Faults
  /\ agent.at \in {"write previous", "write candidate", "write state"}
  /\ Finish("failed")
  /\ UNCHANGED <<files, unit, timer, installer, reported, crashes>>

ApplyWritePrevious ==
  /\ agent.at = "write previous"
  /\ previous' = agent.saw
  /\ Step("write candidate")
  /\ UNCHANGED <<candidate, active, state, unit, timer, installer, reported, crashes>>

ApplyWriteCandidate ==
  /\ agent.at = "write candidate"
  /\ candidate' = agent.task
  /\ Step("write state")
  /\ UNCHANGED <<active, previous, state, unit, timer, installer, reported, crashes>>

ApplyWriteState ==
  /\ agent.at = "write state"
  /\ state' = [state |-> "pending_restart", revision |-> agent.task]
  /\ Step("schedule")
  /\ UNCHANGED <<candidate, active, previous, unit, timer, installer, reported, crashes>>

\* systemd-run refuses a unit name that is in use, and a cancelled context
\* (the agent is being stopped) cancels the command.
ScheduleProfileApply ==
  /\ agent.at = "schedule"
  /\ timer = "free" /\ ~agent.stopping
  /\ timer' = "waiting"
  /\ Finish("completed")
  /\ UNCHANGED <<files, unit, installer, reported, crashes>>

\* Mutant: the failed schedule leaves the state file alone.
ScheduleFails_NoMark ==
  /\ agent.at = "schedule"
  /\ timer # "free" \/ agent.stopping \/ "schedule" \in Faults
  /\ Finish("failed")
  /\ UNCHANGED <<files, unit, timer, installer, reported, crashes>>

ScheduleFails ==
  /\ agent.at = "schedule"
  /\ timer # "free" \/ agent.stopping \/ "schedule" \in Faults
  /\ Step("write failed")
  /\ UNCHANGED <<files, unit, timer, installer, reported, crashes>>

ApplyWriteFailed ==
  /\ agent.at = "write failed"
  /\ \/ state' = [state |-> "failed", revision |-> agent.task]
     \/ "rollback" \in Faults /\ UNCHANGED state
  /\ Finish("failed")
  /\ UNCHANGED <<candidate, active, previous, unit, timer, installer, reported, crashes>>

\* The result reaches the hub, or is lost: the agent does not retry.
Report ==
  /\ agent.at = "report" /\ ~agent.stopping
  /\ Step("cycle")
  /\ UNCHANGED <<files, unit, timer, installer, reported, crashes>>

\* SIGTERM cancels the requests to the hub and ends run after the cycle; an
\* apply that has started runs to its end.
Exit ==
  /\ agent.stopping /\ agent.at \in Resting
  /\ agent' = [agent EXCEPT !.at = "stopped", !.stopping = FALSE]
  /\ UNCHANGED <<files, unit, timer, installer, reported, crashes>>

-----------------------------------------------------------------------------
(* The installer.                                                          *)

Advance(at) == installer' = [installer EXCEPT !.at = at]

\* profile_apply_fail up to the rollback: the revision to blame is the parsed
\* one, else the one in the state file, else 1; without a transaction directory
\* there is nothing to restore.
Fail(rollback) ==
  installer' = [installer EXCEPT
    !.at = IF rollback THEN "restore unit" ELSE "write failure",
    !.blamed = CASE installer.revision # 0 -> installer.revision
                 [] installer.revision = 0 /\ state.revision # 0 -> state.revision
                 [] OTHER -> 1]

\* The timer elapses and starts the installer.
TimerFires ==
  /\ timer = "waiting"
  /\ timer' = "running"
  /\ installer' = [NoInstaller EXCEPT !.at = "parse"]
  /\ UNCHANGED <<files, unit, agent, reported, crashes>>

\* validate_config, ensure_profile_directory and profile_parse_candidate: from
\* here on the installer uses its own copy of the candidate.
Parse ==
  /\ installer.at = "parse"
  /\ \/ /\ candidate # 0
        /\ installer' = [installer EXCEPT !.at = "snapshot", !.revision = candidate]
     \/ /\ candidate = 0 \/ "write" \in Faults
        /\ Fail(FALSE)
     \/ /\ candidate # 0 /\ "write" \in Faults
        /\ installer' = [installer EXCEPT !.at = "write failure",
                           !.revision = candidate, !.blamed = candidate]
  /\ UNCHANGED <<files, unit, timer, agent, reported, crashes>>

\* Mutant: active.json is not part of the snapshot.
TakeSnapshot_NoActive ==
  /\ installer.at = "snapshot" /\ StrictUnit
  /\ installer' = [installer EXCEPT !.at = "write pending",
       !.snapshot = [up |-> ~AgentIsDown, unit |-> unit, candidate |-> candidate,
                     active |-> 0, previous |-> previous, state |-> state]]
  /\ UNCHANGED <<files, unit, timer, agent, reported, crashes>>

\* profile_snapshot_transaction.
TakeSnapshot ==
  /\ installer.at = "snapshot" /\ StrictUnit
  /\ installer' = [installer EXCEPT !.at = "write pending",
       !.snapshot = [up |-> ~AgentIsDown, unit |-> unit, candidate |-> candidate,
                     active |-> active, previous |-> previous, state |-> state]]
  /\ UNCHANGED <<files, unit, timer, agent, reported, crashes>>

\* The snapshot stops after k files: the flags of the others stay 0 and
\* profile_was_active stays unset, but the transaction directory exists, so
\* profile_apply_fail restores from it.
SnapshotFails(k) ==
  /\ installer.at = "snapshot"
  /\ (~StrictUnit /\ k = 0) \/ (StrictUnit /\ "snapshot" \in Faults)
  /\ installer' = [installer EXCEPT !.at = "restore unit",
       !.blamed = installer.revision,
       !.snapshot = [NoSnapshot EXCEPT
         !.unit = unit,
         !.candidate = IF k >= 1 THEN candidate ELSE 0,
         !.active = IF k >= 2 THEN active ELSE 0,
         !.previous = IF k >= 3 THEN previous ELSE 0]]
  /\ UNCHANGED <<files, unit, timer, agent, reported, crashes>>

\* A write of the transaction fails.
InstallFails ==
  /\ "write" \in Faults
  /\ installer.at \in {"write pending", "move unit", "promote",
                       "write previous", "write active"}
  /\ Fail(TRUE)
  /\ UNCHANGED <<files, unit, timer, agent, reported, crashes>>

WritePending ==
  /\ installer.at = "write pending"
  /\ state' = [state |-> "pending_restart", revision |-> installer.revision]
  /\ Advance("move unit")
  /\ UNCHANGED <<candidate, active, previous, unit, timer, agent, reported, crashes>>

MoveUnit ==
  /\ installer.at = "move unit"
  /\ unit' = installer.revision
  /\ Advance("stop agent")
  /\ UNCHANGED <<files, timer, agent, reported, crashes>>

\* systemctl restart (of the transaction, then of the rollback): SIGTERM ...
StopAgent(at, next) ==
  /\ installer.at = at
  /\ agent' = IF agent.at = "crashed"
                THEN [agent EXCEPT !.at = "stopped"]
                ELSE [agent EXCEPT !.stopping = agent.at # "stopped"]
  /\ Advance(next)
  /\ UNCHANGED <<files, unit, timer, reported, crashes>>

\* ... then, once the process has gone, the start of a new one.
StartAgent ==
  /\ installer.at = "start agent" /\ AgentIsDown
  /\ \/ agent' = [agent EXCEPT !.at = "boot"] /\ Advance("check")
     \/ "start" \in Faults /\ UNCHANGED agent /\ Fail(TRUE)
  /\ UNCHANGED <<files, unit, timer, reported, crashes>>

\* profile_active_checks.
ActiveChecks ==
  /\ installer.at = "check"
  /\ \/ ~AgentIsDown /\ Advance("promote")
     \/ (AgentIsDown \/ "checks" \in Faults) /\ Fail(TRUE)
  /\ UNCHANGED <<files, unit, timer, agent, reported, crashes>>

Promote ==
  /\ installer.at = "promote"
  /\ active' = installer.revision
  /\ Advance(IF installer.snapshot.active = 0 THEN "write active" ELSE "write previous")
  /\ UNCHANGED <<candidate, previous, state, unit, timer, agent, reported, crashes>>

\* Mutant: the earlier profile is written back to active.json.
WritePrevious_Swapped ==
  /\ installer.at = "write previous"
  /\ active' = installer.snapshot.active
  /\ Advance("write active")
  /\ UNCHANGED <<candidate, previous, state, unit, timer, agent, reported, crashes>>

WritePrevious ==
  /\ installer.at = "write previous"
  /\ previous' = installer.snapshot.active
  /\ Advance("write active")
  /\ UNCHANGED <<candidate, active, state, unit, timer, agent, reported, crashes>>

\* Mutant: the revision is taken from the state file.
WriteActive_FromState ==
  /\ installer.at = "write active"
  /\ state' = [state |-> "active", revision |-> state.revision]
  /\ Advance("clean up")
  /\ UNCHANGED <<candidate, active, previous, unit, timer, agent, reported, crashes>>

WriteActive ==
  /\ installer.at = "write active"
  /\ state' = [state |-> "active", revision |-> installer.revision]
  /\ Advance("clean up")
  /\ UNCHANGED <<candidate, active, previous, unit, timer, agent, reported, crashes>>

CleanUp ==
  /\ installer.at = "clean up"
  /\ candidate' = 0
  /\ installer' = NoInstaller
  /\ timer' = "free"
  /\ UNCHANGED <<active, previous, state, unit, agent, reported, crashes>>

\* Mutant: the unit stays as the transaction left it.
RestoreUnit_Skipped ==
  /\ installer.at = "restore unit"
  /\ Advance("restore profiles")
  /\ UNCHANGED <<files, unit, timer, agent, reported, crashes>>

\* profile_restore_transaction: the unit, the three profiles, the state file.
RestoreUnit ==
  /\ installer.at = "restore unit"
  /\ unit' = installer.snapshot.unit \/ ("rollback" \in Faults /\ UNCHANGED unit)
  /\ Advance("restore profiles")
  /\ UNCHANGED <<files, timer, agent, reported, crashes>>

RestoreProfiles ==
  /\ installer.at = "restore profiles"
  /\ \/ /\ candidate' = installer.snapshot.candidate
        /\ active' = installer.snapshot.active
        /\ previous' = installer.snapshot.previous
     \/ "rollback" \in Faults /\ UNCHANGED <<candidate, active, previous>>
  /\ Advance("restore state")
  /\ UNCHANGED <<state, unit, timer, agent, reported, crashes>>

RestoreState ==
  /\ installer.at = "restore state"
  /\ state' = installer.snapshot.state \/ ("rollback" \in Faults /\ UNCHANGED state)
  /\ Advance("stop failed agent")
  /\ UNCHANGED <<candidate, active, previous, unit, timer, agent, reported, crashes>>

\* Mutant: the rollback stops the agent in every case.
StartFailedAgent_Never ==
  /\ installer.at = "start failed agent" /\ AgentIsDown
  /\ Advance("write failure")
  /\ UNCHANGED <<files, unit, timer, agent, reported, crashes>>

\* The agent is started again if the snapshot found it active.
StartFailedAgent ==
  /\ installer.at = "start failed agent" /\ AgentIsDown
  /\ agent' = [agent EXCEPT !.at = IF installer.snapshot.up THEN "boot" ELSE @]
  /\ Advance("write failure")
  /\ UNCHANGED <<files, unit, timer, reported, crashes>>

\* Mutant: the failure is not recorded.
WriteFailure_Silent ==
  /\ installer.at = "write failure"
  /\ installer' = NoInstaller
  /\ timer' = "free"
  /\ UNCHANGED <<files, unit, agent, reported, crashes>>

WriteFailure ==
  /\ installer.at = "write failure"
  /\ \/ state' = [state |-> "failed", revision |-> installer.blamed]
     \/ "rollback" \in Faults /\ UNCHANGED state
  /\ installer' = NoInstaller
  /\ timer' = "free"
  /\ UNCHANGED <<candidate, active, previous, unit, agent, reported, crashes>>

-----------------------------------------------------------------------------
(* systemd and crashes.                                                    *)

\* Restart=on-failure.
SystemdRestart ==
  /\ agent.at = "crashed"
  /\ agent' = [agent EXCEPT !.at = "boot"]
  /\ UNCHANGED <<files, unit, timer, installer, reported, crashes>>

AgentCrash ==
  /\ "agent crash" \in Faults /\ crashes < MaxCrashes
  /\ ~AgentIsDown
  /\ agent' = [agent EXCEPT !.at = IF agent.stopping THEN "stopped" ELSE "crashed",
                            !.stopping = FALSE]
  /\ crashes' = crashes + 1
  /\ UNCHANGED <<files, unit, timer, installer, reported>>

\* The files survive; the transient timer and both processes do not, and the
\* enabled agent is started at boot.
HostCrash ==
  /\ "host crash" \in Faults /\ crashes < MaxCrashes
  /\ agent' = [agent EXCEPT !.at = "crashed", !.stopping = FALSE]
  /\ installer' = NoInstaller
  /\ timer' = "free"
  /\ crashes' = crashes + 1
  /\ UNCHANGED <<files, unit, reported>>

-----------------------------------------------------------------------------
Init ==
  /\ candidate = 0 /\ active = 0 /\ previous = 0 /\ state = NoDocument
  /\ unit = 0 /\ timer = "free"
  /\ agent = [at |-> "boot", stopping |-> FALSE, overlay |-> 0, saw |-> 0,
              task |-> 0, result |-> "completed"]
  /\ installer = NoInstaller
  /\ reported = [state |-> "not_configured", revision |-> 0]
  /\ crashes = 0

\* The steps of the agent that do not talk to the hub.
AgentLocal ==
  \/ Boot \/ ReadActive \/ ApplyReadActive \/ ApplyReadState
  \/ ApplyWriteFails \/ ApplyWritePrevious \/ ApplyWriteCandidate
  \/ ApplyWriteState \/ ScheduleProfileApply \/ ScheduleFails
  \/ ApplyWriteFailed \/ Exit

AgentNext ==
  \/ AgentLocal
  \/ SendHeartbeat \/ NoTask \/ Report
  \/ \E r \in 1 .. MaxRevision : ReceiveTask(r)

InstallerNext ==
  \/ Parse \/ TakeSnapshot \/ (\E k \in 0 .. 3 : SnapshotFails(k)) \/ InstallFails
  \/ WritePending \/ MoveUnit \/ StopAgent("stop agent", "start agent")
  \/ StartAgent \/ ActiveChecks \/ Promote \/ WritePrevious \/ WriteActive
  \/ CleanUp \/ RestoreUnit \/ RestoreProfiles \/ RestoreState
  \/ StopAgent("stop failed agent", "start failed agent")
  \/ StartFailedAgent \/ WriteFailure

Systemd == TimerFires \/ SystemdRestart
Crash == AgentCrash \/ HostCrash

Next == AgentNext \/ InstallerNext \/ Systemd \/ Crash

Spec == Init /\ [][Next]_vars

\* The agent's loop, the installer script and systemd keep running.
FairSpec ==
  /\ Spec
  /\ WF_vars(AgentNext) /\ WF_vars(InstallerNext)
  /\ WF_vars(TimerFires) /\ WF_vars(SystemdRestart)

-----------------------------------------------------------------------------
(* Properties.                                                             *)

\* The types of the files, of the unit and of the two processes.
TypeOK ==
  /\ candidate \in Nat /\ active \in Nat /\ previous \in Nat /\ unit \in Nat
  /\ state \in Document \union {NoDocument}
  /\ timer \in {"free", "waiting", "running"}
  /\ agent \in Agent
  /\ installer \in Installer
  /\ reported \in Observation
  /\ crashes \in Nat

\* A snapshot is complete and a rollback, unless the host crashes, runs through.
SoundRollback == StrictUnit /\ Faults \intersect {"snapshot", "rollback"} = {}

\* A state file that says "active" names the profile in active.json, whatever
\* else crashes or fails: loadActiveProfile treats anything else as corruption
\* and the agent then starts without its overlay.  The two files are written by
\* two renames of the installer and undone by two more, and the agent writes the
\* state file between any of them.
ActiveStateMatches ==
  SoundRollback /\ state.state = "active" => state.revision = active

\* At most one installer runs, and only while the transient unit exists: the
\* name of the unit is the only lock between two applications.
OneInstaller == (installer.at # "idle") <=> (timer = "running")

\* With the installer at rest, the write paths granted by the service unit are
\* those of the active profile, however many applications failed and at
\* whichever step.
UnitMatchesActive ==
  SoundRollback /\ "host crash" \notin Faults /\ installer.at = "idle"
    => unit = active

\* A failed application puts active.json back: the rollback of a profile that
\* was not promoted does not touch it.
RollbackRestores ==
  [][installer.at = "restore profiles" /\ active # installer.revision
       => active' = active]_vars

\* active.json only advances to a later revision, except when a promotion is
\* undone; the agent decides on what it read before it staged the candidate.
ActiveAdvances ==
  [][active' >= active \/ installer.at = "restore profiles"]_vars

\* A state file that says "pending_restart" has someone who will settle it: the
\* agent that is about to schedule the installer, or the timer or installer.
PendingHasDriver ==
  Faults \intersect {"rollback", "agent crash", "host crash"} = {}
    /\ state.state = "pending_restart"
  => agent.at \in {"schedule", "write failed"} \/ timer # "free"

\* Every "pending_restart" is eventually settled when nothing crashes.
PendingResolves ==
  state.state = "pending_restart" ~> state.state # "pending_restart"

\* Every applied profile is eventually reported as applied by a heartbeat, or
\* replaced: a torn read of the two files is only a passing misreport.
AppliedIsReported ==
  \A r \in 1 .. MaxRevision :
    state = [state |-> "active", revision |-> r]
      ~> \/ reported = [state |-> "applied", revision |-> r]
         \/ state # [state |-> "active", revision |-> r]

\* Whatever an application does to the agent, it comes back.
AgentComesBack == AgentIsDown ~> ~AgentIsDown
=============================================================================
