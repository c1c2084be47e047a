---------------------------- MODULE UptimeEngine ----------------------------
(***************************************************************************)
(* The uptime engine of the panel (internal/services/uptime): one worker   *)
(* goroutine per active monitor checks its target on a ticker and moves    *)
(* the monitor's state, incident and alerts; API handlers change monitors, *)
(* restart workers and run checks of their own; the panel dies at any      *)
(* point and its startup migration repairs what it finds.  The heartbeats  *)
(* of the checks are the subject of HeartbeatBatcher.                      *)
(*                                                                         *)
(* Every SQL statement is a step (the database has one connection), and so *)
(* is every section under Engine.mu.  A StatusUp and a StatusTLSWarn take  *)
(* the same branch everywhere and are both "up".  Ending the process in an *)
(* orderly way is a crash too: main does not wait for the engine.          *)
(* Engine.appCtx is written and read without a lock; the store is taken as *)
(* one step.                                                               *)
(***************************************************************************)
EXTENDS Naturals

CONSTANTS
  Monitors,     \* monitor ids; AUTOINCREMENT uses each of them once
  Configs,      \* the rows of uptime_monitors, a subset of AllConfigs
  MaxRetries,   \* no row asks for more failures than this
  Incidents,    \* bound of the model: incident ids in use at one time
  Workers,      \* bound of the model: worker goroutines at one time
  Handlers,     \* API requests at one time
  Faults,       \* the statements that may fail, a subset of Statements
  MaxFaults,    \* bound of the model: failed statements and crashes
  MaxRequests,  \* bound of the model: API requests
  MaxFlips      \* bound of the model: changes of a target's health

AllConfigs == [active : BOOLEAN, maintenance : BOOLEAN, retries : 1..MaxRetries]
Statements == {"get", "resolve", "create", "update", "list", "state",
               "save"}

Nobody == "nobody"

ASSUME UptimeAssumption ==
  /\ MaxRetries \in Nat \ {0}
  /\ Configs \subseteq AllConfigs
  /\ Faults \subseteq Statements
  /\ {MaxFaults, MaxRequests, MaxFlips} \subseteq Nat
  /\ 0 \notin Incidents
  /\ Workers \intersect Handlers = {}
  /\ Nobody \notin Workers \union Handlers
  /\ Monitors # {}

NoRow == [active |-> FALSE, maintenance |-> FALSE, retries |-> 0]
NoIncident == 0

\* A row of uptime_monitor_state.  fails stops at MaxRetries, beyond which no
\* comparison tells two counts apart; consecutive_ups decides nothing.
States == [status : {"pending", "up", "down"}, fails : 0..MaxRetries,
           incident : Incidents \union {NoIncident}]
NoState == [status |-> "none", fails |-> 0, incident |-> NoIncident]
Pending == [status |-> "pending", fails |-> 0, incident |-> NoIncident]

Threads == Workers \union Handlers

VARIABLES
  row, state, open,   \* uptime_monitors, uptime_monitor_state, open incidents
  used,               \* monitor ids given out
  proc,               \* the panel process, with the statement of MigrateUptime
  starter,            \* the goroutine of Engine.Start
  workers,            \* Engine.workers: the worker registered for a monitor
  cancelled,          \* workers whose context has ended
  lock,               \* Engine.checkLocks
  th,                 \* worker and handler goroutines
  reach, flips,       \* the targets that answer, changes so far
  requests, faults,   \* requests, failed statements and crashes so far
  told,               \* monitors whose last DOWN or RECOVERY alert was DOWN
  spoiled,            \* monitors with a failed statement since the last check
                      \* of theirs that went through and found the target up
  dropped             \* monitors whose creation or deletion failed half-way
                      \* in the life of this process

db == <<row, state, open, used>>
engine == <<starter, workers, cancelled>>
env == <<reach, flips>>
told_ == <<told, spoiled, dropped>>
vars == <<db, proc, engine, lock, th, env, requests, faults, told_>>

Idle == [pc |-> "idle", mon |-> CHOOSE m \in Monitors : TRUE, cfg |-> NoRow,
         up |-> FALSE, st |-> NoState]

Runs(c) == c.active /\ ~c.maintenance
Exists(m) == row[m] # NoRow
MinOf(a, b) == IF a <= b THEN a ELSE b

\* A statement goes through, or it fails and changes nothing.
Ok == faults' = faults
Err(s) == s \in Faults /\ faults < MaxFaults /\ faults' = faults + 1

Goto(t, pc) == th' = [th EXCEPT ![t].pc = pc]

-----------------------------------------------------------------------------
(* The worker registry, under Engine.mu.                                    *)

IdleWorkers == {w \in Workers : th[w].pc = "idle"}

\* Mutant: the worker already registered is not cancelled.
startWorker_NoCancel(m, c, next) ==
  LET w == CHOOSE x \in IdleWorkers : TRUE IN
  /\ IdleWorkers # {}
  /\ UNCHANGED cancelled
  /\ workers' = [workers EXCEPT ![m] = w]
  /\ th' = [next EXCEPT ![w] = [Idle EXCEPT !.pc = "wait", !.mon = m, !.cfg = c]]

\* startWorker with the rest of goroutine t's handler: the worker of the
\* monitor is cancelled, another takes its place and keeps this configuration.
startWorker(m, c, next) ==
  LET w == CHOOSE x \in IdleWorkers : TRUE IN
  /\ IdleWorkers # {}
  /\ cancelled' = cancelled \union ({workers[m]} \ {Nobody})
  /\ workers' = [workers EXCEPT ![m] = w]
  /\ th' = [next EXCEPT ![w] = [Idle EXCEPT !.pc = "wait", !.mon = m, !.cfg = c]]

RemoveMonitor(m) ==
  /\ cancelled' = cancelled \union ({workers[m]} \ {Nobody})
  /\ workers' = [workers EXCEPT ![m] = Nobody]

\* AddMonitor, and UpdateMonitor after RemoveMonitor: nothing before Start has
\* stored its context.
AddMonitor(t) ==
  LET m == th[t].mon  c == th[t].cfg  next == [th EXCEPT ![t] = Idle] IN
  /\ th[t].pc = "add"
  /\ IF Runs(c) /\ starter.pc # "idle"
       THEN startWorker(m, c, next)
       ELSE th' = next /\ UNCHANGED <<workers, cancelled>>
  /\ UNCHANGED <<db, proc, starter, lock, env, requests, faults, told_>>

\* Mutant: an update only stops the worker.
Remove_NoRestart(t) ==
  /\ th[t].pc \in {"remove", "remove-add", "remove-delete"}
  /\ RemoveMonitor(th[t].mon)
  /\ th' = [th EXCEPT ![t] =
              IF @.pc = "remove-delete" THEN [@ EXCEPT !.pc = "delete-last"]
              ELSE Idle]
  /\ UNCHANGED <<db, proc, starter, lock, env, requests, faults, told_>>

Remove(t) ==
  /\ th[t].pc \in {"remove", "remove-add", "remove-delete"}
  /\ RemoveMonitor(th[t].mon)
  /\ th' = [th EXCEPT ![t] =
              CASE @.pc = "remove" -> Idle
                [] @.pc = "remove-add" -> [@ EXCEPT !.pc = "add"]
                [] OTHER -> [@ EXCEPT !.pc = "delete-last"]]
  /\ UNCHANGED <<db, proc, starter, lock, env, requests, faults, told_>>

-----------------------------------------------------------------------------
(* Startup: MigrateUptime, then Engine.Start beside the HTTP server.        *)

Boot ==
  /\ proc = "off"
  /\ proc' = "backfill"
  /\ UNCHANGED <<db, engine, lock, th, env, requests, faults, told_>>

Migrates(from, to) ==
  /\ proc = from
  /\ proc' = to
  /\ UNCHANGED <<row, used, engine, lock, th, env, requests,
                 faults, told_>>

Backfill ==
  /\ state' = [m \in Monitors |->
                 IF Exists(m) /\ state[m] = NoState THEN Pending ELSE state[m]]
  /\ UNCHANGED open
  /\ Migrates("backfill", "relink")

\* newest: ORDER BY started_at DESC, id DESC, of which the model knows nothing.
Relink ==
  /\ \E newest \in [Monitors -> Incidents \union {NoIncident}] :
       /\ \A m \in Monitors : IF open[m] = {} THEN newest[m] = NoIncident
                                              ELSE newest[m] \in open[m]
       /\ state' = [m \in Monitors |->
                      IF state[m].status = "down"
                        THEN [state[m] EXCEPT !.incident = newest[m]] ELSE state[m]]
  /\ UNCHANGED open
  /\ Migrates("relink", "reconcile")

\* Mutant: only the duplicates of a DOWN monitor are resolved.
Reconcile_DownOnly ==
  /\ open' = [m \in Monitors |->
                IF state[m] = NoState THEN open[m]
                ELSE {i \in open[m] : state[m].status = "down" => i = state[m].incident}]
  /\ UNCHANGED state
  /\ Migrates("reconcile", "clear")

\* Mutant: every open incident of a DOWN monitor is kept.
Reconcile_KeepDown ==
  /\ open' = [m \in Monitors |->
                IF state[m] = NoState THEN open[m]
                ELSE {i \in open[m] : state[m].status = "down"}]
  /\ UNCHANGED state
  /\ Migrates("reconcile", "clear")

Reconcile ==
  /\ open' = [m \in Monitors |->
                IF state[m] = NoState THEN open[m]
                ELSE {i \in open[m] : state[m].status = "down" /\ i = state[m].incident}]
  /\ UNCHANGED state
  /\ Migrates("reconcile", "clear")

ClearPointers ==
  /\ state' = [m \in Monitors |->
                 IF state[m].status # "down"
                   THEN [state[m] EXCEPT !.incident = NoIncident] ELSE state[m]]
  /\ UNCHANGED open
  /\ Migrates("clear", "reset")

\* Mutant: a DOWN state without an open incident is kept.
ResetOrphaned_Keep ==
  /\ UNCHANGED <<state, open>>
  /\ Migrates("reset", "index")

ResetOrphaned ==
  /\ state' = [m \in Monitors |->
                 IF state[m].status = "down" /\ open[m] = {} THEN Pending ELSE state[m]]
  /\ UNCHANGED open
  /\ Migrates("reset", "index")

\* The unique index cannot be made over two open incidents of a monitor: main
\* exits.
CreateIndex ==
  /\ Migrates("index", IF \E m \in Monitors : \E i, j \in open[m] : i # j
                         THEN "refused" ELSE "up")
  /\ UNCHANGED <<state, open>>

\* Start stores its context, lists the monitors, starts their workers.
StartContext ==
  /\ proc = "up" /\ starter.pc = "idle"
  /\ starter' = [starter EXCEPT !.pc = "list"]
  /\ UNCHANGED <<db, proc, workers, cancelled, lock, th, env, requests,
                 faults, told_>>

StartList ==
  /\ starter.pc = "list"
  /\ \/ Ok /\ starter' = [pc |-> "loop",
                          todo |-> {<<m, row[m]>> : m \in {n \in Monitors : Runs(row[n])}}]
     \/ Err("list") /\ starter' = [starter EXCEPT !.pc = "failed"]
  /\ UNCHANGED <<db, proc, workers, cancelled, lock, th, env, requests,
                 told_>>

StartLoop ==
  /\ starter.pc = "loop"
  /\ \E x \in starter.todo :
       /\ startWorker(x[1], x[2], th)
       /\ starter' = [starter EXCEPT !.todo = @ \ {x}]
  /\ UNCHANGED <<db, proc, lock, env, requests, faults, told_>>

-----------------------------------------------------------------------------
(* A check: runCheck under the monitor's lock, then Transition.             *)

\* The ticker (or the jitter of the start) fires.  A cancelled worker may take
\* this branch of the select too when both are ready.
Tick(w) ==
  /\ th[w].pc = "wait"
  /\ Goto(w, "lock")
  /\ UNCHANGED <<db, proc, engine, lock, env, requests, faults, told_>>

WorkerExit(w) ==
  /\ th[w].pc = "wait" /\ w \in cancelled
  /\ th' = [th EXCEPT ![w] = Idle]
  /\ cancelled' = cancelled \ {w}
  /\ UNCHANGED <<db, proc, starter, workers, lock, env, requests, faults, told_>>

\* Mutant: checks of a monitor are not serialized.
Lock_NotHeld(t) ==
  LET m == th[t].mon IN
  /\ th[t].pc = "lock"
  /\ lock' = [lock EXCEPT ![m] = t]
  /\ th' = [th EXCEPT ![t].pc = "get", ![t].up = reach[m]]
  /\ UNCHANGED <<db, proc, engine, env, requests, faults, told_>>

\* The check lock is taken and the target probed: nothing between the two is
\* seen by anyone.
Lock(t) ==
  LET m == th[t].mon IN
  /\ th[t].pc = "lock"
  /\ lock[m] = Nobody
  /\ lock' = [lock EXCEPT ![m] = t]
  /\ th' = [th EXCEPT ![t].pc = "get", ![t].up = reach[m]]
  /\ UNCHANGED <<db, proc, engine, env, requests, faults, told_>>

\* runCheck returns to the select of the worker, or to CheckNow.
Unlock(t) ==
  /\ lock' = [lock EXCEPT ![th[t].mon] = Nobody]
  /\ th' = [th EXCEPT ![t] = IF t \in Workers
                               THEN [@ EXCEPT !.pc = "wait", !.up = FALSE, !.st = NoState]
                               ELSE Idle]

\* The state is read; without one the transition ends.
GetState(t) ==
  LET m == th[t].mon
      s == state[m]
      fails == MinOf(s.fails + 1, MaxRetries)
  IN
  /\ th[t].pc = "get"
  /\ \/ /\ Ok /\ s # NoState /\ th[t].up
        /\ th' = [th EXCEPT ![t].st = [s EXCEPT !.fails = 0], ![t].pc = "resolve",
                             ![t].up = FALSE]
        /\ UNCHANGED lock
     \/ /\ Ok /\ s # NoState /\ ~th[t].up
        /\ \E pc \in {"select", "remind", "update"} :
             /\ (pc = "select") = (s.status # "down" /\ fails >= th[t].cfg.retries)
             /\ pc = "remind" => s.status = "down"
             /\ th' = [th EXCEPT ![t].st = [s EXCEPT !.fails = fails], ![t].pc = pc]
        /\ UNCHANGED lock
     \/ Ok /\ s = NoState /\ Unlock(t)
     \/ Err("get") /\ Unlock(t)
  /\ UNCHANGED <<db, proc, engine, env, requests, told_>>

\* UP in hand, with the incident that is left.
UpInHand(t, i) ==
  LET s == th[t].st IN
  th' = [th EXCEPT ![t] = [th[t] EXCEPT !.st = [s EXCEPT !.status = "up", !.incident = i],
                                        !.pc = IF s.status = "down" THEN "recover" ELSE "update"]]

\* Mutant: only the incident the state points to is resolved.
Resolve_ByPointer(t) ==
  LET m == th[t].mon  s == th[t].st IN
  /\ th[t].pc = "resolve"
  /\ \/ /\ Ok
        /\ open' = [open EXCEPT ![m] = @ \ {s.incident}]
        /\ UpInHand(t, NoIncident)
        /\ UNCHANGED spoiled
     \/ /\ Err("resolve")
        /\ UpInHand(t, s.incident)
        /\ spoiled' = spoiled \union {m}
        /\ UNCHANGED open
  /\ UNCHANGED <<row, state, used, proc, engine, lock, env,
                 requests, told, dropped>>

Resolve(t) ==
  LET m == th[t].mon  s == th[t].st IN
  /\ th[t].pc = "resolve"
  /\ \/ /\ Ok
        /\ open' = [open EXCEPT ![m] = {}]
        /\ UpInHand(t, NoIncident)
        /\ UNCHANGED spoiled
     \/ /\ Err("resolve")
        /\ UpInHand(t, s.incident)
        /\ spoiled' = spoiled \union {m}
        /\ UNCHANGED open
  /\ UNCHANGED <<row, state, used, proc, engine, lock, env,
                 requests, told, dropped>>

SendRecovery(t) ==
  /\ th[t].pc = "recover"
  /\ told' = told \ {th[t].mon}
  /\ Goto(t, "update")
  /\ UNCHANGED <<db, proc, engine, lock, env, requests, faults, spoiled, dropped>>

\* DOWN in hand, with the incident that CreateIncident returned.
DownInHand(t, i) ==
  LET s == th[t].st IN
  th' = [th EXCEPT ![t] = [th[t] EXCEPT !.st = [s EXCEPT !.status = "down", !.incident = i],
                                        !.pc = "down"]]

\* CreateIncident: an open incident is continued ...
SelectOpen(t) ==
  LET m == th[t].mon IN
  /\ th[t].pc = "select"
  /\ \/ Ok /\ open[m] = {} /\ Goto(t, "insert") /\ UNCHANGED spoiled
     \/ Ok /\ (\E i \in open[m] : DownInHand(t, i)) /\ UNCHANGED spoiled
     \/ Err("create") /\ DownInHand(t, th[t].st.incident) /\ spoiled' = spoiled \union {m}
  /\ UNCHANGED <<db, proc, engine, lock, env, requests, told, dropped>>

\* LastInsertId: an id that neither an open incident nor a pointer uses, as long
\* as the bound Incidents leaves one.
FreshIncidents ==
  {i \in Incidents : /\ \A m \in Monitors : i \notin open[m] /\ i # state[m].incident
                     /\ \A t \in Threads : i # th[t].st.incident}
NewIncident == CHOOSE i \in FreshIncidents : TRUE

\* ... and otherwise one is inserted: the monitor must exist, and the index
\* refuses a second.
InsertIncident(t) ==
  LET m == th[t].mon IN
  /\ th[t].pc = "insert"
  /\ \/ /\ Ok /\ Exists(m) /\ open[m] = {} /\ FreshIncidents # {}
        /\ open' = [open EXCEPT ![m] = @ \union {NewIncident}]
        /\ DownInHand(t, NewIncident)
        /\ UNCHANGED spoiled
     \/ /\ Ok /\ ~(Exists(m) /\ open[m] = {})
        /\ DownInHand(t, th[t].st.incident)
        /\ UNCHANGED <<open, spoiled>>
     \/ /\ Err("create")
        /\ DownInHand(t, th[t].st.incident)
        /\ spoiled' = spoiled \union {m}
        /\ UNCHANGED open
  /\ UNCHANGED <<row, state, used, proc, engine, lock, env,
                 requests, told, dropped>>

SendDown(t) ==
  /\ th[t].pc = "down"
  /\ told' = told \union {th[t].mon}
  /\ Goto(t, "update")
  /\ UNCHANGED <<db, proc, engine, lock, env, requests, faults, spoiled, dropped>>

\* A reminder is due: alert_reminder_mins is set and has passed.
SendReminder(t) ==
  /\ th[t].pc = "remind"
  /\ Goto(t, "update")
  /\ UNCHANGED <<db, proc, engine, lock, env, requests, faults, told_>>

\* Mutant: the state is only written when its status changes.
UpdateState_OnChange(t) ==
  LET m == th[t].mon  s == th[t].st IN
  /\ th[t].pc = "update"
  /\ \/ /\ Ok
        /\ state' = [state EXCEPT ![m] = IF @ = NoState \/ @.status = s.status THEN @ ELSE s]
        /\ spoiled' = IF s.fails = 0 /\ open[m] = {} THEN spoiled \ {m} ELSE spoiled
     \/ /\ Err("update")
        /\ spoiled' = spoiled \union {m}
        /\ UNCHANGED state
  /\ Unlock(t)
  /\ UNCHANGED <<row, open, used, proc, engine, env, requests,
                 told, dropped>>

UpdateState(t) ==
  LET m == th[t].mon  s == th[t].st IN
  /\ th[t].pc = "update"
  /\ \/ /\ Ok
        /\ state' = [state EXCEPT ![m] = IF @ = NoState THEN NoState ELSE s]
        /\ spoiled' = IF s.fails = 0 /\ open[m] = {} THEN spoiled \ {m} ELSE spoiled
     \/ /\ Err("update")
        /\ spoiled' = spoiled \union {m}
        /\ UNCHANGED state
  /\ Unlock(t)
  /\ UNCHANGED <<row, open, used, proc, engine, env, requests,
                 told, dropped>>

-----------------------------------------------------------------------------
(* The API handlers.                                                        *)

Request(h, m, pc, c) ==
  /\ proc = "up" /\ requests < MaxRequests
  /\ th[h].pc = "idle"
  /\ th' = [th EXCEPT ![h] = [Idle EXCEPT !.pc = pc, !.mon = m, !.cfg = c]]
  /\ requests' = requests + 1

\* CreateMonitor inserts the row, then the row of its state.
CreateMonitor(h) ==
  /\ \E m \in Monitors \ used, c \in {d \in Configs : Runs(d)} :
       /\ Request(h, m, "new-state", c)
       /\ row' = [row EXCEPT ![m] = c]
       /\ used' = used \union {m}
  /\ UNCHANGED <<state, open, proc, engine, lock, env, faults,
                 told_>>

InsertState(h) ==
  LET m == th[h].mon IN
  /\ th[h].pc = "new-state"
  /\ \/ /\ Ok /\ Exists(m)
        /\ state' = [state EXCEPT ![m] = Pending]
        /\ Goto(h, "add")
        /\ UNCHANGED dropped
     \/ /\ \/ Ok /\ ~Exists(m)
           \/ Err("state")
        /\ th' = [th EXCEPT ![h] = Idle]
        /\ dropped' = dropped \union {m}
        /\ UNCHANGED state
  /\ UNCHANGED <<row, open, used, proc, engine, lock, env,
                 requests, told, spoiled>>

\* The other requests read their monitor first and change nothing by that.
Existing(h, m, pc, c) ==
  /\ Exists(m)
  /\ Request(h, m, pc, c)
  /\ UNCHANGED <<db, proc, engine, lock, env, faults, told_>>

\* The body of an update may hold any configuration.
UpdateMonitor(h) == \E m \in Monitors, c \in Configs : Existing(h, m, "save", c)
Delete(h) == \E m \in Monitors : Existing(h, m, "delete", NoRow)
Pause(h) == \E m \in Monitors : Existing(h, m, "pause", NoRow)
Resume(h) == \E m \in Monitors : Existing(h, m, "resume", NoRow)

\* The deletion of a domain removes the worker of its monitor first.
DeleteDomain(h) == \E m \in Monitors : Existing(h, m, "remove-delete", NoRow)

\* A check by hand, refused for a monitor that is paused.
CheckNow(h) == \E m \in Monitors : Runs(row[m]) /\ Existing(h, m, "lock", row[m])

\* UPDATE uptime_monitors: the whole row, or its is_active.
SaveMonitor(h) ==
  LET m == th[h].mon
      saved == CASE th[h].pc = "save" -> th[h].cfg
                 [] th[h].pc = "pause" -> [row[m] EXCEPT !.active = FALSE]
                 [] th[h].pc = "resume" -> [row[m] EXCEPT !.active = TRUE]
                 [] OTHER -> NoRow
      next == CASE th[h].pc = "save" -> "remove-add"
                [] th[h].pc = "pause" -> "remove"
                [] OTHER -> "reread"
  IN
  /\ th[h].pc \in {"save", "pause", "resume"}
  /\ \/ /\ Ok
        /\ row' = [row EXCEPT ![m] = IF Exists(m) THEN saved ELSE NoRow]
        /\ Goto(h, next)
     \/ /\ Err("save")
        /\ th' = [th EXCEPT ![h] = Idle]
        /\ UNCHANGED row
  /\ UNCHANGED <<state, open, used, proc, engine, lock, env,
                 requests, told_>>

\* Resume reads the row again before it starts a worker.
Reread(h) ==
  LET m == th[h].mon IN
  /\ th[h].pc = "reread"
  /\ th' = [th EXCEPT ![h] = IF Exists(m) THEN [@ EXCEPT !.pc = "add", !.cfg = row[m]]
                             ELSE Idle]
  /\ UNCHANGED <<db, proc, engine, lock, env, requests, faults, told_>>

\* DELETE cascades to the state, the incidents and the heartbeats.
DeleteMonitor(h) ==
  LET m == th[h].mon IN
  /\ th[h].pc \in {"delete", "delete-last"}
  /\ \/ /\ Ok
        /\ row' = [row EXCEPT ![m] = NoRow]
        /\ state' = [state EXCEPT ![m] = NoState]
        /\ open' = [open EXCEPT ![m] = {}]
        /\ th' = [th EXCEPT ![h] = IF @.pc = "delete" THEN [@ EXCEPT !.pc = "remove"]
                                   ELSE Idle]
        /\ UNCHANGED dropped
     \/ /\ Err("save")
        /\ th' = [th EXCEPT ![h] = Idle]
        /\ dropped' = IF th[h].pc = "delete-last" THEN dropped \union {m} ELSE dropped
        /\ UNCHANGED <<row, state, open>>
  /\ UNCHANGED <<used, proc, engine, lock, env, requests, told, spoiled>>

-----------------------------------------------------------------------------
\* The process ends: what was in memory is lost.
Crash ==
  /\ proc # "off" /\ faults < MaxFaults
  /\ faults' = faults + 1
  /\ proc' = "off"
  /\ starter' = [pc |-> "idle", todo |-> {}]
  /\ workers' = [m \in Monitors |-> Nobody]
  /\ cancelled' = {}
  /\ lock' = [m \in Monitors |-> Nobody]
  /\ th' = [t \in Threads |-> Idle]
  /\ dropped' = {}
  /\ UNCHANGED <<db, env, requests, told, spoiled>>

Flip ==
  /\ flips < MaxFlips
  /\ flips' = flips + 1
  /\ \E m \in Monitors : reach' = [reach EXCEPT ![m] = ~@]
  /\ UNCHANGED <<db, proc, engine, lock, th, requests, faults, told_>>

\* Any database an earlier version may have left: states missing, pointers
\* lost or stale, several open incidents.
Init ==
  /\ row \in [Monitors -> Configs \union {NoRow}]
  /\ state \in [Monitors -> States \union {NoState}]
  /\ open \in [Monitors -> SUBSET Incidents]
  /\ \A m \in Monitors : row[m] = NoRow => state[m] = NoState /\ open[m] = {}
  /\ \A m, n \in Monitors : m # n => open[m] \intersect open[n] = {}
  /\ used = {m \in Monitors : row[m] # NoRow}
  /\ proc = "off"
  /\ starter = [pc |-> "idle", todo |-> {}]
  /\ workers = [m \in Monitors |-> Nobody]
  /\ cancelled = {}
  /\ lock = [m \in Monitors |-> Nobody]
  /\ th = [t \in Threads |-> Idle]
  /\ reach \in [Monitors -> BOOLEAN] /\ flips = 0
  /\ requests = 0 /\ faults = 0
  /\ told = {m \in Monitors : state[m].status = "down"}
  /\ spoiled = {} /\ dropped = {}

Startup == Boot \/ Backfill \/ Relink \/ Reconcile \/ ClearPointers
           \/ ResetOrphaned \/ CreateIndex
Starter == StartContext \/ StartList \/ StartLoop
Check(t) == \/ GetState(t)
            \/ Resolve(t) \/ SendRecovery(t) \/ SelectOpen(t) \/ InsertIncident(t)
            \/ SendDown(t) \/ SendReminder(t) \/ UpdateState(t)
Handle(h) == \/ InsertState(h) \/ AddMonitor(h) \/ Remove(h) \/ SaveMonitor(h)
             \/ Reread(h) \/ DeleteMonitor(h)

Next ==
  \/ Startup \/ Starter \/ Crash \/ Flip
  \/ \E w \in Workers : Tick(w) \/ WorkerExit(w)
  \/ \E t \in Threads : Lock(t) \/ Check(t)
  \/ \E h \in Handlers : CreateMonitor(h) \/ UpdateMonitor(h) \/ Delete(h) \/ Pause(h) \/ Resume(h)
                        \/ DeleteDomain(h) \/ CheckNow(h) \/ Handle(h)

Spec == Init /\ [][Next]_vars

\* systemd restarts the panel (Restart=always), goroutines are scheduled,
\* tickers fire, a check ends by its timeout, and a sync.Mutex hands itself
\* over to a waiter that starves.
Fairness ==
  /\ WF_vars(Startup \/ Starter)
  /\ \A w \in Workers : /\ WF_vars(Tick(w) \/ WorkerExit(w) \/ Check(w))
                        /\ SF_vars(Lock(w))
  /\ \A h \in Handlers : WF_vars(Handle(h) \/ Lock(h) \/ Check(h))

FairSpec == Spec /\ Fairness

-----------------------------------------------------------------------------
(* Properties.                                                              *)

Pcs == {"idle", "wait", "lock", "get",
        "resolve", "recover", "select", "insert", "down", "remind", "update",
        "new-state", "add", "save", "pause", "resume",
        "reread", "delete", "delete-last", "remove", "remove-add", "remove-delete"}

\* Every variable has its type, and the foreign keys of the database hold.
TypeOK ==
  /\ row \in [Monitors -> AllConfigs \union {NoRow}]
  /\ state \in [Monitors -> States \union {NoState}]
  /\ open \in [Monitors -> SUBSET Incidents]
  /\ used \subseteq Monitors
  /\ \A m \in Monitors : ~Exists(m) => state[m] = NoState /\ open[m] = {}
  /\ proc \in {"off", "backfill", "relink", "reconcile", "clear", "reset",
               "index", "up", "refused"}
  /\ starter \in [pc : {"idle", "list", "loop", "failed"},
                  todo : SUBSET (Monitors \X AllConfigs)]
  /\ workers \in [Monitors -> Workers \union {Nobody}]
  /\ cancelled \subseteq Workers
  /\ lock \in [Monitors -> Threads \union {Nobody}]
  /\ th \in [Threads -> [pc : Pcs, mon : Monitors, cfg : AllConfigs \union {NoRow},
                         up : BOOLEAN, st : States \union {NoState}]]
  /\ reach \in [Monitors -> BOOLEAN]
  /\ {flips, requests, faults} \subseteq Nat
  /\ told \subseteq Monitors /\ spoiled \subseteq Monitors /\ dropped \subseteq Monitors

\* MigrateUptime brings every database to one that the unique index accepts,
\* also when it was interrupted before: the panel never refuses to start.
MigrationAccepts == proc # "refused"

\* The goroutine in the middle of a transition of monitor m.
InTransition(m) ==
  \E t \in Threads : th[t].mon = m /\ th[t].pc \in {"resolve", "recover", "select",
                                                   "insert", "down", "remind", "update"}

\* Once the panel is up and between transitions, a monitor is DOWN exactly when
\* it has an open incident, the only one, which its state points to: through
\* crashes between CreateIncident (or ResolveOpenIncidents) and UpdateState,
\* deletions during a check and checks of a worker that was replaced; a failed
\* statement spoils it at most until the next full check that finds it up.
IncidentMatchesState ==
  proc = "up" =>
    \A m \in Monitors \ spoiled : ~InTransition(m) =>
      open[m] = IF state[m].status = "down" THEN {state[m].incident} ELSE {}

\* CreateIncident selects and inserts in two statements without a transaction:
\* no other goroutine opens an incident in between, so the insert is never
\* refused by the unique index.
IndexNeverHit ==
  \A t \in Threads : th[t].pc = "insert" => open[th[t].mon] = {}

\* A RECOVERY or STILL DOWN alert only goes out while the last alert of the
\* monitor was DOWN, also after a crash between the alert and UpdateState.
AlertsFollowDown ==
  \A t \in Threads :
    th[t].pc \in {"recover", "remind"} /\ th[t].mon \notin spoiled => th[t].mon \in told

\* A worker whose context has not ended is the one Engine.workers holds, so a
\* monitor has one at most and RemoveMonitor reaches it.
LiveIsRegistered ==
  \A w \in Workers : th[w].pc # "idle" /\ w \notin cancelled => workers[th[w].mon] = w

Watched(m) == workers[m] # Nobody /\ th[workers[m]].pc # "idle" /\ workers[m] \notin cancelled

\* When no request is being handled and Start has made its loop, a monitor that
\* is active and not in maintenance has a worker, also when it was created,
\* resumed or changed while Start was about to list the monitors.
ActiveIsWatched ==
  /\ proc = "up" /\ starter = [pc |-> "loop", todo |-> {}]
  /\ \A h \in Handlers : th[h].pc = "idle"
  => \A m \in Monitors \ dropped : Runs(row[m]) => Watched(m)

\* A target that stops answering for good is reported DOWN as long as a worker
\* watches it.
OutageNoticed ==
  \A m \in Monitors :
    []<>(~Watched(m) \/ reach[m] \/ state[m].status \in {"down", "none"})

\* A target that answers again for good is UP and its incidents are closed,
\* whichever statements failed before.
RecoveryNoticed ==
  \A m \in Monitors :
    []<>(~Watched(m) \/ ~reach[m] \/ state[m] = NoState
         \/ (state[m].status = "up" /\ open[m] = {}))

=============================================================================
