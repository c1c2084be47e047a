------------------------- MODULE UptimeEngineProofs -------------------------
(***************************************************************************)
(* Proofs about UptimeEngine, for every number of monitors, incidents,     *)
(* workers, requests, crashes and failed statements.  Inv, the inductive   *)
(* invariant, says what a transition that holds the check lock has read,   *)
(* written and announced at each of its statements, and what the startup   *)
(* migration has repaired after each of its own.  The steps of a check     *)
(* come first, then the other steps (workers, requests, startup, migration *)
(* and crashes), then what follows for every behaviour.  The last section  *)
(* is about the workers: WatchInv says where an active monitor without a   *)
(* worker is waiting for one.                                              *)
(***************************************************************************)
EXTENDS UptimeEngine, TLAPS

\* Most leaves are first-order: Zenon is the default prover here.
USE ZenonT(20)

Goroutine == [pc : Pcs, mon : Monitors, cfg : AllConfigs \union {NoRow},
              up : BOOLEAN, st : States \union {NoState}]

TransitionPcs == {"resolve", "recover", "select", "insert", "down", "remind", "update"}
CheckPcs == {"get"} \union TransitionPcs

\* The monitor is DOWN exactly when it has an open incident, its own.
Match(m) == open[m] = IF state[m].status = "down" THEN {state[m].incident} ELSE {}

\* The status and the incident that the transition of t has in hand are those
\* of the table.
InHand(t) ==
  /\ th[t].st.status = state[th[t].mon].status
  /\ th[t].st.incident = state[th[t].mon].incident

\* What the statements of the transition of t rely on, whatever failed: UP goes
\* with a count of zero, DOWN with another.
Counted(t) ==
  /\ th[t].st # NoState
  /\ Exists(th[t].mon) => state[th[t].mon] # NoState
  /\ th[t].pc = "recover" => th[t].st.status = "up"
  /\ th[t].pc \in {"select", "insert", "down", "remind"} => th[t].st.fails # 0
  /\ th[t].pc = "update" /\ th[t].st.fails = 0 => th[t].st.status = "up"
  /\ th[t].pc = "insert" => open[th[t].mon] = {}

\* When nothing has failed: how the table, the incidents and the last alert
\* compare with what is in hand.  The monitor may have been deleted meanwhile.
Agrees(t) ==
  LET m == th[t].mon  s == th[t].st  gone == state[m] = NoState IN
  /\ th[t].pc \in {"resolve", "remind"} => Match(m) /\ (gone \/ InHand(t))
  /\ th[t].pc = "resolve" => (s.status = "down" => m \in told)
  /\ th[t].pc = "recover" => open[m] = {} /\ m \in told
  /\ th[t].pc \in {"select", "insert"} => open[m] = {} /\ state[m].status # "down"
  /\ th[t].pc = "down" => s.status = "down" /\ (gone \/ open[m] = {s.incident})
  /\ th[t].pc = "remind" => s.status = "down" /\ m \in told
  /\ th[t].pc = "update" =>
       /\ gone \/ open[m] = IF s.status = "down" THEN {s.incident} ELSE {}
       /\ s.status = "down" => m \in told

Midway(t) == Counted(t) /\ (th[t].mon \notin spoiled => Agrees(t))

\* A DOWN that the migration would keep has been announced.
Announced(m) ==
  m \notin spoiled /\ state[m].status = "down" /\ open[m] # {} => m \in told

\* Monitor m while the panel is up.
Settled(m) ==
  /\ state[m] = NoState => open[m] = {}
  /\ m \notin spoiled /\ ~InTransition(m) => Match(m)

\* The statements of MigrateUptime, by what each of them has established.
Stages ==
  /\ proc \in {"relink", "reconcile"} =>
       \A m \in Monitors : Exists(m) => state[m] # NoState
  /\ proc \in {"clear", "reset"} =>
       \A m \in Monitors : \/ open[m] = {}
                           \/ state[m].status = "down" /\ open[m] = {state[m].incident}
  /\ proc = "index" => \A m \in Monitors : Match(m)
  /\ proc # "refused"

\* Ids are used once, and a monitor has no state before InsertState.
Fresh ==
  /\ \A m \in Monitors : Exists(m) => m \in used
  /\ \A t \in Threads : th[t].pc # "idle" => th[t].mon \in used
  /\ \A x \in starter.todo : x[1] \in used
  /\ \A t \in Threads : th[t].pc = "new-state" /\ Exists(th[t].mon)
                        => state[th[t].mon] = NoState
  /\ \A t, u \in Threads : /\ th[t].pc = "new-state" /\ th[u].pc = "new-state"
                           /\ th[t].mon = th[u].mon
                           => t = u

\* Nothing runs while the panel is down or migrates.
Quiet == proc # "up" => starter.pc = "idle" /\ \A t \in Threads : th[t].pc = "idle"

Holds == \A t \in Threads : th[t].pc \in CheckPcs => lock[th[t].mon] = t

Typed == TypeOK /\ \A t \in Threads : th[t].pc = "save" => th[t].cfg # NoRow

Inv ==
  /\ Typed /\ Fresh /\ Quiet /\ Holds /\ Stages /\ LiveIsRegistered
  /\ proc = "up" => \A m \in Monitors : Settled(m)
  /\ \A m \in Monitors : Announced(m)
  /\ \A t \in Threads : th[t].pc \in TransitionPcs => Midway(t)

-----------------------------------------------------------------------------
(* Goroutines and their records.                                            *)

\* Only the goroutines of S have moved.
Only(S) ==
  /\ th' \in [Threads -> Goroutine]
  /\ \A u \in Threads \ S : th'[u] = th[u]

\* Goroutine t is at pc and has kept the rest of its record.
At(t, pc) ==
  /\ th'[t].pc = pc
  /\ th'[t].mon = th[t].mon /\ th'[t].cfg = th[t].cfg /\ th'[t].st = th[t].st

\* TypeOK with the record of a goroutine by its name.
LEMMA Shape == TypeOK => th \in [Threads -> Goroutine]
PROOF
  BY DEF TypeOK, Goroutine

\* The states of a monitor that no row has are no states of a row.
LEMMA Plain ==
  /\ NoState \notin States
  /\ Pending \in States
  /\ NoRow \notin AllConfigs
  /\ ~Runs(NoRow)
PROOF
  BY SMTT(30), UptimeAssumption DEF NoState, Pending, States, NoRow, AllConfigs, NoIncident, Runs

\* A goroutine at rest is typed.
LEMMA IdleIs ==
  /\ Idle \in Goroutine
  /\ Idle.pc = "idle" /\ Idle.cfg = NoRow /\ Idle.st = NoState
PROOF
<1>1. (CHOOSE m \in Monitors : TRUE) \in Monitors
  BY UptimeAssumption
<1> QED BY <1>1 DEF Idle, Goroutine, Pcs

\* A goroutine set up for monitor m by startWorker or by a request.
LEMMA SetUp ==
  ASSUME NEW p \in Pcs, NEW m \in Monitors, NEW c \in AllConfigs \union {NoRow}
  PROVE  LET g == [Idle EXCEPT !.pc = p, !.mon = m, !.cfg = c] IN
         g \in Goroutine /\ g.pc = p /\ g.mon = m /\ g.cfg = c /\ g.st = NoState
PROOF
  BY IdleIs DEF Goroutine

\* Goto moves one goroutine.
LEMMA GotoMoves ==
  ASSUME TypeOK, NEW t \in Threads, NEW p \in Pcs, Goto(t, p)
  PROVE  Only({t}) /\ At(t, p)
PROOF
<1>1. th[t] \in Goroutine
  BY Shape
<1>2. [th[t] EXCEPT !.pc = p] \in Goroutine
  BY <1>1 DEF Goroutine
<1>3. th' = [th EXCEPT ![t] = [th[t] EXCEPT !.pc = p]]
  BY DEF Goto
<1> QED BY <1>1, <1>2, <1>3, Shape DEF Only, At, Goroutine

\* A goroutine that becomes g.
LEMMA BecomesMoves ==
  ASSUME TypeOK, NEW t \in Threads, NEW g \in Goroutine, th' = [th EXCEPT ![t] = g]
  PROVE  Only({t}) /\ th'[t] = g
PROOF
  BY Shape DEF Only

\* Unlock sends a worker back to its select and ends a check by hand.
LEMMA UnlockMoves ==
  ASSUME TypeOK, NEW t \in Threads, Unlock(t)
  PROVE  /\ Only({t})
         /\ th'[t].pc \in {"wait", "idle"}
         /\ t \in Workers => th'[t].pc = "wait" /\ th'[t].mon = th[t].mon
         /\ th'[t].pc # "idle" => th'[t].mon = th[t].mon
         /\ lock' \in [Monitors -> Threads \union {Nobody}]
         /\ \A m \in Monitors \ {th[t].mon} : lock'[m] = lock[m]
PROOF
<1> DEFINE g == IF t \in Workers
                  THEN [th[t] EXCEPT !.pc = "wait", !.up = FALSE, !.st = NoState] ELSE Idle
<1>1. th[t] \in Goroutine
  BY Shape
<1>2. [th[t] EXCEPT !.pc = "wait", !.up = FALSE, !.st = NoState] \in Goroutine
  BY <1>1 DEF Goroutine, Pcs
<1>3. g \in Goroutine
  BY <1>2, IdleIs
<1>4. th' = [th EXCEPT ![t] = g]
  BY DEF Unlock
<1>5. Only({t}) /\ th'[t] = g
  BY <1>3, <1>4, BecomesMoves
<1>6. g.pc \in {"wait", "idle"} /\ (g.pc # "idle" => g.mon = th[t].mon)
  BY <1>1, IdleIs DEF Goroutine
<1>7. t \in Workers => g.pc = "wait" /\ g.mon = th[t].mon
  BY <1>1 DEF Goroutine
<1>8. lock' \in [Monitors -> Threads \union {Nobody}]
  BY <1>1 DEF Unlock, TypeOK
<1>9. \A m \in Monitors \ {th[t].mon} : lock'[m] = lock[m]
  BY DEF Unlock, TypeOK
<1> QED BY <1>5, <1>6, <1>7, <1>8, <1>9

-----------------------------------------------------------------------------
(* A step of a check: what it leaves alone, and what is left to show of it.  *)

\* Goroutine t holds the lock of monitor m and touches no other monitor; it
\* goes on with its transition or gives the lock back.
CheckStep(t, m) ==
  /\ th[t].pc \in CheckPcs /\ th[t].mon = m
  /\ Only({t})
  /\ UNCHANGED <<row, used, proc, starter, workers, cancelled>>
  /\ \A n \in Monitors \ {m} : /\ state'[n] = state[n] /\ open'[n] = open[n]
                               /\ n \in spoiled' <=> n \in spoiled
                               /\ n \in told' <=> n \in told
  /\ state[m] = NoState => state'[m] = NoState
  /\ \/ th'[t].pc \in TransitionPcs /\ th'[t].mon = m /\ lock' = lock
     \/ Unlock(t)

\* What the step has to establish for its own monitor.
OwnDone(t, m) ==
  /\ th[t].pc \in TransitionPcs => Midway(t)
  /\ Announced(m)
  /\ state[m] = NoState => open[m] = {}
  /\ th[t].pc \notin TransitionPcs /\ m \notin spoiled => Match(m)

\* The transition of u is where it was when neither u nor its monitor changed.
LEMMA MidwayKept ==
  ASSUME NEW u \in Threads, Midway(u), th'[u] = th[u],
         Exists(th[u].mon)' => Exists(th[u].mon),
         state'[th[u].mon] = state[th[u].mon], open'[th[u].mon] = open[th[u].mon],
         th[u].mon \in spoiled => th[u].mon \in spoiled',
         th[u].mon \in told => th[u].mon \in told'
  PROVE  Midway(u)'
PROOF
<1>1. Counted(u)'
  BY DEF Midway, Counted, Exists
<1>2. th'[u].mon \notin spoiled' => Agrees(u)'
  BY DEF Midway, Agrees, Match, InHand
<1> QED BY <1>1, <1>2 DEF Midway

\* A check step keeps the invariant if it leaves its own monitor in order.
LEMMA CheckKeeps ==
  ASSUME Inv, NEW t \in Threads, NEW m \in Monitors, CheckStep(t, m), TypeOK',
         OwnDone(t, m)'
  PROVE  Inv'
PROOF
<1>1. TypeOK /\ proc = "up" /\ th[t].pc # "idle"
  BY DEF Inv, Typed, Quiet, CheckStep, CheckPcs, TransitionPcs
<1>2. /\ \A u \in Threads \ {t} : th'[u] = th[u]
      /\ th'[t].pc \in TransitionPcs \union {"wait", "idle"}
      /\ th'[t].pc # "idle" => th'[t].mon = m
      /\ t \in Workers => th'[t].pc # "idle"
  <2>1. CASE th'[t].pc \in TransitionPcs /\ th'[t].mon = m
    BY <2>1 DEF CheckStep, Only, TransitionPcs
  <2>2. CASE Unlock(t)
    BY <1>1, <2>2, UnlockMoves DEF CheckStep, Only
  <2> QED BY <2>1, <2>2 DEF CheckStep
<1>3. /\ \A n \in Monitors \ {m} : lock'[n] = lock[n]
      /\ th'[t].pc \in TransitionPcs => lock' = lock
  <2>1. CASE th'[t].pc \in TransitionPcs /\ lock' = lock
    BY <2>1
  <2>2. CASE Unlock(t)
    BY <1>1, <2>2, UnlockMoves DEF CheckStep, TransitionPcs
  <2> QED BY <2>1, <2>2 DEF CheckStep
<1>4. \A u \in Threads \ {t} : th[u].pc \in CheckPcs => th[u].mon # m
  BY DEF Inv, Holds, CheckStep
<1>5. \A u \in Threads : th[u].mon \in Monitors
  BY <1>1, Shape DEF Goroutine
<1>6. Typed'
  BY <1>2 DEF Inv, Typed, TransitionPcs
<1>7. Fresh'
  <2>1. Exists(m)' = Exists(m) /\ \A n \in Monitors : Exists(n)' = Exists(n)
    BY DEF CheckStep, Exists
  <2>2. \A n \in Monitors : state[n] = NoState => state'[n] = NoState
    BY DEF CheckStep
  <2>3. th'[t].pc # "new-state"
    BY <1>2 DEF TransitionPcs
  <2>4. m \in used
    BY <1>1 DEF Inv, Fresh, CheckStep
  <2>5. \A u \in Threads : th'[u].pc # "idle" => th'[u].mon \in used'
    BY SMTT(30), <1>2, <2>4 DEF Inv, Fresh, CheckStep
  <2>6. \A u \in Threads : th'[u].pc = "new-state" /\ Exists(th[u].mon)' => state'[th'[u].mon] = NoState
    BY <1>2, <1>5, <2>1, <2>2, <2>3 DEF Inv, Fresh
  <2>7. \A u, v \in Threads : /\ th'[u].pc = "new-state" /\ th'[v].pc = "new-state"
                              /\ th'[u].mon = th'[v].mon
                              => u = v
    BY <1>2, <2>3 DEF Inv, Fresh
  <2>8. \A u \in Threads : th'[u].pc = "new-state" => th'[u].mon = th[u].mon
    BY <1>2, <2>3
  <2>9. /\ \A n \in Monitors : Exists(n)' => n \in used'
        /\ \A x \in starter'.todo : x[1] \in used'
    BY <2>1 DEF Inv, Fresh, CheckStep
  <2> QED BY <2>1, <2>5, <2>6, <2>7, <2>8, <2>9 DEF Fresh, Exists
<1>8. Quiet' /\ Stages'
  BY <1>1 DEF Inv, Quiet, Stages, CheckStep
<1>9. Holds'
  <2>1. SUFFICES ASSUME NEW u \in Threads, th'[u].pc \in CheckPcs
                 PROVE  lock'[th'[u].mon] = u
    BY DEF Holds
  <2>2. CASE u = t
    BY <1>2, <1>3, <2>1, <2>2 DEF Inv, Holds, CheckStep, CheckPcs, TransitionPcs
  <2>3. CASE u # t
    BY SMTT(30), <1>2, <1>3, <1>4, <1>5, <2>1, <2>3 DEF Inv, Holds
  <2> QED BY <2>2, <2>3
<1>10. LiveIsRegistered'
  <2>1. SUFFICES ASSUME NEW w \in Workers, th'[w].pc # "idle", w \notin cancelled'
                 PROVE  workers'[th'[w].mon] = w
    BY DEF LiveIsRegistered
  <2>2. th[w].pc # "idle" /\ th'[w].mon = th[w].mon
    BY <1>1, <1>2, <2>1 DEF CheckStep, Threads
  <2> QED BY <2>1, <2>2 DEF Inv, LiveIsRegistered, CheckStep
<1>11. ASSUME NEW n \in Monitors
       PROVE  Settled(n)'
  <2>1. CASE n = m
    <3>1. th'[t].pc \in TransitionPcs => InTransition(m)'
      BY <1>2 DEF InTransition, TransitionPcs
    <3> QED BY <2>1, <3>1 DEF OwnDone, Settled
  <2>2. CASE n # m
    <3>1. InTransition(n) => InTransition(n)'
      BY <1>2, <2>2 DEF InTransition, CheckStep
    <3>2. Settled(n)
      BY <1>1 DEF Inv
    <3> QED BY <2>2, <3>1, <3>2 DEF Settled, Match, CheckStep
  <2> QED BY <2>1, <2>2
<1>12. ASSUME NEW n \in Monitors
       PROVE  Announced(n)'
  <2>1. CASE n = m
    BY <2>1 DEF OwnDone
  <2>2. CASE n # m
    BY <2>2 DEF Inv, Announced, CheckStep
  <2> QED BY <2>1, <2>2
<1>13. ASSUME NEW u \in Threads, th'[u].pc \in TransitionPcs
       PROVE  Midway(u)'
  <2>1. CASE u = t
    BY <1>13, <2>1 DEF OwnDone
  <2>2. CASE u # t
    <3>1. th'[u] = th[u] /\ th[u].mon \in Monitors \ {m} /\ Midway(u)
      BY <1>2, <1>4, <1>5, <1>13, <2>2 DEF Inv, CheckPcs
    <3>2. Exists(th[u].mon)' => Exists(th[u].mon)
      BY <3>1 DEF Exists, CheckStep
    <3> QED BY <3>1, <3>2, MidwayKept DEF CheckStep
  <2> QED BY <2>1, <2>2
<1> QED BY <1>6, <1>7, <1>8, <1>9, <1>10, <1>11, <1>12, <1>13 DEF Inv

-----------------------------------------------------------------------------
(* The statements of a check.                                               *)

\* A statement that went through or failed leaves a number of faults.
LEMMA FaultsCounted ==
  ASSUME TypeOK, Ok \/ \E s : Err(s)
  PROVE  faults' \in Nat
PROOF
  BY SMTT(30) DEF TypeOK, Ok, Err

\* A step of goroutines that writes no tables keeps the types.
LEMMA TypesKept ==
  ASSUME TypeOK, th' \in [Threads -> Goroutine], faults' \in Nat, requests' \in Nat,
         UNCHANGED <<row, state, open, used, proc, env, dropped>>,
         starter' \in [pc : {"idle", "list", "loop", "failed"},
                       todo : SUBSET (Monitors \X AllConfigs)],
         workers' \in [Monitors -> Workers \union {Nobody}], cancelled' \subseteq Workers,
         lock' \in [Monitors -> Threads \union {Nobody}],
         told' \subseteq Monitors, spoiled' \subseteq Monitors
  PROVE  TypeOK'
PROOF
  BY DEF TypeOK, Goroutine, Exists, env

\* GetState: the row of the state is read, or the check ends.
LEMMA GetStateKeeps ==
  ASSUME Inv, NEW t \in Threads, NEW m \in Monitors, th[t].mon = m, GetState(t)
  PROVE  Inv'
PROOF
<1> DEFINE s == state[m]
           fails == MinOf(s.fails + 1, MaxRetries)
<1>1. TypeOK /\ th[t].pc = "get" /\ th[t] \in Goroutine /\ proc = "up"
  BY Shape DEF Inv, Typed, GetState, Quiet
<1>2. UNCHANGED <<row, state, open, used, proc, starter, workers, cancelled, reach, flips,
                  requests, told, spoiled, dropped>>
  BY DEF GetState, db, engine, env, told_
<1>3. faults' \in Nat
  BY <1>1, FaultsCounted DEF GetState
<1>4. Settled(m) /\ Announced(m)
  BY <1>1 DEF Inv
<1>5. ~InTransition(m)
  <2>1. ASSUME NEW u \in Threads, th[u].mon = m, th[u].pc \in TransitionPcs
        PROVE  FALSE
    <3>1. lock[m] = u /\ lock[m] = t
      BY <1>1, <2>1 DEF Inv, Holds, CheckPcs
    <3> QED BY <1>1, <2>1, <3>1 DEF TransitionPcs
  <2> QED BY <2>1 DEF InTransition, TransitionPcs
<1>6. m \notin spoiled => Match(m)
  BY <1>4, <1>5 DEF Settled
<1>7. CASE Unlock(t)
  <2>1. Only({t}) /\ lock' \in [Monitors -> Threads \union {Nobody}]
        /\ th'[t].pc \in {"wait", "idle"}
    BY <1>1, <1>7, UnlockMoves
  <2>2. TypeOK'
    BY <1>1, <1>2, <1>3, <2>1, TypesKept DEF TypeOK, Only, env
  <2>3. CheckStep(t, m)
    BY <1>1, <1>2, <1>7, <2>1 DEF CheckStep, CheckPcs
  <2>4. OwnDone(t, m)'
    BY <1>2, <1>4, <1>6, <2>1 DEF OwnDone, Settled, Announced, Match, TransitionPcs
  <2> QED BY <1>1, <2>2, <2>3, <2>4, CheckKeeps
<1>8. CASE /\ s # NoState /\ th[t].up
           /\ th' = [th EXCEPT ![t].st = [s EXCEPT !.fails = 0], ![t].pc = "resolve",
                               ![t].up = FALSE]
           /\ UNCHANGED lock
  <2> DEFINE g == [th[t] EXCEPT !.st = [s EXCEPT !.fails = 0], !.pc = "resolve", !.up = FALSE]
  <2>1. s \in States
    BY <1>1, <1>8 DEF TypeOK
  <2>2. [s EXCEPT !.fails = 0] \in States /\ [s EXCEPT !.fails = 0].status = s.status
        /\ [s EXCEPT !.fails = 0].incident = s.incident
    BY SMTT(30), <2>1, UptimeAssumption DEF States
  <2>3. g \in Goroutine /\ g.pc = "resolve" /\ g.mon = m
        /\ g.st = [s EXCEPT !.fails = 0]
    BY <1>1, <2>2 DEF Goroutine, Pcs
  <2>4. th' = [th EXCEPT ![t] = g]
    BY <1>8
  <2>5. Only({t}) /\ th'[t] = g
    BY <1>1, <2>3, <2>4, BecomesMoves
  <2>6. TypeOK'
    BY <1>1, <1>2, <1>3, <1>8, <2>5, TypesKept DEF TypeOK, Only, env
  <2>7. CheckStep(t, m)
    BY <1>1, <1>2, <1>8, <2>3, <2>5 DEF CheckStep, CheckPcs, TransitionPcs
  <2>8. Counted(t)'
    <3>1. th'[t].pc = "resolve" /\ th'[t].mon = m /\ th'[t].st # NoState
      BY <2>2, <2>3, <2>5, Plain
    <3> QED BY <1>2, <1>8, <3>1 DEF Counted
  <2>9. m \notin spoiled /\ s.status = "down" => m \in told
    BY <1>4, <1>6 DEF Announced, Match
  <2>10. m \notin spoiled => Agrees(t)'
    BY <1>2, <1>6, <2>2, <2>3, <2>5, <2>9 DEF Agrees, Match, InHand
  <2>11. OwnDone(t, m)'
    BY <1>2, <1>4, <2>3, <2>5, <2>8, <2>10
    DEF OwnDone, Midway, Settled, Announced, TransitionPcs
  <2> QED BY <1>1, <2>6, <2>7, <2>11, CheckKeeps
<1>9. ASSUME s # NoState, NEW p \in {"select", "remind", "update"},
             (p = "select") = (s.status # "down" /\ fails >= th[t].cfg.retries),
             p = "remind" => s.status = "down",
             th' = [th EXCEPT ![t].st = [s EXCEPT !.fails = fails], ![t].pc = p],
             UNCHANGED lock
      PROVE  Inv'
  <2> DEFINE g == [th[t] EXCEPT !.st = [s EXCEPT !.fails = fails], !.pc = p]
             z == [s EXCEPT !.fails = fails]
  <2>1. s \in States /\ s.fails \in Nat
    BY SMTT(30), <1>1, <1>9 DEF TypeOK, States
  <2>2. fails \in 1..MaxRetries
    BY SMTT(30), <2>1, UptimeAssumption DEF MinOf
  <2>3. z \in States /\ z.status = s.status /\ z.incident = s.incident /\ z.fails # 0
    BY SMTT(30), <2>1, <2>2, UptimeAssumption DEF States
  <2>4. g \in Goroutine /\ g.pc = p /\ g.mon = m /\ g.st = z
    BY <1>1, <1>9, <2>3 DEF Goroutine, Pcs
  <2>5. th' = [th EXCEPT ![t] = g]
    BY <1>9
  <2>6. Only({t}) /\ th'[t] = g
    BY <1>1, <2>4, <2>5, BecomesMoves
  <2>7. TypeOK'
    BY <1>1, <1>2, <1>3, <1>9, <2>6, TypesKept DEF TypeOK, Only, env
  <2>8. CheckStep(t, m)
    BY <1>1, <1>2, <1>9, <2>4, <2>6 DEF CheckStep, CheckPcs, TransitionPcs
  <2>9. (p = "select" => s.status # "down") /\ (p = "remind" => s.status = "down")
    BY <1>9
  <2>10. Counted(t)'
    <3>1. th'[t].pc = p /\ th'[t].mon = m /\ th'[t].st = z /\ z # NoState
      BY <2>3, <2>4, <2>6, Plain
    <3>2. p \notin {"recover", "insert"}
      BY <1>9
    <3> HIDE DEF z
    <3> QED BY <1>2, <1>9, <2>3, <3>1, <3>2 DEF Counted
  <2>11. m \notin spoiled /\ s.status = "down" => m \in told
    BY <1>4, <1>6 DEF Announced, Match
  <2>12. th'[t].pc = p /\ th'[t].mon = m /\ th'[t].st = z
    BY <2>4, <2>6
  <2> HIDE DEF z, g
  <2>13. m \notin spoiled => Match(m)'
    BY <1>2, <1>6 DEF Match
  <2>14. m \notin spoiled => Agrees(t)'
    <3>1. CASE p = "select"
      BY <1>2, <1>6, <2>9, <2>12, <3>1 DEF Agrees, Match
    <3>2. CASE p = "remind"
      <4>1. InHand(t)'
        BY <1>2, <2>3, <2>12 DEF InHand
      <4>2. m \notin spoiled => Match(th[t].mon)'
        BY <2>12, <2>13 DEF Match
      <4> QED BY <2>3, <2>9, <1>2, <2>11, <2>12, <3>2, <4>1, <4>2 DEF Agrees
    <3>3. CASE p = "update"
      BY <1>2, <1>6, <2>3, <2>11, <2>12, <3>3 DEF Agrees, Match
    <3> QED BY <3>1, <3>2, <3>3
  <2>15. Midway(t)' /\ th'[t].pc \in TransitionPcs
    BY <1>2, <2>10, <2>12, <2>14 DEF Midway, TransitionPcs
  <2>16. OwnDone(t, m)'
    BY <1>2, <1>4, <2>15 DEF OwnDone, Settled, Announced
  <2> QED BY <1>1, <2>7, <2>8, <2>16, CheckKeeps
<1> QED BY <1>7, <1>8, <1>9 DEF GetState

\* A step of a check that writes a state or the incidents keeps the types.
LEMMA CheckTyped ==
  ASSUME TypeOK, th' \in [Threads -> Goroutine], faults' \in Nat,
         UNCHANGED <<row, used, proc, engine, env, requests, dropped>>,
         lock' \in [Monitors -> Threads \union {Nobody}],
         state' \in [Monitors -> States \union {NoState}],
         open' \in [Monitors -> SUBSET Incidents],
         \A n \in Monitors : ~Exists(n) => state'[n] = NoState /\ open'[n] = {},
         told' \subseteq Monitors, spoiled' \subseteq Monitors
  PROVE  TypeOK'
PROOF
  BY DEF TypeOK, Goroutine, Exists, env, engine

\* A state with another status and incident.
LEMMA Restated ==
  ASSUME NEW s \in States \union {NoState}, NEW p \in {"up", "down"},
         NEW i \in Incidents \union {NoIncident}
  PROVE  LET z == [s EXCEPT !.status = p, !.incident = i] IN
         z \in States /\ z.status = p /\ z.incident = i /\ z.fails = s.fails
PROOF
<1>1. CASE s \in States
  BY <1>1 DEF States
<1>2. CASE s = NoState
  <2>1. NoState \in [status : {"none"}, fails : {0}, incident : {NoIncident}]
    BY DEF NoState
  <2>2. [NoState EXCEPT !.status = p, !.incident = i]
          \in [status : {p}, fails : {0}, incident : {i}]
    BY <2>1
  <2>3. 0 \in 0..MaxRetries /\ s.fails = 0
    BY SMTT(30), <1>2, UptimeAssumption DEF NoState
  <2> QED BY <1>2, <2>2, <2>3 DEF States
<1> QED BY <1>1, <1>2

\* What Inv says of a goroutine within its transition.
LEMMA Within ==
  ASSUME Inv, NEW t \in Threads, NEW m \in Monitors, th[t].mon = m,
         th[t].pc \in TransitionPcs
  PROVE  /\ TypeOK /\ proc = "up" /\ th[t] \in Goroutine /\ th[t].pc \in CheckPcs
         /\ Midway(t) /\ Settled(m) /\ Announced(m)
         /\ lock \in [Monitors -> Threads \union {Nobody}]
PROOF
  BY Shape DEF Inv, Typed, Quiet, TransitionPcs, CheckPcs, TypeOK

\* UP in hand with incident i.
LEMMA UpMoves ==
  ASSUME TypeOK, NEW t \in Threads, NEW i \in Incidents \union {NoIncident},
         UpInHand(t, i)
  PROVE  /\ Only({t}) /\ th'[t].mon = th[t].mon /\ th'[t].st.status = "up"
         /\ th'[t].pc = IF th[t].st.status = "down" THEN "recover" ELSE "update"
         /\ th'[t].pc \in TransitionPcs /\ th'[t].st # NoState
PROOF
<1> DEFINE s == th[t].st
           z == [s EXCEPT !.status = "up", !.incident = i]
           p == IF s.status = "down" THEN "recover" ELSE "update"
           g == [th[t] EXCEPT !.st = z, !.pc = p]
<1>1. th[t] \in Goroutine /\ s \in States \union {NoState}
  BY Shape DEF Goroutine
<1>2. z \in States /\ z.status = "up"
  BY <1>1, Restated
<1>3. g \in Goroutine /\ g.pc = p /\ g.mon = th[t].mon /\ g.st = z
  BY <1>1, <1>2 DEF Goroutine, Pcs
<1>4. th' = [th EXCEPT ![t] = g]
  BY DEF UpInHand
<1>5. Only({t}) /\ th'[t] = g
  BY <1>3, <1>4, BecomesMoves
<1> QED BY <1>2, <1>3, <1>5, Plain DEF TransitionPcs

\* Resolve: ResolveOpenIncidents, and UP in hand.
LEMMA ResolveKeeps ==
  ASSUME Inv, NEW t \in Threads, NEW m \in Monitors, th[t].mon = m, Resolve(t)
  PROVE  Inv'
PROOF
<1> DEFINE s == th[t].st
           p == IF s.status = "down" THEN "recover" ELSE "update"
<1>1. th[t].pc = "resolve" /\ th[t].pc \in TransitionPcs
  BY DEF Resolve, TransitionPcs
<1>2. /\ TypeOK /\ proc = "up" /\ th[t] \in Goroutine /\ th[t].pc \in CheckPcs
      /\ Midway(t) /\ Settled(m) /\ Announced(m)
  BY <1>1, Within
<1>3. UNCHANGED <<row, state, used, proc, starter, workers, cancelled, reach, flips,
                  requests, lock, told, dropped>>
  BY DEF Resolve, engine, env
<1>4. faults' \in Nat
  BY <1>2, FaultsCounted DEF Resolve
<1>5. s.incident \in Incidents \union {NoIncident}
  BY SMTT(30), <1>2 DEF Goroutine, States, NoState
<1>6. ASSUME NEW i \in Incidents \union {NoIncident}, UpInHand(t, i)
      PROVE  /\ Only({t}) /\ th'[t].mon = m /\ th'[t].pc = p /\ th'[t].st.status = "up"
             /\ th'[t].pc \in TransitionPcs /\ th'[t].st # NoState
  BY <1>2, <1>6, UpMoves
<1>7. (s.status = "down" /\ m \notin spoiled) => m \in told
  BY <1>1, <1>2 DEF Midway, Agrees
<1>8. Exists(m) => state[m] # NoState
  BY <1>2 DEF Midway, Counted
<1>9. CASE /\ open' = [open EXCEPT ![m] = {}]
           /\ UpInHand(t, NoIncident)
           /\ UNCHANGED spoiled
  <2>1. /\ Only({t}) /\ th'[t].mon = m /\ th'[t].pc = p /\ th'[t].st.status = "up"
        /\ th'[t].pc \in TransitionPcs /\ th'[t].st # NoState
    BY <1>6, <1>9
  <2>2. open' \in [Monitors -> SUBSET Incidents] /\ open'[m] = {}
        /\ \A n \in Monitors \ {m} : open'[n] = open[n]
    BY <1>2, <1>9 DEF TypeOK
  <2>3. \A n \in Monitors : ~Exists(n) => state'[n] = NoState /\ open'[n] = {}
    BY <1>2, <1>3, <2>2 DEF TypeOK
  <2>4. TypeOK'
    BY <1>2, <1>3, <1>4, <1>9, <2>1, <2>2, <2>3, CheckTyped DEF TypeOK, Only, env, engine
  <2>5. CheckStep(t, m)
    BY <1>2, <1>3, <1>9, <2>1, <2>2 DEF CheckStep
  <2>6. Counted(t)'
    BY <1>3, <1>8, <2>1, <2>2 DEF Counted, Exists
  <2>7. m \notin spoiled => Agrees(t)'
    BY <1>3, <1>7, <2>1, <2>2 DEF Agrees
  <2>8. OwnDone(t, m)'
    BY <1>9, <2>1, <2>2, <2>6, <2>7 DEF OwnDone, Midway, Announced
  <2> QED BY <2>4, <2>5, <2>8, CheckKeeps
<1>10. CASE /\ UpInHand(t, s.incident)
            /\ spoiled' = spoiled \union {m}
            /\ UNCHANGED open
  <2>1. /\ Only({t}) /\ th'[t].mon = m /\ th'[t].pc = p /\ th'[t].st.status = "up"
        /\ th'[t].pc \in TransitionPcs /\ th'[t].st # NoState
    BY <1>5, <1>6, <1>10
  <2>2. TypeOK'
    BY <1>2, <1>3, <1>4, <1>10, <2>1, TypesKept DEF TypeOK, Only, env
  <2>3. CheckStep(t, m)
    BY <1>2, <1>3, <1>10, <2>1 DEF CheckStep
  <2>4. Counted(t)'
    BY <1>3, <1>8, <1>10, <2>1 DEF Counted, Exists
  <2>5. OwnDone(t, m)'
    BY <1>2, <1>3, <1>10, <2>1, <2>4 DEF OwnDone, Midway, Announced, Settled
  <2> QED BY <2>2, <2>3, <2>5, CheckKeeps
<1> QED BY <1>9, <1>10 DEF Resolve

\* SendRecovery: the RECOVERY alert.
LEMMA SendRecoveryKeeps ==
  ASSUME Inv, NEW t \in Threads, NEW m \in Monitors, th[t].mon = m, SendRecovery(t)
  PROVE  Inv'
PROOF
<1>1. th[t].pc = "recover" /\ th[t].pc \in TransitionPcs
  BY DEF SendRecovery, TransitionPcs
<1>2. /\ TypeOK /\ proc = "up" /\ th[t] \in Goroutine /\ th[t].pc \in CheckPcs
      /\ Midway(t) /\ Settled(m) /\ Announced(m)
  BY <1>1, Within
<1>3. UNCHANGED <<row, state, open, used, proc, starter, workers, cancelled, reach, flips,
                  requests, lock, faults, spoiled, dropped>>
  BY DEF SendRecovery, db, engine, env
<1>4. Only({t}) /\ At(t, "update")
  BY <1>2, GotoMoves DEF SendRecovery, Pcs
<1>5. told' = told \ {m}
  BY DEF SendRecovery
<1>6. TypeOK'
  BY <1>2, <1>3, <1>4, <1>5, TypesKept DEF TypeOK, Only, env
<1>7. CheckStep(t, m)
  BY <1>2, <1>3, <1>4, <1>5 DEF CheckStep, At, TransitionPcs
<1>8. th[t].st.status = "up" /\ th[t].st # NoState /\ (Exists(m) => state[m] # NoState)
  BY <1>1, <1>2 DEF Midway, Counted
<1>9. m \notin spoiled => open[m] = {}
  BY <1>1, <1>2 DEF Midway, Agrees
<1>10. Counted(t)'
  BY <1>3, <1>4, <1>8 DEF Counted, At, Exists
<1>11. m \notin spoiled => Agrees(t)'
  BY <1>3, <1>4, <1>8, <1>9 DEF Agrees, At
<1>12. Midway(t)' /\ th'[t].pc \in TransitionPcs
  BY <1>3, <1>4, <1>10, <1>11 DEF Midway, At, TransitionPcs
<1>13. OwnDone(t, m)'
  BY <1>2, <1>3, <1>9, <1>12 DEF OwnDone, Announced, Settled
<1> QED BY <1>6, <1>7, <1>13, CheckKeeps

\* SendReminder: the STILL DOWN alert.
LEMMA SendReminderKeeps ==
  ASSUME Inv, NEW t \in Threads, NEW m \in Monitors, th[t].mon = m, SendReminder(t)
  PROVE  Inv'
PROOF
<1>1. th[t].pc = "remind" /\ th[t].pc \in TransitionPcs
  BY DEF SendReminder, TransitionPcs
<1>2. /\ TypeOK /\ proc = "up" /\ th[t] \in Goroutine /\ th[t].pc \in CheckPcs
      /\ Midway(t) /\ Settled(m) /\ Announced(m)
  BY <1>1, Within
<1>3. UNCHANGED <<row, state, open, used, proc, starter, workers, cancelled, reach, flips,
                  requests, lock, faults, told, spoiled, dropped>>
  BY DEF SendReminder, db, engine, env, told_
<1>4. Only({t}) /\ At(t, "update")
  BY <1>2, GotoMoves DEF SendReminder, Pcs
<1>5. TypeOK'
  BY <1>2, <1>3, <1>4, TypesKept DEF TypeOK, Only, env
<1>6. CheckStep(t, m)
  BY <1>2, <1>3, <1>4 DEF CheckStep, At, TransitionPcs
<1>7. th[t].st # NoState /\ th[t].st.fails # 0 /\ (Exists(m) => state[m] # NoState)
  BY <1>1, <1>2 DEF Midway, Counted
<1>8. m \notin spoiled =>
        /\ Match(m) /\ th[t].st.status = "down" /\ m \in told
        /\ state[m] = NoState \/ InHand(t)
  BY <1>1, <1>2 DEF Midway, Agrees
<1>9. Counted(t)'
  BY <1>3, <1>4, <1>7 DEF Counted, At, Exists
<1>10. m \notin spoiled => Agrees(t)'
  BY <1>3, <1>4, <1>8 DEF Agrees, At, Match, InHand
<1>11. Midway(t)' /\ th'[t].pc \in TransitionPcs
  BY <1>3, <1>4, <1>9, <1>10 DEF Midway, At, TransitionPcs
<1>12. OwnDone(t, m)'
  BY <1>2, <1>3, <1>11 DEF OwnDone, Announced, Settled
<1> QED BY <1>5, <1>6, <1>12, CheckKeeps

\* SendDown: the DOWN alert.
LEMMA SendDownKeeps ==
  ASSUME Inv, NEW t \in Threads, NEW m \in Monitors, th[t].mon = m, SendDown(t)
  PROVE  Inv'
PROOF
<1>1. th[t].pc = "down" /\ th[t].pc \in TransitionPcs
  BY DEF SendDown, TransitionPcs
<1>2. /\ TypeOK /\ proc = "up" /\ th[t] \in Goroutine /\ th[t].pc \in CheckPcs
      /\ Midway(t) /\ Settled(m) /\ Announced(m)
  BY <1>1, Within
<1>3. UNCHANGED <<row, state, open, used, proc, starter, workers, cancelled, reach, flips,
                  requests, lock, faults, spoiled, dropped>>
  BY DEF SendDown, db, engine, env
<1>4. Only({t}) /\ At(t, "update")
  BY <1>2, GotoMoves DEF SendDown, Pcs
<1>5. told' = told \union {m}
  BY DEF SendDown
<1>6. TypeOK'
  BY <1>2, <1>3, <1>4, <1>5, TypesKept DEF TypeOK, Only, env
<1>7. CheckStep(t, m)
  BY <1>2, <1>3, <1>4, <1>5 DEF CheckStep, At, TransitionPcs
<1>8. th[t].st # NoState /\ th[t].st.fails # 0 /\ (Exists(m) => state[m] # NoState)
  BY <1>1, <1>2 DEF Midway, Counted
<1>9. m \notin spoiled => /\ th[t].st.status = "down"
                          /\ state[m] = NoState \/ open[m] = {th[t].st.incident}
  BY <1>1, <1>2 DEF Midway, Agrees
<1>10. Counted(t)'
  BY <1>3, <1>4, <1>8 DEF Counted, At, Exists
<1>11. m \notin spoiled => Agrees(t)'
  BY <1>3, <1>4, <1>5, <1>9 DEF Agrees, At
<1>12. Midway(t)' /\ th'[t].pc \in TransitionPcs
  BY <1>3, <1>4, <1>10, <1>11 DEF Midway, At, TransitionPcs
<1>13. OwnDone(t, m)'
  BY <1>2, <1>3, <1>5, <1>12 DEF OwnDone, Announced, Settled
<1> QED BY <1>6, <1>7, <1>13, CheckKeeps

\* DOWN in hand with incident i.
LEMMA DownMoves ==
  ASSUME TypeOK, NEW t \in Threads, NEW i \in Incidents \union {NoIncident},
         DownInHand(t, i)
  PROVE  /\ Only({t}) /\ th'[t].pc = "down" /\ th'[t].mon = th[t].mon
         /\ th'[t].st.status = "down" /\ th'[t].st.incident = i
         /\ th'[t].st.fails = th[t].st.fails /\ th'[t].st # NoState
PROOF
<1> DEFINE s == th[t].st
           z == [s EXCEPT !.status = "down", !.incident = i]
           g == [th[t] EXCEPT !.st = z, !.pc = "down"]
<1>1. th[t] \in Goroutine /\ s \in States \union {NoState}
  BY Shape DEF Goroutine
<1>2. z \in States /\ z.status = "down" /\ z.incident = i /\ z.fails = s.fails
  BY <1>1, Restated
<1>3. g \in Goroutine /\ g.pc = "down" /\ g.mon = th[t].mon /\ g.st = z
  BY <1>1, <1>2 DEF Goroutine, Pcs
<1>4. th' = [th EXCEPT ![t] = g]
  BY DEF DownInHand
<1>5. Only({t}) /\ th'[t] = g
  BY <1>3, <1>4, BecomesMoves
<1> QED BY <1>2, <1>3, <1>5, Plain

\* SelectOpen: the first statement of CreateIncident.
LEMMA SelectOpenKeeps ==
  ASSUME Inv, NEW t \in Threads, NEW m \in Monitors, th[t].mon = m, SelectOpen(t)
  PROVE  Inv'
PROOF
<1>1. th[t].pc = "select" /\ th[t].pc \in TransitionPcs
  BY DEF SelectOpen, TransitionPcs
<1>2. /\ TypeOK /\ proc = "up" /\ th[t] \in Goroutine /\ th[t].pc \in CheckPcs
      /\ Midway(t) /\ Settled(m) /\ Announced(m)
  BY <1>1, Within
<1>3. UNCHANGED <<row, state, open, used, proc, starter, workers, cancelled, reach, flips,
                  requests, lock, told, dropped>>
  BY DEF SelectOpen, db, engine, env
<1>4. faults' \in Nat
  BY <1>2, FaultsCounted DEF SelectOpen
<1>5. th[t].st # NoState /\ th[t].st.fails # 0 /\ (Exists(m) => state[m] # NoState)
  BY <1>1, <1>2 DEF Midway, Counted
<1>6. m \notin spoiled => open[m] = {} /\ state[m].status # "down"
  BY <1>1, <1>2 DEF Midway, Agrees
<1>7. ASSUME Only({t}), th'[t].pc \in TransitionPcs, th'[t].mon = m,
             spoiled' = spoiled \/ spoiled' = spoiled \union {m}, Midway(t)'
      PROVE  Inv'
  <2>1. spoiled' \subseteq Monitors /\ spoiled \subseteq spoiled'
        /\ \A n \in Monitors \ {m} : n \in spoiled' <=> n \in spoiled
    BY <1>2, <1>7 DEF TypeOK
  <2>2. TypeOK'
    BY <1>2, <1>3, <1>4, <1>7, <2>1, TypesKept DEF TypeOK, Only, env
  <2>3. CheckStep(t, m)
    BY <1>2, <1>3, <1>7, <2>1 DEF CheckStep
  <2>4. OwnDone(t, m)'
    BY <1>2, <1>3, <1>7, <2>1 DEF OwnDone, Announced, Settled
  <2> QED BY <2>2, <2>3, <2>4, CheckKeeps
<1>8. CASE open[m] = {} /\ Goto(t, "insert") /\ UNCHANGED spoiled
  <2>1. Only({t}) /\ At(t, "insert")
    BY <1>2, <1>8, GotoMoves DEF Pcs
  <2>2. Counted(t)'
    BY <1>3, <1>5, <1>8, <2>1 DEF Counted, At, Exists
  <2>3. m \notin spoiled => Agrees(t)'
    BY <1>3, <1>6, <2>1 DEF Agrees, At
  <2>4. Midway(t)' /\ th'[t].pc \in TransitionPcs /\ th'[t].mon = m
    BY <1>8, <2>1, <2>2, <2>3 DEF Midway, At, TransitionPcs
  <2> QED BY <1>7, <1>8, <2>1, <2>4
<1>9. ASSUME NEW i \in open[m], DownInHand(t, i), UNCHANGED spoiled
      PROVE  Inv'
  <2>1. i \in Incidents \union {NoIncident}
    BY <1>2, <1>9 DEF TypeOK
  <2>2. /\ Only({t}) /\ th'[t].pc = "down" /\ th'[t].mon = m
        /\ th'[t].st.fails = th[t].st.fails /\ th'[t].st # NoState
    BY <1>2, <1>9, <2>1, DownMoves
  <2>3. Counted(t)'
    BY <1>3, <1>5, <2>2 DEF Counted, Exists
  <2>4. m \in spoiled
    BY <1>6, <1>9
  <2>5. Midway(t)' /\ th'[t].pc \in TransitionPcs
    BY <1>9, <2>2, <2>3, <2>4 DEF Midway, TransitionPcs
  <2> QED BY <1>7, <1>9, <2>2, <2>5
<1>10. CASE DownInHand(t, th[t].st.incident) /\ spoiled' = spoiled \union {m}
  <2>1. th[t].st.incident \in Incidents \union {NoIncident}
    BY SMTT(30), <1>2 DEF Goroutine, States, NoState
  <2>2. /\ Only({t}) /\ th'[t].pc = "down" /\ th'[t].mon = m
        /\ th'[t].st.fails = th[t].st.fails /\ th'[t].st # NoState
    BY <1>2, <1>10, <2>1, DownMoves
  <2>3. Counted(t)'
    BY <1>3, <1>5, <2>2 DEF Counted, Exists
  <2>4. Midway(t)' /\ th'[t].pc \in TransitionPcs
    BY <1>10, <2>2, <2>3 DEF Midway, TransitionPcs
  <2> QED BY <1>7, <1>10, <2>2, <2>4
<1> QED BY <1>8, <1>9, <1>10 DEF SelectOpen

\* InsertIncident: the second statement of CreateIncident.
LEMMA InsertIncidentKeeps ==
  ASSUME Inv, NEW t \in Threads, NEW m \in Monitors, th[t].mon = m, InsertIncident(t)
  PROVE  Inv'
PROOF
<1>1. th[t].pc = "insert" /\ th[t].pc \in TransitionPcs
  BY DEF InsertIncident, TransitionPcs
<1>2. /\ TypeOK /\ proc = "up" /\ th[t] \in Goroutine /\ th[t].pc \in CheckPcs
      /\ Midway(t) /\ Settled(m) /\ Announced(m)
  BY <1>1, Within
<1>3. UNCHANGED <<row, state, used, proc, starter, workers, cancelled, reach, flips,
                  requests, lock, told, dropped>>
  BY DEF InsertIncident, engine, env
<1>4. faults' \in Nat
  BY <1>2, FaultsCounted DEF InsertIncident
<1>5. th[t].st # NoState /\ th[t].st.fails # 0 /\ (Exists(m) => state[m] # NoState) /\ open[m] = {}
  BY <1>1, <1>2 DEF Midway, Counted
<1>6. m \notin spoiled => state[m].status # "down"
  BY <1>1, <1>2 DEF Midway, Agrees
<1>7. th[t].st.incident \in Incidents \union {NoIncident}
  BY SMTT(30), <1>2 DEF Goroutine, States, NoState
<1>8. CASE /\ Exists(m) /\ FreshIncidents # {}
           /\ open' = [open EXCEPT ![m] = @ \union {NewIncident}]
           /\ DownInHand(t, NewIncident)
           /\ UNCHANGED spoiled
  <2>1. NewIncident \in Incidents
    BY <1>8 DEF NewIncident, FreshIncidents
  <2>2. PICK i \in Incidents : i = NewIncident
    BY <2>1
  <2>3. open' \in [Monitors -> SUBSET Incidents] /\ open'[m] = {i}
        /\ \A n \in Monitors \ {m} : open'[n] = open[n]
    BY <1>2, <1>5, <1>8, <2>2 DEF TypeOK
  <2>4. /\ Only({t}) /\ th'[t].pc = "down" /\ th'[t].mon = m
        /\ th'[t].st.fails = th[t].st.fails /\ th'[t].st # NoState
        /\ th'[t].st.status = "down" /\ th'[t].st.incident = i
    BY <1>2, <1>8, <2>2, DownMoves
  <2>5. \A n \in Monitors : ~Exists(n) => state'[n] = NoState /\ open'[n] = {}
    BY <1>2, <1>3, <1>8, <2>3 DEF TypeOK
  <2>6. TypeOK'
    BY <1>2, <1>3, <1>4, <1>8, <2>3, <2>4, <2>5, CheckTyped DEF TypeOK, Only, env, engine
  <2>7. CheckStep(t, m)
    BY <1>2, <1>3, <1>8, <2>3, <2>4 DEF CheckStep, TransitionPcs
  <2>8. Counted(t)'
    BY <1>3, <1>5, <2>4 DEF Counted, Exists
  <2>9. Agrees(t)'
    BY <2>3, <2>4 DEF Agrees
  <2>10. OwnDone(t, m)'
    BY <1>3, <1>5, <1>6, <1>8, <2>4, <2>8, <2>9
    DEF OwnDone, Midway, Announced, TransitionPcs
  <2> QED BY <2>6, <2>7, <2>10, CheckKeeps
<1>9. CASE /\ DownInHand(t, th[t].st.incident) /\ UNCHANGED open
           /\ \/ ~(Exists(m) /\ open[m] = {}) /\ UNCHANGED spoiled
              \/ spoiled' = spoiled \union {m}
  <2>1. /\ Only({t}) /\ th'[t].pc = "down" /\ th'[t].mon = m
        /\ th'[t].st.fails = th[t].st.fails /\ th'[t].st # NoState /\ th'[t].st.status = "down"
    BY <1>2, <1>7, <1>9, DownMoves
  <2>2. spoiled' \subseteq Monitors /\ spoiled \subseteq spoiled'
        /\ \A n \in Monitors \ {m} : n \in spoiled' <=> n \in spoiled
    BY <1>2, <1>9 DEF TypeOK
  <2>3. TypeOK'
    BY <1>2, <1>3, <1>4, <1>9, <2>1, <2>2, TypesKept DEF TypeOK, Only, env
  <2>4. CheckStep(t, m)
    BY <1>2, <1>3, <1>9, <2>1, <2>2 DEF CheckStep, TransitionPcs
  <2>5. Counted(t)'
    BY <1>3, <1>5, <1>9, <2>1 DEF Counted, Exists
  <2>6. m \notin spoiled' => state[m] = NoState
    BY <1>2, <1>5, <1>9 DEF TypeOK
  <2>7. m \notin spoiled' => Agrees(t)'
    BY <1>3, <2>1, <2>6 DEF Agrees
  <2>8. OwnDone(t, m)'
    BY <1>3, <1>5, <1>9, <2>1, <2>5, <2>7 DEF OwnDone, Midway, Announced, TransitionPcs
  <2> QED BY <2>3, <2>4, <2>8, CheckKeeps
<1> QED BY <1>8, <1>9 DEF InsertIncident

\* UpdateState: the row of the state, and the end of the check.
LEMMA UpdateStateKeeps ==
  ASSUME Inv, NEW t \in Threads, NEW m \in Monitors, th[t].mon = m, UpdateState(t)
  PROVE  Inv'
PROOF
<1> DEFINE s == th[t].st
<1>1. th[t].pc = "update" /\ th[t].pc \in TransitionPcs
  BY DEF UpdateState, TransitionPcs
<1>2. /\ TypeOK /\ proc = "up" /\ th[t] \in Goroutine /\ th[t].pc \in CheckPcs
      /\ Midway(t) /\ Settled(m) /\ Announced(m)
  BY <1>1, Within
<1>3. UNCHANGED <<row, open, used, proc, starter, workers, cancelled, reach, flips,
                  requests, told, dropped>>
  BY DEF UpdateState, engine, env
<1>4. faults' \in Nat
  BY <1>2, FaultsCounted DEF UpdateState
<1>5. /\ Unlock(t) /\ Only({t}) /\ lock' \in [Monitors -> Threads \union {Nobody}]
      /\ th'[t].pc \notin TransitionPcs
  BY <1>2, UnlockMoves DEF UpdateState, TransitionPcs
<1>6. /\ s # NoState /\ (s.fails = 0 => s.status = "up")
      /\ m \notin spoiled =>
           /\ state[m] = NoState \/ open[m] = IF s.status = "down" THEN {s.incident} ELSE {}
           /\ s.status = "down" => m \in told
  BY <1>1, <1>2 DEF Midway, Agrees, Counted
<1>7. s \in States \union {NoState}
  BY <1>2 DEF Goroutine
<1>8. CASE /\ state' = [state EXCEPT ![m] = IF @ = NoState THEN NoState ELSE s]
           /\ spoiled' = IF s.fails = 0 /\ open[m] = {} THEN spoiled \ {m} ELSE spoiled
  <2>1. /\ state' \in [Monitors -> States \union {NoState}]
        /\ state'[m] = IF state[m] = NoState THEN NoState ELSE s
        /\ \A n \in Monitors \ {m} : state'[n] = state[n]
    BY <1>2, <1>7, <1>8 DEF TypeOK
  <2>2. /\ spoiled' \subseteq Monitors
        /\ \A n \in Monitors \ {m} : n \in spoiled' <=> n \in spoiled
        /\ m \notin spoiled' => m \notin spoiled \/ (s.fails = 0 /\ open[m] = {})
    BY <1>2, <1>8 DEF TypeOK
  <2>3. \A n \in Monitors : ~Exists(n) => state'[n] = NoState /\ open'[n] = {}
    BY <1>2, <1>3, <2>1 DEF TypeOK
  <2>4. TypeOK'
    BY <1>2, <1>3, <1>4, <1>5, <2>1, <2>2, <2>3, CheckTyped DEF TypeOK, Only, env, engine
  <2>5. CheckStep(t, m)
    BY <1>2, <1>3, <1>5, <2>1, <2>2 DEF CheckStep
  <2>6. state'[m] = NoState => open[m] = {}
    <3>1. CASE state[m] = NoState
      BY <1>2, <3>1 DEF Settled
    <3>2. CASE state[m] # NoState
      BY <1>6, <2>1, <3>2
    <3> QED BY <3>1, <3>2
  <2>7. m \notin spoiled' => Match(m)'
    <3>1. CASE state[m] = NoState
      BY SMTT(30), <1>3, <2>1, <2>6, <3>1 DEF Match, NoState
    <3>2. CASE state[m] # NoState /\ s.fails = 0 /\ open[m] = {}
      BY <1>3, <1>6, <2>1, <3>2 DEF Match
    <3>3. CASE state[m] # NoState /\ m \notin spoiled
      BY <1>3, <1>6, <2>1, <3>3 DEF Match
    <3> QED BY <2>2, <3>1, <3>2, <3>3
  <2>8. Announced(m)'
    BY SMTT(30), <1>3, <1>6, <2>1, <2>2 DEF Announced, NoState
  <2>9. OwnDone(t, m)'
    BY <1>3, <1>5, <2>6, <2>7, <2>8 DEF OwnDone
  <2> QED BY <2>4, <2>5, <2>9, CheckKeeps
<1>9. CASE UNCHANGED state /\ spoiled' = spoiled \union {m}
  <2>1. TypeOK'
    BY <1>2, <1>3, <1>4, <1>5, <1>9, TypesKept DEF TypeOK, Only, env
  <2>2. CheckStep(t, m)
    BY <1>2, <1>3, <1>5, <1>9 DEF CheckStep
  <2>3. OwnDone(t, m)'
    BY <1>2, <1>3, <1>5, <1>9 DEF OwnDone, Announced, Settled
  <2> QED BY <2>1, <2>2, <2>3, CheckKeeps
<1> QED BY <1>8, <1>9 DEF UpdateState

-----------------------------------------------------------------------------
(* Steps beside the transitions.                                            *)

\* No transition moves, begins or ends.
Aside ==
  \A u \in Threads :
    th[u].pc \in TransitionPcs \/ th'[u].pc \in TransitionPcs => th'[u] = th[u]

\* No check moves, begins or ends, and no lock changes hands.
NoCheck ==
  /\ lock' = lock
  /\ \A u \in Threads : th[u].pc \in CheckPcs \/ th'[u].pc \in CheckPcs => th'[u] = th[u]

Tables == <<row, state, open, proc, told, spoiled>>

\* The part of Inv about the tables.
Recorded ==
  /\ Stages
  /\ proc = "up" => \A m \in Monitors : Settled(m)
  /\ \A m \in Monitors : Announced(m)
  /\ \A t \in Threads : th[t].pc \in TransitionPcs => Midway(t)

\* Without checks, the locks are held as before and no transition moves.
LEMMA NoCheckHolds ==
  ASSUME Inv, NoCheck
  PROVE  Holds' /\ Aside
PROOF
  BY DEF Inv, Holds, NoCheck, Aside, CheckPcs

\* InTransition by the name of its control points.
LEMMA InTransitionIs ==
  ASSUME NEW m
  PROVE  InTransition(m) <=> \E t \in Threads : th[t].mon = m /\ th[t].pc \in TransitionPcs
PROOF
  BY DEF InTransition, TransitionPcs

\* Beside the transitions, the same monitors are in one.
LEMMA AsideSame ==
  ASSUME Aside, NEW m
  PROVE  InTransition(m)' <=> InTransition(m)
PROOF
  BY DEF Aside, InTransition, TransitionPcs

\* Tables that nobody writes agree as before.
LEMMA RecordedKept ==
  ASSUME Inv, Aside, UNCHANGED Tables
  PROVE  Recorded'
PROOF
<1>1. UNCHANGED <<row, state, open, proc, told, spoiled>>
  BY DEF Tables
<1>2. Stages'
  BY <1>1 DEF Inv, Stages, Match, Exists
<1>3. ASSUME NEW m \in Monitors, proc' = "up"
      PROVE  Settled(m)'
  <2>1. Settled(m)
    BY <1>1, <1>3 DEF Inv
  <2>2. InTransition(m)' <=> InTransition(m)
    BY AsideSame
  <2> QED BY <1>1, <2>1, <2>2 DEF Settled, Match
<1>4. \A m \in Monitors : Announced(m)'
  BY <1>1 DEF Inv, Announced
<1>5. ASSUME NEW t \in Threads, th'[t].pc \in TransitionPcs
      PROVE  Midway(t)'
  <2>1. th'[t] = th[t] /\ Midway(t)
    BY <1>5 DEF Inv, Aside
  <2>2. Exists(th[t].mon)' => Exists(th[t].mon)
    BY <1>1, <2>1 DEF Exists
  <2> QED BY <1>1, <2>1, <2>2, MidwayKept
<1> QED BY <1>2, <1>3, <1>4, <1>5 DEF Recorded

\* The parts make the whole.
LEMMA Together ==
  ASSUME Typed', Fresh', Quiet', Holds', LiveIsRegistered', Recorded'
  PROVE  Inv'
PROOF
  BY DEF Inv, Recorded

\* Ids stay used once when no row or state comes or goes.
LEMMA FreshKept ==
  ASSUME Inv, state' = state, used' = used, NEW S \in SUBSET Threads, Only(S),
         \A m \in Monitors : Exists(m)' <=> Exists(m),
         \A x \in starter'.todo : x[1] \in used,
         \A u \in S : /\ th'[u].pc # "idle" => th'[u].mon \in used
                      /\ th'[u].pc # "new-state"
  PROVE  Fresh'
PROOF
<1>1. \A u \in Threads : th'[u].pc = "new-state" => th'[u] = th[u]
  BY DEF Only
<1>2. \A u \in Threads : th[u].mon \in Monitors
  BY Shape DEF Inv, Typed, Goroutine
<1>3. \A u \in Threads : th'[u].pc # "idle" => th'[u].mon \in used'
  BY DEF Inv, Fresh, Only
<1>4. \A u \in Threads : th'[u].pc = "new-state" /\ Exists(th[u].mon)'
                         => state'[th'[u].mon] = NoState
  BY <1>1, <1>2 DEF Inv, Fresh, Exists
<1>5. \A t, u \in Threads : /\ th'[t].pc = "new-state" /\ th'[u].pc = "new-state"
                            /\ th'[t].mon = th'[u].mon
                            => t = u
  BY <1>1 DEF Inv, Fresh
<1>6. \A m \in Monitors : Exists(m)' => m \in used'
  BY DEF Inv, Fresh
<1> QED BY <1>3, <1>4, <1>5, <1>6 DEF Fresh, Exists

\* A step of one goroutine that holds no lock and writes no table.
LEMMA MoveKeeps ==
  ASSUME Inv, NEW t \in Threads, Only({t}), UNCHANGED Tables, used' = used, lock' = lock,
         TypeOK', LiveIsRegistered', starter' = starter,
         proc = "up" \/ th'[t].pc = "idle",
         th[t].pc \notin CheckPcs,
         th'[t].pc \notin CheckPcs \union {"new-state"},
         th'[t].pc = "save" => th'[t].cfg # NoRow,
         th'[t].pc # "idle" => th'[t].mon \in used
  PROVE  Inv'
PROOF
<1>1. NoCheck
  BY DEF NoCheck, Only
<1>2. Holds' /\ Recorded'
  BY <1>1, NoCheckHolds, RecordedKept
<1>3. \A m \in Monitors : Exists(m)' <=> Exists(m)
  BY DEF Exists, Tables
<1>4. \A x \in starter'.todo : x[1] \in used
  BY DEF Inv, Fresh
<1>5. Fresh'
  <2>1. {t} \in SUBSET Threads /\ state' = state
    BY DEF Tables
  <2>2. \A u \in {t} : (th'[u].pc # "idle" => th'[u].mon \in used) /\ th'[u].pc # "new-state"
    OBVIOUS
  <2> QED BY <1>3, <1>4, <2>1, <2>2, FreshKept
<1>6. Quiet'
  BY DEF Inv, Quiet, Tables, Only
<1>7. Typed'
  BY DEF Inv, Typed, Only
<1> QED BY <1>2, <1>5, <1>6, <1>7, Together

\* A step of a handler leaves the workers registered.
LEMMA HandlerLeaves ==
  ASSUME Inv, NEW h \in Handlers, Only({h}), UNCHANGED <<workers, cancelled>>
  PROVE  LiveIsRegistered'
PROOF
<1>1. \A w \in Workers : w \in Threads \ {h}
  BY UptimeAssumption DEF Threads
<1> QED BY <1>1 DEF Inv, LiveIsRegistered, Only

\* The ticker of a worker fires.
LEMMA TickKeeps ==
  ASSUME Inv, NEW w \in Workers, Tick(w)
  PROVE  Inv'
PROOF
<1>1. TypeOK /\ w \in Threads /\ th[w].pc = "wait"
  BY DEF Inv, Typed, Threads, Tick
<1>2. UNCHANGED <<row, state, open, used, proc, starter, workers, cancelled, lock, reach,
                  flips, requests, faults, told, spoiled, dropped>>
  BY DEF Tick, db, engine, env, told_
<1>3. Only({w}) /\ At(w, "lock")
  BY <1>1, GotoMoves DEF Tick, Pcs
<1>4. TypeOK'
  BY <1>1, <1>2, <1>3, TypesKept DEF TypeOK, Only, env
<1>5. LiveIsRegistered'
  BY <1>1, <1>2, <1>3 DEF Inv, LiveIsRegistered, Only, At, Threads
<1>6. proc = "up" /\ th[w].mon \in used
  BY <1>1 DEF Inv, Quiet, Fresh
<1>7. /\ th[w].pc \notin CheckPcs
      /\ th'[w].pc \notin CheckPcs \union {"new-state"} /\ th'[w].pc # "save"
      /\ th'[w].mon \in used
  BY <1>1, <1>3, <1>6 DEF At, CheckPcs, TransitionPcs
<1> QED BY <1>1, <1>2, <1>3, <1>4, <1>5, <1>6, <1>7, MoveKeeps DEF Tables

\* A cancelled worker ends.
LEMMA WorkerExitKeeps ==
  ASSUME Inv, NEW w \in Workers, WorkerExit(w)
  PROVE  Inv'
PROOF
<1>1. TypeOK /\ w \in Threads /\ th[w].pc = "wait"
  BY DEF Inv, Typed, Threads, WorkerExit
<1>2. UNCHANGED <<row, state, open, used, proc, starter, workers, lock, reach,
                  flips, requests, faults, told, spoiled, dropped>>
      /\ cancelled' = cancelled \ {w}
  BY DEF WorkerExit, db, env, told_
<1>3. Only({w}) /\ th'[w] = Idle
  BY <1>1, IdleIs, BecomesMoves DEF WorkerExit
<1>4. TypeOK'
  BY <1>1, <1>2, <1>3, TypesKept DEF TypeOK, Only, env
<1>5. LiveIsRegistered'
  BY <1>1, <1>2, <1>3, IdleIs DEF Inv, LiveIsRegistered, Only, Threads
<1>6. /\ th[w].pc \notin CheckPcs /\ th'[w].pc = "idle"
      /\ th'[w].pc \notin CheckPcs \union {"new-state"} /\ th'[w].pc # "save"
  BY <1>1, <1>3, IdleIs DEF CheckPcs, TransitionPcs
<1> QED BY <1>1, <1>2, <1>3, <1>4, <1>5, <1>6, MoveKeeps DEF Tables

\* The check lock is taken.
LEMMA LockKeeps ==
  ASSUME Inv, NEW t \in Threads, NEW m \in Monitors, th[t].mon = m, Lock(t)
  PROVE  Inv'
PROOF
<1> DEFINE g == [th[t] EXCEPT !.pc = "get", !.up = reach[m]]
<1>1. TypeOK /\ th[t].pc = "lock" /\ lock[m] = Nobody /\ th[t] \in Goroutine
  BY Shape DEF Inv, Typed, Lock
<1>2. UNCHANGED <<row, state, open, used, proc, starter, workers, cancelled, reach,
                  flips, requests, faults, told, spoiled, dropped>>
      /\ lock' = [lock EXCEPT ![m] = t]
  BY DEF Lock, db, engine, env, told_
<1>3. g \in Goroutine /\ g.pc = "get" /\ g.mon = m
  BY <1>1 DEF Goroutine, Pcs, TypeOK
<1>4. th' = [th EXCEPT ![t] = g]
  BY DEF Lock
<1>5. Only({t}) /\ th'[t] = g
  BY <1>1, <1>3, <1>4, BecomesMoves
<1> HIDE DEF g
<1>6. TypeOK'
  BY <1>1, <1>2, <1>5, TypesKept DEF TypeOK, Only, env
<1>7. Aside
  BY <1>1, <1>3, <1>5 DEF Aside, Only, TransitionPcs
<1>8. Recorded'
  BY <1>2, <1>7, RecordedKept DEF Tables
<1>9. Holds'
  <2>1. SUFFICES ASSUME NEW u \in Threads, th'[u].pc \in CheckPcs
                 PROVE  lock'[th'[u].mon] = u
    BY DEF Holds
  <2>2. CASE u = t
    BY <1>1, <1>2, <1>3, <1>5, <2>2 DEF TypeOK
  <2>3. CASE u # t
    <3>1. th'[u] = th[u] /\ lock[th[u].mon] = u /\ th[u].mon \in Monitors
      BY <1>5, <2>1, <2>3, Shape DEF Inv, Holds, Only, Typed, Goroutine
    <3>2. u # Nobody
      BY UptimeAssumption DEF Threads
    <3> QED BY <1>1, <1>2, <3>1, <3>2 DEF TypeOK
  <2> QED BY <2>2, <2>3
<1>10. proc = "up" /\ m \in used
  BY <1>1 DEF Inv, Quiet, Fresh
<1>11. Fresh'
  <2>1. {t} \in SUBSET Threads
    OBVIOUS
  <2>2. \A u \in {t} : (th'[u].pc # "idle" => th'[u].mon \in used) /\ th'[u].pc # "new-state"
    BY <1>3, <1>5, <1>10
  <2>3. \A n \in Monitors : Exists(n)' <=> Exists(n)
    BY <1>2 DEF Exists
  <2>4. \A x \in starter'.todo : x[1] \in used
    BY <1>2 DEF Inv, Fresh
  <2> QED BY <1>2, <1>5, <2>1, <2>2, <2>3, <2>4, FreshKept
<1>12. Typed' /\ Quiet'
  BY <1>2, <1>3, <1>5, <1>6, <1>10 DEF Inv, Typed, Quiet, Only
<1>13. LiveIsRegistered'
  BY <1>1, <1>2, <1>3, <1>5 DEF Inv, LiveIsRegistered, Only, Threads
<1> QED BY <1>8, <1>9, <1>11, <1>12, <1>13, Together

-----------------------------------------------------------------------------
(* The worker registry and Engine.Start.                                    *)

\* startWorker registers a worker that was idle and cancels the one before.
LEMMA StartWorkerDoes ==
  ASSUME Inv, NEW m \in Monitors, NEW c \in AllConfigs, NEW next \in [Threads -> Goroutine],
         \A w \in Workers : next[w] = th[w],
         startWorker(m, c, next)
  PROVE  \E w \in Workers :
           /\ th[w].pc = "idle"
           /\ th' \in [Threads -> Goroutine]
           /\ \A u \in Threads \ {w} : th'[u] = next[u]
           /\ th'[w].pc = "wait" /\ th'[w].mon = m
           /\ workers' \in [Monitors -> Workers \union {Nobody}] /\ cancelled' \subseteq Workers
           /\ LiveIsRegistered'
PROOF
<1> DEFINE w == CHOOSE x \in IdleWorkers : TRUE
           g == [Idle EXCEPT !.pc = "wait", !.mon = m, !.cfg = c]
<1>1. w \in Workers /\ th[w].pc = "idle"
  BY DEF startWorker, IdleWorkers
<1>2. PICK v \in Workers : v = w
  BY <1>1
<1>3. "wait" \in Pcs /\ c \in AllConfigs \union {NoRow}
  BY DEF Pcs
<1>4. g \in Goroutine /\ g.pc = "wait" /\ g.mon = m
  BY <1>3, IdleIs DEF Goroutine
<1>5. /\ workers' = [workers EXCEPT ![m] = v]
      /\ cancelled' = cancelled \union ({workers[m]} \ {Nobody})
      /\ th' = [next EXCEPT ![v] = g]
  BY <1>2 DEF startWorker
<1> HIDE DEF w, g
<1>6. TypeOK /\ v \in Threads
  BY DEF Inv, Typed, Threads
<1>7. /\ th' \in [Threads -> Goroutine] /\ th'[v] = g
      /\ \A u \in Threads \ {v} : th'[u] = next[u]
  BY <1>4, <1>5, <1>6
<1>8. workers' \in [Monitors -> Workers \union {Nobody}] /\ cancelled' \subseteq Workers
  BY <1>5, <1>6 DEF TypeOK
<1>9. LiveIsRegistered'
  <2>1. SUFFICES ASSUME NEW x \in Workers, th'[x].pc # "idle", x \notin cancelled'
                 PROVE  workers'[th'[x].mon] = x
    BY DEF LiveIsRegistered
  <2>2. CASE x = v
    BY <1>4, <1>5, <1>6, <1>7, <2>2 DEF TypeOK
  <2>3. CASE x # v
    <3>1. th'[x] = th[x] /\ x \notin cancelled
      BY <1>5, <1>7, <2>1, <2>3 DEF Threads
    <3>2. workers[th[x].mon] = x /\ th[x].mon \in Monitors
      BY <1>6, <2>1, <3>1, Shape DEF Inv, LiveIsRegistered, Threads, Goroutine
    <3>3. x # Nobody
      BY UptimeAssumption
    <3>4. th[x].mon # m
      BY <1>5, <2>1, <3>2, <3>3
    <3> QED BY <1>5, <1>6, <3>1, <3>2, <3>4 DEF TypeOK
  <2> QED BY <2>2, <2>3
<1> QED BY <1>1, <1>2, <1>4, <1>7, <1>8, <1>9

\* AddMonitor, and the second half of UpdateMonitor.
LEMMA AddMonitorKeeps ==
  ASSUME Inv, NEW h \in Handlers, AddMonitor(h)
  PROVE  Inv'
PROOF
<1> DEFINE m == th[h].mon
           c == th[h].cfg
           next == [th EXCEPT ![h] = Idle]
<1>1. TypeOK /\ h \in Threads /\ th[h].pc = "add" /\ th[h] \in Goroutine
  BY Shape DEF Inv, Typed, Threads, AddMonitor
<1>2. UNCHANGED <<row, state, open, used, proc, starter, lock, reach,
                  flips, requests, faults, told, spoiled, dropped>>
  BY DEF AddMonitor, db, env, told_
<1>3. proc = "up" /\ m \in used /\ m \in Monitors
  BY <1>1 DEF Inv, Quiet, Fresh, Goroutine
<1>4. /\ next \in [Threads -> Goroutine] /\ next[h] = Idle
      /\ \A u \in Threads \ {h} : next[u] = th[u]
  BY <1>1, IdleIs, Shape
<1>5. CASE th' = next /\ UNCHANGED <<workers, cancelled>>
  <2>1. Only({h}) /\ th'[h].pc = "idle"
    BY <1>4, <1>5, IdleIs DEF Only
  <2>2. TypeOK'
    BY <1>1, <1>2, <1>5, <2>1, TypesKept DEF TypeOK, Only, env
  <2>3. LiveIsRegistered'
    BY <1>5, <2>1, HandlerLeaves
  <2>4. /\ th[h].pc \notin CheckPcs
        /\ th'[h].pc \notin CheckPcs \union {"new-state"} /\ th'[h].pc # "save"
    BY <1>1, <2>1 DEF CheckPcs, TransitionPcs
  <2> QED BY <1>1, <1>2, <2>1, <2>2, <2>3, <2>4, MoveKeeps DEF Tables
<1>6. CASE Runs(c) /\ startWorker(m, c, next)
  <2>1. c \in AllConfigs
    BY <1>1, <1>6, Plain DEF Goroutine
  <2>2. \A w \in Workers : next[w] = th[w]
    BY <1>4, UptimeAssumption DEF Threads
  <2>3. PICK w \in Workers :
          /\ th[w].pc = "idle"
          /\ th' \in [Threads -> Goroutine]
          /\ \A u \in Threads \ {w} : th'[u] = next[u]
          /\ th'[w].pc = "wait" /\ th'[w].mon = m
          /\ workers' \in [Monitors -> Workers \union {Nobody}] /\ cancelled' \subseteq Workers
          /\ LiveIsRegistered'
    <3> HIDE DEF next, m, c
    <3> QED BY SMTT(30), <1>3, <1>4, <1>6, <2>1, <2>2, StartWorkerDoes
  <2> HIDE DEF next
  <2>4. w \in Threads /\ w # h
    BY UptimeAssumption DEF Threads
  <2>5. Only({h, w}) /\ th'[h].pc = "idle"
    BY <1>1, <1>4, <2>3, <2>4, IdleIs DEF Only
  <2>6. NoCheck
    BY <1>1, <1>2, <2>3, <2>5 DEF NoCheck, Only, CheckPcs, TransitionPcs
  <2>7. Holds' /\ Recorded'
    BY <1>2, <2>6, NoCheckHolds, RecordedKept DEF Tables
  <2>8. Fresh'
    <3>1. {h, w} \in SUBSET Threads
      BY <1>1, <2>4
    <3>2. \A u \in {h, w} : (th'[u].pc # "idle" => th'[u].mon \in used) /\ th'[u].pc # "new-state"
      BY <1>3, <2>3, <2>5
    <3>3. \A n \in Monitors : Exists(n)' <=> Exists(n)
      BY <1>2 DEF Exists
    <3>4. \A x \in starter'.todo : x[1] \in used
      BY <1>2 DEF Inv, Fresh
    <3> QED BY <1>2, <2>5, <3>1, <3>2, <3>3, <3>4, FreshKept
  <2>9. TypeOK'
    BY <1>1, <1>2, <2>3, TypesKept DEF TypeOK, env
  <2>10. Typed' /\ Quiet'
    BY <1>2, <1>3, <2>3, <2>5, <2>9 DEF Inv, Typed, Quiet, Only
  <2> QED BY <2>3, <2>7, <2>8, <2>10, Together
<1> QED BY <1>5, <1>6 DEF AddMonitor

\* RemoveMonitor, by a handler.
LEMMA RemoveKeeps ==
  ASSUME Inv, NEW h \in Handlers, Remove(h)
  PROVE  Inv'
PROOF
<1> DEFINE m == th[h].mon
           g == CASE th[h].pc = "remove" -> Idle
                  [] th[h].pc = "remove-add" -> [th[h] EXCEPT !.pc = "add"]
                  [] OTHER -> [th[h] EXCEPT !.pc = "delete-last"]
<1>1. /\ TypeOK /\ h \in Threads /\ th[h] \in Goroutine
      /\ th[h].pc \in {"remove", "remove-add", "remove-delete"}
  BY Shape DEF Inv, Typed, Threads, Remove
<1>2. UNCHANGED <<row, state, open, used, proc, starter, lock, reach,
                  flips, requests, faults, told, spoiled, dropped>>
  BY DEF Remove, db, env, told_
<1>3. proc = "up" /\ m \in used /\ m \in Monitors
  BY <1>1 DEF Inv, Quiet, Fresh, Goroutine
<1>4. /\ g \in Goroutine /\ g.pc \in {"idle", "add", "delete-last"}
      /\ g.pc # "idle" => g.mon = m
  <2>1. [th[h] EXCEPT !.pc = "add"] \in Goroutine
        /\ [th[h] EXCEPT !.pc = "delete-last"] \in Goroutine
    BY <1>1 DEF Goroutine, Pcs
  <2>2. /\ [th[h] EXCEPT !.pc = "add"].pc = "add" /\ [th[h] EXCEPT !.pc = "add"].mon = m
        /\ [th[h] EXCEPT !.pc = "delete-last"].pc = "delete-last"
        /\ [th[h] EXCEPT !.pc = "delete-last"].mon = m
    BY <1>1 DEF Goroutine
  <2> QED BY <1>1, <2>1, <2>2, IdleIs
<1>5. th' = [th EXCEPT ![h] = g]
  BY DEF Remove
<1>6. Only({h}) /\ th'[h] = g
  BY <1>1, <1>4, <1>5, BecomesMoves
<1> HIDE DEF g
<1>7. /\ workers' = [workers EXCEPT ![m] = Nobody]
      /\ cancelled' = cancelled \union ({workers[m]} \ {Nobody})
  BY DEF Remove, RemoveMonitor
<1>8. workers' \in [Monitors -> Workers \union {Nobody}] /\ cancelled' \subseteq Workers
  BY <1>1, <1>3, <1>7 DEF TypeOK
<1>9. TypeOK'
  BY <1>1, <1>2, <1>6, <1>8, TypesKept DEF TypeOK, Only, env
<1>10. LiveIsRegistered'
  <2>1. SUFFICES ASSUME NEW w \in Workers, th'[w].pc # "idle", w \notin cancelled'
                 PROVE  workers'[th'[w].mon] = w
    BY DEF LiveIsRegistered
  <2>2. w \in Threads /\ w # h /\ w # Nobody
    BY UptimeAssumption DEF Threads
  <2>3. th'[w] = th[w] /\ w \notin cancelled
    BY <1>6, <1>7, <2>1, <2>2 DEF Only
  <2>4. workers[th[w].mon] = w /\ th[w].mon \in Monitors
    BY <1>1, <2>1, <2>2, <2>3, Shape DEF Inv, LiveIsRegistered, Goroutine
  <2>5. th[w].mon # m
    BY <1>7, <2>1, <2>2, <2>4
  <2> QED BY <1>1, <1>7, <2>3, <2>4, <2>5 DEF TypeOK
<1>11. /\ th[h].pc \notin CheckPcs
       /\ th'[h].pc \notin CheckPcs \union {"new-state"} /\ th'[h].pc # "save"
       /\ th'[h].pc # "idle" => th'[h].mon \in used
  BY <1>1, <1>3, <1>4, <1>6 DEF CheckPcs, TransitionPcs
<1> QED BY <1>1, <1>2, <1>3, <1>6, <1>9, <1>10, <1>11, MoveKeeps DEF Tables

\* Engine.Start.
LEMMA StarterKeeps ==
  ASSUME Inv, Starter
  PROVE  Inv'
PROOF
<1>1. TypeOK /\ th \in [Threads -> Goroutine]
  BY Shape DEF Inv, Typed
<1>2. UNCHANGED <<row, state, open, used, proc, lock, reach,
                  flips, requests, told, spoiled, dropped>>
  BY DEF Starter, StartContext, StartList, StartLoop, db, env, told_
<1>3. proc = "up"
  BY DEF Inv, Quiet, Starter, StartContext, StartList, StartLoop
<1>4. \A n \in Monitors : Exists(n)' <=> Exists(n)
  BY <1>2 DEF Exists
<1>5. ASSUME UNCHANGED <<th, workers, cancelled>>, faults' \in Nat,
             starter' \in [pc : {"idle", "list", "loop", "failed"},
                           todo : SUBSET (Monitors \X AllConfigs)],
             \A x \in starter'.todo : x[1] \in used
      PROVE  Inv'
  <2>1. Only({}) /\ NoCheck
    BY <1>1, <1>2, <1>5 DEF Only, NoCheck
  <2>2. Holds' /\ Recorded'
    BY <1>2, <2>1, NoCheckHolds, RecordedKept DEF Tables
  <2>3. Fresh'
    <3>1. {} \in SUBSET Threads
      OBVIOUS
    <3> QED BY <1>2, <1>4, <1>5, <2>1, <3>1, FreshKept
  <2>4. TypeOK'
    BY <1>1, <1>2, <1>5, TypesKept DEF TypeOK, env
  <2>5. Typed' /\ Quiet' /\ LiveIsRegistered'
    BY <1>2, <1>3, <1>5, <2>4 DEF Inv, Typed, Quiet, LiveIsRegistered
  <2> QED BY <2>2, <2>3, <2>5, Together
<1>6. CASE StartContext
  <2>1. starter' \in [pc : {"idle", "list", "loop", "failed"},
                      todo : SUBSET (Monitors \X AllConfigs)]
        /\ starter'.todo = starter.todo
    BY <1>1, <1>6 DEF StartContext, TypeOK
  <2>2. faults' \in Nat /\ UNCHANGED <<th, workers, cancelled>>
    BY <1>1, <1>6 DEF StartContext, TypeOK
  <2>3. \A x \in starter'.todo : x[1] \in used
    BY <2>1 DEF Inv, Fresh
  <2> QED BY <1>5, <2>1, <2>2, <2>3
<1>7. CASE StartList
  <2>1. faults' \in Nat /\ UNCHANGED <<th, workers, cancelled>>
    BY <1>1, <1>7, FaultsCounted DEF StartList
  <2>2. CASE starter' = [starter EXCEPT !.pc = "failed"]
    <3>1. starter' \in [pc : {"idle", "list", "loop", "failed"},
                        todo : SUBSET (Monitors \X AllConfigs)]
          /\ starter'.todo = starter.todo
      BY <1>1, <2>2 DEF TypeOK
    <3>2. \A x \in starter'.todo : x[1] \in used
      BY <3>1 DEF Inv, Fresh
    <3> QED BY <1>5, <2>1, <3>1, <3>2
  <2>3. CASE starter' = [pc |-> "loop",
                         todo |-> {<<m, row[m]>> : m \in {n \in Monitors : Runs(row[n])}}]
    <3>1. \A m \in Monitors : Runs(row[m]) => row[m] \in AllConfigs /\ m \in used
      BY <1>1, Plain DEF TypeOK, Inv, Fresh, Exists
    <3>2. {<<m, row[m]>> : m \in {n \in Monitors : Runs(row[n])}}
            \in SUBSET (Monitors \X AllConfigs)
      BY SMTT(30), <3>1
    <3>3. starter' \in [pc : {"idle", "list", "loop", "failed"},
                        todo : SUBSET (Monitors \X AllConfigs)]
      BY <2>3, <3>2
    <3>4. \A x \in starter'.todo : x[1] \in used
      BY SMTT(30), <2>3, <3>1
    <3> QED BY <1>5, <2>1, <3>3, <3>4
  <2> QED BY <1>7, <2>2, <2>3 DEF StartList
<1>8. CASE StartLoop
  <2>1. PICK x \in starter.todo : /\ startWorker(x[1], x[2], th)
                                  /\ starter' = [starter EXCEPT !.todo = @ \ {x}]
    BY <1>8 DEF StartLoop
  <2>2. PICK m \in Monitors, c \in AllConfigs : x = <<m, c>>
    BY SMTT(30), <1>1, <2>1 DEF TypeOK
  <2>3. m \in used
    BY <2>1, <2>2 DEF Inv, Fresh
  <2>4. startWorker(m, c, th) /\ \A w \in Workers : th[w] = th[w]
    BY <2>1, <2>2
  <2>5. PICK w \in Workers :
          /\ th[w].pc = "idle"
          /\ th' \in [Threads -> Goroutine]
          /\ \A u \in Threads \ {w} : th'[u] = th[u]
          /\ th'[w].pc = "wait" /\ th'[w].mon = m
          /\ workers' \in [Monitors -> Workers \union {Nobody}] /\ cancelled' \subseteq Workers
          /\ LiveIsRegistered'
    BY SMTT(30), <1>1, <2>4, StartWorkerDoes
  <2>6. w \in Threads /\ Only({w})
    BY <2>5 DEF Threads, Only
  <2>7. starter' \in [pc : {"idle", "list", "loop", "failed"},
                      todo : SUBSET (Monitors \X AllConfigs)]
        /\ starter'.todo \subseteq starter.todo
    BY <1>1, <2>1 DEF TypeOK
  <2>8. NoCheck
    BY <1>2, <2>5, <2>6 DEF NoCheck, Only, CheckPcs, TransitionPcs
  <2>9. Holds' /\ Recorded'
    BY <1>2, <2>8, NoCheckHolds, RecordedKept DEF Tables
  <2>10. Fresh'
    <3>1. {w} \in SUBSET Threads
      BY <2>6
    <3>2. \A u \in {w} : (th'[u].pc # "idle" => th'[u].mon \in used) /\ th'[u].pc # "new-state"
      BY <2>3, <2>5
    <3>3. \A y \in starter'.todo : y[1] \in used
      BY <2>7 DEF Inv, Fresh
    <3> QED BY <1>2, <1>4, <2>6, <3>1, <3>2, <3>3, FreshKept
  <2>11. faults' \in Nat
    BY <1>1, <1>8 DEF StartLoop, TypeOK
  <2>12. TypeOK'
    BY <1>1, <1>2, <2>5, <2>7, <2>11, TypesKept DEF TypeOK, env
  <2>13. Typed' /\ Quiet'
    BY <1>2, <1>3, <2>5, <2>6, <2>12 DEF Inv, Typed, Quiet, Only
  <2> QED BY <2>5, <2>9, <2>10, <2>13, Together
<1> QED BY <1>6, <1>7, <1>8 DEF Starter

-----------------------------------------------------------------------------
(* The API handlers.                                                        *)

\* A step of a handler on the tables keeps the types.
LEMMA HandlerTyped ==
  ASSUME TypeOK, th' \in [Threads -> Goroutine], faults' \in Nat, requests' \in Nat,
         UNCHANGED <<proc, engine, lock, env, told, spoiled>>,
         row' \in [Monitors -> AllConfigs \union {NoRow}],
         state' \in [Monitors -> States \union {NoState}],
         open' \in [Monitors -> SUBSET Incidents],
         \A n \in Monitors : row'[n] = NoRow => state'[n] = NoState /\ open'[n] = {},
         used' \subseteq Monitors, dropped' \subseteq Monitors
  PROVE  TypeOK'
PROOF
  BY DEF TypeOK, Goroutine, Exists, env, engine

\* Rows that come under no transition change nothing in what is recorded.
LEMMA RowsApart ==
  ASSUME Inv, Aside, proc = "up", UNCHANGED <<state, open, proc, told, spoiled>>,
         \A u \in Threads : th[u].pc \in TransitionPcs /\ Exists(th[u].mon)' => Exists(th[u].mon)
  PROVE  Recorded'
PROOF
<1>1. Stages'
  BY DEF Stages
<1>2. ASSUME NEW m \in Monitors
      PROVE  Settled(m)'
  <2>1. Settled(m)
    BY DEF Inv
  <2>2. InTransition(m)' <=> InTransition(m)
    BY AsideSame
  <2> QED BY <2>1, <2>2 DEF Settled, Match
<1>3. \A m \in Monitors : Announced(m)'
  BY DEF Inv, Announced
<1>4. ASSUME NEW t \in Threads, th'[t].pc \in TransitionPcs
      PROVE  Midway(t)'
  <2>1. th'[t] = th[t] /\ Midway(t)
    BY <1>4 DEF Inv, Aside
  <2>2. Exists(th[t].mon)' => Exists(th[t].mon)
    BY <1>4, <2>1 DEF Exists
  <2> QED BY <2>1, <2>2, MidwayKept
<1> QED BY <1>1, <1>2, <1>3, <1>4 DEF Recorded

\* A request for a monitor that exists.
LEMMA ExistingKeeps ==
  ASSUME Inv, NEW h \in Handlers, NEW m \in Monitors, NEW c \in AllConfigs \union {NoRow},
         NEW p \in {"save", "delete", "pause", "resume", "remove-delete", "lock"},
         p = "save" => c # NoRow,
         Existing(h, m, p, c)
  PROVE  Inv'
PROOF
<1> DEFINE g == [Idle EXCEPT !.pc = p, !.mon = m, !.cfg = c]
<1>1. TypeOK /\ h \in Threads /\ th[h].pc = "idle" /\ proc = "up" /\ Exists(m)
  BY DEF Inv, Typed, Threads, Existing, Request
<1>2. UNCHANGED <<row, state, open, used, proc, starter, workers, cancelled, lock, reach,
                  flips, faults, told, spoiled, dropped>>
  BY DEF Existing, db, engine, env, told_
<1>3. requests' \in Nat
  BY SMTT(30), <1>1 DEF Existing, Request, TypeOK
<1>4. p \in Pcs
  BY DEF Pcs
<1>5. g \in Goroutine /\ g.pc = p /\ g.mon = m /\ g.cfg = c
  BY <1>4, IdleIs DEF Goroutine
<1>6. th' = [th EXCEPT ![h] = g]
  BY DEF Existing, Request
<1>7. Only({h}) /\ th'[h] = g
  BY <1>1, <1>5, <1>6, BecomesMoves
<1> HIDE DEF g
<1>8. TypeOK'
  BY <1>1, <1>2, <1>3, <1>7, TypesKept DEF TypeOK, Only, env
<1>9. LiveIsRegistered'
  BY <1>2, <1>7, HandlerLeaves
<1>10. m \in used
  BY <1>1 DEF Inv, Fresh
<1>11. /\ th[h].pc \notin CheckPcs
       /\ th'[h].pc \notin CheckPcs \union {"new-state"}
       /\ th'[h].pc = "save" => th'[h].cfg # NoRow
       /\ th'[h].mon \in used
  BY <1>1, <1>5, <1>7, <1>10 DEF CheckPcs, TransitionPcs
<1> QED BY <1>1, <1>2, <1>7, <1>8, <1>9, <1>11, MoveKeeps DEF Tables

\* CreateMonitor: the INSERT of the row.
LEMMA CreateMonitorKeeps ==
  ASSUME Inv, NEW h \in Handlers, CreateMonitor(h)
  PROVE  Inv'
PROOF
<1>1. PICK m \in Monitors \ used, c \in {d \in Configs : Runs(d)} :
        /\ Request(h, m, "new-state", c)
        /\ row' = [row EXCEPT ![m] = c]
        /\ used' = used \union {m}
  BY DEF CreateMonitor
<1> DEFINE g == [Idle EXCEPT !.pc = "new-state", !.mon = m, !.cfg = c]
<1>2. TypeOK /\ h \in Threads /\ th[h].pc = "idle" /\ proc = "up" /\ ~Exists(m)
  BY <1>1 DEF Inv, Typed, Threads, Request, Fresh
<1>3. UNCHANGED <<state, open, proc, starter, workers, cancelled, lock, reach,
                  flips, faults, told, spoiled, dropped>>
  BY DEF CreateMonitor, engine, env, told_
<1>4. requests' \in Nat
  BY SMTT(30), <1>1, <1>2 DEF Request, TypeOK
<1>5. c \in AllConfigs /\ c # NoRow /\ "new-state" \in Pcs
  BY <1>1, UptimeAssumption, Plain DEF Pcs
<1>6. g \in Goroutine /\ g.pc = "new-state" /\ g.mon = m
  BY <1>5, IdleIs DEF Goroutine
<1>7. th' = [th EXCEPT ![h] = g]
  BY <1>1 DEF Request
<1>8. Only({h}) /\ th'[h] = g
  BY <1>2, <1>6, <1>7, BecomesMoves
<1> HIDE DEF g
<1>9. state[m] = NoState
  BY <1>2 DEF TypeOK
<1>10. row' \in [Monitors -> AllConfigs \union {NoRow}] /\ row'[m] = c
       /\ \A n \in Monitors \ {m} : row'[n] = row[n]
  BY <1>1, <1>2, <1>5 DEF TypeOK
<1>11. \A n \in Monitors : row'[n] = NoRow => state'[n] = NoState /\ open'[n] = {}
  BY <1>2, <1>3, <1>5, <1>10 DEF TypeOK, Exists
<1>12. TypeOK'
  BY <1>1, <1>2, <1>3, <1>4, <1>8, <1>10, <1>11, HandlerTyped DEF TypeOK, Only, env, engine
<1>13. LiveIsRegistered'
  BY <1>3, <1>8, HandlerLeaves
<1>14. NoCheck
  BY <1>2, <1>3, <1>6, <1>8 DEF NoCheck, Only, CheckPcs, TransitionPcs
<1>15. \A u \in Threads : th[u].pc # "idle" => th[u].mon \in Monitors \ {m}
  BY <1>1, <1>2, Shape DEF Inv, Fresh, Goroutine
<1>16. Holds' /\ Recorded'
  <2>1. \A u \in Threads : th[u].pc \in TransitionPcs /\ Exists(th[u].mon)' => Exists(th[u].mon)
    <3>1. SUFFICES ASSUME NEW u \in Threads, th[u].pc \in TransitionPcs, Exists(th[u].mon)'
                   PROVE  Exists(th[u].mon)
      OBVIOUS
    <3>2. u # h
      BY <1>2, <3>1 DEF TransitionPcs
    <3>3. th'[u] = th[u] /\ th[u].mon \in Monitors \ {m}
      BY <1>8, <1>15, <3>1, <3>2 DEF Only, TransitionPcs
    <3> QED BY <1>10, <3>1, <3>3 DEF Exists
  <2> QED BY <1>2, <1>3, <1>14, <2>1, NoCheckHolds, RowsApart
<1>17. Fresh'
  <2>1. \A n \in Monitors : Exists(n)' => n \in used'
    BY <1>1, <1>10 DEF Inv, Fresh, Exists
  <2>2. \A u \in Threads : th'[u].pc # "idle" => th'[u].mon \in used'
    BY <1>1, <1>6, <1>8 DEF Inv, Fresh, Only
  <2>3. \A x \in starter'.todo : x[1] \in used'
    BY <1>1, <1>3 DEF Inv, Fresh
  <2>4. \A u \in Threads : th'[u].pc = "new-state" /\ Exists(th[u].mon)'
                           => state'[th'[u].mon] = NoState
    <3>1. SUFFICES ASSUME NEW u \in Threads, th'[u].pc = "new-state", Exists(th[u].mon)'
                   PROVE  state'[th'[u].mon] = NoState
      OBVIOUS
    <3>2. CASE u = h
      BY <1>3, <1>6, <1>8, <1>9, <3>2
    <3>3. CASE u # h
      BY <1>3, <1>8, <1>10, <1>15, <3>1, <3>3 DEF Inv, Fresh, Only, Exists
    <3> QED BY <3>2, <3>3
  <2>5. \A t, u \in Threads : /\ th'[t].pc = "new-state" /\ th'[u].pc = "new-state"
                              /\ th'[t].mon = th'[u].mon
                              => t = u
    BY SMTT(30), <1>6, <1>8, <1>15 DEF Inv, Fresh, Only
  <2> QED BY <2>1, <2>2, <2>3, <2>4, <2>5 DEF Fresh, Exists
<1>18. Typed' /\ Quiet'
  BY <1>2, <1>3, <1>6, <1>8, <1>12 DEF Inv, Typed, Quiet, Only
<1> QED BY <1>13, <1>16, <1>17, <1>18, Together

\* InsertState: the INSERT of the state.
LEMMA InsertStateKeeps ==
  ASSUME Inv, NEW h \in Handlers, NEW m \in Monitors, th[h].mon = m, InsertState(h)
  PROVE  Inv'
PROOF
<1>1. TypeOK /\ h \in Threads /\ th[h].pc = "new-state" /\ proc = "up" /\ m \in used
  BY DEF Inv, Typed, Threads, InsertState, Quiet, Fresh
<1>2. UNCHANGED <<row, open, used, proc, starter, workers, cancelled, lock, reach,
                  flips, requests, told, spoiled>>
  BY DEF InsertState, engine, env
<1>3. faults' \in Nat
  BY <1>1, FaultsCounted DEF InsertState
<1>4. \A n \in Monitors : Exists(n)' <=> Exists(n)
  BY <1>2 DEF Exists
<1>5. \A x \in starter'.todo : x[1] \in used
  BY <1>2 DEF Inv, Fresh
<1>6. CASE /\ th' = [th EXCEPT ![h] = Idle] /\ UNCHANGED state
           /\ dropped' = dropped \union {m}
  <2>1. Only({h}) /\ th'[h].pc = "idle"
    BY <1>1, <1>6, IdleIs, BecomesMoves
  <2>2. TypeOK'
    BY <1>1, <1>2, <1>3, <1>6, <2>1, HandlerTyped DEF TypeOK, Only, env, engine, Exists
  <2>3. LiveIsRegistered'
    BY <1>2, <2>1, HandlerLeaves
  <2>4. /\ th[h].pc \notin CheckPcs
        /\ th'[h].pc \notin CheckPcs \union {"new-state"} /\ th'[h].pc # "save"
    BY <1>1, <2>1 DEF CheckPcs, TransitionPcs
  <2> QED BY <1>1, <1>2, <1>6, <2>1, <2>2, <2>3, <2>4, MoveKeeps DEF Tables
<1>7. CASE /\ Exists(m) /\ state' = [state EXCEPT ![m] = Pending]
           /\ Goto(h, "add") /\ UNCHANGED dropped
  <2>1. Only({h}) /\ At(h, "add")
    BY <1>1, <1>7, GotoMoves DEF Pcs
  <2>2. state' \in [Monitors -> States \union {NoState}] /\ state'[m] = Pending
        /\ \A n \in Monitors \ {m} : state'[n] = state[n]
    BY <1>1, <1>7, Plain DEF TypeOK
  <2>3. \A n \in Monitors : row'[n] = NoRow => state'[n] = NoState /\ open'[n] = {}
    BY <1>1, <1>2, <1>7, <2>2 DEF TypeOK, Exists
  <2>4. TypeOK'
    BY <1>1, <1>2, <1>3, <1>7, <2>1, <2>2, <2>3, HandlerTyped DEF TypeOK, Only, env, engine
  <2>5. LiveIsRegistered'
    BY <1>2, <2>1, HandlerLeaves
  <2>6. NoCheck
    BY <1>1, <1>2, <2>1 DEF NoCheck, Only, At, CheckPcs, TransitionPcs
  <2>7. Holds' /\ Aside
    BY <2>6, NoCheckHolds
  <2>8. state[m] = NoState /\ open[m] = {}
    BY <1>1, <1>7 DEF Inv, Fresh, Settled
  <2>9. \A u \in Threads : th[u].pc \in TransitionPcs => th[u].mon # m
    BY <1>7, <2>8 DEF Inv, Midway, Counted
  <2>10. Recorded'
    <3>1. Stages'
      BY <1>1, <1>2 DEF Stages
    <3>2. ASSUME NEW n \in Monitors
          PROVE  Settled(n)' /\ Announced(n)'
      <4>1. CASE n = m
        BY SMTT(30), <1>2, <2>2, <2>8, <4>1 DEF Settled, Announced, Match, Pending, NoState
      <4>2. CASE n # m
        <5>1. Settled(n) /\ Announced(n) /\ (InTransition(n)' <=> InTransition(n))
          BY <1>1, <2>7, AsideSame DEF Inv
        <5> QED BY <1>2, <2>2, <4>2, <5>1 DEF Settled, Announced, Match
      <4> QED BY <4>1, <4>2
    <3>3. ASSUME NEW u \in Threads, th'[u].pc \in TransitionPcs
          PROVE  Midway(u)'
      <4>1. th'[u] = th[u] /\ Midway(u) /\ th[u].mon \in Monitors \ {m}
        BY <1>1, <2>7, <2>9, <3>3, Shape DEF Inv, Aside, Goroutine
      <4>2. Exists(th[u].mon)' => Exists(th[u].mon)
        BY <1>2, <4>1 DEF Exists
      <4> QED BY <1>2, <2>2, <4>1, <4>2, MidwayKept
    <3> QED BY <3>1, <3>2, <3>3 DEF Recorded
  <2>11. Fresh'
    <3>1. \A u \in Threads : th'[u].pc = "new-state" => u # h /\ th'[u] = th[u]
      BY <2>1 DEF Only, At
    <3>2. \A u \in Threads : th'[u].pc = "new-state" => th[u].mon \in Monitors \ {m}
      BY <1>1, <3>1, Shape DEF Inv, Fresh, Goroutine
    <3>3. \A u \in Threads : th'[u].pc = "new-state" /\ Exists(th[u].mon)'
                             => state'[th'[u].mon] = NoState
      BY SMTT(30), <1>2, <2>2, <3>1, <3>2 DEF Inv, Fresh, Exists
    <3>4. \A u \in Threads : th'[u].pc # "idle" => th'[u].mon \in used'
      BY <1>1, <1>2, <2>1 DEF Inv, Fresh, Only, At
    <3>5. \A t, u \in Threads : /\ th'[t].pc = "new-state" /\ th'[u].pc = "new-state"
                                /\ th'[t].mon = th'[u].mon
                                => t = u
      BY <3>1 DEF Inv, Fresh
    <3>6. \A n \in Monitors : Exists(n)' => n \in used'
      BY <1>2, <1>4 DEF Inv, Fresh
    <3> QED BY <1>2, <1>5, <3>3, <3>4, <3>5, <3>6 DEF Fresh, Exists
  <2>12. Typed' /\ Quiet'
    BY <1>1, <1>2, <2>1, <2>4 DEF Inv, Typed, Quiet, Only, At
  <2> QED BY <2>5, <2>7, <2>10, <2>11, <2>12, Together
<1> QED BY <1>6, <1>7 DEF InsertState

\* SaveMonitor: an UPDATE of the row.
LEMMA SaveMonitorKeeps ==
  ASSUME Inv, NEW h \in Handlers, NEW m \in Monitors, th[h].mon = m, SaveMonitor(h)
  PROVE  Inv'
PROOF
<1> DEFINE saved == CASE th[h].pc = "save" -> th[h].cfg
                      [] th[h].pc = "pause" -> [row[m] EXCEPT !.active = FALSE]
                      [] th[h].pc = "resume" -> [row[m] EXCEPT !.active = TRUE]
                      [] OTHER -> NoRow
           next == CASE th[h].pc = "save" -> "remove-add"
                     [] th[h].pc = "pause" -> "remove"
                     [] OTHER -> "reread"
<1>1. TypeOK /\ h \in Threads /\ th[h].pc \in {"save", "pause", "resume"} /\ th[h] \in Goroutine
  BY Shape DEF Inv, Typed, Threads, SaveMonitor
<1>2. proc = "up" /\ m \in used
  BY <1>1 DEF Inv, Quiet, Fresh
<1>3. UNCHANGED <<state, open, used, proc, starter, workers, cancelled, lock, reach,
                  flips, requests, told, spoiled, dropped>>
  BY DEF SaveMonitor, engine, env, told_
<1>4. faults' \in Nat
  BY <1>1, FaultsCounted DEF SaveMonitor
<1>5. CASE th' = [th EXCEPT ![h] = Idle] /\ UNCHANGED row
  <2>1. Only({h}) /\ th'[h].pc = "idle"
    BY <1>1, <1>5, IdleIs, BecomesMoves
  <2>2. TypeOK'
    BY <1>1, <1>3, <1>4, <1>5, <2>1, TypesKept DEF TypeOK, Only, env
  <2>3. LiveIsRegistered'
    BY <1>3, <2>1, HandlerLeaves
  <2>4. /\ th[h].pc \notin CheckPcs
        /\ th'[h].pc \notin CheckPcs \union {"new-state"} /\ th'[h].pc # "save"
    BY <1>1, <2>1 DEF CheckPcs, TransitionPcs
  <2> QED BY <1>1, <1>3, <1>5, <2>1, <2>2, <2>3, <2>4, MoveKeeps DEF Tables
<1>6. CASE /\ row' = [row EXCEPT ![m] = IF Exists(m) THEN saved ELSE NoRow]
           /\ Goto(h, next)
  <2>1. next \in {"remove-add", "remove", "reread"} /\ next \in Pcs
    BY DEF Pcs
  <2>2. Only({h}) /\ At(h, next)
    BY <1>1, <1>6, <2>1, GotoMoves
  <2>3. Exists(m) => saved \in AllConfigs
    <3>1. CASE th[h].pc = "save"
      BY <1>1, <3>1 DEF Inv, Typed, Goroutine
    <3>2. ASSUME Exists(m) PROVE row[m] \in AllConfigs
      BY <1>1, <3>2 DEF TypeOK, Exists
    <3>3. CASE th[h].pc = "pause"
      BY <3>2, <3>3 DEF AllConfigs
    <3>4. CASE th[h].pc = "resume"
      BY <3>2, <3>4 DEF AllConfigs
    <3> QED BY <1>1, <3>1, <3>3, <3>4
  <2> HIDE DEF saved, next
  <2>4. /\ row' \in [Monitors -> AllConfigs \union {NoRow}]
        /\ row'[m] = IF Exists(m) THEN saved ELSE NoRow
        /\ \A n \in Monitors \ {m} : row'[n] = row[n]
    BY <1>1, <1>6, <2>3 DEF TypeOK
  <2>5. \A n \in Monitors : Exists(n)' <=> Exists(n)
    BY <2>3, <2>4, Plain DEF Exists
  <2>6. \A n \in Monitors : row'[n] = NoRow => state'[n] = NoState /\ open'[n] = {}
    BY <1>1, <1>3, <2>5 DEF TypeOK, Exists
  <2>7. TypeOK'
    BY <1>1, <1>3, <1>4, <2>2, <2>4, <2>6, HandlerTyped DEF TypeOK, Only, env, engine
  <2>8. LiveIsRegistered'
    BY <1>3, <2>2, HandlerLeaves
  <2>9. NoCheck
    BY <1>1, <1>3, <2>1, <2>2 DEF NoCheck, Only, At, CheckPcs, TransitionPcs
  <2>10. \A u \in Threads : th[u].pc \in TransitionPcs /\ Exists(th[u].mon)' => Exists(th[u].mon)
    <3>1. \A u \in Threads : th[u].mon \in Monitors /\ th'[u].mon = th[u].mon
      BY <1>1, <2>2, Shape DEF Goroutine, Only, At
    <3> QED BY <2>5, <3>1 DEF Exists
  <2>11. Holds' /\ Recorded'
    BY <1>2, <1>3, <2>9, <2>10, NoCheckHolds, RowsApart
  <2>12. Fresh'
    <3>1. {h} \in SUBSET Threads
      BY <1>1
    <3>2. \A u \in {h} : (th'[u].pc # "idle" => th'[u].mon \in used) /\ th'[u].pc # "new-state"
      BY <1>2, <2>1, <2>2 DEF At
    <3>3. \A x \in starter'.todo : x[1] \in used
      BY <1>3 DEF Inv, Fresh
    <3> QED BY <1>3, <2>2, <2>5, <3>1, <3>2, <3>3, FreshKept
  <2>13. Typed' /\ Quiet'
    BY <1>2, <1>3, <2>1, <2>2, <2>7 DEF Inv, Typed, Quiet, Only, At
  <2> QED BY <2>8, <2>11, <2>12, <2>13, Together
<1> QED BY <1>5, <1>6 DEF SaveMonitor

\* Reread: the row before a worker is started for it.
LEMMA RereadKeeps ==
  ASSUME Inv, NEW h \in Handlers, NEW m \in Monitors, th[h].mon = m, Reread(h)
  PROVE  Inv'
PROOF
<1> DEFINE g == IF Exists(m) THEN [th[h] EXCEPT !.pc = "add", !.cfg = row[m]] ELSE Idle
<1>1. TypeOK /\ h \in Threads /\ th[h].pc = "reread" /\ th[h] \in Goroutine
  BY Shape DEF Inv, Typed, Threads, Reread
<1>2. UNCHANGED <<row, state, open, used, proc, starter, workers, cancelled, lock, reach,
                  flips, requests, faults, told, spoiled, dropped>>
  BY DEF Reread, db, engine, env, told_
<1>3. proc = "up" /\ m \in used
  BY <1>1 DEF Inv, Quiet, Fresh
<1>4. row[m] \in AllConfigs \union {NoRow}
  BY <1>1 DEF TypeOK
<1>5. g \in Goroutine /\ g.pc \in {"add", "idle"} /\ (g.pc # "idle" => g.mon = m)
  BY <1>1, <1>4, IdleIs DEF Goroutine, Pcs
<1>6. th' = [th EXCEPT ![h] = g]
  BY DEF Reread
<1>7. Only({h}) /\ th'[h] = g
  BY <1>1, <1>5, <1>6, BecomesMoves
<1> HIDE DEF g
<1>8. TypeOK'
  BY <1>1, <1>2, <1>7, TypesKept DEF TypeOK, Only, env
<1>9. LiveIsRegistered'
  BY <1>2, <1>7, HandlerLeaves
<1>10. /\ th[h].pc \notin CheckPcs
       /\ th'[h].pc \notin CheckPcs \union {"new-state"} /\ th'[h].pc # "save"
       /\ th'[h].pc # "idle" => th'[h].mon \in used
  BY <1>1, <1>3, <1>5, <1>7 DEF CheckPcs, TransitionPcs
<1> QED BY <1>1, <1>2, <1>3, <1>7, <1>8, <1>9, <1>10, MoveKeeps DEF Tables

\* The transition of u goes on after its monitor was deleted.
LEMMA MidwayGone ==
  ASSUME NEW u \in Threads, NEW m \in Monitors, Midway(u), th'[u] = th[u], th[u].mon = m,
         row'[m] = NoRow, state'[m] = NoState, open'[m] = {},
         m \in spoiled' <=> m \in spoiled, m \in told' <=> m \in told
  PROVE  Midway(u)'
PROOF
<1>1. Counted(u)'
  BY DEF Midway, Counted, Exists
<1>2. Match(m)' /\ state'[m].status # "down"
  BY SMTT(30) DEF Match, NoState
<1>3. m \notin spoiled => Agrees(u)'
  BY <1>2 DEF Midway, Agrees, Match
<1> QED BY <1>1, <1>3 DEF Midway

\* DeleteMonitor: the DELETE with what it cascades to.
LEMMA DeleteMonitorKeeps ==
  ASSUME Inv, NEW h \in Handlers, NEW m \in Monitors, th[h].mon = m, DeleteMonitor(h)
  PROVE  Inv'
PROOF
<1> DEFINE g == IF th[h].pc = "delete" THEN [th[h] EXCEPT !.pc = "remove"] ELSE Idle
<1>1. /\ TypeOK /\ h \in Threads /\ th[h].pc \in {"delete", "delete-last"}
      /\ th[h] \in Goroutine
  BY Shape DEF Inv, Typed, Threads, DeleteMonitor
<1>2. UNCHANGED <<used, proc, starter, workers, cancelled, lock, reach, flips, requests,
                  told, spoiled>>
  BY DEF DeleteMonitor, engine, env
<1>3. proc = "up" /\ m \in used
  BY <1>1 DEF Inv, Quiet, Fresh
<1>4. faults' \in Nat
  BY <1>1, FaultsCounted DEF DeleteMonitor
<1>5. CASE /\ th' = [th EXCEPT ![h] = Idle] /\ UNCHANGED <<row, state, open>>
           /\ dropped' = IF th[h].pc = "delete-last" THEN dropped \union {m} ELSE dropped
  <2>1. Only({h}) /\ th'[h].pc = "idle"
    BY <1>1, <1>5, IdleIs, BecomesMoves
  <2>2. dropped' \subseteq Monitors
    BY <1>1, <1>5 DEF TypeOK
  <2>3. TypeOK'
    BY <1>1, <1>2, <1>4, <1>5, <2>1, <2>2, HandlerTyped DEF TypeOK, Only, env, engine, Exists
  <2>4. LiveIsRegistered'
    BY <1>2, <2>1, HandlerLeaves
  <2>5. /\ th[h].pc \notin CheckPcs
        /\ th'[h].pc \notin CheckPcs \union {"new-state"} /\ th'[h].pc # "save"
    BY <1>1, <2>1 DEF CheckPcs, TransitionPcs
  <2> QED BY <1>1, <1>2, <1>5, <2>1, <2>3, <2>4, <2>5, MoveKeeps DEF Tables
<1>6. CASE /\ row' = [row EXCEPT ![m] = NoRow]
           /\ state' = [state EXCEPT ![m] = NoState]
           /\ open' = [open EXCEPT ![m] = {}]
           /\ th' = [th EXCEPT ![h] = g]
           /\ UNCHANGED dropped
  <2>1. g \in Goroutine /\ g.pc \in {"remove", "idle"} /\ (g.pc # "idle" => g.mon = m)
    BY <1>1, IdleIs DEF Goroutine, Pcs
  <2>2. Only({h}) /\ th'[h] = g
    BY <1>1, <1>6, <2>1, BecomesMoves
  <2> HIDE DEF g
  <2>3. /\ row' \in [Monitors -> AllConfigs \union {NoRow}] /\ row'[m] = NoRow
        /\ state' \in [Monitors -> States \union {NoState}] /\ state'[m] = NoState
        /\ open' \in [Monitors -> SUBSET Incidents] /\ open'[m] = {}
        /\ \A n \in Monitors \ {m} :
             row'[n] = row[n] /\ state'[n] = state[n] /\ open'[n] = open[n]
    BY <1>1, <1>6 DEF TypeOK
  <2>4. \A n \in Monitors : row'[n] = NoRow => state'[n] = NoState /\ open'[n] = {}
    BY <1>1, <2>3 DEF TypeOK, Exists
  <2>5. TypeOK'
    BY <1>1, <1>2, <1>4, <1>6, <2>2, <2>3, <2>4, HandlerTyped DEF TypeOK, Only, env, engine
  <2>6. LiveIsRegistered'
    BY <1>2, <2>2, HandlerLeaves
  <2>7. NoCheck
    BY <1>1, <1>2, <2>1, <2>2 DEF NoCheck, Only, CheckPcs, TransitionPcs
  <2>8. Holds' /\ Aside
    BY <2>7, NoCheckHolds
  <2>9. Recorded'
    <3>1. Stages'
      BY <1>2, <1>3 DEF Stages
    <3>2. ASSUME NEW n \in Monitors
          PROVE  Settled(n)' /\ Announced(n)'
      <4>1. CASE n = m
        BY SMTT(30), <2>3, <4>1 DEF Settled, Announced, Match, NoState
      <4>2. CASE n # m
        <5>1. Settled(n) /\ Announced(n) /\ (InTransition(n)' <=> InTransition(n))
          BY <1>3, <2>8, AsideSame DEF Inv
        <5> QED BY <1>2, <2>3, <4>2, <5>1 DEF Settled, Announced, Match
      <4> QED BY <4>1, <4>2
    <3>3. ASSUME NEW u \in Threads, th'[u].pc \in TransitionPcs
          PROVE  Midway(u)'
      <4>1. th'[u] = th[u] /\ Midway(u) /\ th[u].mon \in Monitors
        BY <1>1, <2>8, <3>3, Shape DEF Inv, Aside, Goroutine
      <4>2. CASE th[u].mon = m
        BY <1>2, <2>3, <4>1, <4>2, MidwayGone
      <4>3. CASE th[u].mon # m
        <5>1. Exists(th[u].mon)' => Exists(th[u].mon)
          BY <2>3, <4>1, <4>3 DEF Exists
        <5> QED BY <1>2, <2>3, <4>1, <4>3, <5>1, MidwayKept
      <4> QED BY <4>2, <4>3
    <3> QED BY <3>1, <3>2, <3>3 DEF Recorded
  <2>10. Fresh'
    <3>1. \A u \in Threads : th'[u].pc = "new-state" => th'[u] = th[u] /\ th[u].mon \in Monitors
      BY <1>1, <2>1, <2>2, Shape DEF Only, Goroutine
    <3>2. \A u \in Threads : th'[u].pc = "new-state" /\ Exists(th[u].mon)'
                             => state'[th'[u].mon] = NoState
      BY SMTT(30), <2>3, <3>1 DEF Inv, Fresh, Exists
    <3>3. \A u \in Threads : th'[u].pc # "idle" => th'[u].mon \in used'
      BY <1>2, <1>3, <2>1, <2>2 DEF Inv, Fresh, Only
    <3>4. \A t, u \in Threads : /\ th'[t].pc = "new-state" /\ th'[u].pc = "new-state"
                                /\ th'[t].mon = th'[u].mon
                                => t = u
      BY <3>1 DEF Inv, Fresh
    <3>5. \A n \in Monitors : Exists(n)' => n \in used'
      BY <1>2, <2>3 DEF Inv, Fresh, Exists
    <3>6. \A x \in starter'.todo : x[1] \in used'
      BY <1>2 DEF Inv, Fresh
    <3> QED BY <3>2, <3>3, <3>4, <3>5, <3>6 DEF Fresh, Exists
  <2>11. Typed' /\ Quiet'
    BY <1>2, <1>3, <2>1, <2>2, <2>5 DEF Inv, Typed, Quiet, Only
  <2> QED BY <2>6, <2>8, <2>9, <2>10, <2>11, Together
<1> QED BY <1>5, <1>6 DEF DeleteMonitor

-----------------------------------------------------------------------------
(* Startup, crashes and the targets.                                        *)

\* What a statement of MigrateUptime leaves alone.
Memory == <<row, used, starter, workers, cancelled, lock, th, reach, flips, requests,
            faults, told, spoiled, dropped>>

\* A statement of MigrateUptime has to establish its stage, announce nothing
\* new, and leave every monitor in order if it is the last.
LEMMA MigrationKeeps ==
  ASSUME Inv, proc # "up", UNCHANGED Memory,
         proc' \in {"backfill", "relink", "reconcile", "clear", "reset", "index", "up"},
         state' \in [Monitors -> States \union {NoState}],
         open' \in [Monitors -> SUBSET Incidents],
         \A m \in Monitors : ~Exists(m) => state'[m] = NoState /\ open'[m] = {},
         Stages', \A m \in Monitors : Announced(m)',
         proc' = "up" => \A m \in Monitors : Match(m)'
  PROVE  Inv'
PROOF
<1>1. UNCHANGED <<row, used, starter, workers, cancelled, lock, th, reach, flips, requests,
                  faults, told, spoiled, dropped>>
  BY DEF Memory
<1>2. \A t \in Threads : th'[t].pc = "idle" /\ th[t].pc = "idle"
  BY <1>1 DEF Inv, Quiet
<1>3. TypeOK /\ starter.pc = "idle"
  BY DEF Inv, Typed, Quiet
<1>4. TypeOK'
  BY <1>1, <1>3 DEF TypeOK, Exists
<1>5. Typed' /\ Quiet' /\ LiveIsRegistered' /\ Holds'
  BY <1>1, <1>2, <1>3, <1>4 DEF Typed, Quiet, LiveIsRegistered, Holds, CheckPcs, TransitionPcs, Threads
<1>6. Fresh'
  <2>1. \A m \in Monitors : Exists(m)' => m \in used'
    BY <1>1 DEF Inv, Fresh, Exists
  <2>2. \A x \in starter'.todo : x[1] \in used'
    BY <1>1 DEF Inv, Fresh
  <2> QED BY <1>2, <2>1, <2>2 DEF Fresh
<1>7. Recorded'
  <2>1. ASSUME proc' = "up", NEW m \in Monitors PROVE Settled(m)'
    BY SMTT(30), <2>1 DEF Settled, Match, NoState
  <2>2. \A t \in Threads : th'[t].pc \notin TransitionPcs
    BY <1>2 DEF TransitionPcs
  <2> QED BY <2>1, <2>2 DEF Recorded
<1> QED BY <1>5, <1>6, <1>7, Together

\* MigrateUptime, statement by statement.
LEMMA StartupKeeps ==
  ASSUME Inv, Startup
  PROVE  Inv'
PROOF
<1>1. TypeOK /\ Stages /\ \A m \in Monitors : Announced(m)
  BY DEF Inv, Typed
<1>2. /\ state \in [Monitors -> States \union {NoState}]
      /\ open \in [Monitors -> SUBSET Incidents]
      /\ \A m \in Monitors : ~Exists(m) => state[m] = NoState /\ open[m] = {}
  BY <1>1 DEF TypeOK
<1>3. CASE Boot
  <2>1. UNCHANGED Memory /\ UNCHANGED <<state, open>> /\ proc' = "backfill" /\ proc = "off"
    BY <1>3 DEF Boot, Memory, db, engine, env, told_
  <2>2. Stages' /\ \A m \in Monitors : Announced(m)'
    BY <1>1, <2>1 DEF Stages, Announced, Memory
  <2> QED BY <1>2, <2>1, <2>2, MigrationKeeps
<1>4. CASE Backfill
  <2>1. /\ UNCHANGED Memory /\ proc' = "relink" /\ proc = "backfill" /\ UNCHANGED open
        /\ state' = [m \in Monitors |->
                       IF Exists(m) /\ state[m] = NoState THEN Pending ELSE state[m]]
    BY <1>4 DEF Backfill, Migrates, Memory, engine, env, told_
  <2>2. \A m \in Monitors : /\ state'[m] \in States \union {NoState}
                            /\ Exists(m) => state'[m] # NoState
                            /\ ~Exists(m) => state'[m] = NoState
                            /\ state'[m].status = "down" => state[m].status = "down"
    BY <1>2, <2>1, Plain DEF Pending
  <2>3. state' \in [Monitors -> States \union {NoState}]
    BY <2>1, <2>2
  <2>4. Stages' /\ \A m \in Monitors : Announced(m)'
    BY <1>1, <2>1, <2>2 DEF Stages, Announced, Memory, Exists
  <2> QED BY <1>2, <2>1, <2>2, <2>3, <2>4, MigrationKeeps
<1>5. CASE Relink
  <2>1. UNCHANGED Memory /\ proc' = "reconcile" /\ proc = "relink" /\ UNCHANGED open
    BY <1>5 DEF Relink, Migrates, Memory, engine, env, told_
  <2>2. PICK newest \in [Monitors -> Incidents \union {NoIncident}] :
          state' = [m \in Monitors |->
                      IF state[m].status = "down"
                        THEN [state[m] EXCEPT !.incident = newest[m]] ELSE state[m]]
    BY <1>5 DEF Relink
  <2>3. ASSUME NEW m \in Monitors
        PROVE  /\ state'[m] \in States \union {NoState}
               /\ Exists(m) => state'[m] # NoState
               /\ ~Exists(m) => state'[m] = NoState
               /\ state'[m].status = "down" => state[m].status = "down"
    <3>1. Exists(m) => state[m] # NoState
      BY <1>1, <2>1 DEF Stages
    <3>2. CASE state[m].status = "down"
      <4>1. state[m] \in States /\ Exists(m)
        BY SMTT(30), <1>2, <3>2 DEF NoState
      <4>2. state'[m] = [state[m] EXCEPT !.incident = newest[m]]
        BY <2>2, <3>2
      <4>3. state'[m] \in States
        BY <4>1, <4>2 DEF States
      <4> QED BY <3>2, <4>1, <4>3, Plain
    <3>3. CASE state[m].status # "down"
      BY <1>2, <2>2, <3>1, <3>3
    <3> QED BY <3>2, <3>3
  <2>4. state' \in [Monitors -> States \union {NoState}]
    BY <2>2, <2>3
  <2>5. Stages' /\ \A m \in Monitors : Announced(m)'
    BY <1>1, <2>1, <2>3 DEF Stages, Announced, Memory, Exists
  <2> QED BY <1>2, <2>1, <2>3, <2>4, <2>5, MigrationKeeps
<1>6. CASE Reconcile
  <2>1. /\ UNCHANGED Memory /\ proc' = "clear" /\ proc = "reconcile" /\ UNCHANGED state
        /\ open' = [m \in Monitors |->
                      IF state[m] = NoState THEN open[m]
                      ELSE {i \in open[m] : state[m].status = "down" /\ i = state[m].incident}]
    BY <1>6 DEF Reconcile, Migrates, Memory, engine, env, told_
  <2>2. ASSUME NEW m \in Monitors
        PROVE  /\ open'[m] \subseteq open[m] /\ open'[m] \subseteq Incidents
               /\ \/ open'[m] = {}
                  \/ state[m].status = "down" /\ open'[m] = {state[m].incident}
    <3>1. CASE state[m] = NoState
      <4>1. ~Exists(m)
        BY <1>1, <2>1, <3>1 DEF Stages
      <4> QED BY <1>2, <2>1, <3>1, <4>1
    <3>2. CASE state[m] # NoState
      <4>1. open'[m] = {i \in open[m] : state[m].status = "down" /\ i = state[m].incident}
        BY <2>1, <3>2
      <4> QED BY <1>2, <4>1
    <3> QED BY <3>1, <3>2
  <2>3. open' \in [Monitors -> SUBSET Incidents]
    BY <2>1, <2>2
  <2>4. \A m \in Monitors : ~Exists(m) => open'[m] = {}
    BY <1>2, <2>2
  <2>5. Stages' /\ \A m \in Monitors : Announced(m)'
    BY <1>1, <2>1, <2>2 DEF Stages, Announced, Memory
  <2> QED BY <1>2, <2>1, <2>3, <2>4, <2>5, MigrationKeeps
<1>7. CASE ClearPointers
  <2>1. /\ UNCHANGED Memory /\ proc' = "reset" /\ proc = "clear" /\ UNCHANGED open
        /\ state' = [m \in Monitors |->
                       IF state[m].status # "down"
                         THEN [state[m] EXCEPT !.incident = NoIncident] ELSE state[m]]
    BY <1>7 DEF ClearPointers, Migrates, Memory, engine, env, told_
  <2>2. ASSUME NEW m \in Monitors
        PROVE  /\ state'[m] \in States \union {NoState}
               /\ ~Exists(m) => state'[m] = NoState
               /\ state'[m].status = state[m].status
               /\ state[m].status = "down" => state'[m] = state[m]
    <3>1. CASE state[m].status = "down"
      BY <1>2, <2>1, <3>1
    <3>2. CASE state[m].status # "down" /\ state[m] = NoState
      <4>1. [NoState EXCEPT !.incident = NoIncident] = NoState
        BY SMTT(30) DEF NoState
      <4> QED BY <2>1, <3>2, <4>1
    <3>3. CASE state[m].status # "down" /\ state[m] # NoState
      <4>1. state[m] \in States /\ Exists(m)
        BY <1>2, <3>3
      <4>2. state'[m] = [state[m] EXCEPT !.incident = NoIncident]
        BY <2>1, <3>3
      <4> QED BY <3>3, <4>1, <4>2 DEF States
    <3> QED BY <3>1, <3>2, <3>3
  <2>3. state' \in [Monitors -> States \union {NoState}]
    BY <2>1, <2>2
  <2>4. Stages' /\ \A m \in Monitors : Announced(m)'
    BY <1>1, <2>1, <2>2 DEF Stages, Announced, Memory
  <2> QED BY <1>2, <2>1, <2>2, <2>3, <2>4, MigrationKeeps
<1>8. CASE ResetOrphaned
  <2>1. /\ UNCHANGED Memory /\ proc' = "index" /\ proc = "reset" /\ UNCHANGED open
        /\ state' = [m \in Monitors |->
                       IF state[m].status = "down" /\ open[m] = {} THEN Pending ELSE state[m]]
    BY <1>8 DEF ResetOrphaned, Migrates, Memory, engine, env, told_
  <2>2. ASSUME NEW m \in Monitors
        PROVE  /\ state'[m] \in States \union {NoState}
               /\ ~Exists(m) => state'[m] = NoState
               /\ state'[m].status = "down" => state[m].status = "down"
               /\ Match(m)'
    <3>1. CASE state[m].status = "down" /\ open[m] = {}
      <4>1. Exists(m) /\ state'[m] = Pending
        BY SMTT(30), <1>2, <2>1, <3>1 DEF NoState
      <4> QED BY <2>1, <3>1, <4>1, Plain DEF Match, Pending
    <3>2. CASE ~(state[m].status = "down" /\ open[m] = {})
      <4>1. state'[m] = state[m]
        BY <2>1, <3>2
      <4>2. open[m] = {} \/ (state[m].status = "down" /\ open[m] = {state[m].incident})
        BY <1>1, <2>1 DEF Stages
      <4> QED BY <1>2, <2>1, <3>2, <4>1, <4>2 DEF Match
    <3> QED BY <3>1, <3>2
  <2>3. state' \in [Monitors -> States \union {NoState}]
    BY <2>1, <2>2
  <2>4. \A m \in Monitors : Announced(m)'
    BY <1>1, <2>1, <2>2 DEF Announced, Memory
  <2>5. Stages'
    BY <2>1, <2>2 DEF Stages
  <2> QED BY <1>2, <2>1, <2>2, <2>3, <2>4, <2>5, MigrationKeeps
<1>9. CASE CreateIndex
  <2>1. UNCHANGED Memory /\ UNCHANGED <<state, open>> /\ proc = "index"
        /\ proc' = IF \E m \in Monitors : \E i, j \in open[m] : i # j THEN "refused" ELSE "up"
    BY <1>9 DEF CreateIndex, Migrates, Memory, engine, env, told_
  <2>2. \A m \in Monitors : Match(m)
    BY <1>1, <2>1 DEF Stages
  <2>3. \A m \in Monitors : ~\E i, j \in open[m] : i # j
    BY <2>2 DEF Match
  <2>4. proc' = "up"
    BY <2>1, <2>3
  <2>5. \A m \in Monitors : Match(m)' /\ Announced(m)'
    BY <1>1, <2>1, <2>2 DEF Match, Announced, Memory
  <2>6. Stages'
    BY <2>4 DEF Stages
  <2> QED BY <1>2, <2>1, <2>4, <2>5, <2>6, MigrationKeeps
<1> QED BY <1>3, <1>4, <1>5, <1>6, <1>7, <1>8, <1>9 DEF Startup

\* The process ends: only the database and what was sent remain.
LEMMA CrashKeeps ==
  ASSUME Inv, Crash
  PROVE  Inv'
PROOF
<1>1. TypeOK /\ \A m \in Monitors : Announced(m)
  BY DEF Inv, Typed
<1>2. UNCHANGED <<row, state, open, used, reach, flips, requests, told, spoiled>>
      /\ proc' = "off" /\ starter' = [pc |-> "idle", todo |-> {}] /\ cancelled' = {}
      /\ dropped' = {} /\ th' = [t \in Threads |-> Idle]
  BY DEF Crash, db, env
<1>3. th' \in [Threads -> Goroutine] /\ \A t \in Threads : th'[t].pc = "idle"
  BY <1>2, IdleIs
<1>4. faults' \in Nat
  BY SMTT(30), <1>1 DEF Crash, TypeOK
<1>5. TypeOK'
  <2>1. workers' \in [Monitors -> Workers \union {Nobody}]
        /\ lock' \in [Monitors -> Threads \union {Nobody}]
    BY DEF Crash
  <2>2. starter' \in [pc : {"idle", "list", "loop", "failed"},
                      todo : SUBSET (Monitors \X AllConfigs)]
    BY <1>2
  <2> QED BY <1>1, <1>2, <1>3, <1>4, <2>1, <2>2 DEF TypeOK, Goroutine, Exists
<1>6. Typed' /\ Quiet' /\ LiveIsRegistered' /\ Holds'
  BY <1>2, <1>3, <1>5 DEF Typed, Quiet, LiveIsRegistered, Holds, CheckPcs, TransitionPcs, Threads
<1>7. Fresh'
  <2>1. \A m \in Monitors : Exists(m)' => m \in used'
    BY <1>2 DEF Inv, Fresh, Exists
  <2> QED BY <1>2, <1>3, <2>1 DEF Fresh
<1>8. Recorded'
  <2>1. \A t \in Threads : th'[t].pc \notin TransitionPcs
    BY <1>3 DEF TransitionPcs
  <2>2. Stages' /\ \A m \in Monitors : Announced(m)'
    BY <1>1, <1>2 DEF Stages, Announced
  <2> QED BY <1>2, <2>1, <2>2 DEF Recorded
<1> QED BY <1>6, <1>7, <1>8, Together

\* Nothing in Inv depends on the targets.
LEMMA FlipKeeps ==
  ASSUME Inv, Flip
  PROVE  Inv'
PROOF
<1>1. TypeOK /\ th \in [Threads -> Goroutine]
  BY Shape DEF Inv, Typed
<1>2. UNCHANGED <<row, state, open, used, proc, starter, workers, cancelled, lock, th,
                  requests, faults, told, spoiled, dropped>>
  BY DEF Flip, db, engine, told_
<1>3. flips' \in Nat /\ reach' \in [Monitors -> BOOLEAN]
  BY SMTT(30), <1>1 DEF Flip, TypeOK
<1>4. TypeOK'
  BY <1>1, <1>2, <1>3 DEF TypeOK, Exists
<1>5. NoCheck
  BY <1>2 DEF NoCheck
<1>6. Holds' /\ Recorded'
  BY <1>2, <1>5, NoCheckHolds, RecordedKept DEF Tables
<1>7. Typed' /\ Quiet' /\ LiveIsRegistered' /\ Fresh'
  BY <1>2, <1>4 DEF Inv, Typed, Quiet, LiveIsRegistered, Fresh, Exists
<1> QED BY <1>6, <1>7, Together

\* Any database of an earlier version, and a panel that has not started.
LEMMA InitInv == Init => Inv
PROOF
<1> SUFFICES ASSUME Init PROVE Inv
  OBVIOUS
<1>1. th \in [Threads -> Goroutine] /\ \A t \in Threads : th[t].pc = "idle"
  BY IdleIs DEF Init
<1>2. row \in [Monitors -> AllConfigs \union {NoRow}]
  BY UptimeAssumption DEF Init
<1>3. TypeOK
  BY SMTT(30), <1>1, <1>2 DEF Init, TypeOK, Goroutine, Exists
<1>4. Typed /\ Quiet /\ LiveIsRegistered /\ Holds
  BY <1>1, <1>3 DEF Init, Typed, Quiet, LiveIsRegistered, Holds, CheckPcs, TransitionPcs, Threads
<1>5. Fresh
  BY <1>1 DEF Init, Fresh, Exists
<1>6. Stages /\ \A m \in Monitors : Announced(m)
  BY DEF Init, Stages, Announced
<1>7. \A t \in Threads : th[t].pc \notin TransitionPcs
  BY <1>1 DEF TransitionPcs
<1> QED BY <1>4, <1>5, <1>6, <1>7 DEF Init, Inv

\* Every step keeps Inv.
LEMMA NextInv == Inv /\ [Next]_vars => Inv'
PROOF
<1> SUFFICES ASSUME Inv, [Next]_vars PROVE Inv'
  OBVIOUS
<1>1. TypeOK /\ \A t \in Threads : th[t].mon \in Monitors
  BY Shape DEF Inv, Typed, Goroutine
<1>2. CASE Startup \/ Starter \/ Crash \/ Flip
  BY <1>2, StartupKeeps, StarterKeeps, CrashKeeps, FlipKeeps
<1>3. ASSUME NEW w \in Workers, Tick(w) \/ WorkerExit(w)
      PROVE  Inv'
  BY <1>3, TickKeeps, WorkerExitKeeps
<1>4. ASSUME NEW t \in Threads, Lock(t) \/ Check(t)
      PROVE  Inv'
  <2>1. PICK m \in Monitors : th[t].mon = m
    BY <1>1
  <2> QED BY <1>4, <2>1, LockKeeps, GetStateKeeps, ResolveKeeps, SendRecoveryKeeps,
             SelectOpenKeeps, InsertIncidentKeeps, SendDownKeeps, SendReminderKeeps,
             UpdateStateKeeps DEF Check
<1>5. ASSUME NEW h \in Handlers, Handle(h)
      PROVE  Inv'
  <2>1. PICK m \in Monitors : th[h].mon = m
    BY <1>1 DEF Threads
  <2> QED BY <1>5, <2>1, InsertStateKeeps, AddMonitorKeeps, RemoveKeeps, SaveMonitorKeeps,
             RereadKeeps, DeleteMonitorKeeps DEF Handle
<1>6. ASSUME NEW h \in Handlers,
             CreateMonitor(h) \/ UpdateMonitor(h) \/ Delete(h) \/ Pause(h) \/ Resume(h)
             \/ DeleteDomain(h) \/ CheckNow(h)
      PROVE  Inv'
  <2>1. CASE CreateMonitor(h)
    BY <2>1, CreateMonitorKeeps
  <2>2. CASE UpdateMonitor(h)
    <3>1. PICK m \in Monitors, c \in Configs : Existing(h, m, "save", c)
      BY <2>2 DEF UpdateMonitor
    <3>2. c \in AllConfigs \union {NoRow} /\ c # NoRow
      BY UptimeAssumption, Plain
    <3> QED BY <3>1, <3>2, ExistingKeeps
  <2>3. CASE Delete(h)
    BY <2>3, ExistingKeeps DEF Delete
  <2>4. CASE Pause(h)
    BY <2>4, ExistingKeeps DEF Pause
  <2>5. CASE Resume(h)
    BY <2>5, ExistingKeeps DEF Resume
  <2>6. CASE DeleteDomain(h)
    BY <2>6, ExistingKeeps DEF DeleteDomain
  <2>7. CASE CheckNow(h)
    <3>1. PICK m \in Monitors : Existing(h, m, "lock", row[m])
      BY <2>7 DEF CheckNow
    <3>2. PICK c \in AllConfigs \union {NoRow} : c = row[m]
      BY <1>1 DEF TypeOK
    <3> QED BY <3>1, <3>2, ExistingKeeps
  <2> QED BY <1>6, <2>1, <2>2, <2>3, <2>4, <2>5, <2>6, <2>7
<1>7. CASE UNCHANGED vars
  <2>1. UNCHANGED <<row, state, open, used, proc, starter, workers, cancelled, lock, th,
                    reach, flips, requests, faults, told, spoiled, dropped>>
    BY <1>7 DEF vars, db, engine, env, told_
  <2>2. TypeOK'
    BY <1>1, <2>1 DEF TypeOK, Exists
  <2>3. Holds' /\ Recorded'
    <3>1. NoCheck
      BY <2>1 DEF NoCheck
    <3> QED BY <2>1, <3>1, NoCheckHolds, RecordedKept DEF Tables
  <2>4. Typed' /\ Quiet' /\ LiveIsRegistered' /\ Fresh'
    BY <2>1, <2>2 DEF Inv, Typed, Quiet, LiveIsRegistered, Fresh, Exists
  <2> QED BY <2>3, <2>4, Together
<1> QED BY <1>2, <1>3, <1>4, <1>5, <1>6, <1>7 DEF Next

-----------------------------------------------------------------------------
\* Inv holds throughout.
LEMMA Always == Spec => []Inv
PROOF
  BY InitInv, NextInv, PTL DEF Spec

\* Every variable keeps its type and the foreign keys of the database hold,
\* through every interleaving of checks, handlers, startup and crashes.
THEOREM UptimeTypes == Spec => []TypeOK
PROOF
<1>1. Inv => TypeOK
  BY DEF Inv, Typed
<1> QED BY <1>1, Always, PTL

\* MigrateUptime leaves at most one open incident for a monitor, whatever
\* database it finds and wherever an earlier run of it was cut off: the unique
\* index is made and the panel starts.
THEOREM PanelStarts == Spec => []MigrationAccepts
PROOF
<1>1. Inv => MigrationAccepts
  BY DEF Inv, Stages, MigrationAccepts
<1> QED BY <1>1, Always, PTL

\* Between transitions of a monitor, its state and its incidents agree
\* (StateManager.Transition, DeleteMonitor, MigrateUptime), for every number of
\* monitors, workers, requests and crashes.
THEOREM IncidentsMatchStates == Spec => []IncidentMatchesState
PROOF
<1>1. Inv => IncidentMatchesState
  BY DEF Inv, Settled, Match, IncidentMatchesState
<1> QED BY <1>1, Always, PTL

\* The check lock covers the SELECT and the INSERT of CreateIncident: the unique
\* index never refuses one.
THEOREM InsertIsAlone == Spec => []IndexNeverHit
PROOF
<1>1. Inv => IndexNeverHit
  BY DEF Inv, Midway, Counted, IndexNeverHit, TransitionPcs
<1> QED BY <1>1, Always, PTL

\* SendRecovery and SendReminder follow a DOWN alert, also across a crash
\* between an alert and UpdateState.
THEOREM AlertsAreInOrder == Spec => []AlertsFollowDown
PROOF
<1>1. Inv => AlertsFollowDown
  BY DEF Inv, Midway, Agrees, AlertsFollowDown, TransitionPcs
<1> QED BY <1>1, Always, PTL

\* startWorker and RemoveMonitor leave no worker running that Engine.workers
\* does not hold, however many requests and Engine.Start race for a monitor.
THEOREM WorkersAreRegistered == Spec => []LiveIsRegistered
PROOF
<1>1. Inv => LiveIsRegistered
  BY DEF Inv
<1> QED BY <1>1, Always, PTL

-----------------------------------------------------------------------------
(* Every active monitor has its worker.                                     *)

\* Where a request is about to change its monitor, or the worker of it.
Changes == {"new-state", "add", "save", "pause", "resume", "reread", "delete",
            "delete-last", "remove", "remove-add", "remove-delete"}

\* No two requests change the same monitor at once.
ChangesApart ==
  \A g, h \in Handlers :
    th[g].pc \in Changes /\ th[h].pc \in Changes /\ th[g].mon = th[h].mon => g = h

\* A worker that is registered runs and watches the monitor it is registered for,
\* and a worker that was cancelled has not ended yet.
Registry ==
  /\ \A m \in Monitors : workers[m] # Nobody =>
       th[workers[m]].pc # "idle" /\ th[workers[m]].mon = m /\ workers[m] \notin cancelled
  /\ \A w \in cancelled : th[w].pc # "idle"

\* Engine.Start has monitor m on its list, or a request is about to start its
\* worker or to delete it.
Taking == {"new-state", "add", "remove-add", "reread", "delete-last"}
Taken(m) == \E h \in Handlers : th[h].mon = m /\ th[h].pc \in Taking
Listed(m) == \E x \in starter.todo : x[1] = m

Covered(m) == workers[m] # Nobody \/ Listed(m) \/ Taken(m)

\* What a request goes by is what the table holds: it does not leave out a
\* monitor that is active, nor remove the worker of one.
Informed(h) ==
  /\ th[h].pc \in {"new-state", "remove-add", "add"} /\ Runs(row[th[h].mon]) => Runs(th[h].cfg)
  /\ th[h].pc = "remove" => ~Runs(row[th[h].mon])

WatchInv ==
  /\ Registry
  /\ \A h \in Handlers : Informed(h)
  /\ starter.pc = "loop" => \A m \in Monitors \ dropped : Runs(row[m]) => Covered(m)

\* Workers that go on keep the registry in order.
LEMMA RegistryKept ==
  ASSUME TypeOK, Registry, UNCHANGED <<workers, cancelled>>,
         \A w \in Workers : th[w].pc # "idle" => th'[w].pc # "idle" /\ th'[w].mon = th[w].mon
  PROVE  Registry'
PROOF
<1>1. \A m \in Monitors : workers[m] \in Workers \union {Nobody}
  BY DEF TypeOK
<1>2. cancelled \subseteq Workers
  BY DEF TypeOK
<1> QED BY <1>1, <1>2 DEF Registry

\* A goroutine that neither begins nor ends a change.
LEMMA MoveWatched ==
  ASSUME Inv, WatchInv, NEW t \in Threads, Only({t}),
         UNCHANGED <<row, starter, workers, cancelled, dropped>>,
         th[t].pc \notin Taking,
         th'[t].pc \notin {"new-state", "remove-add", "add", "remove"},
         t \in Workers /\ th[t].pc # "idle" => th'[t].pc # "idle" /\ th'[t].mon = th[t].mon
  PROVE  WatchInv'
PROOF
<1>1. TypeOK /\ \A u \in Threads \ {t} : th'[u] = th[u]
  BY DEF Inv, Typed, Only
<1>2. Registry'
  BY <1>1, RegistryKept DEF WatchInv, Threads
<1>3. ASSUME NEW h \in Handlers
      PROVE  Informed(h)'
  <2>1. CASE h = t
    BY <2>1 DEF Informed
  <2>2. CASE h # t
    <3>1. th'[h] = th[h] /\ Informed(h)
      BY <1>1, <2>2 DEF Threads, WatchInv
    <3> QED BY <3>1 DEF Informed
  <2> QED BY <2>1, <2>2
<1>4. ASSUME NEW m \in Monitors, Covered(m)
      PROVE  Covered(m)'
  <2>1. Taken(m) => Taken(m)'
    <3>1. \A h \in Handlers : th[h].pc \in Taking => th'[h] = th[h]
      BY <1>1 DEF Threads
    <3> QED BY <3>1 DEF Taken
  <2>2. Listed(m) => Listed(m)'
    BY DEF Listed
  <2> QED BY <1>4, <2>1, <2>2 DEF Covered
<1> QED BY <1>2, <1>3, <1>4 DEF WatchInv

\* A check leaves the registry and the changes alone.
LEMMA CheckWatched ==
  ASSUME Inv, Inv', WatchInv, NEW t \in Threads, Lock(t) \/ Check(t)
  PROVE  WatchInv'
PROOF
<1>1. /\ TypeOK /\ th \in [Threads -> Goroutine] /\ th[t] \in Goroutine
      /\ th' \in [Threads -> Goroutine]
  BY Shape DEF Inv, Typed, TypeOK, Goroutine
<1>2. UNCHANGED <<row, starter, workers, cancelled, dropped>>
  BY DEF Lock, Check, GetState, Resolve, SendRecovery, SelectOpen, InsertIncident, SendDown,
     SendReminder, UpdateState, db, engine, told_
<1>3. th[t].pc \in {"lock"} \union CheckPcs
  BY DEF Lock, Check, GetState, Resolve, SendRecovery, SelectOpen, InsertIncident, SendDown,
     SendReminder, UpdateState, CheckPcs, TransitionPcs
<1> DEFINE Goes == /\ \A u \in Threads \ {t} : th'[u] = th[u]
                   /\ th'[t].pc \in CheckPcs /\ th'[t].mon = th[t].mon
<1>4. Goes \/ Unlock(t)
  <2>1. ASSUME NEW p \in CheckPcs, Goto(t, p) PROVE Goes
    <3>1. p \in Pcs
      BY DEF CheckPcs, TransitionPcs, Pcs
    <3> QED BY <1>1, <2>1, <3>1, GotoMoves DEF Only, At
  <2>2. ASSUME NEW i, UpInHand(t, i) PROVE Goes
    BY SMTT(30), <1>1, <2>2 DEF UpInHand, Goroutine, CheckPcs, TransitionPcs
  <2>3. ASSUME NEW i, DownInHand(t, i) PROVE Goes
    BY SMTT(30), <1>1, <2>3 DEF DownInHand, Goroutine, CheckPcs, TransitionPcs
  <2>4. CASE Lock(t)
    BY SMTT(30), <1>1, <2>4 DEF Lock, Goroutine, CheckPcs
  <2>5. CASE GetState(t)
    BY SMTT(30), <1>1, <2>5 DEF GetState, Goroutine, CheckPcs, TransitionPcs
  <2>6. CASE Resolve(t)
    BY <2>2, <2>6 DEF Resolve
  <2>7. CASE SendRecovery(t) \/ SendDown(t) \/ SendReminder(t)
    BY <2>1, <2>7 DEF SendRecovery, SendDown, SendReminder, CheckPcs, TransitionPcs
  <2>8. CASE SelectOpen(t)
    BY <2>1, <2>3, <2>8 DEF SelectOpen, CheckPcs, TransitionPcs
  <2>9. CASE InsertIncident(t)
    BY <2>3, <2>9 DEF InsertIncident
  <2>10. CASE UpdateState(t)
    BY <2>10 DEF UpdateState
  <2> QED BY <2>4, <2>5, <2>6, <2>7, <2>8, <2>9, <2>10 DEF Check
<1>5. CASE Goes
  BY <1>1, <1>2, <1>3, <1>5, MoveWatched DEF Only, Taking, CheckPcs, TransitionPcs
<1>6. CASE Unlock(t)
  <2>1. /\ Only({t}) /\ th'[t].pc \in {"wait", "idle"}
        /\ t \in Workers => th'[t].pc = "wait" /\ th'[t].mon = th[t].mon
    BY <1>1, <1>6, UnlockMoves
  <2> QED BY <1>2, <1>3, <2>1, MoveWatched DEF Taking, CheckPcs, TransitionPcs
<1> QED BY <1>4, <1>5, <1>6

\* So do a ticker and the request for a monitor that exists.
LEMMA TickWatched ==
  ASSUME Inv, WatchInv, NEW w \in Workers, Tick(w)
  PROVE  WatchInv'
PROOF
<1>1. TypeOK /\ w \in Threads /\ th[w].pc = "wait"
      /\ UNCHANGED <<row, starter, workers, cancelled, dropped>>
  BY DEF Inv, Typed, Threads, Tick, db, engine, told_
<1>2. Only({w}) /\ At(w, "lock")
  BY <1>1, GotoMoves DEF Tick, Pcs
<1> QED BY <1>1, <1>2, MoveWatched DEF At, Taking

LEMMA ExistingWatched ==
  ASSUME Inv, Inv', WatchInv, NEW h \in Handlers, NEW m \in Monitors,
         NEW c \in AllConfigs \union {NoRow},
         NEW p \in {"save", "delete", "pause", "resume", "remove-delete", "lock"},
         Existing(h, m, p, c)
  PROVE  WatchInv'
PROOF
<1>1. TypeOK /\ h \in Threads /\ th[h].pc = "idle" /\ p \in Pcs /\ h \notin Workers
      /\ UNCHANGED <<row, starter, workers, cancelled, dropped>>
  BY UptimeAssumption DEF Inv, Typed, Threads, Existing, Request, db, engine, told_, Pcs
<1>2. [Idle EXCEPT !.pc = p, !.mon = m, !.cfg = c] \in Goroutine
      /\ [Idle EXCEPT !.pc = p, !.mon = m, !.cfg = c].pc = p
  BY <1>1, IdleIs DEF Goroutine
<1>3. th' = [th EXCEPT ![h] = [Idle EXCEPT !.pc = p, !.mon = m, !.cfg = c]]
  BY DEF Existing, Request
<1>4. Only({h}) /\ th'[h].pc = p
  BY <1>1, <1>2, <1>3, BecomesMoves
<1> QED BY <1>1, <1>4, MoveWatched DEF Taking

\* A cancelled worker ends; it is not registered any more.
LEMMA WorkerExitWatched ==
  ASSUME Inv, WatchInv, NEW w \in Workers, WorkerExit(w)
  PROVE  WatchInv'
PROOF
<1>1. TypeOK /\ w \in Threads /\ w \in cancelled /\ cancelled' = cancelled \ {w}
      /\ UNCHANGED <<row, starter, workers, dropped>>
  BY DEF Inv, Typed, Threads, WorkerExit, db, told_
<1>2. Only({w}) /\ th'[w] = Idle
  BY <1>1, IdleIs, BecomesMoves DEF WorkerExit
<1>3. \A u \in Threads \ {w} : th'[u] = th[u]
  BY <1>2 DEF Only
<1>4. Registry'
  <2>1. \A m \in Monitors : workers[m] # Nobody => workers[m] \in Threads \ {w}
    BY <1>1 DEF WatchInv, Registry, TypeOK, Threads
  <2>2. cancelled' \subseteq Threads \ {w}
    BY <1>1 DEF TypeOK, Threads
  <2> QED BY <1>1, <1>3, <2>1, <2>2 DEF WatchInv, Registry
<1>5. \A h \in Handlers : th'[h] = th[h]
  BY <1>3, UptimeAssumption DEF Threads
<1>6. \A h \in Handlers : Informed(h)'
  BY <1>1, <1>5 DEF WatchInv, Informed
<1>7. \A m \in Monitors : Covered(m) => Covered(m)'
  BY <1>1, <1>5 DEF Covered, Listed, Taken
<1> QED BY <1>1, <1>4, <1>6, <1>7 DEF WatchInv

\* A step of the request of h, which changes monitor m.
LEMMA ChangeWatched ==
  ASSUME Inv, WatchInv, NEW h \in Handlers, NEW m \in Monitors,
         th[h].pc # "idle" => th[h].mon = m,
         \A g \in Handlers \ {h} : th'[g] = th[g] /\ (th[g].pc \in Changes => th[g].mon # m),
         starter' = starter, dropped \subseteq dropped',
         \A n \in Monitors \ {m} : row'[n] = row[n] /\ workers'[n] = workers[n],
         Registry', Informed(h)',
         starter.pc = "loop" /\ m \notin dropped' /\ Runs(row'[m]) => Covered(m)'
  PROVE  WatchInv'
PROOF
<1>1. ASSUME NEW g \in Handlers
      PROVE  Informed(g)'
  <2>1. CASE g = h
    BY <2>1
  <2>2. CASE g # h
    <3>1. th'[g] = th[g] /\ Informed(g) /\ th[g].mon \in Monitors
      BY <2>2, Shape DEF WatchInv, Inv, Typed, Threads, Goroutine
    <3>2. th[g].pc \in Changes => row'[th[g].mon] = row[th[g].mon]
      BY <2>2, <3>1
    <3> QED BY <3>1, <3>2 DEF Informed, Changes
  <2> QED BY <2>1, <2>2
<1>2. ASSUME starter.pc = "loop", NEW n \in Monitors \ dropped', Runs(row'[n])
      PROVE  Covered(n)'
  <2>1. CASE n = m
    BY <1>2, <2>1
  <2>2. CASE n # m
    <3>1. Covered(n) /\ workers'[n] = workers[n]
      BY <1>2, <2>2 DEF WatchInv
    <3>2. Taken(n) => Taken(n)'
      BY <2>2 DEF Taken, Taking
    <3>3. Listed(n) => Listed(n)'
      BY DEF Listed
    <3> QED BY <3>1, <3>2, <3>3 DEF Covered
  <2> QED BY <2>1, <2>2
<1> QED BY <1>1, <1>2 DEF WatchInv

\* startWorker keeps the registry in order.
LEMMA StartWorkerWatched ==
  ASSUME Inv, WatchInv, NEW m \in Monitors, NEW c \in AllConfigs,
         NEW next \in [Threads -> Goroutine],
         \A w \in Workers : next[w] = th[w],
         startWorker(m, c, next)
  PROVE  /\ Registry' /\ workers'[m] # Nobody
         /\ \A n \in Monitors \ {m} : workers'[n] = workers[n]
         /\ \A h \in Handlers : th'[h] = next[h]
PROOF
<1> DEFINE w == CHOOSE x \in IdleWorkers : TRUE
           g == [Idle EXCEPT !.pc = "wait", !.mon = m, !.cfg = c]
<1>1. w \in Workers /\ th[w].pc = "idle"
  BY DEF startWorker, IdleWorkers
<1>2. PICK v \in Workers : v = w
  BY <1>1
<1>3. "wait" \in Pcs /\ c \in AllConfigs \union {NoRow}
  BY DEF Pcs
<1>4. g \in Goroutine /\ g.pc = "wait" /\ g.mon = m
  BY <1>3, IdleIs DEF Goroutine
<1>5. /\ workers' = [workers EXCEPT ![m] = v]
      /\ cancelled' = cancelled \union ({workers[m]} \ {Nobody})
      /\ th' = [next EXCEPT ![v] = g]
  BY <1>2 DEF startWorker
<1> HIDE DEF w, g
<1>6. TypeOK /\ v \in Threads /\ v # Nobody /\ v \notin Handlers /\ th[v].pc = "idle"
  BY <1>1, <1>2, UptimeAssumption DEF Inv, Typed, Threads
<1>7. th'[v] = g /\ \A u \in Threads \ {v} : th'[u] = next[u]
  BY <1>4, <1>5, <1>6
<1>8. workers'[m] = v /\ \A n \in Monitors \ {m} : workers'[n] = workers[n]
  BY <1>5, <1>6 DEF TypeOK
<1>9. \A x \in Workers : th[x].pc # "idle" => x # v /\ th'[x] = th[x]
  BY <1>6, <1>7 DEF Threads
<1>10. \A n \in Monitors : workers[n] \in Workers \union {Nobody}
  BY <1>6 DEF TypeOK
<1>11. ASSUME NEW n \in Monitors
       PROVE  workers'[n] # Nobody => /\ th'[workers'[n]].pc # "idle" /\ th'[workers'[n]].mon = n
                                      /\ workers'[n] \notin cancelled'
  <2>1. CASE n = m
    <3>1. v \notin cancelled'
      BY <1>5, <1>6, <1>10 DEF WatchInv, Registry
    <3> QED BY <1>4, <1>7, <1>8, <2>1, <3>1
  <2>2. CASE n # m
    <3>1. SUFFICES ASSUME workers[n] # Nobody
                   PROVE  /\ th'[workers[n]].pc # "idle" /\ th'[workers[n]].mon = n
                          /\ workers[n] \notin cancelled'
      BY <1>8, <2>2
    <3>2. /\ th[workers[n]].pc # "idle" /\ th[workers[n]].mon = n /\ workers[n] \notin cancelled
          /\ workers[n] \in Workers
      BY <1>10, <3>1 DEF WatchInv, Registry
    <3>3. workers[m] # Nobody => th[workers[m]].mon = m
      BY DEF WatchInv, Registry
    <3> QED BY <1>5, <1>9, <2>2, <3>2, <3>3
  <2> QED BY <2>1, <2>2
<1>12. ASSUME NEW x \in cancelled'
       PROVE  th'[x].pc # "idle"
  <2>1. x \in Workers /\ th[x].pc # "idle"
    BY <1>5, <1>6, <1>10 DEF WatchInv, Registry, TypeOK
  <2> QED BY <1>9, <2>1
<1>13. \A h \in Handlers : th'[h] = next[h]
  BY <1>6, <1>7 DEF Threads
<1> QED BY <1>6, <1>8, <1>11, <1>12, <1>13 DEF Registry

\* The next statement of a request that changes its monitor, when only the row of
\* that monitor changes and the registry does not.
LEMMA RequestWatched ==
  ASSUME Inv, WatchInv, ChangesApart, NEW h \in Handlers, th[h].pc \in Changes, Only({h}),
         UNCHANGED <<starter, workers, cancelled>>, dropped \subseteq dropped',
         \A n \in Monitors \ {th[h].mon} : row'[n] = row[n],
         Informed(h)',
         th[h].mon \notin dropped' /\ Runs(row'[th[h].mon]) /\ starter.pc = "loop"
           => th'[h].mon = th[h].mon /\ th'[h].pc \in Taking
  PROVE  WatchInv'
PROOF
<1>1. TypeOK /\ h \in Threads /\ th[h].mon \in Monitors /\ h \notin Workers
  BY Shape, UptimeAssumption DEF Inv, Typed, Threads, Goroutine
<1>2. PICK m \in Monitors : m = th[h].mon
  BY <1>1
<1>3. \A u \in Threads \ {h} : th'[u] = th[u]
  BY DEF Only
<1>4. Registry'
  BY <1>1, <1>3, RegistryKept DEF WatchInv, Threads
<1>5. \A g \in Handlers \ {h} : th'[g] = th[g] /\ (th[g].pc \in Changes => th[g].mon # m)
  BY <1>2, <1>3 DEF ChangesApart, Threads
<1>6. starter.pc = "loop" /\ m \notin dropped' /\ Runs(row'[m]) => Covered(m)'
  BY <1>2 DEF Covered, Taken
<1> QED BY <1>2, <1>4, <1>5, <1>6, ChangeWatched

\* CreateMonitor: the request is about to start the worker of the new row.
LEMMA CreateWatched ==
  ASSUME Inv, WatchInv, NEW h \in Handlers, CreateMonitor(h)
  PROVE  WatchInv'
PROOF
<1>1. PICK m \in Monitors \ used, c \in {d \in Configs : Runs(d)} :
        /\ Request(h, m, "new-state", c)
        /\ row' = [row EXCEPT ![m] = c]
  BY DEF CreateMonitor
<1>2. TypeOK /\ h \in Threads /\ h \notin Workers /\ th[h].pc = "idle"
      /\ UNCHANGED <<starter, workers, cancelled, dropped>>
  BY <1>1, UptimeAssumption DEF Inv, Typed, Threads, Request, CreateMonitor, engine, told_
<1> DEFINE g == [Idle EXCEPT !.pc = "new-state", !.mon = m, !.cfg = c]
<1>3. c \in AllConfigs \union {NoRow} /\ "new-state" \in Pcs /\ Runs(c)
  BY <1>1, UptimeAssumption DEF Pcs
<1>4. g \in Goroutine /\ g.pc = "new-state" /\ g.mon = m /\ g.cfg = c
  BY <1>3, IdleIs DEF Goroutine
<1>5. th' = [th EXCEPT ![h] = g]
  BY <1>1 DEF Request
<1>6. Only({h}) /\ th'[h] = g
  BY <1>2, <1>4, <1>5, BecomesMoves
<1> HIDE DEF g
<1>7. \A u \in Threads \ {h} : th'[u] = th[u]
  BY <1>6 DEF Only
<1>8. Registry'
  BY <1>2, <1>7, RegistryKept DEF WatchInv, Threads
<1>9. \A u \in Handlers \ {h} : th'[u] = th[u] /\ (th[u].pc \in Changes => th[u].mon # m)
  BY <1>1, <1>7 DEF Inv, Fresh, Threads, Changes
<1>10. \A n \in Monitors \ {m} : row'[n] = row[n] /\ workers'[n] = workers[n]
  BY <1>1, <1>2 DEF TypeOK
<1>11. Informed(h)' /\ Covered(m)'
  BY <1>3, <1>4, <1>6 DEF Informed, Covered, Taken, Taking
<1> QED BY <1>1, <1>2, <1>8, <1>9, <1>10, <1>11, ChangeWatched

\* InsertState: the worker is next, or the creation has failed half-way.
LEMMA InsertStateWatched ==
  ASSUME Inv, WatchInv, ChangesApart, NEW h \in Handlers, InsertState(h)
  PROVE  WatchInv'
PROOF
<1>1. TypeOK /\ h \in Threads /\ th[h].pc = "new-state" /\ th[h].pc \in Changes
      /\ UNCHANGED <<row, starter, workers, cancelled>>
  BY DEF Inv, Typed, Threads, InsertState, engine, Changes
<1>2. CASE Goto(h, "add") /\ UNCHANGED dropped
  <2>1. Only({h}) /\ At(h, "add")
    BY <1>1, <1>2, GotoMoves DEF Pcs
  <2>2. Informed(h)'
    BY <1>1, <2>1 DEF WatchInv, Informed, At
  <2> QED BY <1>1, <1>2, <2>1, <2>2, RequestWatched DEF At, Taking
<1>3. CASE th' = [th EXCEPT ![h] = Idle] /\ dropped' = dropped \union {th[h].mon}
  <2>1. Only({h}) /\ th'[h] = Idle
    BY <1>1, <1>3, IdleIs, BecomesMoves
  <2>2. Informed(h)'
    BY <2>1, IdleIs DEF Informed
  <2> QED BY <1>1, <1>3, <2>1, <2>2, RequestWatched
<1> QED BY <1>2, <1>3 DEF InsertState

\* SaveMonitor: a monitor that becomes active is about to get a worker.
LEMMA SaveWatched ==
  ASSUME Inv, WatchInv, ChangesApart, NEW h \in Handlers, SaveMonitor(h)
  PROVE  WatchInv'
PROOF
<1> DEFINE m == th[h].mon
           saved == CASE th[h].pc = "save" -> th[h].cfg
                      [] th[h].pc = "pause" -> [row[m] EXCEPT !.active = FALSE]
                      [] th[h].pc = "resume" -> [row[m] EXCEPT !.active = TRUE]
                      [] OTHER -> NoRow
           next == CASE th[h].pc = "save" -> "remove-add"
                     [] th[h].pc = "pause" -> "remove"
                     [] OTHER -> "reread"
<1>1. TypeOK /\ h \in Threads /\ h \notin Workers /\ th[h] \in Goroutine
      /\ th[h].pc \in {"save", "pause", "resume"}
      /\ UNCHANGED <<starter, workers, cancelled, dropped>>
  BY Shape, UptimeAssumption DEF Inv, Typed, Threads, SaveMonitor, engine, told_
<1>2. CASE row' = [row EXCEPT ![m] = IF Exists(m) THEN saved ELSE NoRow] /\ Goto(h, next)
  <2>1. next \in Pcs /\ next \in {"remove-add", "remove", "reread"}
    BY <1>1 DEF Pcs
  <2>2. Only({h}) /\ At(h, next)
    <3> HIDE DEF next
    <3> QED BY <1>1, <1>2, <2>1, GotoMoves
  <2>3. m \in Monitors /\ row'[m] \in {saved, NoRow} /\ \A n \in Monitors \ {m} : row'[n] = row[n]
    BY <1>1, <1>2 DEF TypeOK, Goroutine
  <2>4. th[h].pc = "save" /\ Runs(row'[m]) => Runs(th[h].cfg)
    BY <2>3, Plain
  <2>5. th[h].pc = "pause" => ~Runs(row'[m])
    <3>1. ASSUME th[h].pc = "pause" PROVE saved = [row[m] EXCEPT !.active = FALSE]
      BY <3>1
    <3>2. ~Runs([row[m] EXCEPT !.active = FALSE])
      BY SMTT(30), <1>1, <2>3 DEF TypeOK, AllConfigs, NoRow, Runs
    <3> QED BY <2>3, <3>1, <3>2, Plain
  <2>6. Informed(h)'
    BY <1>1, <2>2, <2>4, <2>5 DEF Informed, At
  <2>7. Runs(row'[m]) => th'[h].mon = m /\ th'[h].pc \in Taking
    BY <1>1, <2>2, <2>5 DEF At, Taking
  <2>8. th[h].pc \in Changes
    BY <1>1 DEF Changes
  <2> QED BY <1>1, <2>2, <2>3, <2>6, <2>7, <2>8, RequestWatched
<1>3. CASE th' = [th EXCEPT ![h] = Idle] /\ UNCHANGED row
  <2>1. Only({h}) /\ th'[h] = Idle
    BY <1>1, <1>3, IdleIs, BecomesMoves
  <2> QED BY <1>1, <1>3, <2>1, IdleIs, MoveWatched DEF Taking
<1> QED BY <1>2, <1>3 DEF SaveMonitor

\* Reread: the request goes by the row it has read.
LEMMA RereadWatched ==
  ASSUME Inv, WatchInv, ChangesApart, NEW h \in Handlers, Reread(h)
  PROVE  WatchInv'
PROOF
<1> DEFINE m == th[h].mon
<1>1. TypeOK /\ h \in Threads /\ th[h] \in Goroutine /\ th[h].pc = "reread" /\ th[h].pc \in Changes
      /\ UNCHANGED <<row, starter, workers, cancelled, dropped>>
  BY Shape DEF Inv, Typed, Threads, Reread, db, engine, told_, Changes
<1>2. CASE Exists(m) /\ th' = [th EXCEPT ![h] = [th[h] EXCEPT !.pc = "add", !.cfg = row[m]]]
  <2> DEFINE g == [th[h] EXCEPT !.pc = "add", !.cfg = row[m]]
  <2>1. row[m] \in AllConfigs \union {NoRow}
    BY <1>1 DEF TypeOK, Goroutine
  <2>2. g \in Goroutine /\ g.pc = "add" /\ g.mon = m /\ g.cfg = row[m]
    BY <1>1, <2>1 DEF Goroutine, Pcs
  <2>3. Only({h}) /\ th'[h] = g
    BY <1>1, <1>2, <2>2, BecomesMoves
  <2> HIDE DEF g
  <2>4. Informed(h)'
    BY <1>1, <2>2, <2>3 DEF Informed
  <2> QED BY <1>1, <2>2, <2>3, <2>4, RequestWatched DEF Taking
<1>3. CASE ~Exists(m) /\ th' = [th EXCEPT ![h] = Idle]
  <2>1. Only({h}) /\ th'[h] = Idle
    BY <1>1, <1>3, IdleIs, BecomesMoves
  <2>2. Informed(h)' /\ ~Runs(row'[m])
    BY <1>1, <1>3, <2>1, IdleIs, Plain DEF Informed, Exists
  <2> QED BY <1>1, <2>1, <2>2, RequestWatched
<1> QED BY <1>2, <1>3 DEF Reread

\* DeleteMonitor: the row is gone, or the deletion has failed.
LEMMA DeleteWatched ==
  ASSUME Inv, WatchInv, ChangesApart, NEW h \in Handlers, DeleteMonitor(h)
  PROVE  WatchInv'
PROOF
<1> DEFINE m == th[h].mon
<1>1. TypeOK /\ h \in Threads /\ h \notin Workers /\ th[h] \in Goroutine
      /\ th[h].pc \in {"delete", "delete-last"} /\ th[h].pc \in Changes
      /\ UNCHANGED <<starter, workers, cancelled>>
  BY Shape, UptimeAssumption DEF Inv, Typed, Threads, DeleteMonitor, engine, Changes
<1>2. CASE /\ row' = [row EXCEPT ![m] = NoRow] /\ UNCHANGED dropped
           /\ th' = [th EXCEPT ![h] = IF @.pc = "delete" THEN [@ EXCEPT !.pc = "remove"]
                                      ELSE Idle]
  <2> DEFINE g == IF th[h].pc = "delete" THEN [th[h] EXCEPT !.pc = "remove"] ELSE Idle
  <2>1. [th[h] EXCEPT !.pc = "remove"] \in Goroutine
        /\ [th[h] EXCEPT !.pc = "remove"].mon = m /\ [th[h] EXCEPT !.pc = "remove"].pc = "remove"
    BY <1>1 DEF Goroutine, Pcs
  <2>2. g \in Goroutine /\ ((g.pc = "remove" /\ g.mon = m) \/ g.pc = "idle")
    BY <2>1, IdleIs
  <2>3. th' = [th EXCEPT ![h] = g]
    BY <1>1, <1>2
  <2>4. Only({h}) /\ th'[h] = g
    BY <1>1, <2>2, <2>3, BecomesMoves
  <2> HIDE DEF g
  <2>5. ~Runs(row'[m]) /\ \A n \in Monitors \ {m} : row'[n] = row[n]
    BY <1>1, <1>2, Plain DEF TypeOK, Goroutine
  <2>6. Informed(h)'
    BY <2>2, <2>4, <2>5 DEF Informed
  <2> QED BY <1>1, <1>2, <2>4, <2>5, <2>6, RequestWatched
<1>3. CASE /\ th' = [th EXCEPT ![h] = Idle] /\ UNCHANGED row
           /\ dropped' = IF th[h].pc = "delete-last" THEN dropped \union {m} ELSE dropped
  <2>1. Only({h}) /\ th'[h] = Idle
    BY <1>1, <1>3, IdleIs, BecomesMoves
  <2>2. CASE th[h].pc = "delete-last"
    <3>1. Informed(h)' /\ m \in dropped' /\ dropped \subseteq dropped'
      BY <1>3, <2>1, <2>2, IdleIs DEF Informed
    <3> QED BY <1>1, <1>3, <2>1, <3>1, RequestWatched
  <2>3. CASE th[h].pc = "delete"
    BY <1>1, <1>3, <2>1, <2>3, IdleIs, MoveWatched DEF Taking
  <2> QED BY <1>1, <2>2, <2>3
<1> QED BY <1>2, <1>3 DEF DeleteMonitor

\* AddMonitor starts the worker, unless the monitor is not active or Engine.Start
\* has yet to list it.
LEMMA AddWatched ==
  ASSUME Inv, WatchInv, ChangesApart, NEW h \in Handlers, AddMonitor(h)
  PROVE  WatchInv'
PROOF
<1> DEFINE m == th[h].mon
           c == th[h].cfg
           next == [th EXCEPT ![h] = Idle]
<1>1. TypeOK /\ h \in Threads /\ h \notin Workers /\ th[h] \in Goroutine /\ m \in Monitors
      /\ th[h].pc = "add" /\ th[h].pc \in Changes /\ UNCHANGED <<row, starter, dropped>>
  BY Shape, UptimeAssumption
     DEF Inv, Typed, Threads, AddMonitor, db, told_, Changes, Goroutine
<1>2. /\ next \in [Threads -> Goroutine] /\ next[h] = Idle
      /\ \A u \in Threads \ {h} : next[u] = th[u]
  BY <1>1, IdleIs, Shape
<1>3. CASE ~(Runs(c) /\ starter.pc # "idle") /\ th' = next /\ UNCHANGED <<workers, cancelled>>
  <2>1. Only({h}) /\ th'[h] = Idle
    BY <1>2, <1>3 DEF Only
  <2>2. Informed(h)'
    BY <2>1, IdleIs DEF Informed
  <2>3. starter.pc = "loop" => ~Runs(row'[m])
    BY <1>1, <1>3 DEF WatchInv, Informed
  <2> QED BY <1>1, <1>3, <2>1, <2>2, <2>3, RequestWatched
<1>4. CASE Runs(c) /\ startWorker(m, c, next)
  <2>1. c \in AllConfigs
    BY <1>1, <1>4, Plain DEF Goroutine
  <2>2. \A w \in Workers : next[w] = th[w]
    BY <1>1, <1>2 DEF Threads
  <2>3. /\ Registry' /\ workers'[m] # Nobody
        /\ \A n \in Monitors \ {m} : workers'[n] = workers[n]
        /\ \A g \in Handlers : th'[g] = next[g]
    <3> HIDE DEF next, m, c
    <3> QED BY SMTT(30), <1>1, <1>2, <1>4, <2>1, <2>2, StartWorkerWatched
  <2> HIDE DEF next
  <2>4. \A g \in Handlers \ {h} : th'[g] = th[g] /\ (th[g].pc \in Changes => th[g].mon # m)
    BY <1>1, <1>2, <2>3 DEF ChangesApart, Threads
  <2>5. PICK k \in Monitors : k = m
    BY <1>1
  <2>6. Informed(h)' /\ Covered(k)'
    BY <1>2, <2>3, <2>5, IdleIs DEF Informed, Covered
  <2> HIDE DEF m
  <2> QED BY <1>1, <2>3, <2>4, <2>5, <2>6, ChangeWatched DEF m
<1> QED BY <1>3, <1>4 DEF AddMonitor

\* RemoveMonitor takes the worker from a monitor that is not active, or before
\* the request starts another or deletes the row.
LEMMA RemoveWatched ==
  ASSUME Inv, WatchInv, ChangesApart, NEW h \in Handlers, Remove(h)
  PROVE  WatchInv'
PROOF
<1> DEFINE m == th[h].mon
           g == CASE th[h].pc = "remove" -> Idle
                  [] th[h].pc = "remove-add" -> [th[h] EXCEPT !.pc = "add"]
                  [] OTHER -> [th[h] EXCEPT !.pc = "delete-last"]
<1>1. /\ TypeOK /\ h \in Threads /\ h \notin Workers /\ th[h] \in Goroutine /\ m \in Monitors
      /\ th[h].pc \in {"remove", "remove-add", "remove-delete"} /\ th[h].pc \in Changes
      /\ UNCHANGED <<row, starter, dropped>>
  BY Shape, UptimeAssumption DEF Inv, Typed, Threads, Remove, db, told_, Changes, Goroutine
<1>2. /\ [th[h] EXCEPT !.pc = "add"] \in Goroutine
      /\ [th[h] EXCEPT !.pc = "add"].pc = "add" /\ [th[h] EXCEPT !.pc = "add"].mon = m
      /\ [th[h] EXCEPT !.pc = "add"].cfg = th[h].cfg
      /\ [th[h] EXCEPT !.pc = "delete-last"] \in Goroutine
      /\ [th[h] EXCEPT !.pc = "delete-last"].pc = "delete-last"
      /\ [th[h] EXCEPT !.pc = "delete-last"].mon = m
  BY <1>1 DEF Goroutine, Pcs
<1>3. /\ g \in Goroutine
      /\ \/ th[h].pc = "remove" /\ g.pc = "idle"
         \/ th[h].pc = "remove-add" /\ g.pc = "add" /\ g.mon = m /\ g.cfg = th[h].cfg
         \/ g.pc = "delete-last" /\ g.mon = m
  BY <1>1, <1>2, IdleIs
<1>4. th' = [th EXCEPT ![h] = g]
  BY DEF Remove
<1>5. Only({h}) /\ th'[h] = g
  BY <1>1, <1>3, <1>4, BecomesMoves
<1> HIDE DEF g
<1>6. /\ workers'[m] = Nobody /\ \A n \in Monitors \ {m} : workers'[n] = workers[n]
      /\ cancelled' = cancelled \union ({workers[m]} \ {Nobody})
  BY <1>1 DEF Remove, RemoveMonitor, TypeOK
<1>7. \A u \in Threads \ {h} : th'[u] = th[u]
  BY <1>5 DEF Only
<1>8. Registry'
  <2>1. \A n \in Monitors : workers[n] \in (Threads \ {h}) \union {Nobody}
    BY <1>1 DEF TypeOK, Threads
  <2>2. cancelled \subseteq Threads \ {h}
    BY <1>1 DEF TypeOK, Threads
  <2>3. ASSUME NEW x \in cancelled'
        PROVE  th'[x].pc # "idle"
    <3>1. x \in Threads \ {h} /\ th[x].pc # "idle"
      BY <1>1, <1>6, <2>1, <2>2 DEF WatchInv, Registry
    <3> QED BY <1>7, <3>1
  <2>4. ASSUME NEW n \in Monitors, workers'[n] # Nobody
        PROVE  /\ th'[workers'[n]].pc # "idle" /\ th'[workers'[n]].mon = n
               /\ workers'[n] \notin cancelled'
    <3>1. n # m /\ workers'[n] = workers[n]
      BY <1>6, <2>4
    <3>2. /\ th[workers[n]].pc # "idle" /\ th[workers[n]].mon = n /\ workers[n] \notin cancelled
          /\ th'[workers[n]] = th[workers[n]]
      BY <1>7, <2>1, <2>4, <3>1 DEF WatchInv, Registry
    <3>3. workers[m] # Nobody => th[workers[m]].mon = m
      BY <1>1 DEF WatchInv, Registry
    <3> QED BY SMTT(30), <1>6, <3>1, <3>2, <3>3
  <2> QED BY <2>3, <2>4 DEF Registry
<1>9. \A u \in Handlers \ {h} : th'[u] = th[u] /\ (th[u].pc \in Changes => th[u].mon # m)
  BY <1>1, <1>7 DEF ChangesApart, Threads
<1>10. Informed(h)
  BY DEF WatchInv
<1>11. Informed(h)'
  BY <1>1, <1>3, <1>5, <1>10 DEF Informed
<1>12. PICK k \in Monitors : k = m
  BY <1>1
<1>13. Runs(row'[k]) => Covered(k)'
  <2>1. Runs(row[k]) => th[h].pc # "remove"
    BY <1>10, <1>12 DEF Informed
  <2> QED BY <1>1, <1>3, <1>5, <1>12, <2>1 DEF Covered, Taken, Taking
<1> QED BY <1>1, <1>6, <1>8, <1>9, <1>11, <1>12, <1>13, ChangeWatched

\* Engine.Start lists every active monitor and starts a worker for each of them.
LEMMA StarterWatched ==
  ASSUME Inv, WatchInv, Starter
  PROVE  WatchInv'
PROOF
<1>1. TypeOK /\ th \in [Threads -> Goroutine] /\ UNCHANGED <<row, dropped>>
  BY Shape DEF Inv, Typed, Starter, StartContext, StartList, StartLoop, db, told_
<1>2. CASE StartContext \/ StartList
  <2>1. UNCHANGED <<th, workers, cancelled>>
    BY <1>2 DEF StartContext, StartList
  <2>2. Registry' /\ \A h \in Handlers : Informed(h)'
    BY <1>1, <2>1 DEF WatchInv, Registry, Informed
  <2>3. ASSUME starter'.pc = "loop", NEW m \in Monitors, Runs(row'[m])
        PROVE  Covered(m)'
    <3>1. starter' = [pc |-> "loop",
                      todo |-> {<<n, row[n]>> : n \in {k \in Monitors : Runs(row[k])}}]
      BY <1>1, <1>2, <2>3 DEF StartContext, StartList, TypeOK
    <3>2. <<m, row[m]>> \in starter'.todo /\ <<m, row[m]>>[1] = m
      BY <1>1, <2>3, <3>1
    <3> QED BY <3>2 DEF Covered, Listed
  <2> QED BY <2>2, <2>3 DEF WatchInv
<1>3. CASE StartLoop
  <2>1. PICK x \in starter.todo : /\ startWorker(x[1], x[2], th)
                                  /\ starter' = [starter EXCEPT !.todo = @ \ {x}]
    BY <1>3 DEF StartLoop
  <2>2. PICK m \in Monitors, c \in AllConfigs : x = <<m, c>>
    BY SMTT(30), <1>1, <2>1 DEF TypeOK
  <2>3. startWorker(m, c, th) /\ (\A w \in Workers : th[w] = th[w]) /\ x[1] = m
    BY <2>1, <2>2
  <2>4. /\ Registry' /\ workers'[m] # Nobody
        /\ \A n \in Monitors \ {m} : workers'[n] = workers[n]
        /\ \A h \in Handlers : th'[h] = th[h]
    BY SMTT(30), <1>1, <2>3, StartWorkerWatched
  <2>5. \A h \in Handlers : Informed(h)'
    BY <1>1, <2>4 DEF WatchInv, Informed
  <2>6. starter.pc = "loop" /\ starter'.todo = starter.todo \ {x}
    BY <1>1, <1>3, <2>1 DEF StartLoop, TypeOK
  <2>7. ASSUME NEW n \in Monitors, Covered(n)
        PROVE  Covered(n)'
    <3>1. CASE n = m
      BY <2>4, <3>1 DEF Covered
    <3>2. CASE n # m
      <4>1. Listed(n) => Listed(n)'
        BY <2>3, <2>6, <3>2 DEF Listed
      <4>2. Taken(n) => Taken(n)'
        BY <2>4 DEF Taken
      <4> QED BY <2>4, <2>7, <3>2, <4>1, <4>2 DEF Covered
    <3> QED BY <3>1, <3>2
  <2> QED BY <1>1, <2>4, <2>5, <2>6, <2>7 DEF WatchInv
<1> QED BY <1>2, <1>3 DEF Starter

\* The other steps: the migration, a crash, and a target that changes.
LEMMA RestWatched ==
  ASSUME Inv, WatchInv, Startup \/ Crash \/ Flip \/ UNCHANGED vars
  PROVE  WatchInv'
PROOF
<1>1. CASE Startup \/ Flip \/ UNCHANGED vars
  <2>1. UNCHANGED <<row, starter, workers, cancelled, th, dropped>>
    BY <1>1 DEF Startup, Boot, Backfill, Relink, Reconcile, ClearPointers, ResetOrphaned,
       CreateIndex, Migrates, Flip, vars, db, engine, told_
  <2> QED BY <2>1 DEF WatchInv, Registry, Informed, Covered, Listed, Taken
<1>2. CASE Crash
  <2>1. /\ starter'.pc = "idle" /\ cancelled' = {}
        /\ \A m \in Monitors : workers'[m] = Nobody
        /\ \A h \in Handlers : th'[h].pc = "idle"
    BY <1>2, IdleIs DEF Crash, Threads
  <2> QED BY <2>1 DEF WatchInv, Registry, Informed
<1> QED BY <1>1, <1>2

\* WatchInv holds before the panel has started.
LEMMA InitWatched == Init => WatchInv
PROOF
  BY SMTT(30), IdleIs DEF Init, WatchInv, Registry, Informed, Threads

\* Every step keeps it, as long as no two requests change the same monitor.
LEMMA NextWatched == Inv /\ ChangesApart /\ WatchInv /\ [Next]_vars => WatchInv'
PROOF
<1> SUFFICES ASSUME Inv, ChangesApart, WatchInv, [Next]_vars PROVE WatchInv'
  OBVIOUS
<1>0. Inv' /\ TypeOK
  BY NextInv DEF Inv, Typed
<1>1. CASE Startup \/ Starter \/ Crash \/ Flip \/ UNCHANGED vars
  BY <1>1, StarterWatched, RestWatched
<1>2. ASSUME NEW w \in Workers, Tick(w) \/ WorkerExit(w)
      PROVE  WatchInv'
  BY <1>2, TickWatched, WorkerExitWatched
<1>3. ASSUME NEW t \in Threads, Lock(t) \/ Check(t)
      PROVE  WatchInv'
  BY <1>0, <1>3, CheckWatched
<1>4. ASSUME NEW h \in Handlers, Handle(h) \/ CreateMonitor(h)
      PROVE  WatchInv'
  BY <1>4, InsertStateWatched, AddWatched, RemoveWatched, SaveWatched, RereadWatched,
     DeleteWatched, CreateWatched DEF Handle
<1>5. ASSUME NEW h \in Handlers,
             UpdateMonitor(h) \/ Delete(h) \/ Pause(h) \/ Resume(h) \/ DeleteDomain(h)
             \/ CheckNow(h)
      PROVE  WatchInv'
  <2>1. PICK m \in Monitors, c \in AllConfigs \union {NoRow},
             p \in {"save", "delete", "pause", "resume", "remove-delete", "lock"} :
               Existing(h, m, p, c)
    BY <1>0, <1>5, UptimeAssumption
       DEF UpdateMonitor, Delete, Pause, Resume, DeleteDomain, CheckNow, TypeOK
  <2> QED BY <1>0, <2>1, ExistingWatched
<1> QED BY <1>1, <1>2, <1>3, <1>4, <1>5 DEF Next

\* Engine.Start, AddMonitor, UpdateMonitor and RemoveMonitor leave no active
\* monitor without a worker, however Start, requests for different monitors,
\* checks, failed statements and crashes interleave.  Two requests that change
\* the same monitor at once are excluded: the code does not serialize them.
THEOREM ActiveMonitorsAreWatched == Spec /\ []ChangesApart => []ActiveIsWatched
PROOF
<1>1. Inv /\ WatchInv => ActiveIsWatched
  <2>1. SUFFICES ASSUME Inv, WatchInv, starter = [pc |-> "loop", todo |-> {}],
                        \A h \in Handlers : th[h].pc = "idle",
                        NEW m \in Monitors \ dropped, Runs(row[m])
                 PROVE  Watched(m)
    BY DEF ActiveIsWatched
  <2>2. starter.pc = "loop" /\ starter.todo = {}
    BY <2>1
  <2>3. Covered(m) /\ ~Listed(m) /\ ~Taken(m)
    BY <2>1, <2>2 DEF WatchInv, Listed, Taken, Taking
  <2>4. workers[m] # Nobody
    BY <2>3 DEF Covered
  <2> QED BY <2>1, <2>4 DEF WatchInv, Registry, Watched
<1> QED BY <1>1, InitWatched, NextWatched, Always, PTL DEF Spec
=============================================================================
