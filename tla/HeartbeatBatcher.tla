-------------------------- MODULE HeartbeatBatcher --------------------------
(***************************************************************************)
(* The heartbeats of the uptime engine (internal/services/uptime): every   *)
(* check appends one to a buffer that any goroutine may flush, in one      *)
(* transaction, to a table whose foreign key refers to the monitors; a     *)
(* monitor can be deleted while its heartbeats wait.                       *)
(*                                                                         *)
(* A heartbeat is represented by its monitor.  One check of a behaviour is *)
(* marked and its heartbeat followed; the other heartbeats of a monitor    *)
(* are not told apart, and in the table they do not matter.  A heartbeat   *)
(* carries the time of its check, so the order of the buffer does not      *)
(* matter either.                                                          *)
(***************************************************************************)

CONSTANTS
  Monitors,   \* the monitors there are at first
  Checkers,   \* goroutines that make checks: workers and CheckNow requests
  MayFail     \* whether the insert of a batch may fail by itself

VARIABLES
  rows,           \* uptime_monitors
  table,          \* uptime_heartbeats, the marked one
  buffer,         \* HeartbeatBatcher.buffer
  batch,          \* the batches that are being inserted
  pc, mon,        \* the goroutines that make checks, the monitor they check
  marked          \* the monitor of the marked check

vars == <<rows, table, buffer, batch, pc, mon, marked>>

Nobody == "nobody"
Beats == Monitors \X {"marked", "other"}
Marked(m) == <<m, "marked">>
Other(m) == <<m, "other">>
Flushers == Checkers \union {"batcher"}

Init ==
  /\ rows = Monitors
  /\ table = {}
  /\ buffer = {}
  /\ batch = [f \in Flushers |-> {}]
  /\ pc = [c \in Checkers |-> "idle"]
  /\ mon \in [Checkers -> Monitors]
  /\ marked = Nobody

\* runCheck: the target of a monitor is probed ...
Probe(c) ==
  /\ pc[c] = "idle"
  /\ \E m \in rows : mon' = [mon EXCEPT ![c] = m]
  /\ pc' = [pc EXCEPT ![c] = "probe"]
  /\ UNCHANGED <<rows, table, buffer, batch, marked>>

\* ... and its heartbeat added, also when the monitor was deleted meanwhile.
\* Then Add flushes a buffer of 100, and CheckNow always flushes.
Add(c) ==
  /\ pc[c] = "probe"
  /\ \/ marked = Nobody /\ marked' = mon[c] /\ buffer' = buffer \union {Marked(mon[c])}
     \/ buffer' = buffer \union {Other(mon[c])} /\ UNCHANGED marked
  /\ \E next \in {"idle", "flush"} : pc' = [pc EXCEPT ![c] = next]
  /\ UNCHANGED <<rows, table, batch, mon>>

\* Flush under its mutex: the buffer becomes the batch.
Take(f) ==
  /\ batch' = [batch EXCEPT ![f] = buffer]
  /\ buffer' = {}

\* InsertHeartbeatBatch: all or nothing.  The foreign key refuses a heartbeat
\* whose monitor is gone, and an error puts the whole batch back.
Insert(f) ==
  /\ \/ /\ \A b \in batch[f] : b[1] \in rows
        /\ table' = table \union {b \in batch[f] : b[2] = "marked"}
        /\ UNCHANGED buffer
     \/ /\ MayFail \/ \E b \in batch[f] : b[1] \notin rows
        /\ buffer' = batch[f] \union buffer
        /\ UNCHANGED table
  /\ batch' = [batch EXCEPT ![f] = {}]

CheckerFlush(c) ==
  /\ \/ /\ pc[c] = "flush" /\ buffer # {}
        /\ Take(c)
        /\ pc' = [pc EXCEPT ![c] = "insert"]
        /\ UNCHANGED table
     \/ /\ pc[c] = "flush" /\ buffer = {}
        /\ pc' = [pc EXCEPT ![c] = "idle"]
        /\ UNCHANGED <<table, buffer, batch>>
     \/ /\ pc[c] = "insert"
        /\ Insert(c)
        /\ pc' = [pc EXCEPT ![c] = "idle"]
  /\ UNCHANGED <<rows, mon, marked>>

\* HeartbeatBatcher.Run, every five seconds.
BatcherTake ==
  /\ batch["batcher"] = {} /\ buffer # {}
  /\ Take("batcher")
  /\ UNCHANGED <<rows, table, pc, mon, marked>>

BatcherInsert ==
  /\ batch["batcher"] # {}
  /\ Insert("batcher")
  /\ UNCHANGED <<rows, pc, mon, marked>>

\* DeleteMonitor, and its cascade to the heartbeats in the table.
DeleteMonitor ==
  /\ \E m \in rows : rows' = rows \ {m} /\ table' = table \ {Marked(m)}
  /\ UNCHANGED <<buffer, batch, pc, mon, marked>>

Next ==
  \/ BatcherTake \/ BatcherInsert \/ DeleteMonitor
  \/ \E c \in Checkers : Probe(c) \/ Add(c) \/ CheckerFlush(c)

Spec == Init /\ [][Next]_vars

\* The ticker of Run fires and its goroutine, like those of the checks, goes on.
Fairness ==
  /\ WF_vars(BatcherTake) /\ WF_vars(BatcherInsert)
  /\ \A c \in Checkers : WF_vars(Add(c) \/ CheckerFlush(c))

FairSpec == Spec /\ Fairness

-----------------------------------------------------------------------------
\* The buffer, the batches and the table hold heartbeats of monitors.
TypeOK ==
  /\ rows \subseteq Monitors
  /\ table \subseteq Beats
  /\ buffer \subseteq Beats
  /\ batch \in [Flushers -> SUBSET Beats]
  /\ pc \in [Checkers -> {"idle", "probe", "flush", "insert"}]
  /\ mon \in [Checkers -> Monitors]
  /\ marked \in Monitors \union {Nobody}

\* Where the marked heartbeat is.
Batches == {f \in Flushers : Marked(marked) \in batch[f]}
InBuffer == Marked(marked) \in buffer
InTable == Marked(marked) \in table

\* A recorded check is held exactly once, by the buffer, by one batch or by the
\* table, whatever flushes overlap, fail and put their batches back, until its
\* monitor is deleted; from then on at most once.
CheckKeptOnce ==
  marked # Nobody =>
    /\ InBuffer => ~InTable /\ Batches = {}
    /\ InTable => Batches = {}
    /\ \A f, g \in Batches : f = g
    /\ marked \in rows => InBuffer \/ InTable \/ Batches # {}

\* Every check becomes a row of uptime_heartbeats, unless its monitor is
\* deleted.
ChecksStored ==
  \A m \in Monitors : [](marked = m => <>(Marked(m) \in table \/ m \notin rows))

=============================================================================
