----------------------- MODULE HeartbeatBatcherProofs -----------------------
(***************************************************************************)
(* The buffer of the uptime engine neither loses nor doubles a heartbeat,  *)
(* for any number of monitors and of goroutines that check and flush.      *)
(*                                                                         *)
(* CheckKeptOnce is not inductive: a flush overwrites the batch of its     *)
(* goroutine, so the batch of one that is not inserting must be empty, and *)
(* the first marked heartbeat must not be there before its check.          *)
(***************************************************************************)
EXTENDS HeartbeatBatcher, TLAPS

\* The names the model gives itself are not those of monitors and checkers.
NamesAreFree == Nobody \notin Monitors /\ "batcher" \notin Checkers

\* Only a goroutine that inserts has a batch.
OwnBatch == \A c \in Checkers : pc[c] # "insert" => batch[c] = {}

\* No heartbeat is marked before the marked check.
NoneMarked ==
  marked = Nobody =>
    \A m \in Monitors :
      /\ Marked(m) \notin buffer
      /\ Marked(m) \notin table
      /\ \A f \in Flushers : Marked(m) \notin batch[f]

\* Where the heartbeat of monitor m is, at most in one place.
Once(m) ==
  /\ Marked(m) \in buffer => Marked(m) \notin table
  /\ Marked(m) \in buffer => \A f \in Flushers : Marked(m) \notin batch[f]
  /\ Marked(m) \in table => \A f \in Flushers : Marked(m) \notin batch[f]
  /\ \A f, g \in Flushers : Marked(m) \in batch[f] /\ Marked(m) \in batch[g] => f = g

\* And in one place at least as long as m exists.
Kept(m) ==
  m \in rows =>
    \/ Marked(m) \in buffer
    \/ Marked(m) \in table
    \/ \E f \in Flushers : Marked(m) \in batch[f]

Inv ==
  /\ TypeOK
  /\ OwnBatch
  /\ NoneMarked
  /\ marked # Nobody => Once(marked) /\ Kept(marked)

-----------------------------------------------------------------------------
(* What a flush does to one heartbeat.                                     *)

\* The flusher f takes the buffer; it stores its batch or puts it back.
TakesAll(f) == Take(f) /\ batch[f] = {} /\ UNCHANGED <<rows, table, marked>>
Inserts(f) == Insert(f) /\ UNCHANGED <<rows, marked>>

\* Flush: the marked heartbeat moves from the buffer to the batch of f, and to
\* no other.
LEMMA TakeMoves ==
  ASSUME Inv, NEW f \in Flushers, TakesAll(f)
  PROVE  /\ NoneMarked'
         /\ marked # Nobody => (Once(marked) /\ Kept(marked))'
PROOF
<1>1. /\ batch' = [batch EXCEPT ![f] = buffer] /\ buffer' = {} /\ batch[f] = {}
      /\ rows' = rows /\ table' = table /\ marked' = marked
      /\ batch \in [Flushers -> SUBSET Beats]
  BY DEF TakesAll, Take, Inv, TypeOK
<1>2. \A g \in Flushers : batch'[g] = IF g = f THEN buffer ELSE batch[g]
  BY <1>1
<1>3. NoneMarked'
  BY <1>1, <1>2 DEF Inv, NoneMarked
<1>4. marked # Nobody => Once(marked)' /\ Kept(marked)'
  BY <1>1, <1>2 DEF Inv, Once, Kept
<1> QED BY <1>3, <1>4, <1>1

\* InsertHeartbeatBatch and the put-back: it moves on to the table, or back to
\* the buffer, and leaves the batch.
LEMMA InsertMoves ==
  ASSUME NamesAreFree, Inv, NEW f \in Flushers, Inserts(f)
  PROVE  /\ NoneMarked'
         /\ marked # Nobody => (Once(marked) /\ Kept(marked))'
         /\ buffer' \subseteq Beats /\ table' \subseteq Beats
PROOF
<1>1. /\ batch' = [batch EXCEPT ![f] = {}]
      /\ rows' = rows /\ marked' = marked
      /\ batch \in [Flushers -> SUBSET Beats]
      /\ buffer \subseteq Beats /\ table \subseteq Beats
  BY DEF Inserts, Insert, Inv, TypeOK
<1>2. \A g \in Flushers : batch'[g] = IF g = f THEN {} ELSE batch[g]
  BY <1>1
<1>3. CASE /\ table' = table \union {b \in batch[f] : b[2] = "marked"}
           /\ buffer' = buffer
  <2>1. \A m : Marked(m) \in table' <=> Marked(m) \in table \/ Marked(m) \in batch[f]
    BY <1>3 DEF Marked
  <2>2. NoneMarked'
    BY <1>1, <1>2, <1>3, <2>1 DEF Inv, NoneMarked
  <2>3. marked # Nobody => Once(marked)' /\ Kept(marked)'
    BY <1>1, <1>2, <1>3, <2>1 DEF Inv, Once, Kept
  <2>4. buffer' \subseteq Beats /\ table' \subseteq Beats
    BY <1>1, <1>3
  <2> QED BY <2>2, <2>3, <2>4, <1>1
<1>4. CASE buffer' = batch[f] \union buffer /\ table' = table
  <2>1. NoneMarked'
    BY <1>1, <1>2, <1>4 DEF Inv, NoneMarked
  <2>2. marked # Nobody => Once(marked)' /\ Kept(marked)'
    BY <1>1, <1>2, <1>4 DEF Inv, Once, Kept
  <2>3. buffer' \subseteq Beats /\ table' \subseteq Beats
    BY <1>1, <1>4
  <2> QED BY <2>1, <2>2, <2>3, <1>1
<1> QED BY <1>3, <1>4 DEF Inserts, Insert

-----------------------------------------------------------------------------
(* The inductive invariant.                                                *)

\* The engine starts with an empty buffer.
LEMMA InitInv == ASSUME NamesAreFree, Init PROVE Inv
PROOF
<1>1. TypeOK
  BY DEF Init, TypeOK, Flushers, Nobody
<1>2. OwnBatch
  BY DEF Init, OwnBatch, Flushers
<1>3. NoneMarked
  BY DEF Init, NoneMarked
<1> QED BY <1>1, <1>2, <1>3 DEF Init, Inv

\* Every step of a check, of the batcher and of a deletion keeps Inv.
LEMMA NextInv == ASSUME NamesAreFree, Inv, [Next]_vars PROVE Inv'
PROOF
<1> USE DEF Flushers
<1>1. CASE UNCHANGED vars
  BY <1>1 DEF Inv, TypeOK, OwnBatch, NoneMarked, Once, Kept, vars
<1>2. ASSUME NEW c \in Checkers, Probe(c) PROVE Inv'
  BY <1>2 DEF Probe, Inv, TypeOK, OwnBatch, NoneMarked, Once, Kept
<1>3. ASSUME NEW c \in Checkers, Add(c) PROVE Inv'
  <2>1. TypeOK'
    BY <1>3 DEF Add, Inv, TypeOK, Beats, Marked, Other
  <2>2. OwnBatch'
    BY <1>3 DEF Add, Inv, TypeOK, OwnBatch
  <2>3. CASE /\ marked = Nobody /\ marked' = mon[c]
             /\ buffer' = buffer \union {Marked(mon[c])}
    <3>1. mon[c] \in Monitors /\ mon[c] # Nobody
      BY DEF Inv, TypeOK, NamesAreFree
    <3>2. NoneMarked'
      BY <2>3, <3>1 DEF NoneMarked
    <3>3. Once(marked)' /\ Kept(marked)'
      BY <1>3, <2>3, <3>1 DEF Add, Inv, NoneMarked, Once, Kept
    <3> QED BY <2>1, <2>2, <2>3, <3>2, <3>3 DEF Inv
  <2>4. CASE buffer' = buffer \union {Other(mon[c])} /\ marked' = marked
    <3>1. \A m : Marked(m) \in buffer' <=> Marked(m) \in buffer
      BY <2>4 DEF Marked, Other
    <3>2. NoneMarked'
      BY <1>3, <2>4, <3>1 DEF Add, Inv, NoneMarked
    <3>3. marked # Nobody => Once(marked)' /\ Kept(marked)'
      BY <1>3, <2>4, <3>1 DEF Add, Inv, Once, Kept
    <3> QED BY <2>1, <2>2, <2>4, <3>2, <3>3 DEF Inv
  <2> QED BY <1>3, <2>3, <2>4 DEF Add
<1>4. ASSUME NEW c \in Checkers, CheckerFlush(c) PROVE Inv'
  <2>1. CASE /\ pc[c] = "flush" /\ Take(c) /\ pc' = [pc EXCEPT ![c] = "insert"]
             /\ UNCHANGED table
    <3>1. TakesAll(c)
      BY <1>4, <2>1 DEF CheckerFlush, TakesAll, Inv, OwnBatch
    <3>2. TypeOK' /\ OwnBatch'
      BY <1>4, <2>1, <3>1 DEF CheckerFlush, TakesAll, Take, Inv, TypeOK, OwnBatch
    <3> QED BY <3>1, <3>2, TakeMoves DEF Inv, TakesAll
  <2>2. CASE /\ pc[c] = "flush" /\ pc' = [pc EXCEPT ![c] = "idle"]
             /\ UNCHANGED <<table, buffer, batch>>
    BY <1>4, <2>2 DEF CheckerFlush, Inv, TypeOK, OwnBatch, NoneMarked, Once, Kept
  <2>3. CASE /\ pc[c] = "insert" /\ Insert(c) /\ pc' = [pc EXCEPT ![c] = "idle"]
    <3>1. Inserts(c)
      BY <1>4, <2>3 DEF CheckerFlush, Inserts
    <3>2. buffer' \subseteq Beats /\ table' \subseteq Beats
      BY <3>1, InsertMoves
    <3>3. TypeOK' /\ OwnBatch'
      BY <1>4, <2>3, <3>2 DEF CheckerFlush, Insert, Inv, TypeOK, OwnBatch
    <3> QED BY <3>1, <3>3, InsertMoves DEF Inv, Inserts
  <2> QED BY <1>4, <2>1, <2>2, <2>3 DEF CheckerFlush
<1>5. CASE BatcherTake
  <2>1. "batcher" \in Flushers /\ TakesAll("batcher")
    BY <1>5 DEF BatcherTake, TakesAll
  <2>2. TypeOK' /\ OwnBatch'
    BY <1>5 DEF BatcherTake, Take, Inv, TypeOK, OwnBatch, NamesAreFree
  <2> QED BY <2>1, <2>2, TakeMoves DEF Inv, TakesAll
<1>6. CASE BatcherInsert
  <2>1. "batcher" \in Flushers /\ Inserts("batcher")
    BY <1>6 DEF BatcherInsert, Inserts
  <2>2. buffer' \subseteq Beats /\ table' \subseteq Beats
    BY <2>1, InsertMoves
  <2>3. TypeOK' /\ OwnBatch'
    BY <1>6, <2>2 DEF BatcherInsert, Insert, Inv, TypeOK, OwnBatch, NamesAreFree
  <2> QED BY <2>1, <2>3, InsertMoves DEF Inv, Inserts
<1>7. CASE DeleteMonitor
  <2>1. PICK m \in rows : rows' = rows \ {m} /\ table' = table \ {Marked(m)}
    BY <1>7 DEF DeleteMonitor
  <2>2. \A n : Marked(n) \in table' <=> Marked(n) \in table /\ n # m
    BY <2>1 DEF Marked
  <2>3. TypeOK' /\ OwnBatch'
    BY <1>7, <2>1 DEF DeleteMonitor, Inv, TypeOK, OwnBatch
  <2>4. NoneMarked'
    BY <1>7, <2>2 DEF DeleteMonitor, Inv, NoneMarked
  <2>5. marked # Nobody => Once(marked)' /\ Kept(marked)'
    BY <1>7, <2>1, <2>2 DEF DeleteMonitor, Inv, Once, Kept
  <2> QED BY <1>7, <2>3, <2>4, <2>5 DEF DeleteMonitor, Inv
<1> QED BY <1>1, <1>2, <1>3, <1>4, <1>5, <1>6, <1>7 DEF Next

\* Inv places the marked heartbeat as CheckKeptOnce does.
LEMMA InvKeepsOnce == Inv => CheckKeptOnce
PROOF
<1> SUFFICES ASSUME Inv, marked # Nobody PROVE CheckKeptOnce
  BY DEF CheckKeptOnce
<1> QED BY DEF Inv, Once, Kept, CheckKeptOnce, Batches, InBuffer, InTable

-----------------------------------------------------------------------------
\* A recorded check is held exactly once, by the buffer, by one batch or by the
\* table, until its monitor is deleted (HeartbeatBatcher.Add, Flush and
\* InsertHeartbeatBatch), for every number of monitors and checkers, whether
\* inserts fail or not.
THEOREM EveryCheckIsKeptOnce ==
  ASSUME NamesAreFree PROVE Spec => []CheckKeptOnce
PROOF
<1>1. Init => Inv
  BY InitInv
<1>2. Inv /\ [Next]_vars => Inv'
  BY NextInv
<1>3. Inv => CheckKeptOnce
  BY InvKeepsOnce
<1> QED BY <1>1, <1>2, <1>3, PTL DEF Spec
=============================================================================
