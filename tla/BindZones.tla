----------------------------- MODULE BindZones ------------------------------
(***************************************************************************)
(* The local BIND zones of the panel (internal/services/bind): creation    *)
(* and deletion change two files, the zone file and its declaration in     *)
(* named.conf.local, under a durable journal that startup recovers from;   *)
(* record and SOA changes replace the one zone file.                       *)
(*                                                                         *)
(* Service.mutationMu admits one operation at a time; its system calls are *)
(* steps, any of which can fail and between any two of which the process   *)
(* can die.  Every file is replaced by a rename (or link), then its        *)
(* directory is synced: a "fail" leaves the file alone, a "sync" reports   *)
(* an error after the change.  A zone file is represented by the version   *)
(* of its content, 0 when it is absent.                                    *)
(***************************************************************************)
EXTENDS Naturals

CONSTANTS
  Zones,        \* the domains
  Faults,       \* what may go wrong, a subset of AllFaults
  MaxFaults,    \* bound of the model: faults
  MaxVersion    \* bound of the model: contents written

\* A system call or rndc fails, a directory sync fails, so does the rename that
\* would make up for it, the process dies.
AllFaults == {"fail", "sync", "stuck", "crash"}

ASSUME BindAssumption ==
  /\ Faults \subseteq AllFaults
  /\ MaxFaults \in Nat
  /\ MaxVersion \in Nat

Operations == {"create", "delete"}
Stages == {"prepared", "zone-committed", "config-committed", "reloaded"}

VARIABLES
  declared,   \* the zones named.conf.local declares
  zone,       \* the zone files
  tomb,       \* the file at the tombstone path of the latest deletion
  journal,    \* lifecycle-transaction.json
  served,     \* what named has loaded
  pc, txn,    \* the operation that holds mutationMu
  pending,    \* Service.recoveryPending
  version,    \* contents written so far
  faults,     \* faults so far
  allowed     \* per zone, its last acknowledged content and those tried since

disk == <<declared, zone, tomb, journal>>
vars == <<disk, served, pc, txn, pending, version, faults, allowed>>

Absent == 0

\* What recovery needs: the operation, the configuration and the zone file
\* before it.
Journals == [op : Operations, stage : Stages, zone : Zones,
             config : SUBSET Zones, file : Nat]
NoJournal == [op |-> "none"]

\* An operation: "edit" is a record or SOA change.  next is the content it
\* writes, reload whether it (or its rollback) reloads named, ok whether it
\* has succeeded so far, undone whether the first step of its rollback has,
\* recovery whether startup runs it from the journal.
Transactions == [op : Operations \union {"edit"}, zone : Zones,
                 config : SUBSET Zones, file : Nat, next : Nat,
                 reload : BOOLEAN, ok : BOOLEAN, undone : BOOLEAN,
                 recovery : BOOLEAN]
NoTxn == [op |-> "none"]

Steps == {"prepare", "zone", "stage1", "config", "stage2", "reload",
          "remove tombstone", "stage3", "clear", "abort",
          "undo first", "undo second", "undo reload", "undo clear",
          "edit", "edit reload", "edit restore", "edit rollback reload",
          "finalize",
          "return"}

-----------------------------------------------------------------------------
(* Steps and their faults.                                                 *)

\* A call returns o: "ok", or a fault while the bound allows one.
Outcome(o) ==
  \/ o = "ok" /\ UNCHANGED faults
  \/ /\ o \in Faults \intersect {"fail", "sync"}
     /\ faults < MaxFaults
     /\ faults' = faults + 1

Outcomes == {"ok", "fail", "sync"}

Goto(step) == pc' = step
Fails == txn' = [txn EXCEPT !.ok = FALSE]

\* The operation ends with an error.
Fail == Goto("return") /\ Fails

\* rndc reload loads every declared zone.
Load == [z \in Zones |-> IF z \in declared THEN zone[z] ELSE Absent]

\* rndc reload z loads one zone named already serves.
LoadZone(z) ==
  IF served[z] # Absent THEN [served EXCEPT ![z] = zone[z]] ELSE served

\* rndc returns o.  One that fails may have been carried out.
Rndc(o, loaded) ==
  /\ o # "sync"
  /\ Outcome(o)
  /\ served' \in IF o = "ok" THEN {loaded} ELSE {served, loaded}

\* The rollback of a creation or deletion starts.
Undo(withReload) ==
  /\ Goto("undo first")
  /\ txn' = [txn EXCEPT !.ok = FALSE, !.reload = withReload]

-----------------------------------------------------------------------------
(* Requests.  A request refused by a check changes nothing.                *)

Transaction(op, z, next, reload) ==
  [op |-> op, zone |-> z, config |-> declared, file |-> zone[z],
   next |-> next, reload |-> reload, ok |-> TRUE, undone |-> FALSE,
   recovery |-> FALSE]

\* Mutant: the readiness check forgets the pending recovery.
RequireZoneManagement_NotPending == pc = "idle"

\* requireZoneManagement, with mutationMu held: withRecoveryStatus.
RequireZoneManagement == pc = "idle" /\ ~pending

\* CreateZone: parseNamedConf and applyZoneCreateTransaction up to the journal.
CreateZone(z) ==
  /\ RequireZoneManagement
  /\ z \notin declared
  /\ zone[z] = Absent
  /\ version < MaxVersion
  /\ version' = version + 1
  /\ txn' = Transaction("create", z, version + 1, TRUE)
  /\ allowed' = [allowed EXCEPT ![z] = @ \union {version + 1}]
  /\ Goto("prepare")
  /\ UNCHANGED <<disk, served, pending, faults>>

\* DeleteZone, up to the journal: the snapshots and a fresh tombstone path.
DeleteZone(z) ==
  /\ RequireZoneManagement
  /\ z \in declared
  /\ zone[z] # Absent
  /\ txn' = Transaction("delete", z, Absent, TRUE)
  /\ tomb' = Absent
  /\ allowed' = [allowed EXCEPT ![z] = @ \union {Absent}]
  /\ Goto("prepare")
  /\ UNCHANGED <<declared, zone, journal, served, pending, version, faults>>

\* The new content, with a new serial, is built from the file and staged.
EditZone(z, autoReload) ==
  /\ RequireZoneManagement
  /\ z \in declared
  /\ zone[z] # Absent
  /\ version < MaxVersion
  /\ version' = version + 1
  /\ txn' = Transaction("edit", z, version + 1, autoReload)
  /\ allowed' = [allowed EXCEPT ![z] = @ \union {version + 1}]
  /\ Goto("edit")
  /\ UNCHANGED <<disk, served, pending, faults>>

AddRecord(z, autoReload) == EditZone(z, autoReload)
UpdateRecord(z, autoReload) == EditZone(z, autoReload)
DeleteRecord(z, autoReload) == EditZone(z, autoReload)
UpdateSOA(z) == EditZone(z, TRUE)

Reload ==
  /\ RequireZoneManagement
  /\ \E o \in Outcomes : Rndc(o, Load)
  /\ UNCHANGED <<disk, pc, txn, pending, version, allowed>>

ReloadZone(z) ==
  /\ RequireZoneManagement
  /\ \E o \in Outcomes : Rndc(o, LoadZone(z))
  /\ UNCHANGED <<disk, pc, txn, pending, version, allowed>>

\* The handler returns: refreshRecoveryState for a creation, a deletion and
\* the recovery, where a journal that cannot be looked up counts as pending.
\* The answer of a success acknowledges the new content.
Return ==
  /\ pc = "return"
  /\ \E o \in {"ok", "fail"} :
       /\ Outcome(o)
       /\ o = "fail" => txn.op # "edit"
       /\ pending' = IF txn.op = "edit" THEN pending
                     ELSE o = "fail" \/ journal # NoJournal
  /\ allowed' = IF txn.ok /\ ~txn.recovery
                THEN [allowed EXCEPT ![txn.zone] = {txn.next}] ELSE allowed
  /\ Goto("idle")
  /\ txn' = NoTxn
  /\ UNCHANGED <<disk, served, version>>

-----------------------------------------------------------------------------
(* The journal.                                                            *)

\* prepareCreate, prepareDelete: the journal must be vacant.
Prepare ==
  /\ pc = "prepare"
  /\ \E o \in Outcomes :
       /\ Outcome(o)
       /\ journal' = IF journal # NoJournal \/ o = "fail" THEN journal
                     ELSE [op |-> txn.op, stage |-> "prepared", zone |-> txn.zone,
                           config |-> txn.config, file |-> txn.file]
       /\ IF journal = NoJournal /\ o = "ok" THEN Goto("zone") /\ UNCHANGED txn
                                             ELSE Fail
  /\ UNCHANGED <<declared, zone, tomb, served, pending, version, allowed>>

\* updateStage; rollbackCreateAfterJournalFailure and
\* rollbackDeleteAfterJournalFailure when it fails.
UpdateStage(from, stage, to) ==
  /\ pc = from
  /\ \E o \in Outcomes :
       /\ Outcome(o)
       /\ journal' = IF o = "fail" THEN journal
                     ELSE [journal EXCEPT !.stage = stage]
       /\ IF o = "ok" THEN Goto(to) /\ UNCHANGED txn ELSE Undo(TRUE)
  /\ UNCHANGED <<declared, zone, tomb, served, pending, version, allowed>>

\* clear, as the last step of an operation or of its rollback.  The first step
\* to follow a failed commit of the zone file clears it too, whatever happens.
ClearJournal ==
  /\ pc \in {"clear", "abort", "undo clear"}
  /\ \E o \in Outcomes :
       /\ Outcome(o)
       /\ journal' = IF o = "fail" THEN journal ELSE NoJournal
       /\ IF o = "ok" /\ pc = "clear" THEN Goto("return") /\ UNCHANGED txn
                                      ELSE Fail
  /\ UNCHANGED <<declared, zone, tomb, served, pending, version, allowed>>

-----------------------------------------------------------------------------
(* The steps of a creation and of a deletion.                              *)

\* commitNewStagedFile: the link, the removal of the candidate and the sync.
\* A failed removal takes the link back; one that cannot is a "sync" here.
CommitNewZone ==
  /\ pc = "zone" /\ txn.op = "create"
  /\ \E o \in Outcomes :
       /\ Outcome(o)
       /\ zone' = IF o = "fail" THEN zone ELSE [zone EXCEPT ![txn.zone] = txn.next]
       /\ Goto(IF o = "ok" THEN "stage1" ELSE "abort")
  /\ UNCHANGED <<declared, tomb, journal, served, txn, pending, version, allowed>>

\* moveFileToTombstone: a failed sync renames the file back, if it can.
MoveToTombstone ==
  /\ pc = "zone" /\ txn.op = "delete"
  /\ \E o \in Outcomes, back \in BOOLEAN :
       /\ Outcome(o)
       /\ back = (o # "ok") \/ (o = "sync" /\ "stuck" \in Faults)
       /\ tomb' = IF back THEN Absent ELSE zone[txn.zone]
       /\ zone' = IF back THEN zone ELSE [zone EXCEPT ![txn.zone] = Absent]
       /\ Goto(IF o = "ok" THEN "stage1" ELSE "abort")
  /\ UNCHANGED <<declared, journal, served, txn, pending, version, allowed>>

\* Mutant: the declaration is cut out up to the end of the file.
CommitConfig_ToTheEnd ==
  /\ pc = "config"
  /\ \E o \in Outcomes :
       /\ Outcome(o)
       /\ declared' = CASE o = "fail" -> declared
                        [] o # "fail" /\ txn.op = "create" -> txn.config \union {txn.zone}
                        [] o # "fail" /\ txn.op = "delete" -> {}
       /\ IF o = "ok" THEN Goto("stage2") /\ UNCHANGED txn ELSE Undo(FALSE)
  /\ UNCHANGED <<zone, tomb, journal, served, pending, version, allowed>>

\* commitStagedFile of the configuration; the rollback needs no reload.
CommitConfig ==
  /\ pc = "config"
  /\ \E o \in Outcomes :
       /\ Outcome(o)
       /\ declared' = CASE o = "fail" -> declared
                        [] o # "fail" /\ txn.op = "create" -> txn.config \union {txn.zone}
                        [] o # "fail" /\ txn.op = "delete" -> txn.config \ {txn.zone}
       /\ IF o = "ok" THEN Goto("stage2") /\ UNCHANGED txn ELSE Undo(FALSE)
  /\ UNCHANGED <<zone, tomb, journal, served, pending, version, allowed>>

\* reloadCommand with both files in place.
ReloadChanged ==
  /\ pc = "reload"
  /\ \E o \in Outcomes :
       /\ Rndc(o, Load)
       /\ IF o = "ok"
            THEN /\ Goto(IF txn.op = "create" THEN "stage3" ELSE "remove tombstone")
                 /\ UNCHANGED txn
            ELSE Undo(TRUE)
  /\ UNCHANGED <<disk, pending, version, allowed>>

\* os.Remove of the tombstone and the sync of its directory.
RemoveTombstone ==
  /\ pc = "remove tombstone"
  /\ \E o \in Outcomes :
       /\ Outcome(o)
       /\ tomb' = IF o = "fail" THEN tomb ELSE Absent
       /\ CASE o = "ok" -> Goto("stage3") /\ UNCHANGED txn
            [] o = "fail" -> Undo(TRUE)
            [] o = "sync" -> Fail
  /\ UNCHANGED <<declared, zone, journal, served, pending, version, allowed>>

-----------------------------------------------------------------------------
(* The rollback, by the failed operation or at startup: rollbackCreatedZone *)
(* restores the configuration, then removes the zone; rollbackDeletedZone  *)
(* brings the zone back, then restores the configuration.  Both steps are  *)
(* taken; an error of either keeps the journal.                            *)

\* restoreFile of the configuration.
RestoreConfig(o) ==
  /\ Outcome(o)
  /\ declared' = IF o = "fail" THEN declared ELSE txn.config
  /\ UNCHANGED <<zone, tomb>>

\* os.Remove of the zone and the sync; nothing to do when it is gone.
RemoveCreatedZone(o) ==
  /\ Outcome(o)
  /\ o = "sync" => zone[txn.zone] # Absent
  /\ zone' = IF o = "fail" THEN zone ELSE [zone EXCEPT ![txn.zone] = Absent]
  /\ UNCHANGED <<declared, tomb>>

\* Mutant: a zone without a tombstone is taken to be in place.
RestoreDeletedZone_TombOnly(o) ==
  /\ Outcome(o)
  /\ IF o = "fail" \/ tomb = Absent THEN UNCHANGED <<zone, tomb>>
     ELSE zone' = [zone EXCEPT ![txn.zone] = tomb] /\ tomb' = Absent
  /\ UNCHANGED declared

\* Mutant: a zone without a tombstone is an error.
RestoreDeletedZone_NeedsTomb(o) ==
  /\ tomb = Absent => o = "fail"
  /\ IF tomb = Absent THEN UNCHANGED faults ELSE Outcome(o)
  /\ IF o = "fail" THEN UNCHANGED <<zone, tomb>>
     ELSE zone' = [zone EXCEPT ![txn.zone] = tomb] /\ tomb' = Absent
  /\ UNCHANGED declared

\* The tombstone is renamed back, unless a zone file is in its way; without a
\* tombstone the snapshot is written.
RestoreDeletedZone(o) ==
  /\ IF tomb # Absent /\ zone[txn.zone] # Absent
       THEN o = "fail" /\ UNCHANGED faults ELSE Outcome(o)
  /\ CASE o = "fail" -> UNCHANGED <<zone, tomb>>
       [] o # "fail" /\ tomb # Absent ->
            zone' = [zone EXCEPT ![txn.zone] = tomb] /\ tomb' = Absent
       [] o # "fail" /\ tomb = Absent ->
            zone' = [zone EXCEPT ![txn.zone] = txn.file] /\ UNCHANGED tomb
  /\ UNCHANGED declared

UndoFirst ==
  /\ pc = "undo first"
  /\ \E o \in Outcomes :
       /\ IF txn.op = "create" THEN RestoreConfig(o) ELSE RestoreDeletedZone(o)
       /\ txn' = [txn EXCEPT !.undone = (o = "ok")]
  /\ Goto("undo second")
  /\ UNCHANGED <<journal, served, pending, version, allowed>>

\* Mutant: the rollback goes on after an error of its first step.
UndoSecond_Regardless ==
  /\ pc = "undo second"
  /\ \E o \in Outcomes :
       /\ IF txn.op = "create" THEN RemoveCreatedZone(o) ELSE RestoreConfig(o)
       /\ Goto(IF o # "ok" THEN "return"
               ELSE IF txn.reload THEN "undo reload" ELSE "undo clear")
  /\ UNCHANGED <<journal, served, txn, pending, version, allowed>>

\* Mutant: the rollback leaves the reload to the operator.
UndoSecond_NoReload ==
  /\ pc = "undo second"
  /\ \E o \in Outcomes :
       /\ IF txn.op = "create" THEN RemoveCreatedZone(o) ELSE RestoreConfig(o)
       /\ Goto(IF txn.undone /\ o = "ok" THEN "undo clear" ELSE "return")
  /\ UNCHANGED <<journal, served, txn, pending, version, allowed>>

UndoSecond ==
  /\ pc = "undo second"
  /\ \E o \in Outcomes :
       /\ IF txn.op = "create" THEN RemoveCreatedZone(o) ELSE RestoreConfig(o)
       /\ Goto(IF ~txn.undone \/ o # "ok" THEN "return"
               ELSE IF txn.reload THEN "undo reload" ELSE "undo clear")
  /\ UNCHANGED <<journal, served, txn, pending, version, allowed>>

\* The rollback reload.
UndoReload ==
  /\ pc = "undo reload"
  /\ \E o \in Outcomes :
       /\ Rndc(o, Load)
       /\ Goto(IF o = "ok" THEN "undo clear" ELSE "return")
  /\ UNCHANGED <<disk, txn, pending, version, allowed>>

-----------------------------------------------------------------------------
(* A record or SOA change: applyZoneFileTransaction.                       *)

\* commitStagedFile of the zone file.
CommitEdit ==
  /\ pc = "edit"
  /\ \E o \in Outcomes :
       /\ Outcome(o)
       /\ zone' = IF o = "fail" THEN zone ELSE [zone EXCEPT ![txn.zone] = txn.next]
       /\ IF o = "ok"
            THEN Goto(IF txn.reload THEN "edit reload" ELSE "return") /\ UNCHANGED txn
            ELSE Fail
  /\ UNCHANGED <<declared, tomb, journal, served, pending, version, allowed>>

\* reloadZoneCommand.
ReloadEdit ==
  /\ pc = "edit reload"
  /\ \E o \in Outcomes :
       /\ Rndc(o, LoadZone(txn.zone))
       /\ IF o = "ok" THEN Goto("return") /\ UNCHANGED txn
                      ELSE Goto("edit restore") /\ Fails
  /\ UNCHANGED <<disk, pending, version, allowed>>

\* restoreFile of the snapshot, then one more reload.
RestoreEdit ==
  /\ pc = "edit restore"
  /\ \E o \in Outcomes :
       /\ Outcome(o)
       /\ zone' = IF o = "fail" THEN zone ELSE [zone EXCEPT ![txn.zone] = txn.file]
       /\ Goto(IF o = "ok" THEN "edit rollback reload" ELSE "return")
  /\ UNCHANGED <<declared, tomb, journal, served, txn, pending, version, allowed>>

RollbackReload ==
  /\ pc = "edit rollback reload"
  /\ \E o \in Outcomes : Rndc(o, LoadZone(txn.zone))
  /\ Goto("return")
  /\ UNCHANGED <<disk, txn, pending, version, allowed>>

-----------------------------------------------------------------------------
(* The process.                                                            *)

\* InitBindService: recoverLifecycleJournal looks up and loads the journal,
\* which can fail, and chooses between finalizing and rolling back.
Start ==
  /\ pc = "down"
  /\ \E o \in {"ok", "fail"} :
       /\ Outcome(o)
       /\ IF journal = NoJournal
            THEN /\ Goto("idle")
                 /\ pending' = (o = "fail")
                 /\ UNCHANGED txn
            ELSE /\ txn' = [op |-> journal.op, zone |-> journal.zone,
                            config |-> journal.config, file |-> journal.file,
                            next |-> Absent, reload |-> TRUE, ok |-> FALSE,
                            undone |-> FALSE, recovery |-> TRUE]
                 /\ Goto(CASE o = "fail" -> "return"
                          [] o = "ok" /\ journal.stage # "reloaded" -> "undo first"
                          [] o = "ok" /\ journal.stage = "reloaded" /\ journal.op = "delete" -> "finalize"
                          [] o = "ok" /\ journal.stage = "reloaded" /\ journal.op = "create" -> "clear")
                 /\ UNCHANGED pending
  /\ UNCHANGED <<disk, served, version, allowed>>

\* removeRecoveryTombstone; a tombstone that is gone is no error.
Finalize ==
  /\ pc = "finalize"
  /\ \E o \in Outcomes :
       /\ Outcome(o)
       /\ o # "ok" => tomb # Absent
       /\ tomb' = IF o = "fail" THEN tomb ELSE Absent
       /\ Goto(IF o = "ok" THEN "clear" ELSE "return")
  /\ UNCHANGED <<declared, zone, journal, served, txn, pending, version, allowed>>

\* The process is stopped between two operations, or dies.
Exit ==
  /\ Goto("down")
  /\ txn' = NoTxn
  /\ pending' = FALSE
  /\ UNCHANGED <<disk, served, version, allowed>>

Stop == pc = "idle" /\ Exit /\ UNCHANGED faults

Crash ==
  /\ pc \notin {"down", "idle"}
  /\ "crash" \in Faults
  /\ faults < MaxFaults
  /\ faults' = faults + 1
  /\ Exit

-----------------------------------------------------------------------------
(* The specification.                                                      *)

\* Some zones exist when the panel starts for the first time.
Init ==
  /\ declared \in SUBSET Zones
  /\ zone = [z \in Zones |-> IF z \in declared THEN 1 ELSE Absent]
  /\ tomb = Absent
  /\ journal = NoJournal
  /\ served = zone
  /\ pc = "down"
  /\ txn = NoTxn
  /\ pending = FALSE
  /\ version = 1
  /\ faults = 0
  /\ allowed = [z \in Zones |-> {zone[z]}]

Request ==
  \/ \E z \in Zones : CreateZone(z) \/ DeleteZone(z) \/ UpdateSOA(z) \/ ReloadZone(z)
  \/ \E z \in Zones, autoReload \in BOOLEAN :
       AddRecord(z, autoReload) \/ UpdateRecord(z, autoReload) \/ DeleteRecord(z, autoReload)
  \/ Reload

\* What the process does by itself.
Step ==
  \/ Prepare \/ ClearJournal
  \/ UpdateStage("stage1", "zone-committed", "config")
  \/ UpdateStage("stage2", "config-committed", "reload")
  \/ UpdateStage("stage3", "reloaded", "clear")
  \/ CommitNewZone \/ MoveToTombstone \/ CommitConfig \/ ReloadChanged
  \/ RemoveTombstone
  \/ UndoFirst \/ UndoSecond \/ UndoReload
  \/ CommitEdit \/ ReloadEdit \/ RestoreEdit \/ RollbackReload
  \/ Start \/ Finalize \/ Return

Next == Request \/ Step \/ Stop \/ Crash

Spec == Init /\ [][Next]_vars

\* The operations end and systemd starts the panel again; an operator restarts
\* a panel that reports a pending recovery, as the page tells them to.
FairSpec == Spec /\ WF_vars(Step) /\ WF_vars(pending /\ Stop)

-----------------------------------------------------------------------------
(* Properties.                                                             *)

\* The types of the files, of the journal and of the operation in hand.
TypeOK ==
  /\ declared \subseteq Zones
  /\ zone \in [Zones -> Nat] /\ served \in [Zones -> Nat] /\ tomb \in Nat
  /\ journal \in Journals \union {NoJournal}
  /\ pc \in Steps \union {"down", "idle"}
  /\ txn \in Transactions \union {NoTxn}
  /\ pc \in {"down", "idle"} <=> txn = NoTxn
  /\ pending \in BOOLEAN
  /\ version \in Nat /\ faults \in Nat
  /\ allowed \in [Zones -> SUBSET Nat]

\* Mutations are open: no operation runs and no recovery is pending.
AtRest == pc = "idle" /\ ~pending

\* When mutations are open the two files of a zone agree: a zone is declared
\* exactly when its file exists, whatever step of a creation or deletion failed
\* or was interrupted (applyZoneCreateTransaction, applyZoneDeleteTransaction,
\* recoverLifecycleJournal).
WholeAtRest == AtRest => \A z \in Zones : z \in declared <=> zone[z] # Absent

\* When mutations are open named serves exactly the declared zones: a rollback
\* that changed what named had loaded has reloaded it.
ServedAtRest == AtRest => \A z \in Zones : z \in declared <=> served[z] # Absent

\* A creation or deletion that answers with an error and leaves no journal has
\* left the configuration and the zone file as it found them.
ErrorLeavesZone ==
  /\ pc = "return" /\ txn.op \in Operations /\ ~txn.recovery
  /\ ~txn.ok /\ journal = NoJournal
  => declared = txn.config /\ zone[txn.zone] = txn.file

\* No acknowledged change is lost: when mutations are open a zone has the
\* content of the last acknowledged operation on it, or of one that was tried
\* since and answered with an error or not at all.
AckedSurvives == AtRest => \A z \in Zones : zone[z] \in allowed[z]

\* The configuration a rollback would restore differs from the current one in
\* the zone of the journal at most: no other zone is declared or dropped while
\* the journal exists, so the recovery of one zone cannot undo another.
RollbackIsLocal ==
  journal # NoJournal
  => declared \ {journal.zone} = journal.config \ {journal.zone}

\* A pending recovery ends: once nothing fails any more, the restarts the page
\* asks for open mutations again, however far the earlier attempts went.
Unblocks == pending ~> AtRest
=============================================================================
