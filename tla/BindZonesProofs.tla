-------------------------- MODULE BindZonesProofs ---------------------------
(***************************************************************************)
(* Proofs about the journalled changes of the local zones, for every set   *)
(* of zones and every bound.  The first half holds whatever fails: no      *)
(* acknowledged content is lost and a rollback touches one zone only.  The *)
(* second half assumes that a directory sync does not fail after the       *)
(* change it follows: both files of a zone and what named serves agree     *)
(* whenever mutations are open, and an error leaves the zone as it was.    *)
(***************************************************************************)
EXTENDS BindZones, TLAPS

\* The steps of a creation or deletion before anything is undone, of the undo,
\* those under the journal, and those of a record change.
Forward == {"zone", "stage1", "config", "stage2", "reload",
            "remove tombstone", "stage3"}
Backward == {"undo first", "undo second", "undo reload", "undo clear"}
Journalled == Forward \union Backward \union {"clear", "abort", "finalize"}
Editing == {"edit", "edit reload", "edit restore", "edit rollback reload"}

\* The kind of the operation in hand belongs to its step.
Kind ==
  /\ pc \in Journalled \union {"prepare"} => txn.op \in Operations
  /\ pc \in Editing => txn.op = "edit"

\* Under the journal the operation in hand is the one the journal records.
InHand ==
  pc \in Journalled =>
    /\ journal \in Journals
    /\ txn.op = journal.op /\ txn.zone = journal.zone
    /\ txn.config = journal.config /\ txn.file = journal.file

\* There is no journal when mutations are open, before a creation or deletion
\* has prepared one, during a record change, and when a success is answered.
NoneLeft ==
  /\ AtRest \/ pc \in Editing \union {"prepare"} => journal = NoJournal
  /\ pc = "return" /\ (txn.op = "edit" \/ txn.ok) => journal = NoJournal

\* What an operation that may still be acknowledged has written or will write,
\* and what it would put back.
Promise ==
  txn # NoTxn =>
    /\ txn.ok => ~txn.recovery
    /\ txn.recovery \/ (/\ txn.next \in allowed[txn.zone]
                        /\ txn.file \in allowed[txn.zone]
                        /\ txn.op = "create" => txn.file = Absent
                        /\ txn.op = "delete" => txn.next = Absent)

\* The operation still works towards a success, or has failed; startup never
\* repeats a record change.
Working ==
  /\ pc \in Forward \union {"prepare", "edit", "edit reload"} => txn.ok
  /\ pc \in Backward \union {"finalize", "edit restore", "edit rollback reload"} => ~txn.ok
  /\ pc \in Editing => ~txn.recovery

\* From the commit of the zone file on, it is there.
Written ==
  \/ pc \in (Forward \ {"zone"}) \union {"edit reload"}
  \/ pc \in {"clear", "return"} /\ txn.ok
  => zone[txn.zone] = txn.next

\* The snapshots an operation starts from are current.
Current ==
  /\ pc = "prepare" => txn.config = declared
  /\ pc \in {"prepare", "zone"} => txn.file = zone[txn.zone]
  /\ pc = "prepare" /\ txn.op = "delete" => tomb = Absent

\* What a rollback needs of the journal it finds: the configuration differs in
\* one zone, and the contents it may put back are allowed.
SoundJournal ==
  journal # NoJournal =>
    /\ declared \ {journal.zone} = journal.config \ {journal.zone}
    /\ {journal.file, Absent} \subseteq allowed[journal.zone]
    /\ journal.op = "delete" => tomb \in {Absent, journal.file}

\* Every zone file has an acknowledged content or one tried since.
ZoneAllowed == \A z \in Zones : zone[z] \in allowed[z]

Rest == Kind /\ InHand /\ NoneLeft /\ Promise /\ Working /\ Written /\ Current
Inv == TypeOK /\ Rest /\ SoundJournal /\ ZoneAllowed

-----------------------------------------------------------------------------
(* The operation in hand keeps what identifies it.                         *)

SameTxn ==
  /\ txn' \in Transactions
  /\ txn'.op = txn.op /\ txn'.zone = txn.zone /\ txn'.config = txn.config
  /\ txn'.file = txn.file /\ txn'.next = txn.next
  /\ txn'.recovery = txn.recovery

\* An operation is in hand exactly when a step of one is next.
LEMMA TxnInHand ==
  ASSUME TypeOK, pc \notin {"down", "idle"}
  PROVE  txn \in Transactions /\ txn # NoTxn
PROOF BY DEF TypeOK

\* An operation differs from none.
LEMMA TxnIsNot == ASSUME NEW t \in Transactions PROVE t # NoTxn
PROOF BY DEF Transactions, NoTxn, Operations

\* A journal differs from none.
LEMMA JournalIsNot == ASSUME NEW j \in Journals PROVE j # NoJournal
PROOF BY DEF Journals, NoJournal, Operations

\* An error is recorded (Fail) ...
LEMMA FailsKeeps ==
  ASSUME txn \in Transactions, Fails
  PROVE  SameTxn /\ txn'.ok = FALSE
PROOF BY ZenonT(30) DEF Transactions, Fails, SameTxn

\* ... and so is the choice of a reload by a rollback that starts.
LEMMA UndoKeeps ==
  ASSUME txn \in Transactions, NEW r \in BOOLEAN, Undo(r)
  PROVE  SameTxn /\ txn'.ok = FALSE /\ txn'.reload = r /\ pc' = "undo first"
PROOF BY DEF Transactions, Undo, SameTxn, Goto

\* The outcome of the first step of a rollback is recorded (UndoFirst).
LEMMA UndoneKeeps ==
  ASSUME txn \in Transactions, NEW b \in BOOLEAN,
         txn' = [txn EXCEPT !.undone = b]
  PROVE  SameTxn /\ txn'.ok = txn.ok /\ txn'.undone = b /\ txn'.reload = txn.reload
PROOF BY DEF Transactions, SameTxn

\* An operation that is left alone is the same.
LEMMA UnchangedKeeps ==
  ASSUME txn \in Transactions, UNCHANGED txn
  PROVE  SameTxn
PROOF BY DEF SameTxn

\* The counter of faults stays a number.
LEMMA OutcomeType ==
  ASSUME TypeOK, NEW o, Outcome(o)
  PROVE  faults' \in Nat
PROOF BY DEF TypeOK, Outcome

\* named serves a content or nothing (Load, LoadZone).
LEMMA RndcType ==
  ASSUME TypeOK, NEW o, NEW loaded \in [Zones -> Nat], Rndc(o, loaded)
  PROVE  served' \in [Zones -> Nat] /\ faults' \in Nat
PROOF BY OutcomeType DEF Rndc, TypeOK

\* rndc reload loads contents.
LEMMA LoadType == ASSUME TypeOK PROVE Load \in [Zones -> Nat]
PROOF BY DEF TypeOK, Load, Absent

\* So does rndc reload of one zone.
LEMMA LoadZoneType ==
  ASSUME TypeOK, NEW z \in Zones PROVE LoadZone(z) \in [Zones -> Nat]
PROOF BY DEF TypeOK, LoadZone

-----------------------------------------------------------------------------
(* Inv is inductive, whatever fails.                                        *)

\* A first start finds zones that are whole and no journal.
LEMMA InitInv == Init => Inv
PROOF
<1> SUFFICES ASSUME Init PROVE Inv
  OBVIOUS
<1>1. TypeOK
  <2>1. zone \in [Zones -> Nat] /\ allowed \in [Zones -> SUBSET Nat]
    BY DEF Init, Absent
  <2> QED BY ZenonT(30), <2>1 DEF Init, TypeOK, Absent
<1>2. Rest
  BY DEF Init, Rest, Kind, InHand, NoneLeft, Promise, Working, Written, Current,
         Journalled, Forward, Backward, Editing, AtRest
<1>3. SoundJournal /\ ZoneAllowed
  BY DEF Init, SoundJournal, ZoneAllowed
<1> QED BY <1>1, <1>2, <1>3 DEF Inv

\* A transaction that starts (CreateZone, DeleteZone, EditZone).
Begun(t, op, z, next) ==
  /\ t \in Transactions
  /\ t.op = op /\ t.zone = z /\ t.config = declared /\ t.file = zone[z]
  /\ t.next = next /\ t.ok = TRUE /\ t.recovery = FALSE

\* Transaction builds a well-typed operation from the current files.
LEMMA TransactionType ==
  ASSUME TypeOK, NEW op \in {"create", "delete", "edit"}, NEW z \in Zones,
         NEW next \in Nat, NEW reload \in BOOLEAN
  PROVE  Begun(Transaction(op, z, next, reload), op, z, next)
PROOF BY DEF TypeOK, Transaction, Transactions, Operations, Begun

\* Opens(op, z, next, step): what CreateZone, DeleteZone and EditZone have in
\* common.
Opens(op, z, next, step) ==
  /\ pc = "idle" /\ ~pending /\ pc' = step
  /\ Begun(txn', op, z, next)
  /\ allowed' = [allowed EXCEPT ![z] = @ \union {next}]
  /\ UNCHANGED <<declared, zone, journal, served, pending, faults>>

\* A request that passes its checks keeps Inv.
LEMMA OpensInv ==
  ASSUME Inv, NEW op \in {"create", "delete", "edit"}, NEW z \in Zones,
         NEW next \in Nat, NEW step \in {"prepare", "edit"},
         Opens(op, z, next, step),
         (step = "edit") = (op = "edit"),
         op = "create" => zone[z] = Absent,
         op = "delete" => next = Absent,
         tomb' \in Nat, op = "delete" => tomb' = Absent,
         version' \in Nat
  PROVE  Inv'
PROOF
<1>1. journal = NoJournal
  BY DEF Inv, Rest, NoneLeft, AtRest, Opens
<1>2. \A y \in Zones : allowed'[y] = IF y = z THEN allowed[z] \union {next} ELSE allowed[y]
  BY DEF Inv, TypeOK, Opens
<1>3. TypeOK'
  BY ZenonT(30), TxnIsNot DEF Inv, TypeOK, Opens, Begun, Steps
<1>4. Rest'
  <2>1. Kind' /\ InHand' /\ NoneLeft' /\ Working' /\ Written' /\ Current'
    BY <1>1 DEF Opens, Begun, Kind, InHand, NoneLeft, Working, Written, Current,
                Journalled, Forward, Backward, Editing, AtRest, Operations
  <2>2. Promise'
    BY <1>2 DEF Opens, Begun, Promise, Inv, ZoneAllowed
  <2> QED BY <2>1, <2>2 DEF Rest
<1>5. SoundJournal' /\ ZoneAllowed'
  BY <1>1, <1>2 DEF Opens, SoundJournal, ZoneAllowed, Inv
<1> QED BY <1>3, <1>4, <1>5 DEF Inv

\* CreateZone adds the content it will write to the allowed ones.
LEMMA CreateZoneInv ==
  ASSUME Inv, NEW z \in Zones, CreateZone(z) PROVE Inv'
PROOF
<1>1. version \in Nat /\ tomb \in Nat /\ TypeOK
  BY DEF Inv, TypeOK
<1>2. version + 1 \in Nat
  BY <1>1
<1>3. Begun(txn', "create", z, version + 1)
  BY ZenonT(30), <1>1, <1>2, TransactionType DEF CreateZone
<1>4. Opens("create", z, version + 1, "prepare")
  BY ZenonT(30), <1>3 DEF CreateZone, RequireZoneManagement, Goto, Opens, disk
<1> QED BY <1>1, <1>2, <1>4, OpensInv DEF CreateZone, disk

\* DeleteZone adds absence to them.
LEMMA DeleteZoneInv ==
  ASSUME Inv, NEW z \in Zones, DeleteZone(z) PROVE Inv'
PROOF
<1>1. version \in Nat /\ Absent \in Nat /\ TypeOK
  BY DEF Inv, TypeOK, Absent
<1>2. Begun(txn', "delete", z, Absent)
  BY ZenonT(30), <1>1, TransactionType DEF DeleteZone
<1>3. Opens("delete", z, Absent, "prepare")
  BY ZenonT(30), <1>2 DEF DeleteZone, RequireZoneManagement, Goto, Opens
<1> QED BY <1>1, <1>3, OpensInv DEF DeleteZone

\* A record or SOA change adds its new content.
LEMMA EditZoneInv ==
  ASSUME Inv, NEW z \in Zones, NEW r \in BOOLEAN, EditZone(z, r) PROVE Inv'
PROOF
<1>1. version \in Nat /\ tomb \in Nat /\ TypeOK
  BY DEF Inv, TypeOK
<1>2. version + 1 \in Nat
  BY <1>1
<1>3. Begun(txn', "edit", z, version + 1)
  BY <1>1, <1>2, TransactionType DEF EditZone
<1>4. Opens("edit", z, version + 1, "edit")
  BY <1>3 DEF EditZone, RequireZoneManagement, Goto, Opens, disk
<1> QED BY <1>1, <1>2, <1>4, OpensInv DEF EditZone, disk

\* rndc reload by hand changes what named serves only (Reload, ReloadZone).
LEMMA ReloadsInv ==
  ASSUME Inv, Reload \/ \E z \in Zones : ReloadZone(z) PROVE Inv'
PROOF
<1>1. served' \in [Zones -> Nat] /\ faults' \in Nat
  BY RndcType, LoadType, LoadZoneType DEF Inv, Reload, ReloadZone
<1>2. UNCHANGED <<disk, pc, txn, pending, version, allowed>>
  BY DEF Reload, ReloadZone
<1>3. TypeOK'
  BY <1>1, <1>2 DEF Inv, TypeOK, disk
<1>4. Rest' /\ SoundJournal' /\ ZoneAllowed'
  BY ZenonT(30), <1>2 DEF Inv, Rest, Kind, InHand, NoneLeft, Promise, Working, Written, Current,
              AtRest, SoundJournal, ZoneAllowed, disk
<1> QED BY <1>3, <1>4 DEF Inv

\* The journal an operation writes (prepareCreate, prepareDelete).
Recorded(j) ==
  /\ j \in Journals
  /\ j.op = txn.op /\ j.stage = "prepared" /\ j.zone = txn.zone
  /\ j.config = txn.config /\ j.file = txn.file

\* The journal repeats the snapshots of the operation.
LEMMA JournalType ==
  ASSUME txn \in Transactions, txn.op \in Operations
  PROVE  Recorded([op |-> txn.op, stage |-> "prepared", zone |-> txn.zone,
                   config |-> txn.config, file |-> txn.file])
PROOF BY DEF Transactions, Journals, Stages, Recorded

\* prepareCreate and prepareDelete write a journal that is sound, or none.
LEMMA PrepareInv == ASSUME Inv, Prepare PROVE Inv'
PROOF
<1>1. /\ pc = "prepare" /\ txn \in Transactions /\ txn.op \in Operations
      /\ journal = NoJournal /\ txn # NoTxn
  BY TxnInHand DEF Prepare, Inv, Rest, Kind, NoneLeft
<1>2. UNCHANGED <<declared, zone, tomb, served, pending, version, allowed>>
  BY DEF Prepare
<1>3. faults' \in Nat
  BY OutcomeType DEF Prepare, Inv
<1>4. SameTxn
  BY ZenonT(30), <1>1, FailsKeeps, UnchangedKeeps DEF Prepare, Fail
<1>5. \/ Recorded(journal') /\ pc' = "zone" /\ txn' = txn
      \/ Recorded(journal') /\ pc' = "return" /\ txn'.ok = FALSE
      \/ journal' = NoJournal /\ pc' = "return" /\ txn'.ok = FALSE
  BY ZenonT(30), <1>1, JournalType, FailsKeeps DEF Prepare, Fail, Goto, Outcomes
<1>6. TypeOK'
  BY <1>2, <1>3, <1>4, <1>5, TxnIsNot DEF Inv, TypeOK, SameTxn, Steps, Recorded
<1>7. Rest'
  <2>1. Kind' /\ InHand' /\ Working' /\ Written' /\ Current'
    BY <1>1, <1>2, <1>4, <1>5
       DEF Inv, Rest, Kind, InHand, Working, Written, Current, SameTxn, Recorded,
           Journalled, Forward, Backward, Editing
  <2>2. NoneLeft'
    BY <1>1, <1>4, <1>5 DEF NoneLeft, AtRest, Editing, SameTxn, Operations
  <2>3. Promise'
    BY <1>1, <1>2, <1>4, <1>5 DEF Inv, Rest, Promise, SameTxn
  <2> QED BY <2>1, <2>2, <2>3 DEF Rest
<1>8. ZoneAllowed'
  BY <1>2 DEF Inv, ZoneAllowed
<1>9. SoundJournal'
  <2>1. CASE journal' = NoJournal
    BY <2>1 DEF SoundJournal
  <2>2. CASE Recorded(journal')
    <3>1. txn.ok /\ ~txn.recovery
      BY <1>1 DEF Inv, Rest, Working, Promise
    <3>2. {txn.file, Absent} \subseteq allowed[txn.zone]
      BY <1>1, <3>1 DEF Inv, Rest, Promise, Operations
    <3> QED BY <1>1, <1>2, <2>2, <3>2 DEF Inv, Rest, Current, SoundJournal, Recorded
  <2> QED BY <1>5, <2>1, <2>2
<1> QED BY <1>6, <1>7, <1>8, <1>9 DEF Inv

\* updateStage changes the stage of the journal only.
LEMMA StageType ==
  ASSUME journal \in Journals, NEW s \in Stages,
         journal' = [journal EXCEPT !.stage = s]
  PROVE  /\ journal' \in Journals /\ journal'.stage = s
         /\ journal'.op = journal.op /\ journal'.zone = journal.zone
         /\ journal'.config = journal.config /\ journal'.file = journal.file
PROOF BY DEF Journals

\* The journal keeps all but its stage.
SameJournal ==
  /\ journal' \in Journals
  /\ journal'.op = journal.op /\ journal'.zone = journal.zone
  /\ journal'.config = journal.config /\ journal'.file = journal.file

\* updateStage, or the start of a rollback when it fails.
LEMMA UpdateStageInv ==
  ASSUME Inv, NEW from, NEW stage, NEW to, UpdateStage(from, stage, to),
         \/ from = "stage1" /\ stage = "zone-committed" /\ to = "config"
         \/ from = "stage2" /\ stage = "config-committed" /\ to = "reload"
         \/ from = "stage3" /\ stage = "reloaded" /\ to = "clear"
  PROVE  Inv'
PROOF
<1>1. /\ pc = from /\ txn \in Transactions /\ txn # NoTxn /\ journal \in Journals
      /\ stage \in Stages /\ pc \in Forward \ {"zone"}
  BY TxnInHand DEF UpdateStage, Inv, Rest, InHand, Journalled, Forward, Stages
<1>2. UNCHANGED <<declared, zone, tomb, served, pending, version, allowed>>
  BY DEF UpdateStage
<1>3. faults' \in Nat
  BY OutcomeType DEF UpdateStage, Inv
<1>4. SameTxn
  BY <1>1, UndoKeeps, UnchangedKeeps DEF UpdateStage
<1>5. SameJournal
  BY <1>1, StageType DEF UpdateStage, SameJournal
<1>6. \/ pc' = to /\ txn' = txn
      \/ pc' = "undo first" /\ txn'.ok = FALSE
  BY <1>1, UndoKeeps DEF UpdateStage, Goto
<1>7. TypeOK'
  BY <1>2, <1>3, <1>4, <1>5, <1>6, TxnIsNot DEF Inv, TypeOK, SameTxn, SameJournal, Steps
<1>8. Rest'
  <2>1. Kind' /\ InHand' /\ Working' /\ Written' /\ Current'
    BY <1>1, <1>2, <1>4, <1>5, <1>6
       DEF Inv, Rest, Kind, InHand, Working, Written, Current, SameTxn, SameJournal,
           Journalled, Forward, Backward, Editing
  <2>2. NoneLeft'
    BY <1>6 DEF NoneLeft, AtRest, Editing
  <2>3. Promise'
    BY <1>1, <1>2, <1>4, <1>6 DEF Inv, Rest, Promise, SameTxn
  <2> QED BY <2>1, <2>2, <2>3 DEF Rest
<1>9. SoundJournal' /\ ZoneAllowed'
  BY <1>1, <1>2, <1>5, JournalIsNot DEF Inv, SoundJournal, ZoneAllowed, SameJournal
<1> QED BY <1>7, <1>8, <1>9 DEF Inv

\* clear reports a success only when the journal is gone.
LEMMA ClearJournalInv == ASSUME Inv, ClearJournal PROVE Inv'
PROOF
<1>1. /\ pc \in {"clear", "abort", "undo clear"}
      /\ txn \in Transactions /\ txn # NoTxn /\ txn.op \in Operations
  BY TxnInHand DEF ClearJournal, Inv, Rest, Kind, Journalled, Backward
<1>2. UNCHANGED <<declared, zone, tomb, served, pending, version, allowed>>
  BY DEF ClearJournal
<1>3. faults' \in Nat
  BY OutcomeType DEF ClearJournal, Inv
<1>4. SameTxn /\ pc' = "return"
  BY <1>1, FailsKeeps, UnchangedKeeps DEF ClearJournal, Fail, Goto
<1>5. /\ journal' \in {journal, NoJournal}
      /\ \/ txn' = txn /\ journal' = NoJournal /\ pc = "clear"
         \/ txn'.ok = FALSE
  BY <1>1, FailsKeeps DEF ClearJournal, Fail
<1>6. TypeOK'
  BY <1>2, <1>3, <1>4, <1>5, TxnIsNot DEF Inv, TypeOK, SameTxn, Steps
<1>7. Rest'
  <2>1. Kind' /\ InHand' /\ Working' /\ Written' /\ Current'
    BY <1>1, <1>2, <1>4, <1>5
       DEF Inv, Rest, Kind, InHand, Working, Written, Current, SameTxn,
           Journalled, Forward, Backward, Editing
  <2>2. NoneLeft'
    BY <1>1, <1>4, <1>5 DEF NoneLeft, AtRest, Editing, SameTxn, Operations
  <2>3. Promise'
    BY <1>1, <1>2, <1>4, <1>5 DEF Inv, Rest, Promise, SameTxn
  <2> QED BY <2>1, <2>2, <2>3 DEF Rest
<1>8. SoundJournal' /\ ZoneAllowed'
  BY <1>2, <1>5 DEF Inv, SoundJournal, ZoneAllowed
<1> QED BY <1>6, <1>7, <1>8 DEF Inv

\* The commit of the zone file: the new file, or the move to the tombstone.
LEMMA CommitZoneInv == ASSUME Inv, CommitNewZone \/ MoveToTombstone PROVE Inv'
PROOF
<1>1. /\ pc = "zone" /\ txn \in Transactions /\ txn # NoTxn /\ txn.ok /\ ~txn.recovery
      /\ journal \in Journals /\ journal # NoJournal /\ txn.zone \in Zones
      /\ txn.op = journal.op /\ txn.zone = journal.zone /\ txn.file = journal.file
  BY TxnInHand, JournalIsNot
     DEF CommitNewZone, MoveToTombstone, Inv, Rest, InHand, Working, Promise,
         Journalled, Forward, Transactions
<1>2. UNCHANGED <<declared, journal, served, txn, pending, version, allowed>>
  BY DEF CommitNewZone, MoveToTombstone
<1>3. faults' \in Nat
  BY OutcomeType DEF CommitNewZone, MoveToTombstone, Inv
<1>4. txn.next \in Nat /\ zone[txn.zone] = txn.file /\ txn.file \in Nat
  BY <1>1 DEF Inv, Rest, Current, Transactions
<1>5. \/ zone' = zone /\ pc' = "abort"
      \/ zone' = [zone EXCEPT ![txn.zone] = txn.next] /\ pc' \in {"stage1", "abort"}
  BY <1>1 DEF CommitNewZone, MoveToTombstone, Goto, Outcomes, Inv, Rest, Promise
<1>6. tomb' \in Nat /\ (txn.op = "delete" => tomb' \in {Absent, journal.file})
  BY <1>1, <1>4 DEF CommitNewZone, MoveToTombstone, Inv, TypeOK, Absent, Operations, Journals
<1>7. /\ zone' \in [Zones -> Nat]
      /\ \A z \in Zones : zone'[z] \in {zone[z]} \union (IF z = txn.zone THEN {txn.next} ELSE {})
  BY <1>1, <1>4, <1>5 DEF Inv, TypeOK
<1>8. TypeOK'
  BY <1>1, <1>2, <1>3, <1>5, <1>6, <1>7 DEF Inv, TypeOK, Steps
<1>9. Rest'
  <2>1. pc' = "stage1" => zone'[txn.zone] = txn.next
    BY <1>1, <1>5 DEF Inv, TypeOK
  <2>2. Kind' /\ InHand' /\ Working' /\ Written' /\ Current' /\ NoneLeft'
    BY <1>1, <1>2, <1>5, <2>1
       DEF Inv, Rest, Kind, InHand, Working, Written, Current, NoneLeft, AtRest,
           Journalled, Forward, Backward, Editing
  <2>3. Promise'
    BY <1>2 DEF Inv, Rest, Promise
  <2> QED BY <2>2, <2>3 DEF Rest
<1>10. SoundJournal'
  BY <1>1, <1>2, <1>6 DEF Inv, SoundJournal
<1>11. ZoneAllowed'
  BY <1>1, <1>2, <1>7 DEF Inv, ZoneAllowed, Rest, Promise
<1> QED BY <1>8, <1>9, <1>10, <1>11 DEF Inv

\* The commit of the configuration changes the declaration of one zone.
LEMMA CommitConfigInv == ASSUME Inv, CommitConfig PROVE Inv'
PROOF
<1>1. /\ pc = "config" /\ txn \in Transactions /\ txn # NoTxn /\ txn.op \in Operations
      /\ journal \in Journals /\ journal # NoJournal
      /\ txn.zone \in Zones /\ txn.config \subseteq Zones
      /\ txn.zone = journal.zone /\ txn.config = journal.config
  BY TxnInHand, JournalIsNot
     DEF CommitConfig, Inv, Rest, InHand, Kind, Journalled, Forward, Transactions
<1>2. UNCHANGED <<zone, tomb, journal, served, pending, version, allowed>>
  BY DEF CommitConfig
<1>3. faults' \in Nat
  BY OutcomeType DEF CommitConfig, Inv
<1>4. SameTxn
  BY <1>1, UndoKeeps, UnchangedKeeps DEF CommitConfig
<1>5. declared' \in {declared, txn.config \union {txn.zone}, txn.config \ {txn.zone}}
  BY <1>1 DEF CommitConfig, Operations
<1>6. \/ pc' = "stage2" /\ txn' = txn
      \/ pc' = "undo first" /\ txn'.ok = FALSE
  BY <1>1, UndoKeeps DEF CommitConfig, Goto
<1>7. TypeOK'
  BY <1>1, <1>2, <1>3, <1>4, <1>5, <1>6, TxnIsNot DEF Inv, TypeOK, SameTxn, Steps
<1>8. Rest'
  <2>1. Kind' /\ InHand' /\ Working' /\ Written' /\ Current' /\ NoneLeft'
    BY <1>1, <1>2, <1>4, <1>6
       DEF Inv, Rest, Kind, InHand, Working, Written, Current, NoneLeft, AtRest, SameTxn,
           Journalled, Forward, Backward, Editing
  <2>2. Promise'
    BY <1>1, <1>2, <1>4, <1>6 DEF Inv, Rest, Promise, SameTxn
  <2> QED BY <2>1, <2>2 DEF Rest
<1>9. SoundJournal' /\ ZoneAllowed'
  BY <1>1, <1>2, <1>5 DEF Inv, SoundJournal, ZoneAllowed
<1> QED BY <1>7, <1>8, <1>9 DEF Inv

\* A step under the journal that changes neither the files, tombstone apart,
\* nor the journal: the reload, the removal of the tombstone, the rollback
\* reload.
LEMMA QuietInv ==
  ASSUME Inv, pc \in Journalled, SameTxn,
         UNCHANGED <<declared, zone, journal, pending, version, allowed>>,
         tomb' \in {tomb, Absent},
         served' \in [Zones -> Nat], faults' \in Nat,
         \/ txn' = txn /\ pc \in Forward \ {"zone"} /\ pc' \in Forward \ {"zone"}
         \/ pc' \in {"undo first", "return"} /\ txn'.ok = FALSE
         \/ txn' = txn /\ pc' \in {"undo clear", "clear"} /\ ~txn.ok
  PROVE  Inv'
PROOF
<1>1. txn \in Transactions /\ txn # NoTxn /\ journal \in Journals /\ journal # NoJournal
  BY TxnInHand, JournalIsNot DEF Inv, Rest, InHand, Journalled, Forward, Backward
<1>2. txn.op \in Operations
  BY DEF Inv, Rest, Kind
<1>3. TypeOK'
  <2>1. pc' \in Forward \union {"undo first", "return", "undo clear", "clear"}
    OBVIOUS
  <2>2. pc' \in Steps /\ pc' \notin {"down", "idle"}
    BY <2>1 DEF Steps, Forward
  <2>3. Absent \in Nat
    BY DEF Absent
  <2>4. tomb' \in Nat
    BY <2>3 DEF Inv, TypeOK
  <2> QED BY <2>2, <2>4, TxnIsNot DEF Inv, TypeOK, SameTxn
<1>4. Rest'
  <2>1. Kind' /\ InHand' /\ Working' /\ Current'
    BY <1>2 DEF Inv, Rest, Kind, InHand, Working, Current, SameTxn,
                Journalled, Forward, Backward, Editing
  <2>2. Written' /\ NoneLeft'
    BY <1>1, <1>2 DEF Inv, Rest, Written, Promise, NoneLeft, AtRest, SameTxn, Forward, Editing,
                      Operations
  <2>3. Promise'
    BY <1>1 DEF Inv, Rest, Promise, SameTxn
  <2> QED BY <2>1, <2>2, <2>3 DEF Rest
<1>5. SoundJournal' /\ ZoneAllowed'
  BY <1>1 DEF Inv, SoundJournal, ZoneAllowed
<1> QED BY <1>3, <1>4, <1>5 DEF Inv

\* The reload with both files in place.
LEMMA ReloadChangedInv == ASSUME Inv, ReloadChanged PROVE Inv'
PROOF
<1>1. pc = "reload" /\ txn \in Transactions
  BY TxnInHand DEF ReloadChanged, Inv
<1>2. SameTxn
  BY <1>1, UndoKeeps, UnchangedKeeps DEF ReloadChanged
<1>3. UNCHANGED <<declared, zone, tomb, journal, pending, version, allowed>>
  BY DEF ReloadChanged, disk
<1>4. served' \in [Zones -> Nat] /\ faults' \in Nat
  BY RndcType, LoadType DEF ReloadChanged, Inv
<1>5. \/ txn' = txn /\ pc' \in {"stage3", "remove tombstone"}
      \/ pc' = "undo first" /\ txn'.ok = FALSE
  BY <1>1, UndoKeeps DEF ReloadChanged, Goto
<1> QED BY <1>1, <1>2, <1>3, <1>4, <1>5, QuietInv DEF Journalled, Forward

\* The removal of the tombstone.
LEMMA RemoveTombstoneInv == ASSUME Inv, RemoveTombstone PROVE Inv'
PROOF
<1>1. pc = "remove tombstone" /\ txn \in Transactions
  BY TxnInHand DEF RemoveTombstone, Inv
<1>2. SameTxn
  BY <1>1, UndoKeeps, FailsKeeps, UnchangedKeeps DEF RemoveTombstone, Outcomes, Fail
<1>3. UNCHANGED <<declared, zone, journal, served, pending, version, allowed>>
  BY DEF RemoveTombstone
<1>4. served' \in [Zones -> Nat] /\ faults' \in Nat
  BY <1>3, OutcomeType DEF RemoveTombstone, Inv, TypeOK
<1>5. \/ txn' = txn /\ pc' = "stage3"
      \/ pc' \in {"undo first", "return"} /\ txn'.ok = FALSE
  BY <1>1, UndoKeeps, FailsKeeps DEF RemoveTombstone, Goto, Outcomes, Fail
<1>6. tomb' \in {tomb, Absent}
  BY DEF RemoveTombstone
<1> QED BY <1>1, <1>2, <1>3, <1>4, <1>5, <1>6, QuietInv DEF Journalled, Forward

\* What the rollback of a deletion does to the files: the configuration is
\* restored, the zone brought back.
LEMMA RestoresFiles ==
  ASSUME Inv, pc \in Backward, NEW o, txn.op # "create",
         RestoreConfig(o) \/ RestoreDeletedZone(o)
  PROVE  /\ declared' \in {declared, txn.config}
         /\ zone' \in [Zones -> Nat] /\ tomb' \in {tomb, Absent} /\ faults' \in Nat
         /\ \A z \in Zones : zone'[z] \in {zone[z]} \union
              (IF z = txn.zone THEN {txn.file, Absent} ELSE {})
PROOF
<1>1. /\ txn \in Transactions /\ txn.zone \in Zones /\ txn.file \in Nat
      /\ journal # NoJournal /\ txn.op = journal.op /\ txn.file = journal.file
      /\ txn.op \in Operations /\ Absent \in Nat
  BY TxnInHand, JournalIsNot
     DEF Inv, Rest, InHand, Kind, Journalled, Backward, Transactions, Absent
<1>2. faults' \in Nat
  BY ZenonT(30), OutcomeType DEF RestoreConfig, RestoreDeletedZone, Inv, TypeOK
<1>3. CASE RestoreConfig(o)
  BY <1>2, <1>3 DEF RestoreConfig, Inv, TypeOK
<1>4. CASE RestoreDeletedZone(o)
  <2>1. tomb \in {Absent, txn.file}
    BY <1>1 DEF Inv, SoundJournal, Operations
  <2>2. \/ zone' = zone /\ tomb' = tomb
        \/ zone' = [zone EXCEPT ![txn.zone] = txn.file] /\ tomb' \in {tomb, Absent}
    BY ZenonT(30), <1>4, <2>1 DEF RestoreDeletedZone
  <2>3. declared' = declared
    BY <1>4 DEF RestoreDeletedZone
  <2> QED BY <1>1, <1>2, <2>2, <2>3 DEF Inv, TypeOK
<1> QED BY <1>3, <1>4

\* A step of the rollback keeps Inv.
LEMMA RollbackInv ==
  ASSUME Inv, pc \in Backward, SameTxn, txn'.ok = txn.ok,
         pc' \in {"undo second", "undo reload", "undo clear", "return"},
         UNCHANGED <<journal, served, pending, version, allowed>>,
         declared' \in {declared, txn.config},
         zone' \in [Zones -> Nat], tomb' \in {tomb, Absent}, faults' \in Nat,
         \A z \in Zones : zone'[z] \in {zone[z]} \union
              (IF z = txn.zone THEN {txn.file, Absent} ELSE {})
  PROVE  Inv'
PROOF
<1>1. /\ txn \in Transactions /\ txn.zone \in Zones /\ txn.config \subseteq Zones
      /\ journal \in Journals /\ journal # NoJournal
      /\ txn.zone = journal.zone /\ txn.config = journal.config /\ txn.file = journal.file
      /\ txn.op \in Operations /\ txn # NoTxn
  BY TxnInHand, JournalIsNot
     DEF Inv, Rest, InHand, Kind, Journalled, Backward, Transactions
<1>2. ~txn.ok /\ ~txn'.ok
  BY DEF Inv, Rest, Working
<1>3. TypeOK'
  <2>1. Absent \in Nat
    BY DEF Absent
  <2>2. tomb' \in Nat
    BY <2>1 DEF Inv, TypeOK
  <2>3. pc' \in Steps /\ pc' \notin {"down", "idle"}
    BY DEF Steps
  <2>4. declared' \subseteq Zones
    BY <1>1 DEF Inv, TypeOK
  <2> QED BY <2>2, <2>3, <2>4, TxnIsNot DEF Inv, TypeOK, SameTxn
<1>4. Rest'
  <2>1. Kind' /\ InHand' /\ Working' /\ Written' /\ Current'
    BY <1>1, <1>2
       DEF Inv, Rest, Kind, InHand, Working, Written, Current, SameTxn,
           Journalled, Forward, Backward, Editing
  <2>2. NoneLeft'
    BY <1>1, <1>2 DEF NoneLeft, AtRest, Editing, SameTxn, Operations
  <2>3. Promise'
    BY <1>1, <1>2 DEF Inv, Rest, Promise, SameTxn
  <2> QED BY <2>1, <2>2, <2>3 DEF Rest
<1>5. SoundJournal'
  BY <1>1 DEF Inv, SoundJournal
<1>6. ZoneAllowed'
  BY <1>1 DEF Inv, SoundJournal, ZoneAllowed
<1> QED BY <1>3, <1>4, <1>5, <1>6 DEF Inv

\* The first step of the rollback writes contents that are allowed.
LEMMA UndoFirstInv == ASSUME Inv, UndoFirst PROVE Inv'
PROOF
<1>1. pc \in Backward /\ txn \in Transactions /\ pc' = "undo second"
  BY TxnInHand DEF UndoFirst, Inv, Backward, Goto
<1>2. PICK o \in Outcomes :
        /\ IF txn.op = "create" THEN RestoreConfig(o) ELSE RestoreDeletedZone(o)
        /\ txn' = [txn EXCEPT !.undone = (o = "ok")]
  BY DEF UndoFirst
<1>3. SameTxn /\ txn'.ok = txn.ok
  BY <1>1, <1>2, UndoneKeeps
<1>4. UNCHANGED <<journal, served, pending, version, allowed>>
  BY DEF UndoFirst
<1>5. CASE txn.op = "create"
  <2>1. RestoreConfig(o)
    BY <1>2, <1>5
  <2>2. zone' = zone /\ tomb' = tomb /\ declared' \in {declared, txn.config} /\ faults' \in Nat
    BY <2>1, OutcomeType DEF RestoreConfig, Inv
  <2>3. zone' \in [Zones -> Nat]
    BY <2>2 DEF Inv, TypeOK
  <2> QED BY <1>1, <1>3, <1>4, <2>2, <2>3, RollbackInv
<1>6. CASE txn.op # "create"
  BY <1>1, <1>2, <1>3, <1>4, <1>6, RestoresFiles, RollbackInv
<1> QED BY <1>5, <1>6

\* So does the second.
LEMMA UndoSecondInv == ASSUME Inv, UndoSecond PROVE Inv'
PROOF
<1>1. pc \in Backward /\ txn \in Transactions
  BY TxnInHand DEF UndoSecond, Inv, Backward
<1>2. PICK o \in Outcomes :
        /\ IF txn.op = "create" THEN RemoveCreatedZone(o) ELSE RestoreConfig(o)
        /\ pc' \in {"undo reload", "undo clear", "return"}
  BY DEF UndoSecond, Goto
<1>3. SameTxn /\ txn'.ok = txn.ok
  BY <1>1, UnchangedKeeps DEF UndoSecond
<1>4. UNCHANGED <<journal, served, pending, version, allowed>>
  BY DEF UndoSecond
<1>5. CASE txn.op = "create"
  <2>1. RemoveCreatedZone(o)
    BY <1>2, <1>5
  <2>2. txn.zone \in Zones /\ Absent \in Nat /\ zone \in [Zones -> Nat]
    BY <1>1 DEF Transactions, Absent, Inv, TypeOK
  <2>3. /\ declared' = declared /\ tomb' = tomb /\ faults' \in Nat
        /\ zone' = zone \/ zone' = [zone EXCEPT ![txn.zone] = Absent]
    BY <2>1, OutcomeType DEF RemoveCreatedZone, Inv
  <2>4. /\ zone' \in [Zones -> Nat]
        /\ \A z \in Zones : zone'[z] \in {zone[z]} \union
              (IF z = txn.zone THEN {txn.file, Absent} ELSE {})
    BY <2>2, <2>3
  <2> QED BY <1>1, <1>2, <1>3, <1>4, <2>3, <2>4, RollbackInv
<1>6. CASE txn.op # "create"
  BY <1>1, <1>2, <1>3, <1>4, <1>6, RestoresFiles, RollbackInv
<1> QED BY <1>5, <1>6

\* The rollback reload.
LEMMA UndoReloadInv == ASSUME Inv, UndoReload PROVE Inv'
PROOF
<1>1. pc = "undo reload" /\ txn \in Transactions /\ txn' = txn /\ ~txn.ok
  BY TxnInHand DEF UndoReload, Inv, Rest, Working, Backward
<1>2. SameTxn
  BY <1>1, UnchangedKeeps
<1>3. UNCHANGED <<declared, zone, tomb, journal, pending, version, allowed>>
  BY DEF UndoReload, disk
<1>4. served' \in [Zones -> Nat] /\ faults' \in Nat
  BY RndcType, LoadType DEF UndoReload, Inv
<1>5. pc' \in {"undo clear", "return"} /\ txn.ok = FALSE
  BY <1>1 DEF UndoReload, Goto, Transactions
<1> QED BY <1>1, <1>2, <1>3, <1>4, <1>5, QuietInv DEF Journalled, Backward

\* A step of a record change writes contents that are allowed, or none.
LEMMA EditStepInv ==
  ASSUME Inv, pc \in Editing, SameTxn,
         UNCHANGED <<declared, tomb, journal, pending, version, allowed>>,
         \/ zone' = zone
         \/ zone' = [zone EXCEPT ![txn.zone] = txn.next]
         \/ zone' = [zone EXCEPT ![txn.zone] = txn.file],
         served' \in [Zones -> Nat], faults' \in Nat,
         \/ /\ txn'.ok = FALSE
            /\ pc' \in {"edit restore", "edit rollback reload", "return"}
         \/ /\ txn' = txn /\ pc' \in {"edit reload", "return"}
            /\ zone'[txn.zone] = txn.next /\ txn.ok
  PROVE  Inv'
PROOF
<1>1. /\ txn \in Transactions /\ txn # NoTxn /\ txn.op = "edit" /\ ~txn.recovery
      /\ txn.zone \in Zones /\ txn.file \in Nat /\ txn.next \in Nat
      /\ {txn.file, txn.next} \subseteq allowed[txn.zone] /\ journal = NoJournal
  BY TxnInHand
     DEF Inv, Rest, Kind, Working, Promise, NoneLeft, Editing, Transactions
<1>2. /\ zone' \in [Zones -> Nat]
      /\ \A z \in Zones : zone'[z] \in {zone[z]} \union
           (IF z = txn.zone THEN {txn.file, txn.next} ELSE {})
  BY <1>1 DEF Inv, TypeOK
<1>3. TypeOK'
  <2>1. pc' \in Steps /\ pc' \notin {"down", "idle"}
    BY DEF Steps
  <2> QED BY <1>2, <2>1, TxnIsNot DEF Inv, TypeOK, SameTxn
<1>4. Rest'
  <2>1. Kind' /\ InHand' /\ Working' /\ Written' /\ Current' /\ NoneLeft'
    BY <1>1 DEF Kind, InHand, Working, Written, Current, NoneLeft, AtRest, SameTxn,
                Journalled, Forward, Backward, Editing
  <2>2. Promise'
    BY <1>1 DEF Inv, Rest, Promise, SameTxn
  <2> QED BY <2>1, <2>2 DEF Rest
<1>5. SoundJournal' /\ ZoneAllowed'
  BY <1>1, <1>2 DEF Inv, SoundJournal, ZoneAllowed
<1> QED BY <1>3, <1>4, <1>5 DEF Inv

\* The four steps of applyZoneFileTransaction.
LEMMA EditingInv ==
  ASSUME Inv, CommitEdit \/ ReloadEdit \/ RestoreEdit \/ RollbackReload
  PROVE  Inv'
PROOF
<1>1. /\ pc \in Editing /\ txn \in Transactions /\ txn.zone \in Zones
      /\ zone \in [Zones -> Nat] /\ served \in [Zones -> Nat]
  BY ZenonT(30), TxnInHand DEF CommitEdit, ReloadEdit, RestoreEdit, RollbackReload, Editing, Inv,
                   TypeOK, Transactions
<1>2. UNCHANGED <<declared, tomb, journal, pending, version, allowed>>
  BY DEF CommitEdit, ReloadEdit, RestoreEdit, RollbackReload, disk
<1>3. SameTxn
  BY <1>1, FailsKeeps, UnchangedKeeps
     DEF CommitEdit, ReloadEdit, RestoreEdit, RollbackReload, Fail
<1>4. CASE CommitEdit
  <2>1. txn.ok /\ served' = served /\ faults' \in Nat
    BY <1>4, OutcomeType DEF CommitEdit, Inv, Rest, Working
  <2>2. \/ zone' = zone
        \/ zone' = [zone EXCEPT ![txn.zone] = txn.next]
    BY <1>4 DEF CommitEdit
  <2>3. \/ txn'.ok = FALSE /\ pc' = "return"
        \/ /\ txn' = txn /\ pc' \in {"edit reload", "return"}
           /\ zone'[txn.zone] = txn.next
    BY <1>1, <1>4, FailsKeeps DEF CommitEdit, Goto, Fail
  <2> QED BY <1>1, <1>2, <1>3, <2>1, <2>2, <2>3, EditStepInv
<1>5. CASE ReloadEdit
  <2>1. txn.ok /\ zone' = zone /\ zone[txn.zone] = txn.next
    BY <1>5 DEF ReloadEdit, Inv, Rest, Working, Written, disk
  <2>2. served' \in [Zones -> Nat] /\ faults' \in Nat
    BY <1>1, <1>5, RndcType, LoadZoneType DEF ReloadEdit, Inv
  <2>3. \/ txn'.ok = FALSE /\ pc' = "edit restore"
        \/ txn' = txn /\ pc' = "return"
    BY <1>1, <1>5, FailsKeeps DEF ReloadEdit, Goto
  <2> QED BY ZenonT(30), <1>1, <1>2, <1>3, <2>1, <2>2, <2>3, EditStepInv
<1>6. CASE RestoreEdit
  <2>1. txn'.ok = FALSE /\ served' = served /\ faults' \in Nat
    BY <1>1, <1>6, OutcomeType DEF RestoreEdit, Inv, Rest, Working, Transactions
  <2>2. \/ zone' = zone
        \/ zone' = [zone EXCEPT ![txn.zone] = txn.file]
    BY <1>6 DEF RestoreEdit
  <2>3. pc' \in {"edit rollback reload", "return"}
    BY <1>6 DEF RestoreEdit, Goto
  <2> QED BY <1>1, <1>2, <1>3, <2>1, <2>2, <2>3, EditStepInv
<1>7. CASE RollbackReload
  <2>1. txn'.ok = FALSE /\ zone' = zone /\ pc' = "return"
    BY <1>1, <1>7 DEF RollbackReload, Inv, Rest, Working, Transactions, disk, Goto
  <2>2. served' \in [Zones -> Nat] /\ faults' \in Nat
    BY <1>1, <1>7, RndcType, LoadZoneType DEF RollbackReload, Inv
  <2> QED BY ZenonT(30), <1>1, <1>2, <1>3, <2>1, <2>2, EditStepInv
<1> QED BY <1>4, <1>5, <1>6, <1>7

\* The operation startup makes of the journal (recoverLifecycleJournal).
Recovers(t) ==
  /\ t \in Transactions
  /\ t.op = journal.op /\ t.zone = journal.zone /\ t.config = journal.config
  /\ t.file = journal.file /\ t.next = Absent /\ t.reload = TRUE
  /\ t.ok = FALSE /\ t.recovery = TRUE

\* Startup takes everything from the journal.
LEMMA RecoveryType ==
  ASSUME journal \in Journals
  PROVE  Recovers([op |-> journal.op, zone |-> journal.zone,
                   config |-> journal.config, file |-> journal.file,
                   next |-> Absent, reload |-> TRUE, ok |-> FALSE,
                   undone |-> FALSE, recovery |-> TRUE])
PROOF BY DEF Journals, Transactions, Recovers, Absent

\* recoverLifecycleJournal begins.
LEMMA StartInv == ASSUME Inv, Start PROVE Inv'
PROOF
<1>1. UNCHANGED <<declared, zone, tomb, journal, served, version, allowed>> /\ pc = "down"
  BY DEF Start, disk
<1>2. faults' \in Nat
  BY OutcomeType DEF Start, Inv
<1>3. CASE journal = NoJournal
  <2>1. pc' = "idle" /\ txn' = txn /\ pending' \in BOOLEAN
    BY <1>3 DEF Start, Goto
  <2>2. TypeOK'
    BY <1>1, <1>2, <2>1 DEF Inv, TypeOK
  <2>3. txn = NoTxn
    BY <1>1 DEF Inv, TypeOK
  <2>4. Rest'
    BY <1>1, <1>3, <2>1, <2>3
       DEF Rest, Kind, InHand, NoneLeft, Promise, Working, Written, Current,
           Journalled, Forward, Backward, Editing
  <2> QED BY <1>1, <2>2, <2>4 DEF Inv, SoundJournal, ZoneAllowed
<1>4. CASE journal # NoJournal
  <2>1. journal \in Journals /\ journal.op \in Operations
    BY <1>4 DEF Inv, TypeOK, Journals
  <2>2. Recovers(txn')
    BY <1>4, <2>1, RecoveryType DEF Start
  <2>3. pc' \in {"return", "undo first", "finalize", "clear"} /\ pending' = pending
    BY <1>4, <2>1 DEF Start, Goto, Operations
  <2>4. TypeOK'
    BY <1>1, <1>2, <2>2, <2>3, TxnIsNot DEF Inv, TypeOK, Recovers, Steps
  <2>5. Rest'
    BY <1>1, <2>1, <2>2, <2>3
       DEF Rest, Kind, InHand, NoneLeft, Promise, Working, Written, Current, Recovers, AtRest,
           Journalled, Forward, Backward, Editing, Operations
  <2> QED BY <1>1, <2>4, <2>5 DEF Inv, SoundJournal, ZoneAllowed
<1> QED BY <1>3, <1>4

\* removeRecoveryTombstone.
LEMMA FinalizeInv == ASSUME Inv, Finalize PROVE Inv'
PROOF
<1>1. pc = "finalize" /\ txn \in Transactions /\ txn' = txn /\ txn.ok = FALSE
  BY TxnInHand DEF Finalize, Inv, Rest, Working, Transactions
<1>2. SameTxn
  BY <1>1, UnchangedKeeps
<1>3. /\ UNCHANGED <<declared, zone, journal, served, pending, version, allowed>>
      /\ tomb' \in {tomb, Absent} /\ pc' \in {"clear", "return"}
  BY DEF Finalize, Goto
<1>4. served' \in [Zones -> Nat] /\ faults' \in Nat
  BY <1>3, OutcomeType DEF Finalize, Inv, TypeOK
<1> QED BY <1>1, <1>2, <1>3, <1>4, QuietInv DEF Journalled

\* The answer of a success is the one place where allowed contents are dropped.
LEMMA ReturnInv == ASSUME Inv, Return PROVE Inv'
PROOF
<1>1. /\ pc = "return" /\ pc' = "idle" /\ txn \in Transactions /\ txn' = NoTxn
      /\ UNCHANGED <<declared, zone, tomb, journal, served, version>>
      /\ txn.zone \in Zones /\ txn.next \in Nat
  BY TxnInHand DEF Return, Goto, disk, Inv, Transactions
<1>2. faults' \in Nat
  BY OutcomeType DEF Return, Inv
<1>3. /\ pending' \in BOOLEAN
      /\ txn.op = "edit" \/ pending' \/ journal = NoJournal
  BY ZenonT(30) DEF Return, Inv, TypeOK
<1>4. pending' \/ journal = NoJournal
  BY <1>1, <1>3 DEF Inv, Rest, NoneLeft
<1>5. \/ allowed' = allowed
      \/ allowed' = [allowed EXCEPT ![txn.zone] = {txn.next}] /\ txn.ok
  BY DEF Return
<1>6. TypeOK'
  <2>1. allowed' \in [Zones -> SUBSET Nat]
    BY <1>1, <1>5 DEF Inv, TypeOK
  <2> QED BY <1>1, <1>2, <1>3, <2>1 DEF Inv, TypeOK
<1>7. Rest'
  BY <1>1, <1>4 DEF Rest, Kind, InHand, NoneLeft, Promise, Working, Written, Current, AtRest,
                    Journalled, Forward, Backward, Editing
<1>8. CASE allowed' = allowed
  BY <1>1, <1>6, <1>7, <1>8 DEF Inv, SoundJournal, ZoneAllowed
<1>9. CASE allowed' = [allowed EXCEPT ![txn.zone] = {txn.next}] /\ txn.ok
  <2>1. journal = NoJournal /\ zone[txn.zone] = txn.next
    BY <1>1, <1>9 DEF Inv, Rest, NoneLeft, Written
  <2>2. ZoneAllowed'
    BY <1>1, <1>9, <2>1 DEF Inv, TypeOK, ZoneAllowed
  <2> QED BY <1>1, <1>6, <1>7, <2>1, <2>2 DEF Inv, SoundJournal
<1> QED BY <1>5, <1>8, <1>9

\* The journal and the files survive the process.
LEMMA ExitInv == ASSUME Inv, Stop \/ Crash PROVE Inv'
PROOF
<1>1. /\ pc' = "down" /\ txn' = NoTxn /\ pending' = FALSE
      /\ UNCHANGED <<declared, zone, tomb, journal, served, version, allowed>>
  BY DEF Stop, Crash, Exit, Goto, disk
<1>2. faults' \in Nat
  BY DEF Stop, Crash, Inv, TypeOK
<1>3. TypeOK'
  BY ZenonT(30), <1>1, <1>2 DEF Inv, TypeOK
<1>4. Rest'
  BY <1>1 DEF Rest, Kind, InHand, NoneLeft, Promise, Working, Written, Current, AtRest,
              Journalled, Forward, Backward, Editing
<1> QED BY <1>1, <1>3, <1>4 DEF Inv, SoundJournal, ZoneAllowed

\* Every step keeps Inv.
LEMMA NextInv == ASSUME Inv, [Next]_vars PROVE Inv'
PROOF
<1>1. CASE UNCHANGED vars
  <2>1. UNCHANGED <<declared, zone, tomb, journal, served, pc, txn, pending, version, faults, allowed>>
    BY <1>1 DEF vars, disk
  <2>2. TypeOK'
    BY <2>1 DEF Inv, TypeOK
  <2>3. Rest'
    BY ZenonT(30), <2>1 DEF Inv, Rest, Kind, InHand, NoneLeft, Promise, Working, Written, Current, AtRest
  <2>4. SoundJournal' /\ ZoneAllowed'
    BY <2>1 DEF Inv, SoundJournal, ZoneAllowed
  <2> QED BY <2>2, <2>3, <2>4 DEF Inv
<1>2. CASE Request
  BY ZenonT(30), <1>2, CreateZoneInv, DeleteZoneInv, EditZoneInv, ReloadsInv
     DEF Request, UpdateSOA, AddRecord, UpdateRecord, DeleteRecord
<1>3. CASE Step
  BY <1>3, PrepareInv, ClearJournalInv, UpdateStageInv, CommitZoneInv, CommitConfigInv,
     ReloadChangedInv, RemoveTombstoneInv, UndoFirstInv, UndoSecondInv, UndoReloadInv,
     EditingInv, StartInv, FinalizeInv, ReturnInv
     DEF Step
<1> QED BY <1>1, <1>2, <1>3, ExitInv DEF Next

-----------------------------------------------------------------------------
\* Inv holds throughout, whatever fails.
LEMMA Invariance == Spec => []Inv
PROOF BY InitInv, NextInv, PTL DEF Spec

\* The types of the files, of the journal and of the operation in hand.
THEOREM ZoneTypes == Spec => []TypeOK
PROOF
<1>1. Inv => TypeOK
  BY DEF Inv
<1> QED BY <1>1, Invariance, PTL

\* No acknowledged change of a zone is lost: whatever fails and wherever the
\* panel dies, a zone open to mutations has the content of the last acknowledged
\* operation or of one tried since (applyZoneFileTransaction,
\* recoverLifecycleJournal, Service.refreshRecoveryState).
THEOREM AcknowledgedSurvives == Spec => []AckedSurvives
PROOF
<1>1. Inv => AckedSurvives
  BY DEF Inv, ZoneAllowed, AckedSurvives
<1> QED BY <1>1, Invariance, PTL

\* The rollback of one zone cannot undo another: the configuration a journal
\* would restore differs from the current one in its own zone at most.
THEOREM RollbackStaysLocal == Spec => []RollbackIsLocal
PROOF
<1>1. Inv => RollbackIsLocal
  BY DEF Inv, SoundJournal, RollbackIsLocal
<1> QED BY <1>1, Invariance, PTL

-----------------------------------------------------------------------------
(* Without a failed sync: the two files of a zone and named agree.          *)

NoSync == "sync" \notin Faults

\* A zone is declared exactly when its file exists, and when named serves it.
Whole(z) == z \in declared <=> zone[z] # Absent
Loaded(z) == z \in declared <=> served[z] # Absent

\* Only the zone of the journal may be in between.
OthersAgree ==
  \A z \in Zones : journal = NoJournal \/ z # journal.zone => Whole(z) /\ Loaded(z)

\* What a journal restores is whole; one that says "reloaded" need not be undone.
JournalFits ==
  journal # NoJournal =>
    /\ journal.op = "create" => journal.zone \notin journal.config /\ journal.file = Absent
    /\ journal.op = "delete" => journal.zone \in journal.config /\ journal.file # Absent
    /\ journal.stage = "reloaded" => Whole(journal.zone) /\ Loaded(journal.zone)

\* No step but the last few finds such a journal.
NotReloaded ==
  pc \in Forward \union Backward \union {"abort"} => journal.stage # "reloaded"

\* How far the operation in hand has come: the files untouched, both changed,
\* named reloaded, the files restored.
Progress ==
  /\ pc \in {"zone", "stage1", "config", "abort"} => declared = txn.config
  /\ pc = "abort" => zone[txn.zone] = txn.file
  /\ pc \in {"stage2", "reload", "remove tombstone", "stage3", "clear", "finalize"}
     => Whole(txn.zone)
  /\ pc \in {"remove tombstone", "stage3", "clear", "finalize", "undo clear"}
     => Loaded(txn.zone)
  /\ pc = "undo second" /\ txn.undone =>
       /\ txn.op = "create" => declared = txn.config
       /\ txn.op = "delete" => zone[txn.zone] = txn.file
  /\ pc \in {"undo reload", "undo clear"} =>
       declared = txn.config /\ zone[txn.zone] = txn.file

\* named still serves what it served before the operation: no reload is needed.
ServedBefore ==
  \/ pc \in {"zone", "stage1", "config", "abort"}
  \/ pc \in {"undo first", "undo second"} /\ ~txn.reload
  => (txn.zone \in txn.config <=> served[txn.zone] # Absent)

\* The snapshots and the new content of an operation fit its kind, and only a
\* success or the recovery clears the journal of a finished change.
TxnFits ==
  /\ pc \in Forward \union {"prepare", "edit"} /\ txn.op # "delete" => txn.next # Absent
  /\ pc = "prepare" /\ txn.op = "create" => txn.zone \notin txn.config /\ txn.file = Absent
  /\ pc = "prepare" /\ txn.op = "delete" => txn.zone \in txn.config /\ txn.file # Absent
  /\ pc \in Editing => txn.zone \in declared /\ txn.file # Absent
  /\ pc = "finalize" => txn.recovery
  /\ pc = "clear" => txn.ok \/ txn.recovery

Agree == OthersAgree /\ JournalFits /\ NotReloaded /\ Progress /\ ServedBefore /\ TxnFits
         /\ ErrorLeavesZone

\* Without a failed sync a call goes through or changes nothing.
LEMMA OkOrFail == ASSUME NoSync, NEW o, Outcome(o) PROVE o \in {"ok", "fail"}
PROOF BY DEF NoSync, Outcome

\* The operation in hand and its journal.
LEMMA HandFacts ==
  ASSUME Inv, pc \in Journalled
  PROVE  /\ txn \in Transactions /\ txn.op \in Operations /\ txn.zone \in Zones
         /\ journal \in Journals /\ journal # NoJournal
         /\ txn.op = journal.op /\ txn.zone = journal.zone
         /\ txn.config = journal.config /\ txn.file = journal.file
PROOF BY TxnInHand, JournalIsNot
         DEF Inv, Rest, InHand, Kind, Journalled, Forward, Backward, Transactions

\* A reload of a whole zone makes named serve it exactly when it is declared ...
LEMMA LoadAgrees ==
  ASSUME TypeOK, NEW z \in Zones, Whole(z)
  PROVE  z \in declared <=> Load[z] # Absent
PROOF BY DEF TypeOK, Load, Whole

\* ... and the reload of one zone keeps this of every zone that is whole.
LEMMA LoadZoneAgrees ==
  ASSUME TypeOK, NEW y \in Zones, NEW z \in Zones, Whole(z), Loaded(z)
  PROVE  z \in declared <=> LoadZone(y)[z] # Absent
PROOF BY DEF TypeOK, LoadZone, Whole, Loaded

\* What rndc does to a whole zone.
LEMMA RndcAgrees ==
  ASSUME TypeOK, NEW o, NEW z \in Zones, Rndc(o, Load), Whole(z), UNCHANGED declared
  PROVE  /\ Loaded(z) => Loaded(z)'
         /\ o = "ok" => Loaded(z)'
PROOF
<1>1. z \in declared <=> Load[z] # Absent
  BY LoadAgrees
<1>2. served' = Load \/ (served' = served /\ o # "ok")
  BY DEF Rndc
<1> QED BY <1>1, <1>2 DEF Loaded

\* A first start finds every zone whole and served.
LEMMA InitAgree == ASSUME Init PROVE Agree
PROOF
<1>1. \A z \in Zones : zone[z] = IF z \in declared THEN 1 ELSE Absent
  BY DEF Init
<1>2. OthersAgree
  BY <1>1 DEF Init, OthersAgree, Whole, Loaded, Absent
<1> QED BY <1>2 DEF Init, Agree, JournalFits, NotReloaded, Progress, ServedBefore, TxnFits,
                    ErrorLeavesZone, Forward, Backward, Editing

\* The requests change no file.
LEMMA RequestAgree ==
  ASSUME Inv, Agree,
         \/ \E z \in Zones : CreateZone(z) \/ DeleteZone(z)
         \/ \E z \in Zones, r \in BOOLEAN : EditZone(z, r)
  PROVE  Agree'
PROOF
<1>1. /\ pc = "idle" /\ UNCHANGED <<declared, zone, journal, served>>
      /\ journal = NoJournal
  BY ZenonT(30) DEF CreateZone, DeleteZone, EditZone, RequireZoneManagement, disk, Inv, Rest, NoneLeft,
         AtRest
<1>2. PICK z \in Zones :
        \/ /\ pc' = "prepare" /\ z \notin declared /\ zone[z] = Absent
           /\ Begun(txn', "create", z, version + 1)
        \/ /\ pc' = "prepare" /\ z \in declared /\ zone[z] # Absent
           /\ Begun(txn', "delete", z, Absent)
        \/ /\ pc' = "edit" /\ z \in declared /\ zone[z] # Absent
           /\ Begun(txn', "edit", z, version + 1)
  <2>1. version + 1 \in Nat /\ Absent \in Nat /\ TypeOK
    BY DEF Inv, TypeOK, Absent
  <2>2. ASSUME NEW z \in Zones, CreateZone(z)
        PROVE  /\ pc' = "prepare" /\ z \notin declared /\ zone[z] = Absent
               /\ Begun(txn', "create", z, version + 1)
    BY ZenonT(30), <2>1, <2>2, TransactionType DEF CreateZone, Goto
  <2>3. ASSUME NEW z \in Zones, DeleteZone(z)
        PROVE  /\ pc' = "prepare" /\ z \in declared /\ zone[z] # Absent
               /\ Begun(txn', "delete", z, Absent)
    BY ZenonT(30), <2>1, <2>3, TransactionType DEF DeleteZone, Goto
  <2>4. ASSUME NEW z \in Zones, NEW r \in BOOLEAN, EditZone(z, r)
        PROVE  /\ pc' = "edit" /\ z \in declared /\ zone[z] # Absent
               /\ Begun(txn', "edit", z, version + 1)
    BY <2>1, <2>4, TransactionType DEF EditZone, Goto
  <2> QED BY <2>2, <2>3, <2>4
<1>3. version + 1 # Absent
  BY DEF Inv, TypeOK, Absent
<1>4. OthersAgree' /\ JournalFits'
  BY SMTT(30), <1>1 DEF Agree, OthersAgree, JournalFits, Whole, Loaded
<1>5. NotReloaded' /\ Progress' /\ ServedBefore' /\ ErrorLeavesZone'
  BY <1>2 DEF NotReloaded, Progress, ServedBefore, ErrorLeavesZone, Forward, Backward
<1>6. TxnFits'
  BY ZenonT(30), <1>1, <1>2, <1>3 DEF TxnFits, Begun, Forward, Editing
<1> QED BY <1>4, <1>5, <1>6 DEF Agree

\* A reload by hand finds every zone whole.
LEMMA ReloadsAgree ==
  ASSUME Inv, Agree, Reload \/ \E y \in Zones : ReloadZone(y) PROVE Agree'
PROOF
<1>1. /\ pc = "idle" /\ UNCHANGED <<declared, zone, tomb, journal, pc, txn>>
      /\ journal = NoJournal /\ TypeOK
  BY DEF Reload, ReloadZone, RequireZoneManagement, disk, Inv, Rest, NoneLeft, AtRest
<1>2. \A z \in Zones : Whole(z) /\ Loaded(z)
  BY <1>1 DEF Agree, OthersAgree
<1>3. ASSUME NEW z \in Zones PROVE Whole(z)' /\ Loaded(z)'
  <2>1. \/ served' = served
        \/ served' = Load
        \/ \E y \in Zones : served' = LoadZone(y)
    BY DEF Reload, ReloadZone, Rndc
  <2>2. z \in declared <=> Load[z] # Absent
    BY <1>1, <1>2, LoadAgrees
  <2>3. \A y \in Zones : z \in declared <=> LoadZone(y)[z] # Absent
    BY <1>1, <1>2, LoadZoneAgrees
  <2>4. z \in declared <=> served'[z] # Absent
    BY <1>2, <2>1, <2>2, <2>3 DEF Loaded
  <2> QED BY <1>1, <1>2, <2>4 DEF Whole, Loaded
<1>4. OthersAgree' /\ JournalFits'
  BY <1>1, <1>3 DEF OthersAgree, JournalFits
<1> QED BY <1>1, <1>4 DEF Agree, NotReloaded, Progress, ServedBefore, TxnFits,
                    ErrorLeavesZone, Forward, Backward, Editing

\* The journal is written while every zone is whole and served.
LEMMA PrepareAgree == ASSUME NoSync, Inv, Agree, Prepare PROVE Agree'
PROOF
<1>1. /\ pc = "prepare" /\ txn \in Transactions /\ txn.op \in Operations
      /\ journal = NoJournal /\ txn.config = declared /\ txn.file = zone[txn.zone]
      /\ txn.zone \in Zones
  BY TxnInHand DEF Prepare, Inv, Rest, Kind, NoneLeft, Current, Transactions
<1>2. UNCHANGED <<declared, zone, served>>
  BY DEF Prepare
<1>3. \/ Recorded(journal') /\ pc' = "zone" /\ txn' = txn
      \/ journal' = NoJournal /\ pc' = "return" /\ SameTxn
  BY ZenonT(30), <1>1, JournalType, FailsKeeps, OkOrFail DEF Prepare, Fail, Goto
<1>4. \A z \in Zones : Whole(z)' /\ Loaded(z)'
  BY <1>1, <1>2 DEF Agree, OthersAgree, Whole, Loaded
<1>5. OthersAgree'
  BY <1>4 DEF OthersAgree
<1>6. CASE Recorded(journal') /\ pc' = "zone" /\ txn' = txn
  <2>1. JournalFits'
    BY <1>1, <1>6 DEF Agree, TxnFits, JournalFits, Recorded
  <2>2. NotReloaded' /\ Progress' /\ ErrorLeavesZone'
    BY <1>1, <1>2, <1>6 DEF NotReloaded, Progress, ErrorLeavesZone, Recorded
  <2>3. TxnFits'
    BY <1>1, <1>6 DEF Agree, TxnFits, Forward, Editing
  <2>4. ServedBefore'
    BY SMTT(30), <1>1, <1>2, <1>4, <1>6 DEF ServedBefore, Loaded
  <2> QED BY <1>5, <2>1, <2>2, <2>3, <2>4 DEF Agree
<1>7. CASE journal' = NoJournal /\ pc' = "return" /\ SameTxn
  BY <1>1, <1>2, <1>5, <1>7 DEF Agree, JournalFits, NotReloaded, Progress, ServedBefore, TxnFits,
        ErrorLeavesZone, Forward, Backward, Editing, SameTxn
<1> QED BY <1>3, <1>6, <1>7

\* A step that leaves the files, the journal's identity and what named serves
\* alone keeps what is said of all zones.
LEMMA StillAgree ==
  ASSUME Agree, UNCHANGED <<declared, zone, served>>,
         \/ journal' = journal
         \/ /\ journal # NoJournal /\ SameJournal
            /\ journal'.stage = "reloaded" => Whole(journal.zone) /\ Loaded(journal.zone)
  PROVE  OthersAgree' /\ JournalFits'
PROOF
<1>1. CASE journal' = journal
  BY <1>1 DEF Agree, OthersAgree, JournalFits, Whole, Loaded
<1>2. CASE /\ journal # NoJournal /\ SameJournal
           /\ journal'.stage = "reloaded" => Whole(journal.zone) /\ Loaded(journal.zone)
  BY <1>2, JournalIsNot DEF Agree, OthersAgree, JournalFits, SameJournal, Whole, Loaded
<1> QED BY <1>1, <1>2

\* Only the last updateStage writes "reloaded", with both files changed and
\* named reloaded.
LEMMA UpdateStageAgree ==
  ASSUME NoSync, Inv, Agree, NEW from, NEW stage, NEW to, UpdateStage(from, stage, to),
         \/ from = "stage1" /\ stage = "zone-committed" /\ to = "config"
         \/ from = "stage2" /\ stage = "config-committed" /\ to = "reload"
         \/ from = "stage3" /\ stage = "reloaded" /\ to = "clear"
  PROVE  Agree'
PROOF
<1>1. pc = from /\ pc \in Journalled /\ stage \in Stages
  BY DEF UpdateStage, Journalled, Forward, Stages
<1>2. /\ txn \in Transactions /\ txn.op \in Operations
      /\ journal \in Journals /\ journal # NoJournal /\ txn.zone = journal.zone
  BY <1>1, HandFacts
<1>3. UNCHANGED <<declared, zone, served>>
  BY DEF UpdateStage
<1>4. \/ /\ SameJournal /\ journal'.stage = stage /\ pc' = to /\ txn' = txn
      \/ /\ journal' = journal /\ pc' = "undo first" /\ SameTxn
         /\ txn'.reload = TRUE /\ txn'.ok = FALSE
  BY <1>1, <1>2, StageType, UndoKeeps, OkOrFail DEF UpdateStage, Goto, SameJournal
<1>5. journal.stage # "reloaded"
  BY ZenonT(30), <1>1 DEF Agree, NotReloaded, Forward
<1>6. OthersAgree' /\ JournalFits'
  BY <1>1, <1>2, <1>3, <1>4, StillAgree DEF Agree, Progress
<1>7. CASE SameJournal /\ journal'.stage = stage /\ pc' = to /\ txn' = txn
  <2>1. NotReloaded' /\ TxnFits' /\ ErrorLeavesZone'
    BY ZenonT(30), <1>1, <1>7 DEF Agree, NotReloaded, TxnFits, ErrorLeavesZone, Forward, Backward, Editing,
                      Inv, Rest, Working
  <2>2. Progress' /\ ServedBefore'
    BY ZenonT(30), <1>1, <1>3, <1>7 DEF Agree, Progress, ServedBefore, Whole, Loaded
  <2> QED BY <1>6, <2>1, <2>2 DEF Agree
<1>8. CASE /\ journal' = journal /\ pc' = "undo first" /\ SameTxn
           /\ txn'.reload = TRUE /\ txn'.ok = FALSE
  BY ZenonT(30), <1>5, <1>6, <1>8 DEF Agree, NotReloaded, Progress, ServedBefore, TxnFits,
        ErrorLeavesZone, Forward, Backward, Editing
<1> QED BY <1>4, <1>7, <1>8

\* The journal is cleared only when its zone is whole and served again.
LEMMA ClearJournalAgree == ASSUME NoSync, Inv, Agree, ClearJournal PROVE Agree'
PROOF
<1>1. pc \in {"clear", "abort", "undo clear"} /\ pc \in Journalled
  BY DEF ClearJournal, Journalled, Backward
<1>2. /\ txn \in Transactions /\ txn.op \in Operations /\ txn.zone \in Zones
      /\ journal \in Journals /\ journal # NoJournal
      /\ txn.op = journal.op /\ txn.zone = journal.zone
      /\ txn.config = journal.config /\ txn.file = journal.file
  BY <1>1, HandFacts
<1>3. UNCHANGED <<declared, zone, served>>
  BY DEF ClearJournal
<1>4. SameTxn /\ pc' = "return"
  BY <1>1, <1>2, FailsKeeps, UnchangedKeeps DEF ClearJournal, Fail, Goto
<1>5. \/ journal' = NoJournal /\ (pc = "clear" => txn' = txn)
      \/ journal' = journal
  BY <1>1, OkOrFail DEF ClearJournal
<1>6. Whole(txn.zone) /\ Loaded(txn.zone)
  <2>1. CASE pc = "clear"
    BY <2>1 DEF Agree, Progress
  <2>2. CASE pc = "abort"
    BY <1>2, <2>2 DEF Agree, Progress, ServedBefore, JournalFits, Whole, Loaded, Operations
  <2>3. CASE pc = "undo clear"
    BY <1>2, <2>3 DEF Agree, Progress, JournalFits, Whole, Operations
  <2> QED BY ZenonT(30), <1>1, <2>1, <2>2, <2>3
<1>7. OthersAgree' /\ JournalFits'
  <2>1. CASE journal' = journal
    BY <1>3, <2>1, StillAgree
  <2>2. CASE journal' = NoJournal
    BY <1>2, <1>3, <1>6, <2>2 DEF Agree, OthersAgree, JournalFits, Whole, Loaded
  <2> QED BY <1>5, <2>1, <2>2
<1>8. ErrorLeavesZone'
  <2>1. CASE pc = "clear"
    <3>1. CASE journal' = journal
      BY <1>2, <3>1 DEF ErrorLeavesZone
    <3>2. CASE journal' = NoJournal /\ txn' = txn
      <4>1. CASE txn.ok
        BY <3>2, <4>1 DEF ErrorLeavesZone
      <4>2. CASE ~txn.ok
        BY <2>1, <3>2, <4>2 DEF ErrorLeavesZone, Agree, TxnFits
      <4> QED BY <4>1, <4>2
    <3> QED BY <1>5, <2>1, <3>1, <3>2
  <2>2. CASE pc # "clear"
    BY ZenonT(30), <1>1, <1>3, <1>4, <2>2 DEF Agree, Progress, ErrorLeavesZone, SameTxn
  <2> QED BY <2>1, <2>2
<1> QED BY <1>4, <1>7, <1>8 DEF Agree, NotReloaded, Progress, ServedBefore, TxnFits,
                    Forward, Backward, Editing

\* A change of the journal's own zone leaves the others whole and loaded.
LEMMA OnlyItsZone ==
  ASSUME Agree, UNCHANGED journal, journal # NoJournal, journal.stage # "reloaded",
         \A z \in Zones : z # journal.zone =>
            (z \in declared' <=> z \in declared) /\ zone'[z] = zone[z] /\ served'[z] = served[z]
  PROVE  OthersAgree' /\ JournalFits'
PROOF BY DEF Agree, OthersAgree, JournalFits, Whole, Loaded

\* The commit of the zone file, or nothing.
LEMMA CommitZoneAgree ==
  ASSUME NoSync, Inv, Agree, CommitNewZone \/ MoveToTombstone PROVE Agree'
PROOF
<1>1. pc = "zone" /\ pc \in Journalled /\ pc \in Forward
  BY DEF CommitNewZone, MoveToTombstone, Journalled, Forward
<1>2. /\ txn \in Transactions /\ txn.op \in Operations /\ txn.zone \in Zones
      /\ journal # NoJournal /\ txn.zone = journal.zone
  BY <1>1, HandFacts
<1>3. UNCHANGED <<declared, journal, served, txn>>
  BY DEF CommitNewZone, MoveToTombstone
<1>4. \/ zone' = zone /\ pc' = "abort"
      \/ zone' = [zone EXCEPT ![txn.zone] = txn.next] /\ pc' = "stage1"
  <2>1. txn.op = "delete" => txn.next = Absent
    BY <1>1, <1>2, TxnIsNot DEF Inv, Rest, Promise, Working
  <2>2. CASE CommitNewZone
    BY <2>2, OkOrFail DEF CommitNewZone, Goto
  <2>3. CASE MoveToTombstone
    BY ZenonT(30), <2>1, <2>3, OkOrFail DEF MoveToTombstone, Goto
  <2> QED BY <2>2, <2>3
<1>5. journal.stage # "reloaded"
  BY <1>1 DEF Agree, NotReloaded
<1>6. OthersAgree' /\ JournalFits'
  BY SMTT(30), <1>2, <1>3, <1>4, <1>5, OnlyItsZone DEF Inv, TypeOK
<1>7. Progress'
  BY ZenonT(30), <1>1, <1>3, <1>4 DEF Agree, Progress, Inv, Rest, Current
<1>8. NotReloaded' /\ ServedBefore' /\ TxnFits' /\ ErrorLeavesZone'
  BY <1>1, <1>3, <1>4 DEF Agree, NotReloaded, ServedBefore, TxnFits, ErrorLeavesZone,
                    Forward, Backward, Editing
<1> QED BY <1>6, <1>7, <1>8 DEF Agree

\* With the configuration the zone is whole again, in its new state.
LEMMA CommitConfigAgree == ASSUME NoSync, Inv, Agree, CommitConfig PROVE Agree'
PROOF
<1>1. pc = "config" /\ pc \in Journalled /\ pc \in Forward
  BY DEF CommitConfig, Journalled, Forward
<1>2. /\ txn \in Transactions /\ txn.op \in Operations /\ txn.zone \in Zones /\ txn # NoTxn
      /\ journal # NoJournal /\ txn.zone = journal.zone
  BY <1>1, HandFacts, TxnIsNot
<1>3. UNCHANGED <<zone, journal, served>> /\ declared = txn.config
  BY <1>1 DEF CommitConfig, Agree, Progress
<1>4. \/ /\ declared' = declared /\ pc' = "undo first" /\ SameTxn
         /\ txn'.reload = FALSE /\ txn'.ok = FALSE
      \/ /\ declared' = IF txn.op = "create" THEN txn.config \union {txn.zone}
                                            ELSE txn.config \ {txn.zone}
         /\ pc' = "stage2" /\ txn' = txn
  BY <1>2, OkOrFail, UndoKeeps DEF CommitConfig, Goto, Operations
<1>5. journal.stage # "reloaded"
  BY <1>1 DEF Agree, NotReloaded
<1>6. OthersAgree' /\ JournalFits'
  BY ZenonT(30), <1>2, <1>3, <1>4, <1>5, OnlyItsZone
<1>7. CASE /\ declared' = declared /\ pc' = "undo first" /\ SameTxn
           /\ txn'.reload = FALSE /\ txn'.ok = FALSE
  BY ZenonT(30), <1>1, <1>3, <1>5, <1>6, <1>7 DEF Agree, NotReloaded, Progress, ServedBefore, TxnFits,
        ErrorLeavesZone, Forward, Backward, Editing, SameTxn
<1>8. CASE /\ declared' = IF txn.op = "create" THEN txn.config \union {txn.zone}
                                              ELSE txn.config \ {txn.zone}
           /\ pc' = "stage2" /\ txn' = txn
  <2>1. zone[txn.zone] = txn.next /\ txn.ok /\ ~txn.recovery
    BY <1>1, <1>2 DEF Inv, Rest, Written, Working, Promise, Forward
  <2>2. txn.op = "create" => txn.next # Absent
    BY <1>1 DEF Agree, TxnFits
  <2>3. txn.op = "delete" => txn.next = Absent
    BY <1>2, <2>1 DEF Inv, Rest, Promise
  <2>4. Whole(txn.zone)'
    BY <1>2, <1>3, <1>8, <2>1, <2>2, <2>3 DEF Whole, Operations
  <2>5. Progress'
    BY <1>8, <2>4 DEF Progress
  <2> QED BY SMTT(30), <1>1, <1>3, <1>6, <1>8, <2>5 DEF Agree, NotReloaded, ServedBefore, TxnFits,
        ErrorLeavesZone, Forward, Backward, Editing
<1> QED BY <1>4, <1>7, <1>8

\* A full reload under the journal.
LEMMA FullReload ==
  ASSUME Inv, Agree, NEW o, Rndc(o, Load), UNCHANGED <<declared, zone, journal>>,
         pc \in Forward \union Backward
  PROVE  /\ OthersAgree' /\ JournalFits'
         /\ o = "ok" /\ Whole(txn.zone) =>
              (txn.zone \in declared <=> served'[txn.zone] # Absent)
PROOF
<1>1. pc \in Journalled /\ TypeOK
  BY DEF Journalled, Inv
<1>2. journal # NoJournal /\ txn.zone = journal.zone /\ txn.zone \in Zones
  BY <1>1, HandFacts
<1>3. journal.stage # "reloaded"
  BY DEF Agree, NotReloaded
<1>4. \A z \in Zones : Whole(z) => (Loaded(z) => Loaded(z)') /\ (o = "ok" => Loaded(z)')
  BY <1>1, RndcAgrees
<1>5. OthersAgree'
  BY <1>4 DEF Agree, OthersAgree, Whole
<1>6. JournalFits'
  BY <1>3 DEF Agree, JournalFits
<1>7. o = "ok" /\ Whole(txn.zone) => (txn.zone \in declared <=> served'[txn.zone] # Absent)
  BY <1>2, <1>4 DEF Loaded
<1> QED BY <1>5, <1>6, <1>7

\* A reload that goes through serves it.
LEMMA ReloadChangedAgree == ASSUME NoSync, Inv, Agree, ReloadChanged PROVE Agree'
PROOF
<1>1. pc = "reload" /\ pc \in Forward /\ txn \in Transactions
  BY TxnInHand DEF ReloadChanged, Forward, Inv
<1>2. UNCHANGED <<declared, zone, tomb, journal>>
  BY DEF ReloadChanged, disk
<1>3. PICK o \in Outcomes :
        /\ Rndc(o, Load)
        /\ IF o = "ok"
             THEN pc' \in {"stage3", "remove tombstone"} /\ txn' = txn
             ELSE Undo(TRUE)
  BY DEF ReloadChanged, Goto
<1>4. OthersAgree' /\ JournalFits'
  BY ZenonT(30), <1>1, <1>2, <1>3, FullReload
<1>5. CASE o = "ok"
  <2>1. Whole(txn.zone) /\ Loaded(txn.zone)'
    BY ZenonT(30), <1>1, <1>2, <1>3, <1>5, FullReload DEF Agree, Progress, Loaded
  <2>2. Progress'
    BY ZenonT(30), <1>2, <1>3, <1>5, <2>1 DEF Progress, Whole
  <2> QED BY ZenonT(30), <1>1, <1>2, <1>3, <1>4, <1>5, <2>2
       DEF Agree, NotReloaded, ServedBefore, TxnFits, ErrorLeavesZone, Forward, Backward, Editing
<1>6. CASE o # "ok"
  <2>1. SameTxn /\ pc' = "undo first" /\ txn'.ok = FALSE /\ txn'.reload = TRUE
    BY <1>1, <1>3, <1>6, UndoKeeps
  <2> QED BY <1>1, <1>2, <1>4, <2>1
       DEF Agree, NotReloaded, Progress, ServedBefore, TxnFits, ErrorLeavesZone,
           Forward, Backward, Editing
<1> QED BY <1>5, <1>6

\* The removal of the tombstone changes no zone.
LEMMA RemoveTombstoneAgree == ASSUME NoSync, Inv, Agree, RemoveTombstone PROVE Agree'
PROOF
<1>1. pc = "remove tombstone" /\ txn \in Transactions
  BY TxnInHand DEF RemoveTombstone, Inv
<1>2. UNCHANGED <<declared, zone, journal, served>>
  BY DEF RemoveTombstone
<1>3. \/ txn' = txn /\ pc' = "stage3"
      \/ SameTxn /\ pc' = "undo first" /\ txn'.ok = FALSE /\ txn'.reload = TRUE
  BY <1>1, UndoKeeps, OkOrFail DEF RemoveTombstone, Goto
<1>4. OthersAgree' /\ JournalFits'
  BY SMTT(30), <1>2, StillAgree
<1>5. CASE txn' = txn /\ pc' = "stage3"
  BY ZenonT(30), <1>1, <1>2, <1>4, <1>5
     DEF Agree, NotReloaded, Progress, ServedBefore, TxnFits, ErrorLeavesZone,
         Forward, Backward, Editing, Whole, Loaded
<1>6. CASE SameTxn /\ pc' = "undo first" /\ txn'.ok = FALSE /\ txn'.reload = TRUE
  BY <1>1, <1>2, <1>4, <1>6
     DEF Agree, NotReloaded, Progress, ServedBefore, TxnFits, ErrorLeavesZone,
         Forward, Backward, Editing
<1> QED BY <1>3, <1>5, <1>6

\* The first step of a rollback, when it goes through, restores its file.
LEMMA UndoFirstAgree == ASSUME NoSync, Inv, Agree, UndoFirst PROVE Agree'
PROOF
<1>1. pc = "undo first" /\ pc' = "undo second" /\ pc \in Journalled /\ pc \in Backward
  BY DEF UndoFirst, Goto, Journalled, Backward
<1>2. /\ txn \in Transactions /\ txn.op \in Operations /\ txn.zone \in Zones
      /\ journal # NoJournal /\ txn.op = journal.op /\ txn.zone = journal.zone
      /\ txn.config = journal.config /\ txn.file = journal.file
  BY <1>1, HandFacts
<1>3. UNCHANGED <<journal, served>>
  BY DEF UndoFirst
<1>4. PICK o \in Outcomes :
        /\ IF txn.op = "create" THEN RestoreConfig(o) ELSE RestoreDeletedZone(o)
        /\ txn' = [txn EXCEPT !.undone = (o = "ok")]
  BY DEF UndoFirst
<1>5. /\ SameTxn /\ txn'.undone = (o = "ok") /\ txn'.reload = txn.reload
  BY ZenonT(30), <1>2, <1>4, UndoneKeeps
<1>6. journal.stage # "reloaded" /\ declared \ {journal.zone} = journal.config \ {journal.zone}
  BY <1>1, <1>2 DEF Agree, NotReloaded, Inv, SoundJournal
<1>7. \/ /\ txn.op = "create" /\ zone' = zone
         /\ declared' \in {declared, txn.config} /\ (o = "ok" => declared' = txn.config)
      \/ /\ txn.op = "delete" /\ declared' = declared
         /\ \/ zone' = zone /\ o # "ok"
            \/ zone' = [zone EXCEPT ![txn.zone] = txn.file]
  <2>1. CASE txn.op = "create"
    BY <1>4, <2>1 DEF RestoreConfig
  <2>2. CASE txn.op = "delete"
    <3>1. tomb \in {Absent, txn.file}
      BY <1>2, <2>2 DEF Inv, SoundJournal
    <3> QED BY ZenonT(30), <1>4, <2>2, <3>1 DEF RestoreDeletedZone
  <2> QED BY <1>2, <2>1, <2>2 DEF Operations
<1>8. \A z \in Zones : z # journal.zone =>
         (z \in declared' <=> z \in declared) /\ zone'[z] = zone[z]
  BY SMTT(30), <1>2, <1>6, <1>7 DEF Inv, TypeOK
<1>9. OthersAgree' /\ JournalFits'
  BY <1>2, <1>3, <1>6, <1>8, OnlyItsZone
<1>10. zone \in [Zones -> Nat]
  BY SMTT(30) DEF Inv, TypeOK
<1>11. Progress'
  BY ZenonT(30), <1>1, <1>2, <1>5, <1>7, <1>10 DEF Progress, SameTxn
<1>12. NotReloaded' /\ ServedBefore' /\ TxnFits' /\ ErrorLeavesZone'
  BY <1>1, <1>3, <1>5, <1>6 DEF Agree, NotReloaded, ServedBefore, TxnFits, ErrorLeavesZone,
           Forward, Backward, Editing, SameTxn
<1> QED BY <1>9, <1>11, <1>12 DEF Agree

\* The second one restores the other, and goes on only if both did.
LEMMA UndoSecondAgree == ASSUME NoSync, Inv, Agree, UndoSecond PROVE Agree'
PROOF
<1>1. pc = "undo second" /\ pc \in Journalled /\ pc \in Backward
  BY DEF UndoSecond, Journalled, Backward
<1>2. /\ txn \in Transactions /\ txn.op \in Operations /\ txn.zone \in Zones
      /\ journal # NoJournal /\ txn.op = journal.op /\ txn.zone = journal.zone
      /\ txn.config = journal.config /\ txn.file = journal.file
      /\ txn.op = "create" => txn.file = Absent
  BY <1>1, HandFacts DEF Agree, JournalFits
<1>3. UNCHANGED <<journal, served, txn>>
  BY DEF UndoSecond
<1>4. PICK o \in Outcomes :
        /\ IF txn.op = "create" THEN RemoveCreatedZone(o) ELSE RestoreConfig(o)
        /\ pc' = IF ~txn.undone \/ o # "ok" THEN "return"
                 ELSE IF txn.reload THEN "undo reload" ELSE "undo clear"
  BY DEF UndoSecond, Goto
<1>5. journal.stage # "reloaded" /\ declared \ {journal.zone} = journal.config \ {journal.zone}
  BY <1>1, <1>2 DEF Agree, NotReloaded, Inv, SoundJournal
<1>6. \/ /\ txn.op = "create" /\ declared' = declared
         /\ \/ zone' = zone /\ o # "ok"
            \/ zone' = [zone EXCEPT ![txn.zone] = txn.file]
      \/ /\ txn.op = "delete" /\ zone' = zone
         /\ declared' \in {declared, txn.config} /\ (o = "ok" => declared' = txn.config)
  <2>1. CASE txn.op = "create"
    BY <1>2, <1>4, <2>1 DEF RemoveCreatedZone
  <2>2. CASE txn.op = "delete"
    BY <1>4, <2>2 DEF RestoreConfig
  <2> QED BY SMTT(30), <1>2, <2>1, <2>2 DEF Operations
<1>7. zone \in [Zones -> Nat]
  BY DEF Inv, TypeOK
<1>8. \A z \in Zones : z # journal.zone =>
         (z \in declared' <=> z \in declared) /\ zone'[z] = zone[z]
  BY <1>2, <1>5, <1>6, <1>7
<1>9. OthersAgree' /\ JournalFits'
  BY <1>2, <1>3, <1>5, <1>8, OnlyItsZone
<1>10. txn.undone /\ o = "ok" => declared' = txn.config /\ zone'[txn.zone] = txn.file
  BY ZenonT(30), <1>1, <1>2, <1>6, <1>7 DEF Agree, Progress
<1>11. Progress'
  <2>1. pc' = "undo clear" => Loaded(txn.zone)'
    <3>1. SUFFICES ASSUME pc' = "undo clear" PROVE Loaded(txn.zone)'
      OBVIOUS
    <3>2. txn.undone /\ o = "ok" /\ ~txn.reload
      BY ZenonT(30), <1>4, <3>1
    <3> QED BY <1>1, <1>3, <1>10, <3>2 DEF Agree, ServedBefore, Loaded
  <2> QED BY <1>3, <1>4, <1>10, <2>1 DEF Progress
<1>12. NotReloaded' /\ ServedBefore' /\ TxnFits' /\ ErrorLeavesZone'
  BY <1>2, <1>3, <1>4, <1>5 DEF NotReloaded, ServedBefore, TxnFits, ErrorLeavesZone,
           Forward, Backward, Editing
<1> QED BY <1>9, <1>11, <1>12 DEF Agree

\* The rollback reload serves the restored zone.
LEMMA UndoReloadAgree == ASSUME NoSync, Inv, Agree, UndoReload PROVE Agree'
PROOF
<1>1. pc = "undo reload" /\ pc \in Backward /\ pc \in Journalled
  BY DEF UndoReload, Backward, Journalled
<1>2. /\ txn.op \in Operations
      /\ journal # NoJournal /\ txn.op = journal.op /\ txn.zone = journal.zone
      /\ txn.config = journal.config /\ txn.file = journal.file
  BY <1>1, HandFacts
<1>3. UNCHANGED <<declared, zone, tomb, journal, txn>>
  BY DEF UndoReload, disk
<1>4. PICK o \in Outcomes :
        Rndc(o, Load) /\ pc' = IF o = "ok" THEN "undo clear" ELSE "return"
  BY ZenonT(30) DEF UndoReload, Goto
<1>5. declared = txn.config /\ zone[txn.zone] = txn.file /\ Whole(txn.zone)
  BY <1>1, <1>2 DEF Agree, Progress, JournalFits, Whole, Operations
<1>6. OthersAgree' /\ JournalFits'
  BY <1>1, <1>3, <1>4, FullReload
<1>7. pc' = "undo clear" => Loaded(txn.zone)'
  BY ZenonT(30), <1>1, <1>3, <1>4, <1>5, FullReload DEF Loaded
<1>8. Progress'
  BY ZenonT(30), <1>3, <1>4, <1>5, <1>7 DEF Progress
<1>9. NotReloaded' /\ ServedBefore' /\ TxnFits' /\ ErrorLeavesZone'
  BY <1>1, <1>2, <1>3, <1>4 DEF Agree, NotReloaded, ServedBefore, TxnFits, ErrorLeavesZone,
           Forward, Backward, Editing
<1> QED BY <1>6, <1>8, <1>9 DEF Agree

\* A record change replaces the file of a declared zone by another.
LEMMA EditingAgree ==
  ASSUME Inv, Agree, CommitEdit \/ ReloadEdit \/ RestoreEdit \/ RollbackReload
  PROVE  Agree'
PROOF
<1>1. /\ pc \in Editing /\ txn \in Transactions /\ txn.zone \in Zones
      /\ zone \in [Zones -> Nat] /\ TypeOK
  BY ZenonT(30), TxnInHand DEF CommitEdit, ReloadEdit, RestoreEdit, RollbackReload, Editing, Inv,
                   TypeOK, Transactions
<1>2. /\ txn.op = "edit" /\ journal = NoJournal
      /\ txn.zone \in declared /\ txn.file # Absent
  BY SMTT(30), <1>1 DEF Inv, Rest, Kind, NoneLeft, Agree, TxnFits
<1>3. UNCHANGED <<declared, journal>>
  BY DEF CommitEdit, ReloadEdit, RestoreEdit, RollbackReload, disk
<1>4. SameTxn
  BY ZenonT(30), <1>1, FailsKeeps, UnchangedKeeps
     DEF CommitEdit, ReloadEdit, RestoreEdit, RollbackReload, Fail
<1>5. pc' \in (Editing \ {"edit"}) \union {"return"}
  BY ZenonT(30) DEF CommitEdit, ReloadEdit, RestoreEdit, RollbackReload, Goto, Fail, Editing
<1>6. \/ zone' = zone
      \/ zone' = [zone EXCEPT ![txn.zone] = txn.file]
      \/ zone' = [zone EXCEPT ![txn.zone] = txn.next] /\ txn.next # Absent
  BY ZenonT(30), <1>2 DEF CommitEdit, ReloadEdit, RestoreEdit, RollbackReload, disk, Agree, TxnFits
<1>7. served' = served \/ served' = LoadZone(txn.zone)
  BY DEF CommitEdit, ReloadEdit, RestoreEdit, RollbackReload, Rndc
<1>8. ASSUME NEW z \in Zones PROVE Whole(z)' /\ Loaded(z)'
  <2>1. Whole(z) /\ Loaded(z)
    BY <1>2 DEF Agree, OthersAgree
  <2>2. Whole(z)'
    BY <1>1, <1>2, <1>3, <1>6, <2>1 DEF Whole
  <2>3. z \in declared <=> LoadZone(txn.zone)[z] # Absent
    BY <1>1, <2>1, LoadZoneAgrees
  <2>4. z \in declared <=> served'[z] # Absent
    BY <1>7, <2>1, <2>3 DEF Loaded
  <2> QED BY <1>3, <2>2, <2>4 DEF Loaded
<1>9. OthersAgree' /\ JournalFits'
  BY <1>2, <1>3, <1>8 DEF OthersAgree, JournalFits
<1>10. TxnFits'
  BY ZenonT(30), <1>2, <1>3, <1>4, <1>5 DEF TxnFits, SameTxn, Forward, Editing
<1>11. NotReloaded' /\ Progress' /\ ServedBefore' /\ ErrorLeavesZone'
  BY <1>2, <1>4, <1>5 DEF NotReloaded, Progress, ServedBefore, ErrorLeavesZone, SameTxn,
           Forward, Backward, Editing, Operations
<1> QED BY <1>9, <1>10, <1>11 DEF Agree

\* Startup rolls back unless the journal says "reloaded".
LEMMA StartAgree == ASSUME Inv, Agree, Start PROVE Agree'
PROOF
<1>1. UNCHANGED <<declared, zone, journal, served>>
  BY DEF Start, disk
<1>2. OthersAgree' /\ JournalFits'
  BY SMTT(30), <1>1, StillAgree
<1>3. CASE journal = NoJournal
  <2>1. pc' = "idle"
    BY <1>3 DEF Start, Goto
  <2> QED BY <1>2, <2>1 DEF Agree, NotReloaded, Progress, ServedBefore, TxnFits,
        ErrorLeavesZone, Forward, Backward, Editing
<1>4. CASE journal # NoJournal
  <2>1. journal \in Journals /\ journal.op \in Operations
    BY <1>4 DEF Inv, TypeOK, Journals
  <2>2. Recovers(txn')
    BY <1>4, <2>1, RecoveryType DEF Start
  <2>3. \/ pc' = "return"
        \/ pc' = "undo first" /\ journal.stage # "reloaded"
        \/ pc' \in {"finalize", "clear"} /\ journal.stage = "reloaded"
    BY ZenonT(30), <1>4, <2>1 DEF Start, Goto, Operations
  <2>4. NotReloaded' /\ ServedBefore' /\ TxnFits' /\ ErrorLeavesZone'
    BY <1>1, <2>2, <2>3 DEF NotReloaded, ServedBefore, TxnFits, ErrorLeavesZone, Recovers,
          Forward, Backward, Editing
  <2>5. journal.stage = "reloaded" => Whole(journal.zone)' /\ Loaded(journal.zone)'
    BY <1>1, <1>4 DEF Agree, JournalFits, Whole, Loaded
  <2>6. Progress'
    BY ZenonT(30), <1>1, <2>2, <2>3, <2>5 DEF Progress, Recovers, Whole, Loaded
  <2> QED BY <1>2, <2>4, <2>6 DEF Agree
<1> QED BY <1>3, <1>4

\* A finished deletion needs its tombstone removed only.
LEMMA FinalizeAgree == ASSUME Inv, Agree, Finalize PROVE Agree'
PROOF
<1>1. /\ pc = "finalize" /\ pc' \in {"clear", "return"}
      /\ UNCHANGED <<declared, zone, journal, served, txn>>
  BY DEF Finalize, Goto
<1>2. OthersAgree' /\ JournalFits'
  BY <1>1, StillAgree
<1>3. journal # NoJournal
  BY SMTT(30), <1>1, HandFacts DEF Journalled
<1> QED BY <1>1, <1>2, <1>3 DEF Agree, NotReloaded, Progress, ServedBefore, TxnFits,
        ErrorLeavesZone, Forward, Backward, Editing, Whole, Loaded

\* The end of an operation and of the process change no file.
LEMMA LeaveAgree == ASSUME Agree, Return \/ Stop \/ Crash PROVE Agree'
PROOF
<1>1. /\ UNCHANGED <<declared, zone, journal, served>>
      /\ pc' \in {"idle", "down"}
  BY DEF Return, Stop, Crash, Exit, Goto, disk
<1>2. OthersAgree' /\ JournalFits'
  BY <1>1, StillAgree
<1> QED BY <1>1, <1>2 DEF Agree, NotReloaded, Progress, ServedBefore, TxnFits,
        ErrorLeavesZone, Forward, Backward, Editing

\* Every step keeps Agree, given Inv.
LEMMA NextAgree == ASSUME NoSync, Inv, Agree, [Next]_vars PROVE Agree'
PROOF
<1>1. CASE UNCHANGED vars
  <2>1. UNCHANGED <<declared, zone, journal, served, pc, txn>>
    BY <1>1 DEF vars, disk
  <2>2. OthersAgree' /\ JournalFits'
    BY <2>1, StillAgree
  <2>3. Progress'
    BY ZenonT(30), <2>1 DEF Agree, Progress, Whole, Loaded
  <2>4. NotReloaded' /\ ServedBefore' /\ TxnFits' /\ ErrorLeavesZone'
    BY <2>1 DEF Agree, NotReloaded, ServedBefore, TxnFits, ErrorLeavesZone
  <2> QED BY <2>2, <2>3, <2>4 DEF Agree
<1>2. CASE Request
  BY ZenonT(30), <1>2, RequestAgree, ReloadsAgree
     DEF Request, UpdateSOA, AddRecord, UpdateRecord, DeleteRecord
<1>3. CASE Step
  BY <1>3, PrepareAgree, ClearJournalAgree, UpdateStageAgree, CommitZoneAgree,
     CommitConfigAgree, ReloadChangedAgree, RemoveTombstoneAgree, UndoFirstAgree,
     UndoSecondAgree, UndoReloadAgree, EditingAgree, StartAgree, FinalizeAgree, LeaveAgree
     DEF Step
<1> QED BY <1>1, <1>2, <1>3, LeaveAgree DEF Next

-----------------------------------------------------------------------------
\* The strengthened invariant holds when no directory sync fails.
LEMMA Agreement == ASSUME NoSync PROVE Spec => []Agree
PROOF
<1>1. Init => Agree
  BY InitAgree
<1>2. Inv /\ Agree /\ [Next]_vars => Agree'
  BY NextAgree
<1> QED BY <1>1, <1>2, Invariance, PTL DEF Spec

\* A zone open to mutations is declared exactly when its file exists, whatever
\* call failed and wherever the panel died (applyZoneCreateTransaction,
\* applyZoneDeleteTransaction, recoverLifecycleJournal), if no sync fails.
THEOREM ZonesAreWhole == ASSUME NoSync PROVE Spec => []WholeAtRest
PROOF
<1>1. Inv /\ Agree => WholeAtRest
  BY DEF Inv, Rest, NoneLeft, Agree, OthersAgree, Whole, WholeAtRest
<1> QED BY <1>1, Invariance, Agreement, PTL

\* And named serves exactly the declared zones: every rollback that needs a
\* reload makes one before the journal is cleared.
THEOREM ZonesAreServed == ASSUME NoSync PROVE Spec => []ServedAtRest
PROOF
<1>1. Inv /\ Agree => ServedAtRest
  BY DEF Inv, Rest, NoneLeft, Agree, OthersAgree, Loaded, ServedAtRest
<1> QED BY <1>1, Invariance, Agreement, PTL

\* An error that leaves no journal has left the zone as it was.
THEOREM ErrorsLeaveZones == ASSUME NoSync PROVE Spec => []ErrorLeavesZone
PROOF
<1>1. Agree => ErrorLeavesZone
  BY DEF Agree
<1> QED BY <1>1, Agreement, PTL
=============================================================================
