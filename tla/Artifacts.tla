---------------------------- MODULE Artifacts ----------------------------
(***************************************************************************)
(* Content-addressed files, their rows, references and leases              *)
(* (persistence/artifacts.py), retention (maintenance.py), backup sets     *)
(* (backup.py) and their restoration (recovery.py).  A writer command is   *)
(* one step; everything a caller does outside the writer is a step of its  *)
(* own.  Time is a counter; a digest stands for its bytes.                 *)
(***************************************************************************)
EXTENDS Integers, FiniteSets

CONSTANTS Digest,      \* contents
          Client,      \* callers that store, register and reference contents
          Keep,        \* retention: a row older than this may go
          Lease,       \* how long a backup's leases last
          MaxTime,     \* bound on the clock
          MaxRestores  \* bound on restores

\* Periods are numbers; a retention period may be negative.
ArtifactAssumption ==
  Keep \in Int /\ Lease \in Nat /\ MaxTime \in Nat /\ MaxRestores \in Nat

None == -1

\* "batch": market_data_batch, threshold_validation, threshold_activation_evidence.
\* "manifest": input_manifest.  "tdx": block, mapping and listing evidence (foreign
\* key only).  "output": rule_execution.output_hash (no foreign key).
Kinds == {"batch", "manifest", "tdx", "output"}
Protected == {"batch", "manifest"}       \* what the retention query looks at
Listed == Protected \cup {"output"}      \* what the backup query looks at
Constrained == Kinds \ {"output"}        \* what a foreign key holds

VARIABLES
  clock,      \* the time
  file,       \* file[d]: its mtime, or None
  row,        \* artifact_object: created_at, or None
  refs,       \* <<kind, digest>> rows of the referencing tables
  leases,     \* artifact_lease: [sha, until, mine]
  client,     \* what each caller is doing
  retain,     \* the retention command
  backup,     \* the backup command
  published,  \* the backup set on disk, if any
  restores    \* how often a set was restored

vars == <<clock, file, row, refs, leases, client, retain, backup, published, restores>>

Idle == [pc |-> "idle", sha |-> None, created |-> None]
NoPlan == [pc |-> "idle", plan |-> {}, catalog |-> {}, cutoff |-> None, at |-> None]
NoDatabase == [row |-> [d \in Digest |-> None], refs |-> {}, leases |-> {}]
NoBackup == [pc |-> "idle", db |-> NoDatabase, items |-> {}, copied |-> {}, until |-> None]

HasRow(d) == row[d] # None
HasFile(d) == file[d] # None
ReferencedBy(kinds, rs) == {d \in Digest : \E k \in kinds : <<k, d>> \in rs}
Catalog == ReferencedBy({"manifest"}, refs)

Init ==
  /\ clock = 0
  /\ file = [d \in Digest |-> None]
  /\ row = [d \in Digest |-> None]
  /\ refs = {}
  /\ leases = {}
  /\ client = [c \in Client |-> Idle]
  /\ retain = NoPlan
  /\ backup = NoBackup
  /\ published = {}
  /\ restores = 0

Tick ==
  /\ clock < MaxTime
  /\ clock' = clock + 1
  /\ UNCHANGED <<file, row, refs, leases, client, retain, backup, published, restores>>

(***************************************************************************)
(* ArtifactStore                                                           *)
(***************************************************************************)
Others == <<clock, leases, retain, backup, published, restores>>
Goto(c, pc) == client' = [client EXCEPT ![c].pc = pc]
Leave(c) == client' = [client EXCEPT ![c] = Idle]

\* put_bytes looks for the file.
PutLook(c, d) ==
  /\ client[c].pc = "idle"
  /\ client' = [client EXCEPT ![c] = [pc |-> IF HasFile(d) THEN "stored" ELSE "writing",
                                      sha |-> d, created |-> None]]
  /\ UNCHANGED <<file, row, refs, Others>>

\* The temporary file replaces the target, whether or not someone was faster.
PutReplace(c) ==
  /\ client[c].pc = "writing"
  /\ file' = [file EXCEPT ![client[c].sha] = clock]
  /\ Goto(c, "stored")
  /\ UNCHANGED <<row, refs, Others>>

\* created_at is the mtime the file has now; stat raises when the file is gone.
PutStat(c) ==
  /\ client[c].pc = "stored"
  /\ IF HasFile(client[c].sha)
     THEN client' = [client EXCEPT ![c].pc = "put", ![c].created = file[client[c].sha]]
     ELSE Leave(c)
  /\ UNCHANGED <<file, row, refs, Others>>

\* FAULT: the file is verified only before the writer command.
RegisterUnverified(c) ==
  /\ client[c].pc = "put"
  /\ row' = [row EXCEPT ![client[c].sha] = client[c].created]
  /\ Goto(c, "registered")
  /\ UNCHANGED <<file, refs, Others>>

\* register: inside the writer command the file is verified again, and an existing
\* row must carry the same metadata.
Register(c) ==
  LET d == client[c].sha
      ok == HasFile(d) /\ row[d] \in {None, client[c].created}
  IN /\ client[c].pc = "put"
     /\ row' = IF ok THEN [row EXCEPT ![d] = client[c].created] ELSE row
     /\ CASE ok -> Goto(c, "registered")
          [] HasFile(d) /\ ~ok -> Goto(c, "conflict")
          [] OTHER -> Leave(c)
     /\ UNCHANGED <<file, refs, Others>>

ConflictRaised(c) ==
  /\ client[c].pc = "conflict"
  /\ Leave(c)
  /\ UNCHANGED <<file, row, refs, Others>>

\* The caller's own transaction names the digest; a foreign key wants the row.
Reference(c) ==
  LET d == client[c].sha
  IN /\ client[c].pc = "registered"
     /\ Leave(c)
     /\ \E k \in Kinds :
          refs' = IF k \in Constrained /\ ~HasRow(d) THEN refs ELSE refs \cup {<<k, d>>}
     /\ UNCHANGED <<file, row, Others>>

\* The caller fails after any step, or never references what it registered.
Abandon(c) ==
  /\ client[c].pc \in {"writing", "stored", "put", "registered"}
  /\ Leave(c)
  /\ UNCHANGED <<file, row, refs, Others>>

(***************************************************************************)
(* plan_retention and apply_retention                                      *)
(***************************************************************************)
Candidates(cutoff, now) ==
  {d \in Digest : /\ HasRow(d) /\ row[d] < cutoff
                  /\ d \notin ReferencedBy(Protected, refs)
                  /\ ~\E l \in leases : l.sha = d /\ l.until > now}

\* A plan is valid only while candidates and manifest catalog stay the same.
SamePlan(now) ==
  /\ Candidates(retain.cutoff, now) = retain.plan
  /\ Catalog = retain.catalog

RetentionOthers == <<clock, refs, client, backup, published, restores>>

PlanRetention ==
  LET cutoff == clock - Keep
  IN /\ retain.pc = "idle"
     /\ retain' = [pc |-> "planned", plan |-> Candidates(cutoff, clock),
                   catalog |-> Catalog, cutoff |-> cutoff, at |-> None]
     /\ UNCHANGED <<file, row, leases, RetentionOthers>>

\* apply_retention fixes its time and plans again.
RefreshPlan ==
  /\ retain.pc = "planned"
  /\ retain' = IF SamePlan(clock) THEN [retain EXCEPT !.pc = "refreshed", !.at = clock]
               ELSE NoPlan
  /\ UNCHANGED <<file, row, leases, RetentionOthers>>

\* delete_metadata: fenced a second time inside the transaction.  A row that a table
\* the query does not know still references makes the whole transaction fail.
DeleteMetadata ==
  LET doomed == {l \in leases : l.sha \in retain.plan /\ l.until <= retain.at}
      held == ReferencedBy(Constrained, refs) \cup {l.sha : l \in leases \ doomed}
      ok == SamePlan(retain.at) /\ retain.plan \cap held = {}
  IN /\ retain.pc = "refreshed"
     /\ IF ok
        THEN /\ leases' = leases \ doomed
             /\ row' = [d \in Digest |-> IF d \in retain.plan THEN None ELSE row[d]]
             /\ retain' = [retain EXCEPT !.pc = "deleted"]
        ELSE retain' = NoPlan /\ UNCHANGED <<leases, row>>
     /\ UNCHANGED <<file, RetentionOthers>>

\* What remove_files still finds unregistered, unreferenced and unleased.
Removable ==
  {d \in retain.plan : /\ ~HasRow(d)
                       /\ d \notin ReferencedBy(Protected, refs)
                       /\ ~\E l \in leases : l.sha = d /\ l.until > retain.at}

\* remove_files unlinks them; an OSError leaves some behind.
RemoveFiles ==
  /\ retain.pc = "deleted"
  /\ \E gone \in SUBSET Removable :
       file' = [d \in Digest |-> IF d \in gone THEN None ELSE file[d]]
  /\ retain' = NoPlan
  /\ UNCHANGED <<row, leases, RetentionOthers>>

(***************************************************************************)
(* create_backup_set, restore_backup_set                                   *)
(***************************************************************************)
BackupOthers == <<clock, file, row, refs, client, retain, restores>>
Mine == {l \in leases : l.mine}

\* FAULT: threshold and batch evidence is not among the references.
BackupItemsManifests(db) == ReferencedBy({"manifest"}, db.refs)

\* What the snapshot's own tables name, by the query of the backup.
BackupItems(db) ==
  {d \in ReferencedBy(Listed, db.refs) :
     d \in ReferencedBy(Protected, db.refs) \/ db.row[d] # None}

\* FAULT: the leases are left for later.
SnapshotOnly ==
  LET db == [row |-> row, refs |-> refs, leases |-> leases]
  IN /\ backup.pc = "idle"
     /\ published = {}
     /\ backup' = [pc |-> "copying", db |-> db, items |-> BackupItems(db), copied |-> {},
                   until |-> clock + Lease]
     /\ UNCHANGED <<leases, published, BackupOthers>>

\* _snapshot_and_lease: the copy of the database is taken before the leases go in.
SnapshotAndLease ==
  LET db == [row |-> row, refs |-> refs, leases |-> leases]
      until == clock + Lease
  IN /\ backup.pc = "idle"
     /\ published = {}
     /\ backup' = [pc |-> "copying", db |-> db, items |-> BackupItems(db), copied |-> {},
                   until |-> until]
     /\ leases' = leases \cup {[sha |-> d, until |-> until, mine |-> TRUE] : d \in BackupItems(db)}
     /\ UNCHANGED <<published, BackupOthers>>

CopyArtifact(d) ==
  /\ backup.pc = "copying"
  /\ d \in backup.items \ backup.copied
  /\ backup' = IF HasFile(d) THEN [backup EXCEPT !.copied = @ \cup {d}]
               ELSE [backup EXCEPT !.pc = "releasing"]
  /\ UNCHANGED <<leases, published, BackupOthers>>

\* verify_backup_set compares the manifest with the database it lies beside.
SetVerified == backup.copied = BackupItems(backup.db)

PublishBackup ==
  /\ backup.pc = "copying"
  /\ backup.items = backup.copied
  /\ SetVerified
  /\ published' = {[db |-> backup.db, files |-> backup.copied]}
  /\ backup' = [backup EXCEPT !.pc = "releasing"]
  /\ UNCHANGED <<leases, BackupOthers>>

\* An error before publication: the staging directory goes, then the leases.
BackupFails ==
  /\ backup.pc = "copying"
  /\ backup' = [backup EXCEPT !.pc = "releasing"]
  /\ UNCHANGED <<leases, published, BackupOthers>>

ReleaseLeases ==
  /\ backup.pc = "releasing"
  /\ leases' = leases \ Mine
  /\ backup' = NoBackup
  /\ UNCHANGED <<published, BackupOthers>>

\* Leases left behind: the rows stay, but no command will release them.
Orphaned(rows) == {[sha |-> l.sha, until |-> l.until, mine |-> FALSE] : l \in rows}

\* A killed process forgets every command; files, rows and leases stay.
Crash ==
  /\ client' = [c \in Client |-> Idle]
  /\ retain' = NoPlan
  /\ backup' = NoBackup
  /\ leases' = Orphaned(leases)
  /\ UNCHANGED <<clock, file, row, refs, published, restores>>

\* restore_backup_set fills a new directory with copies, and one rename installs it.
Restore ==
  \E set \in published :
    /\ restores < MaxRestores
    /\ \A c \in Client : client[c].pc = "idle"
    /\ retain.pc = "idle" /\ backup.pc = "idle"
    /\ file' = [d \in Digest |-> IF d \in set.files THEN clock ELSE None]
    /\ row' = set.db.row
    /\ refs' = set.db.refs
    /\ leases' = Orphaned(set.db.leases)
    /\ restores' = restores + 1
    /\ UNCHANGED <<clock, client, retain, backup, published>>

Next ==
  \/ Tick \/ Crash \/ Restore
  \/ \E c \in Client :
       \/ \E d \in Digest : PutLook(c, d)
       \/ PutReplace(c) \/ PutStat(c) \/ Register(c)
       \/ ConflictRaised(c) \/ Reference(c) \/ Abandon(c)
  \/ PlanRetention \/ RefreshPlan \/ DeleteMetadata \/ RemoveFiles
  \/ SnapshotAndLease \/ PublishBackup \/ BackupFails \/ ReleaseLeases
  \/ \E d \in Digest : CopyArtifact(d)

Spec == Init /\ [][Next]_vars

(***************************************************************************)
(* Properties                                                              *)
(***************************************************************************)
\* artifact_missing of reconcile: registered, but no file.
ArtifactMissing == {d \in Digest : HasRow(d) /\ ~HasFile(d)}

\* Every variable has the shape its table or its command gives it.
TypeOK ==
  /\ clock \in 0 .. MaxTime
  /\ file \in [Digest -> 0 .. MaxTime \cup {None}]
  /\ row \in [Digest -> 0 .. MaxTime \cup {None}]
  /\ refs \subseteq Kinds \X Digest
  /\ \A l \in leases : l.sha \in Digest /\ l.until \in Nat /\ l.mine \in BOOLEAN
  /\ \A c \in Client : client[c].pc \in
       {"idle", "writing", "stored", "put", "registered", "conflict"}
  /\ \A c \in Client : client[c].pc \in {"put", "registered"} => client[c].created \in 0 .. clock
  /\ retain.pc \in {"idle", "planned", "refreshed", "deleted"}
  /\ backup.pc \in {"idle", "copying", "releasing"}
  /\ restores \in 0 .. MaxRestores

\* Retention unlinks files in a transaction after the one that removed their rows, while
\* callers store and register the same contents: a registered digest keeps its file.
NoDanglingArtifact == restores = 0 => ArtifactMissing = {}

\* A batch, manifest or threshold record can always open its artifact, after a crash,
\* a retention run and a restore alike.
ProtectedEvidenceReadable ==
  \A d \in ReferencedBy(Protected, refs) : HasRow(d) /\ HasFile(d)

\* What every reader of an artifact relies on.
ArtifactsReadable == TypeOK /\ NoDanglingArtifact /\ ProtectedEvidenceReadable

\* Until its leases lapse, a backup finds every file its snapshot names: retention that
\* was planned before the backup started does not pull them away.
BackupFindsFiles ==
  backup.pc = "copying" /\ clock < backup.until => \A d \in backup.items : HasFile(d)

\* docs/operations/OPERATIONS_RUNBOOK.md:46: a complete backup contains all referenced
\* Artifacts.
BackupIsComplete ==
  \A set \in published :
    {d \in ReferencedBy(Kinds, set.db.refs) : set.db.row[d] # None} \subseteq set.files

\* docs/operations/OPERATIONS_RUNBOOK.md:77: retention protects facts and immutable evidence.
\* Rule evidence that is registered stays registered.
RetentionKeepsRuleEvidence ==
  [][retain.pc = "refreshed" =>
       \A d \in ReferencedBy({"output"}, refs) : HasRow(d) => row'[d] # None]_vars

\* tests/m1/test_artifacts.py:26: storing and registering the same content twice is idempotent.
RegisterIsIdempotent == \A c \in Client : client[c].pc # "conflict"
==========================================================================
