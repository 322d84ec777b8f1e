-------------------------- MODULE ArtifactsProofs ---------------------------
(***************************************************************************)
(* Proofs, for every number of contents, callers and restores and for any  *)
(* retention period and lease, that a registered artifact keeps its file,  *)
(* that protected evidence stays readable, and that a backup finds every   *)
(* file it copies.  The inductive invariant adds what a registered caller, *)
(* a running backup and a published set know of the rows and files.        *)
(***************************************************************************)
EXTENDS StorageParts, TLAPS

Times == 0 .. FileTime \cup {Files!None}
LeaseRows == [sha : Digest, until : Nat, mine : BOOLEAN]
Databases == [row : [Digest -> Times], refs : SUBSET (Files!Kinds \X Digest), leases : SUBSET LeaseRows]

\* The shapes of the tables and of the commands under way.
Shapes ==
  /\ clock \in 0 .. FileTime /\ restores \in 0 .. FileRestores
  /\ file \in [Digest -> Times] /\ row \in [Digest -> Times]
  /\ refs \subseteq Files!Kinds \X Digest
  /\ leases \subseteq LeaseRows
  /\ client \in [Client -> [pc : {"idle", "writing", "stored", "put", "registered", "conflict"},
                            sha : Digest \cup {Files!None}, created : Times]]
  /\ retain \in [pc : {"idle", "planned", "refreshed", "deleted"}, plan : SUBSET Digest,
                 catalog : SUBSET Digest, cutoff : Int, at : Int]
  /\ staging \in [pc : {"idle", "copying", "releasing"}, db : Databases,
                 items : SUBSET Digest, copied : SUBSET Digest, until : Int]
  /\ published \subseteq [db : Databases, files : SUBSET Digest]

\* What a caller knows of the content it stored: its file was there when the row was made, and
\* goes only after the row.
CallersOK ==
  \A c \in Client :
    /\ client[c].pc # "idle" => client[c].sha \in Digest
    /\ client[c].pc \in {"put", "registered", "conflict"} => client[c].created \in 0 .. clock
    /\ client[c].pc = "registered" /\ Files!HasRow(client[c].sha) => Files!HasFile(client[c].sha)

\* No file is younger than the clock, and retention's time has passed.
ClockOK ==
  /\ \A d \in Digest : file[d] <= clock
  /\ retain.at <= clock

\* A snapshot holds the rows of its protected references; its items are leased, and have their
\* files, until the lease lapses.
BackupOK ==
  staging.pc = "copying" =>
    /\ published = {}
    /\ \A d \in Files!ReferencedBy(Files!Protected, staging.db.refs) : staging.db.row[d] # Files!None
    /\ staging.until > clock =>
         \A d \in staging.items :
           Files!HasFile(d) /\ \E l \in leases : l.sha = d /\ l.until = staging.until

\* A published set has the row and the file of every protected reference.
SetsOK ==
  /\ restores > 0 => published # {}
  /\ \A set \in published : \A d \in Files!ReferencedBy(Files!Protected, set.db.refs) :
       set.db.row[d] # Files!None /\ d \in set.files

IInv ==
  /\ Files!ArtifactAssumption /\ Shapes /\ CallersOK /\ ClockOK /\ BackupOK /\ SetsOK
  /\ Files!NoDanglingArtifact /\ Files!ProtectedEvidenceReadable

-----------------------------------------------------------------------------
LEMMA Initially == Files!ArtifactAssumption /\ Files!Init => IInv
<1> SUFFICES ASSUME Files!ArtifactAssumption, Files!Init PROVE IInv
  OBVIOUS
<1> USE DEF Files!ArtifactAssumption, Files!Init, Files!None
<1>1. Shapes
  <2>1. Files!NoDatabase \in Databases
    BY DEF Files!NoDatabase, Databases, Times
  <2> QED BY <2>1 DEF Shapes, Files!Idle, Files!NoPlan, Files!NoBackup, Times
<1>2. CallersOK /\ ClockOK /\ BackupOK /\ SetsOK
  BY DEF CallersOK, ClockOK, BackupOK, SetsOK, Files!Idle, Files!NoPlan, Files!NoBackup
<1>3. Files!NoDanglingArtifact /\ Files!ProtectedEvidenceReadable
  BY DEF Files!NoDanglingArtifact, Files!ArtifactMissing, Files!ProtectedEvidenceReadable, Files!ReferencedBy, Files!HasRow
<1> QED BY <1>1, <1>2, <1>3 DEF IInv

\* A crash and a restore leave the leases to no one, and each keeps its artifact and its time.
LEMMA OrphanedLeases ==
  ASSUME NEW rows, rows \subseteq LeaseRows
  PROVE  /\ Files!Orphaned(rows) \subseteq LeaseRows
         /\ \A l \in rows : \E o \in Files!Orphaned(rows) : o.sha = l.sha /\ o.until = l.until
<1>1. \A l \in rows : [sha |-> l.sha, until |-> l.until, mine |-> FALSE] \in LeaseRows
  BY DEF LeaseRows
<1>2. Files!Orphaned(rows) \subseteq LeaseRows
  BY <1>1 DEF Files!Orphaned
<1>3. ASSUME NEW l \in rows PROVE \E o \in Files!Orphaned(rows) : o.sha = l.sha /\ o.until = l.until
  <2>1. [sha |-> l.sha, until |-> l.until, mine |-> FALSE] \in Files!Orphaned(rows)
    BY DEF Files!Orphaned
  <2> QED BY <2>1
<1> QED BY <1>2, <1>3

\* Every action keeps the shapes.
LEMMA ShapesStep == ASSUME IInv, Files!Next PROVE Shapes'
<1>0. Files!ArtifactAssumption
  BY DEF IInv
<1> USE <1>0 DEF Files!ArtifactAssumption, Files!None, Files!Goto, Files!Leave
<1>1. Shapes /\ CallersOK
  BY DEF IInv
<1>2. CASE Files!Tick
  BY <1>1, <1>2 DEF Files!Tick, Shapes
<1>3. CASE Files!Crash
  <2>1. leases' \subseteq LeaseRows
    BY <1>1, <1>3, OrphanedLeases DEF Files!Crash, Shapes
  <2>2. Files!NoBackup' \in [pc : {"idle", "copying", "releasing"}, db : Databases,
                       items : SUBSET Digest, copied : SUBSET Digest, until : Int]
    BY DEF Files!NoBackup, Files!NoDatabase, Databases, Times
  <2> QED BY <1>1, <1>3, <2>1, <2>2 DEF Files!Crash, Shapes, Files!Idle, Files!NoPlan, Times
<1>4. CASE Files!Restore
  <2>1. PICK set \in published :
           /\ file' = [d \in Digest |-> IF d \in set.files THEN clock ELSE Files!None]
           /\ row' = set.db.row /\ refs' = set.db.refs
           /\ leases' = Files!Orphaned(set.db.leases)
           /\ restores < FileRestores /\ restores' = restores + 1
           /\ UNCHANGED <<clock, client, retain, staging, published>>
    BY <1>4 DEF Files!Restore
  <2>2. set.db \in Databases
    BY <1>1 DEF Shapes
  <2>4. leases' \subseteq LeaseRows
    BY <2>1, <2>2, OrphanedLeases DEF Databases
  <2>5. row' \in [Digest -> Times] /\ refs' \subseteq Files!Kinds \X Digest
    BY <2>1, <2>2 DEF Databases
  <2> QED BY <1>1, <2>1, <2>4, <2>5 DEF Shapes, Times
<1>5. ASSUME NEW c \in Client, NEW d \in Digest, Files!PutLook(c, d) PROVE Shapes'
  BY <1>1, <1>5 DEF Files!PutLook, Files!Others, Shapes, Times
<1>6. ASSUME NEW c \in Client, Files!PutReplace(c) PROVE Shapes'
  BY <1>1, <1>6 DEF Files!PutReplace, Files!Others, Shapes, Times
<1>7. ASSUME NEW c \in Client, Files!PutStat(c) PROVE Shapes'
  BY <1>1, <1>7 DEF Files!PutStat, Files!Others, Shapes, Times, Files!HasFile, Files!Idle
<1>8. ASSUME NEW c \in Client, Files!Register(c) PROVE Shapes'
  <2>1. row' \in [Digest -> Times]
    BY <1>1, <1>8 DEF Files!Register, Shapes
  <2>2. UNCHANGED <<clock, restores, file, refs, leases, retain, staging, published>>
    BY <1>8 DEF Files!Register, Files!Others
  <2>3. client' \in [Client -> [pc : {"idle", "writing", "stored", "put", "registered", "conflict"},
                                sha : Digest \cup {Files!None}, created : Times]]
    BY <1>1, <1>8 DEF Files!Register, Shapes, Files!Idle, Times
  <2> QED BY <1>1, <2>1, <2>2, <2>3 DEF Shapes
<1>9. ASSUME NEW c \in Client, Files!ConflictRaised(c) PROVE Shapes'
  BY <1>1, <1>9 DEF Files!ConflictRaised, Files!Others, Shapes, Files!Idle, Times
<1>10. ASSUME NEW c \in Client, Files!Reference(c) PROVE Shapes'
  <2>1. PICK k \in Files!Kinds : \/ refs' = refs
                           \/ refs' = refs \cup {<<k, client[c].sha>>}
    BY <1>10 DEF Files!Reference
  <2>2. client[c].sha \in Digest
    BY <1>1, <1>10 DEF Files!Reference, CallersOK
  <2>3. refs' \subseteq Files!Kinds \X Digest
    BY <1>1, <2>1, <2>2 DEF Shapes
  <2> QED BY <1>1, <1>10, <2>3 DEF Files!Reference, Files!Others, Shapes, Files!Idle, Times
<1>11. ASSUME NEW c \in Client, Files!Abandon(c) PROVE Shapes'
  BY <1>1, <1>11 DEF Files!Abandon, Files!Others, Shapes, Files!Idle, Times
<1>12. CASE Files!PlanRetention
  BY <1>1, <1>12 DEF Files!PlanRetention, Files!RetentionOthers, Shapes, Files!Candidates, Files!Catalog, Files!ReferencedBy
<1>13. CASE Files!RefreshPlan
  <2>1. retain' = [retain EXCEPT !.pc = "refreshed", !.at = clock] \/ retain' = Files!NoPlan
    <3>1. CASE Files!SamePlan(clock)
      BY <1>13, <3>1 DEF Files!RefreshPlan
    <3>2. CASE ~Files!SamePlan(clock)
      BY <1>13, <3>2 DEF Files!RefreshPlan
    <3> QED BY <3>1, <3>2
  <2>2. UNCHANGED <<clock, file, row, refs, leases, client, staging, published, restores>>
    BY <1>13 DEF Files!RefreshPlan, Files!RetentionOthers
  <2>3. clock \in Int
    BY <1>1 DEF Shapes
  <2>4. retain' \in [pc : {"idle", "planned", "refreshed", "deleted"}, plan : SUBSET Digest,
                     catalog : SUBSET Digest, cutoff : Int, at : Int]
    <3>1. CASE retain' = [retain EXCEPT !.pc = "refreshed", !.at = clock]
      BY <1>1, <2>3, <3>1 DEF Shapes
    <3>2. CASE retain' = Files!NoPlan
      BY <3>2 DEF Files!NoPlan
    <3> QED BY <2>1, <3>1, <3>2
  <2> QED BY <1>1, <2>2, <2>4 DEF Shapes
<1>14. CASE Files!DeleteMetadata
  <2>1. leases' \subseteq leases /\ row' \in [Digest -> Times]
    BY <1>1, <1>14 DEF Files!DeleteMetadata, Shapes, Times
  <2> QED BY <1>1, <1>14, <2>1 DEF Files!DeleteMetadata, Files!RetentionOthers, Shapes, Files!NoPlan
<1>15. CASE Files!RemoveFiles
  BY <1>1, <1>15 DEF Files!RemoveFiles, Files!RetentionOthers, Shapes, Files!NoPlan, Times
<1>16. CASE Files!SnapshotAndLease
  <2>1. \A d \in Files!BackupItems([row |-> row, refs |-> refs, leases |-> leases]) :
           d \in Digest /\ [sha |-> d, until |-> clock + Lease, mine |-> TRUE] \in LeaseRows
    BY <1>1 DEF Files!BackupItems, Files!ReferencedBy, LeaseRows, Shapes
  <2>2. [row |-> row, refs |-> refs, leases |-> leases] \in Databases
    BY <1>1 DEF Shapes, Databases
  <2>3. leases' \subseteq LeaseRows
    <3>1. leases' = leases \cup {[sha |-> d, until |-> clock + Lease, mine |-> TRUE] :
                                    d \in Files!BackupItems([row |-> row, refs |-> refs, leases |-> leases])}
      BY <1>16 DEF Files!SnapshotAndLease
    <3> QED BY <1>1, <2>1, <3>1 DEF Shapes
  <2>4. staging' \in [pc : {"idle", "copying", "releasing"}, db : Databases,
                     items : SUBSET Digest, copied : SUBSET Digest, until : Int]
    <3> DEFINE snap == [row |-> row, refs |-> refs, leases |-> leases]
    <3>1. staging' = [pc |-> "copying", db |-> snap, items |-> Files!BackupItems(snap), copied |-> {},
                     until |-> clock + Lease]
      BY <1>16 DEF Files!SnapshotAndLease
    <3>2. Files!BackupItems(snap) \subseteq Digest
      BY <2>1
    <3>4. clock + Lease \in Int
      BY <1>1 DEF Shapes
    <3>3. snap \in Databases
      BY <2>2
    <3> HIDE DEF snap
    <3> QED BY <3>1, <3>2, <3>3, <3>4
  <2>5. UNCHANGED <<clock, file, row, refs, client, retain, published, restores>>
    BY <1>16 DEF Files!SnapshotAndLease, Files!BackupOthers
  <2> QED BY <1>1, <2>3, <2>4, <2>5 DEF Shapes
<1>17. CASE Files!PublishBackup
  <2>1. [db |-> staging.db, files |-> staging.copied] \in [db : Databases, files : SUBSET Digest]
    BY <1>1 DEF Shapes
  <2> QED BY <1>1, <1>17, <2>1 DEF Files!PublishBackup, Files!BackupOthers, Shapes
<1>18. CASE Files!BackupFails
  BY <1>1, <1>18 DEF Files!BackupFails, Files!BackupOthers, Shapes
<1>19. CASE Files!ReleaseLeases
  <2>1. Files!NoBackup' \in [pc : {"idle", "copying", "releasing"}, db : Databases,
                       items : SUBSET Digest, copied : SUBSET Digest, until : Int]
    BY DEF Files!NoBackup, Files!NoDatabase, Databases, Times
  <2> QED BY <1>1, <1>19, <2>1 DEF Files!ReleaseLeases, Files!BackupOthers, Shapes
<1>20. ASSUME NEW d \in Digest, Files!CopyArtifact(d) PROVE Shapes'
  BY <1>1, <1>20 DEF Files!CopyArtifact, Files!BackupOthers, Shapes
<1> QED BY <1>2, <1>3, <1>4, <1>5, <1>6, <1>7, <1>8, <1>9, <1>10, <1>11, <1>12, <1>13, <1>14, <1>15, <1>16, <1>17, <1>18, <1>19, <1>20 DEF Files!Next

\* A caller keeps what it knows of its content: register verifies the file, and retention takes a
\* file only after its row.
LEMMA CallersStep == ASSUME IInv, Files!Next PROVE CallersOK'
<1>0. Files!ArtifactAssumption
  BY DEF IInv
<1> USE <1>0 DEF Files!ArtifactAssumption, Files!None
<1>1. Shapes /\ CallersOK /\ ClockOK
  BY DEF IInv
<1>2. CASE Files!PlanRetention \/ Files!RefreshPlan \/ Files!SnapshotAndLease \/ Files!PublishBackup \/ Files!BackupFails \/ Files!ReleaseLeases
  <2>1. UNCHANGED <<clock, file, row, client>>
    BY <1>2 DEF Files!PlanRetention, Files!RefreshPlan, Files!SnapshotAndLease, Files!PublishBackup, Files!BackupFails, Files!ReleaseLeases, Files!BackupOthers, Files!RetentionOthers
  <2> QED BY <1>1, <2>1 DEF CallersOK, Files!HasRow, Files!HasFile
<1>3. ASSUME NEW d \in Digest, Files!CopyArtifact(d) PROVE CallersOK'
  <2>1. UNCHANGED <<clock, file, row, client>>
    BY <1>3 DEF Files!CopyArtifact, Files!BackupOthers
  <2> QED BY <1>1, <2>1 DEF CallersOK, Files!HasRow, Files!HasFile
<1>4. CASE Files!Tick
  BY <1>1, <1>4 DEF Files!Tick, CallersOK, Files!HasRow, Files!HasFile, Shapes
<1>5. CASE Files!Crash
  BY <1>5 DEF Files!Crash, CallersOK, Files!Idle
<1>6. CASE Files!Restore
  BY <1>6 DEF Files!Restore, CallersOK
<1>7. ASSUME NEW c \in Client, NEW d \in Digest, Files!PutLook(c, d) PROVE CallersOK'
  BY <1>1, <1>7 DEF Files!PutLook, Files!Others, CallersOK, Files!HasRow, Files!HasFile, Shapes
<1>8. ASSUME NEW c \in Client, Files!PutReplace(c) PROVE CallersOK'
  BY <1>1, <1>8 DEF Files!PutReplace, Files!Others, CallersOK, Files!Goto, Files!HasRow, Files!HasFile, Shapes
<1>9. ASSUME NEW c \in Client, Files!PutStat(c) PROVE CallersOK'
  <2>1. client[c].sha \in Digest
    BY <1>1, <1>9 DEF Files!PutStat, CallersOK
  <2>2. Files!HasFile(client[c].sha) => file[client[c].sha] \in 0 .. clock
    BY <1>1, <2>1 DEF Shapes, ClockOK, Files!HasFile, Times
  <2> QED BY <1>1, <1>9, <2>1, <2>2 DEF Files!PutStat, Files!Others, CallersOK, Files!Leave, Files!Idle, Files!HasRow, Files!HasFile, Shapes
<1>10. ASSUME NEW c \in Client, Files!Register(c) PROVE CallersOK'
  <2>1. UNCHANGED <<clock, file>>
    BY <1>10 DEF Files!Register, Files!Others
  <2>2. \A d \in Digest : Files!HasRow(d)' => Files!HasRow(d) \/ Files!HasFile(d)
    BY <1>1, <1>10 DEF Files!Register, Files!HasRow, Files!HasFile, Shapes
  <2>3. client[c].pc = "put" /\ client[c].sha \in Digest
    BY <1>1, <1>10 DEF Files!Register, CallersOK
  <2>4. client'[c] = Files!Idle
        \/ /\ client'[c].pc \in {"registered", "conflict"}
           /\ client'[c].sha = client[c].sha /\ client'[c].created = client[c].created
           /\ client'[c].pc = "registered" => Files!HasFile(client[c].sha)
    BY <1>1, <1>10 DEF Files!Register, Files!Goto, Files!Leave, Shapes
  <2>5. \A e \in Client \ {c} : client'[e] = client[e]
    BY <1>1, <1>10 DEF Files!Register, Files!Goto, Files!Leave, Shapes
  <2>6. \A d \in Digest : Files!HasFile(d)' = Files!HasFile(d)
    BY <2>1 DEF Files!HasFile
  <2>7. ASSUME NEW e \in Client \ {c}
        PROVE  /\ client'[e].pc # "idle" => client'[e].sha \in Digest
               /\ client'[e].pc \in {"put", "registered", "conflict"} => client'[e].created \in 0 .. clock'
               /\ client'[e].pc = "registered" /\ Files!HasRow(client[e].sha)' => Files!HasFile(client[e].sha)'
    BY <1>1, <2>1, <2>2, <2>5, <2>6 DEF CallersOK
  <2>8. /\ client'[c].pc # "idle" => client'[c].sha \in Digest
        /\ client'[c].pc \in {"put", "registered", "conflict"} => client'[c].created \in 0 .. clock'
        /\ client'[c].pc = "registered" => Files!HasFile(client[c].sha)' /\ client'[c].sha = client[c].sha
    BY <1>1, <2>1, <2>3, <2>4, <2>6 DEF CallersOK, Files!Idle
  <2> QED BY <2>5, <2>7, <2>8 DEF CallersOK, Files!HasRow, Files!HasFile
<1>11. ASSUME NEW c \in Client, Files!ConflictRaised(c) PROVE CallersOK'
  BY <1>1, <1>11 DEF Files!ConflictRaised, Files!Others, CallersOK, Files!Leave, Files!Idle, Files!HasRow, Files!HasFile, Shapes
<1>12. ASSUME NEW c \in Client, Files!Reference(c) PROVE CallersOK'
  BY <1>1, <1>12 DEF Files!Reference, Files!Others, CallersOK, Files!Leave, Files!Idle, Files!HasRow, Files!HasFile, Shapes
<1>13. ASSUME NEW c \in Client, Files!Abandon(c) PROVE CallersOK'
  BY <1>1, <1>13 DEF Files!Abandon, Files!Others, CallersOK, Files!Leave, Files!Idle, Files!HasRow, Files!HasFile, Shapes
<1>14. CASE Files!DeleteMetadata
  <2>1. \A d \in Digest : Files!HasRow(d)' => Files!HasRow(d)
    BY <1>1, <1>14 DEF Files!DeleteMetadata, Files!HasRow, Shapes
  <2> QED BY <1>1, <1>14, <2>1 DEF Files!DeleteMetadata, Files!RetentionOthers, CallersOK, Files!HasFile, Shapes
<1>15. CASE Files!RemoveFiles
  <2>1. \A d \in Digest : Files!HasFile(d) /\ Files!HasRow(d) => Files!HasFile(d)'
    BY <1>1, <1>15 DEF Files!RemoveFiles, Files!Removable, Files!HasFile, Shapes
  <2> QED BY <1>1, <1>15, <2>1 DEF Files!RemoveFiles, Files!RetentionOthers, CallersOK, Files!HasRow, Shapes
<1> QED BY <1>2, <1>3, <1>4, <1>5, <1>6, <1>7, <1>8, <1>9, <1>10, <1>11, <1>12, <1>13, <1>14, <1>15 DEF Files!Next

\* Files get the time at which they replace the target, and retention fixes its time when it
\* plans again.
LEMMA ClockStep == ASSUME IInv, Files!Next PROVE ClockOK'
<1>0. Files!ArtifactAssumption
  BY DEF IInv
<1> USE <1>0 DEF Files!ArtifactAssumption, Files!None
<1>1. Shapes /\ ClockOK
  BY DEF IInv
<1>2. ASSUME NEW c \in Client, NEW d \in Digest, Files!PutLook(c, d) PROVE ClockOK'
  <2>1. UNCHANGED <<clock, file, retain>>
    BY <1>2 DEF Files!PutLook, Files!Others
  <2> QED BY <1>1, <2>1 DEF ClockOK
<1>3. ASSUME NEW c \in Client, Files!PutStat(c) \/ Files!Register(c) \/ Files!ConflictRaised(c) \/ Files!Reference(c) \/ Files!Abandon(c) PROVE ClockOK'
  <2>1. UNCHANGED <<clock, file, retain>>
    BY <1>3 DEF Files!PutStat, Files!Register, Files!ConflictRaised, Files!Reference, Files!Abandon, Files!Others
  <2> QED BY <1>1, <2>1 DEF ClockOK
<1>4. CASE Files!SnapshotAndLease \/ Files!PublishBackup \/ Files!BackupFails \/ Files!ReleaseLeases
  <2>1. UNCHANGED <<clock, file, retain>>
    BY <1>4 DEF Files!SnapshotAndLease, Files!PublishBackup, Files!BackupFails, Files!ReleaseLeases, Files!BackupOthers
  <2> QED BY <1>1, <2>1 DEF ClockOK
<1>5. ASSUME NEW d \in Digest, Files!CopyArtifact(d) PROVE ClockOK'
  <2>1. UNCHANGED <<clock, file, retain>>
    BY <1>5 DEF Files!CopyArtifact, Files!BackupOthers
  <2> QED BY <1>1, <2>1 DEF ClockOK
<1>6. CASE Files!Tick
  BY <1>1, <1>6 DEF Files!Tick, ClockOK, Shapes, Times
<1>7. CASE Files!Crash
  BY <1>1, <1>7 DEF Files!Crash, ClockOK, Files!NoPlan, Shapes
<1>8. CASE Files!Restore
  BY <1>1, <1>8 DEF Files!Restore, ClockOK, Shapes
<1>9. ASSUME NEW c \in Client, Files!PutReplace(c) PROVE ClockOK'
  BY <1>1, <1>9 DEF Files!PutReplace, Files!Others, ClockOK, Shapes
<1>10. CASE Files!PlanRetention
  BY <1>1, <1>10 DEF Files!PlanRetention, Files!RetentionOthers, ClockOK, Shapes
<1>11. CASE Files!RefreshPlan
  <2>1. retain'.at = clock \/ retain'.at = Files!None
    <3>1. CASE Files!SamePlan(clock)
      BY <1>1, <1>11, <3>1 DEF Files!RefreshPlan, Shapes
    <3>2. CASE ~Files!SamePlan(clock)
      BY <1>11, <3>2 DEF Files!RefreshPlan, Files!NoPlan
    <3> QED BY <3>1, <3>2
  <2> QED BY <1>1, <1>11, <2>1 DEF Files!RefreshPlan, Files!RetentionOthers, ClockOK, Shapes
<1>12. CASE Files!DeleteMetadata
  <2>1. retain'.at = retain.at \/ retain'.at = Files!None
    BY <1>1, <1>12 DEF Files!DeleteMetadata, Files!NoPlan, Shapes
  <2> QED BY <1>1, <1>12, <2>1 DEF Files!DeleteMetadata, Files!RetentionOthers, ClockOK, Shapes
<1>13. CASE Files!RemoveFiles
  BY <1>1, <1>13 DEF Files!RemoveFiles, Files!RetentionOthers, ClockOK, Files!NoPlan, Shapes, Times
<1> QED BY <1>2, <1>3, <1>4, <1>5, <1>6, <1>7, <1>8, <1>9, <1>10, <1>11, <1>12, <1>13 DEF Files!Next

\* The backup leases what its snapshot names in the step that takes the snapshot; neither step of
\* retention takes a leased row or file before the lease lapses.
LEMMA BackupStep == ASSUME IInv, Files!Next PROVE BackupOK'
<1>0. Files!ArtifactAssumption
  BY DEF IInv
<1> USE <1>0 DEF Files!ArtifactAssumption, Files!None
<1>1. Shapes /\ CallersOK /\ ClockOK /\ BackupOK /\ SetsOK /\ Files!NoDanglingArtifact /\ Files!ProtectedEvidenceReadable
  BY DEF IInv
<1>2. ASSUME NEW c \in Client, NEW d \in Digest, Files!PutLook(c, d) PROVE BackupOK'
  <2>1. UNCHANGED <<clock, file, leases, staging, published>>
    BY <1>2 DEF Files!PutLook, Files!Others
  <2> QED BY <1>1, <2>1 DEF BackupOK, Files!HasFile
<1>3. ASSUME NEW c \in Client, Files!PutStat(c) \/ Files!Register(c) \/ Files!ConflictRaised(c) \/ Files!Reference(c) \/ Files!Abandon(c) PROVE BackupOK'
  <2>1. UNCHANGED <<clock, file, leases, staging, published>>
    BY <1>3 DEF Files!PutStat, Files!Register, Files!ConflictRaised, Files!Reference, Files!Abandon, Files!Others
  <2> QED BY <1>1, <2>1 DEF BackupOK, Files!HasFile
<1>4. CASE Files!PlanRetention \/ Files!RefreshPlan
  <2>1. UNCHANGED <<clock, file, leases, staging, published>>
    BY <1>4 DEF Files!PlanRetention, Files!RefreshPlan, Files!RetentionOthers
  <2> QED BY <1>1, <2>1 DEF BackupOK, Files!HasFile
<1>5. CASE Files!Tick
  <2>1. UNCHANGED <<file, leases, staging, published>> /\ clock' = clock + 1
    BY <1>5 DEF Files!Tick
  <2>2. staging.until > clock' => staging.until > clock
    BY <1>1, <2>1 DEF Shapes
  <2> QED BY <1>1, <2>1, <2>2 DEF BackupOK, Files!HasFile
<1>6. CASE Files!Crash
  BY <1>6 DEF Files!Crash, BackupOK, Files!NoBackup
<1>7. CASE Files!Restore
  BY <1>7 DEF Files!Restore, BackupOK
<1>8. ASSUME NEW c \in Client, Files!PutReplace(c) PROVE BackupOK'
  <2>1. UNCHANGED <<clock, leases, staging, published>>
    BY <1>8 DEF Files!PutReplace, Files!Others
  <2>2. \A d \in Digest : Files!HasFile(d) => Files!HasFile(d)'
    BY <1>1, <1>8 DEF Files!PutReplace, Files!HasFile, Shapes
  <2>3. staging.items \subseteq Digest
    BY <1>1 DEF Shapes
  <2> QED BY <1>1, <2>1, <2>2, <2>3 DEF BackupOK
<1>9. CASE Files!DeleteMetadata
  <2>1. UNCHANGED <<clock, file, staging, published>>
    BY <1>9 DEF Files!DeleteMetadata, Files!RetentionOthers
  <2>2. \A l \in leases : l.until > clock => l \in leases'
    <3>1. \A l \in leases : l.until > clock => ~(l.until <= retain.at)
      BY <1>1 DEF Shapes, LeaseRows, ClockOK
    <3> QED BY <1>9, <3>1 DEF Files!DeleteMetadata
  <2> QED BY <1>1, <2>1, <2>2 DEF BackupOK, Files!HasFile
<1>10. CASE Files!RemoveFiles
  <2>1. UNCHANGED <<clock, leases, staging, published>>
    BY <1>10 DEF Files!RemoveFiles, Files!RetentionOthers
  <2>2. \A d \in Digest : (\E l \in leases : l.sha = d /\ l.until > clock) => d \notin Files!Removable
    <3>1. \A l \in leases : l.until > clock => l.until > retain.at
      BY <1>1 DEF Shapes, LeaseRows, ClockOK
    <3> QED BY <3>1 DEF Files!Removable
  <2>3. \A d \in Digest : Files!HasFile(d) /\ d \notin Files!Removable => Files!HasFile(d)'
    BY <1>1, <1>10 DEF Files!RemoveFiles, Files!HasFile, Shapes
  <2>4. staging.items \subseteq Digest
    BY <1>1 DEF Shapes
  <2> QED BY <1>1, <2>1, <2>2, <2>3, <2>4 DEF BackupOK
<1>11. CASE Files!SnapshotAndLease
  <2> DEFINE snap == [row |-> row, refs |-> refs, leases |-> leases]
  <2>1. /\ published = {} /\ UNCHANGED <<clock, file, published>>
        /\ staging'.db = snap /\ staging'.items = Files!BackupItems(snap) /\ staging'.until = clock + Lease
        /\ leases' = leases \cup {[sha |-> d, until |-> clock + Lease, mine |-> TRUE] : d \in Files!BackupItems(snap)}
    BY <1>11 DEF Files!SnapshotAndLease, Files!BackupOthers
  <2>2. \A d \in Files!ReferencedBy(Files!Protected, refs) : row[d] # Files!None /\ Files!HasFile(d)
    BY <1>1 DEF Files!ProtectedEvidenceReadable, Files!HasRow
  <2>3. \A d \in Files!BackupItems(snap) : Files!HasFile(d)
    <3>1. restores = 0
      BY <1>1, <2>1 DEF SetsOK, Shapes
    <3>2. \A d \in Digest : row[d] # Files!None => Files!HasFile(d)
      BY <1>1, <3>1 DEF Files!NoDanglingArtifact, Files!ArtifactMissing, Files!HasRow
    <3>3. \A d \in Files!BackupItems(snap) : d \in Digest /\ (d \in Files!ReferencedBy(Files!Protected, refs) \/ row[d] # Files!None)
      BY DEF Files!BackupItems, Files!ReferencedBy
    <3> QED BY <2>2, <3>2, <3>3
  <2>4. \A d \in Files!BackupItems(snap) : \E l \in leases' : l.sha = d /\ l.until = clock + Lease
    <3>1. ASSUME NEW d \in Files!BackupItems(snap)
          PROVE  \E l \in leases' : l.sha = d /\ l.until = clock + Lease
      <4>1. [sha |-> d, until |-> clock + Lease, mine |-> TRUE] \in leases'
        BY <2>1
      <4> QED BY <4>1
    <3> QED BY <3>1
  <2>5. snap.refs = refs /\ snap.row = row
    OBVIOUS
  <2> HIDE DEF snap
  <2> QED BY <2>1, <2>2, <2>3, <2>4, <2>5 DEF BackupOK, Files!HasFile
<1>12. CASE Files!PublishBackup
  BY <1>1, <1>12 DEF Files!PublishBackup, BackupOK, Shapes
<1>13. CASE Files!BackupFails
  BY <1>1, <1>13 DEF Files!BackupFails, BackupOK, Shapes
<1>14. CASE Files!ReleaseLeases
  BY <1>14 DEF Files!ReleaseLeases, BackupOK, Files!NoBackup
<1>15. ASSUME NEW d \in Digest, Files!CopyArtifact(d) PROVE BackupOK'
  <2>1. UNCHANGED <<clock, file, leases, published>>
    BY <1>15 DEF Files!CopyArtifact, Files!BackupOthers
  <2>2. /\ staging.pc = "copying"
        /\ staging'.db = staging.db /\ staging'.items = staging.items /\ staging'.until = staging.until
    BY <1>1, <1>15 DEF Files!CopyArtifact, Shapes
  <2> QED BY <1>1, <2>1, <2>2 DEF BackupOK, Files!HasFile
<1> QED BY <1>2, <1>3, <1>4, <1>5, <1>6, <1>7, <1>8, <1>9, <1>10, <1>11, <1>12, <1>13, <1>14, <1>15 DEF Files!Next

\* A set is published only when the copied files are the ones its own database names.
LEMMA SetsStep == ASSUME IInv, Files!Next PROVE SetsOK'
<1>1. Shapes /\ CallersOK /\ ClockOK /\ BackupOK /\ SetsOK /\ Files!NoDanglingArtifact /\ Files!ProtectedEvidenceReadable
  BY DEF IInv
<1>2. CASE Files!Tick \/ Files!Crash \/ Files!PlanRetention \/ Files!RefreshPlan \/ Files!DeleteMetadata \/ Files!RemoveFiles \/ Files!SnapshotAndLease \/ Files!BackupFails \/ Files!ReleaseLeases
  <2>1. UNCHANGED <<published, restores>>
    BY <1>2 DEF Files!Tick, Files!Crash, Files!PlanRetention, Files!RefreshPlan, Files!DeleteMetadata, Files!RemoveFiles, Files!SnapshotAndLease, Files!BackupFails, Files!ReleaseLeases, Files!BackupOthers, Files!RetentionOthers
  <2> QED BY <1>1, <2>1 DEF SetsOK
<1>3. ASSUME NEW c \in Client, NEW d \in Digest, Files!PutLook(c, d) PROVE SetsOK'
  <2>1. UNCHANGED <<published, restores>>
    BY <1>3 DEF Files!PutLook, Files!Others
  <2> QED BY <1>1, <2>1 DEF SetsOK
<1>4. ASSUME NEW c \in Client, Files!PutReplace(c) \/ Files!PutStat(c) \/ Files!Register(c) \/ Files!ConflictRaised(c) \/ Files!Reference(c) \/ Files!Abandon(c) PROVE SetsOK'
  <2>1. UNCHANGED <<published, restores>>
    BY <1>4 DEF Files!PutReplace, Files!PutStat, Files!Register, Files!ConflictRaised, Files!Reference, Files!Abandon, Files!Others
  <2> QED BY <1>1, <2>1 DEF SetsOK
<1>5. ASSUME NEW d \in Digest, Files!CopyArtifact(d) PROVE SetsOK'
  <2>1. UNCHANGED <<published, restores>>
    BY <1>5 DEF Files!CopyArtifact, Files!BackupOthers
  <2> QED BY <1>1, <2>1 DEF SetsOK
<1>6. CASE Files!Restore
  BY <1>1, <1>6 DEF Files!Restore, SetsOK
<1>7. CASE Files!PublishBackup
  <2>1. published' = {[db |-> staging.db, files |-> staging.copied]}
    BY <1>7 DEF Files!PublishBackup
  <2>2. Files!ReferencedBy(Files!Protected, staging.db.refs) \subseteq staging.copied
    <3>1. Files!ReferencedBy(Files!Protected, staging.db.refs) \subseteq Files!BackupItems(staging.db)
      BY DEF Files!BackupItems, Files!ReferencedBy, Files!Listed
    <3> QED BY <1>7, <3>1 DEF Files!PublishBackup, Files!SetVerified
  <2>3. \A d \in Files!ReferencedBy(Files!Protected, staging.db.refs) : staging.db.row[d] # Files!None
    BY <1>1, <1>7 DEF Files!PublishBackup, BackupOK
  <2> QED BY <2>1, <2>2, <2>3 DEF SetsOK
<1> QED BY <1>2, <1>3, <1>4, <1>5, <1>6, <1>7 DEF Files!Next

\* register verifies the file inside the writer command that makes the row, and remove_files looks
\* for the row again: before any restore no row loses its file.
LEMMA DanglingStep == ASSUME IInv, Files!Next PROVE Files!NoDanglingArtifact'
<1>0. Files!ArtifactAssumption
  BY DEF IInv
<1> USE <1>0 DEF Files!ArtifactAssumption, Files!None
<1>1. Shapes /\ CallersOK /\ ClockOK /\ BackupOK /\ SetsOK /\ Files!NoDanglingArtifact /\ Files!ProtectedEvidenceReadable
  BY DEF IInv
<1>2. CASE Files!Tick \/ Files!Crash \/ Files!PlanRetention \/ Files!RefreshPlan \/ Files!SnapshotAndLease \/ Files!PublishBackup \/ Files!BackupFails \/ Files!ReleaseLeases
  <2>1. UNCHANGED <<file, row, restores>>
    BY <1>2 DEF Files!Tick, Files!Crash, Files!PlanRetention, Files!RefreshPlan, Files!SnapshotAndLease, Files!PublishBackup, Files!BackupFails, Files!ReleaseLeases, Files!BackupOthers, Files!RetentionOthers
  <2> QED BY <1>1, <2>1 DEF Files!NoDanglingArtifact, Files!ArtifactMissing, Files!HasRow, Files!HasFile
<1>3. ASSUME NEW c \in Client, NEW d \in Digest, Files!PutLook(c, d) PROVE Files!NoDanglingArtifact'
  <2>1. UNCHANGED <<file, row, restores>>
    BY <1>3 DEF Files!PutLook, Files!Others
  <2> QED BY <1>1, <2>1 DEF Files!NoDanglingArtifact, Files!ArtifactMissing, Files!HasRow, Files!HasFile
<1>4. ASSUME NEW c \in Client, Files!PutStat(c) \/ Files!ConflictRaised(c) \/ Files!Reference(c) \/ Files!Abandon(c) PROVE Files!NoDanglingArtifact'
  <2>1. UNCHANGED <<file, row, restores>>
    BY <1>4 DEF Files!PutStat, Files!ConflictRaised, Files!Reference, Files!Abandon, Files!Others
  <2> QED BY <1>1, <2>1 DEF Files!NoDanglingArtifact, Files!ArtifactMissing, Files!HasRow, Files!HasFile
<1>5. ASSUME NEW d \in Digest, Files!CopyArtifact(d) PROVE Files!NoDanglingArtifact'
  <2>1. UNCHANGED <<file, row, restores>>
    BY <1>5 DEF Files!CopyArtifact, Files!BackupOthers
  <2> QED BY <1>1, <2>1 DEF Files!NoDanglingArtifact, Files!ArtifactMissing, Files!HasRow, Files!HasFile
<1>6. CASE Files!Restore
  BY <1>1, <1>6 DEF Files!Restore, Files!NoDanglingArtifact, Shapes
<1>7. ASSUME NEW c \in Client, Files!PutReplace(c) PROVE Files!NoDanglingArtifact'
  BY <1>1, <1>7 DEF Files!PutReplace, Files!Others, Files!NoDanglingArtifact, Files!ArtifactMissing, Files!HasRow, Files!HasFile, Shapes
<1>8. ASSUME NEW c \in Client, Files!Register(c) PROVE Files!NoDanglingArtifact'
  <2>1. UNCHANGED <<file, restores>>
    BY <1>8 DEF Files!Register, Files!Others
  <2>2. \A d \in Digest : Files!HasRow(d)' => Files!HasRow(d) \/ Files!HasFile(d)
    BY <1>1, <1>8 DEF Files!Register, Files!HasRow, Files!HasFile, Shapes
  <2> QED BY <1>1, <2>1, <2>2 DEF Files!NoDanglingArtifact, Files!ArtifactMissing, Files!HasFile
<1>9. CASE Files!DeleteMetadata
  <2>1. UNCHANGED <<file, restores>>
    BY <1>9 DEF Files!DeleteMetadata, Files!RetentionOthers
  <2>2. \A d \in Digest : Files!HasRow(d)' => Files!HasRow(d)
    BY <1>1, <1>9 DEF Files!DeleteMetadata, Files!HasRow, Shapes
  <2> QED BY <1>1, <2>1, <2>2 DEF Files!NoDanglingArtifact, Files!ArtifactMissing, Files!HasFile
<1>10. CASE Files!RemoveFiles
  <2>1. UNCHANGED <<row, restores>>
    BY <1>10 DEF Files!RemoveFiles, Files!RetentionOthers
  <2>2. \A d \in Digest : Files!HasRow(d) /\ Files!HasFile(d) => Files!HasFile(d)'
    BY <1>1, <1>10 DEF Files!RemoveFiles, Files!Removable, Files!HasFile, Shapes
  <2> QED BY <1>1, <2>1, <2>2 DEF Files!NoDanglingArtifact, Files!ArtifactMissing, Files!HasRow
<1> QED BY <1>2, <1>3, <1>4, <1>5, <1>6, <1>7, <1>8, <1>9, <1>10 DEF Files!Next

\* A batch, manifest or threshold record is written by a caller that registered its artifact, the
\* foreign key wants the row, retention's transaction fails on a reference made since its plan,
\* and a restored set brings row and file.
LEMMA ProtectedStep == ASSUME IInv, Files!Next PROVE Files!ProtectedEvidenceReadable'
<1>0. Files!ArtifactAssumption
  BY DEF IInv
<1> USE <1>0 DEF Files!ArtifactAssumption, Files!None
<1>1. Shapes /\ CallersOK /\ ClockOK /\ BackupOK /\ SetsOK /\ Files!NoDanglingArtifact /\ Files!ProtectedEvidenceReadable
  BY DEF IInv
<1>2. CASE Files!Tick \/ Files!Crash \/ Files!PlanRetention \/ Files!RefreshPlan \/ Files!SnapshotAndLease \/ Files!PublishBackup \/ Files!BackupFails \/ Files!ReleaseLeases
  <2>1. UNCHANGED <<file, row, refs>>
    BY <1>2 DEF Files!Tick, Files!Crash, Files!PlanRetention, Files!RefreshPlan, Files!SnapshotAndLease, Files!PublishBackup, Files!BackupFails, Files!ReleaseLeases, Files!BackupOthers, Files!RetentionOthers
  <2> QED BY <1>1, <2>1 DEF Files!ProtectedEvidenceReadable, Files!HasRow, Files!HasFile
<1>3. ASSUME NEW c \in Client, NEW d \in Digest, Files!PutLook(c, d) PROVE Files!ProtectedEvidenceReadable'
  <2>1. UNCHANGED <<file, row, refs>>
    BY <1>3 DEF Files!PutLook, Files!Others
  <2> QED BY <1>1, <2>1 DEF Files!ProtectedEvidenceReadable, Files!HasRow, Files!HasFile
<1>4. ASSUME NEW c \in Client, Files!PutStat(c) \/ Files!ConflictRaised(c) \/ Files!Abandon(c) PROVE Files!ProtectedEvidenceReadable'
  <2>1. UNCHANGED <<file, row, refs>>
    BY <1>4 DEF Files!PutStat, Files!ConflictRaised, Files!Abandon, Files!Others
  <2> QED BY <1>1, <2>1 DEF Files!ProtectedEvidenceReadable, Files!HasRow, Files!HasFile
<1>5. ASSUME NEW d \in Digest, Files!CopyArtifact(d) PROVE Files!ProtectedEvidenceReadable'
  <2>1. UNCHANGED <<file, row, refs>>
    BY <1>5 DEF Files!CopyArtifact, Files!BackupOthers
  <2> QED BY <1>1, <2>1 DEF Files!ProtectedEvidenceReadable, Files!HasRow, Files!HasFile
<1>6. CASE Files!Restore
  <2>1. PICK set \in published :
           /\ file' = [d \in Digest |-> IF d \in set.files THEN clock ELSE Files!None]
           /\ row' = set.db.row /\ refs' = set.db.refs
    BY <1>6 DEF Files!Restore
  <2>2. \A d \in Files!ReferencedBy(Files!Protected, set.db.refs) : set.db.row[d] # Files!None /\ d \in set.files /\ d \in Digest
    BY <1>1, <2>1 DEF SetsOK, Files!ReferencedBy
  <2>3. clock # Files!None
    BY <1>1 DEF Shapes
  <2> QED BY <2>1, <2>2, <2>3 DEF Files!ProtectedEvidenceReadable, Files!HasRow, Files!HasFile
<1>7. ASSUME NEW c \in Client, Files!PutReplace(c) PROVE Files!ProtectedEvidenceReadable'
  BY <1>1, <1>7 DEF Files!PutReplace, Files!Others, Files!ProtectedEvidenceReadable, Files!ReferencedBy, Files!HasRow, Files!HasFile, Shapes
<1>8. ASSUME NEW c \in Client, Files!Register(c) PROVE Files!ProtectedEvidenceReadable'
  <2>1. UNCHANGED <<file, refs>>
    BY <1>8 DEF Files!Register, Files!Others
  <2>2. \A d \in Digest : Files!HasRow(d) => Files!HasRow(d)'
    BY <1>1, <1>8 DEF Files!Register, CallersOK, Files!HasRow, Shapes
  <2> QED BY <1>1, <2>1, <2>2 DEF Files!ProtectedEvidenceReadable, Files!ReferencedBy, Files!HasFile
<1>9. ASSUME NEW c \in Client, Files!Reference(c) PROVE Files!ProtectedEvidenceReadable'
  <2>1. UNCHANGED <<file, row>> /\ client[c].pc = "registered"
    BY <1>9 DEF Files!Reference, Files!Others
  <2>2. PICK k \in Files!Kinds :
           refs' = IF k \in Files!Constrained /\ ~Files!HasRow(client[c].sha) THEN refs ELSE refs \cup {<<k, client[c].sha>>}
    BY <1>9 DEF Files!Reference
  <2>3. CASE k \in Files!Constrained
    <3>1. Files!HasRow(client[c].sha) => Files!HasFile(client[c].sha)
      BY <1>1, <2>1 DEF CallersOK
    <3>2. \A d \in Files!ReferencedBy(Files!Protected, refs)' : d \in Files!ReferencedBy(Files!Protected, refs) \/ (d = client[c].sha /\ Files!HasRow(d))
      <4>1. CASE Files!HasRow(client[c].sha)
        BY <2>2, <2>3, <4>1 DEF Files!ReferencedBy
      <4>2. CASE ~Files!HasRow(client[c].sha)
        <5>1. refs' = refs
          BY <2>2, <2>3, <4>2
        <5> QED BY <5>1 DEF Files!ReferencedBy
      <4> QED BY <4>1, <4>2
    <3> QED BY <1>1, <2>1, <3>1, <3>2 DEF Files!ProtectedEvidenceReadable, Files!HasRow, Files!HasFile
  <2>4. CASE k \notin Files!Constrained
    <3>1. Files!ReferencedBy(Files!Protected, refs)' = Files!ReferencedBy(Files!Protected, refs)
      BY <2>2, <2>4 DEF Files!ReferencedBy, Files!Protected, Files!Constrained, Files!Kinds
    <3> QED BY <1>1, <2>1, <3>1 DEF Files!ProtectedEvidenceReadable, Files!HasRow, Files!HasFile
  <2> QED BY <2>3, <2>4
<1>10. CASE Files!DeleteMetadata
  <2>1. UNCHANGED <<file, refs>>
    BY <1>10 DEF Files!DeleteMetadata, Files!RetentionOthers
  <2>2. \A d \in Files!ReferencedBy(Files!Protected, refs) : Files!HasRow(d) => Files!HasRow(d)'
    <3>1. Files!ReferencedBy(Files!Protected, refs) \subseteq Files!ReferencedBy(Files!Constrained, refs)
      BY DEF Files!ReferencedBy, Files!Protected, Files!Constrained, Files!Kinds
    <3>2. row' = row \/ /\ row' = [d \in Digest |-> IF d \in retain.plan THEN Files!None ELSE row[d]]
                        /\ retain.plan \cap Files!ReferencedBy(Files!Constrained, refs) = {}
      BY <1>10 DEF Files!DeleteMetadata
    <3> QED BY <3>1, <3>2 DEF Files!HasRow, Files!ReferencedBy
  <2> QED BY <1>1, <2>1, <2>2 DEF Files!ProtectedEvidenceReadable, Files!HasFile
<1>11. CASE Files!RemoveFiles
  <2>1. UNCHANGED <<row, refs>>
    BY <1>11 DEF Files!RemoveFiles, Files!RetentionOthers
  <2>2. \A d \in Files!ReferencedBy(Files!Protected, refs) : Files!HasFile(d) => Files!HasFile(d)'
    BY <1>1, <1>11 DEF Files!RemoveFiles, Files!Removable, Files!ReferencedBy, Files!HasFile, Shapes
  <2> QED BY <1>1, <2>1, <2>2 DEF Files!ProtectedEvidenceReadable, Files!HasRow
<1> QED BY <1>2, <1>3, <1>4, <1>5, <1>6, <1>7, <1>8, <1>9, <1>10, <1>11 DEF Files!Next

\* The shapes hold every field of the type invariant.
LEMMA ShapesGiveType == Shapes /\ CallersOK => Files!TypeOK
<1> SUFFICES ASSUME Shapes, CallersOK PROVE Files!TypeOK
  OBVIOUS
<1>1. \A l \in leases : l.sha \in Digest /\ l.until \in Nat /\ l.mine \in BOOLEAN
  BY DEF Shapes, LeaseRows
<1>2. /\ clock \in 0 .. FileTime /\ restores \in 0 .. FileRestores
      /\ file \in [Digest -> Times] /\ row \in [Digest -> Times] /\ refs \subseteq Files!Kinds \X Digest
      /\ \A c \in Client : client[c].pc \in
           {"idle", "writing", "stored", "put", "registered", "conflict"}
      /\ retain.pc \in {"idle", "planned", "refreshed", "deleted"}
      /\ staging.pc \in {"idle", "copying", "releasing"}
  BY DEF Shapes
<1>3. \A c \in Client : client[c].pc \in {"put", "registered"} => client[c].created \in 0 .. clock
  BY DEF CallersOK
<1> QED BY <1>1, <1>2, <1>3 DEF Files!TypeOK, Times

\* Every step of a caller, of retention, of a backup, of a restore and a crash keeps the invariant.
THEOREM Invariance == Files!ArtifactAssumption /\ Files!Spec => []IInv
<1>1. IInv /\ Files!Next => IInv'
  BY ShapesStep, CallersStep, ClockStep, BackupStep, SetsStep, DanglingStep, ProtectedStep
     DEF IInv, Files!ArtifactAssumption
<1>2. ASSUME IInv, UNCHANGED Files!vars PROVE IInv'
  <2>1. Shapes' /\ CallersOK' /\ ClockOK' /\ BackupOK' /\ SetsOK'
    BY <1>2 DEF Files!vars, IInv, Shapes, CallersOK, ClockOK, BackupOK, SetsOK, Files!HasRow,
                Files!HasFile
  <2>2. Files!NoDanglingArtifact' /\ Files!ProtectedEvidenceReadable'
    BY <1>2 DEF Files!vars, IInv, Files!NoDanglingArtifact, Files!ProtectedEvidenceReadable,
                Files!ArtifactMissing, Files!ReferencedBy, Files!HasRow, Files!HasFile
  <2> QED BY <1>2, <2>1, <2>2 DEF IInv, Files!ArtifactAssumption
<1>3. IInv /\ [Files!Next]_(Files!vars) => IInv'
  BY <1>1, <1>2
<1> QED BY Initially, <1>3, PTL DEF Files!Spec

\* artifacts.py, maintenance.py and recovery.py together: a registered digest has its file until
\* a set is restored, and the artifact of a batch, manifest or threshold record can always be
\* opened, however callers, retention, backups, crashes and restores interleave.
THEOREM Readable == Files!ArtifactAssumption /\ Files!Spec => []Files!ArtifactsReadable
<1>1. IInv => Files!ArtifactsReadable
  BY ShapesGiveType DEF IInv, Files!ArtifactsReadable
<1> QED BY Invariance, <1>1, PTL

\* backup.py: while its leases run, a backup finds the file of every item of its snapshot, also
\* when retention planned the deletion before the backup began.
THEOREM BackupComplete == Files!ArtifactAssumption /\ Files!Spec => []Files!BackupFindsFiles
<1>1. IInv => Files!BackupFindsFiles
  <2> SUFFICES ASSUME IInv, staging.pc = "copying", clock < staging.until
               PROVE  \A d \in staging.items : Files!HasFile(d)
    BY DEF Files!BackupFindsFiles
  <2>1. staging.until > clock
    BY DEF IInv, Shapes
  <2> QED BY <2>1 DEF IInv, BackupOK
<1> QED BY Invariance, <1>1, PTL

-----------------------------------------------------------------------------
\* In every behaviour of the union the outbox moves by its own specification, or stands still.
LEMMA StorageIsDelivery == StorageSpec => Spec
<1>1. StorageInit => Init
  BY DEF StorageInit
<1>2. [StorageNext]_<<part, vars, fileVars>> => [Next]_vars
  BY DEF StorageNext, vars
<1> QED BY <1>1, <1>2, PTL DEF StorageSpec, Spec

\* The files move alone, or not at all.
LEMMA PartIsFiles == StorageSpec => []~(part = "files") \/ ([](part = "files") /\ Files!Spec)
<1> DEFINE E == part = "files"
<1>1. StorageInit /\ E => Files!Init
  BY DEF StorageInit
<1>2. [StorageNext]_<<part, vars, fileVars>> => (E' <=> E)
  BY DEF StorageNext
<1>3. E /\ [StorageNext]_<<part, vars, fileVars>> => [Files!Next]_(Files!vars)
  BY DEF StorageNext, fileVars, Files!vars
<1> HIDE DEF E
<1>4. StorageSpec => []~E \/ ([]E /\ Files!Spec)
  BY <1>1, <1>2, <1>3, PTL DEF StorageSpec, Files!Spec
<1> QED BY <1>4 DEF E

\* artifacts.py, maintenance.py, recovery.py: a registered digest keeps its file until a restore,
\* and protected evidence can be opened.
THEOREM StorageReadable == Files!ArtifactAssumption /\ StorageSpec => []ArtifactsReadable
<1>1. /\ ~(part = "files") => ArtifactsReadable
      /\ (part = "files") /\ Files!ArtifactsReadable => ArtifactsReadable
  BY DEF ArtifactsReadable
<1> QED BY <1>1, PartIsFiles, Readable, PTL

\* backup.py: a backup finds the files of its snapshot while its leases run.
THEOREM StorageBackupComplete == Files!ArtifactAssumption /\ StorageSpec => []BackupFindsFiles
<1>1. /\ ~(part = "files") => BackupFindsFiles
      /\ (part = "files") /\ Files!BackupFindsFiles => BackupFindsFiles
  BY DEF BackupFindsFiles
<1> QED BY <1>1, PartIsFiles, BackupComplete, PTL
=============================================================================
