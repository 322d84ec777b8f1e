---------------------------- MODULE StorageParts ----------------------------
(***************************************************************************)
(* What a backup set carries: the outbox and its workers (Delivery) and    *)
(* the content-addressed files (Artifacts).  A behaviour is of one of      *)
(* them, `part'; the variables of the other stand still.                   *)
(***************************************************************************)
EXTENDS Delivery, Integers

CONSTANTS Digest, Client, Keep, Lease, FileTime, FileRestores \* of Artifacts

VARIABLE part
VARIABLES clock, file, row, refs, leases, client, retain, staging, published, restores

fileVars == <<clock, file, row, refs, leases, client, retain, staging, published, restores>>

Files == INSTANCE Artifacts WITH
  MaxTime <- FileTime, MaxRestores <- FileRestores, backup <- staging

NoFiles ==
  /\ clock = "none" /\ file = "none" /\ row = "none" /\ refs = "none" /\ leases = "none"
  /\ client = "none" /\ retain = "none" /\ staging = "none" /\ published = "none"
  /\ restores = "none"

StorageInit ==
  /\ Init
  /\ \/ part = "outbox" /\ NoFiles
     \/ part = "files" /\ Files!Init

StorageNext ==
  /\ \/ part = "outbox" /\ Next /\ UNCHANGED fileVars
     \/ part = "files" /\ Files!Next /\ UNCHANGED vars
  /\ UNCHANGED part

StorageSpec == StorageInit /\ [][StorageNext]_<<part, vars, fileVars>>

\* artifacts.py, maintenance.py, recovery.py: a registered digest has its file, and protected
\* evidence can be opened (Artifacts.NoDanglingArtifact, ProtectedEvidenceReadable).
ArtifactsReadable == part = "files" => Files!ArtifactsReadable

\* backup.py: while its leases run, a backup finds every file of its snapshot
\* (Artifacts.BackupFindsFiles).
BackupFindsFiles == part = "files" => Files!BackupFindsFiles
=============================================================================
