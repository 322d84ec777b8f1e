---------------------------- MODULE OfficialCycle ----------------------------
(***************************************************************************)
(* The production cycle: ContinuousProductionWorker ticks once per         *)
(* completed market minute and runs OfficialOrchestrator.run, which        *)
(* records its progress in the durable journal official_cycle_run, seals a *)
(* snapshot, computes the metrics, makes the Analysis Commit, delivers and *)
(* marks the cycle COMMITTED.  The process may die between any two steps;  *)
(* the restarted worker runs the cycle of the current minute again from    *)
(* the journal.  Any step may also raise.                                  *)
(*                                                                         *)
(* The worker runs its cycles in one thread and the process holds the      *)
(* runtime lock, so the reads inside one step meet no other writer of the  *)
(* tables in db.  There is one subject, the one the process is set up for. *)
(***************************************************************************)
EXTENDS CommitStore

CONSTANTS MaxMinute,   \* bound: market minutes
          MaxRuns      \* bound: calls of OfficialOrchestrator.run

VARIABLES minute,    \* the last completed legal market minute: the cycle key
          runs,      \* runs begun so far; a run observes at its own number
          mode,      \* evaluation_disposition the process was started with
          lastKey,   \* _last_cycle_key of the worker, lost with the process
          worker,    \* the run in progress
          journal,   \* official_cycle_run, by cycle key
          sealed,    \* evaluation_snapshot, by as-of instant
          db         \* the tables an Analysis Commit writes

vars == <<minute, runs, mode, lastKey, worker, journal, sealed, db>>

Keys == 1..MaxMinute
Instants == 1..MaxRuns
Subject == CHOOSE u \in Subjects : TRUE

JournalRows == [phase : {"SNAPSHOT", "METRIC", "ANALYSIS_COMMIT", "EVENT_OUTBOX",
                         "COMPLETED", "FAILED"},
                status : {"RUNNING", "COMMITTED", "FAILED"}, attempt : Instants,
                at : Instants, snapshot : Instants \cup {Null},
                commit : Instants \cup {Null}, error : BOOLEAN]

SnapshotRows == [at : Instants, subject : Subjects, key : Keys,
                 disposition : {"OFFICIAL", "SHADOW"}, evidence : Evidence]

(* The bounds leave a minute and a run; there is a subject; a commit may   *)
(* ask for OBSERVING; NULL is no instant and no row.                       *)
CycleAssumption ==
    /\ MaxMinute \in Nat \ {0} /\ MaxRuns \in Nat \ {0}
    /\ Subjects # {} /\ "OBSERVING" \in Lifecycles
    /\ Null \notin Nat
    /\ Null \notin JournalRows /\ Null \notin SnapshotRows

Steps == {"get", "gates", "begin", "shadow", "seal", "save_metric", "metrics",
          "save_commit", "commit", "save_outbox", "deliver", "complete"}

(* The run's local variables: checkpoint is the journal row as the run     *)
(* last saved it; lifecycle comes from run_metrics; refusal and snapshot   *)
(* of an idle worker tell why the Analysis Commit refused the last run.    *)
Idle == [pc |-> "idle", key |-> Null, at |-> Null, checkpoint |-> Null,
         snapshot |-> Null, lifecycle |-> Null, refusal |-> Null]

WorkerRows ==
    [pc : Steps \cup {"idle"}, key : Keys \cup {Null}, at : Instants \cup {Null},
     checkpoint : JournalRows \cup {Null}, snapshot : Instants \cup {Null},
     lifecycle : DOMAIN Legal \cup {Null},
     refusal : {Null, "NOT_OFFICIAL", "NO_FACTS", "PROJECTION_CONFLICT",
                "ILLEGAL_TRANSITION", "DIFFERENT_COMMIT"}]

Init == /\ minute = 1 /\ runs = 0
        /\ mode \in {"OFFICIAL", "SHADOW"}
        /\ lastKey = Null
        /\ worker = Idle
        /\ journal = [k \in Keys |-> Null]
        /\ sealed = [t \in Instants |-> Null]
        /\ db = EmptyStore

-----------------------------------------------------------------------------
(* The clock completes another legal minute.                               *)
Tick ==
    /\ minute < MaxMinute
    /\ minute' = minute + 1
    /\ UNCHANGED <<runs, mode, lastKey, worker, journal, sealed, db>>

(* ContinuousProductionWorker.tick: one run per cycle key and process.     *)
WorkerTick ==
    /\ worker.pc = "idle"
    /\ lastKey # minute
    /\ runs < MaxRuns
    /\ runs' = runs + 1
    /\ lastKey' = minute
    /\ worker' = [Idle EXCEPT !.pc = "get", !.key = minute, !.at = runs + 1]
    /\ UNCHANGED <<minute, mode, journal, sealed, db>>

(* The process dies and comes back with the settings it then has: what was *)
(* not in the database is gone.                                            *)
Crash ==
    /\ mode' \in {"OFFICIAL", "SHADOW"}
    /\ lastKey' = Null
    /\ worker' = Idle
    /\ UNCHANGED <<minute, runs, journal, sealed, db>>

-----------------------------------------------------------------------------
Goto(step) == worker' = [worker EXCEPT !.pc = step]
Return == worker' = Idle   \* the result is reported and the run forgotten
Durable == <<minute, runs, mode, lastKey>>

(* journal.get: a cycle already COMMITTED is not run again.                *)
Get ==
    /\ worker.pc = "get"
    /\ IF journal[worker.key] # Null /\ journal[worker.key].status = "COMMITTED"
       THEN Return ELSE Goto("gates")
    /\ UNCHANGED <<Durable, journal, sealed, db>>

(* The readiness gates, from BOOT to THRESHOLD, pass or block the cycle    *)
(* before anything is written.  A gate that raises ends the run the same   *)
(* way: only the worker's tick handles the error.                          *)
Gates ==
    /\ worker.pc = "gates"
    /\ \/ Return
       \/ Goto(IF mode = "SHADOW" THEN "shadow" ELSE "begin")
    /\ UNCHANGED <<Durable, journal, sealed, db>>

Snapshot(disposition, e) ==
    [at |-> worker.at, subject |-> Subject, key |-> worker.key,
     disposition |-> disposition, evidence |-> e]

(* _run_shadow: seals a SHADOW snapshot and evaluates it, nothing else.    *)
RunShadow(e) ==
    /\ worker.pc = "shadow"
    /\ sealed' = [sealed EXCEPT ![worker.at] = Snapshot("SHADOW", e)]
    /\ Return
    /\ UNCHANGED <<Durable, journal, db>>

(* Faulty variant: a cycle taken up again forgets its sealed snapshot.     *)
BegunRowFresh(row) ==
    [phase |-> "SNAPSHOT", status |-> "RUNNING",
     attempt |-> IF row = Null THEN 1 ELSE row.attempt + 1, at |-> worker.at,
     snapshot |-> Null, commit |-> Null, error |-> FALSE]

(* journal.begin: inserts the row or takes it up again, in one transaction.*)
BegunRow(row) ==
    IF row = Null
    THEN [phase |-> "SNAPSHOT", status |-> "RUNNING", attempt |-> 1, at |-> worker.at,
          snapshot |-> Null, commit |-> Null, error |-> FALSE]
    ELSE [row EXCEPT !.at = worker.at, !.status = "RUNNING",
                     !.attempt = @ + 1, !.error = FALSE]

Begin ==
    /\ worker.pc = "begin"
    /\ LET row == journal[worker.key]
           begun == BegunRow(row)
       IN  IF row # Null /\ row.status = "COMMITTED"
           THEN Return /\ UNCHANGED journal
           ELSE /\ journal' = [journal EXCEPT ![worker.key] = begun]
                /\ worker' = [worker EXCEPT
                       !.pc = IF begun.snapshot = Null THEN "seal" ELSE "metrics",
                       !.checkpoint = begun, !.snapshot = begun.snapshot]
    /\ UNCHANGED <<Durable, sealed, db>>

(* pipeline.seal_snapshot.                                                 *)
SealSnapshot(e) ==
    /\ worker.pc = "seal"
    /\ sealed' = [sealed EXCEPT ![worker.at] = Snapshot("OFFICIAL", e)]
    /\ worker' = [worker EXCEPT !.pc = "save_metric", !.snapshot = worker.at]
    /\ UNCHANGED <<Durable, journal, db>>

(* _save: writes the whole row from the run's checkpoint.                  *)
Save(row, step) ==
    /\ journal' = [journal EXCEPT ![worker.key] = row]
    /\ worker' = [worker EXCEPT !.pc = step, !.checkpoint = row]
    /\ UNCHANGED <<Durable, sealed, db>>

(* Faulty variant: the sealed snapshot is not written to the journal.      *)
SaveMetricUnnamed ==
    /\ worker.pc = "save_metric"
    /\ Save([worker.checkpoint EXCEPT !.phase = "METRIC", !.error = FALSE], "metrics")

SaveMetric ==
    /\ worker.pc = "save_metric"
    /\ Save([worker.checkpoint EXCEPT !.phase = "METRIC", !.snapshot = worker.snapshot,
                                      !.error = FALSE], "metrics")

(* _lifecycle_for: the subject keeps the lifecycle it has.                 *)
LifecycleFor(p) == IF Previous(p) = Null THEN "OBSERVING" ELSE Previous(p)

(* run_metrics gives an AVAILABLE evaluation, or one that is unfit or not  *)
(* available: then the row is FAILED and the run BLOCKED.                  *)
RunMetrics ==
    /\ worker.pc = "metrics"
    /\ \/ /\ worker' = [worker EXCEPT !.pc = "save_commit",
                                      !.lifecycle = LifecycleFor(db.projection[Subject])]
          /\ UNCHANGED journal
       \/ /\ journal' = [journal EXCEPT ![worker.key] =
                 [worker.checkpoint EXCEPT !.phase = "FAILED", !.status = "FAILED",
                                           !.error = TRUE]]
          /\ Return
    /\ UNCHANGED <<Durable, sealed, db>>

SaveCommit ==
    /\ worker.pc = "save_commit"
    /\ Save([worker.checkpoint EXCEPT !.phase = "ANALYSIS_COMMIT", !.error = FALSE], "commit")

(* pipeline.commit: the version the projection has now is the one expected;*)
(* a snapshot that has a commit must have it for the same request.         *)
CommitRequest == [snapshot |-> worker.snapshot, availability |-> "AVAILABLE",
                  lifecycle |-> worker.lifecycle, expected |-> Version(db, Subject)]

CommitAnswer ==
    LET rows == Commits(db, worker.snapshot)
    IN  IF rows = {} THEN Refusal(db, sealed[worker.snapshot], CommitRequest)
        ELSE IF \E i \in rows : db.ledger[i].request = CommitRequest THEN Null
        ELSE "DIFFERENT_COMMIT"

Commit ==
    /\ worker.pc = "commit"
    /\ CommitAnswer = Null
    /\ db' = IF Commits(db, worker.snapshot) # {} THEN db
             ELSE Committed(db, sealed[worker.snapshot], CommitRequest)
    /\ Goto("save_outbox")
    /\ UNCHANGED <<Durable, journal, sealed>>

(* Faulty variant: the cycle is marked COMMITTED before it delivers.       *)
SaveOutboxCommitted ==
    /\ worker.pc = "save_outbox"
    /\ Save([worker.checkpoint EXCEPT !.phase = "COMPLETED", !.status = "COMMITTED",
                                      !.commit = worker.snapshot, !.error = FALSE], "deliver")

SaveOutbox ==
    /\ worker.pc = "save_outbox"
    /\ Save([worker.checkpoint EXCEPT !.phase = "EVENT_OUTBOX", !.commit = worker.snapshot,
                                      !.error = FALSE], "deliver")

(* pipeline.deliver is one run_once of a DeliveryWorker (module Delivery). *)
Deliver ==
    /\ worker.pc = "deliver"
    /\ Goto("complete")
    /\ UNCHANGED <<Durable, journal, sealed, db>>

Complete ==
    /\ worker.pc = "complete"
    /\ journal' = [journal EXCEPT ![worker.key] =
           [worker.checkpoint EXCEPT !.phase = "COMPLETED", !.status = "COMMITTED",
                                     !.error = FALSE]]
    /\ Return
    /\ UNCHANGED <<Durable, sealed, db>>

(* The exception handler of run(): the row becomes FAILED, unless that     *)
(* save raises too, and the error goes on to the worker.                   *)
Handle(refusal) ==
    /\ \/ journal' = [journal EXCEPT ![worker.key] =
              [worker.checkpoint EXCEPT !.phase = "FAILED", !.status = "FAILED",
                                        !.error = TRUE]]
       \/ UNCHANGED journal
    /\ worker' = [Idle EXCEPT !.refusal = refusal,
                             !.snapshot = IF refusal = Null THEN Null ELSE worker.snapshot]
    /\ UNCHANGED <<Durable, sealed, db>>

(* A step after begin raises for a reason outside the model (the provider, *)
(* the disk, the thresholds).                                              *)
Raise ==
    /\ worker.pc \in {"seal", "save_metric", "metrics", "save_commit", "commit",
                      "save_outbox", "deliver", "complete"}
    /\ Handle(Null)

(* The Analysis Commit refuses the request.                                *)
CommitRefused ==
    /\ worker.pc = "commit"
    /\ CommitAnswer # Null
    /\ Handle(CommitAnswer)

Next ==
    \/ Tick \/ WorkerTick \/ Crash
    \/ Get \/ Gates \/ Begin \/ SaveMetric \/ RunMetrics \/ SaveCommit
    \/ Commit \/ SaveOutbox \/ Deliver \/ Complete \/ Raise \/ CommitRefused
    \/ \E e \in Evidence : RunShadow(e) \/ SealSnapshot(e)

Spec == Init /\ [][Next]_vars

-----------------------------------------------------------------------------
CycleOf(i) == sealed[db.ledger[i].request.snapshot].key

(* Types of the worker, the journal and the snapshots.                     *)
TypeOK ==
    /\ minute \in Keys /\ runs \in 0..MaxRuns /\ lastKey \in Keys \cup {Null}
    /\ mode \in {"OFFICIAL", "SHADOW"}
    /\ worker \in WorkerRows
    /\ journal \in [Keys -> JournalRows \cup {Null}]
    /\ sealed \in [Instants -> SnapshotRows \cup {Null}]

(* Whatever died or raised in between, the journal agrees with the tables  *)
(* it describes: its snapshot is an OFFICIAL one of its own cycle, its     *)
(* commit exists and is that snapshot's, a COMMITTED row has one, and      *)
(* every commit ever made can be found from the row of its cycle.          *)
JournalTellsTruth ==
    /\ \A k \in Keys : LET row == journal[k] IN row # Null =>
           /\ row.snapshot # Null =>
                  /\ sealed[row.snapshot] # Null
                  /\ sealed[row.snapshot].key = k
                  /\ sealed[row.snapshot].disposition = "OFFICIAL"
           /\ row.commit # Null => row.commit = row.snapshot /\ Commits(db, row.commit) # {}
           /\ row.status = "COMMITTED" => row.phase = "COMPLETED" /\ row.commit # Null
    /\ \A i \in DOMAIN db.ledger : LET row == journal[CycleOf(i)] IN
           row # Null /\ row.snapshot = db.ledger[i].request.snapshot

(* A cycle is committed at most once, however often it is taken up again   *)
(* and however many snapshots were sealed for it (CR-003: a restart never  *)
(* creates duplicate events or notifications).                             *)
OneCommitPerCycle ==
    \A i, j \in DOMAIN db.ledger : CycleOf(i) = CycleOf(j) => i = j

(* The projections a restore would rebuild from the history at any moment  *)
(* are the live ones: rebuilding by as-of order reverses nothing that was  *)
(* committed, recurring events included.                                   *)
RebuildIsFaithful ==
    \A u \in Subjects :
        /\ RebuiltProjection(db, u) = db.projection[u]
        /\ \A k \in Kinds : RebuiltEvent(db, u, k) = db.current[u, k]

(* A cycle once COMMITTED stays so: no later run, failure or restart       *)
(* touches its row or commits for it again.                                *)
CompletedStays ==
    \A k \in Keys : journal[k] # Null /\ journal[k].status = "COMMITTED" =>
        /\ journal'[k] = journal[k]
        /\ Commits(db', journal[k].snapshot) = Commits(db, journal[k].snapshot)
CompletedIsFinal == [][CompletedStays]_vars

(* With one worker the Analysis Commit refuses a request only for lack of  *)
(* facts or because this cycle is committed already: the version read just *)
(* before never conflicts and the lifecycle asked for is always legal.     *)
RefusalsExplained ==
    \/ worker.refusal \in {Null, "NO_FACTS"}
    \/ worker.refusal = "DIFFERENT_COMMIT" /\ Commits(db, worker.snapshot) # {}

(* Whatever died or raised, the journal agrees with the tables, a cycle is *)
(* committed at most once and a commit is refused only for a known reason. *)
JournalSound == TypeOK /\ JournalTellsTruth /\ OneCommitPerCycle /\ RefusalsExplained

(* test_crash_after_commit_retries_without_duplicate_commit asserts that a *)
(* retry of a cycle whose commit was made ends COMMITTED: the commit is    *)
(* found again and not refused.                                            *)
RetryFindsItsCommit ==
    worker.refusal # Null => Commits(db, worker.snapshot) = {}
=============================================================================
