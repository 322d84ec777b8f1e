----------------------------- MODULE ApiWrites -----------------------------
(***************************************************************************)
(* Idempotent writes of the API (api/writes.py), the analysis query and    *)
(* online backup they carry (api/queries.py, the handlers in api/app.py):  *)
(* requests of one key overlap, are repeated by their client, and the      *)
(* process dies between any two steps.  A writer command is one step.      *)
(***************************************************************************)
EXTENDS Integers, FiniteSets

CONSTANTS Request,      \* calls in flight or to come
          QueryKey,     \* idempotency keys used for analysis queries
          BackupKey,    \* idempotency keys used for backups
          Body,         \* what a request asks for
          Stages,       \* commits of one evaluation: snapshot, facts, state, guardian, scout
          Limit,        \* max_queries_per_minute
          MaxSource,    \* bound on commits of the queried subject
          Realtime,     \* commits whose manifest has realtime quotes (schema 4 or 5)
          Unmeasured,   \* commits without complete CR-004 metrics or threshold lineage
          MaxCrashes,   \* bound on crashes
          MaxFailures   \* bound on failing evaluations and backups

Nobody == "nobody"
Key == QueryKey \cup BackupKey

\* A key is used for one operation; there is a source to query; nobody is no request, key or body.
WritesAssumption ==
  /\ QueryKey \cap BackupKey = {}
  /\ MaxSource \in Nat \ {0} /\ Stages \in Nat /\ Limit \in Nat
  /\ Realtime \cup Unmeasured \subseteq 1 .. MaxSource
  /\ MaxCrashes \in Nat /\ MaxFailures \in Nat
  /\ Nobody \notin Request \cup Key \cup Body

VARIABLES
  row,       \* api_idempotency: [state, body, lease, expired, response] of each key
  active,    \* WriteService._active_claims
  lock,      \* QueryService._lock
  record,    \* analysis_query_record: [status, body, source] of each query
  chain,     \* how much of the evaluation of each source snapshot is stored
  file,      \* the published backup of each key, 0 when there is none
  source,    \* version of the database: the newest commit of the subject
  recent,    \* analysis_query_record rows created in the last minute
  req,       \* what each request does: [pc, key, body, source, stage, answer]
  crashes, failures

vars == <<row, active, lock, record, chain, file, source, recent, req, crashes, failures>>

NoRow == [state |-> "none", body |-> Nobody, lease |-> Nobody, expired |-> FALSE, response |-> 0]
NoRecord == [status |-> "none", body |-> Nobody, source |-> 0]
NoRequest == [pc |-> "new", key |-> Nobody, body |-> Nobody, source |-> 0, stage |-> 0,
              answer |-> 0]

Init ==
  /\ row = [k \in Key |-> NoRow]
  /\ active = [k \in Key |-> Nobody] /\ lock = Nobody
  /\ record = [k \in QueryKey |-> NoRecord]
  /\ chain = [s \in 1 .. MaxSource |-> 0]
  /\ file = [k \in BackupKey |-> 0]
  /\ source = 1 /\ recent = 0
  /\ req = [r \in Request |-> NoRequest]
  /\ crashes = 0 /\ failures = 0

Bounds == <<crashes, failures>>
Stored == <<row, record, chain, file, source, recent>>

\* The request's row after it moves on.
Goto(r, pc) == [req EXCEPT ![r].pc = pc]
\* _release_active, of this lease only.
Released(r) == [active EXCEPT ![req[r].key] = IF @ = r THEN Nobody ELSE @]

(***************************************************************************)
(* WriteService.claim                                                      *)
(***************************************************************************)
\* The key is entered in _active_claims, or the request is refused.  A client may send a
\* request again once it was answered with an error.
Enter(r) ==
  /\ req[r].pc = "new"
  /\ \E k \in Key, body \in Body :
       /\ req[r].key \in {Nobody, k} /\ req[r].body \in {Nobody, body}
       /\ active[k] = Nobody
       /\ active' = [active EXCEPT ![k] = r]
       /\ req' = [req EXCEPT ![r] = [NoRequest EXCEPT !.pc = "claim", !.key = k, !.body = body]]
  /\ UNCHANGED <<Stored, lock, Bounds>>

\* FAULT: a completed backup whose lease ran out is claimed again.
ClaimAgain(r) ==
  LET k == req[r].key
      same == row[k].body = req[r].body
  IN /\ req[r].pc = "claim"
     /\ IF row[k].state = "none" \/ (same /\ row[k].expired)
        THEN /\ row' = [row EXCEPT ![k] = [state |-> "IN_PROGRESS", body |-> req[r].body,
                                           lease |-> r, expired |-> FALSE, response |-> 0]]
             /\ req' = Goto(r, "run") /\ active' = active
             /\ file' = IF k \in BackupKey THEN [file EXCEPT ![k] = 0] ELSE file
        ELSE /\ req' = IF same /\ row[k].state = "COMPLETED"
                       THEN [Goto(r, "done") EXCEPT ![r].answer = row[k].response]
                       ELSE Goto(r, "new")
             /\ active' = Released(r) /\ row' = row /\ file' = file
     /\ UNCHANGED <<record, chain, source, recent, lock, Bounds>>

\* FAULT: a claim in progress is never taken over.
ClaimNoTakeover(r) ==
  LET k == req[r].key
  IN /\ req[r].pc = "claim"
     /\ IF row[k].state = "none"
        THEN /\ row' = [row EXCEPT ![k] = [state |-> "IN_PROGRESS", body |-> req[r].body,
                                           lease |-> r, expired |-> FALSE, response |-> 0]]
             /\ req' = Goto(r, "run") /\ active' = active
        ELSE /\ req' = IF row[k].state = "COMPLETED" /\ row[k].body = req[r].body
                       THEN [Goto(r, "done") EXCEPT ![r].answer = row[k].response]
                       ELSE Goto(r, "new")
             /\ active' = Released(r) /\ row' = row
     /\ UNCHANGED <<record, chain, file, source, recent, lock, Bounds>>

\* The command: a new row, a replay, a takeover of an expired lease, or a conflict.
Claim(r) ==
  LET k == req[r].key
      fresh == row[k].state = "none"
      same == row[k].body = req[r].body
  IN /\ req[r].pc = "claim"
     /\ IF fresh \/ (same /\ row[k].state = "IN_PROGRESS" /\ row[k].expired)
        THEN /\ row' = [row EXCEPT ![k] = [state |-> "IN_PROGRESS", body |-> req[r].body,
                                           lease |-> r, expired |-> FALSE, response |-> 0]]
             /\ req' = Goto(r, "run") /\ active' = active
        ELSE /\ req' = IF same /\ row[k].state = "COMPLETED"
                       THEN [Goto(r, "done") EXCEPT ![r].answer = row[k].response]
                       ELSE Goto(r, "new")
             /\ active' = Released(r) /\ row' = row
     /\ UNCHANGED <<record, chain, file, source, recent, lock, Bounds>>

(***************************************************************************)
(* QueryService.analyze                                                    *)
(***************************************************************************)
\* An error leaves the claim in progress until its lease expires.
Refuse(r) == req' = Goto(r, "new") /\ active' = Released(r)

\* One query at a time; the second one raises.
Analyze(r) ==
  /\ req[r].pc = "run" /\ req[r].key \in QueryKey
  /\ IF lock = Nobody THEN lock' = r /\ req' = Goto(r, "prepare") /\ active' = active
                      ELSE Refuse(r) /\ lock' = lock
  /\ UNCHANGED <<Stored, Bounds>>

\* FAULT: the rate is checked after the insert.
PrepareUnlimited(r) ==
  LET k == req[r].key
  IN /\ req[r].pc = "prepare"
     /\ record[k].status = "none" /\ recent <= Limit
     /\ req' = [Goto(r, "insert") EXCEPT ![r].source = source]
     /\ UNCHANGED <<Stored, lock, active, Bounds>>

\* FAULT: a query that is taken up again looks for a source anew.
PrepareAgain(r) ==
  LET k == req[r].key
      status == record[k].status
  IN /\ req[r].pc = "prepare"
     /\ record' = IF status = "FAILED" THEN [record EXCEPT ![k].status = "IN_PROGRESS"] ELSE record
     /\ CASE status = "COMPLETED" ->
               /\ req' = [Goto(r, "complete") EXCEPT ![r].source = record[k].source]
               /\ lock' = Nobody /\ active' = active
          [] status # "COMPLETED" /\ (recent < Limit \/ status # "none") ->
               /\ req' = [Goto(r, IF status = "none" THEN "insert" ELSE "evaluate")
                           EXCEPT ![r].source = source]
               /\ UNCHANGED <<lock, active>>
          [] OTHER -> Refuse(r) /\ lock' = Nobody
     /\ UNCHANGED <<row, chain, file, source, recent, Bounds>>

\* _prepare up to its insert: the stored answer, the stored source, or the rate limit and
\* the newest commit.  restart is one more command when the record is FAILED.
Prepare(r) ==
  LET k == req[r].key
      status == record[k].status
  IN /\ req[r].pc = "prepare"
     /\ record' = IF status = "FAILED" THEN [record EXCEPT ![k].status = "IN_PROGRESS"] ELSE record
     /\ CASE status = "COMPLETED" ->
               /\ req' = [Goto(r, "complete") EXCEPT ![r].source = record[k].source]
               /\ lock' = Nobody /\ active' = active
          [] status \in {"IN_PROGRESS", "FAILED"} ->
               /\ req' = [Goto(r, "evaluate") EXCEPT ![r].source = record[k].source]
               /\ UNCHANGED <<lock, active>>
          [] status = "none" /\ recent < Limit ->
               /\ req' = [Goto(r, "insert") EXCEPT ![r].source = source]
               /\ UNCHANGED <<lock, active>>
          [] OTHER -> Refuse(r) /\ lock' = Nobody
     /\ UNCHANGED <<row, chain, file, source, recent, Bounds>>

InsertRecord(r) ==
  /\ req[r].pc = "insert"
  /\ record' = [record EXCEPT ![req[r].key] = [status |-> "IN_PROGRESS", body |-> req[r].body,
                                               source |-> req[r].source]]
  /\ recent' = recent + 1
  /\ req' = Goto(r, "evaluate")
  /\ UNCHANGED <<row, chain, file, source, active, lock, Bounds>>

\* What no attempt can evaluate, and the commit at which it raises: create_snapshot is called
\* without the max_age_ms that a realtime manifest demands, and _metrics, after the query's
\* snapshot is sealed, finds no complete metrics of one lineage.
Raises(s, stage) == (s \in Realtime /\ stage = 1) \/ (s \in Unmeasured /\ stage = 2)

\* create_snapshot, record_metrics, StateService, GuardianService and ScoutService evaluate:
\* each finds what an earlier attempt stored, or stores it.
Evaluate(r) ==
  LET s == req[r].source
      next == req[r].stage + 1
  IN /\ req[r].pc = "evaluate" /\ next <= Stages /\ ~Raises(s, next)
     /\ chain' = IF chain[s] < next THEN [chain EXCEPT ![s] = next] ELSE chain
     /\ req' = [req EXCEPT ![r].stage = next]
     /\ UNCHANGED <<row, record, file, source, recent, active, lock, Bounds>>

\* _fail marks the record, and analyze raises.
Failed(r) ==
  /\ record' = [record EXCEPT ![req[r].key].status = "FAILED"]
  /\ lock' = Nobody
  /\ Refuse(r)
  /\ UNCHANGED <<row, chain, file, source, recent, crashes>>

\* The recorded source is one that cannot be evaluated.
EvaluationRefused(r) ==
  /\ req[r].pc = "evaluate" /\ Raises(req[r].source, req[r].stage + 1)
  /\ Failed(r)
  /\ failures' = failures

\* A passing failure: the database is busy, a file cannot be read or written.
EvaluationFails(r) ==
  /\ req[r].pc = "evaluate"
  /\ failures < MaxFailures
  /\ Failed(r)
  /\ failures' = failures + 1

\* _complete stores the answer with the record.
CompleteQuery(r) ==
  /\ req[r].pc = "evaluate" /\ req[r].stage = Stages
  /\ record' = [record EXCEPT ![req[r].key].status = "COMPLETED"]
  /\ lock' = Nobody
  /\ req' = Goto(r, "complete")
  /\ UNCHANGED <<row, chain, file, source, recent, active, Bounds>>

(***************************************************************************)
(* The backup handler                                                      *)
(***************************************************************************)
\* A published file that verifies is used; otherwise a new one is staged.
StageBackup(r) ==
  LET k == req[r].key
  IN /\ req[r].pc = "run" /\ k \in BackupKey
     /\ req' = [Goto(r, "complete") EXCEPT ![r].source = IF file[k] # 0 THEN file[k] ELSE source]
     /\ UNCHANGED <<Stored, active, lock, Bounds>>

\* create_online_backup raises: WriteService.fail audits the attempt.
BackupFails(r) ==
  /\ req[r].pc = "run" /\ req[r].key \in BackupKey
  /\ failures < MaxFailures
  /\ failures' = failures + 1
  /\ Refuse(r)
  /\ UNCHANGED <<Stored, lock, crashes>>

(***************************************************************************)
(* WriteService.complete                                                   *)
(***************************************************************************)
Published(r) == IF req[r].key \in BackupKey THEN [file EXCEPT ![req[r].key] = req[r].source] ELSE file

CompletedRow(r) ==
  [row EXCEPT ![req[r].key].state = "COMPLETED", ![req[r].key].response = req[r].source]

\* The process dies: memory is lost, and clients get an error.
Dead == /\ active' = [k \in Key |-> Nobody] /\ lock' = Nobody
        /\ req' = [r \in Request |-> IF req[r].pc = "done" THEN req[r]
                                     ELSE [req[r] EXCEPT !.pc = "new"]]
        /\ crashes' = crashes + 1 /\ failures' = failures

\* FAULT: the file is published once the row is committed.
CompleteThenPublish(r) ==
  /\ req[r].pc = "complete"
  /\ row' = CompletedRow(r)
  /\ UNCHANGED <<record, chain, source, recent>>
  /\ \/ /\ req' = [Goto(r, "done") EXCEPT ![r].answer = req[r].source]
        /\ active' = Released(r) /\ file' = Published(r)
        /\ UNCHANGED <<lock, Bounds>>
     \/ crashes < MaxCrashes /\ Dead /\ file' = file

\* One command: a stored answer is returned, a lost lease raises, the file is published and
\* the row completed.
Complete(r) ==
  LET k == req[r].key
      mine == row[k].state = "IN_PROGRESS" /\ row[k].lease = r
  IN /\ req[r].pc = "complete"
     /\ active' = Released(r)
     /\ IF row[k].state = "COMPLETED" \/ mine
        THEN /\ row' = IF mine THEN CompletedRow(r) ELSE row
             /\ file' = IF mine THEN Published(r) ELSE file
             /\ req' = [Goto(r, "done") EXCEPT ![r].answer = row'[k].response]
        ELSE req' = Goto(r, "new") /\ UNCHANGED <<row, file>>
     /\ UNCHANGED <<record, chain, source, recent, lock, Bounds>>

\* The process dies after the rename, before the commit.
CrashInComplete(r) ==
  /\ req[r].pc = "complete" /\ req[r].key \in BackupKey
  /\ row[req[r].key].state = "IN_PROGRESS" /\ row[req[r].key].lease = r
  /\ crashes < MaxCrashes
  /\ file' = Published(r)
  /\ Dead
  /\ UNCHANGED <<row, record, chain, source, recent>>

Crash == crashes < MaxCrashes /\ Dead /\ UNCHANGED Stored

(***************************************************************************)
(* The world around                                                        *)
(***************************************************************************)
\* Five minutes pass.
Expire(k) ==
  /\ row[k].state # "none" /\ ~row[k].expired
  /\ row' = [row EXCEPT ![k].expired = TRUE]
  /\ UNCHANGED <<record, chain, file, source, recent, active, lock, req, Bounds>>

\* A minute passes.
Minute ==
  /\ recent > 0 /\ recent' = 0
  /\ UNCHANGED <<row, record, chain, file, source, active, lock, req, Bounds>>

\* A new OFFICIAL commit of the subject.
Advance ==
  /\ source < MaxSource /\ source' = source + 1
  /\ UNCHANGED <<row, record, chain, file, recent, active, lock, req, Bounds>>

\* What the process does with a request, once it is there.
Step(r) ==
  \/ Enter(r) \/ Claim(r) \/ Analyze(r) \/ Prepare(r) \/ InsertRecord(r) \/ Evaluate(r)
  \/ EvaluationRefused(r) \/ CompleteQuery(r) \/ StageBackup(r) \/ Complete(r)

Next ==
  \/ \E r \in Request : Step(r) \/ EvaluationFails(r) \/ BackupFails(r) \/ CrashInComplete(r)
  \/ \E k \in Key : Expire(k)
  \/ Crash \/ Minute \/ Advance

Spec == Init /\ [][Next]_vars

\* Every step of a request is taken, clients repeat what was not answered, and time passes.
Fairness == /\ \A r \in Request : WF_vars(Step(r))
            /\ \A k \in Key : WF_vars(Expire(k))
            /\ WF_vars(Minute)

FairSpec == Spec /\ Fairness

(***************************************************************************)
(* Properties                                                              *)
(***************************************************************************)
Done(r) == req[r].pc = "done"

\* Rows have their shape, and at most one request runs a query.
TypeOK ==
  /\ \A k \in Key : /\ row[k].state \in {"none", "IN_PROGRESS", "COMPLETED"}
                    /\ row[k].response # 0 <=> row[k].state = "COMPLETED"
                    /\ active[k] \in Request \cup {Nobody}
  /\ \A k \in QueryKey : record[k].status \in {"none", "IN_PROGRESS", "FAILED", "COMPLETED"}
  /\ Cardinality({r \in Request : req[r].pc \in {"prepare", "insert", "evaluate"}}) <= 1
  /\ chain \in [1 .. MaxSource -> 0 .. Stages]
  /\ \A r \in Request : Done(r) => req[r].answer # 0

\* writes.py claim and complete: requests of one key that are answered get one answer,
\* whatever was retried, taken over or lost, and it never changes afterwards.
SameAnswer ==
  \A r, s \in Request : Done(r) /\ Done(s) /\ req[r].key = req[s].key => req[r].answer = req[s].answer

\* A key is never answered for another request body.
AnsweredForItsBody == \A r \in Request : Done(r) => row[req[r].key].body = req[r].body

\* Requests of one key get one answer, and only for the body the key was claimed with.
AnswersAgree == TypeOK /\ SameAnswer /\ AnsweredForItsBody

\* The backup a completed operation tells of is the one on disk.
BackupOnDisk == \A k \in BackupKey : row[k].state = "COMPLETED" => file[k] = row[k].response

\* A query is answered from the source it was recorded with, and with its whole evaluation
\* stored, however many attempts it took.
QueryAnswersItsSource ==
  \A k \in QueryKey : row[k].state = "COMPLETED" =>
    /\ record[k].status = "COMPLETED" /\ record[k].source = row[k].response
    /\ record[k].body = row[k].body
    /\ chain[record[k].source] = Stages

\* Both: what the caller of a completed operation was told is what the tables hold.
AnswersTellTruth == BackupOnDisk /\ QueryAnswersItsSource

\* _check_rate reads before the record is inserted: the limit holds all the same.
RateLimit == recent <= Limit

\* queries.py:60: the source of a query is fixed with its record; whether it can be evaluated
\* is decided by the commit it names, the same at every attempt.
Unanswerable(k) == k \in QueryKey /\ record[k].source \in Realtime \cup Unmeasured

\* writes.py:199: an operation that was claimed is completed: no crash, passing failure or lost
\* answer leaves its key in progress for ever, as long as a client repeats the request; the only
\* other end is a query whose recorded source no attempt can evaluate.
ClaimsComplete ==
  \A k \in Key : row[k].state = "IN_PROGRESS" ~> row[k].state = "COMPLETED" \/ Unanswerable(k)

\* docs/architecture/API_CONTRACT_V1.3.md:167: an active analysis of a committed subject returns.
QueriesAnswered ==
  \A k \in QueryKey : row[k].state = "IN_PROGRESS" ~> row[k].state = "COMPLETED"
=============================================================================
