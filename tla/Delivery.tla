------------------------------ MODULE Delivery ------------------------------
(***************************************************************************)
(* The notification outbox and the delivery workers that drain it           *)
(* (market_monitor_notifications), over one SQLite database.                *)
(*                                                                         *)
(* An analysis commit inserts a notification intent with its delivery row. *)
(* Each delivery worker repeats run_once: read the clock, claim the oldest  *)
(* due row in a writer transaction, re-check the claim on a read           *)
(* connection, call the channel adapter outside any transaction, and       *)
(* record the outcome in a second transaction.  A worker can die at every   *)
(* one of these points; a later process drains with fresh worker ids.      *)
(*                                                                         *)
(* A writer transaction is one step: WriterQueue runs commands one at a     *)
(* time, each in its own transaction.  The row's version column is left    *)
(* out: it is read and compared within the same transaction, so the        *)
(* comparison cannot fail.                                                 *)
(***************************************************************************)
EXTENDS Naturals, FiniteSets

CONSTANTS
    Intents,          \* intent uids; their order is the order of the uids
    WebhookIntents,   \* the intents on the WEBHOOK channel, the others are IN_APP
    Workers,          \* worker ids, each used by one process lifetime only
    LeaseSeconds,
    RetrySeconds,
    MaxAttempts,
    Lifetime,         \* expires_at - as_of_time of an intent
    MaxLag,           \* bound: how far behind the clock a commit's as_of_time is
    MaxTime,          \* bound on the clock
    MaxGeneration,    \* bound on restore_generation
    MaxRestores,      \* bound on the number of restores
    Null

ASSUME IntentAssumption == Intents \subseteq Nat /\ WebhookIntents \subseteq Intents

ASSUME TimingAssumption ==
    /\ LeaseSeconds \in Nat \ {0}
    /\ RetrySeconds \in Nat \ {0}
    /\ MaxAttempts \in Nat \ {0}
    /\ Lifetime \in Nat \ {0}
    /\ MaxLag \in Nat
    /\ MaxTime \in Nat
    /\ MaxGeneration \in Nat
    /\ MaxRestores \in Nat

ASSUME NullAssumption == Null \notin Nat /\ Null \notin Workers

VARIABLES
    now,      \* the clock every worker and commit reads
    db,       \* the database: system_metadata, notification_setting, the outbox tables
    backup,   \* a backup set: a copy of the database, or Null
    worker,   \* where each worker is in run_once, and its local variables
    sent,     \* history: every adapter.send call that was made
    epoch,    \* history: number of restores so far
    born      \* history: epoch in which each intent uid was inserted, or Null

vars == <<now, db, backup, worker, sent, epoch, born>>

-----------------------------------------------------------------------------
Active   == {"PENDING", "PROCESSING", "RETRY_WAIT"}
Terminal == {"DELIVERED", "FAILED", "EXPIRED", "CANCELLED"}
Outcomes == {"DELIVERED", "RETRYABLE_FAILURE", "PERMANENT_FAILURE"}

DeliveryState == [status : {"ABSENT"} \cup Active \cup Terminal,
                  attempt_count : Nat,
                  next_attempt_at : Nat \cup {Null},
                  lease_owner : Workers \cup {Null},
                  lease_until : Nat \cup {Null}]

Intent == [created_at : Nat, expires_at : Nat, restore_generation : Nat]

DeliveryAttempt == [intent : Intents, number : Nat, outcome : Outcomes]

Database == [generation : Nat,
             recovery : {"NONE", "NORMAL", "RECOVERING"},
             webhook : BOOLEAN,
             intent : [Intents -> Intent],
             row : [Intents -> DeliveryState],
             attempts : SUBSET DeliveryAttempt]

Worker == [pc : {"new", "idle", "claiming", "checking", "sending", "finishing", "dead"},
           started : Nat,
           intent : Intents \cup {Null},
           generation : Nat,
           outcome : Outcomes \cup {Null},
           completed : Nat]

Send == [intent : Intents, worker : Workers, started : Nat, epoch : Nat]

\* The recovery state a reader derives: a database that was never restored has no
\* recovery_state entry and is NORMAL, one whose generation moved is RECOVERING.
RecoveryState(d) ==
    IF d.recovery # "NONE" THEN d.recovery
    ELSE IF d.generation = 0 THEN "NORMAL" ELSE "RECOVERING"

Normal(d) == RecoveryState(d) = "NORMAL"

\* A delivery row that leaves the active set: lease and next attempt are cleared.
Settle(r, status) ==
    [r EXCEPT !.status = status, !.next_attempt_at = Null,
              !.lease_owner = Null, !.lease_until = Null]

\* Faulty variant: the expiry update forgets rows that are being processed.
ExpireRowsUnleased(d, at) ==
    [i \in Intents |->
        IF d.row[i].status \in {"PENDING", "RETRY_WAIT"} /\ d.intent[i].expires_at <= at
        THEN Settle(d.row[i], "EXPIRED")
        ELSE d.row[i]]

\* The first UPDATE of the claim: every active row past its intent's expiry.
ExpireRows(d, at) ==
    [i \in Intents |->
        IF d.row[i].status \in Active /\ d.intent[i].expires_at <= at
        THEN Settle(d.row[i], "EXPIRED")
        ELSE d.row[i]]

\* Faulty variant: a row in PROCESSING is taken over before its lease runs out.
DueIgnoringLease(d, at) ==
    {i \in Intents :
        LET r == ExpireRows(d, at)[i] IN
        /\ d.intent[i].restore_generation = d.generation
        /\ d.intent[i].expires_at > at
        /\ i \in WebhookIntents => d.webhook
        /\ \/ /\ r.status \in {"PENDING", "RETRY_WAIT"}
              /\ r.next_attempt_at = Null \/ r.next_attempt_at <= at
           \/ r.status = "PROCESSING"}

\* Faulty variant: next_attempt_at is not compared.
DueIgnoringNextAttempt(d, at) ==
    {i \in Intents :
        LET r == ExpireRows(d, at)[i] IN
        /\ d.intent[i].restore_generation = d.generation
        /\ d.intent[i].expires_at > at
        /\ i \in WebhookIntents => d.webhook
        /\ \/ r.status \in {"PENDING", "RETRY_WAIT"}
           \/ r.status = "PROCESSING" /\ r.lease_until <= at}

\* The rows the claim's SELECT matches, after the expiry update.
Due(d, at) ==
    {i \in Intents :
        LET r == ExpireRows(d, at)[i] IN
        /\ d.intent[i].restore_generation = d.generation
        /\ d.intent[i].expires_at > at
        /\ i \in WebhookIntents => d.webhook
        /\ \/ /\ r.status \in {"PENDING", "RETRY_WAIT"}
              /\ r.next_attempt_at = Null \/ r.next_attempt_at <= at
           \/ /\ r.status = "PROCESSING"
              /\ r.lease_until <= at}

\* ORDER BY created_at, intent_uid
Before(d, i, j) ==
    \/ d.intent[i].created_at < d.intent[j].created_at
    \/ d.intent[i].created_at = d.intent[j].created_at /\ i <= j

\* The claim's second UPDATE.
Leased(r, w, at) ==
    [r EXCEPT !.status = "PROCESSING", !.lease_owner = w,
              !.lease_until = at + LeaseSeconds]

\* Faulty variant: only the generation of the claim is compared.
ClaimGenerationIsCurrent(w) ==
    Normal(db) /\ db.generation = worker[w].generation

\* _claim_is_current, and the conditions of finish, which are the same.
ClaimIsCurrent(w) ==
    LET c == worker[w] IN
    /\ Normal(db)
    /\ db.generation = c.generation
    /\ db.intent[c.intent].restore_generation = c.generation
    /\ db.row[c.intent].status = "PROCESSING"
    /\ db.row[c.intent].lease_owner = w

\* What the channel adapter can answer.  The in-app adapter always delivers; the
\* webhook may answer, refuse, or fail so that the caller cannot tell.
AdapterOutcomes(i) ==
    IF i \in WebhookIntents THEN Outcomes ELSE {"DELIVERED"}

\* Faulty variant: the delay is subtracted.
RecordedRowInPast(r, outcome, completed) ==
    LET n == r.attempt_count + 1 IN
    CASE outcome = "DELIVERED" -> [Settle(r, "DELIVERED") EXCEPT !.attempt_count = n]
      [] outcome = "RETRYABLE_FAILURE" /\ n < MaxAttempts ->
            [Settle(r, "RETRY_WAIT") EXCEPT !.attempt_count = n,
                                            !.next_attempt_at = completed - RetrySeconds]
      [] OTHER -> [Settle(r, "FAILED") EXCEPT !.attempt_count = n]

\* Faulty variant: one attempt too many.
RecordedRowOffByOne(r, outcome, completed) ==
    LET n == r.attempt_count + 1 IN
    CASE outcome = "DELIVERED" -> [Settle(r, "DELIVERED") EXCEPT !.attempt_count = n]
      [] outcome = "RETRYABLE_FAILURE" /\ n <= MaxAttempts ->
            [Settle(r, "RETRY_WAIT") EXCEPT !.attempt_count = n,
                                            !.next_attempt_at = completed + RetrySeconds]
      [] OTHER -> [Settle(r, "FAILED") EXCEPT !.attempt_count = n]

\* The delivery row after an attempt that ended with the given outcome.
RecordedRow(r, outcome, completed) ==
    LET n == r.attempt_count + 1 IN
    CASE outcome = "DELIVERED" -> [Settle(r, "DELIVERED") EXCEPT !.attempt_count = n]
      [] outcome = "RETRYABLE_FAILURE" /\ n < MaxAttempts ->
            [Settle(r, "RETRY_WAIT") EXCEPT !.attempt_count = n,
                                            !.next_attempt_at = completed + RetrySeconds]
      [] OTHER -> [Settle(r, "FAILED") EXCEPT !.attempt_count = n]

\* The outcome written to delivery_attempt: a retryable failure with no attempt left
\* is recorded as permanent.
RecordedOutcome(r, outcome) ==
    IF outcome = "RETRYABLE_FAILURE" /\ ~(r.attempt_count + 1 < MaxAttempts)
    THEN "PERMANENT_FAILURE" ELSE outcome

\* Every outstanding delivery is cancelled when the restore generation moves.
Suppress(d) ==
    [d EXCEPT !.generation = @ + 1,
              !.row = [i \in Intents |->
                          IF d.row[i].status \in Active
                          THEN Settle(d.row[i], "CANCELLED") ELSE d.row[i]]]

-----------------------------------------------------------------------------
NewDatabase ==
    [generation |-> 0, recovery |-> "NONE", webhook |-> FALSE,
     intent |-> [i \in Intents |->
                    [created_at |-> 0, expires_at |-> 0, restore_generation |-> 0]],
     row |-> [i \in Intents |->
                 [status |-> "ABSENT", attempt_count |-> 0, next_attempt_at |-> Null,
                  lease_owner |-> Null, lease_until |-> Null]],
     attempts |-> {}]

\* A worker outside run_once, whose locals hold nothing.
Resting(pc) == [pc |-> pc, started |-> 0, intent |-> Null, generation |-> 0,
                outcome |-> Null, completed |-> 0]

Init ==
    /\ now = 0
    /\ db = NewDatabase
    /\ backup = Null
    /\ worker = [w \in Workers |-> Resting("new")]
    /\ sent = {}
    /\ epoch = 0
    /\ born = [i \in Intents |-> Null]

\* Time passes.
Tick ==
    /\ now < MaxTime
    /\ now' = now + 1
    /\ UNCHANGED <<db, backup, worker, sent, epoch, born>>

\* An analysis commit inserts an intent and its PENDING row; times are the snapshot's.
Enqueue(i, lag) ==
    /\ born[i] = Null
    /\ lag <= now
    /\ LET asOf == now - lag IN
       db' = [db EXCEPT
                !.intent[i] = [created_at |-> asOf, expires_at |-> asOf + Lifetime,
                               restore_generation |-> db.generation],
                !.row[i] = [status |-> "PENDING", attempt_count |-> 0,
                            next_attempt_at |-> asOf, lease_owner |-> Null,
                            lease_until |-> Null]]
    /\ born' = [born EXCEPT ![i] = epoch]
    /\ UNCHANGED <<now, backup, worker, sent, epoch>>

\* The owner switches the webhook channel on or off through the API.
SetWebhook ==
    /\ db' = [db EXCEPT !.webhook = ~@]
    /\ UNCHANGED <<now, backup, worker, sent, epoch, born>>

\* A process creates a worker with a fresh id.
Start(w) ==
    /\ worker[w].pc = "new"
    /\ worker' = [worker EXCEPT ![w] = Resting("idle")]
    /\ UNCHANGED <<now, db, backup, sent, epoch, born>>

\* run_once reads the clock, then waits for its claim to reach the writer thread.
ReadClock(w) ==
    /\ worker[w].pc = "idle"
    /\ worker' = [worker EXCEPT ![w] = [@ EXCEPT !.pc = "claiming", !.started = now]]
    /\ UNCHANGED <<now, db, backup, sent, epoch, born>>

\* The claim transaction finds the database recovering.
ClaimRefused(w) ==
    /\ worker[w].pc = "claiming"
    /\ ~Normal(db)
    /\ worker' = [worker EXCEPT ![w] = Resting("idle")]
    /\ UNCHANGED <<now, db, backup, sent, epoch, born>>

\* The claim transaction expires rows and finds nothing due.
ClaimNothing(w) ==
    /\ worker[w].pc = "claiming"
    /\ Normal(db)
    /\ Due(db, worker[w].started) = {}
    /\ db' = [db EXCEPT !.row = ExpireRows(db, worker[w].started)]
    /\ worker' = [worker EXCEPT ![w] = Resting("idle")]
    /\ UNCHANGED <<now, backup, sent, epoch, born>>

\* The claim transaction expires rows and leases the first due row.
ClaimOne(w) ==
    /\ worker[w].pc = "claiming"
    /\ Normal(db)
    /\ \E i \in Due(db, worker[w].started) :
        /\ \A j \in Due(db, worker[w].started) : Before(db, i, j)
        /\ db' = [db EXCEPT !.row =
                     [ExpireRows(db, worker[w].started) EXCEPT
                         ![i] = Leased(@, w, worker[w].started)]]
        /\ worker' = [worker EXCEPT ![w] = [@ EXCEPT !.pc = "checking", !.intent = i,
                                                     !.generation = db.generation]]
    /\ UNCHANGED <<now, backup, sent, epoch, born>>

\* The claim is read again before the adapter is called.
CheckClaim(w) ==
    /\ worker[w].pc = "checking"
    /\ worker' = IF ClaimIsCurrent(w)
                 THEN [worker EXCEPT ![w].pc = "sending"]
                 ELSE [worker EXCEPT ![w] = Resting("idle")]
    /\ UNCHANGED <<now, db, backup, sent, epoch, born>>

\* The adapter is called; its answer and the clock are read.
SendMessage(w) ==
    /\ worker[w].pc = "sending"
    /\ \E outcome \in AdapterOutcomes(worker[w].intent) :
        worker' = [worker EXCEPT ![w] = [@ EXCEPT !.pc = "finishing",
                                                  !.outcome = outcome, !.completed = now]]
    /\ sent' = sent \cup {[intent |-> worker[w].intent, worker |-> w,
                           started |-> worker[w].started, epoch |-> epoch]}
    /\ UNCHANGED <<now, db, backup, epoch, born>>

\* The finish transaction records the attempt, unless the claim was lost.
Finish(w) ==
    /\ worker[w].pc = "finishing"
    /\ LET c == worker[w]
           r == db.row[c.intent] IN
       db' = IF ClaimIsCurrent(w)
             THEN [db EXCEPT
                     !.row[c.intent] = RecordedRow(r, c.outcome, c.completed),
                     !.attempts = @ \cup {[intent |-> c.intent,
                                           number |-> r.attempt_count + 1,
                                           outcome |-> RecordedOutcome(r, c.outcome)]}]
             ELSE db
    /\ worker' = [worker EXCEPT ![w] = Resting("idle")]
    /\ UNCHANGED <<now, backup, sent, epoch, born>>

\* The worker stops for good: its loop was closed, a transaction or the queue raised
\* out of run_once, or the process was killed.
Die(w) ==
    /\ worker[w].pc \notin {"new", "dead"}
    /\ worker' = [worker EXCEPT ![w] = Resting("dead")]
    /\ UNCHANGED <<now, db, backup, sent, epoch, born>>

\* The restore generation is advanced on a live database.
AdvanceGeneration ==
    /\ db.generation < MaxGeneration
    /\ db' = Suppress(db)
    /\ UNCHANGED <<now, backup, worker, sent, epoch, born>>

\* A backup set is created from the live database.
CreateBackup ==
    /\ epoch < MaxRestores
    /\ backup' = db
    /\ UNCHANGED <<now, db, worker, sent, epoch, born>>

\* Faulty variant: the restored database keeps its outstanding deliveries.
RestoreUnsuppressed ==
    /\ backup # Null
    /\ epoch < MaxRestores
    /\ \A w \in Workers : worker[w].pc \in {"new", "dead"}
    /\ db' = [backup EXCEPT !.recovery = "RECOVERING"]
    /\ epoch' = epoch + 1
    /\ UNCHANGED <<now, backup, worker, sent, born>>

\* A backup set is restored, with the API and delivery stopped; the database comes up
\* RECOVERING in a new generation with nothing outstanding.
Restore ==
    /\ backup # Null
    /\ epoch < MaxRestores
    /\ backup.generation < MaxGeneration
    /\ \A w \in Workers : worker[w].pc \in {"new", "dead"}
    /\ db' = [Suppress(backup) EXCEPT !.recovery = "RECOVERING"]
    /\ epoch' = epoch + 1
    /\ UNCHANGED <<now, backup, worker, sent, born>>

\* Recovery completes once nothing of another generation is outstanding.
CompleteRecovery ==
    /\ db.recovery = "RECOVERING"
    /\ \A i \in Intents : db.row[i].status \in Active =>
                              db.intent[i].restore_generation = db.generation
    /\ db' = [db EXCEPT !.recovery = "NORMAL"]
    /\ UNCHANGED <<now, backup, worker, sent, epoch, born>>

RunOnce(w) ==
    \/ ReadClock(w) \/ ClaimRefused(w) \/ ClaimNothing(w) \/ ClaimOne(w)
    \/ CheckClaim(w) \/ SendMessage(w) \/ Finish(w)

Next ==
    \/ Tick
    \/ \E i \in Intents, lag \in 0..MaxLag : Enqueue(i, lag)
    \/ SetWebhook
    \/ \E w \in Workers : Start(w) \/ RunOnce(w) \/ Die(w)
    \/ AdvanceGeneration
    \/ CreateBackup
    \/ Restore
    \/ CompleteRecovery

Spec == Init /\ [][Next]_vars

\* Time passes, and a loop that runs keeps polling.
FairSpec ==
    /\ Spec
    /\ WF_vars(Tick)
    /\ \A w \in Workers : WF_vars(RunOnce(w))

-----------------------------------------------------------------------------
InFlight(w) == worker[w].pc \in {"checking", "sending", "finishing"}

Lapsed(w) == now >= worker[w].started + LeaseSeconds

\* Every variable keeps its type: in particular the outbox columns hold only values the
\* schema of migration 0006 admits.
TypeOK ==
    /\ now \in Nat
    /\ db \in Database
    /\ backup \in Database \cup {Null}
    /\ worker \in [Workers -> Worker]
    /\ sent \subseteq Send
    /\ epoch \in Nat
    /\ born \in [Intents -> Nat \cup {Null}]

\* Two workers are between claim and finish of one intent only if the lease of one of
\* them has run out: no interleaving of claims, expiry, generation changes, deaths and
\* restores gives a second worker an intent whose holder still has its lease.
OneLiveSender ==
    \A v, w \in Workers :
        (v # w /\ InFlight(v) /\ InFlight(w) /\ worker[v].intent = worker[w].intent)
            => Lapsed(v) \/ Lapsed(w)

\* The delivery_attempt rows of an intent are numbered 1 .. attempt_count without gap or
\* repetition (the UNIQUE constraint is never hit), never more than MaxAttempts, all but
\* the last are retryable failures, and the last agrees with the delivery status.
AttemptLedger ==
    \A i \in Intents :
        LET r == db.row[i] IN
        /\ r.attempt_count <= MaxAttempts
        /\ \A n \in 1..r.attempt_count :
              \E a \in db.attempts : a.intent = i /\ a.number = n
        /\ \A a \in db.attempts : a.intent = i =>
              /\ a.number \in 1..r.attempt_count
              /\ a.number < r.attempt_count => a.outcome = "RETRYABLE_FAILURE"
              /\ a.number = r.attempt_count =>
                    /\ (a.outcome = "DELIVERED") = (r.status = "DELIVERED")
                    /\ (a.outcome = "PERMANENT_FAILURE") = (r.status = "FAILED")

\* Two calls of the adapter for one intent start at least a lease or a retry delay
\* apart, so an intent is sent a bounded number of times within its lifetime even when
\* workers die after sending and attempts are not counted.
SendsSpaced ==
    \A s, t \in sent :
        (s # t /\ s.intent = t.intent) =>
            \/ s.started + LeaseSeconds <= t.started
            \/ s.started + RetrySeconds <= t.started
            \/ t.started + LeaseSeconds <= s.started
            \/ t.started + RetrySeconds <= s.started

\* A restore never sends an old notification again: every adapter call for an intent
\* happens in the restore epoch that inserted it, whatever the backup held.
NoResendAfterRestore ==
    \A s \in sent : s.epoch = born[s.intent]

\* Every adapter call was made on a claim read within the intent's lifetime: not before
\* the analysis instant it reports, and before it expired.  The call itself may come
\* later, the claim's clock reading is what the code compares.
SentInLifetime ==
    \A s \in sent :
        db.row[s.intent].status # "ABSENT" =>
            /\ db.intent[s.intent].created_at <= s.started
            /\ s.started < db.intent[s.intent].expires_at

\* A settled delivery stays settled with its attempts, until a restore replaces the
\* database: a late finish, an expired lease or a generation change never reopens it.
SettledIsFinal ==
    [][epoch' = epoch =>
        \A i \in Intents : db.row[i].status \in Terminal =>
            /\ db'.row[i] = db.row[i]
            /\ \A a \in db'.attempts \ db.attempts : a.intent # i]_vars

\* If some worker stays alive and the database stays out of recovery, every intent
\* that can expire within the modelled time is eventually delivered, failed, expired or
\* cancelled, whatever the other workers do with their leases.
EventuallySettled ==
    ((\E w \in Workers : <>[](worker[w].pc \notin {"new", "dead"})) /\ <>[]Normal(db)) =>
        \A i \in Intents :
            (db.row[i].status \in Active /\ db.intent[i].expires_at <= MaxTime)
                ~> db.row[i].status \in Terminal
=============================================================================
