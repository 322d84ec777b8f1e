--------------------------- MODULE DeliveryProofs ---------------------------
(***************************************************************************)
(* Proofs, for every value of the constants, of the safety properties of   *)
(* Delivery.  IInv is the inductive invariant: the properties themselves   *)
(* say nothing of a claim that is between its transaction and its send, so *)
(* IInv relates the clock reading of every in-flight claim to the row it   *)
(* was made on and to the sends already made.                              *)
(***************************************************************************)
EXTENDS Delivery, TLAPS

\* Two clock readings at least a lease or a retry delay apart, the earlier one first.
Spaced(a, b) == a + LeaseSeconds <= b \/ a + RetrySeconds <= b

\* What the outbox tables of the live database and of a backup always satisfy.
RowOK(d, i) ==
    LET r == d.row[i] IN
    /\ r.status = "PROCESSING" => r.lease_owner \in Workers /\ r.lease_until \in Nat
    /\ r.status \in {"PENDING", "RETRY_WAIT"} => r.next_attempt_at \in Nat
    /\ r.status \in Active => /\ r.attempt_count < MaxAttempts
                              /\ d.intent[i].restore_generation = d.generation
    /\ r.status = "ABSENT" => r.attempt_count = 0

\* AttemptLedger for one intent of one database.
Ledger(d, i) ==
    LET r == d.row[i] IN
    /\ r.attempt_count <= MaxAttempts
    /\ \A n \in 1..r.attempt_count :
          \E a \in d.attempts : a.intent = i /\ a.number = n
    /\ \A a \in d.attempts : a.intent = i =>
          /\ a.number \in 1..r.attempt_count
          /\ a.number < r.attempt_count => a.outcome = "RETRYABLE_FAILURE"
          /\ a.number = r.attempt_count =>
                /\ (a.outcome = "DELIVERED") = (r.status = "DELIVERED")
                /\ (a.outcome = "PERMANENT_FAILURE") = (r.status = "FAILED")

DatabaseOK(d) == \A i \in Intents : RowOK(d, i) /\ Ledger(d, i)

\* An intent uid in the database or in the backup has been inserted once, an outstanding
\* one in this epoch; a backup holds nothing the live database lacks.
Provenance ==
    /\ \A i \in Intents :
          /\ db.row[i].status # "ABSENT" => born[i] # Null
          /\ db.row[i].status \in Active => born[i] = epoch
    /\ backup # Null => \A i \in Intents : backup.row[i].status # "ABSENT" =>
          /\ db.row[i].status # "ABSENT"
          /\ backup.intent[i] = db.intent[i]

\* No row is due before the analysis instant its intent reports.
Timely ==
    \A i \in Intents :
        LET r == db.row[i] IN
        /\ r.status \in {"PENDING", "RETRY_WAIT"} =>
              db.intent[i].created_at <= r.next_attempt_at
        /\ r.status = "PROCESSING" => db.intent[i].created_at <= r.lease_until

\* The locals of run_once that are set when they are used.
Locals ==
    \A w \in Workers :
        /\ InFlight(w) => worker[w].intent \in Intents
        /\ worker[w].pc = "finishing" => worker[w].outcome \in Outcomes

\* A claim in flight still holds its lease, or its lease ran out, or the row is settled.
ClaimOK(w) ==
    LET c == worker[w]
        r == db.row[c.intent] IN
    /\ c.started <= now
    /\ r.status # "ABSENT"
    /\ db.intent[c.intent].created_at <= c.started
    /\ c.started < db.intent[c.intent].expires_at
    /\ born[c.intent] = epoch
    /\ \/ r.status = "PROCESSING" /\ r.lease_owner = w
                                  /\ r.lease_until = c.started + LeaseSeconds
       \/ Lapsed(w)
       \/ r.status \in Terminal
    /\ (r.status = "PROCESSING" /\ r.lease_owner = w)
          => r.lease_until = c.started + LeaseSeconds
    /\ r.status \in {"PENDING", "RETRY_WAIT"} => Spaced(c.started, r.next_attempt_at)
    /\ r.status = "PROCESSING" => c.started + LeaseSeconds <= r.lease_until

Claims ==
    /\ \A w \in Workers :
          /\ worker[w].pc = "claiming" => worker[w].started <= now
          /\ InFlight(w) => ClaimOK(w)
          /\ worker[w].pc = "finishing" => worker[w].started <= worker[w].completed
    /\ \A v, w \in Workers :
          (v # w /\ InFlight(v) /\ InFlight(w) /\ worker[v].intent = worker[w].intent) =>
              \/ Spaced(worker[v].started, worker[w].started)
              \/ Spaced(worker[w].started, worker[v].started)

\* How the sends already made lie relative to the row and to the claims in flight.
SendOK(s) ==
    LET r == db.row[s.intent] IN
    /\ s.epoch = born[s.intent]
    /\ r.status # "ABSENT" => /\ db.intent[s.intent].created_at <= s.started
                              /\ s.started < db.intent[s.intent].expires_at
    /\ r.status \in {"PENDING", "RETRY_WAIT"} => Spaced(s.started, r.next_attempt_at)
    /\ r.status = "PROCESSING" => s.started + LeaseSeconds <= r.lease_until
    /\ \A w \in Workers : (InFlight(w) /\ worker[w].intent = s.intent) =>
          \/ s.worker = w /\ s.started = worker[w].started /\ worker[w].pc = "finishing"
          \/ Spaced(s.started, worker[w].started)
          \/ Spaced(worker[w].started, s.started)

\* The claims in flight, the sends made and the rows they are about.
Traffic ==
    /\ Provenance
    /\ Timely
    /\ Claims
    /\ OneLiveSender
    /\ \A s \in sent : SendOK(s)
    /\ SendsSpaced

IInv ==
    /\ TypeOK
    /\ Locals
    /\ DatabaseOK(db)
    /\ backup # Null => DatabaseOK(backup)
    /\ Traffic
-----------------------------------------------------------------------------
\* A settled row is a delivery row with no lease and no next attempt.
LEMMA SettleType ==
    ASSUME NEW r \in DeliveryState, NEW st \in Active \cup Terminal
    PROVE  /\ Settle(r, st) \in DeliveryState
           /\ Settle(r, st).status = st
           /\ Settle(r, st).attempt_count = r.attempt_count
           /\ Settle(r, st).next_attempt_at = Null
           /\ Settle(r, st).lease_owner = Null
           /\ Settle(r, st).lease_until = Null
BY DEF Settle, DeliveryState

\* The expiry update of a claim leaves each row alone or settles it as EXPIRED.
LEMMA ExpireType ==
    ASSUME NEW d \in Database, NEW at \in Nat
    PROVE  /\ ExpireRows(d, at) \in [Intents -> DeliveryState]
           /\ \A i \in Intents :
                 \/ ExpireRows(d, at)[i] = d.row[i]
                 \/ /\ d.row[i].status \in Active
                    /\ ExpireRows(d, at)[i] = Settle(d.row[i], "EXPIRED")
<1>1. ASSUME NEW i \in Intents
      PROVE  d.row[i] \in DeliveryState /\ Settle(d.row[i], "EXPIRED") \in DeliveryState
  BY SettleType DEF Database, Terminal
<1> QED BY <1>1 DEF ExpireRows

\* The lease update of a claim gives a PROCESSING row of the right type.
LEMMA LeasedType ==
    ASSUME NEW r \in DeliveryState, NEW w \in Workers, NEW at \in Nat
    PROVE  /\ Leased(r, w, at) \in DeliveryState
           /\ Leased(r, w, at).status = "PROCESSING"
           /\ Leased(r, w, at).attempt_count = r.attempt_count
           /\ Leased(r, w, at).lease_owner = w
           /\ Leased(r, w, at).lease_until = at + LeaseSeconds
<1>1. at + LeaseSeconds \in Nat
  BY TimingAssumption
<1> QED BY <1>1 DEF Leased, DeliveryState, Active

\* The row and the attempt that finish writes have their types; the row is settled, or
\* waits for a later attempt.
LEMMA RecordedType ==
    ASSUME NEW r \in DeliveryState, NEW outcome \in Outcomes, NEW completed \in Nat
    PROVE  LET q == RecordedRow(r, outcome, completed) IN
           /\ q \in DeliveryState
           /\ q.attempt_count = r.attempt_count + 1
           /\ RecordedOutcome(r, outcome) \in Outcomes
           /\ \/ /\ q.status = "DELIVERED"
                 /\ RecordedOutcome(r, outcome) = "DELIVERED"
              \/ /\ q.status = "RETRY_WAIT"
                 /\ r.attempt_count + 1 < MaxAttempts
                 /\ q.next_attempt_at = completed + RetrySeconds
                 /\ RecordedOutcome(r, outcome) = "RETRYABLE_FAILURE"
              \/ /\ q.status = "FAILED"
                 /\ RecordedOutcome(r, outcome) = "PERMANENT_FAILURE"
<1>1. CASE outcome = "DELIVERED"
  BY <1>1, SettleType, TimingAssumption
     DEF RecordedRow, RecordedOutcome, DeliveryState, Outcomes, Terminal
<1>2. CASE outcome = "RETRYABLE_FAILURE" /\ r.attempt_count + 1 < MaxAttempts
  <2> DEFINE p == Settle(r, "RETRY_WAIT")
             q == RecordedRow(r, outcome, completed)
  <2>1. completed + RetrySeconds \in Nat /\ r.attempt_count + 1 \in Nat
    BY TimingAssumption DEF DeliveryState
  <2>2. p \in DeliveryState /\ p.status = "RETRY_WAIT"
    BY SettleType DEF Active
  <2>3. q = [p EXCEPT !.attempt_count = r.attempt_count + 1,
                      !.next_attempt_at = completed + RetrySeconds]
    BY <1>2 DEF RecordedRow
  <2>4. RecordedOutcome(r, outcome) = "RETRYABLE_FAILURE"
    BY <1>2 DEF RecordedOutcome
  <2> QED BY <1>2, <2>1, <2>2, <2>3, <2>4 DEF DeliveryState, Outcomes
<1>3. CASE /\ outcome # "DELIVERED"
           /\ ~(outcome = "RETRYABLE_FAILURE" /\ r.attempt_count + 1 < MaxAttempts)
  BY <1>3, SettleType, TimingAssumption
     DEF RecordedRow, RecordedOutcome, DeliveryState, Outcomes, Terminal
<1> QED BY <1>1, <1>2, <1>3

\* Suppression keeps the database's types, moves the generation, and leaves each row
\* alone or cancels it.
LEMMA SuppressType ==
    ASSUME NEW d \in Database
    PROVE  /\ Suppress(d) \in Database
           /\ Suppress(d).generation = d.generation + 1
           /\ Suppress(d).intent = d.intent
           /\ Suppress(d).attempts = d.attempts
           /\ Suppress(d).recovery = d.recovery
           /\ \A i \in Intents :
                 \/ d.row[i].status \notin Active /\ Suppress(d).row[i] = d.row[i]
                 \/ /\ d.row[i].status \in Active
                    /\ Suppress(d).row[i] = Settle(d.row[i], "CANCELLED")
<1>1. ASSUME NEW i \in Intents
      PROVE  d.row[i] \in DeliveryState /\ Settle(d.row[i], "CANCELLED") \in DeliveryState
  BY SettleType DEF Database, Terminal
<1> DEFINE rows == [i \in Intents |-> IF d.row[i].status \in Active
                                      THEN Settle(d.row[i], "CANCELLED") ELSE d.row[i]]
<1>2. rows \in [Intents -> DeliveryState]
  BY <1>1
<1>3. Suppress(d) = [d EXCEPT !.generation = d.generation + 1, !.row = rows]
  BY DEF Suppress
<1>4. d.generation + 1 \in Nat
  BY DEF Database
<1> HIDE DEF rows
<1>5. Suppress(d) \in Database /\ Suppress(d).row = rows
  BY <1>2, <1>3, <1>4 DEF Database
<1>6. /\ Suppress(d).generation = d.generation + 1
      /\ Suppress(d).intent = d.intent
      /\ Suppress(d).attempts = d.attempts
      /\ Suppress(d).recovery = d.recovery
  BY <1>3 DEF Database
<1> QED BY <1>1, <1>5, <1>6 DEF rows

\* A worker outside run_once has the type of a worker and claims nothing.
LEMMA RestingType ==
    ASSUME NEW pc \in {"new", "idle", "dead"}
    PROVE  Resting(pc) \in Worker /\ Resting(pc).pc = pc
BY DEF Resting, Worker

\* The types of the variables, and of the locals in use, are kept by every step.
LEMMA TypeStep ==
    ASSUME TypeOK, Locals, [Next]_vars
    PROVE  TypeOK' /\ Locals'
<1> USE DEF InFlight
<1>1. CASE Tick
  BY <1>1 DEF Tick, TypeOK, Locals
<1>2. ASSUME NEW i \in Intents, NEW lag \in 0..MaxLag, Enqueue(i, lag)
      PROVE  TypeOK' /\ Locals'
  <2> DEFINE asOf == now - lag
             n == [created_at |-> asOf, expires_at |-> asOf + Lifetime,
                   restore_generation |-> db.generation]
             r == [status |-> "PENDING", attempt_count |-> 0, next_attempt_at |-> asOf,
                   lease_owner |-> Null, lease_until |-> Null]
  <2>1. asOf \in Nat /\ asOf + Lifetime \in Nat
    BY <1>2, TimingAssumption DEF Enqueue, TypeOK
  <2>2. n \in Intent /\ r \in DeliveryState
    BY <2>1 DEF Intent, DeliveryState, Active, TypeOK, Database
  <2>3. db' = [db EXCEPT !.intent[i] = n, !.row[i] = r]
    BY <1>2 DEF Enqueue
  <2> HIDE DEF n, r
  <2>4. db' \in Database
    BY <2>2, <2>3 DEF TypeOK, Database
  <2> QED BY <1>2, <2>4 DEF Enqueue, TypeOK, Locals
<1>3. CASE SetWebhook
  BY <1>3 DEF SetWebhook, TypeOK, Database, Locals
<1>4. ASSUME NEW w \in Workers, Start(w) \/ ClaimRefused(w) \/ Die(w)
      PROVE  TypeOK' /\ Locals'
  <2>1. \E pc \in {"idle", "dead"} : worker' = [worker EXCEPT ![w] = Resting(pc)]
    BY <1>4 DEF Start, ClaimRefused, Die
  <2>2. UNCHANGED <<now, db, backup, sent, epoch, born>>
    BY <1>4 DEF Start, ClaimRefused, Die
  <2> QED BY <2>1, <2>2, RestingType DEF TypeOK, Locals
<1>5. ASSUME NEW w \in Workers, ReadClock(w)
      PROVE  TypeOK' /\ Locals'
  <2>1. [worker[w] EXCEPT !.pc = "claiming", !.started = now] \in Worker
    BY DEF TypeOK, Worker
  <2> QED BY <1>5, <2>1 DEF ReadClock, TypeOK, Locals
<1>6. ASSUME NEW w \in Workers, ClaimNothing(w)
      PROVE  TypeOK' /\ Locals'
  <2>1. ExpireRows(db, worker[w].started) \in [Intents -> DeliveryState]
    BY ExpireType DEF TypeOK, Worker
  <2>2. db' \in Database
    BY <1>6, <2>1 DEF ClaimNothing, TypeOK, Database
  <2> QED BY <1>6, <2>2, RestingType DEF ClaimNothing, TypeOK, Locals
<1>7. ASSUME NEW w \in Workers, ClaimOne(w)
      PROVE  TypeOK' /\ Locals'
  <2> DEFINE at == worker[w].started
  <2>1. PICK i \in Due(db, at) :
           /\ db' = [db EXCEPT !.row = [ExpireRows(db, at) EXCEPT ![i] = Leased(@, w, at)]]
           /\ worker' = [worker EXCEPT ![w] =
                            [@ EXCEPT !.pc = "checking", !.intent = i,
                                      !.generation = db.generation]]
    BY <1>7 DEF ClaimOne
  <2>2. i \in Intents /\ at \in Nat
    BY DEF Due, TypeOK, Worker
  <2>3. ExpireRows(db, at) \in [Intents -> DeliveryState]
    BY <2>2, ExpireType DEF TypeOK
  <2>4. Leased(ExpireRows(db, at)[i], w, at) \in DeliveryState
    BY <2>2, <2>3, LeasedType
  <2>5. db' \in Database
    BY <2>1, <2>3, <2>4 DEF TypeOK, Database
  <2>6. [worker[w] EXCEPT !.pc = "checking", !.intent = i, !.generation = db.generation]
           \in Worker
    BY <2>2 DEF TypeOK, Worker, Database
  <2>7. worker' \in [Workers -> Worker]
    BY <2>1, <2>6 DEF TypeOK
  <2>8. Locals'
    BY <2>1, <2>2 DEF TypeOK, Worker, Locals
  <2> QED BY <1>7, <2>5, <2>7, <2>8 DEF ClaimOne, TypeOK
<1>8. ASSUME NEW w \in Workers, CheckClaim(w)
      PROVE  TypeOK' /\ Locals'
  BY <1>8, RestingType DEF CheckClaim, TypeOK, Locals, Worker
<1>9. ASSUME NEW w \in Workers, SendMessage(w)
      PROVE  TypeOK' /\ Locals'
  <2>1. worker[w].intent \in Intents
    BY <1>9 DEF SendMessage, Locals
  <2>2. PICK outcome \in Outcomes :
           worker' = [worker EXCEPT ![w] =
                         [@ EXCEPT !.pc = "finishing", !.outcome = outcome,
                                   !.completed = now]]
    BY <1>9 DEF SendMessage, AdapterOutcomes, Outcomes
  <2>5. [worker[w] EXCEPT !.pc = "finishing", !.outcome = outcome, !.completed = now]
           \in Worker
    BY <2>2 DEF TypeOK, Worker
  <2>3. worker' \in [Workers -> Worker] /\ Locals'
    BY <2>1, <2>2, <2>5 DEF TypeOK, Locals, Worker
  <2>4. sent' \subseteq Send
    BY <1>9, <2>1 DEF SendMessage, TypeOK, Worker, Send
  <2> QED BY <1>9, <2>3, <2>4 DEF SendMessage, TypeOK
<1>10. ASSUME NEW w \in Workers, Finish(w)
       PROVE  TypeOK' /\ Locals'
  <2> DEFINE c == worker[w]
             r == db.row[c.intent]
  <2>1. c.intent \in Intents /\ c.outcome \in Outcomes /\ c.completed \in Nat
    BY <1>10 DEF Finish, Locals, TypeOK, Worker
  <2>2. r \in DeliveryState
    BY <2>1 DEF TypeOK, Database
  <2>3. /\ RecordedRow(r, c.outcome, c.completed) \in DeliveryState
        /\ RecordedOutcome(r, c.outcome) \in Outcomes
    BY <2>1, <2>2, RecordedType
  <2>4. r.attempt_count + 1 \in Nat
    BY <2>2 DEF DeliveryState
  <2>5. db' \in Database
    <3>1. CASE ClaimIsCurrent(w)
      <4>1. db' = [db EXCEPT
                     !.row[c.intent] = RecordedRow(r, c.outcome, c.completed),
                     !.attempts = db.attempts \cup
                        {[intent |-> c.intent, number |-> r.attempt_count + 1,
                          outcome |-> RecordedOutcome(r, c.outcome)]}]
        BY <1>10, <3>1 DEF Finish
      <4>2. [intent |-> c.intent, number |-> r.attempt_count + 1,
             outcome |-> RecordedOutcome(r, c.outcome)] \in DeliveryAttempt
        BY <2>1, <2>3, <2>4 DEF DeliveryAttempt
      <4>3. [db.row EXCEPT ![c.intent] = RecordedRow(r, c.outcome, c.completed)]
               \in [Intents -> DeliveryState]
        BY <2>3 DEF TypeOK, Database
      <4> HIDE DEF c, r
      <4> QED BY <4>1, <4>2, <4>3 DEF TypeOK, Database
    <3>2. CASE ~ClaimIsCurrent(w)
      BY <1>10, <3>2 DEF Finish, TypeOK
    <3> QED BY <3>1, <3>2
  <2> QED BY <1>10, <2>5, RestingType DEF Finish, TypeOK, Locals
<1>11. CASE AdvanceGeneration
  BY <1>11, SuppressType DEF AdvanceGeneration, TypeOK, Locals
<1>12. CASE CreateBackup
  BY <1>12 DEF CreateBackup, TypeOK, Locals
<1>13. CASE Restore
  <2>1. backup \in Database
    BY <1>13 DEF Restore, TypeOK
  <2>2. db' \in Database
    BY <1>13, <2>1, SuppressType DEF Restore, Database
  <2> QED BY <1>13, <2>2 DEF Restore, TypeOK, Locals
<1>14. CASE CompleteRecovery
  BY <1>14 DEF CompleteRecovery, TypeOK, Database, Locals
<1>15. CASE UNCHANGED vars
  BY <1>15 DEF vars, TypeOK, Locals
<1> QED
  BY <1>1, <1>2, <1>3, <1>4, <1>5, <1>6, <1>7, <1>8, <1>9, <1>10, <1>11, <1>12,
     <1>13, <1>14, <1>15 DEF Next, RunOnce

\* Settling some outstanding rows of a well-formed outbox, or none, and changing nothing
\* else of the outbox, leaves it well formed; if rows stay outstanding the generation
\* must not move.
LEMMA SettlingOK ==
    ASSUME NEW d \in Database, NEW e, DatabaseOK(d),
           e.intent = d.intent, e.attempts = d.attempts,
           \A i \in Intents :
              \/ /\ e.row[i] = d.row[i]
                 /\ d.row[i].status \in Active => e.generation = d.generation
              \/ /\ d.row[i].status \in Active
                 /\ \E st \in {"EXPIRED", "CANCELLED"} : e.row[i] = Settle(d.row[i], st)
    PROVE  DatabaseOK(e)
<1> SUFFICES ASSUME NEW i \in Intents PROVE RowOK(e, i) /\ Ledger(e, i)
  BY DEF DatabaseOK
<1>0. RowOK(d, i) /\ Ledger(d, i) /\ d.row[i] \in DeliveryState
  BY DEF DatabaseOK, Database
<1>1. CASE e.row[i] = d.row[i] /\ (d.row[i].status \in Active => e.generation = d.generation)
  BY <1>0, <1>1 DEF RowOK, Ledger
<1>2. ASSUME d.row[i].status \in Active, NEW st \in {"EXPIRED", "CANCELLED"},
             e.row[i] = Settle(d.row[i], st)
      PROVE  RowOK(e, i) /\ Ledger(e, i)
  <2>1. e.row[i].status = st /\ e.row[i].attempt_count = d.row[i].attempt_count
    BY <1>0, <1>2, SettleType DEF Terminal
  <2>2. RowOK(e, i)
    BY <2>1 DEF RowOK, Active
  <2>3. Ledger(e, i)
    BY <1>0, <1>2, <2>1 DEF Ledger, Active
  <2> QED BY <2>2, <2>3
<1> QED BY <1>1, <1>2

\* The outbox tables, live and backed up, stay well formed.
LEMMA DatabaseStep ==
    ASSUME TypeOK, Locals, DatabaseOK(db), backup # Null => DatabaseOK(backup),
           Provenance, [Next]_vars
    PROVE  DatabaseOK(db)' /\ (backup' # Null => DatabaseOK(backup)')
<1>0. db \in Database
  BY DEF TypeOK
<1>1. ASSUME NEW i \in Intents, NEW lag \in 0..MaxLag, Enqueue(i, lag)
      PROVE  DatabaseOK(db') /\ backup' = backup
  <2> DEFINE asOf == now - lag
             n == [created_at |-> asOf, expires_at |-> asOf + Lifetime,
                   restore_generation |-> db.generation]
             r == [status |-> "PENDING", attempt_count |-> 0, next_attempt_at |-> asOf,
                   lease_owner |-> Null, lease_until |-> Null]
  <2>1. asOf \in Nat
    BY <1>1, TimingAssumption DEF Enqueue, TypeOK
  <2>2. /\ db' = [db EXCEPT !.intent[i] = n, !.row[i] = r]
        /\ born[i] = Null
        /\ backup' = backup
    BY <1>1 DEF Enqueue
  <2>3. db.row[i].status = "ABSENT"
    BY <2>2 DEF Provenance
  <2> HIDE DEF n, r
  <2>4. /\ db'.attempts = db.attempts /\ db'.generation = db.generation
        /\ db'.row = [db.row EXCEPT ![i] = r]
        /\ db'.intent = [db.intent EXCEPT ![i] = n]
    BY <1>0, <2>2 DEF Database
  <2>5. ASSUME NEW j \in Intents, j # i
        PROVE  RowOK(db', j) /\ Ledger(db', j)
    <3>1. db'.row[j] = db.row[j] /\ db'.intent[j] = db.intent[j]
      BY <1>0, <2>4, <2>5 DEF Database
    <3> QED BY <2>4, <3>1 DEF DatabaseOK, RowOK, Ledger
  <2>6. RowOK(db', i) /\ Ledger(db', i)
    <3>1. db'.row[i] = r /\ db'.intent[i] = n
      BY <1>0, <2>4 DEF Database
    <3>2. /\ r.status = "PENDING" /\ r.attempt_count = 0 /\ r.next_attempt_at = asOf
          /\ n.restore_generation = db.generation
      BY DEF r, n
    <3>3. RowOK(db', i)
      BY <2>1, <2>4, <3>1, <3>2, TimingAssumption DEF RowOK
    <3>4. \A a \in db.attempts : a.intent # i
      BY <1>0, <2>3 DEF DatabaseOK, RowOK, Ledger
    <3>5. Ledger(db', i)
      BY <2>4, <3>1, <3>2, <3>4, TimingAssumption DEF Ledger
    <3> QED BY <3>3, <3>5
  <2> QED BY <2>2, <2>5, <2>6 DEF DatabaseOK
<1>2. CASE SetWebhook \/ CompleteRecovery
  <2>1. /\ db'.intent = db.intent /\ db'.attempts = db.attempts /\ db'.row = db.row
        /\ db'.generation = db.generation /\ backup' = backup
    BY <1>0, <1>2 DEF SetWebhook, CompleteRecovery, Database
  <2> QED BY <1>0, <2>1 DEF DatabaseOK, RowOK, Ledger
<1>3. ASSUME NEW w \in Workers, ClaimNothing(w)
      PROVE  DatabaseOK(db') /\ backup' = backup
  <2>1. worker[w].started \in Nat
    BY DEF TypeOK, Worker
  <2>2. /\ db'.intent = db.intent /\ db'.attempts = db.attempts
        /\ db'.generation = db.generation /\ backup' = backup
        /\ db'.row = ExpireRows(db, worker[w].started)
    BY <1>0, <1>3 DEF ClaimNothing, Database
  <2> QED BY <1>0, <2>1, <2>2, ExpireType, SettlingOK
<1>4. ASSUME NEW w \in Workers, ClaimOne(w)
      PROVE  DatabaseOK(db') /\ backup' = backup
  <2> DEFINE at == worker[w].started
             rows == ExpireRows(db, at)
             e == [db EXCEPT !.row = rows]
  <2>1. PICK i \in Due(db, at) :
           db' = [db EXCEPT !.row = [rows EXCEPT ![i] = Leased(@, w, at)]]
    BY <1>4 DEF ClaimOne
  <2>2. i \in Intents /\ at \in Nat
    BY DEF Due, TypeOK, Worker
  <2>3. rows \in [Intents -> DeliveryState]
    BY <1>0, <2>2, ExpireType
  <2>4. /\ e.intent = db.intent /\ e.attempts = db.attempts /\ e.row = rows
        /\ e.generation = db.generation
    BY <1>0 DEF Database
  <2>5. DatabaseOK(e)
    <3> HIDE DEF e
    <3>1. \A j \in Intents :
             \/ e.row[j] = db.row[j] /\ e.generation = db.generation
             \/ db.row[j].status \in Active /\ e.row[j] = Settle(db.row[j], "EXPIRED")
      BY <1>0, <2>2, <2>4, ExpireType
    <3> HIDE DEF rows
    <3> QED BY <1>0, <2>4, <3>1, SettlingOK
  <2>6. /\ db'.intent = db.intent /\ db'.attempts = db.attempts
        /\ db'.generation = db.generation
        /\ db'.row = [rows EXCEPT ![i] = Leased(rows[i], w, at)]
    BY <1>0, <2>1, <2>2, <2>3 DEF Database
  <2>7. rows[i].status \in Active
    BY <2>2 DEF Due, Active
  <2> HIDE DEF rows, e, at
  <2>8. ASSUME NEW j \in Intents, j # i
        PROVE  RowOK(db', j) /\ Ledger(db', j)
    <3>1. db'.row[j] = e.row[j]
      BY <2>3, <2>4, <2>6, <2>8
    <3> QED BY <2>4, <2>5, <2>6, <3>1 DEF DatabaseOK, RowOK, Ledger
  <2>9. RowOK(db', i) /\ Ledger(db', i)
    <3>1. rows[i] \in DeliveryState /\ RowOK(e, i) /\ Ledger(e, i)
      BY <2>2, <2>3, <2>5 DEF DatabaseOK
    <3>2. /\ db'.row[i].status = "PROCESSING"
          /\ db'.row[i].attempt_count = rows[i].attempt_count
          /\ db'.row[i].lease_owner = w
          /\ db'.row[i].lease_until = at + LeaseSeconds
      BY <2>2, <2>3, <2>6, <3>1, LeasedType
    <3>3. RowOK(db', i)
      BY <2>2, <2>4, <2>6, <2>7, <3>1, <3>2, TimingAssumption DEF RowOK, Active
    <3>4. Ledger(db', i)
      BY <2>2, <2>4, <2>6, <2>7, <3>1, <3>2 DEF Ledger, Active
    <3> QED BY <3>3, <3>4
  <2> QED BY <1>4, <2>8, <2>9 DEF DatabaseOK, ClaimOne
<1>5. ASSUME NEW w \in Workers, Finish(w), ClaimIsCurrent(w)
      PROVE  DatabaseOK(db') /\ backup' = backup
  <2> DEFINE i == worker[w].intent
             r == db.row[i]
             q == RecordedRow(r, worker[w].outcome, worker[w].completed)
             a == [intent |-> i, number |-> r.attempt_count + 1,
                   outcome |-> RecordedOutcome(r, worker[w].outcome)]
  <2>1. /\ i \in Intents /\ worker[w].outcome \in Outcomes
        /\ worker[w].completed \in Nat /\ r \in DeliveryState
    BY <1>5 DEF Finish, Locals, InFlight, TypeOK, Worker, Database
  <2>2. /\ db'.intent = db.intent /\ db'.generation = db.generation
        /\ db'.attempts = db.attempts \cup {a}
        /\ db'.row = [db.row EXCEPT ![i] = q]
        /\ backup' = backup
    BY <1>0, <1>5 DEF Finish, Database
  <2>3. /\ q \in DeliveryState
        /\ q.attempt_count = r.attempt_count + 1
        /\ \/ q.status = "DELIVERED" /\ a.outcome = "DELIVERED"
           \/ /\ q.status = "RETRY_WAIT" /\ a.outcome = "RETRYABLE_FAILURE"
              /\ r.attempt_count + 1 < MaxAttempts
              /\ q.next_attempt_at = worker[w].completed + RetrySeconds
           \/ q.status = "FAILED" /\ a.outcome = "PERMANENT_FAILURE"
    BY <2>1, RecordedType
  <2>4. /\ r.status = "PROCESSING" /\ RowOK(db, i) /\ Ledger(db, i)
        /\ a.intent = i /\ a.number = r.attempt_count + 1
    BY <1>5, <2>1 DEF ClaimIsCurrent, DatabaseOK
  <2> HIDE DEF q, a
  <2>5. ASSUME NEW j \in Intents, j # i
        PROVE  RowOK(db', j) /\ Ledger(db', j)
    <3>1. db'.row[j] = db.row[j]
      BY <1>0, <2>1, <2>2, <2>5 DEF Database
    <3>2. RowOK(db, j) /\ Ledger(db, j)
      BY DEF DatabaseOK
    <3>3. RowOK(db', j)
      BY <2>2, <3>1, <3>2 DEF RowOK
    <3>4. Ledger(db', j)
      BY <2>2, <2>4, <2>5, <3>1, <3>2 DEF Ledger
    <3> QED BY <3>3, <3>4
  <2>6. RowOK(db', i) /\ Ledger(db', i)
    <3>1. db'.row[i] = q
      BY <1>0, <2>1, <2>2 DEF Database
    <3>2. r.attempt_count \in Nat /\ r.attempt_count < MaxAttempts
      BY <2>1, <2>4 DEF RowOK, DeliveryState, Active
    <3>3. RowOK(db', i)
      BY <2>1, <2>2, <2>3, <2>4, <3>1, <3>2, TimingAssumption DEF RowOK, Active
    <3>4. \A b \in db.attempts : b.intent = i =>
             b.number \in 1..r.attempt_count /\ b.outcome = "RETRYABLE_FAILURE"
      BY <1>0, <2>1, <2>4, <3>2
         DEF Ledger, Database, DeliveryAttempt, Outcomes
    <3> HIDE DEF i, r
    <3>5. \A n \in 1..q.attempt_count : \E b \in db'.attempts : b.intent = i /\ b.number = n
      BY <2>2, <2>3, <2>4, <3>2 DEF Ledger, r
    <3>6. \A b \in db'.attempts : b.intent = i =>
             /\ b.number \in 1..q.attempt_count
             /\ b.number < q.attempt_count => b.outcome = "RETRYABLE_FAILURE"
             /\ b.number = q.attempt_count => b = a
      BY <2>2, <2>3, <2>4, <3>2, <3>4
    <3>7. Ledger(db', i)
      BY <2>3, <3>1, <3>2, <3>5, <3>6, TimingAssumption DEF Ledger
    <3> QED BY <3>3, <3>7
  <2> QED BY <2>2, <2>5, <2>6 DEF DatabaseOK
<1>6. CASE AdvanceGeneration
  <2>1. db' = Suppress(db) /\ backup' = backup
    BY <1>6 DEF AdvanceGeneration
  <2>2. DatabaseOK(db')
    BY <1>0, <2>1, SuppressType, SettlingOK
  <2> QED BY <2>1, <2>2
<1>7. CASE CreateBackup
  BY <1>7 DEF CreateBackup
<1>8. CASE Restore
  <2>1. backup \in Database /\ DatabaseOK(backup) /\ backup' = backup
    BY <1>8 DEF Restore, TypeOK
  <2>2. /\ db'.intent = Suppress(backup).intent
        /\ db'.attempts = Suppress(backup).attempts
        /\ db'.row = Suppress(backup).row
    BY <1>8, <2>1, SuppressType DEF Restore, Database
  <2>3. DatabaseOK(db')
    BY <2>1, <2>2, SuppressType, SettlingOK
  <2> QED BY <2>1, <2>3
<1>9. ASSUME db' = db, backup' = backup
      PROVE  DatabaseOK(db)' /\ (backup' # Null => DatabaseOK(backup)')
  BY <1>9
<1>10. ASSUME NEW w \in Workers, Finish(w), ~ClaimIsCurrent(w)
       PROVE  db' = db /\ backup' = backup
  BY <1>10 DEF Finish
<1> QED
  BY <1>1, <1>2, <1>3, <1>4, <1>5, <1>6, <1>7, <1>8, <1>9, <1>10
     DEF Next, RunOnce, Tick, Start, ReadClock, ClaimRefused, CheckClaim, SendMessage,
         Die, vars

\* Traffic is kept by every step that settles outstanding rows or none, lets time pass,
\* and moves claims along without making a new one.
LEMMA SettlingTraffic ==
    ASSUME IInv, TypeOK', now <= now', sent' = sent, epoch' = epoch, born' = born,
           backup' = backup \/ backup' = db,
           db'.intent = db.intent,
           \A i \in Intents : \/ db'.row[i] = db.row[i]
                              \/ db.row[i].status \in Active /\ db'.row[i].status \in Terminal,
           \A w \in Workers : InFlight(w)' =>
              /\ InFlight(w)
              /\ worker'[w].intent = worker[w].intent
              /\ worker'[w].started = worker[w].started
              /\ worker'[w].completed = worker[w].completed
              /\ (worker'[w].pc = "finishing") = (worker[w].pc = "finishing"),
           \A w \in Workers : worker'[w].pc = "claiming" => worker'[w].started <= now'
    PROVE  Traffic'
<1> USE DEF IInv, Traffic
<1>1. Provenance' /\ Timely'
  BY DEF Provenance, Timely, Active, Terminal
<1>2. ASSUME NEW w \in Workers, InFlight(w)'
      PROVE  ClaimOK(w)'
  <2> DEFINE i == worker[w].intent
  <2>1. ClaimOK(w) /\ i \in Intents /\ worker'[w].intent = i
    BY <1>2 DEF Claims, Locals
  <2>2. /\ worker[w].started \in Nat /\ now \in Nat /\ now' \in Nat
        /\ worker'[w].started = worker[w].started
    BY <1>2 DEF TypeOK, Worker
  <2>3. Lapsed(w) => Lapsed(w)'
    BY <2>2, TimingAssumption DEF Lapsed
  <2>4. CASE db'.row[i] = db.row[i]
    BY <2>1, <2>2, <2>3, <2>4 DEF ClaimOK
  <2>5. CASE db.row[i].status \in Active /\ db'.row[i].status \in Terminal
    BY <2>1, <2>2, <2>3, <2>5 DEF ClaimOK, Active, Terminal
  <2> QED BY <2>1, <2>4, <2>5
<1>3. Claims'
  <2>1. \A w \in Workers : worker'[w].pc = "finishing" => InFlight(w)'
    BY DEF InFlight
  <2> QED BY <1>2, <2>1 DEF Claims
<1>4. OneLiveSender'
  <2>1. \A w \in Workers : (InFlight(w)' /\ Lapsed(w)) => Lapsed(w)'
    BY TimingAssumption DEF Lapsed, TypeOK, Worker
  <2> QED BY <2>1 DEF OneLiveSender
<1>5. ASSUME NEW s \in sent
      PROVE  SendOK(s)'
  <2>1. SendOK(s) /\ s.intent \in Intents
    BY DEF TypeOK, Send
  <2>2. CASE db'.row[s.intent] = db.row[s.intent]
    BY <2>1, <2>2 DEF SendOK
  <2>3. CASE db.row[s.intent].status \in Active /\ db'.row[s.intent].status \in Terminal
    BY <2>1, <2>3 DEF SendOK, Active, Terminal
  <2> QED BY <2>1, <2>2, <2>3
<1>6. SendsSpaced'
  BY DEF SendsSpaced
<1> QED BY <1>1, <1>3, <1>4, <1>5, <1>6

\* A new intent has no claim and no send.
LEMMA EnqueueTraffic ==
    ASSUME IInv, NEW i \in Intents, NEW lag \in 0..MaxLag, Enqueue(i, lag)
    PROVE  Traffic'
<1> USE DEF IInv, Traffic
<1>1. /\ born[i] = Null /\ born' = [born EXCEPT ![i] = epoch]
      /\ UNCHANGED <<now, backup, worker, sent, epoch>>
      /\ epoch \in Nat /\ born \in [Intents -> Nat \cup {Null}]
  BY DEF Enqueue, TypeOK
<1>2. db.row[i].status = "ABSENT" /\ (backup # Null => backup.row[i].status = "ABSENT")
  BY <1>1 DEF Provenance
<1>3. /\ db'.row[i].status = "PENDING"
      /\ db'.row[i].next_attempt_at = db'.intent[i].created_at
      /\ db'.intent[i].created_at \in Nat
      /\ \A j \in Intents : j # i => db'.row[j] = db.row[j] /\ db'.intent[j] = db.intent[j]
  BY TimingAssumption DEF Enqueue, TypeOK, Database
<1>4. \A w \in Workers : InFlight(w) => worker[w].intent # i /\ worker[w].intent \in Intents
  BY <1>2 DEF Claims, ClaimOK, Locals
<1>5. \A s \in sent : s.intent # i /\ s.intent \in Intents
  BY <1>1, NullAssumption DEF SendOK, TypeOK, Send
<1>6. Provenance' /\ Timely'
  BY <1>1, <1>2, <1>3, NullAssumption DEF Provenance, Timely
<1>7. ASSUME NEW w \in Workers, InFlight(w)'
      PROVE  ClaimOK(w)'
  <2>1. ClaimOK(w) /\ worker[w].intent # i /\ worker[w].intent \in Intents
    BY <1>1, <1>4, <1>7 DEF Claims, InFlight
  <2> QED BY <1>1, <1>3, <2>1 DEF ClaimOK, Lapsed
<1>8. Claims'
  BY <1>1, <1>7 DEF Claims, InFlight
<1>9. OneLiveSender' /\ SendsSpaced'
  BY <1>1 DEF OneLiveSender, SendsSpaced, InFlight, Lapsed
<1>10. ASSUME NEW s \in sent'
       PROVE  SendOK(s)'
  BY <1>1, <1>3, <1>5 DEF SendOK, InFlight
<1> QED BY <1>6, <1>8, <1>9, <1>10

\* A new claim finds every earlier claim on its intent lapsed, and starts at least a
\* lease or a retry delay after every earlier claim and send.
LEMMA ClaimTraffic ==
    ASSUME IInv, TypeOK', NEW w \in Workers, ClaimOne(w)
    PROVE  Traffic'
<1> USE DEF IInv, Traffic
<1> DEFINE at == worker[w].started
           rows == ExpireRows(db, at)
<1>1. PICK i \in Due(db, at) :
         /\ db' = [db EXCEPT !.row = [rows EXCEPT ![i] = Leased(@, w, at)]]
         /\ worker' = [worker EXCEPT ![w] = [@ EXCEPT !.pc = "checking", !.intent = i,
                                                      !.generation = db.generation]]
  BY DEF ClaimOne
<1>2. /\ i \in Intents /\ at \in Nat /\ now \in Nat /\ at <= now /\ db \in Database
      /\ worker[w].pc = "claiming" /\ rows \in [Intents -> DeliveryState]
      /\ UNCHANGED <<now, backup, sent, epoch, born>>
  BY ExpireType DEF Due, TypeOK, Worker, ClaimOne, Claims
<1>3. /\ db'.intent = db.intent
      /\ db'.row[i].status = "PROCESSING" /\ db'.row[i].lease_owner = w
      /\ db'.row[i].lease_until = at + LeaseSeconds
      /\ \A j \in Intents : j # i => db'.row[j] = rows[j]
  BY <1>1, <1>2, LeasedType DEF Database
<1>4. \A j \in Intents :
         \/ rows[j] = db.row[j]
         \/ db.row[j].status \in Active /\ rows[j].status = "EXPIRED"
  <2>1. \A j \in Intents : db.row[j] \in DeliveryState
    BY <1>2 DEF Database
  <2> QED BY <1>2, <2>1, ExpireType, SettleType DEF Terminal
<1>5. /\ rows[i] = db.row[i] /\ db.row[i].status \in Active
      /\ db.intent[i].created_at <= at /\ at < db.intent[i].expires_at
      /\ \/ db.row[i].status \in {"PENDING", "RETRY_WAIT"} /\ db.row[i].next_attempt_at <= at
         \/ db.row[i].status = "PROCESSING" /\ db.row[i].lease_until <= at
  <2>1. RowOK(db, i) /\ db.intent[i] \in Intent /\ db.row[i] \in DeliveryState
    BY <1>2 DEF DatabaseOK, Database
  <2>2. /\ db.intent[i].expires_at > at
        /\ rows[i].status \in Active
    BY DEF Due, Active
  <2>3. rows[i] = db.row[i]
    BY <1>2, <1>4, <2>2 DEF Active
  <2>4. \/ /\ db.row[i].status \in {"PENDING", "RETRY_WAIT"}
           /\ db.row[i].next_attempt_at = Null \/ db.row[i].next_attempt_at <= at
        \/ db.row[i].status = "PROCESSING" /\ db.row[i].lease_until <= at
    BY <2>3 DEF Due
  <2> QED BY <1>2, <2>1, <2>2, <2>3, <2>4, NullAssumption DEF RowOK, Timely, Intent
<1>6. \A j \in Intents : db'.row[j].status = "ABSENT" => db.row[j].status = "ABSENT"
  BY <1>3, <1>4
<1>7. /\ \A v \in Workers : v # w => worker'[v] = worker[v]
      /\ worker'[w].pc = "checking" /\ worker'[w].intent = i /\ worker'[w].started = at
  BY <1>1 DEF TypeOK, Worker
<1> HIDE DEF rows, at
<1>8. Provenance' /\ Timely'
  <2>1. Provenance'
    BY <1>2, <1>3, <1>4, <1>5, <1>6 DEF Provenance, Active
  <2>2. Timely'
    BY <1>2, <1>3, <1>4, <1>5, TimingAssumption DEF Timely, Active, Database, Intent
  <2> QED BY <2>1, <2>2
\* every other claim on i has lapsed and lies in the past of this one
<1>9. ASSUME NEW v \in Workers, v # w, InFlight(v), worker[v].intent = i
      PROVE  Lapsed(v) /\ Spaced(worker[v].started, at)
  <2>1. ClaimOK(v) /\ worker[v].started \in Nat
    BY <1>9 DEF Claims, TypeOK, Worker
  <2>2. Spaced(worker[v].started, at)
    <3>1. RowOK(db, i)
      BY <1>2 DEF DatabaseOK
    <3> QED BY <1>2, <1>5, <1>9, <2>1, <3>1, TimingAssumption DEF ClaimOK, Spaced, RowOK
  <2>3. Lapsed(v)
    BY <1>2, <1>5, <1>9, <2>1, TimingAssumption DEF ClaimOK, Lapsed, Active, Terminal
  <2> QED BY <2>2, <2>3
<1>10. ASSUME NEW s \in sent, s.intent = i
       PROVE  Spaced(s.started, at)
  <2>1. SendOK(s) /\ s.started \in Nat /\ RowOK(db, i)
    BY <1>2 DEF TypeOK, Send, DatabaseOK
  <2> QED BY <1>2, <1>5, <1>10, <2>1, TimingAssumption DEF SendOK, Spaced, RowOK
<1>11. ASSUME NEW v \in Workers, InFlight(v)'
       PROVE  ClaimOK(v)'
  <2>1. CASE v = w
    <3>1. born[i] = epoch
      BY <1>2, <1>5 DEF Provenance
    <3> QED BY <1>2, <1>3, <1>5, <1>7, <2>1, <3>1, TimingAssumption DEF ClaimOK
  <2>2. CASE v # w
    <3>1. InFlight(v) /\ ClaimOK(v) /\ worker'[v] = worker[v] /\ worker[v].intent \in Intents
      BY <1>7, <1>11, <2>2 DEF InFlight, Claims, Locals
    <3>2. Lapsed(v)' = Lapsed(v)
      BY <1>2, <3>1 DEF Lapsed
    <3>3. CASE worker[v].intent = i
      <4>1. Lapsed(v) /\ Spaced(worker[v].started, at) /\ worker[v].started \in Nat
        BY <1>9, <2>2, <3>1, <3>3 DEF TypeOK, Worker
      <4> QED BY <1>2, <1>3, <2>2, <3>1, <3>2, <3>3, <4>1, TimingAssumption
              DEF ClaimOK, Spaced
    <3>4. CASE worker[v].intent # i
      <4> DEFINE j == worker[v].intent
      <4>1. \/ db'.row[j] = db.row[j]
            \/ db.row[j].status \in Active /\ db'.row[j].status = "EXPIRED"
        BY <1>3, <1>4, <3>1, <3>4
      <4> QED BY <1>2, <1>3, <3>1, <3>2, <4>1 DEF ClaimOK, Active, Terminal
    <3> QED BY <3>3, <3>4
  <2> QED BY <2>1, <2>2
<1>12. Claims'
  <2>1. \A v \in Workers : v # w => InFlight(v)' = InFlight(v)
    BY <1>7 DEF InFlight
  <2>2. ASSUME NEW u \in Workers, NEW v \in Workers, u # v, InFlight(u)', InFlight(v)',
               worker'[u].intent = worker'[v].intent
        PROVE  \/ Spaced(worker'[u].started, worker'[v].started)
               \/ Spaced(worker'[v].started, worker'[u].started)
    BY <1>7, <1>9, <2>1, <2>2 DEF Claims
  <2>3. ASSUME NEW v \in Workers
        PROVE  /\ worker'[v].pc = "claiming" => worker'[v].started <= now'
               /\ worker'[v].pc = "finishing" => worker'[v].started <= worker'[v].completed
    BY <1>2, <1>7 DEF Claims
  <2> QED BY <1>11, <2>2, <2>3 DEF Claims
<1>13. OneLiveSender'
  <2>1. \A v \in Workers : v # w => InFlight(v)' = InFlight(v) /\ Lapsed(v)' = Lapsed(v)
    BY <1>2, <1>7 DEF InFlight, Lapsed
  <2> QED BY <1>7, <1>9, <2>1 DEF OneLiveSender
<1>14. ASSUME NEW s \in sent
       PROVE  SendOK(s)'
  <2>1. SendOK(s) /\ s.intent \in Intents /\ s.started \in Nat
    BY DEF TypeOK, Send
  <2>2. ASSUME NEW v \in Workers, InFlight(v)', worker'[v].intent = s.intent
        PROVE  \/ s.worker = v /\ s.started = worker'[v].started /\ worker'[v].pc = "finishing"
               \/ Spaced(s.started, worker'[v].started)
               \/ Spaced(worker'[v].started, s.started)
    BY <1>7, <1>10, <2>1, <2>2 DEF SendOK, InFlight
  <2>3. CASE s.intent = i
    BY <1>2, <1>3, <1>5, <1>10, <2>1, <2>2, <2>3, TimingAssumption DEF SendOK, Spaced, Active
  <2>4. CASE s.intent # i
    <3>1. \/ db'.row[s.intent] = db.row[s.intent]
          \/ db.row[s.intent].status \in Active /\ db'.row[s.intent].status = "EXPIRED"
      BY <1>3, <1>4, <2>1, <2>4
    <3> QED BY <1>2, <1>3, <2>1, <2>2, <3>1 DEF SendOK, Active
  <2> QED BY <2>3, <2>4
<1>15. SendsSpaced'
  BY <1>2 DEF SendsSpaced
<1> QED BY <1>2, <1>8, <1>12, <1>13, <1>14, <1>15

\* A send keeps the distance of its claim from every other claim and send.
LEMMA SendTraffic ==
    ASSUME IInv, TypeOK', NEW w \in Workers, SendMessage(w)
    PROVE  Traffic'
<1> USE DEF IInv, Traffic
<1> DEFINE c == worker[w]
           n == [intent |-> c.intent, worker |-> w, started |-> c.started, epoch |-> epoch]
<1>1. /\ c.pc = "sending" /\ sent' = sent \cup {n}
      /\ UNCHANGED <<now, db, backup, epoch, born>>
  BY DEF SendMessage
<1>2. /\ \A v \in Workers : v # w => worker'[v] = worker[v]
      /\ worker'[w].pc = "finishing" /\ worker'[w].intent = c.intent
      /\ worker'[w].started = c.started /\ worker'[w].completed = now
  BY DEF SendMessage, TypeOK, Worker
<1>3. /\ \A v \in Workers : InFlight(v)' = InFlight(v) /\ Lapsed(v)' = Lapsed(v)
      /\ \A v \in Workers : worker'[v].intent = worker[v].intent
                            /\ worker'[v].started = worker[v].started
  BY <1>1, <1>2 DEF InFlight, Lapsed
<1>4. ClaimOK(w) /\ InFlight(w) /\ c.intent \in Intents /\ c.started \in Nat
  BY <1>1 DEF InFlight, Claims, Locals, TypeOK, Worker
<1>5. Provenance' /\ Timely'
  BY <1>1 DEF Provenance, Timely
<1>6. Claims'
  <2>1. \A v \in Workers : ClaimOK(v)' = ClaimOK(v)
    BY <1>1, <1>2, <1>3 DEF ClaimOK
  <2>2. c.started <= now
    BY <1>4 DEF ClaimOK
  <2> QED BY <1>1, <1>2, <1>3, <2>1, <2>2 DEF Claims
<1>7. OneLiveSender'
  BY <1>3 DEF OneLiveSender
<1>8. PICK m : /\ m.intent = c.intent /\ m.worker = w
               /\ m.started = c.started /\ m.epoch = epoch
               /\ sent' = sent \cup {m}
  BY <1>1
<1> HIDE DEF n
<1>9. ASSUME NEW s \in sent
      PROVE  SendOK(s)'
  <2>1. SendOK(s)
    OBVIOUS
  <2>2. ASSUME NEW v \in Workers, InFlight(v)', worker'[v].intent = s.intent
        PROVE  \/ s.worker = v /\ s.started = worker'[v].started /\ worker'[v].pc = "finishing"
               \/ Spaced(s.started, worker'[v].started)
               \/ Spaced(worker'[v].started, s.started)
    BY <1>1, <1>2, <1>3, <2>1, <2>2 DEF SendOK
  <2> QED BY <1>1, <2>1, <2>2 DEF SendOK
<1>10. SendOK(m)'
  <2>1. ASSUME NEW v \in Workers, InFlight(v)', worker'[v].intent = m.intent
        PROVE  \/ m.worker = v /\ m.started = worker'[v].started /\ worker'[v].pc = "finishing"
               \/ Spaced(m.started, worker'[v].started)
               \/ Spaced(worker'[v].started, m.started)
    BY <1>2, <1>3, <1>4, <1>8, <2>1 DEF Claims
  <2> QED BY <1>1, <1>4, <1>8, <2>1 DEF SendOK, ClaimOK
<1>11. ASSUME NEW s \in sent, s.intent = m.intent
       PROVE  Spaced(s.started, m.started) \/ Spaced(m.started, s.started)
  BY <1>1, <1>4, <1>8, <1>11 DEF SendOK
<1>12. SendsSpaced'
  <2> SUFFICES ASSUME NEW s \in sent', NEW t \in sent', s # t, s.intent = t.intent
               PROVE  Spaced(s.started, t.started) \/ Spaced(t.started, s.started)
    BY DEF SendsSpaced, Spaced
  <2>1. CASE s \in sent /\ t \in sent
    BY <2>1 DEF SendsSpaced, Spaced
  <2>2. CASE s = m \/ t = m
    BY <1>8, <1>11, <2>2
  <2> QED BY <1>8, <2>1, <2>2
<1> QED BY <1>8, <1>5, <1>6, <1>7, <1>9, <1>10, <1>12

\* A recorded outcome settles the row, or makes it due only after every claim and send.
LEMMA FinishTraffic ==
    ASSUME IInv, TypeOK', NEW w \in Workers, Finish(w), ClaimIsCurrent(w)
    PROVE  Traffic'
<1> USE DEF IInv, Traffic
<1> DEFINE c == worker[w]
           i == c.intent
           q == RecordedRow(db.row[i], c.outcome, c.completed)
<1>1. /\ c.pc = "finishing" /\ i \in Intents /\ c.outcome \in Outcomes
      /\ c.completed \in Nat /\ c.started \in Nat /\ db \in Database
      /\ UNCHANGED <<now, backup, sent, epoch, born>>
  BY DEF Finish, Locals, InFlight, TypeOK, Worker
<1>2. /\ db.row[i].status = "PROCESSING" /\ db.row[i].lease_owner = w
      /\ db.row[i] \in DeliveryState
  BY <1>1 DEF ClaimIsCurrent, Database
<1>3. /\ ClaimOK(w) /\ c.started <= c.completed
      /\ db.row[i].lease_until = c.started + LeaseSeconds
  BY <1>1, <1>2 DEF Claims, InFlight, ClaimOK
<1>4. /\ db'.intent = db.intent /\ db'.row[i] = q
      /\ \A j \in Intents : j # i => db'.row[j] = db.row[j]
  BY <1>1 DEF Finish, Database
<1>5. \/ q.status \in Terminal
      \/ q.status = "RETRY_WAIT" /\ q.next_attempt_at = c.completed + RetrySeconds
  BY <1>1, <1>2, RecordedType DEF Terminal
<1>6. /\ \A v \in Workers : v # w => worker'[v] = worker[v]
      /\ worker'[w].pc = "idle"
  BY RestingType DEF Finish, TypeOK
<1> HIDE DEF q, i, c
<1>7. Provenance' /\ Timely'
  <2>1. Provenance'
    BY <1>1, <1>2, <1>4, <1>5 DEF Provenance, Active, Terminal
  <2>2. q.status = "RETRY_WAIT" => db.intent[i].created_at <= q.next_attempt_at
    BY <1>1, <1>3, <1>5, TimingAssumption DEF ClaimOK, c, i, Database, Intent, Terminal
  <2>3. Timely'
    BY <1>4, <1>5, <2>2 DEF Timely, Terminal
  <2> QED BY <2>1, <2>3
<1>8. ASSUME NEW v \in Workers, InFlight(v)'
      PROVE  /\ InFlight(v) /\ v # w /\ worker'[v] = worker[v]
             /\ ClaimOK(v)'
  <2>1. InFlight(v) /\ v # w /\ worker'[v] = worker[v]
    BY <1>6, <1>8 DEF InFlight
  <2>2. ClaimOK(v) /\ Lapsed(v)' = Lapsed(v) /\ worker[v].intent \in Intents
    BY <1>1, <2>1 DEF Claims, Lapsed, Locals
  <2>3. CASE worker[v].intent # i
    BY <1>1, <1>4, <2>1, <2>2, <2>3 DEF ClaimOK
  <2>4. CASE worker[v].intent = i
    <3>1. Lapsed(v) /\ worker[v].started <= c.started /\ worker[v].started \in Nat
      BY <1>1, <1>2, <1>3, <2>1, <2>2, <2>4, TimingAssumption
         DEF ClaimOK, Terminal, TypeOK, Worker
    <3>2. q.status = "RETRY_WAIT" => Spaced(worker[v].started, q.next_attempt_at)
      BY <1>1, <1>3, <1>5, <3>1, TimingAssumption DEF Spaced, Terminal
    <3> QED BY <1>1, <1>2, <1>4, <1>5, <2>1, <2>2, <2>4, <3>1, <3>2 DEF ClaimOK, Terminal
  <2> QED BY <2>1, <2>3, <2>4
<1>9. Claims'
  <2>1. ASSUME NEW v \in Workers
        PROVE  /\ worker'[v].pc = "claiming" => worker'[v].started <= now'
               /\ worker'[v].pc = "finishing" => worker'[v].started <= worker'[v].completed
    BY <1>1, <1>6 DEF Claims
  <2>2. ASSUME NEW u \in Workers, NEW v \in Workers, u # v, InFlight(u)', InFlight(v)',
               worker'[u].intent = worker'[v].intent
        PROVE  \/ Spaced(worker'[u].started, worker'[v].started)
               \/ Spaced(worker'[v].started, worker'[u].started)
    BY <1>8, <2>2 DEF Claims
  <2> QED BY <1>8, <2>1, <2>2 DEF Claims
<1>10. OneLiveSender'
  BY <1>1, <1>8 DEF OneLiveSender, Lapsed
<1>11. ASSUME NEW s \in sent
       PROVE  SendOK(s)'
  <2>1. SendOK(s) /\ s.intent \in Intents /\ s.started \in Nat
    BY DEF TypeOK, Send
  <2>2. CASE s.intent # i
    BY <1>1, <1>4, <1>8, <2>1, <2>2 DEF SendOK
  <2>3. CASE s.intent = i
    <3>1. s.started <= c.started
      BY <1>1, <1>2, <1>3, <2>1, <2>3, TimingAssumption DEF SendOK
    <3>2. q.status = "RETRY_WAIT" => Spaced(s.started, q.next_attempt_at)
      BY <1>1, <1>3, <1>5, <2>1, <3>1, TimingAssumption DEF Spaced, Terminal
    <3> QED BY <1>1, <1>2, <1>4, <1>5, <1>8, <2>1, <2>3, <3>2 DEF SendOK, Terminal
  <2> QED BY <2>2, <2>3
<1>12. SendsSpaced'
  BY <1>1 DEF SendsSpaced
<1> QED BY <1>1, <1>7, <1>9, <1>10, <1>11, <1>12

\* After a restore nothing is outstanding and nothing is in flight.
LEMMA RestoreTraffic ==
    ASSUME IInv, TypeOK', Restore
    PROVE  Traffic'
<1> USE DEF IInv, Traffic
<1>1. /\ backup \in Database /\ backup # Null
      /\ UNCHANGED <<now, backup, worker, sent, born>>
      /\ \A w \in Workers : ~InFlight(w) /\ ~InFlight(w)' /\ worker[w].pc # "claiming"
  BY DEF Restore, TypeOK, InFlight
<1>2. /\ db'.intent = backup.intent /\ db'.row = Suppress(backup).row
  BY <1>1, SuppressType DEF Restore, Database
<1>3. ASSUME NEW i \in Intents
      PROVE  /\ db'.row[i].status \notin Active
             /\ (db'.row[i].status = "ABSENT") = (backup.row[i].status = "ABSENT")
  <2>1. backup.row[i] \in DeliveryState
    BY <1>1 DEF Database
  <2>2. Settle(backup.row[i], "CANCELLED").status = "CANCELLED"
    BY <2>1, SettleType DEF Terminal
  <2> QED BY <1>1, <1>2, <2>1, <2>2, SuppressType DEF Active
<1>4. Provenance' /\ Timely'
  BY <1>1, <1>2, <1>3 DEF Provenance, Timely, Active
<1>5. Claims' /\ OneLiveSender' /\ SendsSpaced'
  BY <1>1 DEF Claims, OneLiveSender, SendsSpaced, InFlight
<1>6. ASSUME NEW s \in sent
      PROVE  SendOK(s)'
  <2>1. SendOK(s) /\ s.intent \in Intents
    BY DEF TypeOK, Send
  <2>2. backup.row[s.intent].status # "ABSENT" =>
           /\ db.row[s.intent].status # "ABSENT"
           /\ backup.intent[s.intent] = db.intent[s.intent]
    BY <1>1, <2>1 DEF Provenance
  <2>3. db'.row[s.intent].status \notin Active
    BY <1>3, <2>1
  <2> QED BY <1>1, <1>2, <1>3, <2>1, <2>2, <2>3 DEF SendOK, Active
<1> QED BY <1>1, <1>4, <1>5, <1>6

\* The claims and sends stay in order with the outbox under every step.
LEMMA TrafficStep ==
    ASSUME IInv, TypeOK', [Next]_vars
    PROVE  Traffic'
<1> USE DEF InFlight
<1>1. CASE Tick
  BY <1>1, SettlingTraffic DEF Tick, IInv, Traffic, Claims, TypeOK, Worker
<1>2. ASSUME NEW i \in Intents, NEW lag \in 0..MaxLag, Enqueue(i, lag)
      PROVE  Traffic'
  BY <1>2, EnqueueTraffic
<1>3. CASE SetWebhook \/ CompleteRecovery \/ CreateBackup \/ UNCHANGED vars
  <2>1. /\ db'.row = db.row /\ db'.intent = db.intent
        /\ UNCHANGED <<now, worker, sent, epoch, born>>
        /\ backup' = backup \/ backup' = db
    BY <1>3 DEF SetWebhook, CompleteRecovery, CreateBackup, vars, IInv, TypeOK, Database
  <2>2. now <= now' /\ \A w \in Workers : worker[w].pc = "claiming" => worker[w].started <= now
    BY <2>1 DEF IInv, TypeOK, Traffic, Claims
  <2> QED BY <2>1, <2>2, SettlingTraffic
<1>4. ASSUME NEW w \in Workers,
             Start(w) \/ ReadClock(w) \/ ClaimRefused(w) \/ CheckClaim(w) \/ Die(w)
                \/ ClaimNothing(w) \/ (Finish(w) /\ ~ClaimIsCurrent(w))
      PROVE  Traffic'
  <2>1. UNCHANGED <<now, backup, sent, epoch, born>> /\ now \in Nat /\ now <= now'
    BY <1>4 DEF Start, ReadClock, ClaimRefused, CheckClaim, Die, ClaimNothing, Finish,
                IInv, TypeOK
  <2>2. /\ db'.intent = db.intent
        /\ \A i \in Intents : \/ db'.row[i] = db.row[i]
                              \/ /\ db.row[i].status \in Active
                                 /\ db'.row[i].status \in Terminal
    <3>1. CASE ClaimNothing(w)
      <4>1. /\ db \in Database /\ worker[w].started \in Nat
            /\ \A i \in Intents : db.row[i] \in DeliveryState
        BY DEF IInv, TypeOK, Worker, Database
      <4>2. db'.intent = db.intent /\ db'.row = ExpireRows(db, worker[w].started)
        BY <3>1, <4>1 DEF ClaimNothing, Database
      <4> QED BY <4>1, <4>2, ExpireType, SettleType DEF Terminal
    <3>2. CASE ~ClaimNothing(w)
      BY <1>4, <3>2 DEF Start, ReadClock, ClaimRefused, CheckClaim, Die, Finish
    <3> QED BY <3>1, <3>2
  <2>3. \/ \E pc \in {"idle", "dead"} : worker' = [worker EXCEPT ![w] = Resting(pc)]
        \/ worker' = [worker EXCEPT ![w] = [@ EXCEPT !.pc = "claiming", !.started = now]]
        \/ worker[w].pc = "checking" /\ worker' = [worker EXCEPT ![w].pc = "sending"]
    BY <1>4 DEF Start, ReadClock, ClaimRefused, CheckClaim, Die, ClaimNothing, Finish
  <2>4. \A v \in Workers :
           /\ InFlight(v)' =>
                 /\ InFlight(v)
                 /\ worker'[v].intent = worker[v].intent
                 /\ worker'[v].started = worker[v].started
                 /\ worker'[v].completed = worker[v].completed
                 /\ (worker'[v].pc = "finishing") = (worker[v].pc = "finishing")
           /\ worker'[v].pc = "claiming" => worker'[v].started <= now'
    <3>1. \A v \in Workers : v # w => worker'[v] = worker[v]
      BY <2>3 DEF IInv, TypeOK
    <3>2. worker[w] \in Worker /\ worker \in [Workers -> Worker]
      BY DEF IInv, TypeOK
    <3>3. \/ worker'[w].pc \in {"idle", "dead"}
          \/ worker'[w].pc = "claiming" /\ worker'[w].started = now
          \/ /\ worker[w].pc = "checking" /\ worker'[w].pc = "sending"
             /\ worker'[w].intent = worker[w].intent
             /\ worker'[w].started = worker[w].started
             /\ worker'[w].completed = worker[w].completed
      <4>1. ASSUME NEW pc \in {"idle", "dead"}, worker' = [worker EXCEPT ![w] = Resting(pc)]
            PROVE  worker'[w].pc \in {"idle", "dead"}
        BY <3>2, <4>1, RestingType
      <4>2. CASE worker' = [worker EXCEPT ![w] = [@ EXCEPT !.pc = "claiming", !.started = now]]
        BY <3>2, <4>2 DEF Worker
      <4>3. CASE /\ worker[w].pc = "checking"
                 /\ worker' = [worker EXCEPT ![w].pc = "sending"]
        BY <3>2, <4>3 DEF Worker
      <4> QED BY <2>3, <4>1, <4>2, <4>3
    <3>4. \A v \in Workers : worker[v].pc = "claiming" => worker[v].started <= now'
      BY <2>1 DEF IInv, Traffic, Claims
    <3> QED BY <2>1, <3>1, <3>3, <3>4
  <2> QED BY <2>1, <2>2, <2>4, SettlingTraffic
<1>5. ASSUME NEW w \in Workers, ClaimOne(w) \/ SendMessage(w) \/ (Finish(w) /\ ClaimIsCurrent(w))
      PROVE  Traffic'
  BY <1>5, ClaimTraffic, SendTraffic, FinishTraffic
<1>6. CASE AdvanceGeneration
  <2>1. /\ db' = Suppress(db) /\ db \in Database
        /\ UNCHANGED <<now, backup, worker, sent, epoch, born>> /\ now <= now'
        /\ \A i \in Intents : db.row[i] \in DeliveryState
        /\ \A w \in Workers : worker[w].pc = "claiming" => worker[w].started <= now
    BY <1>6 DEF AdvanceGeneration, IInv, TypeOK, Database, Traffic, Claims
  <2>2. /\ db'.intent = db.intent
        /\ \A i \in Intents : \/ db'.row[i] = db.row[i]
                              \/ /\ db.row[i].status \in Active
                                 /\ db'.row[i].status \in Terminal
    BY <2>1, SuppressType, SettleType DEF Terminal
  <2> QED BY <2>1, <2>2, SettlingTraffic
<1>7. CASE Restore
  BY <1>7, RestoreTraffic
<1> QED BY <1>1, <1>2, <1>3, <1>4, <1>5, <1>6, <1>7 DEF Next, RunOnce

-----------------------------------------------------------------------------
\* IInv holds initially and is preserved by every step of run_once, of time, of the
\* analysis commit, of the owner's settings and of backup, restore and recovery.
THEOREM Invariance == Spec => []IInv
<1>1. Init => IInv
  <2> SUFFICES ASSUME Init PROVE IInv
    OBVIOUS
  <2> USE DEF Init, NewDatabase, InFlight
  <2>1. TypeOK
    <3>1. Resting("new") \in Worker
      BY RestingType
    <3>2. NewDatabase \in Database
      <4>1. [created_at |-> 0, expires_at |-> 0, restore_generation |-> 0] \in Intent
        BY DEF Intent
      <4>2. [status |-> "ABSENT", attempt_count |-> 0, next_attempt_at |-> Null,
             lease_owner |-> Null, lease_until |-> Null] \in DeliveryState
        BY DEF DeliveryState
      <4> QED BY <4>1, <4>2 DEF Database
    <3> QED BY <3>1, <3>2 DEF TypeOK
  <2>2. \A w \in Workers : worker[w].pc = "new"
    BY RestingType
  <2>3. Locals /\ Claims /\ OneLiveSender
    BY <2>2 DEF Locals, Claims, OneLiveSender
  <2>4. \A i \in Intents : db.row[i].status = "ABSENT" /\ db.row[i].attempt_count = 0
    OBVIOUS
  <2>5. DatabaseOK(db)
    BY <2>4, TimingAssumption DEF DatabaseOK, RowOK, Ledger, Active
  <2>6. Provenance /\ Timely
    BY <2>4 DEF Provenance, Timely, Active
  <2>7. SendsSpaced /\ \A s \in sent : SendOK(s)
    BY DEF SendsSpaced
  <2> QED BY <2>1, <2>3, <2>5, <2>6, <2>7 DEF IInv, Traffic
<1>2. IInv /\ [Next]_vars => IInv'
  <2> SUFFICES ASSUME IInv, [Next]_vars PROVE IInv'
    OBVIOUS
  <2>1. TypeOK' /\ Locals'
    BY TypeStep DEF IInv
  <2>2. DatabaseOK(db)' /\ (backup' # Null => DatabaseOK(backup)')
    BY DatabaseStep DEF IInv, Traffic
  <2>3. Traffic'
    BY <2>1, TrafficStep
  <2> QED BY <2>1, <2>2, <2>3 DEF IInv
<1> QED BY <1>1, <1>2, PTL DEF Spec

\* The outbox columns, the claims and the attempt log keep their types.
THEOREM TypeCorrect == Spec => []TypeOK
<1>1. IInv => TypeOK
  BY DEF IInv
<1> QED BY <1>1, Invariance, PTL

\* A second worker works on an intent only when the lease of the first has run out.
THEOREM LeaseExclusion == Spec => []OneLiveSender
<1>1. IInv => OneLiveSender
  BY DEF IInv, Traffic
<1> QED BY <1>1, Invariance, PTL

\* The attempt log is numbered without gap or repetition, bounded by MaxAttempts, and
\* agrees with the delivery status.
THEOREM AttemptAccounting == Spec => []AttemptLedger
<1>1. IInv => AttemptLedger
  BY DEF IInv, DatabaseOK, Ledger, AttemptLedger
<1> QED BY <1>1, Invariance, PTL

\* Two sends of one intent start at least a lease or a retry delay apart.
THEOREM SendSpacing == Spec => []SendsSpaced
<1>1. IInv => SendsSpaced
  BY DEF IInv, Traffic
<1> QED BY <1>1, Invariance, PTL

\* A restore never makes the system send an old notification again.
THEOREM RestoreSuppression == Spec => []NoResendAfterRestore
<1>1. IInv => NoResendAfterRestore
  BY DEF IInv, Traffic, SendOK, NoResendAfterRestore
<1> QED BY <1>1, Invariance, PTL

\* Every send was claimed within the lifetime of its intent.
THEOREM SendLifetime == Spec => []SentInLifetime
<1>1. IInv => SentInLifetime
  BY DEF IInv, Traffic, SendOK, SentInLifetime
<1> QED BY <1>1, Invariance, PTL

\* A settled delivery is never reopened or given another attempt, except by a restore.
THEOREM SettledStaysSettled == Spec => SettledIsFinal
<1> DEFINE Kept == epoch' = epoch =>
               \A i \in Intents : db.row[i].status \in Terminal =>
                   /\ db'.row[i] = db.row[i]
                   /\ \A a \in db'.attempts \ db.attempts : a.intent # i
<1>1. ASSUME IInv, [Next]_vars PROVE [Kept]_vars
  <2> SUFFICES ASSUME Next, epoch' = epoch, NEW i \in Intents, db.row[i].status \in Terminal
               PROVE  /\ db'.row[i] = db.row[i]
                      /\ \A a \in db'.attempts \ db.attempts : a.intent # i
    BY <1>1
  <2>0. db \in Database /\ \A w \in Workers : worker[w] \in Worker
    BY <1>1 DEF IInv, TypeOK
  <2>1. ASSUME NEW j \in Intents, NEW lag \in 0..MaxLag, Enqueue(j, lag)
        PROVE  db'.row[i] = db.row[i] /\ db'.attempts = db.attempts
    <3>1. i # j
      BY <1>1, <2>1 DEF Enqueue, IInv, Traffic, Provenance, Terminal
    <3> QED BY <2>0, <2>1, <3>1 DEF Enqueue, Database
  <2>2. CASE SetWebhook \/ CompleteRecovery
    BY <2>0, <2>2 DEF SetWebhook, CompleteRecovery, Database
  <2>3. ASSUME NEW w \in Workers, ClaimNothing(w)
        PROVE  db'.row[i] = db.row[i] /\ db'.attempts = db.attempts
    <3>1. ExpireRows(db, worker[w].started)[i] = db.row[i]
      BY DEF ExpireRows, Active, Terminal
    <3> QED BY <2>0, <2>3, <3>1 DEF ClaimNothing, Database
  <2>4. ASSUME NEW w \in Workers, ClaimOne(w)
        PROVE  db'.row[i] = db.row[i] /\ db'.attempts = db.attempts
    <3> DEFINE rows == ExpireRows(db, worker[w].started)
    <3>1. rows[i] = db.row[i] /\ rows \in [Intents -> DeliveryState]
      BY <2>0, ExpireType DEF ExpireRows, Active, Terminal, Worker
    <3>2. i \notin Due(db, worker[w].started)
      BY <3>1 DEF Due, Terminal
    <3>3. PICK j \in Due(db, worker[w].started) :
             db' = [db EXCEPT !.row = [rows EXCEPT ![j] = Leased(@, w, worker[w].started)]]
      BY <2>4 DEF ClaimOne
    <3> HIDE DEF rows
    <3> QED BY <2>0, <3>1, <3>2, <3>3 DEF Database
  <2>5. ASSUME NEW w \in Workers, Finish(w)
        PROVE  /\ db'.row[i] = db.row[i]
               /\ \A a \in db'.attempts \ db.attempts : a.intent # i
    <3>1. CASE ClaimIsCurrent(w)
      <4>1. worker[w].intent # i
        BY <3>1 DEF ClaimIsCurrent, Terminal
      <4> QED BY <2>0, <2>5, <3>1, <4>1 DEF Finish, Database
    <3>2. CASE ~ClaimIsCurrent(w)
      BY <2>5, <3>2 DEF Finish
    <3> QED BY <3>1, <3>2
  <2>6. CASE AdvanceGeneration
    BY <2>0, <2>6, SuppressType DEF AdvanceGeneration, Active, Terminal
  <2>7. CASE Restore
    BY <1>1, <2>7 DEF Restore, IInv, TypeOK
  <2> QED
    BY <2>1, <2>2, <2>3, <2>4, <2>5, <2>6, <2>7
       DEF Next, RunOnce, Tick, CreateBackup, Start, ReadClock, ClaimRefused, CheckClaim,
           SendMessage, Die
<1> QED BY <1>1, Invariance, PTL DEF Spec, SettledIsFinal

=============================================================================
