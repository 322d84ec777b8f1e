------------------------------ MODULE Recovery ------------------------------
(***************************************************************************)
(* Source epochs, health reports and watermarks (data/health.py), the      *)
(* quotes they follow, and the way from a restored database back to NORMAL *)
(* (persistence/recovery.py, reconcile in persistence/maintenance.py).     *)
(* One analysis subject; the restored set is the database as it is.        *)
(***************************************************************************)
EXTENDS Integers, FiniteSets

CONSTANTS Epoch,        \* epochs of one provider
          Support,      \* capabilities an OFFICIAL snapshot requires besides QUOTES
          Advanced,     \* capabilities whose watermark somebody advances
          Stamp,        \* source times of quotes: "current", "earlier" and "none"
          Valid,        \* how long a health report is valid
          MaxTime,      \* bound on the clock
          MaxQuotes,    \* bound on quotes per epoch
          MaxRestores,  \* bound on restores
          MaxLogins,    \* bound on owner logins
          MaxWarming    \* bound on commits that are still warming up

ASSUME RecoveryAssumption == MaxTime \in Nat

None == -1

\* Rows of health reports and watermarks have the key (epoch_uid, capability).
Capability == {"QUOTES"} \cup Support
Feed == Epoch \X Capability

VARIABLES
  clock,
  status,      \* market_source_epoch: status of each epoch
  quotes,      \* market_quote of each epoch: [source, received]; source None when unstamped
  mark,        \* capability_watermark: [event, received, rewarm], event None when absent
  report,      \* capability_health_report, the newest one: [at, ok]
  projection,  \* current_state_projection and its commit: [epoch, at, rewarm]
  state,       \* recovery_state
  started,     \* recovery_started_at
  session,     \* the owner session: "none", "active", "expired" or "revoked"
  check,       \* complete_recovery: completed_at after a clean reconcile, or None
  restores, logins, warmings

vars == <<clock, status, quotes, mark, report, projection, state, started, session, check,
          restores, logins, warmings>>

NoMark == [event |-> None, received |-> None, rewarm |-> FALSE]
Active == {e \in Epoch : status[e] = "ACTIVE"}

Init ==
  /\ clock = 0
  /\ status = [e \in Epoch |-> "unused"]
  /\ quotes = [e \in Epoch |-> {}]
  /\ mark = [x \in Feed |-> NoMark]
  /\ report = [x \in Feed |-> [at |-> None, ok |-> FALSE]]
  /\ projection = [epoch |-> None, at |-> None, rewarm |-> FALSE]
  /\ state = "NORMAL" /\ started = None /\ session = "none" /\ check = None
  /\ restores = 0 /\ logins = 0 /\ warmings = 0

Counters == <<restores, logins, warmings>>
Mode == <<state, started, session, check>>

Tick ==
  /\ clock < MaxTime
  /\ clock' = clock + 1
  /\ UNCHANGED <<status, quotes, mark, report, projection, Mode, Counters>>

(***************************************************************************)
(* Acquisition                                                             *)
(***************************************************************************)
\* start_epoch: the active epoch of the provider is retired, its watermarks want a rewarm.
StartEpoch(e) ==
  /\ status[e] = "unused"
  /\ status' = [f \in Epoch |-> CASE f = e -> "ACTIVE"
                                  [] status[f] = "ACTIVE" -> "RETIRED"
                                  [] OTHER -> status[f]]
  /\ mark' = [x \in Feed |-> IF x[1] \in Active /\ mark[x].event # None
                             THEN [mark[x] EXCEPT !.rewarm = TRUE] ELSE mark[x]]
  /\ UNCHANGED <<clock, quotes, report, projection, Mode, Counters>>

\* ingest and correct_quote: a quote of this moment.  It is about this moment or, in a batch that
\* comes late, an earlier one; the native provider stamps the quotes of the continuous sessions
\* (tdx_quote_time) and no others.
SourceTimes == UNION {IF "current" \in Stamp THEN {clock} ELSE {},
                      IF "earlier" \in Stamp THEN 0 .. clock ELSE {},
                      IF "none" \in Stamp THEN {None} ELSE {}}
IngestQuote(e) ==
  /\ e \in Active
  /\ Cardinality(quotes[e]) < MaxQuotes
  /\ \E source \in SourceTimes :
       quotes' = [quotes EXCEPT ![e] = @ \cup {[source |-> source, received |-> clock]}]
  /\ UNCHANGED <<clock, status, mark, report, projection, Mode, Counters>>

\* The times advance is called with: those of a stored quote, or the newest bar of an acquisition
\* that takes place now.
Told(e, c) ==
  IF c = "QUOTES" THEN {[event |-> q.source, received |-> q.received] :
                          q \in {p \in quotes[e] : p.source # None}}
                  ELSE {[event |-> bar, received |-> clock] : bar \in 0 .. clock}

\* FAULT: an older batch moves the watermark back.
AdvanceBackwards(e, c) ==
  /\ c \in Advanced
  /\ \E w \in Told(e, c) :
       mark' = [mark EXCEPT ![<<e, c>>].event = w.event, ![<<e, c>>].received = w.received]
  /\ UNCHANGED <<clock, status, quotes, report, projection, Mode, Counters>>

\* FAULT: the arrival of the first quote is kept.
AdvanceKeepsArrival(e, c) ==
  /\ c \in Advanced
  /\ \E w \in Told(e, c) :
       /\ mark[<<e, c>>].event < w.event
       /\ mark' = [mark EXCEPT ![<<e, c>>].event = w.event]
  /\ UNCHANGED <<clock, status, quotes, report, projection, Mode, Counters>>

\* advance, by the few that call it: the demo replay for QUOTES, the one-shot acquisition for
\* MINUTE_BARS and DAILY_BARS; the cycle of the production worker calls it for none.
AdvanceWatermark(e, c) ==
  /\ c \in Advanced
  /\ \E w \in Told(e, c) :
       /\ mark[<<e, c>>].event < w.event
       /\ mark' = [mark EXCEPT ![<<e, c>>].event = w.event, ![<<e, c>>].received = w.received]
  /\ UNCHANGED <<clock, status, quotes, report, projection, Mode, Counters>>

\* record: one report per moment, or a better one after a failure.
RecordHealth(e, c, ok) ==
  /\ e \in Active
  /\ report[<<e, c>>].at < clock \/ (ok /\ ~report[<<e, c>>].ok)
  /\ report' = [report EXCEPT ![<<e, c>>] = [at |-> clock, ok |-> ok]]
  /\ UNCHANGED <<clock, status, quotes, mark, projection, Mode, Counters>>

\* An OFFICIAL commit on a snapshot whose required capabilities are valid at its as-of time.
Commit(e, warming) ==
  /\ e \in Active
  /\ \A c \in Capability : report[<<e, c>>].ok /\ clock <= report[<<e, c>>].at + Valid
  /\ quotes[e] # {}
  /\ warming => warmings < MaxWarming
  /\ projection' = [epoch |-> e, at |-> clock, rewarm |-> warming]
  /\ warmings' = IF warming THEN warmings + 1 ELSE warmings
  /\ UNCHANGED <<clock, status, quotes, mark, report, Mode, restores, logins>>

(***************************************************************************)
(* Owner sessions                                                          *)
(***************************************************************************)
Data == <<clock, status, quotes, mark, report, projection, state, started, check>>

\* login asks for the password only, whatever the recovery state.
Login ==
  /\ logins < MaxLogins
  /\ session' = "active"
  /\ logins' = logins + 1
  /\ UNCHANGED <<Data, restores, warmings>>

\* An expired session cannot log out, and nothing else writes revoked_at.
Expire == session = "active" /\ session' = "expired" /\ UNCHANGED <<Data, Counters>>
Logout == session = "active" /\ session' = "revoked" /\ UNCHANGED <<Data, Counters>>
Unrevoked == session \in {"active", "expired"}

(***************************************************************************)
(* restore_backup_set, complete_recovery                                   *)
(***************************************************************************)
\* The quote the rebuild puts first: newest source time, then newest arrival.
RebuildOf(qs) ==
  LET stamped == {q \in qs : q.source # None}
  IN IF stamped = {} THEN NoMark
     ELSE LET first == CHOOSE q \in stamped : \A p \in stamped :
                         \/ p.source < q.source
                         \/ p.source = q.source /\ p.received <= q.received
          IN [event |-> first.source, received |-> first.received, rewarm |-> FALSE]

\* _start_recovery: all watermarks are deleted, those of QUOTES are built again.
Rebuilt(e) == [RebuildOf(quotes[e]) EXCEPT !.rewarm = e \in Active /\ RebuildOf(quotes[e]).event # None]
Restore ==
  /\ restores < MaxRestores /\ clock < MaxTime
  /\ state' = "RECOVERING" /\ started' = clock /\ check' = None
  /\ session' = IF Unrevoked THEN "revoked" ELSE session
  /\ projection' = [projection EXCEPT !.rewarm = projection.at # None]
  /\ mark' = [x \in Feed |-> IF x[2] = "QUOTES" THEN Rebuilt(x[1]) ELSE NoMark]
  /\ restores' = restores + 1
  /\ UNCHANGED <<clock, status, quotes, report, logins, warmings>>

\* reconcile(allow_rewarm) finds nothing: no unrevoked session while RECOVERING.
ReconcileClean == state = "RECOVERING" => ~Unrevoked

StartCompletion ==
  /\ check = None
  /\ state = "RECOVERING"
  /\ ReconcileClean
  /\ check' = clock
  /\ UNCHANGED <<clock, status, quotes, mark, report, projection, state, started, session, Counters>>

\* QUOTES of every active epoch, and what the snapshots of the current projections required.
Required == (Active \X {"QUOTES"})
              \cup (IF projection.at = None THEN {} ELSE {projection.epoch} \X Capability)

\* FAULT: a rebuilt watermark counts as fresh.
CapabilityRebuilt(x) ==
  /\ mark[x].event # None
  /\ report[x].at > started /\ report[x].ok /\ report[x].at + Valid > check

\* The watermark and the newest report are both from after the restore.
CapabilityFresh(x) ==
  /\ mark[x].event # None /\ mark[x].received > started
  /\ report[x].at > started /\ report[x].ok /\ report[x].at + Valid > check

SubjectFresh == projection.at # None => ~projection.rewarm /\ projection.at > started

\* The command of complete_recovery: all is fresh, or it raises.
CompleteRecovery ==
  LET ok == /\ state = "RECOVERING"
            /\ \A x \in Required : CapabilityFresh(x)
            /\ SubjectFresh
  IN /\ check # None
     /\ check' = None
     /\ state' = IF ok THEN "NORMAL" ELSE state
     /\ mark' = [x \in Feed |-> IF ok /\ x \in Required
                                THEN [mark[x] EXCEPT !.rewarm = FALSE] ELSE mark[x]]
     /\ UNCHANGED <<clock, status, quotes, report, projection, started, session, Counters>>

Next ==
  \/ Tick
  \/ \E e \in Epoch : \/ StartEpoch(e) \/ IngestQuote(e)
                      \/ \E c \in Capability : \/ AdvanceWatermark(e, c)
                                               \/ \E ok \in BOOLEAN : RecordHealth(e, c, ok)
                      \/ \E warming \in BOOLEAN : Commit(e, warming)
  \/ Login \/ Expire \/ Logout
  \/ Restore \/ StartCompletion \/ CompleteRecovery

Spec == Init /\ [][Next]_vars

\* The restored service runs: time passes, its cycle stores quotes, records reports and commits.
\* The operator repeats what there is to repeat: the one-shot acquisition, which is about bars,
\* and the completion.  Nothing of that advances QUOTES.
Fairness ==
  /\ WF_vars(Tick)
  /\ \A e \in Epoch : /\ WF_vars(IngestQuote(e)) /\ WF_vars(Commit(e, FALSE))
                      /\ \A c \in Capability : WF_vars(RecordHealth(e, c, TRUE))
                      /\ \A c \in Support : WF_vars(AdvanceWatermark(e, c))
  /\ WF_vars(StartCompletion) /\ WF_vars(CompleteRecovery)

FairSpec == Spec /\ Fairness

(***************************************************************************)
(* Properties                                                              *)
(***************************************************************************)
\* Rows and metadata have their shape.
TypeOK ==
  /\ clock \in 0 .. MaxTime
  /\ status \in [Epoch -> {"unused", "ACTIVE", "RETIRED"}]
  /\ Cardinality(Active) <= 1
  /\ \A e \in Epoch : \A q \in quotes[e] : q.source \in 0 .. clock \cup {None}
  /\ \A x \in Feed : mark[x].event = None => ~mark[x].rewarm
  /\ projection.at \in 0 .. clock \cup {None}
  /\ state \in {"NORMAL", "RECOVERING"} /\ started \in 0 .. clock \cup {None}
  /\ session \in {"none", "active", "expired", "revoked"}

\* Leaving RECOVERING means that, since the restore, every required capability told of something
\* received and was seen healthy, QUOTES by a quote that is stored, and the subject was committed:
\* nothing carried over from the set counts.
NormalOnFreshEvidence ==
  [][state = "RECOVERING" /\ state' = "NORMAL" =>
       /\ \A x \in Required :
            /\ mark[x].received > started /\ report[x].at > started /\ report[x].ok
            /\ x[2] = "QUOTES" => \E q \in quotes[x[1]] : q.received > started
       /\ projection.at # None => projection.at > started]_vars

\* health.py:304, recovery.py: a QUOTES watermark is the source time and the arrival of one quote
\* that was stored, whether it was advanced or rebuilt, and at most one epoch is active.
MarkNamesQuote ==
  \A e \in Epoch : mark[<<e, "QUOTES">>].event # None =>
    \E q \in quotes[e] : /\ q.source = mark[<<e, "QUOTES">>].event
                         /\ q.received = mark[<<e, "QUOTES">>].received
WatermarkFollowsQuotes == TypeOK /\ MarkNamesQuote

\* Only a restore can move a watermark back.
WatermarkMonotone ==
  [][restores' = restores => \A x \in Feed : mark'[x].event >= mark[x].event]_vars

\* recovery.py: NORMAL is entered on evidence that is newer than the restore, and nothing but a
\* restore moves a watermark back.
RecoveryOnFreshEvidence == NormalOnFreshEvidence /\ WatermarkMonotone

\* docs/operations/OPERATIONS_RUNBOOK.md:64: live inputs produce healthy watermarks and fresh
\* commits, after which completion succeeds.
RecoveryCompletes == (state = "RECOVERING") ~> (state = "NORMAL")
=============================================================================
