----------------------------- MODULE Evidence -----------------------------
(***************************************************************************)
(* Quotes, bars, input manifests and snapshots, while retention deletes    *)
(* what no manifest needs (analysis/snapshots.py, persistence/             *)
(* maintenance.py, and the rows written by data/ingestion.py and           *)
(* data/tdx/storage.py).  A writer command is one step; what a caller      *)
(* reads before it submits a command is a step of its own.  One source     *)
(* epoch, one instrument; uids of bars are random, so their order is too.  *)
(***************************************************************************)
EXTENDS Integers, FiniteSets

CONSTANTS Lineage,      \* quote lineages
          BarUid,       \* uids of 1m bars
          Builder,      \* callers of SnapshotBuilder
          Batch,        \* bars deleted per transaction
          Validity,        \* how long a health report is valid
          MaxVersion,   \* bound on corrections
          MaxTime,      \* bound on the clock
          MaxManifests, \* bound on manifests
          MaxReports    \* bound on health reports

Never == -1
Gone == -2

\* A correction follows a first version; the rows of a table are finitely many.
EvidenceAssumption ==
  /\ MaxVersion \in Nat \ {0} /\ MaxTime \in Nat /\ Validity \in Nat
  /\ IsFiniteSet(BarUid)

VARIABLES
  clock,      \* the time
  quotes,     \* market_quote: <<lineage, record_version, received_at>>, current = largest version
  held,       \* lineages with a quality issue or fact evidence
  detailed,   \* quotes with a tdx_quote_detail row
  bar,        \* tdx_bar: source_time of each uid, or Never, Gone
  reports,    \* capability_health_report: [at, ok]
  manifests,  \* input_manifest
  snapshots,  \* evaluation_snapshot: [doc, capture, status]
  builder,    \* what each caller has read
  quoteJob,   \* plan_retention, apply_retention
  barJob      \* plan_tdx_bar_retention, apply_tdx_bar_retention

vars == <<clock, quotes, held, detailed, bar, reports, manifests, snapshots, builder,
          quoteJob, barJob>>

NoDoc == [quotes |-> {}, bars |-> {}, as_of |-> Never, rich |-> FALSE]
NoReport == [at |-> Never, ok |-> FALSE]
IdleBuilder == [pc |-> "idle", doc |-> NoDoc, capture |-> NoReport]
NoJob == [pc |-> "idle", cutoff |-> Never, plan |-> {}, protected |-> {}, catalog |-> {},
          deleted |-> 0]

Versions(l) == {q \in quotes : q[1] = l}
CurrentVersion(l) == CHOOSE v \in {q[2] : q \in Versions(l)} :
                       \A q \in Versions(l) : q[2] <= v
LiveBars == {b \in BarUid : bar[b] >= 0}

Init ==
  /\ clock = 0 /\ quotes = {} /\ held = {} /\ detailed = {}
  /\ bar = [b \in BarUid |-> Never]
  /\ reports = {} /\ manifests = {} /\ snapshots = {}
  /\ builder = [b \in Builder |-> IdleBuilder]
  /\ quoteJob = NoJob /\ barJob = NoJob

Rest == <<builder, quoteJob, barJob>>

Tick == /\ clock < MaxTime
        /\ clock' = clock + 1
        /\ UNCHANGED <<quotes, held, detailed, bar, reports, manifests, snapshots, Rest>>

(***************************************************************************)
(* What acquisition writes                                                 *)
(***************************************************************************)
\* ingest: a lineage without a current quote gets version 1.
IngestQuote(l) ==
  /\ Versions(l) = {}
  /\ quotes' = quotes \cup {<<l, 1, clock>>}
  /\ UNCHANGED <<clock, held, detailed, bar, reports, manifests, snapshots, Rest>>

\* correct_quote: the next version takes over as current.
CorrectQuote(l) ==
  /\ Versions(l) # {}
  /\ CurrentVersion(l) < MaxVersion
  /\ quotes' = quotes \cup {<<l, CurrentVersion(l) + 1, clock>>}
  /\ UNCHANGED <<clock, held, detailed, bar, reports, manifests, snapshots, Rest>>

\* A quality issue or a fact names a quote of the lineage.
HoldLineage(l) ==
  /\ Versions(l) # {}
  /\ held' = held \cup {l}
  /\ UNCHANGED <<clock, quotes, detailed, bar, reports, manifests, snapshots, Rest>>

\* record_quote_detail(s)
RecordDetail(q) ==
  /\ q \in quotes
  /\ detailed' = detailed \cup {q}
  /\ UNCHANGED <<clock, quotes, held, bar, reports, manifests, snapshots, Rest>>

\* record_bars: a source time that is already stored is ignored; a backfill brings old ones.
RecordBar(b, t) ==
  /\ bar[b] = Never /\ t <= clock
  /\ \A c \in LiveBars : bar[c] # t
  /\ bar' = [bar EXCEPT ![b] = t]
  /\ UNCHANGED <<clock, quotes, held, detailed, reports, manifests, snapshots, Rest>>

\* CapabilityHealthService.record
RecordHealth(ok) ==
  /\ Cardinality(reports) < MaxReports
  /\ \A r \in reports : r.at # clock
  /\ reports' = reports \cup {[at |-> clock, ok |-> ok]}
  /\ UNCHANGED <<clock, quotes, held, detailed, bar, manifests, snapshots, Rest>>

(***************************************************************************)
(* SnapshotBuilder                                                         *)
(***************************************************************************)
Acquired == <<clock, quotes, held, detailed, bar, reports>>
Jobs == <<quoteJob, barJob>>

\* What create_manifest checks, before and inside its command.
DocHolds(doc) ==
  /\ doc.quotes \subseteq quotes
  /\ \A q \in doc.quotes : q[3] <= doc.as_of
  /\ doc.bars \subseteq LiveBars
  /\ \A b \in doc.bars : bar[b] <= doc.as_of

Docs == {d \in [quotes : (SUBSET quotes) \ {{}}, bars : SUBSET LiveBars, as_of : 0 .. clock,
                rich : BOOLEAN] : d.bars # {} => d.rich}

\* create_manifest reads; a document that is known already is returned at once.
ReadManifestInputs(b) ==
  /\ builder[b].pc = "idle"
  /\ Cardinality(manifests) < MaxManifests
  /\ \E doc \in Docs \ manifests :
       /\ DocHolds(doc)
       /\ builder' = [builder EXCEPT ![b].pc = "manifest", ![b].doc = doc]
  /\ UNCHANGED <<Acquired, manifests, snapshots, Jobs>>

\* FAULT: the command trusts what was read before it was queued.
InsertManifestUnchecked(b) ==
  /\ builder[b].pc = "manifest"
  /\ manifests' = manifests \cup {builder[b].doc}
  /\ builder' = [builder EXCEPT ![b] = IdleBuilder]
  /\ UNCHANGED <<Acquired, snapshots, Jobs>>

\* The command checks again and inserts; the hash is unique, so the second of two
\* equal documents raises.
InsertManifest(b) ==
  /\ builder[b].pc = "manifest"
  /\ manifests' = IF DocHolds(builder[b].doc) THEN manifests \cup {builder[b].doc} ELSE manifests
  /\ builder' = [builder EXCEPT ![b] = IdleBuilder]
  /\ UNCHANGED <<Acquired, snapshots, Jobs>>

\* _capture_capability: the newest report not after as_of, if it is still valid then.
Newest(as_of) ==
  LET past == {r \in reports : r.at <= as_of}
      last == CHOOSE r \in past : \A x \in past : x.at <= r.at
  IN IF past = {} \/ last.at + Validity < as_of THEN NoReport ELSE last

\* FAULT: validity is left to the reader.
NewestUnaged(as_of) ==
  LET past == {r \in reports : r.at <= as_of}
  IN IF past = {} THEN NoReport ELSE CHOOSE r \in past : \A x \in past : x.at <= r.at

\* FAULT: an expired report still counts.
CaptureStale(b) ==
  \E doc \in manifests :
    /\ builder[b].pc = "idle"
    /\ NewestUnaged(doc.as_of).ok
    /\ builder' = [builder EXCEPT ![b] = [pc |-> "snapshot", doc |-> doc,
                                          capture |-> NewestUnaged(doc.as_of)]]
    /\ UNCHANGED <<Acquired, manifests, snapshots, Jobs>>

\* create_snapshot replays the manifest, finds its bars and captures the required
\* capability; a capability that is not available raises.
CaptureSnapshot(b) ==
  \E doc \in manifests :
    /\ builder[b].pc = "idle"
    /\ doc.bars \subseteq LiveBars
    /\ Newest(doc.as_of).ok
    /\ builder' = [builder EXCEPT ![b] = [pc |-> "snapshot", doc |-> doc,
                                          capture |-> Newest(doc.as_of)]]
    /\ UNCHANGED <<Acquired, manifests, snapshots, Jobs>>

\* The command inserts a draft; an equal snapshot is returned or collides.
InsertSnapshot(b) ==
  LET key == [doc |-> builder[b].doc, capture |-> builder[b].capture]
      known == \E s \in snapshots : s.doc = key.doc /\ s.capture = key.capture
  IN /\ builder[b].pc = "snapshot"
     /\ snapshots' = IF known THEN snapshots
                     ELSE snapshots \cup {[doc |-> key.doc, capture |-> key.capture,
                                           status |-> "DRAFT"]}
     /\ builder' = [builder EXCEPT ![b] = IdleBuilder]
     /\ UNCHANGED <<Acquired, manifests, Jobs>>

\* seal: sealing twice changes nothing.
Seal ==
  \E s \in snapshots :
    /\ s.status = "DRAFT"
    /\ snapshots' = (snapshots \ {s}) \cup {[s EXCEPT !.status = "SEALED"]}
    /\ UNCHANGED <<Acquired, manifests, Rest>>

(***************************************************************************)
(* plan_retention and apply_retention: quotes                              *)
(***************************************************************************)
Stored == <<clock, held, reports, manifests, snapshots, builder>>

ManifestLineages == {q[1] : q \in UNION {m.quotes : m \in manifests}}
\* _read_manifest accepts the first schema version only.
ManifestsReadable == \A m \in manifests : ~m.rich

\* FAULT: each quote is judged by itself.
QuoteCandidatesByRow(cutoff, protected) ==
  {q \in quotes : q[3] < cutoff /\ q[1] \notin held \cup protected}

\* FAULT: facts and quality issues are not looked at.
QuoteCandidatesUnheld(cutoff, protected) ==
  {q \in quotes : Versions(q[1]) = {q} /\ q[3] < cutoff /\ q[1] \notin protected}

\* _quote_candidates: the only version of a lineage, old and unused.
QuoteCandidates(cutoff, protected) ==
  {q \in quotes : /\ Versions(q[1]) = {q}
                  /\ q[3] < cutoff
                  /\ q[1] \notin held \cup protected}

PlanQuoteRetention ==
  /\ quoteJob.pc = "idle"
  /\ \E cutoff \in 0 .. clock - 1 :
       quoteJob' = IF ManifestsReadable
                   THEN [NoJob EXCEPT !.pc = "planned", !.cutoff = cutoff,
                           !.plan = QuoteCandidates(cutoff, ManifestLineages),
                           !.protected = ManifestLineages, !.catalog = manifests]
                   ELSE [NoJob EXCEPT !.pc = "refused"]
  /\ UNCHANGED <<Stored, quotes, detailed, bar, barJob>>

QuotePlanStands ==
  /\ manifests = quoteJob.catalog
  /\ QuoteCandidates(quoteJob.cutoff, quoteJob.protected) = quoteJob.plan

\* apply_retention plans again before it queues its command.
RefreshQuotePlan ==
  /\ quoteJob.pc = "planned"
  /\ quoteJob' = IF QuotePlanStands THEN [quoteJob EXCEPT !.pc = "refreshed"] ELSE NoJob
  /\ UNCHANGED <<Stored, quotes, detailed, bar, barJob>>

\* delete_metadata: the fence is checked again; a tdx_quote_detail row restricts the
\* deletion of its quote and rolls the whole transaction back.
DeleteQuotes ==
  /\ quoteJob.pc = "refreshed"
  /\ quotes' = IF QuotePlanStands /\ quoteJob.plan \cap detailed = {}
               THEN quotes \ quoteJob.plan ELSE quotes
  /\ quoteJob' = NoJob
  /\ UNCHANGED <<Stored, detailed, bar, barJob>>

RefusalSeen ==
  /\ quoteJob.pc = "refused"
  /\ quoteJob' = NoJob
  /\ UNCHANGED <<Stored, quotes, detailed, bar, barJob>>

(***************************************************************************)
(* plan_tdx_bar_retention and apply_tdx_bar_retention                      *)
(***************************************************************************)
ManifestBars == UNION {m.bars : m \in manifests}
BarCandidates(cutoff, protected) == {b \in LiveBars \ protected : bar[b] < cutoff}

PlanBarRetention ==
  /\ barJob.pc = "idle"
  /\ \E cutoff \in 0 .. clock - 1 :
       barJob' = [NoJob EXCEPT !.pc = "planned", !.cutoff = cutoff,
                    !.plan = BarCandidates(cutoff, ManifestBars),
                    !.protected = ManifestBars, !.catalog = manifests]
  /\ UNCHANGED <<Stored, quotes, detailed, bar, quoteJob>>

RefreshBarPlan ==
  LET same == /\ BarCandidates(barJob.cutoff, ManifestBars) = barJob.plan
              /\ ManifestBars = barJob.protected /\ manifests = barJob.catalog
  IN /\ barJob.pc = "planned"
     /\ barJob' = IF same /\ barJob.plan # {} THEN [barJob EXCEPT !.pc = "deleting"] ELSE NoJob
     /\ UNCHANGED <<Stored, quotes, detailed, bar, quoteJob>>

BatchesOf(rows) == {s \in SUBSET rows : \/ Cardinality(s) = Batch
                                        \/ s = rows /\ Cardinality(s) < Batch}

\* FAULT: only the plan was fenced, not each batch.
DeleteBarBatchUnfenced ==
  /\ barJob.pc = "deleting"
  /\ barJob.deleted < Cardinality(barJob.plan)
  /\ \E s \in BatchesOf(BarCandidates(barJob.cutoff, barJob.protected)) \ {{}} :
       /\ bar' = [b \in BarUid |-> IF b \in s THEN Gone ELSE bar[b]]
       /\ barJob' = [barJob EXCEPT !.deleted = @ + Cardinality(s)]
  /\ UNCHANGED <<Stored, quotes, detailed, quoteJob>>

\* delete_batch: the catalog is compared, then the first rows of the query go.
DeleteBarBatch ==
  /\ barJob.pc = "deleting"
  /\ barJob.deleted < Cardinality(barJob.plan)
  /\ IF manifests # barJob.catalog
     THEN barJob' = NoJob /\ UNCHANGED bar
     ELSE \E s \in BatchesOf(BarCandidates(barJob.cutoff, barJob.protected)) :
            /\ bar' = [b \in BarUid |-> IF b \in s THEN Gone ELSE bar[b]]
            /\ barJob' = IF s = {} THEN NoJob
                         ELSE [barJob EXCEPT !.deleted = @ + Cardinality(s)]
  /\ UNCHANGED <<Stored, quotes, detailed, quoteJob>>

\* The last reads and the audit command change no evidence: done, or a RetentionError.
FinishBarRetention ==
  /\ barJob.pc = "deleting"
  /\ barJob.deleted >= Cardinality(barJob.plan)
  /\ barJob' = NoJob
  /\ UNCHANGED <<Stored, quotes, detailed, bar, quoteJob>>

Next ==
  \/ Tick
  \/ \E l \in Lineage : IngestQuote(l) \/ CorrectQuote(l) \/ HoldLineage(l)
  \/ \E q \in quotes : RecordDetail(q)
  \/ \E b \in BarUid, t \in 0 .. clock : RecordBar(b, t)
  \/ \E ok \in BOOLEAN : RecordHealth(ok)
  \/ \E b \in Builder : \/ ReadManifestInputs(b) \/ InsertManifest(b)
                        \/ CaptureSnapshot(b) \/ InsertSnapshot(b)
  \/ Seal
  \/ PlanQuoteRetention \/ RefreshQuotePlan \/ DeleteQuotes \/ RefusalSeen
  \/ PlanBarRetention \/ RefreshBarPlan \/ DeleteBarBatch \/ FinishBarRetention

Spec == Init /\ [][Next]_vars

(***************************************************************************)
(* Properties                                                              *)
(***************************************************************************)
\* Every table row and every plan has its shape.
TypeOK ==
  /\ clock \in 0 .. MaxTime
  /\ quotes \subseteq Lineage \X (1 .. MaxVersion) \X (0 .. MaxTime)
  /\ held \subseteq Lineage
  /\ bar \in [BarUid -> {Never, Gone} \cup 0 .. MaxTime]
  /\ \A m \in manifests : m.quotes # {} /\ m.as_of <= clock
  /\ \A s \in snapshots : s.doc \in manifests /\ s.status \in {"DRAFT", "SEALED"}
  /\ \A b \in Builder : builder[b].pc \in {"idle", "manifest", "snapshot"}
  /\ quoteJob.pc \in {"idle", "planned", "refreshed", "refused"}
  /\ barJob.pc \in {"idle", "planned", "deleting"}

\* The inputs of a recorded manifest are never deleted, however manifest creation and the
\* two retention jobs interleave between their reads and their commands.
EvidenceStands ==
  \A m \in manifests : m.quotes \subseteq quotes /\ m.bars \subseteq LiveBars

\* A corrected lineage keeps its whole history: retention never leaves a later version
\* without the ones before it.
CorrectionHistoryKept ==
  \A q \in quotes : \A v \in 1 .. q[2] : \E p \in Versions(q[1]) : p[2] = v

\* A quote that a fact or a quality issue rests on stays.
UsedQuotesKept == \A l \in held : Versions(l) # {}

\* Both: what a lineage was is never lost.
LineagesKept == CorrectionHistoryKept /\ UsedQuotesKept

\* A snapshot rests on a report that was healthy and valid at its manifest's as-of time, and on
\* inputs received by then.
SnapshotsSound ==
  \A s \in snapshots : /\ s.capture \in reports /\ s.capture.ok
                       /\ s.capture.at <= s.doc.as_of /\ s.doc.as_of <= s.capture.at + Validity
                       /\ \A q \in s.doc.quotes : q[3] <= s.doc.as_of

\* What a manifest or a snapshot refers to is there and was sound when it was taken.
EvidenceSound == TypeOK /\ EvidenceStands /\ SnapshotsSound

\* maintenance.py:232, "Delete a fenced bar plan in short WriterQueue transactions": the
\* bars that go are bars of the plan.
OnlyPlannedBarsDeleted ==
  [][\A b \in BarUid : bar[b] >= 0 /\ bar'[b] = Gone => b \in barJob.plan]_vars

\* maintenance.py:421, "Apply an unchanged plan through WriterQueue": a plan that still
\* stands when the command runs is carried out.
UnchangedPlanApplies ==
  [][quoteJob.pc = "refreshed" /\ QuotePlanStands /\ quoteJob'.pc = "idle"
       => quoteJob.plan \cap quotes' = {}]_vars

\* docs/operations/OPERATIONS_RUNBOOK.md:85: a malformed manifest or evidence drift fails
\* closed; manifests the builder wrote, whose inputs stand, do not stop retention.
SoundManifestsDoNotRefuse == quoteJob.pc = "refused" => ~EvidenceStands
===========================================================================
