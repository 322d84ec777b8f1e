---------------------------- MODULE AnalysisParts ----------------------------
(***************************************************************************)
(* What an evaluation is made of: MetricRunner over a market day           *)
(* (Metrics), and the quotes, bars, manifests and snapshots it reads while *)
(* retention deletes what no manifest needs (Evidence).  A behaviour is of *)
(* one of them, `part'; the variables of the other stand still.            *)
(***************************************************************************)
EXTENDS Metrics

CONSTANTS Lineage, BarUid, Builder, Batch, Validity,
          MaxVersion, MaxTime, MaxManifests, MaxReports \* of Evidence

VARIABLE part
VARIABLES clock, quotes, held, detailed, bar, reports, manifests, snapshots, builder, quoteJob,
          barJob

evidenceVars == <<clock, quotes, held, detailed, bar, reports, manifests, snapshots, builder,
                  quoteJob, barJob>>

Inputs == INSTANCE Evidence

NoMetrics ==
  /\ name = "none" /\ now = "none" /\ manifest = "none" /\ sealed = "none"
  /\ executions = "none" /\ run = "none" /\ begun = "none"
NoEvidence ==
  /\ clock = "none" /\ quotes = "none" /\ held = "none" /\ detailed = "none" /\ bar = "none"
  /\ reports = "none" /\ manifests = "none" /\ snapshots = "none" /\ builder = "none"
  /\ quoteJob = "none" /\ barJob = "none"

AnalysisInit ==
  \/ part = "metrics" /\ Init /\ NoEvidence
  \/ part = "evidence" /\ Inputs!Init /\ NoMetrics

AnalysisNext ==
  /\ \/ part = "metrics" /\ Next /\ UNCHANGED evidenceVars
     \/ part = "evidence" /\ Inputs!Next /\ UNCHANGED vars
  /\ UNCHANGED part

AnalysisSpec == AnalysisInit /\ [][AnalysisNext]_<<part, vars, evidenceVars>>

\* snapshots.py, maintenance.py: what a manifest or a snapshot refers to is there and was sound
\* when it was taken (Evidence.TypeOK, EvidenceStands, SnapshotsSound).
EvidenceSound == part = "evidence" => Inputs!EvidenceSound

\* maintenance.py: a corrected lineage keeps its whole history, a used one its quotes
\* (Evidence.CorrectionHistoryKept, UsedQuotesKept).
LineagesKept == part = "evidence" => Inputs!LineagesKept

\* metric_runner.py: a stored CONTINUITY_STRENGTHENING rests on three real, FIT snapshots that
\* span enough market minutes whatever failed or ran again, and a return over two windows on
\* whole windows of every valid member (Metrics.ContinuityIsReal, WindowsAreWhole).
MetricsRestOnEvidence == part = "metrics" => ContinuityIsReal /\ WindowsAreWhole

\* market_metrics.py: losing a quote never makes an input fitter, and no evaluation is healthy
\* and collapsing at once (Metrics.DataLossNeverHelps, NeverBothHealthyAndCollapsing).
MetricsAreMonotone == part = "metrics" => DataLossNeverHelps /\ NeverBothHealthyAndCollapsing
=============================================================================
