-------------------------- MODULE MCAnalysisCommit --------------------------
\* Two callers that commit snapshots of one kind of evidence.
EXTENDS AnalysisCommit, TLC

Symmetry == Permutations(Callers)

\* Three opportunities and a risk that suppresses them.
MCRaceEvidence ==
  {[health |-> "DEGRADED", fitness |-> "FIT", facts |-> Codes,
    met |-> {"EARLY_ACTIVITY_PPM", "HEALTHY_BREADTH_PPM", "LOW_CROWDING_PPM", "RISE_RATE_PPM",
             "BREADTH_COLLAPSE_PPM"}]}
=============================================================================
