----------------------------- MODULE MCService ------------------------------
(***************************************************************************)
(* Five scenes of ServiceParts, each a small set of its behaviours.        *)
(*   api          two requests, two query keys, a backup key, two bodies   *)
(*   rules        two rules, two threshold versions, one caller at a time  *)
(*   callers      one version, two callers of the same evaluation          *)
(*   calibration  runs of every kind                                       *)
(*   share        enough runs for the shares                               *)
(***************************************************************************)
EXTENDS ServiceParts, TLC

CONSTANTS c1, c2 \* callers of the evaluation

VARIABLE scene

Symmetry == Permutations(Request) \cup Permutations(QueryKey) \cup Permutations(Body)
              \cup Permutations({c1, c2})

\* What the proofs assume of the constants of each part holds of these.
ASSUME ServiceConstants ==
  WritesAssumption /\ Judge!EvaluationAssumption /\ Calibrator!CalibrationAssumption

\* A rule that warns and a rule that blocks.
MCGuardianCode == {"LIQUIDITY_WEAKENING", "BREADTH_COLLAPSE"}
MCScoutCode == {"EARLY_ACTIVITY", "LOW_CROWDING", "STYLE_SUPPORT"}

\* Qualities: one of each grade.
Grades == {<<"HEALTHY", "FIT">>, <<"DEGRADED", "FIT">>, <<"HEALTHY", "FIT_WITH_LIMITATIONS">>,
           <<"UNKNOWN", "FIT">>, <<"HEALTHY", "UNFIT">>}

(***************************************************************************)
(* Runs of a calibration: the warning met or not, the Scout met or not, or *)
(* no Guardian metric; and runs of which the blocking rule may be met      *)
(***************************************************************************)
Metrics(guardian0, scout0) == [c \in MCGuardianCode \cup {"LOW_CROWDING"} |->
  IF c = guardian0 THEN 1 ELSE IF c = "LOW_CROWDING" THEN scout0 ELSE 0]
MetricSets == {Metrics(g, s) : g \in {"LIQUIDITY_WEAKENING", "none"}, s \in {0, 1}}
                \cup [{"LOW_CROWDING"} -> {0, 1}]
RunsOfAllKinds ==
  [metrics : MetricSets, fitness : {"FIT", "FIT_WITH_LIMITATIONS", "UNFIT"}, continuous : BOOLEAN,
   stressed : {{}, {"LIQUIDITY_WEAKENING"}}, broad : {{}}, lineage : {TRUE}]
  \cup [metrics : MetricSets, fitness : {"FIT"}, continuous : {TRUE},
        stressed : {{}}, broad : {{"LOW_CROWDING"}}, lineage : BOOLEAN]
BlockingRuns ==
  [metrics : {Metrics(g, s) : g \in {"BREADTH_COLLAPSE", "none"}, s \in {0, 1}},
   fitness : {"FIT", "FIT_WITH_LIMITATIONS"}, continuous : {TRUE},
   stressed : {{}}, broad : {{}}, lineage : {TRUE}]
MCRun == RunsOfAllKinds \cup BlockingRuns

(***************************************************************************)
(* The scenes                                                              *)
(***************************************************************************)
\* A calibration sums over its runs: of their orders one is enough.
FitFirst(f) == \A i \in DOMAIN f \ {1} : f[i].fitness = "FIT" => f[i - 1].fitness = "FIT"

MCInit ==
  /\ \/ scene = "api" /\ part = "api"
     \/ /\ scene = "rules" /\ part = "evaluation"
        /\ \E given \in SUBSET (GuardianCode \cup {"EARLY_ACTIVITY"}) : value \in [given -> Value]
     \/ /\ scene = "callers" /\ part = "evaluation"
        /\ \E g \in {{}, GuardianCode}, s \in SUBSET ScoutCode : value = [c \in g \cup s |-> 1]
     \/ /\ scene = "calibration" /\ part = "calibration"
        /\ \E n \in 1 .. 2 : runs \in [1 .. n -> RunsOfAllKinds]
     \/ /\ scene = "share" /\ part = "calibration"
        /\ \E n \in 1 .. MaxRuns : runs \in {f \in [1 .. n -> BlockingRuns] : FitFirst(f)}
  /\ ServiceInit

\* Callers take turns when versions differ; with one version all the facts of the Guardian are
\* used or none is.
OneCaller == Cardinality({c \in Caller : call'[c].pc # "idle"}) <= 1
OneVersion ==
  /\ \A f \in DOMAIN execution : execution'[f] \subseteq {1}
  /\ state' # Judge!Null => GuardianCode \cap DOMAIN state'.facts \in {{}, GuardianCode}

MCNext ==
  /\ ServiceNext /\ UNCHANGED scene
  /\ scene = "rules" => OneCaller
  /\ scene = "callers" => OneVersion

MCSpec == MCInit /\ [][MCNext]_<<scene, part, vars, evaluationVars, calibrationVars>>
=============================================================================
