---------------------------- MODULE ServiceParts ----------------------------
(***************************************************************************)
(* The writes of the API (ApiWrites) together with the rules behind them:  *)
(* the evaluation a query works through (Evaluation) and the calibration   *)
(* of the thresholds it judges with (Calibration).  A behaviour is of one  *)
(* of them, `part'; the variables of the others stand still.               *)
(***************************************************************************)
EXTENDS ApiWrites

CONSTANTS GuardianCode, ScoutCode,               \* the rules of both
          Caller, Version, Value, Quality,       \* of the evaluation
          Level, Run, MaxRuns, GuardianShare, ScoutShare \* of the calibration

VARIABLE part
VARIABLES value, quality, execution, state, guardian, scout, commit, call
VARIABLES runs, next, count, hits, labelled, fit, codes, pc, validation

evaluationVars == <<value, quality, execution, state, guardian, scout, commit, call>>
calibrationVars == <<runs, next, count, hits, labelled, fit, codes, pc, validation>>

Judge == INSTANCE Evaluation
Calibrator == INSTANCE Calibration WITH failures <- codes

NoEvaluation ==
  /\ value = "none" /\ quality = "none" /\ execution = "none" /\ state = "none"
  /\ guardian = "none" /\ scout = "none" /\ commit = "none" /\ call = "none"
NoCalibration ==
  /\ runs = "none" /\ next = "none" /\ count = "none" /\ hits = "none" /\ labelled = "none"
  /\ fit = "none" /\ codes = "none" /\ pc = "none" /\ validation = "none"

ServiceInit ==
  /\ Init
  /\ \/ part = "api" /\ NoEvaluation /\ NoCalibration
     \/ part = "evaluation" /\ Judge!Init /\ NoCalibration
     \/ part = "calibration" /\ Calibrator!Init /\ NoEvaluation

ServiceNext ==
  /\ \/ part = "api" /\ Next /\ UNCHANGED <<evaluationVars, calibrationVars>>
     \/ part = "evaluation" /\ Judge!Next /\ UNCHANGED <<vars, calibrationVars>>
     \/ part = "calibration" /\ Calibrator!Next /\ UNCHANGED <<vars, evaluationVars>>
  /\ UNCHANGED part

ServiceSpec == ServiceInit /\ [][ServiceNext]_<<part, vars, evaluationVars, calibrationVars>>

\* guardian.py, scout.py: every metric is judged by the version it was recorded with, the two
\* copies of the rules agree, and what a Scout shows of unfit data is suppressed
\* (Evaluation.TypeOK, JudgedByItsVersion, SameAsOfficial, UnfitIsSuppressed).
RulesSound == part = "evaluation" => Judge!RulesSound

\* guardian.py:144: worse inputs never weaken the effect (Evaluation.WorseNeverAllowsMore).
WorseNeverAllowsMore == part = "evaluation" => Judge!WorseNeverAllowsMore

\* guardian.py:168, scout.py: of two callers that find no evaluation, both end with the one that
\* is stored (Evaluation.AnswersAreStored).
AnswersAreStored == part = "evaluation" => Judge!AnswersAreStored

\* calibration.py: a pair passes only on genuine runs and within its shares, and both families
\* end with one verdict whatever was interrupted (Calibration.TypeOK, PassIsSane, OneVerdict,
\* ShareOfFit).
CalibrationSound == part = "calibration" => Calibrator!CalibrationSound
=============================================================================
