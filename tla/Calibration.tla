---------------------------- MODULE Calibration ----------------------------
(***************************************************************************)
(* CalibrationRunner.evaluate (calibration.py): the stored metric runs of  *)
(* a Shadow or Replay session are checked one by one against a candidate   *)
(* pair of thresholds, counted, and turned into a verdict recorded for     *)
(* both families in two commands, between which the process may die.       *)
(***************************************************************************)
EXTENDS Rules, Sequences

CONSTANTS Level,     \* the candidate threshold of every metric
          Run,       \* metric runs there may be
          MaxRuns,   \* bound on the runs of one calibration
          GuardianShare, ScoutShare  \* percent of FIT runs a rule may match

\* The rules are those of the two tables; the shares are percentages.
CalibrationAssumption ==
  /\ GuardianCode \subseteq DOMAIN GuardianRule /\ ScoutCode \subseteq ScoutRule
  /\ MaxRuns \in Nat /\ GuardianShare \in Nat /\ ScoutShare \in Nat

VARIABLES runs,      \* the metric runs of this calibration
          next,      \* the run to look at
          count,     \* how often each rule matched: Guardian and Scout counters
          hits,      \* and how often on runs labelled for it
          labelled,  \* how often runs were labelled for it
          fit,       \* FIT runs so far
          failures,  \* failure codes so far
          pc,        \* "loop", "register", "guardian", "scout", "done", "refused", "dead"
          validation \* threshold_validation: the verdict of each family for this report

vars == <<runs, next, count, hits, labelled, fit, failures, pc, validation>>

Code == GuardianCode \cup ScoutCode
None == [c \in Code |-> 0]
Threshold == [c \in Code |-> Level]

\* evaluate: the counters of a new attempt.
Init ==
  /\ \E n \in 1 .. MaxRuns : runs \in [1 .. n -> Run]
  /\ next = 1 /\ count = None /\ hits = None /\ labelled = None /\ fit = 0
  /\ failures = {} /\ pc = "loop" /\ validation = << >>

When(condition, code) == IF condition THEN {code} ELSE {}
Plus(counter, codes) == [c \in Code |-> counter[c] + IF c \in codes THEN 1 ELSE 0]
Labels(run) == run.stressed \cup run.broad

RawGuardian(run) == Matches(GuardianCode, run.metrics, Threshold)
RawScout(run) == Matches(ScoutCode, run.metrics, Threshold)
Decide(run) == GuardianDecision(run.metrics, Threshold, TRUE, "HEALTHY", run.fitness)

\* FAULT: matches the Guardian was not available for are counted too.
CountRaw ==
  LET run == runs[next]
  IN /\ pc = "loop" /\ next <= Len(runs) /\ run.lineage
     /\ count' = Plus(count, RawGuardian(run) \cup RawScout(run))
     /\ hits' = Plus(hits, (RawGuardian(run) \cup RawScout(run)) \cap Labels(run))
     /\ labelled' = Plus(labelled, Labels(run))
     /\ fit' = fit + IF run.fitness = "FIT" THEN 1 ELSE 0
     /\ failures' = failures
     /\ next' = next + 1
     /\ UNCHANGED <<runs, pc, validation>>

\* One run, once _verified_matches found that its evidence is what was stored.
Count ==
  LET run == runs[next]
      decision == Decide(run)
      scout == RawScout(run)
      matched == decision.matches \cup scout
  IN /\ pc = "loop" /\ next <= Len(runs) /\ run.lineage
     /\ count' = Plus(count, matched)
     /\ hits' = Plus(hits, matched \cap Labels(run))
     /\ labelled' = Plus(labelled, Labels(run))
     /\ fit' = fit + IF run.fitness = "FIT" THEN 1 ELSE 0
     /\ failures' = failures
          \cup When(scout # {} /\ run.fitness = "UNFIT", "SCOUT_ON_UNFIT_INPUT")
          \cup When(scout # {} /\ run.fitness = "FIT_WITH_LIMITATIONS", "SCOUT_ON_LIMITED_INPUT")
          \cup When(RawGuardian(run) # {} /\ run.fitness = "UNFIT", "GUARDIAN_ON_UNFIT_INPUT")
          \cup When(scout # {} /\ Blocking(decision.effect), "SCOUT_WHILE_GUARDIAN_SUPPRESSED")
          \cup When(matched # {} /\ ~run.continuous, "THRESHOLD_TRIGGER_OUTSIDE_CONTINUOUS_SESSION")
     /\ next' = next + 1
     /\ UNCHANGED <<runs, pc, validation>>

\* Evidence that was altered, or of other thresholds, ends the calibration with an error.
RefuseRun ==
  /\ pc = "loop" /\ next <= Len(runs) /\ ~runs[next].lineage
  /\ pc' = "refused"
  /\ UNCHANGED <<runs, next, count, hits, labelled, fit, failures, validation>>

\* FAULT: the shares are compared with all runs.
ConcludeOfAll ==
  /\ pc = "loop" /\ next > Len(runs)
  /\ failures' = failures
       \cup When(fit = 0, "NO_FIT_EVALUATIONS")
       \cup When(\E c \in GuardianCode : count[c] * 100 > Len(runs) * GuardianShare, "GUARDIAN_ALWAYS_ON")
       \cup When(\E c \in ScoutCode : count[c] * 100 > Len(runs) * ScoutShare, "SCOUT_ALWAYS_ON")
       \cup When(\E c \in GuardianCode : labelled[c] > 0 /\ hits[c] = 0, "GUARDIAN_NEVER_ON_STRESSED")
       \cup When(\E c \in ScoutCode : labelled[c] > 0 /\ hits[c] = 0, "SCOUT_NEVER_ON_STRONG_BROAD")
  /\ pc' = "guardian"
  /\ UNCHANGED <<runs, next, count, hits, labelled, fit, validation>>

\* After the loop: the shares, the rules that never matched, the registered report.
Conclude ==
  /\ pc = "loop" /\ next > Len(runs)
  /\ failures' = failures
       \cup When(fit = 0, "NO_FIT_EVALUATIONS")
       \cup When(fit # 0 /\ \E c \in GuardianCode : count[c] * 100 > fit * GuardianShare, "GUARDIAN_ALWAYS_ON")
       \cup When(fit # 0 /\ \E c \in ScoutCode : count[c] * 100 > fit * ScoutShare, "SCOUT_ALWAYS_ON")
       \cup When(\E c \in GuardianCode : labelled[c] > 0 /\ hits[c] = 0, "GUARDIAN_NEVER_ON_STRESSED")
       \cup When(\E c \in ScoutCode : labelled[c] > 0 /\ hits[c] = 0, "SCOUT_NEVER_ON_STRONG_BROAD")
  /\ pc' = "guardian"
  /\ UNCHANGED <<runs, next, count, hits, labelled, fit, validation>>

Verdict == IF failures = {} THEN "PASS" ELSE "FAIL"

\* record_validation of each family: a command that finds the same report answers with it.
RecordGuardian ==
  /\ pc = "guardian"
  /\ validation' = IF "GUARDIAN" \in DOMAIN validation THEN validation
                   ELSE [f \in DOMAIN validation \cup {"GUARDIAN"} |-> Verdict]
  /\ pc' = "scout"
  /\ UNCHANGED <<runs, next, count, hits, labelled, fit, failures>>

\* FAULT: each family is given the verdict of its own failure codes.
RecordScoutOwn ==
  /\ pc = "scout"
  /\ validation' = [f \in {"GUARDIAN", "SCOUT"} |->
                      IF f \in DOMAIN validation THEN validation[f]
                      ELSE IF failures \cap {"SCOUT_ON_UNFIT_INPUT", "SCOUT_ON_LIMITED_INPUT",
                                "SCOUT_WHILE_GUARDIAN_SUPPRESSED", "SCOUT_ALWAYS_ON",
                                "SCOUT_NEVER_ON_STRONG_BROAD"} = {} THEN "PASS" ELSE "FAIL"]
  /\ pc' = "done"
  /\ UNCHANGED <<runs, next, count, hits, labelled, fit, failures>>

RecordScout ==
  /\ pc = "scout"
  /\ validation' = [f \in {"GUARDIAN", "SCOUT"} |->
                      IF f \in DOMAIN validation THEN validation[f] ELSE Verdict]
  /\ pc' = "done"
  /\ UNCHANGED <<runs, next, count, hits, labelled, fit, failures>>

\* The process dies with the verdict recorded for none or one family; the calibration is run
\* again over the same stored runs, with the same time of observation.
Rerun ==
  /\ pc \in {"guardian", "scout"}
  /\ next' = 1 /\ count' = None /\ hits' = None /\ labelled' = None /\ fit' = 0
  /\ failures' = {} /\ pc' = "loop"
  /\ UNCHANGED <<runs, validation>>

Next == Count \/ RefuseRun \/ Conclude \/ RecordGuardian \/ RecordScout \/ Rerun
Spec == Init /\ [][Next]_vars

(***************************************************************************)
(* Properties                                                              *)
(***************************************************************************)
\* Counters stay within the runs; SCOUT is only recorded after GUARDIAN.
TypeOK ==
  /\ \A c \in Code : hits[c] <= count[c] /\ hits[c] <= labelled[c] /\ count[c] < next
  /\ fit < next /\ next <= Len(runs) + 1
  /\ "SCOUT" \in DOMAIN validation => "GUARDIAN" \in DOMAIN validation

Judged(c, i) == /\ c \in DOMAIN runs[i].metrics /\ runs[i].metrics[c] >= Level
                /\ c \in GuardianCode => ~Unavailable(runs[i].metrics, TRUE, "HEALTHY", runs[i].fitness)
FitRuns == {i \in DOMAIN runs : runs[i].fitness = "FIT"}

\* What calibration.py promises of a pair that passes, without its counters: every run was
\* genuine, nothing was claimed of data or at times that do not allow it, no Scout next to a
\* Guardian that blocks, and no rule is silent on all the runs labelled for it.
Sane ==
  /\ FitRuns # {}
  /\ \A i \in DOMAIN runs :
       /\ runs[i].lineage
       /\ runs[i].fitness = "UNFIT" => RawGuardian(runs[i]) \cup RawScout(runs[i]) = {}
       /\ RawScout(runs[i]) # {} => runs[i].fitness # "FIT_WITH_LIMITATIONS"
                                    /\ ~Blocking(Decide(runs[i]).effect)
       /\ (\E c \in Code : Judged(c, i)) => runs[i].continuous
  /\ \A c \in Code : (\E i \in DOMAIN runs : c \in Labels(runs[i])) =>
                        \E i \in DOMAIN runs : c \in Labels(runs[i]) /\ Judged(c, i)

PassIsSane == \A f \in DOMAIN validation : validation[f] = "PASS" => Sane

\* No rule of a pair that passes matches more than its share of the FIT runs.
ShareOfFit ==
  \A f \in DOMAIN validation : validation[f] = "PASS" =>
    \A c \in Code : 100 * Cardinality({i \in FitRuns : Judged(c, i)})
                      <= (IF c \in GuardianCode THEN GuardianShare ELSE ScoutShare) * Cardinality(FitRuns)

\* Whatever was interrupted and run again, the two families of a pair end with one verdict.
OneVerdict == pc = "done" => validation.GUARDIAN = validation.SCOUT

\* What a verdict of the calibration promises (calibration.py).
CalibrationSound == TypeOK /\ PassIsSane /\ OneVerdict /\ ShareOfFit
=============================================================================
