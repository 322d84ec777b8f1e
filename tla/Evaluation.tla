----------------------------- MODULE Evaluation -----------------------------
(***************************************************************************)
(* The evaluation of one snapshot by the services of the analysis query    *)
(* and of Shadow runs (facts.py, state.py, guardian.py, scout.py): metric  *)
(* facts recorded with the threshold version they are to be compared with, *)
(* then one state, Guardian and Scout evaluation, each stored once however *)
(* many callers ask; and the same rules as the OFFICIAL commit runs them.  *)
(* A threshold version is named by the value it asks of every metric.      *)
(***************************************************************************)
EXTENDS Rules

CONSTANTS Caller,    \* threads evaluating the snapshot
          Version,   \* threshold versions, natural numbers
          Value,     \* values a metric may have
          Quality    \* <<data health, fitness>> a snapshot may have

\* The rules are those of the tables, values and versions are numbers.
EvaluationAssumption ==
  /\ GuardianCode \subseteq DOMAIN GuardianRule /\ GuardianCode # {} /\ ScoutCode \subseteq ScoutRule
  /\ Value \subseteq Nat /\ Version \subseteq Nat /\ Quality \subseteq Health \X Fitness

Null == [null |-> TRUE]
Code == GuardianCode \cup ScoutCode
CodesOf == [GUARDIAN |-> GuardianCode, SCOUT |-> ScoutCode]

VARIABLES
  value,      \* the metrics of the snapshot that have a value
  quality,    \* its quality context
  execution,  \* rule_execution: the versions each family's facts were recorded with
  state,      \* the state evaluation: [available, facts], facts a version of each metric used
  guardian,   \* guardian_evaluation of that state, by whom, or Null
  scout,      \* scout_evaluation of that Guardian evaluation, or Null
  commit,     \* what the OFFICIAL commit decides for the same metrics, or Null
  call        \* what each caller does: [pc, guardian, scout]

vars == <<value, quality, execution, state, guardian, scout, commit, call>>
Snapshot == <<value, quality>>

Init ==
  /\ \E given \in SUBSET Code : value \in [given -> Value]
  /\ quality \in Quality
  /\ execution = [f \in DOMAIN CodesOf |-> {}]
  /\ state = Null /\ guardian = Null /\ scout = Null /\ commit = Null
  /\ call = [c \in Caller |-> [pc |-> "idle", guardian |-> Null, scout |-> Null]]

Threshold(v) == [c \in Code |-> v]
Goto(c, pc) == [call EXCEPT ![c].pc = pc]

\* _record_metrics: one execution per version; asked again, the stored one is used.
RecordMetrics(family, v) ==
  /\ v \notin execution[family]
  /\ execution' = [execution EXCEPT ![family] = @ \cup {v}]
  /\ UNCHANGED <<Snapshot, state, guardian, scout, commit, call>>

\* StateService.evaluate, over facts that are there; one version of a metric is used.
EvaluateState ==
  /\ state = Null
  /\ \E available \in BOOLEAN, used \in SUBSET DOMAIN value :
       /\ used # {}
       /\ \E facts \in [used -> Version] :
            /\ \A f \in DOMAIN CodesOf : \A c \in used \cap CodesOf[f] : facts[c] \in execution[f]
            /\ state' = [available |-> available, facts |-> facts]
  /\ UNCHANGED <<Snapshot, execution, guardian, scout, commit, call>>

\* resolve_thresholds_for_facts.
Versions(codes) == {state.facts[c] : c \in codes \cap DOMAIN state.facts}
Used == [c \in DOMAIN state.facts |-> value[c]]

\* FAULT: the threshold of any of the facts will do.
AskGuardianMixed(c) ==
  LET unavailable == Unavailable(Used, state.available, quality[1], quality[2])
  IN /\ call[c].pc = "idle" /\ state # Null /\ guardian = Null
     /\ \E v \in Versions(GuardianCode) \cup {0} :
          /\ unavailable \/ v # 0
          /\ call' = [Goto(c, "insert") EXCEPT ![c].guardian =
                        [decision |-> GuardianDecision(Used, Threshold(v), state.available,
                                                       quality[1], quality[2]),
                         by |-> c, version |-> v]]
     /\ UNCHANGED <<Snapshot, execution, state, guardian, scout, commit>>

\* GuardianService.evaluate up to its command: a stored evaluation is returned; mixed versions
\* raise, but only when the thresholds are needed.
AskGuardian(c) ==
  LET unavailable == Unavailable(Used, state.available, quality[1], quality[2])
      version == IF unavailable THEN 0 ELSE CHOOSE v \in Versions(GuardianCode) : TRUE
  IN /\ call[c].pc = "idle" /\ state # Null
     /\ CASE guardian # Null -> call' = [Goto(c, "scout") EXCEPT ![c].guardian = guardian]
          [] guardian = Null /\ ~unavailable /\ Cardinality(Versions(GuardianCode)) > 1 ->
               call' = Goto(c, "failed")
          [] OTHER ->
               call' = [Goto(c, "insert") EXCEPT ![c].guardian =
                          [decision |-> GuardianDecision(Used, Threshold(version), state.available,
                                                         quality[1], quality[2]),
                           by |-> c, version |-> version]]
     /\ UNCHANGED <<Snapshot, execution, state, guardian, scout, commit>>

\* FAULT: no UNIQUE(state_evaluation_uid).
InsertGuardianTwice(c) ==
  /\ call[c].pc = "insert"
  /\ guardian' = call[c].guardian /\ call' = Goto(c, "scout")
  /\ UNCHANGED <<Snapshot, execution, state, scout, commit>>

\* Its command; UNIQUE(state_evaluation_uid) refuses the second of two.
InsertGuardian(c) ==
  /\ call[c].pc = "insert"
  /\ IF guardian = Null THEN guardian' = call[c].guardian /\ call' = Goto(c, "scout")
                        ELSE guardian' = guardian /\ call' = Goto(c, "failed")
  /\ UNCHANGED <<Snapshot, execution, state, scout, commit>>

\* ScoutService.evaluate up to its command.
AskScout(c) ==
  LET versions == Versions(ScoutCode)
      version == IF versions = {} THEN 0 ELSE CHOOSE v \in versions : TRUE
      mine == [decision |-> ScoutDecision([k \in ScoutCode \cap DOMAIN state.facts |-> value[k]],
                              Threshold(version), call[c].guardian.decision.effect),
               by |-> c, version |-> version]
  IN /\ call[c].pc = "scout"
     /\ CASE scout # Null -> call' = [Goto(c, "done") EXCEPT ![c].scout = scout]
          [] scout = Null /\ Cardinality(versions) > 1 -> call' = Goto(c, "failed")
          [] OTHER -> call' = [Goto(c, "insertScout") EXCEPT ![c].scout = mine]
     /\ UNCHANGED <<Snapshot, execution, state, guardian, scout, commit>>

InsertScout(c) ==
  /\ call[c].pc = "insertScout"
  /\ IF scout = Null THEN scout' = call[c].scout /\ call' = Goto(c, "done")
                     ELSE scout' = scout /\ call' = Goto(c, "failed")
  /\ UNCHANGED <<Snapshot, execution, state, guardian, commit>>

\* A caller that failed asks again, from the state evaluation on.
Retry(c) ==
  /\ call[c].pc = "failed" /\ guardian # Null
  /\ call' = Goto(c, "idle")
  /\ UNCHANGED <<Snapshot, execution, state, guardian, scout, commit>>

(***************************************************************************)
(* The same rules in analysis_commit.py                                    *)
(***************************************************************************)
\* FAULT: the commit leaves out the warning of limited data.
OfficialGuardianUnlimited(available, threshold) ==
  LET unavailable == Unavailable(value, available, quality[1], quality[2])
  IN Decision(unavailable, FALSE, IF unavailable THEN {} ELSE Matches(GuardianCode, value, threshold))

\* _insert_guardian.
OfficialGuardian(available, threshold) ==
  LET missing == GuardianCode \ DOMAIN value
      unavailable == \/ ~available \/ quality[1] \in {"UNKNOWN", "UNHEALTHY"}
                     \/ quality[2] \in {"UNKNOWN", "UNFIT"} \/ missing # {}
      limited == quality[1] = "DEGRADED" \/ quality[2] = "FIT_WITH_LIMITATIONS"
      met == {c \in GuardianCode \ missing : value[c] >= threshold[c]}
  IN Decision(unavailable, limited, IF unavailable THEN {} ELSE met)

\* _insert_scout.
OfficialScout(effect, threshold) ==
  LET opportunities == {c \in ScoutCode \cap DOMAIN value : value[c] >= threshold[c]}
      count == Cardinality(opportunities)
  IN [tags |-> opportunities, status |-> Status(count), strength |-> Strength(count),
      suppressed |-> effect \in {"SUPPRESS", "PAUSE"}]

\* _metric_execution_facts: one execution of each family for the thresholds in force.
Commit(g, s) ==
  /\ commit = Null /\ g \in execution.GUARDIAN /\ s \in execution.SCOUT
  /\ \E available \in BOOLEAN :
       LET decision == OfficialGuardian(available, Threshold(g))
       IN commit' = [available |-> available, guardian |-> decision, gversion |-> g, sversion |-> s,
                     scout |-> OfficialScout(decision.effect, Threshold(s))]
  /\ UNCHANGED <<Snapshot, execution, state, guardian, scout, call>>

Next ==
  \/ \E f \in DOMAIN CodesOf, v \in Version : RecordMetrics(f, v)
  \/ EvaluateState
  \/ \E c \in Caller : AskGuardian(c) \/ InsertGuardian(c) \/ AskScout(c) \/ InsertScout(c) \/ Retry(c)
  \/ \E g, s \in Version : Commit(g, s)

Spec == Init /\ [][Next]_vars

(***************************************************************************)
(* Properties                                                              *)
(***************************************************************************)
\* Evaluations follow one another: facts, state, Guardian, Scout.
TypeOK ==
  /\ value \in UNION {[given -> Value] : given \in SUBSET Code} /\ quality \in Quality
  /\ execution \in [DOMAIN CodesOf -> SUBSET Version]
  /\ state # Null => DOMAIN state.facts \subseteq DOMAIN value
  /\ guardian # Null => state # Null /\ guardian.by \in Caller
  /\ scout # Null => guardian # Null /\ scout.by \in Caller

\* guardian.py:100 and scout.py:88: whatever versions the facts of an evaluation carry, every
\* metric is judged by the version it was recorded with.
JudgedByItsVersion ==
  /\ guardian # Null => \A c \in GuardianCode \cap DOMAIN state.facts :
       guardian.decision.effect # "PAUSE" =>
         (c \in guardian.decision.matches <=> value[c] >= state.facts[c])
  /\ scout # Null => \A c \in ScoutCode \cap DOMAIN state.facts :
       c \in scout.decision.tags <=> value[c] >= state.facts[c]

\* A caller that gets an answer gets the evaluation that is stored.
AnswersAreStored ==
  \A c \in Caller : /\ call[c].pc \in {"scout", "insertScout", "done"} => call[c].guardian = guardian
                    /\ call[c].pc = "done" => call[c].scout = scout

\* Inputs that are as bad as these or worse: a metric higher or gone, a quality a grade lower.
Grade(q) == IF q \in {"HEALTHY", "FIT"} THEN 0 ELSE IF q \in {"DEGRADED", "FIT_WITH_LIMITATIONS"} THEN 1 ELSE 2
Worse(metrics, q) ==
  {m \in UNION {[given -> Value] : given \in SUBSET DOMAIN metrics} :
     \A c \in DOMAIN m : m[c] >= metrics[c]}
  \X {p \in Quality : \A i \in 1 .. 2 : Grade(p[i]) >= Grade(q[i])}

\* guardian_decision protects: no worse input ever weakens the effect, and data that is not
\* good enough to judge never lets an opportunity stand.
WorseNeverAllowsMore ==
  guardian # Null =>
    LET effect(m, q) == GuardianDecision(m, Threshold(guardian.version), state.available, q[1], q[2]).effect
    IN \A w \in Worse(Used, quality) :
         EffectRank[guardian.decision.effect] <= EffectRank[effect(w[1], w[2])]

\* scout.py:108: what a Scout shows of unfit data is suppressed.
UnfitIsSuppressed ==
  scout # Null /\ scout.decision.status # "NONE"
    /\ (quality[1] \in {"UNKNOWN", "UNHEALTHY"} \/ quality[2] \in {"UNKNOWN", "UNFIT"}
        \/ ~(GuardianCode \subseteq DOMAIN state.facts) \/ ~state.available) =>
    scout.decision.suppressed

\* The rules are written twice: given the same metrics and thresholds, the services and the
\* OFFICIAL commit decide the same.
SameAsOfficial ==
  commit # Null /\ state # Null /\ DOMAIN state.facts = DOMAIN value /\ state.available = commit.available =>
    /\ guardian # Null /\ (\A c \in GuardianCode \cap DOMAIN value : state.facts[c] = commit.gversion) =>
         guardian.decision = commit.guardian
    /\ scout # Null /\ (\A c \in Code \cap DOMAIN value :
          state.facts[c] = IF c \in GuardianCode THEN commit.gversion ELSE commit.sversion) =>
         scout.decision = commit.scout

\* What the two rule services promise (guardian.py, scout.py).
RulesSound == TypeOK /\ JudgedByItsVersion /\ SameAsOfficial /\ UnfitIsSuppressed
=============================================================================
