------------------------------- MODULE Rules -------------------------------
(***************************************************************************)
(* The Guardian and Scout rules as pure functions (guardian.py, scout.py): *)
(* what a set of metric values, a threshold and the quality of the data    *)
(* decide.  A metric value is a small number in place of parts per         *)
(* million; a metric without a value is not in the domain of the function. *)
(***************************************************************************)
EXTENDS Integers, FiniteSets

(* _RULES of guardian.py: severity and effect of each metric that meets its threshold. *)
GuardianRule ==
  LET high == [severity |-> "HIGH", effect |-> "DOWNGRADE"]
      critical == [severity |-> "CRITICAL", effect |-> "SUPPRESS"]
  IN [RISE_RATE |-> high, HEAD_CONCENTRATION |-> high, INTERNAL_DIVERGENCE |-> high,
      CROWDING |-> high, CORE_WEAKENING |-> high,
      LIQUIDITY_WEAKENING |-> [severity |-> "WARNING", effect |-> "ALLOW_WITH_WARNING"],
      EARLY_SIGNAL_FAILURE |-> [severity |-> "WARNING", effect |-> "DOWNGRADE"],
      BREADTH_COLLAPSE |-> critical, STAMPEDE_RISK |-> critical, T1_CHASING_RISK |-> critical]

(* _RULES of scout.py. *)
ScoutRule == {"EARLY_ACTIVITY", "HEALTHY_BREADTH", "RELATIVE_STRENGTH", "TURNOVER_CONFIRMATION",
              "ETF_CONFIRMATION", "STYLE_SUPPORT", "LOW_CROWDING", "CONTINUITY_STRENGTHENING"}

CONSTANTS GuardianCode, ScoutCode   \* the rules an instance looks at

EffectRank == [ALLOW |-> 0, ALLOW_WITH_WARNING |-> 1, DOWNGRADE |-> 2, SUPPRESS |-> 3, PAUSE |-> 4]
SeverityRank == [NONE |-> 0, INFO |-> 1, WARNING |-> 2, HIGH |-> 3, CRITICAL |-> 4]

Health == {"HEALTHY", "DEGRADED", "UNKNOWN", "UNHEALTHY"}
Fitness == {"FIT", "FIT_WITH_LIMITATIONS", "UNKNOWN", "UNFIT"}

\* max(..., key=rank), with a default.
Worst(S, rank, default) ==
  IF S = {} THEN default ELSE CHOOSE x \in S : \A y \in S : rank[y] <= rank[x]

Blocking(effect) == effect \in {"SUPPRESS", "PAUSE"}

\* guardian_threshold_matches and scout_threshold_matches.
Matches(codes, metrics, threshold) == {c \in codes \cap DOMAIN metrics : metrics[c] >= threshold[c]}

\* What no threshold is needed to know: data that is not good enough to judge.
Unavailable(metrics, available, health, fitness) ==
  \/ ~available
  \/ health \in {"UNKNOWN", "UNHEALTHY"} \/ fitness \in {"UNKNOWN", "UNFIT"}
  \/ ~(GuardianCode \subseteq DOMAIN metrics)

Limited(health, fitness) == health = "DEGRADED" \/ fitness = "FIT_WITH_LIMITATIONS"

\* FAULT: the first rule that matches decides.
DecisionFirst(unavailable, limited, matches) ==
  [matches |-> matches, limitation |-> unavailable \/ limited,
   effect |-> IF unavailable THEN "PAUSE" ELSE IF limited THEN "ALLOW_WITH_WARNING"
              ELSE IF matches = {} THEN "ALLOW" ELSE GuardianRule[CHOOSE c \in matches : TRUE].effect,
   severity |-> "NONE"]

Decision(unavailable, limited, matches) ==
  LET data == IF unavailable THEN {[severity |-> "CRITICAL", effect |-> "PAUSE"]}
              ELSE IF limited THEN {[severity |-> "WARNING", effect |-> "ALLOW_WITH_WARNING"]}
              ELSE {}
      risks == data \cup {GuardianRule[c] : c \in matches}
  IN [matches |-> matches, limitation |-> data # {},
      effect |-> Worst({r.effect : r \in risks}, EffectRank, "ALLOW"),
      severity |-> Worst({r.severity : r \in risks}, SeverityRank, "NONE")]

\* guardian_decision.
GuardianDecision(metrics, threshold, available, health, fitness) ==
  LET unavailable == Unavailable(metrics, available, health, fitness)
  IN Decision(unavailable, Limited(health, fitness),
              IF unavailable THEN {} ELSE Matches(GuardianCode, metrics, threshold))

Status(n) == CASE n = 0 -> "NONE" [] n \in 1 .. 2 -> "OBSERVING" [] n >= 3 -> "ACTIVE"
Strength(n) == CASE n < 3 -> "LOW" [] n \in 3 .. 5 -> "MEDIUM" [] n >= 6 -> "HIGH"

\* FAULT: only a SUPPRESS of the Guardian suppresses.
ScoutDecisionPaused(metrics, threshold, effect) ==
  LET tags == Matches(ScoutCode, metrics, threshold)
  IN [tags |-> tags, status |-> Status(Cardinality(tags)), strength |-> Strength(Cardinality(tags)),
      suppressed |-> effect = "SUPPRESS"]

\* What ScoutService.evaluate makes of the metrics and of the Guardian's effect.
ScoutDecision(metrics, threshold, effect) ==
  LET tags == Matches(ScoutCode, metrics, threshold)
  IN [tags |-> tags, status |-> Status(Cardinality(tags)), strength |-> Strength(Cardinality(tags)),
      suppressed |-> Blocking(effect)]
=============================================================================
