----------------------------- MODULE MCAnalysis -----------------------------
(***************************************************************************)
(* Three scenes of AnalysisParts, each a small set of its behaviours:      *)
(*   quotes       one lineage with corrections, no bar, no report          *)
(*   bars         one version of the quote, two bars, one report           *)
(*   metrics      MetricRunner over market days                            *)
(***************************************************************************)
EXTENDS AnalysisParts, TLC

CONSTANTS w1, w2  \* processes

VARIABLE scene

Symmetry == Permutations({w1, w2}) \cup Permutations(BarUid)

Uncorrected == INSTANCE Evidence WITH MaxVersion <- 1

(***************************************************************************)
(* Market days                                                             *)
(***************************************************************************)
AM == [phase |-> "CONTINUOUS_AM", opens |-> 0, closes |-> 7]
PM == [phase |-> "CONTINUOUS_PM", opens |-> 9, closes |-> 16]
MCSessions == <<AM, PM>>
Minutes == 0 .. 17
Context == 9
Everyone == 1 .. 6 \cup {Context}

\* A day: what each instrument does in the minute m, and what goes wrong.
Slope == [up |-> [i \in Everyone |-> 8 * i],
          flat |-> [i \in Everyone |-> 0],
          down |-> [i \in Everyone |-> -9 * i],
          mixed |-> [i \in Everyone |-> IF i % 2 = 0 THEN 12 ELSE -12]]
Price(trend, i, m) == 1000 + (IF trend = "turn" THEN (IF m <= 12 THEN 12 * m ELSE 300 - 13 * m)
                              ELSE IF trend = "fade" THEN (IF i = 1 /\ m > 13 THEN 156 - 13 * (m - 13) ELSE 12 * m)
                              ELSE Slope[trend][i] * m)
Volume(trend, i, m) == IF trend = "up" /\ i = 1 THEN 20 + 4 * m ELSE 10 + i

Faults == {"none", "lost1", "lost2", "suspended", "hole", "lag", "noContext", "short", "thin", "new"}
StatusOf(fault, i, m) ==
  CASE fault = "lost1" /\ i = 1 /\ m > 4 -> "MISSING"
    [] fault = "lost2" /\ i \in {1, 2} -> "MISSING"
    [] fault = "suspended" /\ i = 3 -> "SUSPENDED"
    [] fault = "noContext" /\ i = Context -> "NO_VALID_QUOTE"
    [] OTHER -> "VALID"
Labelled(fault, i) ==
  (1 .. 7 \cup 10 .. 16) \ (CASE fault = "hole" /\ i = 2 -> {4, 12}
                              [] fault = "lag" /\ i = 2 -> 13 .. 16
                              [] OTHER -> {})
PastMinutes(fault, d, i) ==
  (1 .. 7 \cup 10 .. 16) \ (CASE fault = "short" /\ d <= 3 -> {14}
                              [] fault = "thin" /\ d = 1 /\ i # 2 -> {14, 6}
                              [] fault = "new" /\ i < 3 -> 1 .. 16
                              [] OTHER -> {})

MarketDay(trend, fault, plan, most) ==
  [status |-> [i \in Everyone |-> [m \in Minutes |-> StatusOf(fault, i, m)]],
   price |-> [i \in Everyone |-> [m \in Minutes |-> Price(trend, i, m) + 5]],
   pre |-> [i \in Everyone |-> 1000],
   close |-> [i \in Everyone |-> [m \in Labelled(fault, i) |-> Price(trend, i, m)]],
   amount |-> [i \in Everyone |-> [m \in Labelled(fault, i) |-> Volume(trend, i, m)]],
   daily |-> [i \in Everyone |-> IF fault = "thin" /\ i < 4 THEN {} ELSE {100 + i}],
   past |-> [d \in 1 .. 5 |-> [i \in Everyone |-> [m \in PastMinutes(fault, d, i) |-> 8 + d]]],
   etf |-> {Context}, style |-> {}, plan |-> plan, runs |-> most]

Shadow == [disposition |-> "SHADOW", bundle |-> 1, health |-> "HEALTHY", fitness |-> "FIT",
           capabilities |-> {<<"HEALTHY", "FIT">>}, membershipOfDay |-> TRUE, previousDays |-> TRUE,
           barEpochs |-> {1}, quoteEpochs |-> {1}]
Official == [Shadow EXCEPT !.disposition = "OFFICIAL"]
Limited == [Shadow EXCEPT !.fitness = "FIT_WITH_LIMITATIONS", !.health = "DEGRADED",
                          !.capabilities = {<<"DEGRADED", "FIT_WITH_LIMITATIONS">>}]
Broken == [Shadow EXCEPT !.capabilities = {<<"HEALTHY", "FIT_WITH_LIMITATIONS">>}]
Rebound == [Shadow EXCEPT !.bundle = 2]
Mixed == [Shadow EXCEPT !.quoteEpochs = {2}]

Times == {2, 4, 6, 7, 9, 11, 14, 16}
Trends == {"up", "flat", "down", "mixed", "turn", "fade"}
Often == [m \in {6, 11, 13} |->
            CASE m = 6 -> {Shadow, Limited} [] m = 11 -> {Shadow, Official, Rebound, Mixed} [] OTHER -> {Shadow}]

MCDays ==
  [n \in (Trends \X Faults \X Times) \cup {<<"deep">>} |->
     IF n = <<"deep">> THEN MarketDay("up", "none", Often, 3)
     ELSE MarketDay(n[1], n[2], [m \in {n[3]} |-> {Shadow, Limited, Broken}], 0)]
\* What the proofs assume of the constants holds of these.
ASSUME EvidenceConstants == Inputs!EvidenceAssumption
ASSUME MetricConstants == MetricsAssumption

(***************************************************************************)
(* The scenes                                                              *)
(***************************************************************************)
MCInit ==
  /\ scene \in {"quotes", "bars", "metrics"}
  /\ part = IF scene = "metrics" THEN "metrics" ELSE "evidence"
  /\ AnalysisInit

MCNext ==
  /\ \/ scene = "quotes" /\ Inputs!Next /\ UNCHANGED <<bar, reports, vars>>
     \/ scene = "bars" /\ Uncorrected!Next /\ UNCHANGED vars
     \/ scene = "metrics" /\ Next /\ UNCHANGED evidenceVars
  /\ UNCHANGED <<scene, part>>

MCSpec == MCInit /\ [][MCNext]_<<scene, part, vars, evidenceVars>>
=============================================================================
