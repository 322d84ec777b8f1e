---------------------------- MODULE MetricRules ----------------------------
(***************************************************************************)
(* The CR-004 market metrics of one sector (market_metrics.py): from the   *)
(* facts of its members, the fitness of the input and the value of every   *)
(* metric.  Amounts and ratios are integers in units of 1 / K.  A value    *)
(* that may be missing is a set: empty when it is, else with one element,  *)
(* so a comprehension over its inputs is missing when one of them is.      *)
(* An input has the fields                                                 *)
(*   member   instrument -> price, pre, close1, close2, close3 (the closes *)
(*            one, two and three windows back), amount1, amount3, previous *)
(*            (amounts), daily: each possibly missing; status, minute (has *)
(*            a complete one) and past, the amount in the same clock       *)
(*            window of each earlier day;                                  *)
(*   phase, final, provider, contextFit, etf and style.                    *)
(***************************************************************************)
EXTENDS Integers, FiniteSets, FiniteSetsExt

CONSTANTS Instrument,  \* the Primary Universe: numbers, in the order of the identities
          Sector,      \* the members of the sector
          Window,      \* minutes of the short window: 5 in the code
          Span         \* market minutes three observations must span: 10 in the code

K == 10000

Clamp(x) == Max({0, Min({K, x})})
Linear(x, low, high) == Clamp(((x - low) * K) \div (high - low))
Positive(a) == {x \in a : x > 0}
Return(a, b) == {(x * K) \div y - K : x \in Positive(a), y \in Positive(b)}
Ratio(a, b) == {(x * K) \div y : x \in a, y \in Positive(b)}
CeilDiv(n, d) == (n + d - 1) \div d
Total(f) == MapThenSumSet(LAMBDA i : f[i], DOMAIN f)

\* The whole function when every member has a value, missing otherwise.
Known(f) ==
  IF DOMAIN f # {} /\ \A i \in DOMAIN f : f[i] # {}
  THEN {[i \in DOMAIN f |-> CHOOSE v \in f[i] : TRUE]} ELSE {}

Kth(f, k) ==
  CHOOSE v \in {f[i] : i \in DOMAIN f} :
    /\ Cardinality({i \in DOMAIN f : f[i] < v}) < k
    /\ k <= Cardinality({i \in DOMAIN f : f[i] <= v})

Median(f) ==
  LET n == Cardinality(DOMAIN f)
  IN IF n % 2 = 1 THEN Kth(f, n \div 2 + 1)
     ELSE (Kth(f, n \div 2) + Kth(f, n \div 2 + 1)) \div 2

Robust(f) == {Median(g) : g \in Known(f)}  \* below twenty members
Above(g, x) == (Cardinality({i \in DOMAIN g : g[i] > x}) * K) \div Cardinality(DOMAIN g)
Breadth(f) == {Above(g, 0) : g \in Known(f)}
Amount(f) == {Total(g) : g \in Known(f)}

\* The k first of f, larger values first and then smaller identities.
Top(f, k) ==
  {i \in DOMAIN f :
     Cardinality({j \in DOMAIN f : f[j] > f[i] \/ (f[j] = f[i] /\ j < i)}) < k}
Part(f, S) == [i \in S |-> f[i]]
HeadOf(f) ==
  Ratio({Total(Part(f, Top(f, Min({5, Max({1, CeilDiv(Cardinality(DOMAIN f), 10)})}))))},
        {Total(f)})
HeadShare(f) == UNION {HeadOf(g) : g \in Known(f)}

---------------------------------------------------------------------------

Suspended(m) == m.status = "SUSPENDED"
ValidQuote(m) == /\ m.status = "VALID"
                 /\ \E x \in m.price : x > 0
                 /\ \E y \in m.pre : y > 0
Active(input) == {i \in Sector : ~Suspended(input.member[i])}
Valid(input) == {i \in Active(input) : ValidQuote(input.member[i])}
Traded(input) ==
  {i \in DOMAIN input.member : ~Suspended(input.member[i]) /\ ValidQuote(input.member[i])}

Days(input) == UNION {DOMAIN input.member[i].past : i \in Sector}
\* FAULT: the history of the members without a quote is left out.
HistoryOfValid(input) ==
  LET pairs == Valid(input) \X Days(input)
  IN IF pairs = {} THEN 0
     ELSE (Cardinality({p \in pairs : input.member[p[1]].past[p[2]] # {}}) * K) \div Cardinality(pairs)

\* historical_coverage of the members that are not suspended.
History(input) ==
  LET pairs == Active(input) \X Days(input)
  IN IF pairs = {} THEN 0
     ELSE (Cardinality({p \in pairs : input.member[p[1]].past[p[2]] # {}}) * K) \div Cardinality(pairs)
Minute(input) ==
  \E i \in Instrument : input.member[i].status = "VALID" /\ input.member[i].minute

Quality(input) ==
  LET valid == Cardinality(Valid(input))
      active == Cardinality(Active(input))
      evaluable == \/ input.phase \in {"CONTINUOUS_AM", "CONTINUOUS_PM"}
                   \/ input.phase = "CLOSED" /\ input.final
  IN IF \/ ~evaluable \/ ~Minute(input) \/ active = 0
        \/ 100 * valid < 70 * active \/ valid < 3
        \/ 100 * History(input) < 70 * K \/ input.provider = "UNFIT"
     THEN "UNFIT"
     ELSE IF \/ 100 * valid < 85 * active \/ 100 * History(input) < 80 * K
             \/ input.provider = "LIMITED" \/ ~input.contextFit \/ valid < 5
     THEN "FIT_WITH_LIMITATIONS"
     ELSE "FIT"

HeadValue(f) == CHOOSE v \in HeadOf(f) : TRUE
\* _historical_baselines: over the days on which every valid member has an amount.
SameClock(input, d) == [i \in Valid(input) |-> input.member[i].past[d]]
Baseline(input, of) ==
  LET whole == {d \in Days(input) : \E g \in Known(SameClock(input, d)) : Total(g) > 0}
  IN IF Cardinality(whole) < 3 THEN {}
     ELSE {Median([d \in whole |->
             LET amount == CHOOSE g \in Known(SameClock(input, d)) : TRUE
             IN IF of = "total" THEN Total(amount) ELSE HeadValue(amount)])}

\* _member_facts and _return_and_breadth over the members S.
Day(input, S) == [i \in S |-> Return(input.member[i].price, input.member[i].pre)]
One(input, S) == [i \in S |-> Return(input.member[i].price, input.member[i].close1)]
Three(input, S) == [i \in S |-> Return(input.member[i].price, input.member[i].close3)]
Before(input, S) == [i \in S |-> Return(input.member[i].close1, input.member[i].close2)]
Field(input, name) == [i \in Valid(input) |-> input.member[i][name]]

Base(input) ==
  LET S == Valid(input) M == Traded(input)
  IN [day |-> Robust(Day(input, S)), sector1 |-> Robust(One(input, S)),
      sector3 |-> Robust(Three(input, S)), before |-> Robust(Before(input, S)),
      market1 |-> Robust(One(input, M)), market3 |-> Robust(Three(input, M)),
      breadth |-> Breadth(One(input, S)), breadthBefore |-> Breadth(Before(input, S)),
      turnover |-> Ratio(Amount(Field(input, "amount1")), Baseline(input, "total")),
      head |-> HeadShare(Field(input, "amount1")), headBaseline |-> Baseline(input, "head")]

\* _core_stats: the returns of the members with the largest trailing amounts, and of the rest.
Core(input) ==
  LET one == One(input, Valid(input))
      eligible == {i \in Valid(input) : input.member[i].daily # {} /\ one[i] # {}}
      trailing == [i \in eligible |-> CHOOSE v \in input.member[i].daily : TRUE]
      core == Top(trailing, Min({10, Max({3, CeilDiv(Cardinality(eligible), 5)})}))
  IN IF Cardinality(eligible) < 3 THEN {}
     ELSE {[core |-> c, rest |-> r, breadth |-> Above(c, 0)] :
             c \in Known(Part(one, core)), r \in Known(Part(one, Valid(input) \ core))}

---------------------------------------------------------------------------

Weigh(a, x, b, y) == Clamp((a * x + b * y) \div 100)
Weigh3(a, x, b, y, c, z) == Clamp((a * x + b * y + c * z) \div 100)

Rise(f) == {Weigh(65, Linear(c, 150, 400), 35, Linear(c - p, 80, 250)) :
              c \in f.sector1, p \in f.before}
HeadConcentration(f) == {Weigh(60, Linear(h, 3500, 6000), 40, Linear(r, 12000, 18000)) :
              h \in f.head, r \in Ratio(f.head, f.headBaseline)}
Abs(x) == IF x < 0 THEN -x ELSE x
Divergence(input, f) ==
  {LET centre == Median(g)
       apart == Median([i \in DOMAIN g |-> Abs(g[i] - centre)])
       against == IF Abs(s) < 20 THEN 0
                  ELSE (Cardinality({i \in DOMAIN g : g[i] * s < 0}) * K) \div Cardinality(DOMAIN g)
   IN Weigh(55, Linear(apart, 60, 200), 45, Linear(against, 3000, 6000)) :
     g \in Known(One(input, Valid(input))), s \in f.sector1}
Crowding(f) == {Weigh3(35, r, 35, Linear(t, 13000, 25000), 30, h) :
                  r \in Rise(f), t \in f.turnover, h \in HeadConcentration(f)}
Liquidity(input) ==
  {Weigh(70, Linear(K - ratio, 2000, 6000),
         30, Linear(K - Above(g, 0), 1000, 3500)) :
     g \in Known(Field(input, "amount1")),
     ratio \in Ratio(Amount(Field(input, "amount1")), Amount(Field(input, "previous")))}
CoreWeakening(input) ==
  {Weigh(65, Linear(Median(c.rest) - Median(c.core), 50, 250),
         35, Linear(5000 - c.breadth, 0, 3000)) : c \in Core(input)}

\* FAULT: only the fall counts, not where the breadth ends.
CollapseOfFall(f) == {Linear(p - c, 500, 2000) : c \in f.breadth, p \in f.breadthBefore}

Collapse(f) == {Weigh(60, Linear(p - c, 1500, 4000), 40, Linear(4500 - c, 0, 2500)) :
                  c \in f.breadth, p \in f.breadthBefore}
Stampede(f) == {Weigh3(45, b, 35, Linear(-s, 150, 400), 20, Linear(t, 13000, 25000)) :
                  b \in Collapse(f), s \in f.sector1, t \in f.turnover}
Chasing(f) == {Clamp((35 * r + 25 * c + 20 * h + 20 * Linear(d, 250, 700)) \div 100) :
                 r \in Rise(f), c \in Crowding(f), h \in HeadConcentration(f), d \in f.day}
Activity(f) ==
  {Weigh3(35, (Linear(s, 30, 120) * (K - Linear(s, 250, 450))) \div K,
          35, Linear(b, 5200, 7200), 30, Linear(t, 12000, 20000)) :
     s \in f.sector1, b \in f.breadth, t \in f.turnover}
HealthyBreadth(f) ==
  {(Linear(b, 5000, 7500) * (K - (40 * h) \div 100)) \div K : b \in f.breadth, h \in HeadConcentration(f)}
RelativeStrength(f) ==
  {Weigh(60, Linear(s1 - m1, 20, 150), 40, Linear(s3 - m3, 30, 250)) :
     s1 \in f.sector1, m1 \in f.market1, s3 \in f.sector3, m3 \in f.market3}
Etf(input, f) == {Weigh(55, Linear(e, 10, 100), 45, Linear(e - m, 10, 80)) :
                    e \in input.etf, m \in f.market1}
Style(input, f) == {Linear(e - m, 10, 100) : e \in input.style, m \in f.market1}

\* One component of _continuity_strengthening over the three values v.
Component(v, floor, tolerance) ==
  LET first == v[2] - v[1] second == v[3] - v[2]
  IN IF \E k \in 1 .. 3 : v[k] <= floor THEN 0
     ELSE IF first >= 0 /\ second >= 0 THEN K
     ELSE IF /\ ~(first < 0 /\ second < 0)
             /\ Min({first, second}) >= -tolerance /\ v[3] >= v[1]
     THEN K \div 2 ELSE 0

Series(o, name) == Known([k \in 1 .. 3 |-> o[k][name]])
\* FAULT: limited observations count.
ContinuityOfAny(o) ==
  IF o = << >> \/ Cardinality({o[k].at : k \in DOMAIN o}) # 3 THEN {}
  ELSE {Weigh3(40, Component(s, 0, 15), 35, Component(b, 5000, 300), 25, Component(t, K, 1000)) :
          s \in Series(o, "strength"), b \in Series(o, "breadth"), t \in Series(o, "turnover")}

\* The observations o, ordered by time.
Continuity(o) ==
  IF \/ o = << >> \/ Cardinality({o[k].at : k \in DOMAIN o}) # 3
     \/ o[3].index - o[1].index < Span
     \/ \E k \in DOMAIN o : o[k].fitness # "FIT"
  THEN {}
  ELSE {Weigh3(40, Component(s, 0, 15), 35, Component(b, 5000, 300), 25, Component(t, K, 1000)) :
          s \in Series(o, "strength"), b \in Series(o, "breadth"), t \in Series(o, "turnover")}

Guardian(input, f) ==
  [RISE_RATE |-> Rise(f), HEAD_CONCENTRATION |-> HeadConcentration(f),
   INTERNAL_DIVERGENCE |-> Divergence(input, f), CROWDING |-> Crowding(f),
   LIQUIDITY_WEAKENING |-> Liquidity(input), CORE_WEAKENING |-> CoreWeakening(input),
   BREADTH_COLLAPSE |-> Collapse(f), STAMPEDE_RISK |-> Stampede(f), T1_CHASING_RISK |-> Chasing(f)]
Scout(input, f, observations) ==
  [EARLY_ACTIVITY |-> Activity(f), HEALTHY_BREADTH |-> HealthyBreadth(f),
   RELATIVE_STRENGTH |-> RelativeStrength(f),
   TURNOVER_CONFIRMATION |-> {Linear(t, 11000, 22000) : t \in f.turnover},
   ETF_CONFIRMATION |-> Etf(input, f), STYLE_SUPPORT |-> Style(input, f),
   LOW_CROWDING |-> {K - c : c \in Crowding(f)},
   CONTINUITY_STRENGTHENING |-> Continuity(observations)]
None(values) == [c \in DOMAIN values |-> {}]

\* MarketMetricProducer.evaluate: UNFIT removes every value, limited input the Scout's.
Output(input, observations) ==
  LET fitness == Quality(input)
      f == Base(input)
      g == Guardian(input, f)
      s == Scout(input, f, observations)
  IN [fitness |-> fitness,
      guardian |-> IF fitness = "UNFIT" THEN None(g) ELSE g,
      scout |-> IF fitness = "FIT" THEN s ELSE None(s)]
============================================================================
