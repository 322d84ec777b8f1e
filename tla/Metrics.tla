------------------------------ MODULE Metrics ------------------------------
(***************************************************************************)
(* MetricRunner (metric_runner.py) on one market day of one sector: what   *)
(* a sealed snapshot shows of the quotes and bars, the sessions of the     *)
(* TradingClock (clock.py), the continuity observations a run reads from   *)
(* the runs stored before it, and the two commands that store a run.       *)
(* Times are minutes; a bar is labelled with the end of its minute.        *)
(***************************************************************************)
EXTENDS MetricRules, Sequences

CONSTANTS Sessions,    \* continuous sessions in order: [phase, opens, closes]
          Market,      \* name -> a day there may be: status, price, pre, close, amount, daily, past,
                       \*   etf, style, plan (minute -> kinds of snapshot sealed then)
                       \*   and runs, a bound on the runs begun
          MaxSeals,    \* bound on the snapshots
          Runner       \* processes that run metrics, each with a lock of its own

VARIABLES name,        \* which day it is
          now,         \* the minute it is
          manifest,    \* the inputs frozen for the snapshot that is being sealed
          sealed,      \* minute -> snapshot sealed then: its kind and what its manifest
                       \*   says, facts and output
          executions,  \* rule_execution: [at, family, observations, continuity];
                       \*   the other values are those of the snapshot's output
          run,         \* runner -> [pc, at, observations, continuity]
          begun        \* runs begun so far

vars == <<name, now, manifest, sealed, executions, run, begun>>

day == Market[name]

\* A day of the market as it is stored: minutes are numbers, a bar has an integer amount.
DayAssumption(d) ==
  /\ DOMAIN d.plan \subseteq Nat /\ IsFiniteSet(DOMAIN d.past)
  /\ \A i \in Instrument :
       /\ DOMAIN d.close[i] \subseteq Nat /\ DOMAIN d.amount[i] = DOMAIN d.close[i]
       /\ \A m \in DOMAIN d.amount[i] : d.amount[i][m] \in Int
       /\ \A p \in DOMAIN d.past : \A m \in DOMAIN d.past[p][i] : d.past[p][i][m] \in Int

\* import_day checks that a session closes after it opens; that the sessions of a day are
\* entered in their order and do not overlap is assumed of the calendar.
MetricsAssumption ==
  /\ Instrument \subseteq Int /\ IsFiniteSet(Instrument) /\ Sector \subseteq Instrument
  /\ Window \in Nat \ {0} /\ Span \in Nat
  /\ Sessions \in Seq([phase : STRING, opens : Nat, closes : Nat]) /\ Sessions # << >>
  /\ \A k \in DOMAIN Sessions : Sessions[k].opens < Sessions[k].closes
  /\ \A j, k \in DOMAIN Sessions : j < k => Sessions[j].closes <= Sessions[k].opens
  /\ \A n \in DOMAIN Market : DayAssumption(Market[n])

Idle == [pc |-> "idle", at |-> 0, observations |-> {}, continuity |-> {}]

Init ==
  /\ name \in DOMAIN Market /\ now = 0 /\ manifest = {} /\ sealed = << >> /\ executions = {}
  /\ run = [w \in Runner |-> Idle] /\ begun = 0

---------------------------------------------------------------------------
(* TradingClock *)

Session == {Sessions[k] : k \in DOMAIN Sessions}
Closing == Sessions[Len(Sessions)].closes
Label == UNION {(s.opens + 1) .. s.closes : s \in Session}
\* continuous_session_at: sessions are open at their end.
SessionAt(t) == {s \in Session : s.opens <= t /\ t < s.closes}

Phase(t) ==
  IF SessionAt(t) # {} THEN (CHOOSE s \in SessionAt(t) : TRUE).phase
  ELSE IF t < Sessions[1].opens THEN "PRE_OPEN"
  ELSE IF t >= Closing THEN "CLOSED" ELSE "BREAK"

\* market_minutes_between.
MinutesBetween(a, b) ==
  MapThenSumSet(LAMBDA s : Max({0, Min({b, s.closes}) - Max({a, s.opens})}), Session)

\* market_minute_index: missing outside the sessions.
Index(t) == {MinutesBetween(0, t) : s \in {x \in Session : x.opens <= t /\ t <= x.closes}}

---------------------------------------------------------------------------
(* The input of a snapshot *)

\* Bars of instrument i a snapshot at t may name.
Bars(i, t) == {m \in DOMAIN day.close[i] : m <= t}

\* FAULT: bars follow each other across the break.
TailOfBars(i, t) ==
  {m \in Bars(i, t) : Cardinality({x \in Bars(i, t) : x >= m}) <= 3 * Window}

\* _complete_current_tail: the unbroken minutes of the session up to the latest of the bars.
UnbrokenTail(bars, t) ==
  LET latest == IF bars = {} THEN 0 ELSE Max(bars)
      session == IF SessionAt(t) # {} THEN SessionAt(t)
                 ELSE {s \in Session : s.opens < latest /\ latest <= s.closes}
      current == {m \in bars : \E s \in session : s.opens < m /\ m <= s.closes}
      last == Max(current)
  IN IF current = {} THEN {}
     ELSE {m \in current : m > last - 3 * Window /\ m .. last \subseteq current}
CurrentTail(i, t) == UnbrokenTail(Bars(i, t), t)

\* The label n bars from the end of the tail, tail[-n].
Back(tail, n) == {Max(tail) - n + 1 : x \in {1 : y \in {n} \cap (1 .. Cardinality(tail))}}
Close(i, tail, n) == {day.close[i][m] : m \in Back(tail, n)}
Sum(i, S) == MapThenSumSet(LAMBDA m : day.amount[i][m], S)
AmountOver(i, tail, far, near) ==
  {Sum(i, {x \in tail : m <= x /\ x <= Max(tail) - near}) : m \in Back(tail, far)}

\* The amount of the same minutes of an earlier day, missing when one of them is.
SameClockAmount(i, d, clock) ==
  IF clock = {} \/ ~ clock \subseteq DOMAIN day.past[d][i] THEN {}
  ELSE {MapThenSumSet(LAMBDA m : day.past[d][i][m], clock)}

Member(i, t) ==
  LET tail == CurrentTail(i, t)
      valid == day.status[i][t] = "VALID"
      clock == IF tail = {} THEN {} ELSE (Max(tail) - Window + 1) .. Max(tail)
  IN [status |-> day.status[i][t], minute |-> tail # {},
      price |-> IF valid THEN {day.price[i][t]} ELSE {},
      pre |-> IF valid THEN {day.pre[i]} ELSE {},
      close1 |-> Close(i, tail, Window), close2 |-> Close(i, tail, 2 * Window),
      close3 |-> Close(i, tail, 3 * Window),
      amount1 |-> AmountOver(i, tail, Window, 0),
      previous |-> AmountOver(i, tail, 2 * Window, Window),
      daily |-> day.daily[i],
      past |-> [d \in DOMAIN day.past |-> SameClockAmount(i, d, clock)]]

\* _context_metrics: the return of a mapped instrument, and whether it could be had.
ContextReturn(c, t) ==
  Return({day.price[i][t] : i \in {x \in c : day.status[x][t] = "VALID"}},
         UNION {Close(i, CurrentTail(i, t), Window) : i \in c})
ContextFit(c, t) == c = {} \/ ContextReturn(c, t) # {}

Input(t, provider) ==
  [member |-> [i \in Instrument |-> Member(i, t)],
   phase |-> Phase(t), final |-> t = Closing, provider |-> provider,
   contextFit |-> ContextFit(day.etf, t) /\ ContextFit(day.style, t),
   etf |-> ContextReturn(day.etf, t), style |-> ContextReturn(day.style, t)]

\* _continuity_observation of a run of the snapshot t; base_facts is empty for UNFIT input,
\* and every value then missing.
Observed(t) ==
  LET f == sealed[t].facts
      fit == sealed[t].output.fitness # "UNFIT"
  IN [at |-> t, index |-> CHOOSE x \in Index(t) : TRUE, fitness |-> sealed[t].output.fitness,
      strength |-> {s - m : s \in f.sector1, m \in {x \in f.market1 : fit}},
      breadth |-> {x \in f.breadth : fit}, turnover |-> {x \in f.turnover : fit}]

---------------------------------------------------------------------------
(* Operations *)

\* The lineage a run demands of its manifest: the sector's membership of the day, the
\* previous trading days, and quotes and bars of one source epoch.
OneEpoch(kind) == Cardinality(kind.barEpochs) = 1 /\ kind.quoteEpochs \subseteq kind.barEpochs
Proven(kind) == kind.membershipOfDay /\ kind.previousDays /\ OneEpoch(kind)

\* _capability_fit and the quality context of the snapshot.
Provider(kind) ==
  IF \/ kind.fitness = "UNFIT"
     \/ ~ kind.capabilities \subseteq {<<"HEALTHY", "FIT">>, <<"DEGRADED", "FIT_WITH_LIMITATIONS">>}
  THEN "UNFIT"
  ELSE IF kind.health # "HEALTHY" \/ kind.fitness = "FIT_WITH_LIMITATIONS" THEN "LIMITED" ELSE "FIT"

\* A snapshot is sealed within its minute.
Tick == /\ manifest = {} /\ (\E m \in DOMAIN day.plan : now < m) /\ now' = now + 1
        /\ UNCHANGED <<name, manifest, sealed, executions, run, begun>>

\* The caller freezes the inputs of a snapshot when its plan says so, or misses the minute.
Capture ==
  /\ manifest = {} /\ now \in DOMAIN day.plan \ DOMAIN sealed
  /\ Cardinality(DOMAIN sealed) < MaxSeals
  /\ \E kind \in day.plan[now] : manifest' = {[kind |-> kind, input |-> Input(now, Provider(kind))]}
  /\ UNCHANGED <<name, now, sealed, executions, run, begun>>

Seal ==
  /\ \E m \in manifest :
       sealed' = [t \in DOMAIN sealed \cup {now} |->
                    IF t # now THEN sealed[t]
                    ELSE [kind |-> m.kind,
                          facts |-> Base(m.input), output |-> Output(m.input, << >>)]]
  /\ manifest' = {}
  /\ UNCHANGED <<name, now, executions, run, begun>>

\* run, run_official: refused while the runner's lock is held, and without any bar.
Start(w) ==
  /\ run[w].pc = "idle" /\ begun < day.runs
  /\ \E t \in DOMAIN sealed :
       /\ \E i \in Instrument : Bars(i, t) # {}
       /\ run' = [run EXCEPT ![w] = [Idle EXCEPT !.pc = "evaluate", !.at = t]]
  /\ begun' = begun + 1
  /\ UNCHANGED <<name, now, manifest, sealed, executions>>

\* _prior_continuity_observations: rows of stored runs a run of t may take up.
Rows(t) ==
  {e \in executions : /\ e.family = "GUARDIAN" /\ e.at < t
                      /\ sealed[e.at].kind.disposition = "SHADOW"
                      /\ sealed[e.at].kind.bundle = sealed[t].kind.bundle}
Latest(rows) ==
  {R \in SUBSET rows : /\ Cardinality(R) = Min({2, Cardinality(rows)})
                       /\ \A e \in R, x \in rows \ R : x.at <= e.at}

\* _continuity_observations: the prior runs and the current one, or nothing.
Taken(t, R) ==
  LET S == {e.at : e \in R} \cup {t}
  IN IF \/ Cardinality(R) # 2 \/ Cardinality(S) # 3 \/ \E x \in S : Index(x) = {}
        \/ MinutesBetween(Min(S), Max(S)) < Span
     THEN {} ELSE S

InOrder(S) == [k \in 1 .. Cardinality(S) |->
                 CHOOSE x \in S : Cardinality({y \in S : y <= x}) = k]
\* CONTINUITY_STRENGTHENING, the one value the prior runs add to a snapshot's output.
Strengthening(t, S) ==
  IF sealed[t].output.fitness # "FIT" THEN {}
  ELSE Continuity([k \in 1 .. Cardinality(S) |-> Observed(InOrder(S)[k])])

Evaluate(w) ==
  /\ run[w].pc = "evaluate" /\ Proven(sealed[run[w].at].kind)
  /\ \E R \in Latest(Rows(run[w].at)) :
       LET S == Taken(run[w].at, R)
       IN run' = [run EXCEPT ![w].pc = "guardian", ![w].observations = S,
                             ![w].continuity = Strengthening(run[w].at, S)]
  /\ UNCHANGED <<name, now, manifest, sealed, executions, begun>>

Execution(w, family) ==
  [at |-> run[w].at, family |-> family,
   observations |-> run[w].observations, continuity |-> run[w].continuity]

\* record_metrics of each family; the same evidence finds the execution it made before.
RecordGuardian(w) ==
  /\ run[w].pc = "guardian"
  /\ executions' = executions \cup {Execution(w, "GUARDIAN")}
  /\ run' = [run EXCEPT ![w].pc = "scout"]
  /\ UNCHANGED <<name, now, manifest, sealed, begun>>
RecordScout(w) ==
  /\ run[w].pc = "scout"
  /\ executions' = executions \cup {Execution(w, "SCOUT")}
  /\ run' = [run EXCEPT ![w] = Idle]
  /\ UNCHANGED <<name, now, manifest, sealed, begun>>

\* The run ends with an error, of lineage among them, or its process does, and the lock is free again.
Fail(w) ==
  /\ run[w].pc # "idle"
  /\ run' = [run EXCEPT ![w] = Idle]
  /\ UNCHANGED <<name, now, manifest, sealed, executions, begun>>

Next ==
  \/ Tick \/ Capture \/ Seal
  \/ \E w \in Runner : Start(w) \/ Evaluate(w) \/ RecordGuardian(w) \/ RecordScout(w) \/ Fail(w)

Spec == Init /\ [][Next]_vars

---------------------------------------------------------------------------
(* Properties *)

\* A stored CONTINUITY_STRENGTHENING rests on three FIT snapshots of one reference
\* bundle, two of them Shadow runs stored earlier, and at least Span minutes in which
\* the market was open lie between the first and the last: whatever ran again, failed
\* half way or ran at the same time (_continuity_observations).
ContinuityIsReal ==
  \A e \in executions :
    LET S == e.observations
    IN (e.family = "SCOUT" /\ e.continuity # {}) =>
         /\ Cardinality(S) = 3 /\ S \subseteq DOMAIN sealed /\ Max(S) = e.at
         /\ \A t \in S :
              /\ sealed[t].kind.bundle = sealed[e.at].kind.bundle /\ sealed[t].output.fitness = "FIT"
              /\ t = e.at \/ \E x \in executions : x.at = t /\ sealed[t].kind.disposition = "SHADOW"
         /\ Cardinality({m \in Label : Min(S) < m /\ m <= e.at}) >= Span

\* A return or a breadth over two windows exists only if every valid member of the
\* sector has each of their bars, in one session: a hole or the lunch break makes it
\* missing, never calm (_complete_current_tail, _return_and_breadth).
WindowsAreWhole ==
  \A x \in manifest :
    Robust(Before(x.input, Valid(x.input))) # {} =>
      \A i \in Valid(x.input) :
        \E m \in Bars(i, now), s \in Session :
          /\ s.opens <= m - 2 * Window /\ m <= s.closes
          /\ (m - 2 * Window + 1) .. m \subseteq Bars(i, now)
          /\ m = Max(Bars(i, now))

\* Losing the quote of a member that is not suspended never makes an input fitter (_quality).
Rank(fitness) == CASE fitness = "UNFIT" -> 0 [] fitness = "FIT_WITH_LIMITATIONS" -> 1 [] OTHER -> 2
Losing(input, i) == [input EXCEPT !.member[i].status = "MISSING",
                                  !.member[i].price = {}, !.member[i].pre = {}]
DataLossNeverHelps ==
  \A x \in manifest : \A i \in Active(x.input) :
    Rank(Quality(Losing(x.input, i))) <= Rank(Quality(x.input))

\* At the production thresholds of CR-005 no evaluation reports a healthy and a
\* collapsing breadth at once (_healthy_breadth, _breadth_collapse).
NeverBothHealthyAndCollapsing ==
  \A t \in DOMAIN sealed :
    LET out == sealed[t].output
    IN \A h \in out.scout.HEALTHY_BREADTH, c \in out.guardian.BREADTH_COLLAPSE :
         h < 6500 \/ c < 5500

\* docs/decisions/CR-004_OFFICIAL_MARKET_METRICS_SPECIFICATION.md section 7: the return
\* over the window starts at the close one window before the evaluation.
ReturnSpansTheWindow ==
  \A x \in manifest : \A i \in Valid(x.input) :
    Robust(One(x.input, Valid(x.input))) # {} =>
      x.input.member[i].close1 = {day.close[i][m] : m \in {now - Window} \cap Bars(i, now)}
============================================================================
