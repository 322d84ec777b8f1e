------------------------------ MODULE Catchup ------------------------------
(***************************************************************************)
(* Historical readiness of the TDX primary universe: TdxHistoricalLoader   *)
(* (data/tdx/historical.py) with its ledger, the bars and the quarantine   *)
(* it writes (data/tdx/storage.py), and the daily bars that a cycle        *)
(* captures while the day is still open (provider.py _refresh_bars).  One  *)
(* source epoch; the calendar is complete.  A writer command is one step.  *)
(***************************************************************************)
EXTENDS Integers, Sequences, FiniteSets

CONSTANTS Universe,   \* TdxUniverse.primary, a sequence of instruments
          Anchor,     \* the instrument whose DAILY_BARS every cycle refreshes
          Days,       \* calendar days
          Minutes,    \* minutes of a session, with Days the bound on time
          History,    \* previous days whose bars are required
          Page,       \* bars of a page, of which two are asked for
          FitPercent, \* coverage of a FIT result
          MaxRuns     \* bound on catch-up runs

None == -1
Instrument == {Universe[k] : k \in 1..Len(Universe)}

\* There is an instrument and a day, and a FIT result asks for some coverage.
CatchupAssumption ==
  /\ Universe \in Seq(Instrument) /\ Universe # <<>>
  /\ Days \in Nat \ {0} /\ Minutes \in Nat /\ FitPercent \in Nat \ {0}

VARIABLES
  now,        \* [day, minute], minute 0 is the open
  broken,     \* instruments whose bars fail
  minuteBars, \* tdx_bar '1m': <<day, minute>> stored for each instrument
  dailyBars,  \* tdx_bar '1d': the turnover stored for each instrument and day, or None
  blocked,    \* tdx_symbol_quarantine: retry_after of each instrument
  ledger,     \* tdx_historical_catchup_run
  loader      \* the call of warm

vars == <<now, broken, minuteBars, dailyBars, blocked, ledger, loader>>

NoCounters == [requests |-> 0, fetched |-> 0, inserted |-> 0, duplicate |-> 0]
Idle == [pc |-> "idle", at |-> [day |-> 0, minute |-> 0], todo |-> {}, job |-> <<>>, page |-> 0,
         bars |-> {}, counters |-> NoCounters]

Init ==
  /\ now = [day |-> 0, minute |-> 0]
  /\ broken \in SUBSET Instrument
  /\ minuteBars = [i \in Instrument |-> {}]
  /\ dailyBars = [i \in Instrument |-> [d \in 0..(Days - 1) |-> None]]
  /\ blocked = [i \in Instrument |-> 0]
  /\ ledger = <<>>
  /\ loader = Idle

Bars == <<minuteBars, dailyBars>>

\* Time passes, within the day or to the next one; broken symbols may recover.
Tick ==
  /\ \/ now.minute < Minutes /\ now' = [now EXCEPT !.minute = @ + 1]
     \/ now.minute = Minutes /\ now.day < Days - 1 /\ now' = [day |-> now.day + 1, minute |-> 0]
  /\ broken' \in {broken, {}}
  /\ UNCHANGED <<Bars, blocked, ledger, loader>>

\* Times in order.
Instant(t) == t.day * (Minutes + 1) + t.minute

\* Turnover of a day as the servers tell it now: it grows until the close.
Turnover(d) == IF d < now.day THEN Minutes ELSE now.minute

\* record_bars of daily bars: INSERT OR IGNORE keeps the first one.
StoredDaily(i, days) ==
  [dailyBars EXCEPT ![i] = [d \in DOMAIN @ |-> IF d \in days /\ @[d] = None THEN Turnover(d)
                                               ELSE @[d]]]

\* _refresh_bars: each cycle of the runner captures today's daily bar.
CaptureToday ==
  /\ loader.pc = "idle"
  /\ Anchor \notin broken
  /\ dailyBars' = StoredDaily(Anchor, {now.day})
  /\ UNCHANGED <<now, broken, minuteBars, blocked, ledger, loader>>

(***************************************************************************)
(* What is required, and what is there                                     *)
(***************************************************************************)
\* previous_valid_trading_dates
Previous(at) == {d \in 0..(at.day - 1) : d >= at.day - History}

\* All the previous days are known and a legal minute has completed.
CalendarReady(at) == Cardinality(Previous(at)) = History /\ at.minute > 0

\* The same clock minute on the previous days.
MinuteComplete(i, at) == \A d \in Previous(at) : <<d, at.minute>> \in minuteBars[i]
DailyComplete(i, at) == \A d \in Previous(at) : dailyBars[i][d] > 0

\* historical_coverage: both kinds complete.
Complete(at) ==
  IF CalendarReady(at) THEN {i \in Instrument : MinuteComplete(i, at) /\ DailyComplete(i, at)}
  ELSE {}

\* FAULT: half the universe will do.
FitOfHalf(at) == 2 * Cardinality(Complete(at)) >= Cardinality(Instrument)

\* coverage_ppm >= 800_000; assess tells the same and writes nothing.
Fit(at) == 100 * Cardinality(Complete(at)) >= FitPercent * Cardinality(Instrument)

(***************************************************************************)
(* warm                                                                    *)
(***************************************************************************)
\* The row of the run, which every checkpoint updates.
Current == Len(ledger)
Checkpointed(status, c) == [ledger EXCEPT ![Current].status = status, ![Current].counters = c]

\* The fetches there may be, in their order: the minutes and the days of each symbol of the universe.
Job(k) == <<Universe[(k + 1) \div 2], IF k % 2 = 1 THEN "1m" ELSE "1d">>

\* The fetches of the missing symbols.
Missing(at) ==
  LET Lacks(j) == IF j[2] = "1m" THEN ~MinuteComplete(j[1], at) ELSE ~DailyComplete(j[1], at)
  IN {k \in 1..(2 * Len(Universe)) : Lacks(Job(k))}

\* Coverage first; the ledger row is the next command.
WarmBegin ==
  /\ loader.pc = "idle" /\ Len(ledger) < MaxRuns
  /\ loader' = [Idle EXCEPT !.pc = "start", !.at = now,
                  !.todo = IF CalendarReady(now) THEN Missing(now) ELSE {}]
  /\ UNCHANGED <<now, broken, Bars, blocked, ledger>>

\* start_historical_catchup
WarmStart ==
  /\ loader.pc = "start"
  /\ ledger' = Append(ledger, [status |-> "RUNNING", at |-> loader.at, counters |-> NoCounters])
  /\ loader' = [loader EXCEPT !.pc = "queue"]
  /\ UNCHANGED <<now, broken, Bars, blocked>>

\* active_quarantine: quarantined symbols are left out.
WarmQueue ==
  /\ loader.pc = "queue"
  /\ loader' = [loader EXCEPT !.pc = "next",
                              !.todo = {k \in @ : blocked[Job(k)[1]] <= Instant(loader.at)}]
  /\ UNCHANGED <<now, broken, Bars, blocked, ledger>>

\* The next symbol and kind; its first page.
WarmNext ==
  /\ loader.pc = "next"
  /\ \E k \in loader.todo :
       /\ \A other \in loader.todo : k <= other
       /\ loader' = [loader EXCEPT !.pc = "ask", !.todo = @ \ {k}, !.job = Job(k), !.page = 0]
  /\ UNCHANGED <<now, broken, Bars, blocked, ledger>>

\* _fetch: the request is counted before it is made.
FetchAsk ==
  /\ loader.pc = "ask"
  /\ LET c == [loader.counters EXCEPT !.requests = @ + 1]
     IN /\ loader' = [loader EXCEPT !.pc = "answer", !.counters = c]
        /\ ledger' = Checkpointed("RUNNING", c)
  /\ UNCHANGED <<now, broken, Bars, blocked>>

\* _fetch: a failing symbol is quarantined for a minute.
FetchFails ==
  /\ loader.pc = "answer" /\ loader.job[1] \in broken
  /\ blocked' = [blocked EXCEPT ![loader.job[1]] = Instant(loader.at) + 1]
  /\ loader' = [loader EXCEPT !.pc = "next"]
  /\ UNCHANGED <<now, broken, Bars, ledger>>

\* The minutes traded so far, the one still forming included, newest first by page.
Age(b) == (now.day - b[1]) * Minutes + now.minute + 1 - b[2]
Traded == {b \in (0..now.day) \X (1..Minutes) : b[1] < now.day \/ b[2] <= now.minute + 1}
PageOf(p) == {b \in Traded : Age(b) \div Page = p}

\* _fetch: a page of bars is counted and checkpointed before it is stored.
FetchAnswer ==
  /\ loader.pc = "answer" /\ loader.job[1] \notin broken
  /\ LET bars == IF loader.job[2] = "1m" THEN PageOf(loader.page)
                 ELSE {<<d, 0>> : d \in Previous(now) \cup {now.day}}
         c == [loader.counters EXCEPT !.fetched = @ + Cardinality(bars)]
     IN /\ loader' = [loader EXCEPT !.pc = "store", !.bars = bars, !.counters = c]
        /\ ledger' = Checkpointed("RUNNING", c)
  /\ UNCHANGED <<now, broken, Bars, blocked>>

\* Bars of the page that are not stored yet.
Fresh ==
  LET i == loader.job[1]
  IN IF loader.job[2] = "1m" THEN loader.bars \ minuteBars[i]
     ELSE {b \in loader.bars : dailyBars[i][b[1]] = None}

\* FAULT: every fetched bar counts as inserted.
InsertedAll == Cardinality(loader.bars)

\* The row count of INSERT OR IGNORE.
Inserted == Cardinality(Fresh)

\* record_bars
FetchStore ==
  /\ loader.pc = "store"
  /\ LET i == loader.job[1]
     IN IF loader.job[2] = "1m"
        THEN minuteBars' = [minuteBars EXCEPT ![i] = @ \cup loader.bars] /\ UNCHANGED dailyBars
        ELSE dailyBars' = StoredDaily(i, {b[1] : b \in loader.bars}) /\ UNCHANGED minuteBars
  /\ loader' = [loader EXCEPT !.pc = "count",
                              !.counters.inserted = @ + Inserted,
                              !.counters.duplicate = @ + Cardinality(loader.bars) - Inserted]
  /\ UNCHANGED <<now, broken, blocked, ledger>>

\* _fetch: checkpoint, then the second page unless this one was short.
FetchCount ==
  /\ loader.pc = "count"
  /\ ledger' = Checkpointed("RUNNING", loader.counters)
  /\ LET more == loader.job[2] = "1m" /\ loader.page = 0 /\ Cardinality(loader.bars) = Page
     IN loader' = [loader EXCEPT !.pc = IF more THEN "ask" ELSE "next", !.bars = {},
                                 !.page = IF more THEN 1 ELSE 0]
  /\ UNCHANGED <<now, broken, Bars, blocked>>

\* warm: the final coverage decides the status.
WarmFinish ==
  /\ loader.pc = "next" /\ loader.todo = {}
  /\ ledger' = Checkpointed(IF Fit(loader.at) THEN "FIT" ELSE "WARMING_UP", loader.counters)
  /\ loader' = Idle
  /\ UNCHANGED <<now, broken, Bars, blocked>>

\* An exception after the start is recorded, as far as the database lets it be.
WarmFails ==
  /\ loader.pc \notin {"idle", "start"}
  /\ ledger' \in {ledger, Checkpointed("FAILED", loader.counters)}
  /\ loader' = Idle
  /\ UNCHANGED <<now, broken, Bars, blocked>>

\* The process is killed: the row stays RUNNING.
Kill ==
  /\ loader.pc # "idle"
  /\ loader' = Idle
  /\ UNCHANGED <<now, broken, Bars, blocked, ledger>>

Warm == WarmBegin \/ WarmStart \/ WarmQueue \/ WarmNext \/ WarmFinish \/ WarmFails
Fetch == FetchAsk \/ FetchFails \/ FetchAnswer \/ FetchStore \/ FetchCount

Next == Tick \/ CaptureToday \/ Warm \/ Fetch \/ Kill

Spec == Init /\ [][Next]_vars

(***************************************************************************)
(* Properties                                                              *)
(***************************************************************************)
\* The rows of tdx_bar, and those that the runs say they inserted.
MinuteRows == UNION {{i} \X minuteBars[i] : i \in Instrument}
DailyRows == {r \in Instrument \X (0..(Days - 1)) : dailyBars[r[1]][r[2]] # None}
ClaimedRows == UNION {{k} \X (1..ledger[k].counters.inserted) : k \in 1..Len(ledger)}

\* Every row a run counts, inserted or there already, was fetched by that run (historical.py:291-320).
CountedRowsAreFetched ==
  \A k \in 1..Len(ledger) :
    ledger[k].counters.inserted + ledger[k].counters.duplicate <= ledger[k].counters.fetched

\* The ledger never claims more than the bars: whatever is killed, fails or
\* overlaps another run, the rows inserted by all runs are rows that exist
\* (historical.py:291-320).
LedgerTellsTruth ==
  /\ CountedRowsAreFetched
  /\ Cardinality(ClaimedRows) <= Cardinality(MinuteRows) + Cardinality(DailyRows)

\* A run ends FIT only when enough symbols have every required bar of both
\* kinds, and such coverage is never lost again within the epoch: a later run
\* or a restart finds it (historical.py:222-238, storage.py:250-319).
FitIsEarned ==
  \A k \in 1..Len(ledger) : ledger[k].status = "FIT" =>
    LET at == ledger[k].at
    IN /\ Cardinality(Previous(at)) = History
       /\ 100 * Cardinality({i \in Instrument : \A d \in Previous(at) :
                               <<d, at.minute>> \in minuteBars[i] /\ dailyBars[i][d] > 0})
            >= FitPercent * Cardinality(Instrument)

\* What the ledger says of the catch-up is so.
CatchupTellsTruth == LedgerTellsTruth /\ FitIsEarned

\* docs/architecture/TDX_DATA_SEMANTICS_v1.0.md: "amount: daily turnover in
\* CNY" of a daily bar, approximately the day's cumulative quote amount.  So
\* the stored bar of a day that is over has the whole day's turnover
\* (provider.py:599-623, storage.py:190-212).
DailyBarIsTheDay ==
  \A i \in Instrument : \A d \in 0..(now.day - 1) : dailyBars[i][d] \in {None, Minutes}
=============================================================================
