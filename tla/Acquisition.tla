---------------------------- MODULE Acquisition ----------------------------
(***************************************************************************)
(* One sweep of the TDX primary universe (data/tdx/provider.py): poll_once *)
(* asks for quotes in batches, halves a batch whose answer does not match  *)
(* and quarantines the symbol it is left with; refresh_primary_minute_bars *)
(* runs beside it on a second thread (scripts/tdx_runner.py).  One source  *)
(* epoch and one trading day.  A writer command is one step.               *)
(***************************************************************************)
EXTENDS Integers, Sequences, FiniteSets

CONSTANTS Universe,   \* TdxUniverse.primary, a sequence of instruments
          Market,     \* exchange of each instrument
          Suspended,  \* instruments whose identity version says SUSPENDED
          BatchSize,  \* instruments per quote request
          RetryDelay, \* minutes of quarantine
          Window,     \* minutes a refresh requires
          Lag,        \* minutes a server may lag behind
          MaxTime     \* bound on the clock

Never == -1
Instrument == {Universe[k] : k \in 1..Len(Universe)}

\* The universe names an instrument once (provider.py:137-144).
SweepAssumption ==
  /\ Universe \in Seq(Instrument)
  /\ \A j, k \in 1..Len(Universe) : Universe[j] = Universe[k] => j = k
  /\ BatchSize \in Nat \ {0} /\ RetryDelay \in Nat \ {0} /\ Lag \in Nat

VARIABLES
  time,       \* the minute
  faulty,     \* [Instrument -> {"ok", "breaks", "no_quote"}], what the servers answer
  quarantine, \* tdx_symbol_quarantine: [failures, retry_after]
  previous,   \* _previous_quotes: volume of the last accepted quote, in memory
  quotes,     \* newest stored quote: [at, volume]
  minutes,    \* tdx_bar: the 1m bars stored
  quoteHealth,  \* newest SH_QUOTES/SZ_QUOTES report: [at, returned]
  minuteHealth, \* newest MINUTE_BARS report: [at, required, valid]
  poll,       \* the thread in poll_once
  refresh     \* the thread in refresh_primary_minute_bars

vars == <<time, faulty, quarantine, previous, quotes, minutes, quoteHealth, minuteHealth,
          poll, refresh>>

IdlePoll == [pc |-> "idle", at |-> Never, todo |-> <<>>, answer |-> <<>>, good |-> {},
             accepted |-> <<>>, returned |-> [m \in {0, 1} |-> 0]]
IdleRefresh == [pc |-> "idle", at |-> Never, candidates |-> {}, bars |-> {}]

Init ==
  /\ time = Lag
  /\ faulty \in [Instrument -> {"ok", "breaks", "no_quote"}]
  /\ quarantine = [i \in Instrument |-> [failures |-> 0, retry |-> Never]]
  /\ previous = [i \in Instrument |-> Never]
  /\ quotes = [i \in Instrument |-> [at |-> Never, volume |-> Never]]
  /\ minutes = [i \in Instrument |-> {}]
  /\ quoteHealth = [at |-> Never, returned |-> [m \in {0, 1} |-> 0]]
  /\ minuteHealth = [at |-> Never, required |-> {}, valid |-> 0]
  /\ poll = IdlePoll /\ refresh = IdleRefresh

Health == <<quoteHealth, minuteHealth>>
World == <<time, faulty>>

\* Time passes; at some minute the faulty symbols answer again.
Tick ==
  /\ time < MaxTime
  /\ time' = time + 1
  /\ faulty' \in {faulty, [i \in Instrument |-> "ok"]}
  /\ UNCHANGED <<quarantine, previous, quotes, minutes, Health, poll, refresh>>

(***************************************************************************)
(* Quarantine                                                              *)
(***************************************************************************)
\* active_quarantine: symbols not to be asked before their retry time.
ActiveQuarantine(at) == {i \in Instrument : quarantine[i].retry > at}

\* record_quarantine: one more failure, and a new retry time.
Quarantined(i, at) ==
  [quarantine EXCEPT ![i] = [failures |-> @.failures + 1, retry |-> at + RetryDelay]]

(***************************************************************************)
(* poll_once                                                               *)
(***************************************************************************)
\* _batches
Batches(s) ==
  [k \in 1..((Len(s) + BatchSize - 1) \div BatchSize) |->
     SubSeq(s, (k - 1) * BatchSize + 1,
            IF k * BatchSize < Len(s) THEN k * BatchSize ELSE Len(s))]

\* The symbols at some positions, in the order of the universe.
InOrder(positions) ==
  [n \in 1..Cardinality(positions) |->
     Universe[CHOOSE k \in positions : Cardinality({j \in positions : j <= k}) = n]]

\* poll_once: the symbols that are not quarantined.
PollBegin ==
  /\ poll.pc = "idle"
  /\ poll.at < time
  /\ LET eligible == {k \in 1..Len(Universe) : Universe[k] \notin ActiveQuarantine(time)}
     IN poll' = [IdlePoll EXCEPT !.pc = "ask", !.at = time, !.todo = Batches(InOrder(eligible))]
  /\ UNCHANGED <<World, quarantine, previous, quotes, minutes, Health, refresh>>

\* FAULT: the middle symbol of a batch of odd length is lost when it is halved.
HalvesWithoutMiddle(b) ==
  <<SubSeq(b, 1, Len(b) \div 2), SubSeq(b, Len(b) - Len(b) \div 2 + 1, Len(b))>>

\* The two halves of a batch whose answer does not match.
Halves(b) == <<SubSeq(b, 1, Len(b) \div 2), SubSeq(b, Len(b) \div 2 + 1, Len(b))>>

Batch == Head(poll.todo)
Mismatch == \E k \in 1..Len(Batch) : faulty[Batch[k]] = "breaks"

\* FAULT: a batch whose answer does not match is quarantined at its first symbol.
AskAgainWithoutSplit ==
  /\ poll.pc = "ask" /\ poll.todo # <<>> /\ Mismatch /\ Len(Batch) > 1
  /\ quarantine' = Quarantined(Batch[1], poll.at)
  /\ poll' = [poll EXCEPT !.todo = <<Tail(Batch)>> \o Tail(@)]
  /\ UNCHANGED <<World, previous, quotes, minutes, Health, refresh>>

\* _acquire_batch: the answer's identities are not the request's.
Split ==
  /\ poll.pc = "ask" /\ poll.todo # <<>> /\ Mismatch /\ Len(Batch) > 1
  /\ poll' = [poll EXCEPT !.todo = Halves(Batch) \o Tail(@)]
  /\ UNCHANGED <<World, quarantine, previous, quotes, minutes, Health, refresh>>

\* _acquire_batch: one symbol is left, and it is the one without an answer.
Isolate ==
  /\ poll.pc = "ask" /\ poll.todo # <<>> /\ Mismatch /\ Len(Batch) = 1
  /\ quarantine' = Quarantined(Batch[1], poll.at)
  /\ poll' = [poll EXCEPT !.todo = Tail(@)]
  /\ UNCHANGED <<World, previous, quotes, minutes, Health, refresh>>

\* _acquire_batch: a matching answer; a server may lag behind.
Answer ==
  /\ poll.pc = "ask" /\ poll.todo # <<>> /\ ~Mismatch
  /\ \E lag \in {0, Lag} :
       poll' = [poll EXCEPT !.pc = "judge", !.todo = Tail(@), !.good = {},
                            !.answer = [k \in 1..Len(Batch) |->
                                          [code |-> Batch[k],
                                           volume |-> IF faulty[Batch[k]] = "ok"
                                                      THEN time - lag ELSE Never]]]
  /\ UNCHANGED <<World, quarantine, previous, quotes, minutes, Health, refresh>>

\* normalize_quote: a price, and no cumulative volume below the previous quote's.
Accepted(q) == q.volume # Never /\ q.volume >= previous[q.code]

\* _acquire_batch: the symbols of the answer, one after the other.
Judge ==
  /\ poll.pc = "judge" /\ poll.answer # <<>>
  /\ LET q == Head(poll.answer)
     IN IF Accepted(q)
        THEN /\ previous' = [previous EXCEPT ![q.code] = q.volume]
             /\ poll' = [poll EXCEPT !.answer = Tail(@), !.good = @ \cup {q}]
             /\ UNCHANGED quarantine
        ELSE /\ quarantine' = Quarantined(q.code, poll.at)
             /\ poll' = [poll EXCEPT !.answer = Tail(@)]
             /\ UNCHANGED previous
  /\ UNCHANGED <<World, quotes, minutes, Health, refresh>>

\* The answered batch joins the accepted ones.
Keep ==
  /\ poll.pc = "judge" /\ poll.answer = <<>>
  /\ poll' = [poll EXCEPT !.pc = "ask", !.good = {},
                          !.accepted = IF poll.good = {} THEN @ ELSE Append(@, poll.good)]
  /\ UNCHANGED <<World, quarantine, previous, quotes, minutes, Health, refresh>>

\* returned_by_market, and the rows of this batch.
Counted(returned, batch) ==
  [m \in {0, 1} |-> returned[m] + Cardinality({q \in batch : Market[q.code] = m})]

\* poll_once, _ingest_batch: the accepted batches are stored once all are in.
Ingest ==
  /\ poll.pc = "ask" /\ poll.todo = <<>> /\ poll.accepted # <<>>
  /\ LET batch == Head(poll.accepted)
         Of(i) == {q \in batch : q.code = i}
     IN /\ quotes' = [i \in Instrument |->
                        IF Of(i) = {} THEN quotes[i]
                        ELSE [at |-> poll.at, volume |-> (CHOOSE q \in Of(i) : TRUE).volume]]
        /\ poll' = [poll EXCEPT !.accepted = Tail(@),
                                !.returned = Counted(@, batch)]
  /\ UNCHANGED <<World, quarantine, previous, minutes, Health, refresh>>

\* _record_quote_health, and the sweep is over.
ReportQuotes ==
  /\ poll.pc = "ask" /\ poll.todo = <<>> /\ poll.accepted = <<>>
  /\ quoteHealth' = [at |-> poll.at, returned |-> poll.returned]
  /\ poll' = [IdlePoll EXCEPT !.at = poll.at]
  /\ UNCHANGED <<World, quarantine, previous, quotes, minutes, minuteHealth, refresh>>

(***************************************************************************)
(* refresh_primary_minute_bars                                             *)
(***************************************************************************)
\* _minute_requirements: the target minute, or the tail that ends with it.
Required(at) == {m \in 1..at : m > at - Window}

\* FAULT: suspended symbols are asked too.
CandidatesWithSuspended(at) == Instrument \ ActiveQuarantine(at)

\* Neither suspended nor quarantined.
Candidates(at) == Instrument \ (Suspended \cup ActiveQuarantine(at))

\* refresh_primary_minute_bars
RefreshBegin ==
  /\ refresh.pc = "idle"
  /\ refresh.at < time
  /\ refresh' = [pc |-> "collect", at |-> time, bars |-> {}, candidates |-> Candidates(time)]
  /\ UNCHANGED <<World, quarantine, previous, quotes, minutes, Health, poll>>

\* _collect_primary_minute_bars: the whole tail of a symbol, or nothing of it.
Collected(i, answered) ==
  IF answered = Required(refresh.at) THEN {<<i, m>> : m \in answered} ELSE {}

\* The gateway threads ask for every candidate; a symbol may miss any minute.
Collect ==
  /\ refresh.pc = "collect"
  /\ \E answered \in [refresh.candidates -> SUBSET Required(refresh.at)] :
       refresh' = [refresh EXCEPT !.pc = "record",
                     !.bars = UNION {Collected(i, answered[i]) : i \in refresh.candidates}]
  /\ UNCHANGED <<World, quarantine, previous, quotes, minutes, Health, poll>>

\* record_bars: the bars of all the symbols in one transaction.
RecordMinutes ==
  /\ refresh.pc = "record"
  /\ minutes' = [i \in Instrument |-> minutes[i] \cup {b[2] : b \in {c \in refresh.bars : c[1] = i}}]
  /\ refresh' = [refresh EXCEPT !.pc = "report"]
  /\ UNCHANGED <<World, quarantine, previous, quotes, Health, poll>>

\* The candidates with a bar for every required minute.
ValidCount ==
  Cardinality({i \in refresh.candidates : \A m \in Required(refresh.at) : <<i, m>> \in refresh.bars})

\* _record_capability: coverage of the members that are not suspended.
ReportMinutes ==
  /\ refresh.pc = "report"
  /\ minuteHealth' = [at |-> refresh.at, required |-> Required(refresh.at), valid |-> ValidCount]
  /\ refresh' = [IdleRefresh EXCEPT !.at = refresh.at]
  /\ UNCHANGED <<World, quarantine, previous, quotes, minutes, quoteHealth, poll>>

\* A transport error or a busy database ends either thread where it stands.
PollFails ==
  /\ poll.pc # "idle"
  /\ poll' = [IdlePoll EXCEPT !.at = poll.at]
  /\ UNCHANGED <<World, quarantine, previous, quotes, minutes, Health, refresh>>

RefreshFails ==
  /\ refresh.pc # "idle"
  /\ refresh' = [IdleRefresh EXCEPT !.at = refresh.at]
  /\ UNCHANGED <<World, quarantine, previous, quotes, minutes, Health, poll>>

\* The process ends and starts again: the previous quotes are forgotten.
Restart ==
  /\ previous' = [i \in Instrument |-> Never]
  /\ poll' = [IdlePoll EXCEPT !.at = poll.at]
  /\ refresh' = [IdleRefresh EXCEPT !.at = refresh.at]
  /\ UNCHANGED <<World, quarantine, quotes, minutes, Health>>

Poll == \/ PollBegin \/ Split \/ Isolate \/ Answer \/ Judge \/ Keep \/ Ingest
        \/ ReportQuotes \/ PollFails
Refresh == RefreshBegin \/ Collect \/ RecordMinutes \/ ReportMinutes \/ RefreshFails

Next == Tick \/ Poll \/ Refresh \/ Restart

Spec == Init /\ [][Next]_vars

(***************************************************************************)
(* Properties                                                              *)
(***************************************************************************)
\* A sweep accounts for every member: when it reports, each symbol has a
\* quote of this sweep or is in quarantine, so halving a batch, quarantining
\* one symbol and ingesting afterwards lose no healthy symbol
\* (provider.py:180-208, 393-461), and the report counts exactly the quotes stored.
EveryMemberAnswered ==
  (poll.pc = "idle" /\ quoteHealth.at = poll.at /\ poll.at # Never) =>
     /\ \A i \in Instrument : quotes[i].at = poll.at \/ quarantine[i].retry > poll.at
     /\ \A m \in {0, 1} : quoteHealth.returned[m] =
                            Cardinality({i \in Instrument : Market[i] = m /\ quotes[i].at = poll.at})

\* A symbol is quarantined for its own answer only: a neighbour in the batch,
\* or a failure of the transport, never costs a healthy symbol its next
\* sweeps (provider.py:403-426).
ForItsOwnAnswer ==
  \A i \in Instrument : quarantine'[i] # quarantine[i] =>
    \/ faulty[i] # "ok"
    \/ \E k \in 1..Len(poll.answer) : poll.answer[k].code = i /\ ~Accepted(poll.answer[k])
OnlyTheFaultyAreQuarantined == [][ForItsOwnAnswer]_vars

\* A coverage report counts symbols whose whole required tail is stored and
\* that are not suspended (provider.py:285-308, 671-711).
MinutesBehindTheReport ==
  minuteHealth.valid <=
    Cardinality({i \in Instrument \ Suspended : minuteHealth.required \subseteq minutes[i]})

\* What the health reports of the provider say (provider.py:180-208, 285-308).
ReportsTellTruth == EveryMemberAnswered /\ MinutesBehindTheReport
=============================================================================
