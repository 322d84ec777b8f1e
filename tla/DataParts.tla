------------------------------ MODULE DataParts ------------------------------
(***************************************************************************)
(* What is stored of the market and what is known of it: Recovery, from a  *)
(* restored database back to NORMAL, the historical loader of Catchup, and *)
(* the sweep of Acquisition.  A behaviour is of one of them, `part'; the   *)
(* variables of the others stand still.                                    *)
(***************************************************************************)
EXTENDS Recovery, Sequences

CONSTANTS Universe, Anchor, Days, Minutes, History, Page, FitPercent, MaxRuns, \* of Catchup
          Polled, Market, Suspended, BatchSize, RetryDelay, Window, Lag, SweepTime \* of Acquisition

VARIABLE part
VARIABLES now, broken, minuteBars, dailyBars, blocked, ledger, loader
VARIABLES time, faulty, quarantine, previous, newest, minutes, quoteHealth, minuteHealth, poll,
          refresh

loaderVars == <<now, broken, minuteBars, dailyBars, blocked, ledger, loader>>
sweepVars == <<time, faulty, quarantine, previous, newest, minutes, quoteHealth, minuteHealth,
               poll, refresh>>

Loader == INSTANCE Catchup
Sweep == INSTANCE Acquisition WITH Universe <- Polled, MaxTime <- SweepTime, quotes <- newest

NoCatchup ==
  /\ now = "none" /\ broken = "none" /\ minuteBars = "none" /\ dailyBars = "none"
  /\ blocked = "none" /\ ledger = "none" /\ loader = "none"
NoSweep ==
  /\ time = "none" /\ faulty = "none" /\ quarantine = "none" /\ previous = "none"
  /\ newest = "none" /\ minutes = "none" /\ quoteHealth = "none" /\ minuteHealth = "none"
  /\ poll = "none" /\ refresh = "none"

DataInit ==
  /\ Init
  /\ \/ part = "restore" /\ NoCatchup /\ NoSweep
     \/ part = "catchup" /\ Loader!Init /\ NoSweep
     \/ part = "sweep" /\ Sweep!Init /\ NoCatchup

DataNext ==
  /\ \/ part = "restore" /\ Next /\ UNCHANGED <<loaderVars, sweepVars>>
     \/ part = "catchup" /\ Loader!Next /\ UNCHANGED <<vars, sweepVars>>
     \/ part = "sweep" /\ Sweep!Next /\ UNCHANGED <<vars, loaderVars>>
  /\ UNCHANGED part

DataSpec == DataInit /\ [][DataNext]_<<part, vars, loaderVars, sweepVars>>

\* historical.py, storage.py: a run counts rows that exist and ends FIT only with the bars it
\* needs (Catchup.LedgerTellsTruth, FitIsEarned).
CatchupTellsTruth == part = "catchup" => Loader!CatchupTellsTruth

\* provider.py: when a sweep reports, every member is answered or quarantined, and a minute report
\* counts whole tails (Acquisition.EveryMemberAnswered, MinutesBehindTheReport).
ReportsTellTruth == part = "sweep" => Sweep!ReportsTellTruth

\* provider.py: only a symbol whose servers answer wrongly is quarantined
\* (Acquisition.OnlyTheFaultyAreQuarantined).
OnlyTheFaultyAreQuarantined == [][part = "sweep" => Sweep!ForItsOwnAnswer]_sweepVars
=============================================================================
