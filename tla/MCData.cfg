SPECIFICATION MCSpec
CONSTANTS
  s1 = s1
  s2 = s2
  s3 = s3
  Epoch = {e1, e2}
  Support = {}
  Advanced = {"QUOTES"}
  Stamp = {"current", "earlier", "none"}
  Valid = 1
  MaxTime = 1
  MaxQuotes = 2
  MaxRestores = 1
  MaxLogins = 1
  MaxWarming = 0
  Universe <- MCUniverse
  Anchor = s1
  Days = 2
  Minutes = 2
  History = 1
  Page = 2
  FitPercent = 80
  MaxRuns = 2
  Polled <- MCPolled
  Market <- MCMarket
  Suspended = {s3}
  BatchSize = 3
  RetryDelay = 1
  Window = 2
  Lag = 2
  SweepTime = 3
INVARIANTS ReportsTellTruth CatchupTellsTruth WatermarkFollowsQuotes
PROPERTIES OnlyTheFaultyAreQuarantined RecoveryOnFreshEvidence
CHECK_DEADLOCK FALSE
