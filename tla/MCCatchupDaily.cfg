SPECIFICATION Spec
CONSTANTS
  s1 = s1
  s2 = s2
  Universe <- MCUniverse
  Anchor = s1
  Days = 2
  Minutes = 2
  History = 1
  Page = 2
  FitPercent = 80
  MaxRuns = 2
INVARIANT DailyBarIsTheDay
CHECK_DEADLOCK FALSE
