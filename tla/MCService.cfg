SPECIFICATION MCSpec
CONSTANTS
  Request = {r1, r2}
  QueryKey = {q1, q2}
  BackupKey = {b1}
  Body = {x, y}
  Stages = 5
  Limit = 1
  MaxSource = 3
  Realtime = {2}
  Unmeasured = {}
  MaxCrashes = 1
  MaxFailures = 1
  r1 = r1
  r2 = r2
  q1 = q1
  q2 = q2
  b1 = b1
  x = x
  y = y
  GuardianCode <- MCGuardianCode
  ScoutCode <- MCScoutCode
  Caller = {c1, c2}
  Version = {1, 2}
  Value = {1, 2}
  Quality <- Grades
  Level = 1
  Run <- MCRun
  MaxRuns = 5
  GuardianShare = 80
  ScoutShare = 60
  c1 = c1
  c2 = c2
SYMMETRY Symmetry
INVARIANTS
  AnswersAgree AnswersTellTruth RateLimit
  RulesSound WorseNeverAllowsMore AnswersAreStored CalibrationSound
CHECK_DEADLOCK FALSE
