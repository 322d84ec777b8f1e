SPECIFICATION FairSpec
CONSTANTS
  r1 = r1
  q1 = q1
  x = x
  Request = {r1}
  QueryKey = {q1}
  BackupKey = {}
  Body = {x}
  Stages = 5
  Limit = 1
  MaxSource = 1
  Realtime = {1}
  Unmeasured = {}
  MaxCrashes = 0
  MaxFailures = 0
PROPERTY QueriesAnswered
CHECK_DEADLOCK FALSE
