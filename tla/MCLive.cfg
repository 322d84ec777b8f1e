SPECIFICATION LiveSpec
CONSTANTS
  Controllers = {k1}
  Clients = {c1, c2, c3}
  Timed = {c1}
  Nested = {c2}
  MaxSize = 2
  MaxStarts = 2
  k1 = k1
  k2 = k2
  c1 = c1
  c2 = c2
  c3 = c3
  r1 = r1
  r2 = r2
  q1 = q1
  b1 = b1
  Stop = Stop
  Null = Null
INVARIANTS WriterDrains FutureTellsTruth
PROPERTIES SerialExecution EveryCallReturns ClaimsComplete
CHECK_DEADLOCK FALSE
