SPECIFICATION MCSpec
CONSTANTS
  Lineage = {l1}
  BarUid = {b1, b2}
  Builder = {p1}
  Batch = 1
  Validity = 0
  MaxVersion = 2
  MaxTime = 2
  MaxManifests = 1
  MaxReports = 1
  Instrument = {1, 2, 3, 4, 5, 6}
  Sector = {1, 2, 3, 4, 5}
  Window = 2
  Span = 4
  Sessions <- MCSessions
  Market <- MCDays
  MaxSeals = 3
  Runner = {w1, w2}
  l1 = l1
  b1 = b1
  b2 = b2
  p1 = p1
  w1 = w1
  w2 = w2
SYMMETRY Symmetry
INVARIANTS
  EvidenceSound LineagesKept
  MetricsRestOnEvidence MetricsAreMonotone
CHECK_DEADLOCK FALSE
