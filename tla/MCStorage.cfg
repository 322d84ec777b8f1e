SPECIFICATION StorageSpec
CONSTANTS
  Intents = {1}
  WebhookIntents = {1}
  Workers = {w1, w2}
  LeaseSeconds = 2
  RetrySeconds = 1
  MaxAttempts = 2
  Lifetime = 4
  MaxLag = 1
  MaxTime = 4
  MaxGeneration = 1
  MaxRestores = 1
  Null = Null
  w1 = w1
  w2 = w2
  Digest = {d1}
  Client = {c1, c2}
  Keep = 0
  Lease = 1
  FileTime = 1
  FileRestores = 1
  c1 = c1
  c2 = c2
  d1 = d1
SYMMETRY Symmetry
INVARIANTS
  TypeOK OneLiveSender AttemptLedger SendsSpaced NoResendAfterRestore SentInLifetime
  ArtifactsReadable BackupFindsFiles
PROPERTIES SettledIsFinal
CHECK_DEADLOCK FALSE
