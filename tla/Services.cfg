SPECIFICATION Spec
CONSTANTS
  a1 = a1
  a2 = a2
  p1 = p1
  f1 = f1
  q1 = q1
  q2 = q2
  i1 = i1
  i2 = i2
  t1 = t1
  t2 = t2
  n1 = n1
  n2 = n2
  c1 = c1
  c2 = c2
  c3 = c3
  Accounts = {a1, a2}
  Changing = {a1}
  Versions = {1, 2, 3, 4, 5}
  Pollers = {p1}
  Others = {f1}
  MaxDisturbances = 2
  MaxBusy = 2
  Absent = Absent
  Providers = {t1, t2}
  MaxTokens = 1
  MaxTokenFaults = 1
  NoToken = NoToken
  Instances = {i1, i2}
  Home = i1
  Requests = {q1, q2}
  ServedBy <- RequestAt
  MaxKeyChanges = 2
  MaxAuthFaults = 1
  NoEntry = NoEntry
  MaxTasks = 2
  Runners = {n1, n2}
  MaxLogs = 2
  MaxCleanupFaults = 1
  NoTask = NoTask
  Checks = {c1, c2, c3}
  FailureThreshold = 2
  HalfOpenRequests = 2
  MaxBreakerFaults = 4
CHECK_DEADLOCK FALSE
INVARIANTS
  TypeOK
  ActiveIsOneReading
  RefreshTokenKept
  ReplacedTokenNotCached
  StaleOnlyByOverlap
  CancelStopsDeleting
  RecordsNoMoreThanDeleted
PROPERTIES
  MadeGood
