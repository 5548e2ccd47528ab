SPECIFICATION Spec
CONSTANTS
  r1 = r1
  r2 = r2
  r3 = r3
  c1 = c1
  Requests = {r1, r2, r3}
  Checkers = {c1}
  Reserve <- Two
  Actual <- Costs
  Limit = 4
  Keyed = {r1}
  Passed = {r1, r2, r3}
  InitialUsage = 0
  Warm = TRUE
  Faults = {"key", "reply", "deadline", "crash", "read", "lost"}
  MaxFaults = 2
  NoHash = NoHash
CHECK_DEADLOCK FALSE
INVARIANTS
  WithinLimit
  SharesAddUp
  CacheNeverAhead
PROPERTY
  ImplementsQuotaGuard
