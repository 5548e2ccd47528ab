SPECIFICATION Spec
CONSTANTS
  r1 = r1
  r2 = r2
  r3 = r3
  c1 = c1
  Requests = {r1, r2}
  Checkers = {c1}
  Reserve <- Two
  Actual <- Costs
  Limit = 4
  Keyed = {r1, r2}
  Passed = {r2}
  InitialUsage = 0
  Warm = FALSE
  Faults = {"hash", "again", "reply", "deadline", "database", "commit", "crash", "read", "lost"}
  MaxFaults = 3
  NoHash = NoHash
CHECK_DEADLOCK FALSE
INVARIANTS
  TypeOK
  KeyReservesOnce
