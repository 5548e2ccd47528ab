SPECIFICATION Spec
CONSTANTS
  r1 = r1
  r2 = r2
  r3 = r3
  c1 = c1
  Requests = {r1, r2}
  Checkers = {}
  Reserve <- Two
  Actual <- Costs
  Limit = 2
  Keyed = {r1, r2}
  Passed = {}
  InitialUsage = 0
  Warm = TRUE
  Faults = {}
  MaxFaults = 0
  NoHash = NoHash
CHECK_DEADLOCK FALSE
INVARIANT
  WithinLimit
