SPECIFICATION FairSpec
CONSTANTS
  r1 = r1 r2 = r2 c1 = c1 c2 = c2 c3 = c3 d1 = d1 d2 = d2
  k1 = k1 k2 = k2 i1 = i1 i2 = i2
  Requests = {r1, r2}
  Calls = {c1, c3}
  Drainers = {d1}
  Reconcilers = {k1}
  Instances = {i1}
  ReqOf <- MCReqOf
  HostOf <- MCHostOf
  Kind <- MCKind
  Cost <- MCCost
  BatchSize = 2
  SpoolBatch = 2
  Legacy = {}
  MaxCrashes = 1
  MaxDrift = 0
  Nobody = Nobody
  NoFile = NoFile
CHECK_DEADLOCK FALSE
PROPERTIES
  SpooledIsEventuallyCharged
  UnappliedIsEventuallyApplied
