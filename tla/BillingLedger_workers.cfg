SPECIFICATION Spec
CONSTANTS
  r1 = r1 r2 = r2 c1 = c1 c2 = c2 c3 = c3 d1 = d1 d2 = d2
  k1 = k1 k2 = k2 i1 = i1 i2 = i2
  Requests = {r1, r2}
  Calls = {c1, c2}
  Drainers = {d1, d2}
  Reconcilers = {k1, k2}
  Instances = {i1, i2}
  ReqOf <- MCReqOf
  HostOf <- MCHostOf
  Kind <- MCKindSwapped
  Cost <- MCCost
  BatchSize = 2
  SpoolBatch = 2
  Legacy = {r2}
  MaxCrashes = 1
  MaxDrift = 1
  Nobody = Nobody
  NoFile = NoFile
CHECK_DEADLOCK FALSE
INVARIANTS
  ChargedExactlyOnce
  QuotaCountedAtMostOnce
  DoneMeansApplied
  CacheDebitedAtMostOnce
  CommissionAtMostOnce
PROPERTIES
  ChargeOnlyOnApply
  ImplementsOnceOnlyBilling
