SPECIFICATION EntitlementsSpec
CONSTANTS
  u1 = u1
  u2 = u2
  o1 = o1
  o2 = o2
  p1 = p1
  a1 = a1
  a2 = a2
  a3 = a3
  b1 = b1
  t1 = t1
  t2 = t2
  r1 = r1
  r2 = r2
  r3 = r3
  r4 = r4
  w1 = w1
  q1 = q1
  c1 = c1
  d1 = d1
  d2 = d2
  k1 = k1
  i1 = i1
  i2 = i2
  m1 = m1
  m2 = m2
  e1 = e1
  s1 = s1
  x1 = x1
  x2 = x2
  y1 = y1
  y2 = y2
  z1 = z1
  None = None
  NoTerm = NoTerm
  Users = {u1, u2}
  Amount <- Worth
  Orders = {o1, o2}
  Payer <- PayerOf
  Provider <- ProviderOf
  Reports = {1, 2}
  MaxPaymentFaults = 2
  Promos = {p1}
  Applicants = {a1, a2, a3}
  Applies <- AppliesFor
  MaxUses = {0, 1, 2}
  FirstMax <- FirstLimit
  MaxEdits = 2
  Subscribers = {u1}
  Redeemers = {r1, r2, r3, r4}
  Admins = {w1}
  MaxExpiresAt = 3
  MaxDay = 2
  MaxRows = 2
  BalanceCodes = {b1}
  TermCodes = {t1, t2}
  Redeems <- RedeemsFor
  Tries <- TriesCode
  Days <- DaysOf
  AssignDays = {1}
  AdjustDays <- AdjustBy
  Deductions = {m1}
  Credits = {m2}
  Edits = {e1}
  Savers = {s1}
  Readers = {x1, x2}
  MaxBalanceFaults = 1
  NoBalance = NoBalance
  Missed = Missed
  Visits = {y1, y2}
  Charges = {z1}
  TicksPerDay = 2
  RollingLength = 3
  MaxClock = 4
  NotBegun = NotBegun
  NoVisit = NoVisit
  Requests = {q1}
  Calls = {c1}
  Drainers = {d1, d2}
  Reconcilers = {k1}
  Instances = {i1, i2}
  ReqOf <- ReqOfCall
  HostOf <- HostOfWorker
  Kind <- KindOfRequest
  Cost <- CostOfRequest
  BatchSize = 1
  SpoolBatch = 1
  Legacy = {}
  MaxCrashes = 1
  MaxDrift = 1
  MaxErasures = 2
  Nobody = Nobody
  NoFile = NoFile
CHECK_DEADLOCK FALSE
INVARIANTS
  EntitlementsTypeOK
  ErasedIsNotChargedAgain
  BalanceWrongOnlyByOverlap
PROPERTIES
  ImplementsOnceOnlyCredits
  CapturedIsCredited
  PromoWithinLimit
  UsedCodeGrants
  TermLostOnlyByOverlap
  UsageLostOnlyByOverlap
