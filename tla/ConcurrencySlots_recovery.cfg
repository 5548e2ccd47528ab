SPECIFICATION FairSpec
CONSTANTS
  r1 = r1
  r2 = r2
  u1 = u1
  a1 = a1
  i1 = i1
  i2 = i2
  i3 = i3
  Requests = {r1, r2}
  Users = {u1}
  Accounts = {a1}
  UserOf <- OneUser
  Limit <- One
  MaxWait <- Two
  Ids = {i1, i2, i3}
  SlotTtl = 2
  WaitTtl = 2
  WaitTimeout = 1
  MaxSwitches = 0
  Leavers = {}
  Faults = {"redis", "crash"}
  MaxFaults = 1
  None = None
CHECK_DEADLOCK FALSE
INVARIANTS
  WaitCountExact
PROPERTIES
  EveryRequestEnds
  PoolsRecover
