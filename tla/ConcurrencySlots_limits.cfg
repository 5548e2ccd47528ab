SPECIFICATION Spec
CONSTANTS
  r1 = r1
  r2 = r2
  u1 = u1
  a1 = a1
  i1 = i1
  i2 = i2
  i3 = i3
  Requests = {r1, r2}
  Users = {u1}
  Accounts = {a1}
  UserOf <- OneUser
  Limit <- One
  MaxWait <- One
  Ids = {i1, i2, i3}
  SlotTtl = 2
  WaitTtl = 2
  WaitTimeout = 1
  MaxSwitches = 1
  Leavers = {r1, r2}
  Faults = {"redis", "again", "crash"}
  MaxFaults = 2
  None = None
SYMMETRY Alike
CHECK_DEADLOCK FALSE
INVARIANTS
  AtMostLimit
  LeaksOnlyByFaults
PROPERTIES
  ImplementsBoundedHolders
