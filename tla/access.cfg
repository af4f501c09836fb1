CONSTANTS
  u1 = u1  u2 = u2  u3 = u3  t1 = t1  t2 = t2
  Project = Project  None = None
  Users = {u1, u2, u3}
  Newcomers = {u3}
  FirstAdmins = {u1, u2}
  SeedAdmins = {u2}
  Operations <- Everything
  Asked <- Anyone
  Requests = {t1, t2}
  MaxRequests = 3
  MaxFaults = 1
  MaxProjectKeys = 1
  MaxPersonalKeys = 1
  MaxDeadlockRetries = 1
SPECIFICATION Spec
INVARIANTS AccountsInv AdminRemains
PROPERTIES KeyAccess RemovalsLeaveAdmin
CHECK_DEADLOCK FALSE
