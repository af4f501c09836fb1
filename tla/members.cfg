CONSTANTS
  u1 = u1  u2 = u2  t1 = t1  t2 = t2
  NoTx = NoTx  NoRequest = NoRequest
  Users = {u1, u2}
  PlatformAdmins = {u1}
  Creator = u1
  Requests = {t1, t2}
  MaxDeadlockRetries = 1
SPECIFICATION FairSpec
INVARIANT OwnerRemains
PROPERTIES OwnersByOwners Answered
