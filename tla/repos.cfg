CONSTANTS
  u1 = u1  u2 = u2  k1 = k1  k2 = k2  p1 = p1  p2 = p2
  ssh = ssh  scp = scp  other = other  t1 = t1  t2 = t2  j1 = j1  j2 = j2
  None = None
  Users = {u1}
  Keys = {k1}
  Projects = {p1}
  Urls = {ssh, scp, other}
  normalizeURL <- SameRepository
  SSHUrls = {ssh, scp}
  FirstKeys = {k1}
  FirstProjects = {p1}
  Requests = {}
  MaxRequests = 1
  MaxDeadlockRetries = 1
  Jobs = {j1, j2}
  MaxPushes = 1
  MaxFaults = 1
SPECIFICATION FairSpec
INVARIANTS WorkspaceInv NothingLeft
PROPERTIES JobEnds
CHECK_DEADLOCK FALSE
