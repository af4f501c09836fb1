CONSTANTS
  u1 = u1  u2 = u2  k1 = k1  k2 = k2  k3 = k3  p1 = p1  p2 = p2  url = url
  t1 = t1  t2 = t2
  None = None
  Users = {u1, u2}
  Keys = {k1, k2}
  Projects = {p1, p2}
  Urls = {url}
  FirstKeys = {k1}
  FirstProjects = {p1}
  Requests = {t1, t2}
  MaxRequests = 3
  MaxDeadlockRetries = 1
SPECIFICATION KeysFairSpec
INVARIANT AssignmentInv
PROPERTIES KeysAnswered
CHECK_DEADLOCK FALSE
