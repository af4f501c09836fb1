CONSTANTS
  j1 = j1  j2 = j2  p1 = p1  w1 = w1  s1 = s1  s2 = s2  c1 = c1
  NoWorker = NoWorker  NoExec = NoExec  NoJob = NoJob
  Jobs = {j1}
  Projects = {p1}
  ProjectOf <- OneProject
  TypeOf <- TwoTypes
  Workers = {w1}
  Slots = {s1, s2}
  Checkers = {c1}
  MaxRetry = 1
  MaxStarts = 2
  Faults = {"enqueue", "api", "conn", "timeout", "crash"}
SPECIFICATION FairSpec
INVARIANT SingleClaim
PROPERTIES LifecycleSpec RunningEnds LockReleased
