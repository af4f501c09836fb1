CONSTANTS
  j1 = j1  j2 = j2  p1 = p1  w1 = w1  s1 = s1  s2 = s2  c1 = c1
  NoWorker = NoWorker  NoExec = NoExec  NoJob = NoJob
  Jobs = {j1, j2}
  Projects = {p1}
  ProjectOf <- OneProject
  TypeOf <- TwoTypes
  Workers = {w1}
  Slots = {s1, s2}
  Checkers = {}
  MaxRetry = 0
  MaxStarts = 1
  Faults = {"reply", "db", "redis", "timeout"}
SYMMETRY SlotSymmetry
SPECIFICATION Spec
INVARIANT OneBuilder
\* Worker starts are bounded and nobody polls: the instance may come to rest.
CHECK_DEADLOCK FALSE
