CONSTANTS
  c1 = c1  c2 = c2  v1 = v1  v2 = v2  f1 = f1  f2 = f2  f3 = f3  a = a  b = b
  NoFile = NoFile  NoSnap = NoSnap
  Commits = {c1, c2}
  Versions = {v1, v2}
  Files = {f1, f2, f3}
  Contents = {a, b}
  Tree <- TwoTrees
  MaxBuilds = 3
  MaxPasses = 1
  Events = {}
SPECIFICATION Spec
PROPERTY PublishedSpec
\* Builds and passes are bounded: the instance comes to rest.
CHECK_DEADLOCK FALSE
