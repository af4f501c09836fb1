CONSTANTS
  c1 = c1  c2 = c2  v1 = v1  f1 = f1  f2 = f2  f3 = f3  a = a  b = b  pkg = pkg
  NoFile = NoFile  NoSnap = NoSnap
  Commits = {c1, c2}
  Versions = {v1}
  Files = {f1, f2, f3}
  Contents = {a, b}
  Tree <- TwoTrees
  MaxBuilds = 3
  MaxPasses = 1
  Events = {"full-index", "reap"}
  Packages = {pkg}
  Imports <- MCImports
  Requests <- MCRequests
  MaxGraphDepth = 2
  MaxGraphNodes = 3
  MaxReads = 1
SPECIFICATION ReadersSpec
INVARIANTS ActiveIsWhole ActiveSearchable ReadsConsistent GraphSound
\* Builds and requests are bounded: the instance comes to rest.
CHECK_DEADLOCK FALSE
