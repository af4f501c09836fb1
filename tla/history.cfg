SPECIFICATION Spec
CONSTANTS
  Commits = {"c1", "c2", "s1", "m", "x"}
  Heads = {"c2", "m", "x"}
  NoCommit = NoCommit
  Paths = {"f", "g"}
  Parents <- MCParents
  Changes <- MCChanges
  MaxCommits = 2
  MaxPatchBytes = 2
  DefaultLimit = 1
  MaxLimit = 2
  MaxOffset = 1
  Limits = {0, 3}
  Offsets = {1, 2}
  Filters <- MCFilters
  MaxJobs = 2
  MaxRequests = 1
INVARIANTS
  HistoryInv
  DiffsFaithful
  HistoryUnbroken
  PageCounts
CHECK_DEADLOCK FALSE
