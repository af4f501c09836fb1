CONSTANTS
  p1 = p1  e1 = e1  e2 = e2  m1 = m1  m2 = m2  t1 = t1  t2 = t2
  Platform = Platform  None = None
  Projects = {p1}
  Endpoints = {e1, e2}
  Models = {m1, m2}
  FirstEndpoint = e1
  FirstModel = m1
  Saves <- MCSaves
  Patches <- MCPatches
  Requests = {t1, t2}
  MaxRequests = 3
  MaxDeadlockRetries = 1
SPECIFICATION FairSpec
INVARIANTS SettingsInv DefaultServes VersionRecorded ResolveFinds
PROPERTIES Answered
CHECK_DEADLOCK FALSE
