SPECIFICATION Spec
CONSTANTS
  Tenants = {t1, t2}
  Findings <- MCFindings
  Subscribers = {u1}
  max_size = 2
  maxsize = 2
  MaxReports = 3
  None = None
  JobIds = {j1, NewJob}
  Keys = {k1}
  LegacyJobs <- MCLegacyJobs
  NewJob = NewJob
  MaxImports = 2
  MaxWrites = 2
  Moved = {t1}
  a = a
  b = b
  c = c
  p1 = p1
  p2 = p2
  p3 = p3
  host = host
  s1 = s1
  s2 = s2
  j1 = j1
  k1 = k1
  t1 = t1
INVARIANTS FeedInOrder NothingMissing SafeToRerun
PROPERTY PruningKeepsNewest
CHECK_DEADLOCK FALSE
