SPECIFICATION Spec
CONSTANTS
  Runs = {j1, j2, j3}
  Reports <- MCReports
  Patches = {u1}
  Pagers = {g1}
  limit = 1
  Window = 2
  None = None
  a = a
  b = b
  c = c
  d = d
  p1 = p1
  p2 = p2
  p3 = p3
  p4 = p4
  host = host
  Host = Host
  s1 = s1
  s2 = s2
SYMMETRY Symmetry
INVARIANTS TypeOK NothingLost LaterRunsCorrelate PagingIsComplete TriageSurvives
CHECK_DEADLOCK FALSE
