SPECIFICATION Spec
CONSTANTS
  Requests = {r1}
  Cancels = {c1, c2}
  Workers = {w1, w2}
  Tenants = {t1}
  Sources = {s1, s2}
  Keys = {k1}
  NoKey = NoKey
  BadKey = BadKey
  None = None
  GatewaySources = {s1, s2}
  WorkerSources = {s1}
  Mode = "celery"
  MaxAttempts = 2
  MaxFindings = 2
  Faults = {"crash", "api", "redeliver", "publish", "repository", "lost_ack"}
  MaxFaults = 2
SYMMETRY Symmetry
INVARIANTS TypeOK SingleOwner AttemptsBounded EventsExplainStatus ResultsAccounted
PROPERTY ResultStands
CHECK_DEADLOCK FALSE
