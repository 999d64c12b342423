SPECIFICATION StreamFairSpec
CONSTANTS
  Requests = {r1}
  Cancels = {c1}
  Workers = {w1}
  Tenants = {t1}
  Sources = {s1}
  Keys = {k1}
  NoKey = NoKey
  BadKey = BadKey
  None = None
  GatewaySources = {s1}
  WorkerSources = {s1}
  Mode = "celery"
  MaxAttempts = 1
  MaxFindings = 1
  Faults = {"publish", "redeliver"}
  MaxFaults = 1
  Clients = {u1}
  PageSize = 2
  MaxConnects = 2
INVARIANT StreamIsPrefix
PROPERTIES JobsEnd StreamsClose
CHECK_DEADLOCK FALSE
