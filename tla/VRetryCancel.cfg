SPECIFICATION FairSpec
CONSTANTS
  Requests = {r1}
  Cancels = {c1}
  Workers = {w1}
  Tenants = {t1}
  Sources = {s1}
  Keys = {k1}
  NoKey = NoKey
  BadKey = BadKey
  None = None
  GatewaySources = {s1}
  WorkerSources = {s1}
  Mode = "celery"
  MaxAttempts = 2
  MaxFindings = 1
  Faults = {}
  MaxFaults = 0
PROPERTY CancelTakesEffect
CHECK_DEADLOCK FALSE
