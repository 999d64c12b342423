SPECIFICATION StreamSpec
CONSTANTS
  Requests = {r1}
  Cancels = {c1}
  Workers = {w1, w2}
  Tenants = {t1}
  Sources = {s1}
  Keys = {k1}
  NoKey = NoKey
  BadKey = BadKey
  None = None
  GatewaySources = {s1}
  WorkerSources = {s1}
  Mode = "inline"
  MaxAttempts = 2
  MaxFindings = 1
  Faults = {"crash", "interrupt", "repository", "lost_ack"}
  MaxFaults = 2
  Clients = {u1}
  PageSize = 2
  MaxConnects = 2
INVARIANT StreamIsComplete
CHECK_DEADLOCK FALSE
