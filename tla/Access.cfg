SPECIFICATION Spec
CONSTANTS
  Requests = {q1, q2}
  ApiKeys = {k1}
  StaticTokens = {b1}
  StaticRoles = {"analyst"}
  Tenants = {t1, t2}
  ScopeSets <- MCScopeSets
  None = None
  Plain = {q2}
  MaxNow = 1
  MaxChanges = 2
SYMMETRY Symmetry
INVARIANTS PermissionMatrix RevokedKeysStayOut TenantIsolation
CHECK_DEADLOCK FALSE
