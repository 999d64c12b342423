SPECIFICATION Spec
CONSTANTS
  Exchanges = {e1, e2}
  Calls = {q1}
  Revokes = {v1}
  Tenants = {t1}
  Subjects = {u1}
  IdentityClients = {c1, c2}
  Roles = {"viewer"}
  None = None
  ttl = 1
  MaxNow = 1
  MaxChanges = 2
SYMMETRY Symmetry
INVARIANTS TypeOK RevocationIsPermanent DecisionsAreExact RefusedLeavesNothing OneUserPerSubject
CHECK_DEADLOCK FALSE
