CONSTANTS
  u1 = u1  u2 = u2
  s1 = s1  s2 = s2
  r1 = r1  r2 = r2
  Users    = {u1, u2}
  Secrets  = {s1, s2}
  Requests = {r1, r2}
  MaxCalls  = 4
  MaxFaults = 1
SPECIFICATION Spec
SYMMETRY AnyName
CHECK_DEADLOCK FALSE
INVARIANTS
  StoresAgree
  DeletedStayDeleted
PROPERTIES
  TokensLast
  ImplementsTokenStore
