CONSTANTS
  t1 = t1  t2 = t2
  u1 = u1  u2 = u2
  c1 = c1  c2 = c2
  Tabs  = {t1, t2}
  Users = {u1, u2}
  Calls = {c1, c2}
  MaxTokens = 2
  MaxSends  = 4
  MaxVisits = 1
SPECIFICATION Spec
SYMMETRY AnyName
CHECK_DEADLOCK FALSE
INVARIANTS
  SessionsKept
  PageMatchesSession
