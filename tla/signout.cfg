CONSTANTS
  t1 = t1  t2 = t2
  u1 = u1  u2 = u2
  c1 = c1  c2 = c2
  Tabs  = {t1, t2}
  Users = {u1}
  Calls = {c1, c2}
  MaxTokens = 1
  MaxSends  = 3
  MaxVisits = 1
SPECIFICATION FairSpec
CHECK_DEADLOCK FALSE
PROPERTIES
  Settles
  RefusedTokenGoes
