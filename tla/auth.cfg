CONSTANTS
  a1 = a1  a2 = a2  a3 = a3
  w1 = w1  w2 = w2
  s1 = s1  s2 = s2
  r1 = r1  r2 = r2
  Addresses  = {a1, a2, a3}
  WellFormed = {a1, a2}
  Words      = {w1, w2}
  Secrets    = {s1, s2}
  Requests   = {r1, r2}
  MaxCalls  = 3
  MaxFaults = 1
SPECIFICATION Spec
SYMMETRY AnyName
CHECK_DEADLOCK FALSE
INVARIANTS
  ActsAsPresented
  AccountsSound
  SignInFindsAccount
PROPERTIES
  TokensAreEarned
