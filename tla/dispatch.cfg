SPECIFICATION Spec
CONSTANTS
  Requests = {r1, r2, r3}
  Stacks = {s1, s2, s3, s4}
SYMMETRY Symmetry
CHECK_DEADLOCK FALSE
INVARIANTS
  RequestsApart
  RunsThrough
PROPERTIES
  ServesApart
