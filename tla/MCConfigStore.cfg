CONSTANTS
  c1 = c1
  c2 = c2
  s1 = s1
  s2 = s2
  Client = {c1, c2}
  Session = {s1, s2}
  TTL = 2
  MaxTime = 3
  MaxOps = 4
SPECIFICATION Spec
SYMMETRY Symmetry
CHECK_DEADLOCK FALSE
INVARIANTS
  StoredIsListed
  FreshIsKept
  CleanupCleans
