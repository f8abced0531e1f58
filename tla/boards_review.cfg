SPECIFICATION Spec
CONSTANTS
  Calls = {c1, c2, c3}
  Servers = {v1, v2}
  Users = {u1, u2, u3}
  Slugs = {s1, s2}
  None = None
  Begun = Begun
  Founding = f0
  SubLimit = 1
SYMMETRY BoardsSymmetry
CHECK_DEADLOCK FALSE
INVARIANT BoardsApproved
