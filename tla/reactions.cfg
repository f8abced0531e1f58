SPECIFICATION Spec
CONSTANTS
  Calls = {c1, c2, c3}
  Members = {m1}
  Guests = {g1}
  Posts = {p1}
  Comments = {k1}
  Scams = {s1}
  None = None
  Founding = f0
  Best = 2
SYMMETRY ReactionsSymmetry
CHECK_DEADLOCK FALSE
INVARIANT CountsFollow
INVARIANT OneVoice
