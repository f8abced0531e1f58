SPECIFICATION Spec
CONSTANTS
  Comments = {c1, c2, c3}
  Users = {u1, u2}
  Author = u1
  Post = post
  Requests = {q1, q2, q3, q4}
  None = None
SYMMETRY Symmetry
INVARIANT CountMatches
INVARIANT RevokedWhenRemoved
INVARIANT RevokedExactlyOnce
INVARIANT PurgeLeavesNoComment
CHECK_DEADLOCK FALSE
