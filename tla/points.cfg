SPECIFICATION Spec
CONSTANTS
  Users = {u1}
  Items = {p1, c1}
  Once = {c1}
  u1 = u1
  p1 = p1
  c1 = c1
  Owner <- OwnerOf
  Policies <- SmallPolicies
  Amounts = {2}
  Handlers = {h1, h2, h3}
  None = None
  MaxPoints = 2
SYMMETRY Symmetry
INVARIANT WalletCoversHistory
INVARIANT CommentsRevokedOnce
INVARIANT TakenBack
CHECK_DEADLOCK FALSE
