SPECIFICATION Spec
CONSTANTS
  u1 = u1
  u2 = u2
  p1 = p1
  Users = {u1, u2}
  Packs = {p1}
  Author <- AuthorOf
  Prices = {1, 2}
  StartPoints <- EqualStart
  Requests = {r1, r2}
  None = None
  MaxSales = 2
  MaxEdits = 2
SYMMETRY Symmetry
INVARIANT TypeOK
INVARIANT PointsConserved
INVARIANT ClawbackCovered
INVARIANT ReviewedBeforeSale
CHECK_DEADLOCK FALSE
