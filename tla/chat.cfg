SPECIFICATION Spec
CONSTANTS
  Requests = {q1, q2, q3, q4}
  MaxMessages = 3
  CacheSize = 2
  Limit = 2
SYMMETRY RequestSymmetry
CHECK_DEADLOCK FALSE
INVARIANT TypeOK
INVARIANT DeletedStaysAway
INVARIANT ListedOnce
INVARIANT NewestListed
