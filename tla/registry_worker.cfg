SPECIFICATION Spec
CONSTANTS
  Targets = {t1}
  BatchIds = {}
  Runs = {r1, r2}
  None = None
  Apis = {a1}
  Workers = {w1}
  Inline = FALSE
  MayFail = TRUE
  MayStall = TRUE
  RunLockTtl = 2
  QueuedTtl = 1
  CancelTtl = 3
SYMMETRY RunSymmetry
INVARIANT HealthyHoldsLock
INVARIANT ClaimedOnce
INVARIANT AbortedWasAsked
INVARIANT CancelNoticed
PROPERTY KeepsPromise
