SPECIFICATION Spec
CONSTANTS
  Targets = {t1}
  BatchIds = {batch}
  Runs = {r1, r2}
  None = None
  Apis = {a1}
  Workers = {w1}
  Inline = TRUE
  MayFail = TRUE
  MayStall = FALSE
  RunLockTtl = 2
  QueuedTtl = 1
  CancelTtl = 3
SYMMETRY RunSymmetry
INVARIANT SingleCrawl
INVARIANT ChildFollowsParent
INVARIANT ControllerMatchesRun
