SPECIFICATION FairSpec
CONSTANTS
  Targets = {t1}
  BatchIds = {batch}
  Runs = {r1, r2}
  None = None
  Apis = {a1}
  Workers = {}
  Inline = TRUE
  MayFail = FALSE
  MayStall = FALSE
  RunLockTtl = 2
  QueuedTtl = 1
  CancelTtl = 1
PROPERTY AbandonedLockExpires
PROPERTY AbortedRunEnds
