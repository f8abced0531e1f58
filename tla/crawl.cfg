SPECIFICATION Spec
CONSTANTS
  Crawls = {c1, c2}
  Admins = {a1}
  Galleries = {g1, g2}
  None = None
  MaxId = 3
  PageSize = 2
  Pages = 2
  CollectLimit = 2
  MaxAttempts = 1
CONSTRAINT SettingsApart
CHECK_DEADLOCK FALSE
INVARIANT CollectedByOneCrawl
INVARIANT PostHasRow
INVARIANT AttemptsBounded
INVARIANT ImagesOfPosts
INVARIANT StartPointKept
SYMMETRY CrawlSymmetry
