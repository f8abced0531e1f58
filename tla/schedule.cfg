SPECIFICATION ScheduleSpec
CONSTANTS
  Targets = {t1}
  Null = Null
  MaxTime = 5
  Tick = 2
  MinInterval = 2
  MaxInterval = 4
  AutoStops = {0, 1}
  Dates = {3}
  MaxOffset = 2
  Bump = 1
CONSTRAINT DatedApart
CHECK_DEADLOCK FALSE
INVARIANT Punctual
INVARIANT StopsInTime
PROPERTY Spacing
PROPERTY PostsInOrder
