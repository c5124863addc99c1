CONSTANTS
  daily = daily
  single = single
  Schedules = {daily, single}
  Targets = {x1, x2}
  Sweeps = {w1, w2}
  Mode <- AllImmediate
  Anchor <- MixedAnchors
  Rule <- EveryInstant
  Window = 1
  Horizon = 1
  MaxExits = 0
  MaxFaults = 1
  None = None

SPECIFICATION FairSpec
CHECK_DEADLOCK FALSE

INVARIANTS
  ReportsAreTrue

PROPERTIES
  ClaimedIsReported
