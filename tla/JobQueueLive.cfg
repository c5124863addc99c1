CONSTANTS
  j1 = j1
  j2 = j2
  v1 = v1
  v2 = v2
  Jobs = {j1, j2}
  Variants = {v1}
  Workers = {w1, w2}
  Operation <- PostAndCollect
  VariantOf <- SameVariant
  MaxAttempts <- TwoTries
  BatchSize = 2
  Lease = 2
  SweeperRuns = TRUE
  LeaseCoversWork = TRUE
  AmbiguousFailures = TRUE
  MaxOverdue = 1
  MaxExits = 2
  MaxFaults = 0
  None = None
  BackoffBase = 1
  BackoffFactor = 2
  BackoffMax = 2

SPECIFICATION FairSpec

PROPERTIES
  EveryJobEnds
  
  PublishedStays
