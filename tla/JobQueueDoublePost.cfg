CONSTANTS
  j1 = j1
  j2 = j2
  v1 = v1
  v2 = v2
  Jobs = {j1, j2}
  Variants = {v1, v2}
  Workers = {w1}
  Operation <- TwoPosts
  VariantOf <- OwnVariant
  MaxAttempts <- TwoTries
  BatchSize = 2
  Lease = 2
  SweeperRuns = TRUE
  LeaseCoversWork = TRUE
  AmbiguousFailures = FALSE
  MaxOverdue = 0
  MaxExits = 1
  MaxFaults = 0
  None = None
  BackoffBase = 1
  BackoffFactor = 2
  BackoffMax = 2

SPECIFICATION Spec

INVARIANTS
  AtMostOnce
