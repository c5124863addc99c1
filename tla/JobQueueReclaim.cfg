CONSTANTS
  j1 = j1
  j2 = j2
  v1 = v1
  v2 = v2
  Jobs = {j1, j2}
  Variants = {v1, v2}
  Workers = {w1, w2}
  Operation <- TwoPosts
  VariantOf <- OwnVariant
  MaxAttempts <- TwoTries
  BatchSize = 2
  Lease = 2
  SweeperRuns = TRUE
  LeaseCoversWork = TRUE
  AmbiguousFailures = TRUE
  MaxOverdue = 1
  MaxExits = 2
  MaxFaults = 1
  None = None
  BackoffBase = 1
  BackoffFactor = 2
  BackoffMax = 2

SPECIFICATION Spec
SYMMETRY WorkerSymmetry

INVARIANTS
  IInv
  SoleHolder
  RowsAreAccounted
  OutcomesAreTrue

PROPERTIES
  
  ImplementsContract
