CONSTANTS
  daily = daily
  single = single
  Schedules = {daily, single}
  Targets = {x1}
  Sweeps = {w1, w2}
  Mode <- MixedModes
  Anchor <- MixedAnchors
  Rule <- EveryInstant
  Window = 1
  Horizon = 2
  MaxExits = 1
  MaxFaults = 1
  None = None

SPECIFICATION Spec
SYMMETRY SweepSymmetry
CHECK_DEADLOCK FALSE

INVARIANTS
  IInv
  SubmittedOnce
  OccurrencesAccounted

PROPERTIES
  CursorMovesOn
  ImplementsContract
