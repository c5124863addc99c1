CONSTANTS
  Requests = {q1, q2}
  Calls = {g1}
  MaxRuns = 2
  Size = 2
  Servers = {"resumes"}
  Environments <- PlainEnvironment
  ConcurrentOptIn = TRUE
  MaxExits = 0
  MaxFaults = 0
  None = None

SPECIFICATION Spec
CHECK_DEADLOCK FALSE

INVARIANTS
  NeverCorrupt
