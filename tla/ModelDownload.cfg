CONSTANTS
  Requests = {q1, q2}
  Calls = {g1, g2}
  MaxRuns = 2
  Size = 2
  Servers = {"resumes", "ignores"}
  Environments <- AnyEnvironment
  ConcurrentOptIn = FALSE
  MaxExits = 1
  MaxFaults = 1
  None = None

SPECIFICATION FairSpec
CHECK_DEADLOCK FALSE

INVARIANTS
  NeverCorrupt
  OnceForAll
  PhaseIsTrue

PROPERTIES
  ResumeKeepsChunks
  EverythingEnds
