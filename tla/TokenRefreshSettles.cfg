CONSTANTS
  p1 = p1
  p2 = p2
  request = request
  other = other
  scan = scan
  Processes = {p1, p2}
  Callers = {request, other, scan}
  Home <- TwoHomes
  Scanners = {scan}
  Policies = {"repeats"}
  LockTtl = 2
  AcquireTimeout = 1
  LockCoversCall = TRUE
  MaxTokens = 2
  MaxPairings = 0
  MaxExits = 1
  MaxLost = 0
  Nobody = Nobody

SPECIFICATION FairSpec

INVARIANTS
  HandsOutCurrent

PROPERTIES
  EveryCallSettles
