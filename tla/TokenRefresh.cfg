CONSTANTS
  p1 = p1
  p2 = p2
  request = request
  other = other
  scan = scan
  Processes = {p1, p2}
  Callers = {request, other}
  Home <- TwoHomes
  Scanners = {}
  Policies = {"rotates", "omits"}
  LockTtl = 2
  AcquireTimeout = 1
  LockCoversCall = TRUE
  MaxTokens = 3
  MaxPairings = 1
  MaxExits = 1
  MaxLost = 1
  Nobody = Nobody

SPECIFICATION Spec

SYMMETRY Moves

INVARIANTS
  IInv
  RefreshIsSafe
  RemovalPurges

PROPERTIES
  ImplementsContract
