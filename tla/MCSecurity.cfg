SPECIFICATION Spec
CONSTANTS
  Key <- MCKey
  Demand = {1, 2}
  Capacity <- MCCapacity
  Rate <- MCRate
  MaxAge = 2
  Request <- MCRequest
  Rules <- MCRules
  DefaultScope = "ip"
  ExcludePaths = {"/health"}
  MaxTime = 5
  Actor = {a1, a2}
  Junk = junk
  MaxBuffer = 2
  MaxEvents = 6
  MaxFaults = 3
  User = {"operator"}
  AccessTtl = 1
  RefreshTtl = 2
  MaxClock = 4
  MaxTokens = 4
  MaxKeys = 1
  Holder = {"rover-1", "alpha"}
  Prefixed = {"rover-1"}
  Self = "rover-1"
  Authority = "CA"
  MaxSerial = 2
  MaxFailures = 1
INVARIANTS TypeOK MemoryIsTrue NoFalseAlarm WindowBound StoreAgrees
PROPERTIES ImplementsTokenBucket SessionsEnd
CHECK_DEADLOCK FALSE
