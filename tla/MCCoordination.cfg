SPECIFICATION Spec
CONSTANTS
  t1 = t1
  t2 = t2
  r1 = r1
  r2 = r2
  m1 = m1
  m2 = m2
  m3 = m3
  Socket = {s1, s2, s3}
  AlertSocket = {a1}
  MaxCasts = 2
  TaskId = {t1, t2}
  Agent = {r1, r2}
  Nobody = Nobody
  Mate = {m1, m2, m3}
  Rumour = {x}
  Views <- MCViews
  Fanout = 2
  Hops = 4
  BatchSize = 2
  SeenLimit = 0
  SeenKept = 0
  MaxOrigins = 1
  Peer = {p1, p2, p3}
  MaxPeers = 2
  Interval = 1
  StaleAfter = 2
  Client = {c1, c2}
  Engine = {"ollama", "vllm"}
  FallbackChain <- MCFallbackChain
  Backend <- MCBackend
  Rover = {r1}
  Loop = {"sync", "heartbeat"}
  Node = {1, 2}
  Value = {1, 2, 3}
  Starts = {}
  Mail = {p}
  None = None
  k1 = k1
  k2 = k2
  Key = {k1, k2}
  Kinds = {"gset", "pncounter", "lwwmap", "rover", "mission", "swarm"}
  KeysOf <- MCKeysOf
  MaxUpdates = 2
  Author = {a, b}
  MaxWrites = 3
CHECK_DEADLOCK FALSE
INVARIANTS TypeOK SetIsServed OwnersAgree RumoursDie NobodyIsForgotten FailsOnlyIfAll ReplicasAgree StatesKeepWrites
PROPERTIES GhostsGo AllocationIsEven StopIsClean
