SPECIFICATION GateSpec
CONSTANTS
  c1 = c1
  c2 = c2
  p1 = p1
  p2 = p2
  IPs <- MCIPs
  Clients = {c1, c2}
  Proxies = {p1, p2}
  NoAddress = NoAddress
  Prefixes <- MCPrefixes
  Paths <- MCPaths
  Shards = {0, 1}
  Shard <- MCShard
  Rate = 2
  Window = 3
  Second = 2
  Horizon = 8
INVARIANTS TwoWindowsAtMost RetryAfterEnough
PROPERTIES KeepsWindows RefusalsEarned
CHECK_DEADLOCK FALSE
