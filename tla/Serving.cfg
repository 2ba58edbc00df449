SPECIFICATION FairSpec
CONSTANTS
  pub = pub
  own = own
  once = once
  brief = brief
  r1 = r1
  r2 = r2
  Images = {pub, own, once, brief}
  Requests = {r1, r2}
  Private = {own}
  Burn = {once}
  Expiring = {brief}
  Size = 3
  NoRange = NoRange
  QueueSize = 2
  BatchSize = 2
  Faults = {"db", "storage"}
  Workloads <- MCWorkloads
INVARIANTS NeverOvercounted StopFlushes BurnAnsweredOnce CachedForAll RangesExact
PROPERTIES StopReturns ViewsSettle
CHECK_DEADLOCK FALSE
