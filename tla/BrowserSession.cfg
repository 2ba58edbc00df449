SPECIFICATION FairSpec
CONSTANTS
  c1 = c1
  c2 = c2
  c3 = c3
  p1 = p1
  p2 = p2
  Calls <- MCCalls
  Pages = {p1, p2}
  Page <- MCPage
  Kinds <- MCKinds
  MaxPairs = 3
  Faults = {"network", "db"}
INVARIANTS SessionKept HandledOnce
PROPERTIES CallsEnd CallsAdvance
CHECK_DEADLOCK FALSE
