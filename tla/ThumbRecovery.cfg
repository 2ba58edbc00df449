SPECIFICATION Spec
CONSTANTS
  Images = {1, 2, 3}
  Broken = {}
  Workers = {w1}
  NoJob = NoJob
  QueueSize = 2
  MaxFaults = 2
INVARIANTS TypeOK
PROPERTIES JobsRecovered
CHECK_DEADLOCK FALSE
