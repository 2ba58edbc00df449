SPECIFICATION Spec
CONSTANTS
  Images = {1, 2}
  Broken = {1}
  Workers = {w1}
  NoJob = NoJob
  QueueSize = 1
  MaxFaults = 1
PROPERTIES JobsRecovered
CHECK_DEADLOCK FALSE
