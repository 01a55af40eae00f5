\* A run abandoned while its delivery is under way.
SPECIFICATION Spec
CONSTANTS
  Runs = {r1}
  Stops = {}
  Checks = {}
  Workers = {w1, w2}
  MaxAttempts = 2
  MaxFaults = 0
  NoWorker = NoWorker
  NoCommand = NoCommand
CHECK_DEADLOCK FALSE
PROPERTIES
  AbandonLeavesRemote
