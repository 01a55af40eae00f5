\* A clean shutdown against the retry budget it promises to leave alone.
SPECIFICATION Spec
CONSTANTS
  Runs = {r1}
  ImportStatus = {}
  Workers = {w1}
  MaxAttempts = 2
  MaxJobs = 3
  MaxFaults = 1
  NoRun = NoRun
  NoWorker = NoWorker
CHECK_DEADLOCK FALSE
PROPERTY
  StopSpendsNoAttempt
