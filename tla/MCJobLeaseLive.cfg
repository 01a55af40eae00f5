\* Every run comes to rest: two workers, one fault, no symmetry (liveness).
SPECIFICATION FairSpec
CONSTANTS
  Runs = {r1}
  ImportStatus = {"awaiting_plan_approval"}
  Workers = {w1, w2}
  MaxAttempts = 2
  MaxJobs = 2
  MaxFaults = 1
  NoRun = NoRun
  NoWorker = NoWorker
CHECK_DEADLOCK FALSE
PROPERTY
  RunsComeToRest
