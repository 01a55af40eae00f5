\* A requeue from the review against the plan it should revise first.
SPECIFICATION Spec
CONSTANTS
  Runs = {r1}
  ImportStatus = {"awaiting_plan_approval"}
  Workers = {w1}
  MaxAttempts = 2
  MaxJobs = 3
  MaxFaults = 2
  NoRun = NoRun
  NoWorker = NoWorker
CHECK_DEADLOCK FALSE
INVARIANT
  RevisesPlanBeforeReexecution
