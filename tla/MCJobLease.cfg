\* The job lease: two workers race on one run, created or imported; one fault.
SPECIFICATION Spec
CONSTANTS
  Runs = {r1}
  ImportStatus = {"awaiting_plan_approval", "queued"}
  Workers = {w1, w2}
  MaxAttempts = 2
  MaxJobs = 3
  MaxFaults = 1
  NoRun = NoRun
  NoWorker = NoWorker
SYMMETRY Symmetry
\* With its runs at rest the system only polls an empty queue.
CHECK_DEADLOCK FALSE
INVARIANTS
  TypeOK
  OneActiveJobPerRun
  ActiveJobFitsRun
  LiveRunHasWork
  PendingJobsAreClaimable
  CompletedOnce
  RetryBudgetKept
  PassedStageCommits
  LeaseholderSeesItsRun
PROPERTIES
  EndedStaysEnded
  ImplementsRunWork
