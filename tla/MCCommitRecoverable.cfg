\* A commit that is reported failed after it was made is lost to the ledger.
SPECIFICATION Spec
CONSTANTS
  Runs = {r1}
  Stops = {}
  Checks = {}
  Workers = {w1, w2}
  MaxAttempts = 2
  MaxFaults = 0
  NoWorker = NoWorker
  NoCommand = NoCommand
CHECK_DEADLOCK FALSE
INVARIANTS
  CommitIsRecoverable
