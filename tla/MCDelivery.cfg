\* One delivery, with every fault once: crashes, shutdowns, lapsed leases,
\* failed transactions.  The stop commands of other runs come in between.
SPECIFICATION FairSpec
CONSTANTS
  Runs = {r1}
  Stops = {s1}
  Checks = {}
  Workers = {w1, w2}
  MaxAttempts = 2
  MaxFaults = 1
  NoWorker = NoWorker
  NoCommand = NoCommand
\* With every command settled and every run ended nothing is left to do.
CHECK_DEADLOCK FALSE
INVARIANTS
  TypeOK
  LedgerTellsTheTruth
PROPERTIES
  ImplementsRunDelivery
  EndsStayEnded
  RequestsSettle
