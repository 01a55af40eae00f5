\* Two browser tabs; two stages that call a model and one that runs the loop script
\* on its one slot; three attempts against a budget of four calls; the checks of two
\* workers; a server and two workers of two builds; a page whose run's review is retried.
SPECIFICATION MCSpec
CONSTANTS
  tab1 = tab1
  tab2 = tab2
  Tabs = {tab1, tab2}
  PageSize = 2
  MaxEvents = 3
  MaxStreamFaults = 1
  stage1 = stage1
  stage2 = stage2
  coder = coder
  Callers = {stage1, stage2, coder}
  ScriptStages = {coder}
  SlotLimit = 1
  DailyBudget = 2
  MaxWaits = 1
  MaxRepairAttempts = 3
  FirstIterations = 2
  RepairIterations = 2
  CallsPerDay = 4
  MaxOtherCalls = 1
  MaxRateLimits = 1
  worker1 = worker1
  worker2 = worker2
  Checkers = {worker1, worker2}
  MaxMishaps = 1
  MaxReopenings = 1
  server = server
  oldWorker = oldWorker
  newWorker = newWorker
  NoOpener = NoOpener
  Openers = {server, oldWorker, newWorker}
  CodeVersion <- MCCodeVersion
  MaxOpenFaults = 2
  PageStatuses = {"executing", "review_retry_required", "failed"}
  MaxRunEvents = 3
  MaxPageFaults = 1
\* A loop that returned, an expired run and a served schema have nothing left to do.
CHECK_DEADLOCK FALSE
INVARIANTS
  ServicesTypeOK
  NoGap
  StreamAscends
  PollsWhileWatched
  SlotsAccountedFor
  QueueOnlyWhenFull
  OvershootBounded
  VerifiedIsCounted
  AppliedInOrder
  ServesMigrated
  RestsAtTheEnd
PROPERTIES
  EveryEventReachesEveryTab
  QueueDrains
  StopEndsTheLoop
  OneOutcomeForGood
  OutcomeIsRecorded
