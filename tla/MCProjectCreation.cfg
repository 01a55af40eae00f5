\* Two creations and an update of one project, one of them from another
\* process; a process may die, and every write may fail.
SPECIFICATION FairSpec
CONSTANTS
  create1 = create1
  create2 = create2
  update = update
  plain = plain
  server = server
  cli = cli
  k1 = k1
  k2 = k2
  None = None
  Calls = {create1, create2, update}
  Processes = {server, cli}
  Keys = {k1, k2}
  ProcessOf <- MCProcessOf
  Kind <- MCKind
  KeyOf <- MCKeyOf
  MaxDeaths = 1
\* When every call has ended nothing is left to do.
CHECK_DEADLOCK FALSE
INVARIANTS
  TypeOK
  ExclusiveAmongTheLiving
  RecordHasItsSecret
PROPERTIES
  DestroysOnlyTheDead
  LoserWritesNothing
  EveryCallEnds
