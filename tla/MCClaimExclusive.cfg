\* One process dies while it holds the claim; two calls of another find it
\* abandoned, and a third only wants to create it.
SPECIFICATION Spec
CONSTANTS
  create1 = create1
  create2 = create2
  update = update
  plain = plain
  server = server
  cli = cli
  k1 = k1
  k2 = k2
  None = None
  Calls = {create1, create2, update, plain}
  Processes = {server, cli}
  Keys = {k1, k2}
  ProcessOf <- MCProcessOf
  Kind <- MCKind
  KeyOf <- MCKeyOf
  MaxDeaths = 1
CHECK_DEADLOCK FALSE
INVARIANT Exclusive
