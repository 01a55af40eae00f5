\* A delivery claimed together with a pull request check: whichever waits in
\* the batch is renewed by nobody, and the other worker takes it over.
SPECIFICATION Spec
CONSTANTS
  Runs = {r1}
  Stops = {}
  Checks = {k1}
  Workers = {w1, w2}
  MaxAttempts = 2
  MaxFaults = 0
  NoWorker = NoWorker
  NoCommand = NoCommand
SYMMETRY Symmetry
\* With every command settled and every run ended nothing is left to do.
CHECK_DEADLOCK FALSE
INVARIANTS
  DeliveredTogether
