\* Two applications, no failure: the list loses one of them.
SPECIFICATION Spec
CONSTANTS
  Apps = {a, b}
  Tmpls = {t1, t2}
  BadSpec = bad
  WithOutputs = {t1}
  Ids = {i1, i2}
  Watchers = {w1, w2}
  Worker = worker
  None = None
  Moves <- SuccessMoves
  MayRefuse = {}
  UpdateApp = FALSE
  Resync = FALSE
  ReuseNames = FALSE
  MaxEdits = 2
  MaxFaults = 0
  MaxCrashes = 0
SYMMETRY Sym
INVARIANT ProgressingListed
CHECK_DEADLOCK FALSE
