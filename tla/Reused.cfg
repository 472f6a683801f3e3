\* An application is deleted and created again under its name.
SPECIFICATION Spec
CONSTANTS
  Apps = {a}
  Tmpls = {t1, t2}
  BadSpec = bad
  WithOutputs = {t1}
  Ids = {i1, i2}
  Watchers = {w1, w2}
  Worker = worker
  None = None
  Moves <- SuccessMoves
  MayRefuse = {}
  UpdateApp = TRUE
  Resync = TRUE
  ReuseNames = TRUE
  MaxEdits = 4
  MaxFaults = 0
  MaxCrashes = 0
SYMMETRY Sym
INVARIANT GoneMeansDeleted
CHECK_DEADLOCK FALSE
