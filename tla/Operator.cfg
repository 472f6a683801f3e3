\* Two applications share the worker and the list of Progressing ones; an
\* operator checks and deletes stacks at the ROS console.
SPECIFICATION Spec
CONSTANTS
  Apps = {a, b}
  Tmpls = {t1}
  BadSpec = bad
  WithOutputs = {t1}
  Ids = {i1, i2}
  Watchers = {w1, w2}
  Worker = worker
  None = None
  Moves <- OperatorMoves
  MayRefuse = {}
  UpdateApp = TRUE
  Resync = FALSE
  ReuseNames = FALSE
  MaxEdits = 3
  MaxFaults = 0
  MaxCrashes = 0
SYMMETRY Sym
INVARIANTS TypeOK StackKnown ProgressingWatched NothingOverwritten
CHECK_DEADLOCK FALSE
