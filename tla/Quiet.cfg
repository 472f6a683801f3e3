\* The process never fails: one application, created, edited and deleted in any
\* order, with stacks that roll back, refused requests and events at any time.
SPECIFICATION Spec
CONSTANTS
  Apps = {a}
  Tmpls = {t1, t2}
  BadSpec = bad
  WithOutputs = {t1}
  Ids = {i1, i2}
  Watchers = {w1, w2, w3}
  Worker = worker
  None = None
  Moves <- NormalMoves
  MayRefuse = {"create", "update", "delete"}
  UpdateApp = FALSE
  Resync = TRUE
  ReuseNames = FALSE
  MaxEdits = 3
  MaxFaults = 0
  MaxCrashes = 0
SYMMETRY Sym
INVARIANTS ReadyMeansDeployed FinalizerGuards WatchedOnce
PROPERTY ImplementsLifeCycle
CHECK_DEADLOCK FALSE
