\* What must happen happens: stacks may roll back, and requests to create or
\* update one may be refused, for ever.
SPECIFICATION FairSpec
CONSTANTS
  Apps = {a}
  Tmpls = {t1, t2}
  BadSpec = bad
  WithOutputs = {t1}
  Ids = {i1, i2}
  Watchers = {w1, w2}
  Worker = worker
  None = None
  Moves <- NormalMoves
  MayRefuse = {"create", "update"}
  UpdateApp = FALSE
  Resync = TRUE
  ReuseNames = FALSE
  MaxEdits = 2
  MaxFaults = 0
  MaxCrashes = 0
PROPERTIES ProgressingEnds DeletionCompletes LastEditDeployed
CHECK_DEADLOCK FALSE
