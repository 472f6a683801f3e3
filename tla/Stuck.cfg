\* The worker meets a conflict while it deletes: Delete returns with the record
\* Progressing and nobody following the stack. No call fails.
SPECIFICATION FairSpec
CONSTANTS
  Apps = {a}
  Tmpls = {t1, t2}
  BadSpec = bad
  WithOutputs = {t1}
  Ids = {i1, i2}
  Watchers = {w1, w2}
  Worker = worker
  None = None
  Moves <- NormalMoves
  MayRefuse = {"create", "update"}
  UpdateApp = FALSE
  Resync = TRUE
  ReuseNames = FALSE
  MaxEdits = 2
  MaxFaults = 0
  MaxCrashes = 0
PROPERTY WaitEnds
CHECK_DEADLOCK FALSE
