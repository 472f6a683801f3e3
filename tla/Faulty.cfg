\* One crash and one failed or unanswered call, at any point, with a service
\* that may refuse to update or delete a stack, or fail to delete it;
\* templates without outputs, which the properties do not look at.
SPECIFICATION Spec
CONSTANTS
  Apps = {a}
  Tmpls = {t1, t2}
  BadSpec = bad
  WithOutputs = {}
  Ids = {i1, i2}
  Watchers = {w1, w2}
  Worker = worker
  None = None
  Moves <- TroubledMoves
  MayRefuse = {"update", "delete"}
  UpdateApp = FALSE
  Resync = FALSE
  ReuseNames = FALSE
  MaxEdits = 3
  MaxFaults = 1
  MaxCrashes = 1
SYMMETRY Sym
INVARIANTS TemplateAccepted ListedRecovered PanicsOnlyForDeleted
PROPERTIES RecordOutlivesStack DeleteOnlyOnRequest
CHECK_DEADLOCK FALSE
