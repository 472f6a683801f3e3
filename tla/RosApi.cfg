SPECIFICATION Spec
CONSTANTS
  Calls = {c1, c2}
  Workers = 1
  TaskQueue = 1
INVARIANTS TypeOK NilErrorMeansResponse CallbackOnce
PROPERTY EveryCallEnds
CHECK_DEADLOCK FALSE
