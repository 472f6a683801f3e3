SPECIFICATION Spec
CONSTANTS
  Procs = {worker, w1, w2}
  Worker = worker
  Specs = {t1, t2}
  Absent = Absent
  MaxChanges = 6
INVARIANTS TypeOK PhaseSettles
PROPERTIES ImplementsAtomic RemovalCompletes
CHECK_DEADLOCK FALSE
