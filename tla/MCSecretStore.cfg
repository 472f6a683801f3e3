\* Two goroutines on one Secret; MaxRv lets one caller's Get be followed by
\* a write, a deletion and a re-creation by the other before it writes back.
SPECIFICATION Spec
CONSTANTS
  Callers = {c1, c2}
  Keys = {k1, k2}
  Values = {v1}
  NoValue = NoValue
  MaxRv = 4
SYMMETRY CallerSymmetry
INVARIANTS TypeOK ReadIsCurrent
PROPERTY ImplementsAtomic
CHECK_DEADLOCK FALSE
