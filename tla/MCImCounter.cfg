CONSTANTS
  MAX_COUNTERS = 2
  File = {f1, f2}
  Totals = {1, 3}
  MaxSequence = 3
  MaxDepth = 2
  OMP = TRUE
SPECIFICATION Spec
INVARIANTS TypeOK HeldIsNotReleased Bracketed ProgressIsOwn LockIsOwn
\* A crashed process does nothing more.
CHECK_DEADLOCK FALSE
