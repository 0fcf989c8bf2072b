CONSTANTS
  Workers = {w1}
  Skew = 1
  BatchSize = 1
  DBMayFail = FALSE
  MaxStep = 2
  MaxSecret = 1
  MaxBatch = 1
SPECIFICATION Spec
INVARIANT CodeAcceptedOnce
CHECK_DEADLOCK FALSE
