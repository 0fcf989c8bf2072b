CONSTANTS
  Users = {u1}
  Workers = {w1, w2}
  DBMayFail = FALSE
  MaxTokens = 1
SYMMETRY Symmetry
SPECIFICATION Spec
INVARIANT LinkSingleUse
CHECK_DEADLOCK FALSE
