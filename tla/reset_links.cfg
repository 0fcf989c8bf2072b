CONSTANTS
  Users = {u1}
  Workers = {w1, w2}
  DBMayFail = TRUE
  MaxTokens = 3
SYMMETRY Symmetry
SPECIFICATION Spec
INVARIANT OneResetPerLink
INVARIANT OneValidLink
CHECK_DEADLOCK FALSE
