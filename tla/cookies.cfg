CONSTANTS
  Requests = {r1, r2}
  SessionTimeout = 1
  SessionMaxLifetime = 2
  MaxTime = 3
  MaxEpoch = 1
  MaxTokens = 2
SYMMETRY Symmetry
SPECIFICATION Spec
INVARIANT LifetimeBounded
INVARIANT PairAgrees
INVARIANT KeptInside
INVARIANT DeadlineKept
INVARIANT SignedOutStaysOut
CHECK_DEADLOCK FALSE
