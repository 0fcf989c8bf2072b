CONSTANTS
  Handshakes = {h1, h2}
  Modes = {"provided", "stepca", "self-signed"}
  UseHTTPS = FALSE
  MaxPairs = 3
  MaxTime = 3
  MaxCrashes = 1
  Workers = {w1, w2}
  Skew = 1
  BatchSize = 1
  DBMayFail = TRUE
  MaxStep = 2
  MaxSecret = 2
  MaxBatch = 2
SYMMETRY Symmetry
SPECIFICATION MCSpec
CONSTRAINT FewTroubles
INVARIANT OneAcceptancePerStep
INVARIANT RecoveryCodesUsedOnce
INVARIANT CodesOfThisEnrolment
INVARIANT NeverLockedOut
INVARIANT CacheCoherent
INVARIANT HandshakeServed
INVARIANT ReadyToServe
PROPERTY NeverBack
CHECK_DEADLOCK FALSE
