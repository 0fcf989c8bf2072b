CONSTANTS
  Workers = {w1, w2}
  MaxCerts = 2
  MaxRequests = 4
  MaxCrashes = 1
SYMMETRY Symmetry
SPECIFICATION Spec
INVARIANT RevokedRowsAreRevoked
INVARIANT RevokedIsShown
INVARIANT SignedAndOnFileAreRecorded
CHECK_DEADLOCK FALSE
