CONSTANTS
  Workers = {w1, w2, w3}
  LimitCount = 5
  LimitWindow = 3
  ResetLimitCount = 3
  ResetLimitWindow = 3
  Certs = {c1, c2}
  Burst = burst
  Goroutines = {g1, g2, g3}
  Worker = worker
  Tester = tester
  Admins = {a1, a2}
  Passwords = {p1}
  NoKey = nokey
  NoPassword = nopassword
  MaxCrashes = 1
  Names = {x}
  Dirs <- CertsAndUploads
  DirOf <- AllInCerts
  MaxVersion = 2
  Tokens = {t1, t2}
  Posts = {q1, q2}
  tempCredTTL = 1
  MaxClock = 4
  Tabs = {b1, b2}
  MaxRounds = 2
SPECIFICATION MCSpec
INVARIANT TypesOK
INVARIANT FailuresBounded
INVARIANT ResetsBounded
INVARIANT RetryAfterExact
INVARIANT AtMostOnce
INVARIANT TestTellsTruth
INVARIANT PasswordKept
 
INVARIANT NothingMissingUntold
INVARIANT ShownOnce
INVARIANT RefusedOnlyWhenOvertaken
PROPERTY BlockLifts
PROPERTY DueIsAttempted
CHECK_DEADLOCK FALSE
