CONSTANTS
  Users = {a}
  Sids = {s1}
  Workers = {w1, w2}
  Existing = {a}
  Admins = {}
  TwoFactorUsers = {a}
  OIDCUsers = {}
  TempUsers = {}
  LegacyUsers = {}
  Ops = {"login", "token"}
  BumpMayFail = FALSE
  MaxEpoch = 2
  MaxPassword = 2
SPECIFICATION Spec
INVARIANT NoSessionOutlivesRevocation
CHECK_DEADLOCK FALSE
