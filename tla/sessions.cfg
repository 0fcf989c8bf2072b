CONSTANTS
  Users = {a, b, m, g, o}
  Member = m
  Host = a
  Sids = {s1, s2}
  Workers = {w1, w2}
  Existing = {a, b, m}
  Admins = {a, b}
  TwoFactorUsers = {m}
  OIDCUsers = {o}
  TempUsers = {g}
  LegacyUsers = {}
  Ops = {"login", "logout", "profile", "token", "role", "toggle", "delete", "reset", "oidc", "create"}
  BumpMayFail = TRUE
  MaxEpoch = 2
  MaxPassword = 2
SPECIFICATION FairCastSpec
INVARIANT RevokedStaysOut
PROPERTY ActsAsRegistry
PROPERTY LastAdminFallsToStaleActor
PROPERTY LapsedIsShutOut
CHECK_DEADLOCK FALSE
