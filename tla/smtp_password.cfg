CONSTANTS
  Certs = {c1}
  Burst = burst
  Goroutines = {}
  Worker = worker
  Tester = tester
  Admins = {a1}
  Passwords = {p1}
  NoKey = nokey
  NoPassword = nopassword
  MaxCrashes = 0
SPECIFICATION Spec
PROPERTY BlankKeepsPassword
CHECK_DEADLOCK FALSE
