CONSTANTS
  Tabs = {t1}
  MaxRounds = 1
SPECIFICATION Spec
INVARIANT CallbackLogsIn
CHECK_DEADLOCK FALSE
