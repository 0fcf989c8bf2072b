CONSTANTS
  Tasks = {t1}
  Renewer = renewer
  MayFail = TRUE
  MaxIds = 2
  MaxKeys = 2
  MaxObtained = 2
  MaxCrashes = 1
SPECIFICATION FairSpec
INVARIANT PairMatches
INVARIANT AccountMatches
INVARIANT RowTellsFiles
PROPERTY PendingSettles
PROPERTY RenewalHappens
CHECK_DEADLOCK FALSE
