SPECIFICATION FairSpec
CONSTANTS
  x = x
  y = y
  sa = sa
  StageSets = {x, y}
  Accounts = {sa}
  NoAccount = NoAccount
  Settings <- MCSettings
  TTLs = {2}
  refreshMargin = 1
  MaxOps = 1
  MaxEvents = 3
INVARIANT CachesSound
PROPERTY Recovers
CHECK_DEADLOCK FALSE
