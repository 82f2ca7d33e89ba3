SPECIFICATION FairSpec
CONSTANTS
  db = db
  app = app
  StageSets = {db, app}
  Graphs <- MCGraphs
  MinVersion <- MCMinVersion
  Configs <- MCConfigs
  NoBudget = NoBudget
  Responses <- MCResponses
  Revisions = {1, 2}
  Tokens = {1, 2}
  Horizon = 4
  MaxRequeue = 2
INVARIANT HoldsRemembered
PROPERTY GatesHold
PROPERTY NobodyWaitsInVain
CHECK_DEADLOCK FALSE
