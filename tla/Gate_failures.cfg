SPECIFICATION FairSpec
CONSTANTS
  r1 = r1
  r2 = r2
  Revisions = {r1, r2}
  NoRev = NoRev
  Soak = 2
  FastTrackAfter = 1
  FailureLimit = 1
  MaxRestarts = 0
  EventGate = TRUE
  RevertOnFailure = TRUE
  Faults = {"connect", "fail", "progress", "update"}
  MaxTokens = 1
  MaxUpdates = 2
  RestartBound = 2
PROPERTY NeverUngated
PROPERTY SoakServed
PROPERTY SoakEnds
