SPECIFICATION Spec
CONSTANTS
  s1 = s1
  s2 = s2
  install = install
  upgrade = upgrade
  migrate = migrate
  check = check
  alert = alert
  r1 = r1
  r2 = r2
  v1 = v1
  v2 = v2
  Stages <- TwoStages
  Pre <- PreActions
  Post <- PostActions
  OnFailure <- FailureActions
  Scope <- Scopes
  Anchored = {install}
  Revisions = {r1, r2}
  NoStage = NoStage
  NoRev = NoRev
  Versions = {v1, v2}
  NoVer = NoVer
  MaxActionFailures = 2
  Faults = {"early", "connect", "action", "record", "apply", "hold", "gate", "progress", "rollback", "stall", "lost", "unreadable", "recreate"}
  MaxEvents = 2
SYMMETRY Interchangeable
CHECK_DEADLOCK FALSE
INVARIANT TypeOK
INVARIANT ActionOnceUnlessErased
INVARIANT NothingOwedUnlessSkipped
INVARIANT DirtyHalts
