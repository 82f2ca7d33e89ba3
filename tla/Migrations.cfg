SPECIFICATION FairMigrationSpec
CONSTANTS
  Versions = {1, 2, 3}
  Major <- MCMajor
  NoVersion = NoVersion
  NotSemver = NotSemver
  StageList <- MCStages
  NoAnchor = NoAnchor
  Ladders <- MCLadders
  VersionReads <- MCVersionReads
  LadderReads <- MCLadderReads
  Policies <- MCPolicies
  MaxLadderLen = 2
  MaxActions = 2
  MaxRetries = 10
  MaxMigrationFailures = 2
  RequireCoverage = TRUE
  RequireVerified = TRUE
  RequirePinned = TRUE
  HostsAllowed = FALSE
  Starts <- MCStarts
  EditsInFlight = FALSE
  MaxEdits = 2
  MaxFaults = 1
INVARIANT LedgersSound
PROPERTY VersionMovesSafely
PROPERTY TransitionEnds
CHECK_DEADLOCK FALSE
