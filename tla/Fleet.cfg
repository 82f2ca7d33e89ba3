SPECIFICATION FairSpec
CONSTANTS
  c = c
  r1 = r1
  r2 = r2
  Members = {c, r1, r2}
  Waves <- MCWaves
  Soak <- MCSoak
  Gated = {1}
  Versions = {1, 2}
  TargetVersion = 2
  PreviousVersion = 1
  Policies = {"Halt", "Rollback"}
  AllowDowngrade = {r1, r2}
  FirstVersion = 1
  MaxFaults = 1
  MaxDisturbances = 1
INVARIANT StatusTruthful
PROPERTY WavesInOrder
PROPERTY Completes
CHECK_DEADLOCK FALSE
