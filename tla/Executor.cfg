SPECIFICATION FairSpec
CONSTANTS
    Acts <- MCActs
    Timed <- MCTimed
    Parts <- MCParts
    Revs = {"r1", "r2"}
    Manifests <- MCManifests
    retries = 1
    MaxFaults = 2
INVARIANT EffectsSound
PROPERTY CallsBounded
PROPERTY AllRecorded
CHECK_DEADLOCK FALSE
