SPECIFICATION FairSpec
CONSTANTS
    Refs = {1, 2}
    ID <- MCID
    capacity = 1
    Artifact <- MCArtifact
    FirstRev = "r1"
    Digests = {"d1", "d2"}
    FirstDigest = "d1"
    Accepts <- MCAccepts
    Keyless = {"keyless"}
    RequireImageVerification = TRUE
    maxEntry = 2
    maxExtracted = 3
    maxDecompressed = 5
    MaxEvents = 2
INVARIANT OnlyTrustedDelivered
PROPERTY InterruptedNotFailed
PROPERTY NothingOverlooked
PROPERTY RecordSpec
CHECK_DEADLOCK FALSE
