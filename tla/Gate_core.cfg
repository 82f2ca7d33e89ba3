SPECIFICATION Spec
CONSTANTS
  r1 = r1
  r2 = r2
  Revisions = {r1, r2}
  NoRev = NoRev
  Soak = 2
  FastTrackAfter = 1
  FailureLimit = 1
  MaxRestarts = 0
  EventGate = TRUE
  RevertOnFailure = TRUE
  Faults = {"interrupt", "unusable", "crash", "update"}
  MaxTokens = 2
  MaxUpdates = 2
  RestartBound = 2
INVARIANT GateSound
PROPERTY RestartsCharged
PROPERTY StaysReverted
