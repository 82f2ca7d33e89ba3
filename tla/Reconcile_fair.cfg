SPECIFICATION FairSpec
CONSTANTS
  s1 = s1
  s2 = s2
  s3 = s3
  a = a
  b = b
  c = c
  d = d
  k1 = k1
  k2 = k2
  q1 = q1
  q2 = q2
  r1 = r1
  r2 = r2
  StageNames = {s1, s2, s3}
  Objects = {a, b, c, d}
  Kinds = {k1, k2}
  Sources = {q1, q2}
  Revisions = {r1, r2}
  NoRev = NoRev
  Absent = Absent
  Foreign = Foreign
  Specs <- RenameSpecs
  SourceOf <- OwnSources
  KindOf <- ObjectKinds
  Render <- RenderChanges
  NoPrune = {}
  OptOut = {}
  Gated = {s1}
  Budgeted = {}
  RollbackOnFailure = FALSE
  Faults = {"fail", "prune", "crash", "kill", "lose", "suspend", "teardown"}
  MaxEdits = 1
  MaxFaults = 1
INVARIANT DeliveredStayLive
INVARIANT RetryPending
PROPERTY TeardownReverse
PROPERTY FinalizerGuards
PROPERTY TeardownCompletes
PROPERTY Converges
CHECK_DEADLOCK FALSE
