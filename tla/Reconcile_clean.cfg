SPECIFICATION Spec
CONSTANTS
  s1 = s1
  s2 = s2
  s3 = s3
  a = a
  b = b
  c = c
  d = d
  k1 = k1
  k2 = k2
  q1 = q1
  q2 = q2
  r1 = r1
  r2 = r2
  StageNames = {s1, s2, s3}
  Objects = {a, b, c, d}
  Kinds = {k1, k2}
  Sources = {q1, q2}
  Revisions = {r1, r2}
  NoRev = NoRev
  Absent = Absent
  Foreign = Foreign
  Specs <- AllSpecs
  SourceOf <- OwnSources
  KindOf <- ObjectKinds
  Render <- RenderChanges
  NoPrune = {s2}
  OptOut = {b}
  Gated = {}
  Budgeted = {}
  RollbackOnFailure = FALSE
  Faults = {"defer", "adopt", "suspend"}
  MaxEdits = 2
  MaxFaults = 1
INVARIANT TypeOK
INVARIANT NoOrphans
PROPERTY DeletesOnlyRecorded
PROPERTY PruneFalseKept
CHECK_DEADLOCK FALSE
