SPECIFICATION Spec
CONSTANTS
  s1 = s1
  s2 = s2
  s3 = s3
  a = a
  b = b
  c = c
  d = d
  k1 = k1
  k2 = k2
  q1 = q1
  q2 = q2
  r1 = r1
  r2 = r2
  StageNames = {s1, s2, s3}
  Objects = {a, b, c, d}
  Kinds = {k1, k2}
  Sources = {q1, q2}
  Revisions = {r1, r2}
  NoRev = NoRev
  Absent = Absent
  Foreign = Foreign
  Specs <- TwoStages
  SourceOf <- OwnSources
  KindOf <- ObjectKinds
  Render <- RenderOverlap
  NoPrune = {}
  OptOut = {}
  Gated = {s1}
  Budgeted = {s2}
  RollbackOnFailure = TRUE
  Faults = {"connect", "fail", "terminal", "progress", "kill", "interrupt", "revert", "promote", "unavailable", "rollback"}
  MaxEdits = 2
  MaxFaults = 2
INVARIANT LastGoodStaysLive
INVARIANT RollbackRestores
CHECK_DEADLOCK FALSE
