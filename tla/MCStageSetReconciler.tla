------------------------- MODULE MCStageSetReconciler -------------------------
(***************************************************************************)
(* Instances of StageSetReconciler: two or three stage names, three or     *)
(* four objects of two kinds, two revisions of each source.                *)
(***************************************************************************)
EXTENDS StageSetReconciler, TLC

CONSTANTS s1, s2, s3, a, b, c, d, k1, k2, q1, q2, r1, r2

\* Spec edits: s1 is renamed to s3, or s1 is removed, or the stages swap.
RenameSpecs == {<<s1, s2>>, <<s3, s2>>}
RemoveSpecs == {<<s1, s2>>, <<s2>>}
SwapSpecs == {<<s1, s2>>, <<s2, s1>>}
TwoStages == {<<s1, s2>>}
AllSpecs == RenameSpecs \cup RemoveSpecs \cup SwapSpecs

OwnSources == s1 :> q1 @@ s2 :> q2 @@ s3 :> q1

ObjectKinds == a :> k1 @@ b :> k1 @@ c :> k2 @@ d :> k2

\* A revision adds one object to each stage and drops another; s3 renders what
\* s1 does, so that the rename moves objects between stages.
RenderChanges ==
    LET first == r1 :> {a, b} @@ r2 :> {a, c}
    IN  s1 :> first @@ s2 :> (r1 :> {d} @@ r2 :> {}) @@ s3 :> first

\* As RenderChanges, but at their revisions r2 both stages render c.
RenderOverlap ==
    LET first == r1 :> {a, b} @@ r2 :> {a, c}
    IN  s1 :> first @@ s2 :> (r1 :> {d} @@ r2 :> {c}) @@ s3 :> first
=============================================================================
