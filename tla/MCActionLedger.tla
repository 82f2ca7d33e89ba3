--------------------------- MODULE MCActionLedger ----------------------------
(* Two stages with an action of every scope between them. *)
EXTENDS ActionLedger

CONSTANTS r1, r2, v1, v2, s1, s2, install, upgrade, migrate, check, alert

TwoStages == <<s1, s2>>
PreActions == (s1 :> <<upgrade>>) @@ (s2 :> <<check>>)
PostActions == (s1 :> <<install>>) @@ (s2 :> <<migrate>>)
FailureActions == (s1 :> <<>>) @@ (s2 :> <<alert>>)
Scopes ==
    (upgrade :> "Version") @@ (install :> "Lifetime") @@ (check :> "Revision")
    @@ (migrate :> "Version")

\* Revisions and versions only ever differ.
Interchangeable == Permutations({r1, r2}) \cup Permutations({v1, v2})
=============================================================================
