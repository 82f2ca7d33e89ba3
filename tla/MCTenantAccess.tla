--------------------------- MODULE MCTenantAccess ---------------------------
(* Two StageSets of one ServiceAccount, one of them with a kubeconfig; or  *)
(* one of them acting as the controller, with a kubeconfig.                *)
EXTENDS TenantAccess

CONSTANTS x, y, sa

Both(a, b, r) == [account |-> [s \in StageSets |-> IF s = x THEN a ELSE b], remote |-> r]
MCSettings == {Both(sa, sa, {y}), Both(NoAccount, sa, {x})}
=============================================================================
