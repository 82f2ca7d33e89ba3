--------------------------- MODULE MCPromotionGate ---------------------------
(* Instances of PromotionGate: two revisions and small soaks and limits. *)
EXTENDS PromotionGate

CONSTANTS r1, r2
=============================================================================
