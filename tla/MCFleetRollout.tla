--------------------------- MODULE MCFleetRollout ---------------------------
(* A fleet of three: a canary that soaks and is gated, then two more.      *)
EXTENDS FleetRollout

CONSTANTS c, r1, r2

MCWaves == <<{c}, {r1, r2}>>
MCSoak == <<1, 0>>
=============================================================================
