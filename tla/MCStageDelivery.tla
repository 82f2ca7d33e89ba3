--------------------------- MODULE MCStageDelivery ---------------------------
(* One stage and its revisions: a plain one whose first entry is not a file,
   a sealed one, one whose last entry exceeds the total, and one with an
   oversized file before a second one of the same name. *)
EXTENDS StageDelivery

MCID == [e \in Refs |-> e]

File(n, s) == [name |-> n, size |-> s, taken |-> TRUE, manifest |-> n # "readme"]
Skipped(s) == [name |-> "link", size |-> s, taken |-> FALSE, manifest |-> FALSE]
Revision(entries, sealed, objects) == [entries |-> entries, sealed |-> sealed, objects |-> objects]

MCArtifact ==
    [r1 |-> Revision(<<Skipped(1), File("a", 2), File("readme", 1)>>, "none", {1, 2}),
     r2 |-> Revision(<<File("a", 1)>>, "k1", {2}),
     r3 |-> Revision(<<File("a", 2), File("b", 2)>>, "none", {1}),
     r4 |-> Revision(<<File("a", 3), File("a", 1)>>, "none", {1})]

MCAccepts == [keyless |-> {"d1", "d2"}, key |-> {"d1"}]
=============================================================================
