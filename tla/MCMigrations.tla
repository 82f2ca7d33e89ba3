---------------------------- MODULE MCMigrations ----------------------------
(* An instance of Migrations: three versions, two boundaries anchored to   *)
(* two stages, an edit of the first boundary and a ladder with an          *)
(* irreversible, version-restricted boundary.                              *)
EXTENDS Migrations

MCMajor == [v \in Versions |-> IF v < 3 THEN 1 ELSE 2]
Stage(n, a) == [name |-> n, migrationAnchor |-> a]
MCStages == <<Stage("db", "schema"), Stage("app", NoAnchor)>>

Action(n) == [name |-> n, named |-> TRUE, verbs |-> 1, scoped |-> FALSE, retries |-> 1, http |-> FALSE]
AnyVersion == [form |-> "unset", matches |-> {}]
Only(vs) == [form |-> "constraint", matches |-> vs]
Mig(n, d, to, from, st, up, down) ==
    [name |-> n, digest |-> d, to |-> to, from |-> from, stage |-> st, actions |-> up, down |-> down]

Two(d) == Mig("two", d, 2, AnyVersion, "app", <<Action("a1"), Action("a2")>>, <<Action("x")>>)
Three == Mig("three", "t1", 3, AnyVersion, "schema", <<Action("b")>>, <<Action("y")>>)
OneWay == Mig("three", "t2", 3, Only({1}), "schema", <<Action("b")>>, <<>>)

MCLadders == {<<Three, Two("d1")>>, <<OneWay, Two("d2")>>}

MCPolicies == {<<"Never", TRUE>>, <<"Always", FALSE>>}
MCStarts == {<<NoVersion, 1>>, <<1, 3>>}

Read(k, f) == [kind |-> k, fault |-> f]
MCVersionReads == {Read("fromArtifact", "none"), Read("fromObject", "variables")}
MCLadderReads == {Read("inline", "none"), Read("source", "unsigned")}
=============================================================================
