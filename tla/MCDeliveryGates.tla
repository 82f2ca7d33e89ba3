-------------------------- MODULE MCDeliveryGates --------------------------
(* Two StageSets, one depending on the other, with overlapping windows and *)
(* a budget on the dependency, and a budget on the dependent's stage.      *)
EXTENDS DeliveryGates

CONSTANTS db, app

Of(d, a) == [s \in StageSets |-> IF s = db THEN d ELSE a]
MCGraphs == {Of({}, {}), Of({}, {db}), Of({app}, {db})}
MCMinVersion == [s \in StageSets |-> 0]

Recurring(type, starts, dur) ==
    [type |-> type, form |-> "recurring", starts |-> starts, dur |-> dur, from |-> NoTime, to |-> NoTime]
Absolute(type, from, to) ==
    [type |-> type, form |-> "absolute", starts |-> {}, dur |-> 0, from |-> from, to |-> to]
Overlapping == <<Recurring("Allow", {0, 2, 3, 4, 6}, 2), Absolute("Deny", 1, 4), Absolute("Deny", 5, 6)>>
Both == [Recurring("Allow", {0}, 1) EXCEPT !.form = "both"]
EB(f, r, e) == [freezeThreshold |-> f, resumeThreshold |-> r, onSourceError |-> e, dryRun |-> FALSE]
Good(v) == [provider |-> "prometheus", address |-> "url", host |-> "allowed", hops |-> 0, hop |-> "same",
            secret |-> "none", addresses |-> {"public"}, status |-> 200, body |-> "json",
            prometheus |-> "success", shape |-> "vector", samples |-> 1, value |-> v]
NaN == [Good(3) EXCEPT !.provider = "webhook", !.value = NotANumber]
MCResponses == {Good(0), Good(2), Good(3), NaN}

MCConfigs == {
    [present |-> {db}, windows |-> Of(Overlapping, <<>>), scope |-> Of("Updates", "Updates"), horizon |-> 4,
     budget |-> Of(EB(1, 3, "Hold"), NoBudget), stageBudget |-> Of(NoBudget, NoBudget), responses |-> {Good(0), Good(2), Good(3)},
     maxEdits |-> 2, maxFaults |-> 0],
    [present |-> {db}, windows |-> Of(<<Absolute("Deny", 0, 1)>>, <<>>), scope |-> Of("All", "All"), horizon |-> 1,
     budget |-> Of(EB(1, NoTime, "Allow"), NoBudget), stageBudget |-> Of(EB(1, 3, "Hold"), NoBudget),
     responses |-> {Good(0), Good(3), NaN},
     maxEdits |-> 2, maxFaults |-> 1],
    [present |-> {db}, windows |-> Of(<<Both>>, <<>>), scope |-> Of("All", "All"), horizon |-> 0,
     budget |-> Of(EB(2, 1, "Hold"), NoBudget), stageBudget |-> Of(NoBudget, NoBudget), responses |-> {Good(3)},
     maxEdits |-> 2, maxFaults |-> 0],
    [present |-> {db, app}, windows |-> Of(<<>>, <<>>), scope |-> Of("All", "All"), horizon |-> 0,
     budget |-> Of(NoBudget, NoBudget), stageBudget |-> Of(EB(1, NoTime, "Allow"), NoBudget), responses |-> {Good(0), Good(3)},
     maxEdits |-> 1, maxFaults |-> 1]}
=============================================================================
