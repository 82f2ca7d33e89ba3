-------------------------- MODULE MCActionExecutor --------------------------
(* Two StageSets whose job actions use the same artifact of two Jobs, one under
   a timeout of the action, the other under the limit of each attempt. *)
EXTENDS ActionExecutor

MCActs == [s1 |-> <<"patch", "job">>, s2 |-> <<"job", "http", "wait">>]
MCTimed == [s1 |-> {"job"}, s2 |-> {"wait"}]
MCParts == [patch |-> {"t1", "t2"}]
MCManifests == <<"j1", "j2">>
=============================================================================
