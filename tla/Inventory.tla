------------------------------ MODULE Inventory ------------------------------
(***************************************************************************)
(* internal/inventory: the pure planning behind pruning and teardown.      *)
(*                                                                         *)
(* A record of a stage is [pos |-> p, refs |-> R]: the position the stage  *)
(* had in spec.stages when it was written and the objects it names.  A set *)
(* of records is a function from stage names to records; a stage outside   *)
(* its domain has no record.  The desired state of a run is a function     *)
(* from stage names to sets of objects.                                    *)
(***************************************************************************)
EXTENDS Integers, FiniteSets

\* Every object some desired stage renders.
Claimed(desired) == UNION {desired[s] : s \in DOMAIN desired}

(***************************************************************************)
(* ComputePlan, first half: what each surviving stage prunes.  An object   *)
(* another desired stage renders has moved, and is kept.                   *)
(***************************************************************************)
PrunePerStage(previous, desired) ==
    [s \in DOMAIN previous \cap DOMAIN desired |->
        (previous[s].refs \ desired[s]) \ Claimed(desired)]

\* Mutation: a removed stage is torn down without looking at who renders
\* its objects now.
RemovedWithoutTransfer(previous, desired) ==
    [s \in DOMAIN previous \ DOMAIN desired |->
        [pos |-> previous[s].pos, refs |-> previous[s].refs]]

(***************************************************************************)
(* ComputePlan, second half: recorded stages the desired state no longer   *)
(* has, with the objects their teardown deletes.                           *)
(***************************************************************************)
RemovedStages(previous, desired) ==
    [s \in DOMAIN previous \ DOMAIN desired |->
        [pos  |-> previous[s].pos,
         refs |-> previous[s].refs \ Claimed(desired)]]

\* Objects rendered by more than one stage.
DuplicateClaims(desired) ==
    {o \in Claimed(desired) :
        \E s, t \in DOMAIN desired : s # t /\ o \in desired[s] /\ o \in desired[t]}

\* Mutation: the walk goes forward.
FirstStages(todo, records) ==
    {s \in todo : \A t \in todo : records[s].pos <= records[t].pos}

(***************************************************************************)
(* The stages of todo that a walk in descending recorded position may take *)
(* next.  The code breaks ties by name; any order of the tied stages is    *)
(* allowed here.                                                           *)
(***************************************************************************)
LastStages(todo, records) ==
    {s \in todo : \A t \in todo : records[t].pos <= records[s].pos}
=============================================================================
