-------------------------- MODULE StageSetReconciler --------------------------
(***************************************************************************)
(* One StageSet and the reconciler that delivers it                        *)
(* (internal/controller/stageset_controller.go): the pass over the stages, *)
(* the write-ahead inventory, the cross-stage prune, rollback, and the     *)
(* reverse-order teardown behind the finalizer.                            *)
(*                                                                         *)
(* A pass is a sequence of steps, each ending at a write to the API server *)
(* or the target cluster; the spec, the sources, the shards and the        *)
(* process itself may change or stop between any two of them.  The         *)
(* workqueue never runs two passes of one StageSet at once.                *)
(*                                                                         *)
(* How a promotion gate decides is the subject of PromotionGate; here it   *)
(* is a choice among promote, hold, revert and could-not-evaluate, with    *)
(* the status each leaves behind.                                          *)
(***************************************************************************)
EXTENDS Integers, Sequences, FiniteSets, Inventory

CONSTANTS
    StageNames,         \* the stage names a spec may use
    Objects,            \* the objects manifests may name
    Kinds,              \* their kinds
    Sources, Revisions, \* sources stages refer to, and their revisions
    NoRev,              \* "": no revision
    Absent, Foreign,    \* an object not in the cluster / relabelled by another manager
    Specs,              \* the stage orders spec.stages may hold
    SourceOf,           \* SourceOf[s]: the source of stage s
    KindOf,             \* KindOf[o]: the kind of object o
    Render,             \* Render[s][r]: the objects stage s builds from revision r
    NoPrune,            \* stages with prune: false
    OptOut,             \* objects annotated stages.metio.wtf/prune=disabled
    Gated,              \* stages with a promotion gate
    Budgeted,           \* stages with an errorBudget of their own
    RollbackOnFailure,  \* spec.rollbackOnFailure
    Faults,             \* the disturbances this instance explores
    MaxEdits,           \* bound on spec edits and source updates
    MaxFaults           \* bound on disturbances

FaultKinds == {"defer", "connect", "fail", "terminal", "progress", "interrupt",
               "revert", "promote", "unavailable", "rollback", "prune", "crash", "kill", "lose",
               "adopt", "teardown", "suspend"}

StageOrders == UNION {[1 .. n -> StageNames] : n \in 1 .. Cardinality(StageNames)}

InjectiveOrder(sp) == \A i, j \in 1 .. Len(sp) : sp[i] = sp[j] => i = j

ASSUME NamesAssumption ==
    /\ IsFiniteSet(StageNames)
    /\ Absent # Foreign
    /\ Absent \notin StageNames
    /\ Foreign \notin StageNames
    /\ NoRev \notin Revisions

ASSUME SpecsAssumption ==
    /\ Specs \subseteq StageOrders
    /\ \A sp \in Specs : InjectiveOrder(sp)

ASSUME RenderAssumption ==
    /\ SourceOf \in [StageNames -> Sources]
    /\ KindOf \in [Objects -> Kinds]
    /\ Render \in [StageNames -> [Revisions -> SUBSET Objects]]

ASSUME ConfigAssumption ==
    /\ NoPrune \subseteq StageNames
    /\ Gated \subseteq StageNames
    /\ Budgeted \subseteq StageNames
    /\ OptOut \subseteq Objects
    /\ RollbackOnFailure \in BOOLEAN
    /\ Faults \subseteq FaultKinds
    /\ MaxEdits \in Nat
    /\ MaxFaults \in Nat

VARIABLES
    live,       \* target cluster: the stage label of each object, Absent or Foreign
    shards,     \* StageInventory: the record of each stage, NoRecord if it has none
    spec,       \* spec.stages of the stored StageSet
    source,     \* the revision each source currently offers
    suspended,  \* spec.suspend
    deleting,   \* metadata.deletionTimestamp is set
    finalizer,  \* the controller's finalizer is on the object
    expired,    \* --max-teardown-wait has elapsed since the deletion
    stages,     \* status.stages
    snapshot,   \* status.lastAppliedSnapshot
    deployed,   \* status.lastAppliedRevisions is not empty
    ready,      \* reason of the Ready condition
    queued,     \* the StageSet is in the workqueue
    timer,      \* a delayed re-queue (RequeueAfter or error backoff) is pending
    pc,         \* where the running pass is; "idle" between passes
    run,        \* spec.stages as this pass read it
    idx,        \* the stage of run this pass is at
    pinned,     \* the revision this pass resolved for each stage
    previous,   \* the inventory as this pass read it (previousMap)
    delivered,  \* stages this pass has applied and recorded (desiredRecords)
    built,      \* status.stages as this pass would merge it now
    rebuilt,    \* stages whose lost inventory this pass reconstructed
    todo,       \* stages the running prune, rollback or teardown has left
    terminal,   \* the failure that ended the stage loop is terminal
    edits, faults

objectVars == <<spec, source, suspended, deleting, finalizer, expired>>
statusVars == <<stages, snapshot, deployed, ready>>
clusterVars == <<live, shards>>
queueVars == <<queued, timer>>
passVars == <<run, idx, pinned, previous, delivered, built, rebuilt, todo, terminal>>
boundVars == <<edits, faults>>

vars == <<clusterVars, objectVars, statusVars, queueVars, pc, passVars, boundVars>>

-----------------------------------------------------------------------------
(* Types and zero values. *)

Phases == {"None", "Verifying", "Ready", "Failed"}

\* status.stages[]: promoted stands for promotionState.phase = Promoted and
\* aborted for promotionState.abortedRevision.
StageStatus == [phase : Phases, applied : Revisions \cup {NoRev},
                promoted : BOOLEAN, aborted : Revisions \cup {NoRev}]

NoStatus == [phase |-> "None", applied |-> NoRev, promoted |-> FALSE, aborted |-> NoRev]

Record == [pos : Nat, refs : SUBSET Objects]

NoRecord == [pos |-> 0, refs |-> {}]

SnapshotRef == [rev : Revisions \cup {NoRev}, pos : Nat]

NoRef == [rev |-> NoRev, pos |-> 0]

Reasons == {"None", "Ready", "StageFailed", "StageProgressing", "PromotionHold",
            "BudgetFrozen", "Deferred", "Suspended", "InvalidSpec",
            "PreviousRevisionUnavailable", "RBACDenied", "TeardownForced"}

PassSteps == {"idle", "resolve", "stage", "record", "verify", "gate", "rollback",
              "prune", "removed", "drop", "commit", "teardown"}

\* The stage names of the spec this pass works on, and the stage it is at.
RunStages == {run[i] : i \in 1 .. Len(run)}
Current == run[idx]

Position(s) == CHOOSE i \in 1 .. Len(run) : run[i] = s

\* StageRecords: the stored records, grouped by stage.
StageRecords(records) == [s \in {t \in StageNames : records[t].pos > 0} |-> records[s]]

\* desiredRecords: what the stages delivered so far rendered.
Desired == [s \in delivered |-> Render[s][pinned[s]]]

-----------------------------------------------------------------------------
(* Operations on the target cluster and on the stored records. *)

\* apply.Apply: server-side apply stamps the owner and stage labels.
Applied(s, os) == [o \in Objects |-> IF o \in os THEN s ELSE live[o]]

\* What an apply of stage s at revision r that fails may leave: any part of it.
PartlyApplied(s, r) == {Applied(s, os) : os \in SUBSET Render[s][r]}

\* Mutation: the delete does not look at the owner labels.
DeletedWhoeverOwns(os) == [o \in Objects |-> IF o \in os /\ o \notin OptOut THEN Absent ELSE live[o]]

\* apply.Delete: skips an object without this StageSet's owner labels and one
\* annotated prune=disabled.
Deleted(os) ==
    [o \in Objects |->
        IF o \in os /\ o \notin OptOut /\ live[o] # Foreign THEN Absent ELSE live[o]]

\* What a delete of os that fails may leave.
PartlyDeleted(os) == {Deleted(part) : part \in SUBSET os}

\* Recorder.Write replaces the stage's record.  StageInventory is an owned
\* kind: a write that changes it wakes the StageSet.
WriteRecord(s, refs) ==
    /\ shards' = [shards EXCEPT ![s] = [pos |-> Position(s), refs |-> refs]]
    /\ queued' = (queued \/ shards' # shards)

(***************************************************************************)
(* The objects ReconstructFromCluster finds for stage s: those that carry  *)
(* its labels and are of a kind in the current render that could be        *)
(* listed.                                                                 *)
(***************************************************************************)
Reconstructed(s, listed) ==
    {o \in Objects : live[o] = s /\ KindOf[o] \in listed}

RenderedKinds(s) == {KindOf[o] : o \in Render[s][pinned[s]]}

\* A stage status records as applied, but no inventory is stored for it.
NeedsReconstruct(s) == previous[s].pos = 0 /\ stages[s].applied # NoRev

-----------------------------------------------------------------------------
(* How a pass ends. *)

ResetPass ==
    /\ run' = <<>>
    /\ idx' = 0
    /\ pinned' = [s \in StageNames |-> NoRev]
    /\ previous' = [s \in StageNames |-> NoRecord]
    /\ delivered' = {}
    /\ built' = [s \in StageNames |-> NoStatus]
    /\ rebuilt' = {}
    /\ todo' = {}
    /\ terminal' = FALSE

\* ctrl.Result with a RequeueAfter, or a returned error, re-queues; an empty
\* result with a nil error does not.
EndPass(requeue) ==
    /\ pc' = "idle"
    /\ timer' = (timer \/ requeue)
    /\ ResetPass

\* mergeStageStatuses over what this pass produced, with st for stage s.
Merged(s, st) == [built EXCEPT ![s] = st]

\* Mutation: a held pass returns an empty result.
HoldPassForgotten(s, st, reason) ==
    /\ stages' = Merged(s, st)
    /\ ready' = reason
    /\ EndPass(FALSE)
    /\ UNCHANGED <<snapshot, deployed>>

\* A held pass persists its statuses and re-queues; it never prunes.
HoldPass(s, st, reason) ==
    /\ stages' = Merged(s, st)
    /\ ready' = reason
    /\ EndPass(TRUE)
    /\ UNCHANGED <<snapshot, deployed>>

FailedStatus(rev) == [phase |-> "Failed", applied |-> rev, promoted |-> FALSE, aborted |-> NoRev]

\* The stages attemptRollback restores: those in the snapshot and in the spec.
Restorable == {s \in RunStages : snapshot[s].rev # NoRev}

(***************************************************************************)
(* failStage, then the loop-error handler: write the failure; with         *)
(* rollbackOnFailure and a snapshot restore it, otherwise end the pass,    *)
(* without a re-queue when the failure is terminal.                        *)
(***************************************************************************)
FailStage(s) ==
    /\ stages' = Merged(s, FailedStatus(pinned[s]))
    /\ ready' = "StageFailed"
    /\ \E term \in BOOLEAN :
        /\ term => "terminal" \in Faults
        /\ IF RollbackOnFailure /\ Restorable # {}
           THEN /\ pc' = "rollback"
                /\ todo' = Restorable
                /\ terminal' = term
                /\ UNCHANGED <<timer, run, idx, pinned, previous, delivered, built, rebuilt>>
           ELSE EndPass(~term)
    /\ UNCHANGED <<snapshot, deployed>>

\* A disturbance of kind f, within the bound.
Disturb(f) ==
    /\ f \in Faults
    /\ faults < MaxFaults
    /\ faults' = faults + 1

-----------------------------------------------------------------------------
(* The start of a pass. *)

Init ==
    /\ live = [o \in Objects |-> Absent]
    /\ shards = [s \in StageNames |-> NoRecord]
    /\ spec \in Specs
    /\ source \in [Sources -> Revisions]
    /\ suspended = FALSE
    /\ deleting = FALSE
    /\ finalizer = FALSE
    /\ expired = FALSE
    /\ stages = [s \in StageNames |-> NoStatus]
    /\ snapshot = [s \in StageNames |-> NoRef]
    /\ deployed = FALSE
    /\ ready = "None"
    /\ queued = TRUE
    /\ timer = FALSE
    /\ pc = "idle"
    /\ run = <<>>
    /\ idx = 0
    /\ pinned = [s \in StageNames |-> NoRev]
    /\ previous = [s \in StageNames |-> NoRecord]
    /\ delivered = {}
    /\ built = [s \in StageNames |-> NoStatus]
    /\ rebuilt = {}
    /\ todo = {}
    /\ terminal = FALSE
    /\ edits = 0
    /\ faults = 0

\* The first pass adds the finalizer and re-queues.
AddFinalizer ==
    /\ pc = "idle" /\ queued /\ ~finalizer /\ ~deleting
    /\ finalizer' = TRUE
    /\ queued' = FALSE
    /\ timer' = TRUE
    /\ UNCHANGED <<clusterVars, spec, source, suspended, deleting, expired, statusVars, pc, passVars, boundVars>>

\* A worker takes the StageSet from the queue.
MayRun == pc = "idle" /\ queued /\ finalizer /\ ~deleting /\ ~suspended

\* spec.suspend: say so and wait for the edit that resumes it.
SkipSuspended ==
    /\ pc = "idle" /\ queued /\ finalizer /\ ~deleting /\ suspended
    /\ queued' = FALSE
    /\ ready' = "Suspended"
    /\ UNCHANGED <<clusterVars, objectVars, stages, snapshot, deployed, timer, pc, passVars,
                   boundVars>>

StartPass ==
    /\ MayRun
    /\ queued' = FALSE
    /\ pc' = "resolve"
    /\ run' = spec
    /\ idx' = 1
    /\ UNCHANGED <<clusterVars, objectVars, statusVars, timer, pinned, previous, delivered, built,
                   rebuilt, todo, terminal, boundVars>>

\* Mutation: a stage that was applied keeps its revision.
ResolveOnce ==
    /\ pc = "resolve"
    /\ idx <= Len(run)
    /\ pinned' = [pinned EXCEPT ![Current] =
                    IF stages[Current].applied # NoRev THEN stages[Current].applied
                    ELSE source[SourceOf[Current]]]
    /\ idx' = idx + 1
    /\ UNCHANGED <<clusterVars, objectVars, statusVars, queueVars, pc, run, previous, delivered,
                   built, rebuilt, todo, terminal, boundVars>>

\* Resolve and pin the revision of each stage, one read at a time.
ResolveStage ==
    /\ pc = "resolve"
    /\ idx <= Len(run)
    /\ pinned' = [pinned EXCEPT ![Current] = source[SourceOf[Current]]]
    /\ idx' = idx + 1
    /\ UNCHANGED <<clusterVars, objectVars, statusVars, queueVars, pc, run, previous, delivered,
                   built, rebuilt, todo, terminal, boundVars>>

\* status.stages of the stages still in the spec; the others drop.
Carried == [s \in StageNames |-> IF s \in RunStages THEN stages[s] ELSE NoStatus]

\* Every run-level gate passed: read the inventory and enter the stage loop.
EnterLoop ==
    /\ pc = "resolve"
    /\ idx > Len(run)
    /\ pc' = "stage"
    /\ idx' = 1
    /\ previous' = shards
    /\ built' = Carried
    /\ UNCHANGED <<clusterVars, objectVars, statusVars, queueVars, run, pinned, delivered,
                   rebuilt, todo, terminal, boundVars>>

(***************************************************************************)
(* A pass that ends before the stage loop: dependencies not ready, a       *)
(* source that does not resolve, a closed update window, a frozen budget,  *)
(* an unapproved version.  Each re-queues and leaves the stages alone; a   *)
(* closed window and a frozen budget leave a deployed StageSet Ready.      *)
(***************************************************************************)
DeferRun ==
    /\ pc = "resolve"
    /\ Disturb("defer")
    /\ ready' \in {"Deferred"} \cup (IF deployed THEN {"Ready"} ELSE {})
    /\ EndPass(TRUE)
    /\ UNCHANGED <<clusterVars, objectVars, stages, snapshot, deployed, queued, edits>>

(***************************************************************************)
(* The default connection or the decryptor fails before the loop: the      *)
(* first stage is failed with an empty ledger, hence with no revision.     *)
(***************************************************************************)
FailBeforeLoop ==
    /\ pc = "resolve"
    /\ idx > Len(run)
    /\ Disturb("connect")
    /\ stages' = [Carried EXCEPT ![run[1]] = FailedStatus(NoRev)]
    /\ ready' = "StageFailed"
    /\ EndPass(TRUE)
    /\ UNCHANGED <<clusterVars, objectVars, snapshot, deployed, queued, edits>>

-----------------------------------------------------------------------------
(* The stage loop. *)

AtStage == pc = "stage" /\ idx <= Len(run)

\* rollbackAborted: the pinned revision was reverted; stay reverted unless an
\* operator promotes it.
Parked(s) == s \in Gated /\ stages[s].aborted = pinned[s]
Enterable(s) == Parked(s) => "promote" \in Faults

HoldAborted ==
    /\ AtStage
    /\ Parked(Current)
    /\ HoldPass(Current, stages[Current], "PromotionHold")
    /\ UNCHANGED <<clusterVars, objectVars, queued, boundVars>>

\* The stage's own errorBudget gates the entry of a new revision.
HoldForBudget ==
    /\ AtStage
    /\ Enterable(Current)
    /\ Current \in Budgeted
    /\ stages[Current].applied # pinned[Current]
    /\ HoldPass(Current, stages[Current], IF deployed THEN "Ready" ELSE "BudgetFrozen")
    /\ UNCHANGED <<clusterVars, objectVars, queued, boundVars>>

\* Connect, migrations, pre-actions, fetch, decrypt, build, image verification
\* and conflict policy all fail the stage before anything is applied.
FailBeforeApply ==
    /\ AtStage
    /\ Enterable(Current)
    /\ Disturb("fail")
    /\ FailStage(Current)
    /\ UNCHANGED <<clusterVars, objectVars, queued, edits>>

ApplyStage ==
    /\ AtStage
    /\ Enterable(Current)
    /\ live' = Applied(Current, Render[Current][pinned[Current]])
    /\ pc' = "record"
    /\ UNCHANGED <<shards, objectVars, statusVars, queueVars, passVars, boundVars>>

ApplyFails ==
    /\ AtStage
    /\ Enterable(Current)
    /\ Disturb("fail")
    /\ live' \in PartlyApplied(Current, pinned[Current])
    /\ FailStage(Current)
    /\ UNCHANGED <<shards, objectVars, queued, edits>>

(***************************************************************************)
(* RECORD, before VERIFY: replace the stage's record by what was applied.  *)
(* A lost record is rebuilt from the cluster, as far as it can be listed.  *)
(***************************************************************************)
RecordStage ==
    /\ pc = "record"
    /\ \E listed \in (IF NeedsReconstruct(Current) THEN SUBSET RenderedKinds(Current) ELSE {{}}) :
        WriteRecord(Current, Render[Current][pinned[Current]] \cup Reconstructed(Current, listed))
    /\ rebuilt' = IF NeedsReconstruct(Current) THEN rebuilt \cup {Current} ELSE rebuilt
    /\ delivered' = delivered \cup {Current}
    /\ pc' = "verify"
    /\ UNCHANGED <<live, objectVars, statusVars, timer, run, idx, pinned, previous, built,
                   todo, terminal, boundVars>>

RecordFails ==
    /\ pc = "record"
    /\ Disturb("fail")
    /\ FailStage(Current)
    /\ UNCHANGED <<clusterVars, objectVars, queued, edits>>

\* Every gate of verifyStage passed and the post-actions ran.
VerifyStage ==
    /\ pc = "verify"
    /\ pc' = "gate"
    /\ UNCHANGED <<clusterVars, objectVars, statusVars, queueVars, passVars, boundVars>>

\* The wait timed out with every object still progressing (onTimeout: Hold).
HoldForProgress ==
    /\ pc = "verify"
    /\ Disturb("progress")
    /\ HoldPass(Current,
                [phase |-> "Verifying", applied |-> pinned[Current],
                 promoted |-> FALSE, aborted |-> NoRev],
                "StageProgressing")
    /\ UNCHANGED <<clusterVars, objectVars, queued, edits>>

\* The wait, or a post-action, failed.
VerifyFails ==
    /\ pc = "verify"
    /\ Disturb("fail")
    /\ FailStage(Current)
    /\ UNCHANGED <<clusterVars, objectVars, queued, edits>>

\* The wait polls for a deletion and abandons the pass; no status is written.
AbortForDeletion ==
    /\ pc = "verify"
    /\ deleting
    /\ EndPass(TRUE)
    /\ UNCHANGED <<clusterVars, objectVars, statusVars, queued, boundVars>>

-----------------------------------------------------------------------------
(* The promotion gate of the current stage. *)

\* A stage already promoted at this revision is not gated again.
AlreadyPromoted(s) == stages[s].applied = pinned[s] /\ stages[s].promoted

\* Mutation: the promotion phase lands in the stage phase.
GateStatusPromoted(rev, promoted, aborted) ==
    [phase |-> IF promoted THEN "Promoted" ELSE "Soaking", applied |-> rev,
     promoted |-> promoted, aborted |-> aborted]

GateStatus(rev, promoted, aborted) ==
    [phase |-> "Ready", applied |-> rev, promoted |-> promoted, aborted |-> aborted]

GatePromotes ==
    /\ pc = "gate"
    /\ built' = [built EXCEPT ![Current] =
                    GateStatus(pinned[Current], Current \in Gated, NoRev)]
    /\ idx' = idx + 1
    /\ pc' = "stage"
    /\ UNCHANGED <<clusterVars, objectVars, statusVars, queueVars, run, pinned, previous,
                   delivered, rebuilt, todo, terminal, boundVars>>

GateHolds ==
    /\ pc = "gate"
    /\ Current \in Gated
    /\ ~AlreadyPromoted(Current)
    /\ HoldPass(Current, GateStatus(pinned[Current], FALSE, NoRev), "PromotionHold")
    /\ UNCHANGED <<clusterVars, objectVars, queued, boundVars>>

(***************************************************************************)
(* onFailure=Rollback with a snapshot: re-apply and record the last-good   *)
(* revision of this stage and park the pinned one.  Without a snapshot the *)
(* gate holds (GateHolds).                                                 *)
(***************************************************************************)
GateReverts ==
    /\ pc = "gate"
    /\ Current \in Gated
    /\ ~AlreadyPromoted(Current)
    /\ snapshot[Current].rev # NoRev
    /\ Disturb("revert")
    /\ live' = Applied(Current, Render[Current][snapshot[Current].rev])
    /\ WriteRecord(Current, Render[Current][snapshot[Current].rev])
    /\ HoldPass(Current, GateStatus(snapshot[Current].rev, FALSE, pinned[Current]),
                "PromotionHold")
    /\ UNCHANGED <<objectVars, edits>>

\* recordGateInterrupted: the stage at the pinned revision with its prior
\* promotion state.
Interrupted(s) == GateStatus(pinned[s], stages[s].promoted, stages[s].aborted)

\* A gate that cannot be evaluated; a denied read also says so on Ready.
GateInterrupted ==
    /\ pc = "gate"
    /\ Current \in Gated
    /\ Disturb("interrupt")
    /\ stages' = Merged(Current, Interrupted(Current))
    /\ ready' \in {ready, "RBACDenied"}
    /\ EndPass(TRUE)
    /\ UNCHANGED <<clusterVars, objectVars, snapshot, deployed, queued, edits>>

\* The revert itself fails: recorded like a gate that could not be evaluated.
RevertFails ==
    /\ pc = "gate"
    /\ Current \in Gated
    /\ ~AlreadyPromoted(Current)
    /\ snapshot[Current].rev # NoRev
    /\ Disturb("revert")
    /\ live' \in PartlyApplied(Current, snapshot[Current].rev)
    /\ stages' = Merged(Current, Interrupted(Current))
    /\ EndPass(TRUE)
    /\ UNCHANGED <<shards, objectVars, snapshot, deployed, ready, queued, edits>>

\* The revert succeeds and the status of the pass is never written.
RevertLost ==
    /\ pc = "gate"
    /\ Current \in Gated
    /\ ~AlreadyPromoted(Current)
    /\ snapshot[Current].rev # NoRev
    /\ Disturb("revert")
    /\ live' = Applied(Current, Render[Current][snapshot[Current].rev])
    /\ WriteRecord(Current, Render[Current][snapshot[Current].rev])
    /\ EndPass(TRUE)
    /\ UNCHANGED <<objectVars, statusVars, edits>>

-----------------------------------------------------------------------------
(* After the loop: rollback of a failed run. *)

\* The next stage in snapshot order.
FirstOfSnapshot == {s \in todo : \A t \in todo : snapshot[s].pos <= snapshot[t].pos}

\* Mutation: the rollback re-applies and leaves the inventory alone.
RollbackUnrecorded ==
    /\ pc = "rollback"
    /\ \E s \in FirstOfSnapshot :
        /\ live' = Applied(s, Render[s][snapshot[s].rev])
        /\ todo' = todo \ {s}
    /\ UNCHANGED <<shards, objectVars, statusVars, queueVars, pc, run, idx, pinned, previous,
                   delivered, built, rebuilt, terminal, boundVars>>

RollbackStage ==
    /\ pc = "rollback"
    /\ \E s \in FirstOfSnapshot :
        /\ live' = Applied(s, Render[s][snapshot[s].rev])
        /\ WriteRecord(s, Render[s][snapshot[s].rev])
        /\ todo' = todo \ {s}
    /\ UNCHANGED <<objectVars, statusVars, timer, pc, run, idx, pinned, previous, delivered,
                   built, rebuilt, terminal, boundVars>>

\* The snapshot cannot be rebuilt or re-applied: terminal, and no re-queue.
RollbackUnavailable ==
    /\ pc = "rollback"
    /\ Disturb("unavailable")
    /\ \E s \in FirstOfSnapshot : live' \in PartlyApplied(s, snapshot[s].rev)
    /\ ready' = "PreviousRevisionUnavailable"
    /\ EndPass(FALSE)
    /\ UNCHANGED <<shards, objectVars, stages, snapshot, deployed, queued, edits>>

\* A store outage, a connection, or the record of a restored stage fails: the
\* pass ends and the next one starts over.
RollbackDefers ==
    /\ pc = "rollback"
    /\ Disturb("rollback")
    /\ \E s \in FirstOfSnapshot : live' \in {live, Applied(s, Render[s][snapshot[s].rev])}
    /\ EndPass(TRUE)
    /\ UNCHANGED <<shards, objectVars, statusVars, queued, edits>>

RollbackDone ==
    /\ pc = "rollback"
    /\ todo = {}
    /\ EndPass(~terminal)
    /\ UNCHANGED <<clusterVars, objectVars, statusVars, queued, boundVars>>

-----------------------------------------------------------------------------
(* After the loop: every stage was delivered. *)

\* Mutation: the loop ends one stage early.
LoopDoneEarly == pc = "stage" /\ idx >= Len(run) /\ idx > 1

LoopDone == pc = "stage" /\ idx > Len(run)

\* An object two stages render: reported, with nothing re-queued and no stage
\* status written.
StallOnDuplicates ==
    /\ LoopDone
    /\ DuplicateClaims(Desired) # {}
    /\ ready' = "InvalidSpec"
    /\ EndPass(FALSE)
    /\ UNCHANGED <<clusterVars, objectVars, stages, snapshot, deployed, queued, boundVars>>

Prunes == PrunePerStage(StageRecords(previous), Desired)
Removed == RemovedStages(StageRecords(previous), Desired)

StartPrune ==
    /\ LoopDone
    /\ DuplicateClaims(Desired) = {}
    /\ IF rebuilt = {}
       THEN /\ pc' = "prune"
            /\ todo' = {s \in DOMAIN Prunes : Prunes[s] # {} /\ s \notin NoPrune}
       ELSE /\ pc' = "commit"
            /\ todo' = {}
    /\ UNCHANGED <<clusterVars, objectVars, statusVars, queueVars, run, idx, pinned, previous,
                   delivered, built, rebuilt, terminal, boundVars>>

PruneStage ==
    /\ pc = "prune"
    /\ \E s \in todo :
        /\ live' = Deleted(Prunes[s])
        /\ todo' = todo \ {s}
    /\ UNCHANGED <<shards, objectVars, statusVars, queueVars, pc, run, idx, pinned, previous,
                   delivered, built, rebuilt, terminal, boundVars>>

StartRemoved ==
    /\ pc = "prune"
    /\ todo = {}
    /\ pc' = "removed"
    /\ todo' = DOMAIN Removed
    /\ UNCHANGED <<clusterVars, objectVars, statusVars, queueVars, run, idx, pinned, previous,
                   delivered, built, rebuilt, terminal, boundVars>>

\* The removed stage whose turn it is; the same stage loses its objects and then
\* its shards, also when stages of different passes share a recorded position.
NextRemoved ==
    {s \in LastStages(todo, previous) : s = CHOOSE t \in LastStages(todo, previous) : TRUE}

\* Mutation: only the shards of a removed stage go.
DropRemoved ==
    /\ pc = "removed"
    /\ todo # {}
    /\ pc' = "drop"
    /\ UNCHANGED <<live, shards, objectVars, statusVars, queueVars, passVars, boundVars>>

\* Stages gone from the spec: delete their objects, later stages first ...
TearDownRemoved ==
    /\ pc = "removed"
    /\ \E s \in NextRemoved : live' = Deleted(Removed[s].refs)
    /\ pc' = "drop"
    /\ UNCHANGED <<shards, objectVars, statusVars, queueVars, passVars, boundVars>>

\* ... then their shards.
DropShards ==
    /\ pc = "drop"
    /\ \E s \in NextRemoved :
        /\ shards' = [shards EXCEPT ![s] = NoRecord]
        /\ todo' = todo \ {s}
    /\ queued' = TRUE
    /\ pc' = "removed"
    /\ UNCHANGED <<live, objectVars, statusVars, timer, run, idx, pinned, previous, delivered,
                   built, rebuilt, terminal, boundVars>>

FinishPrune ==
    /\ pc = "removed"
    /\ todo = {}
    /\ pc' = "commit"
    /\ UNCHANGED <<clusterVars, objectVars, statusVars, queueVars, passVars, boundVars>>

\* A delete that fails returns the error; no status is written.
PruneFails ==
    /\ Disturb("prune")
    /\ \/ /\ pc = "prune"
          /\ \E s \in todo : live' \in PartlyDeleted(Prunes[s])
       \/ /\ pc = "removed"
          /\ \E s \in NextRemoved : live' \in PartlyDeleted(Removed[s].refs)
       \/ /\ pc = "drop"
          /\ UNCHANGED live
    /\ EndPass(TRUE)
    /\ UNCHANGED <<shards, objectVars, statusVars, queued, edits>>

CommitPass ==
    /\ pc = "commit"
    /\ stages' = built
    /\ snapshot' = IF RollbackOnFailure
                   THEN [s \in StageNames |->
                            IF s \in RunStages THEN [rev |-> pinned[s], pos |-> Position(s)]
                            ELSE NoRef]
                   ELSE snapshot
    /\ deployed' = TRUE
    /\ ready' = "Ready"
    /\ EndPass(TRUE)
    /\ UNCHANGED <<clusterVars, objectVars, queued, boundVars>>

-----------------------------------------------------------------------------
(* reconcileDelete: reverse-order teardown behind the finalizer. *)

\* Mutation: teardown looks only at the stages of the spec.
StartTeardownOfSpec ==
    /\ pc = "idle" /\ queued /\ finalizer /\ deleting
    /\ queued' = FALSE
    /\ pc' = "teardown"
    /\ run' = spec
    /\ previous' = shards
    /\ todo' = DOMAIN StageRecords(shards) \cap {spec[i] : i \in 1 .. Len(spec)}
    /\ UNCHANGED <<clusterVars, objectVars, statusVars, timer, idx, pinned, delivered, built,
                   rebuilt, terminal, boundVars>>

StartTeardown ==
    /\ pc = "idle" /\ queued /\ finalizer /\ deleting
    /\ queued' = FALSE
    /\ pc' = "teardown"
    /\ run' = spec
    /\ previous' = shards
    /\ todo' = DOMAIN StageRecords(shards)
    /\ UNCHANGED <<clusterVars, objectVars, statusVars, timer, idx, pinned, delivered, built,
                   rebuilt, terminal, boundVars>>

\* Mutation: prune: false is read as a setting of the prune alone.
SparedByPruneOnly(s) == FALSE

\* A stage of the spec with prune: false keeps its objects.
Spared(s) == s \in RunStages /\ s \in NoPrune

TearDownStage ==
    /\ pc = "teardown"
    /\ \E s \in LastStages(todo, previous) :
        /\ live' = IF Spared(s) THEN live ELSE Deleted(previous[s].refs)
        /\ todo' = todo \ {s}
    /\ UNCHANGED <<shards, objectVars, statusVars, queueVars, pc, run, idx, pinned, previous,
                   delivered, built, rebuilt, terminal, boundVars>>

\* What a teardown step that fails may leave of the stage it was at.
TeardownInterrupted ==
    /\ pc = "teardown"
    /\ "teardown" \in Faults
    /\ live' \in {live} \cup UNION {PartlyDeleted(previous[s].refs) :
                                    s \in {t \in LastStages(todo, previous) : ~Spared(t)}}

\* Mutation: the elapsed wait is not looked at.
TeardownFailsForever ==
    /\ TeardownInterrupted
    /\ EndPass(TRUE)
    /\ UNCHANGED <<shards, objectVars, statusVars, queued, boundVars>>

\* A failed step keeps the finalizer and retries ...
TeardownFails ==
    /\ TeardownInterrupted
    /\ ~expired
    /\ EndPass(TRUE)
    /\ UNCHANGED <<shards, objectVars, statusVars, queued, boundVars>>

\* ... until the wait has elapsed or the cause cannot heal.  The drop is
\* reported by an event alone; ready keeps it here.
TeardownForced ==
    /\ TeardownInterrupted
    /\ expired \/ "terminal" \in Faults
    /\ finalizer' = FALSE
    /\ ready' = "TeardownForced"
    /\ shards' = [s \in StageNames |-> NoRecord]
    /\ EndPass(FALSE)
    /\ UNCHANGED <<spec, source, suspended, deleting, expired, stages, snapshot, deployed, queued,
                   boundVars>>

\* The finalizer goes; the API server deletes the StageSet and with it its shards.
FinishTeardown ==
    /\ pc = "teardown"
    /\ todo = {}
    /\ finalizer' = FALSE
    /\ shards' = [s \in StageNames |-> NoRecord]
    /\ EndPass(FALSE)
    /\ UNCHANGED <<live, spec, source, suspended, deleting, expired, statusVars, queued, boundVars>>

-----------------------------------------------------------------------------
(* The environment. *)

\* The StageSet still exists and nobody has asked for its deletion.
Editable == finalizer /\ ~deleting

EditSpec ==
    /\ Editable
    /\ edits < MaxEdits
    /\ spec' \in Specs \ {spec}
    /\ edits' = edits + 1
    /\ queued' = TRUE
    /\ UNCHANGED <<clusterVars, source, suspended, deleting, finalizer, expired, statusVars, timer, pc,
                   passVars, faults>>

UpdateSource ==
    /\ Editable
    /\ edits < MaxEdits
    /\ \E q \in Sources : \E r \in Revisions \ {source[q]} :
        source' = [source EXCEPT ![q] = r]
    /\ edits' = edits + 1
    /\ queued' = TRUE
    /\ UNCHANGED <<clusterVars, spec, suspended, deleting, finalizer, expired, statusVars, timer, pc,
                   passVars, faults>>

ToggleSuspend ==
    /\ Editable
    /\ "suspend" \in Faults
    /\ edits < MaxEdits
    /\ suspended' = ~suspended
    /\ edits' = edits + 1
    /\ queued' = TRUE
    /\ UNCHANGED <<clusterVars, spec, source, deleting, finalizer, expired, statusVars, timer,
                   pc, passVars, faults>>

RequestDelete ==
    /\ Editable
    /\ deleting' = TRUE
    /\ queued' = TRUE
    /\ UNCHANGED <<clusterVars, spec, source, suspended, finalizer, expired, statusVars, timer, pc,
                   passVars, boundVars>>

\* The delayed queue releases the StageSet.
TimerFires ==
    /\ timer
    /\ timer' = FALSE
    /\ queued' = TRUE
    /\ UNCHANGED <<clusterVars, objectVars, statusVars, pc, passVars, boundVars>>

TeardownWaitElapses ==
    /\ deleting /\ finalizer /\ ~expired
    /\ expired' = TRUE
    /\ UNCHANGED <<clusterVars, spec, source, suspended, deleting, finalizer, statusVars, queueVars, pc,
                   passVars, boundVars>>

\* The process dies mid-pass; the next one lists every StageSet.
Crash ==
    /\ pc # "idle"
    /\ Disturb("crash")
    /\ pc' = "idle"
    /\ queued' = TRUE
    /\ timer' = FALSE
    /\ ResetPass
    /\ UNCHANGED <<clusterVars, objectVars, statusVars, edits>>

\* The stages and revisions the pass may be in the middle of applying.
UnderWay ==
    {w \in StageNames \X Revisions :
        \/ AtStage /\ Enterable(Current) /\ w = <<Current, pinned[Current]>>
        \/ /\ pc = "gate" /\ Current \in Gated /\ ~AlreadyPromoted(Current)
           /\ w = <<Current, snapshot[Current].rev>>
        \/ pc = "rollback" /\ w[1] \in FirstOfSnapshot /\ w[2] = snapshot[w[1]].rev}

\* It dies halfway through an apply.
CrashMidApply ==
    /\ \E w \in UnderWay : live' \in PartlyApplied(w[1], w[2])
    /\ Disturb("kill")
    /\ pc' = "idle"
    /\ queued' = TRUE
    /\ timer' = FALSE
    /\ ResetPass
    /\ UNCHANGED <<shards, objectVars, statusVars, edits>>

\* Someone deletes a stage's StageInventory, or a restore leaves it out.
LoseInventory ==
    /\ Editable
    /\ Disturb("lose")
    /\ \E s \in StageNames :
        /\ shards[s] # NoRecord
        /\ shards' = [shards EXCEPT ![s] = NoRecord]
    /\ queued' = TRUE
    /\ UNCHANGED <<live, objectVars, statusVars, timer, pc, passVars, edits>>

\* Another manager relabels an object as its own.
AdoptObject ==
    /\ Disturb("adopt")
    /\ \E o \in Objects :
        /\ live[o] \in StageNames
        /\ live' = [live EXCEPT ![o] = Foreign]
    /\ UNCHANGED <<shards, objectVars, statusVars, queueVars, pc, passVars, edits>>

-----------------------------------------------------------------------------

StageLoop ==
    \/ HoldAborted \/ HoldForBudget \/ FailBeforeApply \/ ApplyStage \/ ApplyFails
    \/ RecordStage \/ RecordFails
    \/ VerifyStage \/ HoldForProgress \/ VerifyFails \/ AbortForDeletion
    \/ GatePromotes \/ GateHolds \/ GateReverts \/ GateInterrupted \/ RevertFails \/ RevertLost

AfterLoop ==
    \/ RollbackStage \/ RollbackUnavailable \/ RollbackDefers \/ RollbackDone
    \/ StallOnDuplicates \/ StartPrune \/ PruneStage \/ StartRemoved
    \/ TearDownRemoved \/ DropShards \/ FinishPrune \/ PruneFails \/ CommitPass

Teardown ==
    \/ StartTeardown \/ TearDownStage \/ TeardownFails \/ TeardownForced \/ FinishTeardown

Reconcile ==
    \/ AddFinalizer \/ SkipSuspended \/ StartPass \/ ResolveStage \/ EnterLoop \/ DeferRun \/ FailBeforeLoop
    \/ StageLoop \/ AfterLoop \/ Teardown

Environment ==
    \/ EditSpec \/ UpdateSource \/ ToggleSuspend \/ RequestDelete \/ TimerFires \/ TeardownWaitElapses
    \/ Crash \/ CrashMidApply \/ LoseInventory \/ AdoptObject

Next == Reconcile \/ Environment

Spec == Init /\ [][Next]_vars

(***************************************************************************)
(* The workqueue keeps handing a queued StageSet to a worker, a worker     *)
(* runs its pass to the end, and time passes.  The environment owes        *)
(* nothing else.  The gate of a stage that is asked again and again        *)
(* promotes in the end: its soak elapses, or an operator promotes it.      *)
(***************************************************************************)
FairSpec ==
    /\ Spec
    /\ WF_vars(Reconcile)
    /\ WF_vars(TimerFires)
    /\ WF_vars(TeardownWaitElapses)
    /\ \A s \in Gated : SF_vars(GatePromotes /\ Current = s)
-----------------------------------------------------------------------------
(* Safety. *)

ClusterType ==
    /\ live \in [Objects -> StageNames \cup {Absent, Foreign}]
    /\ shards \in [StageNames -> Record]

ObjectType ==
    /\ spec \in Specs
    /\ source \in [Sources -> Revisions]
    /\ suspended \in BOOLEAN /\ deleting \in BOOLEAN
    /\ finalizer \in BOOLEAN /\ expired \in BOOLEAN

StatusType ==
    /\ stages \in [StageNames -> StageStatus]
    /\ snapshot \in [StageNames -> SnapshotRef]
    /\ deployed \in BOOLEAN
    /\ ready \in Reasons

QueueType ==
    /\ queued \in BOOLEAN /\ timer \in BOOLEAN
    /\ edits \in Nat /\ faults \in Nat

PassType ==
    /\ pc \in PassSteps
    /\ run \in Specs \cup {<<>>}
    /\ idx \in Nat
    /\ pinned \in [StageNames -> Revisions \cup {NoRev}]
    /\ previous \in [StageNames -> Record]
    /\ delivered \subseteq StageNames
    /\ built \in [StageNames -> StageStatus]
    /\ rebuilt \subseteq StageNames
    /\ todo \subseteq StageNames
    /\ terminal \in BOOLEAN

\* Every variable has the type of the status field, object or local it models.
TypeOK == ClusterType /\ ObjectType /\ StatusType /\ QueueType /\ PassType

\* The steps after every stage was delivered.
Pruning == {"prune", "removed", "drop", "commit"}

(***************************************************************************)
(* What a pass has delivered stays in the cluster until the pass ends:     *)
(* neither the cross-stage prune nor the teardown of stages removed from   *)
(* the spec deletes an object that some stage of the run renders, whichever*)
(* stage recorded it before.  By the time anything is deleted every stage  *)
(* of the run has been delivered.                                          *)
(***************************************************************************)
DeliveredStayLive ==
    /\ \A s \in delivered : \A o \in Render[s][pinned[s]] : live[o] # Absent
    /\ pc \in Pruning => delivered = RunStages

\* The StageSet was deleted and is gone.
Gone == deleting /\ ~finalizer

\* A step that removes object o from the cluster.
Deletes(o) == live[o] # Absent /\ live'[o] = Absent

DeletesRecorded ==
    \A o \in Objects : Deletes(o) =>
        /\ live[o] # Foreign
        /\ o \notin OptOut
        /\ \E s \in StageNames : o \in previous[s].refs

(***************************************************************************)
(* No step deletes an object that another manager has taken over, one that *)
(* opted out of pruning, or one the inventory this pass read does not      *)
(* name.                                                                   *)
(***************************************************************************)
DeletesOnlyRecorded == [][DeletesRecorded]_vars

\* Objects this StageSet put there, may delete, and no stored record names.
Orphans ==
    {o \in Objects :
        /\ live[o] \in StageNames \ NoPrune
        /\ o \notin OptOut
        /\ \A s \in StageNames : o \notin shards[s].refs}

(***************************************************************************)
(* Nothing is left behind: between passes of a StageSet that reports       *)
(* Ready, every prunable object it applied is in its inventory, so a later *)
(* prune or the teardown will reach it.                                    *)
(***************************************************************************)
NoOrphans == pc = "idle" /\ finalizer /\ ~deleting /\ ready = "Ready" => Orphans = {}

(***************************************************************************)
(* prune: false is honoured: while such a stage is in the spec no step     *)
(* deletes an object it applied, in the prune and in the teardown alike.   *)
(***************************************************************************)
PruneFalseKept ==
    [][\A o \in Objects : Deletes(o) => live[o] \notin NoPrune \cap RunStages]_vars

(***************************************************************************)
(* A failed or held pass leaves the last-good revision of every stage in   *)
(* the cluster: until a pass has delivered every stage, and so may prune,  *)
(* no object of the snapshot is gone.                                      *)
(***************************************************************************)
LastGoodStaysLive ==
    pc \notin Pruning /\ ~deleting =>
        \A s \in StageNames : snapshot[s].rev # NoRev =>
            \A o \in Render[s][snapshot[s].rev] : live[o] # Absent

(***************************************************************************)
(* A rollback leaves the stages it has restored with the snapshot's        *)
(* objects live and with exactly those in the inventory.                   *)
(***************************************************************************)
RollbackRestores ==
    pc = "rollback" =>
        \A s \in Restorable \ todo :
            /\ shards[s].refs = Render[s][snapshot[s].rev]
            /\ \A o \in shards[s].refs : live[o] # Absent

\* Recorded objects of stage s that a teardown must still delete.
Remaining(s) ==
    {o \in previous[s].refs : o \notin OptOut /\ live[o] \notin {Absent, Foreign}}

DeletesInReverse ==
    pc = "teardown" =>
        \A o \in Objects : Deletes(o) =>
            \E s \in StageNames :
                /\ o \in previous[s].refs
                /\ \A t \in StageNames :
                    previous[t].pos > previous[s].pos /\ ~Spared(t) => Remaining(t) = {}

(***************************************************************************)
(* Teardown runs in reverse: an object is deleted only once nothing is     *)
(* left of the stages recorded after the one it is deleted for.            *)
(***************************************************************************)
TeardownReverse == [][DeletesInReverse]_vars

ReleasesWhenGone ==
    finalizer /\ ~finalizer' /\ ready' # "TeardownForced" =>
        \A s \in StageNames :
            ~Spared(s) => \A o \in shards[s].refs :
                            o \in OptOut \/ live[o] \in {Absent, Foreign}

(***************************************************************************)
(* The finalizer guards the teardown: unless it is forced off, it goes     *)
(* only when every recorded object of a stage that prunes is gone.         *)
(***************************************************************************)
FinalizerGuards == [][ReleasesWhenGone]_vars

(***************************************************************************)
(* However a pass ended, the StageSet comes back: between passes of one    *)
(* that exists and is not suspended a re-queue is pending.                 *)
(***************************************************************************)
RetryPending == pc = "idle" /\ ~suspended /\ ~Gone => queued \/ timer

-----------------------------------------------------------------------------
(* Liveness, under FairSpec. *)

\* A deletion that was requested completes, even when the target keeps failing.
TeardownCompletes == deleting ~> Gone

\* Every stage of the spec is delivered at the revision its source offers.
UpToDate ==
    /\ ready = "Ready"
    /\ \A i \in 1 .. Len(spec) : stages[spec[i]].applied = source[SourceOf[spec[i]]]

\* Once edits and disturbances stop, the StageSet becomes Ready at the
\* revisions its sources offer, and stays so.
Converges == <>[](UpToDate \/ suspended \/ deleting)
=============================================================================
