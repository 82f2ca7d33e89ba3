----------------------- MODULE StageSetReconcilerProofs -----------------------
(***************************************************************************)
(* Proofs about StageSetReconciler, for every number of stages, objects,   *)
(* revisions and sources, every render, and every mix of disturbances.     *)
(*                                                                         *)
(* The inductive invariant is Inv.  IInv (types and the position of the    *)
(* loop) makes every expression of a step meaningful; PruneInv ties the    *)
(* stages a prune has left to the plan computed from previous; DeliveredInv*)
(* ties delivered to the position of the loop; RecordsInv and TeardownInv  *)
(* say what a teardown has already emptied.  StepShape and DeletionStep    *)
(* reduce the forty actions of Next to the few shapes the invariants care  *)
(* about: how a step moves the pass, and what it may delete.               *)
(*                                                                         *)
(* Four more invariants need the environment to behave, and say how:       *)
(* PruneGoesOn, RecordsStay and Undisturbed are conditions on the steps of *)
(* a behaviour, NothingTerminal and DisjointRenders on the constants.      *)
(* GoodInv, RetryInv and CleanInv strengthen them, each on top of Inv.     *)
(*                                                                         *)
(* PruneFalseKept rests on OwnInv (labels and records name only what their *)
(* stage can render) where stages share nothing, and on PlannedInv, on top *)
(* of CleanInv, where they do.                                             *)
(***************************************************************************)
EXTENDS StageSetReconciler, FiniteSetTheorems, TLAPS

\* A spec.stages the API server accepts (MinItems=1) has a first stage, and
\* names only stages.
LEMMA SpecFacts ==
    ASSUME NEW sp \in Specs
    PROVE  /\ Len(sp) \in Nat
           /\ Len(sp) >= 1
           /\ \A i \in 1 .. Len(sp) : sp[i] \in StageNames
<1>1. Cardinality(StageNames) \in Nat
  BY FS_CardinalityType, NamesAssumption
<1>2. PICK n \in 1 .. Cardinality(StageNames) : sp \in [1 .. n -> StageNames]
  BY SpecsAssumption DEF StageOrders
<1>3. n \in Nat /\ n >= 1
  BY <1>1, <1>2
<1>4. sp \in Seq(StageNames) /\ Len(sp) = n
  BY <1>2, <1>3
<1> QED BY <1>2, <1>3, <1>4

\* The position Recorder.Write stores for a stage of the run counts from 1, so
\* a stored record is never mistaken for a missing one.
LEMMA PositionType ==
    ASSUME run \in Specs, NEW s \in RunStages
    PROVE  Position(s) \in Nat /\ Position(s) >= 1
<1>1. \E i \in 1 .. Len(run) : run[i] = s
  BY DEF RunStages
<1>2. Position(s) \in 1 .. Len(run)
  BY <1>1 DEF Position
<1> QED BY <1>2, SpecFacts

\* A server-side apply only adds or relabels objects, and leaves every object
\* it was given labelled with the stage.
LEMMA AppliedType ==
    ASSUME live \in [Objects -> StageNames \cup {Absent, Foreign}],
           NEW s \in StageNames, NEW os
    PROVE  /\ Applied(s, os) \in [Objects -> StageNames \cup {Absent, Foreign}]
           /\ \A o \in Objects : live[o] # Absent => Applied(s, os)[o] # Absent
           /\ \A o \in Objects : o \in os => Applied(s, os)[o] = s
  BY NamesAssumption DEF Applied

\* apply.Delete removes only objects it was given, none opted out and none
\* another manager owns; of those it was given nothing else stays.
LEMMA DeletedType ==
    ASSUME live \in [Objects -> StageNames \cup {Absent, Foreign}],
           NEW os
    PROVE  /\ Deleted(os) \in [Objects -> StageNames \cup {Absent, Foreign}]
           /\ \A o \in Objects : o \notin os => Deleted(os)[o] = live[o]
           /\ \A o \in Objects : Deleted(os)[o] \in {live[o], Absent}
           /\ \A o \in Objects : Deleted(os)[o] # live[o] => o \in os /\ o \notin OptOut /\ live[o] # Foreign
           /\ \A o \in os \cap Objects : o \in OptOut \/ Deleted(os)[o] \in {Absent, Foreign}
  BY NamesAssumption DEF Deleted

\* The locals of Reconcile are gone when it returns.
LEMMA ResetPassType ==
    ASSUME ResetPass
    PROVE  /\ run' = <<>> /\ idx' = 0 /\ delivered' = {} /\ todo' = {} /\ rebuilt' = {}
           /\ terminal' = FALSE
           /\ pinned' \in [StageNames -> Revisions \cup {NoRev}]
           /\ previous' \in [StageNames -> Record]
           /\ built' \in [StageNames -> StageStatus]
  BY DEF ResetPass, NoRecord, Record, NoStatus, StageStatus, Phases

\* Where a pass is: the stage it is at, the revisions it has pinned and the
\* stages it has delivered so far.
LoopInv ==
    /\ pc # "idle" => run \in Specs
    /\ pc \in {"resolve", "stage", "record", "verify", "gate"} => idx \in 1 .. (Len(run) + 1)
    /\ pc \in {"record", "verify", "gate"} => idx <= Len(run)
    /\ pc = "resolve" => \A i \in 1 .. Len(run) : i < idx => pinned[run[i]] \in Revisions
    /\ pc \in {"stage", "record", "verify", "gate", "rollback"} \cup Pruning =>
            \A i \in 1 .. Len(run) : pinned[run[i]] \in Revisions
    /\ pc = "rollback" => todo \subseteq Restorable

\* The inductive part that every other proof rests on.
IInv == TypeOK /\ LoopInv

\* A StageSet just created satisfies IInv.
LEMMA TypeInit == Init => IInv
<1> SUFFICES ASSUME Init PROVE IInv
  OBVIOUS
<1>1. ClusterType
  BY DEF Init, ClusterType, NoRecord, Record
<1>2. ObjectType
  BY DEF Init, ObjectType
<1>3. StatusType
  BY DEF Init, StatusType, Reasons, NoStatus, StageStatus, Phases, NoRef, SnapshotRef
<1>4. QueueType
  BY DEF Init, QueueType
<1>5. PassType
  BY DEF Init, PassType, PassSteps, NoRecord, Record, NoStatus, StageStatus, Phases
<1>6. LoopInv
  BY DEF Init, LoopInv, Pruning
<1> QED BY <1>1, <1>2, <1>3, <1>4, <1>5, <1>6 DEF IInv, TypeOK

\* Inside the stage loop the current stage, its pinned revision, its render
\* and its status are well defined.
LEMMA CurrentFacts ==
    ASSUME IInv, pc \in {"stage", "record", "verify", "gate"}, idx <= Len(run)
    PROVE  /\ run \in Specs
           /\ Current \in StageNames
           /\ Current \in RunStages
           /\ pinned[Current] \in Revisions
           /\ Render[Current][pinned[Current]] \subseteq Objects
           /\ Position(Current) \in Nat
           /\ Position(Current) >= 1
           /\ stages[Current] \in StageStatus
           /\ snapshot[Current].rev \in Revisions \cup {NoRev}
           /\ snapshot[Current].rev # NoRev => Render[Current][snapshot[Current].rev] \subseteq Objects
<1>1. run \in Specs /\ idx \in 1 .. Len(run)
  BY SpecFacts DEF IInv, LoopInv
<1>2. Current \in StageNames /\ Current \in RunStages
  BY <1>1, SpecFacts DEF Current, RunStages
<1>3. pinned[Current] \in Revisions
  BY <1>1 DEF IInv, LoopInv, Current
<1>4. Position(Current) \in Nat /\ Position(Current) >= 1
  BY <1>1, <1>2, PositionType
<1>5. stages[Current] \in StageStatus /\ snapshot[Current] \in SnapshotRef
  BY <1>2 DEF IInv, TypeOK, StatusType
<1>6. snapshot[Current].rev \in Revisions \cup {NoRev}
  BY <1>5 DEF SnapshotRef
<1> QED BY <1>1, <1>2, <1>3, <1>4, <1>5, <1>6, RenderAssumption

\* failStage and the loop-error handler either end the pass or turn it into a
\* rollback of the restorable stages.
LEMMA FailStageType ==
    ASSUME IInv, pc \in {"stage", "record", "verify", "gate"}, idx <= Len(run),
           FailStage(Current)
    PROVE  /\ stages' \in [StageNames -> StageStatus]
           /\ ready' \in Reasons
           /\ UNCHANGED <<snapshot, deployed>>
           /\ \/ pc' = "idle" /\ timer' \in BOOLEAN /\ ResetPass
              \/ /\ pc' = "rollback" /\ todo' = Restorable /\ terminal' \in BOOLEAN
                 /\ UNCHANGED <<timer, run, idx, pinned, previous, delivered, built, rebuilt>>
<1>1. FailedStatus(pinned[Current]) \in StageStatus
  BY CurrentFacts DEF FailedStatus, StageStatus, Phases
<1>2. stages' \in [StageNames -> StageStatus]
  BY <1>1, CurrentFacts DEF FailStage, Merged, IInv, TypeOK, PassType
<1>3. PICK term \in BOOLEAN :
        IF RollbackOnFailure /\ Restorable # {}
        THEN /\ pc' = "rollback"
             /\ todo' = Restorable
             /\ terminal' = term
             /\ UNCHANGED <<timer, run, idx, pinned, previous, delivered, built, rebuilt>>
        ELSE EndPass(~term)
  BY DEF FailStage
<1>6. \/ pc' = "idle" /\ timer' \in BOOLEAN /\ ResetPass
      \/ /\ pc' = "rollback" /\ todo' = Restorable /\ terminal' \in BOOLEAN
         /\ UNCHANGED <<timer, run, idx, pinned, previous, delivered, built, rebuilt>>
  <2>1. CASE RollbackOnFailure /\ Restorable # {}
    BY <2>1, <1>3
  <2>2. CASE ~(RollbackOnFailure /\ Restorable # {})
    BY <2>2, <1>3 DEF EndPass, IInv, TypeOK, QueueType
  <2> QED BY <2>1, <2>2
<1> QED BY <1>2, <1>6 DEF FailStage, Reasons

\* Returning from Reconcile keeps IInv's account of the pass.
LEMMA EndPassType ==
    ASSUME IInv, NEW b \in BOOLEAN, EndPass(b)
    PROVE  /\ PassType' /\ LoopInv'
           /\ timer' \in BOOLEAN
           /\ pc' = "idle" /\ delivered' = {}
  BY ResetPassType DEF EndPass, IInv, TypeOK, QueueType, PassType, PassSteps, LoopInv, Pruning

\* A hold writes a well-formed status and ends the pass.
LEMMA HoldPassType ==
    ASSUME IInv, NEW s \in StageNames, NEW st \in StageStatus, NEW reason \in Reasons,
           HoldPass(s, st, reason)
    PROVE  /\ StatusType' /\ PassType' /\ LoopInv'
           /\ timer' \in BOOLEAN
           /\ pc' = "idle" /\ delivered' = {}
  BY EndPassType DEF HoldPass, Merged, IInv, TypeOK, StatusType, PassType

\* Recorder.Write stores a well-formed record for the stage.
LEMMA WriteRecordType ==
    ASSUME IInv, run \in Specs, NEW s \in RunStages, NEW refs \in SUBSET Objects,
           WriteRecord(s, refs)
    PROVE  shards' \in [StageNames -> Record] /\ queued' \in BOOLEAN /\ shards'[s] = [pos |-> Position(s), refs |-> refs]
<1>1. s \in StageNames
  BY SpecFacts DEF RunStages
<1>2. [pos |-> Position(s), refs |-> refs] \in Record
  BY PositionType DEF Record
<1> QED BY <1>1, <1>2 DEF WriteRecord, IInv, TypeOK, ClusterType

\* A failed stage keeps IInv's account of status and pass.
LEMMA FailStageStep ==
    ASSUME IInv, pc \in {"stage", "record", "verify", "gate"}, idx <= Len(run),
           FailStage(Current)
    PROVE  StatusType' /\ PassType' /\ LoopInv' /\ timer' \in BOOLEAN
<1>1. run \in Specs
  BY CurrentFacts
<1>2. RunStages \subseteq StageNames
  BY <1>1, SpecFacts DEF RunStages
<1>3. StatusType'
  BY FailStageType DEF IInv, TypeOK, StatusType
<1>4. CASE pc' = "idle" /\ timer' \in BOOLEAN /\ ResetPass
  BY <1>3, <1>4, ResetPassType DEF PassType, PassSteps, LoopInv, Pruning
<1>5. CASE /\ pc' = "rollback" /\ todo' = Restorable /\ terminal' \in BOOLEAN
           /\ UNCHANGED <<timer, run, idx, pinned, previous, delivered, built, rebuilt>>
  <2>1. Restorable' = Restorable /\ Restorable \subseteq StageNames
    BY <1>2, <1>5, FailStageType DEF Restorable, RunStages
  <2> QED
    BY <1>1, <1>3, <1>5, <2>1 DEF IInv, TypeOK, QueueType, PassType, PassSteps, LoopInv, Pruning
<1> QED BY <1>4, <1>5, FailStageType

\* IInv holds after every step from the workqueue to the stage loop.
LEMMA TypeStart ==
    ASSUME IInv,
           \/ AddFinalizer \/ SkipSuspended \/ StartPass \/ ResolveStage \/ EnterLoop
           \/ DeferRun \/ FailBeforeLoop
    PROVE  IInv'
<1> USE DEF clusterVars, objectVars, statusVars, queueVars, passVars, boundVars
<1>1. CASE AddFinalizer
  BY <1>1 DEF AddFinalizer, IInv, TypeOK, ClusterType, ObjectType, StatusType, QueueType, PassType,
     LoopInv, RunStages
<1>2. CASE SkipSuspended
  BY <1>2 DEF SkipSuspended, IInv, TypeOK, ClusterType, ObjectType, StatusType, QueueType, PassType,
     LoopInv, RunStages, Reasons
<1>3. CASE StartPass
  <2>1. Len(spec) \in Nat /\ Len(spec) >= 1
    BY SpecFacts DEF IInv, TypeOK, ObjectType
  <2>2. TypeOK'
    BY <1>3 DEF StartPass, MayRun, IInv, TypeOK, ClusterType, ObjectType, StatusType, QueueType,
       PassType, PassSteps
  <2>3. /\ pc' = "resolve" /\ run' = spec /\ idx' = 1 /\ spec \in Specs
        /\ UNCHANGED pinned
    BY <1>3 DEF StartPass, IInv, TypeOK, ObjectType
  <2>4. \A i \in 1 .. Len(spec) : ~(i < 1)
    BY <2>1
  <2>5. LoopInv'
    BY <2>1, <2>3, <2>4 DEF LoopInv, Pruning
  <2> QED BY <2>2, <2>5 DEF IInv
<1>4. CASE ResolveStage
  <2>1. /\ run \in Specs /\ idx \in 1 .. Len(run) /\ Len(run) \in Nat
        /\ Current \in StageNames
    BY <1>4, SpecFacts DEF ResolveStage, IInv, LoopInv, TypeOK, PassType, Current
  <2>2. source[SourceOf[Current]] \in Revisions
    BY <2>1, RenderAssumption DEF IInv, TypeOK, ObjectType
  <2>3. pinned' \in [StageNames -> Revisions \cup {NoRev}]
    BY <1>4, <2>1, <2>2 DEF ResolveStage, IInv, TypeOK, PassType
  <2>4. \A i \in 1 .. Len(run) : i < idx + 1 => pinned'[run[i]] \in Revisions
    BY <1>4, <2>1, <2>2, SpecFacts DEF ResolveStage, IInv, TypeOK, PassType, LoopInv, Current
  <2> QED
    BY <1>4, <2>1, <2>3, <2>4 DEF ResolveStage, IInv, TypeOK, ClusterType, ObjectType, StatusType,
       QueueType, PassType, PassSteps, LoopInv, Pruning, RunStages
<1>5. CASE EnterLoop
  <2>1. /\ run \in Specs /\ Len(run) \in Nat /\ Len(run) >= 1
        /\ \A i \in 1 .. Len(run) : pinned[run[i]] \in Revisions
    BY <1>5, SpecFacts DEF EnterLoop, IInv, LoopInv, TypeOK, PassType
  <2>2. built' \in [StageNames -> StageStatus]
    BY <1>5 DEF EnterLoop, Carried, IInv, TypeOK, StatusType, NoStatus, StageStatus, Phases
  <2> QED
    BY <1>5, <2>1, <2>2 DEF EnterLoop, IInv, TypeOK, ClusterType, ObjectType, StatusType,
       QueueType, PassType, PassSteps, LoopInv, Pruning, RunStages
<1>6. CASE DeferRun
  <2>1. PassType' /\ LoopInv' /\ timer' \in BOOLEAN
    BY <1>6, EndPassType DEF DeferRun
  <2> QED
    BY <1>6, <2>1 DEF DeferRun, Disturb, IInv, TypeOK, ClusterType, ObjectType, StatusType,
       QueueType, Reasons
<1>7. CASE FailBeforeLoop
  <2>1. PassType' /\ LoopInv' /\ timer' \in BOOLEAN
    BY <1>7, EndPassType DEF FailBeforeLoop
  <2>2. Carried \in [StageNames -> StageStatus]
    BY DEF Carried, IInv, TypeOK, StatusType, NoStatus, StageStatus, Phases
  <2>3. FailedStatus(NoRev) \in StageStatus
    BY DEF FailedStatus, StageStatus, Phases
  <2>4. stages' \in [StageNames -> StageStatus]
    BY <1>7, <2>2, <2>3 DEF FailBeforeLoop
  <2> QED
    BY <1>7, <2>1, <2>4 DEF FailBeforeLoop, Disturb, IInv, TypeOK, ClusterType, ObjectType,
       StatusType, QueueType, Reasons
<1> QED BY <1>1, <1>2, <1>3, <1>4, <1>5, <1>6, <1>7

\* IInv holds after every step of the stage loop.
LEMMA TypeLoop ==
    ASSUME IInv, StageLoop
    PROVE  IInv'
<1> USE DEF clusterVars, objectVars, statusVars, queueVars, passVars, boundVars
<1>c. ASSUME pc \in {"stage", "record", "verify", "gate"}, idx <= Len(run)
      PROVE  /\ run \in Specs /\ Current \in StageNames /\ Current \in RunStages
             /\ pinned[Current] \in Revisions
             /\ Render[Current][pinned[Current]] \in SUBSET Objects
             /\ stages[Current] \in StageStatus
             /\ snapshot[Current].rev # NoRev =>
                    /\ snapshot[Current].rev \in Revisions
                    /\ Render[Current][snapshot[Current].rev] \in SUBSET Objects
  BY <1>c, CurrentFacts
<1>g. pc \in {"record", "verify", "gate"} => idx <= Len(run)
  BY DEF IInv, LoopInv
<1>s. \A rev \in Revisions \cup {NoRev}, promoted \in BOOLEAN, ab \in Revisions \cup {NoRev} :
        /\ GateStatus(rev, promoted, ab) \in StageStatus
        /\ FailedStatus(rev) \in StageStatus
  BY DEF GateStatus, FailedStatus, StageStatus, Phases
<1>1. CASE HoldAborted
  <2>1. StatusType' /\ PassType' /\ LoopInv' /\ timer' \in BOOLEAN
    BY <1>1, <1>c, HoldPassType DEF HoldAborted, AtStage, Reasons
  <2> QED
    BY <1>1, <2>1 DEF HoldAborted, IInv, TypeOK, ClusterType, ObjectType, QueueType
<1>2. CASE HoldForBudget
  <2>1. StatusType' /\ PassType' /\ LoopInv' /\ timer' \in BOOLEAN
    BY <1>2, <1>c, HoldPassType DEF HoldForBudget, AtStage, Reasons
  <2> QED
    BY <1>2, <2>1 DEF HoldForBudget, IInv, TypeOK, ClusterType, ObjectType, QueueType
<1>3. CASE FailBeforeApply
  <2>1. StatusType' /\ PassType' /\ LoopInv' /\ timer' \in BOOLEAN
    BY <1>3, FailStageStep DEF FailBeforeApply, AtStage
  <2> QED
    BY <1>3, <2>1 DEF FailBeforeApply, Disturb, IInv, TypeOK, ClusterType, ObjectType, QueueType
<1>4. CASE ApplyStage
  <2>1. live' \in [Objects -> StageNames \cup {Absent, Foreign}]
    BY <1>4, <1>c, AppliedType DEF ApplyStage, AtStage, IInv, TypeOK, ClusterType
  <2>2. PassType' /\ LoopInv'
    BY <1>4 DEF ApplyStage, AtStage, IInv, TypeOK, PassType, PassSteps, LoopInv, Pruning, RunStages
  <2> QED
    BY <1>4, <2>1, <2>2 DEF ApplyStage, IInv, TypeOK, ClusterType, ObjectType, StatusType, QueueType
<1>5. CASE ApplyFails
  <2>1. live' \in [Objects -> StageNames \cup {Absent, Foreign}]
    BY <1>5, <1>c, AppliedType DEF ApplyFails, PartlyApplied, AtStage, IInv, TypeOK, ClusterType
  <2>2. StatusType' /\ PassType' /\ LoopInv' /\ timer' \in BOOLEAN
    BY <1>5, FailStageStep DEF ApplyFails, AtStage
  <2> QED
    BY <1>5, <2>1, <2>2 DEF ApplyFails, Disturb, IInv, TypeOK, ClusterType, ObjectType, QueueType
<1>6. CASE RecordStage
  <2>1. \A listed : Reconstructed(Current, listed) \subseteq Objects
    BY DEF Reconstructed
  <2>2. shards' \in [StageNames -> Record] /\ queued' \in BOOLEAN
    BY <1>6, <1>c, <1>g, <2>1, WriteRecordType DEF RecordStage
  <2>3. delivered' \subseteq StageNames /\ rebuilt' \subseteq StageNames
    BY <1>6, <1>c, <1>g DEF RecordStage, IInv, TypeOK, PassType
  <2>4. PassType' /\ LoopInv'
    BY <1>6, <2>3 DEF RecordStage, IInv, TypeOK, PassType, PassSteps, LoopInv, Pruning, RunStages
  <2> QED
    BY <1>6, <2>2, <2>4 DEF RecordStage, IInv, TypeOK, ClusterType, ObjectType, StatusType, QueueType
<1>7. CASE RecordFails
  <2>1. StatusType' /\ PassType' /\ LoopInv' /\ timer' \in BOOLEAN
    BY <1>7, <1>g, FailStageStep DEF RecordFails
  <2> QED
    BY <1>7, <2>1 DEF RecordFails, Disturb, IInv, TypeOK, ClusterType, ObjectType, QueueType
<1>8. CASE VerifyStage
  BY <1>8 DEF VerifyStage, IInv, TypeOK, ClusterType, ObjectType, StatusType, QueueType, PassType,
     PassSteps, LoopInv, Pruning, RunStages
<1>9. CASE HoldForProgress
  <2>1. [phase |-> "Verifying", applied |-> pinned[Current], promoted |-> FALSE, aborted |-> NoRev]
            \in StageStatus
    BY <1>9, <1>c, <1>g DEF HoldForProgress, StageStatus, Phases
  <2>2. StatusType' /\ PassType' /\ LoopInv' /\ timer' \in BOOLEAN
    BY <1>9, <1>c, <1>g, <2>1, HoldPassType DEF HoldForProgress, Reasons
  <2> QED
    BY <1>9, <2>2 DEF HoldForProgress, Disturb, IInv, TypeOK, ClusterType, ObjectType, QueueType
<1>10. CASE VerifyFails
  <2>1. StatusType' /\ PassType' /\ LoopInv' /\ timer' \in BOOLEAN
    BY <1>10, <1>g, FailStageStep DEF VerifyFails
  <2> QED
    BY <1>10, <2>1 DEF VerifyFails, Disturb, IInv, TypeOK, ClusterType, ObjectType, QueueType
<1>11. CASE AbortForDeletion
  <2>1. PassType' /\ LoopInv' /\ timer' \in BOOLEAN
    BY <1>11, EndPassType DEF AbortForDeletion
  <2> QED
    BY <1>11, <2>1 DEF AbortForDeletion, IInv, TypeOK, ClusterType, ObjectType, StatusType, QueueType
<1>12. CASE GatePromotes
  <2>1. GateStatus(pinned[Current], Current \in Gated, NoRev) \in StageStatus
    BY <1>12, <1>c, <1>g DEF GatePromotes, GateStatus, StageStatus, Phases
  <2>2. built' \in [StageNames -> StageStatus]
    BY <1>12, <1>c, <1>g, <2>1 DEF GatePromotes, IInv, TypeOK, PassType
  <2>3. Len(run) \in Nat
    BY <1>12, <1>c, <1>g, SpecFacts DEF GatePromotes
  <2>4. PassType' /\ LoopInv'
    BY <1>12, <2>2, <2>3 DEF GatePromotes, IInv, TypeOK, PassType, PassSteps, LoopInv, Pruning, RunStages
  <2> QED
    BY <1>12, <2>4 DEF GatePromotes, IInv, TypeOK, ClusterType, ObjectType, StatusType, QueueType
<1>13. CASE GateHolds
  <2>1. StatusType' /\ PassType' /\ LoopInv' /\ timer' \in BOOLEAN
    BY <1>13, <1>c, <1>g, <1>s, HoldPassType DEF GateHolds, Reasons
  <2> QED
    BY <1>13, <2>1 DEF GateHolds, IInv, TypeOK, ClusterType, ObjectType, QueueType
<1>14. CASE GateReverts
  <2>1. live' \in [Objects -> StageNames \cup {Absent, Foreign}]
    BY <1>14, <1>c, <1>g, AppliedType DEF GateReverts, IInv, TypeOK, ClusterType
  <2>2. shards' \in [StageNames -> Record] /\ queued' \in BOOLEAN
    BY <1>14, <1>c, <1>g, WriteRecordType DEF GateReverts
  <2>3. StatusType' /\ PassType' /\ LoopInv' /\ timer' \in BOOLEAN
    BY <1>14, <1>c, <1>g, <1>s, HoldPassType DEF GateReverts, Reasons
  <2> QED
    BY <1>14, <2>1, <2>2, <2>3 DEF GateReverts, Disturb, IInv, TypeOK, ClusterType, ObjectType, QueueType
<1>i. ASSUME pc = "gate"
      PROVE  Merged(Current, Interrupted(Current)) \in [StageNames -> StageStatus]
  <2>1. /\ stages[Current].promoted \in BOOLEAN
        /\ stages[Current].aborted \in Revisions \cup {NoRev}
    BY <1>i, <1>c, <1>g DEF StageStatus
  <2>2. Interrupted(Current) \in StageStatus
    BY <1>i, <1>c, <1>g, <1>s, <2>1 DEF Interrupted
  <2> QED BY <2>2 DEF Merged, IInv, TypeOK, PassType
<1>15. CASE GateInterrupted
  <2>1. PassType' /\ LoopInv' /\ timer' \in BOOLEAN
    BY <1>15, EndPassType DEF GateInterrupted
  <2>2. stages' \in [StageNames -> StageStatus]
    BY <1>15, <1>i DEF GateInterrupted
  <2> QED
    BY <1>15, <2>1, <2>2 DEF GateInterrupted, Disturb, IInv, TypeOK, ClusterType, ObjectType,
       StatusType, QueueType, Reasons
<1>16. CASE RevertFails
  <2>1. PassType' /\ LoopInv' /\ timer' \in BOOLEAN
    BY <1>16, EndPassType DEF RevertFails
  <2>2. stages' \in [StageNames -> StageStatus]
    BY <1>16, <1>i DEF RevertFails
  <2>3. live' \in [Objects -> StageNames \cup {Absent, Foreign}]
    BY <1>16, <1>c, <1>g, AppliedType DEF RevertFails, PartlyApplied, IInv, TypeOK, ClusterType
  <2> QED
    BY <1>16, <2>1, <2>2, <2>3 DEF RevertFails, Disturb, IInv, TypeOK, ClusterType, ObjectType,
       StatusType, QueueType
<1>17. CASE RevertLost
  <2>1. PassType' /\ LoopInv' /\ timer' \in BOOLEAN
    BY <1>17, EndPassType DEF RevertLost
  <2>2. shards' \in [StageNames -> Record] /\ queued' \in BOOLEAN
    BY <1>17, <1>c, <1>g, WriteRecordType DEF RevertLost
  <2>3. live' \in [Objects -> StageNames \cup {Absent, Foreign}]
    BY <1>17, <1>c, <1>g, AppliedType DEF RevertLost, IInv, TypeOK, ClusterType
  <2> QED
    BY <1>17, <2>1, <2>2, <2>3 DEF RevertLost, Disturb, IInv, TypeOK, ClusterType, ObjectType,
       StatusType, QueueType
<1> QED
  BY <1>1, <1>2, <1>3, <1>4, <1>5, <1>6, <1>7, <1>8, <1>9, <1>10, <1>11, <1>12, <1>13, <1>14, <1>15,
     <1>16, <1>17 DEF StageLoop

\* A stage attemptRollback picks is in the spec and in the snapshot.
LEMMA RestoredFacts ==
    ASSUME IInv, pc = "rollback", NEW s \in FirstOfSnapshot
    PROVE  /\ run \in Specs /\ s \in RunStages /\ s \in StageNames /\ s \in todo /\ snapshot[s].rev # NoRev
  BY SpecFacts DEF FirstOfSnapshot, Restorable, IInv, LoopInv, TypeOK, PassType

\* IInv holds after every step of a rollback, of the prune and of the commit.
LEMMA TypeAfterLoop ==
    ASSUME IInv, AfterLoop
    PROVE  IInv'
<1> USE DEF clusterVars, objectVars, statusVars, queueVars, passVars, boundVars
<1>1. CASE RollbackStage
  <2>1. PICK s \in FirstOfSnapshot :
            /\ live' = Applied(s, Render[s][snapshot[s].rev])
            /\ WriteRecord(s, Render[s][snapshot[s].rev])
            /\ todo' = todo \ {s}
    BY <1>1 DEF RollbackStage
  <2>2. /\ run \in Specs /\ s \in RunStages /\ s \in StageNames
        /\ Render[s][snapshot[s].rev] \in SUBSET Objects
    <3>1. run \in Specs /\ s \in RunStages /\ s \in StageNames /\ snapshot[s].rev # NoRev
      BY <1>1, RestoredFacts DEF RollbackStage
    <3>2. snapshot[s].rev \in Revisions
      BY <3>1 DEF IInv, TypeOK, StatusType, SnapshotRef
    <3> QED BY <3>1, <3>2, RenderAssumption
  <2>3. live' \in [Objects -> StageNames \cup {Absent, Foreign}]
    BY <2>1, <2>2, AppliedType DEF IInv, TypeOK, ClusterType
  <2>4. shards' \in [StageNames -> Record] /\ queued' \in BOOLEAN
    BY <2>1, <2>2, WriteRecordType
  <2>5. /\ todo' \subseteq StageNames /\ todo' \subseteq todo
    BY <2>1 DEF IInv, TypeOK, PassType
  <2>6. Restorable' = Restorable
    BY <1>1 DEF RollbackStage, Restorable, RunStages
  <2> QED
    BY <1>1, <2>3, <2>4, <2>5, <2>6 DEF RollbackStage, IInv, TypeOK, ClusterType, ObjectType,
       StatusType, QueueType, PassType, LoopInv, Pruning
<1>2. CASE RollbackUnavailable
  <2>1. PassType' /\ LoopInv' /\ timer' \in BOOLEAN
    BY <1>2, EndPassType DEF RollbackUnavailable
  <2>2. live' \in [Objects -> StageNames \cup {Absent, Foreign}]
    BY <1>2, RestoredFacts, AppliedType DEF RollbackUnavailable, PartlyApplied, IInv, TypeOK, ClusterType
  <2> QED
    BY <1>2, <2>1, <2>2 DEF RollbackUnavailable, Disturb, IInv, TypeOK, ClusterType, ObjectType,
       StatusType, QueueType, Reasons
<1>3. CASE RollbackDefers
  <2>1. PassType' /\ LoopInv' /\ timer' \in BOOLEAN
    BY <1>3, EndPassType DEF RollbackDefers
  <2>2. live' \in [Objects -> StageNames \cup {Absent, Foreign}]
    BY <1>3, RestoredFacts, AppliedType DEF RollbackDefers, IInv, TypeOK, ClusterType
  <2> QED
    BY <1>3, <2>1, <2>2 DEF RollbackDefers, Disturb, IInv, TypeOK, ClusterType, ObjectType,
       StatusType, QueueType
<1>4. CASE RollbackDone
  <2>1. PassType' /\ LoopInv' /\ timer' \in BOOLEAN
    BY <1>4, EndPassType DEF RollbackDone, IInv, TypeOK, PassType
  <2> QED
    BY <1>4, <2>1 DEF RollbackDone, IInv, TypeOK, ClusterType, ObjectType, StatusType, QueueType
<1>5. CASE StallOnDuplicates
  <2>1. PassType' /\ LoopInv' /\ timer' \in BOOLEAN
    BY <1>5, EndPassType DEF StallOnDuplicates
  <2> QED
    BY <1>5, <2>1 DEF StallOnDuplicates, IInv, TypeOK, ClusterType, ObjectType, StatusType, QueueType,
       Reasons
<1>6. CASE StartPrune
  <2>1. todo' \subseteq StageNames
    BY <1>6 DEF StartPrune, Prunes, PrunePerStage, StageRecords
  <2>2. pc' \in {"prune", "commit"}
    BY <1>6 DEF StartPrune
  <2> QED
    BY <1>6, <2>1, <2>2 DEF StartPrune, LoopDone, IInv, TypeOK, ClusterType, ObjectType, StatusType,
       QueueType, PassType, PassSteps, LoopInv, Pruning
<1>7. CASE PruneStage
  <2>1. live' \in [Objects -> StageNames \cup {Absent, Foreign}]
    BY <1>7, DeletedType DEF PruneStage, IInv, TypeOK, ClusterType
  <2> QED
    BY <1>7, <2>1 DEF PruneStage, IInv, TypeOK, ClusterType, ObjectType, StatusType,
       QueueType, PassType, LoopInv, Pruning
<1>8. CASE StartRemoved
  <2>1. todo' \subseteq StageNames
    BY <1>8 DEF StartRemoved, Removed, RemovedStages, StageRecords
  <2> QED
    BY <1>8, <2>1 DEF StartRemoved, IInv, TypeOK, ClusterType, ObjectType, StatusType,
       QueueType, PassType, PassSteps, LoopInv, Pruning
<1>9. CASE TearDownRemoved
  <2>1. live' \in [Objects -> StageNames \cup {Absent, Foreign}]
    BY <1>9, DeletedType DEF TearDownRemoved, IInv, TypeOK, ClusterType
  <2> QED
    BY <1>9, <2>1 DEF TearDownRemoved, IInv, TypeOK, ClusterType, ObjectType, StatusType,
       QueueType, PassType, PassSteps, LoopInv, Pruning
<1>10. CASE DropShards
  <2>1. NoRecord \in Record
    BY DEF NoRecord, Record
  <2>2. shards' \in [StageNames -> Record]
    BY <1>10, <2>1 DEF DropShards, IInv, TypeOK, ClusterType
  <2>3. todo' \subseteq StageNames
    BY <1>10 DEF DropShards, IInv, TypeOK, PassType
  <2> QED
    BY <1>10, <2>2, <2>3 DEF DropShards, IInv, TypeOK, ClusterType, ObjectType, StatusType,
       QueueType, PassType, PassSteps, LoopInv, Pruning
<1>11. CASE FinishPrune
  BY <1>11 DEF FinishPrune, IInv, TypeOK, ClusterType, ObjectType, StatusType, QueueType, PassType,
     PassSteps, LoopInv, Pruning
<1>12. CASE PruneFails
  <2>1. PassType' /\ LoopInv' /\ timer' \in BOOLEAN
    BY <1>12, EndPassType DEF PruneFails
  <2>2. live' \in [Objects -> StageNames \cup {Absent, Foreign}]
    BY <1>12, DeletedType DEF PruneFails, PartlyDeleted, IInv, TypeOK, ClusterType
  <2> QED
    BY <1>12, <2>1, <2>2 DEF PruneFails, Disturb, IInv, TypeOK, ClusterType, ObjectType, StatusType,
       QueueType
<1>13. CASE CommitPass
  <2>1. PassType' /\ LoopInv' /\ timer' \in BOOLEAN
    BY <1>13, EndPassType DEF CommitPass
  <2>2. run \in Specs
    BY <1>13 DEF CommitPass, IInv, LoopInv
  <2>3. \A s \in StageNames :
            s \in RunStages => [rev |-> pinned[s], pos |-> Position(s)] \in SnapshotRef
    BY <2>2, PositionType DEF SnapshotRef, IInv, TypeOK, PassType
  <2>4. NoRef \in SnapshotRef
    BY DEF NoRef, SnapshotRef
  <2>5. snapshot' \in [StageNames -> SnapshotRef]
    BY <1>13, <2>3, <2>4 DEF CommitPass, IInv, TypeOK, StatusType
  <2> QED
    BY <1>13, <2>1, <2>5 DEF CommitPass, IInv, TypeOK, ClusterType, ObjectType, StatusType,
       QueueType, PassType, Reasons
<1> QED
  BY <1>1, <1>2, <1>3, <1>4, <1>5, <1>6, <1>7, <1>8, <1>9, <1>10, <1>11, <1>12, <1>13 DEF AfterLoop

\* IInv holds after every step of reconcileDelete.
LEMMA TypeTeardown ==
    ASSUME IInv, Teardown
    PROVE  IInv'
<1> USE DEF clusterVars, objectVars, statusVars, queueVars, passVars, boundVars
<1>l. TeardownInterrupted => live' \in [Objects -> StageNames \cup {Absent, Foreign}]
  BY DeletedType DEF TeardownInterrupted, PartlyDeleted, IInv, TypeOK, ClusterType
<1>r. [s \in StageNames |-> NoRecord] \in [StageNames -> Record]
  BY DEF NoRecord, Record
<1>1. CASE StartTeardown
  <2>1. todo' \subseteq StageNames
    BY <1>1 DEF StartTeardown, StageRecords
  <2> QED
    BY <1>1, <2>1 DEF StartTeardown, IInv, TypeOK, ClusterType, ObjectType, StatusType, QueueType,
       PassType, PassSteps, LoopInv, Pruning
<1>2. CASE TearDownStage
  <2>1. live' \in [Objects -> StageNames \cup {Absent, Foreign}] /\ todo' \subseteq StageNames
    BY <1>2, DeletedType DEF TearDownStage, IInv, TypeOK, ClusterType, PassType
  <2> QED
    BY <1>2, <2>1 DEF TearDownStage, IInv, TypeOK, ClusterType, ObjectType, StatusType, QueueType,
       PassType, LoopInv, Pruning
<1>3. CASE TeardownFails
  <2>1. PassType' /\ LoopInv' /\ timer' \in BOOLEAN
    BY <1>3, EndPassType DEF TeardownFails
  <2> QED
    BY <1>3, <1>l, <2>1 DEF TeardownFails, IInv, TypeOK, ClusterType, ObjectType, StatusType, QueueType
<1>4. CASE TeardownForced
  <2>1. PassType' /\ LoopInv' /\ timer' \in BOOLEAN
    BY <1>4, EndPassType DEF TeardownForced
  <2> QED
    BY <1>4, <1>l, <1>r, <2>1 DEF TeardownForced, IInv, TypeOK, ClusterType, ObjectType, StatusType,
       QueueType, Reasons
<1>5. CASE FinishTeardown
  <2>1. PassType' /\ LoopInv' /\ timer' \in BOOLEAN
    BY <1>5, EndPassType DEF FinishTeardown
  <2> QED
    BY <1>5, <1>r, <2>1 DEF FinishTeardown, IInv, TypeOK, ClusterType, ObjectType, StatusType,
       QueueType
<1> QED BY <1>1, <1>2, <1>3, <1>4, <1>5 DEF Teardown

\* Where a process can die halfway through an apply, and what it leaves.
LEMMA DyingApply ==
    ASSUME CrashMidApply
    PROVE  /\ pc \in {"stage", "gate", "rollback"}
           /\ \E s \in StageNames, r \in Revisions : \E os \in SUBSET Render[s][r] : live' = Applied(s, os)
  BY DEF CrashMidApply, UnderWay, AtStage, PartlyApplied

\* IInv survives edits, source updates, timers, crashes, lost shards and
\* foreign managers.
LEMMA TypeEnvironment ==
    ASSUME IInv, Environment
    PROVE  IInv'
<1> USE DEF clusterVars, objectVars, statusVars, queueVars, passVars, boundVars
<1>p. ASSUME UNCHANGED <<pc, run, idx, pinned, previous, delivered, built, rebuilt, todo,
                         terminal, snapshot>>
      PROVE  PassType' /\ LoopInv'
  BY <1>p DEF IInv, TypeOK, PassType, LoopInv, Restorable, RunStages, Pruning
<1>1. CASE EditSpec
  BY <1>1, <1>p DEF EditSpec, IInv, TypeOK, ClusterType, ObjectType, StatusType, QueueType
<1>2. CASE UpdateSource
  <2>1. source' \in [Sources -> Revisions]
    BY <1>2 DEF UpdateSource, IInv, TypeOK, ObjectType
  <2> QED
    BY <1>2, <1>p, <2>1 DEF UpdateSource, IInv, TypeOK, ClusterType, ObjectType, StatusType, QueueType
<1>3. CASE ToggleSuspend
  BY <1>3, <1>p DEF ToggleSuspend, IInv, TypeOK, ClusterType, ObjectType, StatusType, QueueType
<1>4. CASE RequestDelete
  BY <1>4, <1>p DEF RequestDelete, IInv, TypeOK, ClusterType, ObjectType, StatusType, QueueType
<1>5. CASE TimerFires
  BY <1>5, <1>p DEF TimerFires, IInv, TypeOK, ClusterType, ObjectType, StatusType, QueueType
<1>6. CASE TeardownWaitElapses
  BY <1>6, <1>p DEF TeardownWaitElapses, IInv, TypeOK, ClusterType, ObjectType, StatusType, QueueType
<1>7. CASE Crash
  <2>1. PassType' /\ LoopInv'
    BY <1>7, ResetPassType DEF Crash, PassType, PassSteps, LoopInv, Pruning
  <2>2. QueueType'
    <3>1. queued' \in BOOLEAN /\ timer' \in BOOLEAN
      BY <1>7, Zenon DEF Crash
    <3>2. edits' \in Nat /\ faults' \in Nat
      BY <1>7 DEF Crash, Disturb, IInv, TypeOK, QueueType
    <3> QED BY <3>1, <3>2 DEF QueueType
  <2>3. ClusterType' /\ ObjectType' /\ StatusType'
    BY <1>7 DEF Crash, IInv, TypeOK, ClusterType, ObjectType, StatusType
  <2> QED BY <2>1, <2>2, <2>3 DEF IInv, TypeOK
<1>c. CASE CrashMidApply
  <2>1. PassType' /\ LoopInv'
    BY <1>c, ResetPassType DEF CrashMidApply, PassType, PassSteps, LoopInv, Pruning
  <2>2. QueueType'
    <3>1. queued' \in BOOLEAN /\ timer' \in BOOLEAN
      BY <1>c, Zenon DEF CrashMidApply
    <3>2. edits' \in Nat /\ faults' \in Nat
      BY <1>c DEF CrashMidApply, Disturb, IInv, TypeOK, QueueType
    <3> QED BY <3>1, <3>2 DEF QueueType
  <2>3. live' \in [Objects -> StageNames \cup {Absent, Foreign}]
    BY <1>c, DyingApply, AppliedType DEF IInv, TypeOK, ClusterType
  <2>4. ClusterType' /\ ObjectType' /\ StatusType'
    BY <1>c, <2>3 DEF CrashMidApply, IInv, TypeOK, ClusterType, ObjectType, StatusType
  <2> QED BY <2>1, <2>2, <2>4 DEF IInv, TypeOK
<1>8. CASE LoseInventory
  <2>1. NoRecord \in Record
    BY DEF NoRecord, Record
  <2> QED
    BY <1>8, <1>p, <2>1 DEF LoseInventory, Disturb, IInv, TypeOK, ClusterType, ObjectType, StatusType,
       QueueType
<1>9. CASE AdoptObject
  BY <1>9, <1>p DEF AdoptObject, Disturb, IInv, TypeOK, ClusterType, ObjectType, StatusType, QueueType
<1> QED BY <1>1, <1>2, <1>3, <1>4, <1>5, <1>6, <1>7, <1>c, <1>8, <1>9 DEF Environment

\* IInv does not depend on anything outside vars.
LEMMA TypeStutter == IInv /\ UNCHANGED vars => IInv'
  BY DEF vars, clusterVars, objectVars, statusVars, queueVars, passVars, boundVars, IInv, TypeOK,
     ClusterType, ObjectType, StatusType, QueueType, PassType, LoopInv, Restorable, RunStages, Pruning

\* IInv is inductive.
LEMMA TypeStep == IInv /\ [Next]_vars => IInv'
<1> SUFFICES ASSUME IInv, [Next]_vars PROVE IInv'
  OBVIOUS
<1> QED BY TypeStart, TypeLoop, TypeAfterLoop, TypeTeardown, TypeEnvironment, TypeStutter DEF Next, Reconcile

\* TypeOK is an invariant: no path through Reconcile or reconcileDelete writes
\* a status, a record or a queue entry of the wrong shape.
THEOREM TypeCorrect == Spec => []TypeOK
<1>1. Spec => []IInv
  BY TypeInit, TypeStep, PTL DEF Spec
<1>2. IInv => TypeOK
  BY DEF IInv
<1> QED BY <1>1, <1>2, PTL

-----------------------------------------------------------------------------

\* What a step may delete, and where in a pass.
DeletionRule ==
    \A o \in Objects : Deletes(o) =>
        /\ live[o] # Foreign
        /\ o \notin OptOut
        /\ \/ /\ pc \in {"prune", "removed"}
              /\ o \notin Claimed(Desired)
              /\ \E s \in StageNames : o \in previous[s].refs /\ s \notin delivered \cap NoPrune
           \/ /\ pc = "teardown"
              /\ \E s \in LastStages(todo, previous) : ~Spared(s) /\ o \in previous[s].refs

\* The steps that neither end a pass nor leave it where it is.
PassEnds ==
    /\ pc' = "idle"
    /\ delivered' = {}
    /\ \A s \in StageNames : previous'[s].refs = {}

PassWaits ==
    /\ UNCHANGED <<pc, passVars>>
    /\ UNCHANGED shards \/ ~deleting
    /\ deleting => deleting'
    /\ \A o \in Objects : live'[o] \in {live[o], Foreign}

PassFails ==
    /\ pc \in {"stage", "record", "verify", "gate"}
    /\ pc' = "rollback"
    /\ UNCHANGED <<run, pinned, previous, delivered>>

PassMoves ==
    \/ StartPass \/ ResolveStage \/ EnterLoop
    \/ ApplyStage \/ RecordStage \/ VerifyStage \/ GatePromotes
    \/ RollbackStage
    \/ StartPrune \/ PruneStage \/ StartRemoved \/ TearDownRemoved \/ DropShards \/ FinishPrune
    \/ StartTeardown \/ TearDownStage

\* A failing stage ends the pass or starts the rollback, and nothing else.
LEMMA FailStageMoves ==
    ASSUME IInv, pc \in {"stage", "record", "verify", "gate"}, idx <= Len(run),
           FailStage(Current)
    PROVE  PassEnds \/ PassFails
<1>1. CASE pc' = "idle" /\ ResetPass
  BY <1>1 DEF PassEnds, ResetPass, NoRecord
<1>2. CASE pc' = "rollback" /\ UNCHANGED <<run, pinned, previous, delivered>>
  BY <1>2 DEF PassFails
<1> QED BY <1>1, <1>2, FailStageType

\* Every step has one of the four shapes.
LEMMA StepShape ==
    ASSUME IInv, [Next]_vars
    PROVE  PassEnds \/ PassWaits \/ PassFails \/ PassMoves
<1> USE DEF clusterVars, objectVars, statusVars, queueVars, passVars, boundVars
<1>g. pc \in {"record", "verify", "gate"} => idx <= Len(run)
  BY DEF IInv, LoopInv
<1>e. \A b : EndPass(b) => PassEnds
  BY DEF EndPass, ResetPass, PassEnds, NoRecord
<1>1. CASE \/ AddFinalizer \/ SkipSuspended \/ StartPass \/ ResolveStage \/ EnterLoop
           \/ DeferRun \/ FailBeforeLoop
  BY <1>1, <1>e DEF AddFinalizer, SkipSuspended, DeferRun, FailBeforeLoop, PassWaits, PassMoves
<1>2. CASE StageLoop
  <2>1. CASE FailBeforeApply \/ ApplyFails \/ RecordFails \/ VerifyFails
    BY <2>1, <1>g, FailStageMoves DEF FailBeforeApply, ApplyFails, RecordFails, VerifyFails, AtStage
  <2>2. CASE HoldAborted \/ HoldForBudget \/ HoldForProgress \/ GateHolds \/ GateReverts
    BY <2>2, <1>e DEF HoldAborted, HoldForBudget, HoldForProgress, GateHolds, GateReverts, HoldPass
  <2>3. CASE AbortForDeletion \/ GateInterrupted \/ RevertFails \/ RevertLost
    BY <2>3, <1>e DEF AbortForDeletion, GateInterrupted, RevertFails, RevertLost
  <2> QED BY <1>2, <2>1, <2>2, <2>3 DEF StageLoop, PassMoves
<1>3. CASE AfterLoop
  <2>1. CASE \/ RollbackUnavailable \/ RollbackDefers \/ RollbackDone \/ StallOnDuplicates
             \/ PruneFails \/ CommitPass
    BY <2>1, <1>e DEF RollbackUnavailable, RollbackDefers, RollbackDone, StallOnDuplicates,
       PruneFails, CommitPass
  <2> QED BY <1>3, <2>1 DEF AfterLoop, PassMoves
<1>4. CASE Teardown
  <2>1. CASE TeardownFails \/ TeardownForced \/ FinishTeardown
    BY <2>1, <1>e DEF TeardownFails, TeardownForced, FinishTeardown
  <2> QED BY <1>4, <2>1 DEF Teardown, PassMoves
<1>5. CASE Environment
  <2>1. CASE \/ EditSpec \/ UpdateSource \/ ToggleSuspend \/ RequestDelete \/ TimerFires
             \/ TeardownWaitElapses \/ AdoptObject
    BY <2>1 DEF EditSpec, UpdateSource, ToggleSuspend, RequestDelete, TimerFires, TeardownWaitElapses,
       AdoptObject, PassWaits, IInv, TypeOK, ClusterType
  <2>2. CASE LoseInventory
    BY <2>2 DEF LoseInventory, Editable, PassWaits
  <2>3. CASE Crash \/ CrashMidApply
    BY <2>3 DEF Crash, CrashMidApply, ResetPass, PassEnds, NoRecord
  <2> QED BY <1>5, <2>1, <2>2, <2>3 DEF Environment
<1>6. CASE UNCHANGED vars
  BY <1>6 DEF vars, PassWaits
<1> QED BY <1>1, <1>2, <1>3, <1>4, <1>5, <1>6 DEF Next, Reconcile

\* What is left to prune is recorded, desired and not spared by prune: false;
\* what is left to tear down is recorded and no longer desired.
PruneInv ==
    /\ pc = "prune" => todo \subseteq DOMAIN Prunes /\ todo \cap NoPrune = {}
    /\ pc \in {"removed", "drop"} => todo \subseteq DOMAIN Removed

\* ComputePlan: the stages and the objects of the two halves of the plan.
LEMMA PruneDomains ==
    /\ DOMAIN Prunes = {s \in StageNames : previous[s].pos > 0} \cap delivered
    /\ DOMAIN Removed = {s \in StageNames : previous[s].pos > 0} \ delivered
    /\ \A s \in DOMAIN Prunes : Prunes[s] = (previous[s].refs \ Desired[s]) \ Claimed(Desired)
    /\ \A s \in DOMAIN Removed : Removed[s].refs = previous[s].refs \ Claimed(Desired)
<1>1. DOMAIN StageRecords(previous) = {s \in StageNames : previous[s].pos > 0}
  BY DEF StageRecords
<1>2. DOMAIN Desired = delivered
  BY DEF Desired
<1>3. \A s \in DOMAIN StageRecords(previous) : StageRecords(previous)[s] = previous[s]
  BY DEF StageRecords
<1>4. \A s \in DOMAIN Prunes : Prunes[s] = (previous[s].refs \ Desired[s]) \ Claimed(Desired)
  BY <1>3 DEF Prunes, PrunePerStage
<1>5. \A s \in DOMAIN Removed : Removed[s].refs = previous[s].refs \ Claimed(Desired)
  BY <1>3 DEF Removed, RemovedStages
<1> QED BY <1>1, <1>2, <1>4, <1>5 DEF Prunes, PrunePerStage, Removed, RemovedStages

\* The same for the plan in the next state.
LEMMA PruneDomainsNext ==
    /\ (DOMAIN Prunes)' = {s \in StageNames : previous'[s].pos > 0} \cap delivered'
    /\ (DOMAIN Removed)' = {s \in StageNames : previous'[s].pos > 0} \ delivered'
  BY DEF Prunes, PrunePerStage, Removed, RemovedStages, StageRecords, Desired

\* PruneInv is preserved by every step: the plan is a function of what the
\* pass read, and no step of the prune changes that.
LEMMA PruneStep ==
    ASSUME IInv, PruneInv, [Next]_vars
    PROVE  PruneInv'
<1> USE DEF clusterVars, objectVars, statusVars, queueVars, passVars, boundVars
<1>1. CASE PassEnds
  BY <1>1 DEF PassEnds, PruneInv
<1>2. CASE PassWaits
  BY <1>2, PruneDomains, PruneDomainsNext DEF PassWaits, PruneInv
<1>3. CASE PassFails
  BY <1>3 DEF PassFails, PruneInv
<1>4. CASE \/ StartPass \/ ResolveStage \/ EnterLoop
           \/ ApplyStage \/ RecordStage \/ VerifyStage \/ GatePromotes
           \/ RollbackStage \/ FinishPrune \/ StartTeardown \/ TearDownStage
  BY <1>4 DEF StartPass, ResolveStage, EnterLoop, ApplyStage, RecordStage, VerifyStage, GatePromotes,
     RollbackStage, FinishPrune, StartTeardown, TearDownStage, PruneInv
<1>5. CASE StartPrune
  <2>1. todo' \subseteq DOMAIN Prunes /\ todo' \cap NoPrune = {}
    BY <1>5 DEF StartPrune
  <2>2. UNCHANGED <<previous, delivered>> /\ pc' \in {"prune", "commit"}
    BY <1>5 DEF StartPrune
  <2> QED BY <2>1, <2>2, PruneDomains, PruneDomainsNext DEF PruneInv
<1>6. CASE PruneStage
  <2>1. UNCHANGED <<previous, delivered, pc>> /\ pc = "prune" /\ todo' \subseteq todo
    BY <1>6 DEF PruneStage
  <2> QED BY <2>1, PruneDomains, PruneDomainsNext DEF PruneInv
<1>7. CASE StartRemoved
  <2>1. UNCHANGED <<previous, delivered>> /\ pc' = "removed" /\ todo' = DOMAIN Removed
    BY <1>7 DEF StartRemoved
  <2> QED BY <2>1, PruneDomains, PruneDomainsNext DEF PruneInv
<1>8. CASE TearDownRemoved \/ DropShards
  <2>1. /\ UNCHANGED <<previous, delivered>>
        /\ pc \in {"removed", "drop"} /\ pc' \in {"removed", "drop"}
        /\ todo' \subseteq todo
    BY <1>8 DEF TearDownRemoved, DropShards
  <2> QED BY <2>1, PruneDomains, PruneDomainsNext DEF PruneInv
<1> QED BY <1>1, <1>2, <1>3, <1>4, <1>5, <1>6, <1>7, <1>8, StepShape DEF PassMoves

\* A step that only adds or relabels objects deletes none.
LEMMA KeepsLive ==
    ASSUME \A o \in Objects : live[o] # Absent => live'[o] # Absent
    PROVE  DeletionRule
  BY DEF DeletionRule, Deletes

\* Every step of the system obeys DeletionRule.
LEMMA DeletionStep ==
    ASSUME IInv, PruneInv, [Next]_vars
    PROVE  DeletionRule
<1> USE DEF clusterVars, objectVars, statusVars, queueVars, passVars, boundVars
<1>g. pc \in {"record", "verify", "gate"} => idx <= Len(run)
  BY DEF IInv, LoopInv
<1>t. live \in [Objects -> StageNames \cup {Absent, Foreign}]
  BY DEF IInv, TypeOK, ClusterType
<1>a. ASSUME NEW s \in StageNames, NEW os, live' = Applied(s, os)
      PROVE  DeletionRule
  BY <1>a, <1>t, AppliedType, KeepsLive
<1>p. ASSUME NEW s \in StageNames, NEW os \in SUBSET (previous[s].refs \ Claimed(Desired)),
             s \notin delivered \cap NoPrune,
             live' = Deleted(os), pc \in {"prune", "removed"}
      PROVE  DeletionRule
  BY <1>p, <1>t, DeletedType DEF DeletionRule, Deletes
<1>d. ASSUME NEW s \in LastStages(todo, previous), NEW os \in SUBSET previous[s].refs,
             ~Spared(s), live' = Deleted(os), pc = "teardown"
      PROVE  DeletionRule
  BY <1>d, <1>t, DeletedType DEF DeletionRule, Deletes
<1>u. UNCHANGED live => DeletionRule
  BY KeepsLive
<1>1. CASE \/ AddFinalizer \/ SkipSuspended \/ StartPass \/ ResolveStage \/ EnterLoop
           \/ DeferRun \/ FailBeforeLoop
  BY <1>1, <1>u DEF AddFinalizer, SkipSuspended, StartPass, ResolveStage, EnterLoop, DeferRun,
     FailBeforeLoop
<1>2. CASE StageLoop
  <2>1. CASE ApplyStage \/ ApplyFails \/ GateReverts \/ RevertFails \/ RevertLost
    <3>1. Current \in StageNames
      BY <2>1, <1>g, CurrentFacts DEF ApplyStage, ApplyFails, GateReverts, RevertFails, RevertLost, AtStage
    <3> QED
      BY <2>1, <3>1, <1>a DEF ApplyStage, ApplyFails, GateReverts, RevertFails, RevertLost, PartlyApplied
  <2>2. CASE \/ HoldAborted \/ HoldForBudget \/ FailBeforeApply \/ RecordStage \/ RecordFails
             \/ VerifyStage \/ HoldForProgress \/ VerifyFails \/ AbortForDeletion
             \/ GatePromotes \/ GateHolds \/ GateInterrupted
    BY <2>2, <1>u DEF HoldAborted, HoldForBudget, FailBeforeApply, RecordStage, RecordFails,
       VerifyStage, HoldForProgress, VerifyFails, AbortForDeletion, GatePromotes, GateHolds,
       GateInterrupted
  <2> QED BY <1>2, <2>1, <2>2 DEF StageLoop
<1>3. CASE AfterLoop
  <2>1. CASE RollbackStage \/ RollbackUnavailable \/ RollbackDefers
    BY <2>1, RestoredFacts, <1>a, <1>u DEF RollbackStage, RollbackUnavailable, RollbackDefers,
       PartlyApplied
  <2>2. CASE PruneStage
    BY <2>2, <1>p, PruneDomains DEF PruneStage, PruneInv
  <2>3. CASE TearDownRemoved
    BY <2>3, <1>p, PruneDomains DEF TearDownRemoved, PruneInv, NextRemoved, LastStages
  <2>4. CASE PruneFails
    BY <2>4, <1>p, <1>u, PruneDomains DEF PruneFails, PartlyDeleted, PruneInv, NextRemoved, LastStages
  <2>5. CASE \/ RollbackDone \/ StallOnDuplicates \/ StartPrune \/ StartRemoved \/ DropShards
             \/ FinishPrune \/ CommitPass
    BY <2>5, <1>u DEF RollbackDone, StallOnDuplicates, StartPrune, StartRemoved, DropShards,
       FinishPrune, CommitPass
  <2> QED BY <1>3, <2>1, <2>2, <2>3, <2>4, <2>5 DEF AfterLoop
<1>4. CASE Teardown
  <2>1. CASE TearDownStage
    BY <2>1, <1>d, <1>u DEF TearDownStage
  <2>2. CASE TeardownFails \/ TeardownForced
    BY <2>2, <1>d, <1>u DEF TeardownFails, TeardownForced, TeardownInterrupted, PartlyDeleted
  <2>3. CASE StartTeardown \/ FinishTeardown
    BY <2>3, <1>u DEF StartTeardown, FinishTeardown
  <2> QED BY <1>4, <2>1, <2>2, <2>3 DEF Teardown
<1>5. CASE Environment
  <2>1. CASE AdoptObject
    BY <2>1, <1>t, KeepsLive, NamesAssumption DEF AdoptObject
  <2>2. CASE \/ EditSpec \/ UpdateSource \/ ToggleSuspend \/ RequestDelete \/ TimerFires
             \/ TeardownWaitElapses \/ Crash \/ LoseInventory
    BY <2>2, <1>u DEF EditSpec, UpdateSource, ToggleSuspend, RequestDelete, TimerFires,
       TeardownWaitElapses, Crash, LoseInventory
  <2>3. CASE CrashMidApply
    BY <2>3, <1>a, DyingApply
  <2> QED BY <1>5, <2>1, <2>2, <2>3 DEF Environment
<1>6. CASE UNCHANGED vars
  BY <1>6, <1>u DEF vars
<1> QED BY <1>1, <1>2, <1>3, <1>4, <1>5, <1>6 DEF Next, Reconcile

-----------------------------------------------------------------------------
(* What a pass delivers stays live. *)

\* DeliveredStayLive, strengthened by what delivered is at each point of the
\* pass, and by the stage that was applied and is not recorded yet.
DeliveredInv ==
    /\ DeliveredStayLive
    /\ pc \in {"idle", "resolve", "teardown"} => delivered = {}
    /\ pc \in {"stage", "record"} => delivered = {run[i] : i \in 1 .. (idx - 1)}
    /\ pc \in {"verify", "gate"} => delivered = {run[i] : i \in 1 .. idx}
    /\ pc = "rollback" => delivered \subseteq RunStages
    /\ pc = "record" => \A o \in Render[Current][pinned[Current]] : live[o] # Absent

\* What a delivered stage rendered are objects.
LEMMA DeliveredObjects ==
    ASSUME IInv, DeliveredInv, NEW s \in delivered
    PROVE  Render[s][pinned[s]] \subseteq Objects
<1>1. pc \in {"stage", "record", "verify", "gate", "rollback"} \cup Pruning
  BY DEF DeliveredInv, IInv, TypeOK, PassType, PassSteps, Pruning
<1>2. run \in Specs /\ \A i \in 1 .. Len(run) : pinned[run[i]] \in Revisions
  BY <1>1 DEF IInv, LoopInv, Pruning
<1>3. \E i \in 1 .. Len(run) : run[i] = s
  <2>1. Len(run) \in Nat /\ idx \in Nat
    BY <1>2, SpecFacts DEF IInv, TypeOK, PassType
  <2>2. CASE pc \in {"stage", "record", "verify", "gate"}
    BY <2>1, <2>2 DEF DeliveredInv, IInv, LoopInv
  <2>3. CASE pc \in {"rollback"} \cup Pruning
    BY <2>3 DEF DeliveredInv, DeliveredStayLive, RunStages
  <2> QED BY <1>1, <2>2, <2>3
<1> QED BY <1>2, <1>3, SpecFacts, RenderAssumption

\* No step deletes an object that a delivered stage rendered.
LEMMA DeliveredKept ==
    ASSUME IInv, PruneInv, DeliveredInv, [Next]_vars,
           NEW s \in delivered, NEW o \in Render[s][pinned[s]]
    PROVE  live'[o] # Absent
<1>1. o \in Objects /\ live[o] # Absent
  BY DeliveredObjects DEF DeliveredInv, DeliveredStayLive
<1>2. o \in Claimed(Desired)
  BY DEF Claimed, Desired
<1>3. pc # "teardown"
  BY DEF DeliveredInv
<1> QED BY <1>1, <1>2, <1>3, DeletionStep DEF DeletionRule, Deletes

\* DeliveredInv is preserved by every step.
LEMMA DeliveredStep ==
    ASSUME IInv, IInv', PruneInv, DeliveredInv, [Next]_vars
    PROVE  DeliveredInv'
<1> USE DEF clusterVars, objectVars, statusVars, queueVars, passVars, boundVars
<1>k. ASSUME UNCHANGED pinned, delivered' \subseteq delivered
      PROVE  \A s \in delivered' : \A o \in Render[s][pinned'[s]] : live'[o] # Absent
  BY <1>k, DeliveredKept
<1>1. CASE PassEnds
  BY <1>1 DEF PassEnds, DeliveredInv, DeliveredStayLive, Pruning
<1>2. CASE PassWaits
  <2>1. pc = "record" => \A o \in Render[Current][pinned[Current]] : live'[o] # Absent
    <3>1. pc = "record" => Render[Current][pinned[Current]] \subseteq Objects
      BY CurrentFacts DEF IInv, LoopInv
    <3> QED BY <1>2, <3>1, NamesAssumption DEF PassWaits, DeliveredInv
  <2> QED
    BY <1>2, <2>1, <1>k DEF PassWaits, DeliveredInv, DeliveredStayLive, RunStages, Current
<1>3. CASE PassFails
  <2>1. delivered \subseteq RunStages
    <3>1. run \in Specs /\ Len(run) \in Nat /\ idx \in 1 .. (Len(run) + 1)
          /\ (pc \in {"verify", "gate"} => idx <= Len(run))
      BY <1>3, SpecFacts DEF PassFails, IInv, LoopInv
    <3> QED BY <1>3, <3>1 DEF PassFails, DeliveredInv, RunStages
  <2> QED
    BY <1>3, <2>1, <1>k DEF PassFails, DeliveredInv, DeliveredStayLive, RunStages, Pruning
<1>4. CASE StartPass \/ ResolveStage \/ StartTeardown \/ TearDownStage
  BY <1>4 DEF StartPass, MayRun, ResolveStage, StartTeardown, TearDownStage, DeliveredInv,
     DeliveredStayLive, Pruning
<1>5. CASE EnterLoop
  BY <1>5 DEF EnterLoop, DeliveredInv, DeliveredStayLive, Pruning
<1>6. CASE ApplyStage
  <2>1. /\ pc = "stage" /\ pc' = "record" /\ UNCHANGED <<run, idx, pinned, delivered>>
        /\ live' = Applied(Current, Render[Current][pinned[Current]])
    BY <1>6 DEF ApplyStage, AtStage
  <2>2. \A o \in Render[Current][pinned[Current]] : live'[o] # Absent
    BY <1>6, <2>1, CurrentFacts, AppliedType, NamesAssumption
       DEF ApplyStage, AtStage, IInv, TypeOK, ClusterType
  <2> QED
    BY <2>1, <2>2, <1>k DEF DeliveredInv, DeliveredStayLive, Pruning, Current
<1>7. CASE RecordStage
  <2>1. /\ pc = "record" /\ pc' = "verify" /\ UNCHANGED <<live, run, idx, pinned>>
        /\ delivered' = delivered \cup {Current}
    BY <1>7 DEF RecordStage
  <2>2. idx \in Nat /\ idx >= 1
    BY <2>1 DEF IInv, LoopInv
  <2>3. delivered' = {run[i] : i \in 1 .. idx}
    BY <2>1, <2>2 DEF DeliveredInv, Current
  <2> QED
    BY <2>1, <2>3 DEF DeliveredInv, DeliveredStayLive, Pruning
<1>8. CASE VerifyStage
  BY <1>8, <1>k DEF VerifyStage, DeliveredInv, DeliveredStayLive, Pruning
<1>9. CASE GatePromotes
  <2>1. /\ pc = "gate" /\ pc' = "stage" /\ UNCHANGED <<run, pinned, delivered>> /\ idx' = idx + 1
        /\ idx \in Nat
    BY <1>9 DEF GatePromotes, IInv, TypeOK, PassType
  <2>2. idx' - 1 = idx
    BY <2>1
  <2> QED
    BY <2>1, <2>2, <1>k DEF DeliveredInv, DeliveredStayLive, Pruning
<1>10. CASE RollbackStage
  BY <1>10, <1>k DEF RollbackStage, DeliveredInv, DeliveredStayLive, Pruning, RunStages
<1>11. CASE StartPrune
  <2>1. /\ pc = "stage" /\ idx > Len(run) /\ pc' \in {"prune", "commit"}
        /\ UNCHANGED <<run, pinned, delivered>>
    BY <1>11 DEF StartPrune, LoopDone
  <2>2. Len(run) \in Nat /\ idx = Len(run) + 1
    BY <2>1, SpecFacts DEF IInv, LoopInv
  <2>3. delivered = RunStages
    BY <2>1, <2>2 DEF DeliveredInv, RunStages
  <2> QED
    BY <2>1, <2>3, <1>k DEF DeliveredInv, DeliveredStayLive, Pruning, RunStages
<1>12. CASE PruneStage \/ StartRemoved \/ TearDownRemoved \/ DropShards \/ FinishPrune
  BY <1>12, <1>k DEF PruneStage, StartRemoved, TearDownRemoved, DropShards, FinishPrune,
     DeliveredInv, DeliveredStayLive, Pruning, RunStages
<1> QED
  BY <1>1, <1>2, <1>3, <1>4, <1>5, <1>6, <1>7, <1>8, <1>9, <1>10, <1>11, <1>12, StepShape DEF PassMoves

-----------------------------------------------------------------------------
(* Teardown. *)

\* An empty record names nothing.
RecordsInv == \A s \in StageNames : shards[s].pos = 0 => shards[s].refs = {}

\* A teardown works on the records it read, and is through with every stage it
\* has taken off its list.
TeardownInv ==
    pc = "teardown" =>
        /\ deleting
        /\ previous = shards
        /\ \A s \in StageNames \ todo : ~Spared(s) => Remaining(s) = {}

\* RecordsInv is preserved by every write and every deletion of shards.
LEMMA RecordsStep ==
    ASSUME IInv, RecordsInv, [Next]_vars
    PROVE  RecordsInv'
<1> USE DEF clusterVars, objectVars, statusVars, queueVars, passVars, boundVars
<1>u. UNCHANGED shards => RecordsInv'
  BY DEF RecordsInv
<1>n. NoRecord.refs = {}
  BY DEF NoRecord
<1>g. pc \in {"record", "verify", "gate"} => idx <= Len(run)
  BY DEF IInv, LoopInv
<1>w. ASSUME run \in Specs, NEW s \in RunStages, NEW refs, WriteRecord(s, refs)
      PROVE  RecordsInv'
  <2>1. Position(s) # 0
    BY <1>w, PositionType
  <2>2. [pos |-> Position(s), refs |-> refs].pos # 0
    BY <2>1
  <2>3. s \in StageNames
    BY <1>w, SpecFacts DEF RunStages
  <2> QED BY <1>w, <2>2, <2>3 DEF WriteRecord, RecordsInv, IInv, TypeOK, ClusterType
<1>1. CASE \/ AddFinalizer \/ SkipSuspended \/ StartPass \/ ResolveStage \/ EnterLoop
           \/ DeferRun \/ FailBeforeLoop
  BY <1>1, <1>u DEF AddFinalizer, SkipSuspended, StartPass, ResolveStage, EnterLoop, DeferRun,
     FailBeforeLoop
<1>2. CASE StageLoop
  <2>1. CASE RecordStage \/ GateReverts \/ RevertLost
    <3>1. run \in Specs /\ Current \in RunStages
      BY <2>1, <1>g, CurrentFacts DEF RecordStage, GateReverts, RevertLost
    <3> QED BY <2>1, <3>1, <1>w DEF RecordStage, GateReverts, RevertLost
  <2>2. CASE \/ HoldAborted \/ HoldForBudget \/ FailBeforeApply \/ ApplyStage \/ ApplyFails
             \/ RecordFails \/ VerifyStage \/ HoldForProgress \/ VerifyFails \/ AbortForDeletion
             \/ GatePromotes \/ GateHolds \/ GateInterrupted \/ RevertFails
    BY <2>2, <1>u DEF HoldAborted, HoldForBudget, FailBeforeApply, ApplyStage, ApplyFails,
       RecordFails, VerifyStage, HoldForProgress, VerifyFails, AbortForDeletion, GatePromotes,
       GateHolds, GateInterrupted, RevertFails
  <2> QED BY <1>2, <2>1, <2>2 DEF StageLoop
<1>3. CASE AfterLoop
  <2>1. CASE RollbackStage
    BY <2>1, RestoredFacts, <1>w DEF RollbackStage
  <2>2. CASE DropShards
    BY <2>2, <1>n DEF DropShards, RecordsInv, IInv, TypeOK, ClusterType
  <2>3. CASE \/ RollbackUnavailable \/ RollbackDefers \/ RollbackDone \/ StallOnDuplicates
             \/ StartPrune \/ PruneStage \/ StartRemoved \/ TearDownRemoved \/ FinishPrune
             \/ PruneFails \/ CommitPass
    BY <2>3, <1>u DEF RollbackUnavailable, RollbackDefers, RollbackDone, StallOnDuplicates,
       StartPrune, PruneStage, StartRemoved, TearDownRemoved, FinishPrune, PruneFails, CommitPass
  <2> QED BY <1>3, <2>1, <2>2, <2>3 DEF AfterLoop
<1>4. CASE Teardown
  <2>1. CASE TeardownForced \/ FinishTeardown
    BY <2>1, <1>n DEF TeardownForced, FinishTeardown, RecordsInv
  <2>2. CASE StartTeardown \/ TearDownStage \/ TeardownFails
    BY <2>2, <1>u DEF StartTeardown, TearDownStage, TeardownFails
  <2> QED BY <1>4, <2>1, <2>2 DEF Teardown
<1>5. CASE Environment
  <2>1. CASE LoseInventory
    BY <2>1, <1>n DEF LoseInventory, RecordsInv, IInv, TypeOK, ClusterType
  <2>2. CASE \/ EditSpec \/ UpdateSource \/ ToggleSuspend \/ RequestDelete \/ TimerFires
             \/ TeardownWaitElapses \/ Crash \/ CrashMidApply \/ AdoptObject
    BY <2>2, <1>u DEF EditSpec, UpdateSource, ToggleSuspend, RequestDelete, TimerFires,
       TeardownWaitElapses, Crash, CrashMidApply, AdoptObject
  <2> QED BY <1>5, <2>1, <2>2 DEF Environment
<1>6. CASE UNCHANGED vars
  BY <1>6, <1>u DEF vars
<1> QED BY <1>1, <1>2, <1>3, <1>4, <1>5, <1>6 DEF Next, Reconcile

\* TeardownInv is preserved by every step: nothing is applied while the
\* StageSet is torn down.
LEMMA TeardownStep ==
    ASSUME IInv, RecordsInv, TeardownInv, [Next]_vars
    PROVE  TeardownInv'
<1> USE DEF clusterVars, objectVars, statusVars, queueVars, passVars, boundVars
<1>o. \A s \in StageNames : previous[s].refs \subseteq Objects
  BY DEF IInv, TypeOK, PassType, Record
<1>1. CASE PassEnds
  BY <1>1 DEF PassEnds, TeardownInv
<1>2. CASE PassWaits
  <2> SUFFICES ASSUME pc = "teardown" PROVE TeardownInv'
    BY <1>2 DEF PassWaits, TeardownInv
  <2>1. \A s \in StageNames : Remaining(s) = {} => Remaining(s)' = {}
    BY <1>2, <1>o DEF PassWaits, Remaining
  <2> QED
    BY <1>2, <2>1 DEF PassWaits, TeardownInv, Spared, RunStages
<1>3. CASE PassFails
  BY <1>3 DEF PassFails, TeardownInv
<1>4. CASE \/ StartPass \/ ResolveStage \/ EnterLoop
           \/ ApplyStage \/ RecordStage \/ VerifyStage \/ GatePromotes \/ RollbackStage
           \/ StartPrune \/ PruneStage \/ StartRemoved \/ TearDownRemoved \/ DropShards \/ FinishPrune
  BY <1>4 DEF StartPass, ResolveStage, EnterLoop, ApplyStage, RecordStage, VerifyStage, GatePromotes,
     RollbackStage, StartPrune, PruneStage, StartRemoved, TearDownRemoved, DropShards, FinishPrune,
     TeardownInv
<1>5. CASE StartTeardown
  <2>1. /\ deleting' /\ previous' = shards /\ UNCHANGED shards
        /\ todo' = {s \in StageNames : shards[s].pos > 0}
    BY <1>5 DEF StartTeardown, StageRecords
  <2>2. \A s \in StageNames \ todo' : shards[s].pos = 0
    BY <2>1 DEF IInv, TypeOK, ClusterType, Record
  <2>3. \A s \in StageNames \ todo' : Remaining(s)' = {}
    BY <2>1, <2>2 DEF RecordsInv, Remaining
  <2> QED BY <2>1, <2>3 DEF TeardownInv
<1>6. CASE TearDownStage
  <2>1. PICK s \in LastStages(todo, previous) :
            /\ live' = IF Spared(s) THEN live ELSE Deleted(previous[s].refs)
            /\ todo' = todo \ {s}
    BY <1>6 DEF TearDownStage
  <2>2. /\ pc = "teardown" /\ UNCHANGED <<shards, previous, deleting, run>>
        /\ s \in StageNames
    BY <1>6, <2>1 DEF TearDownStage, LastStages, IInv, TypeOK, PassType
  <2>3. \A t \in StageNames : Remaining(t) = {} => Remaining(t)' = {}
    BY <2>1, <2>2, <1>o, DeletedType DEF Remaining, IInv, TypeOK, ClusterType
  <2>4. ~Spared(s) => Remaining(s)' = {}
    BY <2>1, <2>2, <1>o, DeletedType DEF Remaining, IInv, TypeOK, ClusterType
  <2>5. \A t \in StageNames : Spared(t)' = Spared(t)
    BY <2>2 DEF Spared, RunStages
  <2> QED
    BY <2>1, <2>2, <2>3, <2>4, <2>5 DEF TeardownInv
<1> QED
  BY <1>1, <1>2, <1>3, <1>4, <1>5, <1>6, StepShape DEF PassMoves

\* A step that releases the finalizer obeys ReleasesWhenGone.
LEMMA ReleaseStep ==
    ASSUME IInv, TeardownInv, [Next]_vars
    PROVE  ReleasesWhenGone
<1> USE DEF clusterVars, objectVars, statusVars, queueVars, passVars, boundVars
<1>k. ASSUME finalizer' = finalizer \/ finalizer' PROVE ReleasesWhenGone
  BY <1>k DEF ReleasesWhenGone
<1>1. CASE \/ AddFinalizer \/ SkipSuspended \/ StartPass \/ ResolveStage \/ EnterLoop
           \/ DeferRun \/ FailBeforeLoop
  BY <1>1, <1>k DEF AddFinalizer, SkipSuspended, StartPass, ResolveStage, EnterLoop, DeferRun,
     FailBeforeLoop
<1>2. CASE StageLoop
  BY <1>2, <1>k DEF StageLoop, HoldAborted, HoldForBudget, FailBeforeApply, ApplyStage, ApplyFails,
     RecordStage, RecordFails, VerifyStage, HoldForProgress, VerifyFails, AbortForDeletion,
     GatePromotes, GateHolds, GateReverts, GateInterrupted, RevertFails, RevertLost
<1>3. CASE AfterLoop
  BY <1>3, <1>k DEF AfterLoop, RollbackStage, RollbackUnavailable, RollbackDefers, RollbackDone,
     StallOnDuplicates, StartPrune, PruneStage, StartRemoved, TearDownRemoved, DropShards,
     FinishPrune, PruneFails, CommitPass
<1>4. CASE StartTeardown \/ TearDownStage \/ TeardownFails
  BY <1>4, <1>k DEF StartTeardown, TearDownStage, TeardownFails
<1>5. CASE TeardownForced
  BY <1>5 DEF TeardownForced, ReleasesWhenGone
<1>6. CASE FinishTeardown
  <2>1. previous = shards /\ \A s \in StageNames : ~Spared(s) => Remaining(s) = {}
    BY <1>6 DEF FinishTeardown, TeardownInv
  <2> QED BY <2>1 DEF ReleasesWhenGone, Remaining
<1>7. CASE Environment
  BY <1>7, <1>k DEF Environment, EditSpec, UpdateSource, ToggleSuspend, RequestDelete, TimerFires,
     TeardownWaitElapses, Crash, CrashMidApply, LoseInventory, AdoptObject
<1>8. CASE UNCHANGED vars
  BY <1>8, <1>k DEF vars
<1> QED BY <1>1, <1>2, <1>3, <1>4, <1>5, <1>6, <1>7, <1>8 DEF Next, Reconcile, Teardown

\* A step of a teardown obeys DeletesInReverse.
LEMMA ReverseStep ==
    ASSUME IInv, PruneInv, TeardownInv, [Next]_vars
    PROVE  DeletesInReverse
<1> SUFFICES ASSUME pc = "teardown", NEW o \in Objects, Deletes(o)
             PROVE  \E s \in StageNames :
                      /\ o \in previous[s].refs
                      /\ \A t \in StageNames :
                          previous[t].pos > previous[s].pos /\ ~Spared(t) => Remaining(t) = {}
  BY DEF DeletesInReverse
<1>1. PICK s \in LastStages(todo, previous) : o \in previous[s].refs
  BY DeletionStep DEF DeletionRule
<1>2. s \in StageNames /\ \A t \in todo : previous[t].pos <= previous[s].pos
  BY DEF LastStages, IInv, TypeOK, PassType
<1>3. \A t \in StageNames : previous[t].pos \in Nat
  BY DEF IInv, TypeOK, PassType, Record
<1>4. \A t \in StageNames : previous[t].pos > previous[s].pos => t \notin todo
  BY <1>2, <1>3
<1> QED BY <1>1, <1>2, <1>4 DEF TeardownInv

-----------------------------------------------------------------------------

\* The inductive invariant.
Inv == IInv /\ PruneInv /\ DeliveredInv /\ RecordsInv /\ TeardownInv

\* Inv is an invariant: the joint account of what a pass has pinned, delivered,
\* planned to delete and torn down holds after every step of Reconcile.
THEOREM Invariance == Spec => []Inv
<1>1. Init => Inv
  <2> SUFFICES ASSUME Init PROVE Inv
    OBVIOUS
  <2>1. IInv
    BY TypeInit
  <2>2. PruneInv /\ TeardownInv
    BY DEF Init, PruneInv, TeardownInv
  <2>3. DeliveredInv
    BY DEF Init, DeliveredInv, DeliveredStayLive, Pruning
  <2>4. RecordsInv
    BY DEF Init, RecordsInv, NoRecord
  <2> QED BY <2>1, <2>2, <2>3, <2>4 DEF Inv
<1>2. Inv /\ [Next]_vars => Inv'
  BY TypeStep, PruneStep, DeliveredStep, RecordsStep, TeardownStep DEF Inv
<1> QED BY <1>1, <1>2, PTL DEF Spec

\* What a pass has delivered stays live until the pass ends: neither the
\* cross-stage prune nor the teardown of removed stages deletes an object that
\* a stage of the run renders (ComputePlan's transfer rule at work in Reconcile).
THEOREM Delivered == Spec => []DeliveredStayLive
<1>1. Inv => DeliveredStayLive
  BY DEF Inv, DeliveredInv
<1> QED BY <1>1, Invariance, PTL

\* Whatever happens around it, the controller deletes only objects that the
\* inventory it read names, that it owns and that did not opt out.
THEOREM DeletionsRecorded == Spec => DeletesOnlyRecorded
<1>1. Inv /\ [Next]_vars => DeletesRecorded
  <2> SUFFICES ASSUME Inv, [Next]_vars PROVE DeletesRecorded
    OBVIOUS
  <2>1. DeletionRule
    BY DeletionStep DEF Inv
  <2>2. LastStages(todo, previous) \subseteq StageNames
    BY DEF LastStages, Inv, IInv, TypeOK, PassType
  <2> QED BY <2>1, <2>2 DEF DeletionRule, DeletesRecorded
<1> QED BY <1>1, Invariance, PTL DEF Spec, DeletesOnlyRecorded

\* reconcileDelete tears down in reverse stage order, also when it is
\* interrupted, retried or restarted any number of times.
THEOREM ReverseTeardown == Spec => TeardownReverse
<1>1. Inv /\ [Next]_vars => DeletesInReverse
  BY ReverseStep DEF Inv
<1> QED BY <1>1, Invariance, PTL DEF Spec, TeardownReverse

\* The finalizer is released only when the recorded objects of every pruning
\* stage are gone, or by the forced drop.
THEOREM FinalizerSafe == Spec => FinalizerGuards
<1>1. Inv /\ [Next]_vars => ReleasesWhenGone
  BY ReleaseStep DEF Inv
<1> QED BY <1>1, Invariance, PTL DEF Spec, FinalizerGuards

-----------------------------------------------------------------------------
(* What a failed pass and a rollback leave behind. *)

\* A prune is not interrupted, by a delete that fails or by a crash.  Either would
\* leave a prune of the snapshot's objects half done, and the snapshot in the status.
PruneGoesOn == pc \in Pruning => ~PruneFails /\ ~Crash

\* No StageInventory disappears while a rollback restores it.
RecordsStay == pc = "rollback" => ~LoseInventory

\* A deletion request is never taken back, only a commit writes the snapshot,
\* and a prune that is not interrupted goes on to the commit.
LEMMA SnapshotStep ==
    ASSUME IInv, [Next]_vars
    PROVE  /\ deleting => deleting'
           /\ CommitPass \/ UNCHANGED snapshot
           /\ pc \in Pruning => pc' \in Pruning \/ CommitPass \/ PruneFails \/ Crash
           /\ pc = "rollback" => pc' = "idle" \/ RollbackStage \/ (UNCHANGED <<pc, passVars>>)
           /\ pc' = "rollback" => pc = "rollback" \/ todo' = Restorable'
<1> USE DEF clusterVars, objectVars, statusVars, queueVars, passVars, boundVars
<1>g. pc \in {"record", "verify", "gate"} => idx <= Len(run)
  BY DEF IInv, LoopInv
<1>h. \A s, st, reason : HoldPass(s, st, reason) => pc' = "idle" /\ UNCHANGED snapshot
  BY DEF HoldPass, EndPass
<1>1. CASE \/ AddFinalizer \/ SkipSuspended \/ StartPass \/ ResolveStage \/ EnterLoop
           \/ DeferRun \/ FailBeforeLoop
  BY <1>1 DEF AddFinalizer, SkipSuspended, StartPass, MayRun, ResolveStage, EnterLoop, DeferRun,
     FailBeforeLoop, EndPass, Pruning
<1>2. CASE StageLoop
  <2>1. CASE FailBeforeApply \/ ApplyFails \/ RecordFails \/ VerifyFails
    <3>1. /\ pc \in {"stage", "record", "verify", "gate"} /\ idx <= Len(run) /\ FailStage(Current)
          /\ UNCHANGED deleting
      BY <2>1, <1>g DEF FailBeforeApply, ApplyFails, RecordFails, VerifyFails, AtStage
    <3>2. /\ UNCHANGED snapshot
          /\ pc' = "rollback" => todo' = Restorable /\ UNCHANGED run
      BY <3>1, FailStageType
    <3> QED BY <3>1, <3>2 DEF Pruning, Restorable, RunStages
  <2>2. CASE HoldAborted \/ HoldForBudget \/ HoldForProgress \/ GateHolds \/ GateReverts
    <3>1. /\ pc \in {"stage", "verify", "gate"} /\ pc' = "idle"
          /\ UNCHANGED <<snapshot, deleting>>
      BY <2>2, <1>h DEF HoldAborted, HoldForBudget, HoldForProgress, GateHolds, GateReverts, AtStage
    <3> QED BY <3>1 DEF Pruning
  <2>3. CASE \/ AbortForDeletion \/ GateInterrupted \/ RevertFails \/ RevertLost
             \/ ApplyStage \/ RecordStage \/ VerifyStage \/ GatePromotes
    BY <2>3 DEF AbortForDeletion, GateInterrupted, RevertFails, RevertLost, ApplyStage, AtStage, RecordStage,
       VerifyStage, GatePromotes, EndPass, Pruning
  <2> QED BY <1>2, <2>1, <2>2, <2>3 DEF StageLoop
<1>3. CASE AfterLoop
  <2>1. CASE RollbackStage \/ RollbackUnavailable \/ RollbackDefers \/ RollbackDone
    BY <2>1 DEF RollbackStage, RollbackUnavailable, RollbackDefers, RollbackDone, EndPass, Pruning
  <2>2. CASE \/ StallOnDuplicates \/ StartPrune \/ PruneStage \/ StartRemoved \/ TearDownRemoved
             \/ DropShards \/ FinishPrune
    BY <2>2 DEF StallOnDuplicates, StartPrune, LoopDone, PruneStage, StartRemoved, TearDownRemoved,
       DropShards, FinishPrune, EndPass, Pruning
  <2>3. CASE PruneFails \/ CommitPass
    BY <2>3 DEF PruneFails, CommitPass, EndPass, Pruning
  <2> QED BY <1>3, <2>1, <2>2, <2>3 DEF AfterLoop
<1>4. CASE Teardown
  BY <1>4 DEF Teardown, StartTeardown, TearDownStage, TeardownFails, TeardownInterrupted,
     TeardownForced, FinishTeardown, EndPass, Pruning
<1>5. CASE Environment
  <2>1. CASE CrashMidApply
    BY <2>1, DyingApply DEF CrashMidApply, Pruning
  <2>2. CASE \/ EditSpec \/ UpdateSource \/ ToggleSuspend \/ RequestDelete \/ TimerFires
             \/ TeardownWaitElapses \/ LoseInventory \/ AdoptObject
    BY <2>2 DEF EditSpec, UpdateSource, ToggleSuspend, RequestDelete, TimerFires,
       TeardownWaitElapses, LoseInventory, AdoptObject
  <2>3. CASE Crash
    BY <2>3 DEF Crash
  <2> QED
    BY <1>5, <2>1, <2>2, <2>3 DEF Environment
<1>6. CASE UNCHANGED vars
  BY <1>6 DEF vars
<1> QED BY <1>1, <1>2, <1>3, <1>4, <1>5, <1>6 DEF Next, Reconcile

\* Without rollbackOnFailure nothing is ever snapshotted; with it, the snapshot
\* is live outside the prune.
GoodInv ==
    /\ ~RollbackOnFailure => \A s \in StageNames : snapshot[s].rev = NoRev
    /\ LastGoodStaysLive

\* GoodInv is preserved: a commit snapshots what the pass delivered, every other
\* step outside the prune and the teardown only adds or relabels objects.
LEMMA GoodStep ==
    ASSUME PruneGoesOn, Inv, GoodInv, [Next]_vars
    PROVE  GoodInv'
<1> USE DEF statusVars, passVars, objectVars
<1>i. IInv /\ PruneInv /\ DeliveredInv /\ TeardownInv
  BY DEF Inv
<1>d. DeletionRule
  BY <1>i, DeletionStep
<1>1. CASE CommitPass
  <2>1. /\ pc = "commit" /\ pc' = "idle" /\ UNCHANGED live
        /\ snapshot' = IF RollbackOnFailure
                       THEN [s \in StageNames |->
                                IF s \in RunStages THEN [rev |-> pinned[s], pos |-> Position(s)]
                                ELSE NoRef]
                       ELSE snapshot
    BY <1>1 DEF CommitPass, EndPass, clusterVars
  <2>2. \A s \in RunStages : \A o \in Render[s][pinned[s]] : live[o] # Absent
    BY <1>i, <2>1 DEF DeliveredInv, DeliveredStayLive, Pruning
  <2>3. CASE RollbackOnFailure
    <3>1. \A s \in StageNames : snapshot'[s].rev # NoRev =>
            s \in RunStages /\ snapshot'[s].rev = pinned[s]
      BY <2>1, <2>3 DEF NoRef
    <3> QED BY <2>1, <2>2, <2>3, <3>1 DEF GoodInv, LastGoodStaysLive
  <2>4. CASE ~RollbackOnFailure
    BY <2>1, <2>4 DEF GoodInv, LastGoodStaysLive
  <2> QED BY <2>3, <2>4
<1>2. CASE ~CommitPass
  <2>1. UNCHANGED snapshot /\ (deleting => deleting')
    BY <1>2, <1>i, SnapshotStep
  <2>2. pc \in Pruning => pc' \in Pruning
    BY <1>2, <1>i, SnapshotStep DEF PruneGoesOn
  <2>3. CASE pc' \in Pruning \/ deleting'
    BY <2>1, <2>3 DEF GoodInv, LastGoodStaysLive
  <2>4. CASE pc' \notin Pruning /\ ~deleting'
    <3>1. pc \notin Pruning /\ ~deleting /\ pc # "teardown"
      BY <1>i, <2>1, <2>2, <2>4 DEF TeardownInv
    <3>2. \A o \in Objects : live[o] # Absent => live'[o] # Absent
      BY <1>d, <3>1 DEF DeletionRule, Deletes, Pruning
    <3>3. \A s \in StageNames : snapshot[s].rev # NoRev => Render[s][snapshot[s].rev] \subseteq Objects
      BY <1>i, RenderAssumption DEF IInv, TypeOK, StatusType, SnapshotRef
    <3> QED BY <2>1, <3>1, <3>2, <3>3 DEF GoodInv, LastGoodStaysLive
  <2> QED BY <2>3, <2>4
<1> QED BY <1>1, <1>2

\* GoodInv does not depend on anything outside vars.
LEMMA GoodStutter == GoodInv /\ UNCHANGED vars => GoodInv'
  BY DEF vars, clusterVars, objectVars, statusVars, queueVars, GoodInv, LastGoodStaysLive, Pruning

\* While no prune is interrupted, the last-good revision of every stage stays in
\* the cluster through every failure, hold, rollback and edit (rollback.go has
\* something to return to).
THEOREM LastGoodKept == Spec /\ [][PruneGoesOn]_vars => []LastGoodStaysLive
<1>1. Init => GoodInv
  BY DEF Init, GoodInv, LastGoodStaysLive, NoRef
<1>2. Inv /\ GoodInv /\ [Next]_vars /\ [PruneGoesOn]_vars => GoodInv'
  BY GoodStep, GoodStutter
<1>3. GoodInv => LastGoodStaysLive
  BY DEF GoodInv
<1> QED BY <1>1, <1>2, <1>3, Invariance, PTL DEF Spec

\* RollbackRestores is inductive with Inv.
LEMMA RestoreStep ==
    ASSUME RecordsStay, Inv, RollbackRestores, [Next]_vars
    PROVE  RollbackRestores'
<1> USE DEF clusterVars, objectVars, statusVars, queueVars, passVars, boundVars
<1>i. IInv /\ PruneInv
  BY DEF Inv
<1> SUFFICES ASSUME pc' = "rollback" PROVE RollbackRestores'
  BY DEF RollbackRestores
<1>1. CASE pc # "rollback"
  BY <1>1, <1>i, SnapshotStep DEF RollbackRestores
<1>2. CASE pc = "rollback" /\ ~RollbackStage
  <2>1. UNCHANGED <<pc, passVars>>
    BY <1>2, <1>i, SnapshotStep
  <2>2. UNCHANGED snapshot
    BY <1>2, <1>i, SnapshotStep DEF CommitPass
  <2>3. UNCHANGED shards
    <3>1. Environment \/ UNCHANGED vars
      BY <1>2, <2>1 DEF Next, Reconcile, AddFinalizer, SkipSuspended, StartPass, MayRun, ResolveStage,
         EnterLoop, DeferRun, FailBeforeLoop, StageLoop, HoldAborted, HoldForBudget, FailBeforeApply,
         ApplyStage, ApplyFails, AtStage, RecordStage, RecordFails, VerifyStage, HoldForProgress,
         VerifyFails, AbortForDeletion, GatePromotes, GateHolds, GateReverts, GateInterrupted,
         RevertFails, RevertLost, AfterLoop, RollbackUnavailable, RollbackDefers, RollbackDone, EndPass,
         StallOnDuplicates, StartPrune, LoopDone, PruneStage, StartRemoved, TearDownRemoved,
         DropShards, FinishPrune, PruneFails, CommitPass, Teardown, StartTeardown, TearDownStage,
         TeardownFails, TeardownForced, TeardownInterrupted, FinishTeardown
    <3> QED
      BY <1>2, <3>1 DEF RecordsStay, vars, Environment, EditSpec, UpdateSource, ToggleSuspend,
         RequestDelete, TimerFires, TeardownWaitElapses, Crash, CrashMidApply, AdoptObject
  <2>4. \A o \in Objects : live[o] # Absent => live'[o] # Absent
    BY <1>2, <1>i, DeletionStep DEF DeletionRule, Deletes
  <2>5. Restorable' = Restorable /\ Restorable \subseteq StageNames
    BY <1>2, <1>i, <2>1, <2>2, SpecFacts DEF Restorable, RunStages, IInv, LoopInv
  <2>6. \A s \in StageNames : shards[s].refs \subseteq Objects
    BY <1>i DEF IInv, TypeOK, ClusterType, Record
  <2> QED BY <1>2, <2>1, <2>2, <2>3, <2>4, <2>5, <2>6 DEF RollbackRestores
<1>3. CASE pc = "rollback" /\ RollbackStage
  <2>1. PICK s \in FirstOfSnapshot :
            /\ live' = Applied(s, Render[s][snapshot[s].rev])
            /\ WriteRecord(s, Render[s][snapshot[s].rev])
            /\ todo' = todo \ {s}
    BY <1>3 DEF RollbackStage
  <2>2. UNCHANGED <<snapshot, run>>
    BY <1>3 DEF RollbackStage
  <2>3. Restorable' = Restorable /\ Restorable \subseteq StageNames /\ s \in Restorable
    BY <1>3, <1>i, <2>1, <2>2, SpecFacts DEF Restorable, RunStages, IInv, LoopInv, FirstOfSnapshot
  <2>4. shards \in [StageNames -> Record] /\ live \in [Objects -> StageNames \cup {Absent, Foreign}]
    BY <1>i DEF IInv, TypeOK, ClusterType
  <2>5. shards' = [shards EXCEPT ![s] = [pos |-> Position(s), refs |-> Render[s][snapshot[s].rev]]]
    BY <2>1 DEF WriteRecord
  <2>6. shards'[s].refs = Render[s][snapshot[s].rev]
    BY <2>3, <2>4, <2>5
  <2>7. \A t \in StageNames \ {s} : shards'[t] = shards[t]
    BY <2>3, <2>4, <2>5
  <2>8. Render[s][snapshot[s].rev] \subseteq Objects
    BY <1>i, <2>3, RenderAssumption DEF Restorable, IInv, TypeOK, StatusType, SnapshotRef
  <2>9. /\ \A o \in Objects : live[o] # Absent => live'[o] # Absent
        /\ \A o \in Render[s][snapshot[s].rev] : live'[o] # Absent
    BY <2>1, <2>3, <2>4, <2>8, AppliedType, NamesAssumption
  <2>10. \A t \in StageNames : shards[t].refs \subseteq Objects
    BY <2>4 DEF Record
  <2>11. ASSUME NEW t \in Restorable' \ todo'
         PROVE  /\ shards'[t].refs = Render[t][snapshot'[t].rev]
                /\ \A o \in shards'[t].refs : live'[o] # Absent
    <3>1. CASE t = s
      BY <3>1, <2>2, <2>6, <2>9
    <3>2. CASE t # s
      <4>1. t \in Restorable \ todo /\ t \in StageNames \ {s}
        BY <3>2, <2>1, <2>3, <2>11
      <4>2. shards'[t] = shards[t]
        BY <4>1, <2>7
      <4>3. /\ shards[t].refs = Render[t][snapshot[t].rev]
            /\ \A o \in shards[t].refs : live[o] # Absent
        BY <1>3, <4>1 DEF RollbackRestores
      <4> QED BY <4>1, <4>2, <4>3, <2>2, <2>9, <2>10
    <3> QED BY <3>1, <3>2
  <2> QED BY <2>11 DEF RollbackRestores
<1> QED BY <1>1, <1>2, <1>3

\* RollbackRestores does not depend on anything outside vars.
LEMMA RestoreStutter == RollbackRestores /\ UNCHANGED vars => RollbackRestores'
  BY DEF vars, clusterVars, objectVars, statusVars, queueVars, passVars, RollbackRestores, Restorable,
     RunStages

\* While no StageInventory disappears, a rollback that is under way has restored
\* every stage it is through with, in the cluster and in the inventory alike
\* (rollbackStageObjects records what it re-applies).
THEOREM RestoresBoth == Spec /\ [][RecordsStay]_vars => []RollbackRestores
<1>1. Init => RollbackRestores
  BY DEF Init, RollbackRestores
<1>2. Inv /\ RollbackRestores /\ [Next]_vars /\ [RecordsStay]_vars => RollbackRestores'
  BY RestoreStep, RestoreStutter
<1> QED BY <1>1, <1>2, Invariance, PTL DEF Spec

-----------------------------------------------------------------------------
(* A StageSet comes back. *)

\* No two stages of a spec ever render the same object.
DisjointRenders ==
    \A sp \in Specs : \A i, j \in 1 .. Len(sp) :
        i # j => \A q, r \in Revisions : Render[sp[i]][q] \cap Render[sp[j]][r] = {}

\* No failure is terminal: none of a stage, of a teardown or of a rollback.
NothingTerminal == {"terminal", "unavailable"} \cap Faults = {}

\* Under DisjointRenders no object is delivered by two stages of a pass.
LEMMA DisjointDelivered ==
    ASSUME DisjointRenders, IInv, NEW s \in RunStages, NEW t \in RunStages, s # t,
           pc \in {"stage", "record", "verify", "gate"} \cup Pruning
    PROVE  Render[s][pinned[s]] \cap Render[t][pinned[t]] = {}
<1>1. run \in Specs /\ \A i \in 1 .. Len(run) : pinned[run[i]] \in Revisions
  BY DEF IInv, LoopInv, Pruning
<1>2. PICK i \in 1 .. Len(run) : run[i] = s
  BY DEF RunStages
<1>3. PICK j \in 1 .. Len(run) : run[j] = t
  BY DEF RunStages
<1>4. i # j
  BY <1>2, <1>3
<1> QED BY <1>1, <1>2, <1>3, <1>4 DEF DisjointRenders

\* Under DisjointRenders a pass that is through the loop finds no duplicates.
LEMMA NoDuplicates ==
    ASSUME DisjointRenders, Inv, LoopDone
    PROVE  DuplicateClaims(Desired) = {}
<1>1. IInv /\ DeliveredInv /\ pc = "stage" /\ idx > Len(run)
  BY DEF Inv, LoopDone
<1>2. delivered \subseteq RunStages
  <2>1. Len(run) \in Nat /\ idx = Len(run) + 1
    BY <1>1, SpecFacts DEF IInv, LoopInv
  <2> QED BY <1>1, <2>1 DEF DeliveredInv, RunStages
<1>3. \A s, t \in delivered : s # t => Render[s][pinned[s]] \cap Render[t][pinned[t]] = {}
  BY <1>1, <1>2, DisjointDelivered
<1>4. DOMAIN Desired = delivered /\ \A s \in delivered : Desired[s] = Render[s][pinned[s]]
  BY DEF Desired
<1> QED BY <1>3, <1>4 DEF DuplicateClaims

\* RetryPending, and that no failure was terminal.
RetryInv == RetryPending /\ ~terminal

\* RetryInv is preserved: each way out of a pass leaves a timer, unless the pass
\* was suspended or the StageSet is gone.
LEMMA RetryStep ==
    ASSUME NothingTerminal, DisjointRenders, Inv, RetryInv, [Next]_vars
    PROVE  RetryInv'
<1> USE DEF clusterVars, objectVars, statusVars, queueVars, passVars, boundVars
<1>i. IInv /\ TeardownInv
  BY DEF Inv
<1>n. "terminal" \notin Faults /\ "unavailable" \notin Faults
  BY DEF NothingTerminal
<1>e. EndPass(TRUE) => RetryInv'
  BY DEF EndPass, ResetPass, RetryInv, RetryPending
<1>f. ASSUME FailStage(Current) PROVE RetryInv'
  <2>1. PICK term \in BOOLEAN :
          /\ term => "terminal" \in Faults
          /\ IF RollbackOnFailure /\ Restorable # {}
             THEN /\ pc' = "rollback"
                  /\ todo' = Restorable
                  /\ terminal' = term
                  /\ UNCHANGED <<timer, run, idx, pinned, previous, delivered, built, rebuilt>>
             ELSE EndPass(~term)
    BY <1>f DEF FailStage
  <2>2. term = FALSE
    BY <2>1, <1>n
  <2>3. CASE RollbackOnFailure /\ Restorable # {}
    BY <2>1, <2>2, <2>3 DEF RetryInv, RetryPending
  <2>4. CASE ~(RollbackOnFailure /\ Restorable # {})
    BY <2>1, <2>2, <2>4, <1>e
  <2> QED BY <2>3, <2>4
<1>h. \A s, st, reason : HoldPass(s, st, reason) => RetryInv'
  BY <1>e DEF HoldPass
<1>q. (queued' \/ timer') /\ UNCHANGED terminal => RetryInv'
  BY DEF RetryInv, RetryPending
<1>p. pc' # "idle" /\ UNCHANGED terminal => RetryInv'
  BY DEF RetryInv, RetryPending
<1>s. UNCHANGED <<pc, queued, timer, suspended, deleting, finalizer, terminal>> => RetryInv'
  BY DEF RetryInv, RetryPending, Gone
<1>1. CASE \/ AddFinalizer \/ SkipSuspended \/ StartPass \/ ResolveStage \/ EnterLoop
           \/ DeferRun \/ FailBeforeLoop
  <2>1. CASE AddFinalizer
    BY <2>1, <1>q DEF AddFinalizer
  <2>2. CASE SkipSuspended
    BY <2>2 DEF SkipSuspended, RetryInv, RetryPending
  <2>3. CASE StartPass \/ ResolveStage \/ EnterLoop
    BY <2>3, <1>p DEF StartPass, ResolveStage, EnterLoop
  <2>4. CASE DeferRun \/ FailBeforeLoop
    BY <2>4, <1>e DEF DeferRun, FailBeforeLoop
  <2> QED BY <1>1, <2>1, <2>2, <2>3, <2>4
<1>2. CASE StageLoop
  <2>1. CASE FailBeforeApply \/ ApplyFails \/ RecordFails \/ VerifyFails
    BY <2>1, <1>f DEF FailBeforeApply, ApplyFails, RecordFails, VerifyFails
  <2>2. CASE HoldAborted \/ HoldForBudget \/ HoldForProgress \/ GateHolds \/ GateReverts
    BY <2>2, <1>h DEF HoldAborted, HoldForBudget, HoldForProgress, GateHolds, GateReverts
  <2>3. CASE AbortForDeletion \/ GateInterrupted \/ RevertFails \/ RevertLost
    BY <2>3, <1>e DEF AbortForDeletion, GateInterrupted, RevertFails, RevertLost
  <2>4. CASE ApplyStage \/ RecordStage \/ VerifyStage \/ GatePromotes
    BY <2>4, <1>p DEF ApplyStage, RecordStage, VerifyStage, GatePromotes
  <2> QED BY <1>2, <2>1, <2>2, <2>3, <2>4 DEF StageLoop
<1>3. CASE AfterLoop
  <2>1. CASE RollbackStage
    BY <2>1, <1>p DEF RollbackStage
  <2>2. CASE RollbackUnavailable
    BY <2>2, <1>n DEF RollbackUnavailable, Disturb
  <2>3. CASE RollbackDone
    BY <2>3, <1>e DEF RollbackDone, RetryInv
  <2>4. CASE StallOnDuplicates
    BY <2>4, NoDuplicates DEF StallOnDuplicates
  <2>5. CASE RollbackDefers \/ PruneFails \/ CommitPass
    BY <2>5, <1>e DEF RollbackDefers, PruneFails, CommitPass
  <2>6. CASE StartPrune \/ PruneStage \/ StartRemoved \/ TearDownRemoved \/ DropShards \/ FinishPrune
    BY <2>6, <1>p DEF StartPrune, PruneStage, StartRemoved, TearDownRemoved, DropShards, FinishPrune
  <2> QED BY <1>3, <2>1, <2>2, <2>3, <2>4, <2>5, <2>6 DEF AfterLoop
<1>4. CASE Teardown
  <2>1. CASE StartTeardown \/ TearDownStage
    BY <2>1, <1>p DEF StartTeardown, TearDownStage
  <2>2. CASE TeardownFails
    BY <2>2, <1>e DEF TeardownFails
  <2>3. CASE TeardownForced \/ FinishTeardown
    <3>1. pc = "teardown" /\ ~finalizer' /\ UNCHANGED deleting /\ EndPass(FALSE)
      BY <2>3 DEF TeardownForced, TeardownInterrupted, FinishTeardown
    <3>2. deleting
      BY <3>1, <1>i DEF TeardownInv
    <3> QED BY <3>1, <3>2 DEF EndPass, ResetPass, RetryInv, RetryPending, Gone
  <2> QED BY <1>4, <2>1, <2>2, <2>3 DEF Teardown
<1>5. CASE Environment
  <2>1. CASE \/ EditSpec \/ UpdateSource \/ ToggleSuspend \/ RequestDelete \/ TimerFires
             \/ LoseInventory
    BY <2>1, <1>q DEF EditSpec, UpdateSource, ToggleSuspend, RequestDelete, TimerFires, LoseInventory
  <2>2. CASE TeardownWaitElapses \/ AdoptObject
    BY <2>2, <1>s DEF TeardownWaitElapses, AdoptObject
  <2>3. CASE Crash \/ CrashMidApply
    BY <2>3 DEF Crash, CrashMidApply, ResetPass, RetryInv, RetryPending
  <2> QED BY <1>5, <2>1, <2>2, <2>3 DEF Environment
<1>6. CASE UNCHANGED vars
  BY <1>6, <1>s DEF vars
<1> QED BY <1>1, <1>2, <1>3, <1>4, <1>5, <1>6 DEF Next, Reconcile

\* Where no failure is terminal and no two stages of a spec render one object,
\* every way out of Reconcile leaves a re-queue pending, whatever failed, held,
\* crashed or was edited, until the StageSet is suspended or gone.
THEOREM ComesBack ==
    NothingTerminal /\ DisjointRenders => (Spec => []RetryPending)
<1> SUFFICES ASSUME NothingTerminal, DisjointRenders PROVE Spec => []RetryPending
  OBVIOUS
<1>1. Init => RetryInv
  BY DEF Init, RetryInv, RetryPending
<1>2. Inv /\ RetryInv /\ [Next]_vars => RetryInv'
  BY RetryStep
<1>3. RetryInv => RetryPending
  BY DEF RetryInv
<1> QED BY <1>1, <1>2, <1>3, Invariance, PTL DEF Spec

-----------------------------------------------------------------------------
(* Nothing is left behind. *)

Looping == {"stage", "record", "verify", "gate"}

\* Every pass that enters the stage loop gets through it and through the prune,
\* unless the StageSet is being deleted, and no StageInventory disappears.
\* Passes may still be deferred, fail or crash before the loop.
Undisturbed ==
    /\ pc \in Looping \cup Pruning /\ pc' \in {"idle", "rollback"} => CommitPass \/ deleting
    /\ ~LoseInventory

\* The stages this pass has applied, the one it has yet to record among them.
AppliedNow == delivered \cup {s \in RunStages : pc = "record" /\ s = Current}

\* Some stage applied o in this pass.
Claims(o) == \E t \in AppliedNow : o \in Render[t][pinned[t]]

\* An object that is an orphan unless some record names it.
Prunable(o) == live[o] \in StageNames \ NoPrune /\ o \notin OptOut

\* No other stage than s owns o.
Labelled(o, s) == live[o] \in {s, Foreign, Absent}

\* Between passes: every status has its record, every prunable object is in a
\* record, and what a stage has recorded is its own.
BetweenInv ==
    pc \in {"idle", "resolve"} =>
        /\ \A s \in StageNames : stages[s].applied # NoRev => shards[s].pos > 0
        /\ \A o \in Objects : Prunable(o) => \E s \in StageNames : o \in shards[s].refs
        /\ \A s \in StageNames : \A o \in shards[s].refs : Labelled(o, s)

\* From the loop to the commit: what the pass has delivered is what it has
\* recorded, and belongs to a stage that renders it.
PassInv ==
    pc \in Looping \cup Pruning =>
        /\ \A s \in StageNames : stages[s].applied # NoRev => previous[s].pos > 0
        /\ \A s \in StageNames : built[s].applied # NoRev => s \in RunStages
        /\ \A s \in StageNames : previous[s].pos = 0 => previous[s].refs = {}
        /\ \A s \in delivered : shards[s].pos > 0 /\ shards[s].refs = Render[s][pinned[s]]
        /\ \A o \in Objects : Claims(o) =>
            \/ live[o] \in {Foreign, Absent}
            \/ \E t \in AppliedNow : live[o] = t /\ o \in Render[t][pinned[t]]

\* In the loop: what the pass has not applied is as the last one left it.
RunningInv ==
    pc \in Looping =>
        /\ \A s \in StageNames \ delivered : shards[s] = previous[s]
        /\ \A o \in Objects : Prunable(o) => Claims(o) \/ \E s \in StageNames : o \in previous[s].refs
        /\ \A s \in StageNames : \A o \in previous[s].refs : Labelled(o, s) \/ Claims(o)

\* The removed stages whose shards are still to go.
Doomed == IF pc = "prune" THEN DOMAIN Removed ELSE IF pc = "commit" THEN {} ELSE todo

\* In the prune: what no stage of the run rendered is still to be deleted.
PruningInv ==
    pc \in Pruning =>
        /\ DuplicateClaims(Desired) = {}
        /\ \A s \in StageNames \ delivered : shards[s].refs # {} => s \in Doomed
        /\ \A o \in Objects : Prunable(o) =>
            \/ Claims(o)
            \/ pc = "prune" /\ \E s \in todo : o \in Prunes[s]
            \/ \E s \in Doomed : o \in Removed[s].refs /\ (pc = "drop" => s \notin NextRemoved)

CleanInv ==
    ~deleting =>
        /\ pc # "rollback"
        /\ rebuilt = {}
        /\ BetweenInv /\ PassInv /\ RunningInv /\ PruningInv

\* The plan depends on what the pass read and delivered alone.
LEMMA SamePlan ==
    ASSUME UNCHANGED <<pinned, previous, delivered>>
    PROVE  /\ Desired' = Desired /\ Prunes' = Prunes /\ Removed' = Removed
           /\ UNCHANGED todo => NextRemoved' = NextRemoved
<1>1. Desired' = Desired
  BY DEF Desired
<1>2. StageRecords(previous)' = StageRecords(previous)
  BY DEF StageRecords
<1> QED BY <1>1, <1>2 DEF Prunes, PrunePerStage, Removed, RemovedStages, NextRemoved, LastStages

\* Of the removed stages one at most has its turn.
LEMMA OneNext == \A s, t \in NextRemoved : s = t
  BY DEF NextRemoved

\* The steps that leave the pass outside the loop, and those of others.
Rests ==
    /\ pc \in {"idle", "resolve"} /\ pc' \in {"idle", "resolve"}
    /\ rebuilt' \in {rebuilt, {}}
    /\ UNCHANGED <<live, shards>>
    /\ \A s \in StageNames : stages'[s].applied \in {stages[s].applied, NoRev}

Waits ==
    /\ UNCHANGED <<pc, passVars, shards, stages>>
    /\ \A o \in Objects : live'[o] \in {live[o], Foreign}

\* Undisturbed, and not being deleted, a pass goes straight to its commit.
LEMMA CleanShape ==
    ASSUME Inv, CleanInv, [Next]_vars, Undisturbed \/ UNCHANGED vars, ~deleting'
    PROVE  /\ ~deleting
           /\ \/ Rests \/ Waits
              \/ EnterLoop \/ ApplyStage \/ RecordStage \/ VerifyStage \/ GatePromotes
              \/ StartPrune \/ PruneStage \/ StartRemoved \/ TearDownRemoved \/ DropShards
              \/ FinishPrune \/ CommitPass
<1> USE DEF clusterVars, objectVars, statusVars, queueVars, passVars, boundVars
<1>i. IInv /\ TeardownInv /\ LoopInv
  BY DEF Inv, IInv
<1>l. live \in [Objects -> StageNames \cup {Absent, Foreign}] /\ stages \in [StageNames -> StageStatus]
  BY <1>i DEF IInv, TypeOK, ClusterType, StatusType
<1>d. ~deleting
  BY <1>i, SnapshotStep
<1>c. pc # "rollback" /\ pc # "teardown"
  BY <1>d, <1>i DEF CleanInv, TeardownInv
<1>e. \A b : EndPass(b) => pc' = "idle" /\ rebuilt' = {}
  BY DEF EndPass, ResetPass
<1>x. ASSUME pc \in Looping \cup Pruning, pc' \in {"idle", "rollback"}, ~UNCHANGED vars
      PROVE  CommitPass
  BY <1>x, <1>d DEF Undisturbed
<1>1. CASE \/ AddFinalizer \/ SkipSuspended \/ StartPass \/ ResolveStage \/ EnterLoop
           \/ DeferRun \/ FailBeforeLoop
  <2>1. CASE AddFinalizer \/ SkipSuspended
    BY <2>1, <1>d DEF AddFinalizer, SkipSuspended, Waits
  <2>2. CASE StartPass \/ ResolveStage
    BY <2>2, <1>d DEF StartPass, MayRun, ResolveStage, Rests
  <2>4. CASE DeferRun
    BY <2>4, <1>d, <1>e DEF DeferRun, Rests
  <2>3. CASE FailBeforeLoop
    <3>1. \A s \in StageNames : stages'[s].applied \in {stages[s].applied, NoRev}
      BY <2>3, <1>l DEF FailBeforeLoop, Carried, FailedStatus, NoStatus
    <3> QED BY <2>3, <3>1, <1>d, <1>e DEF FailBeforeLoop, Rests
  <2> QED BY <1>1, <2>1, <2>2, <2>3, <2>4, <1>d
<1>2. CASE StageLoop
  <2>1. CASE FailBeforeApply \/ ApplyFails \/ RecordFails \/ VerifyFails
    <3>1. pc \in Looping /\ idx <= Len(run) /\ FailStage(Current)
      BY <2>1, <1>i DEF FailBeforeApply, ApplyFails, RecordFails, VerifyFails, AtStage, Looping, LoopInv
    <3>2. pc' \in {"idle", "rollback"}
      BY <3>1, <1>i, FailStageType DEF Looping
    <3>3. ~UNCHANGED vars
      BY <3>1, <3>2 DEF vars, Looping
    <3> QED BY <3>1, <3>2, <3>3, <1>x, <1>d
  <2>2. CASE HoldAborted \/ HoldForBudget \/ HoldForProgress \/ GateHolds \/ GateReverts
    <3>1. \A s, st, reason : HoldPass(s, st, reason) => pc' = "idle"
      BY <1>e DEF HoldPass
    <3>2. pc \in Looping /\ pc' = "idle"
      BY <2>2, <3>1 DEF HoldAborted, HoldForBudget, HoldForProgress, GateHolds, GateReverts, AtStage,
         Looping
    <3>3. ~UNCHANGED vars
      BY <3>2 DEF vars, Looping
    <3> QED BY <3>2, <3>3, <1>x, <1>d
  <2>3. CASE AbortForDeletion \/ GateInterrupted \/ RevertFails \/ RevertLost
    <3>2. pc \in Looping /\ pc' = "idle"
      BY <2>3, <1>e DEF AbortForDeletion, GateInterrupted, RevertFails, RevertLost, Looping
    <3>3. ~UNCHANGED vars
      BY <3>2 DEF vars, Looping
    <3> QED BY <3>2, <3>3, <1>x, <1>d
  <2> QED BY <1>2, <2>1, <2>2, <2>3, <1>d DEF StageLoop
<1>3. CASE AfterLoop
  <2>1. CASE RollbackStage \/ RollbackUnavailable \/ RollbackDefers \/ RollbackDone
    BY <2>1, <1>c DEF RollbackStage, RollbackUnavailable, RollbackDefers, RollbackDone
  <2>2. CASE StallOnDuplicates \/ PruneFails
    <3>2. pc \in Looping \cup Pruning /\ pc' = "idle"
      BY <2>2, <1>e DEF StallOnDuplicates, LoopDone, PruneFails, Looping, Pruning
    <3>3. ~UNCHANGED vars
      BY <3>2 DEF vars, Looping, Pruning
    <3> QED BY <3>2, <3>3, <1>x, <1>d
  <2> QED BY <1>3, <2>1, <2>2, <1>d DEF AfterLoop
<1>4. CASE Teardown
  BY <1>4, <1>c, <1>d DEF Teardown, StartTeardown, TearDownStage, TeardownFails, TeardownInterrupted,
     TeardownForced, FinishTeardown
<1>5. CASE Environment
  <2>1. CASE \/ EditSpec \/ UpdateSource \/ ToggleSuspend \/ RequestDelete \/ TimerFires
             \/ TeardownWaitElapses
    BY <2>1, <1>d DEF EditSpec, UpdateSource, ToggleSuspend, RequestDelete, TimerFires,
       TeardownWaitElapses, Waits
  <2>5. CASE CrashMidApply
    <3>1. pc \in Looping /\ pc' = "idle"
      BY <2>5, <1>c, DyingApply DEF CrashMidApply, Looping
    <3>2. ~UNCHANGED vars
      BY <3>1 DEF vars, Looping
    <3> QED BY <3>1, <3>2, <1>x, <1>d
  <2>2. CASE AdoptObject
    BY <2>2, <1>d, <1>l DEF AdoptObject, Waits
  <2>3. CASE LoseInventory
    <3>1. faults' = faults + 1 /\ faults \in Nat
      BY <2>3, <1>i DEF LoseInventory, Disturb, IInv, TypeOK, QueueType
    <3>2. faults' # faults
      BY <3>1
    <3>3. ~UNCHANGED vars
      BY <3>2 DEF vars
    <3> QED BY <2>3, <3>3 DEF Undisturbed
  <2>4. CASE Crash
    <3>1. pc # "idle" /\ pc' = "idle" /\ rebuilt' = {} /\ UNCHANGED <<live, shards, stages>>
      BY <2>4 DEF Crash, ResetPass
    <3>2. CASE pc = "resolve"
      BY <3>1, <3>2, <1>d DEF Rests
    <3>3. CASE pc # "resolve"
      <4>1. pc \in Looping \cup Pruning
        BY <3>1, <3>3, <1>c, <1>i DEF IInv, TypeOK, PassType, PassSteps, Looping, Pruning
      <4>2. ~UNCHANGED vars
        BY <3>1 DEF vars
      <4> QED BY <4>1, <4>2, <3>1, <1>x, <1>d
    <3> QED BY <3>2, <3>3
  <2> QED BY <1>5, <2>1, <2>2, <2>3, <2>4, <2>5 DEF Environment
<1>6. CASE UNCHANGED vars
  BY <1>6, <1>d DEF vars, Waits
<1> QED BY <1>1, <1>2, <1>3, <1>4, <1>5, <1>6 DEF Next, Reconcile

\* Before the loop nothing of a pass matters yet.
LEMMA CleanRests ==
    ASSUME Inv, CleanInv, ~deleting, Rests
    PROVE  CleanInv'
<1>1. BetweenInv /\ rebuilt = {}
  BY DEF CleanInv
<1>2. \A s \in StageNames : shards[s].refs \subseteq Objects
  BY DEF Inv, IInv, TypeOK, ClusterType, Record
<1>3. BetweenInv'
  BY <1>1 DEF Rests, BetweenInv, Prunable, Labelled
<1>4. PassInv' /\ RunningInv' /\ PruningInv'
  BY DEF Rests, PassInv, RunningInv, PruningInv, Looping, Pruning
<1> QED BY <1>1, <1>3, <1>4 DEF Rests, CleanInv

\* Steps of others at most take objects over.
LEMMA CleanWaits ==
    ASSUME Inv, CleanInv, ~deleting, Waits
    PROVE  CleanInv'
<1> USE DEF passVars
<1>1. BetweenInv /\ PassInv /\ RunningInv /\ PruningInv /\ rebuilt = {} /\ pc # "rollback"
  BY DEF CleanInv
<1>2. UNCHANGED <<pc, run, idx, pinned, previous, delivered, built, rebuilt, todo, shards, stages>>
  BY DEF Waits
<1>3. \A o \in Objects : live'[o] \in {live[o], Foreign}
  BY DEF Waits
<1>4. \A s \in StageNames : shards[s].refs \subseteq Objects /\ previous[s].refs \subseteq Objects
  BY DEF Inv, IInv, TypeOK, ClusterType, PassType, Record
<1>5. \A o \in Objects : Prunable(o)' => Prunable(o)
  BY <1>3, NamesAssumption DEF Prunable
<1>6. \A o \in Objects : \A s \in StageNames : Labelled(o, s) => Labelled(o, s)'
  BY <1>3 DEF Labelled
<1>7. AppliedNow' = AppliedNow
  BY <1>2 DEF AppliedNow, RunStages, Current
<1>8. \A o \in Objects : Claims(o)' <=> Claims(o)
  BY <1>2, <1>7 DEF Claims
<1>9. Desired' = Desired /\ Prunes' = Prunes /\ Removed' = Removed /\ NextRemoved' = NextRemoved
  BY <1>2, SamePlan
<1>10. Doomed' = Doomed
  BY <1>2, <1>9 DEF Doomed
<1>11. BetweenInv'
  BY <1>1, <1>2, <1>4, <1>5, <1>6 DEF BetweenInv
<1>12. PassInv'
  BY <1>1, <1>2, <1>3, <1>7, <1>8, NamesAssumption DEF PassInv, RunStages
<1>13. RunningInv'
  BY <1>1, <1>2, <1>4, <1>5, <1>6, <1>8 DEF RunningInv
<1>14. PruningInv'
  BY <1>1, <1>2, <1>5, <1>8, <1>9, <1>10 DEF PruningInv, DuplicateClaims, Claimed
<1> QED BY <1>1, <1>2, <1>11, <1>12, <1>13, <1>14 DEF CleanInv

\* Entering the loop, the inventory becomes the previous one.
LEMMA CleanEnters ==
    ASSUME Inv, CleanInv, ~deleting, EnterLoop
    PROVE  CleanInv'
<1> USE DEF clusterVars, objectVars, statusVars, queueVars, passVars, boundVars
<1>1. BetweenInv /\ rebuilt = {}
  BY DEF CleanInv
<1>2. /\ pc = "resolve" /\ pc' = "stage" /\ previous' = shards /\ built' = Carried
      /\ UNCHANGED <<live, shards, stages, run, delivered, rebuilt, pinned>>
  BY DEF EnterLoop
<1>3. delivered' = {}
  BY <1>2 DEF Inv, DeliveredInv
<1>4. RecordsInv
  BY DEF Inv
<1>5. BetweenInv' /\ PruningInv'
  BY <1>2 DEF BetweenInv, PruningInv, Pruning
<1>6. \A o \in Objects : ~Claims(o)'
  BY <1>2, <1>3 DEF Claims, AppliedNow
<1>7. \A s \in StageNames : built'[s].applied # NoRev => s \in RunStages
  BY <1>2 DEF Carried, NoStatus
<1>8. PassInv'
  BY <1>1, <1>2, <1>3, <1>4, <1>6, <1>7 DEF PassInv, BetweenInv, RecordsInv, RunStages
<1>9. RunningInv'
  BY <1>1, <1>2 DEF RunningInv, BetweenInv, Prunable, Labelled
<1> QED BY <1>1, <1>2, <1>5, <1>8, <1>9 DEF CleanInv

\* What a stage applies it claims.
LEMMA CleanApplies ==
    ASSUME Inv, CleanInv, ~deleting, ApplyStage
    PROVE  CleanInv'
<1> USE DEF clusterVars, objectVars, statusVars, queueVars, passVars, boundVars
<1> DEFINE R == Render[Current][pinned[Current]]
<1>1. PassInv /\ RunningInv /\ rebuilt = {}
  BY DEF CleanInv
<1>2. /\ pc = "stage" /\ pc' = "record" /\ idx <= Len(run)
      /\ live' = Applied(Current, R)
      /\ UNCHANGED <<shards, stages, run, idx, pinned, previous, delivered, built, rebuilt>>
  BY DEF ApplyStage, AtStage
<1>3. Current \in RunStages /\ R \subseteq Objects
  BY <1>2, CurrentFacts DEF Inv
<1>4. AppliedNow' = delivered \cup {Current} /\ AppliedNow = delivered
  BY <1>2, <1>3 DEF AppliedNow, RunStages, Current
<1>5. Current' = Current
  BY <1>2 DEF Current
<1>6. \A o \in Objects : Claims(o)' <=> Claims(o) \/ o \in R
  BY <1>2, <1>4 DEF Claims
<1>7. \A o \in Objects : live'[o] = IF o \in R THEN Current ELSE live[o]
  BY <1>2 DEF Applied
<1>8. \A s \in StageNames : previous[s].refs \subseteq Objects
  BY DEF Inv, IInv, TypeOK, PassType, Record
<1>9. BetweenInv' /\ PruningInv'
  BY <1>2 DEF BetweenInv, PruningInv, Pruning
<1>10. \A o \in Objects : Claims(o)' =>
            \/ live'[o] \in {Foreign, Absent}
            \/ \E t \in AppliedNow' : live'[o] = t /\ o \in Render[t][pinned'[t]]
  <2> SUFFICES ASSUME NEW o \in Objects, Claims(o)', live'[o] \notin {Foreign, Absent}
               PROVE  \E t \in AppliedNow' : live'[o] = t /\ o \in Render[t][pinned'[t]]
    OBVIOUS
  <2>1. CASE o \in R
    BY <2>1, <1>2, <1>4, <1>7
  <2>2. CASE o \notin R
    <3>1. Claims(o) /\ live'[o] = live[o]
      BY <2>2, <1>6, <1>7
    <3>2. PICK t \in AppliedNow : live[o] = t /\ o \in Render[t][pinned[t]]
      BY <3>1, <1>1, <1>2 DEF PassInv, Looping
    <3> QED BY <3>1, <3>2, <1>2, <1>4
  <2> QED BY <2>1, <2>2
<1>11. PassInv'
  BY <1>1, <1>2, <1>10 DEF PassInv, Looping, RunStages
<1>12. \A o \in Objects : Prunable(o)' => Claims(o)' \/ Prunable(o)
  BY <1>6, <1>7 DEF Prunable
<1>13. \A o \in Objects : \A s \in StageNames : Labelled(o, s) => Labelled(o, s)' \/ Claims(o)'
  BY <1>6, <1>7 DEF Labelled
<1>14. RunningInv'
  BY <1>1, <1>2, <1>6, <1>8, <1>12, <1>13 DEF RunningInv, Looping
<1> QED BY <1>1, <1>2, <1>9, <1>11, <1>14 DEF CleanInv

\* Recording a stage leaves no trace of its old record, and needs no
\* reconstruction: every stage the status knows has a record.
LEMMA CleanRecords ==
    ASSUME Inv, CleanInv, ~deleting, RecordStage
    PROVE  CleanInv'
<1> USE DEF clusterVars, objectVars, statusVars, queueVars, passVars, boundVars
<1> DEFINE R == Render[Current][pinned[Current]]
<1>1. PassInv /\ RunningInv /\ rebuilt = {}
  BY DEF CleanInv
<1>2. /\ pc = "record" /\ pc' = "verify"
      /\ delivered' = delivered \cup {Current}
      /\ UNCHANGED <<live, stages, run, idx, pinned, previous, built>>
  BY DEF RecordStage
<1>3. Current \in RunStages /\ Current \in StageNames /\ R \subseteq Objects
      /\ Position(Current) >= 1 /\ Position(Current) \in Nat
  BY <1>2, CurrentFacts DEF Inv, IInv, LoopInv
<1>4. ~NeedsReconstruct(Current)
  <2>1. previous[Current].pos = 0 => stages[Current].applied = NoRev
    BY <1>1, <1>2, <1>3 DEF PassInv, Looping
  <2> QED BY <2>1 DEF NeedsReconstruct
<1>5. rebuilt' = rebuilt /\ WriteRecord(Current, R \cup Reconstructed(Current, {}))
  BY <1>4 DEF RecordStage
<1>6. Reconstructed(Current, {}) = {}
  BY DEF Reconstructed
<1>7. shards' = [shards EXCEPT ![Current] = [pos |-> Position(Current), refs |-> R]]
  BY <1>5, <1>6 DEF WriteRecord
<1>8. shards \in [StageNames -> Record]
  BY DEF Inv, IInv, TypeOK, ClusterType
<1>9. /\ shards'[Current].pos > 0 /\ shards'[Current].refs = R
      /\ \A s \in StageNames : s # Current => shards'[s] = shards[s]
  BY <1>3, <1>7, <1>8
<1>10. AppliedNow' = AppliedNow
  BY <1>2, <1>3 DEF AppliedNow, RunStages, Current
<1>11. \A o \in Objects : Claims(o)' <=> Claims(o)
  BY <1>2, <1>10 DEF Claims
<1>12. delivered \subseteq StageNames
  BY DEF Inv, IInv, TypeOK, PassType
<1>13. \A s \in delivered' : shards'[s].pos > 0 /\ shards'[s].refs = Render[s][pinned'[s]]
  BY <1>1, <1>2, <1>9, <1>12 DEF PassInv, Looping
<1>14. PassInv'
  BY <1>1, <1>2, <1>10, <1>11, <1>13 DEF PassInv, Looping, RunStages
<1>15. RunningInv'
  <2>1. /\ \A o \in Objects : Prunable(o)' <=> Prunable(o)
        /\ \A s \in StageNames : \A o : Labelled(o, s)' <=> Labelled(o, s)
    BY <1>2 DEF Prunable, Labelled
  <2>2. \A s \in StageNames : previous[s].refs \subseteq Objects
    BY DEF Inv, IInv, TypeOK, PassType, Record
  <2>3. \A s \in StageNames \ delivered' : shards'[s] = previous'[s]
    BY <1>1, <1>2, <1>9 DEF RunningInv, Looping
  <2> QED BY <1>1, <1>2, <1>11, <2>1, <2>2, <2>3 DEF RunningInv, Looping
<1>16. BetweenInv' /\ PruningInv'
  BY <1>2 DEF BetweenInv, PruningInv, Pruning
<1> QED BY <1>1, <1>2, <1>5, <1>14, <1>15, <1>16 DEF CleanInv

\* Waiting and promoting change nothing but the statuses to be committed.
LEMMA CleanPromotes ==
    ASSUME Inv, CleanInv, ~deleting, VerifyStage \/ GatePromotes
    PROVE  CleanInv'
<1> USE DEF clusterVars, objectVars, statusVars, queueVars, passVars, boundVars
<1>1. PassInv /\ RunningInv /\ rebuilt = {}
  BY DEF CleanInv
<1>2. /\ pc \in {"verify", "gate"} /\ pc' \in {"gate", "stage"}
      /\ UNCHANGED <<live, shards, stages, run, pinned, previous, delivered, rebuilt>>
  BY DEF VerifyStage, GatePromotes
<1>3. AppliedNow' = AppliedNow
  BY <1>2 DEF AppliedNow
<1>4. \A o \in Objects : Claims(o)' <=> Claims(o)
  BY <1>2, <1>3 DEF Claims
<1>5. \A s \in StageNames : built'[s].applied # NoRev => s \in RunStages
  <2>1. CASE VerifyStage
    BY <2>1, <1>1, <1>2 DEF VerifyStage, PassInv, Looping
  <2>2. CASE GatePromotes
    <3>1. Current \in RunStages
      BY <1>2, CurrentFacts DEF Inv, IInv, LoopInv
    <3>2. built \in [StageNames -> StageStatus]
      BY DEF Inv, IInv, TypeOK, PassType
    <3> QED BY <2>2, <3>1, <3>2, <1>1, <1>2 DEF GatePromotes, PassInv, Looping
  <2> QED BY <2>1, <2>2
<1>6. PassInv'
  BY <1>1, <1>2, <1>3, <1>4, <1>5 DEF PassInv, Looping, RunStages
<1>7. RunningInv'
  <2>1. /\ \A o \in Objects : Prunable(o)' <=> Prunable(o)
        /\ \A s \in StageNames : \A o : Labelled(o, s)' <=> Labelled(o, s)
    BY <1>2 DEF Prunable, Labelled
  <2>2. \A s \in StageNames : previous[s].refs \subseteq Objects
    BY DEF Inv, IInv, TypeOK, PassType, Record
  <2> QED BY <1>1, <1>2, <1>4, <2>1, <2>2 DEF RunningInv, Looping
<1>8. BetweenInv' /\ PruningInv'
  BY <1>2 DEF BetweenInv, PruningInv, Pruning
<1> QED BY <1>1, <1>2, <1>6, <1>7, <1>8 DEF CleanInv

\* The plan of the prune covers everything prunable that no stage rendered: an
\* object that a stage with prune: false keeps is labelled with that stage.
LEMMA CleanPlans ==
    ASSUME Inv, CleanInv, ~deleting, StartPrune
    PROVE  CleanInv'
<1> USE DEF clusterVars, objectVars, statusVars, queueVars, passVars, boundVars
<1>1. PassInv /\ RunningInv /\ rebuilt = {}
  BY DEF CleanInv
<1>2. /\ pc = "stage" /\ pc' = "prune" /\ DuplicateClaims(Desired) = {}
      /\ todo' = {s \in DOMAIN Prunes : Prunes[s] # {} /\ s \notin NoPrune}
      /\ UNCHANGED <<live, shards, stages, run, pinned, previous, delivered, built, rebuilt>>
  BY <1>1 DEF StartPrune, LoopDone
<1>3. AppliedNow' = AppliedNow /\ AppliedNow = delivered
  BY <1>2 DEF AppliedNow
<1>4. \A o \in Objects : Claims(o)' <=> Claims(o)
  BY <1>2, <1>3 DEF Claims
<1>5. Desired' = Desired /\ Prunes' = Prunes /\ Removed' = Removed
  BY <1>2, SamePlan
<1>6. \A o : o \in Claimed(Desired) => Claims(o)
  BY <1>3 DEF Claimed, Desired, Claims
<1>7. PassInv'
  BY <1>1, <1>2, <1>3, <1>4 DEF PassInv, Looping, RunStages
<1>8. BetweenInv' /\ RunningInv'
  BY <1>2 DEF BetweenInv, RunningInv, Looping
<1>9. \A s \in StageNames : previous[s].refs # {} => previous[s].pos > 0
  BY <1>1, <1>2 DEF PassInv, Looping, Inv, IInv, TypeOK, PassType, Record
<1>10. Doomed' = DOMAIN Removed
  BY <1>2, <1>5 DEF Doomed
<1>11. \A s \in StageNames \ delivered : shards'[s].refs # {} => s \in Doomed'
  BY <1>1, <1>2, <1>9, <1>10, PruneDomains DEF RunningInv, Looping
<1>12. ASSUME NEW o \in Objects, Prunable(o), ~Claims(o)
       PROVE  \/ \E s \in todo' : o \in Prunes[s]
              \/ \E s \in Doomed' : o \in Removed[s].refs
  <2>1. PICK s \in StageNames : o \in previous[s].refs
    BY <1>1, <1>2, <1>12 DEF RunningInv, Looping
  <2>2. previous[s].pos > 0 /\ o \notin Claimed(Desired)
    BY <1>6, <1>9, <1>12, <2>1
  <2>3. CASE s \notin delivered
    BY <2>1, <2>2, <2>3, <1>10, PruneDomains
  <2>4. CASE s \in delivered
    <3>1. s \in DOMAIN Prunes
      BY <2>2, <2>4, PruneDomains
    <3>2. Desired[s] \subseteq Claimed(Desired)
      BY <2>4 DEF Desired, Claimed
    <3>3. o \in Prunes[s]
      BY <2>1, <2>2, <3>1, <3>2, PruneDomains
    <3>4. live[o] = s
      BY <1>1, <1>2, <1>12, <2>1, NamesAssumption DEF RunningInv, Looping, Labelled, Prunable
    <3>5. s \notin NoPrune
      BY <1>12, <3>4 DEF Prunable
    <3> QED BY <1>2, <3>1, <3>3, <3>5
  <2> QED BY <2>3, <2>4
<1>13. \A o \in Objects : Prunable(o)' <=> Prunable(o)
  BY <1>2 DEF Prunable
<1>14. DuplicateClaims(Desired)' = {}
  BY <1>2, <1>5 DEF DuplicateClaims, Claimed
<1>15. PruningInv'
  BY <1>2, <1>4, <1>5, <1>11, <1>12, <1>13, <1>14 DEF PruningInv
<1> QED BY <1>1, <1>2, <1>7, <1>8, <1>15 DEF CleanInv

\* What a step of the prune keeps, whatever it deletes or drops.
LEMMA PruneKeeps ==
    ASSUME Inv, CleanInv, ~deleting, pc \in Pruning, pc' \in Pruning,
           UNCHANGED <<stages, run, pinned, previous, delivered, built, rebuilt>>,
           \A s \in delivered : shards'[s] = shards[s],
           \A o \in Objects : live'[o] \in {live[o], Absent}
    PROVE  /\ rebuilt' = {} /\ BetweenInv' /\ PassInv' /\ RunningInv'
           /\ DuplicateClaims(Desired)' = {}
           /\ Desired' = Desired /\ Prunes' = Prunes /\ Removed' = Removed
           /\ \A o \in Objects : Claims(o)' <=> Claims(o)
           /\ \A o \in Objects : Prunable(o)' => Prunable(o) /\ live'[o] = live[o]
<1>1. PassInv /\ PruningInv /\ rebuilt = {}
  BY DEF CleanInv
<1>2. AppliedNow' = AppliedNow
  BY DEF AppliedNow, Pruning
<1>3. \A o \in Objects : Claims(o)' <=> Claims(o)
  BY <1>2 DEF Claims
<1>4. Desired' = Desired /\ Prunes' = Prunes /\ Removed' = Removed
  BY SamePlan
<1>5. PassInv'
  BY <1>1, <1>2, <1>3 DEF PassInv, RunStages
<1>6. BetweenInv' /\ RunningInv'
  BY DEF BetweenInv, RunningInv, Looping, Pruning
<1>7. DuplicateClaims(Desired)' = {}
  BY <1>1, <1>4 DEF PruningInv, DuplicateClaims, Claimed
<1>8. \A o \in Objects : Prunable(o)' => Prunable(o) /\ live'[o] = live[o]
  BY NamesAssumption DEF Prunable
<1> QED BY <1>1, <1>3, <1>4, <1>5, <1>6, <1>7, <1>8

\* A delete leaves nothing of what it was given prunable.
LEMMA DeletesAll ==
    ASSUME live \in [Objects -> StageNames \cup {Absent, Foreign}], NEW os, live' = Deleted(os),
           NEW o \in Objects, o \in os
    PROVE  ~Prunable(o)'
<1>1. o \in OptOut \/ live'[o] \in {Absent, Foreign}
  BY DeletedType
<1> QED BY <1>1, NamesAssumption DEF Prunable

\* The prune proper, stage by stage.
LEMMA CleanPrunes ==
    ASSUME Inv, CleanInv, ~deleting, PruneStage \/ StartRemoved
    PROVE  CleanInv'
<1> USE DEF clusterVars, objectVars, statusVars, queueVars, passVars, boundVars
<1>t. live \in [Objects -> StageNames \cup {Absent, Foreign}]
  BY DEF Inv, IInv, TypeOK, ClusterType
<1>1. PruningInv
  BY DEF CleanInv
<1>2. CASE PruneStage
  <2>1. PICK s \in todo : live' = Deleted(Prunes[s]) /\ todo' = todo \ {s}
    BY <1>2 DEF PruneStage
  <2>2. /\ pc = "prune" /\ pc' = "prune"
        /\ UNCHANGED <<shards, stages, run, pinned, previous, delivered, built, rebuilt>>
    BY <1>2 DEF PruneStage
  <2>3. \A o \in Objects : live'[o] \in {live[o], Absent}
    BY <2>1, <1>t, DeletedType
  <2>4. /\ rebuilt' = {} /\ BetweenInv' /\ PassInv' /\ RunningInv'
        /\ DuplicateClaims(Desired)' = {}
        /\ Desired' = Desired /\ Prunes' = Prunes /\ Removed' = Removed
        /\ \A o \in Objects : Claims(o)' <=> Claims(o)
        /\ \A o \in Objects : Prunable(o)' => Prunable(o) /\ live'[o] = live[o]
    BY <2>2, <2>3, PruneKeeps DEF Pruning
  <2>5. Doomed' = Doomed
    BY <2>2, <2>4 DEF Doomed
  <2>6. \A o \in Objects : Prunable(o)' => o \notin Prunes[s]
    BY <2>1, <1>t, DeletesAll
  <2>7. PruningInv'
    BY <1>1, <2>1, <2>2, <2>4, <2>5, <2>6 DEF PruningInv, Pruning
  <2> QED BY <2>2, <2>4, <2>7 DEF CleanInv
<1>3. CASE StartRemoved
  <2>2. /\ pc = "prune" /\ pc' = "removed" /\ todo = {} /\ todo' = DOMAIN Removed
        /\ UNCHANGED <<live, shards, stages, run, pinned, previous, delivered, built, rebuilt>>
    BY <1>3 DEF StartRemoved
  <2>4. /\ rebuilt' = {} /\ BetweenInv' /\ PassInv' /\ RunningInv'
        /\ DuplicateClaims(Desired)' = {}
        /\ Desired' = Desired /\ Prunes' = Prunes /\ Removed' = Removed
        /\ \A o \in Objects : Claims(o)' <=> Claims(o)
        /\ \A o \in Objects : Prunable(o)' => Prunable(o) /\ live'[o] = live[o]
    BY <2>2, PruneKeeps DEF Pruning
  <2>5. Doomed' = DOMAIN Removed /\ Doomed = DOMAIN Removed
    BY <2>2, <2>4 DEF Doomed
  <2>7. PruningInv'
    BY <1>1, <2>2, <2>4, <2>5 DEF PruningInv, Pruning
  <2> QED BY <2>2, <2>4, <2>7 DEF CleanInv
<1> QED BY <1>2, <1>3

\* The removed stages: each loses its objects, then its shards.
LEMMA CleanRemoves ==
    ASSUME Inv, CleanInv, ~deleting, TearDownRemoved \/ DropShards \/ FinishPrune
    PROVE  CleanInv'
<1> USE DEF clusterVars, objectVars, statusVars, queueVars, passVars, boundVars
<1>t. /\ live \in [Objects -> StageNames \cup {Absent, Foreign}]
      /\ shards \in [StageNames -> Record]
      /\ delivered \subseteq StageNames
  BY DEF Inv, IInv, TypeOK, ClusterType, PassType
<1>1. PruningInv
  BY DEF CleanInv
<1>2. CASE TearDownRemoved
  <2>1. PICK s \in NextRemoved : live' = Deleted(Removed[s].refs)
    BY <1>2 DEF TearDownRemoved
  <2>2. /\ pc = "removed" /\ pc' = "drop"
        /\ UNCHANGED <<shards, stages, run, pinned, previous, delivered, built, rebuilt, todo>>
    BY <1>2 DEF TearDownRemoved
  <2>3. \A o \in Objects : live'[o] \in {live[o], Absent}
    BY <2>1, <1>t, DeletedType
  <2>4. /\ rebuilt' = {} /\ BetweenInv' /\ PassInv' /\ RunningInv'
        /\ DuplicateClaims(Desired)' = {}
        /\ Desired' = Desired /\ Prunes' = Prunes /\ Removed' = Removed
        /\ \A o \in Objects : Claims(o)' <=> Claims(o)
        /\ \A o \in Objects : Prunable(o)' => Prunable(o) /\ live'[o] = live[o]
    BY <2>2, <2>3, PruneKeeps DEF Pruning
  <2>5. Doomed' = todo /\ Doomed = todo /\ NextRemoved' = NextRemoved
    BY <2>2, SamePlan DEF Doomed
  <2>6. \A o \in Objects : Prunable(o)' => o \notin Removed[s].refs
    BY <2>1, <1>t, DeletesAll
  <2>8. \A t \in NextRemoved : t = s
    BY <2>1, OneNext
  <2>7. PruningInv'
    BY <1>1, <2>2, <2>4, <2>5, <2>6, <2>8 DEF PruningInv, Pruning
  <2> QED BY <2>2, <2>4, <2>7 DEF CleanInv
<1>3. CASE DropShards
  <2>1. PICK s \in NextRemoved : shards' = [shards EXCEPT ![s] = NoRecord] /\ todo' = todo \ {s}
    BY <1>3 DEF DropShards
  <2>2. /\ pc = "drop" /\ pc' = "removed"
        /\ UNCHANGED <<live, stages, run, pinned, previous, delivered, built, rebuilt>>
    BY <1>3 DEF DropShards
  <2>3. s \in todo /\ s \notin delivered /\ s \in StageNames
    BY <2>1, <2>2, PruneDomains DEF NextRemoved, LastStages, Inv, PruneInv
  <2>9. \A t \in StageNames : shards'[t] = IF t = s THEN NoRecord ELSE shards[t]
    BY <2>1, <2>3, <1>t
  <2>4. /\ rebuilt' = {} /\ BetweenInv' /\ PassInv' /\ RunningInv'
        /\ DuplicateClaims(Desired)' = {}
        /\ Desired' = Desired /\ Prunes' = Prunes /\ Removed' = Removed
        /\ \A o \in Objects : Claims(o)' <=> Claims(o)
        /\ \A o \in Objects : Prunable(o)' => Prunable(o) /\ live'[o] = live[o]
    <3>1. \A t \in delivered : shards'[t] = shards[t]
      BY <2>3, <2>9, <1>t
    <3> QED BY <2>2, <3>1, PruneKeeps DEF Pruning
  <2>5. Doomed' = todo \ {s} /\ Doomed = todo
    BY <2>1, <2>2 DEF Doomed
  <2>6. \A t \in StageNames \ delivered' : shards'[t].refs # {} => t \in Doomed'
    BY <1>1, <2>2, <2>5, <2>9 DEF PruningInv, Pruning, NoRecord
  <2>7. PruningInv'
    BY <1>1, <2>1, <2>2, <2>4, <2>5, <2>6 DEF PruningInv, Pruning
  <2> QED BY <2>2, <2>4, <2>7 DEF CleanInv
<1>4. CASE FinishPrune
  <2>2. /\ pc = "removed" /\ pc' = "commit" /\ todo = {} /\ todo' = {}
        /\ UNCHANGED <<live, shards, stages, run, pinned, previous, delivered, built, rebuilt>>
    BY <1>4 DEF FinishPrune
  <2>4. /\ rebuilt' = {} /\ BetweenInv' /\ PassInv' /\ RunningInv'
        /\ DuplicateClaims(Desired)' = {}
        /\ Desired' = Desired /\ Prunes' = Prunes /\ Removed' = Removed
        /\ \A o \in Objects : Claims(o)' <=> Claims(o)
        /\ \A o \in Objects : Prunable(o)' => Prunable(o) /\ live'[o] = live[o]
    BY <2>2, PruneKeeps DEF Pruning
  <2>5. Doomed' = {} /\ Doomed = {}
    BY <2>2 DEF Doomed
  <2>7. PruningInv'
    BY <1>1, <2>2, <2>4, <2>5 DEF PruningInv, Pruning
  <2> QED BY <2>2, <2>4, <2>7 DEF CleanInv
<1> QED BY <1>2, <1>3, <1>4

\* The commit: what the pass recorded is all there is.
LEMMA CleanCommits ==
    ASSUME Inv, CleanInv, ~deleting, CommitPass
    PROVE  CleanInv'
<1> USE DEF clusterVars, objectVars, statusVars, queueVars, passVars, boundVars
<1>1. PassInv /\ PruningInv
  BY DEF CleanInv
<1>2. /\ pc = "commit" /\ pc' = "idle" /\ stages' = built /\ rebuilt' = {}
      /\ UNCHANGED <<live, shards>>
  BY DEF CommitPass, EndPass, ResetPass
<1>3. delivered = RunStages /\ delivered \subseteq StageNames
  BY <1>2 DEF Inv, DeliveredInv, DeliveredStayLive, Pruning, IInv, TypeOK, PassType
<1>4. AppliedNow = delivered /\ Doomed = {}
  BY <1>2 DEF AppliedNow, Doomed
<1>5. \A s \in StageNames : built[s].applied # NoRev => shards[s].pos > 0
  BY <1>1, <1>2, <1>3 DEF PassInv, Pruning
<1>6. \A o \in Objects : Prunable(o) => \E s \in StageNames : o \in shards[s].refs
  <2> SUFFICES ASSUME NEW o \in Objects, Prunable(o)
               PROVE  \E s \in StageNames : o \in shards[s].refs
    OBVIOUS
  <2>1. Claims(o)
    BY <1>1, <1>2, <1>4 DEF PruningInv, Pruning
  <2>2. PICK t \in delivered : o \in Render[t][pinned[t]]
    BY <2>1, <1>4 DEF Claims
  <2> QED BY <2>2, <1>1, <1>2, <1>3 DEF PassInv, Pruning
<1>7. \A s \in StageNames : \A o \in shards[s].refs : Labelled(o, s)
  <2> SUFFICES ASSUME NEW s \in StageNames, NEW o \in shards[s].refs, live[o] \notin {Foreign, Absent}
               PROVE  live[o] = s
    BY DEF Labelled
  <2>1. s \in delivered
    BY <1>1, <1>2, <1>4 DEF PruningInv, Pruning
  <2>2. o \in Objects
    BY DEF Inv, IInv, TypeOK, ClusterType, Record
  <2>3. o \in Render[s][pinned[s]]
    BY <1>1, <1>2, <2>1 DEF PassInv, Pruning
  <2>4. Claims(o)
    BY <1>4, <2>1, <2>3 DEF Claims
  <2>5. PICK t \in delivered : live[o] = t /\ o \in Render[t][pinned[t]]
    BY <1>1, <1>2, <1>4, <2>2, <2>4 DEF PassInv, Pruning
  <2>6. /\ DOMAIN Desired = delivered /\ Desired[s] = Render[s][pinned[s]]
        /\ Desired[t] = Render[t][pinned[t]]
    BY <2>1, <2>5 DEF Desired
  <2>7. o \in Claimed(Desired)
    BY <2>1, <2>3, <2>6 DEF Claimed
  <2>8. DuplicateClaims(Desired) = {}
    BY <1>1, <1>2 DEF PruningInv, Pruning
  <2> QED BY <2>1, <2>3, <2>5, <2>6, <2>7, <2>8 DEF DuplicateClaims
<1>8. BetweenInv'
  BY <1>2, <1>5, <1>6, <1>7 DEF BetweenInv, Prunable, Labelled
<1>9. PassInv' /\ RunningInv' /\ PruningInv'
  BY <1>2 DEF PassInv, RunningInv, PruningInv, Looping, Pruning
<1> QED BY <1>2, <1>8, <1>9 DEF CleanInv

\* CleanInv holds after every undisturbed step.
LEMMA CleanStep ==
    ASSUME Inv, CleanInv, [Next]_vars, Undisturbed \/ UNCHANGED vars
    PROVE  CleanInv'
<1> SUFFICES ASSUME ~deleting' PROVE CleanInv'
  BY DEF CleanInv
<1> QED
  BY CleanShape, CleanRests, CleanWaits, CleanEnters, CleanApplies, CleanRecords, CleanPromotes,
     CleanPlans, CleanPrunes, CleanRemoves, CleanCommits

\* As long as every pass that starts to deliver gets through and no
\* StageInventory disappears, whatever the spec, the sources and other managers
\* do in the meantime, a StageSet that is Ready has left no prunable object
\* behind: the write-ahead record and the prune of Reconcile add up.
THEOREM NothingLeftBehind == Spec /\ [][Undisturbed]_vars => []NoOrphans
<1>1. Init => CleanInv
  BY NamesAssumption DEF Init, CleanInv, BetweenInv, PassInv, RunningInv, PruningInv, Looping, Pruning,
     NoStatus, NoRecord, Prunable, Labelled
<1>2. Inv /\ CleanInv /\ [Next]_vars /\ [Undisturbed]_vars => CleanInv'
  BY CleanStep
<1>3. CleanInv => NoOrphans
  BY DEF CleanInv, BetweenInv, NoOrphans, Orphans, Prunable
<1> QED BY <1>1, <1>2, <1>3, Invariance, PTL DEF Spec

-----------------------------------------------------------------------------
(* prune: false is honoured. *)

\* Every object stage s can render.
Ever(s) == UNION {Render[s][r] : r \in Revisions}

\* A stage label and a stored record name only what that stage can render: the
\* apply stamps what it renders, and a reconstructed record reads the labels.
OwnInv ==
    /\ \A o \in Objects : live[o] \in StageNames => o \in Ever(live[o])
    /\ \A s \in StageNames : shards[s].refs \subseteq Ever(s)
    /\ \A s \in StageNames : previous[s].refs \subseteq Ever(s)

\* What an apply of stage s at some revision, whole or in part, does to labels.
LEMMA AppliedOwn ==
    ASSUME IInv, OwnInv, NEW s \in StageNames, NEW r \in Revisions, NEW os \in SUBSET Render[s][r],
           live' = Applied(s, os)
    PROVE  \A o \in Objects : live'[o] \in StageNames => o \in Ever(live'[o])
<1>1. os \subseteq Ever(s)
  BY DEF Ever
<1> QED BY <1>1 DEF Applied, OwnInv

\* The labels after a step that applies nothing.
LEMMA KeptOwn ==
    ASSUME OwnInv, \A o \in Objects : live'[o] \in {live[o], Absent, Foreign}
    PROVE  \A o \in Objects : live'[o] \in StageNames => o \in Ever(live'[o])
  BY NamesAssumption DEF OwnInv

\* Every step keeps the labels within what their stages render.
LEMMA OwnLive ==
    ASSUME IInv, OwnInv, [Next]_vars
    PROVE  \A o \in Objects : live'[o] \in StageNames => o \in Ever(live'[o])
<1> USE DEF clusterVars, objectVars, statusVars, queueVars, passVars, boundVars
<1> DEFINE Own == \A o \in Objects : live'[o] \in StageNames => o \in Ever(live'[o])
<1>g. pc \in {"record", "verify", "gate"} => idx <= Len(run)
  BY DEF IInv, LoopInv
<1>t. live \in [Objects -> StageNames \cup {Absent, Foreign}] /\ snapshot \in [StageNames -> SnapshotRef]
  BY DEF IInv, TypeOK, ClusterType, StatusType
<1>a. ASSUME NEW s \in StageNames, NEW r \in Revisions, NEW os \in SUBSET Render[s][r],
             live' = Applied(s, os)
      PROVE  Own
  BY <1>a, AppliedOwn
<1>d. ASSUME NEW os, live' = Deleted(os)
      PROVE  Own
  BY <1>d, <1>t, DeletedType, KeptOwn
<1>u. UNCHANGED live => Own
  BY KeptOwn
<1>s. \A s \in StageNames : snapshot[s].rev # NoRev => snapshot[s].rev \in Revisions
  BY <1>t DEF SnapshotRef
<1>1. CASE \/ AddFinalizer \/ SkipSuspended \/ StartPass \/ ResolveStage \/ EnterLoop
           \/ DeferRun \/ FailBeforeLoop
  BY <1>1, <1>u DEF AddFinalizer, SkipSuspended, StartPass, ResolveStage, EnterLoop, DeferRun,
     FailBeforeLoop
<1>2. CASE StageLoop
  <2>1. CASE ApplyStage \/ ApplyFails \/ GateReverts \/ RevertFails \/ RevertLost
    <3>1. Current \in StageNames /\ pinned[Current] \in Revisions
      BY <2>1, <1>g, CurrentFacts DEF ApplyStage, ApplyFails, GateReverts, RevertFails, RevertLost, AtStage
    <3>2. CASE ApplyStage \/ ApplyFails
      BY <3>2, <3>1, <1>a DEF ApplyStage, ApplyFails, PartlyApplied
    <3>3. CASE GateReverts \/ RevertFails \/ RevertLost
      BY <3>3, <3>1, <1>a, <1>s DEF GateReverts, RevertFails, RevertLost, PartlyApplied
    <3> QED BY <2>1, <3>2, <3>3
  <2>2. CASE \/ HoldAborted \/ HoldForBudget \/ FailBeforeApply \/ RecordStage \/ RecordFails
             \/ VerifyStage \/ HoldForProgress \/ VerifyFails \/ AbortForDeletion
             \/ GatePromotes \/ GateHolds \/ GateInterrupted
    BY <2>2, <1>u DEF HoldAborted, HoldForBudget, FailBeforeApply, RecordStage, RecordFails,
       VerifyStage, HoldForProgress, VerifyFails, AbortForDeletion, GatePromotes, GateHolds,
       GateInterrupted
  <2> QED BY <1>2, <2>1, <2>2 DEF StageLoop
<1>3. CASE AfterLoop
  <2>1. CASE RollbackStage \/ RollbackUnavailable \/ RollbackDefers
    BY <2>1, RestoredFacts, <1>a, <1>u, <1>s DEF RollbackStage, RollbackUnavailable, RollbackDefers,
       PartlyApplied
  <2>2. CASE PruneStage \/ TearDownRemoved \/ PruneFails
    BY <2>2, <1>d, <1>u DEF PruneStage, TearDownRemoved, PruneFails, PartlyDeleted
  <2>3. CASE \/ RollbackDone \/ StallOnDuplicates \/ StartPrune \/ StartRemoved \/ DropShards
             \/ FinishPrune \/ CommitPass
    BY <2>3, <1>u DEF RollbackDone, StallOnDuplicates, StartPrune, StartRemoved, DropShards,
       FinishPrune, CommitPass
  <2> QED BY <1>3, <2>1, <2>2, <2>3 DEF AfterLoop
<1>4. CASE Teardown
  BY <1>4, <1>d, <1>u DEF Teardown, StartTeardown, TearDownStage, TeardownFails, TeardownForced,
     TeardownInterrupted, FinishTeardown, PartlyDeleted
<1>5. CASE Environment
  <2>1. CASE AdoptObject
    BY <2>1, <1>t, KeptOwn DEF AdoptObject
  <2>2. CASE \/ EditSpec \/ UpdateSource \/ ToggleSuspend \/ RequestDelete \/ TimerFires
             \/ TeardownWaitElapses \/ Crash \/ LoseInventory
    BY <2>2, <1>u DEF EditSpec, UpdateSource, ToggleSuspend, RequestDelete, TimerFires,
       TeardownWaitElapses, Crash, LoseInventory
  <2>3. CASE CrashMidApply
    BY <2>3, <1>a, DyingApply
  <2> QED BY <1>5, <2>1, <2>2, <2>3 DEF Environment
<1>6. CASE UNCHANGED vars
  BY <1>6, <1>u DEF vars
<1> QED BY <1>1, <1>2, <1>3, <1>4, <1>5, <1>6 DEF Next, Reconcile

\* Every write of the inventory records what its stage renders, or what the
\* cluster has labelled with it.
LEMMA OwnShards ==
    ASSUME IInv, OwnInv, [Next]_vars
    PROVE  \A s \in StageNames : shards'[s].refs \subseteq Ever(s)
<1> USE DEF clusterVars, objectVars, statusVars, queueVars, passVars, boundVars
<1> DEFINE Own == \A s \in StageNames : shards'[s].refs \subseteq Ever(s)
<1>g. pc \in {"record", "verify", "gate"} => idx <= Len(run)
  BY DEF IInv, LoopInv
<1>t. shards \in [StageNames -> Record] /\ snapshot \in [StageNames -> SnapshotRef]
  BY DEF IInv, TypeOK, ClusterType, StatusType
<1>u. UNCHANGED shards => Own
  BY DEF OwnInv
<1>w. ASSUME NEW s \in StageNames, NEW refs \in SUBSET Ever(s), WriteRecord(s, refs)
      PROVE  Own
  BY <1>w, <1>t DEF WriteRecord, OwnInv
<1>n. ASSUME \A s \in StageNames : shards'[s] \in {shards[s], NoRecord}
      PROVE  Own
  BY <1>n DEF OwnInv, NoRecord
<1>e. \A s \in StageNames : \A r \in Revisions : Render[s][r] \subseteq Ever(s)
  BY DEF Ever
<1>s. \A s \in StageNames : snapshot[s].rev # NoRev => Render[s][snapshot[s].rev] \subseteq Ever(s)
  BY <1>t, <1>e DEF SnapshotRef
<1>1. CASE \/ AddFinalizer \/ SkipSuspended \/ StartPass \/ ResolveStage \/ EnterLoop
           \/ DeferRun \/ FailBeforeLoop
  BY <1>1, <1>u DEF AddFinalizer, SkipSuspended, StartPass, ResolveStage, EnterLoop, DeferRun,
     FailBeforeLoop
<1>2. CASE StageLoop
  <2>1. CASE RecordStage
    <3>1. Current \in StageNames /\ Render[Current][pinned[Current]] \subseteq Ever(Current)
      BY <2>1, <1>g, <1>e, CurrentFacts DEF RecordStage
    <3>2. PICK listed :
            WriteRecord(Current, Render[Current][pinned[Current]] \cup Reconstructed(Current, listed))
      BY <2>1 DEF RecordStage
    <3>3. Reconstructed(Current, listed) \subseteq Ever(Current)
      BY <3>1 DEF Reconstructed, OwnInv
    <3> QED BY <3>1, <3>2, <3>3, <1>w
  <2>2. CASE GateReverts \/ RevertLost
    <3>1. Current \in StageNames
      BY <2>2, <1>g, CurrentFacts DEF GateReverts, RevertLost
    <3> QED BY <2>2, <3>1, <1>s, <1>w DEF GateReverts, RevertLost
  <2>3. CASE \/ HoldAborted \/ HoldForBudget \/ FailBeforeApply \/ ApplyStage \/ ApplyFails
             \/ RecordFails \/ VerifyStage \/ HoldForProgress \/ VerifyFails \/ AbortForDeletion
             \/ GatePromotes \/ GateHolds \/ GateInterrupted \/ RevertFails
    BY <2>3, <1>u DEF HoldAborted, HoldForBudget, FailBeforeApply, ApplyStage, ApplyFails,
       RecordFails, VerifyStage, HoldForProgress, VerifyFails, AbortForDeletion, GatePromotes,
       GateHolds, GateInterrupted, RevertFails
  <2> QED BY <1>2, <2>1, <2>2, <2>3 DEF StageLoop
<1>3. CASE AfterLoop
  <2>1. CASE RollbackStage
    BY <2>1, RestoredFacts, <1>s, <1>w DEF RollbackStage
  <2>2. CASE DropShards
    BY <2>2, <1>t, <1>n DEF DropShards
  <2>3. CASE \/ RollbackUnavailable \/ RollbackDefers \/ RollbackDone \/ StallOnDuplicates
             \/ StartPrune \/ PruneStage \/ StartRemoved \/ TearDownRemoved \/ FinishPrune
             \/ PruneFails \/ CommitPass
    BY <2>3, <1>u DEF RollbackUnavailable, RollbackDefers, RollbackDone, StallOnDuplicates,
       StartPrune, PruneStage, StartRemoved, TearDownRemoved, FinishPrune, PruneFails, CommitPass
  <2> QED BY <1>3, <2>1, <2>2, <2>3 DEF AfterLoop
<1>4. CASE Teardown
  BY <1>4, <1>n, <1>u DEF Teardown, StartTeardown, TearDownStage, TeardownFails, TeardownForced,
     FinishTeardown
<1>5. CASE Environment
  <2>1. CASE LoseInventory
    BY <2>1, <1>t, <1>n DEF LoseInventory
  <2>2. CASE \/ EditSpec \/ UpdateSource \/ ToggleSuspend \/ RequestDelete \/ TimerFires
             \/ TeardownWaitElapses \/ Crash \/ CrashMidApply \/ AdoptObject
    BY <2>2, <1>u DEF EditSpec, UpdateSource, ToggleSuspend, RequestDelete, TimerFires,
       TeardownWaitElapses, Crash, CrashMidApply, AdoptObject
  <2> QED BY <1>5, <2>1, <2>2 DEF Environment
<1>6. CASE UNCHANGED vars
  BY <1>6, <1>u DEF vars
<1> QED BY <1>1, <1>2, <1>3, <1>4, <1>5, <1>6 DEF Next, Reconcile

\* A pass reads the inventory at its start and forgets it at its end.
LEMMA PreviousMoves ==
    ASSUME IInv, [Next]_vars
    PROVE  \/ UNCHANGED previous
           \/ previous' = shards
           \/ \A s \in StageNames : previous'[s].refs = {}
  BY StepShape DEF PassEnds, PassWaits, PassFails, PassMoves, passVars, StartPass, ResolveStage,
     EnterLoop, ApplyStage, RecordStage, VerifyStage, GatePromotes, RollbackStage, StartPrune,
     PruneStage, StartRemoved, TearDownRemoved, DropShards, FinishPrune, StartTeardown, TearDownStage

\* OwnInv is inductive.
LEMMA OwnStep == IInv /\ OwnInv /\ [Next]_vars => OwnInv'
<1> SUFFICES ASSUME IInv, OwnInv, [Next]_vars PROVE OwnInv'
  OBVIOUS
<1>1. \A s \in StageNames : previous'[s].refs \subseteq Ever(s)
  BY PreviousMoves DEF OwnInv
<1>2. \A s : Ever(s)' = Ever(s)
  BY DEF Ever
<1> QED BY <1>1, <1>2, OwnLive, OwnShards DEF OwnInv

\* A stage with prune: false shares no object with another stage.
KeepersAlone ==
    \A s \in NoPrune : \A t \in StageNames \ {s} : Ever(s) \cap Ever(t) = {}

\* The step that PruneFalseKept asks of every step.
KeepsPruneFalse == \A o \in Objects : Deletes(o) => live[o] \notin NoPrune \cap RunStages

\* What is deleted belongs to the stage it is deleted for, and that stage is
\* neither pruned nor torn down while prune: false keeps it in the spec.
LEMMA KeepsStep ==
    ASSUME Inv, OwnInv, KeepersAlone, [Next]_vars
    PROVE  KeepsPruneFalse
<1> SUFFICES ASSUME NEW o \in Objects, Deletes(o), live[o] \in NoPrune \cap RunStages
             PROVE  FALSE
  BY DEF KeepsPruneFalse
<1>1. DeletionRule
  BY DeletionStep DEF Inv
<1>2. live[o] \in StageNames /\ o \in Ever(live[o])
  BY ConfigAssumption DEF OwnInv
<1>3. ASSUME NEW s \in StageNames, o \in previous[s].refs
      PROVE  s = live[o]
  <2>1. o \in Ever(s)
    BY <1>3 DEF OwnInv
  <2> QED BY <1>2, <1>3, <2>1 DEF KeepersAlone
<1>4. CASE pc \in {"prune", "removed"}
  <2>1. PICK s \in StageNames : o \in previous[s].refs /\ s \notin delivered \cap NoPrune
    BY <1>1, <1>4 DEF DeletionRule
  <2>2. delivered = RunStages
    BY <1>4 DEF Inv, DeliveredInv, DeliveredStayLive, Pruning
  <2> QED BY <1>3, <2>1, <2>2
<1>5. CASE pc = "teardown"
  <2>1. PICK s \in LastStages(todo, previous) : ~Spared(s) /\ o \in previous[s].refs
    BY <1>1, <1>5 DEF DeletionRule
  <2>2. s \in StageNames
    BY <2>1 DEF LastStages, Inv, IInv, TypeOK, PassType
  <2> QED BY <1>3, <2>1, <2>2 DEF Spared
<1> QED BY <1>1, <1>4, <1>5 DEF DeletionRule

\* prune: false is honoured through crashes, failed and abandoned passes, lost
\* inventories and the teardown alike, as long as no other stage renders what
\* the stage keeps.  (Where one does, an unfinished pass that moved an object
\* to the stage leaves it in the record of the other, whose prune or teardown
\* then deletes it.)
THEOREM PruneFalseHonoured == KeepersAlone => (Spec => PruneFalseKept)
<1> SUFFICES ASSUME KeepersAlone PROVE Spec => PruneFalseKept
  OBVIOUS
<1>1. Init => OwnInv
  BY NamesAssumption DEF Init, OwnInv, NoRecord
<1>2. Inv /\ OwnInv /\ [Next]_vars => OwnInv'
  BY OwnStep DEF Inv
<1>3. Inv /\ OwnInv /\ [Next]_vars => [KeepsPruneFalse]_vars
  BY KeepsStep
<1> QED BY <1>1, <1>2, <1>3, Invariance, PTL DEF Spec, PruneFalseKept, KeepsPruneFalse

\* In the prune: what a stage had recorded is its own, unless a stage of this
\* pass has taken it over.
PlannedInv ==
    ~deleting /\ pc \in Pruning =>
        \A s \in StageNames : \A o \in previous[s].refs : Labelled(o, s) \/ Claims(o)

\* The prune deletes, and others take over; neither gives an object to a stage.
LEMMA PlannedKept ==
    ASSUME Inv, PlannedInv, ~deleting, pc \in Pruning,
           UNCHANGED <<run, pinned, previous, delivered>>, pc' \in Pruning,
           \A o \in Objects : live'[o] \in {live[o], Absent, Foreign}
    PROVE  PlannedInv'
<1>1. AppliedNow' = AppliedNow
  BY DEF AppliedNow, Pruning
<1>2. \A o : Claims(o)' <=> Claims(o)
  BY <1>1 DEF Claims
<1>3. \A s \in StageNames : previous[s].refs \subseteq Objects
  BY DEF Inv, IInv, TypeOK, PassType, Record
<1> QED BY <1>2, <1>3 DEF PlannedInv, Labelled

\* PlannedInv holds after every undisturbed step: RunningInv hands it over when
\* the prune starts.
LEMMA PlannedStep ==
    ASSUME Inv, CleanInv, PlannedInv, [Next]_vars, Undisturbed \/ UNCHANGED vars
    PROVE  PlannedInv'
<1> USE DEF clusterVars, objectVars, statusVars, queueVars, passVars, boundVars
<1> SUFFICES ASSUME ~deleting', pc' \in Pruning PROVE PlannedInv'
  BY DEF PlannedInv
<1>t. live \in [Objects -> StageNames \cup {Absent, Foreign}]
  BY DEF Inv, IInv, TypeOK, ClusterType
<1>d. ~deleting
  BY CleanShape
<1>1. CASE Waits
  BY <1>1, <1>d, PlannedKept DEF Waits
<1>2. CASE PruneStage \/ TearDownRemoved
  <2>1. \A o \in Objects : live'[o] \in {live[o], Absent, Foreign}
    BY <1>2, <1>t, DeletedType DEF PruneStage, TearDownRemoved
  <2>2. pc \in Pruning /\ UNCHANGED <<run, pinned, previous, delivered>>
    BY <1>2 DEF PruneStage, TearDownRemoved, Pruning
  <2> QED BY <2>1, <2>2, <1>d, PlannedKept
<1>3. CASE StartRemoved \/ DropShards \/ FinishPrune
  <2>1. \A o \in Objects : live'[o] \in {live[o], Absent, Foreign}
    BY <1>3 DEF StartRemoved, DropShards, FinishPrune
  <2>2. pc \in Pruning /\ UNCHANGED <<run, pinned, previous, delivered>>
    BY <1>3 DEF StartRemoved, DropShards, FinishPrune, Pruning
  <2> QED BY <2>1, <2>2, <1>d, PlannedKept
<1>4. CASE StartPrune
  <2>1. pc = "stage" /\ UNCHANGED <<live, run, pinned, previous, delivered>>
    BY <1>4 DEF StartPrune, LoopDone
  <2>2. \A s \in StageNames : \A o \in previous[s].refs : Labelled(o, s) \/ Claims(o)
    BY <2>1, <1>d DEF CleanInv, RunningInv, Looping
  <2>3. AppliedNow' = AppliedNow
    BY <2>1, <1>4 DEF AppliedNow, Pruning
  <2>4. \A o : Claims(o)' <=> Claims(o)
    BY <2>1, <2>3 DEF Claims
  <2> QED BY <2>1, <2>2, <2>4 DEF PlannedInv, Labelled
<1>5. CASE \/ Rests \/ EnterLoop \/ ApplyStage \/ RecordStage \/ VerifyStage \/ GatePromotes
           \/ CommitPass
  BY <1>5 DEF Rests, EnterLoop, ApplyStage, RecordStage, VerifyStage, GatePromotes, CommitPass,
     EndPass, Pruning
<1> QED BY <1>1, <1>2, <1>3, <1>4, <1>5, CleanShape

\* The prune of an undisturbed pass spares what prune: false keeps.
LEMMA PlannedSpares ==
    ASSUME Inv, PlannedInv, [Next]_vars, ~deleting
    PROVE  KeepsPruneFalse
<1> SUFFICES ASSUME NEW o \in Objects, Deletes(o), live[o] \in NoPrune \cap RunStages
             PROVE  FALSE
  BY DEF KeepsPruneFalse
<1>1. DeletionRule
  BY DeletionStep DEF Inv
<1>2. pc # "teardown"
  BY DEF Inv, TeardownInv
<1>3. pc \in Pruning /\ o \notin Claimed(Desired)
  BY <1>1, <1>2 DEF DeletionRule, Pruning
<1>4. PICK s \in StageNames : o \in previous[s].refs /\ s \notin delivered \cap NoPrune
  BY <1>1, <1>2 DEF DeletionRule
<1>5. AppliedNow = delivered
  BY <1>3 DEF AppliedNow, Pruning
<1>6. ~Claims(o)
  BY <1>3, <1>5 DEF Claims, Claimed, Desired
<1>7. live[o] = s
  BY <1>1, <1>3, <1>4, <1>6 DEF PlannedInv, Labelled, DeletionRule, Deletes
<1>8. delivered = RunStages
  BY <1>3 DEF Inv, DeliveredInv, DeliveredStayLive
<1> QED BY <1>4, <1>7, <1>8

\* Until the deletion is requested, undisturbed passes honour prune: false
\* whatever the stages share: an object that moves to such a stage is the
\* stage's from the pass that moves it on.
THEOREM PruneFalseHonouredMoving ==
    Spec /\ [][Undisturbed]_vars => [][~deleting => KeepsPruneFalse]_vars
<1>1. Init => CleanInv /\ PlannedInv
  BY NamesAssumption DEF Init, CleanInv, BetweenInv, PassInv, RunningInv, PruningInv, PlannedInv,
     Looping, Pruning, NoStatus, NoRecord, Prunable, Labelled
<1>2. Inv /\ CleanInv /\ PlannedInv /\ [Next]_vars /\ [Undisturbed]_vars => CleanInv' /\ PlannedInv'
  BY CleanStep, PlannedStep
<1>3. Inv /\ PlannedInv /\ [Next]_vars => [~deleting => KeepsPruneFalse]_vars
  BY PlannedSpares
<1> QED BY <1>1, <1>2, <1>3, Invariance, PTL DEF Spec
=============================================================================
