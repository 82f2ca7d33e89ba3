---------------------------- MODULE ActionLedger ----------------------------
(***************************************************************************)
(* Which pre, post and onFailure actions a pass of the stage loop runs     *)
(* (internal/controller/actionledger.go, lifetimeledger.go, anchor.go, the *)
(* executor of internal/actions, and the ledger's part of the stage loop). *)
(*                                                                         *)
(* Every stage keeps two ledgers in its status, keyed by revision and by   *)
(* version, and the actions of scope Lifetime are recorded in a            *)
(* StageLedger object that outlives the StageSet.  A pass works on copies  *)
(* in memory; what it learned is kept only if it reaches a status write,   *)
(* while a Lifetime completion is written as soon as the action succeeds.  *)
(* Applying, verifying and gating a stage appear only as the exits they    *)
(* can take, since the exits decide which ledgers are written.             *)
(***************************************************************************)
EXTENDS Integers, Sequences, SequencesExt

CONSTANTS
    Stages, NoStage,    \* spec.stages: a sequence of stage names; NoStage is ""
    Pre, Post,          \* actions.pre and actions.post of each stage
    OnFailure,          \* actions.onFailure of each stage
    Scope,              \* EffectiveScope of each pre and post action
    Anchored,           \* the Lifetime actions with a completionAnchor
    Revisions, NoRev,   \* revisions of the artifact the stages share; NoRev is ""
    Versions, NoVer,    \* what spec.version resolves to; NoVer is ""
    MaxActionFailures,  \* maxActionFailures
    Faults,             \* the disturbances this instance explores
    MaxEvents           \* bound on what happens around the controller

StageNames == Range(Stages)
PrePost(s) == Range(Pre[s]) \cup Range(Post[s])
ActionsOf(s) == PrePost(s) \cup Range(OnFailure[s])
Actions == UNION {ActionsOf(s) : s \in StageNames}

\* onFailure actions have no scope and fall into the revision ledger.
Scoped(s, scope) ==
    IF scope = "Revision"
    THEN Range(OnFailure[s]) \cup {a \in PrePost(s) : Scope[a] = "Revision"}
    ELSE {a \in PrePost(s) : Scope[a] = scope}
Lifetime == UNION {Scoped(s, "Lifetime") : s \in StageNames}

LedgerFaults ==
    {"early", "connect", "action", "record", "apply", "hold", "gate", "progress",
     "rollback", "stall", "lost", "unreadable", "recreate"}

\* Stage names are unique, and so are the action names of a stage; an action
\* here stands for its name together with its stage.
ASSUME LedgerAssumption ==
    /\ Stages \in Seq(StageNames) /\ Stages # <<>> /\ IsInjective(Stages)
    /\ \A s, t \in StageNames : s # t => ActionsOf(s) \cap ActionsOf(t) = {}
    /\ \A s \in StageNames : Range(Pre[s]) \cap Range(Post[s]) = {}
    /\ \A s \in StageNames : PrePost(s) \cap Range(OnFailure[s]) = {}
    /\ \A s \in StageNames : \A a \in PrePost(s) : Scope[a] \in {"Revision", "Version", "Lifetime"}
    /\ NoStage \notin StageNames /\ NoRev \notin Revisions /\ NoVer \notin Versions
    /\ Anchored \subseteq Lifetime
    /\ MaxActionFailures \in Nat \ {0}
    /\ Faults \subseteq LedgerFaults
    /\ MaxEvents \in Nat

VARIABLES
    revision,   \* the revision the source offers
    version,    \* the version spec.version resolves to
    force,      \* the reconcile-stage annotation: a stage and a token, 0 for none
    reset,      \* the reset-scope annotation; 0 for none
    witness,    \* incarnations of the anchor object: odd is its UID, even while it is absent
    asserted,   \* spec.baseline of the StageLedger
    request,    \* a manual reconcile request is not handled yet
    queued,     \* a pass is due: an event or a requeue is in the work queue
    status,     \* status.stages
    current,    \* status.version
    resetDone,  \* status.lastHandledResetScope
    failCount,  \* status.actionFailureCount, up to MaxActionFailures
    completed,  \* StageLedger status.completedActions
    pass,       \* the pass in memory; NoPass between passes
    events,
    \* What should happen, kept only to state the properties:
    truth,      \* the actions that are owed, as of the last status write
    attempts    \* failed runs of Lifetime actions since the last outside event

inputVars == <<revision, version, force, reset, witness, asserted, events>>
statusVars == <<status, current, resetDone, failCount>>
vars == <<inputVars, queued, request, statusVars, completed, pass, truth, attempts>>

-----------------------------------------------------------------------------
(* Ledgers. *)

\* A stage without an entry in status.stages.
NoStatus == [phase |-> "None", rev |-> NoRev, executed |-> {}, ver |-> NoVer,
             versioned |-> {}, handled |-> 0]

StageStatus ==
    [phase : {"None", "Held", "Failed", "Verifying", "Ready"},
     rev : Revisions \cup {NoRev}, executed : SUBSET Actions,
     ver : Versions \cup {NoVer}, versioned : SUBSET Actions, handled : 0 .. MaxEvents]

NoLedger == [rev |-> NoRev, executed |-> {}, ver |-> NoVer, versioned |-> {}, done |-> {}]
NoPass == [pc |-> "idle"]

\* A completion of a Lifetime action: Nothing when there is none, 0 for one that
\* is retained unconditionally, else the recorded UID of the anchor object.
Nothing == -1

NoForce == [stage |-> NoStage, token |-> 0]

\* At first everything is owed and no stage has been entered.
NothingDone ==
    [owed |-> Actions, seen |-> [s \in StageNames |-> [rev |-> NoRev, ver |-> NoVer]],
     erased |-> {}, skipped |-> {}]

\* The anchor object exists.
Present == witness % 2 = 1

stage == Stages[pass.at]

\* Mutation: a ledger is carried whatever revision it was written for.
CarriedAtAnyRevision(s) ==
    [rev |-> pass.rev, ver |-> pass.ver, done |-> {},
     executed |-> pass.prior[s].executed,
     versioned |-> (IF pass.prior[s].ver = pass.ver THEN pass.prior[s].versioned ELSE {})
                   \cup (IF pass.baseline THEN Scoped(s, "Version") ELSE {})]

\* Each ledger is carried over while its key is the pinned one; at first
\* adoption the Version actions count as done.
Assembled(s) ==
    [rev |-> pass.rev, ver |-> pass.ver, done |-> {},
     executed |-> IF pass.prior[s].rev = pass.rev THEN pass.prior[s].executed ELSE {},
     versioned |-> (IF pass.prior[s].ver = pass.ver THEN pass.prior[s].versioned ELSE {})
                   \cup (IF pass.baseline THEN Scoped(s, "Version") ELSE {})]

DoneSet(led) == led.executed \cup led.versioned \cup led.done

\* What the executor will run of a list: the done-set is taken when it starts.
Todo(list, led) == Range(list) \ DoneSet(led)

\* Mutation: every action is recorded by revision.
RecordedByRevision(led, s, a) == [led EXCEPT !.executed = @ \cup {a}]

\* A success goes into the ledger of the action's scope.
Recorded(led, s, a) ==
    IF a \in Scoped(s, "Version") THEN [led EXCEPT !.versioned = @ \cup {a}]
    ELSE [led EXCEPT !.executed = @ \cup {a}]

Stamp(phase, led, tok) ==
    [phase |-> phase, rev |-> led.rev, executed |-> led.executed, ver |-> led.ver,
     versioned |-> led.versioned, handled |-> tok]

\* The force token a finished stage records.
LastHandledFor(s) == IF s = pass.forced THEN pass.token ELSE pass.prior[s].handled

\* Entries made by this pass win; stages it did not reach keep theirs.
Merged(out) == [s \in StageNames |-> IF out[s] # NoStatus THEN out[s] ELSE status[s]]

-----------------------------------------------------------------------------
(* The actions that are owed.  A pass keeps its own view in pass.work. *)

\* Stage s is entered at the pinned revision and version.
Entered(w, s) ==
    [w EXCEPT
        !.owed = (@ \ (IF pass.baseline THEN Scoped(s, "Version") ELSE {}))
                 \cup (IF w.seen[s].rev # pass.rev \/ s = pass.forced
                       THEN Scoped(s, "Revision") ELSE {})
                 \cup (IF w.seen[s].ver # pass.ver /\ ~pass.baseline
                       THEN Scoped(s, "Version") ELSE {}),
        !.seen[s] = [rev |-> pass.rev, ver |-> pass.ver]]

Paid(w, as) == [w EXCEPT !.owed = @ \ as, !.erased = @ \ as, !.skipped = @ \ as]
Owing(w, as) == [w EXCEPT !.owed = @ \cup as]

-----------------------------------------------------------------------------
(* How a pass ends. *)

\* The stages in out are written over status.stages, with the pass's counters.
Write(out, w, again) ==
    /\ status' = Merged(out)
    /\ resetDone' = pass.reset
    /\ failCount' = pass.fails
    /\ truth' = [w EXCEPT !.skipped = @ \cup
                    (IF pass.reset = resetDone THEN {}
                     ELSE UNION {Scoped(s, "Version") :
                                    s \in {t \in StageNames : out[t] = NoStatus}})]
    /\ queued' \in again
    /\ pass' = NoPass
    /\ UNCHANGED <<inputVars, current>>

\* failStage: the ledger is kept, the handled force token is not.  A dirty halt
\* is not retried, nor is an error the API server would repeat.
FailStage(led, w) ==
    Write([pass.out EXCEPT ![stage] = Stamp("Failed", led, 0)], w,
          IF pass.dirty THEN {queued} ELSE {TRUE, queued})

-----------------------------------------------------------------------------
(* Before the stage loop. *)

ForcePending ==
    /\ force.token # 0
    /\ status[force.stage] # NoStatus
    /\ status[force.stage].handled # force.token

ResetPending == reset # 0 /\ reset # resetDone

\* The statuses the loop starts from: a force request clears the revision ledger
\* of its stage, a reset request the version ledgers of all.
PriorStages ==
    LET forced(s) == IF ForcePending /\ s = force.stage
                     THEN [status[s] EXCEPT !.executed = {}, !.rev = NoRev] ELSE status[s]
        cleared(s) == IF ResetPending
                      THEN [forced(s) EXCEPT !.versioned = {}, !.ver = NoVer] ELSE forced(s)
    IN  [s \in StageNames |-> cleared(s)]

\* The failure counter, cleared by a manual reconcile request.
StartCount == IF request THEN 0 ELSE failCount

(***************************************************************************)
(* Connecting to the cluster or building the decryptor fails: the failure  *)
(* is written onto the first stage, with an empty ledger, and the error is *)
(* returned, which re-queues.                                              *)
(***************************************************************************)
FailBeforeLoop ==
    /\ "early" \in Faults
    /\ pass = NoPass /\ queued
    /\ status' = [status EXCEPT ![Stages[1]] = Stamp("Failed", NoLedger, 0)]
    /\ failCount' = StartCount
    /\ request' = FALSE
    /\ attempts' = IF request THEN 0 ELSE attempts
    /\ truth' = [truth EXCEPT !.erased =
                    @ \cup status[Stages[1]].executed \cup status[Stages[1]].versioned]
    /\ UNCHANGED <<inputVars, queued, current, resetDone, completed, pass>>

\* The pass pins its inputs, clears what a request asks for, and promotes the
\* baseline assertions to completions.
StartPass ==
    /\ pass = NoPass /\ queued
    /\ LET promoted == {a \in asserted : completed[a] = Nothing}
           w == Paid(truth, promoted)
       IN  /\ completed' = [a \in Lifetime |-> IF a \in promoted THEN 0 ELSE completed[a]]
           /\ truth' = w
           /\ pass' = [pc |-> "enter", at |-> 1, rev |-> revision, ver |-> version,
                       baseline |-> current = NoVer,
                       forced |-> IF ForcePending THEN force.stage ELSE NoStage,
                       token |-> IF ForcePending THEN force.token ELSE 0,
                       reset |-> IF ResetPending THEN reset ELSE resetDone,
                       request |-> request,
                       prior |-> PriorStages,
                       out |-> [s \in StageNames |-> NoStatus],
                       led |-> NoLedger, todo |-> {},
                       fails |-> StartCount, dirty |-> FALSE,
                       work |-> IF ResetPending
                                THEN Owing(w, {a \in Actions : \E s \in StageNames : a \in Scoped(s, "Version")})
                                ELSE w]
    /\ queued' = FALSE
    /\ request' = FALSE
    /\ attempts' = IF request THEN 0 ELSE attempts
    /\ UNCHANGED <<inputVars, statusVars>>

-----------------------------------------------------------------------------
(* The stage loop. *)

AtStage(pc) == pass # NoPass /\ pass.pc = pc /\ pass.at <= Len(Stages)

\* The stage is kept at its prior status: an aborted revision or its budget.
HoldStage ==
    /\ "hold" \in Faults
    /\ AtStage("enter")
    /\ LET held == IF pass.prior[stage] = NoStatus
                   THEN [NoStatus EXCEPT !.phase = "Held"] ELSE pass.prior[stage]
       IN  Write([pass.out EXCEPT ![stage] = held],
                 IF stage = pass.forced THEN Owing(pass.work, Scoped(stage, "Revision"))
                 ELSE pass.work,
                 {TRUE})
    /\ UNCHANGED <<request, completed, attempts>>

\* The stage's connection, or the StageLedger write below, fails.
FailConnect ==
    /\ "connect" \in Faults
    /\ AtStage("enter")
    /\ FailStage(Assembled(stage), Entered(pass.work, stage))
    /\ UNCHANGED <<request, completed, attempts>>

\* Completions whose witness is absent or another object.
Gone(s) == {a \in Scoped(s, "Lifetime") : completed[a] > 0 /\ completed[a] # witness}

(***************************************************************************)
(* The ledgers are assembled and the Lifetime completions checked against  *)
(* their witnesses: one that is gone drops the completion, one that cannot *)
(* be read keeps it.                                                       *)
(***************************************************************************)
EnterStage ==
    /\ AtStage("enter")
    /\ \E unreadable \in {FALSE} \cup {"unreadable" \in Faults} :
        LET dropped == IF unreadable THEN {} ELSE Gone(stage)
            led == [Assembled(stage) EXCEPT
                        !.done = {a \in Scoped(stage, "Lifetime") :
                                    completed[a] # Nothing /\ a \notin dropped}]
        IN  /\ completed' = [a \in Lifetime |-> IF a \in dropped THEN Nothing ELSE completed[a]]
            /\ truth' = Owing(truth, dropped)
            /\ pass' = [pass EXCEPT !.pc = "pre", !.led = led,
                                    !.todo = Todo(Pre[stage], led),
                                    !.work = Owing(Entered(@, stage), dropped)]
    /\ UNCHANGED <<inputVars, queued, request, statusVars, attempts>>

Running == AtStage("pre") \/ AtStage("post") \/ AtStage("onFailure")
List == CASE pass.pc = "pre" -> Pre[stage]
          [] pass.pc = "post" -> Post[stage]
          [] OTHER -> OnFailure[stage]

\* The executor has come to action a: what it will still run is taken in list order.
Ran(a) ==
    /\ Running /\ a \in pass.todo
    /\ \E i \in DOMAIN List : List[i] = a /\ \A j \in 1 .. (i - 1) : List[j] \notin pass.todo

\* The action succeeds and is recorded in the ledger of its scope, in memory.
RunAction(a) ==
    /\ Ran(a) /\ a \notin Lifetime
    /\ pass' = [pass EXCEPT !.led = Recorded(@, stage, a), !.todo = @ \ {a},
                            !.work = Paid(@, {a})]
    /\ UNCHANGED <<inputVars, queued, request, statusVars, completed, truth, attempts>>

\* Mutation: the completion is not written.
RunLifetimeUnwritten(a) ==
    /\ Ran(a) /\ a \in Lifetime
    /\ a \in Anchored => Present
    /\ pass' = [pass EXCEPT !.todo = @ \ {a}, !.work = Paid(@, {a})]
    /\ truth' = Paid(truth, {a})
    /\ UNCHANGED <<inputVars, queued, request, statusVars, completed, attempts>>

\* A Lifetime completion is written at once, with the UID of its witness.
RunLifetime(a) ==
    /\ Ran(a) /\ a \in Lifetime
    /\ a \in Anchored => Present
    /\ completed' = [completed EXCEPT ![a] = IF a \in Anchored THEN witness ELSE 0]
    /\ pass' = [pass EXCEPT !.todo = @ \ {a}, !.work = Paid(@, {a})]
    /\ truth' = Paid(truth, {a})
    /\ UNCHANGED <<inputVars, queued, request, statusVars, attempts>>

\* Mutation: only failures of the last attempt count.
CountedOnce == [pass EXCEPT !.fails = 1, !.dirty = 1 >= MaxActionFailures]

\* actionFailureOp: with a Lifetime action pending when the stage was entered,
\* the failure counts towards the dirty halt.
Counted ==
    IF Scoped(stage, "Lifetime") \subseteq pass.led.done THEN pass
    ELSE LET n == IF pass.fails < MaxActionFailures THEN pass.fails + 1 ELSE pass.fails
         IN  [pass EXCEPT !.fails = n, !.dirty = n >= MaxActionFailures]

(***************************************************************************)
(* The action fails; or a Lifetime action succeeds and its completion      *)
(* cannot be written, for instance because its witness does not exist.     *)
(* After a pre action the stage fails, after a post action its onFailure   *)
(* actions run first, and an onFailure action only ends its own list.      *)
(***************************************************************************)
ActionFails(a) ==
    /\ Ran(a)
    /\ \/ "action" \in Faults
       \/ a \in Lifetime /\ "record" \in Faults
       \/ a \in Anchored /\ ~Present
    /\ pass' = IF pass.pc = "onFailure" THEN [pass EXCEPT !.todo = {}]
               ELSE [Counted EXCEPT !.pc = "onFailure",
                        !.todo = IF pass.pc = "pre" THEN {} ELSE Todo(OnFailure[stage], pass.led)]
    /\ attempts' = IF a \in Lifetime THEN attempts + 1 ELSE attempts
    /\ UNCHANGED <<inputVars, queued, request, statusVars, completed, truth>>

\* The failure is written once the onFailure actions are through.  With
\* rollbackOnFailure a rollback that fails too is retried, even after a dirty halt.
FinishFailure ==
    /\ AtStage("onFailure") /\ pass.todo = {}
    /\ \/ FailStage(pass.led, pass.work) /\ UNCHANGED attempts
       \/ /\ "rollback" \in Faults
          /\ Write([pass.out EXCEPT ![stage] = Stamp("Failed", pass.led, 0)], pass.work, {TRUE})
          /\ attempts' = 0
    /\ UNCHANGED <<request, completed>>

\* Fetched, built, applied, recorded and verified.
ApplyStage ==
    /\ AtStage("pre") /\ pass.todo = {}
    /\ pass' = [pass EXCEPT !.pc = "post", !.todo = Todo(Post[stage], pass.led)]
    /\ UNCHANGED <<inputVars, queued, request, statusVars, completed, truth, attempts>>

\* A failure before the apply is written as it is; the apply, the inventory
\* write or the verification failing runs the onFailure actions.
ApplyFails ==
    /\ "apply" \in Faults
    /\ AtStage("pre") /\ pass.todo = {}
    /\ \E todo \in {{}, Todo(OnFailure[stage], pass.led)} :
        pass' = [pass EXCEPT !.pc = "onFailure", !.todo = todo]
    /\ UNCHANGED <<inputVars, queued, request, statusVars, completed, truth, attempts>>

\* Still becoming ready: the ledger is kept, the handled force token is not.
HoldForProgress ==
    /\ "progress" \in Faults
    /\ AtStage("pre") /\ pass.todo = {}
    /\ Write([pass.out EXCEPT ![stage] = Stamp("Verifying", pass.led, 0)], pass.work, {TRUE})
    /\ UNCHANGED <<request, completed, attempts>>

Finished == [pass.out EXCEPT ![stage] = Stamp("Ready", pass.led, LastHandledFor(stage))]

\* The promotion gate holds, or cannot be evaluated.
GateHolds ==
    /\ "gate" \in Faults
    /\ AtStage("post") /\ pass.todo = {}
    /\ Write(Finished, pass.work, {TRUE})
    /\ UNCHANGED <<request, completed, attempts>>

FinishStage ==
    /\ AtStage("post") /\ pass.todo = {}
    /\ pass' = [pass EXCEPT !.pc = "enter", !.at = @ + 1, !.out = Finished, !.led = NoLedger]
    /\ UNCHANGED <<inputVars, queued, request, statusVars, completed, truth, attempts>>

-----------------------------------------------------------------------------
(* After the stage loop. *)

LoopDone == pass # NoPass /\ pass.pc = "enter" /\ pass.at > Len(Stages)

\* Duplicate claims: the status is patched without the stages.
StallOnDuplicates ==
    /\ "stall" \in Faults
    /\ LoopDone
    /\ resetDone' = pass.reset
    /\ failCount' = pass.fails
    /\ pass' = NoPass
    /\ UNCHANGED <<inputVars, queued, request, status, current, completed, truth, attempts>>

CommitPass ==
    /\ LoopDone
    /\ status' = pass.out
    /\ current' = pass.ver
    /\ resetDone' = pass.reset
    /\ failCount' = 0
    /\ truth' = pass.work
    /\ attempts' = 0
    /\ queued' = TRUE
    /\ pass' = NoPass
    /\ UNCHANGED <<inputVars, request, completed>>

\* The process dies, the prune fails, the deletion abandons the pass, or the
\* status write itself fails: what the pass had in memory is gone.
LosePass ==
    /\ "lost" \in Faults
    /\ pass # NoPass
    /\ pass' = NoPass
    /\ queued' = TRUE
    /\ request' = (request \/ pass.request)
    /\ attempts' = 0
    /\ UNCHANGED <<inputVars, statusVars, completed, truth>>

-----------------------------------------------------------------------------
(* The world around the controller. *)

Happens == events < MaxEvents /\ events' = events + 1

\* Every event puts the StageSet into the work queue.  A pass reads its inputs
\* when it starts, so what happens during a pass might as well happen after it;
\* only the anchor object is read later.
Event == pass = NoPass /\ queued' = TRUE /\ attempts' = 0 /\ UNCHANGED <<statusVars, completed, pass, truth>>

UpdateSource ==
    /\ Happens
    /\ \E r \in Revisions, v \in Versions :
        /\ <<r, v>> # <<revision, version>>
        /\ revision' = r /\ version' = v
    /\ Event
    /\ UNCHANGED <<force, reset, witness, asserted, request>>

\* stagesetctl reconcile --stage, or the annotation alone.
RequestForce ==
    /\ Happens
    /\ \E s \in StageNames : force' = [stage |-> s, token |-> force.token + 1]
    /\ request' \in {request, TRUE}
    /\ Event
    /\ UNCHANGED <<revision, version, reset, witness, asserted>>

\* stagesetctl reconcile --reset-scope=Version, which requests a reconcile too.
RequestReset ==
    /\ Happens
    /\ reset' = reset + 1
    /\ request' = TRUE
    /\ Event
    /\ UNCHANGED <<revision, version, force, witness, asserted>>

\* flux reconcile
RequestReconcile ==
    /\ Happens
    /\ request' = TRUE
    /\ Event
    /\ UNCHANGED <<revision, version, force, reset, witness, asserted>>

\* stagesetctl baseline
AssertBaseline ==
    /\ Happens
    /\ pass = NoPass
    /\ \E a \in Lifetime \ asserted : asserted' = asserted \cup {a}
    /\ UNCHANGED <<revision, version, force, reset, witness, queued, request,
                   statusVars, completed, pass, truth, attempts>>

\* The anchor object is created or deleted; every incarnation has its own UID.
ChangeWitness ==
    /\ Happens
    /\ witness' = witness + 1
    /\ UNCHANGED <<revision, version, force, reset, asserted, queued, request,
                   statusVars, completed, pass, truth, attempts>>

\* The StageSet is deleted and created again; its StageLedger stays.
RecreateStageSet ==
    /\ "recreate" \in Faults
    /\ pass = NoPass
    /\ Happens
    /\ status' = [s \in StageNames |-> NoStatus]
    /\ current' = NoVer
    /\ resetDone' = 0 /\ failCount' = 0
    /\ force' = NoForce /\ reset' = 0 /\ request' = FALSE
    /\ truth' = [NothingDone EXCEPT !.owed = (Actions \ Lifetime) \cup (truth.owed \cap Lifetime)]
    /\ queued' = TRUE /\ attempts' = 0
    /\ UNCHANGED <<revision, version, witness, asserted, completed, pass>>

-----------------------------------------------------------------------------

Init ==
    /\ revision \in Revisions
    /\ version \in Versions
    /\ force = NoForce
    /\ reset = 0
    /\ witness \in {0, 1}
    /\ asserted = {}
    /\ events = 0
    /\ request = FALSE
    /\ queued = TRUE
    /\ status = [s \in StageNames |-> NoStatus]
    /\ current = NoVer
    /\ resetDone = 0
    /\ failCount = 0
    /\ completed = [a \in Lifetime |-> Nothing]
    /\ pass = NoPass
    /\ truth = NothingDone
    /\ attempts = 0

Pass ==
    \/ FailBeforeLoop \/ StartPass \/ HoldStage \/ FailConnect \/ EnterStage
    \/ \E a \in Actions : RunAction(a) \/ RunLifetime(a) \/ ActionFails(a)
    \/ FinishFailure \/ ApplyStage \/ ApplyFails \/ HoldForProgress
    \/ GateHolds \/ FinishStage \/ StallOnDuplicates \/ CommitPass \/ LosePass

World ==
    \/ UpdateSource \/ RequestForce \/ RequestReset \/ RequestReconcile
    \/ AssertBaseline \/ ChangeWitness \/ RecreateStageSet

Next == Pass \/ World

Spec == Init /\ [][Next]_vars

-----------------------------------------------------------------------------

Account ==
    [owed : SUBSET Actions,
     seen : [StageNames -> [rev : Revisions \cup {NoRev}, ver : Versions \cup {NoVer}]],
     erased : SUBSET Actions, skipped : SUBSET Actions]

Ledger ==
    [rev : Revisions \cup {NoRev}, executed : SUBSET Actions,
     ver : Versions \cup {NoVer}, versioned : SUBSET Actions, done : SUBSET Actions]

Passes ==
    [pc : {"enter", "pre", "post", "onFailure"}, at : 1 .. (Len(Stages) + 1),
     rev : Revisions, ver : Versions, baseline : BOOLEAN,
     forced : StageNames \cup {NoStage}, token : 0 .. MaxEvents, reset : 0 .. MaxEvents,
     request : BOOLEAN, prior : [StageNames -> StageStatus], out : [StageNames -> StageStatus],
     led : Ledger, todo : SUBSET Actions, fails : 0 .. MaxActionFailures, dirty : BOOLEAN,
     work : Account]

\* The actions of stage s in a ledger are in the one of their scope.
Filed(s, led) ==
    /\ led.executed \subseteq Scoped(s, "Revision")
    /\ led.versioned \subseteq Scoped(s, "Version")

InputType ==
    /\ revision \in Revisions /\ version \in Versions
    /\ force \in [stage : StageNames \cup {NoStage}, token : 0 .. MaxEvents]
    /\ reset \in 0 .. MaxEvents /\ witness \in 0 .. (MaxEvents + 1)
    /\ asserted \subseteq Lifetime /\ events \in 0 .. MaxEvents

StatusType ==
    /\ status \in [StageNames -> StageStatus]
    /\ \A s \in StageNames : Filed(s, status[s])
    /\ current \in Versions \cup {NoVer}
    /\ resetDone \in 0 .. MaxEvents /\ failCount \in 0 .. MaxActionFailures

PassType ==
    /\ completed \in [Lifetime -> -1 .. (MaxEvents + 1)]
    /\ pass \in Passes \cup {NoPass}
    /\ truth \in Account
    /\ attempts \in Nat

\* Every variable has the type of the status field it models, and the ledgers
\* hold each action by its scope.
TypeOK ==
    /\ InputType /\ StatusType /\ PassType
    /\ request \in BOOLEAN /\ queued \in BOOLEAN

(***************************************************************************)
(* No side effect is repeated: the executor's list only holds actions that *)
(* are owed - never run for this revision, version or witness, asked for   *)
(* again by a force or reset request, or lost with an unwritten pass -     *)
(* whatever failed, held or was lost before, and even after the StageSet   *)
(* was deleted and created again.  The exception is a first stage whose    *)
(* ledger a failure before the stage loop has erased: failStage writes it  *)
(* an empty one.                                                           *)
(***************************************************************************)
ActionOnceUnlessErased ==
    pass # NoPass => pass.todo \subseteq pass.work.owed \cup pass.work.erased

(***************************************************************************)
(* No side effect is skipped: a stage becomes Ready only when none of its  *)
(* pre and post actions is owed.  The exception are the Version actions of *)
(* a stage that the pass handling a reset request did not reach: that pass *)
(* marks the request as handled all the same.                              *)
(***************************************************************************)
NothingOwedUnlessSkipped ==
    AtStage("post") /\ pass.todo = {} =>
        PrePost(stage) \cap pass.work.owed \subseteq pass.work.skipped

(***************************************************************************)
(* A bootstrap that keeps failing is left alone: without an event from     *)
(* outside, a lost status write or a failed rollback, Lifetime actions     *)
(* fail at most MaxActionFailures times.                                   *)
(***************************************************************************)
DirtyHalts == attempts <= MaxActionFailures
=============================================================================
