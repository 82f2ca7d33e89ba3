----------------------------- MODULE Migrations -----------------------------
(***************************************************************************)
(* Version transitions of one StageSet: planning the migrations an upgrade *)
(* or a downgrade crosses, holding them for approval, running them anchored*)
(* to the stages, and the two in-flight ledgers that let a retry resume    *)
(* (internal/controller/migrations.go, migration_approval.go,              *)
(* internal/migrations, and the reconciler's use of them).                 *)
(*                                                                         *)
(* Versions are numbers in their semver order.  A migration's content is   *)
(* its digest; its key is <<name, digest>>.  What the actions do to the    *)
(* outside world is kept in "content": the content last completed for each *)
(* boundary.  Passes of one StageSet never overlap; a pass works on the    *)
(* object it read at its start and keeps the ledgers in memory until a     *)
(* status write.                                                           *)
(***************************************************************************)
EXTENDS Naturals, Sequences, FiniteSets, SequencesExt

CONSTANTS
    Versions,           \* semvers, as positive numbers
    Major,              \* the major number of each version
    NoVersion,          \* an unset version, annotation or status field
    NotSemver,          \* version text that does not parse
    StageList,          \* spec.stages: records with name and migrationAnchor
    NoAnchor,           \* an unset stage reference
    Ladders,            \* the ladders a user may write
    VersionReads,       \* what reading the version source may meet
    LadderReads,        \* what reading the migration ladder may meet
    Policies,           \* pairs of approvalMode and allowDowngrade this instance explores
    MaxLadderLen, MaxActions, MaxRetries,   \* limits of ValidateLadder
    MaxMigrationFailures,                   \* maxMigrationFailures, 5 in the code
    RequireCoverage, RequireVerified, RequirePinned, HostsAllowed,
    Starts,             \* pairs of status.version and spec.version to start from
    EditsInFlight,      \* the user may retarget a transition that has begun
    MaxEdits, MaxFaults \* bounds on edits, and on faults and crashes together

ASSUME MigrationAssumption ==
    /\ Versions \subseteq Nat \ {0} /\ Major \in [Versions -> Nat]
    /\ NoVersion \notin Versions /\ NotSemver \notin Versions
    /\ StageList \in Seq(ToSet(StageList)) /\ StageList # <<>>
    /\ Starts \subseteq (Versions \cup {NoVersion}) \X Versions
    /\ Policies \subseteq {"Never", "OnMigrations", "Always"} \X BOOLEAN
    /\ MaxMigrationFailures \in Nat \ {0, 1}
    /\ {RequireCoverage, RequireVerified, RequirePinned, HostsAllowed, EditsInFlight} \subseteq BOOLEAN
    /\ MaxEdits \in Nat /\ MaxFaults \in Nat

\* The key of a migration in the ledgers: its name and the hash of its content.
Key(m) == <<m.name, m.digest>>
AllMigrations == UNION {ToSet(l) : l \in Ladders}

\* Ladders and their actions are lists, and the digest identifies the content.
ASSUME LaddersAssumption ==
    /\ \A l \in Ladders : l \in Seq(ToSet(l))
    /\ \A m \in AllMigrations : m.actions \in Seq(ToSet(m.actions)) /\ m.down \in Seq(ToSet(m.down))
    /\ \A m, n \in AllMigrations : Key(m) = Key(n) => m = n

VARIABLES
    spec,       \* version, ladder, approvalMode, allowDowngrade as the user wrote them
    approved,   \* the approved-version annotation
    rollbackTo, \* the rollback-to annotation
    requested,  \* a reconcile request not yet handled
    version,    \* status.version
    ledger,     \* status: executedMigrations, executedMigrationActions, failures
    pending,    \* status: pendingVersion and the keys in pendingMigrations
    reason,     \* reason of the Ready condition
    wake,       \* a pass is due: a re-queue, a back-off or a watch event
    plan,       \* the running pass: what it decided
    at,         \* the running pass: index of the stage in hand, 0 when none runs
    mem,        \* the running pass: the ledgers in memory
    \* What really happened, kept to state the properties:
    content,    \* content last completed for each boundary, NoAnchor when none
    ran,        \* how often each action of the content in force has completed
    completed,  \* boundaries completed in this transition: <<key, direction>>
    granted,    \* versions that have been approved
    attempts,   \* failed attempts since the last thing a user did
    edits, crashes, faults

userVars == <<spec, approved, rollbackTo, requested>>
transitionStatus == <<version, ledger, pending, reason>>
passVars == <<plan, at, mem>>
transitionHistory == <<content, ran, completed, granted, attempts>>
boundVars == <<edits, crashes, faults>>
migrationVars == <<userVars, transitionStatus, wake, passVars, transitionHistory, boundVars>>

-----------------------------------------------------------------------------
(* The ladder: validation and selection.                                   *)

DistinctNames(s) == \A i, j \in DOMAIN s : s[i].name = s[j].name => i = j

ValidActions(acts) ==
    /\ Len(acts) <= MaxActions
    /\ DistinctNames(acts)
    /\ \A i \in DOMAIN acts : /\ acts[i].verbs = 1
                              /\ acts[i].named /\ ~acts[i].scoped
                              /\ acts[i].retries \in 0 .. MaxRetries

\* A "from" that is a bare version is refused: it reads like a lower bound.
ValidateMigration(m) ==
    /\ m.to \in Versions
    /\ m.from.form # "bare" /\ m.from.form # "invalid"
    /\ ValidActions(m.actions) /\ ValidActions(m.down)

ValidateLadder(ladder) ==
    /\ Len(ladder) <= MaxLadderLen
    /\ \A i \in DOMAIN ladder : ValidateMigration(ladder[i])
    /\ DistinctNames(ladder)

\* The i-th entry of a ladder comes before the j-th: a stable sort by the boundary.
Before(ladder, ascending, i, j) ==
    \/ IF ascending THEN ladder[i].to < ladder[j].to ELSE ladder[i].to > ladder[j].to
    \/ ladder[i].to = ladder[j].to /\ i < j

RankOf(ladder, chosen, ascending, i) ==
    Cardinality({j \in chosen : Before(ladder, ascending, j, i)}) + 1

\* The chosen entries of a ladder, sorted.
Ordered(ladder, chosen, ascending) ==
    [k \in 1 .. Cardinality(chosen) |->
        ladder[CHOOSE i \in chosen : RankOf(ladder, chosen, ascending, i) = k]]

Fires(m, cur, des) ==
    /\ m.to > cur /\ m.to <= des
    /\ m.from.form = "constraint" => cur \in m.from.matches

Select(ladder, cur, des) ==
    Ordered(ladder, {i \in DOMAIN ladder : Fires(ladder[i], cur, des)}, TRUE)

\* The boundaries in (des, cur], newest first; "from" is not consulted.
SelectDown(ladder, cur, des) ==
    Ordered(ladder, {i \in DOMAIN ladder : ladder[i].to > des /\ ladder[i].to <= cur}, FALSE)

HasHTTP(ladder) ==
    \E i \in DOMAIN ladder : \E acts \in {ladder[i].actions, ladder[i].down} :
        \E j \in DOMAIN acts : acts[j].http

(* Where a migration runs: an anchor label wins over a stage name, and no  *)
(* reference at all means the first stage.                                 *)
AnchorStage(ref) ==
    LET labelled == {i \in DOMAIN StageList : StageList[i].migrationAnchor = ref}
        named == {i \in DOMAIN StageList : StageList[i].name = ref}
        hits == IF labelled # {} THEN labelled ELSE named
    IN  CASE ref = NoAnchor -> 1
          [] ref # NoAnchor /\ hits = {} -> 0
          [] OTHER -> CHOOSE i \in hits : \A j \in hits : i <= j

-----------------------------------------------------------------------------
(* Reading the version and the ladder.  A result is a value, "transient"   *)
(* (the pass returns the error and is retried) or a terminal reason.       *)

Ok(x) == [reason |-> "", value |-> x]
Err(why) == [reason |-> why, value |-> NoVersion]

\* A VERSION file in the stage's artifact.
VersionFromArtifact(read, text) ==
    CASE read.fault = "fetch" -> Err("transient")
      [] read.fault \in {"noStage", "missing", "empty"} -> Err("InvalidVersion")
      [] OTHER -> Ok(text)

\* The object that carries the version, and the field or label it is read from.
VersionFieldReadable(read) == read.fault \notin {"noStage", "missing", "field"}

\* The stage is fetched and built as it would be applied, then the object is looked up.
VersionFromObject(read, text) ==
    CASE read.fault \in {"fetch", "variables"} -> Err("transient")
      [] read.fault \in {"build", "empty"} \/ ~VersionFieldReadable(read) -> Err("InvalidVersion")
      [] OTHER -> Ok(text)

ResolveDesiredVersion(read, text) ==
    CASE read.kind = "value" -> Ok(text)
      [] read.kind = "fromObject" -> VersionFromObject(read, text)
      [] read.kind = "fromArtifact" -> VersionFromArtifact(read, text)
      [] OTHER -> Err("InvalidVersion")

\* A source that says it failed verification is refused whatever the flags say.
CheckMigrationSourceVerified(read) ==
    read.fault # "unverified" /\ (RequireVerified => read.fault # "unsigned")

CheckMigrationSourcePinned(read) == RequirePinned => read.fault # "mutable"

\* The files of the artifact parse, strictly, to at least one migration.
ParseLadder(read, ladder) == read.fault # "unparsable" /\ ladder # <<>>

\* The checks on a ladder that was fetched: parsed, valid, and no http action without an allowlist.
SourcedLadder(read, ladder) ==
    IF ~ParseLadder(read, ladder) \/ ~ValidateLadder(ladder)
    THEN Err("MigrationArtifactInvalid")
    ELSE IF ~HostsAllowed /\ HasHTTP(ladder) THEN Err("InvalidSpec") ELSE Ok(ladder)

ResolveMigrationLadder(read, ladder) ==
    CASE read.kind = "inline" -> IF ValidateLadder(ladder) THEN Ok(ladder) ELSE Err("InvalidSpec")
      [] read.fault = "denied" -> Err("RBACDenied")
      [] read.fault \in {"notReady", "error", "fetch"} -> Err("transient")
      [] read.fault = "forbidden" -> Err("ResolveFailed")
      [] ~CheckMigrationSourceVerified(read) -> Err("MigrationSourceNotVerified")
      [] ~CheckMigrationSourcePinned(read) -> Err("MigrationSourceNotPinned")
      [] read.fault = "badArtifact" -> Err("MigrationArtifactInvalid")
      [] OTHER -> SourcedLadder(read, ladder)

-----------------------------------------------------------------------------
(* Planning.                                                               *)

NoPlan == [reason |-> "", set |-> FALSE, baseline |-> FALSE, downgrade |-> FALSE,
           desired |-> NoVersion, pending |-> <<>>]

Refused(why) == [NoPlan EXCEPT !.reason = why]

Proceed(des, down, todo) ==
    IF \E i \in DOMAIN todo : AnchorStage(todo[i].stage) = 0
    THEN Refused("MigrationStageNotFound")
    ELSE [NoPlan EXCEPT !.set = TRUE, !.desired = des, !.downgrade = down, !.pending = todo]

\* A rollback-to annotation overrides the version only while it is below the deployed one.
RollbackDirective(text) ==
    IF rollbackTo \in Versions /\ version \in Versions /\ rollbackTo < version
    THEN rollbackTo ELSE text

CoverageGap(cur, des, todo) == RequireCoverage /\ todo = <<>> /\ Major[des] > Major[cur]

PlanUpgrade(ladder, des) ==
    LET todo == Select(ladder.value, version, des)
    IN  IF ladder.reason # "" THEN Refused(ladder.reason)
        ELSE IF CoverageGap(version, des, todo) THEN Refused("MigrationCoverageMissing")
        ELSE Proceed(des, FALSE, todo)

PlanDowngrade(ladder, des) ==
    LET todo == SelectDown(ladder.value, version, des)
    IN  IF ~spec.allowDowngrade THEN Refused("DowngradeNotAllowed")
        ELSE IF ladder.reason # "" THEN Refused(ladder.reason)
        ELSE IF \E i \in DOMAIN todo : todo[i].down = <<>> THEN Refused("DowngradeRequiresMigration")
        ELSE Proceed(des, TRUE, todo)

\* text and ladder are the results of reading the version and the ladder.
PlanVersionMigrations(text, ladder) ==
    LET des == RollbackDirective(text.value)
    IN  IF spec.version = NoVersion THEN NoPlan
        ELSE IF text.reason # "" THEN Refused(text.reason)
        ELSE IF des \notin Versions THEN Refused("InvalidVersion")
        ELSE IF version = NoVersion
             THEN [NoPlan EXCEPT !.set = TRUE, !.desired = des, !.baseline = TRUE]
        ELSE IF des < version THEN PlanDowngrade(ladder, des)
        ELSE IF des = version THEN [NoPlan EXCEPT !.set = TRUE, !.desired = des]
        ELSE PlanUpgrade(ladder, des)

ApprovalNeeded(p) ==
    /\ p.set /\ ~p.baseline
    /\ CASE spec.approvalMode = "Always" -> p.desired # version
         [] spec.approvalMode = "OnMigrations" -> p.pending # <<>>
         [] OTHER -> FALSE

-----------------------------------------------------------------------------
(* What the user does.                                                     *)

EmptyLedger == [executed |-> {}, actions |-> {}, failures |-> 0]

\* A pass runs, or something of a transition has been done.
InFlight == at # 0 \/ ran # <<>> \/ completed # {}

Edit == /\ edits < MaxEdits
        /\ edits' = edits + 1
        /\ wake' = TRUE
        /\ attempts' = 0
        /\ UNCHANGED <<transitionStatus, passVars, content, ran, completed, crashes, faults>>

SetVersion == \E v \in Versions \cup {NoVersion, NotSemver} :
    /\ Edit
    /\ v # spec.version /\ (EditsInFlight \/ ~InFlight)
    /\ spec' = [spec EXCEPT !.version = v]
    /\ UNCHANGED <<approved, rollbackTo, requested, granted>>

SetLadder == \E l \in Ladders :
    /\ Edit
    /\ l # spec.ladder
    /\ spec' = [spec EXCEPT !.ladder = l]
    /\ UNCHANGED <<approved, rollbackTo, requested, granted>>

\* The approval mode is fixed, and under Never an approval is not looked at.
Approve == \E v \in Versions :
    /\ Edit
    /\ v # approved /\ spec.approvalMode # "Never"
    /\ approved' = v /\ granted' = granted \cup {v}
    /\ UNCHANGED <<spec, rollbackTo, requested>>

DirectRollback == \E v \in Versions \cup {NoVersion} :
    /\ Edit
    /\ v # rollbackTo /\ (EditsInFlight \/ ~InFlight)
    /\ rollbackTo' = v
    /\ UNCHANGED <<spec, approved, requested, granted>>

RequestReconcile ==
    /\ Edit
    /\ ~requested /\ requested' = TRUE
    /\ UNCHANGED <<spec, approved, rollbackTo, granted>>

-----------------------------------------------------------------------------
(* A pass.                                                                 *)

PendingDetails(p) == {Key(p.pending[i]) : i \in DOMAIN p.pending}
NothingPending == [version |-> NoVersion, migrations |-> {}]

\* A reconcile request that was not handled yet clears the failure count.
ClearedLedger == IF requested THEN [ledger EXCEPT !.failures = 0] ELSE ledger

\* Mutant: an ordinary failure is not retried either.
EndPassUnretried(again) == wake' = wake /\ at' = 0 /\ plan' = NoPlan /\ mem' = EmptyLedger

EndPass(again) ==
    /\ wake' = (again \/ wake)
    /\ at' = 0 /\ plan' = NoPlan /\ mem' = EmptyLedger

\* The ladder or the version could not be read: nothing is written, the error backs off.
PlanTransient(p) ==
    /\ p.reason = "transient"
    /\ wake' = TRUE
    /\ UNCHANGED <<transitionStatus, passVars, requested>>

\* A terminal reason: reported, and looked at again after permanentRetryInterval.
PlanRefused(p) ==
    /\ p.reason \notin {"", "transient"}
    /\ reason' = p.reason
    /\ ledger' = ClearedLedger /\ requested' = FALSE
    /\ wake' = TRUE
    /\ UNCHANGED <<version, pending, passVars>>

PlanHeld(p) ==
    /\ p.reason = "" /\ ApprovalNeeded(p) /\ approved # p.desired
    /\ reason' = "AwaitingApproval"
    /\ pending' = [version |-> p.desired, migrations |-> PendingDetails(p)]
    /\ ledger' = ClearedLedger /\ requested' = FALSE
    /\ wake' = TRUE
    /\ UNCHANGED <<version, passVars>>

PlanProceeds(p) ==
    /\ p.reason = "" /\ (ApprovalNeeded(p) => approved = p.desired)
    /\ plan' = p /\ at' = 1 /\ mem' = ClearedLedger
    /\ requested' = FALSE
    /\ wake' = FALSE
    /\ UNCHANGED transitionStatus

\* Every outcome of reading the version and the ladder, and whether a fault was met.
Texts == {[fault |-> r.fault, got |-> ResolveDesiredVersion(r, spec.version)] : r \in VersionReads}
Sources == {[fault |-> r.fault, got |-> ResolveMigrationLadder(r, spec.ladder)] : r \in LadderReads}
Outcomes == {[plan |-> PlanVersionMigrations(t.got, l.got),
              fault |-> t.fault # "none" \/ l.fault # "none"] : t \in Texts, l \in Sources}

StartPass ==
    /\ at = 0 /\ wake
    /\ attempts' = IF requested THEN 0 ELSE attempts
    /\ UNCHANGED <<spec, approved, rollbackTo, content, ran, completed, granted, edits, crashes>>
    /\ \E o \in Outcomes :
        /\ o.fault => faults + crashes < MaxFaults
        /\ faults' = IF o.fault THEN faults + 1 ELSE faults
        /\ \/ PlanTransient(o.plan)
           \/ PlanRefused(o.plan)
           \/ PlanHeld(o.plan)
           \/ PlanProceeds(o.plan)

Direction == IF plan.downgrade THEN "down" ELSE "up"
Acts(m) == IF plan.downgrade THEN m.down ELSE m.actions
\* An action of a migration in the ledger: <<key, direction, action>>.
Entry(m, a) == <<Key(m), Direction, a.name>>
Left(m) == {j \in DOMAIN Acts(m) : Entry(m, Acts(m)[j]) \notin mem.actions}

\* Mutant: a migration counts as executed whatever its content was.
OwedByName(i) == /\ AnchorStage(plan.pending[i].stage) = at
                 /\ \A k \in mem.executed : k[1] # plan.pending[i].name

\* The i-th pending migration is anchored to the stage in hand and not recorded as executed.
Owed(i) == /\ AnchorStage(plan.pending[i].stage) = at
           /\ Key(plan.pending[i]) \notin mem.executed
Migrating == at # 0 /\ \E i \in DOMAIN plan.pending : Owed(i)
\* The migration whose turn it is.
Current(m) == at # 0 /\ \E i \in DOMAIN plan.pending :
    m = plan.pending[i] /\ Owed(i) /\ \A j \in 1 .. i - 1 : ~Owed(j)

Count(k) == IF k \in DOMAIN ran THEN ran[k] ELSE 0
Tally(k) == [x \in DOMAIN ran \cup {k} |-> IF x = k THEN Count(k) + 1 ELSE ran[x]]

\* Entries of the same migration under other contents are dropped.
PruneSupersededLedger(l, m) ==
    [l EXCEPT !.executed = {k \in @ : k[1] # m.name \/ k = Key(m)},
              !.actions = {e \in @ : e[1][1] # m.name \/ e[1] = Key(m)}]

\* What the boundary of m is left at, once m is done.
Crossed(m) == [content EXCEPT ![m.name] = IF plan.downgrade THEN NoAnchor ELSE m.digest]

(* executor.Run completes one action; the ledger entry is kept in memory.  *)
RunMigrationAction == \E m \in ToSet(plan.pending) : \E j \in Left(m) :
    LET e == Entry(m, Acts(m)[j])
        last == Left(m) = {j}
    IN  /\ Current(m) /\ \A k \in Left(m) : j <= k
        /\ mem' = [mem EXCEPT !.actions = @ \cup {e}]
        /\ ran' = Tally(e)
        /\ content' = IF last THEN Crossed(m) ELSE content
        /\ completed' = IF last THEN completed \cup {<<Key(m), Direction>>} ELSE completed
        /\ UNCHANGED <<userVars, transitionStatus, wake, plan, at, granted, attempts, boundVars>>

\* Every action of the migration is done; only an upgrade prunes older contents.
CompleteMigration == \E m \in ToSet(plan.pending) :
    LET with == [mem EXCEPT !.executed = @ \cup {Key(m)}] IN
    /\ Current(m) /\ Left(m) = {}
    /\ mem' = IF plan.downgrade THEN with ELSE PruneSupersededLedger(with, m)
    /\ content' = IF Acts(m) = <<>> THEN Crossed(m) ELSE content
    /\ completed' = completed \cup {<<Key(m), Direction>>}
    /\ ran' = Restrict(ran, {k \in DOMAIN ran : k[1][1] # m.name \/ k[1] = Key(m)})
    /\ UNCHANGED <<userVars, transitionStatus, wake, plan, at, granted, attempts, boundVars>>

\* Mutant: a failing pass writes the counter but not the ledgers.
FailTransitionWithoutLedgers(l, why, terminal) ==
    /\ ledger' = [ledger EXCEPT !.failures = l.failures]
    /\ reason' = why
    /\ pending' = [version |-> NoVersion, migrations |-> PendingDetails(plan)]
    /\ EndPass(~terminal)
    /\ UNCHANGED version

FailTransition(l, why, terminal) ==
    /\ ledger' = l
    /\ reason' = why
    /\ pending' = [version |-> NoVersion, migrations |-> PendingDetails(plan)]
    /\ EndPass(~terminal)
    /\ UNCHANGED version

\* An action fails: the failure is counted and the ledgers are written; at the limit it halts.
FailMigrationAction ==
    /\ \E m \in ToSet(plan.pending) : Current(m) /\ Left(m) # {}
    /\ \E denied \in BOOLEAN :
        LET n == mem.failures + 1
            dirty == n >= MaxMigrationFailures
            why == IF denied THEN "RBACDenied" ELSE IF dirty THEN "MigrationDirty" ELSE "MigrationFailed"
        IN  FailTransition([mem EXCEPT !.failures = n], why, denied \/ dirty)
    /\ attempts' = attempts + 1
    /\ UNCHANGED <<userVars, content, ran, completed, granted, boundVars>>

\* The rest of a stage (pre-actions to verification) succeeds ...
StageSucceeds ==
    /\ at \in 1 .. Len(StageList) - 1 /\ ~Migrating
    /\ at' = at + 1
    /\ UNCHANGED <<userVars, transitionStatus, wake, plan, mem, transitionHistory, boundVars>>

\* ... or fails; the ledgers reach the status all the same.
StageFails ==
    /\ at # 0 /\ ~Migrating
    /\ faults + crashes < MaxFaults
    /\ FailTransition(mem, "StageFailed", FALSE)
    /\ faults' = faults + 1
    /\ UNCHANGED <<userVars, transitionHistory, edits, crashes>>

\* The last stage succeeded: the version moves and the transition's ledgers are cleared.
Commit ==
    /\ at = Len(StageList) /\ ~Migrating
    /\ version' = IF plan.set THEN plan.desired ELSE version
    /\ ledger' = IF plan.set THEN EmptyLedger ELSE mem
    /\ reason' = "Succeeded"
    /\ pending' = NothingPending
    /\ EndPass(FALSE)
    /\ ran' = IF plan.set THEN <<>> ELSE ran
    /\ completed' = IF plan.set THEN {} ELSE completed
    /\ attempts' = 0
    /\ UNCHANGED <<userVars, content, granted, boundVars>>

\* The process dies, or the status write fails: what the pass kept in memory is gone.
Crash ==
    /\ at # 0 /\ faults + crashes < MaxFaults
    /\ crashes' = crashes + 1
    /\ EndPass(TRUE)
    /\ UNCHANGED <<userVars, transitionStatus, transitionHistory, edits, faults>>

\* spec.interval: an idle StageSet whose last pass succeeded is reconciled again.
Interval ==
    /\ at = 0 /\ ~wake /\ reason = "Succeeded"
    /\ wake' = TRUE
    /\ UNCHANGED <<userVars, transitionStatus, passVars, transitionHistory, boundVars>>

MigrationInit ==
    /\ \E st \in Starts, l \in Ladders, p \in Policies :
        /\ version = st[1]
        /\ spec = [version |-> st[2], ladder |-> l, approvalMode |-> p[1], allowDowngrade |-> p[2]]
    /\ approved = NoVersion /\ rollbackTo = NoVersion /\ requested = FALSE
    /\ ledger = EmptyLedger /\ pending = NothingPending /\ reason = "Succeeded"
    /\ wake = TRUE
    /\ plan = NoPlan /\ at = 0 /\ mem = EmptyLedger
    /\ content = [n \in {l.name : l \in UNION {ToSet(x) : x \in Ladders}} |-> NoAnchor]
    /\ ran = <<>> /\ completed = {} /\ granted = {} /\ attempts = 0
    /\ edits = 0 /\ crashes = 0 /\ faults = 0

User == SetVersion \/ SetLadder \/ Approve \/ DirectRollback \/ RequestReconcile

MigrationPass == \/ StartPass \/ RunMigrationAction \/ CompleteMigration
        \/ StageSucceeds \/ Commit

MigrationNext == User \/ MigrationPass \/ FailMigrationAction \/ StageFails \/ Crash \/ Interval

MigrationSpec == MigrationInit /\ [][MigrationNext]_migrationVars

(* The work queue hands a due pass to a worker, and a worker runs its pass *)
(* to the end.                                                             *)
FairMigrationSpec == MigrationSpec /\ WF_migrationVars(MigrationPass)

-----------------------------------------------------------------------------
(* Properties.                                                             *)

Keys == {Key(m) : m \in AllMigrations}
ActionNames == {a.name : a \in UNION {ToSet(m.actions) \cup ToSet(m.down) : m \in AllMigrations}}

SpecType == [version : Versions \cup {NoVersion, NotSemver}, ladder : Ladders,
             approvalMode : {"Never", "OnMigrations", "Always"}, allowDowngrade : BOOLEAN]
LedgerType == [executed : SUBSET Keys, actions : SUBSET (Keys \X {"up", "down"} \X ActionNames), failures : Nat]
PendingType == [version : Versions \cup {NoVersion}, migrations : SUBSET Keys]

\* Every variable stays in its type; in particular the plan never works from a
\* version that is not a semantic version.
MigrationTypeOK ==
    /\ spec \in SpecType
    /\ version \in Versions \cup {NoVersion}
    /\ approved \in Versions \cup {NoVersion} /\ rollbackTo \in Versions \cup {NoVersion}
    /\ ledger \in LedgerType /\ mem \in LedgerType /\ pending \in PendingType
    /\ at \in 0 .. Len(StageList) /\ (at = 0 => plan = NoPlan /\ mem = EmptyLedger)
    /\ wake \in BOOLEAN /\ requested \in BOOLEAN

(***************************************************************************)
(* A completed migration action is not executed again by a retry of the    *)
(* same transition unless the process lost its memory in between ("a       *)
(* destructive action is never re-executed after a mid-migration failure").*)
(***************************************************************************)
ActionsRunOnce == \A k \in DOMAIN ran : ran[k] <= 1 + crashes

(***************************************************************************)
(* The schema is never ahead of the code: between transitions, no boundary *)
(* above the deployed version is applied.                                  *)
(***************************************************************************)
SchemaNotAhead ==
    ~InFlight => \A i \in DOMAIN spec.ladder :
        spec.ladder[i].to \in Versions /\ version # NoVersion /\ spec.ladder[i].to > version
            => content[spec.ladder[i].name] = NoAnchor

(***************************************************************************)
(* A failing migration is not attempted for ever: without a user's help it *)
(* is attempted at most maxMigrationFailures times, whatever other stage   *)
(* failures and refusals happen in between.                                *)
(***************************************************************************)
AttemptsBounded == attempts <= MaxMigrationFailures

(***************************************************************************)
(* The two ledgers and the counter of runStageMigrations do their work:    *)
(* nothing destructive is repeated, the schema does not get ahead of the   *)
(* code, and a failing migration is left alone.                            *)
(***************************************************************************)
LedgersSound == MigrationTypeOK /\ ActionsRunOnce /\ SchemaNotAhead /\ AttemptsBounded

\* Every boundary the plan selected has been completed, in the direction of the
\* move and with the content planned, since the last time the version moved.
NoBoundarySkipped ==
    \A i \in DOMAIN plan.pending : <<Key(plan.pending[i]), Direction>> \in completed

\* A content change takes effect: while no crash intervened, an upgrade ends with
\* the planned content as the last one completed for each of its boundaries.
LastContentWins ==
    ~plan.downgrade /\ crashes = 0 =>
        \A i \in DOMAIN plan.pending : content[plan.pending[i].name] = plan.pending[i].digest

(***************************************************************************)
(* The version moves only over finished work, and under approvalMode       *)
(* Always only to a version that was approved: skipping by either ledger,  *)
(* failures, crashes, stale approvals and ladder edits forth and back in   *)
(* the middle of a transition must not lose a boundary.                    *)
(***************************************************************************)
VersionMovesSafely ==
    [][version' # version =>
        /\ NoBoundarySkipped
        /\ LastContentWins
        /\ version # NoVersion /\ spec.approvalMode = "Always" => version' \in granted]_migrationVars

(***************************************************************************)
(* A transition that has begun is finished, or a status reason a user can  *)
(* act on says why not.                                                    *)
(***************************************************************************)
Blocked == /\ at = 0
           /\ reason \notin {"Succeeded", "MigrationFailed", "StageFailed"}
TransitionEnds == ran # <<>> ~> (ran = <<>> \/ Blocked)
=============================================================================
