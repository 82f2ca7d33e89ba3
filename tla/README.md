# stageset-controller: a verification development

TLA+ models of the controller in this repository, the TLC runs that check them
on small instances, and TLAPS proofs of the properties that matter most.
Paths are relative to the repository root; `C` is
`internal/controller/stageset_controller.go`.

## The system

A `StageSet` names an ordered list of stages. Each stage renders the manifests
of a source at some revision and applies them to a target cluster. One pass of
the reconciler resolves and pins a revision for every stage, then takes the
stages in order: actions and migrations, fetch, build, apply, record, verify,
promotion gate. When every stage has been delivered it prunes what dropped out
and commits the status. Deleting the StageSet tears its objects down in reverse
order behind a finalizer.

### Components

| component | state it keeps | operations | interacts with |
| --- | --- | --- | --- |
| StageSet reconciler (`C`) | `status`, Ready, finalizer, locals of a pass | `Reconcile`, `reconcileDelete`, `failStage` | everything below; workqueue |
| inventory planning (`internal/inventory`) | none | `ComputePlan`, `DuplicateClaims` | prune, teardown |
| StageInventory (`internal/stageinv`) | one record per stage, in shards | `Write`, `StageRecords`, `DeleteStageShards`, `ReconstructFromCluster` | written before verify, read at the start of a pass |
| apply/delete (`internal/apply`) | owner and stage labels in the cluster | `Apply`, `Delete` | target cluster, other field managers |
| rollback (`rollback.go`, `internal/rollbackstore`) | `status.lastAppliedSnapshot`, stored renders | `attemptRollback`, `rollbackStageObjects` | stage failures, promotion gate |
| promotion gate (`promotion.go`, `analysis.go`, `restartgate.go`, `eventgate.go`) | `promotionState`, `lastHandledPromotion` per stage | `gatePromotion`, `rollbackStageToSnapshot` | metrics, pods, events, promote annotation |
| actions and ledgers (`internal/actions`, `actionledger.go`, `lifetimeledger.go`, `anchor.go`) | completed actions per stage, StageLedger | run, record, reset | stage loop, `failStage` |
| migrations (`migrations.go`, `internal/migrations`) | `currentVersion`, completed migrations | plan, run, downgrade, approve | stage loop, FleetRollout |
| FleetRollout (`fleetrollout_controller.go`) | waves, halted, approvals | `reconcile`, `approve`, `halt` | the StageSets of the fleet |
| windows and budgets (`windows.go`, `errorbudget.go`) | freeze, held revisions, handled override | gate a pass or a stage | stage loop, metric sources |
| dependsOn (`C:2241-2363`) | none | readiness and cycle check | other StageSets |
| tenants (`tenant.go`, `token.go`, `authretry.go`) | token and client caches | mint, forget, retry | all concurrent passes |
| watches (`crdwatcher.go`, `C:2735-2820`) | engaged producer kinds | engage on first use or when a CRD appears | workqueue |
| webhook certificates (`internal/webhook/selfsigned`) | certificate, CA bundle | renew | API server |
| resolution, fetch, build, decryption, image verification | caches | pure or I/O | stage loop |
| CLI, previews, MCP | none | read, annotate | annotations the reconciler reads |

### What is hard here

* The record of a stage is replaced before the prune that needs the old one.
* Spec, sources, shards, pods and the process itself change between any two
  steps of a pass; every step may fail half done.
* Each exit of `Reconcile` writes a different part of the status. What one exit
  leaves out, the next pass takes as forgotten.
* Requests are annotations that never go away; "handled" is remembered in the
  status that those exits rewrite.
* Waiting must end: holds, retries, soaks and teardown all rely on a wake-up.

`PROJECT.json` lists these as hazards, each at its line.

## Modules

| module | component | extends or uses |
| --- | --- | --- |
| `Inventory` | the pure planning operators | |
| `StageSetReconciler` | one StageSet, its cluster, its inventory and the pass over it | `Inventory` |
| `PromotionGate` | the decision that `StageSetReconciler` leaves open in its `Gate*` actions | |
| `ActionLedger` | the stage loop seen from the ledgers of completed actions | |
| `ActionExecutor` | what one action does: requests, calls, waits and Jobs | |
| `Migrations` | version boundaries: planning and running them over many passes | |
| `FleetRollout` | a fleet in waves over members that reconcile on their own | |
| `DeliveryGates` | dependsOn, update windows, error budgets and their metric sources | |
| `TenantAccess` | the token and client caches shared by concurrent passes | |
| `StageRecord` | abstract: a stage's record, replaced as a whole | |
| `InventoryShards` | the record as it is stored, shard by shard | implements `StageRecord` |
| `StageDelivery` | one stage from its source to its stored record: resolve, fetch, decrypt, build, verify images, apply, record, wait | extends (is composed with) `InventoryShards` |

Each has an `MC` module that instantiates it for TLC, except the ones that are
checked through another: `Inventory` with `StageSetReconciler`, and
`InventoryShards` and `StageRecord` with `StageDelivery`.
The theorems are in a `...Proofs` module of their own for each of
`StageSetReconciler`, `ActionLedger`, `ActionExecutor`, `FleetRollout`,
`DeliveryGates`, `TenantAccess` and `StageDelivery`, which has those about
`InventoryShards` too. Those about `PromotionGate` and `Migrations`, what lets a
StageSet advance, share `AdvancementProofs`; the names of `Migrations` are
distinct for that.

The composition of the whole is by abstraction. `StageSetReconciler` has the
whole pass, with each of its steps atomic and free to take any of its outcomes;
the other modules open one of those steps each. `StageDelivery` is composed
with `InventoryShards` because the two share their state (the record outlives
the pass, the cache that knows the shards is lost with the process).

### StageSetReconciler

A pass is cut where it writes to the API server or to the cluster, so that
edits, crashes and deletions fall between the writes. `pc` is the place in
`Reconcile`, `run`, `pinned`, `previous`, `delivered`, `built` and `rebuilt`
are its locals (`ss.Spec`, `resolved`, `previousMap`, `desiredRecords`,
`stageStatuses`, `reconstructedStages`).

| actions | code |
| --- | --- |
| `AddFinalizer`, `SkipSuspended`, `StartPass` | `C:310-413` |
| `ResolveStage`, `DeferRun`, `EnterLoop`, `FailBeforeLoop` | `C:387-690` |
| `HoldAborted`, `HoldForBudget`, `FailBeforeApply`, `ApplyStage`, `ApplyFails` | `C:691-928` |
| `RecordStage`, `RecordFails` | `C:930-963`, `stageinv.go` |
| `VerifyStage`, `HoldForProgress`, `VerifyFails`, `AbortForDeletion` | `C:964-1010`, `C:1156-1161` |
| `GatePromotes`, `GateHolds`, `GateReverts`, `GateInterrupted`, `RevertFails` | `C:1011-1155`, `C:1162-1251` |
| `RevertLost`, `CrashMidApply` | a revert whose status is never written (`C:1112-1174`); a process that dies halfway through an apply |
| `Rollback*` | `C:1252-1300`, `rollback.go` |
| `StallOnDuplicates`, `StartPrune` ... `CommitPass` | `C:1302-1418` |
| `StartTeardown` ... `FinishTeardown` | `C:2029-2188` |

Abstractions. A manifest is an object with a kind; what stage `s` renders from
revision `r` is the constant `Render[s][r]`. A stage's record is one value;
`InventoryShards` shows what the shards behind it make of that. Actions and
migrations appear only as causes of failure. Requeue delays are a pending timer.
A status write that fails behaves like `Crash`: the side effects are done, nothing is persisted.
The apply of a revert or a rollback and the record of it are one step, except in
`CrashMidApply` (part of the objects, no record) and `RevertLost` (both, no status).
The forced teardown sets no condition in the code, only an event; the model
keeps it in `ready`. controller-runtime's periodic informer resync (ten hours
by default) is left out. Status is read as it is; stale reads of the shards are
in `InventoryShards`. A stage that left the spec is emptied and then forgotten
before the next such stage is looked at (`NextRemoved`, `plan.go:80-86`).

### PromotionGate

One stage, one pass per step, the gate's inputs as nondeterministic choices:
whether a check breaches, whether the burn rate is healthy, whether pods,
events or the snapshot can be read. What `gatePromotion` decides, and a revert,
exist in memory until the one status patch at the end of the pass (`C:1087`,
`C:1174`, `C:1411`). `LoseHold`, `LoseRevert` and `LosePromotion` are the passes
whose patch never happens: the cluster has their effects, the status knows
nothing of them, and the next pass decides again. `InterruptGate` covers the
checks that cannot be read and the revert that fails before or after its apply.

Instants are replaced by the time left of the soak and the age of what is live,
so no clock is needed. History variables appear in no guard. `age` and `passed`
follow what happened in the cluster; `spent`, `anchor` and `banned` follow what
a status write recorded, because that is all the program can remember.

### ActionLedger

A stage runs actions before and after its apply, and when it fails. Each
success is recorded so that it is not repeated: by revision, by version, or for
the lifetime of the StageSet in a StageLedger object of its own. A pass copies
the first two from the status (`pass.prior`), works on the copy (`pass.led`,
`pass.out`) and keeps what it learned only if it reaches a status write; a
Lifetime completion is written at once.

| actions | code |
| --- | --- |
| `FailBeforeLoop` | `C:505-582` |
| `StartPass` | `C:584-643`, `lifetimeledger.go` (`promoteBaseline`) |
| `HoldStage` | `C:697-773` |
| `FailConnect`, `EnterStage` | `C:775-812`, `lifetimeledger.go`, `anchor.go` |
| `RunAction`, `RunLifetime`, `ActionFails` | `internal/actions/actions.go:104-122`, `lifetimeledger.go:195-224` |
| `Counted`, `FinishFailure` | `C:1675-1755`, `C:1252-1300` |
| `ApplyStage`, `ApplyFails`, `HoldForProgress` | `C:814-1010`, `C:1213-1300` |
| `GateHolds`, `FinishStage` | `C:1011-1155` |
| `StallOnDuplicates`, `CommitPass`, `LosePass` | `C:1302-1418` |

The properties compare the ledgers with an account of what is owed, kept in
`truth` (as of the last status write) and `pass.work` (as the pass sees it). It
follows the documentation: entering a stage at a new revision or version, a
force or a reset request and a vanished witness make actions owed, a success
pays them. It appears in no guard of the modelled code. `erased` and `skipped`
mark the two places where the code is known to forget, see Divergences.

Abstractions. An action succeeds or fails; what happens inside one is in
`ActionExecutor`. Running a Lifetime action and recording its completion are one
step when both succeed and a failure when the second does not; a crash between
the two leaves the same state as `LosePass` before the step, with the action
still owed. The names of a stage's actions differ, over all three of its lists
(`webhook.go:645`). A pass reads annotations, source and version when it starts, so
events fall between passes; the anchor object alone changes at any time. The
witness is a counter whose odd values are UIDs. Everything that delivers a
stage is reduced to the exits it can take.

### ActionExecutor

Several StageSets, each with a list of verbs. `Run` and `exec` are `StartPass`,
`Advance`, `RecordAction` and `Retry` (`internal/actions/actions.go:103-158`);
patch, delete and apply are one request per object (`Request`, `:160-286`),
`HTTPCall` is `:288-363`, `Wait` `:365-442`, and a job action goes through
`ResolveJob`, `CreateJob`, `AwaitJob` and `Cleanup` (`:444-535`). A request that
fails may have taken effect, the Create and the Delete of a Job included. Jobs
are named after the revision of their artifact, so StageSets of one namespace
that use the same artifact meet in them. `Expire` is the deadline of a timed
action, over all attempts (`:126-131`); `AttemptExpires` is the limit that a poll
(`:401-406`) and the Jobs of an action without a timeout (`:464-469`) have in
each attempt, with a retry after it. `left` collects the Jobs that nobody is
going to remove; it is history. The ledger is the one of `ActionLedger` reduced
to a set.

### Migrations

One StageSet with a ladder of version boundaries, each anchored to a stage.
`PlanVersionMigrations` is the planning at the start of a pass
(`migrations.go:131-258`, `internal/migrations`): reading the version and the
ladder, validating, selecting in both directions, approvals and directives. Its
outcomes are `PlanTransient`, `PlanRefused`, `PlanHeld` and `PlanProceeds`
(`C:520-572`). The plan is then run stage by stage, one action per step
(`RunMigrationAction`, `CompleteMigration`, `FailMigrationAction`,
`migrations.go:487-666`) with the rest of the stage as an outcome, and
committed with the pass (`C:1378-1396`). Versions are numbers; a constraint is
the set of versions it admits; a digest is a name for the content of a boundary,
which it identifies (`LaddersAssumption`). Either list of actions of a boundary
may be empty. The counter stops the controller at `MaxMigrationFailures`, at
least 2 (5 in the code, `C:1632`). `ran`, `completed`, `content`, `granted` and
`attempts` are history; a transition is in flight (`InFlight`) while a pass runs
or some of its work has been done.

### FleetRollout

A fleet reads its members once (`StartPass`), decides from that snapshot
(`Settled`, `NextSoak`, `Halts`, `firstOpen`, `openThrough`:
`fleetrollout_controller.go:186-253`), and stamps approvals or rollback
directives one member at a time (`StampMember`, `FinishPass`), with failures and
lost passes in between; `halt` and the refusals are `:96-181` and `:313-423`.
Members hold, succeed, fail and recover by themselves, with the approval rule of
`Migrations`. Time is the age of a member at its version and the soak left.

### DeliveryGates

Two StageSets, which may depend on each other, pass `dependenciesReady`
(`C:2238-2383`), the update windows (`windows.go`, `internal/window`), the error
budget (`errorbudget.go`) and the budget of a stage, in this order. Time is a
counter up to `Horizon`; a cron schedule is the set of its starts. A metric
answer is a record of what the checks of `internal/metricsource` look at: host,
redirects, dialled addresses, status, shape, samples, value. A pass works on
what it read at its start and writes its status once. Each element of `Configs`
is one configuration of windows and budgets; the run checks them all. An
override token is the time it was set at (`internal/cli/reconcile.go:28`), so a
new one is later than those before it. `NextStart` is none only when no later
start exists; cron gives up after five years. The limit of 10,000 starts within
one recurring window (`window.go:33`) is left out: at the limit the code reports
an earlier end, up to which the window is indeed active.

### TenantAccess

Two StageSets that use one ServiceAccount, and one that may use a kubeconfig.
`Token` is cut where it releases its lock and where it calls the API server
(`TokenCached`, `TokenMissing`, `Recheck`, `Mint`, `MintReturns`, `Land`:
`token.go:111-180`), `Forget` is `:182-195`; targets, remote clients and what is
forgotten with a deleted StageSet are `tenant.go`; `OpRefused` is the retry of
`authretry.go`. A token is the identity it was minted for and the time it has
left. `old` marks a token minted before an eviction; it is history. A teardown
ends by itself, or is given up after a 401 that survived its retry, a permanent
error or the maximum wait (`DropFinalizer`, `C:2083-2171`); either way
`forgetDeletedTenants` follows, unless the removal of the finalizer fails.

### StageRecord, InventoryShards and StageDelivery

`StageRecord` is what the rest of the controller counts on when it asks for a
stage's objects to be recorded. While a write is under way, entries of the old
and the new record may come and go, but no others. A write that succeeds left
nothing out, unless it trusted an outdated copy (`current` says that it did not),
and it stored exactly what it was asked for if the cache was up to date when it
began (`fresh`).

`InventoryShards` is the code (`stageinv.go:93-251`, `shard.go`), one action per
API request. The informer cache has its own copy of every shard, existence and
entries (`known`, `cached`), and lags behind for the shards in `stale`. The copy
decides what `CreateOrUpdate` sends (`stageinv.go:141`): nothing when it equals
the goal already, which on an outdated copy leaves the shard as it is
(`unchecked`); an update, which the API server takes only from an up-to-date
copy; or a create. Everything else is `Refused`. The cleanup finds the shards
that the cache knows. `CacheSyncs` brings a copy to the latest version. An
update goes only from an up-to-date copy, so a copy is at most one update behind,
or one update and a deletion; left out is that it is seen at two outdated
versions of a deleted shard, one after the other. Older shard names are in it as
`canonical = FALSE`. The refinement mapping is the union of the shards and the
state of the write.

`StageDelivery` follows one stage of one StageSet; the pass is cut wherever it
reads something that may change: the source (`StartPass`, `resolver.go`), the
decryption Secret (`ConfigureDecryption`), the bytes (`Fetch`, `fetcher.go`),
the policies and the tag (`BeginImages`, `VerifyImage`), the cluster (`Apply`),
the shards, the wait (`PollDeletion`, `VerifySucceeds`, `VerifyFails`:
`verifystage.go`). `Around` is everything else in the cluster; what a watch
reports enqueues, what `Unseen` changes does not, nor does the break-glass
annotation, which `stageSetWatchPredicate` drops (`C:2531-2539`) and a pass reads
with the StageSet at its start. The watch on ExternalArtifact is there from the
start of the process or not at all (`StaticWatch`, `C:2604-2611`); the one on a
Flux source kind is engaged by the first pass or when its CRD appears. The extra
watch on the kind of a producer only adds events. An artifact is a list of tar
entries with sizes, the key that seals it and the objects it renders; `Extract`
adds the sizes up entry by entry and stops at the first that is too much. Images:
one tag, the digests it may point to, and the digests each policy accepts.
`attempted` and `moved` are history.

## Runs

| run | instance | shows |
| --- | --- | --- |
| `Reconcile_clean` | five stage orders (rename, remove, swap), two edits, one disturbance; `s2` with prune: false, `b` opted out | `TypeOK`, `NoOrphans`, `DeletesOnlyRecorded`, `PruneFalseKept` |
| `Reconcile_rollback` | rollbackOnFailure, a gated and a budgeted stage, two edits, two disturbances (a death halfway through an apply and a lost revert among them), a revision at which both stages render one object | `LastGoodStaysLive`, `RollbackRestores` |
| `Reconcile_fair` | fairness; rename of a stage, one edit, one disturbance (failure, failed delete, lost inventory, crash between steps or within an apply), suspension, failing teardown | `DeliveredStayLive`, `RetryPending`, `TeardownReverse`, `FinalizerGuards`, `TeardownCompletes`, `Converges` |
| `Gate_core` | all gates, two tokens, two updates, unreadable checks, failed reverts, unusable snapshots, lost status writes | `GateSound` (types, `TokenOnce`), `RestartsCharged`, `StaysReverted` |
| `Gate_failures` | fairness; all gates, failures, progress holds, failed connections | `NeverUngated`, `SoakServed`, `SoakEnds` |
| `Ledger_runs` | two stages with an action of every scope, an anchor, an onFailure action; every exit, two outside events | `TypeOK`, `ActionOnceUnlessErased`, `NothingOwedUnlessSkipped`, `DirtyHalts` |
| `Migrations` | fairness; three versions, two boundaries on two stages, two ladders, both approval policies, two edits, one fault | `LedgersSound` (types, `ActionsRunOnce`, `SchemaNotAhead`, `AttemptsBounded`), `VersionMovesSafely`, `TransitionEnds` |
| `Fleet` | fairness; a gated canary that soaks and a wave of two, a pinned target, both regression policies, one failure, one disturbance | `StatusTruthful` (types, `CompletedMeansRolledOut`), `WavesInOrder`, `Completes` |
| `Gates` | fairness; four configurations: overlapping windows, an all-scope window with two budgets, an invalid window, two StageSets with dependencies | `HoldsRemembered` (types, `WakesWhenWindowOpens`, `TokenShipsOnce`), `GatesHold`, `NobodyWaitsInVain` |
| `Tenant` | fairness; two StageSets, one ServiceAccount, a kubeconfig, three outside events | `CachesSound` (types, `EvictedStaysOut`, `ExpiresOnlyInLongPass`, `NothingKeptForTheGone`), `Recovers` |
| `Delivery` | fairness; four revisions (plain, sealed, larger than the total, an oversized file before a duplicate), two digests, a keyless and a key policy, two objects in shards of one; two outside events or faults | `OnlyTrustedDelivered` (types, `ExtractBounded`, `OnlyPinnedApplied`, `OnlyVerifiedImages`), `InterruptedNotFailed`, `NothingOverlooked` (`PublishedIsAttempted`, `Delivers`, `TornDown`), the refinement `RecordSpec` |
| `Executor` | fairness; two StageSets that share two Jobs of two revisions, one timed and one not, one retry, two faults | `EffectsSound` (types, `RecordedIsDone`, `InOrder`, `NoJobLeft`), `CallsBounded`, `AllRecorded` |

All runs pass. Where the code is known to fall short of a claim of its
documentation, the instance leaves that combination out or the property names
the exception, and the divergence is described below.

Bounds. Two stages are enough for every interaction of the stage loop (an
earlier stage that is done, a later one that holds or fails); the third name is
for renames. Four objects of two kinds give each stage one object that stays,
one that goes, one that comes and one that moves. Two revisions distinguish old
from new. `MaxEdits` and `MaxFaults` bound how many edits and disturbances a
behaviour has, not when: one disturbance between any two steps, two where a
rollback has to fail as well. Deadlock is not checked for `StageSetReconciler`:
a StageSet that is gone, suspended or waiting for an edit has nothing to do.

`ActionLedger` needs two stages so that an exit can leave one behind, and
`MaxEvents` = 2 so that a request can meet an update, a second request or a
vanished witness; how often a pass fails, holds or is lost is not bounded.
`MaxActionFailures` is 2 instead of the default 5, enough to tell counting from
not counting. Revisions and versions are only compared for equality, so
permuting either is a symmetry. Deadlock is not checked here either: after a
dirty halt, a stall or a permanent error nothing is queued until an event.

The bounds of the other modules follow the same rule: two of everything that
can meet (StageSets, boundaries, waves, policies, Jobs, shards), and one or two
disturbances at any step. `Migrations` has three versions so that a plan has
two boundaries. `Gates` has a horizon of four ticks, in which every pair of
window edges in the instance occurs, and `MaxRequeue` below it so that the cap
of the sleep matters. In `Tenant` three events allow an account to be deleted and
recreated while a kubeconfig rotates. In `Delivery` a shard holds one entry, so
every record of two objects is split, and two events allow a fault to be cured
or a revision to be followed by another. Of the limits of an archive the run
breaks the total, the entry limit and the duplicate check; the decompressed one
is left to the theorem. In `Executor` two faults let a Job
fail, be removed by the other StageSet, or outlive a crash and meet a new
revision. Deadlock is not checked in these modules: delivered, halted or deleted
objects have nothing to do.

Fairness. The workqueue hands a queued StageSet to a worker and the worker runs
`Reconcile` to its end (weak fairness of `Reconcile`, of the timer and of the
teardown wait). A gate that is asked again and again promotes in the end, per
gated stage (strong fairness): a soak elapses, a metric recovers, an operator
promotes. Nothing is assumed of edits, sources, crashes or deletions.
`PromotionGate` assumes only that passes go on and time passes. `SoakEnds` has two
parts: a pass at the soaking revision that does not fail leaves the deadline where
it is or goes past the soak, and a soak that nothing puts off any more (no failure,
no hold for progress, no block) ends past the soak, not in another hold. `Migrations`,
`FleetRollout`, `DeliveryGates`, `TenantAccess` and `StageDelivery` assume that
a due pass starts and a running one goes on (every request and every wait has a
timeout), that members, the informer cache and the clock go on, and of
`ActionExecutor`'s surroundings that Jobs end, deadlines and limits pass and what is
waited for comes. Users, sources, metrics and faults are never fair: the liveness
properties say what follows once they leave the system alone.

Every property has a mutant in `PROJECT.json`: a version of one definition with
a plausible bug, under which TLC finds the property violated.

## Divergences between code and documentation

Found while modelling. Each is a behaviour of the model, and of the code, that a
document, a comment or a test says does not happen. No run asserts the stronger
claim.

StageSet reconciler, gate and ledgers:

* A pass held or failed by a later stage orphans objects: the record of a stage
  is replaced right after its apply (`C:959`), the prune of what dropped out runs
  only after every stage, from the record read at the start of the same pass.
  `docs/content/defining-a-release/inventory.md:16-17`: "On the next reconcile it
  diffs the new render against that record and prunes the objects that dropped
  out". `NoOrphans` is therefore checked where nothing holds or fails.
* Two stages with one source may pin two revisions of it (`C:414-431` reads it
  once per stage); an object that moves between them is then rendered by neither
  and deleted, until the next pass. `internal/inventory/plan.go:38-40`: "Objects
  that merely moved between stages are transferred, never deleted".
* A gate that cannot be evaluated writes the new revision next to the old
  verdict (`C:1026`); if that was Promoted, the next pass lets the new revision
  through ungated (`promotion.go:115`). `C:1054`: "never advance blind - the gate
  fails closed". `NeverUngated` is checked with every failure but this.
* `failStage` writes a status without the handled promote token (`C:1730`), so a
  token still on the object promotes again. `promotion.go:19-22`: it "fires
  exactly once per new token". `TokenOnce` is checked without stage failures.
* A pass that used a token and then loses its status write has promoted, and the
  next pass uses the token again (`C:1087`, `C:1411`), also for a revision that
  was published in between. A revert whose status write is lost leaves no aborted
  revision, so the reverted revision is applied again; `analysis.go:147-149` says
  that it must be parked. `TokenOnce` and `StaysReverted` speak of recorded
  promotions and reverts.
* A revert that fails after its apply leaves the snapshot live under a status
  that names the new revision (`C:1112-1124`: "The revert didn't land"), and a
  first observation of the pods whose write is lost starts the restart window
  later.
* A failure before the stage loop (`C:518`, `C:580`) calls `failStage` with an
  empty ledger for the first stage, and its actions run again at the same
  revision and version (`api/v1/stageset_types.go:1519-1522`). The exception in
  `ActionOnceUnlessErased`.
* A reset request is marked handled by a pass that stops before the stages it
  should reset (`C:616`; `stageset_types.go:1384`: "A reset clears every stage's
  version ledger"). The exception in `NothingOwedUnlessSkipped`.
* A rollback, and a deletion that lands in the verify wait, orphan objects by
  the same write order (`rollback.go:125-126`, `C:2017-2019` promise otherwise).
* By the same order an object that moves to a stage with `prune: false` in a pass
  that does not get through is in the records of both stages; a deletion then
  removes it for the other stage, although `C:2017-2019` skips "prune:false
  stages, whose objects are deliberately orphaned". In `Reconcile_clean` no other
  stage renders what such a stage renders.
* `DuplicateClaims` is called after every stage was applied (`C:1307`);
  `plan.go:91-92` says before anything is applied.
* A block after the soak was served starts a whole new soak
  (`promotion.go:195-198`).
* A failure before the loop erases the first stage's aborted revision
  (`C:518`; `analysis.go:142-149`), and `failStage` the restart baseline
  (`restartgate.go:51-58`).
* An interrupted gate hands the running soak of one revision to the next.
* A hold for progress and a failure write the stage without the force token it
  had handled; an annotation that is still there then forces the stage again on
  every retry, though `C:1219-1220` says its actions must not re-run. The
  account of `ActionLedger` counts the repeated request as a new one, so no run
  flags it.
* A baseline assertion is promoted again by the next pass after a completion was
  dropped because its witness vanished; unless the pass that dropped it also
  re-ran the action, the action is not run again.
* A rollback that fails transiently re-queues (`C:1272`), also when the failure
  was the dirty halt of a bootstrap, which `C:1639-1642` says stops auto-retrying.
* A failure before the loop returns the error of `failStage` as it is
  (`C:518`, `C:580`), so a terminal one is re-queued with backoff; the comment at
  `C:1757-1760` says it must not be.
* The UID recorded with an anchored completion is read after the action ran.

Migrations and fleets:

* A downgrade reverses the boundaries stage by stage in the order of the stages
  (`migrations.go:612`), so a boundary anchored to an early stage is reversed
  before a newer one of a later stage;
  `docs/content/gating/versioned-migrations.md:250` says newest first.
* When version or ladder are edited while a transition is under way, a boundary
  above the version may stay applied; `SchemaNotAhead` is checked with edits
  between transitions (`EditsInFlight = FALSE`). It also says nothing for
  boundaries that a ladder drops or moves to another version: the way down finds
  what to undo in the ladder, not in the ledger.
* At the limit of failures nothing is queued (`C:1661`), but an edit made during
  the last pass has queued a pass already, which attempts the migration once
  more. `AttemptsBounded` counts attempts since the last edit.
* An approval names a version, not the content of its ladder: what is approved
  may be edited before it runs.
* Without `targetVersion` a fleet approves per member the version that member
  has pending (`fleetrollout_controller.go:478-498`), and a member with nothing
  pending counts as adopted: a later wave may be approved for a version the
  canary has not seen. `Fleet` pins the target.
* The rollback of a halted wave stamps a directive (`:319-335`), but the approval
  on the member still names the newer version; under an approval mode that asks
  for one, the member waits for ever (`C:543-569`) although
  `docs/content/gating/fleet-rollout.md` says it goes back.
* A halt for a regression lasts until the next pass, which no longer finds the
  soak it regressed from; a failed patch in the rollback of a halt loses the
  halt; a List that fails is reported as `InvalidSelector` and not retried
  (`:127`), and a member in two waves is not reported.

Windows, budgets, dependencies:

* A StageSet held back by its frozen budget stays Ready, so its dependents go
  ahead; the comment at `C:2270-2277` says a pending revision is not-ready for
  them.
* An update-now token is spent by a pass that the budget then defers.
* A stage gate under `onSourceError: Hold` forgets its freeze when the source is
  unreadable, and a stage that failed once is not gated again, because
  `failStage` has recorded the revision as applied (`C:746`).

Tenants and delivery:

* After a refused request the retry may join a mint that began before the
  eviction and get the same refused identity again (`authretry.go:44-47`,
  `:98-104`); the next pass recovers. Remote clients are never evicted
  (`tenant.go:189-204`).
* While a record is rewritten, the union of its shards may lack an entry that
  the old and the new render have, when it moves to another shard; a pass that
  reads the shards after a crash at that point does not see it. `StageRecord`
  allows this.
* `stageinv.go:128` says that `Write` "replaces the stored shards". On an outdated
  copy that equals the new entries already, as when a revision is followed by its
  predecessor, `CreateOrUpdate` sends nothing and the stored shard keeps the other
  ones; an obsolete shard that the cache has not seen is overlooked. The next pass
  repairs it, and one is queued by the change of the shard: `Delivers` states that
  the record ends up exact. The exceptions `current` and `fresh` in `StageRecord`.
* Setting or removing the break-glass annotation wakes nobody (`C:2531-2539`); a
  StageSet whose images were refused, which is terminal, looks at it only when
  something else happens. `Delivers` covers it by its terminal exception.
* The comment at `C:2726` says that ExternalArtifact is watched statically; if its
  CRD is installed after the controller started it is not watched before the next
  restart (`C:2604-2611`), and a publication after a terminal failure goes
  unnoticed. `PublishedIsAttempted` speaks of sources under a watch.
* After a terminal stage failure nothing is queued (`C:1296-1298`), while the
  comment above it, `runbooks/rbacdenied.md:22` and `runbooks/stagefailed.md:15`
  promise the next interval, and `C:79-88` a re-check about once a minute. The
  exception in `Delivers`.
* A tar entry above the limit of a single entry is retried; the comment on
  `terminalFetchError` (`errors.go:69-84`) calls oversized entries terminal.
* Every policy resolves the tag by itself and the digest of the last is pinned
  (`imagegate.go:66-74`): a tag that moves in between may pin a digest that the
  first policy never accepted. The exception in `OnlyVerifiedImages`.
* A failure to load the Sigstore trusted root is kept for the life of the
  process (`verifier.go:160-179`).

Actions:

* Two StageSets that use the same job artifact can keep removing each other's
  Jobs (`actions.go:478-484`, `:531`); `AllRecorded` asks that the others stop.
* `suffixName` may truncate two Job names of one artifact to the same name; the
  second is then adopted and never run. The model assumes they differ.
* A crash between the end of a Job and its record runs the Job again; a crash
  followed by a new revision leaves the old Job behind.
* A Create that ends in an error may have taken effect. `job` returns before it
  notes that Job (`actions.go:478-483`), so nothing removes it until a later
  attempt at the same revision takes it over; the comment at `:444-446` promises
  that what was created is garbage-collected. A Delete that ends in an error is
  ignored (`:531-535`). The exception `left` in `NoJobLeft`.

## Proofs

Every theorem is about `Spec` (`MigrationSpec`, `ShardSpec`) for all values of
the constants that satisfy the named assumptions of the module: any number of stages, objects, revisions,
members, windows and so on, and no bound on edits or faults but that there is
one. The pattern is the same throughout. A property is seldom inductive, so a
stronger invariant is stated as a conjunction of named parts, checked by TLC on
the instance of the module's run, and then proved to hold initially and to be
preserved by each action. Some properties hold only where a known divergence, or
a disturbance that the controller does not recover from, is kept out; that is a
hypothesis of the theorem, with a definition of its own.

### StageSetReconcilerProofs

Assumed of the constants: stage names are finite, `Absent` and `Foreign` are
not stages, a spec has at least one stage and no name twice
(`ValidateStages`), and `Render`, `SourceOf`, `KindOf` are functions.

| theorem | states | hypothesis |
| --- | --- | --- |
| `TypeCorrect` | `TypeOK` | |
| `Invariance` | `Inv`, see below | |
| `Delivered` | `DeliveredStayLive` | |
| `DeletionsRecorded` | `DeletesOnlyRecorded` | |
| `ReverseTeardown` | `TeardownReverse` | |
| `FinalizerSafe` | `FinalizerGuards` | |
| `LastGoodKept` | `LastGoodStaysLive` | `PruneGoesOn`: no step of a prune fails or crashes |
| `RestoresBoth` | `RollbackRestores` | `RecordsStay`: no StageInventory disappears while a rollback runs |
| `ComesBack` | `RetryPending` | `NothingTerminal`, `DisjointRenders`: no failure is terminal, no two stages of a spec render one object |
| `NothingLeftBehind` | `NoOrphans` | `Undisturbed`: a pass that enters the stage loop commits, unless the StageSet is being deleted; no StageInventory disappears |
| `PruneFalseHonoured` | `PruneFalseKept` | `KeepersAlone`: no other stage can render what a stage with prune: false can |
| `PruneFalseHonouredMoving` | `PruneFalseKept` until the deletion is requested | `Undisturbed` |

`DeliveredStayLive` is not inductive: that a prune spares what was delivered
follows only if its plan was computed from the stages that really were
delivered. `Inv` therefore carries, besides types and the position of the loop
(`IInv`), that the stages left to prune belong to the plan (`PruneInv`), that
`delivered` is exactly the prefix of the run the loop has passed and that a
stage applied but not yet recorded is live (`DeliveredInv`), and for the
teardown that it works from the stored inventory and has emptied what it walked
past (`TeardownInv`, `RecordsInv`). `StepShape` sorts the actions by what they
do to the pass and `DeletionStep` by what they may delete; every other proof is
by these two.

`NoOrphans` is about the whole life of an object across passes. `CleanInv` says
at each place of a pass which record will still prune it: between passes the
stored one (`BetweenInv`); in a pass the new record for what it has delivered
(`PassInv`), and for everything else, in the loop the copy of the old record
(`RunningInv`), in the prune the part of the plan that is left (`PruningInv`).
That renames, removals and swaps of stages leave nothing behind is the step from
the loop to the prune, where the planning operators of
`Inventory` have to find every object that no longer belongs.

That prune: false is kept is a matter of whose object it is. `OwnInv` says that
labels and records, reconstructed ones included, name only what their stage can
render; where stages share nothing, what is deleted for a stage is therefore
its own, whatever failed, crashed or was lost. Where objects move between
stages, `PlannedInv` carries from the loop through the prune that what a stage
had recorded is labelled with it or was claimed by a stage of this pass. Without
either hypothesis the property fails, see the divergences.

The hypotheses on runs (`[][...]_vars`) leave out failures and crashes at the
named places; the divergences that begin "A pass held or failed by a later stage"
and "A rollback, and a deletion" say what happens there. Under `Undisturbed` a
pass may still be deferred, fail or crash before the loop, edits, sources and
other owners change at any time, and the StageSet may be deleted in any pass.

### ActionLedgerProofs

Assumed: stage names are unique, action names are unique within a stage
(`webhook.go:594-650`; an action of the model is a name with its stage), scopes
are the three of the API, and the bounds are natural numbers. No hypothesis.

* `LedgerTypeCorrect`: `TypeOK`, which includes that every recorded action is in
  the ledger of its scope;
* `DirtyHaltsAlways`: `DirtyHalts`;
* `NothingRepeated`: `ActionOnceUnlessErased`;
* `NothingSkipped`: `NothingOwedUnlessSkipped`.

`attempts` is no part of the program, so `FailInv` ties it to the counter the
program keeps. Below the limit the counter has seen every attempt; at the limit
either none was made since the last outside event, or the pass is dirty and
nothing is queued. That a failing Lifetime action is always counted needs
`TodoInv`: the executor only works on actions of the stage that are not done,
and an onFailure action is never a Lifetime action. `FiledInv` carries the
filing by scope through the copies a pass keeps.

The other two compare the ledgers with the account of what is owed. A pass holds
up to four versions of a stage's ledger, so `OnceInv` states the agreement for
each: the stored status with `truth`, and with the account of the pass the
output of the stages behind, the stage in hand (`InHand`) and the stages ahead,
whose ledgers are still those the pass started from.

### ActionExecutorProofs

* `RecordedEffectsAreReal`: `EffectsSound`, that is, a recorded action took
  effect as a whole, actions are recorded in their order, and a Job that stays is
  one whose creation or removal ended in an error or was cut off by a crash;
* `RefusalIsFinal`: `CallsBounded`.

The invariant follows the pass of one StageSet (`Turn`, `Progress`, `Place`,
`Calls`: what is recorded is the prefix before the current action; what has been
sent belongs to it; a Job that is awaited has been created) and ties the passes
together at the Jobs they share: a Job that exists is on the removal list of
some pass, or was left by one that crashed or whose Create or Delete ended in an
error (`HeldInv`).

### FleetRolloutProofs

* `CompletedIsTrue`: `StatusTruthful`;
* `WavesKeepTheirTurn`: `WavesInOrder`.

Hypothesis: the rollout pins its version (`TargetVersion # NoVersion`). A pass
decides from a snapshot and stamps later, so the invariant says of the pass what
is true of the members by then: the soaks it carries are no shorter than what
its members still owe (`SoakSound`), and what it has left to stamp may be stamped
(`StampsInv`). That the first open wave has only settled waves before it is
proved by taking the least wave that is not (`WFMin`).

### AdvancementProofs: the promotion gate

* `TokensSpentOnce`: `GateSound`; `RevertsHold`: `StaysReverted`;
  `NoRestartForgotten`: `RestartsCharged`; these under `MemoryKept`, no failure
  writes a status without the promotion fields;
* `VerdictsAreOwn`: `NeverUngated`, under `VerdictsKept`, no gate check is
  interrupted;
* `SoaksAreServed`: `SoakServed`, under `StatusInStep`, which excludes lost status
  writes too: after one the status trails what is live;
* `DeadlinesKept`: the safety part of `SoakEnds`, without hypothesis.

All but `SoaksAreServed` hold although any pass may lose its status write.

Each part of the memory has its invariant, tied to a history variable:
`TokenInv`, `BannedInv`, `BaseInv`, `VerdictInv`, and `SoakInv` for the deadline.

### AdvancementProofs: migrations

Assumed: versions are positive numbers, ladders and their actions are lists, the
digest of a boundary identifies its content (`LaddersAssumption`), and the limit
of failures is at least 2 (`MigrationAssumption`).

| theorem | states | hypothesis |
| --- | --- | --- |
| `RetriesSound` | types, `ActionsRunOnce`, `AttemptsBounded` | |
| `BoundariesCrossed` | the version moves only over completed boundaries, and under approvalMode Always only where approved | |
| `MovesSafely` | `VersionMovesSafely` | `BoundariesFixed`: every ladder that names a boundary gives it the same version |
| `LedgersAlwaysSound` | `LedgersSound` | `BoundariesFixed`, `BoundariesStay` (no valid ladder leaves a boundary out), and no edits in flight |

`TransitionInv` is inductive without hypothesis. It says that the plan of the
running pass is one that planning can return (`PlanSound`: its boundaries are of
the ladder, lie between the two versions, each once, and in the order of the
move), that both ledgers, in the status and in memory, record only what was
completed (`LedgersInv`), that the stages behind have nothing left to do
(`StagesInv`), that the version in view was approved (`GrantInv`), that an action
the ledger does not know was done only as often as a crash made it forget
(`RanInv`), and that the counter has seen every attempt (`AttemptsInv`).

What the version may count on is the content of a boundary, which the ledger
keys by digest: `UpInv` says that a content recorded as done ahead of the version
is the one that is applied, unless another content of the same boundary was just
done and is yet to be recorded (`Superseded`); `DownInv` is its mirror for what
was reversed. `SchemaInv` adds that whatever is applied ahead of the version
belongs to a transition that is still going there. TLC found none of them
violated on the instance of the run, nor, `SchemaInv` aside, with edits in
flight.

Two lemmas carry the planning. `OrderedEntries`: `Ordered`, the sort of the
selected boundaries, returns each of them once and in order, for any ladder.
`PlanShape`: whatever the version, the ladder, the approvals and the directives,
what `PlanVersionMigrations` returns is sound.

### TenantAccessProofs

* `CachesAlwaysSound`: `CachesSound`, without hypothesis.

`PlaceInv` says where the pass of a StageSet that is going away may be,
`FlightInv` that a mint in progress is awaited by someone and that a token
outdated in flight comes from an earlier epoch, `HeldInv` that the time left of a
token and the time it has been held make up the margin, `KeptInv` that someone
is still there to evict what is cached.

### StageDeliveryProofs

Assumed: a finite set of objects with distinct IDs, a positive capacity.

* `ShardsInvariant`: `ShardSpec => [](ShardTypeOK /\ WriteProgress)`;
* `ShardsImplementRecord`: `ShardSpec => RecordSpec`, the shards under arbitrary
  writes;
* `DeliveryImplementsRecord`: `Spec => RecordSpec`, the shards under the writes
  and deletions of a stage, with all its failures;
* `TrustedOnly`: `OnlyTrustedDelivered`;
* `InterruptionIsNoFailure`: `InterruptedNotFailed`.

Each entry has a position in the order of the IDs, positions are below the
number of entries, and so every entry falls into one of the `ShardCount` shards:
that a finished write has stored everything is a fact about division, proved from
the monotonicity of `\div`. `WriteProgress` says how far a write has come: the
shards before `next` hold their part or were left alone because of an outdated
copy, the cleanup is disjoint from them, and, if the cache was up to date when the
write began, none was left alone and everything else is to be deleted, although
the cache falls behind with every step of the write itself. With it every
step maps to a step of `StageRecord` or to a stutter, and every step of
`StageDelivery` is a step of `ShardSpec` or leaves the shards alone.

For `TrustedOnly` the invariant says what the pass already knows at each place:
its revision is the one it recorded as attempted (`PinnedInv`), its files are the
extraction of that revision (`FilesInv`), its digest is accepted by the policies
already asked unless the tag moved in between (`ImagesInv`). That `Extract` keeps
within its limits is proved for every artifact.

### DeliveryGatesProofs

* `GatesInvariant`: `GatesInv`;
* `HeldRightly`: `HoldsRemembered`;
* `EveryGateHolds`: `GatesHold`.

No hypothesis but the assumptions on the configurations, `GatesAssumption` and
`ConfigsAssumption`. The invariant says that every token that was used is one
the status will remember (`TokensInv`), that a budget too low since its freeze was
saved is still frozen and no pass is past it (`StarvedInv`), that a ready StageSet
and every dependency a pass went on with have delivered (`DepsInv`), that the
windows as written, or an override, allowed a new revision that is past them
(`WindowInv`), and that a revision they hold wakes in time (`WakeInv`). Most of the work is the decision itself: the code walks from one
start of a cron schedule to the next and merges overlapping windows;
`DecisionSound` and `WindowSound` show that this is the state of the windows at
that tick and that no boundary before the reported one is passed over, for any set
of starts and any durations.

### What is only model-checked

Every safety property that a run checks is stated by a theorem, some under the
hypotheses above; beyond a hypothesis it is what TLC shows on the instance. Left
to TLC is everything under fairness (`Converges`, `TeardownCompletes`,
`SoakEnds`, `TransitionEnds`, `Completes`, `NobodyWaitsInVain`, `Recovers`,
`NothingOverlooked`, `AllRecorded`; of `SoakEnds` the safety part is proved):
liveness and ENABLED are out of the prover's reach.

Induction theorems that take an operator as a parameter are out of reach as
well. The recursive functions over naturals and the folds over prefixes are
reasoned about by the least counterexample instead (`WFMin` of
`WellFoundedInduction`).

## Plan

* In `ActionLedger`: a history of handled force tokens, and the crash between
  running and recording a Lifetime action as a step of its own.
* In `Migrations`: a ledger that outlives the ladder, to say what becomes of a
  boundary that is dropped.

## Not modelled

* Admission (`webhook.go`, `imagepolicy_webhook.go`): stateless checks of one
  object; what they guarantee is assumed of the constants.
* Rendering (kustomize, substitution), SOPS, signature arithmetic, CEL and
  kstatus: libraries or pure transformations; their outcomes are constants or
  free choices.
* The S3 protocol of the rollback store: a stored render is available or not.
* Certificate renewal, process start-up, flags, CLI, previews, MCP server,
  metrics, tracing, events and the wording of conditions: no state the
  controllers share, or no effect on it.
* API types: the fields that modelled operations read and write are in the
  models; the deep-copy code is generated.
