---------------------------- MODULE DeliveryGates ----------------------------
(***************************************************************************)
(* What holds a revision back before any stage runs: spec.dependsOn,       *)
(* update windows, and the error budgets of the rollout and of a stage,    *)
(* with their two one-shot overrides (internal/controller/windows.go,      *)
(* errorbudget.go, internal/window, internal/metricsource and the          *)
(* dependency gate of stageset_controller.go).  Several StageSets          *)
(* reconcile concurrently; each pass reads the dependency graph live, node *)
(* after node, while the others write their status.                        *)
(*                                                                         *)
(* Time is a tick count.  A cron schedule is the set of its start ticks.   *)
(* Revisions are numbers and double as the deployed version; 0 is none.    *)
(***************************************************************************)
EXTENDS Integers, Sequences, FiniteSets, FiniteSetsExt

CONSTANTS
    StageSets,
    Graphs,             \* dependsOn of every StageSet: the graphs the users may write
    MinVersion,         \* dependsOn[].minVersion of the edges onto each StageSet, 0 when unset
    Configs,            \* the situations this instance explores: which StageSets there are,
                        \* their windows and budgets, what the sources answer, the last tick,
                        \* and bounds on what users and sources change and on faults
    NoBudget,
    Responses,          \* what a metric source may answer
    Revisions, Tokens,  \* revisions a source may serve, override tokens; positive numbers
    Horizon,            \* the last tick
    MaxRequeue          \* the longest sleep of requeueForWindow, in ticks

ASSUME GatesAssumption ==
    /\ Graphs \subseteq [StageSets -> SUBSET StageSets] /\ Graphs # {}
    /\ MinVersion \in [StageSets -> Nat]
    /\ Revisions \subseteq Nat \ {0} /\ Revisions # {} /\ Tokens \subseteq Nat \ {0}
    /\ Horizon \in Nat /\ MaxRequeue \in Nat \ {0}

NoTime == -1        \* the zero time, and a threshold that is not given
Unavailable == -1   \* no answer, or none that makes sense
NotANumber == -2

\* What a window and a budget are made of.
WindowForm(w) == w.starts \subseteq Nat /\ w.dur \in Nat /\ {w.from, w.to} \subseteq Nat \cup {NoTime}
BudgetForm(eb) == eb.freezeThreshold \in Nat /\ eb.resumeThreshold \in Nat \cup {NoTime} /\ eb.dryRun \in BOOLEAN

ASSUME ConfigsAssumption ==
    /\ \A c \in Configs :
        /\ c.present \subseteq StageSets /\ c.responses \subseteq Responses /\ c.horizon \in 0 .. Horizon
        /\ {c.maxEdits, c.maxFaults} \subseteq Nat
        /\ \A s \in StageSets :
            /\ c.windows[s] \in Seq(Range(c.windows[s]))
            /\ \A i \in DOMAIN c.windows[s] : WindowForm(c.windows[s][i])
            /\ \A eb \in {c.budget[s], c.stageBudget[s]} \ {NoBudget} : BudgetForm(eb)
    /\ \A r \in Responses : r.value \in Nat \cup {NotANumber}

VARIABLES
    clock,
    config,     \* the situation
    deps,       \* spec.dependsOn
    gen,        \* metadata.generation
    rev,        \* the revision each source serves
    answer,     \* what each budget's source would answer
    updateNow, budgetOverride,      \* the override annotations
    \* status:
    observed,   \* observedGeneration
    reason,     \* reason of the Ready condition
    ready,      \* its status
    applied,    \* lastAppliedRevisions, 0 before the first
    entered,    \* appliedRevision of the stage's status
    pending,    \* pendingUpdate.revisions, 0 when none is held
    freeze, stageFreeze,            \* budgetFreeze is set, on the rollout and on the stage
    handledUpdate, handledBudget,   \* lastHandled...Override
    wakeAt,     \* the tick the next pass is due
    pass,       \* the running pass of each StageSet
    \* What really happened:
    starved,    \* the budget has been readable and too low ever since a freeze was saved
    held,       \* the revision a gate held back at the end of the last pass, 0 when none
    spent,      \* <<StageSet, override, token>> that shipped a revision and were saved
    edits, faults

userVars == <<config, deps, gen, rev, answer, updateNow, budgetOverride>>
statusVars == <<observed, reason, ready, applied, entered, pending, freeze, stageFreeze, handledUpdate, handledBudget>>
vars == <<clock, userVars, statusVars, wakeAt, pass, starved, held, spent, edits, faults>>

Present == config.present           \* the StageSets there are
Windows == config.windows           \* spec.updateWindows
WindowScope == config.scope         \* spec.windowScope
Budget == config.budget             \* spec.errorBudget, or NoBudget
StageBudget == config.stageBudget   \* errorBudget of the stage, or NoBudget

Never == Horizon + MaxRequeue + 1

-----------------------------------------------------------------------------
(* Update windows.                                                         *)

\* cron's Next: the first start after t.
NextStart(w, t) == LET later == {s \in w.starts : s > t} IN IF later = {} THEN NoTime ELSE Min(later)

WindowInvalid(w) ==
    CASE w.form = "absolute" -> w.from = NoTime \/ w.to = NoTime \/ w.to <= w.from
      [] w.form = "recurring" -> w.dur <= 0
      [] OTHER -> TRUE          \* both forms at once, or neither

Active(a, next) == [active |-> a, boundary |-> next]

evalAbsolute(w, t) ==
    CASE t < w.from -> Active(FALSE, w.from)
      [] t >= w.from /\ t < w.to -> Active(TRUE, w.to)
      [] OTHER -> Active(FALSE, NoTime)

\* The boundary of an active window is the end of its latest start.
evalRecurring(w, t) ==
    LET candidate == NextStart(w, t - w.dur)
        latest == Max({s \in w.starts : candidate <= s /\ s <= t})
    IN  CASE candidate = NoTime -> Active(FALSE, NoTime)
          [] candidate > t -> Active(FALSE, candidate)
          [] OTHER -> Active(TRUE, latest + w.dur)

evalWindow(w, t) == IF w.form = "absolute" THEN evalAbsolute(w, t) ELSE evalRecurring(w, t)

\* Mutant: the last boundary of the windows instead of the first.
decisionAtLast(ws, t) ==
    LET eval == [i \in DOMAIN ws |-> evalWindow(ws[i], t)]
        on(type) == \E i \in DOMAIN ws : ws[i].type = type /\ eval[i].active
        hasAllow == \E i \in DOMAIN ws : ws[i].type = "Allow"
        ahead == {eval[i].boundary : i \in DOMAIN ws} \ {NoTime}
    IN  [allowed |-> ~on("Deny") /\ (hasAllow => on("Allow")),
         next |-> IF ahead = {} THEN NoTime ELSE Max(ahead)]

decisionAt(ws, t) ==
    LET eval == [i \in DOMAIN ws |-> evalWindow(ws[i], t)]
        on(type) == \E i \in DOMAIN ws : ws[i].type = type /\ eval[i].active
        hasAllow == \E i \in DOMAIN ws : ws[i].type = "Allow"
        ahead == {eval[i].boundary : i \in DOMAIN ws} \ {NoTime}
    IN  [allowed |-> ~on("Deny") /\ (hasAllow => on("Allow")),
         next |-> IF ahead = {} THEN NoTime ELSE Min(ahead)]

(* The instant the decision flips: walk from boundary to boundary, at most *)
(* 2n + 2 of them, and fall back to the first.                             *)
Steps(ws) == 2 * Len(ws) + 2
Onward(ws, from) == IF from = NoTime THEN NoTime ELSE decisionAt(ws, from).next
Walk(ws, now) ==
    LET walk[i \in 0 .. Steps(ws)] == IF i = 0 THEN now ELSE Onward(ws, walk[i - 1]) IN walk
Decision(ws, now) ==
    LET first == decisionAt(ws, now)
        walk == Walk(ws, now)
        steps == 1 .. Steps(ws)
        flips == {i \in steps : walk[i] # NoTime /\ decisionAt(ws, walk[i]).allowed # first.allowed}
        ends == {i \in steps : walk[i] = NoTime}
    IN  [allowed |-> first.allowed,
         next |-> CASE flips # {} -> walk[Min(flips)]
                    [] flips = {} /\ ends # {} -> NoTime
                    [] OTHER -> first.next]

\* Decision for every window list and tick of the instance.
Decided == [ws \in UNION {{c.windows[s] : s \in StageSets} : c \in Configs} |-> [t \in 0 .. Horizon |-> Decision(ws, t)]]

requeueForWindow(next, now) ==
    IF next = NoTime THEN now ELSE now + Max({1, Min({next - now, MaxRequeue})})

-----------------------------------------------------------------------------
(* The metric source: one GET, and the one number in its answer.           *)

allowedHost(r) == r.host = "allowed"

\* A bearer token is never carried to another host; ten redirects are followed.
checkRedirect(r) == r.hops < 10 /\ r.hop # "refused" /\ ~(r.secret # "none" /\ r.hop = "otherHost")

applyBearer(r) == r.secret \in {"none", "token"}

\* Every address the host resolves to must be allowed.
safeDialContext(r) == r.addresses # {} /\ "forbidden" \notin r.addresses

fetch(r) == safeDialContext(r) /\ (r.hops > 0 => checkRedirect(r)) /\ r.status = 200 /\ r.body = "json"

sampleValue(r) == IF r.value = NotANumber THEN Unavailable ELSE r.value

scalarFromResult(r) == IF r.shape = "scalar" \/ (r.shape = "vector" /\ r.samples = 1)
                       THEN sampleValue(r) ELSE Unavailable

scalarFromJSONPath(r) == IF r.samples = 1 /\ r.shape = "scalar" THEN sampleValue(r) ELSE Unavailable

Reached(r) == r.address = "url" /\ allowedHost(r) /\ applyBearer(r) /\ fetch(r)

queryPrometheus(r) == IF Reached(r) /\ r.prometheus = "success" THEN scalarFromResult(r) ELSE Unavailable

queryWebhook(r) == IF Reached(r) THEN scalarFromJSONPath(r) ELSE Unavailable

Query(r) == CASE r.provider = "prometheus" -> queryPrometheus(r)
              [] r.provider = "webhook" -> queryWebhook(r)
              [] OTHER -> Unavailable

-----------------------------------------------------------------------------
(* Error budgets.                                                          *)

BudgetInvalid(eb) == eb.resumeThreshold # NoTime /\ eb.resumeThreshold < eb.freezeThreshold

effectiveResume(eb) == IF eb.resumeThreshold = NoTime THEN eb.freezeThreshold ELSE eb.resumeThreshold

\* Mutant: the freeze forgets that it is in force.
evaluateBudgetAfresh(eb, wasFrozen, r) ==
    CASE BudgetInvalid(eb) -> "specErr"
      [] ~BudgetInvalid(eb) /\ Query(r) = Unavailable -> "sourceErr"
      [] OTHER -> IF Query(r) < eb.freezeThreshold THEN "frozen" ELSE "open"

evaluateBudget(eb, wasFrozen, r) ==
    CASE BudgetInvalid(eb) -> "specErr"
      [] ~BudgetInvalid(eb) /\ Query(r) = Unavailable -> "sourceErr"
      [] OTHER -> IF Query(r) < (IF wasFrozen THEN effectiveResume(eb) ELSE eb.freezeThreshold)
                  THEN "frozen" ELSE "open"

(* What either budget gate decides: whether it holds and for which reason, *)
(* and the freeze it leaves behind.  An outage keeps the rollout's freeze  *)
(* and drops the stage's (keep).                                           *)
BudgetGate(eb, wasFrozen, r, keep) ==
    LET v == evaluateBudget(eb, wasFrozen, r) IN
    CASE v = "specErr" -> [hold |-> TRUE, reason |-> "InvalidSpec", freeze |-> wasFrozen]
      [] v = "sourceErr" /\ eb.onSourceError = "Hold" ->
            [hold |-> TRUE, reason |-> "BudgetSourceUnavailable", freeze |-> wasFrozen /\ keep]
      [] v = "sourceErr" /\ eb.onSourceError # "Hold" -> [hold |-> FALSE, reason |-> "", freeze |-> FALSE]
      [] v = "open" -> [hold |-> FALSE, reason |-> "", freeze |-> FALSE]
      [] OTHER -> [hold |-> ~eb.dryRun, reason |-> "BudgetExhausted", freeze |-> TRUE]

Verdict(hold, why, frozen) == [hold |-> hold, reason |-> why, freeze |-> frozen]

\* gateErrorBudget: nothing new to roll out, or the break-glass, lifts the freeze unread.
gateErrorBudget(s, p) ==
    IF Budget[s] = NoBudget \/ p.override \/ applied[s] = p.rev
    THEN Verdict(FALSE, "", FALSE)
    ELSE BudgetGate(Budget[s], freeze[s], answer[s], TRUE)

\* gateStageBudget, asked when a revision the stage's status does not show enters it.
gateStageBudget(s, p) ==
    IF StageBudget[s] = NoBudget \/ p.override \/ entered[s] = p.rev
    THEN Verdict(FALSE, "", FALSE)
    ELSE BudgetGate(StageBudget[s], stageFreeze[s], answer[s], FALSE)

-----------------------------------------------------------------------------
(* spec.dependsOn.                                                         *)

\* Mutant: only a StageSet that depends on itself is a cycle.
dependsOnItself(s) == s \in deps[s]

\* A breadth-first walk from the dependencies comes back to the start.
hasDependencyCycle(s) ==
    \E d \in deps[s] : \A X \in SUBSET StageSets :
        (d \in X /\ \A x \in X : deps[x] \subseteq X) => s \in X

versionAtLeast(have, min) == min = 0 \/ (have # 0 /\ have >= min)

\* One dependency; one that does not exist is one that is not ready.
dependencyReady(d) ==
    /\ ready[d] /\ observed[d] = gen[d] /\ pending[d] = 0
    /\ versionAtLeast(applied[d], MinVersion[d])

-----------------------------------------------------------------------------
(* A pass.  It works on the object it read at its start, and writes its    *)
(* status once, at its end.                                                *)

Idle == [at |-> "idle", gen |-> 0, deps |-> {}, upd |-> 0, bud |-> 0, rev |-> 0, gateAt |-> 0,
         override |-> FALSE, freeze |-> FALSE, used |-> {}]

Fault == faults < config.maxFaults /\ faults' = faults + 1 /\ UNCHANGED edits

NewRevision(s) == applied[s] # pass[s].rev

\* The pass of s ends with this condition, due again at tick t; did a gate hold it back?
End(s, why, isReady, t, back) ==
    /\ held' = [held EXCEPT ![s] = IF back /\ NewRevision(s) THEN pass[s].rev ELSE 0]
    /\ reason' = [reason EXCEPT ![s] = why] /\ ready' = [ready EXCEPT ![s] = isReady]
    /\ observed' = [observed EXCEPT ![s] = pass[s].gen]
    /\ wakeAt' = [wakeAt EXCEPT ![s] = t] /\ pass' = [pass EXCEPT ![s] = Idle]

StartPass(s) ==
    /\ s \in Present /\ pass[s].at = "idle" /\ wakeAt[s] <= clock
    /\ pass' = [pass EXCEPT ![s] = [Idle EXCEPT !.at = IF hasDependencyCycle(s) THEN "cycle" ELSE "deps",
                                                !.gen = gen[s], !.deps = deps[s],
                                                !.upd = updateNow[s], !.bud = budgetOverride[s]]]
    /\ UNCHANGED <<held, clock, userVars, statusVars, wakeAt, starved, spent, edits, faults>>

\* A dependsOn cycle is terminal: reported, and looked at again much later.
ReportCycle(s) ==
    /\ pass[s].at = "cycle" /\ End(s, "Stalled", FALSE, clock, FALSE)
    /\ UNCHANGED <<clock, userVars, applied, entered, pending, freeze, stageFreeze, handledUpdate,
                   handledBudget, starved, spent, edits, faults>>

AwaitDependency(s) ==
    /\ pass[s].at = "deps" /\ \E d \in pass[s].deps : ~dependencyReady(d)
    /\ End(s, "DependencyNotReady", FALSE, clock, FALSE)
    /\ UNCHANGED <<clock, userVars, applied, entered, pending, freeze, stageFreeze, handledUpdate,
                   handledBudget, starved, spent, edits, faults>>

\* Every dependency is ready; the stages' artifacts are resolved and pinned.
PassDependencies(s) ==
    /\ pass[s].at = "deps" /\ \A d \in pass[s].deps : dependencyReady(d)
    /\ pass' = [pass EXCEPT ![s].at = "window", ![s].rev = rev[s]]
    /\ UNCHANGED <<held, clock, userVars, statusVars, wakeAt, starved, spent, edits, faults>>

FreshUpdateNow(s) == pass[s].upd # 0 /\ pass[s].upd # handledUpdate[s]
FreshBudgetOverride(s) == pass[s].bud # 0 /\ pass[s].bud # handledBudget[s]

InvalidWindows(s) == \E i \in DOMAIN Windows[s] : WindowInvalid(Windows[s][i])

WindowOpen(s) ==
    \/ FreshUpdateNow(s) \/ Windows[s] = <<>>
    \/ ~InvalidWindows(s) /\ (Decided[Windows[s]][clock].allowed
                              \/ (~NewRevision(s) /\ WindowScope[s] # "All"))

\* A window that makes no sense: not tried again before an edit.
RefuseWindows(s) ==
    /\ pass[s].at = "window" /\ ~WindowOpen(s) /\ InvalidWindows(s)
    /\ End(s, "InvalidSpec", FALSE, Never, FALSE)
    /\ UNCHANGED <<clock, userVars, applied, entered, pending, freeze, stageFreeze, handledUpdate,
                   handledBudget, starved, spent, edits, faults>>

\* Held by the window: what is deployed stays Ready, and the pass sleeps until the window opens.
DeferForWindow(s) ==
    /\ pass[s].at = "window" /\ ~WindowOpen(s) /\ ~InvalidWindows(s)
    /\ pending' = [pending EXCEPT ![s] = IF NewRevision(s) THEN pass[s].rev ELSE 0]
    /\ End(s, IF applied[s] # 0 THEN "Ready" ELSE "UpdateDeferred", applied[s] # 0,
           requeueForWindow(Decided[Windows[s]][clock].next, clock), TRUE)
    /\ UNCHANGED <<clock, userVars, applied, entered, freeze, stageFreeze, handledUpdate, handledBudget,
                   starved, spent, edits, faults>>

\* Past the window, the tokens seen so far are the ones the status will record.
PassWindow(s) ==
    /\ pass[s].at = "window" /\ WindowOpen(s)
    /\ pass' = [pass EXCEPT ![s].at = "budget", ![s].gateAt = clock,
                            ![s].upd = IF FreshUpdateNow(s) THEN pass[s].upd ELSE handledUpdate[s],
                            ![s].used = IF FreshUpdateNow(s) /\ NewRevision(s) THEN {<<s, "update-now", pass[s].upd>>} ELSE {}]
    /\ UNCHANGED <<held, clock, userVars, statusVars, wakeAt, starved, spent, edits, faults>>

\* The break-glass is consumed before either budget is asked.
Override(s) == [pass[s] EXCEPT !.override = FreshBudgetOverride(s),
                               !.bud = IF FreshBudgetOverride(s) THEN @ ELSE handledBudget[s]]

(* Held by the rollout's budget; the override of the window, if one was    *)
(* used, is spent.                                                         *)
DeferForBudget(s) ==
    LET g == gateErrorBudget(s, Override(s)) IN
    /\ pass[s].at = "budget" /\ g.hold
    /\ freeze' = [freeze EXCEPT ![s] = g.freeze]
    /\ starved' = [starved EXCEPT ![s] = @ \/ (g.reason = "BudgetExhausted")]
    /\ pending' = [pending EXCEPT ![s] = 0]
    /\ handledUpdate' = [handledUpdate EXCEPT ![s] = pass[s].upd]
    /\ IF g.reason # "InvalidSpec" /\ applied[s] # 0
         THEN End(s, "Ready", TRUE, clock, TRUE) ELSE End(s, g.reason, FALSE, clock, TRUE)
    /\ UNCHANGED <<clock, userVars, applied, entered, stageFreeze, handledBudget, spent, edits, faults>>

PassBudget(s) ==
    LET g == gateErrorBudget(s, Override(s)) IN
    /\ pass[s].at = "budget" /\ ~g.hold
    /\ pass' = [pass EXCEPT ![s] = [Override(s) EXCEPT !.at = "stage", !.freeze = g.freeze,
                    !.used = @ \cup IF FreshBudgetOverride(s) /\ NewRevision(s)
                                    THEN {<<s, "budget-override", pass[s].bud>>} ELSE {}]]
    /\ starved' = [starved EXCEPT ![s] = @ /\ ~FreshBudgetOverride(s) /\ NewRevision(s)]
    /\ UNCHANGED <<held, clock, userVars, statusVars, wakeAt, spent, edits, faults>>

\* What every status written from the stage loop carries.
SaveGates(s) ==
    /\ pending' = [pending EXCEPT ![s] = 0]
    /\ freeze' = [freeze EXCEPT ![s] = pass[s].freeze]
    /\ handledUpdate' = [handledUpdate EXCEPT ![s] = pass[s].upd]
    /\ handledBudget' = [handledBudget EXCEPT ![s] = pass[s].bud]
    /\ UNCHANGED <<clock, userVars>>

HoldAtStage(s) ==
    LET g == gateStageBudget(s, pass[s]) IN
    /\ pass[s].at = "stage" /\ g.hold
    /\ SaveGates(s) /\ stageFreeze' = [stageFreeze EXCEPT ![s] = g.freeze]
    /\ IF g.reason # "InvalidSpec" /\ applied[s] # 0
         THEN End(s, "Ready", TRUE, clock, TRUE) ELSE End(s, g.reason, FALSE, clock, TRUE)
    /\ UNCHANGED <<applied, entered, starved, spent, edits, faults>>

Deliver(s) ==
    LET g == gateStageBudget(s, pass[s]) IN
    /\ pass[s].at = "stage" /\ ~g.hold
    /\ SaveGates(s) /\ stageFreeze' = [stageFreeze EXCEPT ![s] = g.freeze]
    /\ applied' = [applied EXCEPT ![s] = pass[s].rev] /\ entered' = [entered EXCEPT ![s] = pass[s].rev]
    /\ spent' = spent \cup pass[s].used
    /\ End(s, "Ready", TRUE, clock, FALSE)
    /\ UNCHANGED <<starved, edits, faults>>

(* failStage: a stage that fails shows the pinned revision as applied, a   *)
(* failure before the loop shows none.  The stage's status is written      *)
(* anew, without its freeze.                                               *)
FailPass(s) ==
    /\ pass[s].at = "stage" /\ Fault
    /\ \/ entered' = [entered EXCEPT ![s] = 0]
       \/ ~gateStageBudget(s, pass[s]).hold /\ entered' = [entered EXCEPT ![s] = pass[s].rev]
    /\ SaveGates(s) /\ stageFreeze' = [stageFreeze EXCEPT ![s] = FALSE]
    /\ spent' = spent \cup pass[s].used
    /\ End(s, "StageFailed", FALSE, clock, FALSE)
    /\ UNCHANGED <<applied, starved>>

\* An API read fails, the process dies or the status write fails: nothing is recorded.
LosePass(s) ==
    /\ pass[s].at # "idle" /\ Fault
    /\ pass' = [pass EXCEPT ![s] = Idle] /\ wakeAt' = [wakeAt EXCEPT ![s] = clock]
    /\ UNCHANGED <<held, clock, userVars, statusVars, starved, spent>>
-----------------------------------------------------------------------------
(* The users, the sources and time.                                        *)

Edit == edits < config.maxEdits /\ edits' = edits + 1 /\ UNCHANGED faults
Wake(S) == wakeAt' = [s \in StageSets |-> IF s \in S THEN Min({wakeAt[s], clock}) ELSE wakeAt[s]]

EditGraph ==
    \E g \in Graphs :
        /\ g # deps /\ (\A s \in StageSets : g[s] \subseteq Present) /\ Edit
        /\ deps' = g
        /\ LET edited == {s \in StageSets : g[s] # deps[s]} IN
             /\ gen' = [s \in StageSets |-> IF s \in edited THEN gen[s] + 1 ELSE gen[s]]
             /\ Wake(edited)
        /\ UNCHANGED <<clock, config, rev, answer, updateNow, budgetOverride, statusVars, pass, starved, held, spent>>

SourceChanges(s) ==
    \E r \in Revisions \ {rev[s]} :
        /\ s \in Present /\ Edit /\ rev' = [rev EXCEPT ![s] = r] /\ Wake({s})
        /\ UNCHANGED <<clock, config, deps, gen, answer, updateNow, budgetOverride, statusVars, pass, starved, held, spent>>

\* Does this answer end a freeze of the rollout's budget?
Lifts(s, r) ==
    \/ Budget[s] = NoBudget
    \/ IF Query(r) = Unavailable THEN Budget[s].onSourceError # "Hold"
       ELSE Query(r) >= effectiveResume(Budget[s])

AnswerChanges(s) ==
    \E r \in config.responses \ {answer[s]} :
        /\ s \in Present /\ Edit /\ answer' = [answer EXCEPT ![s] = r]
        /\ starved' = [starved EXCEPT ![s] = @ /\ ~Lifts(s, r)]
        /\ UNCHANGED <<clock, config, deps, gen, rev, updateNow, budgetOverride, statusVars, wakeAt, pass, held, spent>>

\* A token is the time it was set at (internal/cli/reconcile.go), so it never comes back.
SetOverride(s) ==
    \E t \in Tokens :
        /\ s \in Present /\ Edit /\ Wake({s})
        /\ \/ t > updateNow[s] /\ updateNow' = [updateNow EXCEPT ![s] = t] /\ UNCHANGED budgetOverride
           \/ t > budgetOverride[s] /\ budgetOverride' = [budgetOverride EXCEPT ![s] = t] /\ UNCHANGED updateNow
        /\ UNCHANGED <<clock, config, deps, gen, rev, answer, statusVars, pass, starved, held, spent>>

Tick == /\ clock < config.horizon /\ clock' = clock + 1
        /\ UNCHANGED <<userVars, statusVars, wakeAt, pass, starved, held, spent, edits, faults>>

-----------------------------------------------------------------------------
All(x) == [s \in StageSets |-> x]

Init ==
    /\ clock = 0 /\ config \in Configs
    /\ deps \in {g \in Graphs : \A s \in StageSets : g[s] \subseteq Present} /\ gen = All(1)
    /\ rev = All(Min(Revisions)) /\ answer \in {All(r) : r \in config.responses}
    /\ updateNow = All(0) /\ budgetOverride = All(0)
    /\ observed = All(0) /\ reason = All("") /\ ready = All(FALSE)
    /\ applied = All(0) /\ entered = All(0) /\ pending = All(0)
    /\ freeze = All(FALSE) /\ stageFreeze = All(FALSE)
    /\ handledUpdate = All(0) /\ handledBudget = All(0)
    /\ wakeAt = All(0) /\ pass = All(Idle)
    /\ starved = All(FALSE) /\ held = All(0) /\ spent = {} /\ edits = 0 /\ faults = 0

GoodPass(s) ==
    \/ StartPass(s) \/ ReportCycle(s) \/ AwaitDependency(s) \/ PassDependencies(s)
    \/ RefuseWindows(s) \/ DeferForWindow(s) \/ PassWindow(s)
    \/ DeferForBudget(s) \/ PassBudget(s) \/ HoldAtStage(s) \/ Deliver(s)

Next ==
    \/ \E s \in StageSets : GoodPass(s) \/ FailPass(s) \/ LosePass(s)
    \/ \E s \in StageSets : SourceChanges(s) \/ AnswerChanges(s) \/ SetOverride(s)
    \/ EditGraph \/ Tick

Spec == Init /\ [][Next]_vars

\* Each StageSet's passes run whenever they are due, and time passes.
Fairness == (\A s \in StageSets : WF_vars(GoodPass(s))) /\ WF_vars(Tick)
FairSpec == Spec /\ Fairness

-----------------------------------------------------------------------------
(* Properties.                                                             *)

PassType == [at : {"idle", "cycle", "deps", "window", "budget", "stage"}, gen : Nat, deps : SUBSET StageSets,
             upd : Tokens \cup {0}, bud : Tokens \cup {0}, rev : Revisions \cup {0}, gateAt : 0 .. Horizon,
             override : BOOLEAN, freeze : BOOLEAN,
             used : SUBSET (StageSets \X {"update-now", "budget-override"} \X Tokens)]
Conditions == {"", "Stalled", "DependencyNotReady", "InvalidSpec", "Ready", "UpdateDeferred",
               "BudgetExhausted", "BudgetSourceUnavailable", "StageFailed"}

\* Every variable stays in its type, and a requeue that gateUpdateWindows asks
\* for lies within its cap.
TypeOK ==
    /\ clock \in 0 .. Horizon /\ config \in Configs
    /\ deps \in {g \in Graphs : \A s \in StageSets : g[s] \subseteq Present} /\ gen \in [StageSets -> Nat]
    /\ rev \in [StageSets -> Revisions] /\ answer \in [StageSets -> Responses]
    /\ {updateNow, budgetOverride, handledUpdate, handledBudget} \subseteq [StageSets -> Tokens \cup {0}]
    /\ observed \in [StageSets -> Nat] /\ reason \in [StageSets -> Conditions]
    /\ {ready, freeze, stageFreeze, starved} \subseteq [StageSets -> BOOLEAN]
    /\ {applied, entered, pending, held} \subseteq [StageSets -> Revisions \cup {0}]
    /\ wakeAt \in [StageSets -> (0 .. clock + MaxRequeue) \cup {Never}] /\ pass \in [StageSets -> PassType]
    /\ spent \subseteq StageSets \X {"update-now", "budget-override"} \X Tokens
    /\ edits \in 0 .. config.maxEdits /\ faults \in 0 .. config.maxFaults

\* Whether a window covers tick t, and whether the windows together allow an update then.
Covers(w, t) == IF w.form = "absolute" THEN w.from <= t /\ t < w.to
                ELSE \E st \in w.starts : st <= t /\ t < st + w.dur
Allowed(ws, t) ==
    /\ \A i \in DOMAIN ws : ws[i].type = "Deny" => ~Covers(ws[i], t)
    /\ (\E i \in DOMAIN ws : ws[i].type = "Allow") => \E i \in DOMAIN ws : ws[i].type = "Allow" /\ Covers(ws[i], t)

(* A new revision is only delivered past every gate.  Its windows allowed  *)
(* it at the tick the pass was gated, whatever the walk over cron starts   *)
(* and boundaries computed, or an update-now token was used.  Once a       *)
(* freeze is saved, the budget has recovered to the resume threshold,      *)
(* whatever it did between the two thresholds and however often passes     *)
(* were lost; an override, an outage under onSourceError=Allow or the      *)
(* source going back to the deployed revision ends a freeze too.  And its  *)
(* dependencies have delivered themselves, though they may fail or be      *)
(* edited meanwhile (window.Decision, evaluateBudget, dependenciesReady).  *)
GatesHold ==
    [][\A s \in StageSets : applied'[s] # applied[s] =>
          /\ Allowed(Windows[s], pass[s].gateAt) \/ \E u \in pass[s].used : u[2] = "update-now"
          /\ ~starved[s]
          /\ \A d \in pass[s].deps : applied[d] # 0]_vars

\* A StageSet held by its window does not sleep past the tick the window opens:
\* the boundary Decision returns is never late (requeueForWindow).
WakesWhenWindowOpens ==
    \A s \in StageSets : pass[s].at = "idle" /\ pending[s] # 0 /\ wakeAt[s] > clock =>
        \A t \in clock + 1 .. wakeAt[s] - 1 : ~Allowed(Windows[s], t)

\* An override token ships at most one recorded rollout: after the status of a
\* pass it admitted is saved, it never admits another one
\* (lastHandledUpdateOverride, lastHandledBudgetOverride).
TokenShipsOnce == \A s \in StageSets : pass[s].used \cap spent = {}

(* What a held StageSet remembers is right: it wakes in time for its       *)
(* window, and the overrides it has handled are not handled again.         *)
HoldsRemembered == TypeOK /\ WakesWhenWindowOpens /\ TokenShipsOnce

\* s sits on a dependsOn cycle.
Cyclic(s) ==
    \E n \in 1 .. Cardinality(StageSets) : \E path \in [1 .. n -> StageSets] :
        path[1] \in deps[s] /\ path[n] = s /\ \A i \in 2 .. n : path[i] \in deps[path[i - 1]]

\* Nothing stands between any StageSet and its revision.
Open == \A s \in Present :
           /\ ~Cyclic(s) /\ ~InvalidWindows(s) /\ Allowed(Windows[s], clock)
           /\ \A eb \in {Budget[s], StageBudget[s]} \ {NoBudget} :
                 ~BudgetInvalid(eb) /\ Query(answer[s]) >= effectiveResume(eb)
           /\ \A d \in deps[s] : versionAtLeast(rev[d], MinVersion[d])

(* Nobody waits in vain.  Once every gate stays open, every StageSet       *)
(* delivers what its source serves: no dependency, freeze, held window or  *)
(* spent override leaves it waiting.  And everyone on a dependsOn cycle    *)
(* says so, instead of waiting for the others as for an ordinary           *)
(* dependency (hasDependencyCycle).                                        *)
NobodyWaitsInVain ==
    /\ <>[]Open => <>[](\A s \in Present : applied[s] = rev[s] /\ ready[s])
    /\ \A s \in StageSets : <>[](s \in Present /\ Cyclic(s)) => <>[](reason[s] = "Stalled")
=============================================================================
