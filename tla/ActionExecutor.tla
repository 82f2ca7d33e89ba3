--------------------------- MODULE ActionExecutor ---------------------------
(***************************************************************************)
(* How the verbs of a stage's actions are carried out (internal/actions):  *)
(* one action after the other, a timed one with a deadline over all of its *)
(* attempts.  Patch, delete and apply are requests; http calls a service;  *)
(* wait polls, within a limit of its own for every attempt; job creates    *)
(* the Jobs of an artifact, named after its revision, waits for them,      *)
(* within a limit per attempt if the action is not timed, and removes them *)
(* again.  StageSets that use the same artifact in one namespace share     *)
(* those Jobs.  What an error says about the effect of a request is        *)
(* unknown.                                                                *)
(***************************************************************************)
EXTENDS Naturals, Sequences, FiniteSets, SequencesExt

CONSTANTS
    Acts,           \* per StageSet: the verbs of its actions, in order
    Timed,          \* per StageSet: the verbs whose action has a timeout
    Parts,          \* per verb that is a request: the objects it is about
    Revs,           \* revisions of the Jobs' artifact
    Manifests,      \* the Jobs in it, in order
    retries,
    MaxFaults       \* bound: failing requests and Jobs, crashes, new revisions

Sets == DOMAIN Acts
Requests == DOMAIN Parts
Names == Revs \X ToSet(Manifests)

ASSUME ExecutorAssumption ==
    /\ \A s \in Sets : Acts[s] \in Seq(Requests \cup {"http", "wait", "job"}) /\ IsInjective(Acts[s])
    /\ \A s \in Sets : Timed[s] \subseteq ToSet(Acts[s])
    /\ Requests \cap {"http", "wait", "job"} = {}
    /\ Manifests \in Seq(ToSet(Manifests)) /\ IsInjective(Manifests)
    /\ Revs # {} /\ retries \in Nat /\ MaxFaults \in Nat

VARIABLES
    pass,       \* per StageSet: the Run under way
    ledger,     \* per StageSet: the verbs recorded as complete
    effects,    \* what requests and calls have done: <<s, verb, part>>
    jobs,       \* per name: "none", "running", "complete" or "failed"
    completed,  \* the names of Jobs that ever completed
    left,       \* Jobs that nobody is going to remove: the request that created them
                \* or the one that removed them failed, or the process died
    rev,        \* the revision of the artifact
    ready,      \* what wait polls for
    faults

vars == <<pass, ledger, effects, jobs, completed, left, rev, ready, faults>>

Idle == [at |-> "idle", done |-> {}, verb |-> "none", attempt |-> 0, expired |-> FALSE, late |-> FALSE, parts |-> {},
         rev |-> "none", created |-> 0, k |-> 1, ok |-> FALSE, refused |-> FALSE, sent |-> 0]

Fault == faults < MaxFaults /\ faults' = faults + 1
NoFault == UNCHANGED faults

\* The deadline of the action, or the limit of this attempt, has passed.
TimeUp(p) == p.expired \/ p.late

Go(s, p) == pass' = [pass EXCEPT ![s] = p]
----------------------------------------------------------------------------
(* Run: the actions in order, without the ones that are done.              *)

Pending(s, done) == {i \in DOMAIN Acts[s] : Acts[s][i] \notin done}

\* The pass ends, failed or not: its completions are written to the status.
EndPass(s, done) == Go(s, Idle) /\ ledger' = [ledger EXCEPT ![s] = done]

\* On to the first action that is not done.
Advance(s, done) ==
    \/ Pending(s, done) = {} /\ EndPass(s, done)
    \/ \E i \in Pending(s, done) :
          /\ \A j \in Pending(s, done) : i <= j
          /\ Go(s, [Idle EXCEPT !.at = "dispatch", !.done = done, !.verb = Acts[s][i]]) /\ UNCHANGED ledger

StartPass(s) ==
    /\ pass[s].at = "idle" /\ Pending(s, ledger[s]) # {}
    /\ Advance(s, ledger[s])
    /\ NoFault /\ UNCHANGED <<effects, jobs, completed, left, rev, ready>>

\* The completion is recorded, or recording it fails and the pass with it.
RecordAction(s) ==
    /\ pass[s].at = "done"
    /\ \/ NoFault /\ Advance(s, pass[s].done \cup {pass[s].verb})
       \/ Fault /\ EndPass(s, pass[s].done)
    /\ UNCHANGED <<effects, jobs, completed, left, rev, ready>>

\* Mutant: an answer that refuses the call is retried like any other error.
RetryableAlways(p) == p.attempt < retries /\ ~p.expired

Retryable(p) == ~p.refused /\ p.attempt < retries /\ ~p.expired

\* exec: another attempt, unless the error is final, none is left or time is up.
Retry(s) ==
    LET p == pass[s] IN
    /\ p.at = "failed"
    /\ IF Retryable(p)
       THEN Go(s, [p EXCEPT !.at = "dispatch", !.attempt = @ + 1, !.late = FALSE, !.parts = {}, !.created = 0, !.k = 1]) /\ UNCHANGED ledger
       ELSE EndPass(s, p.done)
    /\ NoFault /\ UNCHANGED <<effects, jobs, completed, left, rev, ready>>
----------------------------------------------------------------------------
(* Patch, delete, apply: one request per object, in any order.             *)

Request(s) ==
    LET p == pass[s] IN
    /\ p.at = "dispatch" /\ p.verb \in Requests
    /\ \/ /\ ~p.expired /\ NoFault
          /\ \E t \in Parts[p.verb] \ p.parts :
                /\ Go(s, [p EXCEPT !.parts = @ \cup {t}, !.at = IF p.parts \cup {t} = Parts[p.verb] THEN "done" ELSE @])
                /\ effects' = effects \cup {<<s, p.verb, t>>}
       \/ /\ Fault /\ Go(s, [p EXCEPT !.at = "failed"])
          /\ \E t \in Parts[p.verb] \ p.parts : effects' \in {effects, effects \cup {<<s, p.verb, t>>}}
       \/ /\ p.expired /\ NoFault
          /\ Go(s, [p EXCEPT !.at = "failed"]) /\ UNCHANGED effects
    /\ UNCHANGED <<ledger, jobs, completed, left, rev, ready>>

\* httpCall: accepted, refused for good (4xx), or an error that may hide a call
\* that arrived.
HTTPCall(s) ==
    LET p == pass[s] IN
    /\ p.at = "dispatch" /\ p.verb = "http"
    /\ \/ /\ ~p.expired /\ NoFault
          /\ Go(s, [p EXCEPT !.at = "done", !.sent = @ + 1]) /\ effects' = effects \cup {<<s, "http", "call">>}
       \/ /\ ~p.expired /\ Fault /\ UNCHANGED effects
          /\ Go(s, [p EXCEPT !.at = "failed", !.refused = TRUE, !.sent = @ + 1])
       \/ /\ ~p.expired /\ Fault /\ effects' \in {effects, effects \cup {<<s, "http", "call">>}}
          /\ Go(s, [p EXCEPT !.at = "failed", !.sent = @ + 1])
       \/ /\ p.expired /\ NoFault
          /\ Go(s, [p EXCEPT !.at = "failed"]) /\ UNCHANGED effects
    /\ UNCHANGED <<ledger, jobs, completed, left, rev, ready>>

\* pollExpr.
Wait(s) ==
    LET p == pass[s] IN
    /\ p.at = "dispatch" /\ p.verb = "wait"
    /\ ready \/ TimeUp(p)
    /\ Go(s, [p EXCEPT !.at = IF ready THEN "done" ELSE "failed"])
    /\ effects' = IF ready THEN effects \cup {<<s, "wait", "seen">>} ELSE effects
    /\ NoFault /\ UNCHANGED <<ledger, jobs, completed, left, rev, ready>>
----------------------------------------------------------------------------
(* Jobs.                                                                   *)

\* Resolve, fetch and build: every attempt takes the artifact of the moment.
ResolveJob(s) ==
    LET p == pass[s] IN
    /\ p.at = "dispatch" /\ p.verb = "job"
    /\ \/ ~p.expired /\ NoFault /\ Go(s, [p EXCEPT !.at = IF Manifests = <<>> THEN "done" ELSE "create", !.rev = rev])
       \/ (IF p.expired THEN NoFault ELSE Fault) /\ Go(s, [p EXCEPT !.at = "failed"])
    /\ UNCHANGED <<ledger, effects, jobs, completed, left, rev, ready>>

\* Create the next Job, or take over the one of that name.  An error removes
\* the ones before it, and not this one, which may be there all the same.
CreateJob(s) ==
    LET p == pass[s]  n == <<p.rev, Manifests[p.created + 1]>> IN
    /\ p.at = "create"
    /\ \/ /\ ~TimeUp(p) /\ NoFault
          /\ jobs' = [jobs EXCEPT ![n] = IF @ = "none" THEN "running" ELSE @]
          /\ Go(s, [p EXCEPT !.created = @ + 1, !.at = IF p.created + 1 = Len(Manifests) THEN "await" ELSE @])
          /\ UNCHANGED left
       \/ /\ IF TimeUp(p) THEN NoFault ELSE Fault
          /\ Go(s, [p EXCEPT !.at = IF p.created = 0 THEN "failed" ELSE "cleanup"])
          /\ \/ UNCHANGED <<jobs, left>>
             \/ jobs[n] = "none" /\ jobs' = [jobs EXCEPT ![n] = "running"] /\ left' = left \cup {n}
    /\ UNCHANGED <<ledger, effects, completed, rev, ready>>

\* Mutant: a Job that is gone counts as complete.
AwaitedOrGone(n) == jobs[n] \in {"complete", "none"}

Awaited(n) == jobs[n] = "complete"

\* awaitJob, one Job after the other.  A Job that is gone is polled for until
\* time is up.
AwaitJob(s) ==
    LET p == pass[s]  n == <<p.rev, Manifests[p.k]>> IN
    /\ p.at = "await"
    /\ \/ /\ Awaited(n)
          /\ Go(s, IF p.k = Len(Manifests) THEN [p EXCEPT !.at = "cleanup", !.k = 1, !.ok = TRUE] ELSE [p EXCEPT !.k = @ + 1])
       \/ /\ ~Awaited(n) /\ (jobs[n] = "failed" \/ TimeUp(p))
          /\ Go(s, [p EXCEPT !.at = "cleanup", !.k = 1])
    /\ NoFault /\ UNCHANGED <<ledger, effects, jobs, completed, left, rev, ready>>

Removed(p) == [p EXCEPT !.k = @ + 1, !.at = IF p.k < p.created THEN @ ELSE IF p.ok THEN "done" ELSE "failed"]

\* cleanupObjects: what was created, by name, whatever the time; an error is
\* ignored.
Cleanup(s) ==
    LET p == pass[s]  n == <<p.rev, Manifests[p.k]>> IN
    /\ p.at = "cleanup"
    /\ \/ /\ NoFault
          /\ jobs' = [jobs EXCEPT ![n] = "none"] /\ left' = left \ {n} /\ Go(s, Removed(p))
       \/ /\ Fault
          /\ jobs' \in {jobs, [jobs EXCEPT ![n] = "none"]} /\ left' = left \cup {n} /\ Go(s, Removed(p))
    /\ UNCHANGED <<ledger, effects, completed, rev, ready>>
----------------------------------------------------------------------------
InExec(s) == pass[s].at \in {"dispatch", "create", "await", "cleanup", "failed"}

Stuck(s) ==
    \/ pass[s].at = "await" /\ jobs[<<pass[s].rev, Manifests[pass[s].k]>>] = "none"
    \/ pass[s].verb = "wait" /\ ~ready

\* Time passes early only as a fault.
Early(s) == IF Stuck(s) THEN NoFault ELSE Fault

\* The deadline of a timed action.
Expire(s) ==
    /\ InExec(s) /\ ~pass[s].expired /\ pass[s].verb \in Timed[s]
    /\ Early(s) /\ Go(s, [pass[s] EXCEPT !.expired = TRUE])
    /\ UNCHANGED <<ledger, effects, jobs, completed, left, rev, ready>>

\* Mutant: a job without a timeout waits for as long as it takes.
LimitedPolls(s) == pass[s].verb = "wait" /\ pass[s].at = "dispatch"

\* What has a limit of its own: polling, and the Jobs of an action that is not timed.
Limited(s) ==
    \/ pass[s].verb = "wait" /\ pass[s].at = "dispatch"
    \/ pass[s].at \in {"create", "await"} /\ "job" \notin Timed[s]

\* That limit is reached; the next attempt has a new one.
AttemptExpires(s) ==
    /\ Limited(s) /\ ~pass[s].late
    /\ Early(s) /\ Go(s, [pass[s] EXCEPT !.late = TRUE])
    /\ UNCHANGED <<ledger, effects, jobs, completed, left, rev, ready>>

JobCompletes(n) ==
    /\ jobs[n] = "running"
    /\ jobs' = [jobs EXCEPT ![n] = "complete"] /\ completed' = completed \cup {n}
    /\ NoFault /\ UNCHANGED <<pass, ledger, effects, left, rev, ready>>

JobFails(n) ==
    /\ jobs[n] = "running" /\ Fault
    /\ jobs' = [jobs EXCEPT ![n] = "failed"]
    /\ UNCHANGED <<pass, ledger, effects, completed, left, rev, ready>>

NewRevision ==
    /\ Fault /\ rev' \in Revs \ {rev}
    /\ UNCHANGED <<pass, ledger, effects, jobs, completed, left, ready>>

LosesReady ==
    /\ Fault /\ ready /\ ready' = FALSE
    /\ UNCHANGED <<pass, ledger, effects, jobs, completed, left, rev>>

BecomesReady ==
    /\ ~ready /\ ready' = TRUE
    /\ NoFault /\ UNCHANGED <<pass, ledger, effects, jobs, completed, left, rev>>

\* The process dies: the passes and what they had not written are lost, and so
\* is the knowledge of the Jobs they had created.
Crash ==
    /\ Fault
    /\ left' = left \cup {n \in Names : jobs[n] # "none" /\ \E s \in Sets : pass[s].at \in {"create", "await", "cleanup"} /\ pass[s].rev = n[1]}
    /\ pass' = [s \in Sets |-> Idle]
    /\ UNCHANGED <<ledger, effects, jobs, completed, rev, ready>>
----------------------------------------------------------------------------
Init ==
    /\ pass = [s \in Sets |-> Idle] /\ ledger = [s \in Sets |-> {}] /\ effects = {}
    /\ jobs = [n \in Names |-> "none"] /\ completed = {} /\ left = {}
    /\ rev = (CHOOSE r \in Revs : TRUE) /\ ready = TRUE /\ faults = 0

Step(s) ==
    \/ StartPass(s) \/ RecordAction(s) \/ Retry(s)
    \/ Request(s) \/ HTTPCall(s) \/ Wait(s) \/ ResolveJob(s) \/ CreateJob(s) \/ AwaitJob(s) \/ Cleanup(s)

Next ==
    \/ \E s \in Sets : Step(s) \/ Expire(s) \/ AttemptExpires(s)
    \/ \E n \in Names : JobCompletes(n) \/ JobFails(n)
    \/ NewRevision \/ LosesReady \/ BecomesReady \/ Crash

Spec == Init /\ [][Next]_vars

\* Every request is answered, every deadline and every limit passes and every
\* Job ends.
FairSpec ==
    /\ Spec
    /\ \A s \in Sets : WF_vars(Step(s)) /\ WF_vars(Expire(s)) /\ WF_vars(AttemptExpires(s))
    /\ \A n \in Names : WF_vars(JobCompletes(n))
    /\ WF_vars(BecomesReady)
----------------------------------------------------------------------------
\* Every variable stays in its type: Executor.exec makes at most retries more
\* attempts, and only actions of the stage are recorded.
TypeOK ==
    /\ \A s \in Sets : /\ pass[s].at \in {"idle", "dispatch", "create", "await", "cleanup", "done", "failed"}
                       /\ pass[s].attempt \in 0 .. retries /\ pass[s].k \in 1 .. Len(Manifests) + 1
                       /\ ledger[s] \subseteq ToSet(Acts[s]) /\ pass[s].done \subseteq ToSet(Acts[s])
    /\ jobs \in [Names -> {"none", "running", "complete", "failed"}]
    /\ completed \subseteq Names /\ left \subseteq Names /\ rev \in Revs /\ ready \in BOOLEAN

Done(s, v) ==
    IF v \in Requests THEN \A t \in Parts[v] : <<s, v, t>> \in effects
    ELSE IF v = "job" THEN \E r \in Revs : \A m \in ToSet(Manifests) : <<r, m>> \in completed
    ELSE \E t \in {"call", "seen"} : <<s, v, t>> \in effects

\* An action that is recorded took effect as a whole: every object was patched,
\* every Job of one revision completed, although requests failed halfway, Jobs
\* were shared, taken over and removed by others, and the process died.
RecordedIsDone == \A s \in Sets : \A v \in ledger[s] \cup pass[s].done : Done(s, v)

\* Actions take effect in their order, over all passes of a StageSet.
InOrder ==
    \A s \in Sets : \A i, j \in DOMAIN Acts[s] :
        i < j /\ (\E t \in {"call", "seen"} \cup UNION {Parts[v] : v \in Requests} : <<s, Acts[s][j], t>> \in effects)
            => Done(s, Acts[s][i])

CallsOnlyWithin ==
    \A s \in Sets : /\ pass[s].refused => pass'[s].sent \in {0, pass[s].sent}
                    /\ pass'[s].sent <= retries + 1

\* A service that refused a call is not called again in that pass, and never
\* more often than the retries of Executor.exec allow.
CallsBounded == [][CallsOnlyWithin]_vars

\* At rest no Job is left, except where its removal was lost, or its creation
\* looked like a failure: job returns before it notes a Job whose Create ended
\* in an error, and nothing removes that one until a later attempt takes it over.
NoJobLeft == (\A s \in Sets : pass[s].at \in {"idle", "dispatch", "failed", "done"}) =>
                 \A n \in Names : jobs[n] # "none" => n \in left

\* What Executor.Run leaves behind: complete effects in the order of the actions,
\* and no Jobs but those.
EffectsSound == TypeOK /\ RecordedIsDone /\ InOrder /\ NoJobLeft

\* Every action of a StageSet is recorded in the end, unless others keep using
\* the same Jobs: also when one of them removed the Job it was waiting for.
AllRecorded ==
    \A s \in Sets : <>[](\A o \in Sets \ {s} : pass[o].verb # "job") => <>(ledger[s] = ToSet(Acts[s]))
=============================================================================
