---------------------------- MODULE FleetRollout ----------------------------
(***************************************************************************)
(* One FleetRollout and the StageSets it paces                             *)
(* (internal/controller/fleetrollout_controller.go, and the approval gate  *)
(* of stageset_controller.go it drives).  A fleet pass lists the members,  *)
(* decides from that snapshot which waves are open, stamps the members one *)
(* patch at a time and writes its status last; the members reconcile, fail *)
(* and recover on their own meanwhile.                                     *)
(*                                                                         *)
(* Versions are numbers in semver order, 0 standing for an unset one.      *)
(* status.waves[].soakUntil is kept as the ticks that are left of it.      *)
(* Wave health and messages, which no decision reads, are left out.        *)
(***************************************************************************)
EXTENDS Integers, Sequences, FiniteSets, FiniteSetsExt

CONSTANTS
    Members,        \* the StageSets the selector may match
    Waves,          \* spec.waves: the members each wave's selector matches
    Soak,           \* ticks each wave soaks
    Gated,          \* the waves with a health gate
    Versions,       \* versions a source may offer, as positive numbers
    TargetVersion,  \* spec.targetVersion, 0 when the target is derived
    PreviousVersion,
    Policies,       \* spec.onRegression: the values this instance explores
    AllowDowngrade, \* the members with spec.version.allowDowngrade
    FirstVersion,   \* what the members run when the rollout starts
    MaxFaults,      \* bound on failed member passes, API errors and lost passes
    MaxDisturbances \* bound on metric changes, rival rollouts and spec edits

ASSUME FleetAssumption ==
    /\ Waves \in Seq(SUBSET Members) /\ Waves # <<>>
    /\ Soak \in [DOMAIN Waves -> Nat] /\ Gated \subseteq DOMAIN Waves
    /\ Versions \subseteq Nat \ {0} /\ TargetVersion \in Versions \cup {0}
    /\ PreviousVersion \in Versions \cup {0} /\ FirstVersion \in Versions
    /\ Policies \subseteq {"Halt", "Rollback"} /\ AllowDowngrade \subseteq Members
    /\ MaxFaults \in Nat /\ MaxDisturbances \in Nat

NoVersion == 0
NotSoaking == -1
W == DOMAIN Waves

VARIABLES
    onRegression,   \* spec.onRegression
    config,         \* what is wrong with the rest of the spec or the members' labels
    rival,          \* members another FleetRollout selects too
    metric,         \* what each wave's gate would answer now
    soakUntil,      \* status.waves[].soakUntil
    phase,          \* status.phase
    reason,         \* reason of the Ready condition
    wake,           \* a fleet pass is due
    job,            \* the running fleet pass: what it decided and has left to stamp
    \* Of each member StageSet:
    offered,        \* the version its source offers
    version,        \* status.version
    pending,        \* status.pendingVersion
    ready,          \* Ready at the observed generation, no revision held back
    approved,       \* the approved-version annotation
    rollbackTo,     \* the rollback-to annotation
    \* What really happened, kept to state the properties:
    age,            \* ticks since the member first ran the version rolled out
    broken,         \* waves unsettled ever since the running pass started
    ailing,         \* waves whose metric has not been Passing since then
    faults, disturbances

specVars == <<onRegression, config, rival, metric>>
statusVars == <<soakUntil, phase, reason>>
memberVars == <<offered, version, pending, ready, approved, rollbackTo>>
historyVars == <<age, broken, ailing>>
boundVars == <<faults, disturbances>>
vars == <<specVars, statusVars, wake, job, memberVars, historyVars, boundVars>>

-----------------------------------------------------------------------------
(* What a pass reads off the members.                                      *)

fleetApprovalVersion(m) == IF TargetVersion # NoVersion THEN TargetVersion ELSE pending[m]

fleetAdopted(m) ==
    IF TargetVersion # NoVersion THEN version[m] = TargetVersion ELSE pending[m] = NoVersion

\* memberProgress of every member of the wave: adopted, and ready.
Settled(w) == \A m \in Waves[w] : fleetAdopted(m) /\ ready[m]

(* The soak starts when a pass first sees the wave settled, and is         *)
(* forgotten when a pass sees it unsettled.                                *)
NextSoak(w) ==
    CASE ~Settled(w) -> NotSoaking
      [] Settled(w) /\ soakUntil[w] # NotSoaking -> soakUntil[w]
      [] OTHER -> Soak[w]

Regressed(w) == soakUntil[w] # NotSoaking /\ ~Settled(w)

SoakElapsed(w) == Settled(w) /\ NextSoak(w) = 0

\* Mutant: a metric that cannot be read is taken for a healthy one.
evalGateOptimistic(w) == IF w \in Gated /\ metric[w] = "Failing" THEN "Failing" ELSE "Passing"

evalGate(w) == IF w \in Gated THEN metric[w] ELSE "Passing"

Passed(w) == SoakElapsed(w) /\ evalGate(w) = "Passing"

Halts(w) == Regressed(w) \/ (SoakElapsed(w) /\ evalGate(w) = "Failing")

\* Mutant: the last wave is not looked at.
firstOpenButLast == LET open == {w \in 1 .. Len(Waves) - 1 : ~Passed(w)} IN IF open = {} THEN 0 ELSE Min(open)

\* The waves a pass that does not halt opens: through the first not yet passed.
firstOpen == LET open == {w \in W : ~Passed(w)} IN IF open = {} THEN 0 ELSE Min(open)

openThrough == IF firstOpen = 0 THEN Len(Waves) ELSE firstOpen

-----------------------------------------------------------------------------
(* The pass.                                                               *)

NoJob == [run |-> FALSE, stamp |-> "", left |-> {}, soak |-> [w \in W |-> NotSoaking],
          phase |-> "", reason |-> "", requeue |-> FALSE]

Fault == faults < MaxFaults /\ faults' = faults + 1 /\ UNCHANGED disturbances
Disturb == disturbances < MaxDisturbances /\ disturbances' = disturbances + 1 /\ UNCHANGED faults

\* A pass that ends before the waves are looked at: only the condition is written.
Refuse(why, requeue) ==
    /\ reason' = why /\ wake' = requeue
    /\ UNCHANGED <<specVars, soakUntil, phase, job, memberVars, historyVars>>

(* Listing the members through the API server fails: reported like a       *)
(* malformed selector, and not tried again until an event.                 *)
ListFails == /\ ~job.run /\ wake /\ Fault
             /\ Refuse("InvalidSelector", FALSE)

\* Listing the other rollouts fails: the pass is retried with back-off.
ContestListFails ==
    /\ ~job.run /\ wake /\ config # "selector" /\ Fault
    /\ UNCHANGED <<specVars, statusVars, wake, job, memberVars, historyVars>>

RefuseConfig == /\ ~job.run /\ wake
                /\ \/ config = "selector" /\ Refuse("InvalidSelector", FALSE)
                   \/ config = "gateSecret" /\ rival = {} /\ Refuse("GateUnsupported", FALSE)
                /\ UNCHANGED boundVars

RefuseContested == /\ ~job.run /\ wake /\ config # "selector"
                   /\ rival # {} /\ Refuse("MembersContested", TRUE)
                   /\ UNCHANGED boundVars

RefuseUnassigned == /\ ~job.run /\ wake /\ config = "unassigned" /\ rival = {}
                    /\ Refuse("MembersUnassigned", TRUE)
                    /\ UNCHANGED boundVars

MayPass == ~job.run /\ wake /\ config = "ok" /\ rival = {}

\* The stamps a pass owes: a member already carrying the value is left alone.
halt(w) ==
    [run |-> TRUE, stamp |-> "rollback-to",
     left |-> IF onRegression = "Rollback" /\ PreviousVersion # NoVersion
              THEN {<<w, m, PreviousVersion>> : m \in {n \in Waves[w] : rollbackTo[n] # PreviousVersion}}
              ELSE {},
     soak |-> [v \in W |-> NextSoak(v)],
     phase |-> "Halted", reason |-> "Halted", requeue |-> TRUE]

advance(through) ==
    [run |-> TRUE, stamp |-> "approved-version",
     left |-> UNION {{<<w, m, fleetApprovalVersion(m)>> :
                        m \in {n \in Waves[w] : fleetApprovalVersion(n) \notin {NoVersion, approved[n]}}}
                     : w \in 1 .. through},
     soak |-> [v \in W |-> NextSoak(v)],
     phase |-> IF firstOpen = 0 THEN "Completed" ELSE "InProgress",
     reason |-> IF firstOpen = 0 THEN "Completed" ELSE "Progressing",
     requeue |-> firstOpen # 0]

StartPass ==
    /\ MayPass
    /\ wake' = FALSE
    /\ broken' = {w \in W : ~Settled(w)}
    /\ ailing' = {w \in Gated : metric[w] # "Passing"}
    /\ LET halting == {w \in W : Halts(w)} IN
         job' = IF halting # {} THEN halt(Min(halting)) ELSE advance(openThrough)
    /\ UNCHANGED <<specVars, statusVars, memberVars, age, boundVars>>

\* Waves are stamped in order.
NextStamps == {s \in job.left : \A t \in job.left : s[1] <= t[1]}

\* approve and rollbackMember: a patch of one annotation, which wakes the member.
StampMember ==
    \E s \in NextStamps :
        /\ IF job.stamp = "approved-version"
             THEN approved' = [approved EXCEPT ![s[2]] = s[3]] /\ UNCHANGED rollbackTo
             ELSE rollbackTo' = [rollbackTo EXCEPT ![s[2]] = s[3]] /\ UNCHANGED approved
        /\ job' = [job EXCEPT !.left = @ \ {s}]
        /\ wake' = TRUE
        /\ UNCHANGED <<specVars, statusVars, offered, version, pending, ready, historyVars, boundVars>>

\* A patch fails: the waves decided on are saved, the phase and the condition are not.
StampFails ==
    /\ job.run /\ job.left # {} /\ Fault
    /\ soakUntil' = job.soak /\ wake' = TRUE /\ job' = NoJob
    /\ UNCHANGED <<specVars, phase, reason, memberVars, historyVars>>

\* Mutant: an open wave does not ask to be looked at again.
FinishPassUnqueued ==
    /\ job.run /\ job.left = {}
    /\ soakUntil' = job.soak /\ phase' = job.phase /\ reason' = job.reason
    /\ job' = NoJob
    /\ UNCHANGED <<specVars, wake, memberVars, historyVars, boundVars>>

FinishPass ==
    /\ job.run /\ job.left = {}
    /\ soakUntil' = job.soak /\ phase' = job.phase /\ reason' = job.reason
    /\ wake' = (wake \/ job.requeue)
    /\ job' = NoJob
    /\ UNCHANGED <<specVars, memberVars, historyVars, boundVars>>

\* The process dies in mid-pass, or the status patch at its end fails.
LosePass ==
    /\ job.run /\ Fault
    /\ job' = NoJob /\ wake' = TRUE
    /\ UNCHANGED <<specVars, statusVars, memberVars, historyVars>>

-----------------------------------------------------------------------------
(* A member's pass, as far as the fleet sees it.                           *)

desired(m) == IF rollbackTo[m] # NoVersion /\ rollbackTo[m] < version[m]
              THEN rollbackTo[m] ELSE offered[m]

Newest == IF TargetVersion # NoVersion THEN TargetVersion ELSE Max(Versions)

MemberStep(m, v, p, rdy) ==
    /\ <<v, p, rdy>> # <<version[m], pending[m], ready[m]>>
    /\ version' = [version EXCEPT ![m] = v]
    /\ pending' = [pending EXCEPT ![m] = p]
    /\ ready' = [ready EXCEPT ![m] = rdy]
    /\ wake' = TRUE
    /\ age' = [age EXCEPT ![m] = IF v = Newest /\ @ = NotSoaking THEN 0 ELSE @]
    /\ broken' = {w \in broken : ~Settled(w)'}
    /\ UNCHANGED <<specVars, statusVars, job, offered, approved, rollbackTo, ailing>>

\* planDowngrade refuses; the version held before stays reported.
MemberRefusesDowngrade(m) ==
    /\ desired(m) < version[m] /\ m \notin AllowDowngrade
    /\ MemberStep(m, version[m], pending[m], FALSE) /\ UNCHANGED boundVars

MayProceed(m) == desired(m) \in {version[m], approved[m]} /\ (desired(m) >= version[m] \/ m \in AllowDowngrade)

\* approvalMode Always: any change of version is held until it is approved.
MemberHolds(m) ==
    /\ ~MayProceed(m) /\ (desired(m) >= version[m] \/ m \in AllowDowngrade)
    /\ MemberStep(m, version[m], desired(m), FALSE) /\ UNCHANGED boundVars

MemberSucceeds(m) ==
    /\ MayProceed(m)
    /\ MemberStep(m, desired(m), NoVersion, TRUE) /\ UNCHANGED boundVars

MemberFails(m) ==
    /\ MayProceed(m) /\ Fault
    /\ MemberStep(m, version[m], NoVersion, FALSE)

-----------------------------------------------------------------------------
(* The surroundings.                                                       *)

\* A member's source offers a newer version.  Its status is unchanged until its next pass.
Publish(m) ==
    \E v \in Versions :
        /\ v > offered[m]
        /\ offered' = [offered EXCEPT ![m] = v]
        /\ UNCHANGED <<specVars, statusVars, wake, job, version, pending, ready, approved,
                       rollbackTo, historyVars, boundVars>>

MetricChanges ==
    \E w \in Gated, v \in {"Passing", "Failing", "Unknown"} :
        /\ v # metric[w] /\ Disturb
        /\ metric' = [metric EXCEPT ![w] = v]
        /\ ailing' = IF v = "Passing" THEN ailing \ {w} ELSE ailing
        /\ UNCHANGED <<onRegression, config, rival, statusVars, wake, job, memberVars, age, broken>>

\* Another rollout is created or edited so that it selects one of the members, or no longer does.
RivalChanges ==
    \E s \in {{}} \cup {{m} : m \in Members} :
        /\ s # rival /\ (s = {} \/ rival = {})
        /\ rival' = s
        /\ IF s = {} THEN UNCHANGED boundVars ELSE Disturb
        /\ UNCHANGED <<onRegression, config, metric, statusVars, wake, job, memberVars, historyVars>>

\* The spec is edited, or a member loses its wave's label: either event wakes the rollout.
EditSpec ==
    \E c \in {"ok", "selector", "gateSecret", "unassigned"} :
        /\ c # config /\ (c = "ok" \/ config = "ok")
        /\ config' = c /\ wake' = TRUE
        /\ IF c = "ok" THEN UNCHANGED boundVars ELSE Disturb
        /\ UNCHANGED <<onRegression, rival, metric, statusVars, job, memberVars, historyVars>>

\* A tick passes: on the saved deadlines, and on those of the running pass.
Older(s) == [w \in W |-> IF s[w] > 0 THEN s[w] - 1 ELSE s[w]]
MaxSoak == Max({Soak[w] : w \in W})

Tick ==
    /\ \/ soakUntil # Older(soakUntil) \/ job.soak # Older(job.soak)
       \/ \E m \in Members : age[m] # NotSoaking /\ age[m] < MaxSoak
    /\ soakUntil' = Older(soakUntil)
    /\ job' = [job EXCEPT !.soak = Older(@)]
    /\ age' = [m \in Members |-> IF age[m] = NotSoaking THEN NotSoaking ELSE Min({age[m] + 1, MaxSoak})]
    /\ UNCHANGED <<specVars, phase, reason, wake, memberVars, broken, ailing, boundVars>>

-----------------------------------------------------------------------------
Init ==
    /\ onRegression \in Policies
    /\ config = "ok" /\ rival = {}
    /\ metric = [w \in Gated |-> "Passing"]
    /\ soakUntil = [w \in W |-> NotSoaking] /\ phase = "" /\ reason = "" /\ wake = TRUE
    /\ job = NoJob
    /\ offered = [m \in Members |-> FirstVersion] /\ version = [m \in Members |-> FirstVersion]
    /\ pending = [m \in Members |-> NoVersion] /\ ready = [m \in Members |-> TRUE]
    /\ approved = [m \in Members |-> NoVersion] /\ rollbackTo = [m \in Members |-> NoVersion]
    /\ age = [m \in Members |-> IF FirstVersion = Newest THEN 0 ELSE NotSoaking]
    /\ broken = {} /\ ailing = {}
    /\ faults = 0 /\ disturbances = 0

FleetPass == ListFails \/ ContestListFails \/ RefuseConfig \/ RefuseContested \/ RefuseUnassigned
             \/ StartPass \/ StampMember \/ StampFails \/ FinishPass \/ LosePass
MemberPass(m) == MemberRefusesDowngrade(m) \/ MemberHolds(m) \/ MemberSucceeds(m) \/ MemberFails(m)
Surroundings == MetricChanges \/ RivalChanges \/ EditSpec \/ Tick

Next == FleetPass \/ (\E m \in Members : MemberPass(m) \/ Publish(m)) \/ Surroundings
Spec == Init /\ [][Next]_vars

(* The controllers keep working and time passes: a woken pass runs, each   *)
(* member reconciles at least once an interval.                            *)
Fairness ==
    /\ WF_vars(RefuseConfig \/ RefuseContested \/ RefuseUnassigned \/ StartPass
               \/ StampMember \/ FinishPass)
    /\ \A m \in Members : WF_vars(MemberRefusesDowngrade(m) \/ MemberHolds(m) \/ MemberSucceeds(m))
    /\ WF_vars(Tick)
FairSpec == Spec /\ Fairness

-----------------------------------------------------------------------------
(* Properties.                                                             *)

VersionOrNone == Versions \cup {NoVersion}
SoakType == [W -> Nat \cup {NotSoaking}]
StatusReasons == {"", "InvalidSelector", "GateUnsupported", "MembersContested", "MembersUnassigned",
                  "Halted", "Completed", "Progressing"}
Phases == {"", "InProgress", "Halted", "Completed"}
JobType == [run : BOOLEAN, stamp : {"", "rollback-to", "approved-version"},
            left : SUBSET (W \X Members \X Versions), soak : SoakType,
            phase : Phases, reason : StatusReasons, requeue : BOOLEAN]

\* Every variable stays in its type: reconcile reports only its own phases and
\* reasons, and only stamps versions there are.
TypeOK ==
    /\ onRegression \in Policies /\ config \in {"ok", "selector", "gateSecret", "unassigned"}
    /\ rival \subseteq Members /\ metric \in [Gated -> {"Passing", "Failing", "Unknown"}]
    /\ soakUntil \in SoakType /\ phase \in Phases /\ reason \in StatusReasons
    /\ wake \in BOOLEAN /\ job \in JobType
    /\ offered \in [Members -> Versions] /\ version \in [Members -> Versions]
    /\ pending \in [Members -> VersionOrNone] /\ ready \in [Members -> BOOLEAN]
    /\ approved \in [Members -> VersionOrNone] /\ rollbackTo \in [Members -> VersionOrNone]
    /\ age \in [Members -> Nat \cup {NotSoaking}]
    /\ broken \subseteq W /\ ailing \subseteq Gated
    /\ faults \in 0 .. MaxFaults /\ disturbances \in 0 .. MaxDisturbances

\* Every member of the wave has run the version rolled out for as long as the wave soaks.
Proven(w) == \A m \in Waves[w] : age[m] # NotSoaking /\ age[m] >= Soak[w]

ApprovedInTurn ==
    \A m \in Members : approved'[m] # approved[m] =>
        \E w \in W : m \in Waves[w] /\ \A v \in 1 .. w - 1 : Proven(v) /\ v \notin broken \cup ailing

(* No member is approved before every earlier wave has reached the version *)
(* and soaked, nor while one of them has been unsettled, or its gate not   *)
(* Passing, since before the pass looked: whatever fails, regresses or     *)
(* crashes between a fleet pass's snapshot of the members and its stamps,  *)
(* and also when a halt has been forgotten, its soak deadline dropped with *)
(* it (fleetrollout_controller.go, firstOpen and the stamping loop).       *)
WavesInOrder == [][ApprovedInTurn]_vars

(* A rollout that reports Completed has had every wave run the version     *)
(* through its soak, lost status writes and retried passes included.       *)
CompletedMeansRolledOut == phase = "Completed" => \A w \in W : Proven(w)

(* The fleet's status is well-formed, and says Completed only when it is.  *)
StatusTruthful == TypeOK /\ CompletedMeansRolledOut

\* Nothing stands in the way of the rollout any more, and no failed List was taken for a bad selector.
Undisturbed ==
    /\ onRegression = "Halt" /\ config = "ok" /\ rival = {} /\ reason # "InvalidSelector"
    /\ \A w \in Gated : metric[w] = "Passing"
    /\ \A m \in Members : offered[m] = Newest

(* A rollout that is left alone completes: every member runs the version   *)
(* and the phase says so, however often waves halted, members failed and   *)
(* passes were lost before.                                                *)
Completes == <>[]Undisturbed => <>[](phase = "Completed" /\ \A m \in Members : version[m] = Newest)
=============================================================================
