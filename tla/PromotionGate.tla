---------------------------- MODULE PromotionGate ----------------------------
(***************************************************************************)
(* The promotion gate of one stage (internal/controller/promotion.go,      *)
(* analysis.go, restartgate.go and the gate's part of the stage loop):     *)
(* soak, fast-track, restart and event checks, metric analysis, the manual *)
(* gate, the break-glass promote token, and the revert of a failing        *)
(* revision.                                                               *)
(*                                                                         *)
(* The gate's memory is the stage's status; everything that rewrites that  *)
(* status is here.  Passes of a StageSet never overlap and read the token  *)
(* and the revision once, so a pass is one step.  Its decision is in       *)
(* memory until the one status patch at its end: a pass that dies first,   *)
(* or whose patch fails, has its effects and leaves the status as it was.  *)
(* Instants appear as time left (a soak deadline) and time gone by (age),  *)
(* so no clock is needed.                                                  *)
(***************************************************************************)
EXTENDS Integers

CONSTANTS
    Revisions, NoRev,   \* source revisions; NoRev is ""
    Soak,               \* promotion.soak, in ticks; 0 for none
    FastTrackAfter,     \* promotion.fastTrack.after; Unset without fastTrack
    FailureLimit,       \* promotion.analysis.failureLimit; Unset without analysis
    MaxRestarts,        \* promotion.restartGate maxRestarts; Unset without the gate
    EventGate,          \* promotion.eventGate is configured
    RevertOnFailure,    \* onFailure: Rollback on the gates
    Faults,             \* the disturbances this instance explores
    MaxTokens,          \* bound on promote requests
    MaxUpdates,         \* bound on source updates
    RestartBound        \* bound on the observed pod restarts

Unset == -1

GateFaults == {"connect", "fail", "progress", "interrupt", "unusable", "crash", "update"}

ASSUME GateAssumption ==
    /\ NoRev \notin Revisions
    /\ Soak \in Nat
    /\ FastTrackAfter \in Nat \cup {Unset}
    /\ FailureLimit \in Nat \cup {Unset}
    /\ MaxRestarts \in Nat \cup {Unset}
    /\ EventGate \in BOOLEAN /\ RevertOnFailure \in BOOLEAN
    /\ Faults \subseteq GateFaults
    /\ MaxTokens \in Nat /\ MaxUpdates \in Nat /\ RestartBound \in Nat

VARIABLES
    manual,     \* spec: promotion.requireManualPromotion
    revision,   \* the revision the source offers
    token,      \* the promote annotation addressed to this stage; 0 for none
    restarts,   \* restart total of the watched pods
    live,       \* the revision of the stage in the cluster
    snapshot,   \* lastAppliedSnapshot of the stage
    applied,    \* status: appliedRevision
    state,      \* status: promotionState
    handled,    \* status: lastHandledPromotion
    updates,
    \* What really happened, kept only to state the properties:
    age,        \* ticks the live revision has been live, up to Soak
    passed,     \* revisions a token or the gates have promoted, recorded or not
    spent,      \* tokens whose promotion a status write recorded
    anchor,     \* restarts at the last recorded promotion or first recorded observation
    banned      \* the offered revision, once its revert was recorded; NoRev otherwise

inputVars == <<manual, revision, token, restarts, updates>>
statusVars == <<applied, state, handled>>
historyVars == <<age, passed, spent, anchor, banned>>
vars == <<inputVars, live, snapshot, statusVars, historyVars>>

-----------------------------------------------------------------------------

PromotionPhases == {"None", "Soaking", "Analyzing", "AwaitingManual", "Blocked", "Promoted"}

\* soak is the time left until soakUntil; failures stops counting one past the limit.
PromotionState ==
    [phase : PromotionPhases, soak : 0 .. Soak \cup {Unset},
     failures : 0 .. (FailureLimit + 1), aborted : Revisions \cup {NoRev},
     base : Nat \cup {Unset}]

\* status.promotionState is nil.
NoState == [phase |-> "None", soak |-> Unset, failures |-> 0, aborted |-> NoRev, base |-> Unset]

HasAnalysis == FailureLimit # Unset
HasRestartGate == MaxRestarts # Unset

SameRevision == applied = revision
FreshToken == token # 0 /\ token # handled

\* Mutation: only an analysis failure parks the revision it reverted.
ParkedAfterAnalysis ==
    /\ RevertOnFailure
    /\ state.phase = "Blocked"
    /\ state.failures > 0
    /\ state.aborted = revision
    /\ ~FreshToken

\* rollbackAborted: the pinned revision was reverted and nobody promoted it.
Parked ==
    /\ RevertOnFailure
    /\ state.phase = "Blocked"
    /\ state.aborted = revision
    /\ ~FreshToken

\* Mutation: a verdict outlives its revision.
PromotedAtAnyRevision == state.phase = "Promoted"

\* The stage has cleared the gate for this revision.
AlreadyPromoted == SameRevision /\ state.phase = "Promoted"

\* Mutation: a hold during the soak counts as past it.
PastSoakWhenBlocked(phase) == phase \in {"Analyzing", "AwaitingManual", "Blocked", "Promoted"}

\* Phases the gate reaches only after the soak.
PastSoak(phase) == phase \in {"Analyzing", "AwaitingManual", "Promoted"}

\* Mutation: the deadline is computed afresh in every pass.
SoakForgotten == Unset

\* carrySoakUntil: the deadline of this revision's soak survives a hold.
CarriedSoak == IF SameRevision THEN state.soak ELSE Unset

\* Mutation: the baseline is taken when a revision arrives.
BaselineAtRevision == IF SameRevision /\ state.base # Unset THEN state.base ELSE restarts

\* The restarts a check is judged against, and whether a check is over them.
Baseline == IF state.base = Unset THEN restarts ELSE state.base
RestartBreach == HasRestartGate /\ restarts - Baseline > MaxRestarts

\* The baseline stamped on whichever state the gate produced.
StampedBase(promoted) ==
    IF ~HasRestartGate THEN Unset ELSE IF promoted THEN restarts ELSE Baseline

\* Consecutive failing evaluations at this revision.
Failures(failing) ==
    IF ~failing THEN 0
    ELSE LET before == IF SameRevision THEN state.failures ELSE 0
         IN  IF before > FailureLimit THEN before ELSE before + 1

\* The soak still ahead when the gate is consulted: the carried deadline, or a
\* whole window.
SoakLeft == IF CarriedSoak # Unset THEN CarriedSoak ELSE Soak

MustSoak(fast) ==
    /\ Soak > 0
    /\ ~(SameRevision /\ PastSoak(state.phase))
    /\ SoakLeft > 0
    /\ ~(FastTrackAfter # Unset /\ fast /\ Soak - SoakLeft >= FastTrackAfter)

\* The soak is over, or was never asked for.
Served(fast) == ~MustSoak(fast)

-----------------------------------------------------------------------------
(* What gatePromotion decides. *)

\* A fresh token advances the stage whatever holds it.
TokenDue == ~AlreadyPromoted /\ FreshToken

\* The gate is really consulted: no earlier verdict and no promote request.
Consulted == ~Parked /\ ~AlreadyPromoted /\ ~FreshToken

\* The restart check or the event check is over its limit.
SignalBreached == Consulted /\ (RestartBreach \/ EventGate)

\* The analysis has failed more often than its limit allows.
AnalysisBreached == Consulted /\ ~RestartBreach /\ HasAnalysis /\ Failures(TRUE) > FailureLimit

\* onFailure: Rollback asks for the snapshot, and there is one.
RevertDue == (SignalBreached \/ AnalysisBreached) /\ RevertOnFailure /\ snapshot # NoRev

\* Every gate is open.
PromotionDue ==
    /\ Consulted /\ ~RestartBreach
    /\ ~manual
    /\ \E fast \in {FALSE} \cup {FastTrackAfter # Unset} : Served(fast)

-----------------------------------------------------------------------------
(* What a pass does before the gate: apply the pinned revision. *)

\* Revision r is what the cluster now runs.
GoesLive(r) ==
    /\ live' = r
    /\ age' = IF r = live THEN age ELSE 0

\* The history of a pass that does not promote.
Unpromoted(r) ==
    /\ GoesLive(r)
    /\ UNCHANGED <<passed, spent, snapshot>>

\* First observation of the pods: the window starts here.
Observe == anchor' = IF HasRestartGate /\ anchor = Unset THEN restarts ELSE anchor

\* A status write that keeps the prior promotion fields or sets new ones.
Status(rev, st, tok) == applied' = rev /\ state' = st /\ handled' = tok

-----------------------------------------------------------------------------
(* Passes that hold. *)

\* Stay reverted: nothing is applied and the prior status is written back.
StayParked ==
    /\ Parked
    /\ UNCHANGED vars

\* Mutation: a hold forgets the handled token.
HoldForgetsToken(phase, soak, failures) ==
    /\ Status(revision,
              [phase |-> phase, soak |-> soak, failures |-> failures, aborted |-> NoRev,
               base |-> StampedBase(FALSE)],
              0)
    /\ Observe
    /\ UNCHANGED inputVars

\* A gate holds the stage at the revision it applied.
Hold(phase, soak, failures) ==
    /\ Status(revision,
              [phase |-> phase, soak |-> soak, failures |-> failures, aborted |-> NoRev,
               base |-> StampedBase(FALSE)],
              handled)
    /\ Observe
    /\ UNCHANGED inputVars

(***************************************************************************)
(* A breached gate blocks.  With onFailure: Rollback the stage is reverted *)
(* to its snapshot and the revision parked; without a snapshot, or with    *)
(* one that can no longer be rebuilt or verified, it holds.                *)
(***************************************************************************)
Revert(failures) ==
    /\ RevertOnFailure /\ snapshot # NoRev
    /\ Status(snapshot,
              [phase |-> "Blocked", soak |-> CarriedSoak, failures |-> failures,
               aborted |-> revision, base |-> StampedBase(FALSE)],
              handled)
    /\ banned' = revision
    /\ Unpromoted(snapshot)
    /\ Observe
    /\ UNCHANGED inputVars

HoldBlocked(failures) ==
    /\ ~RevertOnFailure \/ snapshot = NoRev \/ "unusable" \in Faults
    /\ Hold("Blocked", CarriedSoak, failures)
    /\ Unpromoted(revision)
    /\ UNCHANGED banned

Block(failures) == Revert(failures) \/ HoldBlocked(failures)

BlockOnSignal == SignalBreached /\ Block(0)

BlockOnAnalysis == AnalysisBreached /\ Block(Failures(TRUE))

SoakStage ==
    /\ Consulted /\ ~RestartBreach
    /\ MustSoak(FALSE)
    /\ \E failing \in {FALSE} \cup {HasAnalysis} :
        /\ failing => Failures(TRUE) <= FailureLimit
        /\ Hold("Soaking", SoakLeft, Failures(failing))
    /\ Unpromoted(revision)
    /\ UNCHANGED banned

\* After the soak the analysis must pass right now.
AnalyzeStage ==
    /\ Consulted /\ ~RestartBreach
    /\ HasAnalysis
    /\ Failures(TRUE) <= FailureLimit
    /\ \E fast \in {FALSE} \cup {FastTrackAfter # Unset} : Served(fast)
    /\ Hold("Analyzing", Unset, Failures(TRUE))
    /\ Unpromoted(revision)
    /\ UNCHANGED banned

AwaitManual ==
    /\ Consulted /\ ~RestartBreach
    /\ manual
    /\ \E fast \in {FALSE} \cup {FastTrackAfter # Unset} : Served(fast)
    /\ Hold("AwaitingManual", Unset, 0)
    /\ Unpromoted(revision)
    /\ UNCHANGED banned

-----------------------------------------------------------------------------
(* Passes that advance the rollout past the stage. *)

\* The later stages may succeed too, which makes the revision the last-good one.
Advance(st, tok) ==
    /\ Status(revision, [st EXCEPT !.base = StampedBase(TRUE)], tok)
    /\ GoesLive(revision)
    /\ snapshot' \in {snapshot, revision}
    /\ anchor' = IF HasRestartGate THEN restarts ELSE anchor
    /\ UNCHANGED inputVars

KeepPromoted ==
    /\ ~Parked
    /\ AlreadyPromoted
    /\ Advance(state, handled)
    /\ UNCHANGED <<passed, spent, banned>>

BreakGlass ==
    /\ TokenDue
    /\ Advance([NoState EXCEPT !.phase = "Promoted"], token)
    /\ passed' = passed \cup {revision}
    /\ spent' = spent \cup {token}
    /\ banned' = NoRev

PromoteStage ==
    /\ PromotionDue
    /\ Advance([NoState EXCEPT !.phase = "Promoted"], handled)
    /\ passed' = passed \cup {revision}
    /\ UNCHANGED <<spent, banned>>

-----------------------------------------------------------------------------
(* Passes that end before the gate has decided. *)

\* Connecting or configuring decryption fails before the stage loop, and this
\* is the first stage: its status is replaced, the revision included.
FailBeforeLoop ==
    /\ "connect" \in Faults
    /\ Status(NoRev, NoState, 0)
    /\ UNCHANGED <<inputVars, live, snapshot, historyVars>>

\* failStage and holdForProgress write a status without promotion fields; what
\* failed before the apply leaves the cluster alone.
FailStage ==
    /\ ~Parked
    /\ "fail" \in Faults
    /\ \E r \in {live, revision} \ {NoRev} : Unpromoted(r)
    /\ Status(revision, NoState, 0)
    /\ UNCHANGED <<inputVars, anchor, banned>>

HoldForProgress ==
    /\ ~Parked
    /\ "progress" \in Faults
    /\ Unpromoted(revision)
    /\ Status(revision, NoState, 0)
    /\ UNCHANGED <<inputVars, anchor, banned>>

\* recordGateInterrupted: the pods or the events could not be read, or the
\* revert failed, before or after its apply; the promotion fields stay at their
\* prior values.
InterruptGate ==
    /\ ~Parked
    /\ "interrupt" \in Faults
    /\ \/ (HasRestartGate \/ EventGate) /\ Unpromoted(revision)
       \/ RevertDue /\ \E r \in {revision, snapshot} : Unpromoted(r)
    /\ Status(revision, state, handled)
    /\ UNCHANGED <<inputVars, anchor, banned>>

-----------------------------------------------------------------------------
(* Passes whose status write is lost: the process dies first, or the patch  *)
(* fails.  The cluster has their effects, the status knows nothing of them, *)
(* and the next pass decides again.                                         *)

Unrecorded == UNCHANGED <<inputVars, statusVars, snapshot, spent, anchor, banned>>

\* It applied the revision and held, or had not reached the gate.
LoseHold ==
    /\ ~Parked
    /\ "crash" \in Faults
    /\ GoesLive(revision) /\ passed' = passed
    /\ Unrecorded

\* It put the snapshot back; nothing parks the revision.
LoseRevert ==
    /\ RevertDue
    /\ "crash" \in Faults
    /\ GoesLive(snapshot) /\ passed' = passed
    /\ Unrecorded

\* It advanced the rollout, on a token or through the gates.
LosePromotion ==
    /\ TokenDue \/ PromotionDue
    /\ "crash" \in Faults
    /\ GoesLive(revision) /\ passed' = passed \cup {revision}
    /\ Unrecorded

-----------------------------------------------------------------------------
(* The environment. *)

Ticked(left) == IF left > 0 THEN left - 1 ELSE left

Tick ==
    /\ state.soak > 0 \/ (live # NoRev /\ age < Soak)
    /\ state' = [state EXCEPT !.soak = Ticked(@)]
    /\ age' = IF live # NoRev /\ age < Soak THEN age + 1 ELSE age
    /\ UNCHANGED <<inputVars, live, snapshot, applied, handled, passed, spent, anchor,
                   banned>>

RequestPromotion ==
    /\ token < MaxTokens
    /\ token' = token + 1
    /\ UNCHANGED <<manual, revision, restarts, updates, live, snapshot, statusVars, historyVars>>

UpdateSource ==
    /\ "update" \in Faults
    /\ updates < MaxUpdates
    /\ revision' \in Revisions \ {revision}
    /\ updates' = updates + 1
    /\ banned' = NoRev
    /\ UNCHANGED <<manual, token, restarts, live, snapshot, statusVars, age, passed, spent, anchor>>

\* An operator adds or removes the manual gate.
EditGate ==
    /\ manual' = ~manual
    /\ UNCHANGED <<revision, token, restarts, updates, live, snapshot, statusVars, historyVars>>

PodRestarts ==
    /\ HasRestartGate
    /\ restarts < RestartBound
    /\ restarts' = restarts + 1
    /\ UNCHANGED <<manual, revision, token, updates, live, snapshot, statusVars, historyVars>>

-----------------------------------------------------------------------------

Init ==
    /\ manual \in BOOLEAN
    /\ revision \in Revisions
    /\ token = 0
    /\ restarts = 0
    /\ live = NoRev
    /\ snapshot = NoRev
    /\ applied = NoRev
    /\ state = NoState
    /\ handled = 0
    /\ updates = 0
    /\ age = 0
    /\ passed = {}
    /\ spent = {}
    /\ anchor = Unset
    /\ banned = NoRev

Pass ==
    \/ StayParked \/ BlockOnSignal \/ BlockOnAnalysis \/ SoakStage \/ AnalyzeStage
    \/ AwaitManual \/ KeepPromoted \/ BreakGlass \/ PromoteStage
    \/ FailBeforeLoop \/ FailStage \/ HoldForProgress \/ InterruptGate
    \/ LoseHold \/ LoseRevert \/ LosePromotion

Next == Pass \/ Tick \/ RequestPromotion \/ UpdateSource \/ EditGate \/ PodRestarts

Spec == Init /\ [][Next]_vars

\* The queue hands the StageSet to a worker again and again, and time passes.
FairSpec == Spec /\ WF_vars(Pass) /\ WF_vars(Tick)

-----------------------------------------------------------------------------

\* Every variable has the type of the status field it models.
TypeOK ==
    /\ manual \in BOOLEAN
    /\ revision \in Revisions
    /\ token \in 0 .. MaxTokens
    /\ restarts \in Nat
    /\ live \in Revisions \cup {NoRev}
    /\ snapshot \in Revisions \cup {NoRev}
    /\ applied \in Revisions \cup {NoRev}
    /\ state \in PromotionState
    /\ handled \in 0 .. MaxTokens
    /\ updates \in Nat
    /\ age \in 0 .. Soak
    /\ passed \subseteq Revisions
    /\ spent \subseteq 1 .. MaxTokens
    /\ anchor \in Nat \cup {Unset}
    /\ banned \in Revisions \cup {NoRev}

(***************************************************************************)
(* Fail closed: the rollout never advances past the stage on the strength  *)
(* of an earlier verdict unless a token or the gates promoted that very    *)
(* revision.                                                               *)
(***************************************************************************)
NeverUngated == [][KeepPromoted => revision \in passed]_vars

\* What a soak that is over is worth to revision r.
Ripe(r) ==
    \/ Soak = 0 \/ FastTrackAfter = 0 \/ r \in passed
    \/ live = r /\ age >= Soak
    \/ live = r /\ FastTrackAfter # Unset /\ age >= FastTrackAfter

(***************************************************************************)
(* The gates promote a revision that was not promoted before only once it  *)
(* has been live for the whole soak, or for the minimum soak of a          *)
(* fast-track, where there is one.                                         *)
(***************************************************************************)
SoakServed == [][PromoteStage => Ripe(revision)]_vars

\* A token whose promotion was recorded is never due again, however long the
\* annotation stays on the object.  Until then every pass uses it anew.
TokenOnce == TokenDue => token \notin spent

\* The gate's memory stays well-formed, and its one-shot token is spent once.
GateSound == TypeOK /\ TokenOnce

\* The step that applies the reverted revision again.
ComesBack == banned # NoRev /\ live # banned /\ live' = banned

(***************************************************************************)
(* A revision whose revert was recorded stays out of the cluster until an  *)
(* operator promotes it or the source offers another revision.  A revert   *)
(* whose status write was lost is forgotten, and the revision comes back.  *)
(***************************************************************************)
StaysReverted == [][ComesBack => FreshToken]_vars

\* A promotion by the gates is within the restarts the gate allows.
PromotesCharged ==
    PromoteStage /\ HasRestartGate /\ anchor # Unset => restarts - anchor <= MaxRestarts

(***************************************************************************)
(* Restarts since the last recorded promotion count: the gates never       *)
(* promote a stage whose pods have restarted more than allowed since then. *)
(***************************************************************************)
RestartsCharged == [][PromotesCharged]_vars

\* A pass at the soaking revision that is not failed either ends the soak or
\* leaves the deadline where it was.
DeadlineKept ==
    state.soak # Unset /\ SameRevision /\ applied' = applied /\ state' # NoState
        => PastSoak(state'.phase) \/ (state'.soak # Unset /\ state'.soak <= state.soak)

\* What puts a soak off: a pass that fails, waits for progress or blocks.
PutOff == FailBeforeLoop \/ FailStage \/ HoldForProgress \/ BlockOnSignal \/ BlockOnAnalysis

(***************************************************************************)
(* A soak is not restarted and comes to its end: blocks and evaluations    *)
(* leave its deadline alone, only a failed pass wipes it, and once nothing *)
(* puts it off any more the stage gets past it.                            *)
(***************************************************************************)
SoakEnds ==
    /\ [][DeadlineKept]_vars
    /\ <>[][~PutOff]_vars => (state.phase = "Soaking" ~> PastSoak(state.phase))
=============================================================================
