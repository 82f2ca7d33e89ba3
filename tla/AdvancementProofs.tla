-------------------------- MODULE AdvancementProofs --------------------------
(***************************************************************************)
(* What lets a StageSet advance: a stage past its promotion gate, the      *)
(* version over its migrations.                                            *)
(*                                                                         *)
(* The promotion gate of a stage: what it guarantees for any revisions,    *)
(* soak, limits and baselines, and for any number of promote requests,     *)
(* source updates and restarts.  Which disturbances a guarantee survives   *)
(* is its hypothesis: some of them rewrite or misplace the gate's memory.  *)
(*                                                                         *)
(* Version transitions: what the ledgers guarantee for any versions,       *)
(* stages, ladders and policies, and any number of edits, faults and       *)
(* crashes; hypotheses are on what users do to a ladder.                   *)
(***************************************************************************)
EXTENDS PromotionGate, Migrations, FiniteSetTheorems, WellFoundedInduction, TLAPS

-----------------------------------------------------------------------------
(* The promotion gate.                                                     *)

\* No pass ends in a status without promotion fields.
MemoryKept == Faults \cap {"connect", "fail", "progress"} = {}

\* No interrupted check carries a verdict over to another revision.
VerdictsKept == "interrupt" \notin Faults

\* What is live is what the status says.
StatusInStep == VerdictsKept /\ "crash" \notin Faults

\* A token whose promotion was recorded is the handled one, or an earlier one.
TokenInv == handled <= token /\ \A k \in spent : k <= handled

\* A revision whose revert was recorded is parked until a token promotes it.
BannedInv == banned # NoRev =>
    banned = revision /\ RevertOnFailure /\ state.phase = "Blocked" /\ state.aborted = revision

\* The baseline is the restarts at the last recorded promotion.
BaseInv == HasRestartGate => state.base = anchor

\* The verdict and the snapshot are of revisions that were promoted.
VerdictInv ==
    /\ state.phase = "Promoted" => applied \in passed
    /\ snapshot # NoRev => snapshot \in passed

\* The deadline in the status has as long to go as the revision still has to be
\* live; past the soak it has been.
SoakInv ==
    /\ state.soak # Unset =>
          \/ applied \in passed
          \/ applied # NoRev /\ applied = live /\ age + state.soak >= Soak
    /\ state.phase \in {"Analyzing", "AwaitingManual"} => applied # NoRev /\ Ripe(applied)

-----------------------------------------------------------------------------
(* Types. *)

SoakRange == 0 .. Soak \cup {Unset}
FailureRange == 0 .. (FailureLimit + 1)

\* A promotion state is made of its fields.
LEMMA StateFields == ASSUME NEW st \in PromotionState
    PROVE  /\ st.phase \in PromotionPhases /\ st.soak \in SoakRange /\ st.failures \in FailureRange
           /\ st.aborted \in Revisions \cup {NoRev} /\ st.base \in Nat \cup {Unset}
BY DEF PromotionState, SoakRange, FailureRange

LEMMA MadeState ==
    ASSUME NEW p \in PromotionPhases, NEW s \in SoakRange, NEW f \in FailureRange,
           NEW a \in Revisions \cup {NoRev}, NEW b \in Nat \cup {Unset}
    PROVE  [phase |-> p, soak |-> s, failures |-> f, aborted |-> a, base |-> b] \in PromotionState
BY DEF PromotionState, SoakRange, FailureRange

LEMMA Ranges == 0 \in FailureRange /\ Unset \in SoakRange /\ Soak \in SoakRange /\ 0 # Unset
<1>1. Soak \in Nat /\ FailureLimit \in Nat \cup {Unset}
  BY GateAssumption
<1>2. 0 \in FailureRange
  BY <1>1 DEF FailureRange, Unset
<1> QED
  BY <1>1, <1>2 DEF SoakRange, Unset

LEMMA NoStateType == NoState \in PromotionState
BY Ranges, MadeState DEF NoState, PromotionPhases

\* What a pass writes into a promotion state is in range.
LEMMA Written == ASSUME TypeOK
    PROVE  /\ StampedBase(FALSE) \in Nat \cup {Unset} /\ StampedBase(TRUE) \in Nat \cup {Unset}
           /\ CarriedSoak \in SoakRange /\ SoakLeft \in SoakRange
           /\ Failures(FALSE) \in FailureRange /\ (HasAnalysis => Failures(TRUE) \in FailureRange)
<1>1. state.base \in Nat \cup {Unset} /\ state.soak \in SoakRange /\ state.failures \in FailureRange /\ restarts \in Nat
  BY StateFields DEF TypeOK
<1>2. StampedBase(FALSE) \in Nat \cup {Unset} /\ StampedBase(TRUE) \in Nat \cup {Unset}
  BY <1>1 DEF StampedBase, Baseline
<1>3. CarriedSoak \in SoakRange /\ SoakLeft \in SoakRange
  BY <1>1, Ranges DEF CarriedSoak, SoakLeft
<1>4. Failures(FALSE) \in FailureRange
  BY Ranges DEF Failures
<1>5. ASSUME HasAnalysis PROVE Failures(TRUE) \in FailureRange
  <2>1. FailureLimit \in Nat
    BY <1>5, GateAssumption DEF HasAnalysis
  <2>2. PICK b : b = IF SameRevision THEN state.failures ELSE 0
    OBVIOUS
  <2>3. b \in 0 .. FailureLimit + 1
    BY <1>1, <2>1, <2>2 DEF FailureRange
  <2>4. Failures(TRUE) = IF b > FailureLimit THEN b ELSE b + 1
    BY <2>2 DEF Failures
  <2>5. Failures(TRUE) \in 0 .. FailureLimit + 1
    <3>1. CASE b > FailureLimit
      BY <2>3, <2>4, <3>1
    <3>2. CASE ~(b > FailureLimit)
      <4>1. b + 1 \in 0 .. FailureLimit + 1
        BY <2>1, <2>3, <3>2
      <4> QED
        BY <2>4, <3>2, <4>1
    <3> QED
      BY <3>1, <3>2
  <2> QED
    BY <2>5 DEF FailureRange
<1> QED
  BY <1>2, <1>3, <1>4, <1>5

\* The state and the status a step leaves.
StatusOK == applied' \in Revisions \cup {NoRev} /\ state' \in PromotionState /\ handled' \in 0 .. MaxTokens

LEMMA HoldType ==
    ASSUME TypeOK, NEW p \in PromotionPhases, NEW s \in SoakRange, NEW f \in FailureRange, Hold(p, s, f)
    PROVE  StatusOK /\ anchor' \in Nat \cup {Unset} /\ UNCHANGED inputVars
<1>1. [phase |-> p, soak |-> s, failures |-> f, aborted |-> NoRev, base |-> StampedBase(FALSE)] \in PromotionState
  BY Written, MadeState
<1> QED
  BY <1>1 DEF Hold, Status, StatusOK, Observe, TypeOK

LEMMA GoesLiveType == ASSUME TypeOK, NEW r \in Revisions, GoesLive(r) PROVE live' \in Revisions /\ age' \in 0 .. Soak
BY GateAssumption DEF GoesLive, TypeOK

LEMMA UnpromotedType == ASSUME TypeOK, NEW r \in Revisions, Unpromoted(r)
    PROVE  live' \in Revisions /\ age' \in 0 .. Soak /\ UNCHANGED <<passed, spent, snapshot>>
BY GoesLiveType DEF Unpromoted

LEMMA BlockType ==
    ASSUME TypeOK, NEW f \in FailureRange, Block(f), f = 0 \/ HasAnalysis
    PROVE  TypeOK'
<1>1. "Blocked" \in PromotionPhases /\ CarriedSoak \in SoakRange
  BY Written DEF PromotionPhases
<1>2. CASE Revert(f)
  <2>1. snapshot \in Revisions /\ revision \in Revisions
    BY <1>2 DEF Revert, TypeOK
  <2>2. [phase |-> "Blocked", soak |-> CarriedSoak, failures |-> f, aborted |-> revision, base |-> StampedBase(FALSE)]
            \in PromotionState
    BY <1>1, <2>1, Written, MadeState
  <2>3. StatusOK /\ banned' \in Revisions \cup {NoRev} /\ anchor' \in Nat \cup {Unset} /\ UNCHANGED inputVars
    BY <1>2, <2>1, <2>2 DEF Revert, Status, StatusOK, Observe, TypeOK
  <2>4. live' \in Revisions /\ age' \in 0 .. Soak /\ UNCHANGED <<passed, spent, snapshot>>
    BY <1>2, <2>1, UnpromotedType DEF Revert
  <2> QED
    BY <2>3, <2>4 DEF TypeOK, StatusOK, inputVars
<1>3. CASE HoldBlocked(f)
  <2>1. StatusOK /\ anchor' \in Nat \cup {Unset} /\ UNCHANGED inputVars
    BY <1>1, <1>3, HoldType DEF HoldBlocked
  <2>2. live' \in Revisions /\ age' \in 0 .. Soak /\ UNCHANGED <<passed, spent, snapshot, banned>>
    BY <1>3, UnpromotedType DEF HoldBlocked, TypeOK
  <2> QED
    BY <2>1, <2>2 DEF TypeOK, StatusOK, inputVars
<1> QED
  BY <1>2, <1>3 DEF Block

\* A pass that holds.
LEMMA HeldType ==
    ASSUME TypeOK, NEW p \in PromotionPhases, NEW s \in SoakRange, NEW f \in FailureRange, Hold(p, s, f),
           Unpromoted(revision), UNCHANGED banned
    PROVE  TypeOK'
<1>1. StatusOK /\ anchor' \in Nat \cup {Unset} /\ UNCHANGED inputVars
  BY HoldType
<1>2. live' \in Revisions /\ age' \in 0 .. Soak /\ UNCHANGED <<passed, spent, snapshot, banned>>
  BY UnpromotedType DEF TypeOK
<1> QED
  BY <1>1, <1>2 DEF TypeOK, StatusOK, inputVars

LEMMA AdvanceType ==
    ASSUME TypeOK, NEW st \in PromotionState, NEW t \in 0 .. MaxTokens, Advance(st, t),
           passed' \subseteq Revisions, spent' \subseteq 1 .. MaxTokens, banned' \in Revisions \cup {NoRev}
    PROVE  TypeOK'
<1>1. PICK b \in Nat \cup {Unset} : b = StampedBase(TRUE)
  BY Written
<1>2. [st EXCEPT !.base = b] \in PromotionState
  BY DEF PromotionState
<1>3. StatusOK /\ anchor' \in Nat \cup {Unset} /\ snapshot' \in Revisions \cup {NoRev} /\ UNCHANGED inputVars
  BY <1>1, <1>2 DEF Advance, Status, StatusOK, TypeOK
<1>4. live' \in Revisions /\ age' \in 0 .. Soak
  BY GoesLiveType DEF Advance, TypeOK
<1> QED
  BY <1>3, <1>4 DEF TypeOK, StatusOK, inputVars

\* The passes that lose their status write, and what they do.
Losing == LoseHold \/ LoseRevert \/ LosePromotion

LEMMA LosingDoes == ASSUME TypeOK, Losing
    PROVE  /\ "crash" \in Faults /\ ~Parked
           /\ UNCHANGED <<inputVars, statusVars, snapshot, spent, anchor, banned>>
           /\ passed \subseteq passed' /\ passed' \subseteq Revisions
           /\ \E r \in Revisions : GoesLive(r)
<1>1. CASE LoseHold
  BY <1>1 DEF LoseHold, Unrecorded, TypeOK
<1>2. CASE LoseRevert
  BY <1>2 DEF LoseRevert, Unrecorded, RevertDue, SignalBreached, AnalysisBreached, Consulted, TypeOK
<1>3. CASE LosePromotion
  BY <1>3 DEF LosePromotion, Unrecorded, TokenDue, PromotionDue, Consulted, Parked, TypeOK
<1> QED
  BY <1>1, <1>2, <1>3 DEF Losing

LEMMA PassType == ASSUME TypeOK, Pass PROVE TypeOK'
<1>1. CASE StayParked
  BY <1>1 DEF StayParked, TypeOK, vars, inputVars, statusVars, historyVars
<1>2. CASE BlockOnSignal \/ BlockOnAnalysis
  BY <1>2, BlockType, Written, Ranges DEF BlockOnSignal, BlockOnAnalysis, AnalysisBreached
<1>3. CASE SoakStage \/ AnalyzeStage \/ AwaitManual
  <2>1. {"Soaking", "Analyzing", "AwaitingManual"} \subseteq PromotionPhases
    BY DEF PromotionPhases
  <2>2. CASE SoakStage
    <3>1. PICK failing \in {FALSE} \cup {HasAnalysis} : Hold("Soaking", SoakLeft, Failures(failing))
      BY <2>2 DEF SoakStage
    <3>2. Failures(failing) \in FailureRange
      <4>1. CASE HasAnalysis = TRUE
        BY <3>1, <4>1, Written
      <4>2. CASE HasAnalysis = FALSE
        BY <3>1, <4>2, Written
      <4> QED
        BY <4>1, <4>2 DEF HasAnalysis
    <3> QED
      BY <2>1, <2>2, <3>1, <3>2, Written, HeldType DEF SoakStage
  <2>3. CASE AnalyzeStage
    BY <2>1, <2>3, Written, Ranges, HeldType DEF AnalyzeStage
  <2>4. CASE AwaitManual
    BY <2>1, <2>4, Ranges, HeldType DEF AwaitManual
  <2> QED
    BY <1>3, <2>2, <2>3, <2>4
<1>4. CASE KeepPromoted
  BY <1>4, AdvanceType DEF KeepPromoted, TypeOK
<1>5. [NoState EXCEPT !.phase = "Promoted"] \in PromotionState
  BY NoStateType DEF PromotionState, PromotionPhases
<1>6. CASE BreakGlass
  <2>1. token \in 1 .. MaxTokens
    BY <1>6, GateAssumption DEF BreakGlass, TokenDue, FreshToken, TypeOK
  <2>2. passed' \subseteq Revisions /\ spent' \subseteq 1 .. MaxTokens /\ banned' \in Revisions \cup {NoRev}
    BY <1>6, <2>1 DEF BreakGlass, TypeOK
  <2> QED
    BY <1>5, <1>6, <2>1, <2>2, AdvanceType DEF BreakGlass
<1>7. CASE PromoteStage
  <2>1. passed' \subseteq Revisions /\ UNCHANGED <<spent, banned>>
    BY <1>7 DEF PromoteStage, TypeOK
  <2> QED
    BY <1>5, <1>7, <2>1, AdvanceType DEF PromoteStage, TypeOK
<1>8. CASE FailBeforeLoop
  <2>1. StatusOK
    BY <1>8, NoStateType, GateAssumption DEF FailBeforeLoop, Status, StatusOK
  <2> QED
    BY <1>8, <2>1 DEF FailBeforeLoop, StatusOK, TypeOK, inputVars, historyVars
<1>9. CASE FailStage \/ HoldForProgress \/ InterruptGate
  <2>1. PICK r \in Revisions : Unpromoted(r)
    BY <1>9 DEF FailStage, HoldForProgress, InterruptGate, RevertDue, TypeOK
  <2>2. StatusOK /\ UNCHANGED <<inputVars, anchor, banned>>
    BY <1>9, NoStateType, GateAssumption DEF FailStage, HoldForProgress, InterruptGate, Status, StatusOK, TypeOK
  <2> QED
    BY <2>1, <2>2, UnpromotedType DEF StatusOK, TypeOK, inputVars
<1>10. CASE Losing
  BY <1>10, LosingDoes, GoesLiveType DEF TypeOK, inputVars, statusVars
<1> QED
  BY <1>1, <1>2, <1>3, <1>4, <1>6, <1>7, <1>8, <1>9, <1>10 DEF Pass, Losing

LEMMA TickedType == ASSUME TypeOK PROVE [state EXCEPT !.soak = Ticked(@)] \in PromotionState
<1>1. PICK x \in SoakRange : x = state.soak
  BY StateFields DEF TypeOK
<1>2. PICK y \in SoakRange : y = Ticked(x)
  BY <1>1, GateAssumption DEF Ticked, SoakRange, Unset
<1>3. [state EXCEPT !.soak = y] \in PromotionState
  BY DEF TypeOK, PromotionState, SoakRange
<1> QED
  BY <1>1, <1>2, <1>3

LEMMA AroundType == ASSUME TypeOK, Tick \/ RequestPromotion \/ UpdateSource \/ EditGate \/ PodRestarts PROVE TypeOK'
<1>1. CASE Tick
  <2>1. age' \in 0 .. Soak
    BY <1>1, GateAssumption DEF Tick, TypeOK
  <2> QED
    BY <1>1, <2>1, TickedType DEF Tick, TypeOK, inputVars
<1>2. CASE RequestPromotion
  BY <1>2, GateAssumption DEF RequestPromotion, TypeOK, statusVars, historyVars
<1>3. CASE UpdateSource
  BY <1>3 DEF UpdateSource, TypeOK, statusVars
<1>4. CASE EditGate
  BY <1>4 DEF EditGate, TypeOK, statusVars, historyVars
<1>5. CASE PodRestarts
  BY <1>5 DEF PodRestarts, TypeOK, statusVars, historyVars
<1> QED
  BY <1>1, <1>2, <1>3, <1>4, <1>5

LEMMA StepType == ASSUME TypeOK, [Next]_vars PROVE TypeOK'
<1>1. CASE UNCHANGED vars
  BY <1>1 DEF TypeOK, vars, inputVars, statusVars, historyVars
<1> QED
  BY <1>1, PassType, AroundType DEF Next

LEMMA InitType == Init => TypeOK
BY NoStateType, GateAssumption DEF Init, TypeOK
-----------------------------------------------------------------------------
(* The token, the reverted revision and the baseline. *)

\* The passes that hold, and those that block.
Holding == SoakStage \/ AnalyzeStage \/ AwaitManual
Blocking == BlockOnSignal \/ BlockOnAnalysis
World == Tick \/ RequestPromotion \/ UpdateSource \/ EditGate \/ PodRestarts

\* What a pass that holds does.
LEMMA HoldingDoes == ASSUME Holding
    PROVE  /\ Consulted /\ Unpromoted(revision) /\ UNCHANGED banned
           /\ \E p \in {"Soaking", "Analyzing", "AwaitingManual"} : \E s, f : Hold(p, s, f)
BY DEF Holding, SoakStage, AnalyzeStage, AwaitManual

LEMMA BlockingDoes == ASSUME Blocking PROVE Consulted /\ \E f : Block(f)
BY DEF Blocking, BlockOnSignal, BlockOnAnalysis, SignalBreached, AnalysisBreached

\* The step of a gate whose memory is kept.
LEMMA KeptSteps == ASSUME MemoryKept, [Next]_vars
    PROVE  Holding \/ Blocking \/ KeepPromoted \/ BreakGlass \/ PromoteStage \/ InterruptGate \/ Losing \/ World
           \/ UNCHANGED vars
BY DEF MemoryKept, Next, Pass, StayParked, FailBeforeLoop, FailStage, HoldForProgress, Holding, Blocking, Losing, World

LEMMA TokenStep == ASSUME MemoryKept, TypeOK, TokenInv, [Next]_vars PROVE TokenInv'
<1>1. token \in Nat /\ handled \in Nat /\ spent \subseteq Nat
  BY GateAssumption DEF TypeOK
<1>2. CASE BreakGlass
  <2>1. token' = token /\ handled' = token /\ spent' = spent \cup {token}
    BY <1>2 DEF BreakGlass, Advance, Status, inputVars
  <2>2. \A k \in spent : k <= token
    BY <1>1 DEF TokenInv
  <2> QED
    BY <1>1, <2>1, <2>2 DEF TokenInv
<1>3. CASE ~BreakGlass
  <2>1. UNCHANGED <<handled, spent>> /\ (token' = token \/ token' = token + 1)
    <3>1. CASE Holding
      BY <3>1, HoldingDoes DEF Unpromoted, Hold, Status, inputVars
    <3>2. CASE Blocking
      BY <3>2, BlockingDoes DEF Block, Revert, HoldBlocked, Unpromoted, Hold, Status, inputVars
    <3>3. CASE KeepPromoted \/ PromoteStage
      BY <3>3 DEF KeepPromoted, PromoteStage, Advance, Status, inputVars
    <3>4. CASE InterruptGate
      BY <3>4 DEF InterruptGate, Unpromoted, Status, inputVars
    <3>5. CASE Losing
      BY <3>5, LosingDoes DEF statusVars, inputVars
    <3>6. CASE World
      BY <3>6 DEF World, Tick, RequestPromotion, UpdateSource, EditGate, PodRestarts, inputVars, statusVars, historyVars
    <3>7. CASE UNCHANGED vars
      BY <3>7 DEF vars, inputVars, statusVars, historyVars
    <3> QED
      BY <1>3, <3>1, <3>2, <3>3, <3>4, <3>5, <3>6, <3>7, KeptSteps
  <2> QED
    BY <1>1, <2>1 DEF TokenInv
<1> QED
  BY <1>2, <1>3

\* While a revision is banned and no token is fresh, the stage is parked.
LEMMA BannedParks == ASSUME BannedInv, banned # NoRev, ~FreshToken PROVE Parked
BY DEF BannedInv, Parked

LEMMA BannedStep == ASSUME MemoryKept, TypeOK, BannedInv, [Next]_vars PROVE BannedInv'
<1> USE DEF BannedInv
<1>1. CASE Holding
  <2>1. banned = NoRev
    BY <1>1, HoldingDoes, BannedParks DEF Consulted
  <2> QED
    BY <1>1, <2>1, HoldingDoes
<1>2. CASE Blocking
  <2>1. banned = NoRev
    BY <1>2, BlockingDoes, BannedParks DEF Consulted
  <2>2. PICK f : Block(f)
    BY <1>2, BlockingDoes
  <2>3. CASE Revert(f)
    BY <2>3 DEF Revert, Status, inputVars
  <2>4. CASE HoldBlocked(f)
    BY <2>1, <2>4 DEF HoldBlocked
  <2> QED
    BY <2>2, <2>3, <2>4 DEF Block
<1>3. CASE KeepPromoted
  BY <1>3 DEF KeepPromoted, AlreadyPromoted
<1>4. CASE BreakGlass
  BY <1>4 DEF BreakGlass
<1>5. CASE PromoteStage
  BY <1>5, BannedParks DEF PromoteStage, PromotionDue, Consulted
<1>6. CASE InterruptGate \/ Losing
  BY <1>6, LosingDoes DEF InterruptGate, Status, statusVars, inputVars
<1>7. CASE Tick
  <2>1. state'.phase = state.phase /\ state'.aborted = state.aborted
    BY <1>7 DEF Tick, TypeOK, PromotionState
  <2> QED
    BY <1>7, <2>1 DEF Tick, inputVars
<1>8. CASE RequestPromotion \/ UpdateSource \/ EditGate \/ PodRestarts
  BY <1>8 DEF RequestPromotion, UpdateSource, EditGate, PodRestarts, statusVars, historyVars
<1>9. CASE UNCHANGED vars
  BY <1>9 DEF vars, inputVars, statusVars, historyVars
<1> QED
  BY <1>1, <1>2, <1>3, <1>4, <1>5, <1>6, <1>7, <1>8, <1>9, KeptSteps DEF World

\* The baseline a pass stamps is what it observed.
LEMMA Stamps == ASSUME TypeOK, BaseInv, HasRestartGate, Observe PROVE anchor' = StampedBase(FALSE)
BY DEF BaseInv, Observe, StampedBase, Baseline

LEMMA BaseStep == ASSUME MemoryKept, TypeOK, BaseInv, [Next]_vars PROVE BaseInv'
<1> SUFFICES ASSUME HasRestartGate PROVE state'.base = anchor'
  BY DEF BaseInv, HasRestartGate
<1>1. state \in PromotionState /\ state.base = anchor
  BY DEF TypeOK, BaseInv
<1>10. ASSUME NEW p, NEW s, NEW f, Hold(p, s, f) PROVE state'.base = anchor'
  <2>1. state' = [phase |-> p, soak |-> s, failures |-> f, aborted |-> NoRev, base |-> StampedBase(FALSE)]
    BY <1>10 DEF Hold, Status
  <2>2. state'.base = StampedBase(FALSE)
    BY <2>1
  <2>3. Observe
    BY <1>10 DEF Hold
  <2> QED
    BY <2>2, <2>3, Stamps
<1>2. CASE Holding
  BY <1>2, <1>10, HoldingDoes
<1>3. CASE Blocking
  <2>1. PICK f : Block(f)
    BY <1>3, BlockingDoes
  <2>2. CASE Revert(f)
    <3>1. state' = [phase |-> "Blocked", soak |-> CarriedSoak, failures |-> f, aborted |-> revision,
                    base |-> StampedBase(FALSE)]
      BY <2>2 DEF Revert, Status
    <3>2. state'.base = StampedBase(FALSE)
      BY <3>1
    <3>3. Observe
      BY <2>2 DEF Revert
    <3> QED
      BY <3>2, <3>3, Stamps
  <2>3. CASE HoldBlocked(f)
    BY <2>3, <1>10 DEF HoldBlocked
  <2> QED
    BY <2>1, <2>2, <2>3 DEF Block
<1>4. ASSUME NEW st \in PromotionState, NEW t, Advance(st, t) PROVE state'.base = anchor'
  BY <1>4 DEF Advance, Status, StampedBase, PromotionState
<1>5. CASE KeepPromoted \/ BreakGlass \/ PromoteStage
  <2>1. [NoState EXCEPT !.phase = "Promoted"] \in PromotionState
    BY NoStateType DEF PromotionState, PromotionPhases
  <2> QED
    BY <1>1, <1>4, <1>5, <2>1 DEF KeepPromoted, BreakGlass, PromoteStage
<1>6. CASE InterruptGate \/ Losing
  BY <1>1, <1>6, LosingDoes DEF InterruptGate, Status, statusVars
<1>7. CASE Tick
  BY <1>1, <1>7 DEF Tick, PromotionState
<1>8. CASE RequestPromotion \/ UpdateSource \/ EditGate \/ PodRestarts
  BY <1>1, <1>8 DEF RequestPromotion, UpdateSource, EditGate, PodRestarts, statusVars, historyVars
<1>9. CASE UNCHANGED vars
  BY <1>1, <1>9 DEF vars, inputVars, statusVars, historyVars
<1> QED
  BY <1>2, <1>3, <1>5, <1>6, <1>7, <1>8, <1>9, KeptSteps DEF World
-----------------------------------------------------------------------------
(* The verdict and the soak. *)

\* The passes that end in a status without promotion fields.
Wiping == FailBeforeLoop \/ FailStage \/ HoldForProgress

LEMMA VerdictSteps == ASSUME VerdictsKept, [Next]_vars
    PROVE  Holding \/ Blocking \/ KeepPromoted \/ BreakGlass \/ PromoteStage \/ Wiping \/ Losing \/ World
           \/ UNCHANGED vars
BY DEF VerdictsKept, Next, Pass, StayParked, InterruptGate, Wiping, Holding, Blocking, Losing, World

\* A hold writes the fields it is given.
LEMMA HoldWrites == ASSUME NEW p, NEW s, NEW f, Hold(p, s, f)
    PROVE  applied' = revision /\ state'.phase = p /\ state'.soak = s
<1>1. state' = [phase |-> p, soak |-> s, failures |-> f, aborted |-> NoRev, base |-> StampedBase(FALSE)]
  BY DEF Hold, Status
<1> QED
  BY <1>1 DEF Hold, Status

\* A block leaves the carried deadline, at the revision or at the snapshot.
LEMMA BlockWrites == ASSUME NEW f, Block(f)
    PROVE  /\ state'.phase = "Blocked" /\ state'.soak = CarriedSoak /\ UNCHANGED <<passed, snapshot>>
           /\ \/ snapshot # NoRev /\ applied' = snapshot
              \/ applied' = revision /\ GoesLive(revision)
<1>1. CASE Revert(f)
  <2>1. state' = [phase |-> "Blocked", soak |-> CarriedSoak, failures |-> f, aborted |-> revision,
                  base |-> StampedBase(FALSE)]
    BY <1>1 DEF Revert, Status
  <2>2. state'.phase = "Blocked" /\ state'.soak = CarriedSoak
    BY <2>1
  <2>3. applied' = snapshot /\ snapshot # NoRev /\ UNCHANGED <<passed, snapshot>>
    BY <1>1 DEF Revert, Status, Unpromoted
  <2> QED
    BY <2>2, <2>3
<1>2. CASE HoldBlocked(f)
  BY <1>2, HoldWrites DEF HoldBlocked, Unpromoted
<1> QED
  BY <1>1, <1>2 DEF Block

\* A pass that advances keeps the phase, the soak and the revision it is given.
LEMMA AdvanceWrites == ASSUME NEW st \in PromotionState, NEW t, Advance(st, t)
    PROVE  applied' = revision /\ state'.phase = st.phase /\ state'.soak = st.soak /\ snapshot' \in {snapshot, revision}
BY DEF Advance, Status, PromotionState

\* A new promotion is promoted, soaks no more and is remembered.
LEMMA PromotionWrites == ASSUME BreakGlass \/ PromoteStage
    PROVE  /\ applied' = revision /\ state'.phase = "Promoted" /\ state'.soak = Unset /\ snapshot' \in {snapshot, revision}
           /\ passed' = passed \cup {revision}
<1>1. PICK st \in PromotionState : st = [NoState EXCEPT !.phase = "Promoted"]
  BY NoStateType DEF PromotionState, PromotionPhases
<1>2. st.phase = "Promoted" /\ st.soak = Unset
  BY <1>1 DEF NoState
<1>3. \E t : Advance(st, t)
  BY <1>1 DEF BreakGlass, PromoteStage
<1> QED
  BY <1>2, <1>3, AdvanceWrites DEF BreakGlass, PromoteStage

\* A wiping pass leaves no promotion fields.
LEMMA WipeWrites == ASSUME Wiping
    PROVE  state'.phase = "None" /\ state'.soak = Unset /\ UNCHANGED <<passed, snapshot>>
<1>1. state' = NoState /\ UNCHANGED <<passed, snapshot>>
  BY DEF Wiping, FailBeforeLoop, FailStage, HoldForProgress, Status, Unpromoted, historyVars
<1> QED
  BY <1>1 DEF NoState

LEMMA WorldKeeps == ASSUME TypeOK, World
    PROVE  state'.phase = state.phase /\ UNCHANGED <<applied, passed, snapshot, live>>
<1>1. CASE Tick
  BY <1>1 DEF Tick, TypeOK, PromotionState
<1>2. CASE RequestPromotion \/ UpdateSource \/ EditGate \/ PodRestarts
  BY <1>2 DEF RequestPromotion, UpdateSource, EditGate, PodRestarts, statusVars, historyVars
<1> QED
  BY <1>1, <1>2 DEF World

LEMMA VerdictStep == ASSUME VerdictsKept, TypeOK, VerdictInv, [Next]_vars PROVE VerdictInv'
<1> USE DEF VerdictInv
<1>1. CASE Holding
  BY <1>1, HoldingDoes, HoldWrites DEF Unpromoted
<1>2. CASE Blocking
  BY <1>2, BlockingDoes, BlockWrites
<1>3. CASE KeepPromoted
  <2>1. applied' = revision /\ snapshot' \in {snapshot, revision} /\ passed' = passed
    BY <1>3, AdvanceWrites DEF KeepPromoted, TypeOK
  <2>2. revision \in passed
    BY <1>3 DEF KeepPromoted, AlreadyPromoted, SameRevision
  <2> QED
    BY <2>1, <2>2
<1>4. CASE BreakGlass \/ PromoteStage
  BY <1>4, PromotionWrites
<1>5. CASE Wiping
  BY <1>5, WipeWrites
<1>6. CASE Losing
  BY <1>6, LosingDoes DEF statusVars
<1>7. CASE World
  BY <1>7, WorldKeeps
<1>8. CASE UNCHANGED vars
  BY <1>8 DEF vars, statusVars, historyVars
<1> QED
  BY <1>1, <1>2, <1>3, <1>4, <1>5, <1>6, <1>7, <1>8, VerdictSteps

\* What a soak that is over leaves: the revision was promoted before, or it has
\* been live for the whole window or for the minimum of the fast-track.
LEMMA ServedIsRipe ==
    ASSUME TypeOK, SoakInv, Consulted, NEW fast \in BOOLEAN, fast => FastTrackAfter # Unset, Served(fast)
    PROVE  Ripe(revision)
<1>1. Soak \in Nat /\ FastTrackAfter \in Nat \cup {Unset} /\ age \in 0 .. Soak /\ NoRev \notin Revisions
  BY GateAssumption DEF TypeOK
<1>2. state.soak \in SoakRange
  BY StateFields DEF TypeOK
<1>3. CASE SameRevision /\ PastSoak(state.phase)
  <2>1. state.phase \in {"Analyzing", "AwaitingManual"}
    BY <1>3 DEF Consulted, AlreadyPromoted, PastSoak
  <2> QED
    BY <1>3, <2>1 DEF SoakInv, SameRevision
<1>4. CASE Soak > 0 /\ ~(SameRevision /\ PastSoak(state.phase))
  <2>1. \/ ~(SoakLeft > 0)
        \/ FastTrackAfter # Unset /\ fast /\ Soak - SoakLeft >= FastTrackAfter
    BY <1>4 DEF Served, MustSoak
  <2>2. CASE CarriedSoak # Unset
    <3>1. applied = revision /\ state.soak # Unset /\ SoakLeft = state.soak
      BY <2>2 DEF CarriedSoak, SoakLeft, SameRevision
    <3>2. CASE applied \in passed
      BY <3>1, <3>2 DEF Ripe
    <3>3. CASE applied = live /\ age + state.soak >= Soak
      <4>1. PICK left \in Nat : left = state.soak
        BY <1>1, <1>2, <3>1 DEF SoakRange
      <4>2. CASE ~(left > 0)
        <5>1. age >= Soak
          BY <1>1, <3>3, <4>1, <4>2
        <5> QED
          BY <3>1, <3>3, <5>1 DEF Ripe
      <4>3. CASE FastTrackAfter # Unset /\ Soak - left >= FastTrackAfter
        <5>1. age >= FastTrackAfter
          BY <1>1, <3>3, <4>1, <4>3
        <5> QED
          BY <3>1, <3>3, <4>3, <5>1 DEF Ripe
      <4> QED
        BY <2>1, <3>1, <4>1, <4>2, <4>3
    <3> QED
      BY <3>1, <3>2, <3>3 DEF SoakInv
  <2>3. CASE CarriedSoak = Unset
    <3>1. SoakLeft = Soak
      BY <2>3 DEF SoakLeft
    <3>2. FastTrackAfter # Unset /\ 0 >= FastTrackAfter
      BY <1>1, <1>4, <2>1, <3>1
    <3>3. FastTrackAfter = 0
      BY <1>1, <3>2
    <3> QED
      BY <3>3 DEF Ripe
  <2> QED
    BY <2>2, <2>3
<1>5. CASE ~(Soak > 0)
  BY <1>1, <1>5 DEF Ripe
<1> QED
  BY <1>3, <1>4, <1>5

\* A ripe revision stays ripe through a pass that applies it again.
LEMMA RipeStays ==
    ASSUME TypeOK, Ripe(revision), GoesLive(revision), UNCHANGED <<revision, passed>>
    PROVE  Ripe(revision)'
BY DEF Ripe, GoesLive

\* The deadline carried to the same revision is as sound as it was.
LEMMA CarriedIsSound ==
    ASSUME TypeOK, SoakInv, GoesLive(revision), UNCHANGED <<revision, passed>>, applied' = revision,
           state'.soak = CarriedSoak, state'.soak # Unset
    PROVE  \/ applied' \in passed'
           \/ applied' # NoRev /\ applied' = live' /\ age' + state'.soak >= Soak
<1>1. applied = revision /\ state'.soak = state.soak /\ state.soak # Unset
  BY DEF CarriedSoak, SameRevision
<1>2. CASE applied \in passed
  BY <1>1, <1>2
<1>3. CASE applied # NoRev /\ applied = live /\ age + state.soak >= Soak
  BY <1>1, <1>3 DEF GoesLive
<1> QED
  BY <1>1, <1>2, <1>3 DEF SoakInv

\* The two halves of the soak's invariant.
DeadlineSound == state.soak # Unset =>
    \/ applied \in passed
    \/ applied # NoRev /\ applied = live /\ age + state.soak >= Soak
PhaseSound == state.phase \in {"Analyzing", "AwaitingManual"} => applied # NoRev /\ Ripe(applied)

LEMMA SoakHalves == SoakInv <=> DeadlineSound /\ PhaseSound
BY DEF SoakInv, DeadlineSound, PhaseSound

LEMMA HoldingSoak == ASSUME TypeOK, SoakInv, Holding PROVE DeadlineSound' /\ PhaseSound'
<1>1. GoesLive(revision) /\ UNCHANGED <<revision, passed>> /\ Consulted
  BY HoldingDoes DEF Unpromoted, Hold, inputVars
<1>2. revision \in Revisions /\ revision # NoRev /\ Soak \in Nat /\ live' = revision /\ age' \in 0 .. Soak
  BY <1>1, GoesLiveType, GateAssumption DEF TypeOK, GoesLive
<1>3. CASE SoakStage
  <2>1. \E f : Hold("Soaking", SoakLeft, f)
    BY <1>3 DEF SoakStage
  <2>2. applied' = revision /\ state'.phase = "Soaking" /\ state'.soak = SoakLeft
    BY <2>1, HoldWrites
  <2>3. CASE CarriedSoak # Unset
    <3>1. state'.soak = CarriedSoak
      BY <2>2, <2>3 DEF SoakLeft
    <3>2. DeadlineSound'
      BY <1>1, <2>2, <3>1, CarriedIsSound DEF DeadlineSound
    <3> QED
      BY <2>2, <3>2 DEF PhaseSound
  <2>4. CASE CarriedSoak = Unset
    <3>1. state'.soak = Soak
      BY <2>2, <2>4 DEF SoakLeft
    <3>2. \A a \in 0 .. Soak : a + Soak >= Soak
      BY <1>2
    <3> QED
      BY <1>2, <2>2, <3>1, <3>2 DEF PhaseSound, DeadlineSound
  <2> QED
    BY <2>3, <2>4
<1>4. CASE AnalyzeStage \/ AwaitManual
  <2>1. PICK fast \in {FALSE} \cup {FastTrackAfter # Unset} : Served(fast)
    BY <1>4 DEF AnalyzeStage, AwaitManual
  <2>2. fast \in BOOLEAN /\ (fast => FastTrackAfter # Unset)
    BY <2>1
  <2>3. Ripe(revision)
    BY <1>1, <2>1, <2>2, ServedIsRipe
  <2>4. Ripe(revision)'
    BY <1>1, <2>3, RipeStays
  <2>5. \E p, f : Hold(p, Unset, f)
    BY <1>4 DEF AnalyzeStage, AwaitManual
  <2>6. applied' = revision /\ state'.soak = Unset
    BY <2>5, HoldWrites
  <2>7. Ripe(applied)'
    BY <1>1, <2>4, <2>6 DEF Ripe
  <2> QED
    BY <1>2, <2>6, <2>7 DEF DeadlineSound, PhaseSound
<1> QED
  BY <1>3, <1>4 DEF Holding

LEMMA BlockingSoak == ASSUME TypeOK, SoakInv, VerdictInv, Blocking PROVE DeadlineSound' /\ PhaseSound'
<1>1. PICK f : Block(f)
  BY BlockingDoes
<1>2. revision' = revision
  BY <1>1 DEF Block, Revert, HoldBlocked, Hold, inputVars
<1>3. PhaseSound'
  BY <1>1, BlockWrites DEF PhaseSound
<1>4. CASE snapshot # NoRev /\ applied' = snapshot
  BY <1>1, <1>3, <1>4, BlockWrites DEF VerdictInv, DeadlineSound
<1>5. CASE applied' = revision /\ GoesLive(revision)
  BY <1>1, <1>2, <1>3, <1>5, BlockWrites, CarriedIsSound DEF DeadlineSound
<1> QED
  BY <1>1, <1>4, <1>5, BlockWrites

\* Time takes from the deadline what it adds to the age.
LEMMA TickSoak == ASSUME TypeOK, SoakInv, Tick PROVE DeadlineSound' /\ PhaseSound'
<1>1. UNCHANGED <<applied, live, passed>> /\ state'.phase = state.phase
  BY WorldKeeps DEF World
<1>2. PICK x \in SoakRange : x = state.soak
  BY StateFields DEF TypeOK
<1>3. state'.soak = Ticked(x)
  BY <1>2 DEF Tick, TypeOK, PromotionState
<1>4. Soak \in Nat /\ age \in 0 .. Soak /\ FastTrackAfter \in Nat \cup {Unset}
  BY GateAssumption DEF TypeOK
<1>5. age' = IF live # NoRev /\ age < Soak THEN age + 1 ELSE age
  BY DEF Tick
<1>6. age' >= age
  BY <1>4, <1>5
<1>7. ASSUME state'.soak # Unset PROVE x \in Nat /\ (live # NoRev /\ age + x >= Soak => age' + Ticked(x) >= Soak)
  <2>1. x \in Nat
    BY <1>2, <1>3, <1>4, <1>7 DEF SoakRange, Ticked, Unset
  <2> QED
    BY <1>4, <1>5, <2>1 DEF Ticked
<1>8. DeadlineSound'
  <2> SUFFICES ASSUME state'.soak # Unset
               PROVE  \/ applied' \in passed'
                      \/ applied' # NoRev /\ applied' = live' /\ age' + state'.soak >= Soak
    BY DEF DeadlineSound
  <2>1. state.soak # Unset
    BY <1>2, <1>7 DEF Unset
  <2>2. CASE applied \in passed
    BY <1>1, <2>2
  <2>3. CASE applied # NoRev /\ applied = live /\ age + state.soak >= Soak
    BY <1>1, <1>2, <1>3, <1>7, <2>3
  <2> QED
    BY <2>1, <2>2, <2>3 DEF SoakInv
<1>9. ASSUME Ripe(applied) PROVE Ripe(applied)'
  <2>1. age >= Soak => age' >= Soak
    BY <1>4, <1>5
  <2>2. FastTrackAfter # Unset /\ age >= FastTrackAfter => age' >= FastTrackAfter
    BY <1>4, <1>5
  <2> QED
    BY <1>1, <1>9, <2>1, <2>2 DEF Ripe
<1> QED
  BY <1>1, <1>8, <1>9 DEF PhaseSound, SoakInv

LEMMA SoakStep == ASSUME StatusInStep, TypeOK, VerdictInv, SoakInv, [Next]_vars PROVE SoakInv'
<1> SUFFICES DeadlineSound' /\ PhaseSound'
  BY SoakHalves DEF SoakInv, DeadlineSound, PhaseSound, Ripe
<1>1. CASE Holding
  BY <1>1, HoldingSoak
<1>2. CASE Blocking
  BY <1>2, BlockingSoak
<1>3. CASE KeepPromoted
  <2>1. applied' = revision /\ state'.phase = "Promoted" /\ passed' = passed
    BY <1>3, AdvanceWrites DEF KeepPromoted, AlreadyPromoted, TypeOK
  <2>2. revision \in passed
    BY <1>3 DEF KeepPromoted, AlreadyPromoted, SameRevision, VerdictInv
  <2> QED
    BY <2>1, <2>2 DEF DeadlineSound, PhaseSound
<1>4. CASE BreakGlass \/ PromoteStage
  BY <1>4, PromotionWrites DEF DeadlineSound, PhaseSound
<1>5. CASE Wiping
  BY <1>5, WipeWrites DEF DeadlineSound, PhaseSound
<1>6. CASE Tick
  BY <1>6, TickSoak
<1>7. CASE RequestPromotion \/ UpdateSource \/ EditGate \/ PodRestarts
  <2>1. UNCHANGED <<applied, state, live, age, passed>>
    BY <1>7 DEF RequestPromotion, UpdateSource, EditGate, PodRestarts, statusVars, historyVars
  <2> QED
    BY <2>1 DEF SoakInv, DeadlineSound, PhaseSound, Ripe
<1>8. CASE UNCHANGED vars
  BY <1>8 DEF vars, statusVars, historyVars, SoakInv, DeadlineSound, PhaseSound, Ripe
<1>9. ~Losing
  BY LosingDoes DEF StatusInStep
<1> QED
  BY <1>1, <1>2, <1>3, <1>4, <1>5, <1>6, <1>7, <1>8, <1>9, VerdictSteps DEF World, StatusInStep
-----------------------------------------------------------------------------
(* The theorems. *)

\* A promote token whose promotion was recorded never advances the stage again:
\* without a pass that wipes the status, the handled token outlives every hold,
\* interruption and lost write, and no token is older than a handled one.
THEOREM TokensSpentOnce == MemoryKept => (Spec => []GateSound)
<1> SUFFICES ASSUME MemoryKept PROVE Spec => []GateSound
  OBVIOUS
<1>1. Init => TypeOK /\ TokenInv
  BY InitType, GateAssumption DEF Init, TokenInv
<1>2. TypeOK /\ TokenInv /\ [Next]_vars => (TypeOK /\ TokenInv)'
  BY StepType, TokenStep
<1>3. TypeOK /\ TokenInv => GateSound
  <2> SUFFICES ASSUME TypeOK, TokenInv, TokenDue, token \in spent PROVE FALSE
    BY DEF GateSound, TokenOnce
  <2>1. token = handled
    BY DEF TokenInv, TypeOK
  <2> QED
    BY <2>1 DEF TokenDue, FreshToken
<1> QED
  BY <1>1, <1>2, <1>3, PTL DEF Spec

\* A revision whose revert was recorded is not applied again before an operator
\* promotes it: the parked status survives every pass, lost write and
\* interrupted check.
THEOREM RevertsHold == MemoryKept => (Spec => StaysReverted)
<1> SUFFICES ASSUME MemoryKept PROVE Spec => StaysReverted
  OBVIOUS
<1>1. Init => TypeOK /\ BannedInv
  BY InitType DEF Init, BannedInv
<1>2. TypeOK /\ BannedInv /\ [Next]_vars => (TypeOK /\ BannedInv)'
  BY StepType, BannedStep
<1>3. TypeOK /\ BannedInv /\ [Next]_vars => [ComesBack => FreshToken]_vars
  <2> SUFFICES ASSUME TypeOK, BannedInv, [Next]_vars, ComesBack, ~FreshToken PROVE FALSE
    OBVIOUS
  <2>1. Parked
    BY BannedParks DEF ComesBack
  <2>2. live' = live
    <3>1. ~Holding /\ ~Blocking
      BY <2>1, HoldingDoes, BlockingDoes DEF Consulted
    <3>2. ~KeepPromoted /\ ~BreakGlass /\ ~PromoteStage /\ ~InterruptGate /\ ~Losing
      BY <2>1, LosingDoes DEF KeepPromoted, BreakGlass, TokenDue, PromoteStage, PromotionDue, Consulted, InterruptGate
    <3>3. CASE World
      BY <3>3 DEF World, Tick, RequestPromotion, UpdateSource, EditGate, PodRestarts
    <3>4. CASE UNCHANGED vars
      BY <3>4 DEF vars
    <3> QED
      BY <3>1, <3>2, <3>3, <3>4, KeptSteps
  <2> QED
    BY <2>2 DEF ComesBack
<1> QED
  BY <1>1, <1>2, <1>3, PTL DEF Spec, StaysReverted

\* The gates never promote a stage whose pods restarted more than allowed since
\* its last recorded promotion: the baseline in the status is never taken anew in between.
THEOREM NoRestartForgotten == MemoryKept => (Spec => RestartsCharged)
<1> SUFFICES ASSUME MemoryKept PROVE Spec => RestartsCharged
  OBVIOUS
<1>1. Init => TypeOK /\ BaseInv
  <2>1. ASSUME Init PROVE state.base = anchor
    BY <2>1 DEF Init, NoState
  <2> QED
    BY <2>1, InitType DEF BaseInv
<1>2. TypeOK /\ BaseInv /\ [Next]_vars => (TypeOK /\ BaseInv)'
  BY StepType, BaseStep
<1>3. TypeOK /\ BaseInv => [PromotesCharged]_vars
  <2> SUFFICES ASSUME TypeOK, BaseInv, PromoteStage, HasRestartGate, anchor # Unset PROVE restarts - anchor <= MaxRestarts
    BY DEF PromotesCharged
  <2>1. ~RestartBreach /\ Baseline = anchor
    BY DEF PromoteStage, PromotionDue, BaseInv, Baseline
  <2>2. MaxRestarts \in Nat /\ restarts \in Nat /\ anchor \in Nat
    BY GateAssumption DEF TypeOK, HasRestartGate
  <2>3. ~(restarts - anchor > MaxRestarts)
    BY <2>1 DEF RestartBreach
  <2> QED
    BY <2>2, <2>3
<1> QED
  BY <1>1, <1>2, <1>3, PTL DEF Spec, RestartsCharged

\* The rollout advances past the stage on an earlier verdict only for a revision
\* that was promoted: a hold, a revert, a lost write or a wiped status leaves no
\* verdict, and a snapshot is of a promoted revision.
THEOREM VerdictsAreOwn == VerdictsKept => (Spec => NeverUngated)
<1> SUFFICES ASSUME VerdictsKept PROVE Spec => NeverUngated
  OBVIOUS
<1>1. Init => TypeOK /\ VerdictInv
  BY InitType DEF Init, VerdictInv, NoState
<1>2. TypeOK /\ VerdictInv /\ [Next]_vars => (TypeOK /\ VerdictInv)'
  BY StepType, VerdictStep
<1>3. TypeOK /\ VerdictInv => [KeepPromoted => revision \in passed]_vars
  BY DEF KeepPromoted, AlreadyPromoted, SameRevision, VerdictInv
<1> QED
  BY <1>1, <1>2, <1>3, PTL DEF Spec, NeverUngated

\* The gates promote a revision that was not promoted before only after it has
\* been live for its soak: no hold, revert or wiped status shortens the deadline.
THEOREM SoaksAreServed == StatusInStep => (Spec => SoakServed)
<1> SUFFICES ASSUME StatusInStep PROVE Spec => SoakServed
  OBVIOUS
<1>1. Init => TypeOK /\ VerdictInv /\ SoakInv
  <2>1. ASSUME Init PROVE VerdictInv /\ SoakInv
    BY <2>1 DEF Init, VerdictInv, SoakInv, NoState
  <2> QED
    BY <2>1, InitType
<1>2. TypeOK /\ VerdictInv /\ SoakInv /\ [Next]_vars => (TypeOK /\ VerdictInv /\ SoakInv)'
  BY StepType, VerdictStep, SoakStep DEF StatusInStep
<1>3. TypeOK /\ VerdictInv /\ SoakInv => [PromoteStage => Ripe(revision)]_vars
  <2> SUFFICES ASSUME TypeOK, SoakInv, PromoteStage PROVE Ripe(revision)
    OBVIOUS
  <2>1. PICK fast \in {FALSE} \cup {FastTrackAfter # Unset} : Served(fast)
    BY DEF PromoteStage, PromotionDue
  <2>2. fast \in BOOLEAN /\ (fast => FastTrackAfter # Unset)
    BY <2>1
  <2> QED
    BY <2>1, <2>2, ServedIsRipe DEF PromoteStage, PromotionDue
<1> QED
  BY <1>1, <1>2, <1>3, PTL DEF Spec, SoakServed

\* Whatever happens to a stage whose revision soaks, only a pass that fails or
\* waits for progress wipes the deadline; blocks, evaluations, interrupted checks
\* and lost writes leave it alone, and the gate ends it by going past the soak.
THEOREM DeadlinesKept == Spec => [][DeadlineKept]_vars
<1>1. TypeOK /\ [Next]_vars => [DeadlineKept]_vars
  <2> SUFFICES ASSUME TypeOK, [Next]_vars, state.soak # Unset, SameRevision, state' # NoState
               PROVE  PastSoak(state'.phase) \/ (state'.soak # Unset /\ state'.soak <= state.soak)
    BY DEF DeadlineKept
  <2>1. state.soak \in Nat /\ CarriedSoak = state.soak /\ SoakLeft = state.soak
    BY StateFields, Ranges, GateAssumption DEF TypeOK, SoakRange, CarriedSoak, SoakLeft
  <2>2. CASE Holding
    <3>1. CASE SoakStage
      BY <2>1, <3>1, HoldWrites DEF SoakStage
    <3>2. CASE AnalyzeStage \/ AwaitManual
      BY <3>2, HoldWrites DEF AnalyzeStage, AwaitManual, PastSoak
    <3> QED
      BY <2>2, <3>1, <3>2 DEF Holding
  <2>3. CASE Blocking
    BY <2>1, <2>3, BlockingDoes, BlockWrites
  <2>4. CASE KeepPromoted
    BY <2>4, AdvanceWrites DEF KeepPromoted, AlreadyPromoted, PastSoak, TypeOK
  <2>5. CASE BreakGlass \/ PromoteStage
    BY <2>5, PromotionWrites DEF PastSoak
  <2>6. ~Wiping
    BY DEF Wiping, FailBeforeLoop, FailStage, HoldForProgress, Status
  <2>7. CASE state' = state
    BY <2>1, <2>7
  <2>8. CASE InterruptGate \/ Losing \/ StayParked \/ UNCHANGED vars
    BY <2>7, <2>8, LosingDoes DEF InterruptGate, Status, StayParked, vars, statusVars
  <2>9. CASE Tick
    <3>1. state'.soak = Ticked(state.soak)
      BY <2>9 DEF Tick, TypeOK, PromotionState
    <3> QED
      BY <2>1, <3>1 DEF Ticked, Unset
  <2>10. CASE RequestPromotion \/ UpdateSource \/ EditGate \/ PodRestarts
    BY <2>7, <2>10 DEF RequestPromotion, UpdateSource, EditGate, PodRestarts, statusVars
  <2> QED
    BY <2>2, <2>3, <2>4, <2>5, <2>6, <2>8, <2>9, <2>10 DEF Next, Pass, Holding, Blocking, Wiping, Losing
<1> QED
  BY <1>1, InitType, StepType, PTL DEF Spec

-----------------------------------------------------------------------------
(* Version transitions: the invariants.                                    *)

\* The direction in which the boundary of m is crossed from version v.
Way(m, v) == IF m.to > v THEN "up" ELSE "down"

\* What a ledger holds belongs to the transition from version v, and what it calls
\* executed is among the completed.
LedgerInv(l, v, done) ==
    /\ v = NoVersion => l.executed = {} /\ l.actions = {}
    /\ \A e \in l.actions : \E m \in AllMigrations :
          m.to \in Versions /\ e[1] = Key(m) /\ e[2] = Way(m, v)
    /\ \A k \in l.executed : \E m \in AllMigrations :
          m.to \in Versions /\ k = Key(m) /\ <<k, Way(m, v)>> \in done

\* Plan p crosses the boundary of m on its way from version v.
Crosses(p, v, m) ==
    /\ m.to \in Versions /\ v \in Versions
    /\ IF p.downgrade THEN p.desired < m.to /\ m.to <= v /\ m.down # <<>>
                      ELSE v < m.to /\ m.to <= p.desired
    /\ DistinctNames(m.actions) /\ DistinctNames(m.down)
    /\ AnchorStage(m.stage) \in 1 .. Len(StageList)

\* A plan knows its target, and crosses on its way each boundary it names, once.
PlanSound(p, v) ==
    /\ {p.set, p.baseline, p.downgrade} \subseteq BOOLEAN
    /\ p.pending \in Seq(AllMigrations) /\ DistinctNames(p.pending)
    /\ \A i \in DOMAIN p.pending : Crosses(p, v, p.pending[i])
    /\ p.set => p.desired \in Versions /\ (v = NoVersion <=> p.baseline)
    /\ ~p.set => p.pending = <<>> /\ ~p.downgrade /\ ~p.baseline
    /\ p.downgrade => v \in Versions /\ p.desired < v
    /\ p.set /\ ~p.downgrade /\ v # NoVersion => v <= p.desired

\* What the stages behind have to run is executed.
StagesInv == \A i \in DOMAIN plan.pending :
    AnchorStage(plan.pending[i].stage) < at => Key(plan.pending[i]) \in mem.executed

\* Under approvalMode Always the pass goes to a version that was approved.
GrantInv ==
    /\ approved \in granted \cup {NoVersion}
    /\ plan.set /\ version # NoVersion /\ spec.approvalMode = "Always" /\ plan.desired # version =>
          plan.desired \in granted

\* The ledger in force.
Led == IF at = 0 THEN ledger ELSE mem

\* An action that the ledger does not know has been done only as often as a crash
\* has made it forget.
RanInv == /\ crashes \in Nat
          /\ \A k \in DOMAIN ran : /\ ran[k] \in Nat /\ ran[k] <= 1 + crashes
                                   /\ k \notin Led.actions => ran[k] <= crashes

\* The counter has seen every attempt; at the limit nothing is queued.  An edit
\* made during a pass may queue one more pass, for one more attempt.
AttemptsInv ==
    /\ attempts \in Nat /\ attempts <= Led.failures
    /\ at # 0 => mem.failures \in {0, ledger.failures} /\ (wake => attempts = 0)
    /\ \/ attempts <= 1
       \/ Led.failures < MaxMigrationFailures
       \/ at = 0 /\ ~wake /\ reason # "Succeeded" /\ attempts <= MaxMigrationFailures

\* Both ledgers, the one in the status and the one in memory.
LedgersInv == LedgerInv(ledger, version, completed) /\ LedgerInv(mem, version, completed)

TransitionInv ==
    /\ MigrationTypeOK /\ PlanSound(plan, version) /\ LedgersInv
    /\ StagesInv /\ GrantInv /\ RanInv /\ AttemptsInv

-----------------------------------------------------------------------------
\* A boundary keeps its version in every ladder that names it.
BoundariesFixed ==
    \A m, n \in AllMigrations :
        m.name = n.name /\ {m.to, n.to} \subseteq Versions => m.to = n.to

\* No valid ladder leaves a boundary out.
BoundariesStay ==
    \A l \in Ladders : ValidateLadder(l) =>
        \A m \in AllMigrations : m.to \in Versions => \E n \in ToSet(l) : n.name = m.name

Ahead(m) == m.to \in Versions /\ version \in Versions /\ m.to > version
Behind(m) == m.to \in Versions /\ version \in Versions /\ m.to <= version

AllDone(l, m, acts, way) ==
    \/ Key(m) \in l.executed
    \/ acts # <<>> /\ \A j \in DOMAIN acts : <<Key(m), way, acts[j].name>> \in l.actions

\* Another content of the boundary has just been done, and is yet to be recorded.
Superseded(m) ==
    \E i \in DOMAIN plan.pending : LET n == plan.pending[i] IN
        Current(n) /\ Left(n) = {} /\ n.name = m.name /\ Key(n) # Key(m)

UpInv == crashes = 0 =>
    \A m \in AllMigrations : Ahead(m) /\ AllDone(Led, m, m.actions, "up") /\ ~Superseded(m) =>
        content[m.name] = m.digest

DownInv == \A l \in {ledger, mem} : \A m \in AllMigrations :
    Behind(m) /\ AllDone(l, m, m.down, "down") => content[m.name] = NoAnchor

Target == RollbackDirective(spec.version)

\* What is ahead of the version belongs to a transition that goes there.
SchemaInv ==
    /\ \A m \in AllMigrations :
          m.to \in Versions /\ content[m.name] # NoAnchor /\ (version = NoVersion \/ m.to > version) =>
              version \in Versions /\ completed # {} /\ Target \in Versions /\ m.to <= Target
    /\ plan.set => plan.desired = Target
    /\ plan.downgrade => \A m \in AllMigrations :
          Behind(m) /\ m.to > plan.desired => \E i \in DOMAIN plan.pending : plan.pending[i].name = m.name

-----------------------------------------------------------------------------
(* The lists a plan is made of. *)

\* A ladder is a list of migrations with lists of actions.
LEMMA LadderShape ==
    /\ \A l \in Ladders : l \in Seq(AllMigrations) /\ ToSet(l) \subseteq AllMigrations
    /\ \A m \in AllMigrations : m.actions \in Seq(ToSet(m.actions)) /\ m.down \in Seq(ToSet(m.down))
<1>1. \A l \in Ladders : ToSet(l) \subseteq AllMigrations
  BY DEF AllMigrations
<1>2. \A l \in Ladders : l \in Seq(ToSet(l))
  BY LaddersAssumption
<1>3. \A l \in Ladders : l \in Seq(AllMigrations)
  BY <1>1, <1>2
<1> QED BY <1>1, <1>3, LaddersAssumption

\* The sorted list holds the chosen entries, each once.
LEMMA OrderedEntries ==
    ASSUME NEW ladder \in Seq(AllMigrations), \A i \in DOMAIN ladder : ladder[i].to \in Nat,
           NEW chosen \in SUBSET DOMAIN ladder, NEW ascending \in BOOLEAN
    PROVE  LET o == Ordered(ladder, chosen, ascending) IN
           /\ o \in Seq(AllMigrations)
           /\ \A k \in DOMAIN o : \E i \in chosen : o[k] = ladder[i]
           /\ \A i \in chosen : \E k \in DOMAIN o : o[k] = ladder[i]
           /\ DistinctNames(ladder) => DistinctNames(o)
<1> DEFINE before(i, j) == Before(ladder, ascending, i, j)
           ahead(i) == {j \in chosen : before(j, i)}
           rank(i) == RankOf(ladder, chosen, ascending, i)
           n == Cardinality(chosen)
           pick(k) == CHOOSE i \in chosen : rank(i) = k
           o == Ordered(ladder, chosen, ascending)
<1>1. DOMAIN ladder = 1 .. Len(ladder) /\ Len(ladder) \in Nat
  OBVIOUS
<1>2. IsFiniteSet(chosen) /\ n \in Nat
  <2>1. IsFiniteSet(DOMAIN ladder)
    BY <1>1, FS_Interval
  <2> QED BY <2>1, FS_Subset, FS_CardinalityType
<1>3. /\ \A i \in chosen : ~before(i, i)
      /\ \A i, j \in chosen : i # j => before(i, j) \/ before(j, i)
      /\ \A i, j, k \in chosen : before(i, j) /\ before(j, k) => before(i, k)
  <2> SUFFICES ASSUME NEW i \in chosen, NEW j \in chosen, NEW k \in chosen
               PROVE  /\ ~before(i, i)
                      /\ i # j => before(i, j) \/ before(j, i)
                      /\ before(i, j) /\ before(j, k) => before(i, k)
    OBVIOUS
  <2>1. {i, j, k} \subseteq Nat /\ {ladder[i].to, ladder[j].to, ladder[k].to} \subseteq Nat
    BY <1>1
  <2> QED BY <2>1 DEF Before
<1>4. ASSUME NEW i \in chosen
      PROVE  IsFiniteSet(ahead(i)) /\ Cardinality(ahead(i)) \in Nat /\ Cardinality(ahead(i)) < n
  <2>1. ahead(i) \subseteq chosen \ {i}
    BY <1>3
  <2>2. IsFiniteSet(chosen \ {i}) /\ Cardinality(chosen \ {i}) = n - 1
    BY <1>2, FS_RemoveElement
  <2>3. IsFiniteSet(ahead(i)) /\ Cardinality(ahead(i)) <= n - 1
    BY <2>1, <2>2, FS_Subset
  <2> HIDE DEF ahead
  <2> QED BY <2>3, <1>2, FS_CardinalityType
<1>5. ASSUME NEW i \in chosen, NEW j \in chosen, before(i, j)
      PROVE  rank(i) < rank(j)
  <2>1. ahead(i) \cup {i} \subseteq ahead(j) /\ i \notin ahead(i)
    BY <1>3, <1>5
  <2>2. /\ IsFiniteSet(ahead(i)) /\ Cardinality(ahead(i)) \in Nat
        /\ IsFiniteSet(ahead(j)) /\ Cardinality(ahead(j)) \in Nat
    BY <1>4
  <2>3. Cardinality(ahead(i) \cup {i}) = Cardinality(ahead(i)) + 1
    <3> HIDE DEF ahead
    <3> QED BY <2>1, <2>2, FS_AddElement
  <2>4. Cardinality(ahead(i) \cup {i}) <= Cardinality(ahead(j))
    <3> HIDE DEF ahead
    <3> QED BY <2>1, <2>2, FS_Subset
  <2>5. rank(i) = Cardinality(ahead(i)) + 1 /\ rank(j) = Cardinality(ahead(j)) + 1
    BY DEF RankOf
  <2> HIDE DEF ahead, rank
  <2> QED BY <2>2, <2>3, <2>4, <2>5
<1>6. \A i \in chosen : rank(i) \in 1 .. n
  <2> SUFFICES ASSUME NEW i \in chosen PROVE rank(i) \in 1 .. n
    OBVIOUS
  <2>1. rank(i) = Cardinality(ahead(i)) + 1
    BY DEF RankOf
  <2>2. Cardinality(ahead(i)) \in Nat /\ Cardinality(ahead(i)) < n
    BY <1>4
  <2> HIDE DEF ahead, rank
  <2> QED BY <2>1, <2>2, <1>2
<1>7. \A i, j \in chosen : rank(i) = rank(j) => i = j
  <2> SUFFICES ASSUME NEW i \in chosen, NEW j \in chosen, rank(i) = rank(j), i # j PROVE FALSE
    OBVIOUS
  <2>1. rank(i) < rank(j) \/ rank(j) < rank(i)
    <3> HIDE DEF before, rank
    <3> QED BY <1>3, <1>5
  <2>2. rank(i) \in Nat
    <3> HIDE DEF rank
    <3> QED BY <1>6
  <2> HIDE DEF rank
  <2> QED BY <2>1, <2>2
<1>8. \A k \in 1 .. n : \E i \in chosen : rank(i) = k
  <2> DEFINE f == [i \in chosen |-> rank(i)]
  <2> HIDE DEF rank
  <2>0. f \in [chosen -> 1 .. n] /\ \A i, j \in chosen : f[i] = f[j] => i = j
    BY <1>6, <1>7
  <2>1. f \in Injection(chosen, 1 .. n)
    <3> HIDE DEF f
    <3> QED BY <2>0 DEF Injection, IsInjective
  <2>2. IsFiniteSet(1 .. n) /\ Cardinality(1 .. n) = n
    BY <1>2, FS_Interval
  <2>3. f \in Surjection(chosen, 1 .. n)
    BY <2>1, <2>2, FS_Injection
  <2> QED BY <2>3 DEF Surjection
<1>9. \A k \in 1 .. n : pick(k) \in chosen /\ rank(pick(k)) = k
  <2> HIDE DEF rank
  <2> QED BY <1>8
<1>10. \A i \in chosen : pick(rank(i)) = i
  <2> HIDE DEF rank
  <2> QED BY <1>6, <1>7, <1>9
<1>11. o = [k \in 1 .. n |-> ladder[pick(k)]]
  BY DEF Ordered
<1> HIDE DEF o, pick, rank, n
<1>12. \A k \in 1 .. n : o[k] = ladder[pick(k)] /\ ladder[pick(k)] \in AllMigrations
  BY <1>9, <1>11
<1>13. o \in Seq(AllMigrations) /\ DOMAIN o = 1 .. n
  BY <1>2, <1>11, <1>12
<1>14. \A i \in chosen : \E k \in DOMAIN o : o[k] = ladder[i]
  BY <1>6, <1>10, <1>12, <1>13
<1>15. DistinctNames(ladder) => DistinctNames(o)
  BY <1>9, <1>12, <1>13 DEF DistinctNames
<1>16. \A k \in DOMAIN o : \E i \in chosen : o[k] = ladder[i]
  BY <1>9, <1>12, <1>13
<1> QED BY <1>13, <1>14, <1>15, <1>16 DEF o

Below == {ss \in Nat \X Nat : ss[1] < ss[2]}

LEMMA BelowWellFounded == IsWellFoundedOn(Below, Nat)
BY NatLessThanWellFounded DEF OpToRel, Below

LEMMA LeastNatural == ASSUME NEW T, T \subseteq Nat, T # {} PROVE \E x \in T : \A y \in T : x <= y
<1>1. PICK x \in T : \A y \in T : ~ (<<y, x>> \in Below)
  BY WFMin, BelowWellFounded
<1>2. \A y \in T : ~(y < x)
  BY <1>1 DEF Below
<1> QED
  BY <1>2

\* An anchor is a stage, or none.
LEMMA AnchorShape == ASSUME NEW ref PROVE AnchorStage(ref) \in 0 .. Len(StageList)
<1>1. Len(StageList) \in Nat /\ DOMAIN StageList = 1 .. Len(StageList) /\ Len(StageList) >= 1
  <2>1. StageList \in Seq(ToSet(StageList)) /\ StageList # <<>>
    BY MigrationAssumption
  <2> QED BY <2>1
<1>2. ASSUME NEW S \in SUBSET (1 .. Len(StageList)), S # {}
      PROVE  (CHOOSE i \in S : \A j \in S : i <= j) \in 1 .. Len(StageList)
  <2>1. S \subseteq Nat
    BY <1>1
  <2>2. \E i \in S : \A j \in S : i <= j
    BY <1>2, <2>1, LeastNatural
  <2> QED BY <2>2
<1> DEFINE labelled == {i \in DOMAIN StageList : StageList[i].migrationAnchor = ref}
           named == {i \in DOMAIN StageList : StageList[i].name = ref}
           hits == IF labelled # {} THEN labelled ELSE named
<1>3. hits \subseteq 1 .. Len(StageList)
  BY <1>1
<1>4. AnchorStage(ref) = IF ref = NoAnchor THEN 1 ELSE IF hits = {} THEN 0 ELSE CHOOSE i \in hits : \A j \in hits : i <= j
  BY DEF AnchorStage
<1> HIDE DEF hits
<1> QED BY <1>1, <1>2, <1>3, <1>4
-----------------------------------------------------------------------------
(* Planning. *)

\* A version that could be read is the one the user wrote.
LEMMA TextRead == \A o \in Texts : o.got.reason # "" \/ o.got.value = spec.version
<1> TAKE o \in Texts
<1>1. PICK r \in VersionReads : o = [fault |-> r.fault, got |-> ResolveDesiredVersion(r, spec.version)]
  BY DEF Texts
<1>2. o.got = ResolveDesiredVersion(r, spec.version)
  BY <1>1
<1>3. ResolveDesiredVersion(r, spec.version) \in {Err("transient"), Err("InvalidVersion"), Ok(spec.version)}
  BY DEF ResolveDesiredVersion, VersionFromObject, VersionFromArtifact
<1>4. /\ Err("transient").reason = "transient" /\ Err("InvalidVersion").reason = "InvalidVersion"
      /\ Ok(spec.version).value = spec.version
  BY DEF Ok, Err
<1> QED BY <1>2, <1>3, <1>4

\* A ladder that could be read is the one the user wrote, and valid.
LEMMA LadderRead == \A o \in Sources : o.got.reason # "" \/ (o.got.value = spec.ladder /\ ValidateLadder(spec.ladder))
<1> TAKE o \in Sources
<1>1. PICK r \in LadderReads : o = [fault |-> r.fault, got |-> ResolveMigrationLadder(r, spec.ladder)]
  BY DEF Sources
<1>2. o.got = ResolveMigrationLadder(r, spec.ladder)
  BY <1>1
<1> DEFINE whys == {"InvalidSpec", "RBACDenied", "transient", "ResolveFailed", "MigrationSourceNotVerified",
                    "MigrationSourceNotPinned", "MigrationArtifactInvalid"}
<1>3. \/ \E why \in whys : ResolveMigrationLadder(r, spec.ladder) = Err(why)
      \/ ResolveMigrationLadder(r, spec.ladder) = Ok(spec.ladder) /\ ValidateLadder(spec.ladder)
  <2>1. \/ SourcedLadder(r, spec.ladder) \in {Err("MigrationArtifactInvalid"), Err("InvalidSpec")}
        \/ SourcedLadder(r, spec.ladder) = Ok(spec.ladder) /\ ValidateLadder(spec.ladder)
    BY DEF SourcedLadder
  <2>2. \/ ResolveMigrationLadder(r, spec.ladder) \in {Err(why) : why \in whys}
        \/ ResolveMigrationLadder(r, spec.ladder) = SourcedLadder(r, spec.ladder)
        \/ ResolveMigrationLadder(r, spec.ladder) = Ok(spec.ladder) /\ ValidateLadder(spec.ladder)
    BY DEF ResolveMigrationLadder
  <2> QED BY <2>1, <2>2
<1>4. (\A why \in whys : Err(why).reason # "") /\ Ok(spec.ladder).value = spec.ladder
  BY DEF Ok, Err
<1> QED BY <1>2, <1>3, <1>4

\* Every ladder selected from has been validated.
LEMMA ValidEntries ==
    ASSUME NEW l \in Ladders, ValidateLadder(l)
    PROVE  /\ l \in Seq(AllMigrations) /\ DistinctNames(l)
           /\ \A i \in DOMAIN l : /\ l[i] \in AllMigrations /\ l[i].to \in Versions /\ l[i].to \in Nat
                                  /\ DistinctNames(l[i].actions) /\ DistinctNames(l[i].down)
<1>1. l \in Seq(AllMigrations)
  BY LadderShape
<1>2. \A i \in DOMAIN l : l[i].to \in Versions /\ l[i].to \in Nat
  BY MigrationAssumption DEF ValidateLadder, ValidateMigration
<1>3. \A i \in DOMAIN l : DistinctNames(l[i].actions) /\ DistinctNames(l[i].down)
  BY DEF ValidateLadder, ValidateMigration, ValidActions
<1>4. \A i \in DOMAIN l : l[i] \in AllMigrations
  BY <1>1
<1> QED BY <1>1, <1>2, <1>3, <1>4 DEF ValidateLadder

\* NoPlan and a refusal move nothing.
LEMMA NoPlanSound ==
    ASSUME NEW why, NEW v
    PROVE  PlanSound(NoPlan, v) /\ PlanSound(Refused(why), v)
BY DEF PlanSound, NoPlan, Refused, DistinctNames

\* The boundary of m lies on the way from the deployed version to des.
OnTheWay(m, des, down) ==
    /\ m.to \in Versions /\ DistinctNames(m.actions) /\ DistinctNames(m.down)
    /\ IF down THEN des < m.to /\ m.to <= version /\ m.down # <<>>
               ELSE version < m.to /\ m.to <= des

\* The selected boundaries are crossed, each once, in both directions.
LEMMA ProceedSound ==
    ASSUME NEW des \in Versions, version \in Versions, NEW down \in BOOLEAN,
           NEW todo \in Seq(AllMigrations), DistinctNames(todo),
           down => des < version, ~down => version < des,
           \A k \in DOMAIN todo : OnTheWay(todo[k], des, down)
    PROVE  /\ PlanSound(Proceed(des, down, todo), version)
           /\ Proceed(des, down, todo).set =>
                 /\ Proceed(des, down, todo).desired = des /\ Proceed(des, down, todo).downgrade = down
                 /\ Proceed(des, down, todo).pending = todo
           /\ Proceed(des, down, todo).downgrade => Proceed(des, down, todo).set
<1> DEFINE p == Proceed(des, down, todo)
<1>1. CASE \E i \in DOMAIN todo : AnchorStage(todo[i].stage) = 0
  <2>1. p = Refused("MigrationStageNotFound")
    BY <1>1 DEF Proceed
  <2>2. ~p.set /\ ~p.downgrade
    BY <2>1 DEF Refused, NoPlan
  <2> HIDE DEF p
  <2>3. PlanSound(p, version)
    BY <2>1, NoPlanSound
  <2> QED BY <2>2, <2>3 DEF p
<1>2. CASE ~ \E i \in DOMAIN todo : AnchorStage(todo[i].stage) = 0
  <2>1. p = [NoPlan EXCEPT !.set = TRUE, !.desired = des, !.downgrade = down, !.pending = todo]
    BY <1>2 DEF Proceed
  <2>2. p.set = TRUE /\ p.baseline = FALSE /\ p.downgrade = down /\ p.desired = des /\ p.pending = todo
    BY <2>1 DEF NoPlan
  <2> HIDE DEF p
  <2>3. ASSUME NEW k \in DOMAIN todo PROVE Crosses(p, version, todo[k])
    <3>1. AnchorStage(todo[k].stage) \in 1 .. Len(StageList)
      <4>1. AnchorStage(todo[k].stage) \in 0 .. Len(StageList) /\ AnchorStage(todo[k].stage) # 0
        BY <1>2, AnchorShape
      <4>2. Len(StageList) \in Nat
        BY MigrationAssumption
      <4> QED BY <4>1, <4>2
    <3>2. OnTheWay(todo[k], des, down)
      OBVIOUS
    <3> QED BY <2>2, <3>1, <3>2 DEF Crosses, OnTheWay
  <2>4. version # NoVersion /\ (~down => version <= des)
    BY MigrationAssumption
  <2>5. PlanSound(p, version)
    BY <2>2, <2>3, <2>4 DEF PlanSound
  <2> QED BY <2>2, <2>5 DEF p
<1> QED BY <1>1, <1>2

\* What a pass plans is sound, and its target is the one the user set.
LEMMA PlanShape ==
    ASSUME MigrationTypeOK, NEW o \in Outcomes
    PROVE  /\ PlanSound(o.plan, version)
           /\ o.plan.set => o.plan.desired = RollbackDirective(spec.version)
           /\ o.plan.downgrade => o.plan.set /\ ValidateLadder(spec.ladder)
                 /\ \A i \in DOMAIN spec.ladder :
                       spec.ladder[i].to > o.plan.desired /\ spec.ladder[i].to <= version =>
                           \E j \in DOMAIN o.plan.pending : o.plan.pending[j] = spec.ladder[i]
<1>1. PICK t \in Texts, l \in Sources : o.plan = PlanVersionMigrations(t.got, l.got)
  BY DEF Outcomes
<1> DEFINE des == RollbackDirective(t.got.value)
           p == PlanVersionMigrations(t.got, l.got)
<1>2. spec.ladder \in Ladders /\ version \in Versions \cup {NoVersion} /\ NoVersion \notin Versions /\ Versions \subseteq Nat
  BY MigrationAssumption DEF MigrationTypeOK, SpecType
<1>3. \A why : Refused(why).set = FALSE /\ Refused(why).downgrade = FALSE /\ PlanSound(Refused(why), version)
  BY NoPlanSound DEF Refused, NoPlan
<1>4. NoPlan.set = FALSE /\ NoPlan.downgrade = FALSE /\ PlanSound(NoPlan, version)
  BY NoPlanSound DEF NoPlan
<1>5. CASE p = NoPlan \/ \E why : p = Refused(why)
  <2> HIDE DEF p
  <2> QED BY <1>3, <1>4, <1>5, <1>1 DEF p
<1>6. CASE /\ t.got.reason = "" /\ des \in Versions
           /\ p \in {[NoPlan EXCEPT !.set = TRUE, !.desired = des, !.baseline = TRUE],
                     [NoPlan EXCEPT !.set = TRUE, !.desired = des]}
           /\ p = [NoPlan EXCEPT !.set = TRUE, !.desired = des, !.baseline = TRUE] <=> version = NoVersion
           /\ version # NoVersion => des = version
  <2>1. /\ p.set = TRUE /\ p.desired = des /\ p.downgrade = FALSE /\ p.pending = <<>>
        /\ p.baseline \in BOOLEAN /\ (p.baseline <=> version = NoVersion)
    BY <1>6 DEF NoPlan
  <2>2. des = RollbackDirective(spec.version)
    BY <1>6, TextRead
  <2> HIDE DEF p, des
  <2>3. p.set \in BOOLEAN /\ p.downgrade \in BOOLEAN /\ p.pending \in Seq(AllMigrations) /\ DOMAIN p.pending = {}
    <3>1. p.pending = <<>> /\ <<>> \in Seq(AllMigrations)
      BY <2>1
    <3>2. DOMAIN p.pending = {}
      BY <3>1
    <3>3. p.set \in BOOLEAN /\ p.downgrade \in BOOLEAN
      BY <2>1
    <3> QED BY <3>1, <3>2, <3>3
  <2>4. p.desired \in Versions /\ p.desired \in Nat /\ (version # NoVersion => p.desired = version)
    BY <2>1, <1>2, <1>6
  <2>5. PlanSound(p, version)
    BY <2>1, <2>3, <2>4 DEF PlanSound, DistinctNames
  <2> QED BY <2>1, <2>2, <2>5, <1>1 DEF p
<1>7. CASE /\ t.got.reason = "" /\ l.got.reason = "" /\ des \in Versions /\ version \in Versions /\ version < des
           /\ p = Proceed(des, FALSE, Select(l.got.value, version, des))
  <2>1. des = RollbackDirective(spec.version) /\ l.got.value = spec.ladder /\ ValidateLadder(spec.ladder)
    BY <1>7, TextRead, LadderRead
  <2> DEFINE chosen == {i \in DOMAIN spec.ladder : Fires(spec.ladder[i], version, des)}
  <2>2. chosen \subseteq DOMAIN spec.ladder /\ \A i \in chosen : version < spec.ladder[i].to /\ spec.ladder[i].to <= des
    <3>1. \A i \in DOMAIN spec.ladder : spec.ladder[i].to \in Nat
      BY <1>2, <2>1, ValidEntries
    <3> HIDE DEF des
    <3> QED BY <3>1, <1>2, <1>7 DEF Fires
  <2>3. p = Proceed(des, FALSE, Ordered(spec.ladder, chosen, TRUE))
    BY <1>7, <2>1 DEF Select
  <2> HIDE DEF p, des, chosen
  <2> DEFINE todo == Ordered(spec.ladder, chosen, TRUE)
  <2>5. /\ todo \in Seq(AllMigrations) /\ DistinctNames(todo)
        /\ \A k \in DOMAIN todo : \E i \in chosen : todo[k] = spec.ladder[i]
    <3>1. /\ spec.ladder \in Seq(AllMigrations) /\ chosen \in SUBSET DOMAIN spec.ladder /\ DistinctNames(spec.ladder)
          /\ \A i \in DOMAIN spec.ladder : spec.ladder[i].to \in Nat
      BY <1>2, <2>1, <2>2, ValidEntries
    <3> QED BY <3>1, OrderedEntries
  <2>6. \A k \in DOMAIN todo : OnTheWay(todo[k], des, FALSE)
    <3> HIDE DEF todo
    <3> QED BY <1>2, <2>1, <2>2, <2>5, ValidEntries DEF OnTheWay
  <2> HIDE DEF todo
  <2>4. /\ PlanSound(p, version) /\ (p.set => p.desired = des /\ p.downgrade = FALSE) /\ (p.downgrade => p.set)
    <3> DEFINE down == FALSE
    <3>1. p = Proceed(des, down, todo) /\ down \in BOOLEAN /\ (down => des < version) /\ (~down => version < des)
      BY <1>7, <2>3 DEF todo
    <3>2. \A k \in DOMAIN todo : OnTheWay(todo[k], des, down)
      BY <2>6
    <3>3. down = FALSE
      OBVIOUS
    <3> HIDE DEF down
    <3>4. PlanSound(p, version) /\ (p.set => p.desired = des /\ p.downgrade = down) /\ (p.downgrade => p.set)
        <4>1. des \in Versions /\ version \in Versions /\ down \in BOOLEAN
          BY <1>7, <3>1
        <4>2. todo \in Seq(AllMigrations) /\ DistinctNames(todo)
          BY <2>5
        <4>3. (down => des < version) /\ (~down => version < des)
          BY <3>1
        <4> QED BY <4>1, <4>2, <4>3, <3>1, <3>2, ProceedSound
    <3> QED BY <3>3, <3>4
  <2> QED BY <2>1, <2>4, <1>1 DEF p
<1>8. CASE /\ t.got.reason = "" /\ l.got.reason = "" /\ des \in Versions /\ version \in Versions /\ des < version
           /\ ~ \E i \in DOMAIN SelectDown(l.got.value, version, des) : SelectDown(l.got.value, version, des)[i].down = <<>>
           /\ p = Proceed(des, TRUE, SelectDown(l.got.value, version, des))
  <2>1. des = RollbackDirective(spec.version) /\ l.got.value = spec.ladder /\ ValidateLadder(spec.ladder)
    BY <1>8, TextRead, LadderRead
  <2> DEFINE chosen == {i \in DOMAIN spec.ladder : spec.ladder[i].to > des /\ spec.ladder[i].to <= version}
  <2>0. \A i \in DOMAIN spec.ladder : spec.ladder[i].to \in Nat
    BY <1>2, <2>1, ValidEntries
  <2>2. chosen \subseteq DOMAIN spec.ladder /\ \A i \in chosen : des < spec.ladder[i].to /\ spec.ladder[i].to <= version
    <3> HIDE DEF des
    <3> QED BY <2>0, <1>2, <1>8
  <2>3. SelectDown(l.got.value, version, des) = Ordered(spec.ladder, chosen, FALSE)
    BY <2>1 DEF SelectDown
  <2>4. \A i \in chosen : \E k \in DOMAIN Ordered(spec.ladder, chosen, FALSE) :
            Ordered(spec.ladder, chosen, FALSE)[k] = spec.ladder[i]
    <3>1. spec.ladder \in Seq(AllMigrations) /\ chosen \in SUBSET DOMAIN spec.ladder
      BY <1>2, <2>1, ValidEntries
    <3> HIDE DEF chosen
    <3> QED BY <3>1, <2>0, OrderedEntries
  <2> DEFINE todo == Ordered(spec.ladder, chosen, FALSE)
  <2>5. p = Proceed(des, TRUE, todo) /\ \A i \in DOMAIN todo : todo[i].down # <<>>
    <3> HIDE DEF chosen, des
    <3> QED BY <1>8, <2>3
  <2>6. \A i \in DOMAIN spec.ladder : spec.ladder[i].to > des /\ spec.ladder[i].to <= version => i \in chosen
    OBVIOUS
  <2> HIDE DEF p, des, chosen
  <2>8. /\ todo \in Seq(AllMigrations) /\ DistinctNames(todo)
        /\ \A k \in DOMAIN todo : \E i \in chosen : todo[k] = spec.ladder[i]
    <3>1. spec.ladder \in Seq(AllMigrations) /\ chosen \in SUBSET DOMAIN spec.ladder /\ DistinctNames(spec.ladder)
      BY <1>2, <2>1, <2>2, ValidEntries
    <3> QED BY <2>0, <3>1, OrderedEntries
  <2>9. \A i \in chosen : \E k \in DOMAIN todo : todo[k] = spec.ladder[i]
    BY <2>4
  <2> HIDE DEF todo
  <2>10. \A k \in DOMAIN todo : OnTheWay(todo[k], des, TRUE)
    BY <1>2, <2>1, <2>2, <2>5, <2>8, ValidEntries DEF OnTheWay
  <2>7. /\ PlanSound(p, version) /\ (p.set => p.desired = des /\ p.downgrade = TRUE /\ p.pending = todo)
        /\ (p.downgrade => p.set)
    <3> DEFINE down == TRUE
    <3>1. p = Proceed(des, down, todo) /\ down \in BOOLEAN /\ (down => des < version) /\ (~down => version < des)
      BY <1>8, <2>5
    <3>2. \A k \in DOMAIN todo : OnTheWay(todo[k], des, down)
      BY <2>10
    <3>3. down = TRUE
      OBVIOUS
    <3> HIDE DEF down
    <3>4. /\ PlanSound(p, version) /\ (p.set => p.desired = des /\ p.downgrade = down /\ p.pending = todo)
          /\ (p.downgrade => p.set)
        <4>1. des \in Versions /\ version \in Versions /\ down \in BOOLEAN
          BY <1>8, <3>1
        <4>2. todo \in Seq(AllMigrations) /\ DistinctNames(todo)
          BY <2>8
        <4>3. (down => des < version) /\ (~down => version < des)
          BY <3>1
        <4> QED BY <4>1, <4>2, <4>3, <3>1, <3>2, ProceedSound
    <3> QED BY <3>3, <3>4
  <2>11. p.downgrade => \A i \in DOMAIN spec.ladder :
            spec.ladder[i].to > p.desired /\ spec.ladder[i].to <= version =>
                \E j \in DOMAIN p.pending : p.pending[j] = spec.ladder[i]
    BY <2>6, <2>7, <2>9
  <2>12. p.set => p.desired = RollbackDirective(spec.version)
    BY <2>1, <2>7
  <2> QED BY <2>1, <2>11, <2>12, <2>7, <1>1 DEF p
<1>9. \/ p = NoPlan \/ \E why : p = Refused(why)
      \/ /\ t.got.reason = "" /\ des \in Versions /\ version = NoVersion
         /\ p = [NoPlan EXCEPT !.set = TRUE, !.desired = des, !.baseline = TRUE]
      \/ /\ t.got.reason = "" /\ des \in Versions /\ version # NoVersion /\ des = version
         /\ p = [NoPlan EXCEPT !.set = TRUE, !.desired = des]
      \/ /\ t.got.reason = "" /\ l.got.reason = "" /\ des \in Versions /\ version # NoVersion /\ ~(des < version) /\ des # version
         /\ p = Proceed(des, FALSE, Select(l.got.value, version, des))
      \/ /\ t.got.reason = "" /\ l.got.reason = "" /\ des \in Versions /\ version # NoVersion /\ des < version
         /\ ~ \E i \in DOMAIN SelectDown(l.got.value, version, des) : SelectDown(l.got.value, version, des)[i].down = <<>>
         /\ p = Proceed(des, TRUE, SelectDown(l.got.value, version, des))
  <2> HIDE DEF des
  <2> QED BY DEF PlanVersionMigrations, PlanUpgrade, PlanDowngrade, des
<1> DEFINE done == [NoPlan EXCEPT !.set = TRUE, !.desired = des]
           baseline == [NoPlan EXCEPT !.set = TRUE, !.desired = des, !.baseline = TRUE]
<1>10. done # baseline
  <2>1. done.baseline = FALSE /\ baseline.baseline = TRUE
    BY DEF NoPlan
  <2> QED BY <2>1
<1>11. \A d \in Versions : version \in Versions /\ ~(d < version) /\ d # version => version < d
  BY <1>2
<1>12. version # NoVersion => version \in Versions
  BY <1>2
<1> HIDE DEF p, des, done, baseline
<1>13. CASE t.got.reason = "" /\ des \in Versions /\ version = NoVersion /\ p = baseline
  BY <1>6, <1>13, Zenon DEF done, baseline
<1>14. CASE t.got.reason = "" /\ des \in Versions /\ version # NoVersion /\ des = version /\ p = done
  BY <1>6, <1>10, <1>14, Zenon DEF done, baseline
<1>15. CASE /\ t.got.reason = "" /\ l.got.reason = "" /\ des \in Versions /\ version # NoVersion
            /\ ~(des < version) /\ des # version
            /\ p = Proceed(des, FALSE, Select(l.got.value, version, des))
  BY <1>7, <1>11, <1>12, <1>15, Zenon
<1>16. CASE /\ t.got.reason = "" /\ l.got.reason = "" /\ des \in Versions /\ version # NoVersion
            /\ des < version
            /\ ~ \E i \in DOMAIN SelectDown(l.got.value, version, des) :
                    SelectDown(l.got.value, version, des)[i].down = <<>>
            /\ p = Proceed(des, TRUE, SelectDown(l.got.value, version, des))
  BY <1>8, <1>12, <1>16, Zenon
<1> QED BY <1>5, <1>9, <1>13, <1>14, <1>15, <1>16, Zenon DEF done, baseline

-----------------------------------------------------------------------------
(* The steps, as the invariants see them. *)

\* Migrations, their keys and their actions' names are in their types.
LEMMA NamesInRange ==
    ASSUME NEW m \in AllMigrations
    PROVE  /\ Key(m) \in Keys
           /\ \A j \in DOMAIN m.actions : m.actions[j].name \in ActionNames
           /\ \A j \in DOMAIN m.down : m.down[j].name \in ActionNames
<1>1. m.actions \in Seq(ToSet(m.actions)) /\ m.down \in Seq(ToSet(m.down))
  BY LadderShape
<1>2. \A j \in DOMAIN m.actions : m.actions[j] \in ToSet(m.actions)
  BY <1>1
<1>3. \A j \in DOMAIN m.down : m.down[j] \in ToSet(m.down)
  BY <1>1
<1> QED BY <1>2, <1>3 DEF Keys, ActionNames

\* A planned migration is crossed in the direction of the move.
LEMMA PlannedMigration ==
    ASSUME PlanSound(plan, version), NEW i \in DOMAIN plan.pending
    PROVE  LET m == plan.pending[i] IN
           /\ m \in AllMigrations /\ m \in ToSet(plan.pending) /\ i \in Nat
           /\ m.to \in Versions /\ version \in Versions /\ Way(m, version) = Direction
           /\ Direction \in {"up", "down"} /\ Key(m) \in Keys
           /\ \A j \in DOMAIN Acts(m) : Acts(m)[j].name \in ActionNames
           /\ DistinctNames(Acts(m)) /\ Acts(m) \in Seq(ToSet(Acts(m)))
           /\ AnchorStage(m.stage) \in 1 .. Len(StageList)
           /\ plan.downgrade => Acts(m) # <<>>
<1> DEFINE m == plan.pending[i]
<1>1. m \in AllMigrations /\ i \in Nat /\ plan.downgrade \in BOOLEAN /\ Crosses(plan, version, m)
  BY DEF PlanSound
<1>2. m.to \in Nat /\ version \in Nat
  BY <1>1, MigrationAssumption DEF Crosses
<1>3. m \in ToSet(plan.pending)
  BY DEF PlanSound, ToSet
<1> HIDE DEF m
<1>4. Way(m, version) = Direction /\ Direction \in {"up", "down"}
  BY <1>1, <1>2 DEF Way, Direction, Crosses
<1>5. DistinctNames(Acts(m)) /\ Acts(m) \in Seq(ToSet(Acts(m))) /\ (plan.downgrade => Acts(m) # <<>>)
  BY <1>1, LadderShape DEF Acts, Crosses
<1>6. Key(m) \in Keys /\ \A j \in DOMAIN Acts(m) : Acts(m)[j].name \in ActionNames
  BY <1>1, NamesInRange DEF Acts
<1> QED BY <1>1, <1>3, <1>4, <1>5, <1>6 DEF Crosses, m

LEMMA PlannedSet ==
    ASSUME PlanSound(plan, version), NEW m \in ToSet(plan.pending)
    PROVE  \E i \in DOMAIN plan.pending : m = plan.pending[i]
BY DEF PlanSound, ToSet

\* What an edit does to the invariants' variables.
LEMMA UserFrame ==
    ASSUME MigrationTypeOK, User
    PROVE  /\ wake' = TRUE /\ attempts' = 0
           /\ UNCHANGED <<transitionStatus, passVars, content, ran, completed, crashes>>
           /\ spec' \in SpecType /\ spec'.approvalMode = spec.approvalMode
           /\ approved' \in Versions \cup {NoVersion} /\ rollbackTo' \in Versions \cup {NoVersion}
           /\ requested' \in BOOLEAN
           /\ granted \subseteq granted' /\ approved' \in granted' \cup {approved}
           /\ ~EditsInFlight /\ InFlight => spec'.version = spec.version /\ rollbackTo' = rollbackTo
<1>1. spec \in SpecType /\ approved \in Versions \cup {NoVersion} /\ rollbackTo \in Versions \cup {NoVersion}
      /\ requested \in BOOLEAN
  BY DEF MigrationTypeOK
<1>2. User => Edit
  BY DEF User, SetVersion, SetLadder, Approve, DirectRollback, RequestReconcile
<1>3. CASE SetVersion
  BY <1>1, <1>2, <1>3 DEF SetVersion, SpecType, Edit
<1>4. CASE SetLadder
  BY <1>1, <1>2, <1>4 DEF SetLadder, SpecType, Edit
<1>5. CASE Approve
  BY <1>1, <1>2, <1>5 DEF Approve, Edit
<1>6. CASE DirectRollback
  BY <1>1, <1>2, <1>6 DEF DirectRollback, Edit
<1>7. CASE RequestReconcile
  BY <1>1, <1>2, <1>7 DEF RequestReconcile, Edit
<1> QED BY <1>3, <1>4, <1>5, <1>6, <1>7 DEF User

\* A pass that does not get past its planning changes little ...
Stopped(p) ==
    /\ wake' = TRUE /\ UNCHANGED <<version, passVars>>
    /\ ledger' \in {ledger, ClearedLedger} /\ requested' \in BOOLEAN
    /\ pending' \in PendingType

\* ... and one that does works on a sound plan with the ledgers of the status.
LEMMA StartFrame ==
    ASSUME MigrationTypeOK, StartPass
    PROVE  /\ at = 0 /\ wake /\ attempts' = (IF requested THEN 0 ELSE attempts)
           /\ UNCHANGED <<spec, approved, rollbackTo, content, ran, completed, granted, crashes>>
           /\ \E o \in Outcomes : Stopped(o.plan) \/ PlanProceeds(o.plan)
<1>1. /\ at = 0 /\ wake /\ attempts' = (IF requested THEN 0 ELSE attempts)
      /\ UNCHANGED <<spec, approved, rollbackTo, content, ran, completed, granted, crashes>>
  BY DEF StartPass
<1>2. PICK o \in Outcomes : \/ PlanTransient(o.plan)
                            \/ PlanRefused(o.plan)
                            \/ PlanHeld(o.plan)
                            \/ PlanProceeds(o.plan)
  BY DEF StartPass
<1>3. PlanSound(o.plan, version)
  BY PlanShape
<1>4. PendingDetails(o.plan) \subseteq Keys
  BY <1>3, NamesInRange DEF PlanSound, PendingDetails
<1>5. pending \in PendingType /\ requested \in BOOLEAN
  BY DEF MigrationTypeOK
<1>6. ASSUME PlanTransient(o.plan) PROVE Stopped(o.plan)
  BY <1>5, <1>6 DEF PlanTransient, Stopped, transitionStatus, passVars
<1>7. ASSUME PlanRefused(o.plan) PROVE Stopped(o.plan)
  BY <1>5, <1>7 DEF PlanRefused, Stopped, passVars
<1>8. ASSUME PlanHeld(o.plan) PROVE Stopped(o.plan)
  <2>1. o.plan.desired \in Versions
    BY <1>3, <1>8 DEF PlanHeld, ApprovalNeeded, PlanSound
  <2> QED BY <1>4, <1>8, <2>1 DEF PlanHeld, Stopped, PendingType, passVars
<1> QED BY <1>1, <1>2, <1>6, <1>7, <1>8

\* The pass does the j-th action of m ...
Acting(m, j) ==
    LET e == Entry(m, Acts(m)[j]) IN
    /\ Current(m) /\ e \notin mem.actions /\ j \in Left(m)
    /\ mem' = [mem EXCEPT !.actions = @ \cup {e}] /\ ran' = Tally(e)
    /\ content' = (IF Left(m) = {j} THEN Crossed(m) ELSE content)
    /\ completed' = (IF Left(m) = {j} THEN completed \cup {<<Key(m), Direction>>} ELSE completed)
    /\ UNCHANGED <<userVars, transitionStatus, wake, plan, at, granted, attempts, crashes>>

\* ... or records m as executed.
Completing(m) ==
    LET with == [mem EXCEPT !.executed = @ \cup {Key(m)}] IN
    /\ Current(m) /\ Left(m) = {}
    /\ mem' = (IF plan.downgrade THEN with ELSE PruneSupersededLedger(with, m))
    /\ content' = (IF Acts(m) = <<>> THEN Crossed(m) ELSE content)
    /\ completed' = completed \cup {<<Key(m), Direction>>}
    /\ ran' = Restrict(ran, {k \in DOMAIN ran : k[1][1] # m.name \/ k[1] = Key(m)})
    /\ UNCHANGED <<userVars, transitionStatus, wake, plan, at, granted, attempts, crashes>>

\* The migration a pass executes is a planned one.
LEMMA ActingFrame ==
    ASSUME MigrationTypeOK, PlanSound(plan, version), RunMigrationAction
    PROVE  \E i \in DOMAIN plan.pending : \E j \in DOMAIN Acts(plan.pending[i]) : Acting(plan.pending[i], j)
<1>1. PICK m \in ToSet(plan.pending) : \E j \in Left(m) : j \in DOMAIN Acts(m) /\ Acting(m, j)
  <2>1. \A m : \A j \in Left(m) : j \in DOMAIN Acts(m) /\ Entry(m, Acts(m)[j]) \notin mem.actions
    BY DEF Left
  <2> QED BY <2>1 DEF RunMigrationAction, Acting, boundVars
<1>2. PICK i \in DOMAIN plan.pending : m = plan.pending[i]
  BY PlannedSet
<1> QED BY <1>1, <1>2

LEMMA CompletingFrame ==
    ASSUME MigrationTypeOK, PlanSound(plan, version), CompleteMigration
    PROVE  \E i \in DOMAIN plan.pending : Completing(plan.pending[i])
<1>1. PICK m \in ToSet(plan.pending) : Completing(m)
  BY DEF CompleteMigration, Completing, boundVars
<1>2. PICK i \in DOMAIN plan.pending : m = plan.pending[i]
  BY PlannedSet
<1> QED BY <1>1, <1>2

\* How a pass ends.
LEMMA EndFrame ==
    ASSUME FailMigrationAction \/ StageFails \/ Crash \/ Commit
    PROVE  /\ at # 0 /\ at' = 0 /\ plan' = NoPlan /\ mem' = EmptyLedger
           /\ UNCHANGED <<userVars, content, granted>>
<1>1. Len(StageList) # 0
  BY MigrationAssumption
<1> QED BY <1>1 DEF FailMigrationAction, StageFails, Crash, Commit, FailTransition, EndPass, Current, transitionHistory

-----------------------------------------------------------------------------
(* The transition invariant is inductive. *)

\* Nothing the invariant speaks of has changed.
LEMMA TransitionUnchanged ==
    ASSUME TransitionInv, UNCHANGED migrationVars PROVE TransitionInv'
BY DEF TransitionInv, MigrationTypeOK, PlanSound, Crosses, LedgersInv, LedgerInv, StagesInv, GrantInv, RanInv,
       AttemptsInv, Led, migrationVars, userVars, transitionStatus, passVars, transitionHistory, boundVars

LEMMA EmptyLedgerShape ==
    /\ EmptyLedger \in LedgerType /\ EmptyLedger.failures = 0
    /\ \A v, done : LedgerInv(EmptyLedger, v, done)
BY DEF EmptyLedger, LedgerType, LedgerInv

LEMMA ClearedLedgerShape ==
    ASSUME ledger \in LedgerType, requested \in BOOLEAN
    PROVE  /\ ClearedLedger \in LedgerType
           /\ ClearedLedger.executed = ledger.executed /\ ClearedLedger.actions = ledger.actions
           /\ ClearedLedger.failures = (IF requested THEN 0 ELSE ledger.failures)
           /\ \A v, done : LedgerInv(ledger, v, done) => LedgerInv(ClearedLedger, v, done)
BY DEF ClearedLedger, LedgerType, LedgerInv

\* No plan, nothing to check.
LEMMA Planless ==
    ASSUME NEW v
    PROVE  PlanSound(NoPlan, v) /\ NoPlan.set = FALSE /\ DOMAIN NoPlan.pending = {} /\ NoPlan.downgrade = FALSE
<1>1. PlanSound(NoPlan, v)
  BY NoPlanSound
<1>2. NoPlan.set = FALSE /\ NoPlan.downgrade = FALSE /\ NoPlan.pending = <<>>
  BY DEF NoPlan
<1> QED BY <1>1, <1>2

LEMMA UserKeeps == ASSUME TransitionInv, User PROVE TransitionInv'
<1>1. MigrationTypeOK
  BY DEF TransitionInv
<1> USE UserFrame, <1>1
<1>2. MigrationTypeOK'
  BY DEF MigrationTypeOK, transitionStatus, passVars
<1>3. PlanSound(plan, version)'
  BY DEF TransitionInv, PlanSound, Crosses, transitionStatus, passVars
<1>4. LedgersInv'
  BY DEF TransitionInv, LedgersInv, LedgerInv, transitionStatus, passVars
<1>5. StagesInv'
  BY DEF TransitionInv, StagesInv, passVars
<1>6. GrantInv'
  BY DEF TransitionInv, GrantInv, passVars, transitionStatus
<1>7. RanInv'
  BY DEF TransitionInv, RanInv, Led, passVars, transitionStatus
<1>8. AttemptsInv'
  <2>1. Led' = Led /\ Led.failures \in Nat /\ attempts' = 0 /\ UNCHANGED <<at, mem, ledger>>
    BY DEF MigrationTypeOK, LedgerType, Led, passVars, transitionStatus
  <2> QED BY <2>1 DEF TransitionInv, AttemptsInv
<1> QED BY <1>2, <1>3, <1>4, <1>5, <1>6, <1>7, <1>8 DEF TransitionInv

LEMMA StartKeeps == ASSUME TransitionInv, StartPass PROVE TransitionInv'
<1>1. MigrationTypeOK
  BY DEF TransitionInv
<1>2. /\ at = 0 /\ wake /\ attempts' = (IF requested THEN 0 ELSE attempts)
      /\ UNCHANGED <<spec, approved, rollbackTo, content, ran, completed, granted, crashes>>
  BY <1>1, StartFrame
<1>3. PICK o \in Outcomes : Stopped(o.plan) \/ PlanProceeds(o.plan)
  BY <1>1, StartFrame
<1>4. /\ ledger \in LedgerType /\ mem = EmptyLedger /\ plan = NoPlan /\ requested \in BOOLEAN
      /\ version \in Versions \cup {NoVersion} /\ ClearedLedger \in LedgerType
  BY <1>1, <1>2, ClearedLedgerShape DEF MigrationTypeOK
<1>5. CASE Stopped(o.plan)
  <2>1. /\ wake' = TRUE /\ version' = version /\ plan' = NoPlan /\ at' = 0 /\ mem' = EmptyLedger
        /\ ledger' \in LedgerType /\ ledger'.actions = ledger.actions /\ ledger'.executed = ledger.executed
        /\ ledger'.failures \in {ledger.failures, IF requested THEN 0 ELSE ledger.failures}
        /\ requested' \in BOOLEAN /\ pending' \in PendingType
        /\ LedgerInv(ledger, version, completed) => LedgerInv(ledger', version, completed)
    BY <1>2, <1>4, <1>5, ClearedLedgerShape DEF Stopped, passVars
  <2>2. MigrationTypeOK'
    BY <1>1, <1>2, <2>1, Len(StageList) \in Nat, EmptyLedgerShape DEF MigrationTypeOK
  <2>3. PlanSound(plan, version)'
    BY <2>1, Planless
  <2>4. LedgersInv'
    BY <1>2, <2>1, EmptyLedgerShape DEF TransitionInv, LedgersInv, LedgerInv
  <2>5. StagesInv'
    BY <2>1, Planless DEF StagesInv
  <2>6. GrantInv'
    BY <1>2, <2>1, Planless DEF TransitionInv, GrantInv
  <2>7. RanInv'
    BY <1>2, <2>1 DEF TransitionInv, RanInv, Led
  <2>8. AttemptsInv'
    BY <1>2, <1>4, <2>1, MigrationAssumption DEF TransitionInv, AttemptsInv, Led, LedgerType
  <2> QED BY <2>2, <2>3, <2>4, <2>5, <2>6, <2>7, <2>8 DEF TransitionInv
<1>6. CASE PlanProceeds(o.plan)
  <2>1. /\ wake' = FALSE /\ requested' = FALSE /\ at' = 1 /\ mem' = ClearedLedger /\ plan' = o.plan
        /\ UNCHANGED <<version, ledger, pending, reason>>
    BY <1>6 DEF PlanProceeds, transitionStatus
  <2>2. /\ mem'.executed = ledger.executed /\ mem'.actions = ledger.actions /\ mem' \in LedgerType
        /\ mem'.failures = (IF requested THEN 0 ELSE ledger.failures)
        /\ LedgerInv(ledger, version, completed) => LedgerInv(mem', version, completed)
    BY <1>4, <2>1, ClearedLedgerShape
  <2>3. PlanSound(plan', version')
    BY <1>1, <2>1, PlanShape
  <2>4. Len(StageList) \in Nat /\ Len(StageList) >= 1
    BY MigrationAssumption
  <2>5. MigrationTypeOK'
    <3>1. at' \in 0 .. Len(StageList) /\ at' # 0
      BY <2>1, <2>4
    <3> QED BY <1>1, <1>2, <2>1, <2>2, <3>1 DEF MigrationTypeOK
  <2>6. LedgersInv'
    BY <1>2, <2>1, <2>2 DEF TransitionInv, LedgersInv, LedgerInv
  <2>7. StagesInv'
    <3>1. \A i \in DOMAIN plan'.pending : AnchorStage(plan'.pending[i].stage) \in 1 .. Len(StageList)
      BY <2>3 DEF PlanSound, Crosses
    <3> QED BY <2>1, <2>4, <3>1 DEF StagesInv
  <2>8. GrantInv'
    <3>1. approved \in granted \cup {NoVersion}
      BY DEF TransitionInv, GrantInv
    <3>2. ASSUME plan'.set, version # NoVersion, spec.approvalMode = "Always", plan'.desired # version
          PROVE  plan'.desired \in granted
      <4>1. plan'.desired \in Versions /\ ~plan'.baseline
        BY <2>1, <2>3, <3>2 DEF PlanSound
      <4>2. ApprovalNeeded(o.plan)
        BY <2>1, <3>2, <4>1 DEF ApprovalNeeded
      <4>3. approved = plan'.desired
        BY <1>6, <2>1, <4>2 DEF PlanProceeds
      <4> QED BY <3>1, <4>1, <4>3, MigrationAssumption
    <3> QED BY <1>2, <2>1, <3>1, <3>2 DEF GrantInv
  <2>9. RanInv'
    BY <1>2, <2>1, <2>2 DEF TransitionInv, RanInv, Led
  <2>10. AttemptsInv'
    BY <1>2, <1>4, <2>1, <2>2, MigrationAssumption DEF TransitionInv, AttemptsInv, Led, LedgerType
  <2> QED BY <2>3, <2>5, <2>6, <2>7, <2>8, <2>9, <2>10 DEF TransitionInv
<1> QED BY <1>3, <1>5, <1>6

LEMMA ActKeeps == ASSUME TransitionInv, RunMigrationAction PROVE TransitionInv'
<1>1. MigrationTypeOK /\ PlanSound(plan, version)
  BY DEF TransitionInv
<1>2. PICK i \in DOMAIN plan.pending : \E j \in DOMAIN Acts(plan.pending[i]) : Acting(plan.pending[i], j)
  BY <1>1, ActingFrame
<1> DEFINE m == plan.pending[i]
<1>3. PICK j \in DOMAIN Acts(m) : Acting(m, j)
  BY <1>2
<1> DEFINE e == Entry(m, Acts(m)[j])
<1>4. /\ m \in AllMigrations /\ m.to \in Versions /\ version \in Versions /\ Way(m, version) = Direction
      /\ Direction \in {"up", "down"} /\ Key(m) \in Keys /\ Acts(m)[j].name \in ActionNames
  BY <1>1, PlannedMigration
<1>5. e = <<Key(m), Direction, Acts(m)[j].name>>
  BY DEF Entry
<1> HIDE DEF m, e
<1>6. e \in Keys \X {"up", "down"} \X ActionNames
  BY <1>4, <1>5
<1>7. /\ mem \in LedgerType /\ mem' = [mem EXCEPT !.actions = @ \cup {e}] /\ e \notin mem.actions
      /\ ran' = Tally(e) /\ completed \subseteq completed' /\ at # 0
      /\ UNCHANGED <<spec, approved, rollbackTo, requested, version, ledger, pending, reason, wake, plan, at, granted,
                     attempts, crashes>>
  BY <1>1, <1>3 DEF Acting, MigrationTypeOK, userVars, transitionStatus, Current, e, m
<1>8. /\ mem' \in LedgerType /\ mem'.actions = mem.actions \cup {e} /\ mem'.executed = mem.executed
      /\ mem'.failures = mem.failures
  BY <1>6, <1>7 DEF LedgerType
<1>9. MigrationTypeOK'
  BY <1>1, <1>7, <1>8 DEF MigrationTypeOK
<1>10. PlanSound(plan, version)'
  BY <1>1, <1>7 DEF PlanSound, Crosses
<1>11. LedgersInv'
  <2>1. version # NoVersion
    BY <1>4, MigrationAssumption
  <2>2. LedgerInv(ledger, version, completed')
    BY <1>7 DEF TransitionInv, LedgersInv, LedgerInv
  <2>3. LedgerInv(mem', version, completed')
    <3>1. ASSUME NEW x \in mem'.actions
          PROVE  \E n \in AllMigrations : n.to \in Versions /\ x[1] = Key(n) /\ x[2] = Way(n, version)
      <4>1. CASE x \in mem.actions
        BY <4>1 DEF TransitionInv, LedgersInv, LedgerInv
      <4>2. CASE x = e
        BY <1>4, <1>5, <4>2
      <4> QED BY <1>8, <3>1, <4>1, <4>2
    <3>2. \A k \in mem'.executed : \E n \in AllMigrations :
              n.to \in Versions /\ k = Key(n) /\ <<k, Way(n, version)>> \in completed'
      BY <1>7, <1>8 DEF TransitionInv, LedgersInv, LedgerInv
    <3> QED BY <2>1, <3>1, <3>2 DEF LedgerInv
  <2> QED BY <1>7, <2>2, <2>3 DEF LedgersInv
<1>12. StagesInv'
  BY <1>7, <1>8 DEF TransitionInv, StagesInv
<1>13. GrantInv'
  BY <1>7 DEF TransitionInv, GrantInv
<1>14. RanInv'
  <2>1. crashes \in Nat /\ \A k \in DOMAIN ran : /\ ran[k] \in Nat /\ ran[k] <= 1 + crashes
                                                 /\ k \notin mem.actions => ran[k] <= crashes
    BY <1>7 DEF TransitionInv, RanInv, Led
  <2>2. /\ DOMAIN ran' = DOMAIN ran \cup {e}
        /\ ran'[e] = Count(e) + 1
        /\ \A k \in DOMAIN ran : k # e => ran'[k] = ran[k]
    BY <1>7 DEF Tally
  <2>3. Count(e) \in Nat /\ Count(e) <= crashes
    BY <1>7, <2>1 DEF Count
  <2>4. ASSUME NEW k \in DOMAIN ran'
        PROVE  ran'[k] \in Nat /\ ran'[k] <= 1 + crashes /\ (k \notin mem'.actions => ran'[k] <= crashes)
    BY <1>8, <2>1, <2>2, <2>3
  <2> QED BY <1>7, <2>1, <2>4 DEF RanInv, Led
<1>15. AttemptsInv'
  BY <1>7, <1>8 DEF TransitionInv, AttemptsInv, Led
<1> QED BY <1>9, <1>10, <1>11, <1>12, <1>13, <1>14, <1>15 DEF TransitionInv

LEMMA CompleteKeeps == ASSUME TransitionInv, CompleteMigration PROVE TransitionInv'
<1>1. MigrationTypeOK /\ PlanSound(plan, version)
  BY DEF TransitionInv
<1>2. PICK i \in DOMAIN plan.pending : Completing(plan.pending[i])
  BY <1>1, CompletingFrame
<1> DEFINE m == plan.pending[i]
           with == [mem EXCEPT !.executed = @ \cup {Key(m)}]
           kept(k) == k[1] # m.name \/ k = Key(m)
<1>3. /\ m \in AllMigrations /\ m.to \in Versions /\ version \in Versions /\ Way(m, version) = Direction
      /\ Key(m) \in Keys
  BY <1>1, PlannedMigration
<1>4. /\ mem \in LedgerType /\ at # 0
      /\ UNCHANGED <<spec, approved, rollbackTo, requested, version, ledger, pending, reason, wake, plan, at, granted,
                     attempts, crashes>>
  BY <1>1, <1>2 DEF Completing, MigrationTypeOK, userVars, transitionStatus, Current
<1>5. /\ with \in LedgerType /\ with.actions = mem.actions /\ with.executed = mem.executed \cup {Key(m)}
      /\ with.failures = mem.failures
  <2> HIDE DEF m
  <2> QED BY <1>3, <1>4 DEF LedgerType
<1>6. /\ mem' \in LedgerType /\ mem'.failures = mem.failures
      /\ mem'.actions \subseteq mem.actions /\ mem'.executed \subseteq mem.executed \cup {Key(m)}
      /\ \A x \in mem.actions : kept(x[1]) => x \in mem'.actions
      /\ \A k \in mem.executed \cup {Key(m)} : kept(k) => k \in mem'.executed
  <2>1. CASE plan.downgrade
    <3>1. mem' = with
      BY <1>2, <2>1 DEF Completing
    <3> HIDE DEF with, m
    <3> QED BY <1>5, <3>1
  <2>2. CASE ~plan.downgrade
    <3>1. mem' = PruneSupersededLedger(with, m)
      BY <1>2, <2>2 DEF Completing
    <3> HIDE DEF with, m
    <3>2. /\ mem'.failures = with.failures
          /\ mem'.executed = {k \in with.executed : k[1] # m.name \/ k = Key(m)}
          /\ mem'.actions = {x \in with.actions : x[1][1] # m.name \/ x[1] = Key(m)}
          /\ mem' \in LedgerType
      BY <1>5, <3>1 DEF PruneSupersededLedger, LedgerType
    <3> QED BY <1>5, <3>2
  <2> QED BY <2>1, <2>2
<1>7. completed' = completed \cup {<<Key(m), Direction>>}
  BY <1>2 DEF Completing
<1>8. ran' = [k \in {x \in DOMAIN ran : kept(x[1])} |-> ran[k]]
  BY <1>2 DEF Completing, Restrict
<1> HIDE DEF m, with
<1>9. MigrationTypeOK'
  BY <1>1, <1>4, <1>6 DEF MigrationTypeOK
<1>10. PlanSound(plan, version)'
  BY <1>1, <1>4 DEF PlanSound, Crosses
<1>11. LedgersInv'
  <2>1. version # NoVersion
    BY <1>3, MigrationAssumption
  <2>2. LedgerInv(ledger, version, completed')
    BY <1>7 DEF TransitionInv, LedgersInv, LedgerInv
  <2>3. ASSUME NEW k \in mem'.executed
        PROVE  \E n \in AllMigrations : n.to \in Versions /\ k = Key(n) /\ <<k, Way(n, version)>> \in completed'
    <3>1. CASE k \in mem.executed
      BY <1>7, <3>1 DEF TransitionInv, LedgersInv, LedgerInv
    <3>2. CASE k = Key(m)
      BY <1>3, <1>7, <3>2
    <3> QED BY <1>6, <2>3, <3>1, <3>2
  <2>4. \A x \in mem'.actions : \E n \in AllMigrations :
            n.to \in Versions /\ x[1] = Key(n) /\ x[2] = Way(n, version)
    BY <1>6 DEF TransitionInv, LedgersInv, LedgerInv
  <2> QED BY <1>4, <2>1, <2>2, <2>3, <2>4 DEF LedgersInv, LedgerInv
<1>12. StagesInv'
  <2>1. ASSUME NEW k \in DOMAIN plan.pending, Key(plan.pending[k]) \in mem.executed
        PROVE  Key(plan.pending[k]) \in mem'.executed
    <3>1. plan.pending[k].name = m.name => k = i
      BY <1>1 DEF m, PlanSound, DistinctNames
    <3>2. kept(Key(plan.pending[k]))
      BY <3>1 DEF Key, m
    <3> QED BY <1>6, <2>1, <3>2
  <2> QED BY <1>4, <2>1 DEF TransitionInv, StagesInv
<1>13. GrantInv'
  BY <1>4 DEF TransitionInv, GrantInv
<1>14. RanInv'
  <2>1. crashes \in Nat /\ \A k \in DOMAIN ran : /\ ran[k] \in Nat /\ ran[k] <= 1 + crashes
                                                 /\ k \notin mem.actions => ran[k] <= crashes
    BY <1>4 DEF TransitionInv, RanInv, Led
  <2>2. ASSUME NEW k \in DOMAIN ran'
        PROVE  ran'[k] \in Nat /\ ran'[k] <= 1 + crashes /\ (k \notin mem'.actions => ran'[k] <= crashes)
    <3>1. k \in DOMAIN ran /\ kept(k[1]) /\ ran'[k] = ran[k]
      BY <1>8
    <3> QED BY <1>6, <2>1, <3>1
  <2> QED BY <1>4, <2>1, <2>2 DEF RanInv, Led
<1>15. AttemptsInv'
  BY <1>4, <1>6 DEF TransitionInv, AttemptsInv, Led
<1> QED BY <1>9, <1>10, <1>11, <1>12, <1>13, <1>14, <1>15 DEF TransitionInv

\* At the end of a stage, what it and the stages before it had to run is executed.
LEMMA StageDone ==
    ASSUME TransitionInv, at # 0, ~Migrating, NEW i \in DOMAIN plan.pending,
           AnchorStage(plan.pending[i].stage) <= at
    PROVE  Key(plan.pending[i]) \in mem.executed
<1>1. at \in Nat /\ AnchorStage(plan.pending[i].stage) \in Nat
  <2>1. Len(StageList) \in Nat
    BY MigrationAssumption
  <2> QED BY <2>1, PlannedMigration DEF TransitionInv, MigrationTypeOK
<1>2. CASE AnchorStage(plan.pending[i].stage) < at
  BY <1>2 DEF TransitionInv, StagesInv
<1>3. CASE AnchorStage(plan.pending[i].stage) = at
  BY <1>3 DEF Migrating, Owed
<1> QED BY <1>1, <1>2, <1>3

LEMMA AdvanceKeeps == ASSUME TransitionInv, StageSucceeds PROVE TransitionInv'
<1>1. /\ at \in 1 .. Len(StageList) - 1 /\ ~Migrating /\ at' = at + 1
      /\ UNCHANGED <<userVars, transitionStatus, wake, plan, mem, transitionHistory, boundVars>>
  BY DEF StageSucceeds
<1>2. Len(StageList) \in Nat
  BY MigrationAssumption
<1>3. at # 0 /\ at' # 0 /\ at' \in 0 .. Len(StageList)
  BY <1>1, <1>2
<1>4. MigrationTypeOK'
  BY <1>1, <1>3 DEF TransitionInv, MigrationTypeOK, userVars, transitionStatus
<1>5. PlanSound(plan, version)' /\ LedgersInv' /\ GrantInv'
  BY <1>1 DEF TransitionInv, PlanSound, Crosses, LedgersInv, LedgerInv, GrantInv, userVars, transitionStatus, transitionHistory
<1>6. StagesInv'
  <2>1. ASSUME NEW i \in DOMAIN plan.pending, AnchorStage(plan.pending[i].stage) < at + 1
        PROVE  Key(plan.pending[i]) \in mem.executed
    <3>1. AnchorStage(plan.pending[i].stage) \in Nat
      BY <1>2, PlannedMigration DEF TransitionInv
    <3>2. AnchorStage(plan.pending[i].stage) <= at
      BY <1>1, <1>2, <2>1, <3>1
    <3> QED BY <1>1, <1>3, <3>2, StageDone
  <2> QED BY <1>1, <2>1 DEF StagesInv
<1>7. RanInv' /\ AttemptsInv'
  BY <1>1, <1>3 DEF TransitionInv, RanInv, AttemptsInv, Led, transitionStatus, transitionHistory, boundVars
<1> QED BY <1>4, <1>5, <1>6, <1>7 DEF TransitionInv

LEMMA IntervalKeeps == ASSUME TransitionInv, Interval PROVE TransitionInv'
<1>1. /\ at = 0 /\ ~wake /\ reason = "Succeeded" /\ wake' = TRUE
      /\ UNCHANGED <<userVars, transitionStatus, passVars, transitionHistory, boundVars>>
  BY DEF Interval
<1>2. MigrationTypeOK' /\ PlanSound(plan, version)' /\ LedgersInv' /\ StagesInv' /\ GrantInv' /\ RanInv'
  BY <1>1 DEF TransitionInv, MigrationTypeOK, PlanSound, Crosses, LedgersInv, LedgerInv, StagesInv, GrantInv, RanInv,
              Led, userVars, transitionStatus, passVars, transitionHistory, boundVars
<1>3. AttemptsInv'
  BY <1>1 DEF TransitionInv, AttemptsInv, Led, transitionStatus, passVars, transitionHistory
<1> QED BY <1>2, <1>3 DEF TransitionInv

\* An ending pass leaves the invariants to its ledger, version and counters.
LEMMA EndKeeps ==
    ASSUME TransitionInv, FailMigrationAction \/ StageFails \/ Crash \/ Commit,
           version' \in Versions \cup {NoVersion}, ledger' \in LedgerType, pending' \in PendingType, wake' \in BOOLEAN,
           LedgerInv(ledger', version', completed'), RanInv', AttemptsInv'
    PROVE  TransitionInv'
<1>1. /\ at # 0 /\ at' = 0 /\ plan' = NoPlan /\ mem' = EmptyLedger
      /\ UNCHANGED <<spec, approved, rollbackTo, requested, content, granted>>
  BY EndFrame DEF userVars
<1>2. MigrationTypeOK'
  <2>1. Len(StageList) \in Nat
    BY MigrationAssumption
  <2> QED BY <1>1, <2>1, EmptyLedgerShape DEF TransitionInv, MigrationTypeOK
<1>3. PlanSound(plan, version)'
  BY <1>1, Planless
<1>4. LedgersInv'
  BY <1>1, EmptyLedgerShape DEF LedgersInv
<1>5. StagesInv'
  BY <1>1, Planless DEF StagesInv
<1>6. GrantInv'
  BY <1>1, Planless DEF TransitionInv, GrantInv
<1> QED BY <1>2, <1>3, <1>4, <1>5, <1>6 DEF TransitionInv

\* The keys of a sound plan may be shown in the status.
LEMMA PendingShape == ASSUME PlanSound(plan, version) PROVE PendingDetails(plan) \subseteq Keys
BY PlannedMigration DEF PendingDetails

LEMMA FailKeeps == ASSUME TransitionInv, FailMigrationAction PROVE TransitionInv'
<1>1. PICK denied \in BOOLEAN :
        LET n == mem.failures + 1
            dirty == n >= MaxMigrationFailures
            why == IF denied THEN "RBACDenied" ELSE IF dirty THEN "MigrationDirty" ELSE "MigrationFailed"
        IN  FailTransition([mem EXCEPT !.failures = n], why, denied \/ dirty)
  BY DEF FailMigrationAction
<1> DEFINE n == mem.failures + 1
           dirty == n >= MaxMigrationFailures
<1>2. /\ mem \in LedgerType /\ version \in Versions \cup {NoVersion} /\ wake \in BOOLEAN
      /\ at \in 0 .. Len(StageList) /\ PlanSound(plan, version)
  BY DEF TransitionInv, MigrationTypeOK
<1>3. attempts' = attempts + 1 /\ UNCHANGED <<userVars, content, ran, completed, granted, crashes>>
  BY DEF FailMigrationAction, boundVars
<1>4. /\ ledger' = [mem EXCEPT !.failures = n] /\ version' = version
      /\ pending' = [version |-> NoVersion, migrations |-> PendingDetails(plan)]
      /\ wake' = (~(denied \/ dirty) \/ wake)
  BY <1>1 DEF FailTransition, EndPass
<1>5. denied \/ dirty => reason' # "Succeeded"
  BY <1>1 DEF FailTransition
<1>6. at # 0 /\ at' = 0 /\ mem' = EmptyLedger
  BY EndFrame
<1>7. /\ ledger' \in LedgerType /\ ledger'.failures = n /\ ledger'.executed = mem.executed
      /\ ledger'.actions = mem.actions /\ n \in Nat
  BY <1>2, <1>4 DEF LedgerType
<1>8. pending' \in PendingType
  BY <1>2, <1>4, PendingShape DEF PendingType
<1>9. LedgerInv(ledger', version', completed')
  BY <1>3, <1>4, <1>7 DEF TransitionInv, LedgersInv, LedgerInv
<1>10. RanInv'
  BY <1>3, <1>6, <1>7 DEF TransitionInv, RanInv, Led
<1>11. AttemptsInv'
  <2>1. /\ attempts \in Nat /\ attempts <= mem.failures /\ (wake => attempts = 0) /\ mem.failures \in Nat
        /\ attempts <= 1 \/ mem.failures < MaxMigrationFailures
    BY <1>2, <1>6 DEF TransitionInv, AttemptsInv, Led, LedgerType
  <2>2. MaxMigrationFailures \in Nat /\ MaxMigrationFailures >= 2
    BY MigrationAssumption
  <2>3. Led' = ledger'
    BY <1>6 DEF Led
  <2>4. attempts' \in Nat /\ attempts' <= ledger'.failures
    BY <1>3, <1>7, <2>1
  <2>5. \/ attempts' <= 1
        \/ ledger'.failures < MaxMigrationFailures
        \/ ~wake' /\ reason' # "Succeeded" /\ attempts' <= MaxMigrationFailures
    <3>1. CASE wake
      BY <1>3, <2>1, <3>1
    <3>2. CASE ~wake /\ ~dirty
      BY <1>7, <2>2, <3>2
    <3>3. CASE ~wake /\ dirty
      <4>1. attempts' <= MaxMigrationFailures
        BY <1>3, <2>1, <2>2
      <4>2. ~wake' /\ reason' # "Succeeded"
        BY <1>4, <1>5, <3>3
      <4> QED BY <4>1, <4>2
    <3> QED BY <3>1, <3>2, <3>3
  <2> QED BY <1>6, <2>3, <2>4, <2>5 DEF AttemptsInv
<1> HIDE DEF n, dirty
<1>12. wake' \in BOOLEAN
  BY <1>2, <1>4
<1> QED BY <1>2, <1>4, <1>7, <1>8, <1>9, <1>10, <1>11, <1>12, EndKeeps

LEMMA StageFailsKeeps == ASSUME TransitionInv, StageFails PROVE TransitionInv'
<1>1. /\ ledger' = mem /\ version' = version /\ wake' = TRUE
      /\ pending' = [version |-> NoVersion, migrations |-> PendingDetails(plan)]
      /\ UNCHANGED <<content, ran, completed, granted, attempts, crashes>>
  BY DEF StageFails, FailTransition, EndPass, transitionHistory
<1>2. mem \in LedgerType /\ version \in Versions \cup {NoVersion} /\ PlanSound(plan, version)
  BY DEF TransitionInv, MigrationTypeOK
<1>3. at # 0 /\ at' = 0
  BY EndFrame
<1>4. pending' \in PendingType
  BY <1>1, <1>2, PendingShape DEF PendingType
<1>5. LedgerInv(ledger', version', completed')
  BY <1>1 DEF TransitionInv, LedgersInv, LedgerInv
<1>6. RanInv' /\ AttemptsInv'
  BY <1>1, <1>3 DEF TransitionInv, RanInv, AttemptsInv, Led
<1> QED BY <1>1, <1>2, <1>4, <1>5, <1>6, EndKeeps

LEMMA CrashKeeps == ASSUME TransitionInv, Crash PROVE TransitionInv'
<1>1. /\ crashes' = crashes + 1 /\ wake' = TRUE
      /\ UNCHANGED <<version, ledger, pending, reason, content, ran, completed, granted, attempts>>
  BY DEF Crash, EndPass, transitionHistory, transitionStatus
<1>2. /\ ledger \in LedgerType /\ mem \in LedgerType /\ version \in Versions \cup {NoVersion}
      /\ pending \in PendingType
  BY DEF TransitionInv, MigrationTypeOK
<1>3. at # 0 /\ at' = 0
  BY EndFrame
<1>4. LedgerInv(ledger', version', completed')
  BY <1>1 DEF TransitionInv, LedgersInv, LedgerInv
<1>5. RanInv'
  BY <1>1, <1>3 DEF TransitionInv, RanInv, Led
<1>6. AttemptsInv'
  BY <1>1, <1>2, <1>3, MigrationAssumption DEF TransitionInv, AttemptsInv, Led, LedgerType
<1> QED BY <1>1, <1>2, <1>4, <1>5, <1>6, EndKeeps

LEMMA CommitKeeps == ASSUME TransitionInv, Commit PROVE TransitionInv'
<1>1. /\ version' = (IF plan.set THEN plan.desired ELSE version)
      /\ ledger' = (IF plan.set THEN EmptyLedger ELSE mem)
      /\ pending' = NothingPending /\ wake' = wake
      /\ ran' = (IF plan.set THEN <<>> ELSE ran)
      /\ completed' = (IF plan.set THEN {} ELSE completed)
      /\ attempts' = 0 /\ crashes' = crashes
  BY DEF Commit, EndPass, boundVars, TransitionInv, MigrationTypeOK
<1>2. /\ mem \in LedgerType /\ version \in Versions \cup {NoVersion} /\ wake \in BOOLEAN /\ PlanSound(plan, version)
  BY DEF TransitionInv, MigrationTypeOK
<1>3. at # 0 /\ at' = 0 /\ mem' = EmptyLedger
  BY EndFrame
<1>4. /\ version' \in Versions \cup {NoVersion} /\ ledger' \in LedgerType /\ pending' \in PendingType
      /\ wake' \in BOOLEAN
  BY <1>1, <1>2, EmptyLedgerShape DEF PlanSound, NothingPending, PendingType
<1>5. LedgerInv(ledger', version', completed')
  BY <1>1, EmptyLedgerShape DEF TransitionInv, LedgersInv
<1>6. RanInv'
  <2>1. CASE plan.set
    BY <1>1, <2>1 DEF TransitionInv, RanInv
  <2>2. CASE ~plan.set
    BY <1>1, <1>3, <2>2 DEF TransitionInv, RanInv, Led
  <2> QED BY <2>1, <2>2
<1>7. AttemptsInv'
  BY <1>1, <1>3, <1>4 DEF AttemptsInv, Led, LedgerType
<1> QED BY <1>4, <1>5, <1>6, <1>7, EndKeeps

LEMMA TransitionInit == MigrationInit => TransitionInv
<1> SUFFICES ASSUME MigrationInit PROVE TransitionInv
  OBVIOUS
<1>1. /\ approved = NoVersion /\ rollbackTo = NoVersion /\ requested = FALSE
      /\ ledger = EmptyLedger /\ pending = NothingPending /\ reason = "Succeeded" /\ wake = TRUE
      /\ plan = NoPlan /\ at = 0 /\ mem = EmptyLedger
      /\ ran = <<>> /\ completed = {} /\ granted = {} /\ attempts = 0 /\ crashes = 0
  BY DEF MigrationInit
<1>2. PICK st \in Starts, l \in Ladders, p \in Policies :
        /\ version = st[1]
        /\ spec = [version |-> st[2], ladder |-> l, approvalMode |-> p[1], allowDowngrade |-> p[2]]
  BY DEF MigrationInit
<1>3. st \in (Versions \cup {NoVersion}) \X Versions /\ p \in {"Never", "OnMigrations", "Always"} \X BOOLEAN
  BY MigrationAssumption
<1>4. spec \in SpecType /\ version \in Versions \cup {NoVersion}
  BY <1>2, <1>3 DEF SpecType
<1>5. MigrationTypeOK
  <2>1. pending \in PendingType
    BY <1>1 DEF NothingPending, PendingType
  <2>2. Len(StageList) \in Nat
    BY MigrationAssumption
  <2>3. at \in 0 .. Len(StageList)
    BY <1>1, <2>2
  <2>7. wake = TRUE /\ requested = FALSE
    BY <1>1
  <2>4. ledger \in LedgerType /\ mem \in LedgerType
    BY <1>1, EmptyLedgerShape
  <2>5. approved \in Versions \cup {NoVersion} /\ rollbackTo \in Versions \cup {NoVersion}
    BY <1>1
  <2>6. at = 0 => plan = NoPlan /\ mem = EmptyLedger
    BY <1>1
  <2> QED BY <1>4, <2>1, <2>3, <2>4, <2>5, <2>6, <2>7 DEF MigrationTypeOK
<1>6. PlanSound(plan, version) /\ StagesInv /\ GrantInv
  BY <1>1, Planless DEF StagesInv, GrantInv
<1>7. LedgersInv
  BY <1>1, EmptyLedgerShape DEF LedgersInv
<1>8. RanInv
  BY <1>1 DEF RanInv
<1>9. AttemptsInv
  BY <1>1, EmptyLedgerShape DEF AttemptsInv, Led
<1> QED BY <1>5, <1>6, <1>7, <1>8, <1>9 DEF TransitionInv

LEMMA TransitionStep == TransitionInv /\ [MigrationNext]_migrationVars => TransitionInv'
BY TransitionUnchanged, UserKeeps, StartKeeps, ActKeeps, CompleteKeeps, AdvanceKeeps, CommitKeeps,
   FailKeeps, StageFailsKeeps, CrashKeeps, IntervalKeeps DEF MigrationNext, MigrationPass

LEMMA TransitionAlways == MigrationSpec => []TransitionInv
<1>1. MigrationInit => TransitionInv
  BY TransitionInit
<1>2. TransitionInv /\ [MigrationNext]_migrationVars => TransitionInv'
  BY TransitionStep
<1> QED BY <1>1, <1>2, PTL DEF MigrationSpec

-----------------------------------------------------------------------------
(* What the ledgers say is what was done. *)

\* The boundaries whose content is recorded.
Recorded == \A m \in AllMigrations : m.name \in DOMAIN content

LEMMA RecordedInit == MigrationInit => Recorded
BY DEF MigrationInit, Recorded, AllMigrations

LEMMA RecordedStep == ASSUME TransitionInv, Recorded, [MigrationNext]_migrationVars PROVE Recorded'
<1>1. DOMAIN content' = DOMAIN content
  <2>1. MigrationTypeOK /\ PlanSound(plan, version)
    BY DEF TransitionInv
  <2>2. \A m : DOMAIN Crossed(m) = DOMAIN content
    BY DEF Crossed
  <2>3. CASE RunMigrationAction
    BY <2>1, <2>2, <2>3, ActingFrame DEF Acting
  <2>4. CASE CompleteMigration
    BY <2>1, <2>2, <2>4, CompletingFrame DEF Completing
  <2>5. CASE User
    BY <2>1, <2>5, UserFrame
  <2>6. CASE StartPass
    BY <2>1, <2>6, StartFrame
  <2>7. CASE FailMigrationAction \/ StageFails \/ Crash \/ Commit
    BY <2>7, EndFrame
  <2>8. CASE StageSucceeds \/ Interval \/ UNCHANGED migrationVars
    BY <2>8 DEF StageSucceeds, Interval, migrationVars, transitionHistory
  <2> QED BY <2>3, <2>4, <2>5, <2>6, <2>7, <2>8 DEF MigrationNext, MigrationPass
<1> QED BY <1>1 DEF Recorded

\* One migration at a time is in hand.
LEMMA OneCurrent ==
    ASSUME PlanSound(plan, version), NEW m, NEW n, Current(m), Current(n) PROVE m = n
<1>1. PICK i \in DOMAIN plan.pending : m = plan.pending[i] /\ Owed(i) /\ \A j \in 1 .. i - 1 : ~Owed(j)
  BY DEF Current
<1>2. PICK k \in DOMAIN plan.pending : n = plan.pending[k] /\ Owed(k) /\ \A j \in 1 .. k - 1 : ~Owed(j)
  BY DEF Current
<1>3. DOMAIN plan.pending \subseteq Nat \ {0}
  BY DEF PlanSound
<1>4. i = k
  <2>1. i \in Nat /\ k \in Nat /\ i >= 1 /\ k >= 1
    BY <1>3
  <2>2. ~(i < k)
    BY <1>1, <1>2, <2>1
  <2>3. ~(k < i)
    BY <1>1, <1>2, <2>1
  <2> QED BY <2>1, <2>2, <2>3
<1> QED BY <1>1, <1>2, <1>4

\* While no migration is in hand, none has just been superseded.
LEMMA NotSuperseded ==
    /\ at = 0 \/ ~Migrating => \A m : ~Superseded(m)
    /\ \A n : PlanSound(plan, version) /\ Current(n) =>
          /\ Left(n) # {} => \A m : ~Superseded(m)
          /\ \A m : m.name # n.name \/ Key(m) = Key(n) => ~Superseded(m)
<1>1. at = 0 \/ ~Migrating => \A m : ~Superseded(m)
  BY DEF Superseded, Current, Migrating
<1>2. ASSUME NEW n, PlanSound(plan, version), Current(n), NEW m, Superseded(m)
      PROVE  Left(n) = {} /\ m.name = n.name /\ Key(m) # Key(n)
  <2>1. PICK i \in DOMAIN plan.pending : LET x == plan.pending[i] IN
          Current(x) /\ Left(x) = {} /\ x.name = m.name /\ Key(x) # Key(m)
    BY <1>2 DEF Superseded
  <2>2. plan.pending[i] = n
    BY <1>2, <2>1, OneCurrent
  <2> QED BY <2>1, <2>2
<1> QED BY <1>1, <1>2

\* Only the lists matter to what is done.
LEMMA DoneLists ==
    ASSUME NEW l, NEW k, l.executed = k.executed, l.actions = k.actions, NEW m, NEW acts, NEW way
    PROVE  AllDone(l, m, acts, way) <=> AllDone(k, m, acts, way)
BY DEF AllDone

\* A list that is not empty has a first member.
LEMMA ActionsListed ==
    ASSUME NEW m \in AllMigrations
    PROVE  (m.actions # <<>> => DOMAIN m.actions # {}) /\ (m.down # <<>> => DOMAIN m.down # {})
<1>1. m.actions \in Seq(ToSet(m.actions)) /\ m.down \in Seq(ToSet(m.down))
  BY LadderShape
<1>2. ASSUME NEW S, NEW acts \in Seq(S), acts # <<>> PROVE DOMAIN acts # {}
  <2>1. Len(acts) \in Nat /\ Len(acts) # 0 /\ DOMAIN acts = 1 .. Len(acts)
    BY <1>2
  <2>2. 1 \in DOMAIN acts
    BY <2>1
  <2> QED BY <2>2
<1> QED BY <1>1, <1>2

LEMMA NothingDone ==
    ASSUME NEW m \in AllMigrations, NEW way
    PROVE  ~AllDone(EmptyLedger, m, m.actions, way) /\ ~AllDone(EmptyLedger, m, m.down, way)
<1>2. (m.actions # <<>> => DOMAIN m.actions # {}) /\ (m.down # <<>> => DOMAIN m.down # {})
  BY ActionsListed
<1>3. EmptyLedger.executed = {} /\ EmptyLedger.actions = {}
  BY DEF EmptyLedger
<1> QED BY <1>2, <1>3 DEF AllDone

\* A migration is done once the pass has nothing of it left.
LEMMA LeftNothing ==
    ASSUME NEW m, Left(m) = {}, Acts(m) # <<>> PROVE AllDone(mem, m, Acts(m), Direction)
BY DEF Left, Entry, AllDone

\* What crossing the boundary of m makes of the contents.
LEMMA CrossedContent ==
    ASSUME Recorded, NEW m \in AllMigrations, NEW n \in AllMigrations
    PROVE  Crossed(m)[n.name] = IF n.name = m.name THEN (IF plan.downgrade THEN NoAnchor ELSE m.digest)
                                                   ELSE content[n.name]
BY DEF Recorded, Crossed

\* Every content of a planned boundary is on the same side of the version.
LEMMA CrossingSide ==
    ASSUME BoundariesFixed, PlanSound(plan, version), NEW i \in DOMAIN plan.pending, NEW m \in AllMigrations,
           m.to \in Versions, m.name = plan.pending[i].name
    PROVE  /\ version \in Versions
           /\ plan.downgrade => m.to <= version /\ plan.desired < m.to
           /\ ~plan.downgrade => version < m.to /\ m.to <= plan.desired
<1>1. plan.pending[i] \in AllMigrations /\ plan.pending[i].to \in Versions
  BY PlannedMigration
<1>2. m.to = plan.pending[i].to
  BY <1>1 DEF BoundariesFixed
<1> QED BY <1>2 DEF PlanSound, Crosses

\* Doing an action finishes at most the migration in hand.
LEMMA ActingDone ==
    ASSUME TransitionInv, NEW i \in DOMAIN plan.pending, NEW j \in DOMAIN Acts(plan.pending[i]),
           Acting(plan.pending[i], j), NEW m \in AllMigrations, NEW acts, NEW way,
           (way = "up" /\ acts = m.actions) \/ (way = "down" /\ acts = m.down),
           AllDone(mem', m, acts, way), ~AllDone(mem, m, acts, way)
    PROVE  m = plan.pending[i] /\ way = Direction /\ Left(m) = {j}
<1> DEFINE n == plan.pending[i]
           e == Entry(n, Acts(n)[j])
<1>1. PlanSound(plan, version) /\ mem \in LedgerType
  BY DEF TransitionInv, MigrationTypeOK
<1>2. n \in AllMigrations /\ DistinctNames(Acts(n))
  BY <1>1, PlannedMigration
<1>3. mem'.executed = mem.executed /\ mem'.actions = mem.actions \cup {e} /\ e \notin mem.actions /\ j \in Left(n)
  BY <1>1 DEF Acting, LedgerType
<1>4. e = <<Key(n), Direction, Acts(n)[j].name>>
  BY DEF Entry
<1> HIDE DEF n, e
<1>5. /\ acts # <<>>
      /\ \A k \in DOMAIN acts : <<Key(m), way, acts[k].name>> \in mem.actions \cup {e}
      /\ ~ \A k \in DOMAIN acts : <<Key(m), way, acts[k].name>> \in mem.actions
  BY <1>3 DEF AllDone
<1>6. PICK k \in DOMAIN acts : <<Key(m), way, acts[k].name>> = e
  BY <1>5
<1>7. Key(m) = Key(n) /\ way = Direction
  BY <1>4, <1>6
<1>8. m = n
  BY <1>2, <1>7, LaddersAssumption
<1>9. acts = Acts(n)
  BY <1>7, <1>8 DEF Direction, Acts
<1>10. ASSUME NEW x \in Left(n) PROVE x = j
  <2>1. x \in DOMAIN Acts(n) /\ Entry(n, Acts(n)[x]) \notin mem.actions
    BY DEF Left
  <2>2. Entry(n, Acts(n)[x]) = <<Key(m), way, acts[x].name>>
    BY <1>7, <1>9 DEF Entry
  <2>3. <<Key(m), way, acts[x].name>> = e
    BY <1>5, <1>9, <2>1, <2>2
  <2>4. Acts(n)[x].name = Acts(n)[j].name
    BY <1>4, <1>9, <2>3
  <2> QED BY <1>2, <2>1, <2>4 DEF DistinctNames, n
<1>11. Left(n) = {j}
  BY <1>3, <1>10
<1> QED BY <1>7, <1>8, <1>11 DEF n

\* Recording a migration finishes no other, and forgets its other contents on the way up.
LEMMA CompletingDone ==
    ASSUME TransitionInv, NEW i \in DOMAIN plan.pending, Completing(plan.pending[i]),
           NEW m \in AllMigrations, NEW acts, NEW way, AllDone(mem', m, acts, way),
           acts # <<>> => DOMAIN acts # {}
    PROVE  /\ m = plan.pending[i] \/ AllDone(mem, m, acts, way)
           /\ ~plan.downgrade /\ m.name = plan.pending[i].name => m = plan.pending[i]
<1> DEFINE n == plan.pending[i]
           with == [mem EXCEPT !.executed = @ \cup {Key(n)}]
<1>1. PlanSound(plan, version) /\ mem \in LedgerType
  BY DEF TransitionInv, MigrationTypeOK
<1>2. n \in AllMigrations
  BY <1>1, PlannedMigration
<1>3. with.executed = mem.executed \cup {Key(n)} /\ with.actions = mem.actions /\ with \in LedgerType
  <2>1. Key(n) \in Keys
    BY <1>2, NamesInRange
  <2> HIDE DEF n
  <2> QED BY <1>1, <2>1 DEF LedgerType
<1>4. mem' = IF plan.downgrade THEN with ELSE PruneSupersededLedger(with, n)
  BY DEF Completing
<1> HIDE DEF n, with
<1>5. /\ mem'.executed \subseteq with.executed /\ mem'.actions \subseteq with.actions
      /\ ~plan.downgrade => /\ \A k \in mem'.executed : k[1] # n.name \/ k = Key(n)
                            /\ \A e \in mem'.actions : e[1][1] # n.name \/ e[1] = Key(n)
  BY <1>3, <1>4 DEF PruneSupersededLedger, LedgerType
<1>6. Key(m) = Key(n) => m = n
  BY <1>2, LaddersAssumption
<1>7. Key(m)[1] = m.name
  BY DEF Key
<1>8. m = n \/ AllDone(mem, m, acts, way)
  BY <1>3, <1>5, <1>6 DEF AllDone
<1>9. ASSUME ~plan.downgrade, m.name = n.name PROVE m = n
  <2>1. CASE Key(m) \in mem'.executed
    BY <1>5, <1>6, <1>7, <1>9, <2>1
  <2>2. CASE Key(m) \notin mem'.executed
    <3>1. PICK j \in DOMAIN acts : <<Key(m), way, acts[j].name>> \in mem'.actions
      BY <2>2 DEF AllDone
    <3>2. Key(m)[1] # n.name \/ Key(m) = Key(n)
      BY <1>5, <1>9, <3>1
    <3> QED BY <1>6, <1>7, <1>9, <3>2
  <2> QED BY <2>1, <2>2
<1> QED BY <1>8, <1>9 DEF n

\* Doing an action keeps the contents in line with the ledgers.
LEMMA ActingContents ==
    ASSUME BoundariesFixed, TransitionInv, Recorded, UpInv, DownInv, RunMigrationAction PROVE UpInv' /\ DownInv'
<1>1. MigrationTypeOK /\ PlanSound(plan, version) /\ mem \in LedgerType
  BY DEF TransitionInv, MigrationTypeOK
<1>2. PICK i \in DOMAIN plan.pending : \E j \in DOMAIN Acts(plan.pending[i]) : Acting(plan.pending[i], j)
  BY <1>1, ActingFrame
<1> DEFINE n == plan.pending[i]
<1>3. PICK j \in DOMAIN Acts(n) : Acting(n, j)
  BY <1>2
<1>4. /\ n \in AllMigrations /\ n.to \in Versions /\ version \in Versions /\ plan.downgrade \in BOOLEAN
      /\ Direction = (IF plan.downgrade THEN "down" ELSE "up")
  BY <1>1, PlannedMigration DEF PlanSound, Direction
<1>5. /\ Current(n) /\ j \in Left(n) /\ at # 0 /\ at' = at /\ UNCHANGED <<version, ledger, crashes, plan>>
      /\ mem'.executed = mem.executed
      /\ content' = IF Left(n) = {j} THEN Crossed(n) ELSE content
  BY <1>1, <1>3 DEF Acting, Current, transitionStatus, LedgerType
<1>6. ASSUME NEW m \in AllMigrations
      PROVE  Crossed(n)[m.name] = IF m.name = n.name THEN (IF plan.downgrade THEN NoAnchor ELSE n.digest)
                                                     ELSE content[m.name]
  BY <1>4, CrossedContent
<1>7. ASSUME NEW m \in AllMigrations, m.to \in Versions, m.name = n.name
      PROVE  (plan.downgrade => ~Ahead(m)) /\ (~plan.downgrade => ~Behind(m))
  <2>1. {m.to, version} \subseteq Nat
    BY <1>4, <1>7, MigrationAssumption
  <2>2. (plan.downgrade => m.to <= version) /\ (~plan.downgrade => version < m.to)
    BY <1>1, <1>7, CrossingSide
  <2> QED BY <2>1, <2>2 DEF Ahead, Behind
<1>8. ASSUME NEW m \in AllMigrations, NEW acts, NEW way,
             (way = "up" /\ acts = m.actions) \/ (way = "down" /\ acts = m.down), AllDone(mem', m, acts, way)
      PROVE  AllDone(mem, m, acts, way) \/ (m = n /\ way = Direction /\ Left(n) = {j})
  BY <1>3, <1>8, ActingDone
<1>9. ASSUME crashes = 0, NEW m \in AllMigrations, Ahead(m), AllDone(mem', m, m.actions, "up"), ~Superseded(m)'
      PROVE  content'[m.name] = m.digest
  <2>1. ~Superseded(m)
    BY <1>1, <1>5, NotSuperseded
  <2>2. AllDone(mem, m, m.actions, "up") \/ (m = n /\ ~plan.downgrade /\ Left(n) = {j})
    BY <1>4, <1>8, <1>9
  <2>3. CASE AllDone(mem, m, m.actions, "up") /\ (Left(n) # {j} \/ m.name # n.name)
    <3>1. content[m.name] = m.digest
      BY <1>5, <1>9, <2>1, <2>3 DEF UpInv, Led
    <3> QED BY <1>5, <1>6, <2>3, <3>1
  <2>4. CASE Left(n) = {j} /\ m.name = n.name
    <3>1. ~plan.downgrade
      BY <1>7, <1>9, <2>4 DEF Ahead
    <3>2. Key(m) = Key(n)
      <4>1. SUFFICES ASSUME Key(n) # Key(m) PROVE FALSE
        OBVIOUS
      <4>2. Current(n)' /\ Left(n)' = {}
        <5>1. Current(n)'
          BY <1>5 DEF Current, Owed
        <5>2. ASSUME NEW x \in Left(n)' PROVE FALSE
          <6>1. x \in DOMAIN Acts(n) /\ Entry(n, Acts(n)[x]) \notin mem'.actions
            BY <1>5, <5>2 DEF Left, Acts, Entry, Direction
          <6>2. mem.actions \subseteq mem'.actions /\ Entry(n, Acts(n)[j]) \in mem'.actions
            BY <1>1, <1>3 DEF Acting, LedgerType
          <6>3. x \in Left(n)
            BY <6>1, <6>2 DEF Left
          <6> QED BY <2>4, <6>1, <6>2, <6>3
        <5> QED BY <5>1, <5>2
      <4>3. Superseded(m)'
        BY <1>5, <2>4, <4>1, <4>2 DEF Superseded
      <4> QED BY <1>9, <4>3
    <3>3. m = n
      BY <1>4, <3>2, LaddersAssumption
    <3> QED BY <1>5, <1>6, <2>4, <3>1, <3>3
  <2> QED BY <2>2, <2>3, <2>4
<1>10. ASSUME NEW l \in {ledger, mem'}, NEW m \in AllMigrations, Behind(m), AllDone(l, m, m.down, "down")
       PROVE  content'[m.name] = NoAnchor
  <2>1. content[m.name] = NoAnchor \/ (m = n /\ plan.downgrade /\ Left(n) = {j})
    <3>1. CASE l = ledger
      BY <1>10, <3>1 DEF DownInv
    <3>2. CASE l = mem'
      <4>1. AllDone(mem, m, m.down, "down") \/ (m = n /\ plan.downgrade /\ Left(n) = {j})
        BY <1>4, <1>8, <1>10, <3>2
      <4> QED BY <1>10, <4>1 DEF DownInv
    <3> QED BY <3>1, <3>2
  <2>2. m.name = n.name => plan.downgrade
    BY <1>4, <1>7, <1>10 DEF Behind
  <2> QED BY <1>5, <1>6, <2>1, <2>2
<1>11. UpInv'
  BY <1>5, <1>9 DEF UpInv, Led, Ahead, AllDone
<1>12. DownInv'
  BY <1>5, <1>10 DEF DownInv, Behind, AllDone
<1> QED BY <1>11, <1>12

\* Recording a migration does, too.
LEMMA CompletingContents ==
    ASSUME BoundariesFixed, TransitionInv, Recorded, UpInv, DownInv, CompleteMigration PROVE UpInv' /\ DownInv'
<1>1. MigrationTypeOK /\ PlanSound(plan, version) /\ mem \in LedgerType
  BY DEF TransitionInv, MigrationTypeOK
<1>2. PICK i \in DOMAIN plan.pending : Completing(plan.pending[i])
  BY <1>1, CompletingFrame
<1> DEFINE n == plan.pending[i]
<1>3. /\ n \in AllMigrations /\ n.to \in Versions /\ version \in Versions /\ plan.downgrade \in BOOLEAN
      /\ Direction = (IF plan.downgrade THEN "down" ELSE "up")
      /\ plan.downgrade => Acts(n) # <<>>
  BY <1>1, PlannedMigration DEF PlanSound, Direction
<1>4. /\ Current(n) /\ Left(n) = {} /\ at # 0 /\ at' = at /\ UNCHANGED <<version, ledger, crashes, plan>>
      /\ content' = IF Acts(n) = <<>> THEN Crossed(n) ELSE content
  BY <1>2 DEF Completing, Current, transitionStatus
<1>5. ASSUME NEW m \in AllMigrations
      PROVE  Crossed(n)[m.name] = IF m.name = n.name THEN (IF plan.downgrade THEN NoAnchor ELSE n.digest)
                                                     ELSE content[m.name]
  BY <1>3, CrossedContent
<1>6. ASSUME NEW m \in AllMigrations, m.to \in Versions, m.name = n.name
      PROVE  (plan.downgrade => ~Ahead(m)) /\ (~plan.downgrade => ~Behind(m))
  <2>1. {m.to, version} \subseteq Nat
    BY <1>3, <1>6, MigrationAssumption
  <2>2. (plan.downgrade => m.to <= version) /\ (~plan.downgrade => version < m.to)
    BY <1>1, <1>6, CrossingSide
  <2> QED BY <2>1, <2>2 DEF Ahead, Behind
<1>7. Acts(n) # <<>> => AllDone(mem, n, Acts(n), Direction)
  BY <1>4, LeftNothing
<1>8. ASSUME crashes = 0, NEW m \in AllMigrations, Ahead(m), AllDone(mem', m, m.actions, "up")
      PROVE  content'[m.name] = m.digest
  <2>1. m.name = n.name => m = n /\ ~plan.downgrade
    <3>1. m.name = n.name => ~plan.downgrade
      BY <1>6, <1>8 DEF Ahead
    <3> QED BY <1>2, <1>8, <3>1, CompletingDone, ActionsListed
  <2>2. CASE m = n
    <3>1. Acts(n) = n.actions /\ Direction = "up"
      BY <1>3, <2>1, <2>2 DEF Acts
    <3>2. Acts(n) # <<>> => content[n.name] = n.digest
      <4>1. ~Superseded(n)
        BY <1>1, <1>4, NotSuperseded
      <4> QED BY <1>3, <1>4, <1>7, <1>8, <2>2, <3>1, <4>1 DEF UpInv, Led
    <3> QED BY <1>4, <1>5, <2>1, <2>2, <3>2
  <2>3. CASE m # n
    <3>1. AllDone(mem, m, m.actions, "up")
      BY <1>2, <1>8, <2>3, CompletingDone, ActionsListed
    <3>2. ~Superseded(m)
      BY <1>1, <1>4, <2>1, <2>3, NotSuperseded
    <3>3. content[m.name] = m.digest
      BY <1>4, <1>8, <3>1, <3>2 DEF UpInv, Led
    <3> QED BY <1>4, <1>5, <2>1, <2>3, <3>3
  <2> QED BY <2>2, <2>3
<1>9. ASSUME NEW l \in {ledger, mem'}, NEW m \in AllMigrations, Behind(m), AllDone(l, m, m.down, "down")
      PROVE  content'[m.name] = NoAnchor
  <2>1. m.name = n.name => plan.downgrade
    BY <1>3, <1>6, <1>9 DEF Behind
  <2>2. content[m.name] = NoAnchor
    <3>1. CASE l = ledger
      BY <1>9, <3>1 DEF DownInv
    <3>2. CASE l = mem'
      <4>1. m = n \/ AllDone(mem, m, m.down, "down")
        BY <1>2, <1>9, <3>2, CompletingDone, ActionsListed
      <4>2. m = n => AllDone(mem, m, m.down, "down")
        BY <1>3, <1>7, <2>1 DEF Acts
      <4> QED BY <1>9, <4>1, <4>2 DEF DownInv
    <3> QED BY <3>1, <3>2
  <2> QED BY <1>3, <1>4, <1>5, <2>1, <2>2
<1>10. UpInv'
  BY <1>4, <1>8 DEF UpInv, Led, Ahead, AllDone
<1>11. DownInv'
  BY <1>4, <1>9 DEF DownInv, Behind, AllDone
<1> QED BY <1>10, <1>11

\* So does every other step: it keeps the contents, and the lists in force or none.
LEMMA OtherContents ==
    ASSUME BoundariesFixed, TransitionInv, Recorded, UpInv, DownInv, [MigrationNext]_migrationVars,
           ~RunMigrationAction, ~CompleteMigration
    PROVE  UpInv' /\ DownInv'
<1>1. MigrationTypeOK /\ PlanSound(plan, version) /\ crashes \in Nat
  BY DEF TransitionInv, RanInv
<1>2. \A m \in AllMigrations : /\ ~AllDone(EmptyLedger, m, m.actions, "up")
                               /\ ~AllDone(EmptyLedger, m, m.down, "down")
  BY NothingDone
<1>3. CASE User \/ UNCHANGED migrationVars
  <2>1. UNCHANGED <<version, ledger, plan, at, mem, content, crashes>>
    BY <1>1, <1>3, UserFrame DEF transitionStatus, passVars, migrationVars, transitionHistory, boundVars
  <2>2. UpInv'
    BY <2>1 DEF UpInv, Led, Ahead, AllDone, Superseded, Current, Left, Owed, Acts, Entry, Direction
  <2> QED BY <2>1, <2>2 DEF DownInv, Behind, AllDone
<1>4. CASE StageSucceeds \/ Interval
  <2>1. /\ UNCHANGED <<version, ledger, mem, content, crashes>>
        /\ (at = 0 /\ at' = 0) \/ (at # 0 /\ at' # 0)
        /\ at = 0 \/ ~Migrating
    <3>1. CASE StageSucceeds
      <4>1. Len(StageList) \in Nat
        BY MigrationAssumption
      <4> QED BY <3>1, <4>1 DEF StageSucceeds, transitionStatus, transitionHistory, boundVars
    <3>2. CASE Interval
      BY <3>2 DEF Interval, transitionStatus, passVars, transitionHistory, boundVars
    <3> QED BY <1>4, <3>1, <3>2
  <2>2. \A m : ~Superseded(m)
    BY <2>1, NotSuperseded
  <2>3. Led' = Led
    BY <2>1 DEF Led
  <2>4. UpInv'
    BY <2>1, <2>2, <2>3 DEF UpInv, Ahead, AllDone
  <2> QED BY <2>1, <2>4 DEF DownInv, Behind, AllDone
<1>5. CASE StartPass
  <2>1. at = 0 /\ UNCHANGED <<content, crashes>> /\ \A m : ~Superseded(m)
    BY <1>1, <1>5, StartFrame, NotSuperseded
  <2>2. /\ version' = version /\ Led'.executed = ledger.executed /\ Led'.actions = ledger.actions
        /\ ledger'.executed = ledger.executed /\ ledger'.actions = ledger.actions
        /\ mem' = EmptyLedger \/ (mem'.executed = ledger.executed /\ mem'.actions = ledger.actions)
    <3>1. PICK o \in Outcomes : Stopped(o.plan) \/ PlanProceeds(o.plan)
      BY <1>1, <1>5, StartFrame
    <3>2. /\ ClearedLedger.executed = ledger.executed /\ ClearedLedger.actions = ledger.actions
          /\ mem = EmptyLedger
      BY <1>1, <2>1, ClearedLedgerShape DEF MigrationTypeOK
    <3>3. CASE Stopped(o.plan)
      BY <2>1, <3>2, <3>3 DEF Stopped, passVars, Led
    <3>4. CASE PlanProceeds(o.plan)
      BY <3>2, <3>4 DEF PlanProceeds, transitionStatus, Led
    <3> QED BY <3>1, <3>3, <3>4
  <2>3. ASSUME NEW m \in AllMigrations
        PROVE  /\ AllDone(Led', m, m.actions, "up") => AllDone(ledger, m, m.actions, "up")
               /\ AllDone(ledger', m, m.down, "down") => AllDone(ledger, m, m.down, "down")
               /\ AllDone(mem', m, m.down, "down") /\ mem' # EmptyLedger => AllDone(ledger, m, m.down, "down")
    BY <2>2 DEF AllDone
  <2>4. UpInv'
    <3>1. ASSUME crashes = 0, NEW m \in AllMigrations, Ahead(m), AllDone(Led', m, m.actions, "up")
          PROVE  content[m.name] = m.digest
      <4>1. AllDone(ledger, m, m.actions, "up")
        BY <2>3, <3>1
      <4> QED BY <2>1, <3>1, <4>1 DEF UpInv, Led
    <3> QED BY <2>1, <2>2, <3>1 DEF UpInv, Ahead, AllDone
  <2>5. DownInv'
    <3>1. ASSUME NEW l \in {ledger', mem'}, NEW m \in AllMigrations, Behind(m), AllDone(l, m, m.down, "down")
          PROVE  content[m.name] = NoAnchor
      <4>1. AllDone(ledger, m, m.down, "down")
        <5>1. CASE l = ledger'
          BY <2>3, <3>1, <5>1
        <5>2. CASE l = mem'
          <6>1. mem' # EmptyLedger
            BY <1>2, <3>1, <5>2
          <6> QED BY <2>3, <3>1, <5>2, <6>1
        <5> QED BY <3>1, <5>1, <5>2
      <4> QED BY <3>1, <4>1 DEF DownInv
    <3> QED BY <2>1, <2>2, <3>1 DEF DownInv, Behind, AllDone
  <2> QED BY <2>4, <2>5
<1>6. CASE FailMigrationAction \/ StageFails \/ Crash \/ Commit
  <2>1. at # 0 /\ at' = 0 /\ mem' = EmptyLedger /\ content' = content /\ Led = mem /\ Led' = ledger'
    BY <1>6, EndFrame DEF Led
  <2>2. \/ /\ version' = version /\ crashes' = crashes /\ (\A m : ~Superseded(m))
           /\ ledger'.executed = mem.executed /\ ledger'.actions = mem.actions
        \/ version' = version /\ ledger' = ledger /\ crashes' # 0
        \/ ledger' = EmptyLedger
    <3>1. mem \in LedgerType
      BY <1>1 DEF MigrationTypeOK
    <3>2. CASE FailMigrationAction
      <4>1. PICK m : Current(m) /\ Left(m) # {}
        BY <3>2 DEF FailMigrationAction
      <4>2. \A x : ~Superseded(x)
        BY <1>1, <4>1, NotSuperseded
      <4>3. version' = version /\ crashes' = crashes
        BY <3>2 DEF FailMigrationAction, FailTransition, boundVars
      <4>4. ledger'.executed = mem.executed /\ ledger'.actions = mem.actions
        BY <3>1, <3>2 DEF FailMigrationAction, FailTransition, LedgerType
      <4> QED BY <4>2, <4>3, <4>4
    <3>3. CASE StageFails
      BY <3>3, NotSuperseded DEF StageFails, FailTransition
    <3>4. CASE Crash
      BY <1>1, <3>4 DEF Crash, transitionStatus
    <3>5. CASE Commit
      <4>1. CASE plan.set
        BY <3>5, <4>1 DEF Commit
      <4>2. CASE ~plan.set
        BY <3>5, <4>2, NotSuperseded DEF Commit, boundVars
      <4> QED BY <4>1, <4>2
    <3> QED BY <1>6, <3>2, <3>3, <3>4, <3>5
  <2>3. UpInv'
    <3>1. ASSUME crashes' = 0, NEW m \in AllMigrations, Ahead(m)', AllDone(ledger', m, m.actions, "up")
          PROVE  content[m.name] = m.digest
      <4>1. /\ version' = version /\ crashes' = crashes /\ ~Superseded(m)
            /\ ledger'.executed = mem.executed /\ ledger'.actions = mem.actions
        BY <1>2, <2>2, <3>1
      <4>2. Ahead(m) /\ AllDone(mem, m, m.actions, "up")
        BY <3>1, <4>1 DEF Ahead, AllDone
      <4> QED BY <2>1, <3>1, <4>1, <4>2 DEF UpInv
    <3> QED BY <2>1, <3>1 DEF UpInv, AllDone
  <2>4. DownInv'
    <3>1. ASSUME NEW l \in {ledger', mem'}, NEW m \in AllMigrations, Behind(m)', AllDone(l, m, m.down, "down")
          PROVE  content[m.name] = NoAnchor
      <4>1. /\ version' = version
            /\ AllDone(mem, m, m.down, "down") \/ AllDone(ledger, m, m.down, "down")
        <5>1. l = ledger' /\ ledger' # EmptyLedger
          BY <1>2, <2>1, <3>1
        <5> QED BY <2>2, <3>1, <5>1 DEF AllDone
      <4>2. Behind(m)
        BY <3>1, <4>1 DEF Behind
      <4> QED BY <4>1, <4>2 DEF DownInv
    <3> QED BY <2>1, <3>1 DEF DownInv, AllDone
  <2> QED BY <2>3, <2>4
<1> QED BY <1>3, <1>4, <1>5, <1>6 DEF MigrationNext, MigrationPass

LEMMA ContentsInit == MigrationInit => UpInv /\ DownInv
<1> SUFFICES ASSUME MigrationInit PROVE UpInv /\ DownInv
  OBVIOUS
<1>1. ledger = EmptyLedger /\ mem = EmptyLedger /\ at = 0
  BY DEF MigrationInit
<1>2. Led = EmptyLedger
  BY <1>1 DEF Led
<1>3. \A m \in AllMigrations : ~AllDone(EmptyLedger, m, m.actions, "up") /\ ~AllDone(EmptyLedger, m, m.down, "down")
  BY NothingDone
<1> QED BY <1>1, <1>2, <1>3 DEF UpInv, DownInv

\* The invariants hold together.
ContentsInv == TransitionInv /\ Recorded /\ UpInv /\ DownInv

LEMMA ContentsStep == BoundariesFixed /\ ContentsInv /\ [MigrationNext]_migrationVars => ContentsInv'
BY TransitionStep, RecordedStep, ActingContents, CompletingContents, OtherContents DEF ContentsInv

LEMMA ContentsAlways == BoundariesFixed => (MigrationSpec => []ContentsInv)
<1> SUFFICES ASSUME BoundariesFixed PROVE MigrationSpec => []ContentsInv
  OBVIOUS
<1>1. MigrationInit => ContentsInv
  BY TransitionInit, RecordedInit, ContentsInit DEF ContentsInv
<1>2. ContentsInv /\ [MigrationNext]_migrationVars => ContentsInv'
  BY ContentsStep
<1> QED BY <1>1, <1>2, PTL DEF MigrationSpec

-----------------------------------------------------------------------------
(* The version moves. *)

\* Only the end of a pass moves the version, and it has nothing left to execute.
LEMMA Moves ==
    ASSUME TransitionInv, [MigrationNext]_migrationVars, version' # version
    PROVE  /\ plan.set /\ version' = plan.desired /\ at # 0 /\ ~Migrating /\ Commit
           /\ \A i \in DOMAIN plan.pending : Key(plan.pending[i]) \in mem.executed
<1>1. MigrationTypeOK /\ PlanSound(plan, version)
  BY DEF TransitionInv
<1>2. Commit
  <2>1. CASE User
    BY <1>1, <2>1, UserFrame DEF transitionStatus
  <2>2. CASE StartPass
    <3>1. PICK o \in Outcomes : Stopped(o.plan) \/ PlanProceeds(o.plan)
      BY <1>1, <2>2, StartFrame
    <3> QED BY <3>1 DEF Stopped, PlanProceeds, transitionStatus
  <2>3. CASE RunMigrationAction \/ CompleteMigration
    BY <2>3 DEF RunMigrationAction, CompleteMigration, transitionStatus
  <2>4. CASE StageSucceeds \/ StageFails \/ FailMigrationAction \/ Crash \/ Interval
    BY <2>4 DEF StageSucceeds, StageFails, FailMigrationAction, FailTransition, Crash, Interval, transitionStatus
  <2>5. CASE UNCHANGED migrationVars
    BY <2>5 DEF migrationVars, transitionStatus
  <2> QED BY <2>1, <2>2, <2>3, <2>4, <2>5 DEF MigrationNext, MigrationPass
<1>3. at = Len(StageList) /\ at # 0 /\ ~Migrating /\ plan.set /\ version' = plan.desired
  BY <1>2, EndFrame DEF Commit
<1>4. ASSUME NEW i \in DOMAIN plan.pending PROVE Key(plan.pending[i]) \in mem.executed
  <2>1. AnchorStage(plan.pending[i].stage) \in 1 .. Len(StageList)
    BY <1>1, PlannedMigration
  <2>2. AnchorStage(plan.pending[i].stage) <= at
    BY <1>3, <2>1
  <2> QED BY <1>3, <2>2, StageDone
<1> QED BY <1>2, <1>3, <1>4

LEMMA MovesFinished ==
    ASSUME TransitionInv, [MigrationNext]_migrationVars, version' # version
    PROVE  /\ NoBoundarySkipped
           /\ version # NoVersion /\ spec.approvalMode = "Always" => version' \in granted
<1>1. PlanSound(plan, version)
  BY DEF TransitionInv
<1>2. plan.set /\ version' = plan.desired
  BY Moves
<1>3. ASSUME NEW i \in DOMAIN plan.pending PROVE <<Key(plan.pending[i]), Direction>> \in completed
  <2>1. /\ plan.pending[i] \in AllMigrations /\ Way(plan.pending[i], version) = Direction
    BY <1>1, PlannedMigration
  <2>2. Key(plan.pending[i]) \in mem.executed
    BY Moves
  <2>3. PICK n \in AllMigrations : Key(plan.pending[i]) = Key(n) /\ <<Key(n), Way(n, version)>> \in completed
    BY <2>2 DEF TransitionInv, LedgersInv, LedgerInv
  <2>4. n = plan.pending[i]
    BY <2>1, <2>3, LaddersAssumption
  <2> QED BY <2>1, <2>3, <2>4
<1>4. version # NoVersion /\ spec.approvalMode = "Always" => version' \in granted
  BY <1>2 DEF TransitionInv, GrantInv
<1> QED BY <1>3, <1>4 DEF NoBoundarySkipped

LEMMA MovesWithLastContent ==
    ASSUME ContentsInv, [MigrationNext]_migrationVars, version' # version PROVE LastContentWins
<1> SUFFICES ASSUME ~plan.downgrade, crashes = 0, NEW i \in DOMAIN plan.pending
             PROVE  content[plan.pending[i].name] = plan.pending[i].digest
  BY DEF LastContentWins
<1> DEFINE n == plan.pending[i]
<1>1. TransitionInv /\ PlanSound(plan, version)
  BY DEF ContentsInv, TransitionInv
<1>2. n \in AllMigrations /\ n.to \in Versions /\ version \in Versions
  BY <1>1, PlannedMigration
<1>3. Ahead(n)
  <2>1. Crosses(plan, version, n)
    BY <1>1 DEF PlanSound
  <2>2. version < n.to /\ {version, n.to} \subseteq Nat
    BY <1>2, <2>1, MigrationAssumption DEF Crosses
  <2> QED BY <1>2, <2>2 DEF Ahead
<1>4. at # 0 /\ ~Migrating /\ Key(n) \in mem.executed
  BY <1>1, Moves
<1>5. AllDone(Led, n, n.actions, "up") /\ ~Superseded(n)
  BY <1>4, NotSuperseded DEF Led, AllDone
<1> QED BY <1>2, <1>3, <1>5 DEF ContentsInv, UpInv

-----------------------------------------------------------------------------
(* The schema. *)

LEMMA SchemaInit == MigrationInit => SchemaInv
<1> SUFFICES ASSUME MigrationInit PROVE SchemaInv
  OBVIOUS
<1>1. \A m \in AllMigrations : content[m.name] = NoAnchor
  BY DEF MigrationInit, AllMigrations
<1>2. plan.set = FALSE /\ plan.downgrade = FALSE
  BY DEF MigrationInit, NoPlan
<1> QED BY <1>1, <1>2 DEF SchemaInv

\* While the target stands and nothing is crossed, nothing moves.
LEMMA SchemaSame ==
    ASSUME SchemaInv, UNCHANGED <<version, content>>, completed \subseteq completed', Target' = Target \/ completed = {},
           plan'.set => plan'.desired = Target', plan' = plan \/ ~plan'.downgrade
    PROVE  SchemaInv'
BY DEF SchemaInv, Behind

LEMMA SchemaCommit ==
    ASSUME ContentsInv, SchemaInv, BoundariesFixed, Commit PROVE SchemaInv'
<1>1. PlanSound(plan, version) /\ MigrationTypeOK /\ TransitionInv
  BY DEF ContentsInv, TransitionInv
<1>2. plan' = NoPlan /\ NoPlan.set = FALSE /\ NoPlan.downgrade = FALSE /\ content' = content
      /\ UNCHANGED <<spec, rollbackTo>>
  BY EndFrame, Planless DEF userVars
<1>3. CASE ~plan.set
  <2>1. UNCHANGED <<version, completed>>
    BY <1>3 DEF Commit
  <2>2. Target' = Target
    BY <1>2, <2>1 DEF Target, RollbackDirective
  <2> QED BY <1>2, <2>1, <2>2, SchemaSame
<1>4. CASE plan.set
  <2>1. version' = plan.desired /\ version' \in Versions /\ plan.desired = Target
    BY <1>1, <1>4 DEF Commit, PlanSound, SchemaInv
  <2>2. ASSUME NEW m \in AllMigrations, m.to \in Versions, content[m.name] # NoAnchor, m.to > plan.desired
        PROVE  FALSE
    <3>1. m.to \in Nat /\ plan.desired \in Nat /\ (version \in Versions => version \in Nat)
          /\ version \in Versions \cup {NoVersion}
      BY <1>1, <2>1, <2>2, MigrationAssumption DEF MigrationTypeOK
    <3>2. ~(version = NoVersion \/ m.to > version)
      <4>1. SUFFICES ASSUME version = NoVersion \/ m.to > version PROVE FALSE
        OBVIOUS
      <4>2. m.to <= Target
        BY <2>2, <4>1 DEF SchemaInv
      <4> QED BY <2>1, <2>2, <3>1, <4>2
    <3>3. version \in Versions /\ version # NoVersion /\ m.to <= version
      BY <3>1, <3>2
    <3>4. plan.downgrade
      <4>1. ~plan.downgrade => version <= plan.desired
        BY <1>1, <1>4, <3>3 DEF PlanSound
      <4> QED BY <2>2, <3>1, <3>3, <4>1
    <3>5. PICK i \in DOMAIN plan.pending : plan.pending[i].name = m.name
      BY <2>2, <3>3, <3>4 DEF SchemaInv, Behind
    <3> DEFINE n == plan.pending[i]
    <3>6. n \in AllMigrations /\ n.to \in Versions /\ AnchorStage(n.stage) \in 1 .. Len(StageList)
      BY <1>1, PlannedMigration
    <3>7. n.to <= version
      BY <1>1, <3>4 DEF PlanSound, Crosses
    <3>8. Key(n) \in mem.executed
      <4>1. at # 0 /\ at = Len(StageList) /\ ~Migrating
        BY EndFrame DEF Commit
      <4>2. AnchorStage(n.stage) <= at
        BY <3>6, <4>1
      <4> QED BY <1>1, <4>1, <4>2, StageDone
    <3>9. Behind(n) /\ AllDone(mem, n, n.down, "down")
      BY <3>3, <3>6, <3>7, <3>8 DEF Behind, AllDone
    <3>10. content[n.name] = NoAnchor
      BY <3>6, <3>9 DEF ContentsInv, DownInv
    <3> QED BY <2>2, <3>5, <3>10
  <2>3. version' # NoVersion
    BY <2>1, MigrationAssumption
  <2> QED BY <1>2, <2>1, <2>2, <2>3 DEF SchemaInv
<1> QED BY <1>3, <1>4

\* A boundary that is crossed upwards is on the way to the target.
LEMMA SchemaCrossing ==
    ASSUME TransitionInv, Recorded, SchemaInv, BoundariesFixed, NEW i \in DOMAIN plan.pending,
           content' \in {content, Crossed(plan.pending[i])}, content' # content => completed' # {},
           completed \subseteq completed', UNCHANGED <<spec, rollbackTo, version, plan>>
    PROVE  SchemaInv'
<1> DEFINE n == plan.pending[i]
<1>1. PlanSound(plan, version)
  BY DEF TransitionInv
<1>2. n \in AllMigrations /\ version \in Versions
  BY <1>1, PlannedMigration
<1>3. Target' = Target
  BY DEF Target, RollbackDirective
<1>4. plan.set /\ plan.desired = Target /\ plan.desired \in Versions
  BY <1>1 DEF PlanSound, SchemaInv
<1>5. ASSUME NEW m \in AllMigrations, m.to \in Versions, content'[m.name] # NoAnchor, version = NoVersion \/ m.to > version
      PROVE  completed' # {} /\ Target \in Versions /\ m.to <= Target
  <2>1. CASE content[m.name] # NoAnchor
    BY <1>5, <2>1 DEF SchemaInv
  <2>2. CASE content[m.name] = NoAnchor
    <3>1. content' # content /\ content' = Crossed(n)
      BY <1>5, <2>2
    <3>2. m.name = n.name
      BY <1>2, <1>5, <2>2, <3>1, CrossedContent
    <3>3. ~plan.downgrade
      BY <1>2, <1>5, <3>1, <3>2, CrossedContent
    <3>4. m.to <= plan.desired
      BY <1>1, <1>5, <3>2, <3>3, CrossingSide
    <3> QED BY <1>4, <3>1, <3>4
  <2> QED BY <2>1, <2>2
<1> HIDE DEF n
<1> QED BY <1>2, <1>3, <1>5 DEF SchemaInv, Behind

LEMMA SchemaStart ==
    ASSUME ContentsInv, SchemaInv, BoundariesFixed, BoundariesStay, StartPass PROVE SchemaInv'
<1>1. MigrationTypeOK
  BY DEF ContentsInv, TransitionInv
<1>2. UNCHANGED <<spec, rollbackTo, content, completed>> /\ at = 0
  BY <1>1, StartFrame
<1>3. PICK o \in Outcomes : Stopped(o.plan) \/ PlanProceeds(o.plan)
  BY <1>1, StartFrame
<1>4. version' = version
  BY <1>3 DEF Stopped, PlanProceeds, transitionStatus
<1>5. Target' = Target
  BY <1>2, <1>4 DEF Target, RollbackDirective
<1>6. CASE Stopped(o.plan)
  <2>1. plan' = plan
    BY <1>6 DEF Stopped, passVars
  <2>2. plan'.set => plan'.desired = Target'
    BY <1>5, <2>1 DEF SchemaInv
  <2> QED BY <1>2, <1>4, <1>5, <2>1, <2>2, SchemaSame
<1>7. CASE PlanProceeds(o.plan)
  <2>1. plan' = o.plan
    BY <1>7 DEF PlanProceeds
  <2>2. /\ o.plan.set => o.plan.desired = Target
        /\ o.plan.downgrade => o.plan.set /\ ValidateLadder(spec.ladder)
              /\ \A k \in DOMAIN spec.ladder :
                    spec.ladder[k].to > o.plan.desired /\ spec.ladder[k].to <= version =>
                        \E j \in DOMAIN o.plan.pending : o.plan.pending[j] = spec.ladder[k]
    BY <1>1, PlanShape DEF Target
  <2>3. ASSUME o.plan.downgrade, NEW m \in AllMigrations, Behind(m), m.to > o.plan.desired
        PROVE  \E j \in DOMAIN o.plan.pending : o.plan.pending[j].name = m.name
    <3>1. spec.ladder \in Ladders /\ ValidateLadder(spec.ladder) /\ m.to \in Versions
      BY <1>1, <2>2, <2>3 DEF MigrationTypeOK, SpecType, Behind
    <3>2. PICK n \in ToSet(spec.ladder) : n.name = m.name
      BY <3>1 DEF BoundariesStay
    <3>3. PICK k \in DOMAIN spec.ladder : n = spec.ladder[k]
      BY <3>1, LadderShape DEF ToSet
    <3>4. n \in AllMigrations /\ n.to \in Versions
      BY <3>1, <3>3, ValidEntries
    <3>5. n.to = m.to
      BY <3>1, <3>2, <3>4 DEF BoundariesFixed
    <3> QED BY <2>2, <2>3, <3>2, <3>3, <3>5 DEF Behind
  <2>4. \A m \in AllMigrations :
          m.to \in Versions /\ content[m.name] # NoAnchor /\ (version = NoVersion \/ m.to > version) =>
              version \in Versions /\ completed # {} /\ Target \in Versions /\ m.to <= Target
    BY DEF SchemaInv
  <2> QED BY <1>2, <1>4, <1>5, <2>1, <2>2, <2>3, <2>4 DEF SchemaInv, Behind
<1> QED BY <1>3, <1>6, <1>7

LEMMA SchemaStep ==
    ASSUME ~EditsInFlight, BoundariesFixed, BoundariesStay, ContentsInv, SchemaInv, [MigrationNext]_migrationVars
    PROVE  SchemaInv'
<1>1. MigrationTypeOK /\ PlanSound(plan, version) /\ TransitionInv /\ Recorded
  BY DEF ContentsInv, TransitionInv
<1>2. (plan.set => plan.desired = Target) /\ NoPlan.set = FALSE /\ NoPlan.downgrade = FALSE
  BY Planless DEF SchemaInv
<1>3. CASE User
  <2>1. UNCHANGED <<version, content, completed, plan>>
    BY <1>1, <1>3, UserFrame DEF transitionStatus, passVars
  <2>2. CASE InFlight
    <3>1. spec'.version = spec.version /\ rollbackTo' = rollbackTo
      BY <1>1, <1>3, <2>2, UserFrame
    <3>2. Target' = Target
      BY <2>1, <3>1 DEF Target, RollbackDirective
    <3>3. plan'.set => plan'.desired = Target'
      BY <1>2, <2>1, <3>2
    <3> QED BY <2>1, <3>2, <3>3, SchemaSame
  <2>3. CASE ~InFlight
    <3>1. completed = {} /\ plan = NoPlan
      BY <1>1, <2>3 DEF InFlight, MigrationTypeOK
    <3>2. ~plan'.set /\ ~plan'.downgrade
      BY <1>2, <2>1, <3>1
    <3> QED BY <2>1, <3>1, <3>2, SchemaSame
  <2> QED BY <2>2, <2>3
<1>4. CASE StartPass
  BY <1>4, SchemaStart
<1>5. CASE RunMigrationAction
  <2>1. PICK i \in DOMAIN plan.pending : \E j \in DOMAIN Acts(plan.pending[i]) : Acting(plan.pending[i], j)
    BY <1>1, <1>5, ActingFrame
  <2>2. content' \in {content, Crossed(plan.pending[i])} /\ completed \subseteq completed'
        /\ (content' # content => completed' # {})
    BY <2>1 DEF Acting
  <2>3. UNCHANGED <<spec, rollbackTo, version, plan>>
    BY <2>1 DEF Acting, userVars, transitionStatus
  <2> QED BY <1>1, <2>2, <2>3, SchemaCrossing
<1>6. CASE CompleteMigration
  <2>1. PICK i \in DOMAIN plan.pending : Completing(plan.pending[i])
    BY <1>1, <1>6, CompletingFrame
  <2>2. content' \in {content, Crossed(plan.pending[i])} /\ completed \subseteq completed'
        /\ (content' # content => completed' # {})
    BY <2>1 DEF Completing
  <2>3. UNCHANGED <<spec, rollbackTo, version, plan>>
    BY <2>1 DEF Completing, userVars, transitionStatus
  <2> QED BY <1>1, <2>2, <2>3, SchemaCrossing
<1>7. CASE Commit
  BY <1>7, SchemaCommit
<1>8. CASE FailMigrationAction \/ StageFails \/ Crash
  <2>1. UNCHANGED <<version, completed>>
    BY <1>8 DEF FailMigrationAction, StageFails, Crash, FailTransition, transitionStatus, transitionHistory
  <2>2. plan' = NoPlan /\ UNCHANGED <<spec, rollbackTo, content>>
    BY <1>8, EndFrame DEF userVars
  <2>3. Target' = Target
    BY <2>1, <2>2 DEF Target, RollbackDirective
  <2>4. ~plan'.set /\ ~plan'.downgrade
    BY <1>2, <2>2
  <2> QED BY <2>1, <2>2, <2>3, <2>4, SchemaSame
<1>9. CASE StageSucceeds \/ Interval \/ UNCHANGED migrationVars
  <2>1. UNCHANGED <<spec, rollbackTo, version, content, completed, plan>>
    BY <1>9 DEF StageSucceeds, Interval, migrationVars, userVars, transitionStatus, passVars, transitionHistory
  <2>2. Target' = Target
    BY <2>1 DEF Target, RollbackDirective
  <2>3. plan'.set => plan'.desired = Target'
    BY <1>2, <2>1, <2>2
  <2> QED BY <2>1, <2>2, <2>3, SchemaSame
<1> QED BY <1>3, <1>4, <1>5, <1>6, <1>7, <1>8, <1>9 DEF MigrationNext, MigrationPass

\* Between transitions nothing is ahead of the version.
LEMMA SchemaBehind == ASSUME MigrationTypeOK, SchemaInv PROVE SchemaNotAhead
<1> SUFFICES ASSUME ~InFlight, NEW i \in DOMAIN spec.ladder, spec.ladder[i].to \in Versions, version # NoVersion,
                    spec.ladder[i].to > version, content[spec.ladder[i].name] # NoAnchor
             PROVE  FALSE
  BY DEF SchemaNotAhead
<1>1. spec.ladder[i] \in AllMigrations
  BY LadderShape DEF MigrationTypeOK, SpecType
<1>2. completed # {}
  BY <1>1 DEF SchemaInv
<1> QED BY <1>2 DEF InFlight

-----------------------------------------------------------------------------
(* The theorems. *)

\* The ledgers keep their types, a completed action is repeated only when a crash has
\* lost its record, and a failing migration is attempted at most maxMigrationFailures
\* times (runStageMigrations, C:1632), under any edits, faults and crashes.
THEOREM RetriesSound == MigrationSpec => [](MigrationTypeOK /\ ActionsRunOnce /\ AttemptsBounded)
<1>1. TransitionInv => MigrationTypeOK /\ ActionsRunOnce /\ AttemptsBounded
  <2> SUFFICES ASSUME TransitionInv PROVE MigrationTypeOK /\ ActionsRunOnce /\ AttemptsBounded
    OBVIOUS
  <2>1. MigrationTypeOK /\ ActionsRunOnce
    BY DEF TransitionInv, RanInv, ActionsRunOnce
  <2>2. AttemptsBounded
    <3>1. attempts \in Nat /\ attempts <= Led.failures /\ Led.failures \in Nat
      BY <2>1 DEF TransitionInv, AttemptsInv, MigrationTypeOK, LedgerType, Led
    <3>2. MaxMigrationFailures \in Nat /\ MaxMigrationFailures >= 2
      BY MigrationAssumption
    <3> QED BY <3>1, <3>2 DEF TransitionInv, AttemptsInv, AttemptsBounded
  <2> QED BY <2>1, <2>2
<1> QED BY <1>1, TransitionAlways, PTL

\* The version moves (C:1378-1396) only when every boundary the plan selected has been
\* completed in the direction of the move, whatever was edited, failed or crashed in
\* between, and under approvalMode Always only to a version that was approved.
THEOREM BoundariesCrossed ==
    MigrationSpec => [][version' # version =>
        /\ NoBoundarySkipped
        /\ version # NoVersion /\ spec.approvalMode = "Always" => version' \in granted]_migrationVars
<1>1. TransitionInv /\ [MigrationNext]_migrationVars =>
        [version' # version =>
            /\ NoBoundarySkipped
            /\ version # NoVersion /\ spec.approvalMode = "Always" => version' \in granted]_migrationVars
  BY MovesFinished
<1> QED BY <1>1, TransitionAlways, PTL DEF MigrationSpec

\* It does so with the content planned as the last one completed for each boundary, as
\* long as no ladder moves a boundary to another version (PruneSuperseded,
\* migrations.go:606).
THEOREM MovesSafely == BoundariesFixed => (MigrationSpec => VersionMovesSafely)
<1> SUFFICES ASSUME BoundariesFixed PROVE MigrationSpec => VersionMovesSafely
  OBVIOUS
<1>1. ContentsInv /\ [MigrationNext]_migrationVars =>
        [version' # version =>
            /\ NoBoundarySkipped
            /\ LastContentWins
            /\ version # NoVersion /\ spec.approvalMode = "Always" => version' \in granted]_migrationVars
  BY MovesFinished, MovesWithLastContent DEF ContentsInv
<1>2. MigrationSpec => []ContentsInv
  BY ContentsAlways
<1> QED BY <1>1, <1>2, PTL DEF MigrationSpec, VersionMovesSafely

\* Between transitions no boundary above the deployed version is applied either, when
\* users retarget only between transitions and no ladder drops or moves a boundary:
\* every way up that is given up is undone by the way down (selectDown, the ledgers).
THEOREM LedgersAlwaysSound ==
    ~EditsInFlight /\ BoundariesFixed /\ BoundariesStay => (MigrationSpec => []LedgersSound)
<1> SUFFICES ASSUME ~EditsInFlight, BoundariesFixed, BoundariesStay PROVE MigrationSpec => []LedgersSound
  OBVIOUS
<1>1. MigrationInit => ContentsInv /\ SchemaInv
  BY TransitionInit, RecordedInit, ContentsInit, SchemaInit DEF ContentsInv
<1>2. ContentsInv /\ SchemaInv /\ [MigrationNext]_migrationVars => (ContentsInv /\ SchemaInv)'
  BY ContentsStep, SchemaStep
<1>3. ContentsInv /\ SchemaInv => SchemaNotAhead
  BY SchemaBehind DEF ContentsInv, TransitionInv
<1>4. MigrationSpec => []SchemaNotAhead
  BY <1>1, <1>2, <1>3, PTL DEF MigrationSpec
<1>5. MigrationTypeOK /\ ActionsRunOnce /\ AttemptsBounded /\ SchemaNotAhead => LedgersSound
  BY DEF LedgersSound
<1> QED BY <1>4, <1>5, RetriesSound, PTL
=============================================================================
