------------------------- MODULE ActionLedgerProofs -------------------------
(***************************************************************************)
(* What holds of the action ledgers for every list of stages and actions,  *)
(* every set of revisions and versions and every mix of disturbances: type *)
(* correctness, that a failing bootstrap is left alone, and that no side   *)
(* effect is repeated or skipped, but for the two exceptions the           *)
(* properties name.                                                        *)
(***************************************************************************)
EXTENDS ActionLedger, TLAPS

\* The tokens in use are bounded by the events so far.
BoundInv ==
    /\ force.token <= events /\ reset <= events /\ witness <= events + 1
    /\ force.token # 0 => force.stage \in StageNames

\* The ledgers a pass holds in memory are filed by scope like those it read.
FiledInv ==
    pass # NoPass =>
        /\ \A s \in StageNames : Filed(s, pass.prior[s]) /\ Filed(s, pass.out[s])
        /\ pass.at <= Len(Stages) => Filed(stage, pass.led)

\* The executor works on a list of the stage, on what its ledger does not have.
TodoInv ==
    pass # NoPass =>
        /\ pass.pc = "enter" => pass.todo = {}
        /\ pass.pc # "enter" => pass.at <= Len(Stages)
        /\ pass.pc \in {"pre", "post"} => pass.todo \subseteq PrePost(stage) \ pass.led.done
        /\ pass.pc = "onFailure" => pass.todo \subseteq Range(OnFailure[stage])

\* Failed attempts were counted, or no attempt has failed since the halt.
Tally(n) == IF n < MaxActionFailures THEN attempts <= n ELSE attempts = 0

(***************************************************************************)
(* The counter keeps up with the attempts.  A pass that reached the limit  *)
(* is dirty, and between passes a StageSet at the limit is not queued      *)
(* unless something from outside has started the attempts over.            *)
(***************************************************************************)
FailInv ==
    /\ attempts <= MaxActionFailures
    /\ pass = NoPass => Tally(failCount) \/ (~queued /\ failCount = MaxActionFailures)
    /\ pass # NoPass => /\ ~queued
                        /\ pass.dirty => pass.pc = "onFailure" /\ pass.fails = MaxActionFailures
                        /\ ~pass.dirty => Tally(pass.fails)

IInv == TypeOK /\ BoundInv /\ FiledInv /\ TodoInv /\ FailInv

\* What is neither owed nor lost by an early failure is in the stage's ledger.
KeepsRev(s, led, w) == Scoped(s, "Revision") \subseteq w.owed \cup w.erased \cup led.executed
KeepsVer(s, led, w) == Scoped(s, "Version") \subseteq w.owed \cup w.erased \cup led.versioned

\* A ledger is of the key its stage was last entered at, or empty.
KeyRev(s, led, w) == led.rev = w.seen[s].rev \/ (led.rev = NoRev /\ led.executed = {})
KeyVer(s, led, w) == led.ver = w.seen[s].ver \/ (led.ver = NoVer /\ led.versioned = {})

\* What is in the ledger is not owed, but for what a reset did not get to.
TrueRev(s, led, w) == led.executed \cap w.owed \subseteq w.skipped
TrueVer(s, led, w) == led.versioned \cap w.owed \subseteq w.skipped

\* The ledger of stage s and an account tell the same story.
Agree(s, led, w) ==
    /\ KeepsRev(s, led, w) /\ KeyRev(s, led, w) /\ TrueRev(s, led, w)
    /\ KeepsVer(s, led, w) /\ KeyVer(s, led, w) /\ TrueVer(s, led, w)

\* A Lifetime action is owed as long as it has no completion.
Lives(w, c) == \A a \in Lifetime : a \in w.owed <=> c[a] = Nothing

\* A stage the pass has finished is in its output.
Behind(s) == pass.out[s] # NoStatus /\ Agree(s, pass.out[s], pass.work)

\* What a pass that stops leaves to stage s: its status, where a reset that was
\* not carried out counts as skipped.
Left(s) ==
    /\ KeepsRev(s, status[s], pass.work) /\ KeyRev(s, status[s], pass.work)
    /\ TrueRev(s, status[s], pass.work)
    /\ KeepsVer(s, status[s], pass.work) /\ KeyVer(s, status[s], pass.work)
    /\ pass.reset = resetDone => TrueVer(s, status[s], pass.work)

\* What stage s starts from: a forced stage has lost its revision ledger.
Before(s) ==
    /\ s # pass.forced => KeepsRev(s, pass.prior[s], pass.work)
    /\ s = pass.forced => pass.prior[s].executed = {}
    /\ KeyRev(s, pass.prior[s], pass.work) /\ TrueRev(s, pass.prior[s], pass.work)
    /\ KeepsVer(s, pass.prior[s], pass.work) /\ KeyVer(s, pass.prior[s], pass.work)
    /\ TrueVer(s, pass.prior[s], pass.work)

Ahead(s) == pass.out[s] = NoStatus /\ Left(s) /\ Before(s)

\* The stage in hand: its ledger, and what is left of its lists.
InHand ==
    /\ pass.out[stage] = NoStatus
    /\ Agree(stage, pass.led, pass.work)
    /\ pass.led.rev = pass.rev /\ pass.led.ver = pass.ver
    /\ pass.led.done \subseteq Scoped(stage, "Lifetime")
    /\ pass.led.done \cap pass.work.owed = {}
    /\ pass.todo \subseteq pass.work.owed \cup pass.work.erased
    /\ pass.pc = "pre" =>
          /\ Range(Post[stage]) \cap Lifetime \subseteq pass.led.done \cup pass.work.owed
          /\ Range(Pre[stage]) \cap pass.work.owed \subseteq pass.todo \cup pass.work.skipped
    /\ pass.pc = "post" =>
          PrePost(stage) \cap pass.work.owed \subseteq pass.todo \cup pass.work.skipped

(***************************************************************************)
(* The ledgers in the status agree with the account, and so does, in a     *)
(* pass, the output of the stages behind, the ledger of the stage in hand, *)
(* and what the stages ahead start from.                                   *)
(***************************************************************************)
OnceInv ==
    /\ \A s \in StageNames : Agree(s, status[s], truth)
    /\ Lives(truth, completed)
    /\ pass # NoPass =>
          /\ Lives(pass.work, completed)
          /\ \A i \in 1 .. Len(Stages) :
                /\ i < pass.at => Behind(Stages[i])
                /\ i > pass.at \/ (i = pass.at /\ pass.pc = "enter") => Ahead(Stages[i])
          /\ pass.pc # "enter" => InHand

-----------------------------------------------------------------------------
(* The operators. *)

\* The bounds are natural numbers, and an empty key is no revision or version.
LEMMA Limits ==
    /\ MaxActionFailures \in Nat /\ MaxActionFailures > 0 /\ MaxEvents \in Nat
    /\ NoRev \notin Revisions /\ NoVer \notin Versions
  BY LedgerAssumption

LEMMA ScopedActions ==
    ASSUME NEW s \in StageNames, NEW scope
    PROVE  Scoped(s, scope) \subseteq Actions
  BY DEF Scoped, PrePost, ActionsOf, Actions

LEMMA LifetimeActions == Lifetime \subseteq Actions
  BY ScopedActions DEF Lifetime

LEMMA StageInRange ==
    ASSUME NEW i \in 1 .. Len(Stages)
    PROVE  Stages[i] \in StageNames
  BY LedgerAssumption

\* The stage the loop is at is one of the spec.
LEMMA CurrentStage ==
    ASSUME pass \in Passes, pass.at <= Len(Stages)
    PROVE  stage \in StageNames
  <1>1. pass.at \in 1 .. (Len(Stages) + 1)
    BY DEF Passes
  <1>2. Len(Stages) \in Nat
    BY LedgerAssumption
  <1>. QED  BY <1>1, <1>2, StageInRange DEF stage

LEMMA NoStatusType ==
    /\ NoStatus \in StageStatus
    /\ \A s \in StageNames : Filed(s, NoStatus)
  BY Limits DEF NoStatus, StageStatus, Filed

LEMMA NoLedgerType ==
    /\ NoLedger \in Ledger
    /\ \A s : Filed(s, NoLedger)
  BY DEF NoLedger, Ledger, Filed

LEMMA NoPassDiffers == NoPass \notin Passes
  BY DEF NoPass, Passes

LEMMA StampType ==
    ASSUME NEW s \in StageNames, NEW led \in Ledger, Filed(s, led),
           NEW phase \in {"None", "Held", "Failed", "Verifying", "Ready"},
           NEW tok \in 0 .. MaxEvents
    PROVE  Stamp(phase, led, tok) \in StageStatus /\ Filed(s, Stamp(phase, led, tok))
  BY DEF Stamp, StageStatus, Ledger, Filed

LEMMA AssembledType ==
    ASSUME NEW s \in StageNames, pass \in Passes, Filed(s, pass.prior[s])
    PROVE  Assembled(s) \in Ledger /\ Filed(s, Assembled(s))
  <1>1. pass.prior[s] \in StageStatus
    BY DEF Passes
  <1>2. Scoped(s, "Version") \subseteq Actions
    BY ScopedActions
  <1>. QED  BY <1>1, <1>2 DEF Assembled, Ledger, Filed, Passes, StageStatus

LEMMA RecordedType ==
    ASSUME NEW s \in StageNames, NEW led \in Ledger, Filed(s, led),
           NEW a \in ActionsOf(s), a \notin Lifetime
    PROVE  /\ Recorded(led, s, a) \in Ledger /\ Filed(s, Recorded(led, s, a))
           /\ Recorded(led, s, a).done = led.done
  <1>1. a \in Actions
    BY DEF Actions
  <1>2. a \in Scoped(s, "Version") \/ a \in Scoped(s, "Revision")
    BY LedgerAssumption DEF Scoped, ActionsOf, Lifetime
  <1>. QED  BY <1>1, <1>2 DEF Recorded, Ledger, Filed

LEMMA EnteredType ==
    ASSUME NEW s \in StageNames, NEW w \in Account, pass \in Passes
    PROVE  Entered(w, s) \in Account
  <1>1. Scoped(s, "Version") \subseteq Actions /\ Scoped(s, "Revision") \subseteq Actions
    BY ScopedActions
  <1>2. pass.rev \in Revisions /\ pass.ver \in Versions
    BY DEF Passes
  <1>. QED  BY <1>1, <1>2 DEF Entered, Account

LEMMA PaidType ==
    ASSUME NEW w \in Account, NEW as
    PROVE  Paid(w, as) \in Account
  BY DEF Paid, Account

LEMMA OwingType ==
    ASSUME NEW w \in Account, NEW as \in SUBSET Actions
    PROVE  Owing(w, as) \in Account
  BY DEF Owing, Account

-----------------------------------------------------------------------------
(* The start. *)

LEMMA InitInv == Init => IInv
  <1>. SUFFICES ASSUME Init PROVE IInv
    OBVIOUS
  <1>. USE Limits
  <1>1. /\ revision \in Revisions /\ version \in Versions
        /\ force = NoForce /\ reset = 0 /\ witness \in {0, 1} /\ asserted = {} /\ events = 0
        /\ status = [s \in StageNames |-> NoStatus] /\ current = NoVer
        /\ resetDone = 0 /\ failCount = 0
        /\ completed = [a \in Lifetime |-> Nothing]
        /\ pass = NoPass /\ truth = NothingDone /\ attempts = 0
    BY Zenon DEF Init
  <1>2. request \in BOOLEAN /\ queued \in BOOLEAN
    BY Zenon DEF Init
  <1>3. InputType
    BY <1>1 DEF InputType, NoForce
  <1>4. StatusType
    BY <1>1, NoStatusType DEF StatusType
  <1>5. PassType
    <2>1. NothingDone \in Account
      BY DEF NothingDone, Account
    <2>. QED  BY <1>1, <2>1 DEF PassType, Nothing
  <1>6. BoundInv
    BY <1>1 DEF BoundInv, NoForce
  <1>7. FiledInv /\ TodoInv
    BY <1>1 DEF FiledInv, TodoInv
  <1>8. FailInv
    BY <1>1 DEF FailInv, Tally
  <1>. QED  BY <1>2, <1>3, <1>4, <1>5, <1>6, <1>7, <1>8 DEF IInv, TypeOK

-----------------------------------------------------------------------------
(* How a pass ends. *)

\* A status write ends the pass with well-typed stages, counters and account.
LEMMA WriteInv ==
    ASSUME IInv, pass # NoPass,
           NEW out \in [StageNames -> StageStatus],
           \A s \in StageNames : Filed(s, out[s]),
           NEW w \in Account, NEW again \in SUBSET BOOLEAN,
           Write(out, w, again),
           pass.dirty => attempts' = 0 \/ again = {FALSE},
           attempts' \in {attempts, 0}, UNCHANGED <<request, completed>>
    PROVE  IInv'
  <1>. USE Limits
  <1>1. pass \in Passes
    BY DEF IInv, TypeOK, PassType
  <1>2. pass.reset \in 0 .. MaxEvents /\ pass.fails \in 0 .. MaxActionFailures
    BY <1>1 DEF Passes
  <1>3. /\ status' = Merged(out) /\ resetDone' = pass.reset /\ failCount' = pass.fails
        /\ pass' = NoPass /\ queued' \in again /\ UNCHANGED <<inputVars, current>>
    BY Zenon DEF Write
  <1>4. truth' \in Account
    <2>. DEFINE lost == IF pass.reset = resetDone THEN {}
                        ELSE UNION {Scoped(s, "Version") :
                                    s \in {t \in StageNames : out[t] = NoStatus}}
    <2>1. lost \in SUBSET Actions
      BY ScopedActions
    <2>2. truth' = [w EXCEPT !.skipped = @ \cup lost]
      BY DEF Write
    <2>. HIDE DEF lost
    <2>. QED  BY <2>1, <2>2 DEF Account
  <1>5. InputType' /\ BoundInv'
    BY <1>3 DEF IInv, TypeOK, InputType, BoundInv, inputVars
  <1>6. StatusType'
    BY <1>2, <1>3 DEF IInv, TypeOK, StatusType, Merged, Filed
  <1>7. PassType'
    BY <1>3, <1>4 DEF IInv, TypeOK, PassType
  <1>8. request' \in BOOLEAN /\ queued' \in BOOLEAN
    BY <1>3, Zenon DEF IInv, TypeOK
  <1>9. FiledInv' /\ TodoInv'
    BY <1>3 DEF FiledInv, TodoInv
  <1>10. FailInv'
    <2>1. attempts \in Nat /\ attempts <= MaxActionFailures
      BY DEF IInv, TypeOK, PassType, FailInv
    <2>2. CASE ~pass.dirty
      <3>1. Tally(pass.fails)
        BY <2>2 DEF IInv, FailInv
      <3>. QED  BY <1>2, <1>3, <2>1, <3>1 DEF FailInv, Tally
    <2>3. CASE pass.dirty
      <3>1. pass.fails = MaxActionFailures
        BY <2>3 DEF IInv, FailInv
      <3>2. attempts' = 0 \/ ~queued'
        BY <1>3, <2>3, Zenon
      <3>. QED  BY <1>3, <2>1, <3>1, <3>2 DEF FailInv, Tally
    <2>. QED  BY <2>2, <2>3
  <1>. QED  BY <1>5, <1>6, <1>7, <1>8, <1>9, <1>10 DEF IInv, TypeOK

\* failStage keeps the invariant, whatever is queued afterwards.
LEMMA FailStageInv ==
    ASSUME IInv, pass # NoPass, pass.at <= Len(Stages),
           NEW led \in Ledger, Filed(stage, led), NEW w \in Account,
           FailStage(led, w), UNCHANGED <<request, completed, attempts>>
    PROVE  IInv'
  <1>1. pass \in Passes /\ ~queued /\ stage \in StageNames
    BY CurrentStage DEF IInv, TypeOK, PassType, FailInv
  <1>. DEFINE st == Stamp("Failed", led, 0)
              out == [pass.out EXCEPT ![stage] = st]
              again == IF pass.dirty THEN {queued} ELSE {TRUE, queued}
  <1>2. st \in StageStatus /\ Filed(stage, st)
    BY <1>1, StampType, Limits
  <1>3. pass.out \in [StageNames -> StageStatus]
    BY <1>1 DEF Passes
  <1>. HIDE DEF st
  <1>4. out \in [StageNames -> StageStatus] /\ \A s \in StageNames : Filed(s, out[s])
    BY <1>1, <1>2, <1>3 DEF IInv, FiledInv
  <1>5. again \in SUBSET BOOLEAN /\ (pass.dirty => again = {FALSE})
    BY <1>1, Zenon DEF IInv, TypeOK
  <1>6. Write(out, w, again)
    BY DEF FailStage, st
  <1>. HIDE DEF out, again
  <1>. QED  BY <1>4, <1>5, <1>6, WriteInv

LEMMA HoldStageInv == IInv /\ HoldStage => IInv'
  <1>. SUFFICES ASSUME IInv, HoldStage PROVE IInv'
    OBVIOUS
  <1>1. pass \in Passes /\ stage \in StageNames /\ pass # NoPass
    BY CurrentStage, NoPassDiffers DEF HoldStage, AtStage, IInv, TypeOK, PassType
  <1>. DEFINE held == IF pass.prior[stage] = NoStatus
                      THEN [NoStatus EXCEPT !.phase = "Held"] ELSE pass.prior[stage]
              out == [pass.out EXCEPT ![stage] = held]
              w == IF stage = pass.forced THEN Owing(pass.work, Scoped(stage, "Revision"))
                   ELSE pass.work
  <1>2. held \in StageStatus /\ Filed(stage, held)
    BY <1>1, Limits DEF IInv, FiledInv, NoStatus, StageStatus, Filed, Passes
  <1>3. w \in Account
    BY <1>1, ScopedActions, OwingType DEF Passes
  <1>4. pass.out \in [StageNames -> StageStatus] /\ ~pass.dirty
    BY <1>1 DEF Passes, HoldStage, AtStage, IInv, FailInv
  <1>. HIDE DEF held
  <1>5. out \in [StageNames -> StageStatus] /\ \A s \in StageNames : Filed(s, out[s])
    BY <1>1, <1>2, <1>4 DEF IInv, FiledInv
  <1>6. Write(out, w, {TRUE}) /\ UNCHANGED <<request, completed, attempts>>
    BY DEF HoldStage, held
  <1>. HIDE DEF out, w
  <1>. QED  BY <1>1, <1>3, <1>4, <1>5, <1>6, WriteInv

LEMMA FailConnectInv == IInv /\ FailConnect => IInv'
  <1>. SUFFICES ASSUME IInv, FailConnect PROVE IInv'
    OBVIOUS
  <1>1. pass \in Passes /\ pass # NoPass /\ pass.at <= Len(Stages)
    BY NoPassDiffers DEF FailConnect, AtStage, IInv, TypeOK, PassType
  <1>2. stage \in StageNames /\ pass.work \in Account
    BY <1>1, CurrentStage DEF Passes
  <1>3. Assembled(stage) \in Ledger /\ Filed(stage, Assembled(stage))
    BY <1>1, <1>2, AssembledType DEF IInv, FiledInv
  <1>4. Entered(pass.work, stage) \in Account
    BY <1>1, <1>2, EnteredType
  <1>. QED  BY <1>1, <1>3, <1>4, FailStageInv DEF FailConnect

\* A stage whose ledger is in hand is written with it.
LEMMA StampedInv ==
    ASSUME IInv, pass # NoPass, pass.at <= Len(Stages),
           NEW phase \in {"Failed", "Verifying", "Ready"}, NEW tok \in 0 .. MaxEvents,
           Write([pass.out EXCEPT ![stage] = Stamp(phase, pass.led, tok)], pass.work, {TRUE}),
           pass.dirty => attempts' = 0,
           attempts' \in {attempts, 0}, UNCHANGED <<request, completed>>
    PROVE  IInv'
  <1>1. pass \in Passes /\ stage \in StageNames
    BY CurrentStage DEF IInv, TypeOK, PassType
  <1>. DEFINE st == Stamp(phase, pass.led, tok)
              out == [pass.out EXCEPT ![stage] = st]
  <1>2. pass.led \in Ledger /\ pass.work \in Account /\ pass.out \in [StageNames -> StageStatus]
    BY <1>1 DEF Passes
  <1>3. st \in StageStatus /\ Filed(stage, st)
    BY <1>1, <1>2, StampType DEF IInv, FiledInv
  <1>. HIDE DEF st
  <1>4. out \in [StageNames -> StageStatus] /\ \A s \in StageNames : Filed(s, out[s])
    BY <1>1, <1>2, <1>3 DEF IInv, FiledInv
  <1>5. Write(out, pass.work, {TRUE})
    BY DEF st
  <1>. HIDE DEF out
  <1>. QED  BY <1>2, <1>4, <1>5, WriteInv

LEMMA FinishFailureInv == IInv /\ FinishFailure => IInv'
  <1>. SUFFICES ASSUME IInv, FinishFailure PROVE IInv'
    OBVIOUS
  <1>1. pass \in Passes /\ pass # NoPass /\ pass.at <= Len(Stages)
    BY NoPassDiffers DEF FinishFailure, AtStage, IInv, TypeOK, PassType
  <1>2. pass.led \in Ledger /\ pass.work \in Account /\ Filed(stage, pass.led)
    BY <1>1 DEF Passes, IInv, FiledInv
  <1>3. CASE FailStage(pass.led, pass.work) /\ UNCHANGED attempts
    BY <1>1, <1>2, <1>3, FailStageInv DEF FinishFailure
  <1>4. CASE /\ Write([pass.out EXCEPT ![stage] = Stamp("Failed", pass.led, 0)], pass.work, {TRUE})
             /\ attempts' = 0
    BY <1>1, <1>4, Limits, StampedInv DEF FinishFailure
  <1>. QED  BY <1>3, <1>4 DEF FinishFailure

LEMMA HoldForProgressInv == IInv /\ HoldForProgress => IInv'
  <1>. SUFFICES ASSUME IInv, HoldForProgress PROVE IInv'
    OBVIOUS
  <1>1. pass \in Passes /\ pass # NoPass /\ pass.at <= Len(Stages) /\ ~pass.dirty
    BY NoPassDiffers DEF HoldForProgress, AtStage, IInv, TypeOK, PassType, FailInv
  <1>. QED  BY <1>1, Limits, StampedInv DEF HoldForProgress

\* The force token a finished stage records is one that was requested.
LEMMA HandledType ==
    ASSUME pass \in Passes, NEW s \in StageNames
    PROVE  LastHandledFor(s) \in 0 .. MaxEvents
  BY DEF LastHandledFor, Passes, StageStatus

LEMMA GateHoldsInv == IInv /\ GateHolds => IInv'
  <1>. SUFFICES ASSUME IInv, GateHolds PROVE IInv'
    OBVIOUS
  <1>1. pass \in Passes /\ pass # NoPass /\ pass.at <= Len(Stages) /\ ~pass.dirty
    BY NoPassDiffers DEF GateHolds, AtStage, IInv, TypeOK, PassType, FailInv
  <1>2. LastHandledFor(stage) \in 0 .. MaxEvents
    BY <1>1, CurrentStage, HandledType
  <1>. QED  BY <1>1, <1>2, StampedInv DEF GateHolds, Finished

-----------------------------------------------------------------------------
(* Inside a pass. *)

\* The part of FailInv that a step within a pass has to keep.
Counts(p, n) ==
    /\ n <= MaxActionFailures
    /\ p.dirty => p.pc = "onFailure" /\ p.fails = MaxActionFailures
    /\ ~p.dirty => IF p.fails < MaxActionFailures THEN n <= p.fails ELSE n = 0

LEMMA PassStep ==
    ASSUME IInv, pass # NoPass,
           pass' \in Passes, FiledInv', TodoInv', Counts(pass', attempts'),
           completed' \in [Lifetime -> -1 .. (MaxEvents + 1)],
           truth' \in Account, attempts' \in Nat,
           UNCHANGED <<inputVars, queued, request, statusVars>>
    PROVE  IInv'
  <1>1. InputType' /\ BoundInv'
    BY DEF IInv, TypeOK, InputType, BoundInv, inputVars
  <1>2. StatusType'
    BY DEF IInv, TypeOK, StatusType, statusVars, Filed
  <1>3. PassType'
    BY DEF PassType
  <1>4. request' \in BOOLEAN /\ queued' \in BOOLEAN
    BY Zenon DEF IInv, TypeOK
  <1>5. ~queued' /\ pass' # NoPass
    BY NoPassDiffers, Zenon DEF IInv, FailInv
  <1>6. FailInv'
    BY <1>5 DEF FailInv, Counts, Tally
  <1>. QED  BY <1>1, <1>2, <1>3, <1>4, <1>6 DEF IInv, TypeOK

LEMMA CountsHold == IInv /\ pass # NoPass => Counts(pass, attempts)
  BY DEF IInv, FailInv, Counts, Tally

LEMMA EnterStageInv == IInv /\ EnterStage => IInv'
  <1>. SUFFICES ASSUME IInv, EnterStage PROVE IInv'
    OBVIOUS
  <1>1. pass \in Passes /\ pass # NoPass /\ pass.at <= Len(Stages) /\ pass.pc = "enter"
    BY NoPassDiffers DEF EnterStage, AtStage, IInv, TypeOK, PassType
  <1>2. stage \in StageNames /\ pass.work \in Account
    BY <1>1, CurrentStage DEF Passes
  <1>3. PICK dropped \in {{}, Gone(stage)} :
          LET led == [Assembled(stage) EXCEPT
                          !.done = {a \in Scoped(stage, "Lifetime") :
                                      completed[a] # Nothing /\ a \notin dropped}]
          IN  /\ completed' = [a \in Lifetime |-> IF a \in dropped THEN Nothing ELSE completed[a]]
              /\ truth' = Owing(truth, dropped)
              /\ pass' = [pass EXCEPT !.pc = "pre", !.led = led,
                                      !.todo = Todo(Pre[stage], led),
                                      !.work = Owing(Entered(@, stage), dropped)]
    BY Zenon DEF EnterStage
  <1>. DEFINE done == {a \in Scoped(stage, "Lifetime") :
                        completed[a] # Nothing /\ a \notin dropped}
              led == [Assembled(stage) EXCEPT !.done = done]
              w == Owing(Entered(pass.work, stage), dropped)
  <1>4. dropped \in SUBSET Actions /\ done \in SUBSET Actions
    BY <1>2, ScopedActions DEF Gone
  <1>5. led \in Ledger /\ Filed(stage, led) /\ led.done = done
    <2>1. Assembled(stage) \in Ledger /\ Filed(stage, Assembled(stage))
      BY <1>1, <1>2, AssembledType DEF IInv, FiledInv
    <2>. HIDE DEF done
    <2>. QED  BY <1>4, <2>1 DEF Ledger, Filed
  <1>6. w \in Account /\ truth' \in Account
    BY <1>1, <1>2, <1>3, <1>4, EnteredType, OwingType DEF IInv, TypeOK, PassType
  <1>7. Todo(Pre[stage], led) \in SUBSET Actions
        /\ Todo(Pre[stage], led) \subseteq PrePost(stage) \ led.done
    <2>. HIDE DEF led
    <2>. QED  BY <1>2 DEF Todo, DoneSet, PrePost, ActionsOf, Actions
  <1>8. pass' = [pass EXCEPT !.pc = "pre", !.led = led, !.todo = Todo(Pre[stage], led), !.work = w]
    BY <1>3
  <1>. HIDE DEF done, led, w
  <1>9. pass' \in Passes
    BY <1>1, <1>5, <1>6, <1>7, <1>8 DEF Passes
  <1>10. /\ pass'.pc = "pre" /\ pass'.led = led /\ pass'.todo = Todo(Pre[stage], led)
         /\ pass'.at = pass.at /\ pass'.prior = pass.prior /\ pass'.out = pass.out
         /\ pass'.dirty = pass.dirty /\ pass'.fails = pass.fails
    BY <1>1, <1>8 DEF Passes
  <1>11. stage' = stage
    BY <1>10 DEF stage
  <1>12. FiledInv'
    BY <1>1, <1>5, <1>10, <1>11 DEF IInv, FiledInv, Filed
  <1>13. TodoInv'
    BY <1>1, <1>7, <1>10, <1>11 DEF TodoInv
  <1>14. Counts(pass', attempts') /\ attempts' \in Nat
    BY <1>1, <1>10, CountsHold DEF EnterStage, Counts, IInv, TypeOK, PassType
  <1>15. completed' \in [Lifetime -> -1 .. (MaxEvents + 1)]
    BY <1>3, Limits DEF IInv, TypeOK, PassType, Nothing
  <1>. QED
    BY <1>1, <1>6, <1>9, <1>12, <1>13, <1>14, <1>15, PassStep DEF EnterStage

\* An action the executor has come to belongs to the stage.
LEMMA RanFacts ==
    ASSUME IInv, NEW a, Ran(a)
    PROVE  /\ pass \in Passes /\ pass # NoPass /\ pass.at <= Len(Stages)
           /\ stage \in StageNames /\ a \in ActionsOf(stage)
           /\ pass.pc \in {"pre", "post", "onFailure"}
           /\ pass.work \in Account /\ pass.led \in Ledger /\ Filed(stage, pass.led)
           /\ pass.pc \in {"pre", "post"} => a \in PrePost(stage) \ pass.led.done
           /\ pass.pc = "onFailure" => a \in Range(OnFailure[stage])
  <1>1. pass \in Passes /\ pass # NoPass /\ pass.at <= Len(Stages)
        /\ pass.pc \in {"pre", "post", "onFailure"} /\ a \in pass.todo
    BY NoPassDiffers DEF Ran, Running, AtStage, IInv, TypeOK, PassType
  <1>2. stage \in StageNames /\ pass.work \in Account /\ pass.led \in Ledger
    BY <1>1, CurrentStage DEF Passes
  <1>3. /\ pass.pc \in {"pre", "post"} => a \in PrePost(stage) \ pass.led.done
        /\ pass.pc = "onFailure" => a \in Range(OnFailure[stage])
    BY <1>1 DEF IInv, TodoInv
  <1>4. a \in ActionsOf(stage)
    BY <1>1, <1>3 DEF ActionsOf
  <1>. QED  BY <1>1, <1>2, <1>3, <1>4 DEF IInv, FiledInv

LEMMA RunActionInv ==
    ASSUME IInv, NEW a \in Actions, RunAction(a)
    PROVE  IInv'
  <1>1. Ran(a) /\ a \notin Lifetime
    BY DEF RunAction
  <1>. DEFINE led == Recorded(pass.led, stage, a)
              w == Paid(pass.work, {a})
  <1>2. led \in Ledger /\ Filed(stage, led) /\ led.done = pass.led.done /\ w \in Account
    BY <1>1, RanFacts, RecordedType, PaidType
  <1>3. pass' = [pass EXCEPT !.led = led, !.todo = @ \ {a}, !.work = w]
    BY DEF RunAction
  <1>. HIDE DEF led, w
  <1>4. pass' \in Passes
    BY <1>1, <1>2, <1>3, RanFacts DEF Passes
  <1>5. /\ pass'.pc = pass.pc /\ pass'.led = led /\ pass'.todo = pass.todo \ {a}
        /\ pass'.at = pass.at /\ pass'.prior = pass.prior /\ pass'.out = pass.out
        /\ pass'.dirty = pass.dirty /\ pass'.fails = pass.fails
    BY <1>1, <1>3, RanFacts DEF Passes
  <1>6. stage' = stage
    BY <1>5 DEF stage
  <1>7. FiledInv'
    BY <1>1, <1>2, <1>5, <1>6, RanFacts DEF IInv, FiledInv, Filed
  <1>8. TodoInv'
    BY <1>1, <1>2, <1>5, <1>6, RanFacts DEF IInv, TodoInv
  <1>9. Counts(pass', attempts')
    BY <1>1, <1>5, RanFacts, CountsHold DEF RunAction, Counts
  <1>. QED
    BY <1>1, <1>4, <1>7, <1>8, <1>9, RanFacts, PassStep DEF RunAction, IInv, TypeOK, PassType

LEMMA RunLifetimeInv ==
    ASSUME IInv, NEW a \in Actions, RunLifetime(a)
    PROVE  IInv'
  <1>1. Ran(a) /\ a \in Lifetime
    BY DEF RunLifetime
  <1>. DEFINE w == Paid(pass.work, {a})
  <1>2. w \in Account /\ truth' \in Account
    BY <1>1, RanFacts, PaidType DEF RunLifetime, IInv, TypeOK, PassType
  <1>3. pass' = [pass EXCEPT !.todo = @ \ {a}, !.work = w]
    BY DEF RunLifetime
  <1>. HIDE DEF w
  <1>4. pass' \in Passes
    BY <1>1, <1>2, <1>3, RanFacts DEF Passes
  <1>5. /\ pass'.pc = pass.pc /\ pass'.led = pass.led /\ pass'.todo = pass.todo \ {a}
        /\ pass'.at = pass.at /\ pass'.prior = pass.prior /\ pass'.out = pass.out
        /\ pass'.dirty = pass.dirty /\ pass'.fails = pass.fails
    BY <1>1, <1>3, RanFacts DEF Passes
  <1>6. stage' = stage
    BY <1>5 DEF stage
  <1>7. FiledInv' /\ TodoInv'
    BY <1>1, <1>5, <1>6, RanFacts DEF IInv, FiledInv, TodoInv, Filed
  <1>8. Counts(pass', attempts')
    BY <1>1, <1>5, RanFacts, CountsHold DEF RunLifetime, Counts
  <1>9. completed' \in [Lifetime -> -1 .. (MaxEvents + 1)]
    BY <1>1, Limits DEF RunLifetime, IInv, TypeOK, PassType, InputType
  <1>. QED
    BY <1>1, <1>2, <1>4, <1>7, <1>8, <1>9, RanFacts, PassStep
       DEF RunLifetime, IInv, TypeOK, PassType

\* A Lifetime action is never an onFailure action.
LEMMA LifetimePrePost ==
    ASSUME NEW s \in StageNames, NEW a \in ActionsOf(s), a \in Lifetime
    PROVE  a \in Scoped(s, "Lifetime") /\ a \notin Range(OnFailure[s])
  <1>1. PICK t \in StageNames : a \in Scoped(t, "Lifetime")
    BY DEF Lifetime
  <1>2. a \in PrePost(t) /\ a \in ActionsOf(t)
    BY <1>1 DEF Scoped, ActionsOf
  <1>3. t = s
    BY <1>2, LedgerAssumption
  <1>. QED  BY <1>1, <1>2, <1>3, LedgerAssumption

\* Counting a failure keeps up with one more attempt, and with none.
LEMMA CountedFacts ==
    ASSUME IInv, pass \in Passes, pass.pc \in {"pre", "post"}, NEW n \in Nat,
           n = attempts \/ (n = attempts + 1 /\ ~(Scoped(stage, "Lifetime") \subseteq pass.led.done))
    PROVE  /\ Counted \in Passes
           /\ Counted.at = pass.at /\ Counted.prior = pass.prior /\ Counted.out = pass.out
           /\ Counted.led = pass.led
           /\ n <= MaxActionFailures
           /\ Counted.dirty => Counted.fails = MaxActionFailures
           /\ ~Counted.dirty => IF Counted.fails < MaxActionFailures THEN n <= Counted.fails ELSE n = 0
  <1>. USE Limits
  <1>1. attempts \in Nat /\ Counts(pass, attempts)
    BY CountsHold, NoPassDiffers DEF IInv, TypeOK, PassType
  <1>2. pass.fails \in 0 .. MaxActionFailures /\ ~pass.dirty
    BY <1>1 DEF Passes, Counts
  <1>3. CASE Scoped(stage, "Lifetime") \subseteq pass.led.done
    BY <1>1, <1>2, <1>3 DEF Counted, Counts
  <1>4. CASE ~(Scoped(stage, "Lifetime") \subseteq pass.led.done)
    <2>. DEFINE k == IF pass.fails < MaxActionFailures THEN pass.fails + 1 ELSE pass.fails
                d == k >= MaxActionFailures
    <2>1. k \in 0 .. MaxActionFailures /\ (k < MaxActionFailures => k = pass.fails + 1)
      BY <1>2
    <2>2. Counted = [pass EXCEPT !.fails = k, !.dirty = d]
      BY <1>4 DEF Counted
    <2>3. d \in BOOLEAN
      OBVIOUS
    <2>4. (d => k = MaxActionFailures) /\ (~d => k < MaxActionFailures)
      BY <2>1
    <2>. HIDE DEF k, d
    <2>5. Counted \in Passes
      BY <2>1, <2>2, <2>3 DEF Passes
    <2>6. /\ Counted.fails = k /\ Counted.led = pass.led
          /\ Counted.at = pass.at /\ Counted.prior = pass.prior /\ Counted.out = pass.out
      BY <2>2 DEF Passes
    <2>7. Counted.dirty <=> d
      BY <2>2 DEF Passes
    <2>8. n <= MaxActionFailures /\ (k < MaxActionFailures => n <= k)
      BY <1>1, <1>2, <2>1 DEF Counts
    <2>. QED  BY <2>1, <2>4, <2>5, <2>6, <2>7, <2>8
  <1>. QED  BY <1>3, <1>4

LEMMA ActionFailsInv ==
    ASSUME IInv, NEW a \in Actions, ActionFails(a)
    PROVE  IInv'
  <1>1. Ran(a)
    BY DEF ActionFails
  <1>2. attempts \in Nat /\ attempts' = IF a \in Lifetime THEN attempts + 1 ELSE attempts
    BY DEF ActionFails, IInv, TypeOK, PassType
  <1>3. CASE pass.pc = "onFailure"
    <2>1. pass' = [pass EXCEPT !.todo = {}]
      BY <1>3 DEF ActionFails
    <2>2. attempts' = attempts
      BY <1>1, <1>2, <1>3, RanFacts, LifetimePrePost
    <2>3. pass' \in Passes
      BY <1>1, <2>1, RanFacts DEF Passes
    <2>4. /\ pass'.pc = pass.pc /\ pass'.led = pass.led /\ pass'.todo = {}
          /\ pass'.at = pass.at /\ pass'.prior = pass.prior /\ pass'.out = pass.out
          /\ pass'.dirty = pass.dirty /\ pass'.fails = pass.fails
      BY <1>1, <2>1, RanFacts DEF Passes
    <2>5. stage' = stage
      BY <2>4 DEF stage
    <2>6. FiledInv' /\ TodoInv'
      BY <1>1, <2>4, <2>5, RanFacts DEF IInv, FiledInv, TodoInv, Filed
    <2>7. Counts(pass', attempts')
      BY <1>1, <2>2, <2>4, RanFacts, CountsHold DEF Counts
    <2>. QED
      BY <1>1, <1>2, <2>2, <2>3, <2>6, <2>7, RanFacts, PassStep
         DEF ActionFails, IInv, TypeOK, PassType
  <1>4. CASE pass.pc # "onFailure"
    <2>. DEFINE todo == IF pass.pc = "pre" THEN {} ELSE Todo(OnFailure[stage], pass.led)
    <2>1. pass' = [Counted EXCEPT !.pc = "onFailure", !.todo = todo]
      BY <1>4 DEF ActionFails
    <2>2. todo \subseteq Range(OnFailure[stage]) /\ todo \in SUBSET Actions
      BY <1>1, RanFacts DEF Todo, ActionsOf, Actions
    <2>. HIDE DEF todo
    <2>3. a \in Lifetime => ~(Scoped(stage, "Lifetime") \subseteq pass.led.done)
      BY <1>1, <1>4, RanFacts, LifetimePrePost
    <2>4. /\ Counted \in Passes
          /\ Counted.at = pass.at /\ Counted.prior = pass.prior /\ Counted.out = pass.out
          /\ Counted.led = pass.led
          /\ attempts' <= MaxActionFailures
          /\ Counted.dirty => Counted.fails = MaxActionFailures
          /\ ~Counted.dirty => IF Counted.fails < MaxActionFailures
                               THEN attempts' <= Counted.fails ELSE attempts' = 0
      <3>1. attempts' \in Nat
        BY <1>2
      <3>2. attempts' = attempts
            \/ (attempts' = attempts + 1 /\ ~(Scoped(stage, "Lifetime") \subseteq pass.led.done))
        BY <1>2, <2>3
      <3>3. pass \in Passes /\ pass.pc \in {"pre", "post"}
        BY <1>1, <1>4, RanFacts
      <3>. QED  BY <3>1, <3>2, <3>3, CountedFacts
    <2>5. pass' \in Passes
      BY <2>1, <2>2, <2>4 DEF Passes
    <2>6. /\ pass'.pc = "onFailure" /\ pass'.led = pass.led /\ pass'.todo = todo
          /\ pass'.at = pass.at /\ pass'.prior = pass.prior /\ pass'.out = pass.out
          /\ pass'.dirty = Counted.dirty /\ pass'.fails = Counted.fails
      BY <2>1, <2>4 DEF Passes
    <2>7. stage' = stage
      BY <2>6 DEF stage
    <2>8. FiledInv' /\ TodoInv'
      BY <1>1, <2>2, <2>6, <2>7, RanFacts DEF IInv, FiledInv, TodoInv, Filed
    <2>9. Counts(pass', attempts')
      BY <2>4, <2>6 DEF Counts
    <2>10. attempts' \in Nat
      BY <1>2
    <2>. QED
      BY <1>1, <2>5, <2>8, <2>9, <2>10, RanFacts, PassStep
         DEF ActionFails, IInv, TypeOK, PassType
  <1>. QED  BY <1>3, <1>4

\* The stage moves on to another list of its actions.
LEMMA ListStep ==
    ASSUME IInv, AtStage("pre"), pass.todo = {},
           NEW pc \in {"post", "onFailure"}, NEW todo \in SUBSET ActionsOf(stage),
           pc = "post" => todo \subseteq PrePost(stage) \ pass.led.done,
           pc = "onFailure" => todo \subseteq Range(OnFailure[stage]),
           pass' = [pass EXCEPT !.pc = pc, !.todo = todo],
           UNCHANGED <<inputVars, queued, request, statusVars, completed, truth, attempts>>
    PROVE  IInv'
  <1>1. pass \in Passes /\ pass # NoPass /\ pass.at <= Len(Stages) /\ pass.pc = "pre"
    BY NoPassDiffers DEF AtStage, IInv, TypeOK, PassType
  <1>2. todo \in SUBSET Actions
    BY <1>1, CurrentStage DEF Actions
  <1>3. pass' \in Passes
    BY <1>1, <1>2 DEF Passes
  <1>4. /\ pass'.pc = pc /\ pass'.led = pass.led /\ pass'.todo = todo
        /\ pass'.at = pass.at /\ pass'.prior = pass.prior /\ pass'.out = pass.out
        /\ pass'.dirty = pass.dirty /\ pass'.fails = pass.fails
    BY <1>1 DEF Passes
  <1>5. stage' = stage
    BY <1>4 DEF stage
  <1>6. FiledInv' /\ TodoInv'
    BY <1>1, <1>4, <1>5 DEF IInv, FiledInv, TodoInv, Filed
  <1>7. Counts(pass', attempts')
    BY <1>1, <1>4, CountsHold DEF Counts
  <1>. QED  BY <1>1, <1>3, <1>6, <1>7, PassStep DEF IInv, TypeOK, PassType

LEMMA ApplyStageInv == IInv /\ ApplyStage => IInv'
  <1>. SUFFICES ASSUME IInv, ApplyStage PROVE IInv'
    OBVIOUS
  <1>1. Todo(Post[stage], pass.led) \subseteq PrePost(stage) \ pass.led.done
    BY DEF Todo, DoneSet, PrePost
  <1>2. Todo(Post[stage], pass.led) \in SUBSET ActionsOf(stage)
    BY <1>1 DEF ActionsOf
  <1>. QED  BY <1>1, <1>2, ListStep DEF ApplyStage

LEMMA ApplyFailsInv == IInv /\ ApplyFails => IInv'
  <1>. SUFFICES ASSUME IInv, ApplyFails PROVE IInv'
    OBVIOUS
  <1>1. PICK todo \in {{}, Todo(OnFailure[stage], pass.led)} :
            pass' = [pass EXCEPT !.pc = "onFailure", !.todo = todo]
    BY DEF ApplyFails
  <1>2. todo \subseteq Range(OnFailure[stage]) /\ todo \in SUBSET ActionsOf(stage)
    BY DEF Todo, ActionsOf
  <1>. QED  BY <1>1, <1>2, ListStep DEF ApplyFails

LEMMA FinishStageInv == IInv /\ FinishStage => IInv'
  <1>. SUFFICES ASSUME IInv, FinishStage PROVE IInv'
    OBVIOUS
  <1>1. pass \in Passes /\ pass # NoPass /\ pass.at <= Len(Stages) /\ pass.pc = "post"
        /\ pass.todo = {}
    BY NoPassDiffers DEF FinishStage, AtStage, IInv, TypeOK, PassType
  <1>2. stage \in StageNames /\ pass.led \in Ledger /\ pass.out \in [StageNames -> StageStatus]
    BY <1>1, CurrentStage DEF Passes
  <1>. DEFINE st == Stamp("Ready", pass.led, LastHandledFor(stage))
  <1>3. st \in StageStatus /\ Filed(stage, st)
    BY <1>1, <1>2, HandledType, StampType DEF IInv, FiledInv
  <1>4. Finished = [pass.out EXCEPT ![stage] = st]
    BY DEF Finished
  <1>. HIDE DEF st
  <1>5. Finished \in [StageNames -> StageStatus] /\ \A s \in StageNames : Filed(s, Finished[s])
    BY <1>1, <1>2, <1>3, <1>4 DEF IInv, FiledInv
  <1>6. pass' = [pass EXCEPT !.pc = "enter", !.at = @ + 1, !.out = Finished, !.led = NoLedger]
    BY DEF FinishStage
  <1>7. Len(Stages) \in Nat
    BY LedgerAssumption
  <1>8. pass.at + 1 \in 1 .. (Len(Stages) + 1)
    BY <1>1, <1>7 DEF Passes
  <1>9. pass' \in Passes
    BY <1>1, <1>5, <1>6, <1>8, NoLedgerType DEF Passes
  <1>10. /\ pass'.pc = "enter" /\ pass'.led = NoLedger /\ pass'.todo = {}
         /\ pass'.prior = pass.prior /\ pass'.out = Finished
         /\ pass'.dirty = pass.dirty /\ pass'.fails = pass.fails
    BY <1>1, <1>6 DEF Passes
  <1>11. FiledInv'
    <2>1. Filed(stage', pass'.led)
      BY <1>10, NoLedgerType
    <2>2. \A s \in StageNames : Filed(s, pass'.prior[s]) /\ Filed(s, pass'.out[s])
      BY <1>1, <1>5, <1>10 DEF IInv, FiledInv
    <2>. QED  BY <2>1, <2>2 DEF FiledInv, Filed
  <1>12. TodoInv'
    BY <1>10 DEF TodoInv
  <1>13. Counts(pass', attempts')
    BY <1>1, <1>10, CountsHold DEF FinishStage, Counts
  <1>. QED
    BY <1>1, <1>9, <1>11, <1>12, <1>13, PassStep DEF FinishStage, IInv, TypeOK, PassType

-----------------------------------------------------------------------------
(* Between passes. *)

\* A step that leaves no pass running keeps the invariant if it keeps the types,
\* the bounds and the tally.
LEMMA IdleStep ==
    ASSUME TypeOK', BoundInv', pass' = NoPass, attempts' <= MaxActionFailures,
           \/ IF failCount' < MaxActionFailures THEN attempts' <= failCount' ELSE attempts' = 0
           \/ ~queued' /\ failCount' = MaxActionFailures
    PROVE  IInv'
  <1>1. FiledInv' /\ TodoInv'
    BY DEF FiledInv, TodoInv
  <1>2. FailInv'
    BY DEF FailInv, Tally
  <1>. QED  BY <1>1, <1>2 DEF IInv

\* The counter a pass starts from keeps up with the attempts it starts from.
LEMMA StartCountFacts ==
    ASSUME IInv, pass = NoPass, queued,
           attempts' = IF request THEN 0 ELSE attempts
    PROVE  /\ StartCount \in 0 .. MaxActionFailures
           /\ attempts' \in Nat /\ attempts' <= MaxActionFailures
           /\ IF StartCount < MaxActionFailures THEN attempts' <= StartCount ELSE attempts' = 0
  <1>. USE Limits
  <1>1. attempts \in Nat /\ attempts <= MaxActionFailures /\ failCount \in 0 .. MaxActionFailures
    BY DEF IInv, TypeOK, PassType, StatusType, FailInv
  <1>2. Tally(failCount)
    BY Zenon DEF IInv, FailInv
  <1>. QED  BY <1>1, <1>2 DEF StartCount, Tally

LEMMA FailBeforeLoopInv == IInv /\ FailBeforeLoop => IInv'
  <1>. SUFFICES ASSUME IInv, FailBeforeLoop PROVE IInv'
    OBVIOUS
  <1>. USE Limits
  <1>1. /\ pass = NoPass /\ queued /\ failCount' = StartCount
        /\ attempts' = IF request THEN 0 ELSE attempts
        /\ UNCHANGED <<inputVars, current, resetDone, completed, pass>>
    BY Zenon DEF FailBeforeLoop
  <1>2. /\ StartCount \in 0 .. MaxActionFailures
        /\ attempts' \in Nat /\ attempts' <= MaxActionFailures
        /\ IF StartCount < MaxActionFailures THEN attempts' <= StartCount ELSE attempts' = 0
    BY <1>1, StartCountFacts
  <1>3. Stages[1] \in StageNames
    BY StageInRange, LedgerAssumption
  <1>. DEFINE st == Stamp("Failed", NoLedger, 0)
              gone == status[Stages[1]].executed \cup status[Stages[1]].versioned
  <1>4. st \in StageStatus /\ Filed(Stages[1], st)
    BY <1>3, NoLedgerType, StampType
  <1>5. status' = [status EXCEPT ![Stages[1]] = st]
    BY DEF FailBeforeLoop
  <1>. HIDE DEF st
  <1>6. StatusType'
    BY <1>1, <1>2, <1>3, <1>4, <1>5 DEF IInv, TypeOK, StatusType, Filed
  <1>7. truth' \in Account
    <2>1. gone \in SUBSET Actions
      BY <1>3 DEF IInv, TypeOK, StatusType, StageStatus
    <2>2. truth' = [truth EXCEPT !.erased = @ \cup gone]
      BY DEF FailBeforeLoop
    <2>. HIDE DEF gone
    <2>. QED  BY <2>1, <2>2 DEF Account, IInv, TypeOK, PassType
  <1>8. InputType' /\ BoundInv'
    BY <1>1 DEF IInv, TypeOK, InputType, BoundInv, inputVars
  <1>9. PassType'
    BY <1>1, <1>2, <1>7 DEF IInv, TypeOK, PassType
  <1>10. request' \in BOOLEAN /\ queued' \in BOOLEAN
    BY Zenon DEF FailBeforeLoop, IInv, TypeOK
  <1>11. TypeOK'
    BY <1>6, <1>8, <1>9, <1>10 DEF TypeOK
  <1>. QED  BY <1>1, <1>2, <1>8, <1>11, IdleStep

\* Clearing a ledger for a request leaves well-typed statuses.
LEMMA PriorStagesType ==
    ASSUME TypeOK
    PROVE  /\ PriorStages \in [StageNames -> StageStatus]
           /\ \A s \in StageNames : Filed(s, PriorStages[s])
  <1>. SUFFICES ASSUME NEW s \in StageNames
                PROVE  PriorStages[s] \in StageStatus /\ Filed(s, PriorStages[s])
    BY DEF PriorStages
  <1>. DEFINE f == IF ForcePending /\ s = force.stage
                   THEN [status[s] EXCEPT !.executed = {}, !.rev = NoRev] ELSE status[s]
              c == IF ResetPending
                   THEN [f EXCEPT !.versioned = {}, !.ver = NoVer] ELSE f
  <1>1. status[s] \in StageStatus /\ Filed(s, status[s])
    BY DEF TypeOK, StatusType
  <1>2. f \in StageStatus /\ Filed(s, f)
    BY <1>1 DEF StageStatus, Filed
  <1>3. PriorStages[s] = c
    BY DEF PriorStages
  <1>. HIDE DEF f
  <1>4. c \in StageStatus /\ Filed(s, c)
    BY <1>2 DEF StageStatus, Filed
  <1>. QED  BY <1>3, <1>4

\* The pass in memory when it starts.
LEMMA StartPassType ==
    ASSUME IInv, NEW w \in Account, StartCount \in 0 .. MaxActionFailures
    PROVE  [pc |-> "enter", at |-> 1, rev |-> revision, ver |-> version,
            baseline |-> current = NoVer,
            forced |-> IF ForcePending THEN force.stage ELSE NoStage,
            token |-> IF ForcePending THEN force.token ELSE 0,
            reset |-> IF ResetPending THEN reset ELSE resetDone,
            request |-> request,
            prior |-> PriorStages,
            out |-> [s \in StageNames |-> NoStatus],
            led |-> NoLedger, todo |-> {},
            fails |-> StartCount, dirty |-> FALSE,
            work |-> w] \in Passes
  <1>. USE Limits
  <1>. DEFINE b == current = NoVer
              f == IF ForcePending THEN force.stage ELSE NoStage
              k == IF ForcePending THEN force.token ELSE 0
              r == IF ResetPending THEN reset ELSE resetDone
              none == [s \in StageNames |-> NoStatus]
  <1>1. b \in BOOLEAN /\ request \in BOOLEAN /\ FALSE \in BOOLEAN
    BY Zenon DEF IInv, TypeOK
  <1>2. f \in StageNames \cup {NoStage} /\ k \in 0 .. MaxEvents
    BY DEF IInv, TypeOK, InputType
  <1>3. r \in 0 .. MaxEvents
    BY DEF IInv, TypeOK, InputType, StatusType
  <1>4. none \in [StageNames -> StageStatus] /\ PriorStages \in [StageNames -> StageStatus]
    BY NoStatusType, PriorStagesType DEF IInv
  <1>5. 1 \in 1 .. (Len(Stages) + 1)
    BY LedgerAssumption
  <1>6. revision \in Revisions /\ version \in Versions
    BY DEF IInv, TypeOK, InputType
  <1>. HIDE DEF b, f, k, r, none
  <1>7. [pc |-> "enter", at |-> 1, rev |-> revision, ver |-> version, baseline |-> b,
         forced |-> f, token |-> k, reset |-> r, request |-> request, prior |-> PriorStages,
         out |-> none, led |-> NoLedger, todo |-> {}, fails |-> StartCount,
         dirty |-> FALSE, work |-> w] \in Passes
    BY <1>1, <1>2, <1>3, <1>4, <1>5, <1>6, NoLedgerType DEF Passes
  <1>. QED  BY <1>7 DEF b, f, k, r, none

LEMMA StartPassInv == IInv /\ StartPass => IInv'
  <1>. SUFFICES ASSUME IInv, StartPass PROVE IInv'
    OBVIOUS
  <1>. USE Limits
  <1>1. /\ pass = NoPass /\ queued
        /\ attempts' = IF request THEN 0 ELSE attempts
        /\ UNCHANGED <<inputVars, statusVars>>
    BY Zenon DEF StartPass
  <1>2. /\ StartCount \in 0 .. MaxActionFailures
        /\ attempts' \in Nat /\ attempts' <= MaxActionFailures
        /\ IF StartCount < MaxActionFailures THEN attempts' <= StartCount ELSE attempts' = 0
    BY <1>1, StartCountFacts
  <1>. DEFINE promoted == {a \in asserted : completed[a] = Nothing}
              w == Paid(truth, promoted)
              all == {a \in Actions : \E s \in StageNames : a \in Scoped(s, "Version")}
              work == IF ResetPending THEN Owing(w, all) ELSE w
  <1>3. w \in Account /\ work \in Account
    BY PaidType, OwingType DEF IInv, TypeOK, PassType
  <1>4. /\ completed' = [a \in Lifetime |-> IF a \in promoted THEN 0 ELSE completed[a]]
        /\ truth' = w
    BY DEF StartPass
  <1>5. pass' = [pc |-> "enter", at |-> 1, rev |-> revision, ver |-> version,
                 baseline |-> current = NoVer,
                 forced |-> IF ForcePending THEN force.stage ELSE NoStage,
                 token |-> IF ForcePending THEN force.token ELSE 0,
                 reset |-> IF ResetPending THEN reset ELSE resetDone,
                 request |-> request,
                 prior |-> PriorStages,
                 out |-> [s \in StageNames |-> NoStatus],
                 led |-> NoLedger, todo |-> {},
                 fails |-> StartCount, dirty |-> FALSE,
                 work |-> work]
    BY Zenon DEF StartPass
  <1>. HIDE DEF work, w
  <1>6. pass' \in Passes /\ pass' # NoPass
    BY <1>2, <1>3, <1>5, StartPassType, NoPassDiffers
  <1>7. /\ pass'.pc = "enter" /\ pass'.todo = {} /\ pass'.led = NoLedger
        /\ pass'.prior = PriorStages /\ pass'.out = [s \in StageNames |-> NoStatus]
        /\ pass'.fails = StartCount
    BY <1>5
  <1>8. ~pass'.dirty
    BY <1>5
  <1>9. ~queued' /\ request' \in BOOLEAN /\ queued' \in BOOLEAN
    BY Zenon DEF StartPass
  <1>10. FiledInv'
    <2>1. Filed(stage', pass'.led)
      BY <1>7, NoLedgerType
    <2>2. \A s \in StageNames : Filed(s, pass'.prior[s]) /\ Filed(s, pass'.out[s])
      BY <1>7, NoStatusType, PriorStagesType DEF IInv
    <2>. QED  BY <2>1, <2>2 DEF FiledInv, Filed
  <1>11. TodoInv'
    BY <1>7 DEF TodoInv
  <1>12. FailInv'
    BY <1>2, <1>6, <1>7, <1>8, <1>9 DEF FailInv, Tally
  <1>13. completed' \in [Lifetime -> -1 .. (MaxEvents + 1)]
    BY <1>4 DEF IInv, TypeOK, PassType
  <1>14. PassType'
    BY <1>2, <1>3, <1>4, <1>6, <1>13 DEF PassType
  <1>15. InputType' /\ BoundInv' /\ StatusType'
    BY <1>1 DEF IInv, TypeOK, InputType, BoundInv, inputVars, StatusType, statusVars, Filed
  <1>. QED  BY <1>9, <1>10, <1>11, <1>12, <1>14, <1>15 DEF IInv, TypeOK

LEMMA StallInv == IInv /\ StallOnDuplicates => IInv'
  <1>. SUFFICES ASSUME IInv, StallOnDuplicates PROVE IInv'
    OBVIOUS
  <1>1. pass \in Passes /\ pass # NoPass /\ pass.pc = "enter"
    BY NoPassDiffers DEF StallOnDuplicates, LoopDone, IInv, TypeOK, PassType
  <1>2. pass.reset \in 0 .. MaxEvents /\ pass.fails \in 0 .. MaxActionFailures /\ ~pass.dirty
    BY <1>1 DEF Passes, IInv, FailInv
  <1>3. /\ resetDone' = pass.reset /\ failCount' = pass.fails /\ pass' = NoPass
        /\ UNCHANGED <<inputVars, queued, request, status, current, completed, truth, attempts>>
    BY Zenon DEF StallOnDuplicates
  <1>4. InputType' /\ BoundInv' /\ StatusType' /\ PassType'
    BY <1>2, <1>3 DEF IInv, TypeOK, InputType, BoundInv, inputVars, StatusType, PassType, Filed
  <1>5. TypeOK'
    BY <1>3, <1>4, Zenon DEF IInv, TypeOK
  <1>6. Counts(pass, attempts)
    BY <1>1, CountsHold
  <1>. QED  BY <1>2, <1>3, <1>4, <1>5, <1>6, IdleStep DEF Counts

LEMMA CommitPassInv == IInv /\ CommitPass => IInv'
  <1>. SUFFICES ASSUME IInv, CommitPass PROVE IInv'
    OBVIOUS
  <1>. USE Limits
  <1>1. pass \in Passes /\ pass # NoPass
    BY NoPassDiffers DEF CommitPass, LoopDone, IInv, TypeOK, PassType
  <1>2. /\ pass.reset \in 0 .. MaxEvents /\ pass.out \in [StageNames -> StageStatus]
        /\ pass.ver \in Versions /\ pass.work \in Account
    BY <1>1 DEF Passes
  <1>3. /\ status' = pass.out /\ current' = pass.ver /\ resetDone' = pass.reset
        /\ failCount' = 0 /\ truth' = pass.work /\ attempts' = 0 /\ pass' = NoPass
        /\ UNCHANGED <<inputVars, completed>>
    BY Zenon DEF CommitPass
  <1>4. InputType' /\ BoundInv' /\ PassType'
    BY <1>2, <1>3 DEF IInv, TypeOK, InputType, BoundInv, inputVars, PassType
  <1>5. StatusType'
    BY <1>1, <1>2, <1>3 DEF IInv, FiledInv, StatusType, Filed
  <1>6. request' \in BOOLEAN /\ queued' \in BOOLEAN
    BY Zenon DEF CommitPass, IInv, TypeOK
  <1>7. TypeOK'
    BY <1>4, <1>5, <1>6 DEF TypeOK
  <1>. QED  BY <1>3, <1>4, <1>7, IdleStep

LEMMA LosePassInv == IInv /\ LosePass => IInv'
  <1>. SUFFICES ASSUME IInv, LosePass PROVE IInv'
    OBVIOUS
  <1>. USE Limits
  <1>1. pass' = NoPass /\ attempts' = 0 /\ UNCHANGED <<inputVars, statusVars, completed, truth>>
    BY Zenon DEF LosePass
  <1>2. InputType' /\ BoundInv' /\ StatusType' /\ PassType'
    BY <1>1 DEF IInv, TypeOK, InputType, BoundInv, inputVars, StatusType, statusVars, PassType, Filed
  <1>3. request' \in BOOLEAN /\ queued' \in BOOLEAN
    BY Zenon DEF LosePass
  <1>4. TypeOK'
    BY <1>2, <1>3 DEF TypeOK
  <1>5. failCount' \in 0 .. MaxActionFailures
    BY <1>2 DEF StatusType
  <1>. QED  BY <1>1, <1>2, <1>4, <1>5, IdleStep

-----------------------------------------------------------------------------
(* The world around the controller. *)

\* An event is one of the MaxEvents, so a token it adds stays within the bounds.
LEMMA HappensFacts ==
    ASSUME IInv, Happens
    PROVE  events \in Nat /\ events' = events + 1 /\ events' \in 0 .. MaxEvents
  BY Limits DEF IInv, TypeOK, InputType, Happens

\* An event that reaches the queue starts the attempts over.
LEMMA EventStep ==
    ASSUME IInv, Event, InputType', BoundInv', request' \in BOOLEAN
    PROVE  IInv'
  <1>. USE Limits
  <1>1. pass' = NoPass /\ attempts' = 0 /\ UNCHANGED <<statusVars, completed, truth>>
    BY Zenon DEF Event
  <1>2. StatusType' /\ PassType'
    BY <1>1 DEF IInv, TypeOK, StatusType, statusVars, PassType, Filed
  <1>3. queued' \in BOOLEAN
    BY Zenon DEF Event
  <1>4. TypeOK'
    BY <1>2, <1>3 DEF TypeOK
  <1>5. failCount' \in 0 .. MaxActionFailures
    BY <1>2 DEF StatusType
  <1>. QED  BY <1>1, <1>4, <1>5, IdleStep

LEMMA UpdateSourceInv == IInv /\ UpdateSource => IInv'
  <1>. SUFFICES ASSUME IInv, UpdateSource PROVE IInv'
    OBVIOUS
  <1>1. /\ Happens /\ Event /\ revision' \in Revisions /\ version' \in Versions
        /\ UNCHANGED <<force, reset, witness, asserted, request>>
    BY Zenon DEF UpdateSource
  <1>2. InputType' /\ BoundInv'
    BY <1>1, HappensFacts DEF IInv, TypeOK, InputType, BoundInv
  <1>3. request' \in BOOLEAN
    BY <1>1, Zenon DEF IInv, TypeOK
  <1>. QED  BY <1>1, <1>2, <1>3, EventStep

LEMMA RequestForceInv == IInv /\ RequestForce => IInv'
  <1>. SUFFICES ASSUME IInv, RequestForce PROVE IInv'
    OBVIOUS
  <1>1. /\ Happens /\ Event /\ UNCHANGED <<revision, version, reset, witness, asserted>>
        /\ \E s \in StageNames : force' = [stage |-> s, token |-> force.token + 1]
    BY Zenon DEF RequestForce
  <1>2. force.token \in 0 .. MaxEvents /\ force.token <= events
    BY DEF IInv, TypeOK, InputType, BoundInv
  <1>3. force'.stage \in StageNames /\ force'.token = force.token + 1
        /\ force' \in [stage : StageNames \cup {NoStage}, token : 0 .. MaxEvents]
    BY <1>1, <1>2, HappensFacts, Limits
  <1>4. InputType' /\ BoundInv'
    BY <1>1, <1>2, <1>3, HappensFacts DEF IInv, TypeOK, InputType, BoundInv
  <1>5. request' \in BOOLEAN
    BY Zenon DEF RequestForce, IInv, TypeOK
  <1>. QED  BY <1>1, <1>4, <1>5, EventStep

LEMMA RequestResetInv == IInv /\ RequestReset => IInv'
  <1>. SUFFICES ASSUME IInv, RequestReset PROVE IInv'
    OBVIOUS
  <1>1. /\ Happens /\ Event /\ reset' = reset + 1
        /\ UNCHANGED <<revision, version, force, witness, asserted>>
    BY Zenon DEF RequestReset
  <1>2. InputType' /\ BoundInv'
    BY <1>1, HappensFacts, Limits DEF IInv, TypeOK, InputType, BoundInv
  <1>3. request' \in BOOLEAN
    BY Zenon DEF RequestReset
  <1>. QED  BY <1>1, <1>2, <1>3, EventStep

LEMMA RequestReconcileInv == IInv /\ RequestReconcile => IInv'
  <1>. SUFFICES ASSUME IInv, RequestReconcile PROVE IInv'
    OBVIOUS
  <1>1. Happens /\ Event /\ UNCHANGED <<revision, version, force, reset, witness, asserted>>
    BY Zenon DEF RequestReconcile
  <1>2. InputType' /\ BoundInv'
    BY <1>1, HappensFacts DEF IInv, TypeOK, InputType, BoundInv
  <1>3. request' \in BOOLEAN
    BY Zenon DEF RequestReconcile
  <1>. QED  BY <1>1, <1>2, <1>3, EventStep

\* What the pass does not see at once leaves everything but the inputs alone.
LEMMA QuietStep ==
    ASSUME IInv, InputType', BoundInv',
           UNCHANGED <<queued, request, statusVars, completed, pass, truth, attempts>>
    PROVE  IInv'
  <1>1. StatusType' /\ PassType'
    BY DEF IInv, TypeOK, StatusType, statusVars, PassType, Filed
  <1>2. request' \in BOOLEAN /\ queued' \in BOOLEAN
    BY Zenon DEF IInv, TypeOK
  <1>3. FiledInv' /\ TodoInv'
    BY DEF IInv, FiledInv, TodoInv, stage, Filed
  <1>4. FailInv'
    BY DEF IInv, FailInv, Tally, statusVars
  <1>. QED  BY <1>1, <1>2, <1>3, <1>4 DEF IInv, TypeOK

LEMMA AssertBaselineInv == IInv /\ AssertBaseline => IInv'
  <1>. SUFFICES ASSUME IInv, AssertBaseline PROVE IInv'
    OBVIOUS
  <1>1. /\ Happens /\ UNCHANGED <<revision, version, force, reset, witness>>
        /\ \E a \in Lifetime \ asserted : asserted' = asserted \cup {a}
    BY Zenon DEF AssertBaseline
  <1>2. asserted' \subseteq Lifetime
    BY <1>1 DEF IInv, TypeOK, InputType
  <1>3. InputType' /\ BoundInv'
    BY <1>1, <1>2, HappensFacts DEF IInv, TypeOK, InputType, BoundInv
  <1>. QED  BY <1>3, QuietStep DEF AssertBaseline

LEMMA ChangeWitnessInv == IInv /\ ChangeWitness => IInv'
  <1>. SUFFICES ASSUME IInv, ChangeWitness PROVE IInv'
    OBVIOUS
  <1>1. /\ Happens /\ witness' = witness + 1
        /\ UNCHANGED <<revision, version, force, reset, asserted>>
    BY Zenon DEF ChangeWitness
  <1>2. InputType' /\ BoundInv'
    BY <1>1, HappensFacts, Limits DEF IInv, TypeOK, InputType, BoundInv
  <1>. QED  BY <1>2, QuietStep DEF ChangeWitness

LEMMA RecreateInv == IInv /\ RecreateStageSet => IInv'
  <1>. SUFFICES ASSUME IInv, RecreateStageSet PROVE IInv'
    OBVIOUS
  <1>. USE Limits
  <1>1. /\ Happens /\ status' = [s \in StageNames |-> NoStatus] /\ current' = NoVer
        /\ resetDone' = 0 /\ failCount' = 0 /\ force' = NoForce /\ reset' = 0
        /\ pass' = NoPass /\ attempts' = 0
        /\ UNCHANGED <<revision, version, witness, asserted, completed>>
    BY Zenon DEF RecreateStageSet
  <1>2. request' \in BOOLEAN /\ queued' \in BOOLEAN
    BY Zenon DEF RecreateStageSet
  <1>3. truth' \in Account
    <2>. DEFINE left == (Actions \ Lifetime) \cup (truth.owed \cap Lifetime)
    <2>1. left \in SUBSET Actions
      BY LifetimeActions
    <2>2. NothingDone \in Account
      BY DEF NothingDone, Account
    <2>3. truth' = [NothingDone EXCEPT !.owed = left]
      BY Zenon DEF RecreateStageSet
    <2>. HIDE DEF left
    <2>. QED  BY <2>1, <2>2, <2>3 DEF Account
  <1>4. InputType' /\ BoundInv'
    BY <1>1, HappensFacts DEF IInv, TypeOK, InputType, BoundInv, NoForce
  <1>5. StatusType'
    BY <1>1, NoStatusType DEF StatusType, Filed
  <1>6. PassType'
    BY <1>1, <1>3 DEF IInv, TypeOK, PassType
  <1>7. TypeOK'
    BY <1>2, <1>4, <1>5, <1>6 DEF TypeOK
  <1>. QED  BY <1>1, <1>4, <1>7, IdleStep

-----------------------------------------------------------------------------
(* Ledgers and accounts. *)

\* An action has one stage and one scope.
LEMMA ScopesApart ==
    ASSUME NEW s \in StageNames, NEW t \in StageNames,
           NEW x \in {"Revision", "Version", "Lifetime"}, NEW y \in {"Revision", "Version", "Lifetime"},
           s # t \/ x # y
    PROVE  Scoped(s, x) \cap Scoped(t, y) = {}
  <1>1. Scoped(s, x) \subseteq ActionsOf(s) /\ Scoped(t, y) \subseteq ActionsOf(t)
    BY DEF Scoped, ActionsOf
  <1>2. CASE s # t
    BY <1>1, <1>2, LedgerAssumption
  <1>3. CASE s = t
    <2>1. PrePost(s) \cap Range(OnFailure[s]) = {} /\ x # y
      BY <1>3, LedgerAssumption
    <2>. QED  BY <1>3, <2>1 DEF Scoped
  <1>. QED  BY <1>2, <1>3

LEMMA LifetimeApart ==
    ASSUME NEW s \in StageNames
    PROVE  Lifetime \cap (Scoped(s, "Revision") \cup Scoped(s, "Version")) = {}
  BY ScopesApart DEF Lifetime

\* Two accounts that say the same of the actions of stage s.
Same(s, w, v) ==
    /\ v.seen[s] = w.seen[s]
    /\ \A a \in Scoped(s, "Revision") \cup Scoped(s, "Version") :
          /\ a \in v.owed <=> a \in w.owed
          /\ a \in v.erased <=> a \in w.erased
          /\ a \in v.skipped <=> a \in w.skipped

LEMMA SameStory ==
    ASSUME NEW s, NEW led, NEW w, NEW v, Filed(s, led), Same(s, w, v)
    PROVE  /\ KeepsRev(s, led, w) => KeepsRev(s, led, v)
           /\ KeyRev(s, led, w) => KeyRev(s, led, v)
           /\ TrueRev(s, led, w) => TrueRev(s, led, v)
           /\ KeepsVer(s, led, w) => KeepsVer(s, led, v)
           /\ KeyVer(s, led, w) => KeyVer(s, led, v)
           /\ TrueVer(s, led, w) => TrueVer(s, led, v)
  <1>1. KeepsRev(s, led, w) => KeepsRev(s, led, v)
    BY DEF KeepsRev, Same
  <1>2. KeepsVer(s, led, w) => KeepsVer(s, led, v)
    BY DEF KeepsVer, Same
  <1>3. KeyRev(s, led, w) => KeyRev(s, led, v)
    BY DEF KeyRev, Same
  <1>4. KeyVer(s, led, w) => KeyVer(s, led, v)
    BY DEF KeyVer, Same
  <1>5. TrueRev(s, led, w) => TrueRev(s, led, v)
    BY DEF TrueRev, Same, Filed
  <1>6. TrueVer(s, led, w) => TrueVer(s, led, v)
    BY DEF TrueVer, Same, Filed
  <1>. QED  BY <1>1, <1>2, <1>3, <1>4, <1>5, <1>6

LEMMA AgreeSame ==
    ASSUME NEW s, NEW led, NEW w, NEW v, Filed(s, led), Same(s, w, v), Agree(s, led, w)
    PROVE  Agree(s, led, v)
  BY SameStory DEF Agree

\* What paying, owing and entering do to an account.
LEMMA PaidFields ==
    ASSUME NEW w \in Account, NEW as
    PROVE  /\ Paid(w, as).owed = w.owed \ as /\ Paid(w, as).erased = w.erased \ as
           /\ Paid(w, as).skipped = w.skipped \ as /\ Paid(w, as).seen = w.seen
  BY DEF Paid, Account

LEMMA OwingFields ==
    ASSUME NEW w \in Account, NEW as
    PROVE  /\ Owing(w, as).owed = w.owed \cup as /\ Owing(w, as).erased = w.erased
           /\ Owing(w, as).skipped = w.skipped /\ Owing(w, as).seen = w.seen
  BY DEF Owing, Account

LEMMA EnteredFields ==
    ASSUME NEW w \in Account, NEW s \in StageNames
    PROVE  /\ Entered(w, s).erased = w.erased /\ Entered(w, s).skipped = w.skipped
           /\ Entered(w, s).seen = [w.seen EXCEPT ![s] = [rev |-> pass.rev, ver |-> pass.ver]]
           /\ Entered(w, s).owed =
                (w.owed \ (IF pass.baseline THEN Scoped(s, "Version") ELSE {}))
                \cup (IF w.seen[s].rev # pass.rev \/ s = pass.forced THEN Scoped(s, "Revision") ELSE {})
                \cup (IF w.seen[s].ver # pass.ver /\ ~pass.baseline THEN Scoped(s, "Version") ELSE {})
  BY DEF Entered, Account

\* Only the actions named change.
LEMMA PaidSame ==
    ASSUME NEW s \in StageNames, NEW w \in Account, NEW as,
           as \cap (Scoped(s, "Revision") \cup Scoped(s, "Version")) = {}
    PROVE  Same(s, w, Paid(w, as))
  <1>1. PICK v : v = Paid(w, as)
    OBVIOUS
  <1>2. /\ v.owed = w.owed \ as /\ v.erased = w.erased \ as /\ v.skipped = w.skipped \ as /\ v.seen = w.seen
    BY <1>1, PaidFields
  <1>3. Same(s, w, v)
    BY <1>2 DEF Same
  <1>. QED  BY <1>1, <1>3

LEMMA OwingSame ==
    ASSUME NEW s \in StageNames, NEW w \in Account, NEW as,
           as \cap (Scoped(s, "Revision") \cup Scoped(s, "Version")) = {}
    PROVE  Same(s, w, Owing(w, as))
  <1>1. PICK v : v = Owing(w, as)
    OBVIOUS
  <1>2. /\ v.owed = w.owed \cup as /\ v.erased = w.erased /\ v.skipped = w.skipped /\ v.seen = w.seen
    BY <1>1, OwingFields
  <1>3. Same(s, w, v)
    BY <1>2 DEF Same
  <1>. QED  BY <1>1, <1>3

LEMMA EnteredSame ==
    ASSUME NEW s \in StageNames, NEW t \in StageNames, s # t, NEW w \in Account
    PROVE  Same(t, w, Entered(w, s))
  <1>1. (Scoped(s, "Revision") \cup Scoped(s, "Version")) \cap (Scoped(t, "Revision") \cup Scoped(t, "Version")) = {}
    BY ScopesApart
  <1>2. PICK v : v = Entered(w, s)
    OBVIOUS
  <1>3. /\ v.erased = w.erased /\ v.skipped = w.skipped
        /\ v.seen = [w.seen EXCEPT ![s] = [rev |-> pass.rev, ver |-> pass.ver]]
        /\ \A a : a \in v.owed => a \in w.owed \/ a \in Scoped(s, "Revision") \cup Scoped(s, "Version")
        /\ \A a : a \in w.owed => a \in v.owed \/ a \in Scoped(s, "Version")
    BY <1>2, EnteredFields
  <1>4. v.seen[t] = w.seen[t]
    BY <1>3 DEF Account
  <1>5. Same(t, w, v)
    BY <1>1, <1>3, <1>4 DEF Same
  <1>. QED  BY <1>2, <1>5

LEMMA SameThrough ==
    ASSUME NEW s, NEW u, NEW v, NEW w, Same(s, u, v), Same(s, v, w)
    PROVE  Same(s, u, w)
  BY DEF Same

\* A success pays the action and records it.
LEMMA RecordAgrees ==
    ASSUME NEW s \in StageNames, NEW led \in Ledger, NEW w \in Account, Agree(s, led, w),
           NEW a \in ActionsOf(s), a \notin Lifetime, led.rev \in Revisions, led.ver \in Versions
    PROVE  Agree(s, Recorded(led, s, a), Paid(w, {a}))
  <1>. USE Limits
  <1>1. a \in Scoped(s, "Version") \/ a \in Scoped(s, "Revision")
    BY LedgerAssumption DEF Scoped, ActionsOf, Lifetime
  <1>2. Scoped(s, "Version") \cap Scoped(s, "Revision") = {}
    BY ScopesApart
  <1>. DEFINE v == Paid(w, {a})
  <1>3. v.owed = w.owed \ {a} /\ v.erased = w.erased \ {a} /\ v.skipped = w.skipped \ {a} /\ v.seen = w.seen
    BY PaidFields
  <1>. HIDE DEF v
  <1>4. CASE a \in Scoped(s, "Version")
    <2>1. Recorded(led, s, a) = [led EXCEPT !.versioned = @ \cup {a}]
      BY <1>4 DEF Recorded
    <2>2. PICK l : l = Recorded(led, s, a)
      OBVIOUS
    <2>3. l.rev = led.rev /\ l.executed = led.executed /\ l.ver = led.ver /\ l.versioned = led.versioned \cup {a}
      BY <2>1, <2>2 DEF Ledger
    <2>4. KeepsRev(s, l, v) /\ KeepsVer(s, l, v)
      BY <1>2, <1>3, <1>4, <2>3 DEF Agree, KeepsRev, KeepsVer
    <2>5. KeyRev(s, l, v) /\ KeyVer(s, l, v)
      BY <1>3, <2>3 DEF Agree, KeyRev, KeyVer
    <2>6. TrueRev(s, l, v) /\ TrueVer(s, l, v)
      BY <1>3, <2>3 DEF Agree, TrueRev, TrueVer
    <2>. QED  BY <2>2, <2>4, <2>5, <2>6 DEF Agree, v
  <1>5. CASE a \in Scoped(s, "Revision") /\ a \notin Scoped(s, "Version")
    <2>1. Recorded(led, s, a) = [led EXCEPT !.executed = @ \cup {a}]
      BY <1>5 DEF Recorded
    <2>2. PICK l : l = Recorded(led, s, a)
      OBVIOUS
    <2>3. l.rev = led.rev /\ l.versioned = led.versioned /\ l.ver = led.ver /\ l.executed = led.executed \cup {a}
      BY <2>1, <2>2 DEF Ledger
    <2>4. KeepsRev(s, l, v) /\ KeepsVer(s, l, v)
      BY <1>2, <1>3, <1>5, <2>3 DEF Agree, KeepsRev, KeepsVer
    <2>5. KeyRev(s, l, v) /\ KeyVer(s, l, v)
      BY <1>3, <2>3 DEF Agree, KeyRev, KeyVer
    <2>6. TrueRev(s, l, v) /\ TrueVer(s, l, v)
      BY <1>3, <2>3 DEF Agree, TrueRev, TrueVer
    <2>. QED  BY <2>2, <2>4, <2>5, <2>6 DEF Agree, v
  <1>. QED  BY <1>1, <1>4, <1>5

\* A stage is written with the ledger in hand.
LEMMA StampAgrees ==
    ASSUME NEW s, NEW led, NEW w, Agree(s, led, w), NEW phase, NEW tok
    PROVE  Agree(s, Stamp(phase, led, tok), w)
  BY DEF Agree, KeepsRev, KeyRev, TrueRev, KeepsVer, KeyVer, TrueVer, Stamp

\* Entering a stage owes what its key owes, and carries over what that key keeps.
LEMMA EnterAgrees ==
    ASSUME pass \in Passes, NEW s \in StageNames, Filed(s, pass.prior[s]), Before(s)
    PROVE  Agree(s, Assembled(s), Entered(pass.work, s))
  <1>. USE Limits
  <1>1. PICK w \in Account : w = pass.work
    BY DEF Passes
  <1>2. PICK p \in StageStatus : p = pass.prior[s]
    BY DEF Passes
  <1>3. PICK led : led = Assembled(s)
    OBVIOUS
  <1>4. /\ led.rev = pass.rev /\ led.ver = pass.ver
        /\ led.executed = IF p.rev = pass.rev THEN p.executed ELSE {}
        /\ led.versioned = (IF p.ver = pass.ver THEN p.versioned ELSE {})
                           \cup (IF pass.baseline THEN Scoped(s, "Version") ELSE {})
    BY <1>2, <1>3 DEF Assembled
  <1>5. PICK v : v = Entered(w, s)
    OBVIOUS
  <1>15. /\ v.erased = w.erased /\ v.skipped = w.skipped
         /\ v.seen = [w.seen EXCEPT ![s] = [rev |-> pass.rev, ver |-> pass.ver]]
         /\ v.owed = (w.owed \ (IF pass.baseline THEN Scoped(s, "Version") ELSE {}))
                \cup (IF w.seen[s].rev # pass.rev \/ s = pass.forced THEN Scoped(s, "Revision") ELSE {})
                \cup (IF w.seen[s].ver # pass.ver /\ ~pass.baseline THEN Scoped(s, "Version") ELSE {})
    BY <1>5, EnteredFields
  <1>16. v.seen[s] = [rev |-> pass.rev, ver |-> pass.ver]
    BY <1>15 DEF Account
  <1>6. /\ v.erased = w.erased /\ v.skipped = w.skipped
        /\ v.seen[s].rev = pass.rev /\ v.seen[s].ver = pass.ver
        /\ v.owed = (w.owed \ (IF pass.baseline THEN Scoped(s, "Version") ELSE {}))
                \cup (IF w.seen[s].rev # pass.rev \/ s = pass.forced THEN Scoped(s, "Revision") ELSE {})
                \cup (IF w.seen[s].ver # pass.ver /\ ~pass.baseline THEN Scoped(s, "Version") ELSE {})
    BY <1>15, <1>16
  <1>7. pass.rev # NoRev /\ pass.ver # NoVer
    BY DEF Passes
  <1>8. Scoped(s, "Version") \cap Scoped(s, "Revision") = {}
    BY ScopesApart
  <1>9. p.executed \subseteq Scoped(s, "Revision") /\ p.versioned \subseteq Scoped(s, "Version")
    BY <1>2 DEF Filed
  <1>10. KeyRev(s, led, v) /\ KeyVer(s, led, v)
    BY <1>4, <1>6 DEF KeyRev, KeyVer
  <1>11. KeepsRev(s, led, v)
    <2>1. CASE w.seen[s].rev # pass.rev \/ s = pass.forced
      BY <1>6, <2>1 DEF KeepsRev
    <2>2. CASE w.seen[s].rev = pass.rev /\ s # pass.forced
      <3>1. Scoped(s, "Revision") \subseteq w.owed \cup w.erased \cup p.executed
        BY <1>1, <1>2, <2>2 DEF Before, KeepsRev
      <3>2. p.rev = pass.rev \/ p.executed = {}
        BY <1>1, <1>2, <2>2 DEF Before, KeyRev
      <3>3. p.executed = led.executed
        BY <1>4, <3>2
      <3>. QED  BY <1>6, <1>8, <3>1, <3>3 DEF KeepsRev
    <2>. QED  BY <2>1, <2>2
  <1>12. KeepsVer(s, led, v)
    <2>1. CASE pass.baseline
      BY <1>4, <2>1 DEF KeepsVer
    <2>2. CASE ~pass.baseline /\ w.seen[s].ver # pass.ver
      BY <1>6, <2>2 DEF KeepsVer
    <2>3. CASE ~pass.baseline /\ w.seen[s].ver = pass.ver
      <3>1. Scoped(s, "Version") \subseteq w.owed \cup w.erased \cup p.versioned
        BY <1>1, <1>2 DEF Before, KeepsVer
      <3>2. p.ver = pass.ver \/ p.versioned = {}
        BY <1>1, <1>2, <2>3 DEF Before, KeyVer
      <3>3. p.versioned \subseteq led.versioned
        BY <1>4, <3>2
      <3>. QED  BY <1>6, <2>3, <3>1, <3>3 DEF KeepsVer
    <2>. QED  BY <2>1, <2>2, <2>3
  <1>13. TrueRev(s, led, v)
    <2>1. led.executed \subseteq p.executed
      BY <1>4
    <2>2. p.executed \cap w.owed \subseteq w.skipped
      BY <1>1, <1>2 DEF Before, TrueRev
    <2>3. CASE w.seen[s].rev # pass.rev \/ s = pass.forced
      <3>1. led.executed = {}
        BY <1>1, <1>2, <1>4, <1>7, <2>3 DEF Before, KeyRev
      <3>. QED  BY <3>1 DEF TrueRev
    <2>4. CASE ~(w.seen[s].rev # pass.rev \/ s = pass.forced)
      BY <1>6, <1>8, <1>9, <2>1, <2>2, <2>4 DEF TrueRev
    <2>. QED  BY <2>3, <2>4
  <1>14. TrueVer(s, led, v)
    <2>1. p.versioned \cap w.owed \subseteq w.skipped
      BY <1>1, <1>2 DEF Before, TrueVer
    <2>2. CASE pass.baseline
      <3>1. v.owed \cap Scoped(s, "Version") = {}
        BY <1>6, <1>8, <2>2
      <3>2. led.versioned \subseteq Scoped(s, "Version")
        BY <1>4, <1>9
      <3>. QED  BY <3>1, <3>2 DEF TrueVer
    <2>3. CASE ~pass.baseline /\ w.seen[s].ver # pass.ver
      <3>1. led.versioned = {}
        BY <1>1, <1>2, <1>4, <1>7, <2>3 DEF Before, KeyVer
      <3>. QED  BY <3>1 DEF TrueVer
    <2>4. CASE ~pass.baseline /\ w.seen[s].ver = pass.ver
      BY <1>4, <1>6, <1>8, <1>9, <2>1, <2>4 DEF TrueVer
    <2>. QED  BY <2>2, <2>3, <2>4
  <1>. QED  BY <1>1, <1>3, <1>5, <1>10, <1>11, <1>12, <1>13, <1>14 DEF Agree

-----------------------------------------------------------------------------
(* Steps and the account. *)

\* Every stage has its place in the list, and no two share one.
LEMMA Places ==
    /\ \A s \in StageNames : \E i \in 1 .. Len(Stages) : Stages[i] = s
    /\ \A i, j \in 1 .. Len(Stages) : Stages[i] = Stages[j] => i = j
    /\ Len(Stages) \in Nat
  <1>1. Stages \in Seq(StageNames) /\ DOMAIN Stages = 1 .. Len(Stages) /\ Len(Stages) \in Nat
    BY LedgerAssumption
  <1>2. \A i, j \in 1 .. Len(Stages) : Stages[i] = Stages[j] => i = j
    BY <1>1, LedgerAssumption DEF IsInjective
  <1>. QED  BY <1>1, <1>2 DEF StageNames, Range

\* The stage in hand is the one at its place, and only there.
LEMMA AtPlace ==
    ASSUME pass \in Passes, pass.at <= Len(Stages)
    PROVE  /\ pass.at \in 1 .. Len(Stages) /\ stage \in StageNames
           /\ \A i \in 1 .. Len(Stages) : Stages[i] = stage <=> i = pass.at
  <1>1. pass.at \in 1 .. Len(Stages)
    BY Places DEF Passes
  <1>. QED  BY <1>1, Places, CurrentStage DEF stage

\* More that counts as skipped is no less agreement.
LEMMA MoreSkipped ==
    ASSUME NEW s, NEW led, NEW w, NEW v,
           v.owed = w.owed, v.erased = w.erased, v.seen = w.seen, w.skipped \subseteq v.skipped
    PROVE  /\ Agree(s, led, w) => Agree(s, led, v)
           /\ KeepsRev(s, led, w) => KeepsRev(s, led, v)
           /\ KeyRev(s, led, w) => KeyRev(s, led, v)
           /\ TrueRev(s, led, w) => TrueRev(s, led, v)
           /\ KeepsVer(s, led, w) => KeepsVer(s, led, v)
           /\ KeyVer(s, led, w) => KeyVer(s, led, v)
           /\ TrueVer(s, led, w) => TrueVer(s, led, v)
  BY DEF Agree, KeepsRev, KeyRev, TrueRev, KeepsVer, KeyVer, TrueVer

\* A status write that ends the pass at the stage in hand.
LEMMA WriteOnce ==
    ASSUME IInv, OnceInv, pass # NoPass, pass.at <= Len(Stages),
           NEW st \in StageStatus, st # NoStatus, NEW w \in Account, NEW again,
           Agree(stage, st, w), Lives(w, completed),
           \A s \in StageNames : s # stage => Same(s, pass.work, w),
           Write([pass.out EXCEPT ![stage] = st], w, again), UNCHANGED completed
    PROVE  OnceInv'
  <1>1. pass \in Passes /\ TypeOK
    BY DEF IInv, TypeOK, PassType
  <1>2. stage \in StageNames /\ pass.out \in [StageNames -> StageStatus] /\ pass.work \in Account
    BY <1>1, AtPlace DEF Passes
  <1>3. PICK o : o = [pass.out EXCEPT ![stage] = st]
    OBVIOUS
  <1>4. o[stage] = st /\ \A s \in StageNames : s # stage => o[s] = pass.out[s]
    BY <1>2, <1>3
  <1>5. PICK lost : lost = IF pass.reset = resetDone THEN {}
                           ELSE UNION {Scoped(s, "Version") : s \in {t \in StageNames : o[t] = NoStatus}}
    OBVIOUS
  <1>6. truth' = [w EXCEPT !.skipped = @ \cup lost] /\ status' = Merged(o) /\ pass' = NoPass
    BY <1>3, <1>5 DEF Write
  <1>7. /\ truth'.owed = w.owed /\ truth'.erased = w.erased /\ truth'.seen = w.seen
        /\ truth'.skipped = w.skipped \cup lost
    BY <1>6 DEF Account
  <1>8. \A s \in StageNames : status'[s] = IF o[s] # NoStatus THEN o[s] ELSE status[s]
    BY <1>6 DEF Merged
  <1>9. PICK v : v = truth'
    OBVIOUS
  <1>10. ASSUME NEW s \in StageNames PROVE Agree(s, status'[s], v)
    <2>1. CASE s = stage
      <3>1. Agree(s, st, v)
        BY <1>7, <1>9, <2>1, MoreSkipped
      <3>. QED  BY <1>4, <1>8, <2>1, <3>1
    <2>2. CASE s # stage
      <3>1. PICK i \in 1 .. Len(Stages) : Stages[i] = s
        BY Places
      <3>2. i # pass.at
        BY <1>1, <2>2, <3>1, AtPlace
      <3>3. Same(s, pass.work, w)
        BY <2>2
      <3>4. CASE i < pass.at
        <4>1. Behind(s)
          BY <3>1, <3>4 DEF OnceInv
        <4>2. Agree(s, pass.out[s], w)
          <5>1. Filed(s, pass.out[s]) /\ Agree(s, pass.out[s], pass.work)
            BY <4>1 DEF Behind, IInv, FiledInv
          <5>. QED  BY <3>3, <5>1, AgreeSame
        <4>3. Agree(s, pass.out[s], v)
          BY <1>7, <1>9, <4>2, MoreSkipped
        <4>4. status'[s] = pass.out[s]
          BY <1>4, <1>8, <2>2, <4>1 DEF Behind
        <4>. QED  BY <4>3, <4>4
      <3>5. CASE i > pass.at
        <4>1. Ahead(s)
          BY <3>1, <3>5 DEF OnceInv
        <4>2. status'[s] = status[s] /\ o[s] = NoStatus
          BY <1>4, <1>8, <2>2, <4>1 DEF Ahead
        <4>3. Filed(s, status[s]) /\ Left(s)
          BY <1>1, <4>1 DEF Ahead, TypeOK, StatusType
        <4>4. /\ KeepsRev(s, status[s], w) /\ KeyRev(s, status[s], w) /\ TrueRev(s, status[s], w)
              /\ KeepsVer(s, status[s], w) /\ KeyVer(s, status[s], w)
              /\ pass.reset = resetDone => TrueVer(s, status[s], w)
          BY <3>3, <4>3, SameStory DEF Left
        <4>5. /\ KeepsRev(s, status[s], v) /\ KeyRev(s, status[s], v) /\ TrueRev(s, status[s], v)
              /\ KeepsVer(s, status[s], v) /\ KeyVer(s, status[s], v)
              /\ pass.reset = resetDone => TrueVer(s, status[s], v)
          BY <1>7, <1>9, <4>4, MoreSkipped
        <4>6. ASSUME pass.reset # resetDone PROVE TrueVer(s, status[s], v)
          <5>1. Scoped(s, "Version") \subseteq lost
            BY <1>5, <4>2, <4>6
          <5>. QED  BY <1>7, <1>9, <4>3, <5>1 DEF TrueVer, Filed
        <4>. QED  BY <4>2, <4>5, <4>6 DEF Agree
      <3>. QED  BY <1>1, <3>1, <3>2, <3>4, <3>5, AtPlace
    <2>. QED  BY <2>1, <2>2
  <1>11. Lives(v, completed')
    BY <1>7, <1>9 DEF Lives
  <1>. QED  BY <1>6, <1>9, <1>10, <1>11 DEF OnceInv

\* A step within the stage in hand.
LEMMA InPassOnce ==
    ASSUME IInv, OnceInv, pass # NoPass, pass.at <= Len(Stages), pass' \in Passes, pass'.pc # "enter",
           pass'.at = pass.at, pass'.out = pass.out, pass'.prior = pass.prior,
           pass'.forced = pass.forced, pass'.reset = pass.reset, UNCHANGED <<status, resetDone>>,
           \A s \in StageNames : s # stage => Same(s, pass.work, pass'.work),
           \A s \in StageNames : Same(s, truth, truth'),
           Lives(truth', completed'), Lives(pass'.work, completed'), InHand'
    PROVE  OnceInv'
  <1>1. pass \in Passes /\ TypeOK
    BY DEF IInv, TypeOK, PassType
  <1>2. PICK v : v = pass'.work
    OBVIOUS
  <1>3. PICK t : t = truth'
    OBVIOUS
  <1>4. ASSUME NEW s \in StageNames PROVE Agree(s, status[s], t)
    <2>1. Same(s, truth, t) /\ Agree(s, status[s], truth) /\ Filed(s, status[s])
      BY <1>1, <1>3 DEF OnceInv, TypeOK, StatusType
    <2>. QED  BY <2>1, AgreeSame
  <1>5. ASSUME NEW i \in 1 .. Len(Stages), i < pass.at PROVE Behind(Stages[i])'
    <2>1. PICK s \in StageNames : s = Stages[i]
      BY StageInRange
    <2>2. Behind(s) /\ s # stage
      BY <1>1, <1>5, <2>1, AtPlace DEF OnceInv
    <2>3. Filed(s, pass.out[s]) /\ Same(s, pass.work, v) /\ Agree(s, pass.out[s], pass.work)
      BY <1>2, <2>2 DEF Behind, IInv, FiledInv
    <2>4. Agree(s, pass.out[s], v)
      BY <2>3, AgreeSame
    <2>. QED  BY <1>2, <2>1, <2>2, <2>4 DEF Behind
  <1>6. ASSUME NEW i \in 1 .. Len(Stages), i > pass.at PROVE Ahead(Stages[i])'
    <2>1. PICK s \in StageNames : s = Stages[i]
      BY StageInRange
    <2>2. Ahead(s) /\ s # stage
      BY <1>1, <1>6, <2>1, AtPlace DEF OnceInv
    <2>3. Filed(s, status[s]) /\ Filed(s, pass.prior[s]) /\ Same(s, pass.work, v) /\ Left(s) /\ Before(s)
      BY <1>1, <1>2, <2>2 DEF Ahead, IInv, FiledInv, TypeOK, StatusType
    <2>4. /\ KeepsRev(s, status[s], v) /\ KeyRev(s, status[s], v) /\ TrueRev(s, status[s], v)
          /\ KeepsVer(s, status[s], v) /\ KeyVer(s, status[s], v)
          /\ pass.reset = resetDone => TrueVer(s, status[s], v)
      BY <2>3, SameStory DEF Left
    <2>5. /\ s # pass.forced => KeepsRev(s, pass.prior[s], v)
          /\ KeyRev(s, pass.prior[s], v) /\ TrueRev(s, pass.prior[s], v)
          /\ KeepsVer(s, pass.prior[s], v) /\ KeyVer(s, pass.prior[s], v)
          /\ TrueVer(s, pass.prior[s], v)
      BY <2>3, SameStory DEF Before
    <2>6. Left(s)'
      BY <1>2, <2>4 DEF Left
    <2>7. Before(s)'
      BY <1>2, <2>3, <2>5 DEF Before
    <2>8. Ahead(s)'
      BY <2>2, <2>6, <2>7 DEF Ahead
    <2>. QED  BY <2>1, <2>8
  <1>. QED  BY <1>3, <1>4, <1>5, <1>6 DEF OnceInv

\* A stage is never written as if it had no status.
LEMMA StampIsStatus ==
    ASSUME NEW phase \in {"Failed", "Verifying", "Ready"}, NEW led, NEW tok
    PROVE  Stamp(phase, led, tok) # NoStatus
  <1>1. Stamp(phase, led, tok).phase = phase /\ NoStatus.phase = "None"
    BY DEF Stamp, NoStatus
  <1>. QED  BY <1>1

\* The account of the pass is its own but for Lifetime actions.
LEMMA WorkSelf == \A s, w : Same(s, w, w)
  BY DEF Same

\* The stage in hand is written with its ledger.
LEMMA StampOnce ==
    ASSUME IInv, OnceInv, pass # NoPass, pass.at <= Len(Stages), pass.pc # "enter",
           NEW phase \in {"Failed", "Verifying", "Ready"}, NEW tok \in 0 .. MaxEvents, NEW again,
           Write([pass.out EXCEPT ![stage] = Stamp(phase, pass.led, tok)], pass.work, again), UNCHANGED completed
    PROVE  OnceInv'
  <1>1. pass \in Passes /\ stage \in StageNames
    BY CurrentStage DEF IInv, TypeOK, PassType
  <1>2. pass.led \in Ledger /\ pass.work \in Account /\ Filed(stage, pass.led)
    BY <1>1 DEF Passes, IInv, FiledInv
  <1>3. PICK st : st = Stamp(phase, pass.led, tok)
    OBVIOUS
  <1>4. st \in StageStatus /\ st # NoStatus
    BY <1>1, <1>2, <1>3, StampType, StampIsStatus
  <1>5. Agree(stage, st, pass.work)
    BY <1>3, StampAgrees DEF OnceInv, InHand
  <1>6. Lives(pass.work, completed)
    BY DEF OnceInv
  <1>7. Write([pass.out EXCEPT ![stage] = st], pass.work, again)
    BY <1>3
  <1>. QED  BY <1>2, <1>4, <1>5, <1>6, <1>7, WorkSelf, WriteOnce

LEMMA FinishFailureOnce == IInv /\ OnceInv /\ FinishFailure => OnceInv'
  <1>. SUFFICES ASSUME IInv, OnceInv, FinishFailure PROVE OnceInv'
    OBVIOUS
  <1>1. pass # NoPass /\ pass.at <= Len(Stages) /\ pass.pc # "enter" /\ UNCHANGED completed
    BY DEF FinishFailure, AtStage
  <1>2. \E again : Write([pass.out EXCEPT ![stage] = Stamp("Failed", pass.led, 0)], pass.work, again)
    BY DEF FinishFailure, FailStage
  <1>. QED  BY <1>1, <1>2, Limits, StampOnce

LEMMA HoldForProgressOnce == IInv /\ OnceInv /\ HoldForProgress => OnceInv'
  <1>. SUFFICES ASSUME IInv, OnceInv, HoldForProgress PROVE OnceInv'
    OBVIOUS
  <1>1. /\ pass # NoPass /\ pass.at <= Len(Stages) /\ pass.pc # "enter" /\ UNCHANGED completed
        /\ Write([pass.out EXCEPT ![stage] = Stamp("Verifying", pass.led, 0)], pass.work, {TRUE})
    BY DEF HoldForProgress, AtStage
  <1>. QED  BY <1>1, Limits, StampOnce

LEMMA GateHoldsOnce == IInv /\ OnceInv /\ GateHolds => OnceInv'
  <1>. SUFFICES ASSUME IInv, OnceInv, GateHolds PROVE OnceInv'
    OBVIOUS
  <1>1. pass # NoPass /\ pass \in Passes /\ pass.at <= Len(Stages) /\ pass.pc # "enter" /\ UNCHANGED completed
    BY DEF GateHolds, AtStage, IInv, TypeOK, PassType
  <1>2. PICK tok : tok = LastHandledFor(stage)
    OBVIOUS
  <1>3. tok \in 0 .. MaxEvents
    BY <1>1, <1>2, CurrentStage, HandledType
  <1>4. Write([pass.out EXCEPT ![stage] = Stamp("Ready", pass.led, tok)], pass.work, {TRUE})
    BY <1>2 DEF GateHolds, Finished
  <1>. QED  BY <1>1, <1>3, <1>4, StampOnce

\* A stage that is not entered is written as it was.
LEMMA HoldStageOnce == IInv /\ OnceInv /\ HoldStage => OnceInv'
  <1>. SUFFICES ASSUME IInv, OnceInv, HoldStage PROVE OnceInv'
    OBVIOUS
  <1>1. pass # NoPass /\ pass \in Passes /\ pass.at <= Len(Stages) /\ pass.pc = "enter" /\ UNCHANGED completed
    BY DEF HoldStage, AtStage, IInv, TypeOK, PassType
  <1>2. stage \in StageNames /\ pass.at \in 1 .. Len(Stages) /\ Stages[pass.at] = stage
    BY <1>1, AtPlace
  <1>3. Ahead(stage)
    BY <1>1, <1>2 DEF OnceInv
  <1>4. PICK p \in StageStatus : p = pass.prior[stage]
    BY <1>1, <1>2 DEF Passes
  <1>5. PICK st : st = IF p = NoStatus THEN [NoStatus EXCEPT !.phase = "Held"] ELSE p
    OBVIOUS
  <1>6. /\ st \in StageStatus /\ st # NoStatus
        /\ st.rev = p.rev /\ st.ver = p.ver /\ st.executed = p.executed /\ st.versioned = p.versioned
    <2>1. CASE p # NoStatus
      BY <1>5, <2>1
    <2>2. CASE p = NoStatus
      <3>1. st = [NoStatus EXCEPT !.phase = "Held"]
        BY <1>5, <2>2
      <3>2. st.phase = "Held" /\ NoStatus.phase = "None"
        BY <3>1 DEF NoStatus
      <3>3. st \in StageStatus
        BY <3>1, NoStatusType DEF StageStatus
      <3>. QED  BY <2>2, <3>1, <3>2, <3>3 DEF NoStatus
    <2>. QED  BY <2>1, <2>2
  <1>7. PICK u \in Account : u = pass.work
    BY <1>1 DEF Passes
  <1>8. PICK w : w = IF stage = pass.forced THEN Owing(u, Scoped(stage, "Revision")) ELSE u
    OBVIOUS
  <1>9. /\ w \in Account /\ w.erased = u.erased /\ w.skipped = u.skipped /\ w.seen = u.seen
        /\ stage = pass.forced => w.owed = u.owed \cup Scoped(stage, "Revision")
        /\ stage # pass.forced => w.owed = u.owed
    BY <1>2, <1>8, OwingFields, OwingType, ScopedActions
  <1>10. /\ KeyRev(stage, p, u) /\ TrueRev(stage, p, u)
         /\ KeepsVer(stage, p, u) /\ KeyVer(stage, p, u) /\ TrueVer(stage, p, u)
         /\ stage # pass.forced => KeepsRev(stage, p, u)
         /\ stage = pass.forced => p.executed = {}
    BY <1>3, <1>4, <1>7 DEF Ahead, Before
  <1>11. Agree(stage, st, w)
    <2>1. KeepsVer(stage, st, w) /\ KeyVer(stage, st, w) /\ KeyRev(stage, st, w)
      BY <1>6, <1>9, <1>10 DEF KeepsVer, KeyVer, KeyRev
    <2>2. KeepsRev(stage, st, w) /\ TrueRev(stage, st, w)
      BY <1>6, <1>9, <1>10 DEF KeepsRev, TrueRev
    <2>3. TrueVer(stage, st, w)
      <3>1. p.versioned \cap Scoped(stage, "Revision") = {}
        <4>1. p.versioned \subseteq Scoped(stage, "Version")
          BY <1>1, <1>2, <1>4 DEF IInv, FiledInv, Filed
        <4>. QED  BY <1>2, <4>1, ScopesApart
      <3>. QED  BY <1>6, <1>9, <1>10, <3>1 DEF TrueVer
    <2>. QED  BY <2>1, <2>2, <2>3 DEF Agree
  <1>12. Lives(w, completed)
    <2>1. Lives(u, completed) /\ Lifetime \cap Scoped(stage, "Revision") = {}
      BY <1>1, <1>2, <1>7, LifetimeApart DEF OnceInv
    <2>. QED  BY <1>9, <2>1 DEF Lives
  <1>13. ASSUME NEW s \in StageNames, s # stage PROVE Same(s, u, w)
    <2>1. Scoped(stage, "Revision") \cap (Scoped(s, "Revision") \cup Scoped(s, "Version")) = {}
      BY <1>2, <1>13, ScopesApart
    <2>. QED  BY <1>8, <2>1, OwingSame, WorkSelf
  <1>14. Write([pass.out EXCEPT ![stage] = st], w, {TRUE})
    BY <1>4, <1>5, <1>7, <1>8 DEF HoldStage
  <1>. QED  BY <1>1, <1>6, <1>7, <1>9, <1>11, <1>12, <1>13, <1>14, WriteOnce

\* Entering leaves Lifetime actions alone.
LEMMA EnteredLives ==
    ASSUME NEW s \in StageNames, NEW w \in Account, NEW c, Lives(w, c)
    PROVE  Lives(Entered(w, s), c)
  <1>1. PICK v : v = Entered(w, s)
    OBVIOUS
  <1>2. v.owed = (w.owed \ (IF pass.baseline THEN Scoped(s, "Version") ELSE {}))
                 \cup (IF w.seen[s].rev # pass.rev \/ s = pass.forced THEN Scoped(s, "Revision") ELSE {})
                 \cup (IF w.seen[s].ver # pass.ver /\ ~pass.baseline THEN Scoped(s, "Version") ELSE {})
    BY <1>1, EnteredFields
  <1>3. \A a : a \notin Scoped(s, "Revision") /\ a \notin Scoped(s, "Version") => (a \in v.owed <=> a \in w.owed)
    BY <1>2
  <1>4. Lives(v, c)
    BY <1>3, LifetimeApart DEF Lives
  <1>. QED  BY <1>1, <1>4

LEMMA FailConnectOnce == IInv /\ OnceInv /\ FailConnect => OnceInv'
  <1>. SUFFICES ASSUME IInv, OnceInv, FailConnect PROVE OnceInv'
    OBVIOUS
  <1>1. pass # NoPass /\ pass \in Passes /\ pass.at <= Len(Stages) /\ pass.pc = "enter" /\ UNCHANGED completed
    BY DEF FailConnect, AtStage, IInv, TypeOK, PassType
  <1>2. stage \in StageNames /\ pass.at \in 1 .. Len(Stages) /\ Stages[pass.at] = stage /\ pass.work \in Account
    BY <1>1, AtPlace DEF Passes
  <1>3. Before(stage) /\ Filed(stage, pass.prior[stage])
    BY <1>1, <1>2 DEF OnceInv, Ahead, IInv, FiledInv
  <1>4. PICK led : led = Assembled(stage)
    OBVIOUS
  <1>5. PICK w : w = Entered(pass.work, stage)
    OBVIOUS
  <1>6. Agree(stage, led, w) /\ led \in Ledger /\ Filed(stage, led) /\ w \in Account
    BY <1>1, <1>2, <1>3, <1>4, <1>5, EnterAgrees, AssembledType, EnteredType
  <1>7. PICK st : st = Stamp("Failed", led, 0)
    OBVIOUS
  <1>8. st \in StageStatus /\ st # NoStatus /\ Agree(stage, st, w)
    BY <1>2, <1>6, <1>7, StampType, StampIsStatus, StampAgrees, Limits
  <1>9. Lives(w, completed)
    BY <1>1, <1>2, <1>5, EnteredLives DEF OnceInv
  <1>10. \A s \in StageNames : s # stage => Same(s, pass.work, w)
    BY <1>2, <1>5, EnteredSame
  <1>11. \E again : Write([pass.out EXCEPT ![stage] = st], w, again)
    BY <1>4, <1>5, <1>7 DEF FailConnect, FailStage
  <1>. QED  BY <1>1, <1>6, <1>8, <1>9, <1>10, <1>11, WriteOnce

\* What the executor is handed is owed or erased, and what it is not handed is
\* not owed, but for what a reset skipped.
LEMMA TodoFacts ==
    ASSUME NEW s \in StageNames, NEW led \in Ledger, Filed(s, led), NEW w, Agree(s, led, w),
           led.done \cap w.owed = {}, NEW list, Range(list) \subseteq ActionsOf(s),
           Range(list) \cap Lifetime \subseteq led.done \cup w.owed
    PROVE  /\ Todo(list, led) \subseteq w.owed \cup w.erased
           /\ Range(list) \cap w.owed \subseteq Todo(list, led) \cup w.skipped
  <1>1. ASSUME NEW a \in Todo(list, led) PROVE a \in w.owed \cup w.erased
    <2>1. a \in Range(list) /\ a \notin led.executed /\ a \notin led.versioned /\ a \notin led.done
      BY DEF Todo, DoneSet
    <2>2. CASE a \in Lifetime
      BY <2>1, <2>2
    <2>3. CASE a \notin Lifetime
      <3>1. a \in Scoped(s, "Revision") \cup Scoped(s, "Version")
        BY <2>1, <2>3, LedgerAssumption DEF Scoped, ActionsOf, Lifetime
      <3>. QED  BY <2>1, <3>1 DEF Agree, KeepsRev, KeepsVer
    <2>. QED  BY <2>2, <2>3
  <1>2. ASSUME NEW a \in Range(list) \cap w.owed, a \notin Todo(list, led) PROVE a \in w.skipped
    <2>1. a \in led.executed \/ a \in led.versioned
      BY <1>2 DEF Todo, DoneSet
    <2>. QED  BY <2>1 DEF Agree, TrueRev, TrueVer
  <1>. QED  BY <1>1, <1>2

\* The lists of a stage hold its own actions.
LEMMA Lists ==
    ASSUME NEW s \in StageNames
    PROVE  /\ Range(Pre[s]) \subseteq PrePost(s) /\ Range(Post[s]) \subseteq PrePost(s)
           /\ PrePost(s) \subseteq ActionsOf(s) /\ Range(OnFailure[s]) \subseteq ActionsOf(s)
           /\ Range(OnFailure[s]) \cap Lifetime = {}
           /\ PrePost(s) \cap Lifetime \subseteq Scoped(s, "Lifetime")
  BY LifetimePrePost DEF PrePost, ActionsOf

LEMMA EnterStageOnce == IInv /\ OnceInv /\ EnterStage => OnceInv'
  <1>. SUFFICES ASSUME IInv, OnceInv, EnterStage PROVE OnceInv'
    OBVIOUS
  <1>1. pass \in Passes /\ pass # NoPass /\ pass.at <= Len(Stages) /\ pass.pc = "enter"
        /\ UNCHANGED <<status, resetDone>>
    BY NoPassDiffers DEF EnterStage, AtStage, IInv, TypeOK, PassType, statusVars
  <1>2. stage \in StageNames /\ pass.at \in 1 .. Len(Stages) /\ Stages[pass.at] = stage /\ pass.work \in Account
        /\ truth \in Account
    BY <1>1, AtPlace DEF Passes, IInv, TypeOK, PassType
  <1>3. PICK dropped \in {{}, Gone(stage)} :
          LET led == [Assembled(stage) EXCEPT
                          !.done = {a \in Scoped(stage, "Lifetime") :
                                      completed[a] # Nothing /\ a \notin dropped}]
          IN  /\ completed' = [a \in Lifetime |-> IF a \in dropped THEN Nothing ELSE completed[a]]
              /\ truth' = Owing(truth, dropped)
              /\ pass' = [pass EXCEPT !.pc = "pre", !.led = led,
                                      !.todo = Todo(Pre[stage], led),
                                      !.work = Owing(Entered(@, stage), dropped)]
    BY Zenon DEF EnterStage
  <1>4. PICK done : done = {a \in Scoped(stage, "Lifetime") : completed[a] # Nothing /\ a \notin dropped}
    OBVIOUS
  <1>5. PICK led : led = [Assembled(stage) EXCEPT !.done = done]
    OBVIOUS
  <1>6. PICK u : u = Entered(pass.work, stage)
    OBVIOUS
  <1>7. PICK v : v = Owing(u, dropped)
    OBVIOUS
  <1>8. pass' = [pass EXCEPT !.pc = "pre", !.led = led, !.todo = Todo(Pre[stage], led), !.work = v]
    BY <1>3, <1>4, <1>5, <1>6, <1>7
  <1>9. dropped \subseteq Scoped(stage, "Lifetime") /\ dropped \subseteq Actions /\ done \subseteq Actions
        /\ dropped \subseteq Lifetime /\ done \subseteq Lifetime
    BY <1>2, <1>3, <1>4, ScopedActions DEF Gone, Lifetime
  <1>10. u \in Account /\ v \in Account
    BY <1>1, <1>2, <1>6, <1>7, <1>9, EnteredType, OwingType
  <1>11. v.owed = u.owed \cup dropped /\ v.erased = u.erased /\ v.skipped = u.skipped /\ v.seen = u.seen
    BY <1>7, <1>10, OwingFields
  <1>12. Before(stage) /\ Filed(stage, pass.prior[stage]) /\ pass.out[stage] = NoStatus
    BY <1>1, <1>2 DEF OnceInv, Ahead, IInv, FiledInv
  <1>13. Assembled(stage) \in Ledger /\ Filed(stage, Assembled(stage)) /\ Agree(stage, Assembled(stage), u)
    BY <1>1, <1>2, <1>6, <1>12, AssembledType, EnterAgrees
  <1>14. PICK as : as = Assembled(stage)
    OBVIOUS
  <1>15. /\ led \in Ledger /\ led.done = done /\ led.rev = as.rev /\ led.ver = as.ver
         /\ led.executed = as.executed /\ led.versioned = as.versioned /\ Filed(stage, led)
    BY <1>5, <1>9, <1>13, <1>14 DEF Ledger, Filed
  <1>16. as.rev = pass.rev /\ as.ver = pass.ver
    BY <1>14 DEF Assembled
  <1>17. Agree(stage, led, v)
    <2>1. Agree(stage, led, u)
      BY <1>13, <1>14, <1>15 DEF Agree, KeepsRev, KeyRev, TrueRev, KeepsVer, KeyVer, TrueVer
    <2>2. Same(stage, u, v)
      BY <1>2, <1>7, <1>9, <1>10, OwingSame, LifetimeApart
    <2>. QED  BY <1>15, <2>1, <2>2, AgreeSame
  <1>18. Lives(u, completed) /\ Lives(truth, completed)
    BY <1>1, <1>2, <1>6, EnteredLives DEF OnceInv
  <1>19. Lives(v, completed') /\ Lives(truth', completed')
    <2>1. \A a \in Lifetime : completed'[a] = Nothing <=> a \in dropped \/ completed[a] = Nothing
      BY <1>3
    <2>2. PICK t : t = truth'
      OBVIOUS
    <2>3. t.owed = truth.owed \cup dropped
      BY <1>2, <1>3, <2>2, OwingFields
    <2>. QED  BY <1>11, <1>18, <2>1, <2>2, <2>3 DEF Lives
  <1>20. done \cap v.owed = {}
    BY <1>4, <1>9, <1>11, <1>18 DEF Lives
  <1>21. Scoped(stage, "Lifetime") \subseteq done \cup v.owed
    <2>1. Scoped(stage, "Lifetime") \subseteq Lifetime
      BY <1>2 DEF Lifetime
    <2>. QED  BY <1>4, <1>11, <1>18, <2>1 DEF Lives
  <1>22. /\ Todo(Pre[stage], led) \subseteq v.owed \cup v.erased
         /\ Range(Pre[stage]) \cap v.owed \subseteq Todo(Pre[stage], led) \cup v.skipped
         /\ Range(Post[stage]) \cap Lifetime \subseteq done \cup v.owed
    <2>1. /\ Range(Pre[stage]) \subseteq ActionsOf(stage)
          /\ Range(Pre[stage]) \cap Lifetime \subseteq done \cup v.owed
          /\ Range(Post[stage]) \cap Lifetime \subseteq done \cup v.owed
      BY <1>2, <1>21, Lists
    <2>. QED  BY <1>2, <1>15, <1>17, <1>20, <2>1, TodoFacts
  <1>23. pass' \in Passes /\ pass'.pc = "pre" /\ pass'.led = led /\ pass'.todo = Todo(Pre[stage], led) /\ pass'.work = v
    <2>1. Todo(Pre[stage], led) \in SUBSET Actions
      BY <1>2, Lists DEF Todo, Actions
    <2>. QED  BY <1>1, <1>8, <1>10, <1>15, <2>1 DEF Passes
  <1>24. /\ pass'.at = pass.at /\ pass'.out = pass.out /\ pass'.prior = pass.prior /\ pass'.forced = pass.forced
         /\ pass'.reset = pass.reset /\ pass'.rev = pass.rev /\ pass'.ver = pass.ver
    BY <1>1, <1>8 DEF Passes
  <1>25. stage' = stage
    BY <1>24 DEF stage
  <1>26. InHand'
    <2>1. pass'.out[stage'] = NoStatus /\ Agree(stage', pass'.led, pass'.work)
      BY <1>12, <1>17, <1>23, <1>24, <1>25
    <2>2. pass'.led.rev = pass'.rev /\ pass'.led.ver = pass'.ver
      BY <1>15, <1>16, <1>23, <1>24
    <2>3. pass'.led.done \subseteq Scoped(stage', "Lifetime") /\ pass'.led.done \cap pass'.work.owed = {}
      BY <1>4, <1>15, <1>20, <1>23, <1>25
    <2>. QED  BY <1>15, <1>22, <1>23, <1>25, <2>1, <2>2, <2>3 DEF InHand
  <1>27. \A s \in StageNames : s # stage => Same(s, pass.work, v)
    <2>1. ASSUME NEW s \in StageNames, s # stage PROVE Same(s, pass.work, v)
      <3>1. Same(s, pass.work, u)
        BY <1>2, <1>6, <2>1, EnteredSame
      <3>2. Same(s, u, v)
        BY <1>7, <1>9, <1>10, OwingSame, LifetimeApart
      <3>. QED  BY <3>1, <3>2, SameThrough
    <2>. QED  BY <2>1
  <1>28. \A s \in StageNames : Same(s, truth, truth')
    BY <1>2, <1>3, <1>9, OwingSame, LifetimeApart
  <1>. QED  BY <1>1, <1>19, <1>23, <1>24, <1>26, <1>27, <1>28, InPassOnce

\* An action that ran is recorded and paid, and the rest remains to be run.
LEMMA RunActionOnce ==
    ASSUME IInv, OnceInv, NEW a \in Actions, RunAction(a)
    PROVE  OnceInv'
  <1>1. Ran(a) /\ a \notin Lifetime /\ UNCHANGED <<status, resetDone, completed, truth>>
    BY DEF RunAction, statusVars
  <1>2. /\ pass \in Passes /\ pass # NoPass /\ pass.at <= Len(Stages)
        /\ stage \in StageNames /\ a \in ActionsOf(stage) /\ pass.pc \in {"pre", "post", "onFailure"}
        /\ pass.work \in Account /\ pass.led \in Ledger /\ Filed(stage, pass.led)
    BY <1>1, RanFacts
  <1>3. InHand /\ Lives(pass.work, completed) /\ Lives(truth, completed)
    BY <1>2 DEF OnceInv
  <1>4. PICK led : led = Recorded(pass.led, stage, a)
    OBVIOUS
  <1>5. PICK v : v = Paid(pass.work, {a})
    OBVIOUS
  <1>6. led \in Ledger /\ led.done = pass.led.done /\ v \in Account
    BY <1>1, <1>2, <1>4, <1>5, RecordedType, PaidType
  <1>7. led.rev = pass.led.rev /\ led.ver = pass.led.ver
    BY <1>2, <1>4 DEF Recorded, Ledger
  <1>8. pass' = [pass EXCEPT !.led = led, !.todo = @ \ {a}, !.work = v]
    BY <1>4, <1>5 DEF RunAction
  <1>9. /\ pass' \in Passes /\ pass'.pc = pass.pc /\ pass'.led = led /\ pass'.todo = pass.todo \ {a}
        /\ pass'.work = v /\ pass'.at = pass.at /\ pass'.prior = pass.prior /\ pass'.out = pass.out
        /\ pass'.forced = pass.forced /\ pass'.reset = pass.reset
        /\ pass'.rev = pass.rev /\ pass'.ver = pass.ver
    BY <1>2, <1>6, <1>8 DEF Passes
  <1>10. stage' = stage
    BY <1>9 DEF stage
  <1>11. v.owed = pass.work.owed \ {a} /\ v.erased = pass.work.erased \ {a}
         /\ v.skipped = pass.work.skipped \ {a} /\ v.seen = pass.work.seen
    BY <1>2, <1>5, PaidFields
  <1>12. Agree(stage, led, v)
    <2>1. pass.led.rev \in Revisions /\ pass.led.ver \in Versions /\ Agree(stage, pass.led, pass.work)
      BY <1>2, <1>3 DEF InHand, Passes
    <2>. QED  BY <1>1, <1>2, <1>4, <1>5, <2>1, RecordAgrees
  <1>13. InHand'
    <2>1. pass'.out[stage'] = NoStatus /\ Agree(stage', pass'.led, pass'.work)
      BY <1>3, <1>9, <1>10, <1>12 DEF InHand
    <2>2. pass'.led.rev = pass'.rev /\ pass'.led.ver = pass'.ver
          /\ pass'.led.done \subseteq Scoped(stage', "Lifetime") /\ pass'.led.done \cap pass'.work.owed = {}
      BY <1>3, <1>6, <1>7, <1>9, <1>10, <1>11 DEF InHand
    <2>3. /\ pass'.todo \subseteq v.owed \cup v.erased
          /\ \A as : as \cap pass.work.owed \subseteq pass.todo \cup pass.work.skipped =>
                       as \cap v.owed \subseteq pass'.todo \cup v.skipped
      <3>1. pass'.todo \subseteq v.owed \cup v.erased
        BY <1>3, <1>9, <1>11 DEF InHand
      <3>2. ASSUME NEW as, as \cap pass.work.owed \subseteq pass.todo \cup pass.work.skipped
            PROVE  as \cap v.owed \subseteq pass'.todo \cup v.skipped
        BY <1>9, <1>11, <3>2
      <3>. QED  BY <3>1, <3>2
    <2>4. pass'.pc = "pre" =>
            /\ Range(Post[stage']) \cap Lifetime \subseteq pass'.led.done \cup pass'.work.owed
            /\ Range(Pre[stage']) \cap pass'.work.owed \subseteq pass'.todo \cup pass'.work.skipped
      <3>1. pass.pc = "pre" => Range(Post[stage]) \cap Lifetime \subseteq led.done \cup v.owed
        BY <1>1, <1>3, <1>6, <1>11 DEF InHand
      <3>2. pass.pc = "pre" => Range(Pre[stage]) \cap v.owed \subseteq pass'.todo \cup v.skipped
        BY <1>3, <2>3 DEF InHand
      <3>. QED  BY <1>9, <1>10, <3>1, <3>2
    <2>5. pass'.pc = "post" =>
            PrePost(stage') \cap pass'.work.owed \subseteq pass'.todo \cup pass'.work.skipped
      <3>1. pass.pc = "post" => PrePost(stage) \cap v.owed \subseteq pass'.todo \cup v.skipped
        BY <1>3, <2>3 DEF InHand
      <3>. QED  BY <1>9, <1>10, <3>1
    <2>. QED  BY <1>9, <2>1, <2>2, <2>3, <2>4, <2>5 DEF InHand
  <1>14. ASSUME NEW s \in StageNames, s # stage PROVE Same(s, pass.work, v)
    <2>1. {a} \cap (Scoped(s, "Revision") \cup Scoped(s, "Version")) = {}
      <3>1. a \notin ActionsOf(s)
        BY <1>2, <1>14, LedgerAssumption
      <3>. QED  BY <3>1 DEF Scoped, ActionsOf
    <2>. QED  BY <1>2, <1>5, <2>1, PaidSame
  <1>15. Lives(v, completed)
    BY <1>1, <1>3, <1>11 DEF Lives
  <1>16. \A s \in StageNames : Same(s, truth, truth')
    BY <1>1, WorkSelf
  <1>17. Lives(truth', completed') /\ Lives(pass'.work, completed')
    BY <1>1, <1>3, <1>9, <1>15
  <1>. QED  BY <1>1, <1>2, <1>9, <1>13, <1>14, <1>16, <1>17, InPassOnce

\* An action the executor has come to is on the list it works on.
LEMMA RanList ==
    ASSUME NEW a, Ran(a), pass.pc = "pre"
    PROVE  a \in Range(Pre[stage])
  BY DEF Ran, List, Range

LEMMA RunLifetimeOnce ==
    ASSUME IInv, OnceInv, NEW a \in Actions, RunLifetime(a)
    PROVE  OnceInv'
  <1>1. Ran(a) /\ a \in Lifetime /\ UNCHANGED <<status, resetDone>>
    BY DEF RunLifetime, statusVars
  <1>2. /\ pass \in Passes /\ pass # NoPass /\ pass.at <= Len(Stages)
        /\ stage \in StageNames /\ a \in ActionsOf(stage) /\ pass.pc \in {"pre", "post", "onFailure"}
        /\ pass.work \in Account /\ truth \in Account
    BY <1>1, RanFacts DEF IInv, TypeOK, PassType
  <1>3. InHand /\ Lives(pass.work, completed) /\ Lives(truth, completed)
    BY <1>2 DEF OnceInv
  <1>4. PICK v : v = Paid(pass.work, {a})
    OBVIOUS
  <1>5. PICK t : t = Paid(truth, {a})
    OBVIOUS
  <1>6. v \in Account /\ t \in Account /\ truth' = t
    BY <1>2, <1>4, <1>5, PaidType DEF RunLifetime
  <1>7. pass' = [pass EXCEPT !.todo = @ \ {a}, !.work = v]
    BY <1>4 DEF RunLifetime
  <1>8. /\ pass' \in Passes /\ pass'.pc = pass.pc /\ pass'.led = pass.led /\ pass'.todo = pass.todo \ {a}
        /\ pass'.work = v /\ pass'.at = pass.at /\ pass'.prior = pass.prior /\ pass'.out = pass.out
        /\ pass'.forced = pass.forced /\ pass'.reset = pass.reset
        /\ pass'.rev = pass.rev /\ pass'.ver = pass.ver
    BY <1>2, <1>6, <1>7 DEF Passes
  <1>9. stage' = stage
    BY <1>8 DEF stage
  <1>10. v.owed = pass.work.owed \ {a} /\ v.erased = pass.work.erased \ {a}
         /\ v.skipped = pass.work.skipped \ {a} /\ v.seen = pass.work.seen
    BY <1>2, <1>4, PaidFields
  <1>11. t.owed = truth.owed \ {a}
    BY <1>2, <1>5, PaidFields
  <1>12. ASSUME NEW s \in StageNames PROVE Same(s, pass.work, v) /\ Same(s, truth, t)
    <2>1. {a} \cap (Scoped(s, "Revision") \cup Scoped(s, "Version")) = {}
      BY <1>1, LifetimeApart
    <2>. QED  BY <1>2, <1>4, <1>5, <2>1, PaidSame
  <1>13. Lives(v, completed') /\ Lives(t, completed')
    <2>1. completed' = [completed EXCEPT ![a] = IF a \in Anchored THEN witness ELSE 0]
      BY DEF RunLifetime
    <2>2. completed \in [Lifetime -> -1 .. (MaxEvents + 1)] /\ witness \in 0 .. (MaxEvents + 1)
      BY DEF IInv, TypeOK, PassType, InputType
    <2>3. completed'[a] # Nothing
      BY <1>1, <2>1, <2>2, Limits DEF Nothing
    <2>4. \A b \in Lifetime : b # a => completed'[b] = completed[b]
      BY <1>1, <2>1, <2>2
    <2>. QED  BY <1>3, <1>10, <1>11, <2>3, <2>4 DEF Lives
  <1>14. InHand'
    <2>1. pass'.out[stage'] = NoStatus
      BY <1>3, <1>8, <1>9 DEF InHand
    <2>2. Agree(stage', pass'.led, pass'.work)
      <3>1. Filed(stage, pass.led) /\ Agree(stage, pass.led, pass.work)
        BY <1>1, <1>3, RanFacts DEF InHand
      <3>2. Agree(stage, pass.led, v)
        BY <1>2, <1>12, <3>1, AgreeSame
      <3>. QED  BY <1>8, <1>9, <3>2
    <2>3. pass'.led.rev = pass'.rev /\ pass'.led.ver = pass'.ver
          /\ pass'.led.done \subseteq Scoped(stage', "Lifetime") /\ pass'.led.done \cap pass'.work.owed = {}
      BY <1>3, <1>8, <1>9, <1>10 DEF InHand
    <2>4. /\ pass'.todo \subseteq v.owed \cup v.erased
          /\ \A as : as \cap pass.work.owed \subseteq pass.todo \cup pass.work.skipped =>
                       as \cap v.owed \subseteq pass'.todo \cup v.skipped
      <3>1. pass'.todo \subseteq v.owed \cup v.erased
        BY <1>3, <1>8, <1>10 DEF InHand
      <3>2. ASSUME NEW as, as \cap pass.work.owed \subseteq pass.todo \cup pass.work.skipped
            PROVE  as \cap v.owed \subseteq pass'.todo \cup v.skipped
        BY <1>8, <1>10, <3>2
      <3>. QED  BY <3>1, <3>2
    <2>5. pass'.pc = "pre" =>
            /\ Range(Post[stage']) \cap Lifetime \subseteq pass'.led.done \cup pass'.work.owed
            /\ Range(Pre[stage']) \cap pass'.work.owed \subseteq pass'.todo \cup pass'.work.skipped
      <3>1. pass.pc = "pre" => a \notin Range(Post[stage])
        BY <1>1, <1>2, RanList, LedgerAssumption
      <3>2. pass.pc = "pre" => Range(Post[stage]) \cap Lifetime \subseteq pass.led.done \cup v.owed
        BY <1>3, <1>10, <3>1 DEF InHand
      <3>3. pass.pc = "pre" => Range(Pre[stage]) \cap v.owed \subseteq pass'.todo \cup v.skipped
        BY <1>3, <2>4 DEF InHand
      <3>. QED  BY <1>8, <1>9, <3>2, <3>3
    <2>6. pass'.pc = "post" =>
            PrePost(stage') \cap pass'.work.owed \subseteq pass'.todo \cup pass'.work.skipped
      <3>1. pass.pc = "post" => PrePost(stage) \cap v.owed \subseteq pass'.todo \cup v.skipped
        BY <1>3, <2>4 DEF InHand
      <3>. QED  BY <1>8, <1>9, <3>1
    <2>. QED  BY <1>8, <2>1, <2>2, <2>3, <2>4, <2>5, <2>6 DEF InHand
  <1>15. Lives(truth', completed') /\ Lives(pass'.work, completed')
    BY <1>6, <1>8, <1>13
  <1>16. \A s \in StageNames : Same(s, truth, truth') /\ Same(s, pass.work, pass'.work)
    BY <1>6, <1>8, <1>12
  <1>. QED  BY <1>1, <1>2, <1>8, <1>14, <1>15, <1>16, InPassOnce

\* The executor is handed another list of the stage in hand.
LEMMA ListOnce ==
    ASSUME IInv, OnceInv, pass # NoPass, pass.at <= Len(Stages), pass.pc # "enter",
           pass' \in Passes, pass'.pc \in {"post", "onFailure"},
           pass'.led = pass.led, pass'.work = pass.work, pass'.at = pass.at, pass'.out = pass.out,
           pass'.prior = pass.prior, pass'.forced = pass.forced, pass'.reset = pass.reset,
           pass'.rev = pass.rev, pass'.ver = pass.ver,
           UNCHANGED <<status, resetDone, completed, truth>>,
           pass'.todo \subseteq pass.work.owed \cup pass.work.erased,
           pass'.pc = "post" => PrePost(stage) \cap pass.work.owed \subseteq pass'.todo \cup pass.work.skipped
    PROVE  OnceInv'
  <1>1. stage' = stage
    BY DEF stage
  <1>2. InHand /\ Lives(truth, completed) /\ Lives(pass.work, completed)
    BY DEF OnceInv
  <1>3. InHand'
    <2>1. pass'.out[stage'] = NoStatus /\ Agree(stage', pass'.led, pass'.work)
      BY <1>1, <1>2 DEF InHand
    <2>2. pass'.led.rev = pass'.rev /\ pass'.led.ver = pass'.ver
          /\ pass'.led.done \subseteq Scoped(stage', "Lifetime") /\ pass'.led.done \cap pass'.work.owed = {}
      BY <1>1, <1>2 DEF InHand
    <2>. QED  BY <1>1, <2>1, <2>2 DEF InHand
  <1>4. \A s \in StageNames : Same(s, truth, truth') /\ Same(s, pass.work, pass'.work)
    BY WorkSelf
  <1>5. Lives(truth', completed') /\ Lives(pass'.work, completed')
    BY <1>2
  <1>. QED  BY <1>3, <1>4, <1>5, InPassOnce

\* What the stage in hand still owes of a list, and its onFailure actions.
LEMMA HandTodo ==
    ASSUME IInv, OnceInv, pass # NoPass, pass.at <= Len(Stages), pass.pc \in {"pre", "post", "onFailure"}
    PROVE  /\ Todo(OnFailure[stage], pass.led) \subseteq pass.work.owed \cup pass.work.erased
           /\ pass.pc = "pre" =>
                 /\ Todo(Post[stage], pass.led) \subseteq pass.work.owed \cup pass.work.erased
                 /\ Range(Post[stage]) \cap pass.work.owed
                       \subseteq Todo(Post[stage], pass.led) \cup pass.work.skipped
  <1>1. pass \in Passes /\ stage \in StageNames
    BY CurrentStage DEF IInv, TypeOK, PassType
  <1>2. PICK led \in Ledger : led = pass.led
    BY <1>1 DEF Passes
  <1>3. PICK w : w = pass.work
    OBVIOUS
  <1>4. Filed(stage, led) /\ InHand
    BY <1>2 DEF IInv, FiledInv, OnceInv
  <1>5. Agree(stage, led, w) /\ led.done \cap w.owed = {}
    BY <1>2, <1>3, <1>4 DEF InHand
  <1>6. Todo(OnFailure[stage], led) \subseteq w.owed \cup w.erased
    <2>1. Range(OnFailure[stage]) \subseteq ActionsOf(stage) /\ Range(OnFailure[stage]) \cap Lifetime = {}
      BY <1>1, Lists
    <2>2. Range(OnFailure[stage]) \cap Lifetime \subseteq led.done \cup w.owed
      BY <2>1
    <2>. QED  BY <1>1, <1>2, <1>4, <1>5, <2>1, <2>2, TodoFacts
  <1>7. ASSUME pass.pc = "pre"
        PROVE  /\ Todo(Post[stage], led) \subseteq w.owed \cup w.erased
               /\ Range(Post[stage]) \cap w.owed \subseteq Todo(Post[stage], led) \cup w.skipped
    <2>1. Range(Post[stage]) \subseteq ActionsOf(stage)
      BY <1>1, Lists
    <2>2. Range(Post[stage]) \cap Lifetime \subseteq led.done \cup w.owed
      BY <1>2, <1>3, <1>4, <1>7 DEF InHand
    <2>. QED  BY <1>1, <1>2, <1>4, <1>5, <2>1, <2>2, TodoFacts
  <1>. QED  BY <1>2, <1>3, <1>6, <1>7

LEMMA ApplyStageOnce == IInv /\ OnceInv /\ ApplyStage => OnceInv'
  <1>. SUFFICES ASSUME IInv, OnceInv, ApplyStage PROVE OnceInv'
    OBVIOUS
  <1>1. /\ pass \in Passes /\ pass # NoPass /\ pass.at <= Len(Stages) /\ pass.pc = "pre" /\ pass.todo = {}
        /\ UNCHANGED <<status, resetDone, completed, truth>>
    BY DEF ApplyStage, AtStage, IInv, TypeOK, PassType, statusVars
  <1>2. PICK todo : todo = Todo(Post[stage], pass.led)
    OBVIOUS
  <1>3. todo \subseteq Actions
    BY <1>1, <1>2, CurrentStage, Lists DEF Todo, Actions
  <1>4. pass' = [pass EXCEPT !.pc = "post", !.todo = todo]
    BY <1>2 DEF ApplyStage
  <1>5. /\ pass' \in Passes /\ pass'.pc = "post" /\ pass'.todo = todo
        /\ pass'.led = pass.led /\ pass'.work = pass.work /\ pass'.at = pass.at /\ pass'.out = pass.out
        /\ pass'.prior = pass.prior /\ pass'.forced = pass.forced /\ pass'.reset = pass.reset
        /\ pass'.rev = pass.rev /\ pass'.ver = pass.ver
    BY <1>1, <1>3, <1>4 DEF Passes
  <1>6. /\ todo \subseteq pass.work.owed \cup pass.work.erased
        /\ Range(Post[stage]) \cap pass.work.owed \subseteq todo \cup pass.work.skipped
    BY <1>1, <1>2, HandTodo
  <1>7. PrePost(stage) \cap pass.work.owed \subseteq todo \cup pass.work.skipped
    <2>1. Range(Pre[stage]) \cap pass.work.owed \subseteq pass.work.skipped
      BY <1>1 DEF OnceInv, InHand
    <2>. QED  BY <1>6, <2>1 DEF PrePost
  <1>. QED  BY <1>1, <1>5, <1>6, <1>7, ListOnce

LEMMA ApplyFailsOnce == IInv /\ OnceInv /\ ApplyFails => OnceInv'
  <1>. SUFFICES ASSUME IInv, OnceInv, ApplyFails PROVE OnceInv'
    OBVIOUS
  <1>1. /\ pass \in Passes /\ pass # NoPass /\ pass.at <= Len(Stages) /\ pass.pc = "pre"
        /\ UNCHANGED <<status, resetDone, completed, truth>>
    BY DEF ApplyFails, AtStage, IInv, TypeOK, PassType, statusVars
  <1>2. PICK todo \in {{}, Todo(OnFailure[stage], pass.led)} :
            pass' = [pass EXCEPT !.pc = "onFailure", !.todo = todo]
    BY DEF ApplyFails
  <1>3. todo \subseteq Actions
    BY <1>1, <1>2, CurrentStage, Lists DEF Todo, Actions
  <1>4. /\ pass' \in Passes /\ pass'.pc = "onFailure" /\ pass'.todo = todo
        /\ pass'.led = pass.led /\ pass'.work = pass.work /\ pass'.at = pass.at /\ pass'.out = pass.out
        /\ pass'.prior = pass.prior /\ pass'.forced = pass.forced /\ pass'.reset = pass.reset
        /\ pass'.rev = pass.rev /\ pass'.ver = pass.ver
    BY <1>1, <1>2, <1>3 DEF Passes
  <1>5. todo \subseteq pass.work.owed \cup pass.work.erased
    BY <1>1, <1>2, HandTodo
  <1>. QED  BY <1>1, <1>4, <1>5, ListOnce

LEMMA ActionFailsOnce ==
    ASSUME IInv, OnceInv, NEW a \in Actions, ActionFails(a)
    PROVE  OnceInv'
  <1>1. /\ pass \in Passes /\ pass # NoPass /\ pass.at <= Len(Stages)
        /\ pass.pc \in {"pre", "post", "onFailure"} /\ stage \in StageNames
        /\ UNCHANGED <<status, resetDone, completed, truth>>
    BY RanFacts DEF ActionFails, statusVars
  <1>2. PICK todo : todo = IF pass.pc = "post" THEN Todo(OnFailure[stage], pass.led) ELSE {}
    OBVIOUS
  <1>3. todo \subseteq Actions /\ todo \subseteq pass.work.owed \cup pass.work.erased
    BY <1>1, <1>2, HandTodo, Lists DEF Todo, Actions
  <1>4. PICK p : p = IF pass.pc = "onFailure" THEN pass ELSE Counted
    OBVIOUS
  <1>5. /\ p \in Passes /\ p.led = pass.led /\ p.work = pass.work /\ p.at = pass.at /\ p.out = pass.out
        /\ p.prior = pass.prior /\ p.forced = pass.forced /\ p.reset = pass.reset
        /\ p.rev = pass.rev /\ p.ver = pass.ver
    <2>1. CASE pass.pc = "onFailure"
      BY <1>1, <1>4, <2>1
    <2>2. CASE pass.pc # "onFailure"
      <3>1. p = Counted /\ pass.pc \in {"pre", "post"}
        BY <1>1, <1>4, <2>2
      <3>2. attempts \in Nat
        BY DEF IInv, TypeOK, PassType
      <3>3. p \in Passes
        BY <1>1, <3>1, <3>2, CountedFacts
      <3>4. CASE Scoped(stage, "Lifetime") \subseteq pass.led.done
        BY <3>1, <3>3, <3>4 DEF Counted
      <3>5. CASE ~(Scoped(stage, "Lifetime") \subseteq pass.led.done)
        <4>. DEFINE k == IF pass.fails < MaxActionFailures THEN pass.fails + 1 ELSE pass.fails
                    d == k >= MaxActionFailures
        <4>1. p = [pass EXCEPT !.fails = k, !.dirty = d]
          BY <3>1, <3>5 DEF Counted
        <4>. HIDE DEF k, d
        <4>. QED  BY <1>1, <3>3, <4>1 DEF Passes
      <3>. QED  BY <3>4, <3>5
    <2>. QED  BY <2>1, <2>2
  <1>6. pass' = [p EXCEPT !.pc = "onFailure", !.todo = todo]
    <2>1. CASE pass.pc = "onFailure"
      BY <1>1, <1>2, <1>4, <2>1 DEF ActionFails, Passes
    <2>2. CASE pass.pc # "onFailure"
      BY <1>1, <1>2, <1>4, <2>2 DEF ActionFails
    <2>. QED  BY <2>1, <2>2
  <1>7. /\ pass' \in Passes /\ pass'.pc = "onFailure" /\ pass'.todo = todo
        /\ pass'.led = pass.led /\ pass'.work = pass.work /\ pass'.at = pass.at /\ pass'.out = pass.out
        /\ pass'.prior = pass.prior /\ pass'.forced = pass.forced /\ pass'.reset = pass.reset
        /\ pass'.rev = pass.rev /\ pass'.ver = pass.ver
    BY <1>3, <1>5, <1>6 DEF Passes
  <1>. QED  BY <1>1, <1>3, <1>7, ListOnce

LEMMA FinishStageOnce == IInv /\ OnceInv /\ FinishStage => OnceInv'
  <1>. SUFFICES ASSUME IInv, OnceInv, FinishStage PROVE OnceInv'
    OBVIOUS
  <1>1. /\ pass \in Passes /\ pass # NoPass /\ pass.at <= Len(Stages) /\ pass.pc = "post"
        /\ UNCHANGED <<status, resetDone, completed, truth>>
    BY NoPassDiffers DEF FinishStage, AtStage, IInv, TypeOK, PassType, statusVars
  <1>2. /\ stage \in StageNames /\ pass.at \in 1 .. Len(Stages) /\ pass.out \in [StageNames -> StageStatus]
        /\ \A i \in 1 .. Len(Stages) : Stages[i] = stage <=> i = pass.at
    BY <1>1, AtPlace DEF Passes
  <1>3. PICK st : st = Stamp("Ready", pass.led, LastHandledFor(stage))
    OBVIOUS
  <1>4. PICK out : out = [pass.out EXCEPT ![stage] = st]
    OBVIOUS
  <1>5. out[stage] = st /\ \A s \in StageNames : s # stage => out[s] = pass.out[s]
    BY <1>2, <1>4
  <1>6. pass' = [pass EXCEPT !.pc = "enter", !.at = @ + 1, !.out = out, !.led = NoLedger]
    BY <1>3, <1>4 DEF FinishStage, Finished
  <1>7. /\ pass'.pc = "enter" /\ pass'.at = pass.at + 1 /\ pass'.out = out /\ pass'.work = pass.work
        /\ pass'.prior = pass.prior /\ pass'.forced = pass.forced /\ pass'.reset = pass.reset
    BY <1>1, <1>6 DEF Passes
  <1>8. ASSUME NEW i \in 1 .. Len(Stages), i < pass.at + 1 PROVE Behind(Stages[i])'
    <2>1. CASE i = pass.at
      <3>1. st # NoStatus /\ Agree(stage, st, pass.work)
        BY <1>1, <1>3, StampIsStatus, StampAgrees DEF OnceInv, InHand
      <3>. QED  BY <1>2, <1>5, <1>7, <2>1, <3>1 DEF Behind
    <2>2. CASE i # pass.at
      <3>1. PICK s \in StageNames : s = Stages[i]
        BY StageInRange
      <3>2. i < pass.at /\ s # stage
        BY <1>2, <1>8, <2>2, <3>1
      <3>3. Behind(s)
        BY <1>1, <3>1, <3>2 DEF OnceInv
      <3>. QED  BY <1>5, <1>7, <3>1, <3>2, <3>3 DEF Behind
    <2>. QED  BY <2>1, <2>2
  <1>9. ASSUME NEW i \in 1 .. Len(Stages), i >= pass.at + 1 PROVE Ahead(Stages[i])'
    <2>1. PICK s \in StageNames : s = Stages[i]
      BY StageInRange
    <2>2. i > pass.at /\ s # stage
      BY <1>2, <1>9, <2>1
    <2>3. Ahead(s)
      BY <1>1, <2>1, <2>2 DEF OnceInv
    <2>4. Left(s)' /\ Before(s)'
      BY <1>1, <1>7, <2>3 DEF Ahead, Left, Before
    <2>. QED  BY <1>5, <1>7, <2>1, <2>2, <2>3, <2>4 DEF Ahead
  <1>10. \A s \in StageNames : Agree(s, status'[s], truth')
    BY <1>1 DEF OnceInv
  <1>11. Lives(truth', completed') /\ Lives(pass'.work, completed')
    BY <1>1, <1>7 DEF OnceInv
  <1>12. \A i \in 1 .. Len(Stages) : /\ i < pass'.at => Behind(Stages[i])'
                                     /\ i > pass'.at \/ (i = pass'.at /\ pass'.pc = "enter") => Ahead(Stages[i])'
    BY <1>2, <1>7, <1>8, <1>9
  <1>. QED  BY <1>7, <1>10, <1>11, <1>12 DEF OnceInv

LEMMA CommitPassOnce == IInv /\ OnceInv /\ CommitPass => OnceInv'
  <1>. SUFFICES ASSUME IInv, OnceInv, CommitPass PROVE OnceInv'
    OBVIOUS
  <1>1. pass \in Passes /\ pass # NoPass /\ pass.at > Len(Stages)
    BY NoPassDiffers DEF CommitPass, LoopDone, IInv, TypeOK, PassType
  <1>2. status' = pass.out /\ truth' = pass.work /\ pass' = NoPass /\ completed' = completed
    BY Zenon DEF CommitPass
  <1>3. ASSUME NEW s \in StageNames PROVE Agree(s, status'[s], truth')
    <2>1. PICK i \in 1 .. Len(Stages) : Stages[i] = s
      BY Places
    <2>2. i < pass.at
      BY <1>1, Places DEF Passes
    <2>3. Behind(s)
      BY <1>1, <2>1, <2>2 DEF OnceInv
    <2>. QED  BY <1>2, <2>3 DEF Behind
  <1>4. Lives(truth', completed')
    BY <1>1, <1>2 DEF OnceInv
  <1>. QED  BY <1>2, <1>3, <1>4 DEF OnceInv

\* What leaves the status and the completions alone, and at most ends the pass.
LEMMA QuietOnce ==
    ASSUME OnceInv, UNCHANGED <<status, completed, truth>>,
           pass' = NoPass \/ UNCHANGED <<pass, resetDone>>
    PROVE  OnceInv'
  <1>1. CASE pass' = NoPass
    BY <1>1 DEF OnceInv
  <1>2. CASE UNCHANGED <<pass, resetDone>>
    <2>1. stage' = stage
      BY <1>2 DEF stage
    <2>2. InHand => InHand'
      BY <1>2, <2>1 DEF InHand
    <2>3. \A s : /\ Behind(s) => Behind(s)'
                 /\ Ahead(s) => Ahead(s)'
      BY <1>2 DEF Behind, Ahead, Left, Before
    <2>. QED  BY <1>2, <2>2, <2>3 DEF OnceInv
  <1>. QED  BY <1>1, <1>2

\* Nothing has been done, and everything but the completed Lifetime actions is owed.
LEMMA AnewAgrees ==
    ASSUME NEW t, t.seen = [s \in StageNames |-> [rev |-> NoRev, ver |-> NoVer]],
           Actions \ Lifetime \subseteq t.owed, NEW s \in StageNames
    PROVE  Agree(s, NoStatus, t)
  <1>1. Scoped(s, "Revision") \subseteq t.owed /\ Scoped(s, "Version") \subseteq t.owed
    BY ScopedActions, LifetimeApart
  <1>. QED
    BY <1>1 DEF Agree, NoStatus, KeepsRev, KeyRev, TrueRev, KeepsVer, KeyVer, TrueVer

LEMMA InitOnce == Init => OnceInv
  <1>. SUFFICES ASSUME Init PROVE OnceInv
    OBVIOUS
  <1>1. /\ status = [s \in StageNames |-> NoStatus] /\ truth = NothingDone /\ pass = NoPass
        /\ completed = [a \in Lifetime |-> Nothing]
    BY Zenon DEF Init
  <1>2. truth.owed = Actions /\ truth.seen = [s \in StageNames |-> [rev |-> NoRev, ver |-> NoVer]]
    BY <1>1 DEF NothingDone
  <1>3. \A s \in StageNames : Agree(s, status[s], truth)
    BY <1>1, <1>2, AnewAgrees
  <1>4. Lives(truth, completed)
    BY <1>1, <1>2, LifetimeActions DEF Lives
  <1>. QED  BY <1>1, <1>3, <1>4 DEF OnceInv

LEMMA RecreateOnce == IInv /\ OnceInv /\ RecreateStageSet => OnceInv'
  <1>. SUFFICES ASSUME IInv, OnceInv, RecreateStageSet PROVE OnceInv'
    OBVIOUS
  <1>1. /\ status' = [s \in StageNames |-> NoStatus] /\ pass' = NoPass /\ completed' = completed
        /\ truth' = [NothingDone EXCEPT !.owed = (Actions \ Lifetime) \cup (truth.owed \cap Lifetime)]
    BY Zenon DEF RecreateStageSet
  <1>2. PICK t : t = truth'
    OBVIOUS
  <1>3. /\ t.owed = (Actions \ Lifetime) \cup (truth.owed \cap Lifetime)
        /\ t.seen = [s \in StageNames |-> [rev |-> NoRev, ver |-> NoVer]]
    BY <1>1, <1>2 DEF NothingDone
  <1>4. \A s \in StageNames : Agree(s, status'[s], t)
    BY <1>1, <1>3, AnewAgrees
  <1>5. Lives(t, completed')
    BY <1>1, <1>3 DEF OnceInv, Lives
  <1>. QED  BY <1>1, <1>2, <1>4, <1>5 DEF OnceInv

LEMMA FailBeforeLoopOnce == IInv /\ OnceInv /\ FailBeforeLoop => OnceInv'
  <1>. SUFFICES ASSUME IInv, OnceInv, FailBeforeLoop PROVE OnceInv'
    OBVIOUS
  <1>1. /\ pass' = NoPass /\ completed' = completed
        /\ status' = [status EXCEPT ![Stages[1]] = Stamp("Failed", NoLedger, 0)]
        /\ truth' = [truth EXCEPT !.erased =
                        @ \cup status[Stages[1]].executed \cup status[Stages[1]].versioned]
    BY Zenon DEF FailBeforeLoop
  <1>2. truth \in Account /\ status \in [StageNames -> StageStatus]
    BY DEF IInv, TypeOK, PassType, StatusType
  <1>3. PICK f : f = Stages[1]
    OBVIOUS
  <1>4. PICK t : t = truth'
    OBVIOUS
  <1>5. /\ t.owed = truth.owed /\ t.seen = truth.seen /\ t.skipped = truth.skipped
        /\ t.erased = truth.erased \cup status[f].executed \cup status[f].versioned
    BY <1>1, <1>2, <1>3, <1>4 DEF Account
  <1>6. ASSUME NEW s \in StageNames PROVE Agree(s, status'[s], t)
    <2>1. Agree(s, status[s], truth)
      BY DEF OnceInv
    <2>2. CASE s = f
      <3>1. PICK st : st = Stamp("Failed", NoLedger, 0)
        OBVIOUS
      <3>2. status'[s] = st /\ st.executed = {} /\ st.versioned = {} /\ st.rev = NoRev /\ st.ver = NoVer
        BY <1>1, <1>2, <1>3, <2>2, <3>1 DEF Stamp, NoLedger
      <3>3. Agree(s, st, t)
        BY <1>5, <2>1, <2>2, <3>2 DEF Agree, KeepsRev, KeyRev, TrueRev, KeepsVer, KeyVer, TrueVer
      <3>. QED  BY <3>2, <3>3
    <2>3. CASE s # f
      <3>1. status'[s] = status[s]
        BY <1>1, <1>2, <1>3, <2>3
      <3>2. Agree(s, status[s], t)
        BY <1>5, <2>1 DEF Agree, KeepsRev, KeyRev, TrueRev, KeepsVer, KeyVer, TrueVer
      <3>. QED  BY <3>1, <3>2
    <2>. QED  BY <2>2, <2>3
  <1>7. Lives(t, completed')
    BY <1>1, <1>5 DEF OnceInv, Lives
  <1>. QED  BY <1>1, <1>4, <1>6, <1>7 DEF OnceInv

\* What a pass starts from: a requested stage has no revision ledger, and after a
\* reset request no stage has a version ledger.
LEMMA PriorFacts ==
    ASSUME IInv, NEW s \in StageNames, NEW p, p = PriorStages[s],
           NEW forced, forced = (ForcePending /\ s = force.stage)
    PROVE  /\ forced => p.executed = {} /\ p.rev = NoRev
           /\ ~forced => p.executed = status[s].executed /\ p.rev = status[s].rev
           /\ ResetPending => p.versioned = {} /\ p.ver = NoVer
           /\ ~ResetPending => p.versioned = status[s].versioned /\ p.ver = status[s].ver
  <1>1. status[s] \in StageStatus
    BY DEF IInv, TypeOK, StatusType
  <1>2. PICK f : f = IF forced THEN [status[s] EXCEPT !.executed = {}, !.rev = NoRev] ELSE status[s]
    OBVIOUS
  <1>3. /\ forced => f.executed = {} /\ f.rev = NoRev
        /\ ~forced => f.executed = status[s].executed /\ f.rev = status[s].rev
        /\ f.versioned = status[s].versioned /\ f.ver = status[s].ver
        /\ f \in [phase : {"None", "Held", "Failed", "Verifying", "Ready"},
                  rev : Revisions \cup {NoRev}, executed : SUBSET Actions,
                  ver : Versions \cup {NoVer}, versioned : SUBSET Actions, handled : 0 .. MaxEvents]
    BY <1>1, <1>2 DEF StageStatus
  <1>4. p = IF ResetPending THEN [f EXCEPT !.versioned = {}, !.ver = NoVer] ELSE f
    BY <1>2 DEF PriorStages
  <1>5. CASE ResetPending
    BY <1>3, <1>4, <1>5
  <1>6. CASE ~ResetPending
    BY <1>3, <1>4, <1>6
  <1>. QED  BY <1>5, <1>6

LEMMA StartPassOnce == IInv /\ OnceInv /\ StartPass => OnceInv'
  <1>. SUFFICES ASSUME IInv, OnceInv, StartPass PROVE OnceInv'
    OBVIOUS
  <1>1. pass = NoPass /\ UNCHANGED <<status, resetDone>>
    BY Zenon DEF StartPass, statusVars
  <1>2. PICK promoted : promoted = {a \in asserted : completed[a] = Nothing}
    OBVIOUS
  <1>3. PICK all : all = {a \in Actions : \E s \in StageNames : a \in Scoped(s, "Version")}
    OBVIOUS
  <1>4. PICK w : w = Paid(truth, promoted)
    OBVIOUS
  <1>5. PICK u : u = IF ResetPending THEN Owing(w, all) ELSE w
    OBVIOUS
  <1>6. /\ completed' = [a \in Lifetime |-> IF a \in promoted THEN 0 ELSE completed[a]]
        /\ truth' = w
    BY <1>2, <1>4 DEF StartPass
  <1>7. /\ pass'.pc = "enter" /\ pass'.at = 1 /\ pass'.prior = PriorStages /\ pass'.work = u
        /\ pass'.forced = (IF ForcePending THEN force.stage ELSE NoStage)
        /\ pass'.reset = (IF ResetPending THEN reset ELSE resetDone)
        /\ pass'.out = [s \in StageNames |-> NoStatus]
    BY <1>2, <1>3, <1>4, <1>5 DEF StartPass
  <1>8. promoted \subseteq Lifetime /\ truth \in Account /\ w \in Account
    BY <1>2, <1>4, PaidType DEF IInv, TypeOK, PassType, InputType
  <1>9. /\ w.owed = truth.owed \ promoted /\ w.erased = truth.erased \ promoted
        /\ w.skipped = truth.skipped \ promoted /\ w.seen = truth.seen
    BY <1>4, <1>8, PaidFields
  <1>10. /\ u.erased = w.erased /\ u.skipped = w.skipped /\ u.seen = w.seen
         /\ ResetPending => u.owed = w.owed \cup all
         /\ ~ResetPending => u.owed = w.owed
    BY <1>5, <1>8, OwingFields
  <1>11. ASSUME NEW s \in StageNames
         PROVE  /\ Scoped(s, "Version") \subseteq all
                /\ all \cap Scoped(s, "Revision") = {}
                /\ all \cap Lifetime = {}
    <2>1. Scoped(s, "Version") \subseteq all
      BY <1>3, ScopedActions
    <2>2. all \cap Scoped(s, "Revision") = {}
      BY <1>3, ScopesApart
    <2>3. all \cap Lifetime = {}
      BY <1>3, LifetimeApart
    <2>. QED  BY <2>1, <2>2, <2>3
  <1>12. ASSUME NEW s \in StageNames PROVE Agree(s, status[s], w)
    <2>1. promoted \cap (Scoped(s, "Revision") \cup Scoped(s, "Version")) = {}
      BY <1>8, LifetimeApart
    <2>2. Same(s, truth, w)
      BY <1>4, <1>8, <2>1, PaidSame
    <2>3. Filed(s, status[s]) /\ Agree(s, status[s], truth)
      BY DEF OnceInv, IInv, TypeOK, StatusType
    <2>. QED  BY <2>2, <2>3, AgreeSame
  <1>13. Lives(w, completed') /\ Lives(u, completed')
    <2>1. Lives(truth, completed)
      BY DEF OnceInv
    <2>2. \A a \in Lifetime : completed'[a] = Nothing <=> a \notin promoted /\ completed[a] = Nothing
      BY <1>6 DEF Nothing
    <2>3. Lives(w, completed')
      BY <1>9, <2>1, <2>2 DEF Lives
    <2>4. all \cap Lifetime = {}
      <3>1. Stages[1] \in StageNames
        BY LedgerAssumption
      <3>. QED  BY <1>11, <3>1
    <2>. QED  BY <1>10, <2>3, <2>4 DEF Lives
  <1>14. ASSUME NEW s \in StageNames PROVE Left(s)'
    <2>1. Filed(s, status[s]) /\ Agree(s, status[s], w)
      BY <1>12 DEF IInv, TypeOK, StatusType
    <2>2. /\ KeepsRev(s, status[s], u) /\ KeyRev(s, status[s], u)
          /\ KeepsVer(s, status[s], u) /\ KeyVer(s, status[s], u)
      BY <1>10, <2>1 DEF Agree, KeepsRev, KeyRev, KeepsVer, KeyVer
    <2>3. TrueRev(s, status[s], u)
      BY <1>10, <1>11, <2>1 DEF Agree, TrueRev, Filed
    <2>4. ~ResetPending => TrueVer(s, status[s], u)
      BY <1>10, <2>1 DEF Agree, TrueVer
    <2>5. pass'.reset = resetDone' => ~ResetPending
      BY <1>1, <1>7 DEF ResetPending
    <2>. QED  BY <1>1, <1>7, <2>2, <2>3, <2>4, <2>5 DEF Left
  <1>15. ASSUME NEW s \in StageNames PROVE Before(s)'
    <2>1. Filed(s, status[s]) /\ Agree(s, status[s], w)
      BY <1>12 DEF IInv, TypeOK, StatusType
    <2>2. PICK p : p = PriorStages[s]
      OBVIOUS
    <2>3. PICK forced : forced = (ForcePending /\ s = force.stage)
      OBVIOUS
    <2>4. /\ forced => p.executed = {} /\ p.rev = NoRev
          /\ ~forced => p.executed = status[s].executed /\ p.rev = status[s].rev
          /\ ResetPending => p.versioned = {} /\ p.ver = NoVer
          /\ ~ResetPending => p.versioned = status[s].versioned /\ p.ver = status[s].ver
      BY <2>2, <2>3, PriorFacts
    <2>5. s = pass'.forced <=> forced
      BY <1>7, <2>3, LedgerAssumption
    <2>6. ~forced => KeepsRev(s, p, u)
      BY <1>10, <2>1, <2>4 DEF Agree, KeepsRev
    <2>7. KeyRev(s, p, u)
      BY <1>10, <2>1, <2>4 DEF Agree, KeyRev
    <2>8. TrueRev(s, p, u)
      BY <1>10, <1>11, <2>1, <2>4 DEF Agree, TrueRev, Filed
    <2>9. KeepsVer(s, p, u)
      BY <1>10, <1>11, <2>1, <2>4 DEF Agree, KeepsVer
    <2>10. KeyVer(s, p, u) /\ TrueVer(s, p, u)
      BY <1>10, <2>1, <2>4 DEF Agree, KeyVer, TrueVer
    <2>. QED  BY <1>7, <2>2, <2>4, <2>5, <2>6, <2>7, <2>8, <2>9, <2>10 DEF Before
  <1>16. ASSUME NEW i \in 1 .. Len(Stages) PROVE Ahead(Stages[i])'
    <2>1. PICK s \in StageNames : s = Stages[i]
      BY StageInRange
    <2>. QED  BY <1>7, <1>14, <1>15, <2>1 DEF Ahead
  <1>17. \A s \in StageNames : Agree(s, status'[s], truth')
    BY <1>1, <1>6, <1>12
  <1>18. Lives(truth', completed') /\ Lives(pass'.work, completed')
    BY <1>6, <1>7, <1>13
  <1>19. \A i \in 1 .. Len(Stages) : ~(i < pass'.at)
    BY <1>7, Places
  <1>. QED  BY <1>7, <1>16, <1>17, <1>18, <1>19 DEF OnceInv

-----------------------------------------------------------------------------
(* The theorems. *)

LEMMA Inductive == IInv /\ [Next]_vars => IInv'
  <1>. SUFFICES ASSUME IInv, [Next]_vars PROVE IInv'
    OBVIOUS
  <1>1. CASE Pass
    <2>1. CASE FailBeforeLoop \/ StartPass \/ StallOnDuplicates \/ CommitPass \/ LosePass
      BY <2>1, FailBeforeLoopInv, StartPassInv, StallInv, CommitPassInv, LosePassInv
    <2>2. CASE HoldStage \/ FailConnect \/ FinishFailure \/ HoldForProgress \/ GateHolds
      BY <2>2, HoldStageInv, FailConnectInv, FinishFailureInv, HoldForProgressInv, GateHoldsInv
    <2>3. CASE EnterStage \/ ApplyStage \/ ApplyFails \/ FinishStage
      BY <2>3, EnterStageInv, ApplyStageInv, ApplyFailsInv, FinishStageInv
    <2>4. CASE \E a \in Actions : RunAction(a) \/ RunLifetime(a) \/ ActionFails(a)
      BY <2>4, RunActionInv, RunLifetimeInv, ActionFailsInv
    <2>. QED  BY <1>1, <2>1, <2>2, <2>3, <2>4, Zenon DEF Pass
  <1>2. CASE World
    BY <1>2, UpdateSourceInv, RequestForceInv, RequestResetInv, RequestReconcileInv,
       AssertBaselineInv, ChangeWitnessInv, RecreateInv DEF World
  <1>3. CASE UNCHANGED vars
    <2>1. InputType' /\ BoundInv'
      BY <1>3 DEF IInv, TypeOK, InputType, BoundInv, vars, inputVars
    <2>. QED  BY <1>3, <2>1, QuietStep DEF vars
  <1>. QED  BY <1>1, <1>2, <1>3 DEF Next

\* Whatever fails, holds or is lost, the status stays well-typed and every
\* recorded action stays in the ledger of its scope.
THEOREM LedgerTypeCorrect == Spec => []TypeOK
  <1>1. IInv => TypeOK
    BY DEF IInv
  <1>. QED  BY <1>1, InitInv, Inductive, PTL DEF Spec

\* For every failure limit and every list of actions: a bootstrap that keeps
\* failing is attempted at most MaxActionFailures times before it is left alone.
THEOREM DirtyHaltsAlways == Spec => []DirtyHalts
  <1>1. IInv => DirtyHalts
    BY DEF IInv, FailInv, DirtyHalts
  <1>. QED  BY <1>1, InitInv, Inductive, PTL DEF Spec

LEMMA OnceInductive == IInv /\ OnceInv /\ [Next]_vars => OnceInv'
  <1>. SUFFICES ASSUME IInv, OnceInv, [Next]_vars PROVE OnceInv'
    OBVIOUS
  <1>1. CASE FailBeforeLoop \/ StartPass \/ RecreateStageSet
    BY <1>1, FailBeforeLoopOnce, StartPassOnce, RecreateOnce
  <1>2. CASE HoldStage \/ FailConnect \/ FinishFailure \/ HoldForProgress \/ GateHolds
    BY <1>2, HoldStageOnce, FailConnectOnce, FinishFailureOnce, HoldForProgressOnce, GateHoldsOnce
  <1>3. CASE EnterStage \/ ApplyStage \/ ApplyFails \/ FinishStage \/ CommitPass
    BY <1>3, EnterStageOnce, ApplyStageOnce, ApplyFailsOnce, FinishStageOnce, CommitPassOnce
  <1>4. CASE \E a \in Actions : RunAction(a) \/ RunLifetime(a) \/ ActionFails(a)
    BY <1>4, RunActionOnce, RunLifetimeOnce, ActionFailsOnce
  <1>5. CASE StallOnDuplicates \/ LosePass
    BY <1>5, QuietOnce, Zenon DEF StallOnDuplicates, LosePass, statusVars
  <1>6. CASE UpdateSource \/ RequestForce \/ RequestReset \/ RequestReconcile
             \/ AssertBaseline \/ ChangeWitness \/ UNCHANGED vars
    <2>1. UNCHANGED <<status, completed, truth, pass, resetDone>>
      BY <1>6, Zenon DEF UpdateSource, RequestForce, RequestReset, RequestReconcile,
                         AssertBaseline, ChangeWitness, Event, vars, statusVars
    <2>. QED  BY <2>1, QuietOnce, Zenon
  <1>. QED  BY <1>1, <1>2, <1>3, <1>4, <1>5, <1>6, Zenon DEF Next, Pass, World

\* Whatever fails, holds, is lost or is created anew, the executor is only handed
\* actions that are owed, or whose record a failure before the loop has erased.
THEOREM NothingRepeated == Spec => []ActionOnceUnlessErased
  <1>1. IInv /\ OnceInv => ActionOnceUnlessErased
    BY DEF IInv, TodoInv, OnceInv, InHand, ActionOnceUnlessErased
  <1>. QED  BY <1>1, InitInv, InitOnce, Inductive, OnceInductive, PTL DEF Spec

\* A stage that is through with its post actions owes none of its pre and post
\* actions, but for the Version actions of a reset that did not get to it.
THEOREM NothingSkipped == Spec => []NothingOwedUnlessSkipped
  <1>1. IInv /\ OnceInv => NothingOwedUnlessSkipped
    BY DEF OnceInv, InHand, AtStage, NothingOwedUnlessSkipped
  <1>. QED  BY <1>1, InitInv, InitOnce, Inductive, OnceInductive, PTL DEF Spec

=============================================================================
