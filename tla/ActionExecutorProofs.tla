------------------------ MODULE ActionExecutorProofs ------------------------
(***************************************************************************)
(* What Executor.Run guarantees for any StageSets, actions, Jobs and       *)
(* retries, any sharing of Jobs and any mix of failures and crashes.       *)
(***************************************************************************)
EXTENDS ActionExecutor, TLAPS

Verbs == Requests \cup {"http", "wait", "job"}
Size == Len(Manifests)
Ks == 1 .. Size + 1
Counts == 0 .. Size
Attempts == 0 .. retries

PassRecord ==
    [at : {"idle", "dispatch", "create", "await", "cleanup", "done", "failed"}, done : SUBSET Verbs,
     verb : Verbs \cup {"none"}, attempt : Attempts, expired : BOOLEAN, late : BOOLEAN,
     parts : SUBSET UNION {Parts[v] : v \in Requests}, rev : Revs \cup {"none"},
     created : Counts, k : Ks, ok : BOOLEAN, refused : BOOLEAN, sent : Nat]

\* TypeOK, and the types of the fields it leaves out.
Types ==
    /\ pass \in [Sets -> PassRecord] /\ ledger \in [Sets -> SUBSET Verbs]
    /\ jobs \in [Names -> {"none", "running", "complete", "failed"}]
    /\ completed \subseteq Names /\ left \subseteq Names /\ rev \in Revs /\ ready \in BOOLEAN /\ faults \in Nat

\* A pass works on the first of its actions that is not done.
Turn(s, p) ==
    p.at # "idle" =>
        \E i \in DOMAIN Acts[s] : /\ p.verb = Acts[s][i] /\ p.verb \notin p.done
                                  /\ \A j \in DOMAIN Acts[s] : j < i => Acts[s][j] \in p.done

\* The verbs in vs are actions of s that have taken effect.
TrulyDone(s, vs) == \A v \in vs : v \in ToSet(Acts[s]) /\ Done(s, v)

\* What a pass knows of its verb is true: the objects it has counted were
\* patched, the Jobs it has seen complete did, and a verb that is done is.
Known(s, p) ==
    /\ p.at = "dispatch" /\ p.verb \in Requests => \A t \in p.parts : <<s, p.verb, t>> \in effects
    /\ p.at = "done" => Done(s, p.verb)
    /\ p.ok => p.verb = "job" /\ Done(s, "job")

Progress(s, p) == Known(s, p) /\ TrulyDone(s, p.done)

\* Where a pass is in its list of Jobs.
Place(p) ==
    /\ p.at \in {"create", "await", "cleanup"} => p.verb = "job" /\ p.rev \in Revs
    /\ p.at = "create" => p.created < Size /\ p.k = 1
    /\ p.at = "await" => /\ p.k <= Size /\ p.created = Size
                         /\ \A i \in 1 .. Size : i < p.k => <<p.rev, Manifests[i]>> \in completed
    /\ p.at = "cleanup" => p.k <= p.created
    /\ p.at = "dispatch" => p.created = 0 /\ p.k = 1

\* Calls are counted by attempts, and a refusal ends them.
Calls(p) ==
    /\ p.sent <= p.attempt + 1
    /\ p.at = "dispatch" => p.sent <= p.attempt
    /\ p.refused => p.at = "failed"

Good(s, p) == Turn(s, p) /\ Progress(s, p) /\ Place(p) /\ Calls(p)

PassInv == \A s \in Sets : Good(s, pass[s])
LedgerInv == \A s \in Sets : TrulyDone(s, ledger[s])
JobsInv == \A n \in Names : jobs[n] = "complete" => n \in completed

\* The Jobs a pass is going to remove.
Holds(p, n) ==
    /\ p.at \in {"create", "await", "cleanup"}
    /\ \E i \in 1 .. Size : /\ n = <<p.rev, Manifests[i]>> /\ i <= p.created
                            /\ p.at = "cleanup" => p.k <= i

HeldInv == \A n \in Names : jobs[n] # "none" => n \in left \/ \E s \in Sets : Holds(pass[s], n)

IInv == Types /\ PassInv /\ LedgerInv /\ JobsInv /\ HeldInv /\ InOrder

-----------------------------------------------------------------------------
(* The constants and the operators. *)

LEMMA Constants ==
    /\ Size \in Nat /\ DOMAIN Manifests = 1 .. Size /\ (Manifests = <<>> <=> Size = 0)
    /\ \A i \in 1 .. Size : Manifests[i] \in ToSet(Manifests)
    /\ \A m \in ToSet(Manifests) : \E i \in 1 .. Size : m = Manifests[i]
    /\ \A r \in Revs, i \in 1 .. Size : <<r, Manifests[i]>> \in Names
    /\ Revs # {} /\ retries \in Nat /\ MaxFaults \in Nat
    /\ "http" \notin Requests /\ "wait" \notin Requests /\ "job" \notin Requests
<1>1. Manifests \in Seq(ToSet(Manifests))
  BY ExecutorAssumption
<1>2. DOMAIN Manifests = 1 .. Size /\ Size \in Nat /\ (Manifests = <<>> <=> Size = 0)
  BY <1>1 DEF Size
<1> QED
  BY <1>1, <1>2, ExecutorAssumption DEF ToSet, Names

LEMMA Ranges == 1 \in Ks /\ 0 \in Counts /\ 0 \in Attempts
BY Constants DEF Ks, Counts, Attempts

\* The actions of a StageSet are verbs, each of them once.
LEMMA Actions == ASSUME NEW s \in Sets
    PROVE  /\ DOMAIN Acts[s] \subseteq Nat
           /\ \A i \in DOMAIN Acts[s] : Acts[s][i] \in Verbs /\ Acts[s][i] \in ToSet(Acts[s])
           /\ \A i, j \in DOMAIN Acts[s] : Acts[s][i] = Acts[s][j] => i = j
           /\ ToSet(Acts[s]) \subseteq Verbs
           /\ \A v \in ToSet(Acts[s]) : \E i \in DOMAIN Acts[s] : v = Acts[s][i]
<1>1. Acts[s] \in Seq(Verbs)
  BY ExecutorAssumption DEF Verbs
<1>2. DOMAIN Acts[s] = 1 .. Len(Acts[s]) /\ Len(Acts[s]) \in Nat
  BY <1>1
<1>3. \A i \in DOMAIN Acts[s] : Acts[s][i] \in Verbs
  BY <1>1
<1> QED
  BY <1>2, <1>3, ExecutorAssumption DEF ToSet, IsInjective

\* What took effect stays so.
LEMMA DoneStays == ASSUME NEW s, NEW v, effects \subseteq effects', completed \subseteq completed', Done(s, v)
    PROVE  Done(s, v)'
BY DEF Done

LEMMA GoodStays ==
    ASSUME NEW s \in Sets, NEW CONSTANT p, effects \subseteq effects', completed \subseteq completed', Good(s, p)
    PROVE  Good(s, p)'
<1>1. Turn(s, p)' /\ Calls(p)'
  BY DEF Good, Turn, Calls
<1>2. Progress(s, p)'
  BY DoneStays DEF Good, Progress, Known, TrulyDone
<1>3. Place(p)'
  BY DEF Good, Place
<1> QED
  BY <1>1, <1>2, <1>3 DEF Good

-----------------------------------------------------------------------------
(* The shape of a step. *)

\* What an invariant says of one pass.
LEMMA OnePass == ASSUME IInv, NEW s \in Sets
    PROVE  /\ pass[s] \in PassRecord /\ pass \in [Sets -> PassRecord] /\ Good(s, pass[s])
           /\ ledger[s] \in SUBSET Verbs /\ TrulyDone(s, ledger[s]) /\ ledger \in [Sets -> SUBSET Verbs]
BY DEF IInv, Types, PassInv, LedgerInv

(***************************************************************************)
(* One pass moves on to q.  Its effects are those of the verb in hand, its *)
(* ledger gets only what was done, and a Job that exists is still going to *)
(* be removed or is known to be left.                                      *)
(***************************************************************************)
LEMMA Moves ==
    ASSUME IInv, NEW s \in Sets, NEW q \in PassRecord, NEW d \in SUBSET Verbs,
           pass' = [pass EXCEPT ![s] = q], Good(s, q)',
           ledger' \in {ledger, [ledger EXCEPT ![s] = d]}, TrulyDone(s, d)',
           effects \subseteq effects',
           \A e \in effects' \ effects : pass[s].at # "idle" /\ \E t : e = <<s, pass[s].verb, t>>,
           UNCHANGED <<completed, rev, ready>>, faults' \in Nat,
           jobs' \in [Names -> {"none", "running", "complete", "failed"}], left' \subseteq Names,
           \A n \in Names : jobs'[n] = "complete" => jobs[n] = "complete",
           \A n \in Names : jobs'[n] # "none" =>
               \/ n \in left' \/ Holds(q, n)
               \/ jobs[n] # "none" /\ (n \in left => n \in left') /\ ~Holds(pass[s], n)
    PROVE  IInv'
<1>1. Types'
  BY DEF IInv, Types
<1>2. pass'[s] = q /\ \A o \in Sets \ {s} : pass'[o] = pass[o]
  BY DEF IInv, Types
<1>3. PassInv'
  <2> SUFFICES ASSUME NEW o \in Sets PROVE Good(o, pass[o])'
    BY DEF PassInv
  <2>1. CASE o = s
    <3>1. Turn(s, pass[s])' /\ Calls(pass[s])'
      BY <1>2 DEF Good, Turn, Calls
    <3>2. Progress(s, pass[s])' /\ Place(pass[s])'
      BY <1>2 DEF Good, Progress, Known, Place, TrulyDone, Done
    <3> QED
      BY <2>1, <3>1, <3>2 DEF Good
  <2>2. CASE o # s
    <3>1. Good(o, pass[o])
      BY OnePass
    <3>2. Turn(o, pass[o])' /\ Calls(pass[o])'
      BY <1>2, <2>2, <3>1 DEF Good, Turn, Calls
    <3>3. Place(pass[o])'
      BY <1>2, <2>2, <3>1 DEF Good, Place
    <3>4. Progress(o, pass[o])'
      BY <1>2, <2>2, <3>1, DoneStays DEF Good, Progress, Known, TrulyDone
    <3> QED
      BY <3>2, <3>3, <3>4 DEF Good
  <2> QED
    BY <2>1, <2>2
<1>4. LedgerInv'
  <2> SUFFICES ASSUME NEW o \in Sets PROVE TrulyDone(o, ledger[o])'
    BY DEF LedgerInv
  <2>1. ledger'[o] = ledger[o] \/ (o = s /\ ledger'[o] = d)
    BY OnePass
  <2>2. CASE ledger'[o] = ledger[o]
    BY <2>2, OnePass, DoneStays DEF TrulyDone
  <2>3. CASE o = s /\ ledger'[o] = d
    BY <2>3 DEF TrulyDone, Done
  <2> QED
    BY <2>1, <2>2, <2>3
<1>5. JobsInv'
  BY DEF IInv, JobsInv
<1>6. HeldInv'
  <2> SUFFICES ASSUME NEW n \in Names, jobs'[n] # "none", n \notin left'
               PROVE  \E o \in Sets : Holds(pass'[o], n)
    BY DEF HeldInv, Holds
  <2>1. CASE Holds(q, n)
    BY <1>2, <2>1
  <2>2. CASE jobs[n] # "none" /\ n \notin left /\ ~Holds(pass[s], n)
    BY <1>2, <2>2 DEF IInv, HeldInv
  <2> QED
    BY <2>1, <2>2
<1>7. InOrder'
  <2> SUFFICES ASSUME NEW o \in Sets, NEW i \in DOMAIN Acts[o], NEW j \in DOMAIN Acts[o], i < j,
                      NEW t \in {"call", "seen"} \cup UNION {Parts[v] : v \in Requests},
                      <<o, Acts[o][j], t>> \in effects'
               PROVE  Done(o, Acts[o][i])'
    BY DEF InOrder
  <2>1. CASE <<o, Acts[o][j], t>> \in effects
    BY <2>1, DoneStays DEF IInv, InOrder
  <2>2. CASE <<o, Acts[o][j], t>> \notin effects
    <3>1. o = s /\ pass[s].at # "idle" /\ pass[s].verb = Acts[s][j]
      BY <2>2
    <3>2. PICK k \in DOMAIN Acts[s] : /\ pass[s].verb = Acts[s][k]
                                     /\ \A l \in DOMAIN Acts[s] : l < k => Acts[s][l] \in pass[s].done
      BY <3>1, OnePass DEF Good, Turn
    <3>3. k = j
      <4>1. Acts[s][k] = Acts[s][j] /\ k \in DOMAIN Acts[s] /\ j \in DOMAIN Acts[s]
        BY <3>1, <3>2
      <4>2. \A x, y \in DOMAIN Acts[s] : Acts[s][x] = Acts[s][y] => x = y
        BY Actions
      <4> QED
        BY <4>1, <4>2, Zenon
    <3>4. Acts[s][i] \in pass[s].done
      BY <3>1, <3>2, <3>3
    <3> QED
      BY <3>1, <3>4, OnePass, DoneStays DEF Good, Progress, Known, TrulyDone
  <2> QED
    BY <2>1, <2>2
<1> QED
  BY <1>1, <1>3, <1>4, <1>5, <1>6, <1>7 DEF IInv

\* The pass of s moves on from p to q without changing its verb.
Within(s, p, q) ==
    /\ p = pass[s] /\ p.at # "idle" /\ pass' = [pass EXCEPT ![s] = q]
    /\ q \in PassRecord /\ q.verb = p.verb /\ q.done = p.done

\* Only effects of the verb in hand are added.
Adds(s, p) == effects \subseteq effects' /\ \A e \in effects' \ effects : \E t : e = <<s, p.verb, t>>

Rest == UNCHANGED <<ledger, completed, rev, ready>>
Calm == Rest /\ UNCHANGED <<jobs, left>>

Jobbing == {"create", "await", "cleanup"}

\* A step that leaves Jobs alone.
LEMMA PlainMoves ==
    ASSUME IInv, NEW s \in Sets, NEW q \in PassRecord, NEW d \in SUBSET Verbs,
           pass' = [pass EXCEPT ![s] = q], Good(s, q)',
           ledger' \in {ledger, [ledger EXCEPT ![s] = d]}, TrulyDone(s, d)',
           effects \subseteq effects',
           \A e \in effects' \ effects : pass[s].at # "idle" /\ \E t : e = <<s, pass[s].verb, t>>,
           UNCHANGED <<jobs, left, completed, rev, ready>>, faults' \in Nat,
           pass[s].at \notin Jobbing \/ \A n : Holds(pass[s], n) => Holds(q, n)
    PROVE  IInv'
<1>1. jobs \in [Names -> {"none", "running", "complete", "failed"}] /\ left \subseteq Names
  BY DEF IInv, Types
<1>2. \A n \in Names : Holds(pass[s], n) => Holds(q, n)
  BY DEF Holds, Jobbing
<1> QED
  BY <1>1, <1>2, Moves

LEMMA FaultType == ASSUME IInv, Fault \/ NoFault PROVE faults' \in Nat
BY DEF IInv, Types, Fault, NoFault

LEMMA IdlePass == ASSUME NEW s \in Sets
    PROVE  Idle \in PassRecord /\ Good(s, Idle)
<1>1. Idle \in PassRecord
  BY Ranges DEF Idle, PassRecord
<1>2. Good(s, Idle)
  BY DEF Idle, Good, Turn, Progress, Known, TrulyDone, Place, Calls
<1> QED
  BY <1>1, <1>2

LEMMA EndPassInv ==
    ASSUME IInv, NEW s \in Sets, NEW d \in SUBSET Verbs, TrulyDone(s, d), EndPass(s, d),
           pass[s].at \notin Jobbing, UNCHANGED <<effects, jobs, completed, left, rev, ready>>, Fault \/ NoFault
    PROVE  IInv'
<1>1. Good(s, Idle)' /\ TrulyDone(s, d)'
  BY IdlePass, DoneStays, GoodStays DEF TrulyDone, Idle, Good, Turn, Progress, Known, Place, Calls
<1> QED
  BY <1>1, IdlePass, FaultType, PlainMoves DEF EndPass, Go

LEMMA AdvanceInv ==
    ASSUME IInv, NEW s \in Sets, NEW d \in SUBSET Verbs, TrulyDone(s, d), Advance(s, d),
           pass[s].at \notin Jobbing, UNCHANGED <<effects, jobs, completed, left, rev, ready>>, Fault \/ NoFault
    PROVE  IInv'
<1>1. CASE EndPass(s, d)
  BY <1>1, EndPassInv
<1>2. ASSUME NEW i \in Pending(s, d), \A j \in Pending(s, d) : i <= j,
             Go(s, [Idle EXCEPT !.at = "dispatch", !.done = d, !.verb = Acts[s][i]]), UNCHANGED ledger
      PROVE  IInv'
  <2> DEFINE q == [Idle EXCEPT !.at = "dispatch", !.done = d, !.verb = Acts[s][i]]
  <2>1. i \in DOMAIN Acts[s] /\ Acts[s][i] \notin d /\ Acts[s][i] \in Verbs
    BY Actions DEF Pending
  <2>2. /\ q \in PassRecord /\ q.at = "dispatch" /\ q.done = d /\ q.verb = Acts[s][i] /\ q.parts = {}
        /\ ~q.ok /\ ~q.refused /\ q.sent = 0 /\ q.attempt = 0 /\ q.created = 0 /\ q.k = 1
    BY <2>1, Ranges DEF Idle, PassRecord
  <2>3. pass' = [pass EXCEPT ![s] = q]
    BY <1>2 DEF Go
  <2> HIDE DEF q
  <2>4. Turn(s, q)'
    <3>1. \A j \in DOMAIN Acts[s] : j < i => Acts[s][j] \in d
      BY <1>2, <2>1, Actions DEF Pending
    <3> QED
      BY <2>1, <2>2, <3>1 DEF Turn
  <2>5. Progress(s, q)'
    BY <2>2, DoneStays DEF Progress, Known, TrulyDone
  <2>6. Place(q)' /\ Calls(q)'
    BY <2>2 DEF Place, Calls
  <2>7. Good(s, q)' /\ TrulyDone(s, d)'
    BY <2>4, <2>5, <2>6, DoneStays DEF Good, TrulyDone
  <2> QED
    BY <1>2, <2>2, <2>3, <2>7, FaultType, PlainMoves
<1> QED
  BY <1>1, <1>2 DEF Advance

-----------------------------------------------------------------------------
(* The steps of a pass. *)

LEMMA StartPassInv == ASSUME IInv, NEW s \in Sets, StartPass(s) PROVE IInv'
BY OnePass, AdvanceInv DEF StartPass, Jobbing

LEMMA RecordActionInv == ASSUME IInv, NEW s \in Sets, RecordAction(s) PROVE IInv'
<1> DEFINE p == pass[s]
<1>1. p.at = "done" /\ p.verb \in ToSet(Acts[s]) /\ Done(s, p.verb) /\ TrulyDone(s, p.done)
  BY OnePass, Actions DEF RecordAction, Good, Turn, Progress, Known
<1>2. p.done \in SUBSET Verbs /\ p.done \cup {p.verb} \in SUBSET Verbs
  BY <1>1, OnePass, Actions DEF PassRecord
<1>3. TrulyDone(s, p.done \cup {p.verb})
  BY <1>1 DEF TrulyDone
<1>4. p.at \notin Jobbing /\ UNCHANGED <<effects, jobs, completed, left, rev, ready>>
  BY <1>1 DEF RecordAction, Jobbing
<1>5. CASE NoFault /\ Advance(s, p.done \cup {p.verb})
  BY <1>2, <1>3, <1>4, <1>5, AdvanceInv
<1>6. CASE Fault /\ EndPass(s, p.done)
  BY <1>1, <1>2, <1>4, <1>6, EndPassInv
<1> QED
  BY <1>5, <1>6 DEF RecordAction

LEMMA RetryInv == ASSUME IInv, NEW s \in Sets, Retry(s) PROVE IInv'
<1>1. PICK p : p = pass[s]
  OBVIOUS
<1>2. /\ p \in PassRecord /\ Good(s, p) /\ p.at = "failed" /\ p.done \in SUBSET Verbs
      /\ TrulyDone(s, p.done) /\ UNCHANGED <<effects, jobs, completed, left, rev, ready>> /\ NoFault
      /\ p.at \notin Jobbing
  BY <1>1, OnePass DEF Retry, PassRecord, Good, Progress, Known, Jobbing
<1>3. CASE Retryable(p)
  <2>1. p.attempt + 1 \in Attempts /\ ~p.refused
    BY <1>2, <1>3, Constants DEF Retryable, PassRecord, Attempts
  <2>2. PICK q : q = [p EXCEPT !.at = "dispatch", !.attempt = @ + 1, !.late = FALSE, !.parts = {},
                              !.created = 0, !.k = 1]
    OBVIOUS
  <2>3. /\ q \in PassRecord /\ q.at = "dispatch" /\ q.done = p.done /\ q.verb = p.verb /\ q.parts = {}
        /\ q.ok = p.ok /\ q.refused = p.refused /\ q.sent = p.sent /\ q.attempt = p.attempt + 1
        /\ q.created = 0 /\ q.k = 1
    BY <1>2, <2>1, <2>2, Ranges DEF PassRecord
  <2>4. pass' = [pass EXCEPT ![s] = q] /\ UNCHANGED ledger
    BY <1>1, <1>3, <2>2 DEF Retry, Go
  <2>5. Turn(s, q)'
    BY <1>2, <2>3 DEF Good, Turn
  <2>6. Progress(s, q)'
    BY <1>2, <2>3, DoneStays DEF Good, Progress, Known, TrulyDone
  <2>7. Place(q)'
    BY <2>3 DEF Place
  <2>8. Calls(q)'
    BY <1>2, <2>1, <2>3, Constants DEF Good, Calls, PassRecord, Attempts
  <2>9. Good(s, q)' /\ TrulyDone(s, p.done)'
    BY <2>5, <2>6, <2>7, <2>8, <1>2, DoneStays DEF Good, TrulyDone
  <2> QED
    BY <1>1, <1>2, <2>3, <2>4, <2>9, FaultType, PlainMoves
<1>4. CASE ~Retryable(p)
  BY <1>1, <1>2, <1>4, EndPassInv DEF Retry
<1> QED
  BY <1>3, <1>4

-----------------------------------------------------------------------------
(* The steps of a verb. *)

\* A pass moves on within the verb in hand.
LEMMA VerbMoves ==
    ASSUME IInv, NEW s \in Sets, NEW p, NEW q, Within(s, p, q), Known(s, q)', Place(q)', Calls(q),
           Adds(s, p), Rest, Fault \/ NoFault,
           jobs' \in [Names -> {"none", "running", "complete", "failed"}], left' \subseteq Names,
           \A n \in Names : jobs'[n] = "complete" => jobs[n] = "complete",
           \A n \in Names : jobs'[n] # "none" =>
               \/ n \in left' \/ Holds(q, n)
               \/ jobs[n] # "none" /\ (n \in left => n \in left') /\ ~Holds(p, n)
    PROVE  IInv'
<1>1. p \in PassRecord /\ Good(s, p) /\ p.done \in SUBSET Verbs /\ TrulyDone(s, p.done)
  BY OnePass DEF PassRecord, Good, Progress, Within
<1>2. Turn(s, q)'
  BY <1>1 DEF Good, Turn, Within
<1>3. PICK d \in SUBSET Verbs : d = p.done
  BY <1>1
<1>4. TrulyDone(s, d)' /\ TrulyDone(s, q.done)'
  BY <1>1, <1>3, DoneStays DEF TrulyDone, Within, Adds, Rest
<1>5. Good(s, q)'
  BY <1>2, <1>4 DEF Good, Progress, Calls
<1>6. faults' \in Nat
  BY FaultType
<1>7. \A e \in effects' \ effects : pass[s].at # "idle" /\ \E t : e = <<s, pass[s].verb, t>>
  BY DEF Within, Adds
<1>8. \A n \in Names : jobs'[n] # "none" =>
          \/ n \in left' \/ Holds(q, n)
          \/ jobs[n] # "none" /\ (n \in left => n \in left') /\ ~Holds(pass[s], n)
  BY DEF Within
<1>9. /\ q \in PassRecord /\ pass' = [pass EXCEPT ![s] = q]
      /\ ledger' \in {ledger, [ledger EXCEPT ![s] = d]} /\ UNCHANGED <<completed, rev, ready>>
      /\ effects \subseteq effects'
  BY DEF Within, Adds, Rest
<1> QED
  BY <1>4, <1>5, <1>6, <1>7, <1>8, <1>9, Moves

\* The same while Jobs stay as they are.
LEMMA VerbMovesPlainly ==
    ASSUME IInv, NEW s \in Sets, NEW p, NEW q, Within(s, p, q), Known(s, q)', Place(q)', Calls(q),
           Adds(s, p), Calm, Fault \/ NoFault, \A n : Holds(p, n) => Holds(q, n)
    PROVE  IInv'
<1>1. jobs \in [Names -> {"none", "running", "complete", "failed"}] /\ left \subseteq Names
  BY DEF IInv, Types
<1>2. Rest /\ UNCHANGED <<jobs, left>>
  BY DEF Calm
<1> QED
  BY <1>1, <1>2, VerbMoves

\* What is known of the pass of s.
LEMMA AtVerb == ASSUME IInv, NEW s \in Sets, NEW p, p = pass[s]
    PROVE  /\ p \in PassRecord /\ p.sent \in Nat /\ p.attempt \in Nat
           /\ Known(s, p) /\ Place(p) /\ Calls(p)
BY OnePass, Constants DEF PassRecord, Good, Progress, Attempts

\* An attempt fails, whatever it did before.
LEMMA AttemptFails ==
    ASSUME IInv, NEW s \in Sets, NEW p, NEW q, Within(s, p, q), p.at = "dispatch",
           q.at = "failed", q.ok = p.ok, q.sent \in {p.sent, p.sent + 1}, q.attempt = p.attempt,
           Adds(s, p), Calm, Fault \/ NoFault
    PROVE  IInv'
<1>1. p = pass[s] /\ q.verb = p.verb
  BY DEF Within
<1>2. Place(q)' /\ Calls(q)
  BY <1>1, AtVerb DEF Place, Calls
<1>3. Known(s, q)'
  BY <1>1, AtVerb, DoneStays DEF Known, Adds, Calm, Rest
<1>4. \A n : Holds(p, n) => Holds(q, n)
  BY DEF Holds
<1> QED
  BY <1>2, <1>3, <1>4, VerbMovesPlainly

\* An attempt succeeds.
LEMMA AttemptSucceeds ==
    ASSUME IInv, NEW s \in Sets, NEW p, NEW q, Within(s, p, q), p.at = "dispatch",
           q.at = "done", q.ok = p.ok, q.sent \in {p.sent, p.sent + 1}, q.attempt = p.attempt,
           q.refused = p.refused, Done(s, q.verb)',
           Adds(s, p), Calm, Fault \/ NoFault
    PROVE  IInv'
<1>1. p = pass[s] /\ q.verb = p.verb
  BY DEF Within
<1>2. Place(q)' /\ Calls(q)
  BY <1>1, AtVerb DEF Place, Calls
<1>3. Known(s, q)'
  BY <1>1, AtVerb, DoneStays DEF Known, Adds, Calm, Rest
<1>4. \A n : Holds(p, n) => Holds(q, n)
  BY DEF Holds
<1> QED
  BY <1>2, <1>3, <1>4, VerbMovesPlainly

LEMMA RequestInv == ASSUME IInv, NEW s \in Sets, Request(s) PROVE IInv'
<1>1. PICK p : p = pass[s]
  OBVIOUS
<1>2. /\ p.at = "dispatch" /\ p.verb \in Requests /\ Calm
      /\ p \in PassRecord /\ Known(s, p) /\ Place(p) /\ Calls(p)
  BY <1>1, AtVerb DEF Request, Calm, Rest
<1>3. p.parts \in SUBSET UNION {Parts[v] : v \in Requests} /\ pass \in [Sets -> PassRecord]
  BY <1>2, OnePass DEF PassRecord
<1>4. ASSUME NoFault, NEW t \in Parts[p.verb] \ p.parts,
             Go(s, [p EXCEPT !.parts = @ \cup {t}, !.at = IF p.parts \cup {t} = Parts[p.verb] THEN "done" ELSE @]),
             effects' = effects \cup {<<s, p.verb, t>>}
      PROVE  IInv'
  <2>1. PICK q : q = [p EXCEPT !.parts = @ \cup {t}, !.at = IF p.parts \cup {t} = Parts[p.verb] THEN "done" ELSE @]
    OBVIOUS
  <2>2. p.parts \cup {t} \in SUBSET UNION {Parts[v] : v \in Requests}
    BY <1>2, <1>3
  <2>3. /\ q \in PassRecord /\ q.verb = p.verb /\ q.done = p.done /\ q.ok = p.ok /\ q.sent = p.sent
        /\ q.attempt = p.attempt /\ q.refused = p.refused /\ q.created = p.created /\ q.k = p.k
        /\ q.parts = p.parts \cup {t}
        /\ q.at = IF p.parts \cup {t} = Parts[p.verb] THEN "done" ELSE "dispatch"
    BY <1>2, <2>1, <2>2 DEF PassRecord
  <2>4. Within(s, p, q)
    BY <1>1, <1>2, <1>4, <2>1, <2>3 DEF Go, Within
  <2>5. \A u \in q.parts : <<s, q.verb, u>> \in effects'
    BY <1>2, <1>4, <2>3 DEF Known
  <2>6. Adds(s, p)
    BY <1>4 DEF Adds
  <2>7. CASE q.at = "done"
    <3>1. Done(s, q.verb)'
      BY <1>2, <2>3, <2>5, <2>7 DEF Done
    <3> QED
      BY <1>2, <1>4, <2>3, <2>4, <2>6, <2>7, <3>1, AttemptSucceeds
  <2>8. CASE q.at = "dispatch"
    <3>1. Place(q)' /\ Calls(q)
      BY <1>2, <2>3, <2>8 DEF Place, Calls
    <3>2. ~q.ok
      BY <1>2, <2>3, Constants DEF Known
    <3>3. \A n : Holds(p, n) => Holds(q, n)
      BY <1>2 DEF Holds
    <3>4. Known(s, q)'
      BY <2>5, <2>8, <3>2 DEF Known
    <3> QED
      BY <1>2, <1>4, <2>4, <2>6, <3>1, <3>3, <3>4, VerbMovesPlainly
  <2> QED
    BY <2>3, <2>7, <2>8
<1>5. ASSUME Go(s, [p EXCEPT !.at = "failed"]), Fault \/ NoFault, Adds(s, p)
      PROVE  IInv'
  <2>1. PICK q : q = [p EXCEPT !.at = "failed"]
    OBVIOUS
  <2>2. /\ q \in PassRecord /\ q.verb = p.verb /\ q.done = p.done /\ q.ok = p.ok /\ q.sent = p.sent
        /\ q.attempt = p.attempt /\ q.at = "failed"
    BY <1>2, <2>1 DEF PassRecord
  <2>3. Within(s, p, q)
    BY <1>1, <1>2, <1>5, <2>1, <2>2 DEF Go, Within
  <2> QED
    BY <1>2, <1>5, <2>2, <2>3, AttemptFails
<1>6. CASE Fault /\ Go(s, [p EXCEPT !.at = "failed"])
           /\ \E t \in Parts[p.verb] \ p.parts : effects' \in {effects, effects \cup {<<s, p.verb, t>>}}
  BY <1>5, <1>6 DEF Adds
<1>7. CASE NoFault /\ Go(s, [p EXCEPT !.at = "failed"]) /\ UNCHANGED effects
  BY <1>5, <1>7 DEF Adds
<1> QED
  BY <1>1, <1>4, <1>6, <1>7 DEF Request

\* Giving up, on a verb that has had a failure or is out of time.
LEMMA GivesUp ==
    ASSUME IInv, NEW s \in Sets, NEW p, p = pass[s], p.at = "dispatch",
           Go(s, [p EXCEPT !.at = "failed"]), Adds(s, p), Calm, Fault \/ NoFault
    PROVE  IInv'
<1>1. PICK q : q = [p EXCEPT !.at = "failed"]
  OBVIOUS
<1>2. /\ q \in PassRecord /\ q.verb = p.verb /\ q.done = p.done /\ q.ok = p.ok /\ q.sent = p.sent
      /\ q.attempt = p.attempt /\ q.at = "failed"
  BY <1>1, AtVerb DEF PassRecord
<1>3. Within(s, p, q)
  BY <1>1, <1>2 DEF Go, Within
<1> QED
  BY <1>2, <1>3, AttemptFails

LEMMA HTTPCallInv == ASSUME IInv, NEW s \in Sets, HTTPCall(s) PROVE IInv'
<1>1. PICK p : p = pass[s]
  OBVIOUS
<1>2. p.at = "dispatch" /\ p.verb = "http" /\ Calm /\ p \in PassRecord /\ p.sent \in Nat
  BY <1>1, AtVerb DEF HTTPCall, Calm, Rest
<1>3. PICK m \in Nat : m = p.sent + 1
  BY <1>2
<1>4. CASE /\ NoFault /\ Go(s, [p EXCEPT !.at = "done", !.sent = @ + 1])
           /\ effects' = effects \cup {<<s, "http", "call">>}
  <2>1. PICK q : q = [p EXCEPT !.at = "done", !.sent = m]
    OBVIOUS
  <2>2. /\ q \in PassRecord /\ q.verb = p.verb /\ q.done = p.done /\ q.ok = p.ok /\ q.sent = m
        /\ q.attempt = p.attempt /\ q.refused = p.refused /\ q.at = "done"
    BY <1>2, <2>1 DEF PassRecord
  <2>3. Within(s, p, q)
    BY <1>1, <1>2, <1>3, <1>4, <2>1, <2>2 DEF Go, Within
  <2>4. Adds(s, p)
    BY <1>2, <1>4 DEF Adds
  <2>5. Done(s, q.verb)'
    BY <1>2, <1>4, <2>2, Constants DEF Done
  <2> QED
    BY <1>2, <1>3, <1>4, <2>2, <2>3, <2>4, <2>5, AttemptSucceeds
<1>5. CASE /\ Fault /\ UNCHANGED effects
           /\ Go(s, [p EXCEPT !.at = "failed", !.refused = TRUE, !.sent = @ + 1])
  <2>1. PICK q : q = [p EXCEPT !.at = "failed", !.refused = TRUE, !.sent = m]
    OBVIOUS
  <2>2. /\ q \in PassRecord /\ q.verb = p.verb /\ q.done = p.done /\ q.ok = p.ok /\ q.sent = m
        /\ q.attempt = p.attempt /\ q.at = "failed"
    BY <1>2, <2>1 DEF PassRecord
  <2>3. Within(s, p, q)
    BY <1>1, <1>2, <1>3, <1>5, <2>1, <2>2 DEF Go, Within
  <2> QED
    BY <1>2, <1>3, <1>5, <2>2, <2>3, AttemptFails DEF Adds
<1>6. CASE /\ Fault /\ effects' \in {effects, effects \cup {<<s, "http", "call">>}}
           /\ Go(s, [p EXCEPT !.at = "failed", !.sent = @ + 1])
  <2>1. PICK q : q = [p EXCEPT !.at = "failed", !.sent = m]
    OBVIOUS
  <2>2. /\ q \in PassRecord /\ q.verb = p.verb /\ q.done = p.done /\ q.ok = p.ok /\ q.sent = m
        /\ q.attempt = p.attempt /\ q.at = "failed"
    BY <1>2, <2>1 DEF PassRecord
  <2>3. Within(s, p, q)
    BY <1>1, <1>2, <1>3, <1>6, <2>1, <2>2 DEF Go, Within
  <2>4. Adds(s, p)
    BY <1>2, <1>6 DEF Adds
  <2> QED
    BY <1>2, <1>3, <1>6, <2>2, <2>3, <2>4, AttemptFails
<1>7. CASE NoFault /\ Go(s, [p EXCEPT !.at = "failed"]) /\ UNCHANGED effects
  BY <1>1, <1>2, <1>7, GivesUp DEF Adds
<1> QED
  BY <1>1, <1>4, <1>5, <1>6, <1>7 DEF HTTPCall

LEMMA WaitInv == ASSUME IInv, NEW s \in Sets, Wait(s) PROVE IInv'
<1>1. PICK p : p = pass[s]
  OBVIOUS
<1>2. p.at = "dispatch" /\ p.verb = "wait" /\ Calm /\ NoFault /\ p \in PassRecord
  BY <1>1, AtVerb DEF Wait, Calm, Rest
<1>3. CASE ready
  <2>1. PICK q : q = [p EXCEPT !.at = "done"]
    OBVIOUS
  <2>2. /\ q \in PassRecord /\ q.verb = p.verb /\ q.done = p.done /\ q.ok = p.ok /\ q.sent = p.sent
        /\ q.attempt = p.attempt /\ q.refused = p.refused /\ q.at = "done"
    BY <1>2, <2>1 DEF PassRecord
  <2>3. Within(s, p, q) /\ effects' = effects \cup {<<s, "wait", "seen">>}
    BY <1>1, <1>2, <1>3, <2>1, <2>2 DEF Wait, Go, Within
  <2>4. Adds(s, p)
    BY <1>2, <2>3 DEF Adds
  <2>5. Done(s, q.verb)'
    BY <1>2, <2>2, <2>3, Constants DEF Done
  <2> QED
    BY <1>2, <2>2, <2>3, <2>4, <2>5, AttemptSucceeds
<1>4. CASE ~ready
  <2>1. Go(s, [p EXCEPT !.at = "failed"]) /\ Adds(s, p)
    BY <1>1, <1>4 DEF Wait, Adds
  <2> QED
    BY <1>1, <1>2, <2>1, GivesUp
<1> QED
  BY <1>3, <1>4

-----------------------------------------------------------------------------
(* The steps of a job. *)

LEMMA ResolveJobInv == ASSUME IInv, NEW s \in Sets, ResolveJob(s) PROVE IInv'
<1>1. PICK p : p = pass[s]
  OBVIOUS
<1>2. /\ p.at = "dispatch" /\ p.verb = "job" /\ Calm /\ UNCHANGED effects
      /\ p \in PassRecord /\ Known(s, p) /\ Place(p) /\ Calls(p) /\ (Fault \/ NoFault)
  BY <1>1, AtVerb DEF ResolveJob, Calm, Rest
<1>3. Adds(s, p)
  BY <1>2 DEF Adds
<1>4. CASE Go(s, [p EXCEPT !.at = IF Manifests = <<>> THEN "done" ELSE "create", !.rev = rev])
  <2>1. PICK r \in Revs : r = rev
    BY DEF IInv, Types
  <2>2. PICK a \in {"done", "create"} : a = IF Manifests = <<>> THEN "done" ELSE "create"
    OBVIOUS
  <2>3. PICK q : q = [p EXCEPT !.at = a, !.rev = r]
    OBVIOUS
  <2>4. /\ q \in PassRecord /\ q.verb = p.verb /\ q.done = p.done /\ q.ok = p.ok /\ q.sent = p.sent
        /\ q.attempt = p.attempt /\ q.refused = p.refused /\ q.at = a /\ q.rev = r
        /\ q.created = p.created /\ q.k = p.k
    BY <1>2, <2>3 DEF PassRecord
  <2>5. Within(s, p, q)
    BY <1>1, <1>2, <1>4, <2>1, <2>2, <2>3, <2>4 DEF Go, Within
  <2>6. CASE Manifests = <<>>
    <3>1. ToSet(Manifests) = {}
      BY <2>6 DEF ToSet
    <3>2. Done(s, q.verb)'
      BY <1>2, <2>4, <3>1, Constants DEF Done
    <3> QED
      BY <1>2, <1>3, <2>2, <2>4, <2>5, <2>6, <3>2, AttemptSucceeds
  <2>7. CASE Manifests # <<>>
    <3>1. Known(s, q)'
      BY <1>2, <2>2, <2>4, <2>7, DoneStays DEF Known, Calm, Rest
    <3>2. q.created = 0 /\ 0 < Size /\ q.at = "create"
      BY <1>2, <2>2, <2>4, <2>7, Constants DEF Place
    <3>3. Place(q)' /\ Calls(q)
      BY <1>2, <2>4, <3>2 DEF Place, Calls
    <3>4. \A n : Holds(p, n) => Holds(q, n)
      BY <1>2 DEF Holds
    <3> QED
      BY <1>2, <1>3, <2>5, <3>1, <3>3, <3>4, VerbMovesPlainly
  <2> QED
    BY <2>6, <2>7
<1>5. CASE Go(s, [p EXCEPT !.at = "failed"])
  BY <1>1, <1>2, <1>3, <1>5, GivesUp
<1> QED
  BY <1>1, <1>4, <1>5 DEF ResolveJob

LEMMA CreateJobInv == ASSUME IInv, NEW s \in Sets, CreateJob(s) PROVE IInv'
<1>1. PICK p : p = pass[s]
  OBVIOUS
<1>2. /\ p.at = "create" /\ Rest /\ UNCHANGED effects
      /\ p \in PassRecord /\ Known(s, p) /\ Place(p) /\ Calls(p) /\ (Fault \/ NoFault)
  BY <1>1, AtVerb DEF CreateJob, Rest
<1>3. Adds(s, p)
  BY <1>2 DEF Adds
<1>4. PICK c \in Counts : c = p.created
  BY <1>2 DEF PassRecord
<1>5. c < Size /\ c + 1 \in 1 .. Size /\ c + 1 \in Counts /\ 1 \in Ks /\ p.rev \in Revs /\ p.verb = "job"
  BY <1>2, <1>4, Constants DEF Place, Counts, Ks
<1>6. PICK n : n = <<p.rev, Manifests[c + 1]>>
  OBVIOUS
<1>7. n \in Names
  BY <1>5, <1>6, Constants
<1>8. jobs \in [Names -> {"none", "running", "complete", "failed"}] /\ left \subseteq Names
  BY DEF IInv, Types
<1>9. CASE /\ jobs' = [jobs EXCEPT ![n] = IF @ = "none" THEN "running" ELSE @]
           /\ Go(s, [p EXCEPT !.created = c + 1, !.at = IF c + 1 = Len(Manifests) THEN "await" ELSE @])
           /\ UNCHANGED left
  <2>1. PICK d \in Counts : d = c + 1
    BY <1>5
  <2>2. PICK a \in {"await", "create"} : a = IF c + 1 = Len(Manifests) THEN "await" ELSE "create"
    OBVIOUS
  <2>3. PICK q : q = [p EXCEPT !.created = d, !.at = a]
    OBVIOUS
  <2>4. /\ q \in PassRecord /\ q.verb = p.verb /\ q.done = p.done /\ q.ok = p.ok /\ q.sent = p.sent
        /\ q.attempt = p.attempt /\ q.refused = p.refused /\ q.at = a /\ q.rev = p.rev
        /\ q.created = d /\ q.k = p.k
    BY <1>2, <2>3 DEF PassRecord
  <2>5. Within(s, p, q)
    BY <1>1, <1>2, <1>9, <2>1, <2>2, <2>3, <2>4 DEF Go, Within
  <2>6. Known(s, q)'
    BY <1>2, <2>2, <2>4, DoneStays DEF Known, Rest
  <2>7. q.k = 1 /\ (a = "create" => d < Size) /\ (a = "await" => d = Size /\ q.k <= Size)
    <3>1. Size \in Nat /\ d \in Nat /\ d <= Size /\ 1 <= Size
      BY <1>5, <2>1, Constants
    <3>2. (a = "create" => d # Size) /\ (a = "await" => d = Size)
      BY <2>1, <2>2 DEF Size
    <3>3. q.k = 1
      BY <1>2, <2>4 DEF Place
    <3> QED
      BY <3>1, <3>2, <3>3
  <2>8. Place(q)' /\ Calls(q)
    BY <1>2, <1>5, <2>2, <2>4, <2>7 DEF Place, Calls
  <2>9. jobs' \in [Names -> {"none", "running", "complete", "failed"}]
    BY <1>7, <1>8, <1>9
  <2>10. \A x \in Names : jobs'[x] = "complete" => jobs[x] = "complete"
    BY <1>7, <1>8, <1>9
  <2>11. \A x \in Names : Holds(p, x) => Holds(q, x)
    BY <1>2, <1>4, <2>1, <2>2, <2>4, Constants DEF Holds, Counts
  <2>12. Holds(q, n)
    BY <1>2, <1>5, <1>6, <2>1, <2>2, <2>4 DEF Holds
  <2>13. \A x \in Names : jobs'[x] # "none" =>
             \/ x \in left' \/ Holds(q, x)
             \/ jobs[x] # "none" /\ (x \in left => x \in left') /\ ~Holds(p, x)
    BY <1>2, <1>7, <1>8, <1>9, <2>11, <2>12
  <2> QED
    BY <1>2, <1>3, <1>8, <1>9, <2>5, <2>6, <2>8, <2>9, <2>10, <2>13, VerbMoves
<1>10. CASE /\ Go(s, [p EXCEPT !.at = IF c = 0 THEN "failed" ELSE "cleanup"])
            /\ \/ UNCHANGED <<jobs, left>>
               \/ jobs' = [jobs EXCEPT ![n] = "running"] /\ left' = left \cup {n}
  <2>1. PICK a \in {"failed", "cleanup"} : a = IF c = 0 THEN "failed" ELSE "cleanup"
    OBVIOUS
  <2>2. PICK q : q = [p EXCEPT !.at = a]
    OBVIOUS
  <2>3. /\ q \in PassRecord /\ q.verb = p.verb /\ q.done = p.done /\ q.ok = p.ok /\ q.sent = p.sent
        /\ q.attempt = p.attempt /\ q.refused = p.refused /\ q.at = a /\ q.rev = p.rev
        /\ q.created = p.created /\ q.k = p.k
    BY <1>2, <2>2 DEF PassRecord
  <2>4. Within(s, p, q)
    BY <1>1, <1>2, <1>10, <2>1, <2>2, <2>3 DEF Go, Within
  <2>5. Known(s, q)'
    BY <1>2, <2>1, <2>3, DoneStays DEF Known, Rest
  <2>6. q.k = 1 /\ (a = "cleanup" => q.k <= q.created)
    BY <1>2, <1>4, <2>1, <2>3, Constants DEF Place, Counts
  <2>7. Place(q)' /\ Calls(q)
    BY <1>2, <1>5, <2>1, <2>3, <2>6 DEF Place, Calls
  <2>8. \A x : Holds(p, x) => Holds(q, x)
    BY <1>2, <1>4, <2>1, <2>3, <2>6, Constants DEF Holds, Counts
  <2>9. jobs' \in [Names -> {"none", "running", "complete", "failed"}] /\ left' \subseteq Names
    BY <1>7, <1>8, <1>10
  <2>10. \A x \in Names : jobs'[x] = "complete" => jobs[x] = "complete"
    BY <1>7, <1>8, <1>10
  <2>11. \A x \in Names : jobs'[x] # "none" => x \in left' \/ (jobs[x] # "none" /\ (x \in left => x \in left'))
    BY <1>7, <1>8, <1>10
  <2> QED
    BY <1>2, <1>3, <2>4, <2>5, <2>7, <2>8, <2>9, <2>10, <2>11, VerbMoves
<1> QED
  BY <1>1, <1>4, <1>6, <1>9, <1>10 DEF CreateJob

LEMMA AwaitJobInv == ASSUME IInv, NEW s \in Sets, AwaitJob(s) PROVE IInv'
<1>1. PICK p : p = pass[s]
  OBVIOUS
<1>2. /\ p.at = "await" /\ Calm /\ UNCHANGED effects
      /\ p \in PassRecord /\ Known(s, p) /\ Place(p) /\ Calls(p) /\ (Fault \/ NoFault)
  BY <1>1, AtVerb DEF AwaitJob, Calm, Rest
<1>3. Adds(s, p)
  BY <1>2 DEF Adds
<1>4. PICK k \in Ks : k = p.k
  BY <1>2 DEF PassRecord
<1>5. /\ k \in 1 .. Size /\ Size \in Nat /\ p.created = Size /\ p.rev \in Revs /\ p.verb = "job" /\ 1 \in Ks
      /\ \A i \in 1 .. Size : i < k => <<p.rev, Manifests[i]>> \in completed
  BY <1>2, <1>4, Constants DEF Place, Ks
<1>6. <<p.rev, Manifests[k]>> \in Names
  BY <1>5, Constants
<1>7. \A q : /\ q \in PassRecord /\ q.at = "cleanup" /\ q.verb = p.verb /\ q.rev = p.rev /\ q.created = p.created
              /\ q.k = 1 /\ q.sent = p.sent /\ q.attempt = p.attempt /\ q.refused = p.refused
              => Place(q)' /\ Calls(q) /\ \A n : Holds(p, n) => Holds(q, n)
  <2> SUFFICES ASSUME NEW q, q \in PassRecord, q.at = "cleanup", q.verb = p.verb, q.rev = p.rev,
                      q.created = p.created, q.k = 1, q.sent = p.sent, q.attempt = p.attempt, q.refused = p.refused
               PROVE  Place(q)' /\ Calls(q) /\ \A n : Holds(p, n) => Holds(q, n)
    OBVIOUS
  <2>1. 1 <= Size
    BY <1>5
  <2>2. Place(q)'
    BY <1>5, <2>1 DEF Place
  <2>3. Calls(q)
    BY <1>2 DEF Calls
  <2>4. \A n : Holds(p, n) => Holds(q, n)
    BY <1>2 DEF Holds
  <2> QED
    BY <2>2, <2>3, <2>4
<1>8. CASE /\ Awaited(<<p.rev, Manifests[k]>>) /\ k # Size
           /\ Go(s, [p EXCEPT !.k = k + 1])
  <2>1. PICK m \in Ks : m = k + 1
    BY <1>5, <1>8 DEF Ks
  <2>2. PICK q : q = [p EXCEPT !.k = m]
    OBVIOUS
  <2>3. /\ q \in PassRecord /\ q.verb = p.verb /\ q.done = p.done /\ q.ok = p.ok /\ q.sent = p.sent
        /\ q.attempt = p.attempt /\ q.refused = p.refused /\ q.at = p.at /\ q.rev = p.rev
        /\ q.created = p.created /\ q.k = m
    BY <1>2, <2>2 DEF PassRecord
  <2>4. Within(s, p, q)
    BY <1>1, <1>2, <1>8, <2>1, <2>2, <2>3 DEF Go, Within
  <2>5. Known(s, q)'
    BY <1>2, <2>3, DoneStays DEF Known, Calm, Rest
  <2>6. <<p.rev, Manifests[k]>> \in completed
    BY <1>6, <1>8 DEF IInv, JobsInv, Awaited
  <2>7. m \in 1 .. Size /\ \A i \in 1 .. Size : i < m => i < k \/ i = k
    BY <1>5, <1>8, <2>1
  <2>8. \A i \in 1 .. Size : i < m => <<q.rev, Manifests[i]>> \in completed
    BY <1>5, <2>3, <2>6, <2>7
  <2>9. Place(q)'
    BY <1>2, <1>5, <2>3, <2>7, <2>8 DEF Place, Calm, Rest
  <2>10. Calls(q) /\ \A n : Holds(p, n) => Holds(q, n)
    BY <1>2, <2>3 DEF Calls, Holds
  <2> QED
    BY <1>2, <1>3, <2>4, <2>5, <2>9, <2>10, VerbMovesPlainly
<1>9. CASE /\ Awaited(<<p.rev, Manifests[k]>>) /\ k = Size
           /\ Go(s, [p EXCEPT !.at = "cleanup", !.k = 1, !.ok = TRUE])
  <2>1. PICK q : q = [p EXCEPT !.at = "cleanup", !.k = 1, !.ok = TRUE]
    OBVIOUS
  <2>2. /\ q \in PassRecord /\ q.verb = p.verb /\ q.done = p.done /\ q.ok /\ q.sent = p.sent
        /\ q.attempt = p.attempt /\ q.refused = p.refused /\ q.at = "cleanup" /\ q.rev = p.rev
        /\ q.created = p.created /\ q.k = 1
    BY <1>2, <1>5, <2>1 DEF PassRecord
  <2>3. Within(s, p, q)
    BY <1>1, <1>2, <1>9, <2>1, <2>2 DEF Go, Within
  <2>4. <<p.rev, Manifests[k]>> \in completed
    BY <1>6, <1>9 DEF IInv, JobsInv, Awaited
  <2>5. \A i \in 1 .. Size : i < k \/ i = k
    BY <1>5, <1>9
  <2>6. \A i \in 1 .. Size : <<p.rev, Manifests[i]>> \in completed
    BY <1>5, <2>4, <2>5
  <2>7. Done(s, "job")
    BY <1>5, <2>6, Constants DEF Done
  <2>8. Known(s, q)'
    BY <1>2, <1>5, <2>2, <2>7, DoneStays DEF Known, Calm, Rest
  <2>9. Place(q)' /\ Calls(q) /\ \A n : Holds(p, n) => Holds(q, n)
    BY <1>7, <2>2
  <2> QED
    BY <1>2, <1>3, <2>3, <2>8, <2>9, VerbMovesPlainly
<1>10. CASE Go(s, [p EXCEPT !.at = "cleanup", !.k = 1])
  <2>1. PICK q : q = [p EXCEPT !.at = "cleanup", !.k = 1]
    OBVIOUS
  <2>2. /\ q \in PassRecord /\ q.verb = p.verb /\ q.done = p.done /\ q.ok = p.ok /\ q.sent = p.sent
        /\ q.attempt = p.attempt /\ q.refused = p.refused /\ q.at = "cleanup" /\ q.rev = p.rev
        /\ q.created = p.created /\ q.k = 1
    BY <1>2, <1>5, <2>1 DEF PassRecord
  <2>3. Within(s, p, q)
    BY <1>1, <1>2, <1>10, <2>1, <2>2 DEF Go, Within
  <2>4. Known(s, q)'
    BY <1>2, <2>2, DoneStays DEF Known, Calm, Rest
  <2>5. Place(q)' /\ Calls(q) /\ \A n : Holds(p, n) => Holds(q, n)
    BY <1>7, <2>2
  <2> QED
    BY <1>2, <1>3, <2>3, <2>4, <2>5, VerbMovesPlainly
<1> QED
  BY <1>1, <1>4, <1>8, <1>9, <1>10 DEF AwaitJob, Size

LEMMA CleanupInv == ASSUME IInv, NEW s \in Sets, Cleanup(s) PROVE IInv'
<1>1. PICK p : p = pass[s]
  OBVIOUS
<1>2. /\ p.at = "cleanup" /\ Rest /\ UNCHANGED effects /\ Go(s, Removed(p))
      /\ p \in PassRecord /\ Known(s, p) /\ Place(p) /\ Calls(p) /\ (Fault \/ NoFault)
  BY <1>1, AtVerb DEF Cleanup, Rest
<1>3. Adds(s, p)
  BY <1>2 DEF Adds
<1>4. PICK k \in Ks : k = p.k
  BY <1>2 DEF PassRecord
<1>5. PICK c \in Counts : c = p.created
  BY <1>2 DEF PassRecord
<1>6. k \in 1 .. Size /\ k <= c /\ p.rev \in Revs /\ p.verb = "job" /\ Size \in Nat /\ k + 1 \in Ks
  BY <1>2, <1>4, <1>5, Constants DEF Place, Ks, Counts
<1>7. PICK n : n = <<p.rev, Manifests[k]>>
  OBVIOUS
<1>8. /\ n \in Names /\ jobs \in [Names -> {"none", "running", "complete", "failed"}] /\ left \subseteq Names
      /\ \/ jobs' = [jobs EXCEPT ![n] = "none"] /\ left' = left \ {n}
         \/ left' = left \cup {n} /\ jobs' \in {jobs, [jobs EXCEPT ![n] = "none"]}
  BY <1>1, <1>4, <1>6, <1>7, Constants DEF Cleanup, IInv, Types
<1>9. PICK m \in Ks : m = k + 1
  BY <1>6
<1>10. PICK a \in {"cleanup", "done", "failed"} : a = IF k < c THEN "cleanup" ELSE IF p.ok THEN "done" ELSE "failed"
  OBVIOUS
<1>11. PICK q : q = [p EXCEPT !.k = m, !.at = a]
  OBVIOUS
<1>12. /\ q \in PassRecord /\ q.verb = p.verb /\ q.done = p.done /\ q.ok = p.ok /\ q.sent = p.sent
       /\ q.attempt = p.attempt /\ q.refused = p.refused /\ q.at = a /\ q.rev = p.rev
       /\ q.created = p.created /\ q.k = m
  BY <1>2, <1>11 DEF PassRecord
<1>13. q = Removed(p)
  BY <1>2, <1>4, <1>5, <1>9, <1>10, <1>11 DEF Removed
<1>14. Within(s, p, q)
  BY <1>1, <1>2, <1>12, <1>13 DEF Go, Within
<1>15. Known(s, q)'
  <2>1. a = "done" => q.ok
    BY <1>10, <1>12
  <2>2. q.ok => Done(s, "job")'
    BY <1>2, <1>12, DoneStays DEF Known, Rest
  <2> QED
    BY <1>6, <1>10, <1>12, <2>1, <2>2 DEF Known
<1>16. Place(q)' /\ Calls(q)
  <2>1. a = "cleanup" => m <= c
    BY <1>6, <1>9, <1>10, Constants DEF Counts
  <2> QED
    BY <1>2, <1>5, <1>6, <1>10, <1>12, <2>1 DEF Place, Calls
<1>17. jobs' \in [Names -> {"none", "running", "complete", "failed"}] /\ left' \subseteq Names
  BY <1>8
<1>18. \A x \in Names : jobs'[x] = "complete" => jobs[x] = "complete"
  BY <1>8
<1>19. \A x \in Names : Holds(p, x) => x = n \/ Holds(q, x)
  <2> SUFFICES ASSUME NEW x \in Names, NEW i \in 1 .. Size, x = <<p.rev, Manifests[i]>>, i <= c, k <= i, x # n
               PROVE  Holds(q, x)
    BY <1>2, <1>4, <1>5 DEF Holds
  <2>1. i # k
    BY <1>7
  <2>2. k < c /\ m <= i
    BY <1>6, <1>9, <2>1, Constants DEF Counts
  <2> QED
    BY <1>5, <1>10, <1>12, <2>2 DEF Holds
<1>20. \A x \in Names : x # n => jobs'[x] = jobs[x] /\ (x \in left => x \in left')
  BY <1>8
<1>21. jobs'[n] = "none" \/ n \in left'
  BY <1>8
<1>22. \A x \in Names : jobs'[x] # "none" =>
           \/ x \in left' \/ Holds(q, x)
           \/ jobs[x] # "none" /\ (x \in left => x \in left') /\ ~Holds(p, x)
  BY <1>19, <1>20, <1>21
<1> QED
  BY <1>2, <1>3, <1>14, <1>15, <1>16, <1>17, <1>18, <1>22, VerbMoves

\* The clock of a pass, or of its attempt, runs out.
LEMMA ExpireInv == ASSUME IInv, NEW s \in Sets, Expire(s) \/ AttemptExpires(s) PROVE IInv'
<1>1. PICK p : p = pass[s]
  OBVIOUS
<1>2. PICK e \in BOOLEAN, l \in BOOLEAN : Go(s, [p EXCEPT !.expired = e, !.late = l])
  <2>1. p \in PassRecord
    BY <1>1, AtVerb
  <2>2. /\ [p EXCEPT !.expired = TRUE] = [p EXCEPT !.expired = TRUE, !.late = p.late] /\ p.late \in BOOLEAN
        /\ [p EXCEPT !.late = TRUE] = [p EXCEPT !.expired = p.expired, !.late = TRUE] /\ p.expired \in BOOLEAN
    BY <2>1 DEF PassRecord
  <2>3. Go(s, [p EXCEPT !.expired = TRUE]) \/ Go(s, [p EXCEPT !.late = TRUE])
    BY <1>1 DEF Expire, AttemptExpires
  <2> QED
    BY <2>2, <2>3
<1>3. /\ p.at # "idle" /\ Calm /\ UNCHANGED effects
      /\ p \in PassRecord /\ Known(s, p) /\ Place(p) /\ Calls(p) /\ (Fault \/ NoFault)
  BY <1>1, AtVerb DEF Expire, AttemptExpires, InExec, Limited, Early, Calm, Rest
<1>4. PICK q : q = [p EXCEPT !.expired = e, !.late = l]
  OBVIOUS
<1>5. /\ q \in PassRecord /\ q.verb = p.verb /\ q.done = p.done /\ q.ok = p.ok /\ q.sent = p.sent
      /\ q.attempt = p.attempt /\ q.refused = p.refused /\ q.at = p.at /\ q.rev = p.rev
      /\ q.created = p.created /\ q.k = p.k /\ q.parts = p.parts
  BY <1>3, <1>4 DEF PassRecord
<1>6. Within(s, p, q) /\ Adds(s, p)
  BY <1>1, <1>2, <1>3, <1>4, <1>5 DEF Go, Within, Adds
<1>7. Known(s, q)'
  BY <1>3, <1>5, DoneStays DEF Known, Calm, Rest
<1>8. Place(q)'
  BY <1>3, <1>5 DEF Place, Calm, Rest
<1>9. Calls(q) /\ \A n : Holds(p, n) => Holds(q, n)
  BY <1>3, <1>5 DEF Calls, Holds
<1> QED
  BY <1>3, <1>6, <1>7, <1>8, <1>9, VerbMovesPlainly
-----------------------------------------------------------------------------
(* The world around the passes. *)

\* A step that no pass takes.
LEMMA Around ==
    ASSUME IInv, UNCHANGED <<pass, ledger, effects>>, completed \subseteq completed', Types', JobsInv', HeldInv'
    PROVE  IInv'
<1>1. PassInv'
  <2> SUFFICES ASSUME NEW s \in Sets PROVE Good(s, pass[s])'
    BY DEF PassInv
  <2>1. PICK p : p = pass[s]
    OBVIOUS
  <2>2. Good(s, p)'
    BY <2>1, OnePass, GoodStays
  <2>3. pass'[s] = p
    BY <2>1
  <2>4. Turn(s, pass[s])' /\ Calls(pass[s])' /\ Place(pass[s])'
    BY <2>2, <2>3 DEF Good, Turn, Calls, Place
  <2>5. Progress(s, pass[s])'
    BY <2>2, <2>3 DEF Good, Progress, Known, TrulyDone, Done
  <2> QED
    BY <2>4, <2>5 DEF Good
<1>2. LedgerInv'
  BY DoneStays DEF IInv, LedgerInv, TrulyDone
<1>3. InOrder'
  BY DoneStays DEF IInv, InOrder
<1> QED
  BY <1>1, <1>2, <1>3 DEF IInv

LEMMA JobEndsInv == ASSUME IInv, NEW n \in Names, JobCompletes(n) \/ JobFails(n) PROVE IInv'
<1>1. UNCHANGED <<pass, ledger, effects, left, rev, ready>> /\ jobs[n] = "running" /\ (Fault \/ NoFault)
  BY DEF JobCompletes, JobFails
<1>2. completed \subseteq completed' /\ completed' \subseteq Names
  BY DEF JobCompletes, JobFails, IInv, Types
<1>3. PICK a \in {"complete", "failed"} : jobs' = [jobs EXCEPT ![n] = a] /\ (a = "complete" => n \in completed')
  BY DEF JobCompletes, JobFails
<1>4. jobs \in [Names -> {"none", "running", "complete", "failed"}]
  BY DEF IInv, Types
<1>5. Types'
  BY <1>1, <1>2, <1>3, <1>4, FaultType DEF IInv, Types
<1>6. JobsInv'
  BY <1>2, <1>3, <1>4 DEF IInv, JobsInv
<1>7. HeldInv'
  <2>1. \A x \in Names : jobs'[x] # "none" => jobs[x] # "none"
    BY <1>1, <1>3, <1>4
  <2> QED
    BY <1>1, <2>1 DEF IInv, HeldInv, Holds
<1> QED
  BY <1>1, <1>2, <1>5, <1>6, <1>7, Around

LEMMA WorldInv ==
    ASSUME IInv, NewRevision \/ LosesReady \/ BecomesReady
    PROVE  IInv'
<1>1. UNCHANGED <<pass, ledger, effects, jobs, completed, left>> /\ rev' \in Revs /\ ready' \in BOOLEAN /\ (Fault \/ NoFault)
  BY DEF NewRevision, LosesReady, BecomesReady, IInv, Types
<1>2. Types'
  BY <1>1, FaultType DEF IInv, Types
<1>3. JobsInv' /\ HeldInv'
  BY <1>1 DEF IInv, JobsInv, HeldInv, Holds
<1> QED
  BY <1>1, <1>2, <1>3, Around

LEMMA CrashInv == ASSUME IInv, Crash PROVE IInv'
<1>1. UNCHANGED <<ledger, effects, jobs, completed, rev, ready>> /\ Fault /\ pass' = [s \in Sets |-> Idle]
  BY DEF Crash
<1>2. left \subseteq left' /\ left' \subseteq Names
  BY DEF Crash, IInv, Types
<1>3. Types'
  BY <1>1, <1>2, FaultType, IdlePass DEF IInv, Types
<1>4. PassInv'
  <2> SUFFICES ASSUME NEW s \in Sets PROVE Good(s, pass[s])'
    BY DEF PassInv
  <2>1. pass'[s].at = "idle" /\ ~pass'[s].ok /\ ~pass'[s].refused /\ pass'[s].done = {}
        /\ pass'[s].sent = 0 /\ pass'[s].attempt = 0
    BY <1>1 DEF Idle
  <2> QED
    BY <2>1 DEF Good, Turn, Progress, Known, TrulyDone, Place, Calls
<1>5. LedgerInv' /\ InOrder' /\ JobsInv'
  BY <1>1 DEF IInv, LedgerInv, TrulyDone, Done, InOrder, JobsInv
<1>6. HeldInv'
  <2> SUFFICES ASSUME NEW n \in Names, jobs[n] # "none" PROVE n \in left'
    BY <1>1 DEF HeldInv
  <2>1. CASE n \in left
    BY <1>2, <2>1
  <2>2. CASE \E s \in Sets : Holds(pass[s], n)
    BY <2>2 DEF Holds, Crash
  <2> QED
    BY <2>1, <2>2 DEF IInv, HeldInv
<1> QED
  BY <1>3, <1>4, <1>5, <1>6 DEF IInv

LEMMA InitInv == Init => IInv
<1> SUFFICES ASSUME Init PROVE IInv
  OBVIOUS
<1>1. Types
  BY IdlePass, Constants DEF Init, Types
<1>2. PassInv
  BY IdlePass DEF Init, PassInv
<1>3. LedgerInv /\ JobsInv /\ HeldInv /\ InOrder
  BY DEF Init, LedgerInv, TrulyDone, JobsInv, HeldInv, InOrder
<1> QED
  BY <1>1, <1>2, <1>3 DEF IInv

LEMMA StepInv == IInv /\ [Next]_vars => IInv'
<1> SUFFICES ASSUME IInv, [Next]_vars PROVE IInv'
  OBVIOUS
<1>1. ASSUME NEW s \in Sets, Step(s) PROVE IInv'
  BY <1>1, StartPassInv, RecordActionInv, RetryInv, RequestInv, HTTPCallInv, WaitInv, ResolveJobInv,
     CreateJobInv, AwaitJobInv, CleanupInv DEF Step
<1>2. CASE UNCHANGED vars
  <2>1. UNCHANGED <<pass, ledger, effects, jobs, completed, left, rev, ready, faults>>
    BY <1>2 DEF vars
  <2>2. Types'
    BY <2>1 DEF IInv, Types
  <2>3. JobsInv' /\ HeldInv'
    BY <2>1 DEF IInv, JobsInv, HeldInv, Holds
  <2> QED
    BY <2>1, <2>2, <2>3, Around
<1> QED
  BY <1>1, <1>2, ExpireInv, JobEndsInv, WorldInv, CrashInv DEF Next

-----------------------------------------------------------------------------
LEMMA InvEffectsSound == IInv => EffectsSound
<1> SUFFICES ASSUME IInv PROVE EffectsSound
  OBVIOUS
<1>1. ASSUME NEW s \in Sets
      PROVE  /\ pass[s].at \in {"idle", "dispatch", "create", "await", "cleanup", "done", "failed"}
             /\ pass[s].attempt \in 0 .. retries /\ pass[s].k \in 1 .. Len(Manifests) + 1
             /\ ledger[s] \subseteq ToSet(Acts[s]) /\ pass[s].done \subseteq ToSet(Acts[s])
  <2>1. TrulyDone(s, ledger[s]) /\ TrulyDone(s, pass[s].done)
    BY OnePass DEF Good, Progress
  <2>2. pass[s].at \in {"idle", "dispatch", "create", "await", "cleanup", "done", "failed"}
        /\ pass[s].attempt \in 0 .. retries /\ pass[s].k \in 1 .. Len(Manifests) + 1
    BY OnePass DEF PassRecord, Attempts, Ks, Size
  <2> QED
    BY <2>1, <2>2 DEF TrulyDone
<1>2. TypeOK
  BY <1>1 DEF IInv, Types, TypeOK
<1>3. RecordedIsDone
  BY OnePass DEF RecordedIsDone, TrulyDone, Good, Progress
<1>4. NoJobLeft
  BY DEF IInv, HeldInv, Holds, NoJobLeft
<1> QED
  BY <1>2, <1>3, <1>4 DEF EffectsSound, IInv

(***************************************************************************)
(* Whatever fails and whoever shares its Jobs, an action that is recorded  *)
(* took effect as a whole, actions take effect in their order, and no Job  *)
(* stays whose removal was not lost.                                       *)
(***************************************************************************)
THEOREM RecordedEffectsAreReal == Spec => []EffectsSound
<1> QED
  BY InitInv, StepInv, InvEffectsSound, PTL DEF Spec

-----------------------------------------------------------------------------
\* A step of one pass is its own.
LEMMA OwnPass == ASSUME IInv, NEW o \in Sets, Step(o) \/ Expire(o) \/ AttemptExpires(o)
    PROVE  \A s \in Sets \ {o} : pass'[s] = pass[s]
<1> SUFFICES ASSUME NEW s \in Sets \ {o} PROVE pass'[s] = pass[s]
  OBVIOUS
<1>1. \A q : Go(o, q) => pass'[s] = pass[s]
  BY DEF Go, IInv, Types
<1>2. \A d : EndPass(o, d) \/ Advance(o, d) => pass'[s] = pass[s]
  BY <1>1 DEF EndPass, Advance
<1>3. CASE StartPass(o) \/ RecordAction(o) \/ Retry(o) \/ Expire(o) \/ AttemptExpires(o)
  BY <1>1, <1>2, <1>3 DEF StartPass, RecordAction, Retry, Expire, AttemptExpires
<1>4. CASE Request(o) \/ HTTPCall(o) \/ Wait(o)
  BY <1>1, <1>4 DEF Request, HTTPCall, Wait
<1>5. CASE ResolveJob(o) \/ CreateJob(o) \/ AwaitJob(o) \/ Cleanup(o)
  BY <1>1, <1>5 DEF ResolveJob, CreateJob, AwaitJob, Cleanup
<1> QED
  BY <1>3, <1>4, <1>5 DEF Step

\* A pass that was refused can only end.
LEMMA RefusedEnds == ASSUME IInv, NEW s \in Sets, pass[s].refused, Step(s) \/ Expire(s) \/ AttemptExpires(s)
    PROVE  pass'[s].sent \in {0, pass[s].sent}
<1>1. pass[s].at = "failed" /\ pass \in [Sets -> PassRecord]
  BY OnePass DEF Good, Calls
<1>2. CASE Expire(s)
  <2>1. pass' = [pass EXCEPT ![s] = [pass[s] EXCEPT !.expired = TRUE]]
    BY <1>2 DEF Expire, Go
  <2>2. [pass[s] EXCEPT !.expired = TRUE].sent = pass[s].sent
    BY <1>1 DEF PassRecord
  <2> QED
    BY <1>1, <2>1, <2>2
<1>3. CASE Step(s)
  <2>1. Retry(s)
    BY <1>1, <1>3 DEF Step, StartPass, RecordAction, Request, HTTPCall, Wait, ResolveJob, CreateJob, AwaitJob, Cleanup
  <2>2. ~Retryable(pass[s])
    BY DEF Retryable
  <2>3. pass' = [pass EXCEPT ![s] = Idle]
    BY <2>1, <2>2 DEF Retry, EndPass, Go
  <2> QED
    BY <1>1, <2>3 DEF Idle
<1>4. ~AttemptExpires(s)
  BY <1>1, OnePass, Constants DEF AttemptExpires, Limited
<1> QED
  BY <1>2, <1>3, <1>4

\* A service that refused a call is not called again in that pass, and none is
\* called more often than Executor.exec has attempts.
THEOREM RefusalIsFinal == Spec => CallsBounded
<1>1. ASSUME IInv, IInv', Next PROVE CallsOnlyWithin
  <2>1. ASSUME NEW s \in Sets PROVE pass'[s].sent <= retries + 1
    <3>1. pass'[s] \in PassRecord /\ Calls(pass'[s])
      BY <1>1 DEF IInv, Types, PassInv, Good, Calls
    <3>2. pass'[s].sent \in Nat /\ pass'[s].attempt \in 0 .. retries /\ pass'[s].sent <= pass'[s].attempt + 1
      BY <3>1 DEF PassRecord, Attempts, Calls
    <3> QED
      BY <3>2, Constants
  <2>2. ASSUME NEW s \in Sets, pass[s].refused PROVE pass'[s].sent \in {0, pass[s].sent}
    <3>1. CASE \E o \in Sets : Step(o) \/ Expire(o) \/ AttemptExpires(o)
      <4>1. PICK o \in Sets : Step(o) \/ Expire(o) \/ AttemptExpires(o)
        BY <3>1
      <4>2. CASE o = s
        BY <1>1, <2>2, <4>1, <4>2, RefusedEnds
      <4>3. CASE o # s
        BY <1>1, <4>1, <4>3, OwnPass
      <4> QED
        BY <4>2, <4>3
    <3>2. CASE Crash
      BY <3>2 DEF Crash, Idle
    <3>3. CASE UNCHANGED pass
      BY <3>3
    <3> QED
      BY <1>1, <3>1, <3>2, <3>3 DEF Next, JobCompletes, JobFails, NewRevision, LosesReady, BecomesReady
  <2> QED
    BY <2>1, <2>2 DEF CallsOnlyWithin
<1>2. IInv /\ IInv' /\ [Next]_vars => [CallsOnlyWithin]_vars
  BY <1>1
<1> QED
  BY <1>2, InitInv, StepInv, PTL DEF Spec, CallsBounded
=============================================================================
