------------------------- MODULE FleetRolloutProofs -------------------------
(***************************************************************************)
(* What a FleetRollout that pins its version guarantees for any fleet, any *)
(* number of waves and any soak times, whatever fails on the way.          *)
(***************************************************************************)
EXTENDS FleetRollout, WellFoundedInduction, TLAPS

\* A member that runs the version has an age.
AgeInv == \A m \in Members : version[m] = TargetVersion => age[m] # NotSoaking

\* A wave with s[w] ticks to go has soaked for the others.
SoakSound(s) ==
    \A w \in W : s[w] # NotSoaking =>
        \A m \in Waves[w] : age[m] # NotSoaking /\ age[m] + s[w] >= Soak[w]

\* What the running pass has left to approve may be approved.
StampsInv ==
    job.stamp = "approved-version" =>
        \A x \in job.left : x[2] \in Waves[x[1]] /\ \A v \in 1 .. x[1] - 1 : Proven(v) /\ v \notin broken \cup ailing

DoneInv == (job.phase = "Completed" \/ phase = "Completed") => \A w \in W : Proven(w)

IInv == TypeOK /\ AgeInv /\ SoakSound(soakUntil) /\ SoakSound(job.soak) /\ StampsInv /\ DoneInv

-----------------------------------------------------------------------------
(* Induction over the natural numbers: a set of them has a least element.  *)

Below == {ss \in Nat \X Nat : ss[1] < ss[2]}

LEMMA BelowWellFounded == IsWellFoundedOn(Below, Nat)
BY NatLessThanWellFounded DEF OpToRel, Below

LEMMA LeastNatural == ASSUME NEW T, T \subseteq Nat, T # {} PROVE \E x \in T : \A y \in T : x <= y
<1>1. PICK x \in T : \A y \in T : ~ (<<y, x>> \in Below)
  BY WFMin, BelowWellFounded
<1>2. \A y \in T : ~(y < x)
  BY <1>1 DEF Below
<1> QED
  BY <1>2

LEMMA MinIsLeast == ASSUME NEW T, T \subseteq Nat, T # {} PROVE Min(T) \in T /\ \A y \in T : Min(T) <= y
BY LeastNatural DEF Min

\* Finitely many numbers have a bound: else there is a least k where the first
\* k have none.
HasBound(f, k) == \E b \in Nat : \A i \in 1 .. k : f[i] <= b

LEMMA Bounded == ASSUME NEW n \in Nat, NEW f \in [1 .. n -> Nat] PROVE HasBound(f, n)
<1> DEFINE Unbounded == {k \in 0 .. n : ~HasBound(f, k)}
<1>1. SUFFICES ASSUME Unbounded # {} PROVE FALSE
  OBVIOUS
<1>2. PICK k \in Unbounded : \A y \in Unbounded : k <= y
  <2>1. Unbounded \subseteq Nat
    OBVIOUS
  <2> HIDE DEF Unbounded
  <2> QED
    BY <1>1, <2>1, LeastNatural
<1>3. k # 0
  <2>1. HasBound(f, 0)
    <3>1. \A i \in 1 .. 0 : f[i] <= 0
      OBVIOUS
    <3> QED
      BY <3>1 DEF HasBound
  <2> QED
    BY <2>1
<1>4. k - 1 \in 0 .. n /\ k \in 1 .. n
  BY <1>3
<1>5. HasBound(f, k - 1)
  BY <1>2, <1>4
<1>6. PICK b \in Nat : \A i \in 1 .. k - 1 : f[i] <= b
  BY <1>5 DEF HasBound
<1>7. PICK c \in Nat : b <= c /\ f[k] <= c
  <2>1. f[k] \in Nat
    BY <1>4
  <2>2. b <= b + f[k] /\ f[k] <= b + f[k] /\ b + f[k] \in Nat
    BY <2>1
  <2> QED
    BY <2>2
<1>8. \A i \in 1 .. k : f[i] <= c
  <2> SUFFICES ASSUME NEW i \in 1 .. k PROVE f[i] <= c
    OBVIOUS
  <2>1. f[i] \in Nat /\ f[k] \in Nat
    BY <1>4
  <2>2. CASE i = k
    BY <1>7, <2>2
  <2>3. CASE i # k
    <3>1. i \in 1 .. k - 1
      BY <1>4, <2>3
    <3>2. f[i] <= b
      BY <1>6, <3>1
    <3> QED
      BY <1>7, <2>1, <3>2
  <2> QED
    BY <2>2, <2>3
<1>9. HasBound(f, k)
  BY <1>8 DEF HasBound
<1> QED
  BY <1>9

-----------------------------------------------------------------------------
(* The constants and the operators. *)

LEMMA WaveFacts ==
    /\ W = 1 .. Len(Waves) /\ Len(Waves) \in Nat /\ Len(Waves) > 0 /\ W \subseteq Nat
    /\ \A w \in W : Waves[w] \subseteq Members /\ Soak[w] \in Nat
    /\ Gated \subseteq W
BY FleetAssumption DEF W

LEMMA EarlierWaves == ASSUME NEW w \in W PROVE \A v \in 1 .. w - 1 : v \in W
BY WaveFacts

\* The longest soak.
LEMMA LongestSoak == MaxSoak \in Nat /\ \A w \in W : Soak[w] <= MaxSoak
<1>1. PICK b \in Nat : \A w \in W : Soak[w] <= b
  <2>1. Len(Waves) \in Nat /\ Soak \in [1 .. Len(Waves) -> Nat]
    BY WaveFacts, FleetAssumption DEF W
  <2> QED
    BY <2>1, Bounded, WaveFacts DEF HasBound
<1> DEFINE Soaks == {Soak[w] : w \in W}
           Bounds == {c \in Nat : \A x \in Soaks : x <= c}
<1>2. Soaks \subseteq Nat /\ Soak[1] \in Soaks
  BY WaveFacts
<1>3. Bounds \subseteq Nat /\ b \in Bounds
  BY <1>1
<1>4. PICK c \in Bounds : \A y \in Bounds : c <= y
  BY <1>3, LeastNatural
<1>5. c \in Nat /\ \A x \in Soaks : x <= c
  BY <1>4
<1>6. c \in Soaks
  <2> SUFFICES ASSUME c \notin Soaks PROVE FALSE
    OBVIOUS
  <2>1. c # 0
    BY <1>2, <1>5
  <2>2. c - 1 \in Nat /\ \A x \in Soaks : x <= c - 1
    BY <1>2, <1>5, <2>1
  <2>3. c - 1 \in Bounds
    BY <2>2
  <2> QED
    BY <1>4, <1>5, <2>3
<1>7. \A x \in Soaks : c >= x
  BY <1>2, <1>5
<1> HIDE DEF Soaks
<1>8. Max(Soaks) \in Soaks /\ \A x \in Soaks : Max(Soaks) >= x
  BY <1>6, <1>7 DEF Max
<1>9. MaxSoak = Max(Soaks)
  BY DEF MaxSoak, Soaks
<1> QED
  BY <1>2, <1>8, <1>9 DEF Soaks

\* The first open wave: the waves before it have passed.
LEMMA FirstOpen ==
    /\ firstOpen \in W \cup {0}
    /\ firstOpen = 0 => \A v \in W : Passed(v)
    /\ firstOpen # 0 => \A v \in 1 .. firstOpen - 1 : Passed(v)
<1> DEFINE open == {w \in W : ~Passed(w)}
<1>1. firstOpen = IF open = {} THEN 0 ELSE Min(open)
  BY DEF firstOpen
<1>2. open \subseteq Nat /\ open \subseteq W
  BY WaveFacts
<1>3. CASE open = {}
  BY <1>1, <1>3
<1>4. CASE open # {}
  <2>1. Min(open) \in open /\ \A y \in open : Min(open) <= y
    BY <1>2, <1>4, MinIsLeast
  <2>2. firstOpen = Min(open) /\ firstOpen \in W /\ firstOpen # 0
    BY <1>1, <1>2, <1>4, <2>1, WaveFacts
  <2>3. \A v \in 1 .. firstOpen - 1 : v \in W /\ v \notin open
    BY <2>1, <2>2, WaveFacts
  <2> QED
    BY <2>2, <2>3
<1> QED
  BY <1>3, <1>4
-----------------------------------------------------------------------------
(* Types. *)

LEMMA NewestIsVersion == ASSUME TargetVersion # NoVersion PROVE Newest = TargetVersion /\ TargetVersion \in Versions
BY FleetAssumption DEF Newest, NoVersion

LEMMA NoJobType == NoJob \in JobType
BY DEF NoJob, JobType, SoakType, Phases, StatusReasons

LEMMA NextSoakType == ASSUME TypeOK, NEW w \in W PROVE NextSoak(w) \in Nat \cup {NotSoaking}
<1>1. soakUntil[w] \in Nat \cup {NotSoaking} /\ Soak[w] \in Nat
  BY WaveFacts DEF TypeOK, SoakType
<1> QED
  BY <1>1 DEF NextSoak

\* What a pass decides to write.
LEMMA DecisionType == ASSUME TypeOK PROVE /\ \A w \in W : halt(w) \in JobType
                                          /\ \A n \in W : advance(n) \in JobType
<1>1. [v \in W |-> NextSoak(v)] \in SoakType
  BY NextSoakType DEF SoakType
<1>2. ASSUME NEW w \in W PROVE halt(w).left \in SUBSET (W \X Members \X Versions)
  <2>1. PreviousVersion \in Versions \cup {0} /\ Waves[w] \subseteq Members
    BY FleetAssumption, WaveFacts
  <2> QED
    BY <2>1 DEF halt, NoVersion
<1>3. ASSUME NEW n \in W PROVE advance(n).left \in SUBSET (W \X Members \X Versions)
  <2>1. ASSUME NEW w \in 1 .. n, NEW m \in Waves[w], fleetApprovalVersion(m) \notin {NoVersion, approved[m]}
        PROVE  w \in W /\ m \in Members /\ fleetApprovalVersion(m) \in Versions
    <3>1. w \in W /\ m \in Members
      BY <1>3, WaveFacts
    <3>2. pending[m] \in Versions \cup {NoVersion}
      BY <3>1 DEF TypeOK, VersionOrNone
    <3> QED
      BY <2>1, <3>1, <3>2, FleetAssumption DEF fleetApprovalVersion, NoVersion
  <2> QED
    BY <2>1 DEF advance
<1>4. ASSUME NEW w \in W PROVE halt(w) \in JobType
  BY <1>1, <1>2 DEF halt, JobType, Phases, StatusReasons
<1>5. ASSUME NEW n \in W PROVE advance(n) \in JobType
  BY <1>1, <1>3 DEF advance, JobType, Phases, StatusReasons
<1> QED
  BY <1>4, <1>5

\* The decision a pass takes: it halts at the first wave that calls for it, or
\* goes on.
LEMMA Decision == ASSUME TypeOK, StartPass
    PROVE  \/ \E w \in W : job' = halt(w)
           \/ openThrough \in W /\ job' = advance(openThrough)
<1> DEFINE halting == {w \in W : Halts(w)}
<1>1. halting \subseteq Nat /\ halting \subseteq W
  BY WaveFacts
<1>2. CASE halting # {}
  <2>1. Min(halting) \in W
    BY <1>1, <1>2, MinIsLeast
  <2> QED
    BY <1>2, <2>1 DEF StartPass
<1>3. CASE halting = {}
  <2>1. openThrough \in W
    BY FirstOpen, WaveFacts DEF openThrough
  <2> QED
    BY <1>3, <2>1 DEF StartPass
<1> QED
  BY <1>2, <1>3

\* Faults and disturbances stay within their bounds.
Counted == faults' \in 0 .. MaxFaults /\ disturbances' \in 0 .. MaxDisturbances

LEMMA CountedTypes == ASSUME TypeOK, Fault \/ Disturb \/ UNCHANGED boundVars PROVE Counted
<1>1. faults \in 0 .. MaxFaults /\ disturbances \in 0 .. MaxDisturbances /\ MaxFaults \in Nat /\ MaxDisturbances \in Nat
  BY FleetAssumption DEF TypeOK
<1>2. CASE Fault
  BY <1>1, <1>2 DEF Fault, Counted
<1>3. CASE Disturb
  BY <1>1, <1>3 DEF Disturb, Counted
<1>4. CASE UNCHANGED boundVars
  BY <1>1, <1>4 DEF boundVars, Counted
<1> QED
  BY <1>2, <1>3, <1>4

LEMMA PassTypes == ASSUME TypeOK, FleetPass PROVE TypeOK'
<1>1. CASE ListFails \/ ContestListFails \/ RefuseConfig \/ RefuseContested \/ RefuseUnassigned
  <2>1. Counted
    BY <1>1, CountedTypes DEF ListFails, ContestListFails, RefuseConfig, RefuseContested, RefuseUnassigned
  <2>2. reason' \in StatusReasons /\ wake' \in BOOLEAN
    BY <1>1 DEF ListFails, ContestListFails, RefuseConfig, RefuseContested, RefuseUnassigned, Refuse, TypeOK,
       StatusReasons, statusVars
  <2>3. UNCHANGED <<onRegression, config, rival, metric, soakUntil, phase, job, offered, version, pending, ready,
                    approved, rollbackTo, age, broken, ailing>>
    BY <1>1 DEF ListFails, ContestListFails, RefuseConfig, RefuseContested, RefuseUnassigned, Refuse, specVars,
       statusVars, memberVars, historyVars
  <2> QED
    BY <2>1, <2>2, <2>3 DEF Counted, TypeOK
<1>2. CASE StartPass
  <2>1. job' \in JobType
    BY <1>2, Decision, DecisionType
  <2> QED
    BY <1>2, <2>1 DEF StartPass, TypeOK, specVars, statusVars, memberVars, boundVars
<1>3. CASE StampMember
  <2>1. PICK s \in NextStamps :
          /\ IF job.stamp = "approved-version"
               THEN approved' = [approved EXCEPT ![s[2]] = s[3]] /\ UNCHANGED rollbackTo
               ELSE rollbackTo' = [rollbackTo EXCEPT ![s[2]] = s[3]] /\ UNCHANGED approved
          /\ job' = [job EXCEPT !.left = @ \ {s}]
    BY <1>3 DEF StampMember
  <2>2. s \in W \X Members \X Versions
    BY <2>1 DEF NextStamps, TypeOK, JobType
  <2>3. job' \in JobType
    BY <2>1 DEF TypeOK, JobType
  <2>4. approved' \in [Members -> VersionOrNone] /\ rollbackTo' \in [Members -> VersionOrNone]
    BY <2>1, <2>2 DEF TypeOK, VersionOrNone
  <2> QED
    BY <1>3, <2>3, <2>4 DEF StampMember, TypeOK, specVars, statusVars, historyVars, boundVars
<1>4. CASE StampFails \/ FinishPass \/ LosePass
  <2>1. job.soak \in SoakType /\ job.phase \in Phases /\ job.reason \in StatusReasons /\ job.requeue \in BOOLEAN
    BY DEF TypeOK, JobType
  <2>2. Counted
    BY <1>4, CountedTypes DEF StampFails, FinishPass, LosePass
  <2>3. /\ soakUntil' \in SoakType /\ phase' \in Phases /\ reason' \in StatusReasons /\ wake' \in BOOLEAN
        /\ job' \in JobType
    BY <1>4, <2>1, NoJobType DEF StampFails, FinishPass, LosePass, TypeOK, statusVars
  <2>4. UNCHANGED <<onRegression, config, rival, metric, offered, version, pending, ready, approved, rollbackTo,
                    age, broken, ailing>>
    BY <1>4 DEF StampFails, FinishPass, LosePass, specVars, memberVars, historyVars
  <2> QED
    BY <2>2, <2>3, <2>4 DEF Counted, TypeOK
<1> QED
  BY <1>1, <1>2, <1>3, <1>4 DEF FleetPass

LEMMA MemberTypes == ASSUME TypeOK, NEW m \in Members, MemberPass(m) \/ Publish(m) PROVE TypeOK'
<1>1. desired(m) \in Versions
  BY DEF TypeOK, VersionOrNone, desired
<1>2. ASSUME NEW v \in Versions, NEW p \in VersionOrNone, NEW r \in BOOLEAN, MemberStep(m, v, p, r),
             Counted
      PROVE  TypeOK'
  <2>1. age' \in [Members -> Nat \cup {NotSoaking}] /\ broken' \subseteq W
    BY <1>2 DEF MemberStep, TypeOK
  <2>2. version' \in [Members -> Versions] /\ pending' \in [Members -> VersionOrNone] /\ ready' \in [Members -> BOOLEAN]
    BY <1>2 DEF MemberStep, TypeOK
  <2> QED
    BY <1>2, <2>1, <2>2 DEF MemberStep, Counted, TypeOK, specVars, statusVars
<1>3. version[m] \in Versions /\ pending[m] \in VersionOrNone /\ NoVersion \in VersionOrNone
  BY DEF TypeOK, VersionOrNone
<1>4. Counted
  BY CountedTypes DEF MemberPass, MemberRefusesDowngrade, MemberHolds, MemberSucceeds, MemberFails, Publish
<1>5. CASE MemberRefusesDowngrade(m) \/ MemberHolds(m) \/ MemberSucceeds(m) \/ MemberFails(m)
  BY <1>1, <1>2, <1>3, <1>4, <1>5 DEF MemberRefusesDowngrade, MemberHolds, MemberSucceeds, MemberFails, VersionOrNone
<1>6. CASE Publish(m)
  BY <1>6 DEF Publish, TypeOK, specVars, statusVars, historyVars, boundVars
<1> QED
  BY <1>5, <1>6 DEF MemberPass

\* A tick takes one off a deadline.
LEMMA OlderType == ASSUME NEW s \in SoakType PROVE Older(s) \in SoakType
<1>1. ASSUME NEW w \in W PROVE (IF s[w] > 0 THEN s[w] - 1 ELSE s[w]) \in Nat \cup {NotSoaking}
  <2>1. s[w] \in Nat \cup {NotSoaking}
    BY DEF SoakType
  <2> QED
    BY <2>1 DEF NotSoaking
<1> QED
  BY <1>1 DEF Older, SoakType

LEMMA OneOlder == ASSUME NEW a \in Nat PROVE LET b == Min({a + 1, MaxSoak}) IN b \in Nat /\ (b = a + 1 \/ b = MaxSoak)
<1>1. {a + 1, MaxSoak} \subseteq Nat /\ {a + 1, MaxSoak} # {}
  BY LongestSoak
<1>2. Min({a + 1, MaxSoak}) \in {a + 1, MaxSoak}
  BY <1>1, MinIsLeast
<1> QED
  BY <1>1, <1>2

LEMMA SurroundingsTypes == ASSUME TypeOK, Surroundings PROVE TypeOK'
<1>1. CASE MetricChanges
  <2>1. Counted /\ metric' \in [Gated -> {"Passing", "Failing", "Unknown"}] /\ ailing' \subseteq Gated
    BY <1>1, CountedTypes DEF MetricChanges, TypeOK
  <2> QED
    BY <1>1, <2>1 DEF MetricChanges, Counted, TypeOK, statusVars, memberVars
<1>2. CASE RivalChanges
  <2>1. Counted /\ rival' \subseteq Members
    BY <1>2, CountedTypes DEF RivalChanges
  <2> QED
    BY <1>2, <2>1 DEF RivalChanges, Counted, TypeOK, statusVars, memberVars, historyVars
<1>3. CASE EditSpec
  <2>1. Counted /\ config' \in {"ok", "selector", "gateSecret", "unassigned"} /\ wake' \in BOOLEAN
    BY <1>3, CountedTypes DEF EditSpec
  <2> QED
    BY <1>3, <2>1 DEF EditSpec, Counted, TypeOK, statusVars, memberVars, historyVars
<1>4. CASE Tick
  <2>1. soakUntil' \in SoakType /\ job' \in JobType
    BY <1>4, OlderType DEF Tick, TypeOK, JobType
  <2>2. age' \in [Members -> Nat \cup {NotSoaking}]
    BY <1>4, OneOlder DEF Tick, TypeOK
  <2> QED
    BY <1>4, <2>1, <2>2 DEF Tick, TypeOK, specVars, memberVars, boundVars
<1> QED
  BY <1>1, <1>2, <1>3, <1>4 DEF Surroundings
-----------------------------------------------------------------------------
(* What every step but the decision keeps. *)

\* No member grows younger.
Grow ==
    \A m \in Members : age[m] # NotSoaking =>
        age'[m] # NotSoaking /\ age'[m] \in {age[m], age[m] + 1, MaxSoak}

LEMMA ProvenStays == ASSUME TypeOK, TypeOK', Grow, NEW w \in W, Proven(w) PROVE Proven(w)'
<1> SUFFICES ASSUME NEW m \in Waves[w] PROVE age'[m] # NotSoaking /\ age'[m] >= Soak[w]
  BY DEF Proven
<1>1. m \in Members /\ Soak[w] \in Nat /\ Soak[w] <= MaxSoak /\ MaxSoak \in Nat
  BY WaveFacts, LongestSoak
<1>2. age[m] # NotSoaking /\ age[m] >= Soak[w] /\ age[m] \in Nat \cup {NotSoaking}
  BY <1>1 DEF Proven, TypeOK
<1>3. age'[m] # NotSoaking /\ age'[m] \in {age[m], age[m] + 1, MaxSoak} /\ age'[m] \in Nat \cup {NotSoaking}
  BY <1>1, <1>2 DEF Grow, TypeOK
<1> QED
  BY <1>1, <1>2, <1>3

LEMMA Carries ==
    ASSUME IInv, TypeOK', Grow, AgeInv', SoakSound(soakUntil)', SoakSound(job.soak)',
           broken' \subseteq broken, ailing' \subseteq ailing,
           job'.left \subseteq job.left, job'.stamp \in {job.stamp, ""}, job'.phase \in {job.phase, ""},
           phase' \in {phase, job.phase}
    PROVE  IInv'
<1>1. StampsInv'
  <2>1. SUFFICES ASSUME job'.stamp = "approved-version", NEW x \in job'.left
                 PROVE  x[2] \in Waves[x[1]] /\ \A v \in 1 .. x[1] - 1 : Proven(v)' /\ v \notin broken' \cup ailing'
    BY DEF StampsInv, Proven
  <2>2. x \in job.left /\ x[1] \in W /\ job.stamp = "approved-version"
    BY <2>1 DEF IInv, TypeOK, JobType
  <2>3. x[2] \in Waves[x[1]] /\ \A v \in 1 .. x[1] - 1 : Proven(v) /\ v \notin broken \cup ailing
    BY <2>2 DEF IInv, StampsInv
  <2>4. \A v \in 1 .. x[1] - 1 : v \in W
    BY <2>2, EarlierWaves
  <2> QED
    BY <2>3, <2>4, ProvenStays DEF IInv
<1>2. DoneInv'
  <2> SUFFICES ASSUME job'.phase = "Completed" \/ phase' = "Completed", NEW w \in W PROVE Proven(w)'
    BY DEF DoneInv
  <2>1. Proven(w)
    BY DEF IInv, DoneInv
  <2> QED
    BY <2>1, ProvenStays DEF IInv
<1> QED
  BY <1>1, <1>2 DEF IInv

\* The same while no time passes.
LEMMA CarriesStill ==
    ASSUME IInv, TypeOK', UNCHANGED <<age, version>>, soakUntil' \in {soakUntil, job.soak}, job'.soak \in {job.soak, NoJob.soak},
           broken' \subseteq broken, ailing' \subseteq ailing,
           job'.left \subseteq job.left, job'.stamp \in {job.stamp, ""}, job'.phase \in {job.phase, ""},
           phase' \in {phase, job.phase}
    PROVE  IInv'
<1>1. Grow
  BY DEF Grow
<1>2. AgeInv'
  BY DEF IInv, AgeInv
<1>3. SoakSound(NoJob.soak)
  BY DEF SoakSound, NoJob
<1>4. \A s : SoakSound(s) => SoakSound(s)'
  BY DEF SoakSound
<1>5. SoakSound(soakUntil)' /\ SoakSound(job.soak)'
  BY <1>3 DEF IInv, SoakSound
<1> QED
  BY <1>1, <1>2, <1>5, Carries

-----------------------------------------------------------------------------
(* The fleet pass. *)

\* A settled wave runs the version, and what a pass makes of its soak is sound.
LEMMA NextSoakSound == ASSUME TargetVersion # NoVersion, IInv, NEW w \in W, NextSoak(w) # NotSoaking
    PROVE  \A m \in Waves[w] : age[m] # NotSoaking /\ age[m] + NextSoak(w) >= Soak[w]
<1>1. Settled(w)
  BY DEF NextSoak
<1> SUFFICES ASSUME NEW m \in Waves[w] PROVE age[m] # NotSoaking /\ age[m] + NextSoak(w) >= Soak[w]
  OBVIOUS
<1>2. m \in Members /\ Soak[w] \in Nat
  BY WaveFacts
<1>3. version[m] = TargetVersion
  BY <1>1 DEF Settled, fleetAdopted
<1>4. age[m] # NotSoaking /\ age[m] \in Nat
  BY <1>2, <1>3 DEF IInv, AgeInv, TypeOK
<1>5. CASE soakUntil[w] # NotSoaking
  <2>1. NextSoak(w) = soakUntil[w]
    BY <1>1, <1>5 DEF NextSoak
  <2> QED
    BY <1>4, <1>5, <2>1 DEF IInv, SoakSound
<1>6. CASE soakUntil[w] = NotSoaking
  <2>1. NextSoak(w) = Soak[w]
    BY <1>1, <1>6 DEF NextSoak
  <2> QED
    BY <1>2, <1>4, <2>1
<1> QED
  BY <1>5, <1>6

\* A wave that has passed is proven, settled and healthy.
LEMMA PassedWave == ASSUME TargetVersion # NoVersion, IInv, NEW w \in W, Passed(w)
    PROVE  Proven(w) /\ Settled(w) /\ (w \in Gated => metric[w] = "Passing")
<1>1. Settled(w) /\ NextSoak(w) = 0 /\ (w \in Gated => metric[w] = "Passing")
  BY DEF Passed, SoakElapsed, evalGate
<1>2. \A m \in Waves[w] : age[m] # NotSoaking /\ age[m] + 0 >= Soak[w]
  BY <1>1, NextSoakSound DEF NotSoaking
<1>3. \A m \in Waves[w] : age[m] \in Nat
  BY <1>2, WaveFacts DEF IInv, TypeOK
<1>4. Proven(w)
  BY <1>2, <1>3 DEF Proven
<1> QED
  BY <1>1, <1>4

LEMMA StartPassInv == ASSUME TargetVersion # NoVersion, IInv, StartPass PROVE IInv'
<1>1. TypeOK'
  BY PassTypes DEF IInv, FleetPass
<1>2. /\ UNCHANGED <<specVars, statusVars, memberVars, age>>
      /\ broken' = {w \in W : ~Settled(w)} /\ ailing' = {w \in Gated : metric[w] # "Passing"}
  BY DEF StartPass
<1>3. UNCHANGED <<soakUntil, phase, version, age>>
  BY <1>2 DEF statusVars, memberVars
<1>4. AgeInv' /\ SoakSound(soakUntil)'
  BY <1>3 DEF IInv, AgeInv, SoakSound
<1>5. \A w \in W : Proven(w) => Proven(w)'
  BY <1>3 DEF Proven
<1>6. \A w \in W : Passed(w) => Proven(w)' /\ w \notin broken' \cup ailing'
  BY <1>2, <1>5, PassedWave
<1>7. job'.soak = [v \in W |-> NextSoak(v)]
  BY Decision DEF IInv, halt, advance
<1>8. SoakSound(job.soak)'
  BY <1>3, <1>7, NextSoakSound DEF SoakSound
<1>9. CASE \E w \in W : job' = halt(w)
  <2>1. StampsInv'
    BY <1>9 DEF halt, StampsInv
  <2>2. DoneInv'
    BY <1>3, <1>5, <1>9 DEF halt, IInv, DoneInv
  <2> QED
    BY <1>1, <1>4, <1>8, <2>1, <2>2 DEF IInv
<1>10. CASE openThrough \in W /\ job' = advance(openThrough)
  <2>1. \A v \in 1 .. openThrough - 1 : Passed(v) /\ v \in W
    BY <1>10, FirstOpen, WaveFacts DEF openThrough
  <2>2. \A x \in job'.left : x[1] \in 1 .. openThrough /\ x[2] \in Waves[x[1]]
    BY <1>10 DEF advance
  <2>3. StampsInv'
    <3> SUFFICES ASSUME NEW x \in job'.left
                 PROVE  x[2] \in Waves[x[1]] /\ \A v \in 1 .. x[1] - 1 : Proven(v)' /\ v \notin broken' \cup ailing'
      BY DEF StampsInv, Proven
    <3>1. \A v \in 1 .. x[1] - 1 : v \in 1 .. openThrough - 1
      BY <1>10, <2>2, WaveFacts
    <3> QED
      BY <1>6, <2>1, <2>2, <3>1
  <2>4. job'.phase = "Completed" => firstOpen = 0
    BY <1>10 DEF advance
  <2>5. DoneInv'
    <3>1. CASE job'.phase = "Completed"
      BY <1>6, <2>4, <3>1, FirstOpen DEF DoneInv
    <3>2. CASE phase' = "Completed"
      BY <1>3, <1>5, <3>2 DEF IInv, DoneInv
    <3> QED
      BY <3>1, <3>2 DEF DoneInv
  <2> QED
    BY <1>1, <1>4, <1>8, <2>3, <2>5 DEF IInv
<1> QED
  BY <1>9, <1>10, Decision DEF IInv

LEMMA FleetPassInv == ASSUME TargetVersion # NoVersion, IInv, FleetPass PROVE IInv'
<1>1. TypeOK'
  BY PassTypes DEF IInv
<1>2. job.soak \in SoakType /\ job \in JobType
  BY DEF IInv, TypeOK, JobType
<1>3. CASE ListFails \/ ContestListFails \/ RefuseConfig \/ RefuseContested \/ RefuseUnassigned
  <2>1. UNCHANGED <<age, version, soakUntil, job, broken, ailing, phase>>
    BY <1>3 DEF ListFails, ContestListFails, RefuseConfig, RefuseContested, RefuseUnassigned, Refuse,
                statusVars, memberVars, historyVars
  <2> QED
    BY <1>1, <2>1, CarriesStill
<1>4. CASE StampMember
  <2>1. PICK s \in NextStamps : job' = [job EXCEPT !.left = @ \ {s}]
    BY <1>4 DEF StampMember
  <2>2. job'.left \subseteq job.left /\ job'.stamp = job.stamp /\ job'.phase = job.phase /\ job'.soak = job.soak
    BY <1>2, <2>1 DEF JobType
  <2>3. UNCHANGED <<age, version, soakUntil, broken, ailing, phase>>
    BY <1>4 DEF StampMember, statusVars, historyVars
  <2> QED
    BY <1>1, <2>2, <2>3, CarriesStill
<1>5. CASE StampFails \/ FinishPass \/ LosePass
  <2>1. job' = NoJob /\ NoJob.left = {} /\ NoJob.stamp = "" /\ NoJob.phase = ""
    BY <1>5 DEF StampFails, FinishPass, LosePass, NoJob
  <2>2. /\ UNCHANGED <<age, version, broken, ailing>>
        /\ soakUntil' \in {soakUntil, job.soak} /\ phase' \in {phase, job.phase}
    BY <1>5 DEF StampFails, FinishPass, LosePass, statusVars, memberVars, historyVars
  <2> QED
    BY <1>1, <2>1, <2>2, CarriesStill
<1> QED
  BY <1>3, <1>4, <1>5, StartPassInv DEF FleetPass

-----------------------------------------------------------------------------
(* The members and the surroundings. *)

LEMMA MemberInv == ASSUME TargetVersion # NoVersion, IInv, NEW m \in Members, MemberPass(m) \/ Publish(m) PROVE IInv'
<1>1. TypeOK'
  BY MemberTypes DEF IInv
<1>2. ASSUME NEW v, NEW p, NEW r, MemberStep(m, v, p, r) PROVE IInv'
  <2>1. /\ UNCHANGED <<soakUntil, phase, job, ailing>> /\ broken' \subseteq broken
        /\ version' = [version EXCEPT ![m] = v]
        /\ age' = [age EXCEPT ![m] = IF v = Newest /\ @ = NotSoaking THEN 0 ELSE @]
    BY <1>2 DEF MemberStep, statusVars
  <2>2. /\ \A n \in Members : age[n] # NotSoaking => age'[n] = age[n]
        /\ version \in [Members -> Versions] /\ age \in [Members -> Nat \cup {NotSoaking}]
    BY <2>1 DEF IInv, TypeOK
  <2>3. Grow
    BY <2>2 DEF Grow, NotSoaking
  <2>4. AgeInv'
    BY <2>1, <2>2, NewestIsVersion DEF IInv, AgeInv, NotSoaking
  <2>5. SoakSound(soakUntil)' /\ SoakSound(job.soak)'
    BY <2>1, <2>2, WaveFacts DEF IInv, SoakSound
  <2> QED
    BY <1>1, <2>1, <2>3, <2>4, <2>5, Carries
<1>3. CASE MemberPass(m)
  BY <1>2, <1>3 DEF MemberPass, MemberRefusesDowngrade, MemberHolds, MemberSucceeds, MemberFails
<1>4. CASE Publish(m)
  <2>1. UNCHANGED <<age, version, soakUntil, job, broken, ailing, phase>>
    BY <1>4 DEF Publish, statusVars, historyVars
  <2> QED
    BY <1>1, <2>1, CarriesStill
<1> QED
  BY <1>3, <1>4

LEMMA TickInv == ASSUME IInv, Tick PROVE IInv'
<1>1. TypeOK'
  BY SurroundingsTypes DEF IInv, Surroundings
<1>2. /\ soakUntil' = Older(soakUntil) /\ job' = [job EXCEPT !.soak = Older(@)]
      /\ age' = [m \in Members |-> IF age[m] = NotSoaking THEN NotSoaking ELSE Min({age[m] + 1, MaxSoak})]
      /\ UNCHANGED <<phase, version, broken, ailing>>
  BY DEF Tick, memberVars
<1>3. ASSUME NEW m \in Members
      PROVE  /\ age[m] = NotSoaking => age'[m] = NotSoaking
             /\ age[m] # NotSoaking => /\ age[m] \in Nat /\ age'[m] \in Nat
                                       /\ (age'[m] = age[m] + 1 \/ age'[m] = MaxSoak)
  BY <1>2, OneOlder DEF IInv, TypeOK, NotSoaking
<1>4. Grow
  BY <1>3, LongestSoak DEF Grow, NotSoaking
<1>5. AgeInv'
  <2> SUFFICES ASSUME NEW m \in Members, version[m] = TargetVersion PROVE age'[m] # NotSoaking
    BY <1>2 DEF AgeInv
  <2>1. age[m] # NotSoaking
    BY DEF IInv, AgeInv
  <2> QED
    BY <1>3, <2>1 DEF NotSoaking
<1>6. ASSUME NEW s \in SoakType, SoakSound(s) PROVE SoakSound(Older(s))'
  <2> SUFFICES ASSUME NEW w \in W, Older(s)[w] # NotSoaking, NEW m \in Waves[w]
               PROVE  age'[m] # NotSoaking /\ age'[m] + Older(s)[w] >= Soak[w]
    BY DEF SoakSound, Older
  <2>1. /\ s[w] \in Nat \cup {NotSoaking} /\ Soak[w] \in Nat /\ Soak[w] <= MaxSoak /\ MaxSoak \in Nat /\ m \in Members
        /\ Older(s)[w] = IF s[w] > 0 THEN s[w] - 1 ELSE s[w]
    BY WaveFacts, LongestSoak DEF SoakType, Older
  <2>2. s[w] \in Nat /\ Older(s)[w] \in Nat /\ s[w] <= Older(s)[w] + 1
    BY <2>1 DEF NotSoaking
  <2>3. age[m] # NotSoaking /\ age[m] + s[w] >= Soak[w]
    BY <2>2, <1>6 DEF SoakSound, NotSoaking
  <2>4. age[m] \in Nat /\ age'[m] \in Nat /\ (age'[m] = age[m] + 1 \/ age'[m] = MaxSoak)
    BY <1>3, <2>1, <2>3
  <2>5. age'[m] + Older(s)[w] >= Soak[w]
    BY <2>1, <2>2, <2>3, <2>4
  <2> QED
    BY <2>4, <2>5 DEF NotSoaking
<1>7. /\ job.soak \in SoakType /\ soakUntil \in SoakType /\ job'.soak = Older(job.soak)
      /\ job'.left = job.left /\ job'.stamp = job.stamp /\ job'.phase = job.phase
  BY <1>2 DEF IInv, TypeOK, JobType
<1>8. SoakSound(soakUntil)' /\ SoakSound(job.soak)'
  <2>1. PICK s \in SoakType, t \in SoakType : s = soakUntil /\ t = job.soak
    BY <1>7
  <2>2. SoakSound(Older(s))' /\ SoakSound(Older(t))'
    BY <1>6, <2>1 DEF IInv
  <2> QED
    BY <1>2, <1>7, <2>1, <2>2 DEF SoakSound
<1> QED
  BY <1>1, <1>2, <1>4, <1>5, <1>7, <1>8, Carries

LEMMA SurroundingsInv == ASSUME IInv, Surroundings PROVE IInv'
<1>1. CASE MetricChanges \/ RivalChanges \/ EditSpec
  <2>1. UNCHANGED <<age, version, soakUntil, job, broken, phase>> /\ ailing' \subseteq ailing
    BY <1>1 DEF MetricChanges, RivalChanges, EditSpec, statusVars, memberVars, historyVars
  <2> QED
    BY <1>1, <2>1, SurroundingsTypes, CarriesStill DEF IInv
<1> QED
  BY <1>1, TickInv DEF Surroundings

LEMMA InitInv == ASSUME TargetVersion # NoVersion, Init PROVE IInv
<1>1. FirstVersion \in Versions /\ FirstVersion \in VersionOrNone /\ NoVersion \in VersionOrNone
  BY FleetAssumption DEF VersionOrNone
<1>2. 0 \in 0 .. MaxFaults /\ 0 \in 0 .. MaxDisturbances
  BY FleetAssumption
<1>3. soakUntil \in SoakType /\ phase \in Phases /\ reason \in StatusReasons
  BY DEF Init, SoakType, Phases, StatusReasons
<1>4. TypeOK
  BY <1>1, <1>2, <1>3, NoJobType DEF Init, TypeOK
<1>5. AgeInv
  <2>1. 0 # NotSoaking
    BY DEF NotSoaking
  <2> QED
    BY <2>1, NewestIsVersion DEF Init, AgeInv
<1>6. SoakSound(soakUntil) /\ SoakSound(job.soak)
  BY DEF Init, SoakSound, NoJob
<1>7. StampsInv /\ DoneInv
  BY DEF Init, StampsInv, DoneInv, NoJob
<1> QED
  BY <1>4, <1>5, <1>6, <1>7 DEF IInv

LEMMA StepInv == TargetVersion # NoVersion => (IInv /\ [Next]_vars => IInv')
<1> SUFFICES ASSUME TargetVersion # NoVersion, IInv, [Next]_vars PROVE IInv'
  OBVIOUS
<1>1. CASE UNCHANGED vars
  <2>1. TypeOK'
    BY <1>1 DEF IInv, TypeOK, vars, specVars, statusVars, memberVars, historyVars, boundVars
  <2>2. UNCHANGED <<age, version, soakUntil, job, broken, ailing, phase>>
    BY <1>1 DEF vars, statusVars, memberVars, historyVars
  <2> QED
    BY <2>1, <2>2, CarriesStill
<1> QED
  BY <1>1, FleetPassInv, MemberInv, SurroundingsInv DEF Next
-----------------------------------------------------------------------------
(***************************************************************************)
(* A rollout that pins its version says Completed only when every wave has *)
(* run it through its soak, however many status writes were lost and       *)
(* passes retried.                                                         *)
(***************************************************************************)
THEOREM CompletedIsTrue == TargetVersion # NoVersion => (Spec => []StatusTruthful)
<1> SUFFICES ASSUME TargetVersion # NoVersion PROVE Spec => []StatusTruthful
  OBVIOUS
<1>1. Init => IInv
  BY InitInv
<1>2. IInv /\ [Next]_vars => IInv'
  BY StepInv
<1>3. IInv => StatusTruthful
  BY DEF IInv, DoneInv, StatusTruthful, CompletedMeansRolledOut
<1> QED
  BY <1>1, <1>2, <1>3, PTL DEF Spec

(***************************************************************************)
(* It approves no member before every earlier wave has run the version     *)
(* through its soak, nor while one of them has been unsettled or unhealthy *)
(* since before the pass looked at it.                                     *)
(***************************************************************************)
THEOREM WavesKeepTheirTurn == TargetVersion # NoVersion => (Spec => WavesInOrder)
<1> SUFFICES ASSUME TargetVersion # NoVersion PROVE Spec => WavesInOrder
  OBVIOUS
<1>1. Init => IInv
  BY InitInv
<1>2. IInv /\ [Next]_vars => IInv'
  BY StepInv
<1>3. IInv /\ [Next]_vars => ApprovedInTurn
  <2> SUFFICES ASSUME IInv, [Next]_vars, NEW m \in Members, approved'[m] # approved[m]
               PROVE  \E w \in W : m \in Waves[w] /\ \A v \in 1 .. w - 1 : Proven(v) /\ v \notin broken \cup ailing
    BY DEF ApprovedInTurn
  <2>1. StampMember
    BY DEF Next, FleetPass, MemberPass, Surroundings, ListFails, ContestListFails, RefuseConfig, RefuseContested,
           RefuseUnassigned, Refuse, StartPass, StampFails, FinishPass, LosePass, MemberRefusesDowngrade, MemberHolds,
           MemberSucceeds, MemberFails, MemberStep, Publish, MetricChanges, RivalChanges, EditSpec, Tick, memberVars, vars
  <2>2. PICK s \in NextStamps : /\ job.stamp = "approved-version"
                                /\ approved' = [approved EXCEPT ![s[2]] = s[3]]
    BY <2>1 DEF StampMember
  <2>3. s \in job.left /\ s[1] \in W
    BY <2>2 DEF NextStamps, IInv, TypeOK, JobType
  <2>4. s[2] = m
    BY <2>2 DEF IInv, TypeOK
  <2> QED
    BY <2>2, <2>3, <2>4 DEF IInv, StampsInv
<1> QED
  BY <1>1, <1>2, <1>3, PTL DEF Spec, WavesInOrder
=============================================================================
