------------------------- MODULE TenantAccessProofs -------------------------
(***************************************************************************)
(* What holds of the shared token and client caches for any StageSets and  *)
(* accounts, any lifetimes the apiserver grants, any refresh margin and    *)
(* any mix of evictions, recreated accounts and failed mints.              *)
(***************************************************************************)
EXTENDS TenantAccess, TLAPS

\* Where a reconcile works with the account of its StageSet.
Tenant == {"lookup", "wait", "target", "forget", "forgetTarget", "evict", "evictTarget"}
\* Where the reconcile of a StageSet that is gone may be.
Leaving == {"leaving", "evict", "evictTarget"}

\* The place of a reconcile agrees with its StageSet.
PlaceInv ==
    \A s \in StageSets :
        /\ pass[s].at \in Tenant => account(s) \in Accounts
        /\ life[s] = "gone" => pass[s].at \in {"idle"} \cup Leaving
        /\ pass[s].at \in Leaving => life[s] = "gone"
        /\ pass[s].at # "done" => pass[s].ops < MaxOps

\* A flight carries a token exactly when the apiserver has signed one, someone
\* waits for it, and an outdated token is one whose epoch has moved.
FlightInv ==
    \A a \in Accounts :
        /\ flight[a].at = "minted" <=> flight[a].token # NoToken
        /\ flight[a].token.left <= flight[a].token.granted
        /\ flight[a].token.old => epochMoved[a]
        /\ flight[a].at # "none" => \E s \in StageSets : account(s) = a /\ pass[s].at = "wait"

\* What is left of a token and the time it has been held make up the margin.
HeldInv ==
    \A s \in StageSets :
        pass[s].token.granted > refreshMargin => pass[s].token.left + pass[s].held > refreshMargin

\* Someone will still evict what is cached for account a.
Responsible(a, places) ==
    \E s \in StageSets : account(s) = a /\ (life[s] # "gone" \/ pass[s].at \in places)

KeptInv ==
    ~skipped => \A a \in Accounts : /\ tokens[a] # NoToken => Responsible(a, {"leaving", "evict"})
                                    /\ targets[a] => Responsible(a, Leaving)

IInv == TypeOK /\ PlaceInv /\ FlightInv /\ EvictedStaysOut /\ HeldInv /\ KeptInv

-----------------------------------------------------------------------------
(* The operators. *)

LEMMA Constants ==
    /\ NoAccount \notin Accounts /\ refreshMargin \in Nat /\ MaxOps \in Nat \ {0} /\ MaxEvents \in Nat
    /\ \A ttl \in TTLs : ttl \in Nat \ {0}
BY TenantAssumption

LEMMA Bounds == 0 \in HeldTimes /\ 0 \in OpCounts
BY Constants DEF HeldTimes, OpCounts

\* The smaller of two numbers.
LEMMA MinOfTwo == ASSUME NEW x \in Nat, NEW y \in Nat
    PROVE  Min({x, y}) = IF x <= y THEN x ELSE y
<1>1. \E m \in {x, y} : \A z \in {x, y} : m <= z
  BY DEF Min
<1>2. /\ Min({x, y}) \in {x, y}
      /\ \A z \in {x, y} : Min({x, y}) <= z
  BY <1>1 DEF Min
<1> QED
  BY <1>2

LEMMA TokenFields == ASSUME NEW t \in Tokens \cup {NoToken}
    PROVE  /\ t.uid \in Nat /\ t.left \in Nat /\ t.granted \in Nat /\ t.old \in BOOLEAN
           /\ t = NoToken <=> t.uid = 0
           /\ t # NoToken => t \in Tokens
<1>1. CASE t = NoToken
  BY <1>1 DEF Tokens, NoToken
<1>2. CASE t \in Tokens
  BY <1>2, Constants DEF Tokens, NoToken
<1> QED
  BY <1>1, <1>2

\* Growing older keeps a token what it is, except for the time left.
LEMMA AgedToken == ASSUME NEW t \in Tokens \cup {NoToken}
    PROVE  /\ Aged(t) \in Tokens \cup {NoToken}
           /\ Aged(t) = NoToken <=> t = NoToken
           /\ Aged(t).old = t.old /\ Aged(t).granted = t.granted
           /\ Aged(t).left = IF t.left > 0 THEN t.left - 1 ELSE t.left
BY TokenFields, Constants DEF Aged, Tokens, NoToken

\* Outdating a token only marks it.
LEMMA OutdatedToken == ASSUME NEW t \in Tokens \cup {NoToken}
    PROVE  /\ Outdated(t) \in Tokens \cup {NoToken}
           /\ Outdated(t) = NoToken <=> t = NoToken
           /\ Outdated(t).granted = t.granted /\ Outdated(t).left = t.left
           /\ t = NoToken => ~Outdated(t).old
BY TokenFields, Constants DEF Outdated, Tokens, NoToken

-----------------------------------------------------------------------------
(* The start, and the steps that leave caches alone. *)

LEMMA InitInv == Init => IInv
<1> SUFFICES ASSUME Init PROVE IInv
  OBVIOUS
<1>1. TypeOK
  <2>1. Idle \in PassType
    BY Bounds DEF PassType, Idle
  <2>2. NoFlight \in [at : {"none", "check", "minting", "minted"}, token : Tokens \cup {NoToken}]
    BY DEF NoFlight
  <2>3. epochMoved \in [Accounts -> BOOLEAN] /\ targets \in [Accounts -> BOOLEAN] /\ skipped \in BOOLEAN
    BY DEF Init
  <2>4. setting \in Settings /\ uid \in [Accounts -> Nat] /\ kubeconfig \in Nat /\ events \in 0 .. MaxEvents /\ remotes \subseteq Nat
    BY Constants DEF Init
  <2>5. tokens \in [Accounts -> Tokens \cup {NoToken}]
    BY DEF Init
  <2>6. pass \in [StageSets -> PassType] /\ life \in [StageSets -> {"live", "deleting", "gone"}]
    BY <2>1 DEF Init
  <2>7. flight \in [Accounts -> [at : {"none", "check", "minting", "minted"}, token : Tokens \cup {NoToken}]]
    BY <2>2 DEF Init
  <2> QED
    BY <2>3, <2>4, <2>5, <2>6, <2>7 DEF TypeOK
<1>2. PlaceInv
  BY Constants DEF Init, PlaceInv, Idle, Tenant, Leaving
<1>3. FlightInv
  <2> SUFFICES ASSUME NEW a \in Accounts
               PROVE  /\ flight[a].at = "minted" <=> flight[a].token # NoToken
                      /\ flight[a].token.left <= flight[a].token.granted
                      /\ flight[a].token.old => epochMoved[a]
                      /\ flight[a].at = "none"
    BY DEF FlightInv
  <2>1. flight[a] = NoFlight
    BY DEF Init
  <2> QED
    BY <2>1 DEF NoFlight, NoToken
<1>4. EvictedStaysOut
  BY DEF Init, EvictedStaysOut, NoToken
<1>5. HeldInv
  BY Constants DEF Init, HeldInv, Idle, NoToken
<1>6. KeptInv
  BY DEF Init, KeptInv
<1> QED
  BY <1>1, <1>2, <1>3, <1>4, <1>5, <1>6 DEF IInv

\* One reconcile moves on, tokens and flights stay as they are.  It may build
\* clients while its StageSet exists, and leaves no account without someone
\* who evicts.
LEMMA ReconcileMoves ==
    ASSUME IInv, NEW s \in StageSets,
           UNCHANGED <<worldVars, tokens, epochMoved, flight, life>>,
           targets' \in [Accounts -> BOOLEAN], remotes' \subseteq Nat,
           skipped' \in BOOLEAN, skipped => skipped', events' \in 0 .. MaxEvents,
           \A a \in Accounts : targets'[a] => targets[a] \/ (account(s) = a /\ life[s] # "gone"),
           pass' \in [StageSets -> PassType],
           \A o \in StageSets \ {s} : pass'[o] = pass[o],
           pass[s].at # "wait", pass'[s].at # "wait",
           pass'[s].at \in Tenant => account(s) \in Accounts,
           life[s] = "gone" => pass'[s].at \in {"idle"} \cup Leaving,
           pass'[s].at \in Leaving => life[s] = "gone",
           pass'[s].at # "done" => pass'[s].ops < MaxOps,
           pass'[s].token.granted > refreshMargin => pass'[s].token.left + pass'[s].held > refreshMargin,
           \/ life[s] # "gone" \/ skipped' \/ pass'[s].at = "evict" \/ account(s) \notin Accounts
           \/ \E o \in StageSets \ {s} : account(o) = account(s) /\ life[o] # "gone"
    PROVE  IInv'
<1> USE DEF worldVars, account
<1>1. TypeOK'
  BY DEF IInv, TypeOK
<1>2. PlaceInv'
  BY DEF IInv, PlaceInv
<1>3. FlightInv'
  BY DEF IInv, FlightInv
<1>4. EvictedStaysOut'
  BY DEF IInv, EvictedStaysOut
<1>5. HeldInv'
  BY DEF IInv, HeldInv
<1>6. KeptInv'
  BY DEF IInv, KeptInv, Responsible, Leaving
<1> QED
  BY <1>1, <1>2, <1>3, <1>4, <1>5, <1>6 DEF IInv

\* What the type invariant says of one reconcile and of its account.
LEMMA AtStageSet == ASSUME IInv, NEW s \in StageSets
    PROVE  /\ pass \in [StageSets -> PassType] /\ pass[s] \in PassType
           /\ pass[s].token \in Tokens \cup {NoToken} /\ pass[s].held \in HeldTimes /\ pass[s].held \in Nat
           /\ pass[s].retried \in BOOLEAN /\ pass[s].conn \in Nat
           /\ pass[s].ops \in OpCounts /\ pass[s].ops \in Nat /\ (pass[s].at # "done" => pass[s].ops < MaxOps)
           /\ pass[s].teardown \in BOOLEAN
           /\ account(s) \in Accounts \cup {NoAccount}
           /\ mintsTokenFor(s) <=> account(s) \in Accounts
           /\ targets \in [Accounts -> BOOLEAN] /\ remotes \subseteq Nat /\ skipped \in BOOLEAN
           /\ events \in 0 .. MaxEvents /\ kubeconfig \in Nat /\ life[s] \in {"live", "deleting", "gone"}
<1>1. setting.account \in [StageSets -> Accounts \cup {NoAccount}]
  BY TenantAssumption DEF IInv, TypeOK
<1> QED
  BY <1>1, Constants DEF IInv, TypeOK, PassType, PlaceInv, account, mintsTokenFor, HeldTimes, OpCounts

LEMMA StartPassInv == ASSUME IInv, NEW s \in StageSets, StartPass(s) PROVE IInv'
<1> USE AtStageSet, Constants, Bounds
<1>1. pass' \in [StageSets -> PassType]
  <2>1. (life[s] = "deleting") \in BOOLEAN
    OBVIOUS
  <2>2. [Idle EXCEPT !.at = IF mintsTokenFor(s) THEN "lookup" ELSE "op", !.teardown = life[s] = "deleting"] \in PassType
    BY <2>1 DEF Idle, PassType
  <2> QED
    BY <2>2 DEF StartPass
<1>2. /\ pass'[s].ops = 0 /\ pass'[s].at \in {"lookup", "op"} /\ pass'[s].token = NoToken
      /\ pass'[s].at = "lookup" => account(s) \in Accounts
      /\ \A o \in StageSets \ {s} : pass'[o] = pass[o]
  BY DEF StartPass, Idle
<1> QED
  BY <1>1, <1>2, ReconcileMoves DEF StartPass, cacheVars, Tenant, Leaving, NoToken

LEMMA TokenCachedInv == ASSUME IInv, NEW s \in StageSets, TokenCached(s) PROVE IInv'
<1> USE AtStageSet, Constants, Bounds
<1>1. account(s) \in Accounts /\ life[s] # "gone"
  BY DEF TokenCached, IInv, PlaceInv, Tenant, Leaving
<1>2. tokens[account(s)] \in Tokens \cup {NoToken}
  BY <1>1 DEF IInv, TypeOK
<1>3. /\ pass' \in [StageSets -> PassType]
      /\ pass'[s].ops = pass[s].ops /\ pass'[s].at = "target" /\ pass'[s].token = tokens[account(s)] /\ pass'[s].held = 0
      /\ \A o \in StageSets \ {s} : pass'[o] = pass[o]
  BY <1>2 DEF TokenCached, PassType
<1>4. tokens[account(s)].left \in Nat /\ tokens[account(s)].left > refreshMargin
  BY <1>2, TokenFields DEF TokenCached, lookup
<1> QED
  BY <1>1, <1>3, <1>4, ReconcileMoves DEF TokenCached, cacheVars, Leaving

LEMMA BuildTargetInv == ASSUME IInv, NEW s \in StageSets, BuildTarget(s) PROVE IInv'
<1> USE AtStageSet, Constants, Bounds
<1>1. account(s) \in Accounts /\ life[s] # "gone"
  BY DEF BuildTarget, IInv, PlaceInv, Tenant, Leaving
<1>2. /\ pass' \in [StageSets -> PassType]
      /\ pass'[s].ops = pass[s].ops /\ pass'[s].at = "op" /\ pass'[s].token = pass[s].token /\ pass'[s].held = pass[s].held
      /\ \A o \in StageSets \ {s} : pass'[o] = pass[o]
  BY DEF BuildTarget, PassType
<1>3. targets' \in [Accounts -> BOOLEAN] /\ \A a \in Accounts : targets'[a] => targets[a] \/ account(s) = a
  BY <1>1 DEF BuildTarget
<1>4. pass[s].token.granted > refreshMargin => pass[s].token.left + pass[s].held > refreshMargin
  BY DEF IInv, HeldInv
<1> QED
  BY <1>1, <1>2, <1>3, <1>4, ReconcileMoves DEF BuildTarget, Leaving, Tenant

LEMMA RemoteTargetInv == ASSUME IInv, NEW s \in StageSets, RemoteTarget(s) PROVE IInv'
<1> USE AtStageSet, Constants, Bounds
<1>1. life[s] # "gone"
  BY DEF RemoteTarget, IInv, PlaceInv, Leaving
<1>2. /\ pass' \in [StageSets -> PassType]
      /\ pass'[s].ops = pass[s].ops /\ pass'[s].at = "op" /\ pass'[s].token = pass[s].token /\ pass'[s].held = pass[s].held
      /\ \A o \in StageSets \ {s} : pass'[o] = pass[o]
  BY DEF RemoteTarget, PassType
<1>3. remotes' \subseteq Nat
  BY DEF RemoteTarget
<1>4. pass[s].token.granted > refreshMargin => pass[s].token.left + pass[s].held > refreshMargin
  BY DEF IInv, HeldInv
<1> QED
  BY <1>1, <1>2, <1>3, <1>4, ReconcileMoves DEF RemoteTarget, Leaving, Tenant

LEMMA OpAcceptedInv == ASSUME IInv, NEW s \in StageSets, OpAccepted(s) PROVE IInv'
<1> USE AtStageSet, Constants, Bounds
<1>1. life[s] # "gone"
  BY DEF OpAccepted, IInv, PlaceInv, Leaving
<1>2. pass[s].token.granted > refreshMargin => pass[s].token.left + pass[s].held > refreshMargin
  BY DEF IInv, HeldInv
<1>3. CASE s \in setting.remote /\ pass[s].conn = 0
  <2> DEFINE q == [pass[s] EXCEPT !.at = "remote", !.conn = kubeconfig, !.token = NoToken, !.held = 0, !.retried = FALSE]
  <2>1. q \in PassType /\ q.at = "remote" /\ q.token = NoToken /\ q.ops = pass[s].ops
    BY DEF PassType
  <2>2. pass' = [pass EXCEPT ![s] = q]
    BY <1>3 DEF OpAccepted
  <2> HIDE DEF q
  <2>3. pass' \in [StageSets -> PassType] /\ pass'[s] = q /\ \A o \in StageSets \ {s} : pass'[o] = pass[o]
    BY <2>1, <2>2
  <2>4. ~(q.token.granted > refreshMargin)
    BY <2>1 DEF NoToken
  <2>5. pass[s].at = "op" /\ UNCHANGED <<worldVars, cacheVars, life, skipped, events>> /\ q.ops < MaxOps
    BY <2>1 DEF OpAccepted
  <2> QED
    BY <1>1, <2>1, <2>3, <2>4, <2>5, ReconcileMoves DEF cacheVars, Leaving, Tenant
<1>4. CASE ~(s \in setting.remote /\ pass[s].conn = 0)
  <2> DEFINE q == [pass[s] EXCEPT !.ops = @ + 1, !.retried = FALSE,
                                  !.at = IF pass[s].ops + 1 < MaxOps THEN "op" ELSE "done"]
  <2>1. /\ q \in PassType /\ q.at \in {"op", "done"} /\ q.token = pass[s].token /\ q.held = pass[s].held
        /\ q.at # "done" => q.ops < MaxOps
    <3>1. pass[s].ops + 1 \in OpCounts
      BY DEF OpAccepted, OpCounts
    <3> QED
      BY <3>1 DEF PassType
  <2>2. pass' = [pass EXCEPT ![s] = q]
    BY <1>4 DEF OpAccepted
  <2> HIDE DEF q
  <2>3. pass' \in [StageSets -> PassType] /\ pass'[s] = q /\ \A o \in StageSets \ {s} : pass'[o] = pass[o]
    BY <2>1, <2>2
  <2> QED
    BY <1>1, <1>2, <2>1, <2>3, ReconcileMoves DEF OpAccepted, cacheVars, Leaving, Tenant
<1> QED
  BY <1>3, <1>4

LEMMA OpRefusedInv == ASSUME IInv, NEW s \in StageSets, OpRefused(s) PROVE IInv'
<1> USE AtStageSet, Constants, Bounds
<1>1. life[s] # "gone"
  BY DEF OpRefused, IInv, PlaceInv, Leaving
<1>2. pass[s].token.granted > refreshMargin => pass[s].token.left + pass[s].held > refreshMargin
  BY DEF IInv, HeldInv
<1>3. /\ pass' \in [StageSets -> PassType]
      /\ pass'[s].ops = pass[s].ops /\ pass'[s].at \in {"forget", "failed"} /\ pass'[s].token = pass[s].token /\ pass'[s].held = pass[s].held
      /\ pass'[s].at = "forget" => account(s) \in Accounts
      /\ \A o \in StageSets \ {s} : pass'[o] = pass[o]
  BY DEF OpRefused, PassType
<1> QED
  BY <1>1, <1>2, <1>3, ReconcileMoves DEF OpRefused, cacheVars, Leaving, Tenant

LEMMA EndPassInv == ASSUME IInv, NEW s \in StageSets, EndPass(s) PROVE IInv'
<1> USE AtStageSet, Constants, Bounds
<1>1. life[s] # "gone"
  BY DEF EndPass, IInv, PlaceInv, Leaving
<1>2. /\ pass' \in [StageSets -> PassType]
      /\ pass'[s].ops = 0 /\ pass'[s].at = "idle" /\ pass'[s].token = NoToken
      /\ \A o \in StageSets \ {s} : pass'[o] = pass[o]
  BY DEF EndPass, PassType, Idle
<1>3. events' \in 0 .. MaxEvents
  BY DEF EndPass, Event, IInv, TypeOK
<1> QED
  BY <1>1, <1>2, <1>3, ReconcileMoves DEF EndPass, cacheVars, Leaving, Tenant, NoToken

\* A StageSet that does not evict is not the last user, or has no account, or
\* the list failed.
LEMMA ForgetDeletedInv == ASSUME IInv, NEW s \in StageSets, forgetDeletedTenants(s) PROVE IInv'
<1> USE AtStageSet, Constants, Bounds
<1>1. life[s] = "gone"
  BY DEF forgetDeletedTenants, IInv, PlaceInv, Leaving
<1>2. /\ pass' \in [StageSets -> PassType]
      /\ \A o \in StageSets \ {s} : pass'[o] = pass[o]
  <2>1. Idle \in PassType /\ [pass[s] EXCEPT !.at = "evict"] \in PassType
    BY DEF PassType, Idle
  <2> QED
    BY <2>1 DEF forgetDeletedTenants
<1>3. pass[s].token.granted > refreshMargin => pass[s].token.left + pass[s].held > refreshMargin
  BY DEF IInv, HeldInv
<1>4. CASE LastUser(s) /\ UNCHANGED <<events, skipped>> /\ pass' = [pass EXCEPT ![s].at = "evict"]
  <2>1. pass'[s].ops = pass[s].ops /\ pass'[s].at = "evict" /\ pass'[s].token = pass[s].token /\ pass'[s].held = pass[s].held
    BY <1>4
  <2>2. account(s) \in Accounts
    BY <1>4 DEF LastUser
  <2> QED
    BY <1>1, <1>2, <1>3, <1>4, <2>1, <2>2, ReconcileMoves DEF forgetDeletedTenants, cacheVars, Leaving, Tenant
<1>5. CASE ~LastUser(s) /\ UNCHANGED <<events, skipped>> /\ pass' = [pass EXCEPT ![s] = Idle]
  <2>1. pass'[s].ops = 0 /\ pass'[s].at = "idle" /\ pass'[s].token = NoToken
    BY <1>5 DEF Idle
  <2>2. account(s) \notin Accounts \/ \E o \in StageSets \ {s} : account(o) = account(s) /\ life[o] # "gone"
    BY <1>5 DEF LastUser
  <2> QED
    BY <1>1, <1>2, <1>5, <2>1, <2>2, ReconcileMoves DEF forgetDeletedTenants, cacheVars, Leaving, Tenant, NoToken
<1>6. CASE mintsTokenFor(s) /\ Event /\ skipped' = TRUE /\ pass' = [pass EXCEPT ![s] = Idle]
  <2>1. pass'[s].ops = 0 /\ pass'[s].at = "idle" /\ pass'[s].token = NoToken
    BY <1>6 DEF Idle
  <2>2. events' \in 0 .. MaxEvents
    BY <1>6 DEF Event
  <2> QED
    BY <1>1, <1>2, <1>6, <2>1, <2>2, ReconcileMoves DEF forgetDeletedTenants, cacheVars, Leaving, Tenant, NoToken
<1> QED
  BY <1>4, <1>5, <1>6 DEF forgetDeletedTenants

\* The place of one reconcile that leaves its StageSet behind.
LEMMA DropFinalizerInv == ASSUME IInv, NEW s \in StageSets, DropFinalizer(s) PROVE IInv'
<1> USE AtStageSet, Constants, Bounds
<1> DEFINE q == [Idle EXCEPT !.at = "leaving"]
<1>1. q \in PassType /\ q.at = "leaving" /\ q.token = NoToken /\ q.ops = 0
  BY DEF PassType, Idle
<1>2. pass' = [pass EXCEPT ![s] = q]
  BY DEF DropFinalizer
<1> HIDE DEF q
<1>3. pass' \in [StageSets -> PassType] /\ pass'[s] = q /\ \A o \in StageSets \ {s} : pass'[o] = pass[o]
  BY <1>1, <1>2
<1>4. /\ life' \in [StageSets -> {"live", "deleting", "gone"}] /\ life'[s] = "gone"
      /\ \A o \in StageSets \ {s} : life'[o] = life[o]
      /\ pass[s].at \in {"done", "failed"} /\ UNCHANGED <<worldVars, cacheVars, skipped, events>>
  BY DEF DropFinalizer, IInv, TypeOK
<1> USE DEF worldVars, cacheVars, account
<1>5. TypeOK'
  BY <1>3, <1>4 DEF IInv, TypeOK
<1>6. PlaceInv'
  BY <1>1, <1>3, <1>4 DEF IInv, PlaceInv, Leaving, Tenant
<1>7. FlightInv'
  BY <1>3, <1>4 DEF IInv, FlightInv
<1>8. EvictedStaysOut'
  BY <1>4 DEF IInv, EvictedStaysOut
<1>9. HeldInv'
  <2>1. ~(q.token.granted > refreshMargin)
    BY <1>1 DEF NoToken
  <2> QED
    BY <2>1, <1>3 DEF IInv, HeldInv
<1>10. KeptInv'
  BY <1>1, <1>3, <1>4 DEF IInv, KeptInv, Responsible, Leaving
<1> QED
  BY <1>5, <1>6, <1>7, <1>8, <1>9, <1>10 DEF IInv

-----------------------------------------------------------------------------
(* Flights. *)

LEMMA TokenMissingInv == ASSUME IInv, NEW s \in StageSets, TokenMissing(s) PROVE IInv'
<1> USE AtStageSet, Constants, Bounds
<1> DEFINE a == account(s)
<1>1. a \in Accounts /\ life[s] # "gone" /\ pass[s].at = "lookup"
  BY DEF TokenMissing, IInv, PlaceInv, Tenant, Leaving
<1>2. /\ pass' \in [StageSets -> PassType]
      /\ pass'[s].at = "wait" /\ pass'[s].token = pass[s].token /\ pass'[s].held = pass[s].held
      /\ pass'[s].ops = pass[s].ops
      /\ \A o \in StageSets \ {s} : pass'[o] = pass[o]
  BY DEF TokenMissing, PassType
<1>3. /\ UNCHANGED <<worldVars, tokens, epochMoved, targets, remotes, life, skipped, events>>
      /\ flight' = IF flight[a].at = "none" THEN [flight EXCEPT ![a].at = "check"] ELSE flight
  BY DEF TokenMissing
<1>4. /\ flight' \in [Accounts -> [at : {"none", "check", "minting", "minted"}, token : Tokens \cup {NoToken}]]
      /\ flight'[a].at = (IF flight[a].at = "none" THEN "check" ELSE flight[a].at) /\ flight'[a].token = flight[a].token
      /\ \A b \in Accounts \ {a} : flight'[b] = flight[b]
  BY <1>1, <1>3 DEF IInv, TypeOK
<1> HIDE DEF a
<1> USE DEF worldVars, account
<1>5. TypeOK'
  BY <1>2, <1>3, <1>4 DEF IInv, TypeOK
<1>6. PlaceInv'
  BY <1>1, <1>2, <1>3 DEF IInv, PlaceInv, Leaving, Tenant, a
<1>7. FlightInv'
  <2> SUFFICES ASSUME NEW b \in Accounts
               PROVE  /\ flight'[b].at = "minted" <=> flight'[b].token # NoToken
                      /\ flight'[b].token.left <= flight'[b].token.granted
                      /\ flight'[b].token.old => epochMoved'[b]
                      /\ flight'[b].at # "none" => \E o \in StageSets : account(o)' = b /\ pass'[o].at = "wait"
    BY DEF FlightInv
  <2>1. CASE b = a
    BY <2>1, <1>1, <1>2, <1>3, <1>4 DEF IInv, FlightInv, a
  <2>2. CASE b # a
    BY <2>2, <1>1, <1>2, <1>3, <1>4 DEF IInv, FlightInv
  <2> QED
    BY <2>1, <2>2
<1>8. EvictedStaysOut'
  BY <1>3 DEF IInv, EvictedStaysOut
<1>9. HeldInv'
  BY <1>2 DEF IInv, HeldInv
<1>10. KeptInv'
  BY <1>1, <1>2, <1>3 DEF IInv, KeptInv, Responsible, Leaving
<1> QED
  BY <1>5, <1>6, <1>7, <1>8, <1>9, <1>10 DEF IInv

\* A flight lands with token t, which is not an old one if it is cached; what
\* it means for the time the waiting reconciles have held theirs.
LEMMA LandInv ==
    ASSUME IInv, NEW a \in Accounts, NEW t \in Tokens \cup {NoToken}, NEW age \in Nat,
           Land(a, t, age), flight[a].at # "none",
           UNCHANGED <<worldVars, targets, remotes, life, skipped>>, events' \in 0 .. MaxEvents,
           tokens' = tokens \/ (tokens' = [tokens EXCEPT ![a] = t] /\ ~t.old),
           t.left > refreshMargin \/ t.granted <= t.left + age
    PROVE  IInv'
<1> USE Constants, Bounds, TokenFields
<1> DEFINE h == Min({age, refreshMargin + 1})
<1>1. h \in HeldTimes /\ h \in Nat /\ (h = age \/ h > refreshMargin)
  BY MinOfTwo DEF HeldTimes
<1>2. PICK w \in StageSets : account(w) = a /\ pass[w].at = "wait"
  BY DEF IInv, FlightInv
<1>3. life[w] # "gone"
  BY <1>2 DEF IInv, PlaceInv, Leaving
<1>4. ASSUME NEW s \in StageSets
      PROVE  /\ pass'[s] \in PassType
             /\ pass'[s].ops = pass[s].ops
             /\ \/ pass'[s] = pass[s] /\ (account(s) = a => pass[s].at # "wait")
                \/ /\ account(s) = a /\ pass[s].at = "wait" /\ pass'[s].at = "failed"
                   /\ pass'[s].token = pass[s].token /\ pass'[s].held = pass[s].held
                \/ /\ account(s) = a /\ pass[s].at = "wait" /\ pass'[s].at = "target"
                   /\ pass'[s].token = t /\ pass'[s].held = h
  <2>1. pass[s] \in PassType
    BY <1>4, AtStageSet
  <2>2. CASE account(s) # a \/ pass[s].at # "wait"
    BY <1>4, <2>1, <2>2 DEF Land
  <2>3. CASE account(s) = a /\ pass[s].at = "wait" /\ t = NoToken
    BY <1>4, <2>1, <2>3 DEF Land, PassType
  <2>4. CASE account(s) = a /\ pass[s].at = "wait" /\ t # NoToken
    <3>1. pass'[s] = [pass[s] EXCEPT !.at = "target", !.token = t, !.held = h]
      BY <1>4, <2>4 DEF Land
    <3> HIDE DEF h
    <3> QED
      BY <1>1, <2>1, <2>4, <3>1 DEF PassType
  <2> QED
    BY <2>2, <2>3, <2>4
<1>5. pass' \in [StageSets -> PassType]
  BY <1>4 DEF Land
<1>6. /\ flight' = [flight EXCEPT ![a] = NoFlight] /\ epochMoved' = [epochMoved EXCEPT ![a] = FALSE]
      /\ flight \in [Accounts -> [at : {"none", "check", "minting", "minted"}, token : Tokens \cup {NoToken}]]
      /\ epochMoved \in [Accounts -> BOOLEAN] /\ tokens \in [Accounts -> Tokens \cup {NoToken}]
  BY DEF Land, IInv, TypeOK
<1> HIDE DEF h
<1> USE DEF worldVars, account
<1>7. TypeOK'
  <2>1. flight' \in [Accounts -> [at : {"none", "check", "minting", "minted"}, token : Tokens \cup {NoToken}]]
    BY <1>6 DEF NoFlight
  <2>2. tokens' \in [Accounts -> Tokens \cup {NoToken}]
    BY <1>6
  <2>3. epochMoved' \in [Accounts -> BOOLEAN]
    BY <1>6
  <2> QED
    BY <2>1, <2>2, <2>3, <1>5 DEF IInv, TypeOK
<1>8. PlaceInv'
  BY <1>4, <1>2 DEF IInv, PlaceInv, Leaving, Tenant
<1>9. FlightInv'
  <2> SUFFICES ASSUME NEW b \in Accounts
               PROVE  /\ flight'[b].at = "minted" <=> flight'[b].token # NoToken
                      /\ flight'[b].token.left <= flight'[b].token.granted
                      /\ flight'[b].token.old => epochMoved'[b]
                      /\ flight'[b].at # "none" => \E o \in StageSets : account(o)' = b /\ pass'[o].at = "wait"
    BY DEF FlightInv
  <2>1. CASE b = a
    BY <2>1, <1>6 DEF NoFlight, NoToken
  <2>2. CASE b # a
    BY <2>2, <1>4, <1>6 DEF IInv, FlightInv
  <2> QED
    BY <2>1, <2>2
<1>10. EvictedStaysOut'
  BY <1>6 DEF IInv, EvictedStaysOut
<1>11. HeldInv'
  BY <1>1, <1>4 DEF IInv, HeldInv
<1>12. KeptInv'
  BY <1>2, <1>3, <1>4, <1>6 DEF IInv, KeptInv, Responsible, Leaving
<1> QED
  BY <1>7, <1>8, <1>9, <1>10, <1>11, <1>12 DEF IInv

LEMMA FlightFields == ASSUME IInv, NEW a \in Accounts
    PROVE  /\ flight \in [Accounts -> [at : {"none", "check", "minting", "minted"}, token : Tokens \cup {NoToken}]]
           /\ epochMoved \in [Accounts -> BOOLEAN] /\ tokens \in [Accounts -> Tokens \cup {NoToken}]
           /\ flight[a].token \in Tokens \cup {NoToken} /\ tokens[a] \in Tokens \cup {NoToken}
           /\ uid[a] \in Nat /\ events \in 0 .. MaxEvents
           /\ flight[a].at = "minted" <=> flight[a].token # NoToken
           /\ flight[a].token.left <= flight[a].token.granted
           /\ flight[a].token.old => epochMoved[a]
BY DEF IInv, TypeOK, FlightInv

\* A flight moves on, with a token or without one.
LEMMA FlightMoves ==
    ASSUME IInv, NEW a \in Accounts, NEW f \in [at : {"check", "minting", "minted"}, token : Tokens \cup {NoToken}],
           flight' = [flight EXCEPT ![a] = f], flight[a].at # "none",
           epochMoved' = epochMoved \/ (epochMoved' = [epochMoved EXCEPT ![a] = FALSE]),
           f.at = "minted" <=> f.token # NoToken, f.token.left <= f.token.granted, ~f.token.old,
           UNCHANGED <<worldVars, tokens, targets, remotes, pass, life, skipped, events>>
    PROVE  IInv'
<1> USE DEF worldVars, account
<1> USE FlightFields
<1>1. TypeOK'
  BY DEF IInv, TypeOK
<1>2. PlaceInv'
  BY DEF IInv, PlaceInv
<1>3. FlightInv'
  <2> SUFFICES ASSUME NEW b \in Accounts
               PROVE  /\ flight'[b].at = "minted" <=> flight'[b].token # NoToken
                      /\ flight'[b].token.left <= flight'[b].token.granted
                      /\ flight'[b].token.old => epochMoved'[b]
                      /\ flight'[b].at # "none" => \E o \in StageSets : account(o)' = b /\ pass'[o].at = "wait"
    BY DEF FlightInv
  <2>1. CASE b = a
    BY <2>1 DEF IInv, FlightInv
  <2>2. CASE b # a
    BY <2>2 DEF IInv, FlightInv
  <2> QED
    BY <2>1, <2>2
<1>4. EvictedStaysOut' /\ HeldInv'
  BY DEF IInv, EvictedStaysOut, HeldInv
<1>5. KeptInv'
  BY DEF IInv, KeptInv, Responsible
<1> QED
  BY <1>1, <1>2, <1>3, <1>4, <1>5 DEF IInv

LEMMA RecheckInv == ASSUME IInv, NEW a \in Accounts, Recheck(a) PROVE IInv'
<1> USE FlightFields, TokenFields
<1>1. CASE lookup(a)
  BY <1>1, LandInv DEF Recheck, lookup
<1>2. CASE ~lookup(a)
  <2> DEFINE f == [flight[a] EXCEPT !.at = "minting"]
  <2>1. f.at = "minting" /\ f.token = NoToken /\ f \in [at : {"check", "minting", "minted"}, token : Tokens \cup {NoToken}]
    BY DEF Recheck
  <2>2. /\ flight' = [flight EXCEPT ![a] = f] /\ epochMoved' = [epochMoved EXCEPT ![a] = FALSE] /\ flight[a].at # "none"
        /\ UNCHANGED <<worldVars, tokens, targets, remotes, pass, life, skipped, events>>
    BY <1>2 DEF Recheck
  <2> HIDE DEF f
  <2>3. NoToken.left <= NoToken.granted /\ ~NoToken.old
    BY DEF NoToken
  <2> QED
    BY <2>1, <2>2, <2>3, FlightMoves
<1> QED
  BY <1>1, <1>2

LEMMA MintInv == ASSUME IInv, NEW a \in Accounts, Mint(a) PROVE IInv'
<1>1. PICK ttl \in TTLs : flight' = [flight EXCEPT ![a] =
          [at |-> "minted", token |-> [uid |-> uid[a], left |-> ttl, granted |-> ttl, old |-> FALSE]]]
  BY DEF Mint
<1> DEFINE t == [uid |-> uid[a], left |-> ttl, granted |-> ttl, old |-> FALSE]
           f == [at |-> "minted", token |-> t]
<1>2. t \in Tokens /\ t # NoToken /\ t.left <= t.granted /\ ~t.old
  BY Constants, FlightFields DEF Tokens, NoToken, Mint
<1>3. flight' = [flight EXCEPT ![a] = f]
  BY <1>1
<1> HIDE DEF t
<1>4. f \in [at : {"check", "minting", "minted"}, token : Tokens \cup {NoToken}] /\ f.at = "minted" /\ f.token = t
  BY <1>2
<1> HIDE DEF f
<1> QED
  BY <1>2, <1>3, <1>4, FlightMoves DEF Mint

LEMMA MintFailsInv == ASSUME IInv, NEW a \in Accounts, MintFails(a) PROVE IInv'
<1>1. events' \in 0 .. MaxEvents
  BY FlightFields, Constants DEF MintFails, Event
<1>2. NoToken.granted <= NoToken.left + 0
  BY DEF NoToken
<1> QED
  BY <1>1, <1>2, LandInv DEF MintFails

LEMMA MintReturnsInv == ASSUME IInv, NEW a \in Accounts, MintReturns(a) PROVE IInv'
<1> DEFINE t == flight[a].token
           age == t.granted - t.left
<1>1. t \in Tokens \cup {NoToken} /\ age \in Nat /\ t.granted <= t.left + age
  BY FlightFields, TokenFields
<1>2. tokens' = tokens \/ (tokens' = [tokens EXCEPT ![a] = t] /\ ~t.old)
  BY FlightFields DEF MintReturns
<1>3. /\ Land(a, t, age) /\ flight[a].at # "none" /\ events' \in 0 .. MaxEvents
      /\ UNCHANGED <<worldVars, targets, remotes, life, skipped>>
  BY FlightFields DEF MintReturns
<1> HIDE DEF t, age
<1> QED
  BY <1>1, <1>2, <1>3, LandInv

-----------------------------------------------------------------------------
(* Evictions. *)

LEMMA ForgetTokenInv == ASSUME IInv, NEW s \in StageSets, ForgetToken(s) PROVE IInv'
<1> USE Constants, Bounds, OutdatedToken, TokenFields
<1> DEFINE a == account(s)
<1>1. /\ a \in Accounts /\ pass[s].at \in {"forget", "evict"}
      /\ pass[s].at = "evict" => life[s] = "gone"
      /\ pass[s].at = "forget" => life[s] # "gone"
  BY DEF ForgetToken, IInv, PlaceInv, Tenant, Leaving
<1>2. /\ tokens' = [tokens EXCEPT ![a] = NoToken]
      /\ epochMoved' = [epochMoved EXCEPT ![a] = flight[a].at # "none"]
      /\ flight' = [flight EXCEPT ![a].token = Outdated(@)]
      /\ UNCHANGED <<worldVars, targets, remotes, life, skipped, events>>
  BY DEF ForgetToken, Forget
<1>3. ASSUME NEW o \in StageSets
      PROVE  /\ pass'[o] \in PassType /\ pass'[o].ops = pass[o].ops
             /\ o # s => pass'[o].at = pass[o].at
             /\ \/ pass'[o].token = NoToken
                \/ pass'[o].held = pass[o].held /\ pass'[o].token \in {pass[o].token, Outdated(pass[o].token)}
  <2>1. pass[o] \in PassType /\ pass[o].token \in Tokens \cup {NoToken}
    BY <1>3, AtStageSet
  <2>2. CASE o = s
    <3>1. pass'[o] = [pass[o] EXCEPT !.at = IF @ = "forget" THEN "forgetTarget" ELSE "evictTarget", !.token = NoToken, !.held = 0]
      BY <2>2 DEF ForgetToken
    <3> QED
      BY <2>1, <2>2, <3>1 DEF PassType
  <2>3. CASE o # s /\ account(o) = a
    <3>1. pass'[o] = [pass[o] EXCEPT !.token = Outdated(@)]
      BY <1>3, <2>3 DEF ForgetToken
    <3>2. Outdated(pass[o].token) \in Tokens \cup {NoToken}
      BY <2>1
    <3> QED
      BY <2>1, <2>3, <3>1, <3>2 DEF PassType
  <2>4. CASE o # s /\ account(o) # a
    BY <1>3, <2>1, <2>4 DEF ForgetToken
  <2> QED
    BY <2>2, <2>3, <2>4
<1>4. pass' \in [StageSets -> PassType]
  BY <1>3 DEF ForgetToken
<1>5. pass'[s].at = IF pass[s].at = "forget" THEN "forgetTarget" ELSE "evictTarget"
  BY AtStageSet DEF ForgetToken, PassType
<1>6. /\ flight' \in [Accounts -> [at : {"none", "check", "minting", "minted"}, token : Tokens \cup {NoToken}]]
      /\ flight'[a].at = flight[a].at /\ flight'[a].token = Outdated(flight[a].token)
      /\ \A b \in Accounts \ {a} : flight'[b] = flight[b]
  BY <1>1, <1>2, FlightFields
<1>7. epochMoved' \in [Accounts -> BOOLEAN]
  BY <1>1, <1>2, FlightFields
<1> HIDE DEF a
<1> USE DEF worldVars
<1>8. TypeOK'
  <2>1. tokens' \in [Accounts -> Tokens \cup {NoToken}]
    BY <1>2 DEF IInv, TypeOK
  <2> QED
    BY <1>2, <1>4, <1>6, <1>7, <2>1 DEF IInv, TypeOK
<1>9. PlaceInv'
  BY <1>1, <1>2, <1>3, <1>5 DEF IInv, PlaceInv, Leaving, Tenant, a, account
<1>10. FlightInv'
  <2> SUFFICES ASSUME NEW b \in Accounts
               PROVE  /\ flight'[b].at = "minted" <=> flight'[b].token # NoToken
                      /\ flight'[b].token.left <= flight'[b].token.granted
                      /\ flight'[b].token.old => epochMoved'[b]
                      /\ flight'[b].at # "none" => \E o \in StageSets : account(o)' = b /\ pass'[o].at = "wait"
    BY DEF FlightInv
  <2>1. flight'[b].at # "none" => \E o \in StageSets : account(o)' = b /\ pass'[o].at = "wait"
    BY <1>1, <1>2, <1>3, <1>6 DEF IInv, FlightInv, account
  <2>2. CASE b = a
    <3>1. flight[a].token = NoToken => ~Outdated(flight[a].token).old
      BY <1>1, FlightFields
    <3>2. flight[a].token # NoToken => flight[a].at = "minted"
      BY <1>1, FlightFields
    <3>3. epochMoved'[a] = (flight[a].at # "none")
      BY <1>1, <1>2, FlightFields
    <3> QED
      BY <2>1, <2>2, <1>1, <1>6, <3>1, <3>2, <3>3, FlightFields
  <2>3. CASE b # a
    BY <2>1, <2>3, <1>2, <1>6, FlightFields
  <2> QED
    BY <2>2, <2>3
<1>11. EvictedStaysOut'
  BY <1>1, <1>2, FlightFields DEF IInv, EvictedStaysOut, NoToken
<1>12. HeldInv'
  <2> SUFFICES ASSUME NEW o \in StageSets
               PROVE  pass'[o].token.granted > refreshMargin => pass'[o].token.left + pass'[o].held > refreshMargin
    BY DEF HeldInv
  <2>1. CASE pass'[o].token = NoToken
    BY <2>1 DEF NoToken
  <2>2. CASE pass'[o].held = pass[o].held /\ pass'[o].token \in {pass[o].token, Outdated(pass[o].token)}
    BY <2>2, AtStageSet DEF IInv, HeldInv
  <2> QED
    BY <1>3, <2>1, <2>2
<1>13. KeptInv'
  <2> SUFFICES ASSUME ~skipped, NEW b \in Accounts
               PROVE  /\ tokens'[b] # NoToken => Responsible(b, {"leaving", "evict"})'
                      /\ targets'[b] => Responsible(b, Leaving)'
    BY <1>2 DEF KeptInv
  <2>1. ASSUME tokens'[b] # NoToken PROVE Responsible(b, {"leaving", "evict"})'
    <3>1. b # a /\ tokens[b] # NoToken
      BY <2>1, <1>1, <1>2, FlightFields
    <3>2. PICK o \in StageSets : account(o) = b /\ (life[o] # "gone" \/ pass[o].at \in {"leaving", "evict"})
      BY <3>1 DEF IInv, KeptInv, Responsible
    <3> QED
      BY <3>1, <3>2, <1>2, <1>3 DEF Responsible, a, account
  <2>2. ASSUME targets'[b] PROVE Responsible(b, Leaving)'
    <3>1. targets[b]
      BY <2>2, <1>2
    <3>2. PICK o \in StageSets : account(o) = b /\ (life[o] # "gone" \/ pass[o].at \in Leaving)
      BY <3>1 DEF IInv, KeptInv, Responsible
    <3> QED
      BY <3>2, <1>1, <1>2, <1>3, <1>5 DEF Responsible, Leaving, account
  <2> QED
    BY <2>1, <2>2
<1> QED
  BY <1>8, <1>9, <1>10, <1>11, <1>12, <1>13 DEF IInv

LEMMA ForgetTargetInv == ASSUME IInv, NEW s \in StageSets, ForgetTarget(s) PROVE IInv'
<1> USE AtStageSet, Constants, Bounds
<1> DEFINE a == account(s)
<1>1. /\ a \in Accounts /\ pass[s].at \in {"forgetTarget", "evictTarget"}
      /\ pass[s].at = "evictTarget" => life[s] = "gone"
      /\ pass[s].at = "forgetTarget" => life[s] # "gone"
  BY DEF ForgetTarget, IInv, PlaceInv, Tenant, Leaving
<1>2. /\ UNCHANGED <<worldVars, tokens, epochMoved, flight, remotes, life, skipped, events>>
      /\ targets' = [targets EXCEPT ![a] = FALSE]
  BY DEF ForgetTarget
<1>3. /\ pass'[s] \in PassType /\ pass'[s].ops < MaxOps
      /\ pass'[s].at = IF pass[s].at = "forgetTarget" THEN "lookup" ELSE "idle"
      /\ pass'[s].token = NoToken \/ (pass'[s].token = pass[s].token /\ pass'[s].held = pass[s].held)
  <2>1. CASE pass[s].at = "forgetTarget"
    <3>1. pass'[s] = [pass[s] EXCEPT !.at = "lookup"]
      BY <2>1 DEF ForgetTarget
    <3> QED
      BY <2>1, <3>1 DEF PassType
  <2>2. CASE pass[s].at = "evictTarget"
    <3>1. pass'[s] = Idle
      BY <2>2 DEF ForgetTarget
    <3>2. Idle \in PassType /\ Idle.ops = 0 /\ Idle.at = "idle" /\ Idle.token = NoToken
      BY DEF PassType, Idle
    <3> QED
      BY <2>2, <3>1, <3>2
  <2> QED
    BY <1>1, <2>1, <2>2
<1>4. pass' \in [StageSets -> PassType] /\ \A o \in StageSets \ {s} : pass'[o] = pass[o]
  BY <1>3 DEF ForgetTarget
<1> HIDE DEF a
<1> USE DEF worldVars
<1>5. TypeOK'
  <2>1. targets' \in [Accounts -> BOOLEAN]
    BY <1>2
  <2> QED
    BY <1>2, <1>4, <2>1 DEF IInv, TypeOK
<1>6. PlaceInv'
  BY <1>1, <1>2, <1>3, <1>4 DEF IInv, PlaceInv, Leaving, Tenant, a, account
<1>7. FlightInv'
  BY <1>1, <1>2, <1>4 DEF IInv, FlightInv, account
<1>8. EvictedStaysOut'
  BY <1>2 DEF IInv, EvictedStaysOut
<1>9. HeldInv'
  <2>1. ~(NoToken.granted > refreshMargin)
    BY DEF NoToken
  <2> QED
    BY <2>1, <1>3, <1>4 DEF IInv, HeldInv
<1>10. KeptInv'
  <2> SUFFICES ASSUME ~skipped, NEW b \in Accounts
               PROVE  /\ tokens'[b] # NoToken => Responsible(b, {"leaving", "evict"})'
                      /\ targets'[b] => Responsible(b, Leaving)'
    BY <1>2 DEF KeptInv
  <2>1. ASSUME tokens'[b] # NoToken PROVE Responsible(b, {"leaving", "evict"})'
    <3>1. PICK o \in StageSets : account(o) = b /\ (life[o] # "gone" \/ pass[o].at \in {"leaving", "evict"})
      BY <2>1, <1>2 DEF IInv, KeptInv, Responsible
    <3> QED
      BY <3>1, <1>1, <1>2, <1>4 DEF Responsible, account
  <2>2. ASSUME targets'[b] PROVE Responsible(b, Leaving)'
    <3>1. b # a /\ targets[b]
      BY <2>2, <1>1, <1>2
    <3>2. PICK o \in StageSets : account(o) = b /\ (life[o] # "gone" \/ pass[o].at \in Leaving)
      BY <3>1 DEF IInv, KeptInv, Responsible
    <3> QED
      BY <3>1, <3>2, <1>2, <1>4 DEF Responsible, a, account
  <2> QED
    BY <2>1, <2>2
<1> QED
  BY <1>5, <1>6, <1>7, <1>8, <1>9, <1>10 DEF IInv

-----------------------------------------------------------------------------
(* The surroundings. *)

\* A deletion, a change of a ServiceAccount and a rotation touch no cache.
LEMMA OutsideInv ==
    ASSUME IInv, UNCHANGED <<setting, cacheVars, pass, skipped>>,
           uid' \in [Accounts -> Nat], kubeconfig' \in Nat, events' \in 0 .. MaxEvents,
           life' \in [StageSets -> {"live", "deleting", "gone"}],
           \A s \in StageSets : life'[s] = "gone" <=> life[s] = "gone"
    PROVE  IInv'
<1> USE DEF cacheVars, account
<1>1. TypeOK'
  BY DEF IInv, TypeOK
<1>2. PlaceInv' /\ FlightInv'
  BY DEF IInv, PlaceInv, FlightInv
<1>3. EvictedStaysOut' /\ HeldInv'
  BY DEF IInv, EvictedStaysOut, HeldInv
<1>4. KeptInv'
  BY DEF IInv, KeptInv, Responsible
<1> QED
  BY <1>1, <1>2, <1>3, <1>4 DEF IInv

LEMMA DeleteInv == ASSUME IInv, NEW s \in StageSets, Delete(s) PROVE IInv'
BY OutsideInv DEF Delete, IInv, TypeOK, worldVars

LEMMA AccountChangesInv == ASSUME IInv, NEW a \in Accounts, AccountChanges(a) PROVE IInv'
<1>1. events \in 0 .. MaxEvents /\ uid \in [Accounts -> Nat]
  BY DEF IInv, TypeOK
<1>2. events' \in 0 .. MaxEvents /\ events + 2 \in Nat
  BY <1>1, Constants DEF AccountChanges, Event
<1>3. uid' \in [Accounts -> Nat]
  BY <1>1, <1>2 DEF AccountChanges
<1> QED
  BY <1>2, <1>3, OutsideInv DEF AccountChanges, IInv, TypeOK

LEMMA KubeconfigRotatesInv == ASSUME IInv, KubeconfigRotates PROVE IInv'
<1>1. events \in 0 .. MaxEvents /\ kubeconfig \in Nat
  BY DEF IInv, TypeOK
<1>2. events' \in 0 .. MaxEvents /\ kubeconfig' \in Nat
  BY <1>1, Constants DEF KubeconfigRotates, Event
<1> QED
  BY <1>2, OutsideInv DEF KubeconfigRotates, IInv, TypeOK

LEMMA TickInv == ASSUME IInv, Tick PROVE IInv'
<1> USE Constants, Bounds, AgedToken, TokenFields
<1>1. ASSUME NEW s \in StageSets
      PROVE  /\ pass'[s] \in PassType /\ pass'[s].at = pass[s].at /\ pass'[s].ops = pass[s].ops
             /\ \/ pass[s].token = NoToken /\ pass'[s] = pass[s]
                \/ /\ pass'[s].token = Aged(pass[s].token)
                   /\ pass'[s].held = pass[s].held + 1 \/ pass'[s].held > refreshMargin
  <2>1. pass[s] \in PassType /\ pass[s].token \in Tokens \cup {NoToken} /\ pass[s].held \in Nat
    BY <1>1, AtStageSet
  <2>2. CASE pass[s].token = NoToken
    BY <1>1, <2>1, <2>2 DEF Tick
  <2>3. CASE pass[s].token # NoToken
    <3> DEFINE h == Min({pass[s].held + 1, refreshMargin + 1})
    <3>1. h \in HeldTimes /\ (h = pass[s].held + 1 \/ h > refreshMargin)
      BY <2>1, MinOfTwo DEF HeldTimes
    <3>2. pass'[s] = [pass[s] EXCEPT !.token = Aged(@), !.held = h]
      BY <1>1, <2>3 DEF Tick
    <3> HIDE DEF h
    <3>3. Aged(pass[s].token) \in Tokens \cup {NoToken}
      BY <2>1
    <3> QED
      BY <2>1, <2>3, <3>1, <3>2, <3>3 DEF PassType
  <2> QED
    BY <2>2, <2>3
<1>2. pass' \in [StageSets -> PassType]
  BY <1>1 DEF Tick
<1>3. ASSUME NEW a \in Accounts
      PROVE  /\ flight'[a] \in [at : {"none", "check", "minting", "minted"}, token : Tokens \cup {NoToken}]
             /\ flight'[a].at = flight[a].at /\ flight'[a].token = Aged(flight[a].token)
             /\ tokens'[a] = Aged(tokens[a]) /\ tokens'[a] \in Tokens \cup {NoToken}
  <2>1. flight'[a] = [flight[a] EXCEPT !.token = Aged(@)] /\ tokens'[a] = Aged(tokens[a])
    BY <1>3 DEF Tick
  <2>2. /\ flight[a] \in [at : {"none", "check", "minting", "minted"}, token : Tokens \cup {NoToken}]
        /\ flight[a].token \in Tokens \cup {NoToken} /\ tokens[a] \in Tokens \cup {NoToken}
    BY <1>3, FlightFields
  <2>3. Aged(flight[a].token) \in Tokens \cup {NoToken} /\ Aged(tokens[a]) \in Tokens \cup {NoToken}
    BY <2>2
  <2> QED
    BY <2>1, <2>2, <2>3
<1>4. /\ flight' \in [Accounts -> [at : {"none", "check", "minting", "minted"}, token : Tokens \cup {NoToken}]]
      /\ tokens' \in [Accounts -> Tokens \cup {NoToken}]
      /\ UNCHANGED <<worldVars, epochMoved, targets, remotes, life, skipped>>
  BY <1>3 DEF Tick
<1>5. events' \in 0 .. MaxEvents
  <2>1. events \in 0 .. MaxEvents
    BY DEF IInv, TypeOK
  <2>2. events < MaxEvents /\ events' = events + 1
    BY DEF Tick, Event
  <2> QED
    BY <2>1, <2>2
<1> USE DEF worldVars, account
<1>6. TypeOK'
  BY <1>2, <1>4, <1>5 DEF IInv, TypeOK
<1>7. PlaceInv'
  BY <1>1, <1>4 DEF IInv, PlaceInv
<1>8. FlightInv'
  <2> SUFFICES ASSUME NEW b \in Accounts
               PROVE  /\ flight'[b].at = "minted" <=> flight'[b].token # NoToken
                      /\ flight'[b].token.left <= flight'[b].token.granted
                      /\ flight'[b].token.old => epochMoved'[b]
                      /\ flight'[b].at # "none" => \E o \in StageSets : account(o)' = b /\ pass'[o].at = "wait"
    BY DEF FlightInv
  <2>1. flight'[b].at # "none" => \E o \in StageSets : account(o)' = b /\ pass'[o].at = "wait"
    BY <1>1, <1>3, <1>4 DEF IInv, FlightInv
  <2> QED
    BY <2>1, <1>3, <1>4, FlightFields
<1>9. EvictedStaysOut'
  BY <1>3, FlightFields DEF IInv, EvictedStaysOut
<1>10. HeldInv'
  <2> SUFFICES ASSUME NEW s \in StageSets
               PROVE  pass'[s].token.granted > refreshMargin => pass'[s].token.left + pass'[s].held > refreshMargin
    BY DEF HeldInv
  <2>1. pass[s].token.granted > refreshMargin => pass[s].token.left + pass[s].held > refreshMargin
    BY DEF IInv, HeldInv
  <2>2. pass[s].token \in Tokens \cup {NoToken} /\ pass[s].held \in Nat /\ pass'[s].held \in Nat
    BY AtStageSet, <1>1 DEF PassType, HeldTimes
  <2> QED
    BY <2>1, <2>2, <1>1
<1>11. KeptInv'
  <2>1. \A a \in Accounts : tokens'[a] # NoToken => tokens[a] # NoToken
    BY <1>3, FlightFields
  <2>2. \A s \in StageSets : pass'[s].at = pass[s].at
    BY <1>1
  <2> QED
    BY <2>1, <2>2, <1>4 DEF IInv, KeptInv, Responsible
<1> QED
  BY <1>6, <1>7, <1>8, <1>9, <1>10, <1>11 DEF IInv

-----------------------------------------------------------------------------
(* The theorem. *)

LEMMA StepInv == ASSUME IInv, [Next]_vars PROVE IInv'
<1>1. ASSUME NEW s \in StageSets, PassStep(s) PROVE IInv'
  BY <1>1, StartPassInv, TokenCachedInv, TokenMissingInv, BuildTargetInv, OpAcceptedInv, OpRefusedInv,
     ForgetTokenInv, ForgetTargetInv, RemoteTargetInv, EndPassInv, DropFinalizerInv, ForgetDeletedInv DEF PassStep
<1>2. ASSUME NEW s \in StageSets, Delete(s) PROVE IInv'
  BY <1>2, DeleteInv
<1>3. ASSUME NEW a \in Accounts, FlightStep(a) PROVE IInv'
  BY <1>3, RecheckInv, MintInv, MintFailsInv, MintReturnsInv DEF FlightStep
<1>4. ASSUME NEW a \in Accounts, AccountChanges(a) PROVE IInv'
  BY <1>4, AccountChangesInv
<1>5. CASE UNCHANGED vars
  BY <1>5 DEF vars, worldVars, cacheVars, IInv, TypeOK, PlaceInv, FlightInv, EvictedStaysOut, HeldInv, KeptInv,
              Responsible, account
<1> QED
  BY <1>1, <1>2, <1>3, <1>4, <1>5, KubeconfigRotatesInv, TickInv DEF Next

LEMMA InvImplies == IInv => CachesSound
<1> SUFFICES ASSUME IInv PROVE CachesSound
  OBVIOUS
<1>1. ExpiresOnlyInLongPass
  <2> SUFFICES ASSUME NEW s \in StageSets, pass[s].token.left = 0, pass[s].token.granted > refreshMargin
               PROVE  pass[s].held > refreshMargin
    BY DEF ExpiresOnlyInLongPass
  <2> QED
    BY AtStageSet DEF IInv, HeldInv
<1>2. NothingKeptForTheGone
  BY FlightFields DEF NothingKeptForTheGone, IInv, KeptInv, Responsible, Leaving
<1> QED
  BY <1>1, <1>2 DEF IInv, CachesSound

(***************************************************************************)
(* The caches that all reconciles share are sound for any StageSets,       *)
(* accounts, lifetimes and margin: an evicted token never comes back out   *)
(* of a mint in progress (tokenCache.epochs), a token expires in nobody's  *)
(* hands before the margin has gone by (tokenCache.lookup), and the last   *)
(* StageSet of an account takes its credentials along                      *)
(* (forgetDeletedTenants).                                                 *)
(***************************************************************************)
THEOREM CachesAlwaysSound == Spec => []CachesSound
<1>1. Spec => []IInv
  BY InitInv, StepInv, PTL DEF Spec
<1> QED
  BY <1>1, InvImplies, PTL
=============================================================================
