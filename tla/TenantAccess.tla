---------------------------- MODULE TenantAccess ----------------------------
(***************************************************************************)
(* The identities a StageSet acts under: the token cache shared by all     *)
(* concurrent reconciles (internal/controller/token.go), the connections   *)
(* built around the tokens (tenant.go), the client that answers a 401 with *)
(* an eviction and one retry (authretry.go), and the eviction that goes    *)
(* with the last StageSet of a ServiceAccount.  Every StageSet has one     *)
(* reconcile at a time; the reconciles of different StageSets interleave   *)
(* at every lock, at every request and inside a shared mint.               *)
(***************************************************************************)
EXTENDS Naturals, FiniteSets, FiniteSetsExt

CONSTANTS
    StageSets, Accounts,
    Settings,       \* [account, remote]: who acts as whom, and who has a spec.kubeConfig
    NoAccount,      \* spec.serviceAccountName is empty
    TTLs,           \* the lifetimes the apiserver may grant a token, in ticks
    refreshMargin,
    MaxOps,         \* requests of one pass
    MaxEvents       \* ticks, changes of a ServiceAccount or a kubeconfig, failed mints and lists

ASSUME TenantAssumption ==
    /\ IsFiniteSet(StageSets) /\ NoAccount \notin Accounts
    /\ TTLs \subseteq Nat \ {0} /\ TTLs # {} /\ refreshMargin \in Nat
    /\ MaxOps \in Nat \ {0} /\ MaxEvents \in Nat
    /\ Settings \subseteq [account : [StageSets -> Accounts \cup {NoAccount}], remote : SUBSET StageSets]

VARIABLES
    setting,        \* the fixed specs of the StageSets
    uid,            \* uid[a]: which incarnation of the ServiceAccount exists, 0 when none does
    kubeconfig,     \* the version of the Secret spec.kubeConfig names
    tokens,         \* tokenCache.tokens: the cached token of each account, or NoToken
    epochMoved,     \* whether tokenCache.epochs moved since the flight in progress captured it
    flight,         \* singleflight: the mint in progress for each account
    targets,        \* whether a local client of each account is cached
    remotes,        \* the kubeconfig versions there is a cached remote client of
    pass,           \* where the reconcile of each StageSet is
    life,           \* "live", "deleting" or "gone": the StageSet itself
    skipped,        \* whether an eviction was skipped because the list failed
    events

worldVars == <<setting, uid, kubeconfig>>
cacheVars == <<tokens, epochMoved, flight, targets, remotes>>
vars == <<worldVars, cacheVars, pass, life, skipped, events>>

\* A token is bound to one incarnation of its ServiceAccount and lives as long
\* as the apiserver granted; old marks the ones of before the last eviction.
Tokens == [uid : Nat \ {0}, left : Nat, granted : TTLs, old : BOOLEAN]
NoToken == [uid |-> 0, left |-> 0, granted |-> 0, old |-> FALSE]
account(s) == setting.account[s]

\* Only the local path mints; the controller's own client and a kubeconfig do not.
mintsTokenFor(s) == account(s) # NoAccount

Idle == [at |-> "idle", token |-> NoToken, held |-> 0, retried |-> FALSE, conn |-> 0, ops |-> 0, teardown |-> FALSE]
NoFlight == [at |-> "none", token |-> NoToken]

Event == events < MaxEvents /\ events' = events + 1

----------------------------------------------------------------------------
(* The token cache.                                                        *)

lookup(a) == tokens[a].left > refreshMargin

\* A reconcile finds a good token in the cache.
TokenCached(s) ==
    LET a == account(s) IN
    /\ pass[s].at = "lookup" /\ lookup(a)
    /\ pass' = [pass EXCEPT ![s].at = "target", ![s].token = tokens[a], ![s].held = 0]
    /\ UNCHANGED <<worldVars, cacheVars, life, skipped, events>>

\* It does not, and starts a flight for the account or joins the one there is.
TokenMissing(s) ==
    LET a == account(s) IN
    /\ pass[s].at = "lookup" /\ ~lookup(a)
    /\ pass' = [pass EXCEPT ![s].at = "wait"]
    /\ flight' = IF flight[a].at = "none" THEN [flight EXCEPT ![a].at = "check"] ELSE flight
    /\ UNCHANGED <<worldVars, tokens, epochMoved, targets, remotes, life, skipped, events>>

\* Everyone who waits for the flight of account a gets its result, a token
\* that was signed age ticks ago.
Land(a, t, age) ==
    /\ flight' = [flight EXCEPT ![a] = NoFlight] /\ epochMoved' = [epochMoved EXCEPT ![a] = FALSE]
    /\ pass' = [s \in StageSets |->
                    IF account(s) # a \/ pass[s].at # "wait" THEN pass[s]
                    ELSE IF t = NoToken THEN [pass[s] EXCEPT !.at = "failed"]
                    ELSE [pass[s] EXCEPT !.at = "target", !.token = t, !.held = Min({age, refreshMargin + 1})]]

\* The flight looks again; only then it captures the epoch and asks for a token.
Recheck(a) ==
    /\ flight[a].at = "check"
    /\ IF lookup(a)
       THEN Land(a, tokens[a], 0)
       ELSE /\ flight' = [flight EXCEPT ![a].at = "minting"]
            /\ epochMoved' = [epochMoved EXCEPT ![a] = FALSE]
            /\ UNCHANGED pass
    /\ UNCHANGED <<worldVars, tokens, targets, remotes, life, skipped, events>>

\* The apiserver signs a token for the ServiceAccount there is at that moment.
Mint(a) ==
    /\ flight[a].at = "minting" /\ uid[a] # 0
    /\ \E ttl \in TTLs : flight' = [flight EXCEPT ![a] =
                [at |-> "minted", token |-> [uid |-> uid[a], left |-> ttl, granted |-> ttl, old |-> FALSE]]]
    /\ UNCHANGED <<worldVars, tokens, epochMoved, targets, remotes, pass, life, skipped, events>>

\* CreateToken fails, because there is no such ServiceAccount or for a while.
MintFails(a) ==
    /\ flight[a].at = "minting"
    /\ \/ uid[a] = 0 /\ UNCHANGED events
       \/ uid[a] # 0 /\ Event
    /\ Land(a, NoToken, 0)
    /\ UNCHANGED <<worldVars, tokens, targets, remotes, life, skipped>>

\* Mutant: what was minted is cached, whatever happened meanwhile.
MintReturnsAnyway(a) ==
    /\ flight[a].at = "minted"
    /\ tokens' = [tokens EXCEPT ![a] = flight[a].token]
    /\ Land(a, flight[a].token, flight[a].token.granted - flight[a].token.left)
    /\ UNCHANGED <<worldVars, targets, remotes, life, skipped, events>>

\* The answer arrives: it is cached unless the account was evicted meanwhile,
\* and handed to everyone who waits in either case.
MintReturns(a) ==
    /\ flight[a].at = "minted"
    /\ tokens' = IF epochMoved[a] THEN tokens ELSE [tokens EXCEPT ![a] = flight[a].token]
    /\ Land(a, flight[a].token, flight[a].token.granted - flight[a].token.left)
    /\ UNCHANGED <<worldVars, targets, remotes, life, skipped, events>>

Outdated(t) == IF t = NoToken THEN t ELSE [t EXCEPT !.old = TRUE]

\* tokenCache.Forget.
Forget(a) ==
    /\ tokens' = [tokens EXCEPT ![a] = NoToken]
    /\ epochMoved' = [epochMoved EXCEPT ![a] = flight[a].at # "none"]
----------------------------------------------------------------------------
(* Connections, and the retry of what was refused.                         *)

\* resolveTarget, local: the cached client serves if it was built around the
\* token in hand, otherwise one is built and replaces it.
BuildTarget(s) ==
    LET a == account(s) IN
    /\ pass[s].at = "target"
    /\ targets' = [targets EXCEPT ![a] = TRUE]
    /\ pass' = [pass EXCEPT ![s].at = "op"]
    /\ UNCHANGED <<worldVars, tokens, epochMoved, flight, remotes, life, skipped, events>>

\* What the apiserver says to a request of pass s.
Accepted(s) ==
    CASE pass[s].conn # 0 -> pass[s].conn = kubeconfig
      [] pass[s].token # NoToken -> pass[s].token.left > 0 /\ pass[s].token.uid = uid[account(s)]
      [] OTHER -> TRUE

\* A request is accepted: the pass goes on to its next one, or first turns to
\* the remote cluster whose kubeconfig it has just read.
OpAccepted(s) ==
    /\ pass[s].at = "op" /\ Accepted(s)
    /\ pass' = IF s \in setting.remote /\ pass[s].conn = 0
               THEN [pass EXCEPT ![s].at = "remote", ![s].conn = kubeconfig, ![s].token = NoToken, ![s].held = 0,
                                 ![s].retried = FALSE]
               ELSE [pass EXCEPT ![s].ops = @ + 1, ![s].retried = FALSE,
                                 ![s].at = IF pass[s].ops + 1 < MaxOps THEN "op" ELSE "done"]
    /\ UNCHANGED <<worldVars, cacheVars, life, skipped, events>>

\* A 401 of a minted token evicts it and is retried once; any other is final.
OpRefused(s) ==
    /\ pass[s].at = "op" /\ ~Accepted(s)
    /\ pass' = IF mintsTokenFor(s) /\ pass[s].conn = 0 /\ ~pass[s].retried
               THEN [pass EXCEPT ![s].at = "forget", ![s].retried = TRUE]
               ELSE [pass EXCEPT ![s].at = "failed"]
    /\ UNCHANGED <<worldVars, cacheVars, life, skipped, events>>

\* forgetTenant takes the two locks one after the other; with the first one
\* every token of the account that anyone holds becomes an old one.
ForgetToken(s) ==
    LET a == account(s) IN
    /\ pass[s].at \in {"forget", "evict"}
    /\ Forget(a)
    /\ flight' = [flight EXCEPT ![a].token = Outdated(@)]
    /\ pass' = [o \in StageSets |->
                   IF o = s THEN [pass[s] EXCEPT !.at = IF @ = "forget" THEN "forgetTarget" ELSE "evictTarget",
                                                 !.token = NoToken, !.held = 0]
                   ELSE IF account(o) = a THEN [pass[o] EXCEPT !.token = Outdated(@)] ELSE pass[o]]
    /\ UNCHANGED <<worldVars, targets, remotes, life, skipped, events>>

ForgetTarget(s) ==
    /\ pass[s].at \in {"forgetTarget", "evictTarget"}
    /\ targets' = [targets EXCEPT ![account(s)] = FALSE]
    /\ pass' = [pass EXCEPT ![s] = IF @.at = "forgetTarget" THEN [@ EXCEPT !.at = "lookup"] ELSE Idle]
    /\ UNCHANGED <<worldVars, tokens, epochMoved, flight, remotes, life, skipped, events>>

\* Mutant: remote clients are cached by the name of the Secret alone.
RemoteTargetByName(s) ==
    /\ pass[s].at = "remote"
    /\ remotes' = IF remotes = {} THEN {pass[s].conn} ELSE remotes
    /\ pass' = [pass EXCEPT ![s].at = "op", ![s].conn = IF remotes = {} THEN @ ELSE Max(remotes)]
    /\ UNCHANGED <<worldVars, tokens, epochMoved, flight, targets, life, skipped, events>>

\* resolveTarget, remote: a client per version of the kubeconfig.
RemoteTarget(s) ==
    /\ pass[s].at = "remote"
    /\ remotes' = remotes \cup {pass[s].conn}
    /\ pass' = [pass EXCEPT ![s].at = "op"]
    /\ UNCHANGED <<worldVars, tokens, epochMoved, flight, targets, life, skipped, events>>
----------------------------------------------------------------------------
(* The passes, and the end of a StageSet.                                  *)

StartPass(s) ==
    /\ pass[s].at = "idle" /\ life[s] # "gone"
    /\ pass' = [pass EXCEPT ![s] = [Idle EXCEPT !.at = IF mintsTokenFor(s) THEN "lookup" ELSE "op",
                                                !.teardown = life[s] = "deleting"]]
    /\ UNCHANGED <<worldVars, cacheVars, life, skipped, events>>

\* The pass is over; of a teardown that is through only if the finalizer could
\* not be removed.
EndPass(s) ==
    /\ \/ pass[s].at = "failed" /\ UNCHANGED events
       \/ pass[s].at = "done" /\ ~pass[s].teardown /\ UNCHANGED events
       \/ pass[s].at = "done" /\ pass[s].teardown /\ Event
    /\ pass' = [pass EXCEPT ![s] = Idle]
    /\ UNCHANGED <<worldVars, cacheVars, life, skipped>>

\* The finalizer goes: the teardown is through, or it failed in a way no retry
\* can heal, such as a 401 after the retry, or for longer than the maximum wait.
DropFinalizer(s) ==
    /\ pass[s].at \in {"done", "failed"} /\ pass[s].teardown
    /\ life' = [life EXCEPT ![s] = "gone"]
    /\ pass' = [pass EXCEPT ![s] = [Idle EXCEPT !.at = "leaving"]]
    /\ UNCHANGED <<worldVars, cacheVars, skipped, events>>

LastUser(s) == mintsTokenFor(s) /\ \A o \in StageSets \ {s} : account(o) = account(s) => life[o] # "live"

\* forgetDeletedTenants: the last live user of the account takes its
\* credentials along; when the list fails nothing is evicted.
forgetDeletedTenants(s) ==
    /\ pass[s].at = "leaving"
    /\ \/ /\ LastUser(s) /\ UNCHANGED <<events, skipped>>
          /\ pass' = [pass EXCEPT ![s].at = "evict"]
       \/ /\ ~LastUser(s) /\ UNCHANGED <<events, skipped>>
          /\ pass' = [pass EXCEPT ![s] = Idle]
       \/ /\ mintsTokenFor(s) /\ Event /\ skipped' = TRUE
          /\ pass' = [pass EXCEPT ![s] = Idle]
    /\ UNCHANGED <<worldVars, cacheVars, life>>

\* A user deletes a StageSet.
Delete(s) ==
    /\ life[s] = "live"
    /\ life' = [life EXCEPT ![s] = "deleting"]
    /\ UNCHANGED <<worldVars, cacheVars, pass, skipped, events>>

\* A ServiceAccount is deleted, or recreated under the same name.
AccountChanges(a) ==
    /\ Event
    /\ uid' = [uid EXCEPT ![a] = IF @ = 0 THEN events + 2 ELSE 0]
    /\ UNCHANGED <<setting, kubeconfig, cacheVars, pass, life, skipped>>

\* The kubeconfig Secret is rotated and the old credentials stop working.
KubeconfigRotates ==
    /\ setting.remote # {} /\ Event
    /\ kubeconfig' = kubeconfig + 1
    /\ UNCHANGED <<setting, uid, cacheVars, pass, life, skipped>>

Aged(t) == IF t.left > 0 THEN [t EXCEPT !.left = @ - 1] ELSE t

\* Time passes for the tokens and for the passes that hold one.
Tick ==
    /\ Event
    /\ tokens' = [a \in Accounts |-> Aged(tokens[a])]
    /\ flight' = [a \in Accounts |-> [flight[a] EXCEPT !.token = Aged(@)]]
    /\ pass' = [s \in StageSets |-> IF pass[s].token = NoToken THEN pass[s]
                    ELSE [pass[s] EXCEPT !.token = Aged(@), !.held = Min({@ + 1, refreshMargin + 1})]]
    /\ UNCHANGED <<worldVars, epochMoved, targets, remotes, life, skipped>>
----------------------------------------------------------------------------
Init ==
    /\ setting \in Settings
    /\ uid = [a \in Accounts |-> 1] /\ kubeconfig = 1
    /\ tokens = [a \in Accounts |-> NoToken] /\ epochMoved = [a \in Accounts |-> FALSE]
    /\ flight = [a \in Accounts |-> NoFlight]
    /\ targets = [a \in Accounts |-> FALSE] /\ remotes = {}
    /\ pass = [s \in StageSets |-> Idle] /\ life = [s \in StageSets |-> "live"]
    /\ skipped = FALSE /\ events = 0

PassStep(s) == \/ StartPass(s) \/ TokenCached(s) \/ TokenMissing(s) \/ BuildTarget(s) \/ OpAccepted(s) \/ OpRefused(s)
               \/ ForgetToken(s) \/ ForgetTarget(s) \/ RemoteTarget(s) \/ EndPass(s) \/ DropFinalizer(s)
               \/ forgetDeletedTenants(s)
FlightStep(a) == Recheck(a) \/ Mint(a) \/ MintFails(a) \/ MintReturns(a)

Next == \/ \E s \in StageSets : PassStep(s) \/ Delete(s)
        \/ \E a \in Accounts : FlightStep(a) \/ AccountChanges(a)
        \/ KubeconfigRotates \/ Tick
Spec == Init /\ [][Next]_vars

\* The workers run and the apiserver answers; nothing is assumed of the clock,
\* so that nobody is saved by an expiring token.
Fairness == /\ \A s \in StageSets : WF_vars(PassStep(s))
            /\ \A a \in Accounts : WF_vars(Recheck(a) \/ Mint(a) \/ MintReturns(a))
                                   /\ WF_vars(uid[a] = 0 /\ MintFails(a))
FairSpec == Spec /\ Fairness
----------------------------------------------------------------------------
HeldTimes == 0 .. refreshMargin + 1
OpCounts == 0 .. MaxOps
PassType == [at : {"idle", "lookup", "wait", "target", "op", "remote", "forget", "forgetTarget", "failed", "done",
                   "leaving", "evict", "evictTarget"},
             token : Tokens \cup {NoToken}, held : HeldTimes, retried : BOOLEAN, conn : Nat,
             ops : OpCounts, teardown : BOOLEAN]

\* The caches, the flights and the passes keep their types: a lifetime never
\* runs below zero.
TypeOK ==
    /\ setting \in Settings /\ uid \in [Accounts -> Nat] /\ kubeconfig \in Nat
    /\ tokens \in [Accounts -> Tokens \cup {NoToken}] /\ epochMoved \in [Accounts -> BOOLEAN]
    /\ flight \in [Accounts -> [at : {"none", "check", "minting", "minted"}, token : Tokens \cup {NoToken}]]
    /\ targets \in [Accounts -> BOOLEAN] /\ remotes \subseteq Nat
    /\ pass \in [StageSets -> PassType] /\ life \in [StageSets -> {"live", "deleting", "gone"}]
    /\ skipped \in BOOLEAN /\ events \in 0 .. MaxEvents

\* A token that was minted before its account was evicted never comes back
\* into the cache, however the eviction falls into a mint in progress
\* (tokenCache.epochs).
EvictedStaysOut == \A a \in Accounts : ~tokens[a].old

\* A token expires in the hands of a pass only if more than the refresh margin
\* went by since it was found in the cache or since it was signed, or the
\* apiserver granted no more than that (tokenCache.lookup).
ExpiresOnlyInLongPass ==
    \A s \in StageSets :
        pass[s].at = "op" /\ pass[s].token.left = 0 /\ pass[s].token.granted > refreshMargin
            => pass[s].held > refreshMargin

\* Once the last StageSet of an account is gone and no reconcile is running,
\* neither its token nor a connection built around one is kept
\* (forgetDeletedTenants; a list that failed is the documented exception).
NothingKeptForTheGone ==
    ~skipped /\ (\A s \in StageSets : pass[s].at = "idle")
        => \A a \in Accounts : (\A s \in StageSets : account(s) = a => life[s] = "gone")
                                    => tokens[a] = NoToken /\ ~targets[a]

\* The caches that all reconciles share hold nothing dead: no evicted token, none
\* about to expire, and nothing of an account that nobody uses.
CachesSound == TypeOK /\ EvictedStaysOut /\ ExpiresOnlyInLongPass /\ NothingKeptForTheGone

\* When ServiceAccounts and kubeconfigs stop changing, every StageSet that
\* stays gets its requests through again and again, without waiting for a
\* dead token to expire (retryUnauthorizedClient).
Settled == \A a \in Accounts : uid[a] # 0
Recovers ==
    \A s \in StageSets : (<>[](Settled /\ life[s] = "live")) => []<>(pass[s].at = "done")
=============================================================================
