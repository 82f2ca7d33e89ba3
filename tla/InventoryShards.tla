-------------------------- MODULE InventoryShards --------------------------
(***************************************************************************)
(* The record of what one stage applied, spread over StageInventory        *)
(* objects (internal/stageinv, internal/inventory/shard.go).  A write goes *)
(* shard by shard and then deletes what it superseded.  It reads through   *)
(* the informer cache, which lags behind, and writes past it; it may fail, *)
(* or the process may die, at every request.  The labels, the position and *)
(* the owner of a stage's shards are fixed, its entries are what differs.  *)
(***************************************************************************)
EXTENDS Naturals, FiniteSets

CONSTANTS
    Refs,           \* the objects a stage may render
    ID,             \* ID[e]: where e stands in the order of the IDs
    capacity        \* --inventory-shard-cap

ASSUME ShardAssumption ==
    /\ IsFiniteSet(Refs)
    /\ ID \in [Refs -> Nat] /\ \A e, f \in Refs : ID[e] = ID[f] => e = f
    /\ capacity \in Nat \ {0}

\* Where e stands among the entries, sorted by ID.
Position(entries, e) == Cardinality({f \in entries : ID[f] < ID[e]})

ShardCount(entries) == IF entries = {} THEN 1 ELSE (Cardinality(entries) + capacity - 1) \div capacity

\* PlanShards: shard i of the sorted entries.
PlanShards(entries, i) == {e \in entries : Position(entries, e) \div capacity = i}

\* A shard is named after its number; canonical tells the current scheme of
\* ShardName from the older one.
Names == [index : 0 .. ShardCount(Refs) - 1, canonical : BOOLEAN]

VARIABLES
    existing,       \* the StageInventory objects there are
    shards,         \* shards[n]: the entries of n, none while it does not exist
    known,          \* the ones the informer cache has
    cached,         \* cached[n]: the entries of its copy, none while it has none
    stale,          \* the ones whose last change the cache has not seen
    write           \* the Write or DeleteStageShards under way

cacheVars == <<known, cached, stale>>
shardVars == <<existing, shards, cacheVars, write>>

Stored == UNION {shards[n] : n \in Names}

\* fresh: the cache had seen everything when the write began; unchecked: the
\* shards it left alone because of a copy that was out of date.
NoWrite == [at |-> "idle", goal |-> {}, next |-> 0, obsolete |-> {}, fresh |-> FALSE, unchecked |-> {}]
----------------------------------------------------------------------------
ShardName(i) == [index |-> i, canonical |-> TRUE]

\* Write has its refs.
BeginWrite(refs) ==
    /\ write.at \notin {"write", "cleanup"}
    /\ write' = [NoWrite EXCEPT !.at = "write", !.goal = refs, !.fresh = (stale = {})]
    /\ UNCHANGED <<existing, shards, cacheVars>>

(* CreateOrUpdate of shard n, which is to hold entries.  The cached copy     *)
(* decides what is sent: nothing when it equals the goal already, an update  *)
(* that the API server takes from an up-to-date copy only, or a create.      *)
Unchanged(n, entries) == n \in known /\ cached[n] = entries
Sent(n, entries) == \/ n \in known \ stale /\ cached[n] # entries
                    \/ n \notin known /\ n \notin existing

Writing == write.at = "write" /\ write.next < ShardCount(write.goal)

WriteShard ==
    LET n == ShardName(write.next)
        entries == PlanShards(write.goal, write.next) IN
    /\ Writing
    /\ \/ /\ Unchanged(n, entries)
          /\ write' = [write EXCEPT !.next = @ + 1, !.unchecked = @ \cup ({n} \cap stale)]
          /\ UNCHANGED <<existing, shards, stale>>
       \/ /\ Sent(n, entries)
          /\ shards' = [shards EXCEPT ![n] = entries]
          /\ existing' = existing \cup {n}
          /\ stale' = stale \cup {n}
          /\ write' = [write EXCEPT !.next = @ + 1]
    /\ UNCHANGED <<known, cached>>

\* The next shard's cached copy is out of date in a way that the API server
\* refuses: a conflict, an object that exists already or no longer.
Refused ==
    LET n == ShardName(write.next)
        entries == PlanShards(write.goal, write.next) IN
    Writing /\ ~Unchanged(n, entries) /\ ~Sent(n, entries)

Obsolete(keep) == {n \in known : ~(n.canonical /\ n.index < keep)}

\* deleteObsoleteShards lists the stage's shards.
BeginCleanup ==
    /\ write.at = "write" /\ write.next = ShardCount(write.goal)
    /\ write' = [write EXCEPT !.at = "cleanup", !.obsolete = Obsolete(write.next)]
    /\ UNCHANGED <<existing, shards, cacheVars>>

\* DeleteStageShards lists the shards of a stage that is no longer there.
BeginDelete ==
    /\ write.at \notin {"write", "cleanup"}
    /\ write' = [NoWrite EXCEPT !.at = "cleanup", !.obsolete = known, !.fresh = (stale = {})]
    /\ UNCHANGED <<existing, shards, cacheVars>>

\* Delete of one of them; it may be gone already.
DeleteShard ==
    /\ write.at = "cleanup"
    /\ \E n \in write.obsolete :
        /\ shards' = [shards EXCEPT ![n] = {}]
        /\ existing' = existing \ {n}
        /\ stale' = stale \cup ({n} \cap existing)
        /\ write' = [write EXCEPT !.obsolete = @ \ {n}]
    /\ UNCHANGED <<known, cached>>

\* Mutant: success is reported with deletions outstanding.
FinishWriteEarly ==
    /\ write.at = "cleanup"
    /\ write' = [write EXCEPT !.at = "ok"]
    /\ UNCHANGED <<existing, shards, cacheVars>>

FinishWrite ==
    /\ write.at = "cleanup" /\ write.obsolete = {}
    /\ write' = [write EXCEPT !.at = "ok"]
    /\ UNCHANGED <<existing, shards, cacheVars>>

\* A request fails: the write ends where it is.
WriteFails ==
    /\ write.at \in {"write", "cleanup"}
    /\ write' = [write EXCEPT !.at = "failed"]
    /\ UNCHANGED <<existing, shards, cacheVars>>

\* The informer catches up with one shard.
CacheSyncs ==
    /\ \E n \in stale :
        /\ known' = IF n \in existing THEN known \cup {n} ELSE known \ {n}
        /\ cached' = [cached EXCEPT ![n] = shards[n]]
        /\ stale' = stale \ {n}
    /\ UNCHANGED <<existing, shards, write>>
----------------------------------------------------------------------------
ShardInit ==
    /\ existing \in SUBSET Names
    /\ shards \in [Names -> SUBSET Refs] /\ \A n \in Names \ existing : shards[n] = {}
    /\ known = existing /\ cached = shards /\ stale = {}
    /\ write = NoWrite

ShardNext ==
    \/ \E refs \in SUBSET Refs : BeginWrite(refs)
    \/ WriteShard \/ BeginCleanup \/ BeginDelete \/ DeleteShard \/ FinishWrite \/ WriteFails \/ CacheSyncs

ShardSpec == ShardInit /\ [][ShardNext]_shardVars
----------------------------------------------------------------------------
\* What the cache has of a shard is what there is, unless it is stale.
ShardTypeOK ==
    /\ existing \in SUBSET Names /\ known \in SUBSET Names /\ stale \in SUBSET Names
    /\ shards \in [Names -> SUBSET Refs] /\ \A n \in Names \ existing : shards[n] = {}
    /\ cached \in [Names -> SUBSET Refs]
    /\ \A n \in Names \ stale : (n \in known <=> n \in existing) /\ cached[n] = shards[n]
    /\ write \in [at : {"idle", "write", "cleanup", "ok", "failed"}, goal : SUBSET Refs, next : Nat,
                  obsolete : SUBSET Names, fresh : BOOLEAN, unchecked : SUBSET Names]

\* A shard that the write keeps, whatever the list says.
Kept(n) == n.canonical /\ n.index < write.next

\* Shard i holds its part of the goal, or was left alone unchecked.
Placed(i) == shards[ShardName(i)] = PlanShards(write.goal, i) \/ ShardName(i) \in write.unchecked

\* The write got this far: the shards before next are placed, the cleanup
\* touches none of them, and nothing escapes a write that began with a fresh
\* cache, however far the cache has fallen behind since.
WriteProgress ==
    /\ write.fresh => write.unchecked = {}
    /\ write.at = "write" => /\ write.next <= ShardCount(write.goal)
                             /\ \A i \in 0 .. write.next - 1 : Placed(i)
                             /\ write.fresh => \A n \in stale : Kept(n)
    /\ write.at = "cleanup" =>
        /\ \/ write.next = ShardCount(write.goal) /\ \A i \in 0 .. write.next - 1 : Placed(i)
           \/ write.goal = {} /\ write.next = 0
        /\ \A n \in write.obsolete : ~Kept(n)
        /\ write.fresh => \A n \in existing : n \in write.obsolete \/ Kept(n)

\* What the shards, and the write under way, mean as one record.
Record == INSTANCE StageRecord WITH record <- Stored, goal <- write.goal,
                                    fresh <- write.fresh, current <- write.unchecked = {},
                                    state <- IF write.at \in {"write", "cleanup"} THEN "writing" ELSE write.at

\* The shards of stageinv.Write and DeleteStageShards implement the record the
\* reconciler counts on: no entry nobody asked for, nothing left out by a write
\* that succeeded without trusting an outdated copy, and exactly what was asked
\* for when the cache was up to date as the write began.
RecordSpec == Record!Spec
=============================================================================
