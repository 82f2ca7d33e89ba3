------------------------- MODULE StageDeliveryProofs -------------------------
(***************************************************************************)
(* The way of one stage's objects from their source to the cluster and to  *)
(* its record.  First the shards alone: they implement the record the      *)
(* reconciler counts on, for every number of objects, every shard capacity *)
(* and every failure.  Then the delivery they are part of.                 *)
(***************************************************************************)
EXTENDS StageDelivery, FiniteSetTheorems, WellFoundedInduction, TLAPS

\* Integer division, as the planning of shards needs it.
LEMMA DivBounds == ASSUME NEW p \in Nat, NEW c \in Nat \ {0}
    PROVE  p \div c \in Nat /\ c * (p \div c) <= p /\ p < c * (p \div c) + c
BY Z3

LEMMA DivMonotone == ASSUME NEW p \in Nat, NEW q \in Nat, NEW c \in Nat \ {0}, p <= q
    PROVE  p \div c <= q \div c
BY DivBounds, Z3

\* An entry's shard number is below the number of shards that are planned.
LEMMA DivBelow == ASSUME NEW p \in Nat, NEW n \in Nat, NEW c \in Nat \ {0}, p < n
    PROVE  p \div c < (n + c - 1) \div c
<1> DEFINE q == p \div c
           k == (n + c - 1) \div c
<1>1. n + c - 1 \in Nat
  BY Z3
<1>2. q \in Nat /\ c * q <= p
  BY DivBounds
<1>3. k \in Nat /\ n + c - 1 < c * k + c
  BY <1>1, DivBounds
<1> HIDE DEF q, k
<1>4. q < k
  <2>1. SUFFICES ASSUME k <= q PROVE FALSE
    BY <1>2, <1>3, Z3
  <2>2. c * k <= c * q
    BY <2>1, <1>2, <1>3, Z3
  <2>3. c * k \in Nat /\ c * q \in Nat
    BY <1>2, <1>3, Z3
  <2> QED
    BY <2>2, <2>3, <1>2, <1>3, Z3
<1> QED
  BY <1>4 DEF q, k

LEMMA Entries == ASSUME NEW S \in SUBSET Refs
    PROVE  IsFiniteSet(S) /\ Cardinality(S) \in Nat /\ Cardinality(S) <= Cardinality(Refs)
           /\ Cardinality(Refs) \in Nat
BY ShardAssumption, FS_Subset, FS_CardinalityType

LEMMA PositionBound == ASSUME NEW S \in SUBSET Refs, NEW e \in S
    PROVE  Position(S, e) \in Nat /\ Position(S, e) < Cardinality(S)
<1> DEFINE before == {f \in S : ID[f] < ID[e]}
<1>1. IsFiniteSet(S) /\ Cardinality(S) \in Nat
  BY Entries
<1>2. IsFiniteSet(S \ {e}) /\ Cardinality(S \ {e}) = Cardinality(S) - 1
  BY <1>1, FS_RemoveElement
<1>3. before \subseteq S \ {e}
  BY ShardAssumption
<1>4. IsFiniteSet(before) /\ Cardinality(before) <= Cardinality(S \ {e})
  BY <1>2, <1>3, FS_Subset
<1>5. Cardinality(before) \in Nat
  BY <1>4, FS_CardinalityType
<1> QED
  BY <1>1, <1>2, <1>4, <1>5 DEF Position

LEMMA CountType == ASSUME NEW S \in SUBSET Refs
    PROVE  ShardCount(S) \in Nat \ {0}
<1>1. CASE S = {}
  BY <1>1 DEF ShardCount
<1>2. CASE S # {}
  <2>1. PICK e \in S : TRUE
    BY <1>2
  <2>2. 0 < Cardinality(S) /\ Cardinality(S) \in Nat
    BY <2>1, PositionBound, Entries
  <2>3. 0 \div capacity < (Cardinality(S) + capacity - 1) \div capacity
    BY <2>2, DivBelow, ShardAssumption
  <2>4. 0 \div capacity \in Nat /\ (Cardinality(S) + capacity - 1) \div capacity \in Nat
    BY <2>2, DivBounds, ShardAssumption
  <2> QED
    BY <1>2, <2>3, <2>4 DEF ShardCount
<1> QED
  BY <1>1, <1>2

LEMMA CountMonotone == ASSUME NEW S \in SUBSET Refs
    PROVE  ShardCount(S) <= ShardCount(Refs)
<1>1. ShardCount(S) \in Nat \ {0} /\ ShardCount(Refs) \in Nat \ {0}
  BY CountType
<1>2. CASE S = {}
  BY <1>1, <1>2 DEF ShardCount
<1>3. CASE S # {}
  <2>1. Cardinality(S) + capacity - 1 \in Nat /\ Cardinality(Refs) + capacity - 1 \in Nat
        /\ Cardinality(S) + capacity - 1 <= Cardinality(Refs) + capacity - 1
    BY Entries, ShardAssumption
  <2>2. (Cardinality(S) + capacity - 1) \div capacity <= (Cardinality(Refs) + capacity - 1) \div capacity
    BY <2>1, DivMonotone, ShardAssumption
  <2> QED
    BY <1>3, <2>2 DEF ShardCount
<1> QED
  BY <1>2, <1>3

\* PlanShards leaves no entry out: every one is in a shard that is written.
LEMMA PlanCovers == ASSUME NEW S \in SUBSET Refs, NEW e \in S
    PROVE  \E i \in 0 .. ShardCount(S) - 1 : e \in PlanShards(S, i)
<1> DEFINE i == Position(S, e) \div capacity
<1>1. Position(S, e) \in Nat /\ Position(S, e) < Cardinality(S) /\ Cardinality(S) \in Nat
  BY PositionBound, Entries
<1>2. i \in Nat
  BY <1>1, DivBounds, ShardAssumption
<1>3. i < (Cardinality(S) + capacity - 1) \div capacity
  BY <1>1, DivBelow, ShardAssumption
<1>4. ShardCount(S) = (Cardinality(S) + capacity - 1) \div capacity
  BY DEF ShardCount
<1>5. ShardCount(S) \in Nat
  BY CountType
<1>6. e \in PlanShards(S, i)
  BY DEF PlanShards
<1> QED
  BY <1>2, <1>3, <1>4, <1>5, <1>6

LEMMA NameType == ASSUME NEW S \in SUBSET Refs, NEW i \in Nat, i < ShardCount(S)
    PROVE  ShardName(i) \in Names
<1>1. ShardCount(S) \in Nat /\ ShardCount(Refs) \in Nat /\ ShardCount(S) <= ShardCount(Refs)
  BY CountType, CountMonotone
<1>2. i \in 0 .. ShardCount(Refs) - 1
  BY <1>1
<1> QED
  BY <1>2 DEF ShardName, Names
----------------------------------------------------------------------------
Shards == ShardTypeOK /\ WriteProgress

WriteType == [at : {"idle", "write", "cleanup", "ok", "failed"}, goal : SUBSET Refs, next : Nat,
              obsolete : SUBSET Names, fresh : BOOLEAN, unchecked : SUBSET Names]

LEMMA PlanType == ASSUME NEW S \in SUBSET Refs, NEW i
    PROVE  PlanShards(S, i) \in SUBSET S /\ PlanShards(S, i) \in SUBSET Refs
BY DEF PlanShards

LEMMA NoWriteType == NoWrite \in WriteType
BY DEF NoWrite, WriteType

LEMMA InitShards == ShardInit => Shards
BY NoWriteType DEF ShardInit, Shards, ShardTypeOK, WriteProgress, NoWrite, WriteType

\* The shard whose turn it is.
LEMMA NextName == ShardTypeOK /\ Writing => ShardName(write.next) \in Names /\ PlanShards(write.goal, write.next) \in SUBSET Refs
<1> SUFFICES ASSUME ShardTypeOK, Writing
             PROVE  ShardName(write.next) \in Names /\ PlanShards(write.goal, write.next) \in SUBSET Refs
    OBVIOUS
<1>1. write.goal \in SUBSET Refs /\ write.next \in Nat /\ write.next < ShardCount(write.goal)
  BY DEF ShardTypeOK, Writing
<1> QED
  BY <1>1, NameType, PlanType

\* A shard is left alone, and noted if its copy is stale.
LEMMA SkipType == ASSUME ShardTypeOK, NEW n
    PROVE  [write EXCEPT !.next = @ + 1, !.unchecked = @ \cup ({n} \cap stale)] \in WriteType
<1> DEFINE found == write.unchecked \cup ({n} \cap stale)
<1>1. found \in SUBSET Names
  BY DEF ShardTypeOK
<1> HIDE DEF found
<1>2. write \in WriteType /\ write.next + 1 \in Nat
  BY DEF ShardTypeOK, WriteType
<1>3. [write EXCEPT !.next = write.next + 1, !.unchecked = found] \in WriteType
  BY <1>1, <1>2 DEF WriteType
<1> QED
  BY <1>3 DEF found

LEMMA TypeStep == ShardTypeOK /\ WriteProgress /\ [ShardNext]_shardVars => ShardTypeOK'
<1> SUFFICES ASSUME ShardTypeOK, WriteProgress, [ShardNext]_shardVars
             PROVE  ShardTypeOK'
    OBVIOUS
<1> USE NoWriteType DEF ShardTypeOK, WriteType, NoWrite, cacheVars
<1>1. ASSUME NEW refs \in SUBSET Refs, BeginWrite(refs) PROVE ShardTypeOK'
  BY <1>1 DEF BeginWrite
<1>2. CASE WriteShard
  <2> DEFINE n == ShardName(write.next)
             entries == PlanShards(write.goal, write.next)
  <2>1. n \in Names /\ entries \in SUBSET Refs
    BY <1>2, NextName DEF WriteShard
  <2>2. UNCHANGED <<known, cached>>
    BY <1>2 DEF WriteShard
  <2>3. CASE /\ write' = [write EXCEPT !.next = @ + 1, !.unchecked = @ \cup ({n} \cap stale)]
             /\ UNCHANGED <<existing, shards, stale>>
    <3>1. write' \in WriteType
      BY <2>1, <2>3, SkipType DEF n
    <3> QED
      BY <2>2, <2>3, <3>1
  <2>4. CASE /\ shards' = [shards EXCEPT ![n] = entries] /\ existing' = existing \cup {n}
             /\ stale' = stale \cup {n} /\ write' = [write EXCEPT !.next = @ + 1]
    <3>1. shards' \in [Names -> SUBSET Refs] /\ \A m \in Names \ existing' : shards'[m] = {}
      BY <2>1, <2>4
    <3>2. \A m \in Names \ stale' : (m \in known' <=> m \in existing') /\ cached'[m] = shards'[m]
      BY <2>1, <2>2, <2>4
    <3> QED
      BY <2>1, <2>2, <2>4, <3>1, <3>2
  <2> QED
    BY <1>2, <2>3, <2>4 DEF WriteShard
<1>3. CASE BeginCleanup
  BY <1>3 DEF BeginCleanup, Obsolete
<1>4. CASE BeginDelete
  BY <1>4 DEF BeginDelete
<1>5. CASE DeleteShard
  <2>1. PICK n \in write.obsolete : /\ shards' = [shards EXCEPT ![n] = {}]
                                    /\ existing' = existing \ {n}
                                    /\ stale' = stale \cup ({n} \cap existing)
                                    /\ write' = [write EXCEPT !.obsolete = @ \ {n}]
    BY <1>5 DEF DeleteShard
  <2>2. n \in Names /\ UNCHANGED <<known, cached>>
    BY <1>5 DEF DeleteShard
  <2>3. \A m \in Names \ stale' : (m \in known' <=> m \in existing') /\ cached'[m] = shards'[m]
    BY <2>1, <2>2
  <2>4. shards' \in [Names -> SUBSET Refs] /\ \A m \in Names \ existing' : shards'[m] = {}
    BY <2>1, <2>2
  <2>5. write' \in WriteType /\ existing' \in SUBSET Names /\ stale' \in SUBSET Names
    BY <2>1, <2>2
  <2> QED
    BY <2>2, <2>3, <2>4, <2>5
<1>6. CASE FinishWrite
  BY <1>6 DEF FinishWrite
<1>7. CASE WriteFails
  BY <1>7 DEF WriteFails
<1>8. CASE CacheSyncs
  BY <1>8 DEF CacheSyncs
<1>9. CASE UNCHANGED shardVars
  BY <1>9 DEF shardVars
<1> QED
  BY <1>1, <1>2, <1>3, <1>4, <1>5, <1>6, <1>7, <1>8, <1>9 DEF ShardNext

\* How far a write of one shard takes the record of the write.
LEMMA WriteMoves ==
    ASSUME ShardTypeOK, WriteShard
    PROVE  /\ write.at = "write" /\ write'.at = "write" /\ write'.goal = write.goal
           /\ write'.next = write.next + 1 /\ write'.fresh = write.fresh
           /\ write.unchecked \subseteq write'.unchecked
<1> DEFINE left == write.unchecked \cup ({ShardName(write.next)} \cap stale)
<1>1. write \in [at : {"idle", "write", "cleanup", "ok", "failed"}, goal : SUBSET Refs, next : Nat,
                 obsolete : SUBSET Names, fresh : BOOLEAN, unchecked : SUBSET Names]
  BY DEF ShardTypeOK
<1>2. write.at = "write"
  BY DEF WriteShard, Writing
<1>3. \/ write' = [write EXCEPT !.next = @ + 1, !.unchecked = left]
      \/ write' = [write EXCEPT !.next = @ + 1]
  BY DEF WriteShard
<1>4. CASE write' = [write EXCEPT !.next = @ + 1, !.unchecked = left]
  <2> HIDE DEF left
  <2>1. /\ write'.at = write.at /\ write'.goal = write.goal /\ write'.next = write.next + 1
        /\ write'.fresh = write.fresh /\ write'.unchecked = left
    BY <1>1, <1>4
  <2> QED
    BY <1>2, <2>1 DEF left
<1>5. CASE write' = [write EXCEPT !.next = @ + 1]
  BY <1>1, <1>2, <1>5
<1> QED
  BY <1>3, <1>4, <1>5

\* Writing one shard: it is placed afterwards, and so are the ones before.
LEMMA PlaceStep == ShardTypeOK /\ WriteProgress /\ WriteShard => WriteProgress'
<1> SUFFICES ASSUME ShardTypeOK, WriteProgress, WriteShard PROVE WriteProgress'
    OBVIOUS
<1> USE DEF ShardTypeOK, WriteProgress
<1> DEFINE entries == PlanShards(write.goal, write.next)
<1>0. PICK n : n = ShardName(write.next)
  OBVIOUS
<1>1. n \in Names /\ write.at = "write" /\ write.next < ShardCount(write.goal) /\ write.next \in Nat
      /\ ShardCount(write.goal) \in Nat
  BY <1>0, NextName, CountType DEF WriteShard, Writing
<1>2. write'.at = "write" /\ write'.goal = write.goal /\ write'.next = write.next + 1 /\ write'.fresh = write.fresh
      /\ write.unchecked \subseteq write'.unchecked
  BY WriteMoves
<1>3. shards'[n] = entries \/ n \in write'.unchecked
  <2>1. CASE Unchanged(n, entries) /\ n \in stale /\ write' = [write EXCEPT !.next = @ + 1, !.unchecked = @ \cup ({n} \cap stale)]
    BY <1>1, <2>1
  <2>2. CASE Unchanged(n, entries) /\ n \notin stale /\ shards' = shards
    <3>1. cached[n] = entries /\ cached[n] = shards[n]
      BY <1>1, <2>2 DEF Unchanged
    <3> QED
      BY <2>2, <3>1
  <2>3. CASE shards' = [shards EXCEPT ![n] = entries]
    BY <1>1, <2>3
  <2> QED
    BY <1>0, <2>1, <2>2, <2>3 DEF WriteShard
<1>4. ASSUME NEW i \in 0 .. write.next - 1 PROVE shards'[ShardName(i)] = shards[ShardName(i)]
  <2>1. ShardName(i) # n /\ i \in Nat /\ i < ShardCount(write.goal)
    BY <1>0, <1>1 DEF ShardName
  <2>2. ShardName(i) \in Names
    BY <2>1, NameType
  <2> QED
    BY <1>0, <1>1, <2>1, <2>2 DEF WriteShard
<1>5. ASSUME NEW i \in 0 .. write'.next - 1 PROVE Placed(i)'
  <2>1. CASE i = write.next
    BY <1>0, <1>2, <1>3, <2>1 DEF Placed
  <2>2. CASE i # write.next
    <3>1. i \in 0 .. write.next - 1
      BY <1>1, <1>2, <2>2
    <3>2. Placed(i)
      BY <1>1, <3>1
    <3> QED
      BY <1>2, <1>4, <3>1, <3>2 DEF Placed
  <2> QED
    BY <2>1, <2>2
<1>6. write.fresh => ~(n \in stale)
  BY <1>0, <1>1 DEF Kept, ShardName
<1>7. write'.fresh => write'.unchecked = {}
  <2>1. CASE write'.unchecked = write.unchecked
    BY <1>2, <2>1
  <2>2. CASE write'.unchecked = write.unchecked \cup ({n} \cap stale)
    BY <1>2, <1>6, <2>2
  <2> QED
    BY <1>0, <2>1, <2>2 DEF WriteShard
<1>8. stale' \subseteq stale \cup {n}
  BY <1>0 DEF WriteShard
<1>9. Kept(n)' /\ \A m \in Names : Kept(m) => Kept(m)'
  <2>1. n.canonical /\ n.index = write.next
    BY <1>0 DEF ShardName
  <2>2. \A m \in Names : m.index \in Nat
    BY DEF Names
  <2> QED
    BY <1>1, <1>2, <2>1, <2>2 DEF Kept
<1> QED
  BY <1>1, <1>2, <1>5, <1>7, <1>8, <1>9

LEMMA DeleteStep == ShardTypeOK /\ WriteProgress /\ DeleteShard => WriteProgress'
<1> SUFFICES ASSUME ShardTypeOK, WriteProgress, DeleteShard PROVE WriteProgress'
    OBVIOUS
<1> USE DEF ShardTypeOK, WriteProgress
<1>1. PICK n \in write.obsolete : /\ shards' = [shards EXCEPT ![n] = {}]
                                  /\ existing' = existing \ {n}
                                  /\ write' = [write EXCEPT !.obsolete = @ \ {n}]
  BY DEF DeleteShard
<1>2. write.at = "cleanup" /\ write'.at = "cleanup" /\ write'.goal = write.goal /\ write'.next = write.next
      /\ write'.obsolete = write.obsolete \ {n} /\ write'.fresh = write.fresh /\ write'.unchecked = write.unchecked
  BY <1>1 DEF DeleteShard
<1>3. \A m \in Names : Kept(m)' <=> Kept(m)
  BY <1>2 DEF Kept
<1>4. ASSUME write.next = ShardCount(write.goal), NEW i \in 0 .. write.next - 1 PROVE Placed(i)'
  <2>1. ShardCount(write.goal) \in Nat /\ i \in Nat /\ i < ShardCount(write.goal)
    BY <1>4, CountType
  <2>2. ShardName(i) \in Names
    BY <2>1, NameType
  <2>3. ShardName(i) # n
    BY <1>2, <1>4, <2>1 DEF Kept, ShardName
  <2>4. shards'[ShardName(i)] = shards[ShardName(i)]
    BY <1>1, <2>2, <2>3
  <2>5. write.goal # {} \/ write.next # 0
    BY <1>4, <2>1
  <2>6. Placed(i)
    BY <1>2, <1>4, <2>5
  <2> QED
    BY <1>2, <2>4, <2>6 DEF Placed
<1>5. \A m \in write'.obsolete : ~Kept(m)'
  BY <1>2, <1>3
<1>6. write'.fresh => \A m \in existing' : m \in write'.obsolete \/ Kept(m)'
  BY <1>1, <1>2, <1>3
<1>7. \/ write'.next = ShardCount(write'.goal) /\ \A i \in 0 .. write'.next - 1 : Placed(i)'
      \/ write'.goal = {} /\ write'.next = 0
  BY <1>2, <1>4
<1> QED
  BY <1>2, <1>5, <1>6, <1>7

LEMMA ProgressStep == ShardTypeOK /\ WriteProgress /\ [ShardNext]_shardVars => WriteProgress'
<1> SUFFICES ASSUME ShardTypeOK, WriteProgress, [ShardNext]_shardVars
             PROVE  WriteProgress'
    OBVIOUS
<1> USE DEF ShardTypeOK, WriteProgress, cacheVars
<1>1. ASSUME NEW refs \in SUBSET Refs, BeginWrite(refs) PROVE WriteProgress'
  <2>1. write'.at = "write" /\ write'.goal = refs /\ write'.next = 0 /\ write'.unchecked = {}
        /\ write'.fresh = (stale = {}) /\ stale' = stale
    BY <1>1 DEF BeginWrite, NoWrite
  <2>2. ShardCount(refs) \in Nat
    BY CountType
  <2>3. write'.fresh => stale' = {}
    BY <2>1
  <2>4. 0 .. write'.next - 1 = {}
    BY <2>1
  <2> QED
    BY <2>1, <2>2, <2>3, <2>4
<1>2. CASE WriteShard
  BY <1>2, PlaceStep
<1>3. CASE BeginCleanup
  <2>1. write.at = "write" /\ write'.at = "cleanup" /\ write'.goal = write.goal /\ write'.next = write.next
        /\ write'.obsolete = Obsolete(write.next) /\ write'.fresh = write.fresh /\ write'.unchecked = write.unchecked
        /\ shards' = shards /\ existing' = existing
    BY <1>3 DEF BeginCleanup
  <2>2. write.next = ShardCount(write.goal) /\ \A i \in 0 .. write.next - 1 : Placed(i)
    BY <1>3 DEF BeginCleanup
  <2>3. \A i \in 0 .. write.next - 1 : Placed(i)'
    BY <2>1, <2>2 DEF Placed
  <2>4. \A m \in Names : Kept(m)' <=> Kept(m)
    BY <2>1 DEF Kept
  <2>5. write.fresh => \A m \in existing : m \in Obsolete(write.next) \/ Kept(m)
    BY <2>1 DEF Obsolete, Kept
  <2> QED
    BY <2>1, <2>2, <2>3, <2>4, <2>5 DEF Obsolete, Kept
<1>4. CASE BeginDelete
  <2>1. write'.at = "cleanup" /\ write'.goal = {} /\ write'.next = 0 /\ write'.unchecked = {}
        /\ write'.obsolete = known /\ write'.fresh = (stale = {}) /\ existing' = existing
    BY <1>4 DEF BeginDelete, NoWrite
  <2>2. \A n \in known : ~Kept(n)'
    BY <2>1 DEF Names, Kept
  <2>3. write'.fresh => \A n \in existing : n \in known
    BY <2>1
  <2> QED
    BY <2>1, <2>2, <2>3
<1>5. CASE DeleteShard
  BY <1>5, DeleteStep
<1>6. CASE FinishWrite
  BY <1>6 DEF FinishWrite
<1>7. CASE WriteFails
  BY <1>7 DEF WriteFails
<1>8. CASE CacheSyncs
  BY <1>8 DEF CacheSyncs, Placed, Kept
<1>9. CASE UNCHANGED shardVars
  BY <1>9 DEF shardVars, Placed, Kept
<1> QED
  BY <1>1, <1>2, <1>3, <1>4, <1>5, <1>6, <1>7, <1>8, <1>9 DEF ShardNext

\* Throughout a write its finished shards hold their part of the goal, or were
\* left alone because of an outdated copy; the cleanup spares them, and the
\* write misses nothing if the cache was fresh (Recorder.Write, deleteObsoleteShards).
THEOREM ShardsInvariant == ShardSpec => []Shards
<1>1. Shards /\ [ShardNext]_shardVars => Shards'
  BY TypeStep, ProgressStep DEF Shards
<1> QED
  BY InitShards, <1>1, PTL DEF ShardSpec
----------------------------------------------------------------------------
\* A write that may report success has everything it was asked for in place if
\* it checked every shard, and nothing else if the cache was fresh.
LEMMA SuccessExact == ASSUME Shards, write.at = "cleanup", write.obsolete = {}
    PROVE  (write.unchecked = {} => write.goal \subseteq Stored) /\ (write.fresh => Stored = write.goal)
<1> USE DEF Shards, ShardTypeOK, WriteProgress
<1>1. ASSUME write.unchecked = {}, NEW e \in write.goal PROVE e \in Stored
  <2>1. write.next = ShardCount(write.goal) /\ \A i \in 0 .. write.next - 1 : Placed(i)
    BY <1>1
  <2>2. PICK i \in 0 .. ShardCount(write.goal) - 1 : e \in PlanShards(write.goal, i)
    BY <1>1, PlanCovers
  <2>3. ShardCount(write.goal) \in Nat /\ i \in Nat /\ i < ShardCount(write.goal)
    BY CountType, <2>2
  <2>4. ShardName(i) \in Names
    BY <2>3, NameType
  <2>5. e \in shards[ShardName(i)]
    BY <1>1, <2>1, <2>2 DEF Placed
  <2> QED
    BY <2>4, <2>5 DEF Stored
<1>2. ASSUME write.fresh, NEW n \in Names PROVE shards[n] \subseteq write.goal
  <2>1. CASE n \notin existing
    BY <2>1
  <2>2. CASE n \in existing
    <3>1. n.canonical /\ n.index < write.next /\ n.index \in Nat
      BY <1>2, <2>2 DEF Names, Kept
    <3>2. n.canonical = TRUE
      BY <3>1 DEF Names
    <3>3. n = ShardName(n.index)
      BY <3>2 DEF Names, ShardName
    <3>4. n.index \in 0 .. write.next - 1
      BY <3>1
    <3>5. shards[n] = PlanShards(write.goal, n.index)
      BY <1>2, <3>3, <3>4 DEF Placed
    <3> QED
      BY <3>5 DEF PlanShards
  <2> QED
    BY <2>1, <2>2
<1> QED
  BY <1>1, <1>2 DEF Stored

\* Every step of a write is a step of the atomic record, or none.
LEMMA RecordStep == Shards /\ [ShardNext]_shardVars => [Record!Next]_Record!vars
<1> SUFFICES ASSUME Shards, [ShardNext]_shardVars
             PROVE  [Record!Next]_Record!vars
    OBVIOUS
<1> USE DEF Record!vars
<1>1. ASSUME NEW refs \in SUBSET Refs, BeginWrite(refs) PROVE Record!Begin
  <2>1. Stored' = Stored
    BY <1>1 DEF BeginWrite, Stored
  <2>2. write.at \notin {"write", "cleanup"} /\ write'.at = "write" /\ write'.goal = refs
        /\ write'.fresh \in BOOLEAN /\ write'.unchecked = {}
    BY <1>1 DEF BeginWrite, NoWrite
  <2>3. write.at \in {"idle", "ok", "failed"}
    BY <2>2 DEF Shards, ShardTypeOK
  <2> QED
    BY <2>1, <2>2, <2>3 DEF Record!Begin
<1>2. CASE WriteShard
  <2> DEFINE n == ShardName(write.next)
  <2>1. PlanShards(write.goal, write.next) \subseteq write.goal
    BY DEF PlanShards
  <2>2. n \in Names /\ shards \in [Names -> SUBSET Refs]
    BY <1>2, NextName DEF WriteShard, Shards, ShardTypeOK
  <2>3. \A m \in Names : shards'[m] \subseteq shards[m] \cup write.goal
    BY <1>2, <2>1, <2>2 DEF WriteShard
  <2>4. Stored' \subseteq Stored \cup write.goal
    BY <2>3 DEF Stored
  <2>5. write'.at = "write" /\ write.at = "write" /\ write'.goal = write.goal /\ write'.fresh = write.fresh
        /\ write.unchecked \subseteq write'.unchecked
    BY <1>2, WriteMoves DEF Shards
  <2>6. write'.fresh => write'.unchecked = {}
    BY <1>2, PlaceStep DEF Shards, WriteProgress
  <2>7. Record!Progress
    BY <2>4, <2>5, <2>6 DEF Record!Progress
  <2> QED
    BY <2>7 DEF Record!Next
<1>3. CASE BeginCleanup
  <2>1. Stored' = Stored
    BY <1>3 DEF BeginCleanup, Stored
  <2>2. write.at = "write" /\ write'.at = "cleanup" /\ write'.goal = write.goal
        /\ write'.fresh = write.fresh /\ write'.unchecked = write.unchecked
    BY <1>3 DEF BeginCleanup, Shards, ShardTypeOK
  <2> QED
    BY <2>1, <2>2
<1>4. CASE BeginDelete
  <2>1. Stored' = Stored
    BY <1>4 DEF BeginDelete, Stored
  <2>2. write.at \notin {"write", "cleanup"} /\ write'.at = "cleanup" /\ write'.goal = {}
        /\ write'.fresh \in BOOLEAN /\ write'.unchecked = {}
    BY <1>4 DEF BeginDelete, NoWrite
  <2>3. write.at \in {"idle", "ok", "failed"}
    BY <2>2 DEF Shards, ShardTypeOK
  <2>4. Record!Begin
    BY <2>1, <2>2, <2>3 DEF Record!Begin
  <2> QED
    BY <2>4 DEF Record!Next
<1>5. CASE DeleteShard
  <2>1. PICK n \in write.obsolete : /\ shards' = [shards EXCEPT ![n] = {}]
                                    /\ write' = [write EXCEPT !.obsolete = @ \ {n}]
    BY <1>5 DEF DeleteShard
  <2>2. write.at = "cleanup" /\ write'.at = "cleanup" /\ write'.goal = write.goal
        /\ write'.fresh = write.fresh /\ write'.unchecked = write.unchecked
        /\ (write.fresh => write.unchecked = {})
    BY <1>5, <2>1 DEF DeleteShard, Shards, ShardTypeOK, WriteProgress
  <2>3. \A m \in Names : shards'[m] \subseteq shards[m]
    BY <2>1 DEF Shards, ShardTypeOK
  <2>4. Stored' \subseteq Stored \cup write.goal
    BY <2>3 DEF Stored
  <2>5. Record!Progress
    BY <2>2, <2>4 DEF Record!Progress
  <2> QED
    BY <2>5 DEF Record!Next
<1>6. CASE FinishWrite
  <2>1. write.at = "cleanup" /\ write.obsolete = {} /\ write'.at = "ok" /\ write'.goal = write.goal
        /\ write'.fresh = write.fresh /\ write'.unchecked = write.unchecked /\ Stored' = Stored
    BY <1>6 DEF FinishWrite, Shards, ShardTypeOK, Stored
  <2>2. (write.unchecked = {} => write.goal \subseteq Stored) /\ (write.fresh => Stored = write.goal)
    BY <2>1, SuccessExact
  <2>3. Record!Finish
    BY <2>1, <2>2 DEF Record!Finish
  <2> QED
    BY <2>3 DEF Record!Next
<1>7. CASE WriteFails
  <2>1. write.at \in {"write", "cleanup"} /\ write'.at = "failed" /\ write'.goal = write.goal
        /\ write'.fresh = write.fresh /\ write'.unchecked = write.unchecked /\ Stored' = Stored
    BY <1>7 DEF WriteFails, Shards, ShardTypeOK, Stored
  <2>2. Record!Abort
    BY <2>1 DEF Record!Abort
  <2> QED
    BY <2>2 DEF Record!Next
<1>8. CASE CacheSyncs
  BY <1>8 DEF CacheSyncs, Stored
<1>9. CASE UNCHANGED shardVars
  BY <1>9 DEF shardVars, Stored
<1> QED
  BY <1>1, <1>2, <1>3, <1>4, <1>5, <1>6, <1>7, <1>8, <1>9 DEF ShardNext, Record!Next

\* The shards implement the record, however a write is cut short and however
\* far the informer lags (Recorder.Write, deleteObsoleteShards, DeleteStageShards).
THEOREM ShardsImplementRecord == ShardSpec => RecordSpec
<1>1. ShardInit => Record!Init
  BY DEF ShardInit, Record!Init, NoWrite, Stored
<1> QED
  BY <1>1, ShardsInvariant, RecordStep, PTL DEF ShardSpec, RecordSpec, Record!Spec
----------------------------------------------------------------------------
(* Extraction.  The bytes of a prefix are defined by recursion; that the   *)
(* definition has a solution, and what it bounds, is shown by taking the   *)
(* least prefix for which it fails.                                        *)

Below == {ss \in Nat \X Nat : ss[1] < ss[2]}

LEMMA BelowWellFounded == IsWellFoundedOn(Below, Nat)
BY NatLessThanWellFounded DEF OpToRel, Below

LEMMA LeastNatural == ASSUME NEW T, T \subseteq Nat, T # {} PROVE \E x \in T : \A y \in T : x <= y
<1>1. PICK x \in T : \A y \in T : ~ (<<y, x>> \in Below)
  BY WFMin, BelowWellFounded
<1>2. \A y \in T : ~(y < x)
  BY <1>1 DEF Below
<1> QED
  BY <1>2

LEMMA MinIsLeast == ASSUME NEW T, T \subseteq Nat, T # {} PROVE Min(T) \in T /\ \A y \in T : Min(T) <= y
BY LeastNatural DEF Min

\* What entry n adds to a sum, and the sums of a sequence's first k entries.
Weight(entries, counted, n) == IF n \in counted THEN entries[n].size ELSE 0

SumsTo(entries, counted, k, f) ==
    /\ f \in [0 .. k -> Nat]
    /\ \A n \in 0 .. k : f[n] = IF n = 0 THEN 0 ELSE f[n - 1] + Weight(entries, counted, n)

\* A sequence of sized entries.
Sized(entries) == Len(entries) \in Nat /\ DOMAIN entries = 1 .. Len(entries)
                  /\ \A i \in DOMAIN entries : entries[i].size \in Nat

LEMMA WeightType == ASSUME NEW entries, Sized(entries), NEW counted, counted \subseteq DOMAIN entries, NEW n
    PROVE  Weight(entries, counted, n) \in Nat
BY DEF Weight, Sized

LEMMA SumExists == ASSUME NEW entries, Sized(entries), NEW counted, counted \subseteq DOMAIN entries
    PROVE  \A k \in Nat : \E f : SumsTo(entries, counted, k, f)
<1> DEFINE Without == {k \in Nat : ~\E f : SumsTo(entries, counted, k, f)}
<1>1. SUFFICES ASSUME Without # {} PROVE FALSE
  OBVIOUS
<1>2. PICK k \in Without : \A y \in Without : k <= y
  <2>1. Without \subseteq Nat
    OBVIOUS
  <2> HIDE DEF Without
  <2> QED
    BY <1>1, <2>1, LeastNatural
<1>3. k # 0
  <2>1. SumsTo(entries, counted, 0, [n \in 0 .. 0 |-> 0])
    BY DEF SumsTo
  <2> QED
    BY <2>1
<1>4. k - 1 \in Nat /\ k - 1 \notin Without
  BY <1>2, <1>3
<1>5. PICK f : SumsTo(entries, counted, k - 1, f)
  BY <1>4
<1> DEFINE g == [n \in 0 .. k |-> IF n = k THEN f[k - 1] + Weight(entries, counted, k) ELSE f[n]]
<1>6. SumsTo(entries, counted, k, g)
  <2>1. k \in Nat /\ k # 0 /\ f \in [0 .. k - 1 -> Nat] /\ f[k - 1] \in Nat
    BY <1>3, <1>4, <1>5 DEF SumsTo
  <2>2. g \in [0 .. k -> Nat]
    BY <2>1, WeightType
  <2>3. ASSUME NEW n \in 0 .. k PROVE g[n] = IF n = 0 THEN 0 ELSE g[n - 1] + Weight(entries, counted, n)
    <3>1. CASE n = k
      BY <3>1, <2>1
    <3>2. CASE n # k
      <4>1. n \in 0 .. k - 1
        BY <3>2, <2>1
      <4>2. f[n] = IF n = 0 THEN 0 ELSE f[n - 1] + Weight(entries, counted, n)
        BY <4>1, <1>5 DEF SumsTo
      <4> QED
        BY <4>1, <4>2, <2>1
    <3> QED
      BY <3>1, <3>2
  <2> HIDE DEF g
  <2> QED
    BY <2>2, <2>3 DEF SumsTo
<1> QED
  BY <1>2, <1>6

\* The prefix sums of Sizes are what their recursion says.
LEMMA SizesRecursion == ASSUME NEW entries, Sized(entries), NEW counted, counted \subseteq DOMAIN entries
    PROVE  SumsTo(entries, counted, Len(entries), Sizes(entries, counted))
<1> DEFINE Def(f) == [n \in 0 .. Len(entries) |->
                        IF n = 0 THEN 0 ELSE f[n - 1] + (IF n \in counted THEN entries[n].size ELSE 0)]
<1>1. PICK f : SumsTo(entries, counted, Len(entries), f)
  BY SumExists DEF Sized
<1>2. f = Def(f)
  BY <1>1 DEF SumsTo, Weight
<1>3. Sizes(entries, counted) = CHOOSE h : h = Def(h)
  BY DEF Sizes
<1>4. Sizes(entries, counted) = Def(Sizes(entries, counted))
  <2> HIDE DEF Def
  <2> QED
    BY <1>2, <1>3
<1> DEFINE h == Sizes(entries, counted)
<1> HIDE DEF h
<1>5. \A n \in 0 .. Len(entries) : h[n] = IF n = 0 THEN 0 ELSE h[n - 1] + Weight(entries, counted, n)
  BY <1>4 DEF h, Weight
<1>6. DOMAIN h = 0 .. Len(entries) /\ h = [n \in 0 .. Len(entries) |-> h[n]]
  BY <1>4 DEF h
<1>7. \A n \in 0 .. Len(entries) : h[n] \in Nat
  <2> DEFINE Odd == {n \in 0 .. Len(entries) : h[n] \notin Nat}
  <2>1. SUFFICES ASSUME Odd # {} PROVE FALSE
    OBVIOUS
  <2>2. PICK k \in Odd : \A y \in Odd : k <= y
    <3>1. Odd \subseteq Nat
      OBVIOUS
    <3> HIDE DEF Odd
    <3> QED
      BY <2>1, <3>1, LeastNatural
  <2>3. k \in 0 .. Len(entries) /\ Len(entries) \in Nat /\ k # 0
    BY <1>5 DEF Sized
  <2>4. k - 1 \in 0 .. Len(entries) /\ k - 1 \notin Odd
    BY <2>2, <2>3
  <2>5. h[k] = h[k - 1] + Weight(entries, counted, k) /\ h[k - 1] \in Nat
    BY <1>5, <2>3, <2>4
  <2> QED
    BY <2>2, <2>5, WeightType
<1> QED
  BY <1>5, <1>6, <1>7 DEF SumsTo, h

\* Entries none of which is broken fit as a whole.
LEMMA Fits ==
    ASSUME NEW entries, Sized(entries), maxExtracted \in Nat,
           \A i \in DOMAIN entries : Broken(entries, i) = {}
    PROVE  Sizes(entries, Taken(entries))[Len(entries)] <= maxExtracted
<1> DEFINE sum == Sizes(entries, Taken(entries))
           Over == {n \in 0 .. Len(entries) : ~(sum[n] <= maxExtracted)}
<1>1. Taken(entries) \subseteq DOMAIN entries
  BY DEF Taken
<1>2. SumsTo(entries, Taken(entries), Len(entries), sum)
  BY <1>1, SizesRecursion
<1>3. ASSUME NEW i \in Taken(entries) PROVE sum[i] <= maxExtracted
  <2>1. "total" \notin Broken(entries, i)
    BY <1>1
  <2>2. ~(sum[i] > maxExtracted)
    BY <2>1 DEF Broken
  <2>3. sum[i] \in Nat
    BY <1>1, <1>2 DEF SumsTo, Sized
  <2> HIDE DEF sum
  <2> QED
    BY <2>2, <2>3
<1> HIDE DEF sum
<1>4. SUFFICES ASSUME Over # {} PROVE FALSE
  BY DEF Sized, sum
<1>5. PICK k \in Over : \A y \in Over : k <= y
  <2>1. Over \subseteq Nat
    OBVIOUS
  <2> HIDE DEF Over
  <2> QED
    BY <1>4, <2>1, LeastNatural
<1>6. k \in 0 .. Len(entries) /\ k # 0
  BY <1>2 DEF SumsTo, Sized
<1>7. k - 1 \in 0 .. Len(entries) /\ k - 1 \notin Over
  BY <1>5, <1>6 DEF Sized
<1>8. k \notin Taken(entries)
  BY <1>3, <1>5
<1>9. sum[k] = sum[k - 1] + 0
  BY <1>2, <1>6, <1>8 DEF SumsTo, Weight
<1> QED
  BY <1>2, <1>5, <1>7, <1>9 DEF SumsTo

\* A revision that extract accepts is within every limit and has no duplicates.
LEMMA ExtractionBounded ==
    ASSUME NEW r \in Revs, Extraction[r].broken = {}
    PROVE  LET entries == Artifact[r].entries
               files == Extraction[r].files
           IN  /\ Sizes(entries, files)[Len(entries)] <= maxExtracted
               /\ \A i \in files : entries[i].taken /\ entries[i].size <= maxEntry
               /\ \A i, j \in files : entries[i].name = entries[j].name => i = j
<1> DEFINE entries == Artifact[r].entries
           bad == {i \in DOMAIN entries : Broken(entries, i) # {}}
<1>1. Sized(entries) /\ maxExtracted \in Nat
  <2>1. entries \in Seq(ToSet(entries)) /\ maxExtracted \in Nat /\ \A i \in DOMAIN entries : entries[i].size \in Nat
    BY DeliveryAssumption
  <2>2. Len(entries) \in Nat /\ DOMAIN entries = 1 .. Len(entries)
    BY <2>1
  <2> QED
    BY <2>1, <2>2 DEF Sized
<1>2. Extraction[r] = Extract(entries)
  BY DEF Extraction
<1> HIDE DEF entries
<1>3. bad = {}
  <2>1. SUFFICES ASSUME bad # {} PROVE FALSE
    OBVIOUS
  <2>2. bad \subseteq Nat
    BY <1>1 DEF Sized
  <2>3. Min(bad) \in bad
    <3> HIDE DEF bad
    <3> QED
      BY <2>1, <2>2, MinIsLeast
  <2>4. Extract(entries).broken = Broken(entries, Min(bad))
    BY <2>1 DEF Extract
  <2> QED
    BY <2>3, <2>4, <1>2
<1>4. Extraction[r].files = Taken(entries)
  BY <1>2, <1>3 DEF Extract
<1>5. \A i \in DOMAIN entries : Broken(entries, i) = {}
  BY <1>3
<1>6. Sizes(entries, Taken(entries))[Len(entries)] <= maxExtracted
  BY <1>1, <1>5, Fits
<1>7. Taken(entries) \subseteq DOMAIN entries /\ \A i \in Taken(entries) : entries[i].taken
  BY DEF Taken
<1>8. ASSUME NEW i \in Taken(entries) PROVE entries[i].size <= maxEntry
  <2>1. "entry" \notin Broken(entries, i)
    BY <1>5, <1>7
  <2>2. entries[i].size \in Nat /\ maxEntry \in Nat
    BY <1>1, <1>7, DeliveryAssumption DEF Sized
  <2> QED
    BY <2>1, <2>2 DEF Broken
<1>9. ASSUME NEW i \in Taken(entries), NEW j \in Taken(entries), entries[i].name = entries[j].name, i < j PROVE FALSE
  <2>1. "duplicate" \notin Broken(entries, j)
    BY <1>5, <1>7
  <2> QED
    BY <2>1, <1>9 DEF Broken
<1>10. ASSUME NEW i \in Taken(entries), NEW j \in Taken(entries), entries[i].name = entries[j].name PROVE i = j
  <2>1. i \in Nat /\ j \in Nat
    BY <1>1, <1>7 DEF Sized
  <2>2. ~(i < j) /\ ~(j < i)
    BY <1>9, <1>10
  <2> QED
    BY <2>1, <2>2
<1> QED
  BY <1>4, <1>6, <1>7, <1>8, <1>10 DEF entries
----------------------------------------------------------------------------
(* The delivery.  Invariant of a pass: it carries the revision it pinned,  *)
(* what it extracted is an accepted extraction, and the digest it would    *)
(* pin was accepted by every policy it has asked so far, unless the tag    *)
(* moved.                                                                  *)

Steps == {"idle", "unresolved", "configure", "fetch", "decrypt", "build", "images", "verifyImages",
          "record", "recording", "verify"}
PassType == [at : Steps, rev : Revs \cup {None}, key : {"none", "k1", "k2"}, files : SUBSET Nat,
             asked : SUBSET Policies, left : SUBSET Policies, digest : Digests \cup {None},
             moved : BOOLEAN, exempt : BOOLEAN, fired : BOOLEAN, cancelled : BOOLEAN]
LiveType == [rev : Revs \cup {None}, image : Digests \cup {None, Tag}, asked : SUBSET Policies,
             moved : BOOLEAN, exempt : BOOLEAN]
ReasonType == {"none", "ResolveFailed", "StageFailed", "ImageUnverified", "RBACDenied", "Ready", "StageProgressing"}
StatusType == [reason : ReasonType, terminal : BOOLEAN, attempted : Revs \cup {None}]
SourceType == [state : {"missing", "ambiguous", "notReady", "ready"}, rev : Revs]

WorldTyped ==
    /\ kind \in {"direct", "producer"} /\ source \in SourceType
    /\ bytes \in Revs \cup {"down", "forbidden"} /\ secret \in {"none", "k1", "k2"} /\ tag \in Digests
    /\ registry \in BOOLEAN /\ policies \subseteq Policies /\ exempt \in BOOLEAN /\ allowed \in BOOLEAN
    /\ crd \in BOOLEAN /\ life \in {"alive", "removed", "deleting", "gone"}

OwnTyped ==
    /\ watch \in {"none", "missing", "engaged"} /\ trustRoot \in {"unset", "loaded", "failed"}
    /\ queued \in BOOLEAN /\ events \in 0 .. MaxEvents
    /\ pass \in PassType /\ pass.left \subseteq pass.asked
    /\ live \in LiveType /\ status \in StatusType

PinnedInv ==
    pass.at \in {"configure", "fetch", "decrypt", "build", "images", "verifyImages", "record"} =>
        pass.rev \in Revs /\ pass.rev = status.attempted

FilesInv ==
    pass.at \in {"decrypt", "build"} =>
        pass.files = Extraction[pass.rev].files /\ Extraction[pass.rev].broken = {}

ImagesInv ==
    pass.at = "verifyImages" =>
        /\ pass.asked = {} => pass.exempt \/ ~RequireImageVerification
        /\ pass.left # pass.asked => pass.digest \in Digests /\ \E p \in pass.asked : pass.digest \in Accepts[p]
        /\ ~pass.moved => \A p \in pass.asked \ pass.left : pass.digest \in Accepts[p]
        /\ ~pass.moved /\ pass.left \notin {{}, pass.asked} => tag = pass.digest

WaitInv == pass.cancelled => pass.fired

DeliveryInv == WorldTyped /\ OwnTyped /\ PinnedInv /\ FilesInv /\ ImagesInv /\ WaitInv /\ OnlyVerifiedImages

LEMMA IdleType == Idle \in PassType /\ Nothing \in LiveType /\ Idle.at = "idle" /\ Idle.left = {} /\ Idle.asked = {}
                  /\ Idle.cancelled = FALSE /\ Nothing.asked = {}
BY DEF Idle, PassType, Nothing, LiveType, Steps

\* A pass that ends leaves nothing of itself but the reason.
LEMMA Ends ==
    ASSUME DeliveryInv, pass' = Idle, UNCHANGED live, status' \in StatusType, queued' \in BOOLEAN,
           WorldTyped', watch' \in {"none", "missing", "engaged"}, trustRoot' \in {"unset", "loaded", "failed"},
           events' \in 0 .. MaxEvents
    PROVE  DeliveryInv'
BY IdleType DEF DeliveryInv, OwnTyped, PinnedInv, FilesInv, ImagesInv, WaitInv, OnlyVerifiedImages

\* What the two ways to end a pass write.
LEMMA EndTypes ==
    ASSUME DeliveryInv, NEW terminal \in BOOLEAN, NEW r \in ReasonType
    PROVE  /\ FailStage(terminal, r) => pass' = Idle /\ status' \in StatusType /\ queued' \in BOOLEAN
           /\ EndPass(r) => pass' = Idle /\ status' \in StatusType /\ queued' \in BOOLEAN
BY DEF FailStage, EndPass, DeliveryInv, OwnTyped, StatusType

LEMMA WorldStays == WorldTyped /\ UNCHANGED worldVars => WorldTyped'
BY DEF WorldTyped, worldVars

LEMMA EventTypes == ASSUME DeliveryInv
    PROVE  (Fault => events' \in 0 .. MaxEvents) /\ (NoFault => events' \in 0 .. MaxEvents)
BY DeliveryAssumption DEF DeliveryInv, OwnTyped, Fault, NoFault

LEMMA DeliveryInit == Init => DeliveryInv
<1> SUFFICES ASSUME Init PROVE DeliveryInv
  OBVIOUS
<1>1. WorldTyped
  BY DeliveryAssumption DEF Init, WorldTyped, SourceType
<1>2. OwnTyped
  BY IdleType, DeliveryAssumption DEF Init, StaticWatch, OwnTyped, StatusType, ReasonType
<1>3. PinnedInv /\ FilesInv /\ ImagesInv /\ WaitInv /\ OnlyVerifiedImages
  BY IdleType DEF Init, PinnedInv, FilesInv, ImagesInv, WaitInv, OnlyVerifiedImages
<1> QED
  BY <1>1, <1>2, <1>3 DEF DeliveryInv

\* Beginning a pass pins a revision that the source offers.
LEMMA StartStep == DeliveryInv /\ StartPass => DeliveryInv'
<1> SUFFICES ASSUME DeliveryInv, StartPass PROVE DeliveryInv'
  OBVIOUS
<1>1. WorldTyped' /\ watch' \in {"none", "missing", "engaged"} /\ queued' \in BOOLEAN /\ events' \in 0 .. MaxEvents
  BY WorldStays, EventTypes DEF StartPass, EngageWatch, EngageFails, DeliveryInv, OwnTyped, WorldTyped
<1>2. UNCHANGED <<trustRoot, live>>
  BY DEF StartPass
<1>3. CASE Resolvable
  <2>1. pass' = [Idle EXCEPT !.at = "configure", !.rev = source.rev, !.exempt = exempt] /\ status' = [status EXCEPT !.attempted = source.rev]
    BY <1>3 DEF StartPass
  <2>2. source.rev \in Revs /\ exempt \in BOOLEAN
    BY DEF DeliveryInv, WorldTyped, SourceType
  <2>3. pass' \in PassType /\ status' \in StatusType /\ pass'.at = "configure" /\ pass'.rev = status'.attempted
        /\ pass'.left = {} /\ pass'.asked = {} /\ pass'.cancelled = FALSE /\ pass'.rev \in Revs
    <3>1. pass' \in PassType
      BY <2>1, <2>2, IdleType DEF PassType, Steps
    <3>2. status' \in StatusType /\ status'.attempted = source.rev
      BY <2>1, <2>2 DEF StatusType, DeliveryInv, OwnTyped
    <3>3. pass'.at = "configure" /\ pass'.rev = source.rev /\ pass'.left = {} /\ pass'.asked = {} /\ pass'.cancelled = FALSE
      BY <2>1 DEF Idle
    <3> QED
      BY <2>2, <3>1, <3>2, <3>3
  <2>4. OwnTyped'
    BY <1>1, <1>2, <2>3 DEF DeliveryInv, OwnTyped
  <2>5. PinnedInv' /\ WaitInv'
    BY <2>3 DEF PinnedInv, WaitInv
  <2>6. FilesInv' /\ ImagesInv'
    BY <2>3 DEF FilesInv, ImagesInv
  <2>7. OnlyVerifiedImages'
    BY <1>2 DEF DeliveryInv, OnlyVerifiedImages
  <2> QED
    BY <1>1, <2>4, <2>5, <2>6, <2>7 DEF DeliveryInv
<1>4. CASE ~Resolvable
  <2>1. pass' = [Idle EXCEPT !.at = "unresolved"] /\ status' = status
    BY <1>4 DEF StartPass
  <2>2. pass' \in PassType /\ pass'.at = "unresolved" /\ pass'.left = {} /\ pass'.asked = {} /\ pass'.cancelled = FALSE
    BY <2>1, IdleType DEF Idle, PassType, Steps
  <2> QED
    BY <1>1, <1>2, <2>1, <2>2 DEF DeliveryInv, OwnTyped, PinnedInv, FilesInv, ImagesInv, WaitInv, OnlyVerifiedImages
<1> QED
  BY <1>3, <1>4

\* The files of an extraction are numbers of entries.
LEMMA FilesType == ASSUME NEW r \in Revs, Extraction[r].broken = {} PROVE Extraction[r].files \in SUBSET Nat
<1>1. \A i \in Extraction[r].files : i \in DOMAIN Artifact[r].entries
  BY DEF Extraction, Extract, Taken
<1>2. DOMAIN Artifact[r].entries \subseteq Nat
  <2>1. Artifact[r].entries \in Seq(ToSet(Artifact[r].entries))
    BY DeliveryAssumption
  <2> QED
    BY <2>1
<1> QED
  BY <1>1, <1>2

\* A pass that goes on keeps its types, as long as it keeps what it pinned.
LEMMA GoesOn ==
    ASSUME DeliveryInv, UNCHANGED <<live, status, queued, watch>>, WorldTyped', events' \in 0 .. MaxEvents,
           trustRoot' \in {"unset", "loaded", "failed"}, pass' \in PassType, pass'.left \subseteq pass'.asked,
           pass'.rev = pass.rev, WaitInv', FilesInv', ImagesInv', PinnedInv'
    PROVE  DeliveryInv'
BY DEF DeliveryInv, OwnTyped, OnlyVerifiedImages

\* Fetch, decryption and build work on the revision that was pinned.
LEMMA FetchStep == DeliveryInv /\ (ConfigureDecryption \/ Fetch \/ DecryptFiles \/ Build) => DeliveryInv'
<1> SUFFICES ASSUME DeliveryInv, ConfigureDecryption \/ Fetch \/ DecryptFiles \/ Build PROVE DeliveryInv'
  OBVIOUS
<1>1. WorldTyped' /\ watch' \in {"none", "missing", "engaged"} /\ trustRoot' \in {"unset", "loaded", "failed"}
      /\ events' \in 0 .. MaxEvents /\ UNCHANGED <<live, watch, worldVars>>
  BY WorldStays, EventTypes DEF ConfigureDecryption, Fetch, DecryptFiles, Build, DeliveryInv, OwnTyped
<1>2. ASSUME NEW terminal \in BOOLEAN, FailStage(terminal, "StageFailed") PROVE DeliveryInv'
  <2>1. pass' = Idle /\ status' \in StatusType /\ queued' \in BOOLEAN
    BY <1>2, EndTypes DEF ReasonType
  <2> QED
    BY <1>1, <2>1, Ends
<1>3. CASE ConfigureDecryption
  <2>1. CASE secret = "none"
    BY <1>2, <1>3, <2>1 DEF ConfigureDecryption
  <2>2. CASE secret # "none"
    <3>1. pass' = [pass EXCEPT !.at = "fetch", !.key = secret] /\ UNCHANGED <<status, queued>> /\ pass.at = "configure"
      BY <1>3, <2>2 DEF ConfigureDecryption
    <3>2. pass' \in PassType /\ pass'.at = "fetch" /\ pass'.rev = pass.rev /\ pass'.left = pass.left
          /\ pass'.asked = pass.asked /\ pass'.cancelled = pass.cancelled /\ pass'.fired = pass.fired
      BY <3>1 DEF PassType, DeliveryInv, OwnTyped, WorldTyped, Steps
    <3> QED
      BY <1>1, <3>1, <3>2, GoesOn DEF DeliveryInv, OwnTyped, PinnedInv, FilesInv, ImagesInv, WaitInv
  <2> QED
    BY <2>1, <2>2
<1>4. CASE Fetch
  <2> DEFINE got == IF bytes \in Revs THEN Extraction[bytes] ELSE [files |-> {}, broken |-> {}]
  <2>1. CASE Fetched(pass.rev) /\ got.broken = {}
    <3>1. pass' = [pass EXCEPT !.at = "decrypt", !.rev = bytes, !.files = got.files] /\ UNCHANGED <<status, queued>>
          /\ pass.at = "fetch"
      BY <1>4, <2>1 DEF Fetch
    <3>2. bytes = pass.rev /\ pass.rev \in Revs /\ pass.rev = status.attempted
      BY <2>1, <3>1 DEF Fetched, DeliveryInv, PinnedInv
    <3>3. got = Extraction[pass.rev] /\ got.files \in SUBSET Nat
      BY <2>1, <3>2, FilesType
    <3> HIDE DEF got
    <3>4. pass' \in PassType /\ pass'.at = "decrypt" /\ pass'.rev = pass.rev /\ pass'.left = pass.left
          /\ pass'.asked = pass.asked /\ pass'.cancelled = pass.cancelled /\ pass'.fired = pass.fired
          /\ pass'.files = got.files
      BY <3>1, <3>2, <3>3 DEF PassType, DeliveryInv, OwnTyped, Steps
    <3> QED
      BY <1>1, <2>1, <3>1, <3>2, <3>3, <3>4, GoesOn DEF DeliveryInv, OwnTyped, PinnedInv, FilesInv, ImagesInv, WaitInv
  <2>2. CASE ~(Fetched(pass.rev) /\ got.broken = {})
    <3> DEFINE last == AddressRefused \/ (bytes \in Revs /\ (Fetched(pass.rev) => terminalFetchError(got.broken)))
    <3>1. FailStage(last, "StageFailed")
      BY <1>4, <2>2 DEF Fetch
    <3>2. last \in BOOLEAN
      OBVIOUS
    <3> HIDE DEF last
    <3> QED
      BY <1>2, <3>1, <3>2
  <2> QED
    BY <2>1, <2>2
<1>5. CASE DecryptFiles
  <2>1. CASE ~(Artifact[pass.rev].sealed \in {"none", pass.key})
    BY <1>2, <1>5, <2>1 DEF DecryptFiles
  <2>2. CASE Artifact[pass.rev].sealed \in {"none", pass.key}
    <3>1. pass' = [pass EXCEPT !.at = "build"] /\ UNCHANGED <<status, queued>> /\ pass.at = "decrypt"
      BY <1>5, <2>2 DEF DecryptFiles
    <3>2. pass' \in PassType /\ pass'.at = "build" /\ pass'.rev = pass.rev /\ pass'.left = pass.left
          /\ pass'.asked = pass.asked /\ pass'.cancelled = pass.cancelled /\ pass'.fired = pass.fired
          /\ pass'.files = pass.files
      BY <3>1 DEF PassType, DeliveryInv, OwnTyped, Steps
    <3> QED
      BY <1>1, <3>1, <3>2, GoesOn DEF DeliveryInv, OwnTyped, PinnedInv, FilesInv, ImagesInv, WaitInv
  <2> QED
    BY <2>1, <2>2
<1>6. CASE Build
  <2>1. CASE ~hasManifests(pass.rev, pass.files)
    BY <1>2, <1>6, <2>1 DEF Build
  <2>2. CASE hasManifests(pass.rev, pass.files)
    <3>1. pass' = [pass EXCEPT !.at = "images", !.files = {}] /\ UNCHANGED <<status, queued>> /\ pass.at = "build"
      BY <1>6, <2>2 DEF Build
    <3>2. pass' \in PassType /\ pass'.at = "images" /\ pass'.rev = pass.rev /\ pass'.left = pass.left
          /\ pass'.asked = pass.asked /\ pass'.cancelled = pass.cancelled /\ pass'.fired = pass.fired
      BY <3>1 DEF PassType, DeliveryInv, OwnTyped, Steps
    <3> QED
      BY <1>1, <3>1, <3>2, GoesOn DEF DeliveryInv, OwnTyped, PinnedInv, FilesInv, ImagesInv, WaitInv
  <2> QED
    BY <2>1, <2>2
<1> QED
  BY <1>3, <1>4, <1>5, <1>6

\* The gate asks the policies that match, or nobody where that is allowed.
LEMMA GateStep == DeliveryInv /\ BeginImages => DeliveryInv'
<1> SUFFICES ASSUME DeliveryInv, BeginImages PROVE DeliveryInv'
  OBVIOUS
<1>1. WorldTyped' /\ watch' \in {"none", "missing", "engaged"} /\ trustRoot' \in {"unset", "loaded", "failed"}
      /\ events' \in 0 .. MaxEvents /\ UNCHANGED <<live, watch, worldVars>> /\ pass.at = "images"
  BY WorldStays, EventTypes DEF BeginImages, DeliveryInv, OwnTyped
<1>2. CASE policies = {} /\ RequireImageVerification /\ ~pass.exempt
  <2>1. FailStage(TRUE, "ImageUnverified")
    BY <1>2 DEF BeginImages
  <2>2. pass' = Idle /\ status' \in StatusType /\ queued' \in BOOLEAN
    BY <2>1, EndTypes DEF ReasonType
  <2> QED
    BY <1>1, <2>2, Ends
<1>3. CASE ~(policies = {} /\ RequireImageVerification /\ ~pass.exempt)
  <2> DEFINE asked == IF pass.exempt THEN {} ELSE policies
  <2>1. pass' = [pass EXCEPT !.at = "verifyImages", !.asked = asked, !.left = asked]
        /\ UNCHANGED <<status, queued>>
    BY <1>3 DEF BeginImages
  <2>2. asked \in SUBSET Policies /\ pass.exempt \in BOOLEAN /\ (asked = {} => pass.exempt \/ ~RequireImageVerification)
    BY <1>3, DeliveryAssumption DEF DeliveryInv, WorldTyped, OwnTyped, PassType
  <2> HIDE DEF asked
  <2>3. pass' \in PassType /\ pass'.at = "verifyImages" /\ pass'.rev = pass.rev /\ pass'.left = asked
        /\ pass'.asked = asked /\ pass'.exempt = pass.exempt /\ pass'.cancelled = pass.cancelled /\ pass'.fired = pass.fired
    BY <2>1, <2>2 DEF PassType, DeliveryInv, OwnTyped, Steps
  <2>4. ImagesInv'
    BY <2>2, <2>3 DEF ImagesInv
  <2> QED
    BY <1>1, <2>1, <2>3, <2>4, GoesOn DEF DeliveryInv, OwnTyped, PinnedInv, FilesInv, WaitInv
<1> QED
  BY <1>2, <1>3

\* One policy: the digest it accepted is the one the others accepted, unless the tag moved.
LEMMA VerifyStep == ASSUME DeliveryInv, NEW p \in Policies, VerifyImage(p) PROVE DeliveryInv'
<1>1. trustRoot' \in {"unset", "loaded", "failed"} /\ events' \in 0 .. MaxEvents
  BY EventTypes DEF VerifyImage, LoadTrustedRoot, DeliveryInv, OwnTyped
<1>2. WorldTyped' /\ UNCHANGED <<live, watch, worldVars>> /\ pass.at = "verifyImages" /\ p \in pass.left
      /\ watch' \in {"none", "missing", "engaged"}
  BY WorldStays DEF VerifyImage, DeliveryInv, OwnTyped
<1>3. CASE ~(registry /\ Signed(p, tag, trustRoot'))
  <2>1. FailStage(TRUE, "ImageUnverified")
    BY <1>3 DEF VerifyImage
  <2>2. pass' = Idle /\ status' \in StatusType /\ queued' \in BOOLEAN
    BY <2>1, EndTypes DEF ReasonType
  <2> QED
    BY <1>1, <1>2, <2>2, Ends
<1>4. CASE registry /\ Signed(p, tag, trustRoot')
  <2>1. pass' = [pass EXCEPT !.left = @ \ {p}, !.digest = tag] /\ UNCHANGED <<status, queued>>
    BY <1>4 DEF VerifyImage
  <2>2. tag \in Digests /\ tag' = tag /\ tag \in Accepts[p]
    BY <1>2, <1>4 DEF DeliveryInv, WorldTyped, Signed, worldVars
  <2>3. pass' \in PassType /\ pass'.at = "verifyImages" /\ pass'.rev = pass.rev /\ pass'.left = pass.left \ {p}
        /\ pass'.asked = pass.asked /\ pass'.exempt = pass.exempt /\ pass'.moved = pass.moved
        /\ pass'.digest = tag /\ pass'.cancelled = pass.cancelled /\ pass'.fired = pass.fired
    BY <1>2, <2>1, <2>2 DEF PassType, DeliveryInv, OwnTyped, Steps
  <2>4. p \in pass.asked /\ pass.left \subseteq pass.asked
    BY <1>2 DEF DeliveryInv, OwnTyped
  <2>5. ASSUME ~pass.moved, NEW q \in pass.asked \ pass'.left PROVE tag \in Accepts[q]
    <3>1. CASE q = p
      BY <3>1, <2>2
    <3>2. CASE q # p
      <4>1. q \in pass.asked \ pass.left
        BY <2>3, <2>5, <3>2
      <4>2. pass.left \notin {{}, pass.asked}
        BY <1>2, <4>1
      <4>3. tag = pass.digest /\ pass.digest \in Accepts[q]
        BY <1>2, <2>5, <4>1, <4>2 DEF DeliveryInv, ImagesInv
      <4> QED
        BY <4>3
    <3> QED
      BY <3>1, <3>2
  <2>6. ImagesInv'
    <3>1. pass'.asked = {} => pass'.exempt \/ ~RequireImageVerification
      BY <2>3, <2>4
    <3>2. pass'.digest \in Digests /\ \E q \in pass'.asked : pass'.digest \in Accepts[q]
      BY <2>2, <2>3, <2>4
    <3> QED
      BY <2>2, <2>3, <2>5, <3>1, <3>2 DEF ImagesInv
  <2> QED
    BY <1>1, <1>2, <2>1, <2>3, <2>4, <2>6, GoesOn DEF DeliveryInv, OwnTyped, PinnedInv, FilesInv, WaitInv
<1> QED
  BY <1>3, <1>4

\* What is applied is what the pass has collected.
LEMMA ApplyStep == DeliveryInv /\ Apply => DeliveryInv'
<1> SUFFICES ASSUME DeliveryInv, Apply PROVE DeliveryInv'
  OBVIOUS
<1>1. WorldTyped' /\ watch' \in {"none", "missing", "engaged"} /\ trustRoot' \in {"unset", "loaded", "failed"}
      /\ events' \in 0 .. MaxEvents /\ UNCHANGED <<watch, worldVars>> /\ pass.at = "verifyImages" /\ pass.left = {}
  BY WorldStays, EventTypes DEF Apply, DeliveryInv, OwnTyped
<1>2. ASSUME UNCHANGED live, NEW terminal \in BOOLEAN, NEW r \in ReasonType, FailStage(terminal, r) PROVE DeliveryInv'
  <2>1. pass' = Idle /\ status' \in StatusType /\ queued' \in BOOLEAN
    BY <1>2, EndTypes
  <2> QED
    BY <1>1, <1>2, <2>1, Ends
<1>3. CASE UNCHANGED live /\ (FailStage(TRUE, "RBACDenied") \/ FailStage(FALSE, "StageFailed"))
  BY <1>2, <1>3 DEF ReasonType
<1>4. CASE /\ live' = [rev |-> pass.rev, image |-> PinImages(pass.digest), asked |-> pass.asked,
                       moved |-> pass.moved, exempt |-> pass.exempt]
           /\ pass' = [pass EXCEPT !.at = "record"]
           /\ UNCHANGED <<status, queued>>
  <2>1. pass \in PassType /\ pass.rev = status.attempted /\ pass.rev \in Revs
    BY <1>1 DEF DeliveryInv, OwnTyped, PinnedInv
  <2>2. pass' \in PassType /\ pass'.at = "record" /\ pass'.rev = pass.rev /\ pass'.left = pass.left
        /\ pass'.asked = pass.asked /\ pass'.cancelled = pass.cancelled /\ pass'.fired = pass.fired
    BY <1>4, <2>1 DEF PassType, Steps
  <2>3. live' \in LiveType
    BY <1>4, <2>1 DEF LiveType, PassType, PinImages
  <2>4. OnlyVerifiedImages'
    <3>1. CASE pass.asked = {}
      BY <1>1, <1>4, <3>1 DEF DeliveryInv, ImagesInv, OnlyVerifiedImages
    <3>2. CASE pass.asked # {}
      <4>1. pass.digest \in Digests /\ \E q \in pass.asked : pass.digest \in Accepts[q]
        BY <1>1, <3>2 DEF DeliveryInv, ImagesInv
      <4>2. pass.moved \/ \A q \in pass.asked : pass.digest \in Accepts[q]
        BY <1>1, <3>2 DEF DeliveryInv, ImagesInv
      <4>3. PinImages(pass.digest) = pass.digest
        BY <4>1, DeliveryAssumption DEF PinImages
      <4>4. live'.image = pass.digest /\ live'.asked = pass.asked /\ live'.moved = pass.moved
        BY <1>4, <4>3
      <4> QED
        BY <3>2, <4>1, <4>2, <4>4 DEF OnlyVerifiedImages
    <3> QED
      BY <3>1, <3>2
  <2> QED
    BY <1>1, <1>4, <2>1, <2>2, <2>3, <2>4
    DEF DeliveryInv, OwnTyped, PinnedInv, FilesInv, ImagesInv, WaitInv
<1> QED
  BY <1>3, <1>4 DEF Apply

\* Recording and waiting: the pass carries nothing on but its place.
LEMMA RecordingStep == DeliveryInv /\ (BeginRecord \/ WriteRecord \/ RecordFails \/ Recorded) => DeliveryInv'
<1> SUFFICES ASSUME DeliveryInv, BeginRecord \/ WriteRecord \/ RecordFails \/ Recorded PROVE DeliveryInv'
  OBVIOUS
<1>1. WorldTyped' /\ watch' \in {"none", "missing", "engaged"} /\ trustRoot' \in {"unset", "loaded", "failed"}
      /\ events' \in 0 .. MaxEvents /\ UNCHANGED <<watch, worldVars, live>>
  BY WorldStays, EventTypes DEF BeginRecord, WriteRecord, RecordFails, Recorded, DeliveryInv, OwnTyped
<1>2. ASSUME NEW r \in ReasonType, FailStage(FALSE, r) \/ EndPass(r) PROVE DeliveryInv'
  <2>1. pass' = Idle /\ status' \in StatusType /\ queued' \in BOOLEAN
    BY <1>2, EndTypes
  <2> QED
    BY <1>1, <2>1, Ends
<1>3. ASSUME NEW at \in {"recording", "verify"}, pass' = [pass EXCEPT !.at = at], UNCHANGED <<status, queued>>
      PROVE  DeliveryInv'
  <2>1. pass' \in PassType /\ pass'.at = at /\ pass'.rev = pass.rev /\ pass'.left = pass.left
        /\ pass'.asked = pass.asked /\ pass'.cancelled = pass.cancelled /\ pass'.fired = pass.fired
    BY <1>3 DEF PassType, DeliveryInv, OwnTyped, Steps
  <2> QED
    BY <1>1, <1>3, <2>1, GoesOn DEF DeliveryInv, OwnTyped, PinnedInv, FilesInv, ImagesInv, WaitInv
<1>4. CASE BeginRecord
  BY <1>3, <1>4 DEF BeginRecord
<1>5. CASE WriteRecord
  <2>1. UNCHANGED <<pass, live, status>> /\ queued' \in BOOLEAN /\ tag' = tag
    BY <1>5 DEF WriteRecord, worldVars, DeliveryInv, OwnTyped
  <2> QED
    BY <1>1, <2>1 DEF DeliveryInv, OwnTyped, PinnedInv, FilesInv, ImagesInv, WaitInv, OnlyVerifiedImages
<1>6. CASE RecordFails
  <2>1. status.reason \in ReasonType
    BY DEF DeliveryInv, OwnTyped, StatusType
  <2> QED
    BY <1>2, <1>6, <2>1 DEF RecordFails, ReasonType
<1>7. CASE Recorded
  BY <1>2, <1>3, <1>7 DEF Recorded, ReasonType
<1> QED
  BY <1>4, <1>5, <1>6, <1>7

LEMMA WaitingStep ==
    DeliveryInv /\ (FailResolution \/ PollDeletion \/ VerifySucceeds \/ VerifyFails \/ LosePass) => DeliveryInv'
<1> SUFFICES ASSUME DeliveryInv, FailResolution \/ PollDeletion \/ VerifySucceeds \/ VerifyFails \/ LosePass
             PROVE  DeliveryInv'
  OBVIOUS
<1>1. WorldTyped' /\ watch' \in {"none", "missing", "engaged"} /\ trustRoot' \in {"unset", "loaded", "failed"}
      /\ events' \in 0 .. MaxEvents /\ UNCHANGED <<watch, worldVars, live>>
  BY WorldStays, EventTypes DEF FailResolution, PollDeletion, VerifySucceeds, VerifyFails, LosePass, DeliveryInv, OwnTyped
<1>2. ASSUME NEW r \in ReasonType, FailStage(FALSE, r) \/ EndPass(r) PROVE DeliveryInv'
  <2>1. pass' = Idle /\ status' \in StatusType /\ queued' \in BOOLEAN
    BY <1>2, EndTypes
  <2> QED
    BY <1>1, <2>1, Ends
<1>3. ASSUME pass' = Idle, queued' = TRUE, UNCHANGED status PROVE DeliveryInv'
  <2>1. status' \in StatusType
    BY <1>3 DEF DeliveryInv, OwnTyped
  <2> QED
    BY <1>1, <1>3, <2>1, Ends
<1>4. CASE FailResolution
  BY <1>2, <1>4 DEF FailResolution, ReasonType
<1>5. CASE PollDeletion
  <2>1. pass.at = "verify" /\ UNCHANGED <<queued, status>> /\ (pass' = [pass EXCEPT !.fired = TRUE]
            \/ (pass.fired /\ pass' = [pass EXCEPT !.cancelled = TRUE]))
    BY <1>5 DEF PollDeletion
  <2>2. pass' \in PassType /\ pass'.at = "verify" /\ pass'.rev = pass.rev /\ pass'.left = pass.left
        /\ pass'.asked = pass.asked /\ pass'.fired
    BY <2>1 DEF PassType, DeliveryInv, OwnTyped
  <2> QED
    BY <1>1, <2>1, <2>2, GoesOn DEF DeliveryInv, OwnTyped, PinnedInv, FilesInv, ImagesInv, WaitInv
<1>6. CASE VerifySucceeds
  BY <1>2, <1>6 DEF VerifySucceeds, ReasonType
<1>7. CASE VerifyFails
  BY <1>2, <1>3, <1>7 DEF VerifyFails, ReasonType
<1>8. CASE LosePass
  BY <1>3, <1>8 DEF LosePass
<1> QED
  BY <1>4, <1>5, <1>6, <1>7, <1>8

\* Prune, teardown, crash and the informer.
LEMMA OutsideStep == DeliveryInv /\ (PruneRemoved \/ Teardown \/ Crash \/ CacheCatchesUp) => DeliveryInv'
<1> SUFFICES ASSUME DeliveryInv, PruneRemoved \/ Teardown \/ Crash \/ CacheCatchesUp PROVE DeliveryInv'
  OBVIOUS
<1>1. events' \in 0 .. MaxEvents
  BY EventTypes DEF PruneRemoved, Teardown, Crash, CacheCatchesUp, DeliveryInv, OwnTyped
<1>2. CASE PruneRemoved
  <2>1. WorldTyped' /\ pass.at = "idle" /\ UNCHANGED <<watch, trustRoot, status>> /\ tag' = tag
    BY <1>2, WorldStays DEF PruneRemoved, DeliveryInv, worldVars
  <2>2. CASE UNCHANGED <<live, pass, queued>>
    BY <1>1, <2>1, <2>2 DEF DeliveryInv, OwnTyped, PinnedInv, FilesInv, ImagesInv, WaitInv, OnlyVerifiedImages
  <2>3. CASE live' = Nothing /\ pass' = [Idle EXCEPT !.at = "recording"] /\ queued' = FALSE
    <3>1. pass' \in PassType /\ pass'.at = "recording" /\ pass'.left = {} /\ pass'.cancelled = FALSE
      BY <2>3, IdleType DEF Idle, PassType, Steps
    <3> QED
      BY <1>1, <2>1, <2>3, <3>1, IdleType
      DEF DeliveryInv, OwnTyped, PinnedInv, FilesInv, ImagesInv, WaitInv, OnlyVerifiedImages
  <2> QED
    BY <1>2, <2>2, <2>3 DEF PruneRemoved, shardVars
<1>3. CASE Teardown
  <2>1. WorldTyped' /\ UNCHANGED <<watch, trustRoot, status, pass, tag>> /\ live' = Nothing /\ queued' = FALSE
    BY <1>3 DEF Teardown, DeliveryInv, WorldTyped
  <2> QED
    BY <1>1, <2>1, IdleType DEF DeliveryInv, OwnTyped, PinnedInv, FilesInv, ImagesInv, WaitInv, OnlyVerifiedImages
<1>4. CASE Crash
  <2>1. WorldTyped' /\ UNCHANGED <<live, status>> /\ pass' = Idle /\ watch' \in {"none", "missing", "engaged"}
        /\ trustRoot' = "unset" /\ queued' \in BOOLEAN /\ status' \in StatusType
    BY <1>4, WorldStays DEF Crash, StaticWatch, DeliveryInv, OwnTyped
  <2> QED
    BY <1>1, <2>1, Ends
<1>5. CASE CacheCatchesUp
  <2>1. WorldTyped' /\ UNCHANGED <<live, status, pass, watch, trustRoot, queued, tag>>
    BY <1>5, WorldStays DEF CacheCatchesUp, DeliveryInv, worldVars
  <2> QED
    BY <1>1, <2>1 DEF DeliveryInv, OwnTyped, PinnedInv, FilesInv, ImagesInv, WaitInv, OnlyVerifiedImages
<1> QED
  BY <1>2, <1>3, <1>4, <1>5

\* Only a moving tag touches what a pass goes by, and it leaves its mark.
LEMMA AroundStep == DeliveryInv /\ Around => DeliveryInv'
<1> SUFFICES ASSUME DeliveryInv, Around PROVE DeliveryInv'
  OBVIOUS
<1>1. events' \in 0 .. MaxEvents /\ UNCHANGED <<trustRoot, live, status>>
  BY EventTypes DEF Around
<1>2. ASSUME WorldTyped', watch' \in {"none", "missing", "engaged"}, queued' \in BOOLEAN, UNCHANGED <<pass, tag>>
      PROVE  DeliveryInv'
  BY <1>1, <1>2 DEF DeliveryInv, OwnTyped, PinnedInv, FilesInv, ImagesInv, WaitInv, OnlyVerifiedImages
<1>3. CASE SourceChanges
  <2>1. WorldTyped' /\ UNCHANGED <<pass, tag, watch>> /\ queued' \in BOOLEAN
    BY <1>3 DEF SourceChanges, DeliveryInv, WorldTyped, SourceType, OwnTyped
  <2> QED
    BY <1>2, <2>1 DEF DeliveryInv, OwnTyped
<1>4. CASE Edit
  <2>1. WorldTyped' /\ UNCHANGED <<pass, tag, watch>> /\ queued' \in BOOLEAN
    BY <1>4 DEF Edit, DeliveryInv, WorldTyped, OwnTyped
  <2> QED
    BY <1>2, <2>1 DEF DeliveryInv, OwnTyped
<1>5. CASE Unseen
  <2>1. UNCHANGED <<kind, source, tag, exempt, crd, life, pass, watch, queued>>
    BY <1>5 DEF Unseen
  <2>2. bytes' \in Revs \cup {"down", "forbidden"} /\ secret' \in {"none", "k1", "k2"}
    BY <1>5 DEF Unseen, DeliveryInv, WorldTyped
  <2>3. registry' \in BOOLEAN /\ policies' \subseteq Policies /\ allowed' \in BOOLEAN
    BY <1>5 DEF Unseen, DeliveryInv, WorldTyped
  <2>4. WorldTyped'
    BY <2>1, <2>2, <2>3 DEF DeliveryInv, WorldTyped
  <2> QED
    BY <1>2, <2>1, <2>4 DEF DeliveryInv, OwnTyped
<1>6. CASE TagMoves
  <2>1. WorldTyped' /\ UNCHANGED <<watch, queued>>
    BY <1>6 DEF TagMoves, DeliveryInv, WorldTyped
  <2>2. pass' \in PassType /\ pass'.at = pass.at /\ pass'.rev = pass.rev /\ pass'.left = pass.left
        /\ pass'.asked = pass.asked /\ pass'.exempt = pass.exempt /\ pass'.digest = pass.digest
        /\ pass'.files = pass.files /\ pass'.cancelled = pass.cancelled /\ pass'.fired = pass.fired
        /\ pass'.moved = (pass.moved \/ (pass.at = "verifyImages" /\ pass.left \notin {{}, pass.asked}))
    BY <1>6 DEF TagMoves, PassType, DeliveryInv, OwnTyped
  <2>3. ImagesInv'
    BY <2>2 DEF DeliveryInv, ImagesInv
  <2> QED
    BY <1>1, <2>1, <2>2, <2>3, GoesOn DEF DeliveryInv, OwnTyped, PinnedInv, FilesInv, WaitInv
<1>7. CASE CRDEstablished
  <2>1. WorldTyped' /\ UNCHANGED <<pass, tag, queued>> /\ watch' \in {"none", "missing", "engaged"}
    BY <1>7 DEF CRDEstablished, DeliveryInv, WorldTyped, OwnTyped
  <2> QED
    BY <1>2, <2>1 DEF DeliveryInv, OwnTyped
<1> QED
  BY <1>3, <1>4, <1>5, <1>6, <1>7 DEF Around

LEMMA DeliveryStep == DeliveryInv /\ [Next]_vars => DeliveryInv'
<1>1. DeliveryInv /\ Next => DeliveryInv'
  BY StartStep, FetchStep, GateStep, VerifyStep, ApplyStep, RecordingStep, WaitingStep, OutsideStep, AroundStep
  DEF Next, PassStep
<1>2. DeliveryInv /\ UNCHANGED vars => DeliveryInv'
  <2> SUFFICES ASSUME DeliveryInv, UNCHANGED vars PROVE DeliveryInv'
    OBVIOUS
  <2>1. WorldTyped' /\ UNCHANGED <<watch, trustRoot, queued, pass, live, status, events, tag>>
    BY WorldStays DEF vars, DeliveryInv, worldVars
  <2> QED
    BY <2>1 DEF DeliveryInv, OwnTyped, PinnedInv, FilesInv, ImagesInv, WaitInv, OnlyVerifiedImages
<1> QED
  BY <1>1, <1>2
----------------------------------------------------------------------------
(* The shards under the delivery: every step is one of theirs, none at     *)
(* all, or the crash, which ends a write and empties the cache at once.    *)

ShardCrash ==
    /\ write' = [write EXCEPT !.at = IF @ \in {"write", "cleanup"} THEN "failed" ELSE @]
    /\ known' = existing /\ cached' = shards /\ stale' = {}
    /\ UNCHANGED <<existing, shards>>

LEMMA ShardShape == DeliveryInv /\ [Next]_vars => [ShardNext]_shardVars \/ ShardCrash
<1> SUFFICES ASSUME DeliveryInv, [Next]_vars PROVE [ShardNext]_shardVars \/ ShardCrash
  OBVIOUS
<1>1. CASE BeginRecord
  <2>1. Artifact[pass.rev].objects \in SUBSET Refs
    BY <1>1, DeliveryAssumption DEF BeginRecord, DeliveryInv, PinnedInv
  <2> QED
    BY <1>1, <2>1 DEF BeginRecord, ShardNext
<1>2. CASE WriteRecord \/ RecordFails \/ Recorded
  BY <1>2 DEF WriteRecord, RecordFails, Recorded, ShardNext
<1>3. CASE PruneRemoved \/ CacheCatchesUp
  BY <1>3 DEF PruneRemoved, CacheCatchesUp, ShardNext
<1>4. CASE Crash
  BY <1>4 DEF Crash, ShardCrash
<1>5. CASE StartPass \/ Teardown \/ Around \/ UNCHANGED vars
  BY <1>5 DEF StartPass, Teardown, Around, vars
<1>6. CASE FailResolution \/ ConfigureDecryption \/ Fetch \/ DecryptFiles \/ Build \/ BeginImages \/ Apply
           \/ \E p \in Policies : VerifyImage(p)
  BY <1>6 DEF FailResolution, ConfigureDecryption, Fetch, DecryptFiles, Build, BeginImages, VerifyImage, Apply
<1>7. CASE PollDeletion \/ VerifySucceeds \/ VerifyFails \/ LosePass
  BY <1>7 DEF PollDeletion, VerifySucceeds, VerifyFails, LosePass
<1> QED
  BY <1>1, <1>2, <1>3, <1>4, <1>5, <1>6, <1>7 DEF Next, PassStep

LEMMA CrashStep == Shards /\ ShardCrash => Shards' /\ [Record!Next]_Record!vars
<1> SUFFICES ASSUME Shards, ShardCrash PROVE Shards' /\ [Record!Next]_Record!vars
  OBVIOUS
<1>1. Stored' = Stored /\ write' \in WriteType /\ write'.goal = write.goal /\ write'.fresh = write.fresh
      /\ write'.unchecked = write.unchecked /\ write'.next = write.next /\ write'.obsolete = write.obsolete
  BY DEF ShardCrash, Stored, Shards, ShardTypeOK, WriteType
<1>2. CASE write.at \in {"write", "cleanup"}
  <2>1. write'.at = "failed"
    BY <1>2 DEF ShardCrash, Shards, ShardTypeOK
  <2>2. Record!Abort
    BY <1>1, <1>2, <2>1 DEF Record!Abort
  <2> QED
    BY <1>1, <2>1, <2>2 DEF Record!Next, ShardCrash, Shards, ShardTypeOK, WriteProgress, WriteType
<1>3. CASE write.at \notin {"write", "cleanup"}
  <2>1. write'.at = write.at
    BY <1>3 DEF ShardCrash, Shards, ShardTypeOK
  <2> QED
    BY <1>1, <1>3, <2>1 DEF Record!vars, ShardCrash, Shards, ShardTypeOK, WriteProgress, WriteType
<1> QED
  BY <1>2, <1>3

\* The invariant of the delivery and its shards together.
Delivery == DeliveryInv /\ Shards

LEMMA DeliveryInvariant == Spec => []Delivery
<1>1. Init => Delivery
  <2>1. Init => ShardInit
    BY DEF Init, ShardInit
  <2> QED
    BY <2>1, DeliveryInit, InitShards DEF Delivery
<1>2. Delivery /\ [Next]_vars => Delivery'
  <2>1. Shards /\ [ShardNext]_shardVars => Shards'
    BY TypeStep, ProgressStep DEF Shards
  <2> QED
    BY <2>1, DeliveryStep, ShardShape, CrashStep DEF Delivery
<1> QED
  BY <1>1, <1>2, PTL DEF Spec

\* Whatever the stage writes, and wherever it fails, is interrupted or crashes,
\* its shards implement the record the reconciler counts on (Recorder.Write,
\* DeleteStageShards as StageDelivery calls them).
THEOREM DeliveryImplementsRecord == Spec => RecordSpec
<1>1. Init => Record!Init
  BY DEF Init, Record!Init, NoWrite, Stored
<1>2. Delivery /\ [Next]_vars => [Record!Next]_Record!vars
  BY ShardShape, RecordStep, CrashStep DEF Delivery
<1> QED
  BY <1>1, <1>2, DeliveryInvariant, PTL DEF Spec, RecordSpec, Record!Spec

\* Nothing reaches the cluster but the pinned revision, extracted within the
\* limits (fetcher.extract), with images that the gate vouched for
\* (verifyStageImages, PinImages), whatever changes around the pass.
THEOREM TrustedOnly == Spec => []OnlyTrustedDelivered
<1>1. Delivery => OnlyTrustedDelivered
  <2> SUFFICES ASSUME Delivery PROVE OnlyTrustedDelivered
    OBVIOUS
  <2>1. TypeOK
    BY DEF Delivery, DeliveryInv, WorldTyped, OwnTyped, Shards, TypeOK, SourceType, PassType, LiveType, StatusType
  <2>2. ExtractBounded
    <3>1. CASE pass.at \in {"decrypt", "build"}
      <4>1. pass.rev \in Revs /\ pass.files = Extraction[pass.rev].files /\ Extraction[pass.rev].broken = {}
        BY <3>1 DEF Delivery, DeliveryInv, PinnedInv, FilesInv
      <4> QED
        BY <4>1, ExtractionBounded DEF ExtractBounded
    <3> QED
      BY <3>1 DEF ExtractBounded
  <2>3. OnlyPinnedApplied
    BY DEF Delivery, DeliveryInv, PinnedInv, OnlyPinnedApplied
  <2> QED
    BY <2>1, <2>2, <2>3 DEF OnlyTrustedDelivered, Delivery, DeliveryInv
<1> QED
  BY <1>1, DeliveryInvariant, PTL

\* A wait that the deletion interrupted never fails the stage: the watch says
\* so before it cancels the wait (watchForDeletion).
THEOREM InterruptionIsNoFailure == Spec => InterruptedNotFailed
<1>1. Delivery /\ [Next]_vars => [pass.at = "verify" /\ pass.cancelled /\ pass'.at = "idle" => status' = status]_vars
  <2> SUFFICES ASSUME Delivery, Next, pass.at = "verify", pass.cancelled, pass'.at = "idle" PROVE status' = status
    OBVIOUS
  <2>1. pass.fired
    BY DEF Delivery, DeliveryInv, WaitInv
  <2>2. CASE VerifyFails
    BY <2>1, <2>2 DEF VerifyFails
  <2>3. CASE Around \/ Crash \/ CacheCatchesUp \/ LosePass \/ PollDeletion \/ Teardown
    BY <2>3 DEF Around, Crash, CacheCatchesUp, LosePass, PollDeletion, Teardown
  <2>4. ~(StartPass \/ PruneRemoved \/ FailResolution \/ ConfigureDecryption \/ Fetch \/ DecryptFiles \/ Build
          \/ BeginImages \/ Apply \/ BeginRecord \/ WriteRecord \/ RecordFails \/ Recorded \/ VerifySucceeds)
    BY DEF StartPass, PruneRemoved, FailResolution, ConfigureDecryption, Fetch, DecryptFiles, Build,
           BeginImages, Apply, BeginRecord, WriteRecord, RecordFails, Recorded, VerifySucceeds
  <2>5. ~\E p \in Policies : VerifyImage(p)
    BY DEF VerifyImage
  <2> QED
    BY <2>2, <2>3, <2>4, <2>5 DEF Next, PassStep
<1> QED
  BY <1>1, DeliveryInvariant, PTL DEF Spec, InterruptedNotFailed
=============================================================================
