--------------------------- MODULE TileIndexProofs ---------------------------
(***************************************************************************)
(* Proofs about TileIndex: the ids of stored geometries, for any pools of  *)
(* threads, any geometries that fit the bits of an id and any order in     *)
(* which shards are leased, given back and leased again.                   *)
(***************************************************************************)
EXTENDS TileIndex, FiniteSetTheorems, TLAPS

-----------------------------------------------------------------------------
(* Arithmetic of ids, and the stack of shards. *)

(* The parts an id is made of are read from it again (getShard, getId).    *)
LEMMA PartsOfId ==
    ASSUME NEW W \in Nat, NEW s \in Nat, NEW o \in Nat, o < W
    PROVE  (s * W + o) \div W = s /\ (s * W + o) % W = o
<1>1. PICK p \in Nat : p = s * W
  OBVIOUS
<1>2. PICK q \in Int : q = (p + o) \div W
  BY <1>1
<1>3. PICK r \in 0..(W - 1) : r = (p + o) % W
  BY <1>1
<1>4. p + o = W * q + r
  BY <1>1, <1>2, <1>3
<1>5. W * (s - q) = r - o
  BY <1>1, <1>4
<1>6. s = q
  BY <1>3, <1>5
<1>7. r = o
  BY <1>5, <1>6
<1> QED BY <1>1, <1>2, <1>3, <1>6, <1>7

(* What get() takes from the stack and leaves on it.                       *)
LEMMA PopFacts ==
    ASSUME NEW S, NEW s \in Seq(S), s # <<>>
    PROVE  /\ Front(s) \in Seq(S) /\ Len(Front(s)) = Len(s) - 1 /\ Len(s) \in Nat \ {0}
           /\ \A i \in DOMAIN Front(s) : i \in DOMAIN s /\ i < Len(s) /\ Front(s)[i] = s[i]
           /\ Last(s) = s[Len(s)] /\ Last(s) \in S
<1>1. PICK n \in Nat : n = Len(s) /\ DOMAIN s = 1..n
  OBVIOUS
<1>2. n # 0
  BY <1>1
<1>3. PICK f : f = Front(s) /\ f = SubSeq(s, 1, n - 1)
  BY <1>1 DEF Front
<1>4. f \in Seq(S) /\ Len(f) = n - 1 /\ \A i \in 1..(n - 1) : f[i] = s[i]
  BY <1>1, <1>2, <1>3
<1>5. DOMAIN f = 1..(n - 1)
  BY <1>4
<1>6. Last(s) = s[n] /\ s[n] \in S
  BY <1>1, <1>2 DEF Last
<1> QED BY <1>1, <1>2, <1>3, <1>4, <1>5, <1>6

(* The shards of a store and its kinds.                                    *)
LEMMA KindFacts ==
    /\ ThreadNum \in Nat \ {0}
    /\ \A g \in Geometries : g.kind \in Kinds
    /\ \A s \in Shards : s # NoLease
    /\ Len(Pools) \in Nat \ {0}
BY TileIndexAssumption DEF Kinds, Shards, NoLease
-----------------------------------------------------------------------------
(* What the invariant says of ids. *)

(* The invariant implies that ids resolve and that a shard can be leased.  *)
LEMMA IdsImplied == IdsInv => IdsResolve
<1> SUFFICES ASSUME IdsInv PROVE IdsResolve
  OBVIOUS
<1>1. ASSUME NEW m \in given
      PROVE  /\ Retrievable(m.geometry.kind, m.oo.objectID)
             /\ RetrieveGeometry(m.geometry.kind, m.oo.objectID) = m.geometry
  <2>1. PICK W \in Nat : W = 2^(IdBits - ShardBits)
    BY CapacityAssumption
  <2>2. PICK shard \in Shards, offset \in 0..(W - 1) :
          /\ m.oo.objectID = shard * W + offset
          /\ offset < Len(stores[m.geometry.kind][shard])
          /\ stores[m.geometry.kind][shard][offset + 1] = m.geometry
    BY <2>1 DEF IdsInv, GivenHolds, IdOf
  <2>3. shard \in Nat /\ offset \in Nat /\ offset < W
    BY <2>2, KindFacts DEF Shards
  <2>4. ShardOf(m.oo.objectID) = shard /\ OffsetOf(m.oo.objectID) = offset
    BY <2>1, <2>2, <2>3, PartsOfId DEF ShardOf, OffsetOf
  <2> QED BY <2>2, <2>4 DEF Retrievable, RetrieveGeometry
<1>2. ASSUME NEW t \in Pools[pool], NEW k \in Kinds, live[t] = "running"
      PROVE  CanLease(t, k)
  <2>1. SUFFICES ASSUME leased[t][k] = NoLease, available[k] = <<>> PROVE FALSE
    BY DEF CanLease
  <2>2. pool \in 1..Len(Pools) /\ IsFiniteSet(Pools[pool]) /\ Cardinality(Pools[pool]) <= ThreadNum
    BY TileIndexAssumption DEF IdsInv, IndexTypeOK
  <2>3. Holders(k) \subseteq Pools[pool] \ {t}
    BY <2>1 DEF IdsInv, LeasesHold, Holders
  <2>4. Cardinality(Holders(k)) = ThreadNum
    <3>1. Len(available[k]) = 0
      BY <2>1
    <3>2. Cardinality(Holders(k)) \in Nat
      BY <2>2, <2>3, FS_Subset, FS_CardinalityType
    <3> QED BY <3>1, <3>2 DEF IdsInv, LeasesHold
  <2>5. /\ IsFiniteSet(Pools[pool] \ {t})
        /\ Cardinality(Pools[pool] \ {t}) = Cardinality(Pools[pool]) - 1
    BY <1>2, <2>2, FS_RemoveElement
  <2>6. Cardinality(Holders(k)) <= Cardinality(Pools[pool] \ {t})
    BY <2>3, <2>5, FS_Subset
  <2>7. Cardinality(Pools[pool]) \in Nat
    BY <2>2, FS_CardinalityType
  <2> QED BY <2>4, <2>2, <2>5, <2>6, <2>7, KindFacts
<1> QED BY <1>1, <1>2 DEF IdsResolve
-----------------------------------------------------------------------------
(* The invariant at the start and after each step. *)

(* open() leaves every shard available and one sentinel in each store.     *)
LEMMA IdsInit == Init => IdsInv
<1> SUFFICES ASSUME Init PROVE IdsInv
  OBVIOUS
<1>1. ThreadNum \in Nat \ {0} /\ Len(Pools) \in Nat \ {0}
  BY KindFacts
<1>2. \A k \in Kinds : available[k] = [i \in 1..ThreadNum |-> i - 1] /\ available[k] \in Seq(Shards) /\ Len(available[k]) = ThreadNum
  <2>1. PICK s : s = [i \in 1..ThreadNum |-> i - 1]
    OBVIOUS
  <2>2. s \in Seq(Shards) /\ Len(s) = ThreadNum
    BY <1>1, <2>1 DEF Shards
  <2> QED BY <2>1, <2>2 DEF Init
<1>3. \A k \in Kinds : Holders(k) = {}
  BY DEF Init, Holders
<1>4. \A k \in Kinds, s \in Shards : stores[k][s] \in Seq(Geometries \cup {Sentinel}) /\ Len(stores[k][s]) <= 1
  <2>1. ASSUME NEW k \in Kinds, NEW s \in Shards
        PROVE  stores[k][s] = <<Sentinel>> \/ stores[k][s] = <<>>
    BY <1>1 DEF Init, Shards
  <2>2. /\ <<Sentinel>> \in Seq(Geometries \cup {Sentinel}) /\ Len(<<Sentinel>>) <= 1
        /\ <<>> \in Seq(Geometries \cup {Sentinel}) /\ Len(<<>>) <= 1
    OBVIOUS
  <2>3. ASSUME NEW k \in Kinds, NEW s \in Shards
        PROVE  stores[k][s] \in Seq(Geometries \cup {Sentinel}) /\ Len(stores[k][s]) <= 1
    BY <2>1, <2>2, Zenon
  <2> QED BY <2>3
<1>5. IndexTypeOK
  <2>1. DOMAIN available = Kinds /\ available = [k \in Kinds |-> available[k]]
    BY DEF Init
  <2>2. available \in [Kinds -> Seq(Shards)]
    BY <1>2, <2>1
  <2>3. stores = [k \in Kinds |-> [s \in Shards |-> stores[k][s]]]
    BY DEF Init, Shards
  <2>4. stores \in [Kinds -> [Shards -> Seq(Geometries \cup {Sentinel})]]
    BY <1>4, <2>3
  <2>5. leased \in [Threads -> [Kinds -> Shards \cup {NoLease}]]
    BY DEF Init
  <2> QED BY <1>1, <2>2, <2>4, <2>5 DEF Init, IndexTypeOK
<1>6. LeasesHold
  <2>1. Cardinality({}) = 0
    BY FS_EmptySet
  <2>2. ASSUME NEW k \in Kinds, NEW i \in DOMAIN available[k], NEW j \in DOMAIN available[k],
               available[k][i] = available[k][j]
        PROVE  i = j
    <3>1. PICK a : a = available[k] /\ a = [n \in 1..ThreadNum |-> n - 1]
      BY <1>2
    <3> QED BY <1>1, <2>2, <3>1
  <2>3. ASSUME NEW k \in Kinds PROVE Cardinality(Holders(k)) + Len(available[k]) = ThreadNum
    <3>1. Cardinality(Holders(k)) = 0
      BY <1>3, <2>1
    <3>2. Len(available[k]) = ThreadNum
      BY <1>2
    <3> QED BY <1>1, <3>1, <3>2
  <2> QED BY <1>3, <2>2, <2>3 DEF LeasesHold
<1>7. ShardsBounded
  <2>1. {m.geometry : m \in given} = {}
    BY DEF Init
  <2>2. Cardinality({m.geometry : m \in given}) = 0
    BY <2>1, FS_EmptySet
  <2> QED BY <1>4, <2>2 DEF ShardsBounded
<1>8. Storing = {} /\ given = {}
  BY DEF Init, Storing, NoEntry
<1> QED BY <1>5, <1>6, <1>7, <1>8 DEF IdsInv

(* Indexing, and all that leaves the stores, the leases and the threads    *)
(* alone, keeps it.                                                        *)
LEMMA IndexingKeeps ==
    ASSUME IdsInv, UNCHANGED <<pool, live, unread, storeVars>>, DOMAIN current' = Threads,
           \A u \in Threads : current'[u] = current[u] \/ current'[u].how # "storing"
    PROVE  IdsInv'
<1>1. /\ pool' = pool /\ live' = live /\ unread' = unread /\ stores' = stores
      /\ available' = available /\ leased' = leased /\ given' = given
  BY DEF storeVars
<1>2. \A k \in Kinds : Holders(k)' = Holders(k)
  BY <1>1 DEF Holders
<1>3. IndexTypeOK' /\ LeasesHold'
  BY <1>1, <1>2 DEF IdsInv, IndexTypeOK, LeasesHold
<1>4. ShardsBounded'
  BY <1>1 DEF IdsInv, ShardsBounded
<1>5. Storing' \subseteq Storing /\ \A t \in Storing' : current'[t] = current[t]
  BY DEF Storing
<1>6. ASSUME NEW t \in Storing' PROVE StoringHolds(t)'
  <2>1. StoringHolds(t) /\ current'[t] = current[t]
    BY <1>5, <1>6 DEF IdsInv
  <2>2. Holders(current[t].geometry.kind)' = Holders(current[t].geometry.kind)
    BY <1>1, <2>1 DEF Holders
  <2> QED BY <1>1, <1>5, <2>1, <2>2 DEF StoringHolds
<1>7. ASSUME NEW m \in given' PROVE GivenHolds(m)'
  BY <1>1, <1>7 DEF IdsInv, GivenHolds
<1> QED BY <1>3, <1>4, <1>6, <1>7 DEF IdsInv

(* The next pool starts when nobody holds a lease.                         *)
LEMMA NextPoolKeeps == IdsInv /\ NextPool => IdsInv'
<1> SUFFICES ASSUME IdsInv, NextPool PROVE IdsInv'
  OBVIOUS
<1>1. /\ live' = live /\ unread' = unread /\ stores' = stores /\ current' = current
      /\ available' = available /\ leased' = leased /\ given' = given
  BY DEF NextPool, storeVars
<1>2. \A k : Holders(k)' = Holders(k)
  BY <1>1 DEF Holders
<1>3. \A k \in Kinds : Holders(k) = {}
  BY DEF IdsInv, LeasesHold, NextPool
<1>4. IndexTypeOK'
  BY <1>1, KindFacts DEF IdsInv, IndexTypeOK, NextPool
<1>5. LeasesHold'
  BY <1>1, <1>2, <1>3 DEF IdsInv, LeasesHold
<1>6. ShardsBounded'
  BY <1>1 DEF IdsInv, ShardsBounded
<1>7. Storing' = Storing
  BY <1>1 DEF Storing
<1>8. ASSUME NEW t \in Storing' PROVE StoringHolds(t)'
  BY <1>1, <1>2, <1>7, <1>8 DEF IdsInv, StoringHolds
<1>9. ASSUME NEW m \in given' PROVE GivenHolds(m)'
  BY <1>1, <1>9 DEF IdsInv, GivenHolds
<1> QED BY <1>4, <1>5, <1>6, <1>8, <1>9 DEF IdsInv

(* Only finitely many threads hold a shard. *)
LEMMA HoldersFinite ==
    ASSUME IdsInv, NEW k \in Kinds
    PROVE  /\ Holders(k) \subseteq Pools[pool] /\ IsFiniteSet(Holders(k))
           /\ Cardinality(Holders(k)) \in Nat
<1>1. IsFiniteSet(Pools[pool])
  BY TileIndexAssumption DEF IdsInv, IndexTypeOK
<1>2. Holders(k) \subseteq Pools[pool]
  BY DEF IdsInv, LeasesHold
<1> QED BY <1>1, <1>2, FS_Subset, FS_CardinalityType

(* A thread that ends gives its shards back (~LeasedStore).                *)
LEMMA ExitKeeps ==
    ASSUME IdsInv, NEW t \in Threads, ThreadExit(t)
    PROVE  IdsInv'
<1>1. /\ pool' = pool /\ unread' = unread /\ stores' = stores /\ current' = current /\ given' = given
      /\ t \in Pools[pool] /\ current[t] = NoEntry
      /\ live' = [live EXCEPT ![t] = "gone"]
      /\ leased' = [leased EXCEPT ![t] = [k \in Kinds |-> NoLease]]
  BY DEF ThreadExit
<1>2. /\ leased \in [Threads -> [Kinds -> Shards \cup {NoLease}]]
      /\ available \in [Kinds -> Seq(Shards)]
      /\ live \in [Threads -> {"running", "gone"}]
  BY DEF IdsInv, IndexTypeOK
<1>3. /\ \A k \in Kinds : leased'[t][k] = NoLease
      /\ \A u \in Threads : u # t => leased'[u] = leased[u] /\ live'[u] = live[u]
  BY <1>1, <1>2
<1>4. ASSUME NEW k \in Kinds PROVE Holders(k)' = Holders(k) \ {t}
  BY <1>3 DEF Holders
<1>5. ASSUME NEW k \in Kinds, leased[t][k] = NoLease
      PROVE  available'[k] = available[k]
  BY <1>5 DEF ThreadExit
<1>6. ASSUME NEW k \in Kinds, leased[t][k] # NoLease
      PROVE  /\ leased[t][k] \in Shards /\ t \in Holders(k)
             /\ available'[k] \in Seq(Shards) /\ Len(available'[k]) = Len(available[k]) + 1
             /\ \A i \in DOMAIN available'[k] :
                  \/ i \in DOMAIN available[k] /\ available'[k][i] = available[k][i]
                  \/ i = Len(available[k]) + 1 /\ available'[k][i] = leased[t][k]
  <2>1. PICK a \in Seq(Shards) : a = available[k]
    BY <1>2
  <2>2. PICK s \in Shards : s = leased[t][k]
    BY <1>2, <1>6
  <2>3. PICK b : b = available'[k] /\ b = Append(a, s)
    BY <1>6, <2>1, <2>2 DEF ThreadExit
  <2>4. b \in Seq(Shards) /\ Len(b) = Len(a) + 1
    BY <2>3
  <2>5. ASSUME NEW i \in DOMAIN b
        PROVE  (i \in DOMAIN a /\ b[i] = a[i]) \/ (i = Len(a) + 1 /\ b[i] = s)
    <3>1. PICK n \in Nat : n = Len(a) /\ DOMAIN a = 1..n /\ DOMAIN b = 1..(n + 1)
      BY <2>4
    <3>2. \A j \in 1..n : b[j] = a[j]
      BY <2>3, <3>1
    <3>3. b[n + 1] = s
      BY <2>3, <3>1
    <3> QED BY <2>5, <3>1, <3>2, <3>3
  <2>6. t \in Holders(k)
    BY <1>6 DEF Holders
  <2> QED BY <2>1, <2>2, <2>3, <2>4, <2>5, <2>6
<1>7. IndexTypeOK'
  <2>1. ASSUME NEW k \in Kinds PROVE available'[k] \in Seq(Shards)
    BY <1>2, <1>5, <1>6
  <2>2. available' = [k \in Kinds |-> available'[k]]
    BY DEF ThreadExit
  <2>3. available' \in [Kinds -> Seq(Shards)]
    BY <2>1, <2>2
  <2>4. live' \in [Threads -> {"running", "gone"}]
    BY <1>1, <1>2
  <2>5. leased' \in [Threads -> [Kinds -> Shards \cup {NoLease}]]
    BY <1>1, <1>2
  <2> QED BY <1>1, <2>3, <2>4, <2>5 DEF IdsInv, IndexTypeOK
<1>8. LeasesHold'
  <2>1. ASSUME NEW k \in Kinds, NEW u \in Holders(k)' PROVE u \in Pools[pool]' /\ live'[u] = "running"
    BY <1>1, <1>3, <1>4, <2>1 DEF IdsInv, LeasesHold, Holders
  <2>2. ASSUME NEW k \in Kinds, NEW u \in Holders(k)', NEW v \in Holders(k)', leased'[u][k] = leased'[v][k]
        PROVE  u = v
    <3>1. u \in Holders(k) /\ v \in Holders(k) /\ leased[u][k] = leased[v][k]
      BY <1>3, <1>4, <2>2 DEF Holders
    <3> QED BY <3>1 DEF IdsInv, LeasesHold
  <2>3. ASSUME NEW k \in Kinds, NEW u \in Holders(k)', NEW i \in DOMAIN available'[k]
        PROVE  available'[k][i] # leased'[u][k]
    <3>1. u \in Holders(k) /\ u # t /\ leased'[u][k] = leased[u][k]
      BY <1>3, <1>4, <2>3 DEF Holders
    <3>2. CASE leased[t][k] = NoLease
      BY <1>5, <2>3, <3>1, <3>2 DEF IdsInv, LeasesHold
    <3>3. CASE leased[t][k] # NoLease
      BY <1>6, <2>3, <3>1, <3>3 DEF IdsInv, LeasesHold
    <3> QED BY <3>2, <3>3
  <2>4. ASSUME NEW k \in Kinds, NEW i \in DOMAIN available'[k], NEW j \in DOMAIN available'[k],
               available'[k][i] = available'[k][j]
        PROVE  i = j
    <3>1. CASE leased[t][k] = NoLease
      BY <1>5, <2>4, <3>1 DEF IdsInv, LeasesHold
    <3>2. CASE leased[t][k] # NoLease
      BY <1>6, <2>4, <3>2 DEF IdsInv, LeasesHold
    <3> QED BY <3>1, <3>2
  <2>5. ASSUME NEW k \in Kinds PROVE Cardinality(Holders(k)') + Len(available'[k]) = ThreadNum
    <3>1. Cardinality(Holders(k)) + Len(available[k]) = ThreadNum
      BY DEF IdsInv, LeasesHold
    <3>2. CASE leased[t][k] = NoLease
      <4>1. Holders(k)' = Holders(k)
        BY <1>4, <3>2 DEF Holders
      <4> QED BY <1>5, <3>1, <3>2, <4>1
    <3>3. CASE leased[t][k] # NoLease
      <4>1. Cardinality(Holders(k)') = Cardinality(Holders(k)) - 1
        BY <1>4, <1>6, <3>3, HoldersFinite, FS_RemoveElement
      <4>2. Cardinality(Holders(k)) \in Nat
        BY HoldersFinite
      <4>3. Len(available[k]) \in Nat /\ Len(available'[k]) = Len(available[k]) + 1
        BY <1>2, <1>6, <3>3
      <4> QED BY <3>1, <4>1, <4>2, <4>3
    <3> QED BY <3>2, <3>3
  <2> QED BY <2>1, <2>2, <2>3, <2>4, <2>5 DEF LeasesHold
<1>9. ShardsBounded'
  BY <1>1 DEF IdsInv, ShardsBounded
<1>10. Storing' = Storing /\ t \notin Storing
  BY <1>1 DEF Storing, NoEntry
<1>11. ASSUME NEW u \in Storing' PROVE StoringHolds(u)'
  <2>1. StoringHolds(u) /\ u # t /\ u \in Threads
    BY <1>10, <1>11 DEF IdsInv, Storing
  <2>2. PICK g : g = current[u].geometry /\ g \in Geometries
    BY <2>1 DEF StoringHolds
  <2>3. g.kind \in Kinds
    BY <2>2, KindFacts
  <2>4. leased'[u] = leased[u] /\ u \in Holders(g.kind)'
    BY <1>3, <1>4, <2>1, <2>2, <2>3 DEF StoringHolds
  <2> QED BY <1>1, <1>10, <2>1, <2>2, <2>4 DEF StoringHolds
<1>12. ASSUME NEW m \in given' PROVE GivenHolds(m)'
  BY <1>1, <1>12 DEF IdsInv, GivenHolds
<1> QED BY <1>7, <1>8, <1>9, <1>11, <1>12 DEF IdsInv

(* The lease a thread has for the geometry it takes: its own, or the last  *)
(* one available (LeasedStore::get).                                       *)
LEMMA LeaseKeeps ==
    ASSUME IdsInv, NEW t \in Threads, NEW g \in Geometries, TakeGeometry(t, g)
    PROVE  /\ LeaseOf(t, g.kind) \in Shards
           /\ leased'[t][g.kind] = LeaseOf(t, g.kind)
           /\ \A u \in Threads, k \in Kinds : leased[u][k] # NoLease => leased'[u][k] = leased[u][k]
           /\ available' \in [Kinds -> Seq(Shards)]
           /\ leased' \in [Threads -> [Kinds -> Shards \cup {NoLease}]]
           /\ LeasesHold'
<1> DEFINE kind == g.kind
<1>1. /\ pool' = pool /\ live' = live /\ t \in Pools[pool] /\ live[t] # "gone"
      /\ leased' = [leased EXCEPT ![t][kind] = LeaseOf(t, kind)]
      /\ leased[t][kind] # NoLease \/ available[kind] # <<>>
  BY DEF TakeGeometry, CanLease
<1>2. /\ leased \in [Threads -> [Kinds -> Shards \cup {NoLease}]]
      /\ available \in [Kinds -> Seq(Shards)]
      /\ live \in [Threads -> {"running", "gone"}]
  BY DEF IdsInv, IndexTypeOK
<1>3. kind \in Kinds
  BY KindFacts
<1>4. CASE leased[t][kind] # NoLease
  <2>1. LeaseOf(t, kind) = leased[t][kind] /\ leased[t][kind] \in Shards
    BY <1>2, <1>3, <1>4 DEF LeaseOf
  <2>2. leased' = leased /\ available' = available
    BY <1>1, <1>2, <1>4, <2>1 DEF TakeGeometry
  <2>3. \A k \in Kinds : Holders(k)' = Holders(k)
    BY <2>2 DEF Holders
  <2>4. LeasesHold'
    BY <1>1, <2>2, <2>3 DEF IdsInv, LeasesHold
  <2> QED BY <1>2, <2>1, <2>2, <2>4
<1>5. CASE leased[t][kind] = NoLease
  <2>1. PICK a \in Seq(Shards) : a = available[kind] /\ a # <<>>
    BY <1>1, <1>2, <1>3, <1>5
  <2>2. PICK b, s : b = Front(a) /\ s = Last(a)
    OBVIOUS
  <2>3. PICK n \in Nat \ {0} : n = Len(a)
    BY <2>1
  <2>4. /\ b \in Seq(Shards) /\ Len(b) = n - 1
        /\ \A i \in DOMAIN b : i \in DOMAIN a /\ i # n /\ b[i] = a[i]
        /\ s = a[n] /\ s \in Shards /\ n \in DOMAIN a
    BY <2>1, <2>2, <2>3, PopFacts
  <2>5. LeaseOf(t, kind) = s /\ available' = [available EXCEPT ![kind] = b]
    BY <1>5, <2>1, <2>2 DEF LeaseOf, TakeGeometry
  <2>6. /\ available'[kind] = b /\ \A k \in Kinds : k # kind => available'[k] = available[k]
        /\ leased'[t][kind] = s
        /\ \A u \in Threads, k \in Kinds : u # t \/ k # kind => leased'[u][k] = leased[u][k]
    BY <1>1, <1>2, <1>3, <2>5
  <2>7. available' \in [Kinds -> Seq(Shards)] /\ leased' \in [Threads -> [Kinds -> Shards \cup {NoLease}]]
    BY <1>1, <1>2, <1>3, <2>4, <2>5
  <2>8. s # NoLease
    BY <2>4, KindFacts
  <2>9. /\ Holders(kind)' = Holders(kind) \cup {t} /\ t \notin Holders(kind)
        /\ \A k \in Kinds : k # kind => Holders(k)' = Holders(k)
    BY <1>3, <1>5, <2>6, <2>8 DEF Holders
  <2>10. ASSUME NEW k \in Kinds, NEW u \in Holders(k)' PROVE u \in Pools[pool]' /\ live'[u] = "running"
    BY <1>1, <1>2, <2>9, <2>10 DEF IdsInv, LeasesHold
  <2>11. \A u \in Holders(kind) : leased[u][kind] # s
    BY <1>3, <2>1, <2>4 DEF IdsInv, LeasesHold
  <2>12. ASSUME NEW k \in Kinds, NEW u \in Holders(k)', NEW v \in Holders(k)', leased'[u][k] = leased'[v][k]
         PROVE  u = v
    <3>1. \A x \in Holders(k)' : x \in Threads
      BY DEF Holders
    <3>2. CASE k # kind
      BY <2>6, <2>9, <2>12, <3>1, <3>2 DEF IdsInv, LeasesHold
    <3>3. CASE k = kind
      <4>1. \A x \in Holders(kind) : x # t /\ leased'[x][kind] = leased[x][kind]
        BY <1>3, <2>6, <2>9 DEF Holders
      <4> QED BY <1>3, <2>6, <2>9, <2>11, <2>12, <3>3, <4>1 DEF IdsInv, LeasesHold
    <3> QED BY <3>2, <3>3
  <2>13. ASSUME NEW k \in Kinds, NEW u \in Holders(k)', NEW i \in DOMAIN available'[k]
         PROVE  available'[k][i] # leased'[u][k]
    <3>1. u \in Threads
      BY <2>13 DEF Holders
    <3>2. CASE k # kind
      BY <2>6, <2>9, <2>13, <3>1, <3>2 DEF IdsInv, LeasesHold
    <3>3. CASE k = kind /\ u = t
      <4>1. i \in DOMAIN a /\ i # n /\ available'[k][i] = a[i]
        BY <2>4, <2>6, <2>13, <3>3
      <4>2. a[i] # a[n]
        BY <1>3, <2>1, <2>4, <4>1 DEF IdsInv, LeasesHold
      <4> QED BY <2>4, <2>6, <3>3, <4>1, <4>2
    <3>4. CASE k = kind /\ u # t
      <4>1. i \in DOMAIN a /\ available'[k][i] = a[i]
        BY <2>4, <2>6, <2>13, <3>4
      <4>2. u \in Holders(kind) /\ leased'[u][k] = leased[u][kind]
        BY <1>3, <2>6, <2>9, <2>13, <3>1, <3>4
      <4> QED BY <1>3, <2>1, <3>4, <4>1, <4>2 DEF IdsInv, LeasesHold
    <3> QED BY <3>2, <3>3, <3>4
  <2>14. ASSUME NEW k \in Kinds, NEW i \in DOMAIN available'[k], NEW j \in DOMAIN available'[k],
                available'[k][i] = available'[k][j]
         PROVE  i = j
    <3>1. CASE k # kind
      BY <2>6, <2>14, <3>1 DEF IdsInv, LeasesHold
    <3>2. CASE k = kind
      BY <1>3, <2>1, <2>4, <2>6, <2>14, <3>2 DEF IdsInv, LeasesHold
    <3> QED BY <3>1, <3>2
  <2>15. ASSUME NEW k \in Kinds PROVE Cardinality(Holders(k)') + Len(available'[k]) = ThreadNum
    <3>1. Cardinality(Holders(k)) + Len(available[k]) = ThreadNum
      BY DEF IdsInv, LeasesHold
    <3>2. CASE k # kind
      BY <2>6, <2>9, <3>1, <3>2
    <3>3. CASE k = kind
      <4>1. PICK c \in Nat : c = Cardinality(Holders(kind)) /\ IsFiniteSet(Holders(kind))
        BY <1>3, HoldersFinite
      <4>2. Cardinality(Holders(kind) \cup {t}) = c + 1
        BY <2>9, <4>1, FS_AddElement
      <4>3. c + n = ThreadNum
        BY <2>1, <2>3, <3>1, <3>3, <4>1
      <4>4. Cardinality(Holders(k)') = c + 1 /\ Len(available'[k]) = n - 1
        BY <2>4, <2>6, <2>9, <3>3, <4>2
      <4> QED BY <4>1, <4>3, <4>4
    <3> QED BY <3>2, <3>3
  <2>16. LeasesHold'
    BY <2>10, <2>12, <2>13, <2>14, <2>15 DEF LeasesHold
  <2>17. \A u \in Threads, k \in Kinds : leased[u][k] # NoLease => leased'[u][k] = leased[u][k]
    BY <1>5, <2>6
  <2> QED BY <2>4, <2>5, <2>6, <2>7, <2>16, <2>17
<1> QED BY <1>4, <1>5

(* Taking a geometry: the size that is read is that of the thread's own    *)
(* shard, and nobody else has the geometry.                                *)
LEMMA TakeKeeps ==
    ASSUME IdsInv, NEW t \in Threads, NEW g \in unread, TakeGeometry(t, g)
    PROVE  IdsInv'
<1>1. /\ pool' = pool /\ live' = live /\ stores' = stores /\ given' = given
      /\ unread' = unread \ {g} /\ g \in Geometries
      /\ current' = [current EXCEPT ![t] = [how |-> "storing", geometry |-> g,
                                            offset |-> Len(stores[g.kind][LeaseOf(t, g.kind)])]]
  BY DEF TakeGeometry, IdsInv, IndexTypeOK
<1>2. g.kind \in Kinds
  BY <1>1, KindFacts
<1>3. /\ LeaseOf(t, g.kind) \in Shards
      /\ leased'[t][g.kind] = LeaseOf(t, g.kind)
      /\ \A u \in Threads, k \in Kinds : leased[u][k] # NoLease => leased'[u][k] = leased[u][k]
      /\ available' \in [Kinds -> Seq(Shards)]
      /\ leased' \in [Threads -> [Kinds -> Shards \cup {NoLease}]]
      /\ LeasesHold'
  BY <1>1, LeaseKeeps
<1>4. DOMAIN current = Threads /\ DOMAIN current' = Threads
  BY <1>1 DEF IdsInv, IndexTypeOK
<1>5. /\ current'[t].how = "storing" /\ current'[t].geometry = g
      /\ current'[t].offset = Len(stores[g.kind][LeaseOf(t, g.kind)])
      /\ \A u \in Threads : u # t => current'[u] = current[u]
  BY <1>1, <1>4
<1>6. IndexTypeOK'
  BY <1>1, <1>3, <1>4 DEF IdsInv, IndexTypeOK
<1>7. ShardsBounded'
  BY <1>1 DEF IdsInv, ShardsBounded
<1>8. ASSUME NEW u \in Storing', u # t
      PROVE  u \in Storing /\ StoringHolds(u) /\ current'[u] = current[u] /\ current[u].geometry # g
  <2>1. u \in Storing /\ current'[u] = current[u]
    BY <1>5, <1>8 DEF Storing
  <2>2. StoringHolds(u)
    BY <2>1 DEF IdsInv
  <2> QED BY <2>1, <2>2 DEF StoringHolds
<1>9. StoringHolds(t)'
  <2>1. g \in Geometries \ unread'
    BY <1>1
  <2>2. g \notin {m.geometry : m \in given'}
    BY <1>1 DEF IdsInv, GivenHolds
  <2>3. t \in Holders(g.kind)'
    BY <1>3, KindFacts DEF Holders
  <2>4. current'[t].offset = Len(stores'[g.kind][leased'[t][g.kind]])
    BY <1>1, <1>3, <1>5
  <2>5. \A u \in Storing' : current'[u].geometry = g => u = t
    BY <1>8
  <2> QED BY <1>5, <2>1, <2>2, <2>3, <2>4, <2>5 DEF StoringHolds
<1>10. ASSUME NEW u \in Storing', u # t PROVE StoringHolds(u)'
  <2>1. PICK h : h = current[u].geometry /\ h = current'[u].geometry
    BY <1>8, <1>10
  <2>2. /\ h \in Geometries \ unread /\ h # g /\ h \notin {m.geometry : m \in given} /\ u \in Holders(h.kind)
        /\ current[u].offset = Len(stores[h.kind][leased[u][h.kind]])
        /\ \A v \in Storing : current[v].geometry = h => v = u
    BY <1>8, <1>10, <2>1 DEF StoringHolds
  <2>3. h.kind \in Kinds /\ u \in Threads
    BY <1>10, <2>2, KindFacts DEF Storing
  <2>4. leased'[u][h.kind] = leased[u][h.kind] /\ u \in Holders(h.kind)'
    BY <1>3, <2>2, <2>3 DEF Holders
  <2>5. h \in Geometries \ unread' /\ h \notin {m.geometry : m \in given'}
    BY <1>1, <2>2
  <2>6. current'[u].offset = Len(stores'[h.kind][leased'[u][h.kind]])
    BY <1>1, <1>8, <1>10, <2>2, <2>4
  <2>7. \A v \in Storing' : current'[v].geometry = h => v = u
    BY <1>5, <1>8, <2>2
  <2> QED BY <2>1, <2>4, <2>5, <2>6, <2>7 DEF StoringHolds
<1>11. ASSUME NEW m \in given' PROVE GivenHolds(m)'
  BY <1>1, <1>11 DEF IdsInv, GivenHolds
<1> QED BY <1>3, <1>6, <1>7, <1>9, <1>10, <1>11 DEF IdsInv

(* Appending: the offset is still the size of the shard, it fits its bits, *)
(* and no other shard changes.                                             *)
LEMMA StoreKeeps ==
    ASSUME IdsInv, NEW t \in Threads, StoreGeometry(t)
    PROVE  IdsInv'
<1> DEFINE stored == {m.geometry : m \in given}
<1>1. PICK g, shard, offset, oo :
        /\ g = current[t].geometry /\ shard = leased[t][g.kind] /\ offset = current[t].offset
        /\ oo = ObjectFor(g, IdOf(shard, offset))
  OBVIOUS
<1>2. /\ pool' = pool /\ live' = live /\ unread' = unread /\ available' = available /\ leased' = leased
      /\ current' = [current EXCEPT ![t] = NoEntry]
      /\ stores' = [stores EXCEPT ![g.kind][shard] = Append(@, g)]
      /\ given' = given \cup {[geometry |-> g, oo |-> oo]}
      /\ current[t].how = "storing"
  BY <1>1 DEF StoreGeometry
<1>3. /\ g \in Geometries \ unread /\ g \notin stored
      /\ t \in Holders(g.kind)
      /\ offset = Len(stores[g.kind][shard])
      /\ \A u \in Storing : current[u].geometry = g => u = t
  BY <1>1, <1>2 DEF IdsInv, Storing, StoringHolds
<1>4. g.kind \in Kinds /\ shard \in Shards
  BY <1>1, <1>3, KindFacts DEF IdsInv, IndexTypeOK, Holders
<1>5. PICK old \in Seq(Geometries \cup {Sentinel}) : old = stores[g.kind][shard]
  BY <1>4 DEF IdsInv, IndexTypeOK
<1>6. PICK new : new = Append(old, g)
  OBVIOUS
<1>7. /\ new \in Seq(Geometries \cup {Sentinel}) /\ offset \in Nat /\ offset = Len(old)
      /\ Len(new) = offset + 1 /\ new[offset + 1] = g
      /\ \A i \in 1..offset : new[i] = old[i]
  BY <1>3, <1>5, <1>6
<1>8. stores \in [Kinds -> [Shards -> Seq(Geometries \cup {Sentinel})]]
  BY DEF IdsInv, IndexTypeOK
<1>9. /\ stores'[g.kind][shard] = new
      /\ \A k \in Kinds, s \in Shards : k # g.kind \/ s # shard => stores'[k][s] = stores[k][s]
      /\ stores' \in [Kinds -> [Shards -> Seq(Geometries \cup {Sentinel})]]
  BY <1>2, <1>4, <1>5, <1>6, <1>7, <1>8
<1>10. {m.geometry : m \in given'} = stored \cup {g}
  <2>1. PICK n : n = [geometry |-> g, oo |-> oo] /\ n.geometry = g
    <3>1. [geometry |-> g, oo |-> oo].geometry = g
      OBVIOUS
    <3> QED BY <3>1
  <2>2. given' = given \cup {n}
    BY <1>2, <2>1
  <2> QED BY <2>1, <2>2
<1>11. stored \subseteq Geometries \ {g}
  BY <1>3 DEF IdsInv, GivenHolds
<1>12. PICK c \in Nat : /\ c = Cardinality(stored) /\ Cardinality(stored \cup {g}) = c + 1
                        /\ c + 1 <= Cardinality(Geometries)
  <2>1. IsFiniteSet(Geometries) /\ IsFiniteSet(stored)
    BY <1>11, CapacityAssumption, FS_Subset
  <2>2. Cardinality(stored) \in Nat /\ Cardinality(stored \cup {g}) = Cardinality(stored) + 1
    BY <1>3, <2>1, FS_AddElement, FS_CardinalityType
  <2>3. Cardinality(stored \cup {g}) <= Cardinality(Geometries)
    BY <1>3, <1>11, <2>1, FS_Subset
  <2> QED BY <2>2, <2>3
<1> HIDE DEF stored
<1>13. \A k \in Kinds, s \in Shards : Len(stores[k][s]) <= 1 + c
  <2>1. ASSUME NEW k \in Kinds, NEW s \in Shards PROVE Len(stores[k][s]) <= 1 + Cardinality(stored)
    BY DEF IdsInv, ShardsBounded, stored
  <2> QED BY <1>12, <2>1
<1>14. PICK W \in Nat : W = 2^(IdBits - ShardBits) /\ offset < W
  <2>1. Cardinality(Geometries) \in Nat /\ 2^(IdBits - ShardBits) \in Nat /\ Cardinality(Geometries) < 2^(IdBits - ShardBits)
    BY CapacityAssumption, FS_CardinalityType
  <2>2. offset <= 1 + c
    BY <1>3, <1>4, <1>13
  <2> QED BY <1>7, <1>12, <2>1, <2>2
<1>15. IndexTypeOK'
  BY <1>2, <1>9 DEF IdsInv, IndexTypeOK
<1>16. \A k \in Kinds : Holders(k)' = Holders(k)
  BY <1>2 DEF Holders
<1>17. LeasesHold'
  BY <1>2, <1>16 DEF IdsInv, LeasesHold
<1>18. ShardsBounded'
  <2>1. ASSUME NEW k \in Kinds, NEW s \in Shards PROVE Len(stores'[k][s]) <= 1 + (c + 1)
    <3>1. Len(stores[k][s]) \in Nat /\ Len(stores[k][s]) <= 1 + c
      BY <1>8, <1>13
    <3>2. CASE k = g.kind /\ s = shard
      <4>1. offset <= 1 + c /\ Len(stores'[k][s]) = offset + 1
        BY <1>3, <1>7, <1>9, <3>1, <3>2
      <4> QED BY <1>7, <1>12, <4>1
    <3>3. CASE k # g.kind \/ s # shard
      BY <1>9, <1>12, <3>1, <3>3
    <3> QED BY <3>2, <3>3
  <2>2. Cardinality({m.geometry : m \in given'}) = c + 1
    BY <1>10, <1>12
  <2> QED BY <2>1, <2>2 DEF ShardsBounded
<1>19. ASSUME NEW u \in Storing' PROVE StoringHolds(u)'
  <2>1. u # t /\ u \in Storing /\ current'[u] = current[u] /\ u \in Threads
    BY <1>2, <1>19 DEF Storing, NoEntry, IdsInv, IndexTypeOK
  <2>2. PICK h : h = current[u].geometry /\ h = current'[u].geometry
    BY <2>1
  <2>3. /\ h \in Geometries \ unread /\ h \notin stored /\ u \in Holders(h.kind) /\ h # g
        /\ current[u].offset = Len(stores[h.kind][leased[u][h.kind]])
        /\ \A v \in Storing : current[v].geometry = h => v = u
    BY <1>3, <2>1, <2>2 DEF IdsInv, StoringHolds, stored
  <2>4. h.kind \in Kinds /\ leased[u][h.kind] \in Shards
    BY <2>1, <2>3, KindFacts DEF IdsInv, IndexTypeOK, Holders
  <2>5. h.kind # g.kind \/ leased[u][h.kind] # shard
    BY <1>1, <1>3, <1>4, <2>1, <2>3 DEF IdsInv, LeasesHold
  <2>6. stores'[h.kind][leased'[u][h.kind]] = stores[h.kind][leased[u][h.kind]]
    BY <1>2, <1>9, <2>4, <2>5
  <2>7. h \notin {m.geometry : m \in given'} /\ u \in Holders(h.kind)'
    BY <1>10, <1>16, <2>3, <2>4
  <2>8. \A v \in Storing' : v \in Storing /\ current'[v] = current[v]
    BY <1>2 DEF Storing, NoEntry, IdsInv, IndexTypeOK
  <2>9. \A v \in Storing' : current'[v].geometry = h => v = u
    BY <2>3, <2>8
  <2> QED BY <1>2, <2>1, <2>2, <2>3, <2>6, <2>7, <2>9 DEF StoringHolds
<1>20. ASSUME NEW m \in given' PROVE GivenHolds(m)'
  <2>1. CASE m \in given
    <3>1. PICK s \in Shards, o \in 0..(W - 1) :
            /\ m.oo.objectID = IdOf(s, o)
            /\ o < Len(stores[m.geometry.kind][s]) /\ stores[m.geometry.kind][s][o + 1] = m.geometry
      BY <1>14, <2>1 DEF IdsInv, GivenHolds
    <3>2. m.geometry \in Geometries \ unread /\ m.geometry.kind \in Kinds
      BY <2>1, KindFacts DEF IdsInv, GivenHolds
    <3>3. o < Len(stores'[m.geometry.kind][s]) /\ stores'[m.geometry.kind][s][o + 1] = m.geometry
      <4>1. CASE m.geometry.kind = g.kind /\ s = shard
        <5>1. o < offset /\ o + 1 \in 1..offset /\ old[o + 1] = m.geometry
          BY <1>3, <1>5, <1>7, <3>1, <4>1
        <5> QED BY <1>7, <1>9, <4>1, <5>1
      <4>2. CASE m.geometry.kind # g.kind \/ s # shard
        BY <1>9, <3>1, <3>2, <4>2
      <4> QED BY <4>1, <4>2
    <3> QED BY <1>2, <1>14, <3>1, <3>2, <3>3 DEF GivenHolds
  <2>2. CASE m = [geometry |-> g, oo |-> oo]
    <3>1. m.geometry = g /\ m.oo.objectID = IdOf(shard, offset)
      BY <1>1, <2>2 DEF ObjectFor
    <3>2. offset \in 0..(W - 1) /\ offset < Len(stores'[g.kind][shard]) /\ stores'[g.kind][shard][offset + 1] = g
      BY <1>7, <1>9, <1>14
    <3> QED BY <1>2, <1>3, <1>4, <1>14, <3>1, <3>2 DEF GivenHolds
  <2> QED BY <1>2, <1>20, <2>1, <2>2
<1> QED BY <1>15, <1>17, <1>18, <1>19, <1>20 DEF IdsInv

(* Every step keeps the invariant. *)
LEMMA IdsNext == IdsInv /\ [Next]_vars => IdsInv'
<1> SUFFICES ASSUME IdsInv, [Next]_vars PROVE IdsInv'
  OBVIOUS
<1>1. DOMAIN current = Threads
  BY DEF IdsInv, IndexTypeOK
<1>2. ASSUME NEW t \in Threads, NEW g \in unread, TakeGeometry(t, g) PROVE IdsInv'
  BY <1>2, TakeKeeps
<1>3. ASSUME NEW t \in Threads, NEW e, AddLarge(t, e) \/ TryLock(t, e) PROVE IdsInv'
  <2>1. UNCHANGED <<pool, live, unread, storeVars>>
    BY <1>3 DEF AddLarge, TryLock
  <2>2. DOMAIN current' = Threads /\ \A u \in Threads : current'[u] = current[u] \/ current'[u].how # "storing"
    BY <1>1, <1>3 DEF AddLarge, TryLock
  <2> QED BY <2>1, <2>2, IndexingKeeps
<1>4. ASSUME NEW t \in Threads, AddLocked(t) \/ AddPending(t) PROVE IdsInv'
  <2>1. UNCHANGED <<pool, live, unread, storeVars>> /\ current' = [current EXCEPT ![t] = NoEntry]
    BY <1>4 DEF AddLocked, AddPending
  <2>2. DOMAIN current' = Threads /\ \A u \in Threads : current'[u] = current[u] \/ current'[u].how # "storing"
    BY <1>1, <2>1 DEF NoEntry
  <2> QED BY <2>1, <2>2, IndexingKeeps
<1>5. ASSUME NEW t \in Threads, StoreGeometry(t) \/ ThreadExit(t) PROVE IdsInv'
  BY <1>5, StoreKeeps, ExitKeeps
<1>6. CASE NextPool
  BY <1>6, NextPoolKeeps
<1>7. CASE Finalize \/ UNCHANGED vars
  <2>1. UNCHANGED <<pool, live, unread, storeVars>> /\ current' = current
    BY <1>7 DEF Finalize, vars
  <2> QED BY <1>1, <2>1, IndexingKeeps
<1> QED BY <1>2, <1>3, <1>4, <1>5, <1>6, <1>7 DEF Next

(* However threads lease shards and give them back, a shard has one owner, *)
(* whose offset stays the size of the shard until the geometry is appended *)
(* (IdsInv; LeasedStore, storePoint and its siblings).                     *)
THEOREM IdsInvariance == Spec => []IdsInv
BY IdsInit, IdsNext, PTL DEF Spec

(* For any pools of threads and any geometries that fit the bits of an id, *)
(* every object's id leads to the geometry it was made of, and no thread   *)
(* finds all shards leased (IdsResolve; LeasedStore, storePoint,           *)
(* retrievePoint and their siblings).                                      *)
THEOREM EveryIdResolves == Spec => []IdsResolve
BY IdsInvariance, IdsImplied, PTL
=============================================================================
