-------------------------- MODULE SortedStoreProofs --------------------------
(***************************************************************************)
(* Proofs about SortedStore, for any input, any number of threads and any  *)
(* group size.                                                             *)
(***************************************************************************)
EXTENDS SortedStore, FiniteSetTheorems, TLAPS

(* Every number lies in the group that StartOf names. *)
LEMMA StartOfBounds ==
  \A x \in Nat : /\ GroupIndex(x) \in Nat
                 /\ StartOf(x) \in Nat
                 /\ StartOf(x) <= x
                 /\ x < StartOf(x) + Span
BY SpanAssumption DEF GroupIndex, StartOf

(* The starts of different groups are at least Span apart. *)
LEMMA StartsApart ==
  \A q, r \in Nat : q < r => q * Span + Span <= r * Span
<1> SUFFICES ASSUME NEW q \in Nat, NEW r \in Nat, q < r
             PROVE  q * Span + Span <= r * Span
  OBVIOUS
<1>1. PICK d \in Nat : r = q + 1 + d
  <2>1. r - q - 1 \in Nat /\ r = q + 1 + (r - q - 1)
    OBVIOUS
  <2> QED BY <2>1
<1>2. r * Span = q * Span + Span + d * Span
  BY <1>1, SpanAssumption
<1>3. d * Span >= 0 /\ q * Span \in Int /\ d * Span \in Int /\ r * Span \in Int
  BY SpanAssumption
<1> QED BY <1>2, <1>3, SpanAssumption

(* Two numbers less than Span apart from the same start share a group. *)
LEMMA SameGroup ==
  ASSUME NEW x \in Nat, NEW y \in Nat, StartOf(x) <= y, y < StartOf(x) + Span
  PROVE  GroupIndex(y) = GroupIndex(x)
<1>1. /\ GroupIndex(x) \in Nat /\ GroupIndex(y) \in Nat
      /\ StartOf(x) \in Nat /\ StartOf(y) \in Nat
      /\ StartOf(y) <= y /\ y < StartOf(y) + Span
  BY StartOfBounds
<1>2. CASE GroupIndex(x) < GroupIndex(y)
  <2>1. StartOf(x) + Span <= StartOf(y)
    BY <1>1, <1>2, StartsApart DEF StartOf, GroupIndex
  <2> QED BY <1>1, <2>1, SpanAssumption
<1>3. CASE GroupIndex(y) < GroupIndex(x)
  <2>1. StartOf(y) + Span <= StartOf(x)
    BY <1>1, <1>3, StartsApart DEF StartOf, GroupIndex
  <2> QED BY <1>1, <2>1, SpanAssumption
<1> QED BY <1>1, <1>2, <1>3

(* Crossing a boundary moves the start by at least one group. *)
LEMMA NextGroup ==
  ASSUME NEW x \in Nat, NEW y \in Nat, y >= StartOf(x) + Span
  PROVE  StartOf(y) >= StartOf(x) + Span
<1>1. /\ GroupIndex(x) \in Nat /\ GroupIndex(y) \in Nat
      /\ StartOf(x) \in Nat /\ StartOf(y) \in Nat
      /\ StartOf(y) <= y /\ y < StartOf(y) + Span
  BY StartOfBounds
<1>2. GroupIndex(x) < GroupIndex(y)
  <2>1. CASE GroupIndex(y) = GroupIndex(x)
    <3>1. StartOf(x) = StartOf(y)
      BY <2>1 DEF StartOf, GroupIndex
    <3> QED BY <3>1, <1>1, SpanAssumption
  <2>2. CASE GroupIndex(y) < GroupIndex(x)
    <3>1. StartOf(y) + Span <= StartOf(x)
      BY <1>1, <2>2, StartsApart DEF StartOf, GroupIndex
    <3> QED BY <1>1, <3>1, SpanAssumption
  <2> QED BY <1>1, <2>1, <2>2
<1> QED BY <1>1, <1>2, StartsApart DEF StartOf, GroupIndex

(* Equal group numbers have equal starts. *)
LEMMA GroupGivesStart ==
  ASSUME NEW x, NEW y, GroupIndex(x) = GroupIndex(y)
  PROVE  StartOf(x) = StartOf(y)
BY DEF StartOf, GroupIndex

(* The index has room for the group of every ID. *)
LEMMA GroupInRange ==
  \A x \in Ids : x \in Nat /\ GroupIndex(x) \in GroupIndexes
<1> SUFFICES ASSUME NEW x \in Ids PROVE x \in Nat /\ GroupIndex(x) \in GroupIndexes
  OBVIOUS
<1>1. x \in Nat /\ x < MaxGroups * Span /\ MaxGroups \in Nat
  BY InputAssumption, CapacityAssumption
<1>2. GroupIndex(x) \in Nat /\ StartOf(x) \in Nat /\ StartOf(x) <= x
  BY <1>1, StartOfBounds
<1>3. GroupIndex(x) < MaxGroups
  <2>1. CASE MaxGroups < GroupIndex(x)
    <3>1. MaxGroups * Span + Span <= StartOf(x)
      BY <1>1, <1>2, <2>1, StartsApart DEF StartOf, GroupIndex
    <3> QED BY <3>1, <1>1, <1>2, SpanAssumption
  <2>2. CASE MaxGroups = GroupIndex(x)
    <3>1. StartOf(x) = MaxGroups * Span
      BY <2>2 DEF StartOf, GroupIndex
    <3> QED BY <3>1, <1>1, <1>2
  <2> QED BY <1>1, <1>2, <2>1, <2>2
<1> QED BY <1>1, <1>2, <1>3 DEF GroupIndexes

(* A group never holds more than Span IDs. *)
LEMMA GroupSmall ==
  ASSUME NEW S, NEW g \in GroupIndexes, S \subseteq IdsOfGroup(g)
  PROVE  IsFiniteSet(S) /\ Cardinality(S) \in Nat /\ Cardinality(S) <= Span
<1>1. g \in Nat /\ g * Span \in Nat
  BY CapacityAssumption, SpanAssumption DEF GroupIndexes
<1>2. S \subseteq (g * Span)..(g * Span + Span - 1)
  <2> SUFFICES ASSUME NEW x \in S PROVE x \in (g * Span)..(g * Span + Span - 1)
    OBVIOUS
  <2>1. x \in Nat /\ GroupIndex(x) = g
    BY InputAssumption DEF IdsOfGroup
  <2>2. StartOf(x) = g * Span
    BY <2>1 DEF StartOf, GroupIndex
  <2> QED BY <2>1, <2>2, StartOfBounds, <1>1, SpanAssumption
<1>3. LET I == (g * Span)..(g * Span + Span - 1)
      IN  IsFiniteSet(I) /\ Cardinality(I) = Span
  BY <1>1, SpanAssumption, FS_Interval
<1> QED BY <1>2, <1>3, FS_Subset, FS_CardinalityType, SpanAssumption

(* Batches are intervals of IDs. *)
LEMMA BatchIsInterval ==
  ASSUME NEW x \in Ids, NEW y \in Ids, NEW z \in Ids,
         x <= y, y <= z, BatchOf[x] = BatchOf[z]
  PROVE  BatchOf[y] = BatchOf[x]
<1>1. x \in Nat /\ y \in Nat /\ z \in Nat
      /\ BatchOf[x] \in Nat /\ BatchOf[y] \in Nat /\ BatchOf[z] \in Nat
  BY InputAssumption DEF Batches
<1>2. BatchOf[x] <= BatchOf[y]
  BY <1>1, InputAssumption
<1>3. BatchOf[y] <= BatchOf[z]
  BY <1>1, InputAssumption
<1> QED BY <1>1, <1>2, <1>3

-----------------------------------------------------------------------------
(* The initial state satisfies the invariant. *)
LEMMA InitIInv == InitStore => IInv
<1> SUFFICES ASSUME InitStore PROVE IInv
  OBVIOUS
<1>1. TypeOK
  BY InputAssumption DEF InitStore, TypeOK, GroupIndexes
<1>2. Published = {}
  BY DEF InitStore, Published
<1>3. TotalCounts
  BY <1>2, FS_EmptySet DEF InitStore, TotalCounts
<1>4. Accounted
  BY InputAssumption DEF InitStore, Accounted, Batches
<1>5. OnePlace /\ Filed /\ PublishedWhole /\ NoThrow /\ PhaseOrder
  BY DEF InitStore, OnePlace, Filed, PublishedWhole, NoThrow, PhaseOrder
<1>6. TodoIsSuffix /\ LocalOneGroup /\ OrphanMode /\ WholeSoFar
  BY DEF InitStore, TodoIsSuffix, LocalOneGroup, OrphanMode, WholeSoFar
<1> QED BY <1>1, <1>3, <1>4, <1>5, <1>6 DEF IInv

(* Where a worker buffer goes when it becomes orphans: the group of its    *)
(* first ID is the group of all its IDs.                                   *)
LEMMA LocalGroup ==
  ASSUME IInv, NEW t \in StoreThreads, NEW x \in local[t]
  PROVE  /\ x \in Ids /\ x \in Nat
         /\ GroupIndex(x) \in GroupIndexes
         /\ groupStart[t] = StartOf(x)
         /\ local[t] \subseteq IdsOfGroup(GroupIndex(x))
<1>1. local[t] \subseteq Ids /\ x \in Ids /\ x \in Nat /\ GroupIndex(x) \in GroupIndexes
  BY GroupInRange DEF IInv, TypeOK
<1>2. groupStart[t] # -1
  BY DEF IInv, LocalOneGroup
<1>3. PICK z \in Ids : groupStart[t] = StartOf(z)
  BY <1>2 DEF IInv, LocalOneGroup
<1>4. z \in Nat
  BY GroupInRange
<1>5. \A y \in local[t] : y \in Nat /\ GroupIndex(y) = GroupIndex(z)
  BY <1>1, <1>3, <1>4, SameGroup, GroupInRange DEF IInv, LocalOneGroup
<1>6. groupStart[t] = StartOf(x)
  BY <1>3, <1>5, GroupGivesStart
<1> QED BY <1>1, <1>5, <1>6 DEF IdsOfGroup

(* Moving a worker buffer to the orphanage keeps every ID in one place. *)
LEMMA CollectFiles ==
  ASSUME IInv, NEW t \in StoreThreads, CollectOrphans(local[t])
  PROVE  \E g \in GroupIndexes :
           /\ local[t] \subseteq IdsOfGroup(g)
           /\ local[t] # {}
           /\ orphanage' = [orphanage EXCEPT ![g] = orphanage[g] \cup local[t]]
<1>1. PICK x \in local[t] :
        orphanage' = [orphanage EXCEPT ![GroupIndex(x)] = orphanage[GroupIndex(x)] \cup local[t]]
  BY DEF CollectOrphans
<1>2. GroupIndex(x) \in GroupIndexes /\ local[t] \subseteq IdsOfGroup(GroupIndex(x))
  BY LocalGroup
<1> QED BY <1>1, <1>2

(* batchStart() *)
LEMMA BatchStartIInv ==
  ASSUME IInv, NEW t \in StoreThreads, BatchStart(t)
  PROVE  IInv'
<1> USE DEF IdsOfBatch
<1>b. /\ BatchOf \in [Ids -> Nat] /\ nextBatch \in Nat /\ nextBatch' = nextBatch + 1
      /\ nextBatch \in 1..NumBatches /\ NumBatches \in Nat
      /\ storePhase = "read" /\ storePhase' = "read" /\ toRead[t] = {}
  BY InputAssumption DEF BatchStart, Batches, IInv, TypeOK, TaskQueued
<1>c. /\ toRead' = [toRead EXCEPT ![t] = IdsOfBatch(nextBatch)]
      /\ local' = [local EXCEPT ![t] = {}]
      /\ groupStart' = [groupStart EXCEPT ![t] = -1]
      /\ collectingOrphans' = [collectingOrphans EXCEPT ![t] = TRUE]
      /\ hasBuffer' = hasBuffer /\ groups' = groups /\ total' = total /\ thrown' = thrown
  BY DEF BatchStart
<1>o. PICK g0 \in GroupIndexes \cup {-1} :
        /\ g0 = -1 => orphanage' = orphanage /\ local[t] = {}
        /\ g0 # -1 => /\ local[t] \subseteq IdsOfGroup(g0)
                      /\ orphanage' = [orphanage EXCEPT ![g0] = orphanage[g0] \cup local[t]]
  <2>1. CASE local[t] = {}
    BY <2>1 DEF BatchStart
  <2>2. CASE local[t] # {}
    <3>1. CollectOrphans(local[t])
      BY <2>2 DEF BatchStart
    <3> QED BY <3>1, CollectFiles DEF GroupIndexes
  <2> QED BY <2>1, <2>2
<1>d. /\ toRead \in [StoreThreads -> SUBSET Ids] /\ local \in [StoreThreads -> SUBSET Ids]
      /\ orphanage \in [GroupIndexes -> SUBSET Ids] /\ groups \in [GroupIndexes -> SUBSET Ids]
      /\ groupStart \in [StoreThreads -> Nat \cup {-1}] /\ collectingOrphans \in [StoreThreads -> BOOLEAN]
  BY DEF IInv, TypeOK
<1>e. \A g \in GroupIndexes : orphanage'[g] \in {orphanage[g], orphanage[g] \cup local[t]}
  BY <1>o, <1>d
<1>f. \A g \in GroupIndexes : g # g0 => orphanage'[g] = orphanage[g]
  BY <1>o, <1>d
<1>1. TypeOK'
  <2>1. orphanage' \in [GroupIndexes -> SUBSET Ids]
    BY <1>o, <1>d
  <2> QED BY <1>b, <1>c, <1>d, <2>1 DEF TypeOK, IInv
<1>2. NoThrow' /\ PublishedWhole' /\ TotalCounts'
  BY <1>c DEF IInv, NoThrow, PublishedWhole, TotalCounts, Published
<1>3. OnePlace'
  <2>1. \A x \in IdsOfBatch(nextBatch) :
          /\ \A u \in StoreThreads : x \notin toRead[u] \cup local[u]
          /\ \A g \in GroupIndexes : x \notin orphanage[g] \cup groups[g]
    BY <1>b, <1>d DEF IInv, Filed
  <2>2. \A u, v \in StoreThreads : u # v => (toRead'[u] \cup local'[u]) \cap (toRead'[v] \cup local'[v]) = {}
    BY <1>c, <1>d, <2>1 DEF IInv, OnePlace
  <2>3. \A u \in StoreThreads : toRead'[u] \cap local'[u] = {}
    BY <1>c, <1>d DEF IInv, OnePlace
  <2>4. \A u \in StoreThreads, g \in GroupIndexes :
          (toRead'[u] \cup local'[u]) \cap (orphanage'[g] \cup groups'[g]) = {}
    <3> SUFFICES ASSUME NEW u \in StoreThreads, NEW g \in GroupIndexes
                 PROVE (toRead'[u] \cup local'[u]) \cap (orphanage'[g] \cup groups'[g]) = {}
      OBVIOUS
    <3>1. CASE u = t
      BY <3>1, <1>b, <1>c, <1>d, <1>e, <2>1
    <3>2. CASE u # t
      BY <3>2, <1>c, <1>d, <1>e DEF IInv, OnePlace
    <3> QED BY <3>1, <3>2
  <2>5. \A g \in GroupIndexes : orphanage'[g] \cap groups'[g] = {}
    BY <1>c, <1>d, <1>e DEF IInv, OnePlace
  <2> QED BY <2>2, <2>3, <2>4, <2>5 DEF OnePlace
<1>4. Accounted'
  <2> SUFFICES ASSUME NEW x \in Ids, BatchOf[x] < nextBatch'
               PROVE  \/ \E u \in StoreThreads : x \in toRead'[u] \cup local'[u]
                      \/ x \in orphanage'[GroupIndex(x)] \cup groups'[GroupIndex(x)]
    BY <1>b DEF Accounted
  <2>g. GroupIndex(x) \in GroupIndexes
    BY GroupInRange
  <2>1. CASE BatchOf[x] = nextBatch
    BY <2>1, <1>c, <1>d
  <2>2. CASE BatchOf[x] < nextBatch
    <3>1. CASE x \in local[t]
      <4>1. g0 # -1 /\ GroupIndex(x) = g0
        BY <3>1, <1>o DEF IdsOfGroup
      <4> QED BY <3>1, <4>1, <1>o, <1>d
    <3>2. CASE \E u \in StoreThreads : x \in toRead[u] \cup local[u]
      BY <3>1, <3>2, <1>b, <1>c, <1>d
    <3>3. CASE x \in orphanage[GroupIndex(x)] \cup groups[GroupIndex(x)]
      BY <3>3, <2>g, <1>c, <1>e
    <3> QED BY <2>2, <3>2, <3>3, <1>b DEF IInv, Accounted
  <2> QED BY <1>b, <2>1, <2>2
<1>5. Filed'
  <2>1. \A u \in StoreThreads : \A x \in toRead'[u] \cup local'[u] : BatchOf[x] < nextBatch'
    BY <1>b, <1>c, <1>d DEF IInv, Filed
  <2>2. \A g \in GroupIndexes : \A x \in orphanage'[g] \cup groups'[g] :
          GroupIndex(x) = g /\ BatchOf[x] < nextBatch'
    <3> SUFFICES ASSUME NEW g \in GroupIndexes, NEW x \in orphanage'[g] \cup groups'[g]
                 PROVE GroupIndex(x) = g /\ BatchOf[x] < nextBatch'
      OBVIOUS
    <3>1. CASE x \in orphanage[g] \cup groups[g]
      BY <3>1, <1>b, <1>d DEF IInv, Filed
    <3>2. CASE x \in local[t] /\ g = g0
      BY <3>2, <1>b, <1>d, <1>o DEF IInv, Filed, IdsOfGroup, GroupIndexes
    <3> QED BY <3>1, <3>2, <1>c, <1>d, <1>e, <1>f
  <2> QED BY <2>1, <2>2 DEF Filed
<1>6. TodoIsSuffix'
  <2> SUFFICES ASSUME NEW u \in StoreThreads, NEW x \in toRead'[u]
               PROVE /\ \A y \in toRead'[u] \cup local'[u] : BatchOf[y] = BatchOf[x]
                     /\ \A y \in local'[u] : y < x
                     /\ \A y \in Ids : BatchOf[y] = BatchOf[x] /\ x <= y => y \in toRead'[u]
    BY DEF TodoIsSuffix
  <2>1. CASE u = t
    BY <2>1, <1>c, <1>d
  <2>2. CASE u # t
    BY <2>2, <1>c, <1>d DEF IInv, TodoIsSuffix
  <2> QED BY <2>1, <2>2
<1>7. LocalOneGroup'
  BY <1>c, <1>d DEF IInv, LocalOneGroup
<1>8. OrphanMode'
  <2> SUFFICES ASSUME NEW u \in StoreThreads, collectingOrphans'[u], NEW x \in toRead'[u]
               PROVE /\ \A y \in Ids : BatchOf[y] = BatchOf[x] => y \in toRead'[u] \cup local'[u]
                     /\ groupStart'[u] # -1 /\ local'[u] = {} /\ IsFirst(x, toRead'[u]) =>
                          groupStart'[u] = StartOf(x)
    BY DEF OrphanMode
  <2>1. CASE u = t
    BY <2>1, <1>c, <1>d
  <2>2. CASE u # t
    BY <2>2, <1>c, <1>d DEF IInv, OrphanMode
  <2> QED BY <2>1, <2>2
<1>9. WholeSoFar'
  BY <1>b, <1>c, <1>d DEF IInv, WholeSoFar
<1>10. PhaseOrder'
  BY <1>b DEF PhaseOrder
<1> QED BY <1>1, <1>2, <1>3, <1>4, <1>5, <1>6, <1>7, <1>8, <1>9, <1>10 DEF IInv

(* insert(), the thread's first call: there is a buffer for every thread. *)
LEMMA AllocateBufferIInv ==
  ASSUME IInv, NEW t \in StoreThreads, AllocateBuffer(t)
  PROVE  IInv'
<1>1. hasBuffer \subseteq StoreThreads /\ t \notin hasBuffer
  BY DEF IInv, TypeOK, AllocateBuffer
<1>2. IsFiniteSet(hasBuffer) /\ Cardinality(hasBuffer) < MaxBuffers
  <2>1. IsFiniteSet(hasBuffer) /\ Cardinality(hasBuffer) <= Cardinality(StoreThreads)
    BY <1>1, CapacityAssumption, FS_Subset
  <2>2. Cardinality(hasBuffer) # Cardinality(StoreThreads)
    BY <1>1, CapacityAssumption, FS_Subset
  <2> QED BY <2>1, <2>2, CapacityAssumption, FS_CardinalityType
<1>3. /\ hasBuffer' = hasBuffer \cup {t} /\ thrown' = thrown
      /\ UNCHANGED <<storePhase, nextBatch, toRead, collectingOrphans, groupStart,
                     local, orphanage, groups, total>>
  BY <1>2, CapacityAssumption, FS_CardinalityType DEF AllocateBuffer
<1>4. TypeOK'
  BY <1>3 DEF IInv, TypeOK
<1>5. NoThrow' /\ PublishedWhole' /\ TotalCounts' /\ OnePlace' /\ Accounted' /\ Filed'
  BY <1>3 DEF IInv, NoThrow, PublishedWhole, TotalCounts, Published, OnePlace, Accounted, Filed
<1>6. TodoIsSuffix' /\ LocalOneGroup' /\ OrphanMode' /\ WholeSoFar' /\ PhaseOrder'
  BY <1>3 DEF IInv, TodoIsSuffix, LocalOneGroup, OrphanMode, WholeSoFar, PhaseOrder
<1> QED BY <1>4, <1>5, <1>6 DEF IInv

(* insert(), the batch's first call. *)
LEMMA MarkGroupStartIInv ==
  ASSUME IInv, NEW t \in StoreThreads, MarkGroupStart(t)
  PROVE  IInv'
<1>1. PICK x \in toRead[t] : IsFirst(x, toRead[t]) /\ groupStart' = [groupStart EXCEPT ![t] = StartOf(x)]
  BY DEF MarkGroupStart
<1>2. /\ groupStart[t] = -1
      /\ UNCHANGED <<storePhase, nextBatch, toRead, collectingOrphans, hasBuffer,
                     local, orphanage, groups, total, thrown>>
  BY DEF MarkGroupStart
<1>3. /\ x \in Ids /\ x \in Nat /\ StartOf(x) \in Nat /\ x < StartOf(x) + Span
      /\ groupStart \in [StoreThreads -> Nat \cup {-1}] /\ toRead \in [StoreThreads -> SUBSET Ids]
      /\ local \in [StoreThreads -> SUBSET Ids] /\ Ids \subseteq Nat
  BY StartOfBounds, InputAssumption DEF IInv, TypeOK
<1>4. TypeOK'
  BY <1>1, <1>2, <1>3 DEF IInv, TypeOK
<1>5. NoThrow' /\ PublishedWhole' /\ TotalCounts' /\ OnePlace' /\ Accounted' /\ Filed'
  BY <1>2 DEF IInv, NoThrow, PublishedWhole, TotalCounts, Published, OnePlace, Accounted, Filed
<1>6. TodoIsSuffix' /\ PhaseOrder'
  BY <1>2 DEF IInv, TodoIsSuffix, PhaseOrder
<1>7. LocalOneGroup'
  BY <1>1, <1>2, <1>3 DEF IInv, LocalOneGroup
<1>8. WholeSoFar'
  BY <1>1, <1>2, <1>3 DEF IInv, WholeSoFar, LocalOneGroup
<1>9. OrphanMode'
  <2> SUFFICES ASSUME NEW u \in StoreThreads, collectingOrphans'[u], NEW y \in toRead'[u]
               PROVE /\ \A z \in Ids : BatchOf[z] = BatchOf[y] => z \in toRead'[u] \cup local'[u]
                     /\ groupStart'[u] # -1 /\ local'[u] = {} /\ IsFirst(y, toRead'[u]) =>
                          groupStart'[u] = StartOf(y)
    BY DEF OrphanMode
  <2>1. \A z \in Ids : BatchOf[z] = BatchOf[y] => z \in toRead'[u] \cup local'[u]
    BY <1>2 DEF IInv, OrphanMode
  <2>2. CASE u = t /\ IsFirst(y, toRead[t])
    <3>1. y = x
      BY <2>2, <1>1, <1>3 DEF IsFirst
    <3> QED BY <2>1, <2>2, <3>1, <1>1, <1>3, SpanAssumption
  <2>3. CASE u # t
    BY <2>1, <2>3, <1>1, <1>2, <1>3 DEF IInv, OrphanMode
  <2> QED BY <2>1, <2>2, <2>3, <1>2
<1> QED BY <1>4, <1>5, <1>6, <1>7, <1>8, <1>9 DEF IInv

(* What the loops of insert() know about the next element. *)
LEMMA NextElementFacts ==
  ASSUME IInv, NEW t \in StoreThreads, NEW x, NextElement(t, x)
  PROVE  /\ x \in toRead[t] /\ x \in Ids /\ x \in Nat /\ Ids \subseteq Nat
         /\ \A y \in toRead[t] : x <= y
         /\ groupStart[t] \in Nat /\ groupStart[t] # -1
         /\ storePhase = "read" /\ thrown = "none"
         /\ toRead \in [StoreThreads -> SUBSET Ids] /\ local \in [StoreThreads -> SUBSET Ids]
         /\ orphanage \in [GroupIndexes -> SUBSET Ids]
         /\ groups \in [GroupIndexes -> SUBSET Ids]
         /\ groupStart \in [StoreThreads -> Nat \cup {-1}]
         /\ collectingOrphans \in [StoreThreads -> BOOLEAN]
         /\ \E z \in Ids : z \in Nat /\ groupStart[t] = StartOf(z)
BY InputAssumption DEF NextElement, Inserting, IsFirst, IInv, TypeOK, LocalOneGroup

(* The parts of the invariant that a step of t does not touch for others. *)
LEMMA PushSameGroupIInv ==
  ASSUME IInv, NEW t \in StoreThreads, NEW x, PushSameGroup(t, x)
  PROVE  IInv'
<1>1. NextElement(t, x) /\ x < groupStart[t] + Span
  BY NextElementFacts, SpanAssumption DEF PushSameGroup, Crosses
<1>2. /\ local' = [local EXCEPT ![t] = local[t] \cup {x}]
      /\ toRead' = [toRead EXCEPT ![t] = toRead[t] \ {x}]
      /\ UNCHANGED <<storePhase, nextBatch, collectingOrphans, groupStart, hasBuffer,
                     orphanage, groups, total, thrown>>
  BY DEF PushSameGroup
<1>3. /\ x \in toRead[t] /\ x \in Ids /\ x \in Nat /\ Ids \subseteq Nat
      /\ \A y \in toRead[t] : x <= y
      /\ groupStart[t] \in Nat /\ groupStart[t] # -1
      /\ toRead \in [StoreThreads -> SUBSET Ids] /\ local \in [StoreThreads -> SUBSET Ids]
      /\ groupStart \in [StoreThreads -> Nat \cup {-1}]
  BY <1>1, NextElementFacts
<1>4. TypeOK'
  BY <1>2, <1>3 DEF IInv, TypeOK
<1>5. NoThrow' /\ PublishedWhole' /\ TotalCounts' /\ PhaseOrder'
  <2>1. storePhase = "read"
    BY <1>1, NextElementFacts
  <2> QED BY <1>2, <2>1 DEF IInv, NoThrow, PublishedWhole, TotalCounts, Published, PhaseOrder
<1>6. \A u \in StoreThreads : toRead'[u] \cup local'[u] = toRead[u] \cup local[u]
  BY <1>2, <1>3
<1>7. OnePlace' /\ Filed'
  <2>1. \A u \in StoreThreads : toRead'[u] \cap local'[u] = {}
    BY <1>2, <1>3 DEF IInv, OnePlace
  <2> QED BY <1>2, <1>6, <2>1 DEF IInv, OnePlace, Filed
<1>8. Accounted'
  BY <1>2, <1>6 DEF IInv, Accounted
<1>9. TodoIsSuffix'
  <2> SUFFICES ASSUME NEW u \in StoreThreads, NEW y \in toRead'[u]
               PROVE /\ \A z \in toRead'[u] \cup local'[u] : BatchOf[z] = BatchOf[y]
                     /\ \A z \in local'[u] : z < y
                     /\ \A z \in Ids : BatchOf[z] = BatchOf[y] /\ y <= z => z \in toRead'[u]
    BY DEF TodoIsSuffix
  <2>1. y \in toRead[u] /\ (u = t => y # x) /\ (u = t => x < y)
    BY <1>2, <1>3
  <2>2. \A z \in toRead'[u] \cup local'[u] : BatchOf[z] = BatchOf[y]
    BY <1>6, <2>1 DEF IInv, TodoIsSuffix
  <2>3. \A z \in local'[u] : z < y
    BY <1>2, <1>3, <2>1 DEF IInv, TodoIsSuffix
  <2>4. \A z \in Ids : BatchOf[z] = BatchOf[y] /\ y <= z => z \in toRead'[u]
    BY <1>2, <1>3, <2>1 DEF IInv, TodoIsSuffix
  <2> QED BY <2>2, <2>3, <2>4
<1>10. LocalOneGroup'
  <2>1. groupStart[t] <= x
    <3>1. CASE local[t] = {}
      <4>1. collectingOrphans[t]
        BY <3>1, <1>1, NextElementFacts DEF IInv, WholeSoFar
      <4>2. groupStart[t] = StartOf(x)
        BY <3>1, <4>1, <1>3 DEF IInv, OrphanMode, IsFirst
      <4> QED BY <4>2, <1>3, StartOfBounds
    <3>2. CASE local[t] # {}
      <4>1. PICK y \in local[t] : TRUE
        BY <3>2
      <4>2. y \in Nat /\ groupStart[t] <= y /\ y < x
        BY <1>3 DEF IInv, LocalOneGroup, TodoIsSuffix
      <4> QED BY <4>2, <1>3
    <3> QED BY <3>1, <3>2
  <2> QED BY <1>1, <1>2, <1>3, <2>1 DEF IInv, LocalOneGroup
<1>11. OrphanMode'
  <2> SUFFICES ASSUME NEW u \in StoreThreads, collectingOrphans'[u], NEW y \in toRead'[u]
               PROVE /\ \A z \in Ids : BatchOf[z] = BatchOf[y] => z \in toRead'[u] \cup local'[u]
                     /\ groupStart'[u] # -1 /\ local'[u] = {} /\ IsFirst(y, toRead'[u]) =>
                          groupStart'[u] = StartOf(y)
    BY DEF OrphanMode
  <2>1. \A z \in Ids : BatchOf[z] = BatchOf[y] => z \in toRead'[u] \cup local'[u]
    BY <1>2, <1>3, <1>6 DEF IInv, OrphanMode
  <2>2. CASE u = t
    BY <2>1, <2>2, <1>2, <1>3
  <2>3. CASE u # t
    BY <2>1, <2>3, <1>2, <1>3 DEF IInv, OrphanMode
  <2> QED BY <2>2, <2>3
<1>12. WholeSoFar'
  <2> SUFFICES ASSUME NEW u \in StoreThreads, storePhase = "read", ~collectingOrphans[u]
               PROVE /\ local'[u] # {}
                     /\ toRead'[u] # {} =>
                          \A y \in Ids : groupStart[u] <= y /\ (\A z \in toRead'[u] : y < z)
                                           => y \in local'[u]
    BY <1>2 DEF WholeSoFar
  <2>1. CASE u # t
    BY <2>1, <1>2, <1>3 DEF IInv, WholeSoFar
  <2>2. CASE u = t
    <3>1. local'[t] = local[t] \cup {x} /\ toRead'[t] = toRead[t] \ {x}
      BY <1>2, <1>3
    <3> SUFFICES ASSUME NEW z \in toRead'[t], NEW y \in Ids, groupStart[t] <= y,
                        \A w \in toRead'[t] : y < w
                 PROVE  y \in local'[t]
      BY <2>2, <3>1
    <3>2. z \in toRead[t] /\ z \in Ids /\ y < z /\ BatchOf[z] = BatchOf[x]
      BY <3>1, <1>3 DEF IInv, TodoIsSuffix
    <3>3. CASE y < x
      <4>1. \A w \in toRead[t] : y < w
        BY <3>3, <1>3
      <4> QED BY <4>1, <2>2, <3>1, <1>3 DEF IInv, WholeSoFar
    <3>4. CASE x < y
      <4>1. BatchOf[y] = BatchOf[x]
        BY <3>2, <3>4, <1>3, BatchIsInterval
      <4>2. y \in toRead[t]
        BY <4>1, <3>4, <1>3 DEF IInv, TodoIsSuffix
      <4> QED BY <4>2, <3>4, <3>1, <1>3
    <3> QED BY <3>1, <3>3, <3>4, <1>3
  <2> QED BY <2>1, <2>2
<1> QED BY <1>4, <1>5, <1>7, <1>8, <1>9, <1>10, <1>11, <1>12 DEF IInv

(* The two iterations of insert() that enter a later group leave only x in *)
(* the buffer; the unread IDs and the other threads are treated alike.     *)
LEMMA EnterGroup ==
  ASSUME IInv, NEW t \in StoreThreads, NEW x, NextElement(t, x),
         local' = [local EXCEPT ![t] = {x}],
         toRead' = [toRead EXCEPT ![t] = toRead[t] \ {x}],
         groupStart' = [groupStart EXCEPT ![t] = StartOf(x)],
         collectingOrphans' = [collectingOrphans EXCEPT ![t] = FALSE],
         storePhase' = storePhase,
         \A y \in Ids : StartOf(x) <= y /\ y < x => FALSE
  PROVE  TodoIsSuffix' /\ LocalOneGroup' /\ OrphanMode' /\ WholeSoFar'
<1>3. /\ x \in toRead[t] /\ x \in Ids /\ x \in Nat /\ Ids \subseteq Nat
      /\ \A y \in toRead[t] : x <= y
      /\ toRead \in [StoreThreads -> SUBSET Ids] /\ local \in [StoreThreads -> SUBSET Ids]
      /\ groupStart \in [StoreThreads -> Nat \cup {-1}]
      /\ collectingOrphans \in [StoreThreads -> BOOLEAN]
      /\ StartOf(x) \in Nat /\ StartOf(x) <= x /\ x < StartOf(x) + Span
  BY NextElementFacts, StartOfBounds
<1>1. TodoIsSuffix'
  <2> SUFFICES ASSUME NEW u \in StoreThreads, NEW y \in toRead'[u]
               PROVE /\ \A z \in toRead'[u] \cup local'[u] : BatchOf[z] = BatchOf[y]
                     /\ \A z \in local'[u] : z < y
                     /\ \A z \in Ids : BatchOf[z] = BatchOf[y] /\ y <= z => z \in toRead'[u]
    BY DEF TodoIsSuffix
  <2>1. CASE u # t
    BY <2>1, <1>3 DEF IInv, TodoIsSuffix
  <2>2. CASE u = t
    <3>1. toRead'[t] = toRead[t] \ {x} /\ local'[t] = {x} /\ y \in toRead[t] /\ x < y /\ y \in Ids
      BY <2>2, <1>3
    <3>2. \A z \in toRead[t] : BatchOf[z] = BatchOf[y]
      BY <3>1 DEF IInv, TodoIsSuffix
    <3>3. \A z \in Ids : BatchOf[z] = BatchOf[y] /\ y <= z => z \in toRead[t] \ {x}
      BY <3>1, <1>3 DEF IInv, TodoIsSuffix
    <3> QED BY <2>2, <3>1, <3>2, <3>3, <1>3
  <2> QED BY <2>1, <2>2
<1>2. LocalOneGroup'
  <2> SUFFICES ASSUME NEW u \in StoreThreads
               PROVE /\ groupStart'[u] = -1 => local'[u] = {} /\ collectingOrphans'[u]
                     /\ groupStart'[u] # -1 => \E z \in Ids : groupStart'[u] = StartOf(z)
                     /\ \A z \in local'[u] : groupStart'[u] <= z /\ z < groupStart'[u] + Span
    BY DEF LocalOneGroup
  <2>1. CASE u # t
    BY <2>1, <1>3 DEF IInv, LocalOneGroup
  <2>2. CASE u = t
    BY <2>2, <1>3
  <2> QED BY <2>1, <2>2
<1>4. OrphanMode'
  <2> SUFFICES ASSUME NEW u \in StoreThreads, collectingOrphans'[u], NEW y \in toRead'[u]
               PROVE /\ \A z \in Ids : BatchOf[z] = BatchOf[y] => z \in toRead'[u] \cup local'[u]
                     /\ groupStart'[u] # -1 /\ local'[u] = {} /\ IsFirst(y, toRead'[u]) =>
                          groupStart'[u] = StartOf(y)
    BY DEF OrphanMode
  <2>1. u # t
    BY <1>3
  <2> QED BY <2>1, <1>3 DEF IInv, OrphanMode
<1>5. WholeSoFar'
  <2> SUFFICES ASSUME NEW u \in StoreThreads, storePhase = "read", ~collectingOrphans'[u]
               PROVE /\ local'[u] # {}
                     /\ toRead'[u] # {} =>
                          \A y \in Ids : groupStart'[u] <= y /\ (\A z \in toRead'[u] : y < z)
                                           => y \in local'[u]
    BY DEF WholeSoFar
  <2>1. CASE u # t
    BY <2>1, <1>3 DEF IInv, WholeSoFar
  <2>2. CASE u = t
    <3>1. local'[t] = {x} /\ toRead'[t] = toRead[t] \ {x} /\ groupStart'[t] = StartOf(x)
      BY <1>3
    <3> SUFFICES ASSUME NEW z \in toRead'[t], NEW y \in Ids, StartOf(x) <= y,
                        \A w \in toRead'[t] : y < w
                 PROVE  y = x
      BY <2>2, <3>1
    <3>2. z \in toRead[t] /\ z \in Ids /\ y < z /\ BatchOf[z] = BatchOf[x] /\ y \in Nat
      BY <3>1, <1>3 DEF IInv, TodoIsSuffix
    <3>3. ~(y < x)
      OBVIOUS
    <3>4. CASE x < y
      <4>1. BatchOf[y] = BatchOf[x]
        BY <3>2, <3>4, <1>3, BatchIsInterval
      <4>2. y \in toRead[t]
        BY <4>1, <3>4, <1>3 DEF IInv, TodoIsSuffix
      <4> QED BY <4>2, <3>4, <3>1, <1>3
    <3> QED BY <3>2, <3>3, <3>4, <1>3
  <2> QED BY <2>1, <2>2
<1> QED BY <1>1, <1>2, <1>4, <1>5

(* insert(), leaving orphan mode. *)
LEMMA LeaveOrphanModeIInv ==
  ASSUME IInv, NEW t \in StoreThreads, NEW x, LeaveOrphanMode(t, x)
  PROVE  IInv'
<1>1. NextElement(t, x) /\ collectingOrphans[t] /\ x >= groupStart[t] + Span
  BY DEF LeaveOrphanMode, Crosses
<1>2. /\ local' = [local EXCEPT ![t] = {x}]
      /\ toRead' = [toRead EXCEPT ![t] = toRead[t] \ {x}]
      /\ groupStart' = [groupStart EXCEPT ![t] = StartOf(x)]
      /\ collectingOrphans' = [collectingOrphans EXCEPT ![t] = FALSE]
      /\ UNCHANGED <<storePhase, nextBatch, hasBuffer, groups, total, thrown>>
  BY DEF LeaveOrphanMode
<1>3. /\ x \in toRead[t] /\ x \in Ids /\ x \in Nat /\ Ids \subseteq Nat
      /\ \A y \in toRead[t] : x <= y
      /\ groupStart[t] \in Nat /\ groupStart[t] # -1 /\ storePhase = "read"
      /\ toRead \in [StoreThreads -> SUBSET Ids] /\ local \in [StoreThreads -> SUBSET Ids]
      /\ orphanage \in [GroupIndexes -> SUBSET Ids] /\ groups \in [GroupIndexes -> SUBSET Ids]
      /\ groupStart \in [StoreThreads -> Nat \cup {-1}]
      /\ collectingOrphans \in [StoreThreads -> BOOLEAN]
      /\ StartOf(x) \in Nat
  BY <1>1, NextElementFacts, StartOfBounds
<1>4. PICK g0 \in GroupIndexes :
        /\ local[t] \subseteq IdsOfGroup(g0)
        /\ local[t] # {}
        /\ orphanage' = [orphanage EXCEPT ![g0] = orphanage[g0] \cup local[t]]
  BY CollectFiles DEF LeaveOrphanMode
<1>5. \A y \in Ids : StartOf(x) <= y /\ y < x => FALSE
  <2> SUFFICES ASSUME NEW y \in Ids, StartOf(x) <= y, y < x PROVE FALSE
    OBVIOUS
  <2>1. PICK f \in local[t] : TRUE
    BY <1>4
  <2>2. PICK z \in Ids : z \in Nat /\ groupStart[t] = StartOf(z)
    BY <1>1, NextElementFacts
  <2>3. StartOf(x) >= groupStart[t] + Span
    BY <1>1, <1>3, <2>2, NextGroup
  <2>4. f \in Ids /\ f < groupStart[t] + Span /\ BatchOf[f] = BatchOf[x]
    BY <1>3 DEF IInv, LocalOneGroup, TodoIsSuffix
  <2>5. BatchOf[y] = BatchOf[f]
    BY <2>3, <2>4, <1>3, SpanAssumption, BatchIsInterval
  <2>6. y \in toRead[t] \cup local[t]
    BY <2>4, <2>5, <1>1, <1>3 DEF IInv, OrphanMode
  <2>7. y \in local[t]
    BY <2>6, <1>3
  <2>8. y < groupStart[t] + Span
    BY <2>7 DEF IInv, LocalOneGroup
  <2> QED BY <2>3, <2>8, <1>3, SpanAssumption
<1>6. TodoIsSuffix' /\ LocalOneGroup' /\ OrphanMode' /\ WholeSoFar'
  BY <1>1, <1>2, <1>5, EnterGroup
<1>7. TypeOK'
  <2>1. orphanage' \in [GroupIndexes -> SUBSET Ids]
    BY <1>3, <1>4
  <2> QED BY <1>2, <1>3, <2>1 DEF IInv, TypeOK
<1>8. NoThrow' /\ PublishedWhole' /\ TotalCounts' /\ PhaseOrder'
  BY <1>2, <1>3 DEF IInv, NoThrow, PublishedWhole, TotalCounts, Published, PhaseOrder
<1>9. /\ \A u \in StoreThreads : u # t => toRead'[u] = toRead[u] /\ local'[u] = local[u]
      /\ toRead'[t] \cup local'[t] = toRead[t]
      /\ \A g \in GroupIndexes : g # g0 => orphanage'[g] = orphanage[g]
      /\ orphanage'[g0] = orphanage[g0] \cup local[t]
  BY <1>2, <1>3, <1>4
<1>10. OnePlace'
  <2>1. \A u, v \in StoreThreads : u # v => (toRead'[u] \cup local'[u]) \cap (toRead'[v] \cup local'[v]) = {}
    BY <1>9 DEF IInv, OnePlace
  <2>2. \A u \in StoreThreads : toRead'[u] \cap local'[u] = {}
    BY <1>2, <1>3, <1>9 DEF IInv, OnePlace
  <2>3. \A u \in StoreThreads, g \in GroupIndexes :
          (toRead'[u] \cup local'[u]) \cap (orphanage'[g] \cup groups'[g]) = {}
    <3> SUFFICES ASSUME NEW u \in StoreThreads, NEW g \in GroupIndexes
                 PROVE (toRead'[u] \cup local'[u]) \cap (orphanage'[g] \cup groups[g]) = {}
      BY <1>2
    <3>1. toRead'[u] \cup local'[u] \subseteq toRead[u] \cup local[u]
      BY <1>9
    <3>2. (toRead'[u] \cup local'[u]) \cap local[t] = {}
      BY <1>9 DEF IInv, OnePlace
    <3>3. orphanage'[g] \subseteq orphanage[g] \cup local[t]
      BY <1>9
    <3> QED BY <3>1, <3>2, <3>3 DEF IInv, OnePlace
  <2>4. \A g \in GroupIndexes : orphanage'[g] \cap groups'[g] = {}
    BY <1>2, <1>9 DEF IInv, OnePlace
  <2> QED BY <2>1, <2>2, <2>3, <2>4 DEF OnePlace
<1>11. Accounted'
  <2> SUFFICES ASSUME NEW y \in Ids
               PROVE  \/ BatchOf[y] >= nextBatch
                      \/ \E u \in StoreThreads : y \in toRead'[u] \cup local'[u]
                      \/ y \in orphanage'[GroupIndex(y)] \cup groups[GroupIndex(y)]
    BY <1>2 DEF Accounted
  <2>1. GroupIndex(y) \in GroupIndexes
    BY GroupInRange
  <2>2. CASE y \in local[t]
    BY <2>1, <2>2, <1>4, <1>9 DEF IdsOfGroup
  <2>3. CASE y \in orphanage[GroupIndex(y)] \cup groups[GroupIndex(y)]
    BY <2>1, <2>3, <1>9
  <2>4. CASE \E u \in StoreThreads : y \in toRead[u] \cup local[u]
    BY <2>2, <2>4, <1>9
  <2> QED BY <2>2, <2>3, <2>4 DEF IInv, Accounted
<1>12. Filed'
  <2>1. \A u \in StoreThreads : \A y \in toRead'[u] \cup local'[u] : BatchOf[y] < nextBatch
    BY <1>9 DEF IInv, Filed
  <2>2. \A g \in GroupIndexes : \A y \in orphanage'[g] \cup groups[g] :
          GroupIndex(y) = g /\ BatchOf[y] < nextBatch
    BY <1>4, <1>9 DEF IInv, Filed, IdsOfGroup
  <2> QED BY <1>2, <2>1, <2>2 DEF Filed
<1> QED BY <1>6, <1>7, <1>8, <1>10, <1>11, <1>12 DEF IInv

(* publishGroup() on a whole group of which nothing is in the index. *)
LEMMA PublishWhole ==
  ASSUME IInv, NEW g \in GroupIndexes, IdsOfGroup(g) # {}, groups[g] = {},
         PublishGroup(IdsOfGroup(g))
  PROVE  /\ thrown' = "none"
         /\ groups' = [groups EXCEPT ![g] = IdsOfGroup(g)]
         /\ Published' = Published \cup IdsOfGroup(g)
         /\ total' \in Nat
         /\ total' = Cardinality(Published')
<1> DEFINE S == IdsOfGroup(g)
<1>1. IsFiniteSet(S) /\ Cardinality(S) \in Nat /\ Cardinality(S) <= Span
  BY GroupSmall
<1>2. PICK x \in S : /\ thrown' = PublishError(x, S)
                     /\ groups' = IF PublishError(x, S) = "none"
                                  THEN [groups EXCEPT ![GroupIndex(x)] = S]
                                  ELSE groups
  BY DEF PublishGroup
<1>3. GroupIndex(x) = g
  BY DEF IdsOfGroup
<1>4. PublishError(x, S) = "none"
  BY <1>1, <1>3, SpanAssumption DEF PublishError
<1>5. groups \in [GroupIndexes -> SUBSET Ids] /\ total \in Nat
  BY DEF IInv, TypeOK
<1>6. groups' = [groups EXCEPT ![g] = S] /\ thrown' = "none"
  BY <1>2, <1>3, <1>4
<1>7. Published' = Published \cup S
  <2>1. Published' = UNION {groups'[h] : h \in GroupIndexes}
    BY DEF Published
  <2>2. \A h \in GroupIndexes : groups'[h] = IF h = g THEN S ELSE groups[h]
    BY <1>5, <1>6
  <2>3. \A y : y \in Published' <=> \E h \in GroupIndexes : y \in groups'[h]
    BY <2>1
  <2>4. \A y : y \in Published <=> \E h \in GroupIndexes : y \in groups[h]
    BY DEF Published
  <2>5. \A y : y \in Published' <=> y \in Published \/ y \in S
    BY <2>2, <2>3, <2>4
  <2> QED BY <2>5
<1>8. Published \cap S = {}
  <2> SUFFICES ASSUME NEW y \in S, NEW h \in GroupIndexes, y \in groups[h] PROVE FALSE
    BY DEF Published
  <2>1. h = g
    BY DEF IInv, Filed, IdsOfGroup
  <2> QED BY <2>1
<1>9. IsFiniteSet(Published) /\ Published \subseteq Ids
  <2>1. Published \subseteq Ids
    BY <1>5 DEF Published
  <2> QED BY <2>1, InputAssumption, FS_Subset
<1>10. Cardinality(Published \cup S) = Cardinality(Published) + Cardinality(S)
  <2>1. Cardinality(Published \cup S) =
          Cardinality(Published) + Cardinality(S) - Cardinality(Published \cap S)
    BY <1>1, <1>9, FS_Union
  <2>2. Cardinality(Published \cap S) = 0
    BY <1>8, FS_EmptySet
  <2>3. Cardinality(Published) \in Nat
    BY <1>9, FS_CardinalityType
  <2> QED BY <1>1, <2>1, <2>2, <2>3
<1>11. total' = total + Cardinality(S) /\ total = Cardinality(Published)
  BY DEF PublishGroup, IInv, TotalCounts
<1> QED BY <1>1, <1>5, <1>6, <1>7, <1>10, <1>11

(* insert(), the second loop: the buffer is the whole group, so publishing *)
(* it cannot clash with another thread.                                    *)
LEMMA PublishAndPushIInv ==
  ASSUME IInv, NEW t \in StoreThreads, NEW x, PublishAndPush(t, x)
  PROVE  /\ IInv'
         /\ \E g \in GroupIndexes : /\ IdsOfGroup(g) # {} /\ groups[g] = {}
                                    /\ Published' = Published \cup IdsOfGroup(g)
<1>1. NextElement(t, x) /\ ~collectingOrphans[t] /\ x >= groupStart[t] + Span
  BY DEF PublishAndPush, Crosses
<1>3. /\ x \in toRead[t] /\ x \in Ids /\ x \in Nat /\ Ids \subseteq Nat
      /\ \A y \in toRead[t] : x <= y
      /\ groupStart[t] \in Nat /\ groupStart[t] # -1 /\ storePhase = "read"
      /\ toRead \in [StoreThreads -> SUBSET Ids] /\ local \in [StoreThreads -> SUBSET Ids]
      /\ orphanage \in [GroupIndexes -> SUBSET Ids] /\ groups \in [GroupIndexes -> SUBSET Ids]
      /\ groupStart \in [StoreThreads -> Nat \cup {-1}]
      /\ collectingOrphans \in [StoreThreads -> BOOLEAN]
      /\ StartOf(x) \in Nat
  BY <1>1, NextElementFacts, StartOfBounds
<1>4. PICK f \in local[t] : TRUE
  BY <1>1, <1>3 DEF IInv, WholeSoFar
<1> DEFINE g0 == GroupIndex(f)
<1>5. /\ f \in Ids /\ f \in Nat /\ g0 \in GroupIndexes /\ groupStart[t] = StartOf(f)
      /\ local[t] \subseteq IdsOfGroup(g0)
  BY LocalGroup
<1>6. \A y \in Ids : groupStart[t] <= y /\ y < x => y \in local[t]
  <2> SUFFICES ASSUME NEW y \in Ids, groupStart[t] <= y, y < x PROVE y \in local[t]
    OBVIOUS
  <2>1. \A z \in toRead[t] : y < z
    BY <1>3
  <2> QED BY <2>1, <1>1, <1>3 DEF IInv, WholeSoFar
<1>7. local[t] = IdsOfGroup(g0)
  <2> SUFFICES ASSUME NEW y \in Ids, GroupIndex(y) = g0 PROVE y \in local[t]
    BY <1>5 DEF IdsOfGroup
  <2>1. y \in Nat /\ StartOf(y) = groupStart[t]
    BY <1>3, <1>5, GroupGivesStart
  <2>2. groupStart[t] <= y /\ y < groupStart[t] + Span
    BY <2>1, StartOfBounds
  <2> QED BY <2>1, <2>2, <1>1, <1>3, <1>6, SpanAssumption
<1>8. groups[g0] = {}
  BY <1>4, <1>5, <1>7 DEF IInv, PublishedWhole, OnePlace
<1>9. /\ thrown' = "none"
      /\ groups' = [groups EXCEPT ![g0] = IdsOfGroup(g0)]
      /\ Published' = Published \cup IdsOfGroup(g0)
      /\ total' \in Nat
      /\ total' = Cardinality(Published')
  BY <1>4, <1>5, <1>7, <1>8, PublishWhole DEF PublishAndPush
<1>10. /\ local' = [local EXCEPT ![t] = {x}]
       /\ toRead' = [toRead EXCEPT ![t] = toRead[t] \ {x}]
       /\ groupStart' = [groupStart EXCEPT ![t] = StartOf(x)]
       /\ UNCHANGED <<storePhase, nextBatch, collectingOrphans, hasBuffer, orphanage>>
  BY <1>9 DEF PublishAndPush
<1>11. \A y \in Ids : StartOf(x) <= y /\ y < x => FALSE
  <2> SUFFICES ASSUME NEW y \in Ids, StartOf(x) <= y, y < x PROVE FALSE
    OBVIOUS
  <2>1. StartOf(x) >= groupStart[t] + Span
    BY <1>1, <1>3, <1>5, NextGroup
  <2>2. y \in local[t]
    BY <2>1, <1>3, <1>6, SpanAssumption
  <2>3. y < groupStart[t] + Span
    BY <2>2 DEF IInv, LocalOneGroup
  <2> QED BY <2>1, <2>3, <1>3, SpanAssumption
<1>12. TodoIsSuffix' /\ LocalOneGroup' /\ OrphanMode' /\ WholeSoFar'
  <2>1. collectingOrphans' = [collectingOrphans EXCEPT ![t] = FALSE]
    BY <1>1, <1>3, <1>10
  <2>2. storePhase' = storePhase
    BY <1>10
  <2> QED BY <1>1, <1>10, <1>11, <2>1, <2>2, EnterGroup
<1>13. TypeOK'
  <2>1. groups' \in [GroupIndexes -> SUBSET Ids]
    BY <1>3, <1>9 DEF IdsOfGroup
  <2> QED BY <1>3, <1>9, <1>10, <2>1 DEF IInv, TypeOK
<1>14. NoThrow' /\ TotalCounts' /\ PhaseOrder'
  BY <1>3, <1>9, <1>10 DEF IInv, NoThrow, TotalCounts, PhaseOrder
<1>15. PublishedWhole'
  BY <1>3, <1>9 DEF IInv, PublishedWhole, IdsOfGroup
<1>16. /\ \A u \in StoreThreads : u # t => toRead'[u] = toRead[u] /\ local'[u] = local[u]
       /\ toRead'[t] \cup local'[t] = toRead[t]
       /\ \A g \in GroupIndexes : g # g0 => groups'[g] = groups[g]
       /\ groups'[g0] = local[t]
  BY <1>3, <1>5, <1>7, <1>9, <1>10
<1>17. OnePlace'
  <2>1. \A u, v \in StoreThreads : u # v => (toRead'[u] \cup local'[u]) \cap (toRead'[v] \cup local'[v]) = {}
    BY <1>16 DEF IInv, OnePlace
  <2>2. \A u \in StoreThreads : toRead'[u] \cap local'[u] = {}
    BY <1>3, <1>10, <1>16 DEF IInv, OnePlace
  <2>3. \A u \in StoreThreads, g \in GroupIndexes :
          (toRead'[u] \cup local'[u]) \cap (orphanage[g] \cup groups'[g]) = {}
    <3> SUFFICES ASSUME NEW u \in StoreThreads, NEW g \in GroupIndexes
                 PROVE (toRead'[u] \cup local'[u]) \cap (orphanage[g] \cup groups'[g]) = {}
      OBVIOUS
    <3>1. toRead'[u] \cup local'[u] \subseteq toRead[u] \cup local[u]
      BY <1>16
    <3>2. (toRead'[u] \cup local'[u]) \cap local[t] = {}
      BY <1>16 DEF IInv, OnePlace
    <3>3. groups'[g] \subseteq groups[g] \cup local[t]
      BY <1>16
    <3> QED BY <3>1, <3>2, <3>3 DEF IInv, OnePlace
  <2>4. \A g \in GroupIndexes : orphanage[g] \cap groups'[g] = {}
    BY <1>16 DEF IInv, OnePlace
  <2> QED BY <1>10, <2>1, <2>2, <2>3, <2>4 DEF OnePlace
<1>18. Accounted'
  <2> SUFFICES ASSUME NEW y \in Ids
               PROVE  \/ BatchOf[y] >= nextBatch
                      \/ \E u \in StoreThreads : y \in toRead'[u] \cup local'[u]
                      \/ y \in orphanage[GroupIndex(y)] \cup groups'[GroupIndex(y)]
    BY <1>10 DEF Accounted
  <2>1. GroupIndex(y) \in GroupIndexes
    BY GroupInRange
  <2>2. CASE y \in local[t]
    BY <2>1, <2>2, <1>7, <1>16 DEF IdsOfGroup
  <2>3. CASE y \in orphanage[GroupIndex(y)] \cup groups[GroupIndex(y)]
    BY <2>1, <2>3, <1>8, <1>16
  <2>4. CASE \E u \in StoreThreads : y \in toRead[u] \cup local[u]
    BY <2>2, <2>4, <1>16
  <2> QED BY <2>2, <2>3, <2>4 DEF IInv, Accounted
<1>19. Filed'
  <2>1. \A u \in StoreThreads : \A y \in toRead'[u] \cup local'[u] : BatchOf[y] < nextBatch
    BY <1>16 DEF IInv, Filed
  <2>2. \A g \in GroupIndexes : \A y \in orphanage[g] \cup groups'[g] :
          GroupIndex(y) = g /\ BatchOf[y] < nextBatch
    BY <1>5, <1>16 DEF IInv, Filed, IdsOfGroup
  <2> QED BY <1>10, <2>1, <2>2 DEF Filed
<1>20. IInv'
  BY <1>12, <1>13, <1>14, <1>15, <1>17, <1>18, <1>19 DEF IInv
<1> QED BY <1>4, <1>5, <1>7, <1>8, <1>9, <1>20

(* pool.join() *)
LEMMA JoinIInv ==
  ASSUME IInv, PoolJoined
  PROVE  IInv'
<1>1. /\ storePhase' = "collect"
      /\ nextBatch = NumBatches + 1 /\ \A t \in StoreThreads : toRead[t] = {}
      /\ UNCHANGED <<nextBatch, toRead, collectingOrphans, groupStart, hasBuffer,
                     local, orphanage, groups, total, thrown>>
  BY InputAssumption DEF PoolJoined, TaskQueued, Batches, IInv, TypeOK
<1>2. TypeOK' /\ NoThrow' /\ PublishedWhole' /\ TotalCounts'
  BY <1>1 DEF IInv, TypeOK, NoThrow, PublishedWhole, TotalCounts, Published
<1>3. OnePlace' /\ Accounted' /\ Filed' /\ TodoIsSuffix' /\ LocalOneGroup'
  BY <1>1 DEF IInv, OnePlace, Accounted, Filed, TodoIsSuffix, LocalOneGroup
<1>4. OrphanMode' /\ WholeSoFar' /\ PhaseOrder'
  BY <1>1 DEF IInv, OrphanMode, WholeSoFar, PhaseOrder
<1> QED BY <1>2, <1>3, <1>4 DEF IInv

(* finalize(), first loop. *)
LEMMA FinalizeBufferIInv ==
  ASSUME IInv, NEW t \in StoreThreads, FinalizeBuffer(t)
  PROVE  IInv'
<1>1. /\ storePhase = "collect" /\ local' = [local EXCEPT ![t] = {}]
      /\ UNCHANGED <<storePhase, nextBatch, toRead, collectingOrphans, groupStart,
                     hasBuffer, groups, total, thrown>>
  BY DEF FinalizeBuffer
<1>2. PICK g0 \in GroupIndexes :
        /\ local[t] \subseteq IdsOfGroup(g0)
        /\ orphanage' = [orphanage EXCEPT ![g0] = orphanage[g0] \cup local[t]]
  BY CollectFiles DEF FinalizeBuffer
<1>3. /\ local \in [StoreThreads -> SUBSET Ids] /\ orphanage \in [GroupIndexes -> SUBSET Ids]
      /\ \A u \in StoreThreads : toRead[u] = {}
  BY <1>1 DEF IInv, TypeOK, PhaseOrder
<1>4. /\ \A u \in StoreThreads : u # t => local'[u] = local[u]
      /\ local'[t] = {}
      /\ \A g \in GroupIndexes : g # g0 => orphanage'[g] = orphanage[g]
      /\ orphanage'[g0] = orphanage[g0] \cup local[t]
  BY <1>1, <1>2, <1>3
<1>5. TypeOK'
  <2>1. orphanage' \in [GroupIndexes -> SUBSET Ids] /\ local' \in [StoreThreads -> SUBSET Ids]
    BY <1>1, <1>2, <1>3
  <2> QED BY <1>1, <2>1 DEF IInv, TypeOK
<1>6. NoThrow' /\ PublishedWhole' /\ TotalCounts' /\ PhaseOrder'
  BY <1>1 DEF IInv, NoThrow, PublishedWhole, TotalCounts, Published, PhaseOrder
<1>7. TodoIsSuffix' /\ OrphanMode' /\ WholeSoFar'
  BY <1>1, <1>3 DEF TodoIsSuffix, OrphanMode, WholeSoFar
<1>8. LocalOneGroup'
  BY <1>1, <1>3, <1>4 DEF IInv, LocalOneGroup
<1>9. OnePlace'
  <2>1. \A u, v \in StoreThreads : u # v => (toRead'[u] \cup local'[u]) \cap (toRead'[v] \cup local'[v]) = {}
    BY <1>1, <1>4 DEF IInv, OnePlace
  <2>2. \A u \in StoreThreads : toRead'[u] \cap local'[u] = {}
    BY <1>1, <1>3
  <2>3. \A u \in StoreThreads, g \in GroupIndexes :
          (toRead'[u] \cup local'[u]) \cap (orphanage'[g] \cup groups'[g]) = {}
    <3> SUFFICES ASSUME NEW u \in StoreThreads, NEW g \in GroupIndexes
                 PROVE local'[u] \cap (orphanage'[g] \cup groups[g]) = {}
      BY <1>1, <1>3
    <3>1. local'[u] \subseteq local[u] /\ local'[u] \cap local[t] = {}
      BY <1>4 DEF IInv, OnePlace
    <3>2. orphanage'[g] \subseteq orphanage[g] \cup local[t]
      BY <1>4
    <3> QED BY <3>1, <3>2 DEF IInv, OnePlace
  <2>4. \A g \in GroupIndexes : orphanage'[g] \cap groups'[g] = {}
    BY <1>1, <1>4 DEF IInv, OnePlace
  <2> QED BY <2>1, <2>2, <2>3, <2>4 DEF OnePlace
<1>10. Accounted'
  <2> SUFFICES ASSUME NEW y \in Ids
               PROVE  \/ BatchOf[y] >= nextBatch
                      \/ \E u \in StoreThreads : y \in local'[u]
                      \/ y \in orphanage'[GroupIndex(y)] \cup groups[GroupIndex(y)]
    BY <1>1 DEF Accounted
  <2>1. GroupIndex(y) \in GroupIndexes
    BY GroupInRange
  <2>2. CASE y \in local[t]
    BY <2>1, <2>2, <1>2, <1>4 DEF IdsOfGroup
  <2>3. CASE y \in orphanage[GroupIndex(y)] \cup groups[GroupIndex(y)]
    BY <2>1, <2>3, <1>4
  <2>4. CASE \E u \in StoreThreads : y \in toRead[u] \cup local[u]
    BY <2>2, <2>4, <1>3, <1>4
  <2> QED BY <2>2, <2>3, <2>4 DEF IInv, Accounted
<1>11. Filed'
  <2>1. \A u \in StoreThreads : \A y \in toRead'[u] \cup local'[u] : BatchOf[y] < nextBatch
    BY <1>1, <1>4 DEF IInv, Filed
  <2>2. \A g \in GroupIndexes : \A y \in orphanage'[g] \cup groups[g] :
          GroupIndex(y) = g /\ BatchOf[y] < nextBatch
    BY <1>2, <1>4 DEF IInv, Filed, IdsOfGroup
  <2> QED BY <1>1, <2>1, <2>2 DEF Filed
<1> QED BY <1>5, <1>6, <1>7, <1>8, <1>9, <1>10, <1>11 DEF IInv

(* finalize(), between the loops. *)
LEMMA FinalizeBuffersDoneIInv ==
  ASSUME IInv, FinalizeBuffersDone
  PROVE  IInv'
<1>1. /\ storePhase = "collect" /\ storePhase' = "publish" /\ hasBuffer' = {}
      /\ \A t \in StoreThreads : local[t] = {}
      /\ UNCHANGED <<nextBatch, toRead, collectingOrphans, groupStart, local,
                     orphanage, groups, total, thrown>>
  BY DEF FinalizeBuffersDone
<1>2. TypeOK' /\ NoThrow' /\ PublishedWhole' /\ TotalCounts'
  BY <1>1 DEF IInv, TypeOK, NoThrow, PublishedWhole, TotalCounts, Published
<1>3. OnePlace' /\ Accounted' /\ Filed' /\ TodoIsSuffix' /\ LocalOneGroup'
  BY <1>1 DEF IInv, OnePlace, Accounted, Filed, TodoIsSuffix, LocalOneGroup
<1>4. OrphanMode' /\ WholeSoFar' /\ PhaseOrder'
  BY <1>1 DEF IInv, OrphanMode, WholeSoFar, PhaseOrder
<1> QED BY <1>2, <1>3, <1>4 DEF IInv

(* Once the buffers are empty, the orphans of a group are all of it. *)
LEMMA OrphansWhole ==
  ASSUME IInv, storePhase \in {"publish", "done"}, NEW x \in Ids
  PROVE  /\ x \in orphanage[GroupIndex(x)] \cup groups[GroupIndex(x)]
         /\ orphanage[GroupIndex(x)] # {} => /\ orphanage[GroupIndex(x)] = IdsOfGroup(GroupIndex(x))
                                             /\ groups[GroupIndex(x)] = {}
<1> DEFINE g == GroupIndex(x)
<1>1. \A y \in Ids : y \in orphanage[GroupIndex(y)] \cup groups[GroupIndex(y)]
  <2>1. /\ \A t \in StoreThreads : toRead[t] = {} /\ local[t] = {}
        /\ nextBatch = NumBatches + 1
    BY DEF IInv, PhaseOrder
  <2>2. \A y \in Ids : BatchOf[y] \in Nat /\ BatchOf[y] <= NumBatches
    BY InputAssumption DEF Batches
  <2> QED BY <2>1, <2>2, InputAssumption DEF IInv, Accounted
<1>2. g \in GroupIndexes
  BY GroupInRange
<1>3. orphanage[g] # {} => groups[g] = {}
  <2> SUFFICES ASSUME NEW y \in orphanage[g] PROVE groups[g] = {}
    OBVIOUS
  <2>1. y \in IdsOfGroup(g)
    BY <1>2 DEF IInv, TypeOK, Filed, IdsOfGroup
  <2> QED BY <2>1, <1>2 DEF IInv, PublishedWhole, OnePlace
<1>4. orphanage[g] # {} => orphanage[g] = IdsOfGroup(g)
  BY <1>1, <1>2, <1>3 DEF IInv, TypeOK, Filed, IdsOfGroup
<1> QED BY <1>1, <1>3, <1>4

(* finalize(), second loop. *)
LEMMA FinalizeGroupIInv ==
  ASSUME IInv, NEW g0 \in GroupIndexes, FinalizeGroup(g0)
  PROVE  /\ IInv'
         /\ \E g \in GroupIndexes : /\ IdsOfGroup(g) # {} /\ groups[g] = {}
                                    /\ Published' = Published \cup IdsOfGroup(g)
<1>1. /\ storePhase = "publish" /\ orphanage[g0] # {}
      /\ PublishGroup(orphanage[g0])
      /\ orphanage' = [orphanage EXCEPT ![g0] = {}]
      /\ UNCHANGED <<storePhase, nextBatch, toRead, collectingOrphans, groupStart,
                     hasBuffer, local>>
  BY DEF FinalizeGroup
<1>2. PICK x \in orphanage[g0] : TRUE
  BY <1>1
<1>3. x \in Ids /\ GroupIndex(x) = g0
  BY DEF IInv, TypeOK, Filed
<1>4. orphanage[g0] = IdsOfGroup(g0) /\ groups[g0] = {}
  BY <1>1, <1>3, OrphansWhole
<1>5. /\ thrown' = "none"
      /\ groups' = [groups EXCEPT ![g0] = IdsOfGroup(g0)]
      /\ Published' = Published \cup IdsOfGroup(g0)
      /\ total' \in Nat
      /\ total' = Cardinality(Published')
  BY <1>1, <1>4, PublishWhole
<1>6. /\ orphanage \in [GroupIndexes -> SUBSET Ids] /\ groups \in [GroupIndexes -> SUBSET Ids]
      /\ \A t \in StoreThreads : toRead[t] = {} /\ local[t] = {}
  BY <1>1 DEF IInv, TypeOK, PhaseOrder
<1>7. /\ \A g \in GroupIndexes : g # g0 => orphanage'[g] = orphanage[g] /\ groups'[g] = groups[g]
      /\ orphanage'[g0] = {} /\ groups'[g0] = orphanage[g0]
  BY <1>1, <1>4, <1>5, <1>6
<1>8. TypeOK'
  <2>1. groups' \in [GroupIndexes -> SUBSET Ids] /\ orphanage' \in [GroupIndexes -> SUBSET Ids]
    BY <1>1, <1>5, <1>6 DEF IdsOfGroup
  <2> QED BY <1>1, <1>5, <2>1 DEF IInv, TypeOK
<1>9. NoThrow' /\ TotalCounts' /\ PhaseOrder'
  BY <1>1, <1>5 DEF IInv, NoThrow, TotalCounts, PhaseOrder
<1>10. PublishedWhole'
  BY <1>4, <1>7 DEF IInv, PublishedWhole, IdsOfGroup
<1>11. OnePlace'
  BY <1>1, <1>6, <1>7 DEF IInv, OnePlace
<1>12. Accounted'
  <2> SUFFICES ASSUME NEW y \in Ids
               PROVE  y \in orphanage'[GroupIndex(y)] \cup groups'[GroupIndex(y)]
    BY DEF Accounted
  <2>1. GroupIndex(y) \in GroupIndexes
    BY GroupInRange
  <2>2. y \in orphanage[GroupIndex(y)] \cup groups[GroupIndex(y)]
    BY <1>1, OrphansWhole
  <2> QED BY <2>1, <2>2, <1>4, <1>7
<1>13. Filed'
  BY <1>1, <1>6, <1>7 DEF IInv, Filed
<1>14. TodoIsSuffix' /\ LocalOneGroup' /\ OrphanMode' /\ WholeSoFar'
  BY <1>1, <1>6 DEF IInv, TodoIsSuffix, LocalOneGroup, OrphanMode, WholeSoFar
<1>15. IInv'
  BY <1>8, <1>9, <1>10, <1>11, <1>12, <1>13, <1>14 DEF IInv
<1> QED BY <1>2, <1>4, <1>5, <1>15

(* finalize() returns. *)
LEMMA FinalizedIInv ==
  ASSUME IInv, Finalized
  PROVE  IInv'
<1>1. /\ storePhase = "publish" /\ storePhase' = "done"
      /\ \A g \in GroupIndexes : orphanage[g] = {}
      /\ UNCHANGED <<nextBatch, toRead, collectingOrphans, groupStart, hasBuffer,
                     local, orphanage, groups, total, thrown>>
  BY DEF Finalized
<1>2. TypeOK' /\ NoThrow' /\ PublishedWhole' /\ TotalCounts'
  BY <1>1 DEF IInv, TypeOK, NoThrow, PublishedWhole, TotalCounts, Published
<1>3. OnePlace' /\ Accounted' /\ Filed' /\ TodoIsSuffix' /\ LocalOneGroup'
  BY <1>1 DEF IInv, OnePlace, Accounted, Filed, TodoIsSuffix, LocalOneGroup
<1>4. OrphanMode' /\ WholeSoFar' /\ PhaseOrder'
  BY <1>1 DEF IInv, OrphanMode, WholeSoFar, PhaseOrder
<1> QED BY <1>2, <1>3, <1>4 DEF IInv

(* A step that changes nothing. *)
LEMMA StutterIInv ==
  ASSUME IInv, UNCHANGED storeVars
  PROVE  IInv'
<1>1. TypeOK' /\ NoThrow' /\ PublishedWhole' /\ TotalCounts'
  BY DEF IInv, TypeOK, NoThrow, PublishedWhole, TotalCounts, Published, storeVars
<1>2. OnePlace' /\ Accounted' /\ Filed' /\ TodoIsSuffix' /\ LocalOneGroup'
  BY DEF IInv, OnePlace, Accounted, Filed, TodoIsSuffix, LocalOneGroup, storeVars
<1>3. OrphanMode' /\ WholeSoFar' /\ PhaseOrder'
  BY DEF IInv, OrphanMode, WholeSoFar, PhaseOrder, storeVars
<1> QED BY <1>1, <1>2, <1>3 DEF IInv

(* Every step preserves the invariant. *)
LEMMA NextIInv == IInv /\ [NextStore]_storeVars => IInv'
<1> SUFFICES ASSUME IInv, [NextStore]_storeVars PROVE IInv'
  OBVIOUS
<1>1. ASSUME NEW t \in StoreThreads, Step(t) PROVE IInv'
  BY <1>1, BatchStartIInv, AllocateBufferIInv, MarkGroupStartIInv, PushSameGroupIInv,
     LeaveOrphanModeIInv, PublishAndPushIInv DEF Step
<1>2. ASSUME Finalize PROVE IInv'
  BY <1>2, JoinIInv, FinalizeBufferIInv, FinalizeBuffersDoneIInv, FinalizeGroupIInv,
     FinalizedIInv DEF Finalize
<1>3. CASE UNCHANGED storeVars
  BY <1>3, StutterIInv
<1> QED BY <1>1, <1>2, <1>3 DEF NextStore, StoreTerminated

(* The strengthened invariant holds in every reachable state: each ID is   *)
(* in exactly one place, buffers hold one group, what a thread publishes   *)
(* outside orphan mode is whole.                                           *)
THEOREM Invariance == SpecStore => []IInv
BY InitIInv, NextIInv, PTL DEF SpecStore

(* insert(), batchStart() and finalize() never throw, whatever the         *)
(* interleaving of the pool's threads.                                     *)
THEOREM NeverThrows == SpecStore => []NoThrow
<1>1. IInv => NoThrow
  BY DEF IInv
<1> QED BY <1>1, Invariance, PTL

(* A group found in the index holds every ID of that group. *)
THEOREM GroupsAreWhole == SpecStore => []PublishedWhole
<1>1. IInv => PublishedWhole
  BY DEF IInv
<1> QED BY <1>1, Invariance, PTL

(* finalize() leaves every inserted ID in the index and counts it once. *)
THEOREM NothingLost == SpecStore => []AllStored
<1>1. IInv => AllStored
  <2> SUFFICES ASSUME IInv, storePhase = "done" PROVE Published = Ids /\ total = Cardinality(Ids)
    BY DEF AllStored
  <2>1. Published \subseteq Ids
    BY DEF IInv, TypeOK, Published
  <2>2. Ids \subseteq Published
    <3> SUFFICES ASSUME NEW x \in Ids PROVE \E g \in GroupIndexes : x \in groups[g]
      BY DEF Published
    <3>1. GroupIndex(x) \in GroupIndexes
      BY GroupInRange
    <3>2. orphanage[GroupIndex(x)] = {}
      BY <3>1 DEF IInv, PhaseOrder
    <3> QED BY <3>1, <3>2, OrphansWhole
  <2> QED BY <2>1, <2>2 DEF IInv, TotalCounts
<1> QED BY <1>1, Invariance, PTL

-----------------------------------------------------------------------------
(* The store implements GroupedIndex: publishing a group is a Publish step *)
(* of the abstract index, the end of finalize() is its Close step, and     *)
(* everything else is invisible.                                           *)
LEMMA PublishIsPublish ==
  ASSUME IInv, NEW g \in GroupIndexes, IdsOfGroup(g) # {}, groups[g] = {},
         Published' = Published \cup IdsOfGroup(g),
         storePhase # "done", storePhase' # "done"
  PROVE  Index!Next
<1>1. PICK x \in Ids : GroupIndex(x) = g
  BY DEF IdsOfGroup
<1>2. x \notin Published
  BY <1>1 DEF IInv, Filed, Published
<1>3. Index!Group(x \div Span) = IdsOfGroup(g)
  BY <1>1 DEF Index!Group, IdsOfGroup, GroupIndex
<1>4. Index!Publish(x)
  BY <1>1, <1>2, <1>3 DEF Index!Publish
<1> QED BY <1>4, <1>1 DEF Index!Next

(* Every step of ingestion is a step of GroupedIndex or is not seen there. *)
LEMMA StepSimulation ==
  IInv /\ [NextStore]_storeVars => [Index!Next]_<<Published, storePhase = "done">>
<1> SUFFICES ASSUME IInv, [NextStore]_storeVars
             PROVE  Index!Next \/ (Published' = Published /\ (storePhase' = "done") = (storePhase = "done"))
  OBVIOUS
<1> DEFINE Hidden == Published' = Published /\ (storePhase' = "done") = (storePhase = "done")
<1>0. ASSUME groups' = groups, storePhase' = storePhase PROVE Hidden
  BY <1>0 DEF Published
<1>1. ASSUME NEW t \in StoreThreads, Step(t) PROVE Index!Next \/ Hidden
  <2>1. CASE BatchStart(t) \/ AllocateBuffer(t) \/ MarkGroupStart(t)
    BY <1>0, <2>1 DEF BatchStart, AllocateBuffer, MarkGroupStart
  <2>2. ASSUME NEW x, PushSameGroup(t, x) \/ LeaveOrphanMode(t, x) PROVE Hidden
    BY <1>0, <2>2 DEF PushSameGroup, LeaveOrphanMode
  <2>3. ASSUME NEW x, PublishAndPush(t, x) PROVE Index!Next
    <3>1. storePhase = "read" /\ storePhase' = "read"
      BY <2>3 DEF PublishAndPush, NextElement, Inserting
    <3>2. PICK g \in GroupIndexes : /\ IdsOfGroup(g) # {} /\ groups[g] = {}
                                    /\ Published' = Published \cup IdsOfGroup(g)
      BY <2>3, PublishAndPushIInv
    <3> QED BY <3>1, <3>2, PublishIsPublish
  <2> QED BY <1>1, <2>1, <2>2, <2>3 DEF Step
<1>2. ASSUME Finalize PROVE Index!Next \/ Hidden
  <2>1. CASE PoolJoined \/ FinalizeBuffersDone
    BY <2>1 DEF PoolJoined, FinalizeBuffersDone, Published
  <2>2. ASSUME NEW t \in StoreThreads, FinalizeBuffer(t) PROVE Hidden
    BY <1>0, <2>2 DEF FinalizeBuffer
  <2>3. ASSUME NEW h \in GroupIndexes, FinalizeGroup(h) PROVE Index!Next
    <3>1. storePhase = "publish" /\ storePhase' = "publish"
      BY <2>3 DEF FinalizeGroup
    <3>2. PICK g \in GroupIndexes : /\ IdsOfGroup(g) # {} /\ groups[g] = {}
                                    /\ Published' = Published \cup IdsOfGroup(g)
      BY <2>3, FinalizeGroupIInv
    <3> QED BY <3>1, <3>2, PublishIsPublish
  <2>4. CASE Finalized
    <3>1. storePhase = "publish" /\ storePhase' = "done" /\ Published' = Published
      BY <2>4 DEF Finalized, Published
    <3>2. Published = Ids
      <4>1. Published \subseteq Ids
        BY DEF IInv, TypeOK, Published
      <4>2. ASSUME NEW x \in Ids PROVE x \in Published
        <5>1. GroupIndex(x) \in GroupIndexes /\ orphanage[GroupIndex(x)] = {}
          BY <2>4, GroupInRange DEF Finalized
        <5>2. x \in orphanage[GroupIndex(x)] \cup groups[GroupIndex(x)]
          BY <3>1, OrphansWhole
        <5> QED BY <5>1, <5>2 DEF Published
      <4> QED BY <4>1, <4>2
    <3>3. Index!Close
      BY <3>1, <3>2 DEF Index!Close
    <3> QED BY <3>3 DEF Index!Next
  <2> QED BY <1>2, <2>1, <2>2, <2>3, <2>4 DEF Finalize
<1>3. CASE UNCHANGED storeVars
  BY <1>0, <1>3 DEF storeVars
<1> QED BY <1>1, <1>2, <1>3 DEF NextStore, StoreTerminated

(* SortedStore implements GroupedIndex. *)
THEOREM Refinement == SpecStore => ImplementsIndex
<1>1. InitStore => Index!Init
  BY DEF InitStore, Index!Init, Published
<1> QED BY <1>1, Invariance, StepSimulation, PTL DEF SpecStore, ImplementsIndex, Index!Spec
=============================================================================
