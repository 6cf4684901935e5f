----------------------------- MODULE SortedStore -----------------------------
(***************************************************************************)
(* The concurrent ingestion of SortedNodeStore and SortedWayStore          *)
(* (src/src/sorted_node_store.cpp, src/src/sorted_way_store.cpp; the two   *)
(* share this algorithm line for line).                                    *)
(*                                                                         *)
(* IDs arrive sorted (PBF option Sort.Type_then_ID).  PbfProcessor cuts    *)
(* them into batches of consecutive blocks and posts one task per batch to *)
(* a thread pool.  A thread keeps the IDs of the group it is reading in a  *)
(* worker buffer.  A group it has seen from its first ID to its last is    *)
(* published straight into the index; a group that may have been split     *)
(* between batches goes to the orphanage, a map shared by all threads, and *)
(* is published by finalize() once every thread has stopped.  Publishing a *)
(* group twice throws.                                                     *)
(*                                                                         *)
(* An element is represented by its ID: the position (or node list) stored *)
(* with it travels unchanged beside it.                                    *)
(***************************************************************************)
EXTENDS Integers, FiniteSets

CONSTANTS
  StoreThreads, \* the threads of the pool
  Ids,          \* the IDs that are inserted
  BatchOf,      \* the batch of blocks each ID is read in
  NumBatches,   \* how many batches are posted to the pool
  Span,         \* IDs per group: GroupSize * ChunkSize
  MaxGroups,    \* groups.size() after reopen()
  MaxBuffers    \* workerBuffers.capacity(): 256 "cores"

Batches == 1..NumBatches

(* IDs grow along the file, so batches are intervals of IDs. *)
ASSUME InputAssumption ==
  /\ Ids \subseteq Nat
  /\ IsFiniteSet(Ids)
  /\ NumBatches \in Nat
  /\ BatchOf \in [Ids -> Batches]
  /\ \A x, y \in Ids : x < y => BatchOf[x] <= BatchOf[y]

ASSUME SpanAssumption == Span \in Nat \ {0}

(* The documented capacities: 256K groups of IDs, and 256 cores. *)
ASSUME CapacityAssumption ==
  /\ MaxGroups \in Nat
  /\ IsFiniteSet(StoreThreads)
  /\ MaxBuffers \in Nat
  /\ Cardinality(StoreThreads) <= MaxBuffers
  /\ \A x \in Ids : x < MaxGroups * Span

VARIABLES
  storePhase,   \* "read": the pool runs; "collect", "publish": finalize(); "done"
  nextBatch,    \* the oldest batch no thread has taken from the pool's queue
  toRead,       \* toRead[t]: IDs of t's batch that t has not read yet
  collectingOrphans,  \* tls.collectingOrphans
  groupStart,   \* tls.groupStart, -1 when unknown
  hasBuffer,    \* tls.localNodes # nullptr
  local,        \* local[t]: the contents of t's worker buffer
  orphanage,    \* orphanage[g]: IDs of group g waiting for finalize()
  groups,       \* groups[g]: IDs published in group g, {} for nullptr
  total,        \* totalNodes / totalWays
  thrown        \* the exception that ended the run, or "none"

storeVars == <<storePhase, nextBatch, toRead, collectingOrphans, groupStart, hasBuffer,
          local, orphanage, groups, total, thrown>>

-----------------------------------------------------------------------------
GroupIndexes == 0..(MaxGroups - 1)
GroupIndex(x) == x \div Span

\* mutant: the start is not rounded down to a group boundary
StartOf_NotRounded(x) == x
StartOf(x) == (x \div Span) * Span

IdsOfGroup(g) == {x \in Ids : GroupIndex(x) = g}
IdsOfBatch(b) == {x \in Ids : BatchOf[x] = b}
IsFirst(x, S) == x \in S /\ \A y \in S : x <= y

TaskQueued == nextBatch \in Batches

(* x lies beyond the group that t is reading. *)
Crosses(t, x) == x >= groupStart[t] + Span

\* mutant: orphans of an earlier call are overwritten
CollectOrphans_Replaces(S) ==
  \E x \in S :
    /\ IsFirst(x, S)
    /\ orphanage' = [orphanage EXCEPT ![GroupIndex(x)] = S]

(* collectOrphans(vec): everything goes under the group of vec[0]. *)
CollectOrphans(S) ==
  \E x \in S :
    /\ IsFirst(x, S)
    /\ orphanage' = [orphanage EXCEPT ![GroupIndex(x)] = @ \cup S]

(* The exception publishGroup(vec) throws when vec[0] = x, tests in order. *)
PublishError(x, S) ==
  IF GroupIndex(x) \notin GroupIndexes THEN "range"
  ELSE IF Cardinality(S) > Span THEN "big"
  ELSE IF groups[GroupIndex(x)] # {} THEN "present"
  ELSE "none"

(* publishGroup(vec). *)
PublishGroup(S) ==
  /\ total' = total + Cardinality(S)
  /\ \/ S = {} /\ thrown' = "empty" /\ groups' = groups
     \/ \E x \in S :
          /\ IsFirst(x, S)
          /\ thrown' = PublishError(x, S)
          /\ groups' = IF PublishError(x, S) = "none"
                       THEN [groups EXCEPT ![GroupIndex(x)] = S]
                       ELSE groups

-----------------------------------------------------------------------------
InitStore ==
  /\ storePhase = "read"
  /\ nextBatch = 1
  /\ toRead = [t \in StoreThreads |-> {}]
  /\ collectingOrphans = [t \in StoreThreads |-> TRUE]
  /\ groupStart = [t \in StoreThreads |-> -1]
  /\ hasBuffer = {}
  /\ local = [t \in StoreThreads |-> {}]
  /\ orphanage = [g \in GroupIndexes |-> {}]
  /\ groups = [g \in GroupIndexes |-> {}]
  /\ total = 0
  /\ thrown = "none"

\* mutant: a thread that was past its orphans takes the next batch for whole groups
BatchStart_KeepsMode(t) ==
  /\ storePhase = "read" /\ thrown = "none"
  /\ toRead[t] = {}
  /\ TaskQueued
  /\ nextBatch' = nextBatch + 1
  /\ toRead' = [toRead EXCEPT ![t] = IdsOfBatch(nextBatch)]
  /\ groupStart' = [groupStart EXCEPT ![t] = -1]
  /\ IF local[t] = {} THEN UNCHANGED orphanage ELSE CollectOrphans(local[t])
  /\ local' = [local EXCEPT ![t] = {}]
  /\ UNCHANGED <<storePhase, collectingOrphans, hasBuffer, groups, total, thrown>>

(* A thread takes the next task, whose first call is batchStart(): what is *)
(* left in its buffer belongs to a group that others may hold parts of.    *)
BatchStart(t) ==
  /\ storePhase = "read" /\ thrown = "none"
  /\ toRead[t] = {}
  /\ TaskQueued
  /\ nextBatch' = nextBatch + 1
  /\ toRead' = [toRead EXCEPT ![t] = IdsOfBatch(nextBatch)]
  /\ collectingOrphans' = [collectingOrphans EXCEPT ![t] = TRUE]
  /\ groupStart' = [groupStart EXCEPT ![t] = -1]
  /\ IF local[t] = {} THEN UNCHANGED orphanage ELSE CollectOrphans(local[t])
  /\ local' = [local EXCEPT ![t] = {}]
  /\ UNCHANGED <<storePhase, hasBuffer, groups, total, thrown>>

(* t is inside insert(), with elements left to look at. *)
Inserting(t) == storePhase = "read" /\ thrown = "none" /\ toRead[t] # {}

(* insert() on a thread that has no worker buffer yet. *)
AllocateBuffer(t) ==
  /\ Inserting(t)
  /\ t \notin hasBuffer
  /\ IF hasBuffer # {} /\ Cardinality(hasBuffer) = MaxBuffers
     THEN thrown' = "cores" /\ UNCHANGED hasBuffer
     ELSE hasBuffer' = hasBuffer \cup {t} /\ UNCHANGED thrown
  /\ UNCHANGED <<storePhase, nextBatch, toRead, collectingOrphans, groupStart, local,
                 orphanage, groups, total>>

(* insert() remembers the group in which the batch starts. *)
MarkGroupStart(t) ==
  /\ Inserting(t)
  /\ t \in hasBuffer
  /\ groupStart[t] = -1
  /\ \E x \in toRead[t] :
       /\ IsFirst(x, toRead[t])
       /\ groupStart' = [groupStart EXCEPT ![t] = StartOf(x)]
  /\ UNCHANGED <<storePhase, nextBatch, toRead, collectingOrphans, hasBuffer, local,
                 orphanage, groups, total, thrown>>

(* x is the next element for one of the two loops of insert(). *)
NextElement(t, x) ==
  /\ Inserting(t)
  /\ t \in hasBuffer
  /\ groupStart[t] # -1
  /\ IsFirst(x, toRead[t])

(* One iteration of either loop that stays in the group. *)
PushSameGroup(t, x) ==
  /\ NextElement(t, x)
  /\ ~Crosses(t, x)
  /\ local' = [local EXCEPT ![t] = @ \cup {x}]
  /\ toRead' = [toRead EXCEPT ![t] = @ \ {x}]
  /\ UNCHANGED <<storePhase, nextBatch, collectingOrphans, groupStart, hasBuffer,
                 orphanage, groups, total, thrown>>

(* The first loop meets the first ID of a later group. *)
LeaveOrphanMode(t, x) ==
  /\ NextElement(t, x)
  /\ collectingOrphans[t]
  /\ Crosses(t, x)
  /\ collectingOrphans' = [collectingOrphans EXCEPT ![t] = FALSE]
  /\ groupStart' = [groupStart EXCEPT ![t] = StartOf(x)]
  /\ CollectOrphans(local[t])
  /\ local' = [local EXCEPT ![t] = {x}]
  /\ toRead' = [toRead EXCEPT ![t] = @ \ {x}]
  /\ UNCHANGED <<storePhase, nextBatch, hasBuffer, groups, total, thrown>>

(* The second loop meets the first ID of a later group. *)
PublishAndPush(t, x) ==
  /\ NextElement(t, x)
  /\ ~collectingOrphans[t]
  /\ Crosses(t, x)
  /\ PublishGroup(local[t])
  /\ IF thrown' = "none"
     THEN /\ local' = [local EXCEPT ![t] = {x}]
          /\ groupStart' = [groupStart EXCEPT ![t] = StartOf(x)]
          /\ toRead' = [toRead EXCEPT ![t] = @ \ {x}]
     ELSE UNCHANGED <<local, groupStart, toRead>>
  /\ UNCHANGED <<storePhase, nextBatch, collectingOrphans, hasBuffer, orphanage>>

(* pool.join() returns and finalize() begins. *)
PoolJoined ==
  /\ storePhase = "read" /\ thrown = "none"
  /\ ~TaskQueued
  /\ \A t \in StoreThreads : toRead[t] = {}
  /\ storePhase' = "collect"
  /\ UNCHANGED <<nextBatch, toRead, collectingOrphans, groupStart, hasBuffer,
                 local, orphanage, groups, total, thrown>>

(* finalize(), first loop: the worker buffers are orphans too. *)
FinalizeBuffer(t) ==
  /\ storePhase = "collect"
  /\ local[t] # {}
  /\ CollectOrphans(local[t])
  /\ local' = [local EXCEPT ![t] = {}]
  /\ UNCHANGED <<storePhase, nextBatch, toRead, collectingOrphans, groupStart,
                 hasBuffer, groups, total, thrown>>

FinalizeBuffersDone ==
  /\ storePhase = "collect"
  /\ \A t \in StoreThreads : local[t] = {}
  /\ hasBuffer' = {}
  /\ storePhase' = "publish"
  /\ UNCHANGED <<nextBatch, toRead, collectingOrphans, groupStart, local,
                 orphanage, groups, total, thrown>>

(* finalize(), second loop: sort and publish the orphans of one group, in  *)
(* the order of the map.                                                   *)
FinalizeGroup(g) ==
  /\ storePhase = "publish" /\ thrown = "none"
  /\ orphanage[g] # {}
  /\ \A h \in GroupIndexes : orphanage[h] # {} => g <= h
  /\ PublishGroup(orphanage[g])
  /\ orphanage' = [orphanage EXCEPT ![g] = {}]
  /\ UNCHANGED <<storePhase, nextBatch, toRead, collectingOrphans, groupStart,
                 hasBuffer, local>>

Finalized ==
  /\ storePhase = "publish" /\ thrown = "none"
  /\ \A g \in GroupIndexes : orphanage[g] = {}
  /\ storePhase' = "done"
  /\ UNCHANGED <<nextBatch, toRead, collectingOrphans, groupStart, hasBuffer,
                 local, orphanage, groups, total, thrown>>

(* finalize() has returned, or an exception has ended the program. *)
StoreTerminated == (storePhase = "done" \/ thrown # "none") /\ UNCHANGED storeVars

Step(t) ==
  \/ BatchStart(t)
  \/ AllocateBuffer(t)
  \/ MarkGroupStart(t)
  \/ \E x \in toRead[t] :
       PushSameGroup(t, x) \/ LeaveOrphanMode(t, x) \/ PublishAndPush(t, x)

Finalize ==
  \/ PoolJoined
  \/ \E t \in StoreThreads : FinalizeBuffer(t)
  \/ FinalizeBuffersDone
  \/ \E g \in GroupIndexes : FinalizeGroup(g)
  \/ Finalized

NextStore == (\E t \in StoreThreads : Step(t)) \/ Finalize \/ StoreTerminated

SpecStore == InitStore /\ [][NextStore]_storeVars

(* The operating system runs every thread of the pool, and the main thread *)
(* once the pool has been joined.                                          *)
FairnessStore ==
  /\ \A t \in StoreThreads : WF_storeVars(Step(t))
  /\ WF_storeVars(Finalize)

FairSpecStore == SpecStore /\ FairnessStore

-----------------------------------------------------------------------------
(* Types of the stores' and the threads' state. *)
TypeOK ==
  /\ storePhase \in {"read", "collect", "publish", "done"}
  /\ nextBatch \in 1..(NumBatches + 1)
  /\ toRead \in [StoreThreads -> SUBSET Ids]
  /\ collectingOrphans \in [StoreThreads -> BOOLEAN]
  /\ groupStart \in [StoreThreads -> Nat \cup {-1}]
  /\ hasBuffer \in SUBSET StoreThreads
  /\ local \in [StoreThreads -> SUBSET Ids]
  /\ orphanage \in [GroupIndexes -> SUBSET Ids]
  /\ groups \in [GroupIndexes -> SUBSET Ids]
  /\ total \in Nat
  /\ thrown \in {"none", "cores", "empty", "range", "big", "present"}

Published == UNION {groups[g] : g \in GroupIndexes}

(* insert(), batchStart() and finalize() never throw: in particular no     *)
(* interleaving of threads publishes a group twice (publishGroup's "group  *)
(* already present") or an empty one.                                      *)
NoThrow == thrown = "none"

(* A group in the index holds every ID of the group: publishing before     *)
(* finalize() never cuts off IDs that another thread is still to deliver,  *)
(* which contains() and at() would report as missing.                      *)
PublishedWhole ==
  \A g \in GroupIndexes : groups[g] # {} => groups[g] = IdsOfGroup(g)

(* finalize() leaves every inserted ID in the index, and size() counts     *)
(* each of them once (PbfProcessor skips passes over stores of size 0).    *)
AllStored ==
  storePhase = "done" => Published = Ids /\ total = Cardinality(Ids)

-----------------------------------------------------------------------------
(* The strengthening that makes NoThrow, PublishedWhole and AllStored      *)
(* inductive.                                                              *)

(* An ID is in at most one place: unread in one batch, in one thread's     *)
(* buffer, in the orphanage or in the index.                               *)
OnePlace ==
  /\ \A t, u \in StoreThreads : t # u => (toRead[t] \cup local[t]) \cap (toRead[u] \cup local[u]) = {}
  /\ \A t \in StoreThreads : toRead[t] \cap local[t] = {}
  /\ \A t \in StoreThreads, g \in GroupIndexes :
       (toRead[t] \cup local[t]) \cap (orphanage[g] \cup groups[g]) = {}
  /\ \A g \in GroupIndexes : orphanage[g] \cap groups[g] = {}

(* ... and in at least one place, unless its batch is still queued. *)
Accounted ==
  \A x \in Ids :
    \/ BatchOf[x] >= nextBatch
    \/ \E t \in StoreThreads : x \in toRead[t] \cup local[t]
    \/ x \in orphanage[GroupIndex(x)] \cup groups[GroupIndex(x)]

(* Only batches that were taken from the queue are in memory, and every    *)
(* ID is filed under its own group.                                        *)
Filed ==
  /\ \A t \in StoreThreads : \A x \in toRead[t] \cup local[t] : BatchOf[x] < nextBatch
  /\ \A g \in GroupIndexes : \A x \in orphanage[g] \cup groups[g] :
       GroupIndex(x) = g /\ BatchOf[x] < nextBatch

(* What t has still to read is the rest of one batch, in order. *)
TodoIsSuffix ==
  \A t \in StoreThreads : \A x \in toRead[t] :
    /\ \A y \in toRead[t] \cup local[t] : BatchOf[y] = BatchOf[x]
    /\ \A y \in local[t] : y < x
    /\ \A y \in Ids : BatchOf[y] = BatchOf[x] /\ x <= y => y \in toRead[t]

(* A worker buffer holds IDs of one group, the one that starts at          *)
(* groupStart.                                                             *)
LocalOneGroup ==
  \A t \in StoreThreads :
    /\ groupStart[t] = -1 => local[t] = {} /\ collectingOrphans[t]
    /\ groupStart[t] # -1 => \E x \in Ids : groupStart[t] = StartOf(x)
    /\ \A x \in local[t] : groupStart[t] <= x /\ x < groupStart[t] + Span

(* In orphan mode the buffer has all that was read of the batch; it is     *)
(* empty only before the first element, which starts the group.            *)
OrphanMode ==
  \A t \in StoreThreads : collectingOrphans[t] => \A x \in toRead[t] :
    /\ \A y \in Ids : BatchOf[y] = BatchOf[x] => y \in toRead[t] \cup local[t]
    /\ groupStart[t] # -1 /\ local[t] = {} /\ IsFirst(x, toRead[t]) => groupStart[t] = StartOf(x)

(* Out of orphan mode the buffer has every ID of the file between          *)
(* groupStart and the next element, other batches included.                *)
WholeSoFar ==
  \A t \in StoreThreads : storePhase = "read" /\ ~collectingOrphans[t] =>
    /\ local[t] # {}
    /\ toRead[t] # {} =>
         \A y \in Ids : groupStart[t] <= y /\ (\A x \in toRead[t] : y < x) => y \in local[t]

PhaseOrder ==
  /\ storePhase # "read" => nextBatch = NumBatches + 1 /\ \A t \in StoreThreads : toRead[t] = {}
  /\ storePhase \in {"publish", "done"} => \A t \in StoreThreads : local[t] = {}
  /\ storePhase = "done" => \A g \in GroupIndexes : orphanage[g] = {}

TotalCounts == total = Cardinality(Published)

(* The inductive invariant of ingestion: every element that was read is in *)
(* one place, and a group that is being collected has missed nothing.      *)
IInv ==
  /\ TypeOK /\ NoThrow /\ PublishedWhole /\ OnePlace /\ Accounted /\ Filed
  /\ TodoIsSuffix /\ LocalOneGroup /\ OrphanMode /\ WholeSoFar /\ PhaseOrder
  /\ TotalCounts

-----------------------------------------------------------------------------
(* What readers of the index see grows by whole groups. *)
Index == INSTANCE GroupedIndex WITH index <- Published, closed <- (storePhase = "done")

(* publishGroup keeps the promise of a grouped index: whole groups appear, *)
(* each once, and the index is complete when finalize() returns.           *)
ImplementsIndex == Index!Spec

(* Reading the file and finalize() end: no thread waits for another. *)
EventuallyFinalized == <>(storePhase = "done")

=============================================================================
