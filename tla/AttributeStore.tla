--------------------------- MODULE AttributeStore ---------------------------
(***************************************************************************)
(* The attribute store (src/attribute_store.cpp, include/attribute_store.h):*)
(* keys, key/value pairs and sets of pairs, each kept once and referred to *)
(* by index, shared by the threads that read the input, which look first   *)
(* into copies and caches of their own.                                    *)
(***************************************************************************)
EXTENDS Integers, SequencesExt, FiniteSets, TLC

CONSTANTS
    Writers,        \* threads
    Inputs,         \* the objects: sequences of <<key, value>>, all numbers from 1 on
    HotValues,      \* the values isHot() picks
    HotCapacity,    \* capacity of the hot shard (2^16)
    ShortRange,     \* number of values of a short (2^16)
    PairShards, SetShards,  \* number of shards
    ShardSize,      \* indices of one shard (2^18)
    ShortSlots, IntSlots,   \* 4 and 4
    MaxKeys,        \* limit of the key store (512)
    Objects         \* thread -> bound on the sets it stores

VARIABLES
    keys,           \* the deque of key names; index 0 is a dummy
    keys2indexSize, \* published before the name is appended
    keyLock,        \* the thread that holds keys2indexMutex between the two, or NoThread
    tlsKeys,        \* thread -> index -> what its copy says the name is
    pairs,          \* shard -> map of pairs
    tlsHot,         \* thread -> copy of the hot shard
    pairCache,      \* thread -> the last cold pair it looked up, with its index
    sets,           \* shard -> map of sets
    setCache,       \* thread -> the last set it stored, with its index
    work,           \* thread -> what it is doing
    count,          \* thread -> sets stored
    stored          \* every set stored: what it was asked to hold, what is left of that, the index returned

storeVars == <<keys, keys2indexSize, keyLock, tlsKeys, pairs, tlsHot, pairCache, sets, setCache>>
vars == <<storeVars, work, count, stored>>

NoThread == "nobody"
NoKey    == 0
Garbage  == -1
Sentinel == <<0, 0, 0>>
IndexTop == PairShards * ShardSize        \* 2^32

\* A pair is the index of its key, the value and a minimum zoom, which no operation tells apart.
PairLess(a, b) == \E i \in 1..3 : a[i] < b[i] /\ \A j \in 1..(i - 1) : a[j] = b[j]
PairMap == INSTANCE DequeMap WITH EntryLess <- PairLess

\* operator<: arrays before vectors, then shorter ones, then value by value.
SetLess(a, b) ==
    \/ ~a.useVector /\ b.useVector
    \/ a.useVector = b.useVector /\ Len(a.values) < Len(b.values)
    \/ /\ a.useVector = b.useVector /\ Len(a.values) = Len(b.values)
       /\ \E i \in 1..Len(a.values) : a.values[i] < b.values[i] /\ \A j \in 1..(i - 1) : a.values[j] = b.values[j]
SetMap == INSTANCE DequeMap WITH EntryLess <- SetLess

HashOf(pair)   == pair[1] + pair[2]
IsHot(value)   == value \in HotValues

\* The shard of a cold pair is never the hot one.
ColdShard(pair) == IF HashOf(pair) % PairShards = 0 THEN 1 ELSE HashOf(pair) % PairShards
IndexOf(shard, offset) == shard * ShardSize + offset

Init ==
    /\ keys = <<>> /\ keys2indexSize = 0 /\ keyLock = NoThread
    /\ tlsKeys = [t \in Writers |-> <<>>]
    /\ pairs = [s \in 0..(PairShards - 1) |->
                  IF s = 0 THEN PairMap!AddEntry(PairMap!EmptyMap(HotCapacity), Sentinel) ELSE PairMap!EmptyMap(0)]
    /\ tlsHot = [t \in Writers |-> PairMap!EmptyMap(HotCapacity)]
    /\ pairCache = [t \in Writers |-> <<>>]
    /\ sets = [s \in 0..(SetShards - 1) |-> SetMap!EmptyMap(0)]
    /\ setCache = [t \in Writers |-> <<>>]
    /\ work = [t \in Writers |-> [step |-> "idle"]]
    /\ count = [t \in Writers |-> 0]
    /\ stored = {}
-----------------------------------------------------------------------------
(* AttributeSet: short slots for indices of the hot shard, int slots for any, and a vector *)
(* once the slots are used up. 0 is an empty slot.                                         *)

Slots    == 1..(ShortSlots + IntSlots)
EmptySet == [useVector |-> FALSE, values |-> [i \in Slots |-> 0]]

\* getValueAtIndex(): a short is signed, so the upper half of its values is read as the top
\* of the range of indices.
ValueAt(set, i) ==
    IF i <= ShortSlots /\ set.values[i] >= ShortRange \div 2
    THEN IndexTop - (ShortRange - set.values[i]) ELSE set.values[i]

\* The indices in a set, in the order of their slots (numPairs, getPair).
PairsOf(set) == IF set.useVector THEN set.values
                ELSE SelectSeq([i \in Slots |-> ValueAt(set, i)], LAMBDA v : v # 0)

FreeSlots(set, index) == {i \in Slots : set.values[i] = 0 /\ (i > ShortSlots \/ index < ShortRange)}

\* mutant: the pairs in the slots are lost when the set turns into a vector
AddPair_Forgets(set, index) ==
    IF set.useVector THEN [set EXCEPT !.values = Append(@, index)]
    ELSE IF FreeSlots(set, index) # {}
         THEN [set EXCEPT !.values[CHOOSE i \in FreeSlots(set, index) : \A j \in FreeSlots(set, index) : i <= j] = index]
         ELSE [useVector |-> TRUE, values |-> <<index>>]

\* AttributeSet::addPair().
AddPair(set, index) ==
    IF set.useVector THEN [set EXCEPT !.values = Append(@, index)]
    ELSE IF FreeSlots(set, index) # {}
         THEN [set EXCEPT !.values[CHOOSE i \in FreeSlots(set, index) : \A j \in FreeSlots(set, index) : i <= j] = index]
         ELSE [useVector |-> TRUE, values |-> Append(PairsOf(set), index)]

\* removePairWithKey(), given the slots whose pair has the key: the first of them.
RemovePair(set, hits) ==
    IF hits = {} THEN set
    ELSE LET first == CHOOSE i \in hits : \A j \in hits : i <= j
         IN  IF set.useVector THEN [set EXCEPT !.values = RemoveAt(@, first)]
             ELSE [set EXCEPT !.values[first] = 0]

InOrder(s) == FoldLeft(LAMBDA r, v : LET n == Len(SelectSeq(r, LAMBDA w : w <= v))
                                     IN  SubSeq(r, 1, n) \o <<v>> \o SubSeq(r, n + 1, Len(r)), <<>>, s)

\* mutant: the slots are kept in the order the attributes came in
FinalizeSet_AsAdded(set) == set

\* AttributeSet::finalize(): the canonical order.
FinalizeSet(set) ==
    IF set.useVector THEN [set EXCEPT !.values = InOrder(@)]
    ELSE FoldLeft(AddPair, EmptySet, InOrder(PairsOf(set)))
-----------------------------------------------------------------------------
(* Reading indices back. *)

\* getPairUnsafe(): the pair an index stands for, or Garbage past the end of a shard.
PairAt(index) ==
    LET dm == pairs[index \div ShardSize]
    IN  IF PairMap!HasEntry(dm, index % ShardSize) THEN PairMap!EntryAt(dm, index % ShardSize) ELSE <<Garbage, Garbage, Garbage>>

\* getPair() while threads still write: the hot shard is read through the thread's copy.
PairFor(t, index) ==
    IF index \div ShardSize = 0 /\ PairMap!HasEntry(tlsHot[t], index % ShardSize)
    THEN PairMap!EntryAt(tlsHot[t], index % ShardSize) ELSE PairAt(index)

\* getKey() and getKeyUnsafe().
KeyNamed(i) == IF i + 1 \in 1..Len(keys) THEN keys[i + 1] ELSE Garbage

\* getUnsafe(): the attributes of a stored set, with the names of the keys.
GetUnsafe(index) ==
    LET set == SetMap!EntryAt(sets[index \div ShardSize], index % ShardSize)
    IN  {<<KeyNamed(PairAt(PairsOf(set)[i])[1]), PairAt(PairsOf(set)[i])[2]>> : i \in 1..Len(PairsOf(set))}
-----------------------------------------------------------------------------
(* One thread gives an object its attributes: a set, and for each attribute the index of   *)
(* its key, the index of the pair and a place in the set.                                  *)

Set(t, step) == work' = [work EXCEPT ![t] = step]

Begin(t, input) ==
    /\ work[t].step = "idle" /\ count[t] < Objects[t]
    /\ Set(t, [step |-> "open", set |-> EmptySet, asked |-> ToSet(input), given |-> {}, rest |-> input])
    /\ UNCHANGED <<storeVars, count, stored>>

IndexIn(set, i) == IF set.useVector THEN set.values[i] ELSE ValueAt(set, i)

\* addAttribute(), after removeAttributeIfNeeded() took out an earlier value of the key: the
\* search for it goes by the slots up to the first hit, and a hot index the thread's copy
\* does not have yet makes getPair() copy the hot shard anew.
AddAttribute(t) ==
    /\ work[t].step = "open" /\ work[t].rest # <<>>
    /\ LET set     == work[t].set
           k       == Head(work[t].rest)[1]
           v       == Head(work[t].rest)[2]
           used    == {i \in DOMAIN set.values : IndexIn(set, i) # 0}
           hits    == {i \in used : KeyNamed(PairFor(t, IndexIn(set, i))[1]) = k}
           scanned == {i \in used : \A j \in hits : i <= j}
           redo    == \E g \in work[t].given : g[1] = k
           missing == \E i \in scanned : IndexIn(set, i) < ShardSize /\ ~PairMap!HasEntry(tlsHot[t], IndexIn(set, i))
       IN  /\ Set(t, [step |-> "key", set |-> IF redo THEN RemovePair(set, hits) ELSE set,
                      asked |-> work[t].asked, given |-> {g \in work[t].given : g[1] # k} \cup {<<k, v>>},
                      rest |-> Tail(work[t].rest), key |-> k, value |-> v])
           /\ tlsHot' = IF redo /\ missing THEN [tlsHot EXCEPT ![t] = pairs[0]] ELSE tlsHot
    /\ UNCHANGED <<keys, keys2indexSize, keyLock, tlsKeys, pairs, pairCache, sets, setCache, count, stored>>

KeyFound(t, index) == Set(t, [work[t] EXCEPT !.step = "pair"] @@ [keyIndex |-> index])

\* key2index(): the thread's own map.
KeyFromCopy(t) ==
    /\ work[t].step = "key"
    /\ \E i \in DOMAIN tlsKeys[t] : tlsKeys[t][i] = work[t].key /\ KeyFound(t, i)
    /\ UNCHANGED <<storeVars, count, stored>>

\* The copy catches up to the published size without the lock: the newest name may not be
\* there yet.
CatchUp(t) ==
    /\ work[t].step = "key"
    /\ \A i \in DOMAIN tlsKeys[t] : tlsKeys[t][i] # work[t].key
    /\ tlsKeys' = [tlsKeys EXCEPT ![t] = [i \in 1..keys2indexSize |->
                     IF i <= Len(tlsKeys[t]) THEN tlsKeys[t][i] ELSE KeyNamed(i)]]
    /\ Set(t, [work[t] EXCEPT !.step = "key_lock"])
    /\ UNCHANGED <<keys, keys2indexSize, keyLock, pairs, tlsHot, pairCache, sets, setCache, count, stored>>

\* Under the lock: the key is known, or its index is the next one.
KeyUnderLock(t) ==
    /\ work[t].step = "key_lock" /\ keyLock = NoThread
    /\ \E i \in 2..Len(keys) : keys[i] = work[t].key /\ KeyFound(t, i - 1)
    /\ UNCHANGED <<storeVars, count, stored>>

PublishSize(t) ==
    /\ work[t].step = "key_lock" /\ keyLock = NoThread
    /\ \A i \in 2..Len(keys) : keys[i] # work[t].key
    /\ keys' = IF keys = <<>> THEN <<NoKey>> ELSE keys
    /\ Len(keys') < MaxKeys
    /\ keyLock' = t
    /\ keys2indexSize' = keys2indexSize + 1
    /\ Set(t, [work[t] EXCEPT !.step = "key_push"])
    /\ UNCHANGED <<tlsKeys, pairs, tlsHot, pairCache, sets, setCache, count, stored>>

PushKey(t) ==
    /\ work[t].step = "key_push"
    /\ keys' = Append(keys, work[t].key)
    /\ keyLock' = NoThread
    /\ KeyFound(t, Len(keys))
    /\ UNCHANGED <<keys2indexSize, tlsKeys, pairs, tlsHot, pairCache, sets, setCache, count, stored>>

PairOf(t) == <<work[t].keyIndex, work[t].value, 1>>
PairFound(t, index) ==
    Set(t, [step |-> "open", set |-> AddPair(work[t].set, index), asked |-> work[t].asked,
            given |-> work[t].given, rest |-> work[t].rest])

\* addPair() of a hot pair: the thread's copy of the hot shard, then a fresh copy.
HotFromCopy(t) ==
    /\ work[t].step = "pair" /\ IsHot(work[t].value)
    /\ PairMap!FindEntry(tlsHot[t], PairOf(t)) # PairMap!NotFound
    /\ PairFound(t, PairMap!FindEntry(tlsHot[t], PairOf(t)))
    /\ UNCHANGED <<storeVars, count, stored>>

RefreshHot(t) ==
    /\ work[t].step = "pair" /\ IsHot(work[t].value)
    /\ PairMap!FindEntry(tlsHot[t], PairOf(t)) = PairMap!NotFound
    /\ tlsHot' = IF PairMap!IsFull(tlsHot[t]) THEN tlsHot ELSE [tlsHot EXCEPT ![t] = pairs[0]]
    /\ Set(t, [work[t] EXCEPT !.step = "hot_lock"])
    /\ UNCHANGED <<keys, keys2indexSize, keyLock, tlsKeys, pairs, pairCache, sets, setCache, count, stored>>

\* Under the lock of the hot shard: the pair is there, or fits; a full shard sends it on.
HotUnderLock(t) ==
    /\ work[t].step = "hot_lock"
    /\ LET after == PairMap!AddEntry(pairs[0], PairOf(t))
           at    == PairMap!FindEntry(after, PairOf(t))
       IN  /\ pairs' = [pairs EXCEPT ![0] = after]
           /\ IF at # PairMap!NotFound THEN PairFound(t, at) ELSE Set(t, [work[t] EXCEPT !.step = "cold"])
    /\ UNCHANGED <<keys, keys2indexSize, keyLock, tlsKeys, tlsHot, pairCache, sets, setCache, count, stored>>

\* The rest of addPair(): the cache of recent pairs, then the pair's shard. Only a pair that
\* was found there enters the cache.
ColdPair(t) ==
    /\ work[t].step = "cold" \/ (work[t].step = "pair" /\ ~IsHot(work[t].value))
    /\ IF pairCache[t] # <<>> /\ pairCache[t][1] = PairOf(t)
       THEN PairFound(t, pairCache[t][2]) /\ UNCHANGED <<pairs, pairCache>>
       ELSE LET shard == ColdShard(PairOf(t))
                known == PairMap!FindEntry(pairs[shard], PairOf(t))
                after == PairMap!AddEntry(pairs[shard], PairOf(t))
                index == IndexOf(shard, PairMap!FindEntry(after, PairOf(t)))
            IN  /\ pairs' = [pairs EXCEPT ![shard] = after]
                /\ pairCache' = IF known = PairMap!NotFound THEN pairCache
                                ELSE [pairCache EXCEPT ![t] = <<PairOf(t), index>>]
                /\ PairFound(t, index)
    /\ UNCHANGED <<keys, keys2indexSize, keyLock, tlsKeys, tlsHot, sets, setCache, count, stored>>

\* AttributeStore::add(): the canonical set, the cache of recent sets, the set's shard.
SetShard(set) == Len(PairsOf(set)) % SetShards

AddSet(t) ==
    /\ work[t].step = "open" /\ work[t].rest = <<>>
    /\ LET set   == FinalizeSet(work[t].set)
           shard == SetShard(set)
           after == SetMap!AddEntry(sets[shard], set)
           cached == setCache[t] # <<>> /\ setCache[t][1] = set
           index == IF cached THEN setCache[t][2] ELSE IndexOf(shard, SetMap!FindEntry(after, set))
       IN  /\ sets' = IF cached THEN sets ELSE [sets EXCEPT ![shard] = after]
           /\ setCache' = IF cached THEN setCache ELSE [setCache EXCEPT ![t] = <<set, index>>]
           /\ stored' = stored \cup {[asked |-> work[t].asked, given |-> work[t].given, index |-> index,
                                  vector |-> set.useVector]}
    /\ count' = [count EXCEPT ![t] = @ + 1]
    /\ Set(t, [step |-> "idle"])
    /\ UNCHANGED <<keys, keys2indexSize, keyLock, tlsKeys, pairs, tlsHot, pairCache>>

Next ==
    \E t \in Writers :
        \/ (\E input \in Inputs : Begin(t, input)) \/ AddAttribute(t)
        \/ KeyFromCopy(t) \/ CatchUp(t) \/ KeyUnderLock(t) \/ PublishSize(t) \/ PushKey(t)
        \/ HotFromCopy(t) \/ RefreshHot(t) \/ HotUnderLock(t) \/ ColdPair(t)
        \/ AddSet(t)

Spec == Init /\ [][Next]_vars
-----------------------------------------------------------------------------
(* Properties. *)

\* The pairs in the upper half of the hot shard: their indices do not fit a signed short.
UpperHot == {<<KeyNamed(PairMap!EntryAt(pairs[0], i)[1]), PairMap!EntryAt(pairs[0], i)[2]>> :
                i \in (ShortRange \div 2)..(PairMap!SizeOf(pairs[0]) - 1)}

\* The sets that never held such a pair.
InShorts == {s \in stored : s.asked \cap UpperHot = {}}

\* An index that add() returned gives back the attributes of the object it was returned for,
\* for ever and whichever thread's copies and caches took part: two threads never mean
\* different keys or pairs by one index, and turning slots into a vector loses none. A set
\* that held a pair of the upper half of the hot shard is not spoken of.
SetsReadBack == \A s \in InShorts : GetUnsafe(s.index) = s.given

\* Objects with the same attributes get the same index, in whatever order the attributes
\* came and however the threads raced to be the first, so that the output merges them;
\* only a set that was a vector may differ from one that never was. As above, for sets that
\* never held a pair of the upper half.
OneIndexPerSet ==
    \A r, s \in InShorts : r.given = s.given /\ r.vector = s.vector => r.index = s.index

\* What the comment beside pairsMutex promises: the hot shard is so small that a short refers
\* to every pair of it, so that every set gives back what it was given.
HotPairsReachable == \A s \in stored : GetUnsafe(s.index) = s.given
=============================================================================
