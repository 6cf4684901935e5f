----------------------------- MODULE PbfPhases ------------------------------
(***************************************************************************)
(* PbfProcessor::ReadPbfFile (src/src/pbf_processor.cpp): the passes over  *)
(* an .osm.pbf file.                                                       *)
(*                                                                         *)
(* The main thread goes through the phases RelationScan, WayScan (only     *)
(* with way_keys), Nodes, Ways and Relations, the last two once per shard. *)
(* In each pass it cuts the blocks that may hold the phase's objects into  *)
(* ranges, posts one task per range to a fresh pool, and joins it.  A      *)
(* block of which nothing is left to read is erased from the map of        *)
(* blocks, so later passes do not read it.  When few blocks remain for     *)
(* Relations, each is given to all threads, one chunk each.                *)
(*                                                                         *)
(* The input is a file and the options it is read with: whether it         *)
(* declares Sort.Type_then_ID and LocationsOnWays, the number of shards of *)
(* the stores, whether the script has way_keys, whether integrity is       *)
(* enforced, and a sequence of blocks, each a record                       *)
(*   groups - a sequence of [type, objs], objs a sequence of objects       *)
(*   mp     - its string table has both "type" and "multipolygon"          *)
(* with objects                                                            *)
(*   node     [id, offered, emits, shard]                                  *)
(*   way      [id, refs, matches, emits]                                   *)
(*   relation [id, kind, matches, accepted, ways, nodes]                   *)
(* where offered/matches are what the tag filters say of the tags, emits   *)
(* and accepted are what the Lua script answers, and shard is pickStore of *)
(* the node's position.  The node and way stores are sets here: that the   *)
(* sorted ones are is the subject of SortedStore.                          *)
(***************************************************************************)
EXTENDS Integers, Sequences, FiniteSets, SequencesExt, Bags

CONSTANTS
  Threads,         \* the threads of the pool; threadNum is their number
  Files,           \* the inputs to consider: records [blocks, sorted, locations,
                   \* shards, wayKeys, integrity]
  ReadsRelations,  \* output.canReadRelations(): relation_scan_function exists
  WritesRelations, \* output.canWriteRelations(): relation_function exists
  TasksPerThread   \* Nodes and Ways: 8 batches or so for each thread

threadNum == Cardinality(Threads)

ASSUME ConfigAssumption ==
  /\ IsFiniteSet(Threads) /\ Threads # {}
  /\ \A f \in Files : f.shards \in Nat \ {0} /\ {f.wayKeys, f.integrity} \subseteq BOOLEAN
  /\ TasksPerThread \in Nat \ {0}
  /\ {ReadsRelations, WritesRelations} \subseteq BOOLEAN

(* A file has its blocks in order, and an object of a type and an ID once. *)
ASSUME FilesAssumption ==
  \A f \in Files :
    /\ Len(f.blocks) \in Nat /\ DOMAIN f.blocks = 1..Len(f.blocks)
    /\ \A b, c \in DOMAIN f.blocks : \A g \in ToSet(f.blocks[b].groups), h \in ToSet(f.blocks[c].groups) :
         \A i \in DOMAIN g.objs, j \in DOMAIN h.objs :
           g.type = h.type /\ g.objs[i].id = h.objs[j].id => b = c /\ g = h /\ i = j

VARIABLES
  file,           \* the input
  blocks,         \* the map of BlockMetadata, by index
  phase,          \* position in AllPhases
  shard,          \* the pass within the phase
  pass,           \* "scan": nothing is known of the blocks; "idle"; "pool"
  ranges,         \* tasks the pool has not started
  todo,           \* todo[t]: what t has still to read of its range
  usedWays,       \* osmStore.used_ways
  usedNodes,      \* osmStore.usedNodes, when it is enabled
  usedRelations,  \* osmStore.usedRelations
  nodes,          \* osmStore.nodes: the IDs stored
  ways,           \* osmStore.ways: the IDs stored, per shard
  calls,          \* bag of the calls of setNode, setWay and setRelation
  failed          \* an exception has left a task and ended the program

vars == <<file, blocks, phase, shard, pass, ranges, todo, usedWays, usedNodes,
          usedRelations, nodes, ways, calls, failed>>
stores == <<usedWays, usedNodes, usedRelations, nodes, ways, calls, failed>>

UW == INSTANCE UsedWays WITH Slack <- 256, MaxWay <- 0, list <- usedWays, marked <- {}

(* nodeStore->shards(), wayKeys.enabled(), osmStore.integrity_enforced()   *)
Shards == file.shards
WayKeys == file.wayKeys
Integrity == file.integrity

-----------------------------------------------------------------------------
(* The contents of the file *)

Groups(b) == ToSet(file.blocks[b].groups)
ObjectsIn(b, type) == UNION {ToSet(g.objs) : g \in {h \in Groups(b) : h.type = type}}
ObjectsOf(type) == UNION {ObjectsIn(b, type) : b \in DOMAIN file.blocks}
NodeAt(id) == CHOOSE n \in ObjectsOf("node") : n.id = id

(* blockHasPrimitiveGroupSatisfying: despite its name, no group satisfies. *)
NoGroupOf(types, b) == \A g \in Groups(b) : g.type \notin types

(* std::lower_bound over the block indexes: halve the range until the      *)
(* first block that has one of the types, if the file is sorted.           *)
LowerBound(types) ==
  LET N == Len(file.blocks)
      search[first \in 1..(N + 1), n \in 0..N] ==
        IF n = 0 THEN first
        ELSE LET half == n \div 2
             IN  IF NoGroupOf(types, first + half)
                 THEN search[first + half + 1, n - half - 1]
                 ELSE search[first, half]
  IN  search[1, N]

(* The metadata of a block: where the three types may occur. *)
Metadata(b) ==
  LET waysStart == LowerBound({"way", "relation"})
      relationsStart == LowerBound({"relation"})
  IN  [block |-> b, chunk |-> 0, chunks |-> 1,
       has |-> {ty \in {"node", "way", "relation"} : file.sorted =>
                  \/ ty = "node" /\ b <= waysStart
                  \/ ty = "way" /\ waysStart <= b /\ b <= relationsStart
                  \/ ty = "relation" /\ relationsStart <= b}]

-----------------------------------------------------------------------------
(* The phases and their passes *)

AllPhases ==
  <<"RelationScan">> \o (IF WayKeys THEN <<"WayScan">> ELSE <<>>)
                     \o <<"Nodes", "Ways", "Relations">>
Phase == AllPhases[phase]
TypeRead == CASE Phase = "Nodes" -> "node"
              [] Phase \in {"WayScan", "Ways"} -> "way"
              [] Phase \in {"RelationScan", "Relations"} -> "relation"

effectiveShards == IF Phase \in {"Ways", "Relations"} THEN Shards ELSE 1

NodesOfShard(s) == {id \in nodes : NodeAt(id).shard = s}

(* A pass over ways or relations is skipped when its shard is empty. *)
SkipsPass ==
  \/ Phase = "Ways" /\ NodesOfShard(shard) = {}
  \/ Phase = "Relations" /\ ways[shard] = {}

(* The keys of a std::map, in the order its iterators take them. *)
Ascending(S) == [i \in 1..Cardinality(S) |-> CHOOSE k \in S : Cardinality({j \in S : j <= k}) = i]

\* mutant: the block is handed to every thread, and not divided
Subdivided_Whole ==
  LET keys == Ascending(DOMAIN blocks)
  IN  [k \in 1..(Len(keys) * threadNum) |-> blocks[keys[1 + (k - 1) \div threadNum]]]

(* Each block once per thread, renumbered from the start. *)
Subdivided ==
  LET keys == Ascending(DOMAIN blocks)
  IN  [k \in 1..(Len(keys) * threadNum) |->
         [blocks[keys[1 + (k - 1) \div threadNum]] EXCEPT
            !.chunks = threadNum, !.chunk = (k - 1) % threadNum]]

Subdivides == Phase = "Relations" /\ Cardinality(DOMAIN blocks) < threadNum * 2

(* The tasks of a pass: runs of batchSize filtered blocks, in order. *)
Ranges(bs) ==
  LET keys == Ascending({k \in DOMAIN bs : TypeRead \in bs[k].has})
      batchSize == IF Phase \in {"Nodes", "Ways"}
                   THEN Len(keys) \div (threadNum * TasksPerThread) + 1 ELSE 1
      number == (Len(keys) + batchSize - 1) \div batchSize
      end(i) == IF i * batchSize < Len(keys) THEN i * batchSize ELSE Len(keys)
  IN  [i \in 1..number |-> SubSeq(keys, (i - 1) * batchSize + 1, end(i))]

-----------------------------------------------------------------------------
(* What a pass does with the objects of block m.block *)

Filter(o) == WayKeys => o.matches
WayUsed(w) == UW!At(usedWays, w.id)
Call(of, o, got) == [of |-> of, id |-> o.id, got |-> got]

ScansRelation(r) ==
  IF r.kind = "multipolygon" THEN Filter(r) ELSE ReadsRelations /\ r.accepted

ScanRelations(m) ==
  LET scanned == {r \in ObjectsIn(m.block, "relation") : ScansRelation(r)}
      accepted == {r \in scanned : r.kind # "multipolygon"}
  IN  /\ usedRelations' = usedRelations \cup {r.id : r \in scanned}
      /\ usedWays' = FoldSet(LAMBDA w, u : UW!Insert(u, w), usedWays,
                             UNION {ToSet(r.ways) : r \in scanned})
      /\ usedNodes' = usedNodes \cup IF WayKeys THEN UNION {r.nodes : r \in accepted} ELSE {}
      /\ UNCHANGED <<nodes, ways, calls, failed>>

\* mutant: only the tags are looked at, not the relations a way is part of
WayScanned_TagsOnly(w) == Filter(w)
WayScanned(w) == WayUsed(w) \/ Filter(w)

ScanWays(m) ==
  /\ usedNodes' = usedNodes \cup
       UNION {ToSet(w.refs) : w \in {v \in ObjectsIn(m.block, "way") : WayScanned(v)}}
  /\ UNCHANGED <<usedWays, usedRelations, nodes, ways, calls, failed>>

ReadNodes(m) ==
  LET here == ObjectsIn(m.block, "node")
      kept(n) == (n.offered /\ n.emits) \/ (WayKeys => n.id \in usedNodes)
  IN  /\ calls' = calls (+) SetToBag({Call("node", n, {}) : n \in {k \in here : k.offered}})
      /\ nodes' = nodes \cup {n.id : n \in {k \in here : kept(k)}}
      /\ UNCHANGED <<usedWays, usedNodes, usedRelations, ways, failed>>

(* The nodes of way w whose positions setWay is given. *)
Positions(w) == IF file.locations THEN ToSet(w.refs) ELSE ToSet(w.refs) \cap nodes

(* A pass over one of several shards takes the ways that start in it. *)
WayInShard(w) ==
  Shards > 1 /\ ~file.locations /\ w.refs # <<>> => Head(w.refs) \in NodesOfShard(shard)

ReadWays(m) ==
  LET here == {w \in ObjectsIn(m.block, "way") : (WayUsed(w) \/ Filter(w)) /\ WayInShard(w)}
      read == {w \in here : Positions(w) # {}}
  IN  /\ IF Integrity /\ \E w \in here : Positions(w) # ToSet(w.refs)
         THEN failed' = TRUE /\ UNCHANGED <<calls, ways>>
         ELSE /\ calls' = calls (+) SetToBag({Call("way", w, Positions(w)) : w \in read})
              /\ ways' = [ways EXCEPT ![shard] = @ \cup
                           {w.id : w \in {v \in read : v.emits \/ WayUsed(v)}}]
              /\ UNCHANGED failed
      /\ UNCHANGED <<usedWays, usedNodes, usedRelations, nodes>>

(* The relations of a block that fall to chunk m.chunk, counted within     *)
(* each group.                                                             *)
Share(m) ==
  UNION {{g.objs[j] : j \in {i \in DOMAIN g.objs : (i - 1) % m.chunks = m.chunk}}
         : g \in {h \in Groups(m.block) : h.type = "relation"}}

RelationInShard(r) == Shards > 1 /\ r.ways # <<>> => Head(r.ways) \in ways[shard]

(* The members of r that the way store finds, trying all shards. *)
Stored(r) == ToSet(r.ways) \cap UNION {ways[s] : s \in DOMAIN ways}

ReadRelations(m) ==
  LET here == {r \in Share(m) :
                 /\ file.blocks[m.block].mp
                 /\ r.kind \in {"multipolygon", "boundary"} \/ WritesRelations
                 /\ RelationInShard(r)
                 /\ r.id \in usedRelations \/ Filter(r)}
  IN  /\ calls' = calls (+) SetToBag({Call("relation", r, Stored(r)) : r \in here})
      /\ UNCHANGED <<usedWays, usedNodes, usedRelations, nodes, ways, failed>>

\* mutant: blocks of several types are thought to be finished too
Handled_AnyGroup(m) ==
  /\ Phase \in {"Nodes", "Ways", "Relations"}
  /\ \E g \in Groups(m.block) : g.type = TypeRead
  /\ shard + 1 = effectiveShards /\ m.chunks = 1

(* ReadBlock's answer: no later pass has anything to read in this block. *)
Handled(m) ==
  /\ Phase \in {"Nodes", "Ways", "Relations"}
  /\ \A g \in Groups(m.block) : g.type = TypeRead
  /\ shard + 1 = effectiveShards /\ m.chunks = 1

-----------------------------------------------------------------------------
Init ==
  /\ file \in Files
  /\ blocks = <<>>
  /\ phase = 1 /\ shard = 0 /\ pass = "scan"
  /\ ranges = <<>>
  /\ todo = [t \in Threads |-> <<>>]
  /\ usedWays = UW!EmptyList
  /\ usedNodes = {} /\ usedRelations = {}
  /\ nodes = {}
  /\ ways = [s \in 0..(Shards - 1) |-> {}]
  /\ calls = EmptyBag
  /\ failed = FALSE

Running == phase <= Len(AllPhases) /\ ~failed

(* Read the headers of all blobs and find where each type begins. *)
ScanBlocks ==
  /\ pass = "scan"
  /\ blocks' = [b \in DOMAIN file.blocks |-> Metadata(b)]
  /\ pass' = "idle"
  /\ UNCHANGED <<file, phase, shard, ranges, todo, stores>>

\* mutant: the phase is not advanced after its last shard
NextPass_SamePhase ==
  /\ shard' = (shard + 1) % effectiveShards
  /\ UNCHANGED <<phase, usedNodes>>

(* The next pass: over the next shard, or the first of the next phase.     *)
(* usedNodes is of no use once the nodes are stored.                       *)
NextPass ==
  IF shard + 1 < effectiveShards
  THEN shard' = shard + 1 /\ UNCHANGED <<phase, usedNodes>>
  ELSE /\ shard' = 0 /\ phase' = phase + 1
       /\ usedNodes' = IF Phase = "Nodes" THEN {} ELSE usedNodes

SkipPass ==
  /\ pass = "idle" /\ Running /\ SkipsPass
  /\ NextPass
  /\ UNCHANGED <<file, blocks, pass, ranges, todo, usedWays, usedRelations,
                 nodes, ways, calls, failed>>

(* Build the tasks of a pass and post them to a new pool. *)
StartPass ==
  /\ pass = "idle" /\ Running /\ ~SkipsPass
  /\ blocks' = IF Subdivides THEN Subdivided ELSE blocks
  /\ ranges' = Ranges(blocks')
  /\ pass' = "pool"
  /\ UNCHANGED <<file, phase, shard, todo, stores>>

(* A thread takes a task. *)
TakeRange(t) ==
  /\ pass = "pool" /\ Running
  /\ todo[t] = <<>> /\ ranges # <<>>
  /\ todo' = [todo EXCEPT ![t] = Head(ranges)]
  /\ ranges' = Tail(ranges)
  /\ UNCHANGED <<file, blocks, phase, shard, pass, stores>>

(* A thread reads the next block of its task, and erases it if handled. *)
ReadBlock(t) ==
  /\ pass = "pool" /\ Running
  /\ todo[t] # <<>>
  /\ LET k == Head(todo[t])
         m == blocks[k]
     IN  /\ \/ Phase = "RelationScan" /\ ScanRelations(m)
            \/ Phase = "WayScan" /\ ScanWays(m)
            \/ Phase = "Nodes" /\ ReadNodes(m)
            \/ Phase = "Ways" /\ ReadWays(m)
            \/ Phase = "Relations" /\ ReadRelations(m)
         /\ blocks' = IF Handled(m) THEN [i \in DOMAIN blocks \ {k} |-> blocks[i]] ELSE blocks
  /\ todo' = [todo EXCEPT ![t] = Tail(@)]
  /\ UNCHANGED <<file, phase, shard, pass, ranges>>

(* pool.join() returns. *)
Join ==
  /\ pass = "pool" /\ Running
  /\ ranges = <<>> /\ \A t \in Threads : todo[t] = <<>>
  /\ pass' = "idle"
  /\ NextPass
  /\ UNCHANGED <<file, blocks, ranges, todo, usedWays, usedRelations, nodes,
                 ways, calls, failed>>

Terminated == ~Running /\ UNCHANGED vars

Main == ScanBlocks \/ SkipPass \/ StartPass \/ Join
Worker(t) == TakeRange(t) \/ ReadBlock(t)

Next == Main \/ (\E t \in Threads : Worker(t)) \/ Terminated

Spec == Init /\ [][Next]_vars

(* The main thread runs when it can, and so does every pool thread. *)
Fairness == WF_vars(Main) /\ \A t \in Threads : WF_vars(Worker(t))

FairSpec == Spec /\ Fairness

-----------------------------------------------------------------------------

Done == phase > Len(AllPhases)
WasCalled(of, o) == \E c \in DOMAIN calls : c.of = of /\ c.id = o.id

NodeIds == {n.id : n \in ObjectsOf("node")}

(* With several shards a way is found through its first node. *)
Storable(w) == IF Shards = 1 \/ file.locations THEN ToSet(w.refs) \cap NodeIds # {}
               ELSE w.refs # <<>> /\ Head(w.refs) \in NodeIds

Needed(w) == \E r \in ObjectsOf("relation") : ScansRelation(r) /\ w.id \in ToSet(r.ways)
Members(r) == {w.id : w \in {v \in ObjectsOf("way") : v.id \in ToSet(r.ways) /\ Storable(v)}}

(* A relation that was scanned and has a geometry to write. *)
Writable(r) ==
  /\ ScansRelation(r)
  /\ r.kind \in {"multipolygon", "boundary"} \/ WritesRelations
  /\ r.ways # <<>> /\ Head(r.ways) \in Members(r)

(* An object is given to the Lua script once: neither two chunks of a      *)
(* block, nor two tasks, nor the passes over two shards repeat it, which   *)
(* would write it to the tiles twice.                                      *)
CalledOnce ==
  \A c, d \in DOMAIN calls : c.of = d.of /\ c.id = d.id => c = d /\ calls[c] = 1

(* Of the inductive invariant for files that are read with one shard: the  *)
(* blocks, or their chunks, are different ones;                            *)
BlocksApart ==
  /\ DOMAIN blocks \subseteq Nat /\ IsFiniteSet(DOMAIN blocks)
  /\ \A k \in DOMAIN blocks :
       /\ blocks[k] \in [block : DOMAIN file.blocks, chunk : Nat, chunks : Nat,
                         has : SUBSET {"node", "way", "relation"}]
       /\ Running /\ (Phase # "Relations" \/ pass # "pool") => blocks[k].chunks = 1 /\ blocks[k].chunk = 0
  /\ \A j, k \in DOMAIN blocks : j # k =>
       \/ blocks[j].block # blocks[k].block
       \/ blocks[j].chunks = blocks[k].chunks /\ blocks[j].chunk # blocks[k].chunk

(* ... no two tasks read the same one, and none reads one that is erased;  *)
TasksApart ==
  /\ ranges \in Seq(Seq(Nat)) /\ todo \in [Threads -> Seq(Nat)]
  /\ \A i \in DOMAIN ranges : IsInjective(ranges[i]) /\ ToSet(ranges[i]) \subseteq DOMAIN blocks
  /\ \A t \in Threads : IsInjective(todo[t]) /\ ToSet(todo[t]) \subseteq DOMAIN blocks
  /\ \A i, j \in DOMAIN ranges : i # j => ToSet(ranges[i]) \cap ToSet(ranges[j]) = {}
  /\ \A t, u \in Threads : t # u => ToSet(todo[t]) \cap ToSet(todo[u]) = {}
  /\ \A t \in Threads : \A i \in DOMAIN ranges : ToSet(todo[t]) \cap ToSet(ranges[i]) = {}
  /\ pass # "pool" => ranges = <<>> /\ \A t \in Threads : todo[t] = <<>>

(* ... and of what is still to be read in a pass nothing has been called   *)
(* for, as each type has one pass.                                         *)
Pending == UNION ({ToSet(ranges[i]) : i \in DOMAIN ranges} \cup {ToSet(todo[t]) : t \in Threads})
Part(m) == IF TypeRead = "relation" THEN Share(m) ELSE ObjectsIn(m.block, TypeRead)
Begun(type) ==
  \E p \in 1..Len(AllPhases) :
    /\ AllPhases[p] = [node |-> "Nodes", way |-> "Ways", relation |-> "Relations"][type]
    /\ p < phase \/ (p = phase /\ pass = "pool")
CallsFresh ==
  /\ \A c \in DOMAIN calls : c.of \in {"node", "way", "relation"} /\ Begun(c.of)
  /\ Running /\ Phase \in {"Nodes", "Ways", "Relations"} =>
       \A m \in {blocks[k] : k \in Pending} : \A o \in Part(m) : \A c \in DOMAIN calls :
         c.of = TypeRead => c.id # o.id

OneShardInv ==
  /\ file \in Files /\ phase \in 1..(Len(AllPhases) + 1) /\ shard = 0
  /\ pass \in {"scan", "idle", "pool"} /\ failed \in BOOLEAN
  /\ BlocksApart /\ TasksApart /\ CallsFresh /\ CalledOnce

(* setWay is given every node of the way that is in the file, and          *)
(* setRelation finds every member way of a relation that was scanned: the  *)
(* filters of the scanning phases keep all that the reading phases need.   *)
GeometryComplete ==
  \A c \in DOMAIN calls :
    /\ \A w \in ObjectsOf("way") : c.of = "way" /\ c.id = w.id =>
         c.got = IF file.locations THEN ToSet(w.refs) ELSE ToSet(w.refs) \cap NodeIds
    /\ \A r \in ObjectsOf("relation") :
         c.of = "relation" /\ c.id = r.id /\ r.id \in usedRelations => c.got = Members(r)

(* When ReadPbfFile returns, no object has been passed over: not by the    *)
(* search for type boundaries, the ranges, the chunks, the erasing of      *)
(* blocks or the skipping of passes.  (Relations are only looked at in     *)
(* blocks that mention multipolygons.)                                     *)
NothingSkipped ==
  Done =>
    /\ \A n \in ObjectsOf("node") : n.offered => WasCalled("node", n)
    /\ \A w \in ObjectsOf("way") : (Filter(w) \/ Needed(w)) /\ Storable(w) => WasCalled("way", w)
    /\ \A b \in DOMAIN file.blocks : \A r \in ObjectsIn(b, "relation") :
         file.blocks[b].mp /\ Writable(r) => WasCalled("relation", r)

=============================================================================
