------------------------------ MODULE NodeChunks ------------------------------
(***************************************************************************)
(* How SortedNodeStore lays the nodes of a group out in memory, and how    *)
(* at() and contains() find them again (src/sorted_node_store.cpp).        *)
(*                                                                         *)
(* A group holds ChunkSize chunks of ChunkSize node IDs.  Only what exists *)
(* takes space: a mask says which chunks (of a group) and which nodes (of  *)
(* a chunk) are present, and the place of one is found by counting the     *)
(* bits below its own.  A chunk is stored compressed when that is smaller. *)
(* A thread that reads a compressed chunk keeps it decoded in a cache of   *)
(* one chunk per store (thread_local threadStorage).                       *)
(*                                                                         *)
(* That publishGroup gets whole groups, each once and in order, is what    *)
(* SortedStore shows.                                                      *)
(***************************************************************************)
EXTENDS Packing, Bitwise

CONSTANTS
    Stores,         \* the stores of a ShardedNodeStore, or one
    SizeBits,       \* bits for each compressed length in flags, 10 in the code
    GroupSlots,     \* indexes in the vector groups
    Files           \* what may be read: [Stores -> functions from IDs to positions]

GroupNodes == ChunkSize * ChunkSize

AllIds == 0 .. GroupNodes * Cardinality(GroupSlots) - 1

(* sizeof(LatpLon), sizeof(ChunkInfoBase), sizeof(GroupInfo), a uint16_t,  *)
(* STREAMVBYTE_PADDING and ChunkAlignment, in bytes.                       *)
LatpLonSize == 2 * IntBytes
ChunkInfoSize == IntBytes + MaskBytes
GroupInfoSize == MaskBytes
OffsetSize == 2
StreamvbytePadding == 16
ChunkAlignment == 16

NodeChunksAssumption ==
    /\ ByteBits \in Nat \ {0} /\ IntBytes \in Nat \ {0}
    /\ MaskBytes \in Nat \ {0} /\ SizeBits \in Nat
    /\ \A f \in Files : \A s \in Stores : DOMAIN f[s] \subseteq AllIds
    (* scaledOffset fits in 16 bits even if no chunk can be compressed *)
    /\ ChunkSize * (ChunkInfoSize + ChunkSize * LatpLonSize + ChunkAlignment)
            <= ChunkAlignment * 65535

VARIABLES
    file,           \* the nodes of the input file, by the store that gets them
    groups,         \* groups[s][g], the GroupInfo of group g or NoGroup
    cache           \* one reading thread's cachedChunk and cacheChunkLatps/Lons

vars == <<file, groups, cache>>

NoGroup == [chunkOffsets |-> << >>]
Missing == << >>
NoChunk == [chunk |-> -1, nodes |-> << >>]

-------------------------------------------------------------------------------
GroupIndex(id) == id \div GroupNodes
ChunkOf(id) == (id % GroupNodes) \div ChunkSize

-------------------------------------------------------------------------------
(* publishGroup. *)

Latps(ps) == [k \in DOMAIN ps |-> ps[k][1]]
Lons(ps) == [k \in DOMAIN ps |-> ps[k][2]]

(* The nodes in order, cut where the chunk changes. *)
Chunks(ids) ==
    LET starts == {k \in DOMAIN ids :
                      k = 1 \/ ChunkOf(ids[k]) # ChunkOf(ids[k - 1])}
        sorted == SetToSortSeq(starts, <)
        end(c) == IF c = Len(sorted) THEN Len(ids) ELSE sorted[c + 1] - 1
    IN  [c \in DOMAIN sorted |-> SubSeq(ids, sorted[c], end(c))]

Deltas(ints) == ZigzagDeltaEncode(Tail(ints), Head(ints))

Uncompressed == <<-1, -1>>

(* total < raw is never true of a single node: no size is ever 0, which    *)
(* would mean "no chunk" to GroupSpace.                                    *)
Shrinks(total, raw) == total < raw

FitsFlags(size) == size < 2 ^ SizeBits

(* compressedLatpSize and compressedLonSize of a chunk, ~0 being -1. *)
CompressedSizes(compressNodes, ps) ==
    LET lats == StreamvbyteSize(Deltas(Latps(ps)))
        lons == StreamvbyteSize(Deltas(Lons(ps)))
    IN  IF /\ compressNodes
           /\ Shrinks(lats + lons + LatpLonSize, Len(ps) * LatpLonSize)
           /\ FitsFlags(lats) /\ FitsFlags(lons)
        THEN <<lats, lons>>
        ELSE Uncompressed

Aligned(size) ==
    IF size % ChunkAlignment = 0 THEN size
    ELSE size + ChunkAlignment - (size % ChunkAlignment)

ChunkSpace(n, sizes) ==
    Aligned(ChunkInfoSize + IF sizes = Uncompressed THEN n * LatpLonSize
                            ELSE LatpLonSize + sizes[1] + sizes[2])

(* The first pass: what to allocate.  It stops at a chunk of size 0. *)
GroupSpace(lengths, sizes) ==
    LET counted == {c \in DOMAIN sizes : \A d \in 1 .. c : sizes[d][1] # 0}
    IN  GroupInfoSize + Len(sizes) * OffsetSize + StreamvbytePadding
        + MapThenSumSet(LAMBDA c : ChunkSpace(lengths[c], sizes[c]), counted)

ChunkCompressed == 2 ^ (2 * SizeBits)

(* The ChunkInfo of one chunk. *)
ChunkInfo(ids, ps, sizes) ==
    LET base == [nodeMask |-> MaskOf({id % ChunkSize : id \in Range(ids)})]
    IN  IF sizes = Uncompressed
        THEN base @@ [flags |-> 0, nodes |-> ps]
        ELSE base @@
             [flags |-> (ChunkCompressed | (sizes[1] * 2 ^ SizeBits)) | sizes[2],
              first |-> Head(ps),
              data |-> StreamvbyteEncode(Deltas(Latps(ps)))
                       \o StreamvbyteEncode(Deltas(Lons(ps)))]

(* The second pass: the GroupInfo of the given nodes.  memory gives what   *)
(* lies at a byte offset from the end of chunkOffsets, and space - unused  *)
(* is what was written.                                                    *)
PublishGroup(compressNodes, nodes) ==
    LET chunks == Chunks(SetToSortSeq(DOMAIN nodes, <))
        position(c) == [k \in DOMAIN chunks[c] |-> nodes[chunks[c][k]]]
        sizes == [c \in DOMAIN chunks |-> CompressedSizes(compressNodes, position(c))]
        spaceOf(c) == ChunkSpace(Len(chunks[c]), sizes[c])
        rawOffset(c) == MapThenSumSet(spaceOf, 1 .. c - 1)
    IN  [chunkMask |-> MaskOf({ChunkOf(id) : id \in DOMAIN nodes}),
         chunkOffsets |-> [c \in DOMAIN chunks |-> rawOffset(c) \div ChunkAlignment],
         memory |-> [p \in {rawOffset(c) : c \in DOMAIN chunks} |->
                        LET c == CHOOSE d \in DOMAIN chunks : rawOffset(d) = p
                        IN  ChunkInfo(chunks[c], position(c), sizes[c])],
         unused |-> GroupSpace([c \in DOMAIN chunks |-> Len(chunks[c])], sizes)
                    - GroupInfoSize - Len(chunks) * OffsetSize
                    - rawOffset(Len(chunks) + 1)]

-------------------------------------------------------------------------------
(* at and contains. *)

(* The ChunkInfo at() reads for an ID, if its group and chunk exist. *)
HasChunk(s, id) ==
    LET group == groups[s][GroupIndex(id)]
    IN  /\ group # NoGroup
        /\ IsSet(group.chunkMask, MaskByte(ChunkOf(id)), MaskBit(ChunkOf(id)))

ChunkAt(s, id) ==
    LET group == groups[s][GroupIndex(id)]
        index == CountBefore(group.chunkMask, MaskByte(ChunkOf(id)), MaskBit(ChunkOf(id)))
    IN  group.memory[group.chunkOffsets[index + 1] * ChunkAlignment]

NodeMaskByte(id) == MaskByte(id % ChunkSize)
NodeMaskBit(id) == id % ByteBits

HasNode(s, id) ==
    /\ HasChunk(s, id)
    /\ IsSet(ChunkAt(s, id).nodeMask, NodeMaskByte(id), NodeMaskBit(id))

IsCompressed(chunk) == chunk.flags >= ChunkCompressed

\* mutant: the cache is asked for the number of the chunk within its group
NeededChunk_InGroup(id) == ChunkOf(id)

NeededChunk(id) == GroupIndex(id) * ChunkSize + ChunkOf(id)

Decoded(chunk) ==
    LET latpSize == (chunk.flags \div 2 ^ SizeBits) % 2 ^ SizeBits
        n == Popcnt(chunk.nodeMask) - 1
        ints(p, first) ==
            <<first>> \o ZigzagDeltaDecode(StreamvbyteDecode(chunk.data, p, n), first)
        latps == ints(1, chunk.first[1])
        lons == ints(1 + latpSize, chunk.first[2])
    IN  [k \in 1 .. n + 1 |-> <<latps[k], lons[k]>>]

(* The cache after at() has met a compressed chunk. *)
CacheAfter(s, id) ==
    IF cache[s].chunk = NeededChunk(id) THEN cache[s]
    ELSE [chunk |-> NeededChunk(id), nodes |-> Decoded(ChunkAt(s, id))]

(* What at(id) returns or throws. *)
At(s, id) ==
    IF ~ HasChunk(s, id) THEN Missing
    ELSE LET chunk == ChunkAt(s, id)
             offset == CountBefore(chunk.nodeMask, NodeMaskByte(id), NodeMaskBit(id))
             nodes == IF IsCompressed(chunk) THEN CacheAfter(s, id).nodes ELSE chunk.nodes
         IN  IF IsSet(chunk.nodeMask, NodeMaskByte(id), NodeMaskBit(id))
             THEN IF offset + 1 \in DOMAIN nodes THEN nodes[offset + 1] ELSE <<0>>
             ELSE Missing

-------------------------------------------------------------------------------
Init ==
    /\ file \in Files
    /\ groups = [s \in Stores |-> [g \in GroupSlots |-> NoGroup]]
    /\ cache = [s \in Stores |-> NoChunk]

NodesOf(s, g) ==
    [id \in {i \in DOMAIN file[s] : GroupIndex(i) = g} |-> file[s][id]]

(* The nodes pass: the groups of every store are published.  Nothing reads *)
(* before it has ended (PbfPhases), so its steps need no interleaving.     *)
PublishAll(compressNodes) ==
    /\ \A s \in Stores, g \in GroupSlots : groups[s][g] = NoGroup
    /\ groups' = [s \in Stores |-> [g \in GroupSlots |->
                     IF DOMAIN NodesOf(s, g) = {} THEN NoGroup
                     ELSE PublishGroup(compressNodes, NodesOf(s, g))]]
    /\ UNCHANGED <<file, cache>>

(* A later pass looks a node up.  The cache changes even if the chunk      *)
(* turns out not to have the node.                                         *)
LookUp(s, id) ==
    /\ HasChunk(s, id)
    /\ IsCompressed(ChunkAt(s, id))
    /\ cache' = [cache EXCEPT ![s] = CacheAfter(s, id)]
    /\ UNCHANGED <<file, groups>>

Next ==
    \/ \E compressNodes \in BOOLEAN : PublishAll(compressNodes)
    \/ \E s \in Stores, id \in AllIds : LookUp(s, id)

Spec == Init /\ [][Next]_vars

-------------------------------------------------------------------------------

(* Once the groups are published, at() returns the position read from the  *)
(* file for every node that was inserted and throws for every other ID,    *)
(* and contains() agrees, whatever was looked up before and is cached.     *)
ReadsBack ==
    \A s \in Stores :
        (\E g \in GroupSlots : groups[s][g] # NoGroup) =>
            \A id \in AllIds :
                /\ HasNode(s, id) <=> id \in DOMAIN file[s]
                /\ At(s, id) = IF id \in DOMAIN file[s] THEN file[s][id] ELSE Missing

(* The space calculated in the first pass holds what the second pass       *)
(* writes, and the bytes streamvbyte_decode may read beyond it: publishing *)
(* a group never runs into the next one in the thread's arena.             *)
FitsGroupSpace ==
    \A s \in Stores, g \in GroupSlots :
        groups[s][g] # NoGroup => groups[s][g].unused >= StreamvbytePadding

===============================================================================
