------------------------------- MODULE WayChunks -------------------------------
(***************************************************************************)
(* How SortedWayStore encodes the node list of a way, lays the ways of a   *)
(* group out in memory and finds them again (src/sorted_way_store.cpp).    *)
(*                                                                         *)
(* A node ID is split in its low LowBits bits and an upper half byte.  If  *)
(* all IDs of a way share the upper half it is stored once, otherwise two  *)
(* to a byte.  The last node of a closed way is left out.  Within a chunk  *)
(* the small ways come first, found by their byte offset; the big ways     *)
(* follow at multiples of LargeWayAlignment, found by the multiple.        *)
(***************************************************************************)
EXTENDS Packing

CONSTANTS
    LowBits,            \* 31 in the code: zigzag needs the sign bit of an int
    LengthBits,         \* bits for the length in flags, 11 in the code
    MaxWayNodes,        \* 2000 in the code
    SmallLimit,         \* ways of fewer bytes are small, 256 in the code
    LargeWayAlignment,  \* 64 in the code
    OffsetBits,         \* bits in a way offset, 16 in the code
    GroupSlots,         \* indexes in the vector groups
    Files               \* what may be read: functions from way IDs to node IDs

GroupWays == ChunkSize * ChunkSize

WayIds == 0 .. GroupWays * Cardinality(GroupSlots) - 1

(* sizeof(EncodedWay), sizeof(GroupInfo), sizeof(ChunkInfo), the offsets   *)
(* and STREAMVBYTE_PADDING, in bytes.                                      *)
EncodedWaySize == 2
GroupInfoSize == MaskBytes
ChunkInfoSize == 2 * MaskBytes
ChunkOffsetSize == IntBytes
WayOffsetSize == 2
StreamvbytePadding == 16

HalfByte == 2 ^ (ByteBits \div 2)

WayChunksAssumption ==
    /\ ByteBits \in Nat /\ ByteBits % 2 = 0 /\ ByteBits > 0
    /\ LowBits = ByteBits * IntBytes - 1
    /\ MaxWayNodes < 2 ^ LengthBits
    /\ ChunkSize * (SmallLimit - 1) < 2 ^ OffsetBits
    /\ \A f \in Files : DOMAIN f \subseteq WayIds

VARIABLES
    file,           \* the ways that were inserted
    groups,         \* the GroupInfo of each group or NoGroup
    thrown          \* encodeWay threw: the program ends

vars == <<file, groups, thrown>>

NoGroup == [chunkOffsets |-> << >>]
Missing == << >>

GroupIndex(id) == id \div GroupWays
ChunkOf(id) == (id % GroupWays) \div ChunkSize

SumOver(f(_), seq) == FoldLeft(LAMBDA sum, x : sum + f(x), 0, seq)

-------------------------------------------------------------------------------
(* encodeWay and decodeWay. *)

Upper(node) == node \div 2 ^ LowBits
Low(node) == node % 2 ^ LowBits

IsClosed(way) == Len(way) > 1 /\ way[1] = way[Len(way)]

(* The nodes that are stored. *)
StoredNodes(way) == IF IsClosed(way) THEN Front(way) ELSE way

UniformUpper(way) == \A k \in DOMAIN way : Upper(way[k]) = Upper(way[1])

(* uint8_t upper4Bits *)
UpperHalf(node) == Upper(node) % 2 ^ ByteBits

(* Two upper halves to a byte, the earlier node's in the low half. *)
UpperBytes(nodes) ==
    [i \in 1 .. (Len(nodes) + 1) \div 2 |->
        UpperHalf(nodes[2 * i - 1])
        + HalfByte * (IF 2 * i <= Len(nodes) THEN UpperHalf(nodes[2 * i]) ELSE 0)]

(* No exception is thrown. *)
Accepts(way) ==
    /\ Len(way) \in 1 .. MaxWayNodes
    /\ UniformUpper(way) => Upper(way[1]) < HalfByte
    /\ ~ UniformUpper(way) =>
          \A k \in DOMAIN StoredNodes(way) : UpperHalf(way[k]) < HalfByte

LowDeltas(nodes) ==
    ZigzagDeltaEncode([k \in 1 .. Len(nodes) - 1 |-> Low(nodes[k + 1])], Low(nodes[1]))

EncodeWay(way, compress) ==
    LET nodes == StoredNodes(way)
        high == IF UniformUpper(way) THEN <<Upper(way[1])>> ELSE UpperBytes(nodes)
        int(n) == Cells(<<n>>, IntBytes)
        low == IF compress
               THEN Cells(<<StreamvbyteSize(LowDeltas(nodes))>>, 2)
                    \o int(Low(nodes[1]))
                    \o StreamvbyteEncode(LowDeltas(nodes))
               ELSE FlattenSeq([k \in DOMAIN nodes |-> int(Low(nodes[k]))])
    IN  [flags |-> [length |-> Len(nodes), compressed |-> compress,
                    closed |-> IsClosed(way), uniform |-> UniformUpper(way)],
         data |-> [k \in DOMAIN high |-> <<high[k]>>] \o low]

(* The IDs of the decoded way, from the cells written by EncodeWay. *)
DecodeWay(encoded) ==
    LET length == encoded.flags.length % 2 ^ LengthBits
        data == encoded.data
        highs == IF encoded.flags.uniform THEN 1 ELSE (length - 1) \div 2 + 1
        high(k) == IF encoded.flags.uniform THEN data[1][1]
                   ELSE LET byte == data[(k - 1) \div 2 + 1][1]
                        IN  IF k % 2 = 1 THEN byte % HalfByte ELSE byte \div HalfByte
        first == data[highs + 3][1]
        rest == ZigzagDeltaDecode(
                    StreamvbyteDecode(data, highs + 3 + IntBytes, length - 1), first)
        low(k) == IF ~ encoded.flags.compressed THEN data[highs + 1 + (k - 1) * IntBytes][1]
                  ELSE IF k = 1 THEN first ELSE rest[k - 1] % Word
        nodes == [k \in 1 .. length |-> high(k) * 2 ^ LowBits + low(k)]
    IN  IF encoded.flags.closed THEN Append(nodes, nodes[1]) ELSE nodes

-------------------------------------------------------------------------------
(* publishGroup. *)

(* Short ways are never compressed. *)
Encoded(compressWays, way) == EncodeWay(way, compressWays /\ Len(way) >= 4)

WaySize(encoded) == Len(encoded.data) + EncodedWaySize

IsSmall(encoded) == WaySize(encoded) < SmallLimit

BigSpace(encoded) ==
    ((WaySize(encoded) - 1) \div LargeWayAlignment + 1) * LargeWayAlignment

Aligned(size) ==
    IF size % LargeWayAlignment = 0 THEN size
    ELSE size + LargeWayAlignment - (size % LargeWayAlignment)

(* The ways of a chunk in the order of their offsets: small, then big. *)
SmallWays(chunk) == SelectSeq(chunk, LAMBDA w : IsSmall(w.encoded))
BigWays(chunk) == SelectSeq(chunk, LAMBDA w : ~ IsSmall(w.encoded))

SmallBytes(chunk) == SumOver(LAMBDA w : WaySize(w.encoded), SmallWays(chunk))
BigBytes(chunk) == SumOver(LAMBDA w : BigSpace(w.encoded), BigWays(chunk))

(* What the first pass calculates for the ways of a chunk. *)
SpaceInChunk(chunk) == Aligned(SmallBytes(chunk)) + BigBytes(chunk)

GroupSpace(chunks) ==
    GroupInfoSize + StreamvbytePadding
    + SumOver(LAMBDA c : ChunkOffsetSize + ChunkInfoSize
                         + Len(c) * WayOffsetSize + SpaceInChunk(c), chunks)

(* The second pass, for one chunk: where each way starts, counted from the *)
(* end of wayOffsets, and the first free byte after them.                  *)
SmallStart(chunk, k) ==
    SumOver(LAMBDA w : WaySize(w.encoded), SubSeq(SmallWays(chunk), 1, k - 1))

BigStart(chunk, k) ==
    Aligned(SmallBytes(chunk))
    + SumOver(LAMBDA w : BigSpace(w.encoded), SubSeq(BigWays(chunk), 1, k - 1))

EndOfWays(chunk) == BigStart(chunk, Len(BigWays(chunk)) + 1)

(* The ChunkInfo with its ways. *)
ChunkInfo(chunk) ==
    LET small == SmallWays(chunk)
        big == BigWays(chunk)
        placesOf(ws) == {ws[k].id % ChunkSize : k \in DOMAIN ws}
        smallAt == [p \in {SmallStart(chunk, k) : k \in DOMAIN small} |->
                       small[CHOOSE k \in DOMAIN small : SmallStart(chunk, k) = p].encoded]
        bigAt == [p \in {BigStart(chunk, k) : k \in DOMAIN big} |->
                     big[CHOOSE k \in DOMAIN big : BigStart(chunk, k) = p].encoded]
    IN  [smallWayMask |-> MaskOf(placesOf(small)),
         bigWayMask |-> MaskOf(placesOf(big)),
         wayOffsets |->
            [k \in 1 .. Len(chunk) |->
                (IF k <= Len(small) THEN SmallStart(chunk, k)
                 ELSE BigStart(chunk, k - Len(small)) \div LargeWayAlignment)
                % 2 ^ OffsetBits],
         memory |-> smallAt @@ bigAt]

(* The GroupInfo of the given ways; unused is what is left of the space    *)
(* that was allocated when everything is written.                          *)
PublishGroup(compressWays, ways) ==
    LET ids == SetToSortSeq(DOMAIN ways, <)
        chunkIds == SetToSortSeq({ChunkOf(id) : id \in DOMAIN ways}, <)
        way(id) == [id |-> id, encoded |-> Encoded(compressWays, ways[id])]
        inChunk(c) == SelectSeq(ids, LAMBDA id : ChunkOf(id) = c)
        chunks == [i \in DOMAIN chunkIds |->
                      LET in == inChunk(chunkIds[i])
                      IN  [k \in DOMAIN in |-> way(in[k])]]
        length(c) == ChunkInfoSize + Len(c) * WayOffsetSize + EndOfWays(c)
        offset(i) == GroupInfoSize + Len(chunks) * ChunkOffsetSize
                     + SumOver(length, SubSeq(chunks, 1, i - 1))
    IN  [chunkMask |-> MaskOf(Range(chunkIds)),
         chunkOffsets |-> [i \in DOMAIN chunks |-> offset(i)],
         memory |-> [p \in {offset(i) : i \in DOMAIN chunks} |->
                        ChunkInfo(chunks[CHOOSE i \in DOMAIN chunks : offset(i) = p])],
         unused |-> GroupSpace(chunks) - offset(Len(chunks) + 1)]

-------------------------------------------------------------------------------
(* at and contains. *)

HasChunk(id) ==
    LET group == groups[GroupIndex(id)]
    IN  /\ group # NoGroup
        /\ IsSet(group.chunkMask, MaskByte(ChunkOf(id)), MaskBit(ChunkOf(id)))

ChunkAt(id) ==
    LET group == groups[GroupIndex(id)]
    IN  group.memory[group.chunkOffsets[
            CountBefore(group.chunkMask, MaskByte(ChunkOf(id)), MaskBit(ChunkOf(id))) + 1]]

WayMaskByte(id) == MaskByte(id % ChunkSize)
WayMaskBit(id) == id % ByteBits

IsSmallAt(chunk, id) == IsSet(chunk.smallWayMask, WayMaskByte(id), WayMaskBit(id))
IsBigAt(chunk, id) == IsSet(chunk.bigWayMask, WayMaskByte(id), WayMaskBit(id))

HasWay(id) == HasChunk(id) /\ (IsSmallAt(ChunkAt(id), id) \/ IsBigAt(ChunkAt(id), id))

\* mutant: the offsets of the small ways are not skipped
BigIndex_FromZero(chunk, id) ==
    CountBefore(chunk.bigWayMask, WayMaskByte(id), WayMaskBit(id))

(* The offsets of the big ways follow those of the small ones. *)
BigIndex(chunk, id) ==
    Popcnt(chunk.smallWayMask)
    + CountBefore(chunk.bigWayMask, WayMaskByte(id), WayMaskBit(id))

(* The nodes at() looks up for a way, or the exception. *)
At(id) ==
    IF ~ HasWay(id) THEN Missing
    ELSE LET chunk == ChunkAt(id)
             start == IF IsSmallAt(chunk, id)
                      THEN chunk.wayOffsets[CountBefore(chunk.smallWayMask,
                               WayMaskByte(id), WayMaskBit(id)) + 1]
                      ELSE chunk.wayOffsets[BigIndex(chunk, id) + 1] * LargeWayAlignment
         IN  IF start \in DOMAIN chunk.memory THEN DecodeWay(chunk.memory[start]) ELSE <<-1>>

-------------------------------------------------------------------------------
Init ==
    /\ file \in Files
    /\ groups = [g \in GroupSlots |-> NoGroup]
    /\ thrown = FALSE

WaysOf(g) == [id \in {i \in DOMAIN file : GroupIndex(i) = g} |-> file[id]]

(* Every group is published; the ways of a group are encoded before any of *)
(* it is written.                                                          *)
PublishAll(compressWays) ==
    /\ ~ thrown /\ \A g \in GroupSlots : groups[g] = NoGroup
    /\ \A id \in DOMAIN file : Accepts(file[id])
    /\ groups' = [g \in GroupSlots |->
                     IF DOMAIN WaysOf(g) = {} THEN NoGroup
                     ELSE PublishGroup(compressWays, WaysOf(g))]
    /\ UNCHANGED <<file, thrown>>

EncodingThrows ==
    /\ ~ thrown /\ \A g \in GroupSlots : groups[g] = NoGroup
    /\ ~ \A id \in DOMAIN file : Accepts(file[id])
    /\ thrown' = TRUE
    /\ UNCHANGED <<file, groups>>

Next == (\E compressWays \in BOOLEAN : PublishAll(compressWays)) \/ EncodingThrows

Spec == Init /\ [][Next]_vars

-------------------------------------------------------------------------------
Published == \E g \in GroupSlots : groups[g] # NoGroup

(* For every way that was inserted at() decodes exactly the node list that *)
(* was read from the file, in order and with the repeated last node of a   *)
(* closed way; for any other ID at() throws and contains() is false.       *)
ReadsBack ==
    Published =>
        \A id \in WayIds :
            /\ HasWay(id) <=> id \in DOMAIN file
            /\ At(id) = IF id \in DOMAIN file THEN file[id] ELSE Missing

(* The space calculated in the first pass of publishGroup holds the chunks *)
(* and ways the second pass writes and the bytes streamvbyte_decode may    *)
(* read beyond them.                                                       *)
FitsGroupSpace ==
    \A g \in GroupSlots : groups[g] # NoGroup => groups[g].unused >= StreamvbytePadding

===============================================================================
