------------------------------ MODULE TileIndex ------------------------------
(***************************************************************************)
(* One tile data source (src/tile_data.cpp, include/tile_data.h): the      *)
(* geometries the threads of several pools store under ids of leased       *)
(* shards (include/leased_store.h), the output objects they index by       *)
(* cluster of tiles, and the look-ups the output of tiles is made from.    *)
(***************************************************************************)
EXTENDS AppendVector, TileCovering, SequencesExt

CONSTANTS
    Pools,          \* sequence of the sets of threads that run one after the other
    ThreadNum,      \* threadNum: the number of shards of every geometry store
    CLUSTER_ZOOM,   \* zoom of the clusters (6)
    IndexZoom,      \* zoom of the index (at most 14)
    MaxZoom,        \* highest zoom tiles are asked for
    NumMutexes,     \* objectsMutex.size()
    LargeSize,      \* tiles from which on a polygon goes to the box index (16)
    IdBits,         \* TILE_DATA_ID_SIZE
    IncludeID,      \* config.include_ids
    Geometries      \* the geometries to index: see GeometryType

ASSUME TileIndexAssumption ==
    /\ Pools \in Seq(Range(Pools)) /\ Pools # <<>> /\ ThreadNum \in Nat \ {0}
    /\ \A p \in 1..Len(Pools) : IsFiniteSet(Pools[p]) /\ Cardinality(Pools[p]) <= ThreadNum
    /\ CLUSTER_ZOOM \in Nat /\ MaxZoom \in Nat /\ IndexZoom \in CLUSTER_ZOOM..14
    /\ \A g \in Geometries : {"kind", "way", "parts", "layer", "attr", "minZoom", "id"} \subseteq DOMAIN g
    /\ \A g \in Geometries : g.kind \in {"POINT", "LINESTRING", "MULTILINESTRING", "POLYGON"}

VARIABLES
    pool,       \* the pool whose threads run
    live,       \* thread -> "running" or "gone"
    todo,       \* thread -> sequence of the index entries it still has to make
    current,    \* thread -> NoEntry, the geometry it stores or the entry whose mutex it tried
    unread,     \* the geometries no thread has taken
    stores,     \* kind -> shard -> the geometries stored in it
    available,  \* kind -> stack of the shards nobody leases
    leased,     \* thread -> kind -> its shard, or NoLease
    given,      \* geometries taken so far, with the object made of them
    objects,    \* cluster -> vector of the entries without an id
    objectsWithIds,
    boxes,      \* the entries of both box indices
    pending,    \* pendingSmallIndexObjects
    tlsPending, \* thread -> which element of pending is its own, or 0
    lowZoom,    \* lowZoomObjects and lowZoomObjectsWithIds together
    finalized

storeVars == <<stores, available, leased, given>>
indexVars == <<objects, objectsWithIds, boxes, pending, tlsPending, lowZoom, finalized>>
vars == <<pool, live, todo, current, unread, storeVars, indexVars>>

Threads  == UNION {Pools[p] : p \in 1..Len(Pools)}
Kinds    == {"POINT", "LINESTRING", "MULTILINESTRING", "POLYGON"}
NoLease  == ThreadNum
NoEntry  == [how |-> "none"]
Sentinel == [kind |-> "sentinel"]
Width    == 2^CLUSTER_ZOOM
Divisor  == 2^(IndexZoom - CLUSTER_ZOOM)       \* z6OffsetDivisor
Clusters == 0..(Width * Width - 1)

\* shardBits: as many bits as the smallest power of two that holds ThreadNum.
ShardBits == CHOOSE b \in 0..ThreadNum : 2^b >= ThreadNum /\ \A c \in 0..(b - 1) : 2^c < ThreadNum

\* The id of an element of a shard, and its parts again (getShard, getId).
IdOf(shard, offset) == shard * 2^(IdBits - ShardBits) + offset
ShardOf(id)         == id \div 2^(IdBits - ShardBits)
OffsetOf(id)        == id % 2^(IdBits - ShardBits)

\* The offsets of one shard fit the bits they have; nothing in the code tests that they do.
ASSUME CapacityAssumption ==
    /\ 2^(IdBits - ShardBits) \in Nat
    /\ IsFiniteSet(Geometries) /\ Cardinality(Geometries) < 2^(IdBits - ShardBits)

\* retrievePoint and its siblings; the offset test lets the size itself through to at().
Retrievable(kind, id)  == OffsetOf(id) < Len(stores[kind][ShardOf(id)])
RetrieveGeometry(kind, id) == stores[kind][ShardOf(id)][OffsetOf(id) + 1]

Init ==
    /\ pool = 1
    /\ live = [t \in Threads |-> "running"]
    /\ todo = [t \in Threads |-> <<>>]
    /\ current = [t \in Threads |-> NoEntry]
    /\ unread = Geometries
    \* open() puts a sentinel at offset 0 of shard 0 of every store
    /\ stores = [k \in Kinds |-> [s \in 0..(ThreadNum - 1) |-> IF s = 0 THEN <<Sentinel>> ELSE <<>>]]
    /\ available = [k \in Kinds |-> [i \in 1..ThreadNum |-> i - 1]]
    /\ leased = [t \in Threads |-> [k \in Kinds |-> NoLease]]
    /\ given = {}
    /\ objects = [c \in Clusters |-> EmptyVector]
    /\ objectsWithIds = [c \in Clusters |-> EmptyVector]
    /\ boxes = {}
    /\ pending = <<>>
    /\ tlsPending = [t \in Threads |-> 0]
    /\ lowZoom = [c \in Clusters |-> <<>>]
    /\ finalized = FALSE
-----------------------------------------------------------------------------
(* Storing a geometry and finding its tiles. *)

\* mutant: the first shard, which may be leased already.
LeaseOf_First(t, kind) == 0

\* LeasedStore::get(): the thread's shard, or the last one available.
LeaseOf(t, kind) == IF leased[t][kind] # NoLease THEN leased[t][kind] ELSE Last(available[kind])
CanLease(t, kind) == leased[t][kind] # NoLease \/ available[kind] # <<>>

\* storePoint and its siblings up to the reading of the size: the offset is the thread's to
\* use only because nobody else appends to the shard.
TakeGeometry(t, g) ==
    /\ t \in Pools[pool] /\ live[t] # "gone" /\ todo[t] = <<>> /\ current[t] = NoEntry
    /\ CanLease(t, g.kind)
    /\ leased' = [leased EXCEPT ![t][g.kind] = LeaseOf(t, g.kind)]
    /\ available' = IF leased[t][g.kind] = NoLease
                    THEN [available EXCEPT ![g.kind] = Front(@)] ELSE available
    /\ current' = [current EXCEPT ![t] = [how |-> "storing", geometry |-> g,
                                          offset |-> Len(stores[g.kind][LeaseOf(t, g.kind)])]]
    /\ unread' = unread \ {g}
    /\ UNCHANGED <<pool, live, todo, stores, given, indexVars>>

\* The output object made for a geometry under a given id.
ObjectFor(g, oid) == [layer |-> g.layer, geomType |-> g.kind, attr |-> g.attr,
                      objectID |-> oid, minZoom |-> g.minZoom]

\* The corners of the box around a set of tiles.
BoxAround(tiles) ==
    LET Least(i)    == CHOOSE c \in {t[i] : t \in tiles} : \A t \in tiles : c <= t[i]
        Greatest(i) == CHOOSE c \in {t[i] : t \in tiles} : \A t \in tiles : c >= t[i]
    IN  [x1 |-> Least(1), y1 |-> Least(2), x2 |-> Greatest(1), y2 |-> Greatest(2)]

\* Is a polygon one for the box index? The outline of a closed way is measured by the area
\* of its box, a multipolygon by the tiles it fills.
IsLarge(g, tiles) ==
    LET box == BoxAround(tiles)
    IN  IF g.way THEN (box.x2 - box.x1 + 1) * (box.y2 - box.y1 + 1) >= LargeSize
                 ELSE Cardinality(tiles) >= LargeSize

\* addGeometryToIndex(): the entries to make for the objects of one geometry. The parts of
\* a line make entries of their own, the parts of a polygon share their filled tiles.
EntriesOf(g, oo) ==
    IF g.kind = "POLYGON"
    THEN LET tiles == UNION {FillCoveredTiles(IntermediateTiles(g.parts[p])) : p \in 1..Len(g.parts)}
         IN  IF IsLarge(g, tiles)
             THEN {[to |-> "box", box |-> BoxAround(tiles), oo |-> oo, id |-> g.id]}
             ELSE {[to |-> "tile", part |-> 1, tile |-> c, oo |-> oo, id |-> g.id] : c \in tiles}
    ELSE UNION {{[to |-> "tile", part |-> p, tile |-> c, oo |-> oo, id |-> g.id] :
                 c \in IntermediateTiles(g.parts[p])} : p \in 1..Len(g.parts)}

\* The geometry is appended, and the thread turns to indexing the object made of it.
StoreGeometry(t) ==
    /\ current[t].how = "storing"
    /\ LET g     == current[t].geometry
           shard == leased[t][g.kind]
           oo    == ObjectFor(g, IdOf(shard, current[t].offset))
       IN  /\ stores' = [stores EXCEPT ![g.kind][shard] = Append(@, g)]
           /\ todo' = [todo EXCEPT ![t] = SetToSeq(EntriesOf(g, oo))]
           /\ given' = given \cup {[geometry |-> g, oo |-> oo]}
    /\ current' = [current EXCEPT ![t] = NoEntry]
    /\ UNCHANGED <<pool, live, unread, available, leased, indexVars>>
-----------------------------------------------------------------------------
(* Filling the index. *)

ClusterOf(tile)     == (tile[1] \div Divisor) * Width + (tile[2] \div Divisor)
InRange(tile)       == tile[1] \div Divisor < Width /\ tile[2] \div Divisor < Width
WithId(id)          == IncludeID /\ id # 0

\* addObjectToSmallIndexUnsafe(), on the vectors of both kinds at once.
IndexUnsafe(index, e) ==
    LET vector == [oo |-> e.oo, id |-> IF WithId(e.id) THEN e.id ELSE 0,
                   x |-> e.tile[1] % Divisor, y |-> e.tile[2] % Divisor]
    IN  IF WithId(e.id)
        THEN [index EXCEPT !.ids[ClusterOf(e.tile)] = PushBack(@, vector)]
        ELSE [index EXCEPT !.plain[ClusterOf(e.tile)] = PushBack(@, vector)]

Index == [plain |-> objects, ids |-> objectsWithIds]

Locked(m) == \E t \in Threads : current[t].how = "locked" /\ ClusterOf(current[t].entry.tile) % NumMutexes = m

\* addObjectToLargeIndex(): one insertion under its own mutex.
AddLarge(t, e) ==
    /\ current[t] = NoEntry /\ e.to = "box"
    /\ boxes' = boxes \cup {e}
    /\ todo' = [todo EXCEPT ![t] = Tail(@)]
    /\ UNCHANGED <<pool, live, current, unread, storeVars, objects, objectsWithIds, pending,
                   tlsPending, lowZoom, finalized>>

\* addObjectToSmallIndex() up to the result of try_lock; a tile outside the world is left out.
TryLock(t, e) ==
    /\ current[t] = NoEntry /\ e.to = "tile"
    /\ todo' = [todo EXCEPT ![t] = Tail(@)]
    /\ current' = IF ~InRange(e.tile) THEN current
                  ELSE [current EXCEPT ![t] =
                         [how |-> IF Locked(ClusterOf(e.tile) % NumMutexes) THEN "contended" ELSE "locked",
                          entry |-> e]]
    /\ UNCHANGED <<pool, live, unread, storeVars, indexVars>>

\* The mutex was free: add the entry and unlock.
AddLocked(t) ==
    /\ current[t].how = "locked"
    /\ LET after == IndexUnsafe(Index, current[t].entry)
       IN  objects' = after.plain /\ objectsWithIds' = after.ids
    /\ current' = [current EXCEPT ![t] = NoEntry]
    /\ UNCHANGED <<pool, live, todo, unread, storeVars, boxes, pending, tlsPending, lowZoom, finalized>>

\* The mutex was taken: the entry waits in the thread's own list, which the first such
\* entry creates under mutex 0.
AddPending(t) ==
    /\ current[t].how = "contended"
    /\ tlsPending[t] = 0 => ~Locked(0)
    /\ LET list  == IF tlsPending[t] = 0 THEN Len(pending) + 1 ELSE tlsPending[t]
           lists == IF tlsPending[t] = 0 THEN Append(pending, <<>>) ELSE pending
       IN  /\ pending' = [lists EXCEPT ![list] = Append(@, current[t].entry)]
           /\ tlsPending' = [tlsPending EXCEPT ![t] = list]
    /\ current' = [current EXCEPT ![t] = NoEntry]
    /\ UNCHANGED <<pool, live, todo, unread, storeVars, objects, objectsWithIds, boxes, lowZoom, finalized>>

\* A thread of a pool that is being joined ends: its leases go back.
ThreadExit(t) ==
    /\ t \in Pools[pool] /\ live[t] # "gone" /\ todo[t] = <<>> /\ current[t] = NoEntry
    /\ pool = Len(Pools) => unread = {}
    /\ available' = [k \in Kinds |-> IF leased[t][k] = NoLease THEN available[k]
                                     ELSE Append(available[k], leased[t][k])]
    /\ leased' = [leased EXCEPT ![t] = [k \in Kinds |-> NoLease]]
    /\ live' = [live EXCEPT ![t] = "gone"]
    /\ UNCHANGED <<pool, todo, current, unread, stores, given, indexVars>>

NextPool ==
    /\ \A t \in Pools[pool] : live[t] = "gone"
    /\ pool < Len(Pools)
    /\ pool' = pool + 1
    /\ UNCHANGED <<live, todo, current, unread, storeVars, indexVars>>
-----------------------------------------------------------------------------
(* Finalizing: the pending entries join, the vectors are sorted. *)

\* The parent of an offset at a zoom between the cluster's and the index's.
Parent(c, z) == c \div 2^(IndexZoom - z)

\* mutant: the tiles are ordered by column and row alone.
QuadLess_Plain(a, b) == a.x < b.x \/ (a.x = b.x /\ a.y < b.y)

\* The order of a cluster's entries: by tile at every zoom from the cluster's on.
QuadLess(a, b) ==
    \E z \in CLUSTER_ZOOM..IndexZoom :
        /\ \A y \in CLUSTER_ZOOM..(z - 1) : Parent(a.x, y) = Parent(b.x, y) /\ Parent(a.y, y) = Parent(b.y, y)
        /\ \/ Parent(a.x, z) < Parent(b.x, z)
           \/ Parent(a.x, z) = Parent(b.x, z) /\ Parent(a.y, z) < Parent(b.y, z)

\* finalizeObjects() for one cluster: a copy of the objects of the low zooms, and the sort.
LowZoomOf(av) == SelectSeq(Contents(av), LAMBDA e : e.oo.minZoom < CLUSTER_ZOOM)
InsertInOrder(s, e) == LET after == Len(SelectSeq(s, LAMBDA x : ~QuadLess(e, x)))
                       IN  SubSeq(s, 1, after) \o <<e>> \o SubSeq(s, after + 1, Len(s))
SortedVector(av) == Refilled(av, FoldLeft(InsertInOrder, <<>>, Contents(av)))

Finalize ==
    /\ pool = Len(Pools) /\ \A t \in Pools[pool] : live[t] = "gone"
    /\ ~finalized
    /\ LET filled == FoldLeft(IndexUnsafe, Index, FlattenSeq(pending))
       IN  /\ lowZoom' = [c \in Clusters |-> LowZoomOf(filled.plain[c]) \o LowZoomOf(filled.ids[c])]
           /\ objects' = [c \in Clusters |-> SortedVector(filled.plain[c])]
           /\ objectsWithIds' = [c \in Clusters |-> SortedVector(filled.ids[c])]
    /\ finalized' = TRUE
    /\ UNCHANGED <<pool, live, todo, current, unread, storeVars, boxes, pending, tlsPending>>

Next ==
    \/ \E t \in Threads, g \in unread : TakeGeometry(t, g)
    \/ \E t \in Threads : todo[t] # <<>> /\ (AddLarge(t, Head(todo[t])) \/ TryLock(t, Head(todo[t])))
    \/ \E t \in Threads : StoreGeometry(t) \/ AddLocked(t) \/ AddPending(t) \/ ThreadExit(t)
    \/ NextPool
    \/ Finalize

Spec == Init /\ [][Next]_vars
-----------------------------------------------------------------------------
(* Look-ups of the finished index. *)

\* The tile of an entry at the index zoom.
EntryTile(c, e) == <<(c \div Width) * Divisor + e.x, (c % Width) * Divisor + e.y>>
AtZoom(tile, z) == <<tile[1] \div 2^(IndexZoom - z), tile[2] \div 2^(IndexZoom - z)>>

\* collectLowZoomObjectsForTile(): a scan of the copies.
CollectLowZoom(zoom, tile) ==
    {[oo |-> p[2].oo, id |-> p[2].id] : p \in {q \in UNION {{c} \X Range(lowZoom[c]) : c \in Clusters} :
        AtZoom(EntryTile(q[1], q[2]), zoom) = tile /\ q[2].oo.minZoom <= zoom}}

\* std::lower_bound over the iterators: the first element not less than the needle.
LowerBound(av, needle) ==
    LET search[first \in Nat, n \in Nat] ==
          IF n = 0 THEN first
          ELSE LET half == n \div 2
               IN  IF QuadLess(Deref(av, Advance([vec |-> 0, offset |-> 0], first + half)), needle)
                   THEN search[first + half + 1, n - half - 1]
                   ELSE search[first, half]
    IN  Advance(BeginOf(av), search[0, Distance(EndOf(av), BeginOf(av))])

\* collectObjectsForTileTemplate(): from the first entry of the tile on, until one is elsewhere.
CollectFrom(av, cluster, zoom, clampedZoom, tile) ==
    LET base   == <<tile[1] * 2^(IndexZoom - clampedZoom), tile[2] * 2^(IndexZoom - clampedZoom)>>
        needle == [x |-> base[1] % Divisor, y |-> base[2] % Divisor]
        from   == LowerBound(av, needle)
        run[it \in [vec : Nat, offset : Nat]] ==
            IF it = EndOf(av) \/ AtZoom(EntryTile(cluster, Deref(av, it)), clampedZoom) # tile THEN {}
            ELSE LET e == Deref(av, it)
                 IN  (IF e.oo.minZoom <= zoom THEN {[oo |-> e.oo, id |-> e.id]} ELSE {})
                     \cup run[Increment(it)]
    IN  run[from]

ClampedZoom(zoom)       == IF zoom > IndexZoom THEN IndexZoom ELSE zoom
ClampedTile(zoom, tile) == <<tile[1] \div 2^(zoom - ClampedZoom(zoom)), tile[2] \div 2^(zoom - ClampedZoom(zoom))>>

\* collectObjectsForTile(): the copies below the cluster zoom, one cluster from it on.
CollectObjects(zoom, tile) ==
    IF zoom < CLUSTER_ZOOM THEN CollectLowZoom(zoom, tile)
    ELSE LET cluster == (tile[1] \div 2^(zoom - CLUSTER_ZOOM)) * Width + (tile[2] \div 2^(zoom - CLUSTER_ZOOM))
         IN  UNION {CollectFrom(av, cluster, zoom, ClampedZoom(zoom), ClampedTile(zoom, tile)) :
                    av \in {objects[cluster], objectsWithIds[cluster]}}

\* collectLargeObjectsForTile(): the boxes that meet the tile's own at the index zoom.
CollectLarge(zoom, tile) ==
    LET scale == 2^(IndexZoom - ClampedZoom(zoom))
        c     == ClampedTile(zoom, tile)
    IN  {[oo |-> e.oo, id |-> IF WithId(e.id) THEN e.id ELSE 0] : e \in {b \in boxes :
            /\ b.box.x1 <= (c[1] + 1) * scale - 1 /\ b.box.x2 >= c[1] * scale
            /\ b.box.y1 <= (c[2] + 1) * scale - 1 /\ b.box.y2 >= c[2] * scale
            /\ b.oo.minZoom <= zoom}}

\* getObjectsForTile(), as the set that is left once equal neighbours are dropped.
GetObjectsForTile(zoom, tile) == CollectObjects(zoom, tile) \cup CollectLarge(zoom, tile)

\* PreciseTileCoordinatesSet: a column's positions follow one another, and a position past
\* the end is ignored.
Location(zoom, tile) == tile[1] * 2^zoom + tile[2]
InSet(zoom, tile)    == Location(zoom, tile) < 2^zoom * 2^zoom

\* mutant: the objects of the box index are left out.
MarkedTiles_NoBoxes(zoom) ==
    LET entries == UNION {{EntryTile(c, e) : e \in Range(Contents(objects[c])) \cup Range(Contents(objectsWithIds[c]))} : c \in Clusters}
    IN  {Location(zoom, c) : c \in {d \in {AtZoom(e, zoom) : e \in entries} : InSet(zoom, d)}}

\* populateTilesAtZoom(): the set of one zoom has the tiles above all entries and all boxes,
\* whatever their minimum zoom.
MarkedTiles(zoom) ==
    LET entries == UNION {{EntryTile(c, e) : e \in Range(Contents(objects[c])) \cup Range(Contents(objectsWithIds[c]))} : c \in Clusters}
        boxed   == UNION {((b.box.x1)..(b.box.x2)) \X ((b.box.y1)..(b.box.y2)) : b \in boxes}
    IN  {Location(zoom, c) : c \in {d \in {AtZoom(e, zoom) : e \in entries \cup boxed} : InSet(zoom, d)}}

\* LossyTileCoordinatesSet: above the index zoom a tile is asked for when its ancestor is.
TileIsMarked(marked, zoom, tile) == Location(ClampedZoom(zoom), ClampedTile(zoom, tile)) \in marked
-----------------------------------------------------------------------------
(* Properties. *)

TilesAt(zoom) == (0..(2^zoom - 1)) \X (0..(2^zoom - 1))

\* A segment between the centres of two tiles passes through a tile or its border.
Crosses(p, q, c) ==
    LET P == <<2 * p[1] + 1, 2 * p[2] + 1>>
        Q == <<2 * q[1] + 1, 2 * q[2] + 1>>
        Side(v) == (Q[1] - P[1]) * (v[2] - P[2]) - (Q[2] - P[2]) * (v[1] - P[1])
        corners == {2 * c[1], 2 * c[1] + 2} \X {2 * c[2], 2 * c[2] + 2}
    IN  /\ \A i \in 1..2 : /\ P[i] <= 2 * c[i] + 2 \/ Q[i] <= 2 * c[i] + 2
                           /\ P[i] >= 2 * c[i]     \/ Q[i] >= 2 * c[i]
        /\ \E v \in corners : Side(v) >= 0
        /\ \E v \in corners : Side(v) <= 0

OnOutline(part, c) == c \in Range(part) \/ \E i \in 1..(Len(part) - 1) : Crosses(part[i], part[i + 1], c)
Covers(g, c) ==
    \E p \in 1..Len(g.parts) :
        IF g.kind = "POLYGON"
        THEN \E lo, hi \in 0..(2^IndexZoom) : lo <= c[2] /\ c[2] <= hi
                /\ OnOutline(g.parts[p], <<c[1], lo>>) /\ OnOutline(g.parts[p], <<c[1], hi>>)
        ELSE OnOutline(g.parts[p], c)

\* The tiles of the index each geometry covers, and the tiles of a lower zoom above those.
Footprint == {p \in Geometries \X TilesAt(IndexZoom) : Covers(p[1], p[2])}
ShownAt(zoom) == {<<p[1], AtZoom(p[2], zoom)>> : p \in Footprint}
Wanted(m) == [oo |-> m.oo, id |-> IF WithId(m.geometry.id) THEN m.geometry.id ELSE 0]

\* Whatever the order in which threads met each other's mutexes, the finished index gives
\* for every tile of every zoom the objects whose geometry the tile meets and whose minimum
\* zoom it reaches, and only a polygon of the box index besides (getObjectsForTile,
\* finalize, addObjectToSmallIndex).
EveryTileComplete ==
    finalized => \A zoom \in 0..MaxZoom :
        LET shown   == ShownAt(ClampedZoom(zoom))
            reaches == {m \in given : m.geometry.minZoom <= zoom}
            boxed   == {m \in reaches : \E b \in boxes : b.oo = m.oo}
        IN  \A tile \in TilesAt(zoom) :
              LET visible == {m \in reaches : <<m.geometry, ClampedTile(zoom, tile)>> \in shown}
                  found   == GetObjectsForTile(zoom, tile)
              IN  /\ {Wanted(m) : m \in visible} \subseteq found
                  /\ found \subseteq {Wanted(m) : m \in visible \cup boxed}

\* A tile that would get an object is one of the tiles the output enumerates
\* (populateTilesAtZoom against getObjectsForTile).
NoTileForgotten ==
    finalized => \A zoom \in 0..MaxZoom :
        LET marked == MarkedTiles(ClampedZoom(zoom))
        IN  \A tile \in TilesAt(zoom) : GetObjectsForTile(zoom, tile) # {} => TileIsMarked(marked, zoom, tile)

\* The id in every object leads to the geometry the object was made of, however the shards
\* were leased, given back and leased again, and never to a sentinel; and no thread finds
\* all the shards leased (LeasedStore, store*, retrieve*).
IdsResolve ==
    /\ \A m \in given : /\ Retrievable(m.geometry.kind, m.oo.objectID)
                        /\ RetrieveGeometry(m.geometry.kind, m.oo.objectID) = m.geometry
    /\ \A t \in Pools[pool], kind \in Kinds : live[t] = "running" => CanLease(t, kind)
-----------------------------------------------------------------------------
(* The strengthening that makes IdsResolve inductive. *)

Shards == 0..(ThreadNum - 1)

IndexTypeOK ==
    /\ pool \in 1..Len(Pools) /\ live \in [Threads -> {"running", "gone"}]
    /\ DOMAIN current = Threads /\ unread \subseteq Geometries
    /\ stores \in [Kinds -> [Shards -> Seq(Geometries \cup {Sentinel})]]
    /\ available \in [Kinds -> Seq(Shards)]
    /\ leased \in [Threads -> [Kinds -> Shards \cup {NoLease}]]

\* A shard is available or one running thread's own, and there are as many as threads.
Holders(k) == {t \in Threads : leased[t][k] # NoLease}

LeasesHold ==
    /\ \A k \in Kinds : \A t \in Holders(k) : t \in Pools[pool] /\ live[t] = "running"
    /\ \A k \in Kinds : \A t, u \in Holders(k) : leased[t][k] = leased[u][k] => t = u
    /\ \A k \in Kinds : \A t \in Holders(k) : \A i \in DOMAIN available[k] : available[k][i] # leased[t][k]
    /\ \A k \in Kinds : \A i, j \in DOMAIN available[k] : available[k][i] = available[k][j] => i = j
    /\ \A k \in Kinds : Cardinality(Holders(k)) + Len(available[k]) = ThreadNum

\* A thread that is about to append holds the shard whose size it read.
Storing == {t \in Threads : current[t].how = "storing"}
StoringHolds(t) ==
    LET g == current[t].geometry
    IN  /\ g \in Geometries \ unread /\ g \notin {m.geometry : m \in given}
        /\ t \in Holders(g.kind)
        /\ current[t].offset = Len(stores[g.kind][leased[t][g.kind]])
        /\ \A u \in Storing : current[u].geometry = g => u = t

\* An object's id was made of a shard and of the offset its geometry has there.
GivenHolds(m) ==
    /\ m.geometry \in Geometries \ unread
    /\ \E shard \in Shards, offset \in 0..(2^(IdBits - ShardBits) - 1) :
         /\ m.oo.objectID = IdOf(shard, offset)
         /\ offset < Len(stores[m.geometry.kind][shard])
         /\ stores[m.geometry.kind][shard][offset + 1] = m.geometry

\* No shard is longer than the geometries stored so far and a sentinel.
ShardsBounded ==
    \A k \in Kinds, s \in Shards : Len(stores[k][s]) <= 1 + Cardinality({m.geometry : m \in given})

IdsInv ==
    /\ IndexTypeOK /\ LeasesHold /\ ShardsBounded
    /\ \A t \in Storing : StoringHolds(t)
    /\ \A m \in given : GivenHolds(m)
=============================================================================
