------------------------------ MODULE TileOutput ------------------------------
(***************************************************************************)
(* Writing the tiles: main's list of tiles, its order and its batches      *)
(* (src/tilemaker.cpp), outputProc, ProcessLayer and ProcessObjects        *)
(* (src/tile_worker.cpp), the order of a tile's objects                    *)
(* (TileDataSource::getObjectsForTile) and the clipping of geometries,     *)
(* through caches the threads share (TileDataSource::buildWayGeometry,     *)
(* include/clip_cache.h).  The world is one line instead of a plane: a     *)
(* tile has one coordinate and two children, a geometry is a set of        *)
(* segments <<a, b>> of that line.                                         *)
(***************************************************************************)
EXTENDS Integers, SequencesExt, FiniteSetsExt

CONSTANTS
    OutputThreads,
    World,              \* width of the tile of zoom 0
    StartZoom, EndZoom, \* config.startZoom, config.endZoom
    BaseZoom,           \* config.baseZoom, the zoom the clip caches stop at
    CLUSTER_ZOOM,
    OutputObjects,      \* the objects of both sources: see MCTiles
    LayerOrder,         \* layers.layerOrder: sequence of sequences of layer numbers
    LayerDefs,          \* layer number -> its settings
    ClippingBox,        \* <<from, to>>, or <<>> without one
    ClippingBoxFromJSON,    \* it is the bounding_box of the configuration, not of the input file
    Weight(_), BatchWeight, \* weight of a tile of a zoom in a batch; 1000
    CacheSize,          \* additions after which a clip cache is emptied (1024)
    CacheShards,        \* threadNum * 16
    MaxSignals          \* bound on SIGUSR1

ASSUME TilesAssumption ==
    /\ StartZoom \in Nat /\ EndZoom \in Nat /\ CLUSTER_ZOOM \in Nat /\ BatchWeight \in Nat \ {0}
    /\ World \in Nat /\ World % 2^EndZoom = 0
    /\ ClippingBox \in Int \X Int \/ (ClippingBox = <<>> /\ ~ClippingBoxFromJSON)

VARIABLES
    tiles,          \* tileCoordinates: sequence of <<zoom, x>>
    startIndex,     \* tiles already handed out in batches
    worker,         \* thread -> what it works on
    cache,          \* clips: <<source, type, object id, zoom, x>> with their geometry
    cacheSize,      \* <<source, type, shard>> -> additions since the cache was emptied
    written,        \* tile -> what has been saved for it, in order
    signalStop, signals

outputVars == <<tiles, startIndex, worker, cache, cacheSize, written, signalStop, signals>>
-----------------------------------------------------------------------------
(* Tiles, their boxes, and which of them are written. *)

Tile(z, x) == <<z, x>>
Width(z)   == World \div 2^z
From(t)    == t[2] * Width(t[1])
To(t)      == (t[2] + 1) * Width(t[1])
Above(t, z) == Tile(z, t[2] \div 2^(t[1] - z))

\* TileBbox: the clipping box has a margin that grows with the tile (an eighth of it here,
\* 1/200 in the code); getExtendBox() reaches two tiles to one side and one to the other.
ClipBox(t)   == <<From(t) - Width(t[1]) \div 8, To(t) + Width(t[1]) \div 8>>
ExtendBox(t) == <<From(t) - 2 * Width(t[1]), To(t) + Width(t[1])>>

Meets(s, box)     == s[1] < box[2] /\ s[2] > box[1]
Touches(s, box)   == s[1] <= box[2] /\ s[2] >= box[1]
Inside(c, box)    == box[1] < c /\ c < box[2]
Clipped(s, box)   == <<Max({s[1], box[1]}), Min({s[2], box[2]})>>
ClipTo(segs, box) == {Clipped(s, box) : s \in {r \in segs : Meets(r, box)}}

\* The tiles some object is indexed under, at every zoom.
AllTiles == {Tile(z, x) : z \in StartZoom..EndZoom, x \in 0..(2^EndZoom - 1)}
Marked   == {t \in AllTiles : t[2] < 2^t[1] /\ \E f \in OutputObjects : \E s \in f.segments : Meets(s, <<From(t), To(t)>>)}

\* The filter against the clipping box, with its short cut for tiles of a covered cluster.
Covered(t)  == t[1] >= CLUSTER_ZOOM /\ LET c == Above(t, CLUSTER_ZOOM)
                                       IN  ClippingBox[1] < From(c) /\ To(c) < ClippingBox[2]
Selected(t) == ClippingBox = <<>> \/ Covered(t) \/ Touches(<<From(t), To(t)>>, ClippingBox)

\* outputProc() returns at once from a tile that touches the configured box only from outside.
PassedOver(t) == ClippingBoxFromJSON /\ ~Meets(<<From(t), To(t)>>, ClippingBox)

\* The order of the tiles: zoom by zoom below the cluster zoom, depth first from it on.
TileLess(a, b) ==
    IF a[1] < CLUSTER_ZOOM \/ b[1] < CLUSTER_ZOOM THEN a[1] < b[1] \/ (a[1] = b[1] /\ a[2] < b[2])
    ELSE LET deepest == Min({a[1], b[1], BaseZoom})
             differ  == {z \in CLUSTER_ZOOM..deepest : Above(a, z) # Above(b, z)}
         IN  IF differ # {} THEN Above(a, Min(differ))[2] < Above(b, Min(differ))[2]
             ELSE deepest < BaseZoom /\ a[1] < b[1]

InsertBy(Less(_, _), s, e) ==
    LET after == Cardinality({i \in DOMAIN s : ~Less(e, s[i])})
    IN  SubSeq(s, 1, after) \o <<e>> \o SubSeq(s, after + 1, Len(s))
SortedSet(Less(_, _), S) == FoldSet(LAMBDA e, acc : InsertBy(Less, acc, e), <<>>, S)
SortedBy(Less(_, _), s) == FoldLeft(LAMBDA acc, e : InsertBy(Less, acc, e), <<>>, s)

SumOver(op(_), S) == FoldSet(LAMBDA i, acc : acc + op(i), 0, S)

\* mutant: the tile that fills the batch is left to the next one.
BatchSize_Exclusive(from) ==
    LET load(n) == SumOver(LAMBDA i : Weight(tiles[i][1]), (from + 1)..(from + n))
    IN  Max({n \in 0..(Len(tiles) - from) : load(n) < BatchWeight})

\* How many tiles the batch from an index on has.
BatchSize(from) ==
    LET load(n) == SumOver(LAMBDA i : Weight(tiles[i][1]), (from + 1)..(from + n))
    IN  Max({n \in 1..(Len(tiles) - from) : load(n - 1) < BatchWeight})
-----------------------------------------------------------------------------
(* The objects of a tile and the features they are merged into. *)

\* The order of getObjectsForTile: layer, z-order in the direction of the layer, type,
\* attributes, object.
ObjectLess(a, b) ==
    LET ka == <<a.layer, IF LayerDefs[a.layer].ascending THEN a.zOrder ELSE -a.zOrder, a.type, a.attributes, a.objectID>>
        kb == <<b.layer, IF LayerDefs[b.layer].ascending THEN b.zOrder ELSE -b.zOrder, b.type, b.attributes, b.objectID>>
    IN  \E i \in 1..5 : ka[i] < kb[i] /\ \A j \in 1..(i - 1) : ka[j] = kb[j]

\* What the index of a source gives for a tile: an object once per part that lies in it.
Collected(source, t) ==
    LET here == {f \in OutputObjects : f.source = source /\ f.minZoom <= t[1] /\ \E s \in f.segments : Meets(s, <<From(t), To(t)>>)}
        parts(f) == Cardinality({s \in f.segments : Meets(s, <<From(t), To(t)>>)})
    IN  FoldSet(LAMBDA f, acc : acc \o [i \in 1..parts(f) |-> f], <<>>, here)
DropEqualNeighbours(s) == FoldLeft(LAMBDA acc, e : IF acc # <<>> /\ Last(acc) = e THEN acc ELSE Append(acc, e), <<>>, s)
GetObjectsForTile(source, t) == DropEqualNeighbours(SortedBy(ObjectLess, Collected(source, t)))

Compatible(a, b) == a.type = b.type /\ a.zOrder = b.zOrder /\ a.attributes = b.attributes

POINT           == 0
LINESTRING      == 1
POLYGON         == 2
MULTILINESTRING == 3
Combines(type, def, zoom) ==
    CASE type = POINT      -> def.combinePoints
      [] type = LINESTRING -> zoom < def.combineLinesBelow
      [] type = POLYGON    -> zoom < def.combinePolygonsBelow
      [] OTHER             -> FALSE

\* ProcessObjects: successive compatible objects become one feature.
Groups(list, def, zoom) ==
    FoldLeft(LAMBDA acc, f : IF acc # <<>> /\ Combines(f.type, def, zoom) /\ Compatible(Last(acc)[1], f)
                             THEN [acc EXCEPT ![Len(acc)] = Append(@, f)] ELSE Append(acc, <<f>>),
             <<>>, list)

\* getObjectsAtSubLayer(), and the limit on the features of a layer.
SubLayer(list, n, zoom) ==
    LET same == SelectSeq(list, LAMBDA f : f.layer = n)
        def  == LayerDefs[n]
    IN  IF def.featureLimit > 0 /\ Len(same) > def.featureLimit /\ zoom < def.featureLimitBelow
        THEN SubSeq(same, 1, def.featureLimit) ELSE same

\* ProcessLayer: what is to be done for one layer of a tile, sub-layer by sub-layer and in
\* each source by source.
LayerWork(lists, subLayers, zoom) ==
    FlattenSeq([i \in DOMAIN subLayers |->
        IF zoom < LayerDefs[subLayers[i]].minzoom \/ zoom > LayerDefs[subLayers[i]].maxzoom THEN <<>>
        ELSE FlattenSeq([s \in DOMAIN lists |->
                Groups(SubLayer(lists[s], subLayers[i], zoom), LayerDefs[subLayers[i]], zoom)])])
WorkAt(t) ==
    LET lists == <<GetObjectsForTile(1, t), GetObjectsForTile(2, t)>>
    IN  [l \in DOMAIN LayerOrder |-> LayerWork(lists, LayerOrder[l], t[1])]
\* Neither the sources nor the settings change any more.
Work == [t \in AllTiles |-> WorkAt(t)] @@ <<>>
-----------------------------------------------------------------------------
(* Clipping. *)

Slot(f, t) == <<f.source, f.type, f.objectID, t[1], t[2]>>
Cacheable(f) == f.type \in {MULTILINESTRING, POLYGON}

\* mutant: the coordinates are not halved on the way up.
ClipCacheGet_NotHalved(f, t) ==
    LET zooms == {z \in 0..(t[1] - 1) : Slot(f, Tile(z, t[2])) \in DOMAIN cache}
    IN  IF zooms = {} THEN f.segments ELSE cache[Slot(f, Tile(Max(zooms), t[2]))]

\* ClipCache::get(): the nearest tile above that has a clip, or the whole geometry.
ClipCacheGet(f, t) ==
    LET zooms == {z \in 0..(t[1] - 1) : Slot(f, Above(t, z)) \in DOMAIN cache}
    IN  IF zooms = {} THEN f.segments ELSE cache[Slot(f, Above(t, Max(zooms)))]

\* At the last zoom a polygon's box grows to the ends of the edges that leave it, up to the
\* extend box.
GrownBox(segs, t) ==
    LET leaving == {s \in segs : Inside(s[1], ClipBox(t)) # Inside(s[2], ClipBox(t))}
    IN  IF t[1] # EndZoom THEN ClipBox(t)
        ELSE <<Max({Min({s[1] : s \in leaving} \cup {ClipBox(t)[1]}), ExtendBox(t)[1]}),
               Min({Max({s[2] : s \in leaving} \cup {ClipBox(t)[2]}), ExtendBox(t)[2]})>>

\* buildWayGeometry() and buildNodeGeometry() on the geometry that was found.
Clip(f, input, t) ==
    CASE f.type = LINESTRING      -> ClipTo({s \in input : Meets(s, ClipBox(t))}, ExtendBox(t))
      [] f.type = MULTILINESTRING -> ClipTo(input, ExtendBox(t))
      [] f.type = POLYGON         -> ClipTo(input, GrownBox(input, t))
      [] OTHER                    -> input

\* The union of polygons joins segments that touch; lines keep theirs.
Cells(segs) == UNION {s[1]..(s[2] - 1) : s \in segs}
Union(segs) ==
    LET cells  == Cells(segs)
        starts == {c \in cells : c - 1 \notin cells}
    IN  {<<a, Min({c \in cells : c >= a /\ c + 1 \notin cells}) + 1>> : a \in starts}

\* What of a geometry is left above the area that is filtered, and on the grid of the tile.
RemovePartsBelowSize(segs, filterArea) == {s \in segs : s[2] - s[1] >= filterArea}
Scale(c, t) == (8 * (c - From(t))) \div Width(t[1])
Drawn(segs, type, def, t) ==
    CASE type = POINT -> segs
      [] type = POLYGON /\ t[1] < def.filterBelow ->
            {s \in RemovePartsBelowSize(segs, def.filterArea) : Scale(s[1], t) # Scale(s[2], t)}
      [] OTHER -> {s \in segs : Scale(s[1], t) # Scale(s[2], t)}

\* ClipCache::add(): nothing at the last zoom; the shard is emptied once it has had its fill.
ClipCacheAdd(f, t, segs) ==
    LET shard == <<f.source, f.type, f.objectID % CacheShards>>
        full  == cacheSize[shard] + 1 > CacheSize
        kept  == IF full THEN {k \in DOMAIN cache : <<k[1], k[2], k[3] % CacheShards>> # shard} ELSE DOMAIN cache
    IN  IF ~Cacheable(f) \/ t[1] = BaseZoom THEN UNCHANGED <<cache, cacheSize>>
        ELSE /\ cacheSize' = [cacheSize EXCEPT ![shard] = IF full THEN 0 ELSE @ + 1]
             /\ cache' = [k \in kept \cup {Slot(f, t)} |-> IF k = Slot(f, t) THEN segs ELSE cache[k]]
-----------------------------------------------------------------------------
(* The pool. *)

Idle == [on |-> "idle"]

InitOutput ==
    /\ tiles = SortedSet(TileLess, {t \in Marked : Selected(t)})
    /\ startIndex = 0
    /\ worker = [t \in OutputThreads |-> Idle]
    /\ cache = [k \in {} |-> {}]
    /\ cacheSize = [k \in {1, 2} \X {POLYGON, MULTILINESTRING} \X (0..(CacheShards - 1)) |-> 0]
    /\ written = [t \in AllTiles |-> <<>>] /\ signalStop = FALSE /\ signals = 0

\* mutant: the next batch starts one tile too far on.
TakeBatch_SkipsOne(w) ==
    /\ worker[w] = Idle /\ startIndex < Len(tiles)
    /\ worker' = [worker EXCEPT ![w] = [on |-> "batch", next |-> startIndex + 1, last |-> startIndex + BatchSize(startIndex)]]
    /\ startIndex' = startIndex + BatchSize(startIndex) + 1
    /\ UNCHANGED <<tiles, cache, cacheSize, written, signalStop, signals>>

\* A thread of the pool takes the next batch main posted.
TakeBatch(w) ==
    /\ worker[w] = Idle /\ startIndex < Len(tiles)
    /\ worker' = [worker EXCEPT ![w] = [on |-> "batch", next |-> startIndex + 1, last |-> startIndex + BatchSize(startIndex)]]
    /\ startIndex' = startIndex + BatchSize(startIndex)
    /\ UNCHANGED <<tiles, cache, cacheSize, written, signalStop, signals>>

\* outputProc() up to the loop over the layers; past the end of the batch the task is over.
BeginTile(w) ==
    /\ worker[w].on = "batch"
    /\ IF worker[w].next > Min({worker[w].last, Len(tiles)}) THEN worker' = [worker EXCEPT ![w] = Idle] /\ UNCHANGED signalStop
       ELSE IF PassedOver(tiles[worker[w].next])
       THEN worker' = [worker EXCEPT ![w] = [on |-> "batch", next |-> @.next + 1, last |-> @.last]] /\ UNCHANGED signalStop
       ELSE LET t == tiles[worker[w].next]
            IN  /\ worker' = [worker EXCEPT ![w] = [on |-> "tile", next |-> @.next + 1, last |-> @.last, tile |-> t,
                                                    work |-> Work[t], layer |-> 0, group |-> <<>>, input |-> {},
                                                    made |-> {}, out |-> {}, cut |-> FALSE]]
                /\ signalStop' = FALSE
    /\ UNCHANGED <<tiles, startIndex, cache, cacheSize, written, signals>>

\* The next feature of the layer; when a layer is done, and before the first, the next one is
\* begun unless a user asked for a break.
NextGroup(w) ==
    /\ worker[w].on = "tile" /\ worker[w].layer <= Len(LayerOrder)
    /\ LET me == worker[w]
       IN  worker' = [worker EXCEPT ![w] =
             IF me.layer > 0 /\ me.work[me.layer] # <<>>
             THEN [me EXCEPT !.on = "object", !.group = Head(me.work[me.layer]), !.made = {},
                             !.work[me.layer] = Tail(@)]
             ELSE IF signalStop /\ me.layer < Len(LayerOrder)
             THEN [me EXCEPT !.layer = Len(LayerOrder) + 1, !.cut = TRUE]
             ELSE [me EXCEPT !.layer = @ + 1]]
    /\ UNCHANGED <<tiles, startIndex, cache, cacheSize, written, signalStop, signals>>

\* The geometry to clip is looked up, under the lock of its shard.
LookUpGeometry(w) ==
    /\ worker[w].on = "object" /\ worker[w].group # <<>>
    /\ LET f == Head(worker[w].group)
       IN  worker' = [worker EXCEPT ![w].on = "clip",
                                      ![w].input = IF Cacheable(f) THEN ClipCacheGet(f, worker[w].tile) ELSE f.segments]
    /\ UNCHANGED <<tiles, startIndex, cache, cacheSize, written, signalStop, signals>>

\* ... clipped, and the clip is cached.
BuildGeometry(w) ==
    /\ worker[w].on = "clip"
    /\ LET f    == Head(worker[w].group)
           segs == Clip(f, worker[w].input, worker[w].tile)
       IN  /\ ClipCacheAdd(f, worker[w].tile, segs)
           /\ worker' = [worker EXCEPT ![w].on = "object", ![w].group = Tail(@), ![w].input = {},
                                          ![w].made = @ \cup {<<f, segs>>}]
    /\ UNCHANGED <<tiles, startIndex, written, signalStop, signals>>

\* The feature is written if anything of it is left.
WriteFeature(w) ==
    /\ worker[w].on = "object" /\ worker[w].group = <<>>
    /\ LET made  == worker[w].made
           some  == (CHOOSE m \in made : TRUE)[1]
           parts == UNION {m[2] : m \in made}
           segs  == Drawn(IF some.type = POLYGON /\ Cardinality(made) > 1 THEN Union(parts) ELSE parts,
                          some.type, LayerDefs[some.layer], worker[w].tile)
           feature == [of |-> {m[1] : m \in made}, segments |-> segs, attributes |-> some.attributes,
                       zOrder |-> some.zOrder, type |-> some.type]
       IN  worker' = [worker EXCEPT ![w].on = "tile", ![w].out = IF segs = {} THEN @ ELSE @ \cup {feature}]
    /\ UNCHANGED <<tiles, startIndex, cache, cacheSize, written, signalStop, signals>>

\* The tile is serialized and saved.
SaveTile(w) ==
    /\ worker[w].on = "tile" /\ worker[w].layer > Len(LayerOrder)
    /\ written' = [written EXCEPT ![worker[w].tile] = Append(@, [features |-> worker[w].out, cut |-> worker[w].cut])]
    /\ worker' = [worker EXCEPT ![w] = [on |-> "batch", next |-> @.next, last |-> @.last]]
    /\ UNCHANGED <<tiles, startIndex, cache, cacheSize, signalStop, signals>>

\* handleUserSignal()
UserSignal ==
    /\ signals < MaxSignals /\ \E w \in OutputThreads : worker[w] # Idle
    /\ signals' = signals + 1 /\ signalStop' = TRUE
    /\ UNCHANGED <<tiles, startIndex, worker, cache, cacheSize, written>>

Finished == startIndex >= Len(tiles) /\ \A w \in OutputThreads : worker[w] = Idle
OutputStep(w) ==
    TakeBatch(w) \/ BeginTile(w) \/ NextGroup(w) \/ LookUpGeometry(w) \/ BuildGeometry(w) \/ WriteFeature(w) \/ SaveTile(w)
NextOutput == (\E w \in OutputThreads : OutputStep(w)) \/ UserSignal
FairnessOutput == \A w \in OutputThreads : WF_outputVars(OutputStep(w))
SpecOutput == InitOutput /\ [][NextOutput]_outputVars /\ FairnessOutput
-----------------------------------------------------------------------------
(* Properties. *)

\* A tile is wanted that has an object and meets the clipping box; its border will do if the
\* box is that of the input file.
Wanted(t) ==
    /\ t \in Marked
    /\ ClippingBox # <<>> => Touches(<<From(t), To(t)>>, ClippingBox)
    /\ ClippingBoxFromJSON => Meets(<<From(t), To(t)>>, ClippingBox)

\* When the pool has ended every wanted tile has been saved, no other, and none was ever saved
\* twice: the batches partition the list (tilemaker.cpp, startIndex += batchSize).
TilesWrittenOnce ==
    \A t \in AllTiles :
        LET wanted == Wanted(t)
        IN  /\ Len(written[t]) <= (IF wanted THEN 1 ELSE 0)
            /\ Finished /\ wanted => written[t] # <<>>

\* The places of the list that a thread has taken and not saved yet.
Owned(w) ==
    CASE worker[w].on = "idle"  -> {}
      [] worker[w].on = "batch" -> worker[w].next..worker[w].last
      [] OTHER                  -> (worker[w].next - 1)..worker[w].last
Saved(i) == i <= startIndex /\ \A w \in OutputThreads : i \notin Owned(w)

\* The list is each tile that was selected once; a thread works through its own batch.
TilesListed ==
    /\ tiles \in Seq(AllTiles) /\ IsInjective(tiles)
    /\ ToSet(tiles) = {t \in Marked : Selected(t)}
OnItsBatch(w) ==
    /\ worker[w].on \in {"batch", "tile", "object", "clip"}
    /\ worker[w].next \in 1..(worker[w].last + 1) /\ worker[w].last \in 1..startIndex
    /\ worker[w].on # "batch" =>
          /\ {"on", "next", "last", "tile", "layer", "work", "group", "input", "made", "out", "cut"} = DOMAIN worker[w]
          /\ worker[w].next > 1 /\ worker[w].tile = tiles[worker[w].next - 1] /\ ~PassedOver(worker[w].tile)
WorkersApart ==
    /\ worker = [w \in OutputThreads |-> worker[w]]
    /\ \A w \in OutputThreads : worker[w] = Idle \/ OnItsBatch(w)
    /\ \A v, w \in OutputThreads : v # w => Owned(v) \cap Owned(w) = {}

\* What is handed out and owned by nobody is saved, once, or was passed over; nothing else is.
SavedOnce ==
    /\ written = [t \in AllTiles |-> written[t]]
    /\ \A t \in AllTiles :
          IF ~PassedOver(t) /\ \E i \in DOMAIN tiles : tiles[i] = t /\ Saved(i) THEN written[t] = <<written[t][1]>> ELSE written[t] = <<>>

\* The inductive invariant of the pool.
PoolInv == TilesListed /\ startIndex \in 0..Len(tiles) /\ WorkersApart /\ SavedOnce

\* Part of what a tile must show: the cells of a segment that lie in the tile, if they fill
\* one unit of its grid, and are not of a polygon that may be filtered for its size.
Visible(f, t) ==
    UNION {LET here == Clipped(s, <<From(t), To(t)>>)
           IN  IF Drawn({here}, f.type, [LayerDefs[f.layer] EXCEPT !.filterArea = World], t) = {} THEN {} ELSE Cells({here}) :
              s \in {r \in f.segments : Meets(r, <<From(t), To(t)>>)}}

\* Each saved tile that was not cut short shows each object of its layers exactly as it is:
\* the features that hold it have its attributes, layer and z-order, and their geometry is,
\* within the tile, that of the objects they were merged from, whatever other threads put
\* into the clip caches or threw out of them and whatever ancestor's clip was found there
\* (ClipCache::get, buildWayGeometry, ProcessObjects).
FeaturesExact ==
    \A t \in AllTiles : \A i \in DOMAIN written[t] : ~written[t][i].cut =>
        LET within   == From(t)..(To(t) - 1)
            features == written[t][i].features
        IN  /\ \A g \in features :
                 /\ \A f \in g.of : f.attributes = g.attributes /\ f.zOrder = g.zOrder /\ f.type = g.type /\ f.minZoom <= t[1]
                 /\ Cells(g.segments) \cap within \subseteq Cells(UNION {f.segments : f \in g.of})
            /\ \A f \in OutputObjects :
                 LET def  == LayerDefs[f.layer]
                     mine == {g \in features : f \in g.of}
                 IN  f.minZoom <= t[1] /\ def.minzoom <= t[1] /\ t[1] <= def.maxzoom /\ def.featureLimit = 0
                     => /\ Cardinality(mine) <= 1
                        /\ Visible(f, t) \subseteq UNION {Cells(g.segments) : g \in mine}

\* The pool runs dry: however the batches fall, all tiles get written.
EventuallyFinished == <>Finished
=============================================================================
