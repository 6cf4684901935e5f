----------------------------- MODULE ShapeSource -----------------------------
(***************************************************************************)
(* Shapefile and GeoJSON layers: reading features in a pool of threads     *)
(* (src/shp_processor.cpp, src/geojson_processor.cpp), and the spatial     *)
(* index Lua asks about them later (src/shp_mem_tiles.cpp). A geometry is  *)
(* the set of tiles of the spatial index it meets; reading the files and   *)
(* clipping and repairing polygons are those of the libraries.             *)
(***************************************************************************)
EXTENDS Naturals, Sequences, FiniteSets

CONSTANTS
    ShapeThreads,
    SHAPE_CLUSTER_ZOOM,   \* CLUSTER_ZOOM
    SpatialIndexZoom,     \* spatialIndexZoom (15)
    ClipTiles,            \* the tiles of the clipping box
    Files,                \* source files: sets of features, all of a shapefile or all of GeoJSON
    LayerMinZoom,         \* minzoom of the layer's configuration
    Queries,              \* the boxes asked about, as sequences of tiles
    MaxQueries            \* bound on the number of questions asked

VARIABLES
    file,       \* the features of the layer's source
    queue,      \* features not yet taken
    reading,    \* thread -> NoFeature, or its feature with the minimum zoom it will use
    layerMinZoom,  \* layer.minzoom, which the attributes of a shape are read into
    shapes,     \* indexedGeometries with their rtree boxes
    written,    \* the output objects made, with the feature they show
    bits,       \* bitIndices of the layer: bucket -> position -> "no", "maybe", "yes"
    asking,     \* thread -> NoQuery, or how far its question has got
    asked, answers

readVars == <<file, queue, reading, layerMinZoom, shapes, written>>
vars == <<file, queue, reading, layerMinZoom, shapes, written, bits, asking, asked, answers>>

NoZoom    == 99                         \* a feature without a _minzoom of its own
NoFeature == [stage |-> "none"]
NoQuery   == [stage |-> "none"]
LOCAL W       == 2^SHAPE_CLUSTER_ZOOM
LOCAL D       == 2^(SpatialIndexZoom - SHAPE_CLUSTER_ZOOM)
LOCAL Edge    == 2^SpatialIndexZoom - 1

\* The bucket and the position of a tile's bits. The bucket of a cluster is its column
\* times CLUSTER_ZOOM, not times the number of clusters in a column, plus its row.
BucketOf(tile)   == (tile[1] \div D) * SHAPE_CLUSTER_ZOOM + (tile[2] \div D)
PositionOf(tile) == (tile[1] % D) * D + (tile[2] % D)

\* CreateNamedLayerIndex(): one bucket per cluster, all empty.
InitShapes ==
    /\ file \in Files /\ queue = file
    /\ reading = [t \in ShapeThreads |-> NoFeature]
    /\ layerMinZoom = LayerMinZoom
    /\ shapes = {} /\ written = {}
    /\ bits = [b \in 0..(W * W - 1) |-> [p \in 0..(D * D - 1) |-> "no"]]
    /\ asking = [t \in ShapeThreads |-> NoQuery]
    /\ asked = 0 /\ answers = {}
-----------------------------------------------------------------------------
(* Reading features. *)

\* mutant: the far edge of the box is left out.
BoxTiles_Open(cells) ==
    LET Within(i, c) == (\E a \in cells : a[i] <= c) /\ (\E a \in cells : a[i] > c)
    IN  {c \in (0..Edge) \X (0..Edge) : Within(1, c[1]) /\ Within(2, c[2])}

\* The tiles of the box around a geometry, cut off at the edge of the world.
BoxTiles(cells) ==
    LET Within(i, c) == (\E a \in cells : a[i] <= c) /\ (\E a \in cells : a[i] >= c)
    IN  {c \in (0..Edge) \X (0..Edge) : Within(1, c[1]) /\ Within(2, c[2])}

\* mutant: the minimum zoom of a GeoJSON feature is dropped like that of a shape
FeatureZoom_Layer(f) == layerMinZoom

\* readProperties() returns the feature's own _minzoom to its caller;
\* processShapeGeometry() reads the layer's later on.
FeatureZoom(f) == IF f.minZoom = NoZoom THEN layerMinZoom ELSE f.minZoom

\* A shape whose box lies outside the clipping box is passed over before its attributes are
\* read; a GeoJSON feature is not.
Skipped(f) == f.source = "shp" /\ BoxTiles(UNION f.parts) \cap ClipTiles = {}

SkipShape(f) ==
    /\ f \in queue /\ Skipped(f)
    /\ queue' = queue \ {f}
    /\ UNCHANGED <<file, reading, layerMinZoom, shapes, written, bits, asking, asked, answers>>

\* readShapefileAttributes() and readProperties(), under attributeMutex: the remap function
\* may set _minzoom. A shape's goes into layer.minzoom, which is passed by reference.
ReadAttributes(t, f) ==
    /\ reading[t] = NoFeature /\ f \in queue /\ ~Skipped(f)
    /\ queue' = queue \ {f}
    /\ reading' = [reading EXCEPT ![t] = [stage |-> "store", feature |-> f, minZoom |-> FeatureZoom(f)]]
    /\ layerMinZoom' = IF f.source = "shp" /\ f.minZoom # NoZoom THEN f.minZoom ELSE layerMinZoom
    /\ UNCHANGED <<file, shapes, written, bits, asking, asked, answers>>

\* processShapeGeometry(): a point of a multipoint and a part of a line are clipped and stored
\* each for itself, a polygon with all its rings at once.
PiecesOfShape(f) ==
    CASE f.kind \in {"point", "multipoint", "line"} -> {p \cap ClipTiles : p \in f.parts}
      [] f.kind = "polygon"                         -> {(UNION f.parts) \cap ClipTiles}
      [] f.kind = "unsupported"                     -> {}

\* processFeature(): a line of several parts is a single geometry too.
PiecesOfFeature(f) ==
    CASE f.kind \in {"point", "multipoint"} -> {p \cap ClipTiles : p \in f.parts}
      [] f.kind \in {"line", "polygon"}     -> {(UNION f.parts) \cap ClipTiles}
      [] f.kind = "unsupported"             -> {}

\* The geometries that are stored: what the clipping leaves nothing of is not.
Pieces(f) == (IF f.source = "shp" THEN PiecesOfShape(f) ELSE PiecesOfFeature(f)) \ {{}}

\* ShpMemTiles::StoreGeometry() for the pieces of a feature: the output objects and, for an
\* indexed layer, the rtree and a bit for every tile of the box.
StoreFeature(t) ==
    /\ reading[t].stage = "store"
    /\ LET f      == reading[t].feature
           zoom   == IF f.source = "shp" THEN layerMinZoom ELSE reading[t].minZoom
           marked == UNION {BoxTiles(p) : p \in Pieces(f)}
       IN  /\ written' = written \cup {[feature |-> f, cells |-> p, minZoom |-> zoom] : p \in Pieces(f)}
           /\ shapes' = IF f.indexed THEN shapes \cup Pieces(f) ELSE shapes
           /\ bits' = IF ~f.indexed THEN bits
                      ELSE [b \in DOMAIN bits |-> [p \in DOMAIN bits[b] |->
                              IF \E c \in marked : BucketOf(c) = b /\ PositionOf(c) = p /\ bits[b][p] = "no"
                              THEN "maybe" ELSE bits[b][p]]]
    /\ reading' = [reading EXCEPT ![t] = NoFeature]
    /\ UNCHANGED <<file, queue, layerMinZoom, asking, asked, answers>>

LayersRead == queue = {} /\ \A t \in ShapeThreads : reading[t] = NoFeature
-----------------------------------------------------------------------------
(* Asking. *)

Ask(t, q) ==
    /\ LayersRead /\ asking[t] = NoQuery /\ asked < MaxQueries
    /\ asking' = [asking EXCEPT ![t] = [stage |-> "test", query |-> q, rest |-> q]]
    /\ asked' = asked + 1
    /\ UNCHANGED <<readVars, bits, answers>>

Answer(t, result) ==
    /\ answers' = answers \cup {[query |-> asking[t].query, result |-> result]}
    /\ asking' = [asking EXCEPT ![t] = NoQuery]
    /\ UNCHANGED bits

\* mayIntersect(), one tile of the box: a tile that may hold a shape is compared with the
\* shapes themselves, and what comes out is written into the bucket as it was read, for
\* the threads share the words of a vector<bool>.
TestTile(t) ==
    /\ asking[t].stage = "test"
    /\ IF asking[t].rest = <<>> THEN Answer(t, FALSE)
       ELSE LET tile == Head(asking[t].rest)
                bit  == bits[BucketOf(tile)][PositionOf(tile)]
            IN  CASE bit = "yes"   -> Answer(t, TRUE)
                  [] bit = "no"    -> /\ asking' = [asking EXCEPT ![t].rest = Tail(@)]
                                      /\ UNCHANGED <<bits, answers>>
                  [] bit = "maybe" -> /\ asking' = [asking EXCEPT ![t] =
                                           [stage |-> "refine", query |-> @.query, rest |-> @.rest,
                                            word |-> bits[BucketOf(tile)]]]
                                      /\ UNCHANGED <<bits, answers>>
    /\ UNCHANGED <<readVars, asked>>

\* QueryMatchingGeometries() with the tile's own box: does any indexed shape meet the tile?
\* The shapes are those of polygons: the check retrieves a multipolygon whatever was stored.
Matching(tile) == {s \in shapes : tile \in s}

RefineTile(t) ==
    /\ asking[t].stage = "refine"
    /\ LET tile  == Head(asking[t].rest)
           found == Matching(tile) # {}
           word  == [asking[t].word EXCEPT ![PositionOf(tile)] = IF found THEN "yes" ELSE "no"]
       IN  /\ bits' = [bits EXCEPT ![BucketOf(tile)] = word]
           /\ IF found
              THEN /\ answers' = answers \cup {[query |-> asking[t].query, result |-> TRUE]}
                   /\ asking' = [asking EXCEPT ![t] = NoQuery]
              ELSE /\ asking' = [asking EXCEPT ![t] = [stage |-> "test", query |-> @.query, rest |-> Tail(@.rest)]]
                   /\ UNCHANGED answers
    /\ UNCHANGED <<readVars, asked>>

NextShapes ==
    \/ \E f \in queue : SkipShape(f)
    \/ \E t \in ShapeThreads : (\E f \in queue : ReadAttributes(t, f)) \/ StoreFeature(t)
    \/ \E t \in ShapeThreads : (\E q \in Queries : Ask(t, q)) \/ TestTile(t) \/ RefineTile(t)

SpecShapes == InitShapes /\ [][NextShapes]_vars
-----------------------------------------------------------------------------
(* Properties. *)

\* A box for which mayIntersect() answers no meets none of the indexed shapes, whatever the
\* threads refined before and whichever of their writes to a shared word got lost.
NoShapeMissed ==
    \A a \in answers : ~a.result => \A s \in shapes, i \in 1..Len(a.query) : a.query[i] \notin s

OwnZoom(f) == IF f.minZoom = NoZoom THEN LayerMinZoom ELSE f.minZoom

\* An object shows from the _minzoom its feature was given on, and from the layer's minimum
\* zoom when it was given none, if it comes from GeoJSON, or from a shapefile of which no
\* shape whose attributes are read sets _minzoom.
OwnMinZoom ==
    \A w \in written :
        (w.feature.source = "geojson" \/ \A f \in file : Skipped(f) \/ f.minZoom = NoZoom)
            => w.minZoom = OwnZoom(w.feature)

\* What docs/CONFIGURATION.md promises of attribute_function: the minimum zoom level at which
\* an individual feature is rendered is the _minzoom it was given, whatever other features
\* of the layer were given.
MinZoomOfEach == \A w \in written : w.minZoom = OwnZoom(w.feature)
=============================================================================
