------------------------------ MODULE MCObjects ------------------------------
(***************************************************************************)
(* What becomes of an object: the calls a script makes for it              *)
(* (LuaProcessing), the index of the output objects for the tiles          *)
(* (TileIndex), and the shapes of shapefiles and GeoJSON with the index    *)
(* that answers whether they intersect something (ShapeSource, prefix s).  *)
(* `which' says whose behaviour it is; the others keep their first values. *)
(***************************************************************************)
EXTENDS LuaProcessing, TileIndex

CONSTANTS Parts, t1, t2, t3, ShapeFiles, ShapeQueries

VARIABLES which, sFile, sQueue, sReading, sLayerMinZoom, sShapes, sWritten, sBits, sAsking, sAsked, sAnswers

sVars == <<sFile, sQueue, sReading, sLayerMinZoom, sShapes, sWritten, sBits, sAsking, sAsked, sAnswers>>
-----------------------------------------------------------------------------
Way(id, ring, validity, used) ==
    [kind |-> "way", id |-> id, ring |-> ring, validity |-> validity, used |-> used, label |-> 0,
     outline |-> {1}, inside |-> {}, centre |-> 1]
Relation(id, native, innerOuter, validity, label) ==
    [kind |-> "relation", id |-> id, native |-> native, innerOuter |-> innerOuter, validity |-> validity,
     used |-> FALSE, label |-> label, outline |-> {1}, inside |-> {}, centre |-> 1]
Node(id, used) == [kind |-> "node", id |-> id, used |-> used, validity |-> "Valid", label |-> 0,
                   outline |-> {1}, inside |-> {}, centre |-> 1]

\* Node and way share an id; the labels of the relations are a stored node and a missing one.
MCObjects == {Node(5, FALSE), Way(5, TRUE, "Valid", FALSE), Way(6, FALSE, "Corrected", TRUE),
              Way(7, TRUE, "Invalid", FALSE), Relation(5, TRUE, TRUE, "Valid", 3),
              Relation(8, FALSE, FALSE, "Corrected", 4), Relation(9, FALSE, TRUE, "Invalid", 0)}
MCFiles == {<<a, b>> : a \in MCObjects, b \in MCObjects}
MCLayers == [poi |-> 0, road |-> 5]
MCCalls ==
    {[call |-> "Layer", layer |-> "road", area |-> a] : a \in BOOLEAN}
    \cup {[call |-> "LayerAsCentroid", layer |-> "poi", algorithm |-> "centroid", role |-> r] : r \in BOOLEAN}
    \cup {[call |-> "LayerAsCentroid", layer |-> "poi", algorithm |-> "polylabel", role |-> FALSE]}
    \cup {[call |-> "Attribute", key |-> "name", value |-> v] : v \in 1..2}
    \cup {[call |-> "Zoom", field |-> f, z |-> 7] : f \in {"minZoom", "zOrder"}}
    \cup {[call |-> "Query", query |-> q] : q \in {"FindIntersecting", "Area", "Length"}}
-----------------------------------------------------------------------------
(* An index of 8 x 8 tiles in 2 x 2 clusters, two pools of two and one     *)
(* threads, and geometries of every kind: a line over a cluster border, a  *)
(* line in two parts that share a tile, a small and a large polygon, a     *)
(* point beyond the southern edge.                                         *)
MCPools == << {t1, t2}, {t3} >>

\* The threads of the first pool are interchangeable.
MCSymmetry == Permutations({t1, t2})

LOCAL Geo(kind, way, parts, attr, minZoom, id) ==
    [kind |-> kind, way |-> way, parts |-> parts, layer |-> 1, attr |-> attr, minZoom |-> minZoom, id |-> id]

MCGeometries == {
    Geo("LINESTRING", FALSE, << << <<2, 1>>, <<4, 0>> >> >>, 1, 0, 7),
    Geo("MULTILINESTRING", FALSE, << << <<1, 5>> >>, << <<1, 5>>, <<2, 5>> >> >>, 2, 2, 0),
    Geo("POLYGON", FALSE, << << <<5, 1>>, <<7, 3>>, <<5, 3>>, <<5, 1>> >> >>, 1, 0, 8),
    Geo("POLYGON", TRUE, << << <<0, 5>>, <<0, 7>>, <<0, 5>> >> >>, 1, 1, 0),
    Geo("POINT", FALSE, << << <<3, 8>> >> >>, 1, 0, 0) }
-----------------------------------------------------------------------------
(* Source files over 8 x 8 tiles in 4 x 4 clusters: a shapefile of an      *)
(* L-shaped polygon, another in a cluster of its own, and a point outside  *)
(* the clipping box; one with a line that sets _minzoom; and GeoJSON with  *)
(* a feature that does.  For the aliased buckets, two polygons of clusters *)
(* that share one.                                                         *)
ShapeFeature(source, kind, parts, minZoom, indexed) ==
    [source |-> source, kind |-> kind, parts |-> parts, minZoom |-> minZoom, indexed |-> indexed]
NoZoom == 99

LShape == ShapeFeature("shp", "polygon", {{<<0, 4>>, <<1, 4>>, <<1, 5>>}}, NoZoom, TRUE)
Other  == ShapeFeature("shp", "polygon", {{<<2, 1>>}}, NoZoom, TRUE)
Line(minZoom) == ShapeFeature("shp", "line", {{<<4, 4>>}, {<<4, 5>>}}, minZoom, FALSE)

InsideClip == (0..6) \X (0..6)
Shapefile == {LShape, ShapeFeature("shp", "polygon", {{<<4, 4>>, <<5, 4>>}}, NoZoom, TRUE),
              ShapeFeature("shp", "point", {{<<7, 7>>}}, 3, TRUE)}
ZoomedShapefile == {LShape, Line(9), ShapeFeature("shp", "multipoint", {{<<0, 1>>}, {<<7, 7>>}}, NoZoom, FALSE)}
GeoJSON == {ShapeFeature("geojson", "multipoint", {{<<0, 1>>}, {<<7, 7>>}}, 9, FALSE),
            ShapeFeature("geojson", "polygon", {{<<1, 0>>, <<1, 1>>}, {<<7, 7>>}}, NoZoom, TRUE),
            ShapeFeature("geojson", "unsupported", {}, NoZoom, TRUE)}
SomeFiles   == {Shapefile, ZoomedShapefile, GeoJSON}
SomeQueries == {<< <<0, 5>> >>, << <<0, 5>>, <<1, 5>> >>, << <<1, 0>> >>}

ZoomedFiles    == {ZoomedShapefile}
AliasedFiles   == {{LShape, Other}}
AliasedQueries == {<< <<0, 5>> >>, << <<2, 1>> >>}

Shapes == INSTANCE ShapeSource WITH
    ShapeThreads <- {t1, t2}, SHAPE_CLUSTER_ZOOM <- 2, SpatialIndexZoom <- 3, ClipTiles <- InsideClip,
    Files <- ShapeFiles, LayerMinZoom <- 5, Queries <- ShapeQueries, MaxQueries <- 4, file <- sFile,
    queue <- sQueue, reading <- sReading, layerMinZoom <- sLayerMinZoom, shapes <- sShapes, written <- sWritten,
    bits <- sBits, asking <- sAsking, asked <- sAsked, answers <- sAnswers
-----------------------------------------------------------------------------
(* What the proofs assume of the objects and of the script.                *)
ASSUME ScriptAssumption == LuaAssumption

MCInit ==
    /\ which \in Parts
    /\ LuaInit /\ Init /\ Shapes!InitShapes
    /\ which = "script" \/ (handed = <<Node(5, FALSE), Node(5, FALSE)>> /\ isClosed = FALSE)
    /\ which = "shapes" \/ sFile = CHOOSE f \in ShapeFiles : TRUE
MCNext ==
    \/ which = "script" /\ LuaNext /\ UNCHANGED <<which, vars, sVars>>
    \/ which = "index" /\ Next /\ UNCHANGED <<which, luaVars, sVars>>
    \/ which = "shapes" /\ Shapes!NextShapes /\ UNCHANGED <<which, luaVars, vars>>
MCSpec == MCInit /\ [][MCNext]_<<which, luaVars, vars, sVars>>

(* No question is answered without a shape that lies where it is asked,    *)
(* however the threads refine the bits (ShpMemTiles::StoreGeometry,        *)
(* mayIntersect, QueryMatchingGeometries).                                 *)
NoShapeMissed == Shapes!NoShapeMissed

(* An object shows from the zoom its own feature asks for, unless a shape  *)
(* of its file sets _minzoom (ShpProcessor::read,                          *)
(* GeoJSONProcessor::readProperties).                                      *)
OwnMinZoom == Shapes!OwnMinZoom

(* An object shows from the zoom its own feature asks for, always          *)
(* (readShapefileAttributes, processShapeGeometry).                        *)
MinZoomOfEach == Shapes!MinZoomOfEach
=============================================================================
