------------------------------- MODULE MCTiles -------------------------------
(***************************************************************************)
(* Writing tiles: which tiles, with which features (TileOutput), how       *)
(* features are encoded (VectorTile, prefix v), and the two archives tiles *)
(* are written to (MbtilesWriter, PmtilesWriter).  `which' says whose      *)
(* behaviour it is; the others keep their first values.                    *)
(***************************************************************************)
EXTENDS TileOutput, MbtilesWriter, PmtilesWriter

CONSTANTS Parts, t1, t2, t3, VarintBase, ReserveBytes, Zoom, max_entries_flat

VARIABLES which, vRound, vGiven, vWork, vLayer, vBuilder, vParts, vCopying, vTile, vRaised

vVars == <<vRound, vGiven, vWork, vLayer, vBuilder, vParts, vCopying, vTile, vRaised>>
-----------------------------------------------------------------------------
(* A line of 32 units, zooms 0 to 2, four objects of two sources in two    *)
(* layers: an overlapping pair of polygons that are merged below the last  *)
(* zoom, and in the other source a broken multilinestring and a short      *)
(* line.                                                                   *)
Object(source, id, layer, type, attributes, minZoom, segments) ==
    [source |-> source, objectID |-> id, layer |-> layer, type |-> type, zOrder |-> 0,
     attributes |-> attributes, minZoom |-> minZoom, segments |-> segments]

MCObjects == {Object(1, 1, 1, POLYGON, 1, 0, {<<2, 13>>}),
               Object(1, 3, 1, POLYGON, 1, 1, {<<8, 20>>}),
               Object(2, 2, 2, MULTILINESTRING, 1, 0, {<<1, 6>>, <<7, 12>>}),
               Object(2, 4, 2, LINESTRING, 1, 2, {<<20, 26>>})}

Layer == [ascending |-> TRUE, minzoom |-> 0, maxzoom |-> 2, combinePoints |-> TRUE,
          combineLinesBelow |-> 2, combinePolygonsBelow |-> 2, featureLimit |-> 0, featureLimitBelow |-> 0,
          filterBelow |-> 0, filterArea |-> 0]
MCLayerDefs   == <<Layer, [Layer EXCEPT !.minzoom = 1]>>
MCLayerOrder  == << <<1>>, <<2>> >>
MCClippingBox == <<-1, 24>>
MCWeight(z)   == IF z = EndZoom THEN 1 ELSE 2
-----------------------------------------------------------------------------
(* Objects of all three types (1 points, 2 lines, 3 polygons), with        *)
(* repeated points at both ends and in between, parts too small to be      *)
(* drawn, a polygon with a hole, and attributes that share keys and        *)
(* payloads.                                                               *)
Attribute(key, type, v, minzoom) == [key |-> <<key>>, value |-> <<type, v>>, minzoom |-> minzoom]
Drawing(type, id, pieces, attributes) == [type |-> type, id |-> id, parts |-> pieces, attributes |-> attributes]

\* payload 1 as an int (4) and as a bool (7)
A1 == <<Attribute(1, 4, 1, 0), Attribute(2, 7, 1, 0)>>
A2 == <<Attribute(2, 4, 1, 0), Attribute(3, 4, 9, 9)>>
A3 == <<Attribute(3, 7, 1, 0), Attribute(1, 4, 20, 0), Attribute(4, 4, 2, 0)>>

Dots    == Drawing(1, 3, << <<1, 2>>, <<1, 2>>, <<0, -3>> >>, A1)
Lines   == Drawing(2, 0, << << <<0, 0>>, <<0, 0>>, <<2, 1>> >>, << <<4, 4>>, <<4, 4>> >>,
                                    << <<2, 1>>, <<9, -9>>, <<9, -9>>, <<2, 1>> >> >>, A2)
Dot     == Drawing(2, 7, << << <<4, 4>>, <<4, 4>> >> >>, A1)
Donut   == Drawing(3, 5, << << << <<0, 0>>, <<0, 9>>, <<9, 9>>, <<9, 9>>, <<9, 0>>, <<0, 0>>, <<0, 0>> >>,
                                    << <<2, 2>>, <<3, 2>>, <<3, 3>>, <<2, 2>> >>, << <<4, 4>>, <<5, 4>>, <<4, 4>> >> >> >>, A3)
Sliver  == Drawing(3, 5, << << << <<0, 0>>, <<0, 9>>, <<0, 0>> >>, << <<2, 2>>, <<3, 2>>, <<3, 3>>, <<2, 2>> >> >> >>, A1)
Nothing == Drawing(3, 0, <<>>, A1)
Bare    == Drawing(2, 0, << << <<0, 0>>, <<1, 0>> >> >>, <<>>)

Drawings == {<<Dots, Dot, Lines>>, <<Lines, Sliver, Donut>>, <<Donut, Bare>>, <<Dot, Nothing>>, <<Bare, Dots>>}

Encoding == INSTANCE VectorTile WITH
    Inputs <- Drawings, Rounds <- 2,
    round <- vRound, given <- vGiven, work <- vWork, layer <- vLayer, builder <- vBuilder, parts <- vParts,
    copying <- vCopying, tile <- vTile, raised <- vRaised
-----------------------------------------------------------------------------
TileAt(z, x, y) == [z |-> z, x |-> x, y |-> y]
Feature(layer, name) == [layer |-> layer, name |-> name]

(* Two tiles of one column, which only their rows tell apart, and the root.*)
FourTiles == {TileAt(0, 0, 0), TileAt(1, 0, 0), TileAt(1, 0, 1), TileAt(1, 1, 0)}
ThreeTiles == {TileAt(0, 0, 0), TileAt(1, 0, 0), TileAt(1, 0, 1)}

MCLayerNames == <<"roads", "water">>
MCFeatures == [t \in FourTiles |-> {Feature("roads", <<t.z, t.x, t.y>>)}]
MCOutsideBox == {TileAt(1, 1, 0)}
ThreeAndOutside == ThreeTiles \cup MCOutsideBox

(* A new file.  One that has all tiles but one, with a layer that is       *)
(* configured and one that is not; a signal comes after the first layer of *)
(* a tile.  One that has a tile compressed otherwise.                      *)
AllLayers == [t \in FourTiles |-> 2]
NewFile == [merge |-> FALSE, tiles |-> [t \in FourTiles |-> None], otherwise |-> {}, upTo |-> AllLayers]
Old(t) == {Feature("water", <<t.z, t.x, t.y>>), Feature("rail", <<t.z, t.x, t.y>>)}
OldFile ==
  [merge |-> TRUE, tiles |-> [t \in FourTiles |-> IF t.y = 1 THEN None ELSE Old(t)],
   otherwise |-> {}, upTo |-> [AllLayers EXCEPT ![TileAt(1, 0, 0)] = 1]]
OtherFile ==
  [merge |-> TRUE, tiles |-> [t \in FourTiles |-> IF t.z = 1 THEN None ELSE Old(t)],
   otherwise |-> {TileAt(0, 0, 0)}, upTo |-> AllLayers]
NewOrOld == {NewFile, OldFile, OtherFile}

(* For the promise of --merge: of three tiles, one has a layer that is not *)
(* configured, one is cut short by a signal after its first layer, and one *)
(* is compressed otherwise and a signal comes before its first layer.      *)
PlainOld(t) == {Feature("water", <<t.z, t.x, t.y>>)}
MergedFile ==
  [merge |-> TRUE, tiles |-> [t \in FourTiles |-> IF t.z = 0 THEN Old(t) ELSE PlainOld(t)],
   otherwise |-> {TileAt(1, 0, 1)}, upTo |-> [AllLayers EXCEPT ![TileAt(1, 0, 0)] = 1, ![TileAt(1, 0, 1)] = 0]]
OnlyMerged == {MergedFile}

(* PMTiles.  Two seas and a coast, the same sea twice, some IDs absent: by *)
(* three threads; every tileset over the IDs, of sea (tiny) and land: by   *)
(* one, in the order of their IDs.                                         *)
MCIds == 0..6
FewTiles == [t \in {0, 3, 4, 5} |-> IF t = 3 THEN "coast" ELSE IF t = 0 THEN "lake" ELSE "sea"]
AllTilesets == UNION {[S -> {"sea", "land"}] : S \in SUBSET MCIds}
SomeTilesets == {[tiles |-> FewTiles, order |-> <<0, 4, 3, 5>>, pool |-> {t1, t2, t3}]}
              \cup {[tiles |-> f, pool |-> {t1},
                     order |-> SelectSeq(<<0, 1, 2, 3, 4, 5, 6>>, LAMBDA t : t \in DOMAIN f)] : f \in AllTilesets}

-----------------------------------------------------------------------------
MCInit ==
    /\ which \in Parts
    /\ which = "encoding" \/ vGiven = [r \in 1..2 |-> <<Bare, Dots>>]
    /\ which = "mbtiles" \/ opening = NewFile
    /\ which = "pmtiles" \/ tileQueue = <<>>
    /\ Encoding!Init /\ Init /\ InitPmtiles /\ InitOutput
MCNext ==
    /\ UNCHANGED which
    /\ \/ which = "tiles" /\ NextOutput /\ UNCHANGED <<vVars, vars, pmtilesVars>>
       \/ which = "encoding" /\ Encoding!Next /\ UNCHANGED <<outputVars, vars, pmtilesVars>>
       \/ which = "mbtiles" /\ Next /\ UNCHANGED <<outputVars, vVars, pmtilesVars>>
       \/ which = "pmtiles" /\ NextPmtiles /\ UNCHANGED <<outputVars, vVars, vars>>

(* The pool of TileOutput and the threads of MbtilesWriter are scheduled,  *)
(* in the behaviours that are theirs.                                      *)
MCFairness ==
    /\ \A w \in OutputThreads : WF_outputVars(which = "tiles" /\ OutputStep(w))
    /\ \A p \in Procs : WF_vars(which = "mbtiles" /\ Step(p))
    /\ WF_vars(which = "mbtiles" /\ CloseForWriting)
MCSpec == MCInit /\ [][MCNext]_<<which, outputVars, vVars, vars, pmtilesVars>> /\ MCFairness

(* The pool runs dry and the archive is closed, in the behaviours that are *)
(* theirs (tilemaker.cpp, pool.join(); MBTiles::closeForWriting).          *)
TilesFinish == which = "tiles" => EventuallyFinished
ArchiveCloses == which = "mbtiles" => EventuallyClosed

(* No call breaks the contract of vtzero's builders (writeMultiLinestring, *)
(* writeRing, writeMultiPolygon, ProcessLayer).                            *)
BuilderContractKept == Encoding!BuilderContractKept

(* The tile that is written reads back as the objects it was given         *)
(* (vtzero's and protozero's writers and readers as tile_worker.cpp uses   *)
(* them).                                                                  *)
TileReadsBack == Encoding!TileReadsBack
=============================================================================
