----------------------------- MODULE VectorTile -----------------------------
(***************************************************************************)
(* Encoding a tile: writeMultiLinestring, writeRing, writeMultiPolygon,    *)
(* the points of ProcessObjects and the copying of an existing tile        *)
(* (src/tile_worker.cpp), call by call against the feature builders of the *)
(* vendored vtzero, whose number of points is announced before the points  *)
(* are set, and the decoder that reads the tile back. One layer is built   *)
(* in each round; the tile of a round is the existing tile of the next.    *)
(***************************************************************************)
EXTENDS WireFormat

CONSTANTS
    Inputs,             \* the objects of each round: sequences of objects, see MCTiles
    Rounds,             \* tiles written one over the other, with --merge
    Zoom,
    max_entries_flat    \* 20: table size from which on a hash index is used

VARIABLES
    round,      \* the round, Rounds + 1 when all are done
    given,      \* round -> its objects
    work,       \* objects of the round still to be written
    layer,      \* the layer_builder_impl
    builder,    \* the feature builder, or NoBuilder
    parts,      \* what is still to be done for the feature: parts, each with its points
    copying,    \* features of the existing layer still to be copied
    tile,       \* the tile of the last round
    raised      \* the assertions and exceptions of vtzero met

vars == <<round, given, work, layer, builder, parts, copying, tile, raised>>

POINT == 1
LINESTRING == 2
POLYGON == 3
\* fields of the tile, of a layer, of a feature
LAYERS == 3
NAME == 1
FEATURES == 2
KEYS == 3
VALUES == 4
EXTENT == 5
VERSION == 15
ID == 1
TAGS == 2
TYPE == 3
GEOMETRY == 4
-----------------------------------------------------------------------------
(* layer_builder_impl *)

NewLayer == [message |-> AddTaggedVarint(AddBytes(AddTaggedVarint(NewWriter, VERSION, 2), NAME, <<1>>), EXTENT, 4096),
             keys |-> NewWriter, values |-> NewWriter, keyIndex |-> <<>>, valueIndex |-> <<>>, features |-> 0]

\* encoded_property_value: the value under the tag of its type.
Encoded(value) == AddTaggedVarint(NewWriter, value[1], value[2]).data

Table(w) == LET fields == FieldsOf(w.data) IN [i \in DOMAIN fields |-> fields[i].value]

\* mutant: a text the index does not know is given the number it would have had before.
AddText_Stale(w, index, tag, text) ==
    LET table == Table(w)
        known == IF index = <<>> THEN table ELSE index
        hits  == {i \in DOMAIN known : known[i] = text}
    IN  IF hits # {} THEN [writer |-> w, index |-> index, at |-> Min(hits) - 1]
        ELSE [writer |-> AddBytes(w, tag, text), at |-> Len(known),
              index  |-> IF Len(table) < max_entries_flat THEN index ELSE known]

\* add_key() and add_value(): a short table is searched through, a long one by an index that
\* is filled from it once and kept up from then on.
AddText(w, index, tag, text) ==
    LET table == Table(w)
        known == IF index = <<>> THEN table ELSE index
        hits  == {i \in DOMAIN known : known[i] = text}
    IN  IF hits # {} THEN [writer |-> w, index |-> IF Len(table) < max_entries_flat THEN index ELSE known, at |-> Min(hits) - 1]
        ELSE [writer |-> AddBytes(w, tag, text), at |-> Len(table),
              index  |-> IF Len(table) < max_entries_flat THEN index ELSE Append(known, text)]

\* build(): a layer without features is left out.
Serialized(l) == IF l.features = 0 THEN <<>> ELSE AddBytes(NewWriter, LAYERS, l.message.data \o l.keys.data \o l.values.data).data
-----------------------------------------------------------------------------
(* What tile_worker.cpp asks the builders to write. *)

\* Points on the grid without repetitions, as both of its loops see them.
Distinct(line) == FoldLeft(LAMBDA acc, p : IF acc # <<>> /\ Last(acc) = p THEN acc ELSE Append(acc, p), <<>>, line)

\* mutant: the repetitions are counted.
Count_All(line) == Len(line)

\* The first of the two loops: how many points will be set.
Count(line) == Len(Distinct(line))

\* A part, announced with its number of points, and the points as they will be set; rings
\* are set backwards. Inner rings go where their outer ring goes.
Part(points, line) == [count |-> points, points |-> line]
PartsOf(o) ==
    CASE o.type = POINT      -> <<Part(Len(o.parts), o.parts)>>
      [] o.type = LINESTRING -> LET kept == SelectSeq(o.parts, LAMBDA l : Count(l) > 1)
                                IN  [i \in DOMAIN kept |-> Part(Count(kept[i]), Distinct(kept[i]))]
      [] o.type = POLYGON    -> LET polygons == SelectSeq(o.parts, LAMBDA p : Count(p[1]) > 3)
                                    rings    == SelectSeq(FlattenSeq(polygons), LAMBDA r : Count(r) > 3)
                                IN  [i \in DOMAIN rings |-> Part(Count(rings[i]), Distinct(Reverse(rings[i])))]

\* writeAttributes(): the attributes that show at this zoom.
AttributesOf(o) == SelectSeq(o.attributes, LAMBDA a : a.minzoom <= Zoom)
-----------------------------------------------------------------------------
(* Reading a tile back: vector_tile, layer, feature and geometry_decoder. *)

DecodeGeometry(type, numbers) ==
    LET Delta(i, cursor) == <<cursor[1] + decode_zigzag32(numbers[i]), cursor[2] + decode_zigzag32(numbers[i + 1])>>
        count(i) == numbers[i] \div 8
        command(i) == numbers[i] % 8
        \* the points of one command, then what follows
        run[i \in 1..(Len(numbers) + 1), n \in 0..Len(numbers), cursor \in Seq(Int), line \in Seq(Seq(Int))] ==
          IF n > 0 THEN IF i + 1 > Len(numbers) THEN << <<"too few points">> >>
                        ELSE LET p == Delta(i, cursor) IN run[i + 2, n - 1, p, Append(line, p)]
          ELSE IF i > Len(numbers) THEN <<line>>
          ELSE IF command(i) = 1 /\ (line = <<>> \/ type # POINT)
               THEN (IF line = <<>> THEN <<>> ELSE <<line>>) \o run[i + 1, count(i), cursor, <<>>]
          ELSE IF command(i) = 2 /\ type # POINT /\ Len(line) = 1 /\ count(i) > 0 THEN run[i + 1, count(i), cursor, line]
          ELSE IF numbers[i] = 15 /\ type = POLYGON THEN run[i + 1, 0, cursor, Append(line, line[1])]
          ELSE << <<"unexpected command">> >>
    IN  run[1, 0, <<0, 0>>, <<>>]

\* feature and next_property(): its fields, and its properties looked up in the tables.
DecodeFeature(data, keys, values) ==
    LET fields == FieldsOf(data)
        tags   == FlattenSeq([i \in DOMAIN ValuesAt(fields, TAGS, LENGTH_DELIMITED) |->
                                Unpacked(ValuesAt(fields, TAGS, LENGTH_DELIMITED)[i])])
    IN  [id         |-> ValuesAt(fields, ID, VARINT),
         type       |-> ValuesAt(fields, TYPE, VARINT),
         raw        |-> ValuesAt(fields, GEOMETRY, LENGTH_DELIMITED),
         properties |-> [i \in 1..(Len(tags) \div 2) |-> <<keys[tags[2 * i - 1] + 1], values[tags[2 * i] + 1]>>]]

\* get_layer_by_name() and next_feature(), for the one layer there is.
DecodeTile(bytes) ==
    IF bytes = <<>> THEN <<>>
    ELSE LET fields == FieldsOf(ValuesAt(FieldsOf(bytes), LAYERS, LENGTH_DELIMITED)[1])
             data   == ValuesAt(fields, FEATURES, LENGTH_DELIMITED)
             keys   == ValuesAt(fields, KEYS, LENGTH_DELIMITED)
             values == ValuesAt(fields, VALUES, LENGTH_DELIMITED)
         IN  [i \in DOMAIN data |-> DecodeFeature(data[i], keys, values)]
-----------------------------------------------------------------------------
(* The feature builders. *)

NoBuilder == [open |-> "none", setting |-> FALSE, left |-> 0]
Message(w) == layer' = [layer EXCEPT !.message = w]

Init ==
    /\ round = 1 /\ given \in [1..Rounds -> Inputs] /\ work = given[1]
    /\ layer = NewLayer /\ builder = NoBuilder /\ parts = <<>> /\ copying = <<>>
    /\ tile = <<>> /\ raised = {}

\* add_property(): both texts enter their tables, their numbers the feature.
Tagged(l, k, v) == [l EXCEPT !.keys = k.writer, !.keyIndex = k.index, !.values = v.writer, !.valueIndex = v.index,
                            !.message = AddElement(AddElement(@, k.at), v.at)]
WithProperty(l, key, value) ==
    Tagged(l, AddText(l.keys, l.keyIndex, KEYS, key), AddText(l.values, l.valueIndex, VALUES, value))

\* ProcessLayer() with an existing layer: a feature goes through a geometry_feature_builder,
\* its geometry as it is.
CopyFeature ==
    /\ copying # <<>>
    /\ LET f      == Head(copying)
           start  == OpenSubmessage(layer.message, FEATURES)
           withId == IF f.id = <<>> THEN start ELSE AddTaggedVarint(start, ID, f.id[1])
           shape  == AddBytes(AddTaggedVarint(withId, TYPE, f.type[1]), GEOMETRY, f.raw[1])
           full   == FoldLeft(LAMBDA l, p : WithProperty(l, p[1], p[2]),
                              [layer EXCEPT !.message = OpenSubmessage(shape, TAGS)], f.properties)
       IN  layer' = [full EXCEPT !.message = CloseSubmessage(CloseSubmessage(@)), !.features = @ + 1]
    /\ copying' = Tail(copying)
    /\ UNCHANGED <<round, given, work, builder, parts, tile, raised>>

\* The builder is made, with the type, and the id set; an empty multipolygon has none.
BeginFeature ==
    /\ copying = <<>> /\ builder = NoBuilder /\ work # <<>>
    /\ LET o     == Head(work)
           start == AddTaggedVarint(OpenSubmessage(layer.message, FEATURES), TYPE, o.type)
       IN  IF o.type = POLYGON /\ o.parts = <<>>
           THEN work' = Tail(work) /\ UNCHANGED <<layer, builder, parts>>
           ELSE /\ Message(IF o.id = 0 THEN start ELSE AddTaggedVarint(start, ID, o.id))
                /\ builder' = [open |-> "feature", type |-> o.type, left |-> 0, start |-> FALSE, setting |-> FALSE,
                               cursor |-> <<0, 0>>, first |-> <<0, 0>>, attributes |-> AttributesOf(o)]
                /\ parts' = PartsOf(o)
                /\ UNCHANGED work
    /\ UNCHANGED <<round, given, copying, tile, raised>>

\* add_points(), add_linestring(), add_ring()
AddPart ==
    /\ builder.open \in {"feature", "geometry"} /\ ~builder.setting /\ parts # <<>>
    /\ LET opened == IF builder.open = "geometry" THEN layer.message ELSE OpenSubmessage(layer.message, GEOMETRY)
       IN  Message(IF builder.type = POINT THEN AddElement(opened, Head(parts).count * 8 + 1) ELSE opened)
    /\ builder' = [builder EXCEPT !.open = "geometry", !.setting = TRUE, !.left = Head(parts).count, !.start = TRUE]
    /\ raised' = IF builder.left # 0 THEN raised \cup {"not enough calls to set_point()"} ELSE raised
    /\ UNCHANGED <<round, given, work, parts, copying, tile>>

\* What set_point() does: the elements it writes, and the builder and assertions after it.
Set(elements, b, failures) == [elements |-> elements, builder |-> b, failures |-> failures]
Moved(b, p) == <<encode_zigzag32(p[1] - b.cursor[1]), encode_zigzag32(p[2] - b.cursor[2])>>
Decremented(b) == [b EXCEPT !.left = Max({b.left - 1, 0})]

\* point_feature_builder: the number of points is already written.
SetPointOfPoints(b, p) == Set(Moved(b, p), [Decremented(b) EXCEPT !.cursor = p], {})

\* linestring_feature_builder: the first point is followed by the number of the others.
SetPointOfLine(b, p) ==
    LET d == [Decremented(b) EXCEPT !.cursor = p, !.start = FALSE]
    IN  IF b.start THEN Set(<<9>> \o Moved(b, p) \o <<8 * d.left + 2>>, d, {})
        ELSE Set(Moved(b, p), d, IF p = b.cursor THEN {"Zero-length segments in linestrings are not allowed."} ELSE {})

\* polygon_feature_builder: the last point closes the ring instead of being written.
SetPointOfRing(b, p) ==
    LET d == Decremented(b)
        at == [d EXCEPT !.cursor = p, !.start = FALSE]
    IN  IF b.start THEN Set(<<9>> \o Moved(b, p) \o <<8 * Max({d.left - 1, 0}) + 2>>, [at EXCEPT !.first = p], {})
        ELSE IF d.left = 0
        THEN Set(<<15>>, d, IF p # b.first THEN {"Last point in a ring must be the same as the first point."} ELSE {})
        ELSE Set(Moved(b, p), at, IF p = b.cursor THEN {"Zero-length segments in rings are not allowed."} ELSE {})

\* set_point(); the loop of tile_worker.cpp ends with the last point of the part.
SetPoint ==
    /\ builder.setting
    /\ LET p    == Head(Head(parts).points)
           more == Len(Head(parts).points) > 1
           set  == CASE builder.type = POINT      -> SetPointOfPoints(builder, p)
                     [] builder.type = LINESTRING -> SetPointOfLine(builder, p)
                     [] builder.type = POLYGON    -> SetPointOfRing(builder, p)
       IN  /\ Message(FoldLeft(AddElement, layer.message, set.elements))
           /\ builder' = [set.builder EXCEPT !.setting = more]
           /\ parts' = IF more THEN [parts EXCEPT ![1].points = Tail(@)] ELSE Tail(parts)
           /\ raised' = raised \cup set.failures \cup (IF builder.left = 0 THEN {"too many calls to set_point()"} ELSE {})
    /\ UNCHANGED <<round, given, work, copying, tile>>

Unfinished == IF builder.left # 0 THEN raised \cup {"not enough calls to set_point()"} ELSE raised

\* add_property(): the first one closes the geometry and opens the tags.
AddProperty ==
    /\ builder.open \in {"geometry", "tags"} /\ ~builder.setting /\ parts = <<>> /\ builder.attributes # <<>>
    /\ LET a      == Head(builder.attributes)
           opened == IF builder.open = "tags" THEN layer.message ELSE OpenSubmessage(CloseSubmessage(layer.message), TAGS)
       IN  layer' = WithProperty([layer EXCEPT !.message = opened], a.key, Encoded(a.value))
    /\ builder' = [builder EXCEPT !.open = "tags", !.attributes = Tail(@)]
    /\ raised' = Unfinished
    /\ UNCHANGED <<round, given, work, parts, copying, tile>>

\* commit()
Commit ==
    /\ builder.open \in {"geometry", "tags"} /\ ~builder.setting /\ parts = <<>> /\ builder.attributes = <<>>
    /\ layer' = [layer EXCEPT !.message = CloseSubmessage(CloseSubmessage(@)), !.features = @ + 1]
    /\ builder' = NoBuilder /\ work' = Tail(work)
    /\ raised' = Unfinished
    /\ UNCHANGED <<round, given, parts, copying, tile>>

\* A builder that was given no geometry is destroyed without a commit: rollback().
Rollback ==
    /\ builder.open = "feature" /\ parts = <<>>
    /\ Message(RollbackSubmessage(layer.message))
    /\ builder' = NoBuilder /\ work' = Tail(work)
    /\ UNCHANGED <<round, given, parts, copying, tile, raised>>

\* serialize(); the next round merges into the tile.
Serialize ==
    /\ round <= Rounds /\ work = <<>> /\ builder = NoBuilder /\ copying = <<>>
    /\ tile' = Serialized(layer)
    /\ round' = round + 1
    /\ layer' = NewLayer
    /\ work' = IF round < Rounds THEN given[round + 1] ELSE <<>>
    /\ copying' = IF round < Rounds THEN DecodeTile(tile') ELSE <<>>
    /\ UNCHANGED <<given, builder, parts, raised>>

Next == CopyFeature \/ BeginFeature \/ AddPart \/ SetPoint \/ AddProperty \/ Commit \/ Rollback \/ Serialize
Spec == Init /\ [][Next]_vars
-----------------------------------------------------------------------------
(* Properties. *)

\* No call breaks the contract of vtzero's builders: as many points are set as were announced
\* although repeated ones are filtered in two separate loops, once forwards and, for rings,
\* once backwards, no segment is empty and every ring closes (writeMultiLinestring,
\* writeRing; an exception here would end the pool's thread).
BuilderContractKept == raised = {}

\* What an object should look like: its parts without repeated points, rings turned round.
Clean(line) == LET new == {i \in DOMAIN line : i = 1 \/ line[i] # line[i - 1]}
               IN  [k \in 1..Cardinality(new) |-> line[CHOOSE i \in new : Cardinality({j \in new : j < i}) = k - 1]]
Expected(o) ==
    [id    |-> IF o.id = 0 THEN <<>> ELSE <<o.id>>,
     type  |-> <<o.type>>,
     lines |-> CASE o.type = POINT -> <<o.parts>>
                 [] o.type = LINESTRING -> SelectSeq([i \in DOMAIN o.parts |-> Clean(o.parts[i])], LAMBDA l : Len(l) > 1)
                 [] o.type = POLYGON ->
                      LET whole == SelectSeq(o.parts, LAMBDA p : Len(Clean(p[1])) > 3)
                          rings == FlattenSeq([i \in DOMAIN whole |-> [j \in DOMAIN whole[i] |-> Clean(Reverse(whole[i][j]))]])
                      IN  SelectSeq(rings, LAMBDA l : Len(l) > 3),
     properties |-> LET shown == SelectSeq(o.attributes, LAMBDA a : a.minzoom <= Zoom)
                    IN  [i \in DOMAIN shown |-> <<shown[i].key, Encoded(shown[i].value)>>]]

\* The finished tile, read with the decoder, has exactly the objects of all rounds that have
\* something to show, each with its id, type, points and attributes: features taken back in
\* between leave no trace, lengths of any size are filled in right, texts keep their numbers
\* when the tables outgrow the linear search, and a merge copies the existing features whole.
TileReadsBack ==
    round > Rounds =>
        LET expected == SelectSeq(FlattenSeq([r \in 1..Rounds |-> [i \in DOMAIN given[r] |-> Expected(given[r][i])]]),
                                  LAMBDA e : e.lines # <<>>)
            decoded  == DecodeTile(tile)
        IN  /\ Len(decoded) = Len(expected)
            /\ \A i \in DOMAIN expected :
                 /\ decoded[i].id = expected[i].id /\ decoded[i].type = expected[i].type
                 /\ decoded[i].properties = expected[i].properties
                 /\ DecodeGeometry(decoded[i].type[1], Unpacked(decoded[i].raw[1])) = expected[i].lines
=============================================================================
