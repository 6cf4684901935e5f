---------------------------- MODULE LuaProcessing ----------------------------
(***************************************************************************)
(* One object at a time in the hands of a Lua script                       *)
(* (src/osm_lua_processing.cpp): the calls node_function, way_function and *)
(* relation_function may make, in any order, what they leave in the        *)
(* thread's fields, and what reaches the tile index and the stores when    *)
(* the function returns.  The geometry an output object names is looked up *)
(* again much later, when tiles are written (src/osm_mem_tiles.cpp).       *)
(***************************************************************************)
EXTENDS Integers, SequencesExt

CONSTANTS
    Files,          \* the sequences of objects a thread may be handed
    LuaFunctions,   \* which of node_function, way_function, relation_function exist
    Layers,         \* layer name -> its minzoom
    Calls,          \* the calls the script makes, in any order: see Call
    MaxCalls,       \* bound on the calls made for all objects together
    MaterializeGeometries,  \* --materialize-geometries
    KnownNodes      \* nodes stored before any relation is read

VARIABLES
    handed, next,  \* the objects handed over, and the position of the current one
    running,        \* a Lua function runs
    calls,          \* calls made so far
    crashed,        \* a pointer that is null was followed
    originalOsmID, isWay, isRelation, isClosed,
    llVec, wayVecs, \* llVecPtr; outerWayVecPtr and innerWayVecPtr: the object, or Null
    cache,          \* kind of geometry -> what linestringCache and its siblings hold
    inited,         \* the kinds whose ...Inited flag is set
    lastStored,     \* lastStoredGeometryId and lastStoredGeometryType
    outputs, outputKeys, wayEmitted,
    stored,         \* the geometries of the tile data source; position - 1 is the id
    nodeStore, wayStore,
    index,          \* what was added to the tile index
    skipped         \* outputs a later Layer call that wrote nothing left open

object   == <<originalOsmID, isWay, isRelation, isClosed, llVec, wayVecs>>
geometry == <<cache, inited, lastStored>>
written  == <<outputs, outputKeys, wayEmitted, stored, skipped>>
kept     == <<nodeStore, wayStore, index>>
luaVars == <<handed, next, running, calls, crashed, object, geometry, written, kept>>

Null     == [id |-> 0]
Current  == handed[next]
NoId     == [store |-> "tiles", id |-> 0]
CacheKinds == {"linestring", "polygon", "multilinestring", "multipolygon"}

\* A geometry is known by its kind and the object it is of; "centroid" is the point
\* calculateCentroid finds.
Geometry(kind, id) == [kind |-> kind, of |-> id]
None == Geometry("none", 0)

LuaInit ==
    /\ handed \in Files /\ next = 1 /\ running = FALSE /\ calls = 0 /\ crashed = FALSE
    /\ originalOsmID = 0 /\ isWay = FALSE /\ isRelation = FALSE /\ isClosed \in BOOLEAN
    /\ llVec = Null /\ wayVecs = Null
    /\ cache = [k \in CacheKinds |-> None] /\ inited = {}
    /\ lastStored = [id |-> NoId, type |-> "POINT"]
    /\ outputs = <<>> /\ outputKeys = {} /\ wayEmitted = FALSE
    /\ stored = <<None>>            \* a sentinel has id 0
    /\ nodeStore = KnownNodes /\ wayStore = {} /\ index = {} /\ skipped = {}
-----------------------------------------------------------------------------
(* Starting on an object. *)

\* The function an object of the file goes to, or "none": a native multipolygon is
\* treated as a way.
FunctionFor(o) ==
    LET f == CASE o.kind = "node" -> "node_function"
               [] o.kind = "way" -> "way_function"
               [] o.kind = "relation" /\ o.native -> "way_function"
               [] OTHER -> "relation_function"
    IN  IF f \in LuaFunctions THEN f ELSE "none"

\* mutant: reset() keeps the flags of the cached geometries.
Reset_KeepsCaches ==
    /\ outputs' = <<>> /\ inited' = inited /\ lastStored' = [lastStored EXCEPT !.id = NoId]
    /\ skipped' = {}

\* reset(); the caches, the type stored last, isClosed and outputKeys stay.
Reset ==
    /\ outputs' = <<>> /\ inited' = {} /\ lastStored' = [lastStored EXCEPT !.id = NoId]
    /\ skipped' = {}

\* setNode, setWay, setRelation up to the call of the function.
SetObject ==
    /\ ~running /\ ~crashed /\ next <= Len(handed)
    /\ Reset
    /\ originalOsmID' = Current.id
    /\ isWay' = (Current.kind # "node")
    /\ isRelation' = (Current.kind = "relation")
    /\ isClosed' = CASE Current.kind = "node" -> isClosed
                     [] Current.kind = "way"  -> Current.ring
                     [] OTHER -> Current.native \/ Current.innerOuter
    /\ llVec' = IF Current.kind = "way" THEN Current ELSE Null
    /\ wayVecs' = IF Current.kind = "relation" THEN Current ELSE Null
    /\ wayEmitted' = IF Current.kind = "way" THEN FALSE ELSE wayEmitted
    /\ running' = (FunctionFor(Current) # "none")
    /\ next' = IF FunctionFor(Current) = "none" THEN next + 1 ELSE next
    /\ UNCHANGED <<handed, calls, crashed, cache, outputKeys, stored, kept>>
-----------------------------------------------------------------------------
(* Cached geometries. *)

\* Where each kind is made from.
Source(kind) == IF kind \in {"linestring", "polygon"} THEN llVec ELSE wayVecs

\* linestringCached() and its siblings: the value, and what the fields hold afterwards.
Cached(kind) ==
    IF kind \in inited THEN [value |-> cache[kind], cache |-> cache, inited |-> inited]
    ELSE LET g == Geometry(kind, Source(kind).id)
         IN  [value |-> g, cache |-> [cache EXCEPT ![kind] = g], inited |-> inited \cup {kind}]
Follows(kind) == kind \in inited \/ Source(kind) # Null
KeepCache(c) == cache' = c.cache /\ inited' = c.inited

\* CorrectGeometry(): only the geometries of ways and relations are examined.
CorrectGeometry(kind) == IF kind = "point" THEN "Valid" ELSE Current.validity
-----------------------------------------------------------------------------
(* Writing to a layer. *)

GeomType(area) == IF isRelation THEN (IF area THEN "POLYGON" ELSE "MULTILINESTRING")
                  ELSE IF isWay THEN (IF area THEN "POLYGON" ELSE "LINESTRING") ELSE "POINT"

\* The cached geometry Layer() starts from.
BaseKind(type) == CASE type = "MULTILINESTRING" -> "multilinestring"
                    [] type = "POLYGON" /\ isRelation -> "multipolygon"
                    [] type = "POINT" -> "point"
                    [] OTHER -> "linestring"

Output(type, layer, id, what) ==
    [type |-> type, layer |-> layer, id |-> id, minZoom |-> Layers[layer], zOrder |-> 0,
     attributes |-> <<>>, asked |-> <<>>, what |-> what]
StoreWith(g)   == [ids |-> [store |-> "tiles", id |-> Len(stored)], stored |-> Append(stored, g)]
Lazy(store)    == [ids |-> [store |-> store, id |-> originalOsmID], stored |-> stored]
Emit(s, o)     == outputs' = Append(outputs, o) /\ stored' = s.stored

\* Layer() or LayerAsCentroid() gives up after it has cleared outputKeys.
WritesNothing ==
    /\ skipped' = skipped \cup {Len(outputs)}
    /\ UNCHANGED <<outputs, stored, wayEmitted, lastStored>>

\* A line written twice is stored once.
Reuses(type) == lastStored.id # NoId /\ lastStored.type = type

\* The id Layer() gives, and the store afterwards: nodes and valid ways are left where
\* they are unless geometries are materialized.
LayerTarget(type, c) ==
    CASE type = "POINT" /\ ~MaterializeGeometries -> Lazy("node")
      [] /\ type \in {"LINESTRING", "POLYGON"} /\ ~isRelation
         /\ ~MaterializeGeometries /\ CorrectGeometry("linestring") = "Valid" -> Lazy("way")
      [] OTHER -> StoreWith(IF CorrectGeometry(BaseKind(type)) = "Corrected"
                            THEN [c.value EXCEPT !.kind = "corrected"] ELSE c.value)

Layer(layer, area) ==
    LET type == GeomType(area)
        kind == BaseKind(type)
        c    == IF kind = "point" THEN [value |-> Geometry("point", Current.id), cache |-> cache, inited |-> inited]
                ELSE Cached(kind)
    IN  /\ outputKeys' = {}
        /\ \/ /\ Reuses(type)
              /\ outputs' = Append(outputs, Output(type, layer, lastStored.id, kind))
              /\ UNCHANGED <<geometry, stored, wayEmitted, skipped>>
           \/ /\ ~Reuses(type)
              /\ KeepCache(c)
              /\ IF CorrectGeometry(kind) = "Invalid" THEN WritesNothing
                 ELSE LET s == LayerTarget(type, c)
                      IN  /\ Emit(s, Output(type, layer, s.ids, kind))
                          /\ wayEmitted' = (wayEmitted \/ s.ids.store = "way")
                          /\ lastStored' = IF type \in {"LINESTRING", "MULTILINESTRING"}
                                           THEN [id |-> s.ids, type |-> type] ELSE lastStored
                          /\ UNCHANGED skipped
        /\ UNCHANGED crashed

\* Where LayerAsCentroid() puts the point: what a later look-up can find again stays lazy.
CentroidTarget(algorithm, label, point) ==
    IF \/ MaterializeGeometries
       \/ (isRelation /\ label = 0)
       \/ (isWay /\ algorithm # "centroid")
    THEN StoreWith(point)
    ELSE IF label # 0 THEN [Lazy("node") EXCEPT !.ids.id = label]
    ELSE IF ~isWay THEN Lazy("node") ELSE Lazy("way")

\* LayerAsCentroid(): a member node in the role asked for, or the centroid; a role whose
\* node is not stored, or a relation without a polygon, writes nothing.
LayerAsCentroid(layer, algorithm, role) ==
    LET label == IF isRelation /\ role THEN Current.label ELSE 0
        kind  == IF isRelation THEN "multipolygon" ELSE "linestring"
        c     == Cached(kind)
        point == IF label # 0 THEN Geometry("point", label)
                 ELSE IF isWay THEN Geometry("centroid", c.value.of) ELSE Geometry("point", Current.id)
        fails == IF label # 0 THEN label \notin nodeStore ELSE isRelation /\ Current.validity = "Invalid"
        s     == CentroidTarget(algorithm, label, point)
    IN  /\ outputKeys' = {}
        /\ IF label = 0 /\ isWay THEN KeepCache(c) ELSE UNCHANGED <<cache, inited>>
        /\ IF fails THEN WritesNothing
           ELSE /\ Emit(s, Output("POINT", layer, s.ids, IF label # 0 THEN "label" ELSE IF isWay THEN "centroid" ELSE "point"))
                /\ wayEmitted' = (wayEmitted \/ s.ids.store = "way")
                /\ UNCHANGED <<lastStored, skipped>>
        /\ UNCHANGED crashed
-----------------------------------------------------------------------------
(* Attributes, zooms and the id. *)

\* mutant: the key is noted without removing the value set before.
RemoveAttributeIfNeeded_NotedOnly(attributes, key) == {attributes}

\* removeAttributeIfNeeded(): one pair with the key goes; which one, if there are several,
\* depends on the slots of AttributeStore.
RemoveAttributeIfNeeded(attributes, key) ==
    LET hits == {i \in DOMAIN attributes : attributes[i][1] = key}
    IN  IF key \in outputKeys /\ hits # {} THEN {RemoveAt(attributes, i) : i \in hits} ELSE {attributes}

\* Attribute and its siblings; asked remembers the call for the property below.
Attribute(key, value) ==
    /\ \/ outputs = <<>> /\ UNCHANGED <<outputs, outputKeys>>
       \/ /\ outputs # <<>>
          /\ \E rest \in RemoveAttributeIfNeeded(Last(outputs).attributes, key) :
                outputs' = [outputs EXCEPT ![Len(outputs)].attributes = Append(rest, <<key, value>>),
                                           ![Len(outputs)].asked = Append(@, <<key, value>>)]
          /\ outputKeys' = outputKeys \cup {key}
    /\ UNCHANGED <<crashed, geometry, wayEmitted, stored, skipped>>

\* MinZoom and ZOrder of the output written last.
SetZoom(field, z) ==
    /\ outputs' = IF outputs = <<>> THEN outputs
                  ELSE IF field = "minZoom" THEN [outputs EXCEPT ![Len(outputs)].minZoom = z]
                  ELSE [outputs EXCEPT ![Len(outputs)].zOrder = z]
    /\ UNCHANGED <<crashed, geometry, outputKeys, wayEmitted, stored, skipped>>

\* The geometry a query looks at, in the order in which its conditions are tested.
QueriedKind(query) ==
    LET area == IF isRelation THEN "multipolygon" ELSE "polygon"
    IN  CASE query = "Area"   -> IF isWay /\ isClosed THEN area ELSE "none"
          [] query = "Length" -> IF isWay /\ ~isRelation THEN "linestring" ELSE "none"
          [] OTHER -> IF ~isWay THEN "point" ELSE IF isClosed THEN area
                      ELSE IF query = "FindIntersecting" /\ isRelation THEN "multilinestring" ELSE "linestring"

\* A query may fill a cache; one that follows a null pointer ends the program.
Query(query) ==
    LET kind == QueriedKind(query)
    IN  /\ IF kind \in {"point", "none"} THEN UNCHANGED <<crashed, cache, inited>>
           ELSE IF Follows(kind) THEN KeepCache(Cached(kind)) /\ UNCHANGED crashed
           ELSE crashed' = TRUE /\ UNCHANGED <<cache, inited>>
        /\ UNCHANGED <<lastStored, written>>

\* ModifyId() replaces the id everything after it works with.
Call(c) ==
    /\ running /\ ~crashed /\ calls < MaxCalls
    /\ calls' = calls + 1
    /\ originalOsmID' = IF c.call = "ModifyId" THEN c.id ELSE originalOsmID
    /\ CASE c.call = "Layer"           -> Layer(c.layer, c.area)
         [] c.call = "LayerAsCentroid" -> LayerAsCentroid(c.layer, c.algorithm, c.role)
         [] c.call = "Attribute"       -> Attribute(c.key, c.value)
         [] c.call = "Zoom"            -> SetZoom(c.field, c.z)
         [] c.call = "Query"           -> Query(c.query)
         [] c.call = "ModifyId"        -> UNCHANGED <<crashed, geometry, written>>
    /\ UNCHANGED <<handed, next, running, isWay, isRelation, isClosed, llVec, wayVecs, kept>>
-----------------------------------------------------------------------------
(* The function returns. *)

\* Which tiles addGeometryToIndex() gives an output: only the polygons of a way are filled,
\* a relation is added whole.
TilesFor(o) ==
    IF Current.kind = "way" /\ o.type # "POLYGON" THEN Current.outline
    ELSE IF Current.kind = "relation" /\ ~isClosed THEN Current.outline
    ELSE Current.outline \cup Current.inside

\* finalizeOutputs() and the index; the reader then stores the nodes and ways that were
\* emitted or are needed anyway.
FunctionReturns ==
    /\ running /\ ~crashed
    /\ index' = index \cup {[id |-> originalOsmID, of |-> Current, output |-> outputs[i],
                             skipped |-> i \in skipped, tiles |-> TilesFor(outputs[i])] : i \in DOMAIN outputs}
    /\ nodeStore' = IF Current.kind = "node" /\ (outputs # <<>> \/ Current.used)
                    THEN nodeStore \cup {Current.id} ELSE nodeStore
    /\ wayStore' = IF Current.kind = "way" /\ ((outputs # <<>> /\ wayEmitted) \/ Current.used)
                   THEN wayStore \cup {Current.id} ELSE wayStore
    /\ IF outputs # <<>> /\ isWay
       THEN KeepCache(Cached(IF ~isRelation THEN "linestring" ELSE IF isClosed THEN "multipolygon" ELSE "multilinestring"))
       ELSE UNCHANGED <<cache, inited>>
    /\ running' = FALSE /\ next' = next + 1
    /\ UNCHANGED <<handed, calls, crashed, object, lastStored, written>>

LuaNext == SetObject \/ (\E c \in Calls : Call(c)) \/ FunctionReturns
SpecLua == LuaInit /\ [][LuaNext]_luaVars
-----------------------------------------------------------------------------
(* Looking the geometry up when a tile is written. *)

\* buildNodeGeometry() and buildWayGeometry() of OsmMemTiles, with the stores they read.
\* A way and a node may have the same id, so the store is part of the look-up.
Resolve(o) ==
    CASE o.id.store = "tiles" -> stored[o.id.id + 1]
      [] o.id.store = "node"  -> IF o.id.id \in nodeStore THEN Geometry("point", o.id.id) ELSE None
      [] o.id.store = "way"   -> IF o.id.id \in wayStore
                                 THEN Geometry(IF o.type = "POINT" THEN "centroid" ELSE "linestring", o.id.id) ELSE None

\* What the call that wrote the output was about.
MeantBy(what, source) ==
    IF what = "label" THEN Geometry("point", source.label)
    ELSE Geometry(IF what \notin {"point", "centroid"} /\ source.validity = "Corrected" THEN "corrected" ELSE what,
                  source.id)
Meant(e) == MeantBy(e.output.what, e.of)

\* When tiles are written, every output resolves to the geometry of the object whose
\* function wrote it, in the form the call asked for: not to another object's cached one,
\* not to a way or node the stores do not have (Layer, LayerAsCentroid, reset, setWay's
\* result against OsmMemTiles).
OwnGeometry == \A e \in index : Resolve(e.output) = Meant(e)

\* What was set last for each key.
LastAsked(asked) == {asked[i] : i \in {j \in DOMAIN asked : \A k \in DOMAIN asked : k > j => asked[k][1] # asked[j][1]}}

\* The value of an attribute is the one set last for its key on that output, each key is
\* there once, and nothing else is there; only an output after which a Layer call wrote
\* nothing may have a key twice, for that call makes the keys set before it forgotten
\* (removeAttributeIfNeeded, outputKeys).
AttributesAsAsked ==
    \A e \in index :
        /\ LastAsked(e.output.asked) \subseteq Range(e.output.attributes)
        /\ ~e.skipped => /\ Range(e.output.attributes) = LastAsked(e.output.asked)
                         /\ Len(e.output.attributes) = Cardinality(LastAsked(e.output.asked))
-----------------------------------------------------------------------------
(* The strengthening that makes both inductive. *)

IsSeq(s) == s \in Seq(Range(s))

\* A node and a way can be given another id only where nothing is looked up by it.
LuaAssumption ==
    /\ \A f \in Files : IsSeq(f) /\ \A i \in DOMAIN f : f[i].kind \in {"node", "way", "relation"}
    /\ \A c \in Calls : c.call \in {"Layer", "LayerAsCentroid", "Attribute", "Zoom", "Query", "ModifyId"}
    /\ MaterializeGeometries \/ \A c \in Calls : c.call # "ModifyId"

\* What is known of an id before the function returns: it leads to a geometry that is
\* stored, to a node that is, or to the current object, which will be.
WillResolve(type, id, what) ==
    \/ /\ id.store = "tiles" /\ id.id \in Nat /\ id.id < Len(stored)
       /\ stored[id.id + 1] = MeantBy(what, Current)
    \/ id.store = "node" /\ what = "label" /\ id.id = Current.label /\ id.id \in nodeStore
    \/ id.store = "node" /\ what = "point" /\ id.id = Current.id /\ Current.kind = "node"
    \/ /\ id.store = "way" /\ id.id = Current.id /\ Current.kind = "way" /\ wayEmitted
       /\ IF type = "POINT" THEN what = "centroid" ELSE what = "linestring" /\ Current.validity # "Corrected"

ObjectSet ==
    /\ next <= Len(handed)
    /\ isWay = (Current.kind # "node") /\ isRelation = (Current.kind = "relation")
    /\ llVec = (IF Current.kind = "way" THEN Current ELSE Null)
    /\ wayVecs = (IF Current.kind = "relation" THEN Current ELSE Null)
    /\ MaterializeGeometries \/ originalOsmID = Current.id
    /\ \A k \in inited : cache[k] = Geometry(k, Source(k).id)
    /\ \A i \in DOMAIN outputs : WillResolve(outputs[i].type, outputs[i].id, outputs[i].what)
    /\ lastStored.id # NoId => /\ lastStored.type \in {"LINESTRING", "MULTILINESTRING"}
                               /\ WillResolve(lastStored.type, lastStored.id, BaseKind(lastStored.type))

Settled(e) ==
    /\ \/ e.output.id.store = "tiles" /\ e.output.id.id \in Nat /\ e.output.id.id < Len(stored)
       \/ e.output.id.store = "node" /\ e.output.id.id \in nodeStore
       \/ e.output.id.store = "way" /\ e.output.id.id \in wayStore
    /\ Resolve(e.output) = Meant(e)

OutputFields == {"type", "layer", "id", "minZoom", "zOrder", "attributes", "asked", "what"}

LuaTypeOK ==
    /\ handed \in Files /\ next \in Nat \ {0} /\ running \in BOOLEAN
    /\ DOMAIN cache = CacheKinds /\ inited \subseteq CacheKinds
    /\ DOMAIN lastStored = {"id", "type"}
    /\ IsSeq(stored) /\ IsSeq(outputs) /\ \A i \in DOMAIN outputs : DOMAIN outputs[i] = OutputFields

GeometryInv == LuaTypeOK /\ (running => ObjectSet) /\ \A e \in index : Settled(e)

\* The attributes of an output, after a Layer call that wrote nothing or not.
AttributesKept(o, after) ==
    /\ IsSeq(o.attributes) /\ IsSeq(o.asked) /\ LastAsked(o.asked) \subseteq Range(o.attributes)
    /\ ~after => Range(o.attributes) = LastAsked(o.asked) /\ IsInjective(o.attributes)

KeysOf(asked) == {asked[i][1] : i \in DOMAIN asked}

AttributesInv ==
    /\ \A i \in DOMAIN outputs : AttributesKept(outputs[i], i \in skipped)
    /\ \A e \in index : AttributesKept(e.output, e.skipped)
    /\ outputs # <<>> /\ Len(outputs) \notin skipped =>
         outputKeys = KeysOf(Last(outputs).asked)
=============================================================================
