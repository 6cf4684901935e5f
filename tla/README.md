# tilemaker in TLA+

A verification development for tilemaker (wdr-data/tilemaker): TLA+ modules
translated from the C++ sources, TLC configurations that check them on small
instances, and TLAPS proofs of the results that should hold for every instance.
`PROJECT.json` maps each definition to the lines it models and lists runs,
mutants, hazards, findings and theorems.

    tlc -config OsmInput.cfg MCOsmInput            # one run
    tlapm SortedStoreProofs.tla                    # one module of proofs

## 1. The system

tilemaker reads an `.osm.pbf` file (and shapefiles, GeoJSON), hands every object
to a Lua script that decides on layers and attributes, and writes vector tiles to
an `.mbtiles` or `.pmtiles` file. A Python package, `wdr_tiles`, builds the inputs
and runs tilemaker several times to make a product.

One process, one main thread, and a pool of threads that is made anew for each
pass and joined at its end. What makes it hard is that everything is done in
bulk: locks are avoided rather than held (thread-local buffers, `try_lock` with
lists of pending work, caches that are read without a lock), memory is packed by
hand, and an object that falls through a gap between two passes is missing from
the map without any error.

### 1.1 Inventory

| Component | State | Operations | Used by / uses | What is hard | What makes it correct |
|---|---|---|---|---|---|
| **Sorted node and way stores: ingestion** (`sorted_node_store.cpp`, `sorted_way_store.cpp`) | per thread: worker buffer, `groupStart`, `collectingOrphans`; shared: orphanage, groups, totals | `batchStart`, `insert`/`insertNodes`, `finalize` | called by the threads of PbfProcessor | batches begin and end inside groups; which thread takes which batch is arbitrary | a group is published once and whole; nothing is lost |
| **Sorted stores: layout and lookup** | groups, chunks, masks, offsets; per thread the last decoded chunk | `publishGroup`, `at`, `contains`, `encodeWay`, `decodeWay` | called by Lua callbacks and by the assembly of geometries | space is computed in one pass and filled in another; bit masks, alignment, codecs, escape cases | what was inserted is read back, and nothing else; the computed space is the space used |
| **PBF passes** (`pbf_processor.cpp`, `sharded_*_store.cpp`) | map of blocks, phase, shard, tasks, used ways/nodes/relations | `ReadPbfFile`, `ReadBlock`, `Scan*`, `Read*` | drives the stores and Lua | binary search for type boundaries, erasing blocks that others still need, shards, subdivided blocks | every object reaches Lua once, with its whole geometry |
| **Used ways** (`osm_store.h`) | a bit list | `insert`, `at`, `clear`, `reserve` | scan phases, Nodes, Ways | growth by hand | a way is used exactly if it was marked |
| **Relation geometries** (`osm_store.cpp`) | maps of first and last points, the lines so far | `mergeMultiPolygonWays` | ReadRelations | a fixpoint loop over two maps that must agree; missing and repeated members | each way once, joined where it meets; rings close; the loop ends |
| **MBTiles output** (`mbtiles.cpp`, `tile_worker.cpp`) | table, mutex, two lists of pending statements | `saveTile`, `flushPendingStatements`, `readTileAndUncompress`, `closeForWriting` | called by `outputProc` in the pool | who writes a tile is decided by a `try_lock`; the holder may leave just before a push | every tile is written once, with the right content, by the end |
| **PMTiles output** (`pmtiles.cpp`) | file, index, cache of tiny tiles, directories | `saveTile`, `close` | called by `outputProc` | three critical sections per tile; runs and leaf directories | a reader finds exactly what was saved |
| **Attribute stores** (`attribute_store.cpp`, `deque_map.h`) | key, pair and set stores, hot shard, thread-local copies and caches | `addAttribute`, `key2index`, `addPair`, `finalize`, `add`, `getUnsafe` | Lua callbacks, output | reads without a lock while others append; one index per set whatever the order of its attributes | an index always means what it was given for, to every thread |
| **Tile index** (`tile_data.cpp`, `osm_mem_tiles.cpp`, `leased_store.h`, `append_vector.h`, `tile_coordinates_set.cpp`, `coordinates_geom.cpp`) | objects by cluster, large objects, pending objects, leases of geometry stores | `store*`, `addGeometryToIndex`, `addObjectToSmallIndex`, `finalize`, collection of tiles and of a tile's objects | Lua callbacks, then output | contended objects go to thread-local lists; sorted ranges searched at every zoom; IDs that encode a leased store | an object is in the tiles it covers, once; every tile that has something is written |
| **Relation scan store, roles** (`osm_store.h`, `relation_roles.cpp`) | memberships, tags, roles | `scanRelation`, `relation_contains_*`, `postScanRelations`, `relations_for_relation_with_parents` | PBF passes, Lua | `operator[]` inserts while others read; relations that contain each other | roles and tags are those of the file; all ancestors are listed, and the walk ends |
| **Main loop and tile worker** (`tilemaker.cpp`, `tile_worker.cpp`, `clip_cache.h`) | ordered list of tiles, batches, clip cache, `signalStop` | batches, `outputProc`, `ProcessLayer`, `ProcessObjects`, `buildWayGeometry` | tile index, encoder, the two writers | batch borders; merging of neighbours; a shared cache that is emptied wholesale; a plain `bool` as a stop signal | every tile once, with all of its features and nothing else |
| **Vector tile encoding** (`tile_worker.cpp`, `vtzero`, `protozero`) | layer builder with key and value tables, feature builder, open messages | `add_linestring`, `set_point`, `add_ring`, `add_property`, `commit`, `rollback`, `serialize`, and the decoder | tile worker | counts announced before the points; rollback; lengths written afterwards; two kinds of table | the tile reads back as what was given |
| **Shapefile and GeoJSON input** (`shp_processor.cpp`, `geojson_processor.cpp`, `shp_mem_tiles.cpp`) | shapes, their R-tree, bits refined lazily | reading of features, `StoreGeometry`, `mayIntersect`, queries | Lua callbacks | several threads write bits of one word; a layer's minimum zoom passed by reference | no shape is missed; a feature shows from its own zoom |
| **Lua processing** (`osm_lua_processing.cpp`) | current object, cached geometries, last stored geometry, outputs and their attributes | `setNode`, `setWay`, `setRelation`, the Lua API | PBF passes, tile index, attribute store | calls in any order, on one object after the other, in fields that are reused | an output shows its own object's geometry, with the attributes last given |
| **Build pipeline** (`python/wdr_tiles`) | files, sidecars, `.part` files, locks, build records; pools of worker processes | commands, `reusable`, `workspace`, `publish`, `download`, `write_masks`, `index_polygons`, `repair_overviews` | runs tilemaker, osmium, tile-join | kills between steps; inputs that change while a tool runs; two pipelines on shared inputs; results in any order | a file is what its record says; nothing is overwritten; the candidate is current |
| **Others**: PBF decoding, binary-search stores, floating-point geometry, allocator, options, tile server, profiles, vendored libraries | | | | | listed in `PROJECT.json` with the reason they are left out |

### 1.2 How the components meet

`main` reads the PBF file in passes (`ReadPbfFile`). In the scan phases the pool's
threads mark what is used and remember memberships; in Nodes they put nodes into
the node store, in Ways they put ways into the way store and call Lua, in
Relations they assemble geometries from both and call Lua. Lua's calls store
geometries, attributes and output objects in the tile index. Shapefiles and GeoJSON
fill an index of their own, which Lua asks. Then `main` lists the tiles that have
something, sorts them and cuts them into batches; a pool calls `outputProc` on each
tile, which collects, clips, merges and encodes its features and saves it through
one of the two writers; `main` closes the writer. Around all this a Python pipeline
prepares the inputs, runs tilemaker once per region and merges the results. The
models meet at the same places:

* `PbfPhases` treats the stores as sets of IDs; that a sorted store is one, in
  spite of threads, batches and orphans, is `GroupedIndex`, and `SortedStore` is
  shown to implement it. That a published group really answers lookups is
  `NodeChunks` and `WayChunks`. It instantiates `UsedWays` for the marks that the
  scan phases make.
* `AttributeStore` is built on `DequeMap`, `TileIndex` on `AppendVector` and
  `TileCovering`, `VectorTile` on `WireFormat`.
* `TileArchive` is what a writer promises to `main`; `MbtilesWriter` and
  `PmtilesWriter` are both shown to implement it.
* What one part promises is the input of the next: `TileIndex` shows that a tile
  gets all its objects, `TileOutput` starts from the objects of a tile and shows
  which features come out, `VectorTile` starts from features and shows that the
  bytes say the same, and the writers keep the bytes.

## 2. Modules

| Module | Models | Concerned with |
|---|---|---|
| `GroupedIndex` | abstract: an index that grows by whole groups and is complete when closed | - |
| `SortedStore` | `batchStart`, `insert`/`insertNodes`, `finalize` of both sorted stores | threads × batches × groups |
| `SortedStoreProofs` | invariance, consequences, refinement of `GroupedIndex` | every instance |
| `Packing` | masks of chunks, zigzag-delta and streamvbyte codes, shared by the next two | data |
| `NodeChunks` | `SortedNodeStore::publishGroup`, `at`, `contains` | memory layout |
| `WayChunks` | `encodeWay`, `decodeWay`, `SortedWayStore::publishGroup`, `at`, `contains` | memory layout |
| `UsedWays` | class `UsedWays` | a bit list |
| `PbfPhases` | `PbfProcessor` | phases, shards, pool, blocks |
| `RelationScan` | `RelationScanStore`, `RelationRoles`, `scanRelation`, `postScanRelations` | threads, nesting, lookups that insert |
| `OsmInputProofs` | of `RelationScan`: memberships, ancestors, tags; of `PbfPhases`: objects are called once | every file, every number of threads |
| `MergeWays` | `OSMStore::mergeMultiPolygonWays` | an algorithm, step by step |
| `LuaProcessing` | `OsmLuaProcessing` | any sequence of calls on successive objects |
| `LuaProcessingProofs` | own geometry, attributes last set | every object, every script |
| `DequeMap`, `AttributeStore` | `deque_map.h`; the key, pair and set stores | threads, copies without locks |
| `AppendVector`, `TileCovering` | `append_vector.h`; covering of lines and boxes by tiles | data |
| `TileIndex` | `TileDataSource`, `LeasedStore`, tile coordinate sets | pools, leases, contended locks, look-ups |
| `TileIndexProofs` | IDs resolve, a lease is always to be had | every pool, every geometry |
| `ShapeSource` | `ShpProcessor`, `GeoJSONProcessor`, `ShpMemTiles` | threads that refine shared bits |
| `TileOutput` | the output part of `main`, `outputProc`, `ProcessLayer`, `ProcessObjects`, `buildWayGeometry`, `ClipCache` | batches, order, merging, clipping |
| `TileOutputProofs` | the list of tiles, batches, each tile written once | every set of tiles, every number of threads |
| `WireFormat`, `VectorTile` | protozero and vtzero as `tile_worker.cpp` uses them, and the writing of geometries | call by call, to bytes and back |
| `TileArchive` | abstract: tiles are written one by one and all are there at the end | - |
| `MbtilesWriter` | `MBTiles`, the parts of `outputProc` and `main` that call it | threads, mutex, pending lists |
| `PmtilesWriter` | `PMTiles::saveTile`, `close`, and a reader of the result | threads, directories |
| `ArchiveProofs` | both writers: invariance, refinement of `TileArchive`; a reader of `.pmtiles` finds what was saved | every thread, tileset, file, directory size |
| `BuildPipeline` | commands, records, reuse, download and its curls, publication of `wdr_tiles` | concurrent pipelines, kills, changing inputs, inodes that two names share |
| `WorkerPools` | the three loops over process pools | results in any order, failure |
| `PipelineProofs` | both of these: no overwriting, true records, current candidates, results in place | every command, process, number of jobs |
| `Induction` | lemmas: induction over a set, least and greatest elements, iterating and folding a function, counting, powers of two | used by the proofs |
| `MCOsmInput`, `MCObjects`, `MCTiles`, `MCShared` | the instances that the runs check: reading OpenStreetMap data; what becomes of an object; writing tiles; what several writers share | - |

An `MC` module composes the models of neighbouring parts into one instance:
a variable `which`, chosen at the start, says whose behaviour is followed, and
the other parts keep their first values. A run is the disjoint union of the
parts' behaviours: it checks each part under its own interleavings. What
connects the parts is stated in 1.2; the components are not interleaved with each
other, because in the program they run in different phases, separated by the
joining of a pool.

Operators whose name has an underscore and follows a `mutant:` comment are
plausible bugs. They are used by nothing in the specifications: `PROJECT.json`
names, for every property of every passing run, the mutant that breaks it.

### SortedStore

IDs are `0..`, a group is `Span` consecutive IDs, and the sorted file is cut into
batches in order. Threads take batches in order from the pool's queue
(`BatchStart`) and read them element by element (`PushSameGroup`,
`LeaveOrphanMode`, `PublishAndPush`). Until a thread first crosses a group
border it collects orphans: it cannot know whether the group began in an earlier
batch. From then on it owns whole groups. `batchStart` sends the group a thread
has in hand to the orphanage, where `finalize` puts the pieces together. One
model stands for both stores: `total` is `totalNodes`/`totalWays`, and `local` is
`localNodes`/`localWays`. The two differ in how they allocate the thread's buffer
and mark its start; both steps are kept.

### NodeChunks, WayChunks, Packing

Addresses and sizes are kept, contents are cells: a value of *n* bytes takes one
cell and *n*-1 pads, so that a layout that is off by one reads a pad. Widths are
constants: `ByteBits`, `IntBytes`, `MaskBytes` and the bit fields shrink so that all
boundaries (a full chunk, a size that does not fit its field, an ID beyond the low
bits, a signed difference that wraps) are reached with a few IDs.
Publication is one action (it is sequential and touches one group); lookups, with
the per-thread cache of a decoded chunk, are actions of their own in `NodeChunks`
because their order matters.

### PbfPhases

A file is a sequence of blocks of groups of objects, plus the options it is read
with. `StartPass` does what `ReadPbfFile` does before posting tasks (metadata,
skipping, subdividing, cutting into ranges); `TakeRange` and `ReadBlock` are a
thread's steps; `Join` and `NextPass` end a pass. What the tag filters and the
Lua script answer is a field of each object, so that every combination that the
files of the run contain is explored and none is assumed.

### MergeWays

The three loops of `mergeMultiPolygonWays`, one way per step: collecting
(`SkipDone`, `SkipMissing`, `AddAsIs`, `NoteEnds`), joining (`Extend`,
`NextLine`, `EndRound`) and starting a new line (`Seed`). The choice of `begin()` of an
unordered map is `\E`.

### MbtilesWriter

`saveTile` is split at the points where another thread can notice:
`SaveDirectly` (`try_lock` succeeded), `TryLockFails` and `SaveLater` (m may be
free again when the tile is pushed), `FlushOne` and `SwapPending` of
`flushPendingStatements`. With `--merge`, `readTileAndUncompress` comes first and
takes m twice, to count (`CountExisting`) and to read (`SelectExisting`). Pending
lists are sets, since a tile occurs once. SQLite is external: a table with a unique
index, where INSERT fails on an existing row.

What comes from outside is fixed at the start, in `opening`: the file that is merged
into, its layers, configured or not, which of its tiles are compressed otherwise
than the configuration says, and for each tile after how many layers `SIGUSR1`
breaks the loop (`upTo`; since every thread resets `signalStop` when it begins a
tile, any tiles may be cut short and others not). A tile that does not decompress is
not an empty one: `readTileAndUncompress` returns false, which nobody looks at, after
`decompress_string` has appended to the data what it had (`helpers.cpp:140`), and the
search for the first layer in these bytes throws (`NotATile`). The file is
then not closed. Only if a signal comes before the first layer is the tile replaced
silently. Tiles outside the bounding box are passed over.

### PmtilesWriter

`LookUp`, `WriteTile` and `IndexTile` are the critical sections of `saveTile`;
`AddTile` is one turn of the loop of `close`. Offsets are positions in a sequence
of blobs. An input is the tiles, the order in which main hands them out and the
threads of the pool. A reader (`GetTile`) follows root and leaf directories as the
vendored header does: `FindTile` is its binary search, one round of which is
`Narrowed`; compression and the bytes of directories are left out.

### RelationScan

Threads scan relations (`task` is one thread's place in a relation: accepted,
then one member after the other, the role looked up before it is stored), main
post-scans them, and `TagsForRelation` is what the later pass gives to
`relation_function` or `way_function`. Maps that `operator[]` extends are kept
as functions whose domain grows with each lookup, since `has_relation_tags` asks
about the domain. `WithParents` is the walk over ancestors with its stack, one round
of which is `Visit`. The numbering of popular roles follows the order that
compilers choose for `popularRoles[s] = popularRoles.size()` (size first).

### LuaProcessing

A thread is handed two objects one after the other; on each, the script makes
up to `MaxCalls` calls of any kind in any order. Fields keep their names;
a geometry is named by the object and the kind it was made for, so that a cache
that survives, a stored geometry of another kind, or an ID that means another
object later on (`USE_NODE_STORE`, `USE_WAY_STORE`) is visible as the wrong name.
Whether a geometry is valid, can be corrected or is dropped is a field of the
object. `removeAttributeIfNeeded` takes off the first pair with the key it meets in an
array whose slots are reused: the model leaves open which that is, should there be
several.

### AttributeStore, DequeMap

A `DequeMap` is the entries in order of addition and the sorted indices beside them,
searched as the code does; it is a template over `operator<`, and `AttributeStore`
instantiates it twice, for pairs and for sets. `key2index` is split where it reads
without the lock: the size is published (`keys2indexSize`) before the name is
appended, and a thread's copy may be refreshed in between. Adding a pair takes the
thread's copy of the hot shard, a refreshed copy, the hot shard, or another shard,
as the code does. `FinalizeSet` sorts; sets are short or become vectors. As in the
program the hot shard has as many places as a short has values (`HotCapacity`,
`ShortRange`); a short is signed, so `ValueAt` reads the upper half of them back as
other indices, as the code does.

### TileIndex, AppendVector, TileCovering

Two pools run one after the other. A thread takes a geometry, stores it in a shard
that it leases at first use and returns when it ends, and then makes the index
entries one by one; each tries a mutex and goes to the thread's pending list when
another thread holds it. `Finalize` drains the lists and sorts. The look-ups (by
zoom, by cluster, by key ranges, clamped zooms for large objects) are operators
that the invariants apply once the index is final: they are compared with the
tiles that each geometry's entries were made for.

### ShapeSource

A shape is the set of tiles of the index it meets. Reading is two steps (attributes
under the mutex, then geometry), since the layer's minimum zoom is shared by
reference in between. A file may have shapes that set `_minzoom` and shapes that do
not, in any order and with two threads. A question walks the tiles of its box; the
exact test and the write of its outcome are two steps, and a write to a word of
packed bits may undo another thread's write to it.

### TileOutput

The world is a line rather than a plane: a tile has two children, a geometry is a
set of segments, clipping is intersection with an interval that has a margin. This
keeps what the properties are about (which tiles are listed, in which order, in
which batch; which objects are in a tile; which are merged; which clip is reused
from which parent) and leaves out what is geometry proper. A tile that only touches
the box of the configuration is listed and then passed over by `outputProc`
(`PassedOver`); the box of the input file has no such effect
(`ClippingBoxFromJSON`). `UserSignal` is `SIGUSR1`.

### WireFormat, VectorTile

Bytes have the base `VarintBase`, so that lengths need several bytes at once, and
`ReserveBytes` are kept free for the length of an open message as protozero does.
Every call of `tile_worker.cpp` on a builder is a step; the contract of vtzero (its
assertions and exceptions) sets `raised`. In the second round the tile of the first
is the existing tile that `--merge` copies. The decoder is vtzero's reader.

### BuildPipeline, WorkerPools

A file is known by its stamp, and carries what it was really made from: the
stamps its tool read from the beginning of its run to its end. A process runs a
command, a list of steps; a step looks for a reusable output, takes its record,
works in a private directory, takes the record again and publishes by linking.
At any point a process may be killed and started again, and an input, the code or an
output be replaced by the operator, also between `os.link` and the reading of its
identity for the sidecar. Two processes have different output directories, hence
different locks, and share the inputs and the extract. What is still to be published
of a step is the set of positions in its list of outputs, taken in order.

A download is three things: the name `.part`, inodes with their pieces, and curls,
each a process of its own. `Download` starts a curl; it looks at the size of the
`.part` file (`CurlLooks`), opens what then has that name (`CurlOpens`) and from then
on keeps the inode (`CurlWrites`), whatever happens to the name and to the command:
a curl outlives a command that is killed. `Verify` (the digest), `LinkOriginal` and
`UnlinkPart` are three steps, between which any curl may write; a write to an inode
that was linked changes the published file. curl is external; that it resumes
behind the size it found, and begins anew when there is no file, is its
`--continue-at -`.

`meddled` records the files that two actors had in hand at a time: a download for
which a curl was started while another one ran or a command was between the digest and
the unlinking of `.part`; a download the operator replaced; and a file the operator put
in the place of one that was linked and not yet in its sidecar. For these the code
promises nothing, and the properties say so where they need it; for all others they
are stated without a condition.

`WorkerPools` has the loops of `indexing.py` (in order of submission), `closing.py`
(in order of completion, spooled) and `tile_repair.py` (as they come, in one
transaction); any set of jobs may fail.

## 3. Runs

Four runs pass; between them they take every action. Numbers are distinct states.

| Run | States | Shows | Bounds, and why they are enough |
|---|---|---|---|
| `osm_input` | 196,831 | every object once to Lua, geometry complete, nothing skipped, the passes end; memberships, ancestors and tags as in the file; ways joined, rings closed, the joining ends; stores filled without an exception, groups whole when published, nothing lost, refinement of `GroupedIndex`, `finalize` is reached; nodes and ways read back, and within their memory | 2 threads; one sorted file cut into blocks in all 64 ways, so that each type boundary is everywhere the binary searches can look; unsorted, with locations, with a missing node and enforced integrity, with three shards of which one is empty. Five relations: two that contain each other, a parent of one of them, one not accepted, a multipolygon; popular and rare roles. All choices of ends of up to 4 ways over 3 points, listed in four ways. Filling: 3 threads, 4 batches, 10 IDs with gaps in 5 groups: a batch border inside a group, on a border, a batch within one group and one that spans three (the proof covers the rest). 8 node IDs in two shards in all ways up to exchanging the shards (`InS1First`), 3 kinds of positions (compressible, a length that does not fit its bits, not worth compressing), two groups whose chunks have equal numbers. Up to 4 ways of 8 kinds in three chunks and two groups, and 3 kinds that `encodeWay` refuses |
| `objects` | 828,562 | an output shows its own object, attributes are the last given; a tile gets all of its objects once, every tile with something is listed, stored IDs resolve; no shape is missed, own minimum zoom | all pairs of 7 objects (a node and a way with one ID, rings and open ways, invalid and corrected geometries, native and other relations), 4 calls out of 10. 5 geometries of every kind on 8 × 8 tiles in 2 × 2 clusters, one beyond the southern edge; pools of 2 and 1 threads, 2 mutexes. A shapefile, one with a line in two parts that sets `_minzoom`, and GeoJSON with a feature that does; 3 questions, 4 askings by 2 threads. The first two threads are interchangeable |
| `tiles` | 257,162 | each wanted tile written once, with exactly what lies in it; no builder contract is broken and tiles read back; output ends; both writers implement `TileArchive`; all written at the end, a merge keeps what was there; a `.pmtiles` reads back, with right totals and directories | 4 objects of 2 sources in 2 layers at zooms 0 to 2, a tile that is listed and passed over, polygons and lines that are merged below the last zoom, a cache of one entry per shard, 2 threads, one signal. All pairs of 5 rounds of up to 3 objects of all types, with repeated points, parts too small to draw, holes, shared keys; tables of 2 entries before the switch. 3 threads, 4 tiles of which two differ only in the row and one is outside the box; a new file, one with a layer that is not configured and a tile cut short by a signal, one with a tile compressed otherwise (the proof covers the rest). 3 threads over 4 tiles with equal contents, a cache of one entry; and all tilesets over 7 IDs with a leaf size of 2, so that runs, gaps, borders and leftovers fall everywhere |
| `shared` | 1,346,184 | a record is true of its file, a completed run's files are current, nothing is overwritten; results of pools are taken once and in place; sets of attributes read back, one index per set | two pipelines, the whole build in one directory and the commands that share files in another. Alone, the first is started three times and one thing goes wrong (a replacement, a kill, a tool or curl that fails), or twice and two do; together, each is started once and one thing goes wrong (`Bounds`, `MaxTroubles`); downloads of two pieces. 5 jobs, 2 workers, every set of failing jobs. 2 threads that store two and one sets out of three lists of attributes that share pairs, in different orders, hot and cold, a list of a thread differing from its last (`ListsBound`); a hot shard of 4 places for a short of 4 values: the sentinel, a pair a short can name, two of the upper half, and one pair more than fits |

`CHECK_DEADLOCK FALSE` is used where a part really stops: the chunk models
publish once, an exception of `encodeWay` or a failed cell ends the program, a
script returns, a pipeline ends. That stores, passes, output and archives do end is
asked by the liveness properties instead.

Eight runs show where the code does not do what the repository says; TLC finds
each property violated:

| Run | Property | What the trace shows |
|---|---|---|
| `relations_repeated` | `CalledOnce` | with shards and a single block of relations, the block is subdivided again on the second shard and relations are written once per thread |
| `used_ways` | `MarkedAreUsed` | a way whose ID equals the size of the list is marked beyond its end and forgotten when the list grows |
| `relations_tags` | `TagsKept` | a multipolygon that is a member of an accepted relation is visited by the post-scan, which makes an empty entry for its tags; it is then read without tags |
| `shapes_aliased` | `NoShapeMissed` | `z6x * CLUSTER_ZOOM + z6y` gives two clusters one bit vector: refining a tile of one clears the bit of a tile of the other |
| `attributes_hot` | `HotPairsReachable` | as in the program, the hot shard has as many places as a short has values: a hot pair of its upper half is stored in a signed short and read back under another index |
| `shapes_zoom` | `MinZoomOfEach` | a shape that sets `_minzoom` writes it into the layer, by reference: shapes that set none show from it too |
| `archives_merge` | `MergeAdds` | a tile of the file that is merged into loses a layer that is not configured; one that a signal cuts short loses the layers after it |
| `pipeline_sidecars` | `StampedOutputs` | killed between `os.link` and the sidecar, `publish` leaves a file that the next run refuses |

Three properties of passing runs are these promises as far as they hold, and their
instances contain the cases in which the promises fail: `OwnMinZoom` excepts shapes of a
file that sets `_minzoom`, `MergeKeeps` the layers that are not configured and tiles cut
short, `SetsReadBack` sets with a hot pair of the upper half in a short. The other
passing instances stay clear of the cases above (no such member, shapes of one cluster,
several blocks of relations with shards, IDs below the size of the list), so that
what else the properties say is checked.

### Other differences between code and documentation

They have no run of their own. The models contain the behaviour. The last two happen
in the run `shared`, whose properties except the files concerned by name; the instances
of the passing runs avoid the others.

* Accepted relations in a block whose string table lacks "multipolygon" never
  reach `relation_function` (`pbf_processor.cpp:282`; docs/RELATIONS.md:59).
* `isClosed` compares iterators (`osm_store.cpp:17`), so a closed way that touches
  the end of an open one is spliced into it, though the comment at `:117` says it is
  added as it is.
* `LayerAsCentroid` of a polygon's label point: an output that is not a polygon is
  put into the index at the tiles of the polygon's outline rather than of the point
  (`tile_data.cpp:500`), so a label outside these tiles is not shown.
* `encodeWay` accepts 2000 nodes; streamvbyte may then need 500 + 4 × 1999 = 8496
  bytes in a buffer of 8192.
* With LocationsOnWays a way is not bound to a shard, so with `--shard-stores` every
  pass over a non-empty shard writes it again.
* Two downloads of one file at a time, of two pipelines or of one that was killed
  and its curl was not, share the `.part` file. What is linked as the original
  (`setup.py:197`) need not be what the digest was computed of (`:193`): the name may by
  then be another inode, or a curl that still has the inode open writes to it, before or
  after it is published, although the command "verifies each original against its
  published MD5" (docs/WDR-TILESETS.md:49). A later command that needs the original
  computes the digest again and refuses it. `CandidateCurrent` and
  `NothingOverwritten` except these downloads (`meddled`).
* A file that is put at a destination between `os.link` and `file_record(destination)`
  (`state.py:81`, `:86`) is filed under inputs it was not made from; `RecordTrue` excepts
  it.

## 4. Fairness

Liveness is checked under weak fairness of each thread's next step and of the
main thread's: the operating system schedules runnable threads, and no thread
waits for a condition that others may disable for ever.

* `SortedStore`, `PbfPhases`: pool threads run their tasks to the end; `join`
  returns when they have; `finalize` and the passes are sequential code of main.
* `MbtilesWriter`: a `std::mutex` is not fair. Weak fairness of a waiting thread
  is enough, since each tile takes the mutex finitely often and there are
  finitely many.
* `MergeWays`: sequential code, weak fairness of `Next`.
* `TileOutput`: the threads of the pool; nothing is assumed of signals.

No strong fairness is used anywhere. In an `MC` module the fairness is that of the
part concerned, and conditional on it (`which`): what is fair of the step of a part that
was not chosen asks nothing. The liveness properties of a run are those of the
components under the same condition: `PassesEnd` and `JoiningEnds` begin with the choice
of the part, `StoresFinalized`, `TilesFinish` and `ArchiveCloses` are `EventuallyFinalized`,
`EventuallyFinished` and `EventuallyClosed` in the behaviours that are theirs.
The pipeline has no liveness property: a tool may run for ever, and a kill or a
changed input may end any command.

## 5. Proofs

The proof modules extend the specifications that TLC checks, with no definition
replaced. Each names its assumptions on the constants; TLC evaluates them for every
instance that is run. The inductive invariants stand at the end of the modules
they are about and were checked by TLC on the instances of the runs before they were
proved.

`Induction` is what makes results about data of any size possible. The library's
induction theorems take an operator as a parameter, which the provers cannot
instantiate; its lemmas take sets and functions instead: a set of naturals with 0 and
the successors of its elements has them all (`SetInduction`), a function can be
iterated any number of times (`RecursionExists`) and folded over any finite set
(`FoldExists`). A claim about all inputs of a search, a walk or a fold is then the
claim that a set of numbers of rounds is `Nat`. The laws of powers of two come from
counting subsets (`PowerNext`, `PowerSum`).

### SortedStoreProofs

For any finite set of IDs, any sorted cut into batches, any group size and any
number of threads within the store's capacity (`InputAssumption`,
`SpanAssumption`, `CapacityAssumption`):

* `Invariance`: `Spec => []IInv`
* `NeverThrows`: `publishGroup` never throws
* `GroupsAreWhole`: a published group has all the IDs of the file in its range
* `NothingLost`: at the end every ID is published
* `Refinement`: `SortedStore` implements `GroupedIndex`

`PublishedWhole` is not inductive: to know that a thread which publishes a group
holds all of it one must know where all of its IDs are. `IInv` says so:
each ID is in at most one place (`OnePlace`) and every ID of a batch that was
taken is in some place (`Accounted`); orphans are filed under their group
(`Filed`); a thread has read a prefix of its batch (`TodoIsSuffix`); what it
holds is of one group (`LocalOneGroup`), everything of it from its batch so far
(`WholeSoFar`), and once it has left orphan mode the group began in this very
batch (`OrphanMode`). So when it crosses the border, the file being sorted, no
other thread can have a piece. `PhaseOrder` and `TotalCounts` carry this
through `finalize`.

### ArchiveProofs

The MBTiles writer, for any pool, any set of tiles, any content and any file opened
(`WriterAssumption`: the main thread is not of the pool; a file that is not merged
into is empty; coordinates are naturals):

* `Invariance`: `Spec => []IInv`
* `NeverThrows`: no INSERT meets a row that exists
* `NothingLeftPending`: when `closeForWriting` has returned, every tile is in the
  file with its own content
* `Refinement`: `MbtilesWriter` implements `TileArchive`
* `MergingKeeps`: a file that is closed after merging has all it had in the configured
  layers of every tile that no signal cut short, and all it had in the tiles outside
  the box

`IInv` says that a tile is in one place (the queue, a thread, one of the two
lists) until it is written (`OnePlace`), that the file has the old content
until then and the final content afterwards (`WrittenOrNot`), that what threads
and lists carry was computed from the old content (`DataCurrent`), and that main
flushes alone and its second round finds nothing (`Flushing`, `Closing`).
`m` does not occur in it: in the code the mutex is what makes writing a statement and
taking it off the list one step (`FlushOne`), and given that, nothing else depends on
who holds it. The lemma
`RowInjective` (no two tiles share a row) is what makes one write change one tile.

No assumption is made of the layers of the file, of its compression or of signals: what
they destroy is in the model (`Merged`, `NotATile`), and the theorem says what is left. A
tile that does not decompress ends the program before the file is closed
(`SelectExisting`), or is one that a signal cut short before its first layer. Between the
two turns of m in `readTileAndUncompress` others may write, but not this tile
(`OnePlace`), so what is counted is what is read.

The PMTiles writer, for any threads, any tiles in any order, any content and any sizes of leaf
directories and of the cache (`SizesAssumption`, `InputsAssumption`: each tile is handed
out once):

* `SavingInvariance`: `SpecPmtiles => []SaveInv`
* `PmtilesRefinement`: `PmtilesWriter` implements `TileArchive`
* `ClosingInvariance`: `SpecPmtiles => []PmtilesInv`
* `ReadersFindTiles`: a reader finds each tile that was saved with its data and no other,
  the header's totals agree, and there are leaves only where needed

`SaveInv` has each tile in one place, as in the MBTiles writer, and each offset
leading to the data it was noted for: in a thread's hands, in the index, and in the
cache of tiny tiles. That is what matters between the three critical sections: two
threads may both miss the cache and write the same data twice, and whichever offset
stays is right. `CloseInv` says of the directories in progress that their entries cover
exactly the tiles added (`Within`, `DirectoriesHold`), in an order in which everything
behind an entry, the leaf it points to included, comes before the next
(`Ordered`, `Before`), and counts them (`DirectoriesSized`). The order of leaves
is needed, not only that of entries: the reader searches the root for the last entry
at or before the ID and goes into that leaf only. That the search returns this entry
is proved by induction on its rounds.

### OsmInputProofs

The relation scan, for any relations with distinct IDs, any roles and any threads
(`RelationsAssumption`, `MembersAssumption`):

* `ScanningInvariance`: `SpecScan => []ScanInv`
* `MembershipsFound`: from the end of the scan on, a member's list has each accepted
  relation once per membership, with the role of the file
* `WalkInvariance`: `SpecScan => []WalkInv`
* `AncestorsFound`: the post-scan lists exactly the ancestors of a relation
* `TagsInvariance`: `SpecScan => []TagsInv`
* `TagsAreKept`: a relation that is written has the tags of the file, with the name
  its ancestors gave it, if no relation whose tags are not scanned is a member of an
  accepted one

`ScanInv` counts: for each relation, member and role, the entries of the list are as
many as the memberships its thread has added (`MembershipsAdded`). Roles are
numbers whose meaning is only ever added to, also between a thread's look-up of a
role and its entry (`TasksHold`). The post-scan inserts empty lists by looking;
that these do not disturb what is read is proved by induction on the rounds of
the walk.

`Ancestor` is the least set closed under taking parents, whatever the walk does. What
the walk lists is closed when nothing is left open, and each round takes
something off: the model's bound on its rounds is the number of all members, so
`WalkInv` counts the entries of the lists against the members added
(`EntriesCounted`) and says that each is true (`EntriesTrue`). Cycles need no case
of their own. `TagsHold` relates the tag store to what was scanned and what
the post-scan has given so far. `ScannedMembers` is a hypothesis of `TagsAreKept`
because the code does not keep tags without it (`relations_tags`).

The passes over a file, for any files, threads and batches (`ConfigAssumption`,
`FilesAssumption`: an object of a type and an ID is in a file once):

* `OneShardInvariance`: `Spec => [](Shards = 1 => OneShardInv)`
* `ObjectsCalledOnce`: `Spec => [](Shards = 1 => CalledOnce)`

With several shards `CalledOnce` is false (`relations_repeated`); `Shards = 1` is how
tilemaker runs unless `--shard-stores` is given. `OneShardInv` says that the entries
of the map of blocks are different blocks, or different chunks of one
(`BlocksApart`), that no two tasks have an entry in common and none has one that was
erased (`TasksApart`), and that nothing was called for of what is still to be read
(`CallsFresh`), which is true when a pass begins because each type has one
phase. The lemmas below it are about the order of blocks (`AscendingLists`: as many
ranks as numbers), the cutting into batches (`RangesApart`), the division into chunks
(`SubdividedApart`: quotient and remainder) and the objects of chunks
(`PartsApart`).

### LuaProcessingProofs

For any objects and any sequence of calls (`LuaAssumption`: kinds and calls are those
that exist, and `ModifyId` is not called unless geometries are materialized; see
section 6):

* `GeometryInvariance`: `SpecLua => []GeometryInv`
* `GeometriesAreOwn`: every output resolves to its own object's geometry, in the
  form the call asked for
* `AttributesAreLast`: an output has for each key the value last set, once

`OwnGeometry` speaks of outputs in the index, when the script has returned and the
stores have the object. Before that an output may refer to a way that is not yet in
the way store: `WillResolve` says what is known of an ID while the script runs,
and `ObjectSet` that caches and the last stored geometry, which outlive a call, belong
to the current object. For attributes `AttributesInv` relates `outputKeys` to the
last output: the set of keys is what decides whether an old value is looked for, and
a `Layer` call that writes nothing empties it while the old output is still the last.
The property excludes just these outputs.

### TileIndexProofs

For any pools of finitely many threads, no pool larger than the number of
shards (`TileIndexAssumption`), and any geometries fewer than the offsets of an ID
(`CapacityAssumption`, which no line of the code tests: 34 bits less those of the
shard):

* `IdsInvariance`: `Spec => []IdsInv`
* `EveryIdResolves`: an object's ID leads to the geometry it was made of, and a thread
  that needs a shard gets one

A geometry is stored in two steps, reading the size of the shard and appending.
`IdsInv` says that a shard is available or one running thread's own (`LeasesHold`), so
that the size stays what was read (`StoringHolds`). Shards on the stack and
threads with a lease add up to the number of shards; hence a thread without one finds
the stack non-empty. The sizes are bounded by the geometries stored (`ShardsBounded`),
which keeps offsets out of the shard's bits.

### TileOutputProofs

For any tiles that are marked, any zooms, any clipping box, of the configuration or of
the input, any number of threads and weight of a batch (`TilesAssumption`: a tile is a
whole number of cells):

* `PoolInvariance`: `Spec => []PoolInv`
* `TilesAreWrittenOnce`: `Spec => []TilesWrittenOnce`

The list of tiles is sorted by a fold of insertions; that it has each tile once is
proved by induction over the fold, for any order in which the set is taken. The
tiles that are left out because their cluster is outside the clipping box are outside
themselves: a cluster's box contains those of its tiles, which is arithmetic of powers
of two. A batch is at least one tile and ends within the list (`BatchSize`).
`PoolInv` says of the pool that the places threads hold are disjoint, and that what
was handed out and is held by nobody is saved, once, unless it is passed over
(`SavedOnce`, `PassedOverStays`).

### PipelineProofs

For any processes, directories and commands made of the steps
(`CommandsAssumption`), and any number of jobs and workers (`PoolsAssumption`):

* `TypeCorrect`: `SpecPipeline => []TypeOK`
* `NeverOverwrites`: no command and no curl changes a file that exists, unless it is a
  download that two commands had in hand, and then no other file takes its name
* `PipelineInvariance`: `SpecPipeline => []PipelineInv`
* `RecordsAreTrue`: a file whose record is accepted was made from what the record says,
  unless it was put in the place of one between `os.link` and its sidecar
* `CandidatesAreCurrent`: after an undisturbed run everything is made from
  what is there now, down to whole downloads, but for the same exceptions
* `ResultsTakenInPlace`: the loops over pools take each result once and in its place,
  whatever set of jobs fails

`RecordTrue` needs to know, before a file is published, that what its tool saw of each
input from beginning to end is the one stamp in the record. Stamps only grow, so
a record that is the same before and after bounds everything seen in between
(`RecordHolds`). `CalmCurrent` says for a process that was not disturbed that the
outputs of its steps so far, also those that it found and did not make, are made from
what is there. `DownloadsInv` says of a download that is not meddled with that at most
one is in progress (`Live`), that a command's curl is its own and has returned before the
`.part` file is looked at (`OwnCurl`), that what was checked is still what the name
stands for, and that nobody has what was linked open for writing (`DownloadWhole`). That a
second curl is not excluded by any lock is why all this is conditional: `Download` puts
the file into `meddled` when another download of it is live, and this may happen at any
time. In the pools a job is in one stage (`OneStage`), what is
written is a beginning of the input (`WrittenInOrder`), and the pool is full while
there is work (`PoolFull`): this makes an empty pool mean the end.

### Only model-checked

* Liveness under fairness (`EventuallyFinalized`, `PassesEnd`, `JoiningEnds`,
  `EventuallyFinished`, `EventuallyClosed`): out of the provers' reach.
* `PbfPhases`: `GeometryComplete` and `NothingSkipped`. They are not true of every file,
  since the list of used ways may forget one (`used_ways`); for files whose way IDs
  avoid that they need what the binary searches for type boundaries find.
  `CalledOnce` for several shards and files without relations.
* `MergeWays`: `WaysJoined`, about lines that are reversed and concatenated.
* `TileIndex`: `EveryTileComplete` and `NoTileForgotten`, which need the covering of
  geometries by tiles, the sort by quadrants and the search in it, iterator by iterator.
* `TileOutput`: `FeaturesExact`, about what a chain of merges and clippings leaves.
* `AttributeStore`: sets sorted by a fold, searched in a `DequeMap`.
* Codecs and layouts (`Packing`, `NodeChunks`, `WayChunks`, `WireFormat`, `VectorTile`)
  and `ShapeSource`: arithmetic of bits and of bytes.

## 6. What is not modelled, and why

* Floating-point geometry (simplification, repair of polygons, placing of inner
  rings, label points, projections): out of reach of TLC. `TileOutput` has clipping
  in one dimension; `TileCovering` has lines and boxes between integer positions only, so
  lines that cut a tile at a fraction of its side are not in it.
* The `catch` of `std::out_of_range` around the building of a geometry
  (`tile_worker.cpp:348`), which drops the feature: with IDs that resolve (`IdsResolve`) it
  is not reached.
* Parsing (PBF, JSON, shapefiles, command line), compression: no state beyond the
  current item.
* Lua scripts: arbitrary; sequences of calls in `LuaProcessing`, answers of filters
  in `PbfPhases`. Of the API, the store of a script's own data, the values of queries
  and iterating over relations are left out. `ModifyId` is in the model and not
  among the calls of the run: without `--materialize-geometries` an output then refers
  to the store by the new ID, as listed below.
* The binary-search stores, the allocator, the tile server: no decision of their own
  that the rest depends on.
* Several input files read one after the other (`UsedObjects::clear`).
* A digest or the identity of a file is read in one step, although both take time: a
  writer that is fast enough to come in between changes what is computed, which the
  model has as the write before or after it. The `.md5` files, downloaded in the same
  way without a checksum, are left out.
* Of the pipeline: static data, the work inside native tools, `disjoint` and the
  repair of overview tiles as data, previews.

### Hazards without a property

`PROJECT.json` lists the hazards that the models reach. These were met too, and
no model has them:

* `sorted_node_store.cpp:65`: `reopen` leaves the calling thread's `cachedChunk`;
  it is called before anything was decoded.
* `pbf_processor.cpp:603`: a division by the number of blocks, which may be zero.
* `osm_store.cpp:55`: `UsedObjects::clear` empties the list of chunks, which `set`
  and `test` of a second input file index without growing it.
* `relation_roles.cpp:30`: `popularRoles[s] = popularRoles.size()`, whose order of
  evaluation C++14 leaves open; `RelationScan` takes the value first.
* `osm_lua_processing.cpp`: `ModifyId` before a `Layer` call changes which node the
  output refers to (`:928`); `Intersects` and its like test `!isClosed` before
  `isRelation` (`:415`); `FindInRelation` outside of `NextRelation` (`:1019`);
  `GetData` searches a map without the lock of `SetData` (`:207`).
* `deque_map.h:38`: a NaN breaks the order that is searched by.
* `coordinates_geom.cpp:120`: lines are walked over whole tiles, so a tile that is
  only cut at a corner may be left out.
* `append_vector.h:33`: the block number of an iterator has 16 bits.
* `tile_data.cpp:464`: the sort leaves out the OSM ID, which the removal of
  duplicates compares.
* `shp_mem_tiles.cpp:111`: every candidate is fetched as a multipolygon.
* `tile_worker.cpp:358`: the geometry of a feature to merge is built outside the
  `try` of the first.
* `tilemaker.cpp:131`, `:147`: `numeric_limits<double>::min()` as the least
  longitude, and a clipping flag that is read when the header has not set it.
* `pipeline.py:232`: hashes of tools are not taken again after they ran.

## 7. Plan

Done: the stores, the passes over the file, the relation scan, the assembly of
relations, Lua's calls, attributes, the tile index, shapes, tile output, encoding,
both writers, the build pipeline; the proofs of the sorted store, of both writers, of
the memberships, ancestors and tags of relations, of the calls for the objects of a
file, of Lua's geometries and attributes, of the IDs of stored geometries, of the output
of tiles, of the build pipeline and of its pools. Next:

1. Proofs: each way is in one line for `MergeWays`; `NothingSkipped` for one shard
   and suitable way IDs in `PbfPhases`; that no index entry is lost between
   `try_lock`, the pending lists and `Finalize` in `TileIndex`; `OwnMinZoom` for
   `ShapeSource`.
2. Several input files in `PbfPhases`; the composition of `TileOutput` with the
   writers through `TileArchive`.
