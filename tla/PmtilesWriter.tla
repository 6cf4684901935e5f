--------------------------- MODULE PmtilesWriter ----------------------------
(***************************************************************************)
(* Writing tiles to a .pmtiles file: PMTiles (src/src/pmtiles.cpp), and    *)
(* looking them up again the way a reader of the format does.              *)
(*                                                                         *)
(* saveTile() takes two mutexes in turn, never both: it looks for a tiny   *)
(* tile's data in a cache (indexMutex), else compresses and appends it to  *)
(* the file (fileMutex), then files its offset under the tile's ID and     *)
(* offers it to the cache (indexMutex).  close() turns the index into a    *)
(* root directory and, for large tilesets, leaf directories, with runs of  *)
(* tiles that share an offset as one entry.                                *)
(*                                                                         *)
(* A tile is its Hilbert ID.  The file is the sequence of the blobs        *)
(* appended to it; an offset is a position in it.                          *)
(***************************************************************************)
EXTENDS Integers, Sequences, FiniteSets, FiniteSetsExt, SequencesExt

CONSTANTS
  SaveThreads,
  Ids,                  \* the IDs a reader may ask for, 0..n
  Inputs,               \* what is tried: records [tiles, order, pool] of a function
                        \* from tiles to data, the order of tileCoordinates, and the
                        \* threads that write them
  Tiny,                 \* the data shorter than TINY_LENGTH
  FIRST_LEAF_TILE,      \* 1365 = z6/0/0
  LEAF_DIRECTORY_SIZE,  \* entries in a leaf directory
  ROOT_ONLY,            \* entries below which there are no leaf directories
  TINY_MAX_SIZE         \* size of the cache at which it is cleared

ASSUME SizesAssumption ==
  /\ {FIRST_LEAF_TILE, LEAF_DIRECTORY_SIZE, ROOT_ONLY, TINY_MAX_SIZE} \subseteq Nat
  /\ LEAF_DIRECTORY_SIZE > 0
  /\ Ids \subseteq Nat

(* tileCoordinates has every tile once.                                    *)
ASSUME InputsAssumption ==
  \A in \in Inputs :
    /\ DOMAIN in.tiles \subseteq Nat /\ in.tiles = [t \in DOMAIN in.tiles |-> in.tiles[t]]
    /\ in.pool \subseteq SaveThreads
    /\ in.order \in Seq(Nat) /\ ToSet(in.order) = DOMAIN in.tiles
    /\ \A i, j \in DOMAIN in.order : in.order[i] = in.order[j] => i = j

VARIABLES
  data,       \* data[t]: the serialized tile t (the input)
  pool,       \* the threads
  tileQueue,  \* tiles not yet taken
  place, curTile, offset,  \* each thread's place, tile, and offset of its data
  file,       \* the blobs written
  tinyCache,  \* offsets of tiny data
  index,      \* sparseIndex / denseIndex
  numTilesAddressed, numTilesWritten,
  closing,    \* "no", "yes" while close() runs, "done"
  dirs        \* its directories: root, leaves, the entries of the next leaf,
              \* numTileEntries, and the IDs still to be added

pmtilesVars == <<data, pool, tileQueue, place, curTile, offset, file, tinyCache, index,
          numTilesAddressed, numTilesWritten, closing, dirs>>
saving == <<data, pool, tileQueue, place, curTile, offset, file, tinyCache, index,
            numTilesAddressed, numTilesWritten>>

pmtilesClosed == closing = "done"

-----------------------------------------------------------------------------
(* Directories: sequences of entries [id, offset, run], run = 0 for a leaf.*)

\* mutant: tiles that share data are joined though others lie between them
Continues_AnyId(entries, id, off) == entries # <<>> /\ Last(entries).offset = off

(* The tile continues the run at the end of the directory. *)
Continues(entries, id, off) ==
  /\ entries # <<>>
  /\ Last(entries).offset = off
  /\ Last(entries).id = id - Last(entries).run

(* appendWithRLE *)
AppendWithRLE(entries, id, off) ==
  IF Continues(entries, id, off)
  THEN [entries EXCEPT ![Len(entries)].run = @ + 1]
  ELSE Append(entries, [id |-> id, offset |-> off, run |-> 1])

(* flushEntries: write a leaf, and point to it from the root. *)
FlushEntries(d) ==
  IF d.entries = <<>> THEN d
  ELSE [d EXCEPT !.leaves = Append(@, d.entries),
                 !.root = Append(@, [id |-> d.entries[1].id, offset |-> Len(d.leaves), run |-> 0]),
                 !.entries = <<>>]

(* appendTileEntry: low zooms belong in the root, others in a leaf. *)
AppendTileEntry(d, id) ==
  LET into == IF id < FIRST_LEAF_TILE THEN "root" ELSE "entries"
      longer == AppendWithRLE(d[into], id, index[id])
      e == [d EXCEPT ![into] = longer,
                     !.count = IF Len(longer) > Len(d[into]) THEN @ + 1 ELSE @]
  IN  IF Len(e.entries) >= LEAF_DIRECTORY_SIZE THEN FlushEntries(e) ELSE e

(* What is left when all tiles are in. *)
LastEntries(d) ==
  IF d.count < ROOT_ONLY THEN [d EXCEPT !.root = @ \o d.entries, !.entries = <<>>]
  ELSE FlushEntries(d)

-----------------------------------------------------------------------------
(* The reader (include/external/pmtiles.hpp): find_tile is a binary search *)
(* for the last entry that starts at or before the tile.                   *)

NotFound == [id |-> 0, offset |-> -1, run |-> 0]

(* One round: the entries lo..hi are left; none are when the tile's own is *)
(* found at hi.                                                            *)
Narrowed(entries, id, s) ==
  LET k == (s.lo + s.hi) \div 2
  IN  CASE s.lo > s.hi -> s
        [] s.lo <= s.hi /\ id > entries[k].id -> [lo |-> k + 1, hi |-> s.hi]
        [] s.lo <= s.hi /\ id < entries[k].id -> [lo |-> s.lo, hi |-> k - 1]
        [] s.lo <= s.hi /\ id = entries[k].id -> [lo |-> k + 1, hi |-> k]

FindTile(entries, id) ==
  LET N == Len(entries)
      after[n \in 0..N] == IF n = 0 THEN [lo |-> 1, hi |-> N] ELSE Narrowed(entries, id, after[n - 1])
      k == after[N].hi
  IN  IF k > 0 /\ (entries[k].run = 0 \/ id - entries[k].id < entries[k].run)
      THEN entries[k] ELSE NotFound

(* get_tile follows a leaf pointer; the answer is an offset or -1. *)
GetTile(id) ==
  LET e == FindTile(dirs.root, id)
  IN  IF e # NotFound /\ e.run = 0
      THEN FindTile(dirs.leaves[e.offset + 1], id).offset
      ELSE e.offset

-----------------------------------------------------------------------------
InitPmtiles ==
  /\ \E in \in Inputs : data = in.tiles /\ tileQueue = in.order /\ pool = in.pool
  /\ place = [p \in SaveThreads |-> "idle"]
  /\ curTile = [p \in SaveThreads |-> -1]
  /\ offset = [p \in SaveThreads |-> -1]
  /\ file = <<>>
  /\ tinyCache = <<>>
  /\ index = <<>>
  /\ numTilesAddressed = 0 /\ numTilesWritten = 0
  /\ closing = "no"
  /\ dirs = [root |-> <<>>, leaves |-> <<>>, entries |-> <<>>, count |-> 0, todo |-> {}]

(* saveTile begins. *)
TakeTileId(p) ==
  /\ p \in pool /\ place[p] = "idle" /\ tileQueue # <<>>
  /\ curTile' = [curTile EXCEPT ![p] = Head(tileQueue)]
  /\ tileQueue' = Tail(tileQueue)
  /\ place' = [place EXCEPT ![p] = "lookup"]
  /\ UNCHANGED <<data, pool, offset, file, tinyCache, index, numTilesAddressed, numTilesWritten, closing, dirs>>

(* First critical section of indexMutex: tiny data may be in the cache. *)
LookUp(p) ==
  /\ place[p] = "lookup"
  /\ LET x == data[curTile[p]]
         hit == x \in Tiny /\ x \in DOMAIN tinyCache
     IN  /\ place' = [place EXCEPT ![p] = IF hit THEN "reuse" ELSE "write"]
         /\ offset' = [offset EXCEPT ![p] = IF hit THEN tinyCache[x] ELSE -1]
  /\ UNCHANGED <<data, pool, tileQueue, curTile, file, tinyCache, index, numTilesAddressed, numTilesWritten, closing, dirs>>

\* mutant: tiles that are being written by others are not counted
WriteOffset_Indexed(p) == Cardinality(DOMAIN index)
WriteOffset(p) == Len(file)

(* Critical section of fileMutex: append the data. *)
WriteTile(p) ==
  /\ place[p] = "write"
  /\ offset' = [offset EXCEPT ![p] = WriteOffset(p)]
  /\ file' = Append(file, data[curTile[p]])
  /\ numTilesWritten' = numTilesWritten + 1
  /\ place' = [place EXCEPT ![p] = "new"]
  /\ UNCHANGED <<data, pool, tileQueue, curTile, tinyCache, index, numTilesAddressed, closing, dirs>>

(* The cache after insert({x, off}), which keeps an entry that exists. *)
TinyCacheWith(x, off) ==
  LET old == IF Cardinality(DOMAIN tinyCache) > TINY_MAX_SIZE THEN <<>> ELSE tinyCache
  IN  [y \in DOMAIN old \cup {x} |-> IF y \in DOMAIN old THEN old[y] ELSE off]

(* Second critical section of indexMutex. *)
IndexTile(p) ==
  /\ place[p] \in {"reuse", "new"}
  /\ numTilesAddressed' = numTilesAddressed + 1
  /\ index' = [t \in DOMAIN index \cup {curTile[p]} |-> IF t = curTile[p] THEN offset[p] ELSE index[t]]
  /\ tinyCache' = IF place[p] = "new" /\ data[curTile[p]] \in Tiny
                  THEN TinyCacheWith(data[curTile[p]], offset[p]) ELSE tinyCache
  /\ place' = [place EXCEPT ![p] = "idle"]
  /\ UNCHANGED <<data, pool, tileQueue, curTile, offset, file, numTilesWritten, closing, dirs>>

(* pool.join() returns and main calls close(), which goes through the      *)
(* tiles in the order of their IDs.                                        *)
BeginClose ==
  /\ closing = "no" /\ tileQueue = <<>> /\ \A p \in SaveThreads : place[p] = "idle"
  /\ closing' = "yes"
  /\ dirs' = [dirs EXCEPT !.todo = DOMAIN index]
  /\ UNCHANGED saving

AddTile ==
  /\ closing = "yes" /\ dirs.todo # {}
  /\ dirs' = [AppendTileEntry(dirs, Min(dirs.todo)) EXCEPT !.todo = @ \ {Min(dirs.todo)}]
  /\ UNCHANGED <<saving, closing>>

EndClose ==
  /\ closing = "yes" /\ dirs.todo = {}
  /\ dirs' = LastEntries(dirs)
  /\ closing' = "done"
  /\ UNCHANGED saving

Close == BeginClose \/ AddTile \/ EndClose

PmtilesDone == pmtilesClosed /\ UNCHANGED pmtilesVars

ThreadStep(p) == TakeTileId(p) \/ LookUp(p) \/ WriteTile(p) \/ IndexTile(p)
NextPmtiles == (\E p \in SaveThreads : ThreadStep(p)) \/ Close \/ PmtilesDone

SpecPmtiles == InitPmtiles /\ [][NextPmtiles]_pmtilesVars

-----------------------------------------------------------------------------

(* A reader of the closed file finds under every ID the data of that tile, *)
(* or nothing if there is no such tile: run lengths, leaf boundaries, and  *)
(* offsets shared through the cache never mix tiles up.                    *)
ReadsBack ==
  pmtilesClosed => \A id \in Ids :
    IF id \in DOMAIN data THEN GetTile(id) + 1 \in DOMAIN file /\ file[GetTile(id) + 1] = data[id]
    ELSE GetTile(id) = -1

(* The tiles that the entries for tiles begin with. *)
StartsIn(es) == {es[i].id : i \in {j \in DOMAIN es : es[j].run > 0}}
Starts(d) == StartsIn(d.root) \cup StartsIn(d.entries) \cup UNION {StartsIn(d.leaves[k]) : k \in DOMAIN d.leaves}

(* The totals in the header agree with the directories. *)
HeaderCounts ==
  pmtilesClosed => /\ numTilesAddressed = Cardinality(DOMAIN data)
                   /\ dirs.count = Cardinality(Starts(dirs)) /\ dirs.entries = <<>>

(* Small tilesets have no leaf directories, so readers need one request;   *)
(* and no leaf has more than its share.                                    *)
LeavesOnlyWhenLarge ==
  pmtilesClosed =>
    /\ dirs.count < ROOT_ONLY /\ dirs.count < LEAF_DIRECTORY_SIZE => dirs.leaves = <<>>
    /\ \A i \in DOMAIN dirs.leaves : Len(dirs.leaves[i]) <= LEAF_DIRECTORY_SIZE

(* A reader of the closed .pmtiles finds exactly the tiles that were       *)
(* saved, under their IDs; the totals in the header agree with the         *)
(* directories, and leaves are used only where they must be                *)
(* (PMTiles::saveTile, close, appendWithRLE, flushEntries).                *)
PmtilesReadBack == ReadsBack /\ HeaderCounts /\ LeavesOnlyWhenLarge

(* The file as the index finds it. *)
PmtilesArchive == INSTANCE TileArchive WITH
             content <- data, closed <- pmtilesClosed,
             archive <- [t \in DOMAIN data |-> IF t \in DOMAIN index THEN file[index[t] + 1] ELSE "none"]

(* saveTile keeps the promise of an archive: a tile appears once, with its *)
(* own data, and is never changed.                                         *)
PmtilesImplementsArchive == PmtilesArchive!Spec
-----------------------------------------------------------------------------
(* The strengthening that makes the properties inductive: while tiles are  *)
(* saved.                                                                  *)

Busy == {p \in SaveThreads : place[p] # "idle"}
Carried == {curTile[p] : p \in Busy}

(* The data x was written at offset off. *)
Written(off, x) == off \in Nat /\ off + 1 \in DOMAIN file /\ file[off + 1] = x

SaveTypeOK ==
  /\ DOMAIN data \subseteq Nat /\ data = [t \in DOMAIN data |-> data[t]]
  /\ tileQueue \in Seq(Nat)
  /\ place \in [SaveThreads -> {"idle", "lookup", "write", "reuse", "new"}]
  /\ curTile \in [SaveThreads -> Int] /\ offset \in [SaveThreads -> Int]
  /\ file \in Seq({data[t] : t \in DOMAIN data})
  /\ closing \in {"no", "yes", "done"}

(* A tile is in the queue, with one thread, or in the index. *)
TilesInOnePlace ==
  /\ ToSet(tileQueue) \cup Carried \cup DOMAIN index = DOMAIN data
  /\ \A i, j \in DOMAIN tileQueue : tileQueue[i] = tileQueue[j] => i = j
  /\ ToSet(tileQueue) \cap (Carried \cup DOMAIN index) = {} /\ Carried \cap DOMAIN index = {}
  /\ \A p, q \in Busy : curTile[p] = curTile[q] => p = q

OffsetsPoint ==
  /\ \A p \in SaveThreads : place[p] \in {"reuse", "new"} => Written(offset[p], data[curTile[p]])
  /\ \A t \in DOMAIN index : Written(index[t], data[t])
  /\ \A x \in DOMAIN tinyCache : Written(tinyCache[x], x)

SaveInv ==
  /\ SaveTypeOK /\ TilesInOnePlace /\ OffsetsPoint
  /\ IsFiniteSet(DOMAIN index) /\ numTilesAddressed = Cardinality(DOMAIN index)
  /\ closing # "no" => tileQueue = <<>> /\ Busy = {}

(* And while directories are made, from the index ix. *)

Entry == [id : Nat, offset : Nat, run : Nat]
Directories == [root : Seq(Entry), leaves : Seq(Seq(Entry)), entries : Seq(Entry), count : Nat, todo : SUBSET Nat]

Covers(e, x) == e.id <= x /\ x < e.id + e.run
Listed(es, x) == \E i \in DOMAIN es : Covers(es[i], x)
OnlyTiles(es) == \A i \in DOMAIN es : es[i].run > 0

(* The tiles of a directory are among S, with their offsets. *)
Within(ix, es, S) ==
  \A i \in DOMAIN es : \A x \in Nat : Covers(es[i], x) => x \in S /\ ix[x] = es[i].offset

(* The tiles of the entry, or of the leaf it points to, lie before x. *)
Before(leaves, e, x) ==
  /\ e.id < x /\ e.id + e.run <= x
  /\ e.run = 0 => \A m \in DOMAIN leaves[e.offset + 1] :
       leaves[e.offset + 1][m].id + leaves[e.offset + 1][m].run <= x

Ordered(leaves, es) == \A i, j \in DOMAIN es : i < j => Before(leaves, es[i], es[j].id)

PointsToLeaf(leaves, e) == e.offset + 1 \in DOMAIN leaves /\ leaves[e.offset + 1][1].id = e.id

(* The root has the tiles of low and points to every leaf; leaves, and the *)
(* entries of the next one, have tiles of high.                            *)
RootHolds(ix, d, low) ==
  /\ Within(ix, d.root, low) /\ Ordered(d.leaves, d.root)
  /\ \A i \in DOMAIN d.root : d.root[i].run = 0 => PointsToLeaf(d.leaves, d.root[i])
  /\ \A k \in DOMAIN d.leaves : \E i \in DOMAIN d.root : d.root[i].run = 0 /\ d.root[i].offset + 1 = k

LeafHolds(ix, leaves, leaf, high) ==
  Within(ix, leaf, high) /\ Ordered(leaves, leaf) /\ OnlyTiles(leaf)

(* The tiles that were added are in the directories, each where a search   *)
(* for it comes out.                                                       *)
DirectoriesHold(ix, d, low) ==
  LET done == DOMAIN ix \ d.todo
      high == {x \in done : x >= FIRST_LEAF_TILE}
  IN  /\ \A x \in done, y \in d.todo : x < y
      /\ RootHolds(ix, d, low)
      /\ LeafHolds(ix, d.leaves, d.entries, high)
      /\ \A k \in DOMAIN d.leaves : d.leaves[k] # <<>> /\ LeafHolds(ix, d.leaves, d.leaves[k], high)
      /\ \A i \in DOMAIN d.root, j \in DOMAIN d.entries : Before(d.leaves, d.root[i], d.entries[j].id)
      /\ \A x \in done :
           Listed(d.root, x) \/ Listed(d.entries, x) \/ \E k \in DOMAIN d.leaves : Listed(d.leaves[k], x)

(* Sizes of directories, and the number of entries for tiles. *)
DirectoriesSized(d) ==
  /\ Len(d.entries) <= d.count
  /\ d.leaves # <<>> => d.count >= LEAF_DIRECTORY_SIZE \/ d.count >= ROOT_ONLY
  /\ \A k \in DOMAIN d.leaves : Len(d.leaves[k]) <= LEAF_DIRECTORY_SIZE
  /\ IsFiniteSet(Starts(d)) /\ d.count = Cardinality(Starts(d))

Low(ix, d) == {x \in DOMAIN ix \ d.todo : x < FIRST_LEAF_TILE}

CloseInv ==
  /\ closing = "no" => dirs = [root |-> <<>>, leaves |-> <<>>, entries |-> <<>>, count |-> 0, todo |-> {}]
  /\ closing # "no" => dirs \in Directories /\ dirs.todo \subseteq DOMAIN index /\ DirectoriesSized(dirs)
  /\ closing = "yes" => /\ DirectoriesHold(index, dirs, Low(index, dirs))
                        /\ Len(dirs.entries) < LEAF_DIRECTORY_SIZE
  /\ pmtilesClosed => /\ DirectoriesHold(index, dirs, DOMAIN index)
                      /\ dirs.todo = {} /\ dirs.entries = <<>>

PmtilesInv == SaveInv /\ CloseInv
=============================================================================
