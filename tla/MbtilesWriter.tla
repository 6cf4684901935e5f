--------------------------- MODULE MbtilesWriter ----------------------------
(***************************************************************************)
(* Writing tiles to an .mbtiles file: MBTiles (src/src/mbtiles.cpp), the   *)
(* part of outputProc (src/src/tile_worker.cpp) that calls it, and the end *)
(* of main (src/src/tilemaker.cpp).                                        *)
(*                                                                         *)
(* A thread that finds the database mutex m taken leaves its tile in       *)
(* pendingStatements1; whoever holds m writes its own tile, then what      *)
(* others have left, swapping the two lists so that it reads the second    *)
(* without holding up threads that push to the first.  closeForWriting     *)
(* writes the rest.                                                        *)
(*                                                                         *)
(* A tile is a record [z, x, y]; its content is a set of features, each a  *)
(* record [layer, name].  Tiles appear once in tileCoordinates, so a list  *)
(* of pending statements is a set here, popped in any order.               *)
(*                                                                         *)
(* What comes from outside is fixed at the start, in opening: the file     *)
(* that is merged into, which of its tiles are compressed otherwise than   *)
(* the configuration says, and, for each tile, how many layers are         *)
(* processed before SIGUSR1 breaks the loop over them; as every thread     *)
(* resets signalStop when it begins a tile, any tiles may be cut short     *)
(* while others are not.                                                   *)
(***************************************************************************)
EXTENDS Integers, Sequences, FiniteSets

CONSTANTS
  Threads,    \* the pool
  Main,       \* the main thread
  None,       \* no thread, no tile
  Tiles,      \* tileCoordinates
  Features,   \* Features[t]: what the sources have for t
  Openings,   \* what may be met: records [merge, tiles, otherwise, upTo]
  LayerNames, \* the layers of the configuration, in their order
  OutsideBox  \* tiles outside the bounding box of the configuration

Procs == Threads \cup {Main}

VARIABLES
  opening,    \* merge: --merge or not; tiles: what the file has for each, or None;
              \* otherwise: those compressed otherwise; upTo: layers processed of each
  queue,      \* tiles whose output has not begun
  pc,         \* where each thread is
  cur,        \* the tile each thread is working on
  old,        \* rawExistingTile
  iter,       \* the loop counter i of flushPendingStatements
  m,          \* who holds the mutex m
  pending1, pending2,  \* pendingStatements1, 2: records [tile, data]
  db,         \* the table tiles, by row
  closed,     \* closeForWriting has returned
  thrown      \* the exception that ended the program, if not "nothing"

vars == <<opening, queue, pc, cur, old, iter, m, pending1, pending2, db, closed, thrown>>

mergeSqlite == opening.merge
Existing(t) == opening.tiles[t]

-----------------------------------------------------------------------------

(* MBTiles rows count from the south. *)
Row(t) == [zoom |-> t.z, column |-> t.x, row |-> 2^t.z - 1 - t.y]

ASSUME WriterAssumption ==
  /\ Main \notin Threads /\ None \notin Procs /\ None \notin Tiles
  /\ Tiles \subseteq [z : Nat, x : Nat, y : Nat]
  /\ OutsideBox \subseteq Tiles
  /\ \A o \in Openings : o.merge \in BOOLEAN /\ o.upTo \in [Tiles -> 0..Len(LayerNames)]
  /\ \A o \in Openings : \A t \in Tiles : o.tiles[t] # None => o.merge

FirstLayers(n) == {LayerNames[i] : i \in 1..n}

\* mutant: the existing tile is replaced
Merged_NewOnly(t, rawExistingTile) == {f \in Features[t] : f.layer \in FirstLayers(opening.upTo[t])}

(* ProcessLayer copies the features of the existing tile and adds the new  *)
(* ones, layer by layer of the configuration, until a signal breaks the    *)
(* loop.                                                                   *)
Merged(t, rawExistingTile) ==
  {f \in Features[t] \cup rawExistingTile : f.layer \in FirstLayers(opening.upTo[t])}

ExistingFeatures(t) == IF Existing(t) = None THEN {} ELSE Existing(t)

(* Tiles outside the bounding box are passed over. *)
FinalContent(t) == IF t \in OutsideBox THEN Existing(t) ELSE Merged(t, ExistingFeatures(t))

Running == thrown = "nothing"

(* insertOrReplace: INSERT fails on a row that exists, REPLACE does not. *)
InsertOrReplace(t, data) ==
  IF ~mergeSqlite /\ db[Row(t)] # None
  THEN thrown' = "row exists" /\ UNCHANGED db
  ELSE db' = [db EXCEPT ![Row(t)] = data] /\ UNCHANGED thrown

Init ==
  /\ opening \in Openings
  /\ queue = Tiles
  /\ pc = [p \in Procs |-> "idle"]
  /\ cur = [p \in Procs |-> None]
  /\ old = [p \in Procs |-> {}]
  /\ iter = [p \in Procs |-> 0]
  /\ m = None
  /\ pending1 = {} /\ pending2 = {}
  /\ db = [r \in {Row(t) : t \in Tiles} |->
             Existing(CHOOSE t \in Tiles : Row(t) = r)]
  /\ closed = FALSE /\ thrown = "nothing"

(* outputProc begins, and returns at once from a tile outside the box. *)
TakeTile(p, t) ==
  /\ Running /\ p \in Threads /\ pc[p] = "idle"
  /\ t \in queue
  /\ queue' = queue \ {t}
  /\ IF t \in OutsideBox THEN UNCHANGED <<cur, old, pc>>
     ELSE /\ cur' = [cur EXCEPT ![p] = t]
          /\ old' = [old EXCEPT ![p] = {}]
          /\ pc' = [pc EXCEPT ![p] = IF mergeSqlite THEN "count" ELSE "save"]
  /\ UNCHANGED <<opening, iter, m, pending1, pending2, db, closed, thrown>>

(* readTileAndUncompress waits for m, twice. *)
LockToRead(p) ==
  /\ Running /\ pc[p] \in {"count", "select"} /\ m = None
  /\ m' = p
  /\ pc' = [pc EXCEPT ![p] = IF @ = "count" THEN "counting" ELSE "selecting"]
  /\ UNCHANGED <<opening, queue, cur, old, iter, pending1, pending2, db, closed, thrown>>

(* The first time it counts the rows. *)
CountExisting(p) ==
  /\ Running /\ pc[p] = "counting"
  /\ m' = None
  /\ pc' = [pc EXCEPT ![p] = IF db[Row(cur[p])] = None THEN "save" ELSE "select"]
  /\ UNCHANGED <<opening, queue, cur, old, iter, pending1, pending2, db, closed, thrown>>

(* A tile that decompress_string() fails on, or that is not compressed as  *)
(* it should be: nobody looks at what readTileAndUncompress returns, and   *)
(* the bytes left in rawExistingTile are not those of a tile, so that the  *)
(* first search for a layer in them ends the program.                      *)
NotATile(t) == t \in opening.otherwise /\ opening.upTo[t] > 0

(* The second time it reads the row; the loop over the layers follows.     *)
SelectExisting(p) ==
  /\ Running /\ pc[p] = "selecting"
  /\ m' = None
  /\ IF db[Row(cur[p])] = None \/ NotATile(cur[p])
     THEN thrown' = "tile" /\ UNCHANGED <<old, pc>>
     ELSE /\ old' = [old EXCEPT ![p] = db[Row(cur[p])]]
          /\ pc' = [pc EXCEPT ![p] = "save"]
          /\ UNCHANGED thrown
  /\ UNCHANGED <<opening, queue, cur, iter, pending1, pending2, db, closed>>

(* saveTile, when m.try_lock() succeeds. *)
SaveDirectly(p) ==
  /\ Running /\ pc[p] = "save" /\ m = None
  /\ m' = p
  /\ InsertOrReplace(cur[p], Merged(cur[p], old[p]))
  /\ pc' = [pc EXCEPT ![p] = "flush"]
  /\ iter' = [iter EXCEPT ![p] = 0]
  /\ cur' = [cur EXCEPT ![p] = None]
  /\ UNCHANGED <<opening, queue, old, pending1, pending2, closed>>

(* saveTile, when m.try_lock() fails: by the time the tile is pushed, m    *)
(* may be free again.                                                      *)
TryLockFails(p) ==
  /\ Running /\ pc[p] = "save" /\ m # None
  /\ pc' = [pc EXCEPT ![p] = "buffer"]
  /\ UNCHANGED <<opening, queue, cur, old, iter, m, pending1, pending2, db, closed, thrown>>

SaveLater(p) ==
  /\ Running /\ pc[p] = "buffer"
  /\ pending1' = pending1 \cup {[tile |-> cur[p], data |-> Merged(cur[p], old[p])]}
  /\ pc' = [pc EXCEPT ![p] = "idle"]
  /\ cur' = [cur EXCEPT ![p] = None]
  /\ UNCHANGED <<opening, queue, old, iter, m, pending2, db, closed, thrown>>

\* mutant: what was written is not taken off the list
Pop_Kept(stmt) == pending2
Pop(stmt) == pending2 \ {stmt}

(* flushPendingStatements, one turn of the inner loop. *)
FlushOne(p, stmt) ==
  /\ Running /\ pc[p] = "flush"
  /\ stmt \in pending2
  /\ InsertOrReplace(stmt.tile, stmt.data)
  /\ pending2' = Pop(stmt)
  /\ UNCHANGED <<opening, queue, pc, cur, old, iter, m, pending1, closed>>

\* mutant: the lists are swapped once
LastIteration_Once(p) == TRUE

LastIteration(p) == iter[p] = 1

(* flushPendingStatements swaps the lists, twice; then saveTile unlocks m, *)
(* and closeForWriting returns.                                            *)
SwapPending(p) ==
  /\ Running /\ pc[p] = "flush" /\ pending2 = {}
  /\ pending1' = pending2 /\ pending2' = pending1
  /\ iter' = [iter EXCEPT ![p] = @ + 1]
  /\ pc' = [pc EXCEPT ![p] = IF LastIteration(p) THEN "idle" ELSE "flush"]
  /\ m' = IF LastIteration(p) /\ p # Main THEN None ELSE m
  /\ closed' = (LastIteration(p) /\ p = Main)
  /\ UNCHANGED <<opening, queue, cur, old, db, thrown>>

(* pool.join() returns and main calls closeForWriting, which takes no lock. *)
CloseForWriting ==
  /\ Running /\ ~closed /\ pc[Main] = "idle"
  /\ queue = {} /\ \A p \in Threads : pc[p] = "idle"
  /\ pc' = [pc EXCEPT ![Main] = "flush"]
  /\ iter' = [iter EXCEPT ![Main] = 0]
  /\ UNCHANGED <<opening, queue, cur, old, m, pending1, pending2, db, closed, thrown>>

Terminated == (closed \/ ~Running) /\ UNCHANGED vars

Step(p) ==
  \/ \E t \in queue : TakeTile(p, t)
  \/ LockToRead(p) \/ CountExisting(p) \/ SelectExisting(p)
  \/ SaveDirectly(p) \/ TryLockFails(p) \/ SaveLater(p)
  \/ \E stmt \in pending2 : FlushOne(p, stmt)
  \/ SwapPending(p)

Next == (\E p \in Procs : Step(p)) \/ CloseForWriting \/ Terminated

Spec == Init /\ [][Next]_vars

(* Threads are scheduled.  A mutex need not be fair: a thread that waits   *)
(* for m may be overtaken, but not for ever, as there are finitely many    *)
(* tiles.                                                                  *)
Fairness == WF_vars(CloseForWriting) /\ \A p \in Procs : WF_vars(Step(p))

FairSpec == Spec /\ Fairness

-----------------------------------------------------------------------------
(* Types; flushPendingStatements goes round twice, and m is never held by  *)
(* main.                                                                   *)
TypeOK ==
  /\ opening \in Openings
  /\ queue \subseteq Tiles
  /\ pc \in [Procs -> {"idle", "count", "counting", "select", "selecting", "save", "buffer", "flush"}]
  /\ cur \in [Procs -> Tiles \cup {None}]
  /\ DOMAIN old = Procs
  /\ iter \in [Procs -> 0..2]
  /\ m \in Threads \cup {None}
  /\ \A s \in pending1 \cup pending2 : s.tile \in Tiles
  /\ DOMAIN db = {Row(t) : t \in Tiles}
  /\ closed \in BOOLEAN /\ thrown \in {"nothing", "row exists", "tile"}

(* No INSERT meets an existing row: a tile is written once, whichever      *)
(* thread ends up writing it.                                              *)
NoThrow == thrown # "row exists"

(* When the file is closed every tile is in it, with its own content, as   *)
(* far as a signal let it be computed, merged into what the file had for   *)
(* it: nothing that was left in a pending list, by a thread that found m   *)
(* taken, is lost.                                                         *)
AllWritten == closed => \A t \in Tiles : db[Row(t)] = FinalContent(t)

(* Merging keeps what the file had in the layers of the configuration, in  *)
(* every tile that no signal cut short, and everything in the tiles        *)
(* outside the bounding box; a file it cannot do this for is not closed.   *)
Kept(t) ==
  IF t \in OutsideBox THEN ExistingFeatures(t)
  ELSE IF opening.upTo[t] = Len(LayerNames)
       THEN {f \in ExistingFeatures(t) : f.layer \in FirstLayers(Len(LayerNames))}
       ELSE {}
MergeKeeps == closed => \A t \in Tiles : Kept(t) \subseteq db[Row(t)]

(* "use the --merge switch to add to an existing .mbtiles"                 *)
(* (docs/RUNNING.md): nothing that was in the file disappears.             *)
MergeAdds == closed => \A t \in Tiles : ExistingFeatures(t) \subseteq db[Row(t)]

(* The file as a reader sees it. *)
Archive == INSTANCE TileArchive WITH
             content <- [t \in Tiles |-> FinalContent(t)],
             archive <- [t \in Tiles |-> db[Row(t)]]

(* saveTile keeps the promise of an archive: a tile changes once, to its   *)
(* own content, whichever thread writes it.                                *)
ImplementsArchive == Archive!Spec

(* The output ends: a thread that flushes writes at most what is pending   *)
(* in two lists, however fast the others push.  Only an existing tile that *)
(* is not one ends it before the file is closed.                           *)
EventuallyClosed == <>(closed \/ thrown = "tile")

-----------------------------------------------------------------------------
(* The strengthening that makes NoThrow and AllWritten inductive. *)

Working(p) == pc[p] \in {"count", "counting", "select", "selecting", "save", "buffer"}
InHand(t) == \E p \in Threads : Working(p) /\ cur[p] = t
PendingTiles(S) == {s.tile : s \in S}

(* A tile is in one place until it is written. *)
OnePlace ==
  /\ \A p \in Procs : Working(p) => p \in Threads /\ cur[p] \in Tiles /\ cur[p] \notin queue
  /\ \A p, q \in Procs : p # q /\ Working(p) /\ Working(q) => cur[p] # cur[q]
  /\ \A s \in pending1 \cup pending2 : s.tile \notin queue /\ ~InHand(s.tile)
  /\ \A s \in pending1 : \A r \in pending2 : s.tile # r.tile
  /\ \A s, r \in pending1 : s.tile = r.tile => s = r
  /\ \A s, r \in pending2 : s.tile = r.tile => s = r

Unwritten(t) ==
  t \in queue \/ InHand(t) \/ t \in PendingTiles(pending1) \/ t \in PendingTiles(pending2)

(* Until then the file has what it had, and afterwards the new content. *)
WrittenOrNot ==
  \A t \in Tiles : db[Row(t)] = IF Unwritten(t) THEN Existing(t) ELSE FinalContent(t)

(* What threads have in hand and in the lists is computed from what the    *)
(* file had at first.                                                      *)
DataCurrent ==
  /\ \A p \in Threads : Working(p) => cur[p] \notin OutsideBox
  /\ \A p \in Threads : pc[p] \in {"count", "counting"} => old[p] = {}
  /\ \A p \in Threads : pc[p] \in {"save", "buffer"} => old[p] = ExistingFeatures(cur[p])
  /\ \A s \in pending1 \cup pending2 : s.data = FinalContent(s.tile)

(* The loop of flushPendingStatements goes round twice. *)
Flushing == \A p \in Procs : pc[p] = "flush" => iter[p] \in {0, 1}

(* closeForWriting runs after the pool, and leaves nothing pending. *)
Closing ==
  /\ pc[Main] \in {"idle", "flush"}
  /\ pc[Main] = "flush" \/ closed => queue = {} /\ \A p \in Threads : pc[p] = "idle"
  /\ pc[Main] = "flush" => (iter[Main] = 1 => pending1 = {}) /\ ~closed
  /\ closed => pending1 = {} /\ pending2 = {}

(* The inductive invariant of output: each tile is in one place until it   *)
(* is written, and what is carried about is up to date.                    *)
IInv ==
  TypeOK /\ NoThrow /\ OnePlace /\ WrittenOrNot /\ DataCurrent /\ Flushing /\ Closing
=============================================================================
