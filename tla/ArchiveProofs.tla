---------------------------- MODULE ArchiveProofs ---------------------------
(***************************************************************************)
(* Proofs about both outputs.  MbtilesWriter: for any number of threads,   *)
(* any set of tiles and any file that is opened.  PmtilesWriter: for any   *)
(* number of threads, any tiles in any order, and any sizes of directories *)
(* and of the cache, what is saved is found again, by the binary search of *)
(* a reader.                                                               *)
(***************************************************************************)
EXTENDS MbtilesWriter, PmtilesWriter, Induction, SequenceTheorems, TLAPS

-----------------------------------------------------------------------------
(* Output to .mbtiles. *)

(* No two tiles share a row of the table: insertOrReplace's flipping of y  *)
(* loses nothing.                                                          *)
LEMMA RowInjective == \A t, u \in Tiles : Row(t) = Row(u) => t = u
<1>1. \A n \in Nat : 2^n \in Int
  BY SMT
<1> QED BY <1>1, WriterAssumption DEF Row

(* A file that is not merged into is empty. *)
LEMMA NewFileEmpty ==
  ASSUME opening \in Openings, ~mergeSqlite, NEW t \in Tiles
  PROVE  Existing(t) = None /\ ExistingFeatures(t) = {}
BY WriterAssumption DEF mergeSqlite, Existing, ExistingFeatures

(* The main thread is not in the pool. *)
LEMMA MainApart == Main \notin Threads /\ Main \in Procs /\ Threads \subseteq Procs
BY WriterAssumption DEF Procs

(* What is said of the opened file does not change when opening does not. *)
LEMMA SameOpening ==
  ASSUME opening' = opening
  PROVE  /\ mergeSqlite' = mergeSqlite
         /\ \A t : Existing(t)' = Existing(t)
         /\ \A t : ExistingFeatures(t)' = ExistingFeatures(t)
         /\ \A t : FinalContent(t)' = FinalContent(t)
         /\ \A t : Kept(t)' = Kept(t)
BY DEF mergeSqlite, Existing, ExistingFeatures, FinalContent, Merged, FirstLayers, Kept

(* Writing the final content of a tile that leaves the pipeline: nothing   *)
(* is thrown, and the other rows are left alone.                           *)
LEMMA WriteOne ==
  ASSUME TypeOK, NoThrow, WrittenOrNot, opening' = opening,
         NEW t \in Tiles, Unwritten(t), ~Unwritten(t)',
         \A u \in Tiles : u # t => Unwritten(u)' = Unwritten(u),
         InsertOrReplace(t, FinalContent(t))
  PROVE  WrittenOrNot' /\ thrown' = thrown /\ DOMAIN db' = DOMAIN db
<1>1. db[Row(t)] = Existing(t)
  BY DEF WrittenOrNot
<1>2. mergeSqlite \/ db[Row(t)] = None
  BY <1>1, NewFileEmpty DEF TypeOK
<1>3. db' = [db EXCEPT ![Row(t)] = FinalContent(t)] /\ thrown' = thrown
  BY <1>2 DEF InsertOrReplace
<1>4. ASSUME NEW u \in Tiles
      PROVE  db'[Row(u)] = IF u = t THEN FinalContent(t) ELSE db[Row(u)]
  BY <1>3, RowInjective DEF TypeOK
<1>5. WrittenOrNot'
  BY <1>4, SameOpening DEF WrittenOrNot
<1> QED BY <1>3, <1>5

(* The types of what the threads keep. *)
LEMMA TypeParts ==
  ASSUME IInv
  PROVE  /\ iter \in [Procs -> 0..2] /\ cur \in [Procs -> Tiles \cup {None}]
         /\ pc \in [Procs -> {"idle", "count", "counting", "select", "selecting", "save", "buffer", "flush"}]
BY DEF IInv, TypeOK

(* A step that writes nothing and keeps each tile where it counts as       *)
(* unwritten.                                                              *)
LEMMA WriteNone ==
  ASSUME WrittenOrNot, opening' = opening, db' = db,
         \A u \in Tiles : Unwritten(u)' = Unwritten(u)
  PROVE  WrittenOrNot'
BY SameOpening DEF WrittenOrNot

(* At first all tiles are queued and the file is as it was opened. *)
LEMMA InitIInv == Init => IInv
<1> SUFFICES ASSUME Init PROVE IInv
  OBVIOUS
<1> USE DEF Init
<1>1. TypeOK
  <2>1. iter \in [Procs -> 0..2] /\ pc \in [Procs -> {"idle", "count", "counting", "select", "selecting", "save", "buffer", "flush"}]
    OBVIOUS
  <2>2. cur \in [Procs -> Tiles \cup {None}] /\ DOMAIN old = Procs
    OBVIOUS
  <2>3. DOMAIN db = {Row(t) : t \in Tiles}
    OBVIOUS
  <2> QED BY <2>1, <2>2, <2>3 DEF TypeOK
<1>2. NoThrow
  BY DEF NoThrow
<1>3. OnePlace
  BY DEF OnePlace, Working
<1>4. WrittenOrNot
  <2> SUFFICES ASSUME NEW t \in Tiles PROVE db[Row(t)] = Existing(t)
    BY DEF WrittenOrNot, Unwritten
  <2> DEFINE u == CHOOSE v \in Tiles : Row(v) = Row(t)
  <2>1. u \in Tiles /\ Row(u) = Row(t)
    OBVIOUS
  <2>2. u = t
    BY <2>1, RowInjective
  <2>3. db[Row(t)] = Existing(u)
    OBVIOUS
  <2> QED BY <2>2, <2>3
<1>5. DataCurrent
  BY MainApart DEF DataCurrent, Working
<1>6. Flushing /\ Closing
  BY MainApart DEF Flushing, Closing
<1> QED BY <1>1, <1>2, <1>3, <1>4, <1>5, <1>6 DEF IInv

(* outputProc passes over a tile outside the box, which is to stay as it   *)
(* was.                                                                    *)
LEMMA PassOver ==
  ASSUME IInv, NEW p \in Procs, NEW t \in queue, TakeTile(p, t), t \in OutsideBox
  PROVE  IInv'
<1> USE DEF TakeTile
<1>0. t \in Tiles
  BY DEF IInv, TypeOK
<1>1. TypeOK' /\ NoThrow'
  BY DEF IInv, TypeOK, NoThrow
<1>2. /\ \A q : Working(q)' = Working(q)
      /\ \A u : InHand(u)' = InHand(u)
  BY DEF Working, InHand
<1>3. OnePlace'
  BY <1>2 DEF IInv, OnePlace
<1>4. \A u \in Tiles : u # t => Unwritten(u)' = Unwritten(u)
  BY <1>2 DEF Unwritten, PendingTiles
<1>5. FinalContent(t) = Existing(t) /\ db[Row(t)] = Existing(t)
  BY <1>0 DEF FinalContent, IInv, WrittenOrNot
<1>6. WrittenOrNot'
  BY <1>4, <1>5, SameOpening DEF IInv, WrittenOrNot
<1>7. DataCurrent' /\ Flushing' /\ Closing'
  BY <1>2, SameOpening DEF IInv, DataCurrent, Flushing, Closing
<1> QED BY <1>1, <1>3, <1>6, <1>7 DEF IInv

(* outputProc begins: a tile moves from the queue to a thread. *)
LEMMA TakeIInv ==
  ASSUME IInv, NEW p \in Procs, NEW t \in queue, TakeTile(p, t), t \notin OutsideBox
  PROVE  IInv'
<1> USE DEF TakeTile
<1>0. t \in Tiles /\ p \in Threads /\ p # Main /\ Main \in Procs
  BY MainApart DEF IInv, TypeOK
<1>1. TypeOK'
  BY <1>0 DEF IInv, TypeOK
<1>2. NoThrow'
  BY DEF IInv, NoThrow
<1>3. \A q \in Procs : q # p => pc'[q] = pc[q] /\ cur'[q] = cur[q] /\ old'[q] = old[q]
  BY DEF IInv, TypeOK
<1>4. cur'[p] = t /\ old'[p] = {} /\ pc'[p] = (IF mergeSqlite THEN "count" ELSE "save")
  BY DEF IInv, TypeOK
<1>5. ~Working(p) /\ Working(p)'
  BY <1>4 DEF Working
<1>6. \A q \in Procs : q # p => Working(q)' = Working(q)
  BY <1>3 DEF Working
<1>7. \A u \in Tiles : InHand(u)' <=> InHand(u) \/ u = t
  BY <1>0, <1>3, <1>4, <1>5, <1>6, MainApart DEF InHand
<1>8. OnePlace'
  <2>1. \A q \in Procs : Working(q)' => q \in Threads /\ cur'[q] \in Tiles /\ cur'[q] \notin queue'
    BY <1>0, <1>3, <1>4, <1>6 DEF IInv, OnePlace
  <2>2. \A q, r \in Procs : q # r /\ Working(q)' /\ Working(r)' => cur'[q] # cur'[r]
    BY <1>3, <1>4, <1>6 DEF IInv, OnePlace
  <2>3. \A s \in pending1 \cup pending2 : s.tile \notin queue' /\ ~InHand(s.tile)'
    BY <1>7 DEF IInv, OnePlace, TypeOK
  <2> QED BY <2>1, <2>2, <2>3 DEF IInv, OnePlace
<1>9. WrittenOrNot'
  <2>1. \A u \in Tiles : Unwritten(u)' = Unwritten(u)
    BY <1>7 DEF Unwritten, PendingTiles
  <2> QED BY <2>1, WriteNone DEF IInv
<1>10. DataCurrent'
  <2>1. pc'[p] = "save" => old'[p] = ExistingFeatures(t)
    BY <1>0, <1>4, NewFileEmpty DEF IInv, TypeOK
  <2>2. \A q \in Threads : pc'[q] \in {"save", "buffer"} => old'[q] = ExistingFeatures(cur'[q])
    <3>1. pc'[p] \in {"count", "save"}
      BY <1>4
    <3>2. ASSUME NEW q \in Threads, q # p, pc'[q] \in {"save", "buffer"}
          PROVE  old'[q] = ExistingFeatures(cur'[q])
      <4>1. q \in Procs
        BY MainApart
      <4>2. pc[q] \in {"save", "buffer"} /\ cur'[q] = cur[q] /\ old'[q] = old[q]
        BY <3>2, <4>1, <1>3
      <4> QED BY <4>2 DEF IInv, DataCurrent
    <3> QED BY <2>1, <3>1, <3>2, <1>4
  <2>3. \A q \in Threads : Working(q)' => cur'[q] \notin OutsideBox
    BY <1>3, <1>4, <1>6, MainApart DEF IInv, DataCurrent
  <2>4. \A q \in Threads : pc'[q] \in {"count", "counting"} => old'[q] = {}
    BY <1>3, <1>4, MainApart DEF IInv, DataCurrent
  <2> QED BY <2>2, <2>3, <2>4, SameOpening DEF IInv, DataCurrent
<1>11. Flushing' /\ Closing'
  BY <1>0, <1>3, <1>4 DEF IInv, Flushing, Closing
<1> QED BY <1>1, <1>2, <1>8, <1>9, <1>10, <1>11 DEF IInv

LEMMA TakeTileIInv ==
  ASSUME IInv, NEW p \in Procs, NEW t \in queue, TakeTile(p, t)
  PROVE  IInv'
BY PassOver, TakeIInv

(* Steps of a thread that keeps its tile: locking, reading the existing    *)
(* tile and failing to lock.                                               *)
LEMMA KeepTile ==
  ASSUME IInv, NEW p \in Threads, Working(p), Working(p)',
         TypeOK', NoThrow', UNCHANGED <<opening, queue, cur, iter, pending1, pending2, db, closed>>,
         \A q \in Procs : q # p => pc'[q] = pc[q] /\ old'[q] = old[q],
         pc'[p] \in {"count", "counting"} => old'[p] = {},
         pc'[p] \in {"save", "buffer"} => old'[p] = ExistingFeatures(cur[p])
  PROVE  IInv'
<1>0. p # Main /\ p \in Procs /\ Main \in Procs
  BY MainApart
<1>1. \A q \in Procs : Working(q)' = Working(q)
  BY DEF Working
<1>2. \A u \in Tiles : InHand(u)' = InHand(u)
  BY <1>1, MainApart DEF InHand
<1>3. OnePlace'
  BY <1>1, <1>2 DEF IInv, OnePlace, TypeOK
<1>4. WrittenOrNot'
  <2>1. \A u \in Tiles : Unwritten(u)' = Unwritten(u)
    BY <1>2 DEF Unwritten, PendingTiles
  <2> QED BY <2>1, WriteNone DEF IInv
<1>5. DataCurrent'
  BY <1>1, SameOpening, MainApart DEF IInv, DataCurrent
<1>6. Flushing' /\ Closing'
  BY <1>0 DEF IInv, Flushing, Closing, Working
<1> QED BY <1>3, <1>4, <1>5, <1>6 DEF IInv

(* readTileAndUncompress, saveTile's try_lock(). *)
LEMMA KeepTileIInv ==
  ASSUME IInv, NEW p \in Procs,
         LockToRead(p) \/ CountExisting(p) \/ SelectExisting(p) \/ TryLockFails(p)
  PROVE  IInv'
<1>0. Working(p)
  BY DEF LockToRead, CountExisting, SelectExisting, TryLockFails, Working
<1>1. p \in Threads /\ cur[p] \in Tiles
  BY <1>0 DEF IInv, OnePlace
<1>2. db[Row(cur[p])] = Existing(cur[p])
  BY <1>0, <1>1 DEF IInv, WrittenOrNot, Unwritten, InHand
<1>3. CASE LockToRead(p)
  <2>1. TypeOK'
    BY <1>1, <1>3 DEF LockToRead, IInv, TypeOK
  <2>2. /\ pc'[p] = IF pc[p] = "count" THEN "counting" ELSE "selecting"
        /\ \A q \in Procs : q # p => pc'[q] = pc[q]
    BY <1>3 DEF LockToRead, IInv, TypeOK
  <2>3. Working(p)' /\ NoThrow'
    BY <1>3, <2>2 DEF LockToRead, Working, NoThrow, IInv
  <2>4. pc'[p] \in {"count", "counting"} => old'[p] = {}
    BY <1>1, <1>3, <2>2 DEF LockToRead, IInv, DataCurrent
  <2>5. pc'[p] \notin {"save", "buffer"}
    BY <2>2
  <2> QED BY <1>0, <1>1, <1>3, <2>1, <2>2, <2>3, <2>4, <2>5, KeepTile DEF LockToRead
<1>4. CASE CountExisting(p)
  <2>1. TypeOK'
    BY <1>1, <1>4 DEF CountExisting, IInv, TypeOK
  <2>2. /\ pc'[p] = IF db[Row(cur[p])] = None THEN "save" ELSE "select"
        /\ \A q \in Procs : q # p => pc'[q] = pc[q]
    BY <1>4 DEF CountExisting, IInv, TypeOK
  <2>3. Working(p)' /\ NoThrow'
    BY <1>4, <2>2 DEF CountExisting, Working, NoThrow, IInv
  <2>4. old[p] = {}
    BY <1>1, <1>4 DEF CountExisting, IInv, DataCurrent
  <2>5. pc'[p] \in {"save", "buffer"} => old'[p] = ExistingFeatures(cur[p])
    BY <1>2, <1>4, <2>2, <2>4 DEF CountExisting, ExistingFeatures
  <2>6. pc'[p] \notin {"count", "counting"}
    BY <2>2
  <2> QED BY <1>0, <1>1, <1>4, <2>1, <2>2, <2>3, <2>5, <2>6, KeepTile DEF CountExisting
<1>5. CASE SelectExisting(p)
  <2>1. TypeOK'
    BY <1>1, <1>5 DEF SelectExisting, IInv, TypeOK
  <2>2. \A q \in Procs : q # p => pc'[q] = pc[q] /\ old'[q] = old[q]
    BY <1>5 DEF SelectExisting, IInv, TypeOK
  <2>3. \/ pc'[p] = "selecting" /\ old'[p] = old[p]
        \/ pc'[p] = "save" /\ old'[p] = db[Row(cur[p])] /\ db[Row(cur[p])] # None
    BY <1>5 DEF SelectExisting, IInv, TypeOK
  <2>4. Working(p)' /\ NoThrow'
    BY <1>5, <2>3 DEF SelectExisting, Working, NoThrow, IInv
  <2>5. pc'[p] \in {"save", "buffer"} => old'[p] = ExistingFeatures(cur[p])
    BY <1>2, <2>3 DEF ExistingFeatures
  <2>6. pc'[p] \notin {"count", "counting"}
    BY <2>3
  <2> QED BY <1>0, <1>1, <1>5, <2>1, <2>2, <2>4, <2>5, <2>6, KeepTile DEF SelectExisting
<1>6. CASE TryLockFails(p)
  <2>1. TypeOK'
    BY <1>1, <1>6 DEF TryLockFails, IInv, TypeOK
  <2>2. pc'[p] = "buffer" /\ \A q \in Procs : q # p => pc'[q] = pc[q]
    BY <1>6 DEF TryLockFails, IInv, TypeOK
  <2>3. Working(p)' /\ NoThrow'
    BY <1>6, <2>2 DEF TryLockFails, Working, NoThrow, IInv
  <2>4. old[p] = ExistingFeatures(cur[p])
    BY <1>1, <1>6 DEF TryLockFails, IInv, DataCurrent
  <2> QED BY <1>0, <1>1, <1>6, <2>1, <2>2, <2>3, <2>4, KeepTile DEF TryLockFails
<1> QED BY <1>3, <1>4, <1>5, <1>6

(* A thread that lets go of its tile: what changes in the hands of all. *)
LEMMA LetGo ==
  ASSUME IInv, NEW p \in Threads, Working(p), ~Working(p)',
         \A q \in Procs : q # p => pc'[q] = pc[q] /\ cur'[q] = cur[q] /\ old'[q] = old[q]
  PROVE  /\ \A q \in Procs : q # p => Working(q)' = Working(q)
         /\ \A u \in Tiles : InHand(u)' <=> InHand(u) /\ u # cur[p]
<1>1. \A q \in Procs : q # p => Working(q)' = Working(q)
  BY DEF Working
<1>2. \A q \in Procs : q # p /\ Working(q) => cur[q] # cur[p]
  BY MainApart DEF IInv, OnePlace
<1> QED BY <1>1, <1>2, MainApart DEF InHand

(* saveTile with the lock: the tile goes from the thread to the file. *)
LEMMA SaveDirectlyIInv ==
  ASSUME IInv, NEW p \in Procs, SaveDirectly(p)
  PROVE  IInv'
<1> USE DEF SaveDirectly
<1>0. Working(p) /\ p \in Threads /\ cur[p] \in Tiles /\ p # Main /\ Main \in Procs
  BY MainApart DEF Working, IInv, OnePlace
<1>1. pc'[p] = "flush" /\ iter'[p] = 0 /\ ~Working(p)'
  BY DEF IInv, TypeOK, Working
<1>2. \A q \in Procs : q # p => pc'[q] = pc[q] /\ cur'[q] = cur[q] /\ old'[q] = old[q] /\ iter'[q] = iter[q]
  BY DEF IInv, TypeOK
<1>3. /\ \A q \in Procs : q # p => Working(q)' = Working(q)
      /\ \A u \in Tiles : InHand(u)' <=> InHand(u) /\ u # cur[p]
  BY <1>0, <1>1, <1>2, LetGo
<1>4. cur[p] \notin queue /\ cur[p] \notin PendingTiles(pending1) /\ cur[p] \notin PendingTiles(pending2)
  <2>1. InHand(cur[p])
    BY <1>0 DEF InHand
  <2> QED BY <1>0, <2>1 DEF IInv, OnePlace, PendingTiles
<1> PICK t \in Tiles : t = cur[p]
  BY <1>0
<1>5. Unwritten(t) /\ ~Unwritten(t)'
  BY <1>0, <1>3, <1>4 DEF Unwritten, InHand, PendingTiles
<1>6. \A u \in Tiles : u # t => Unwritten(u)' = Unwritten(u)
  BY <1>3 DEF Unwritten, PendingTiles
<1>7. InsertOrReplace(t, FinalContent(t))
  BY <1>0 DEF IInv, DataCurrent, FinalContent
<1>8. WrittenOrNot' /\ thrown' = thrown /\ DOMAIN db' = DOMAIN db
  BY <1>0, <1>5, <1>6, <1>7, WriteOne DEF IInv
<1>9. TypeOK'
  <2>2. cur' \in [Procs -> Tiles \cup {None}] /\ iter' \in [Procs -> 0..2]
    BY TypeParts
  <2>3. pc' \in [Procs -> {"idle", "count", "counting", "select", "selecting", "save", "buffer", "flush"}]
    BY DEF IInv, TypeOK
  <2>4. DOMAIN db' = {Row(u) : u \in Tiles} /\ thrown' \in {"nothing", "row exists", "tile"}
    BY <1>8 DEF IInv, TypeOK
  <2>5. opening' \in Openings /\ queue' \subseteq Tiles /\ DOMAIN old' = Procs /\ closed' \in BOOLEAN
    BY DEF IInv, TypeOK
  <2>6. m' \in Threads \cup {None} /\ \A s \in pending1' \cup pending2' : s.tile \in Tiles
    BY <1>0 DEF IInv, TypeOK
  <2> QED BY <2>2, <2>3, <2>4, <2>5, <2>6 DEF TypeOK
<1>10. OnePlace'
  <2>1. \A q \in Procs : Working(q)' => q \in Threads /\ cur'[q] \in Tiles /\ cur'[q] \notin queue'
    BY <1>1, <1>2, <1>3 DEF IInv, OnePlace
  <2>2. \A q, r \in Procs : q # r /\ Working(q)' /\ Working(r)' => cur'[q] # cur'[r]
    BY <1>1, <1>2, <1>3 DEF IInv, OnePlace
  <2>3. \A s \in pending1 \cup pending2 : s.tile \notin queue' /\ ~InHand(s.tile)'
    BY <1>3 DEF IInv, OnePlace, TypeOK
  <2> QED BY <2>1, <2>2, <2>3 DEF IInv, OnePlace
<1>11. DataCurrent'
  <2>1. ASSUME NEW q \in Threads, pc'[q] \in {"save", "buffer"}
        PROVE  old'[q] = ExistingFeatures(cur'[q])
    <3>1. q \in Procs /\ q # p
      BY <1>1, <2>1, MainApart
    <3>2. pc[q] \in {"save", "buffer"} /\ cur'[q] = cur[q] /\ old'[q] = old[q]
      BY <2>1, <3>1, <1>2
    <3> QED BY <3>2 DEF IInv, DataCurrent
  <2>2. \A q \in Threads : Working(q)' => cur'[q] \notin OutsideBox
    BY <1>1, <1>2, <1>3, MainApart DEF IInv, DataCurrent
  <2>3. \A q \in Threads : pc'[q] \in {"count", "counting"} => old'[q] = {}
    BY <1>1, <1>2, MainApart DEF IInv, DataCurrent
  <2> QED BY <2>1, <2>2, <2>3, SameOpening DEF IInv, DataCurrent
<1>12. Flushing' /\ Closing'
  BY <1>0, <1>1, <1>2 DEF IInv, Flushing, Closing
<1> QED BY <1>8, <1>9, <1>10, <1>11, <1>12 DEF IInv, NoThrow

(* saveTile without the lock: the tile goes from the thread to the list. *)
LEMMA SaveLaterIInv ==
  ASSUME IInv, NEW p \in Procs, SaveLater(p)
  PROVE  IInv'
<1> USE DEF SaveLater
<1> DEFINE new == [tile |-> cur[p], data |-> Merged(cur[p], old[p])]
<1>0. Working(p) /\ p \in Threads /\ cur[p] \in Tiles /\ p # Main /\ Main \in Procs
  BY MainApart DEF Working, IInv, OnePlace
<1>1. pc'[p] = "idle" /\ ~Working(p)'
  BY DEF IInv, TypeOK, Working
<1>2. \A q \in Procs : q # p => pc'[q] = pc[q] /\ cur'[q] = cur[q] /\ old'[q] = old[q] /\ iter'[q] = iter[q]
  BY DEF IInv, TypeOK
<1>3. /\ \A q \in Procs : q # p => Working(q)' = Working(q)
      /\ \A u \in Tiles : InHand(u)' <=> InHand(u) /\ u # cur[p]
  BY <1>0, <1>1, <1>2, LetGo
<1>4. pending1' = pending1 \cup {new} /\ new.tile = cur[p] /\ new.data = FinalContent(cur[p])
  BY <1>0 DEF IInv, DataCurrent, FinalContent
<1>5. InHand(cur[p])
  BY <1>0 DEF InHand
<1>6. \A s \in pending1 \cup pending2 : s.tile # cur[p]
  BY <1>5 DEF IInv, OnePlace
<1>7. TypeOK'
  <2>1. \A s \in pending1' \cup pending2' : s.tile \in Tiles
    BY <1>0, <1>4 DEF IInv, TypeOK
  <2> HIDE DEF new
  <2> QED BY <2>1 DEF IInv, TypeOK
<1> HIDE DEF new
<1>8. OnePlace'
  <2>1. \A q \in Procs : Working(q)' => q \in Threads /\ cur'[q] \in Tiles /\ cur'[q] \notin queue'
    BY <1>1, <1>2, <1>3 DEF IInv, OnePlace
  <2>2. \A q, r \in Procs : q # r /\ Working(q)' /\ Working(r)' => cur'[q] # cur'[r]
    BY <1>1, <1>2, <1>3 DEF IInv, OnePlace
  <2>3. \A s \in pending1' \cup pending2' : s.tile \notin queue' /\ ~InHand(s.tile)'
    BY <1>0, <1>3, <1>4 DEF IInv, OnePlace, TypeOK
  <2>4. \A s \in pending1' : \A r \in pending2' : s.tile # r.tile
    BY <1>4, <1>6 DEF IInv, OnePlace
  <2>5. \A s, r \in pending1' : s.tile = r.tile => s = r
    BY <1>4, <1>6 DEF IInv, OnePlace
  <2> QED BY <2>1, <2>2, <2>3, <2>4, <2>5 DEF IInv, OnePlace
<1>9. WrittenOrNot'
  <2>1. \A u : u \in PendingTiles(pending1)' <=> u \in PendingTiles(pending1) \/ u = cur[p]
    BY <1>4 DEF PendingTiles
  <2>2. \A u \in Tiles : Unwritten(u)' = Unwritten(u)
    BY <2>1, <1>3, <1>5 DEF Unwritten, PendingTiles
  <2> QED BY <2>2, WriteNone DEF IInv
<1>10. DataCurrent'
  <2>1. ASSUME NEW q \in Threads, pc'[q] \in {"save", "buffer"}
        PROVE  old'[q] = ExistingFeatures(cur'[q])
    <3>1. q \in Procs /\ q # p
      BY <1>1, <2>1, MainApart
    <3>2. pc[q] \in {"save", "buffer"} /\ cur'[q] = cur[q] /\ old'[q] = old[q]
      BY <2>1, <3>1, <1>2
    <3> QED BY <3>2 DEF IInv, DataCurrent
  <2>2. \A s \in pending1' \cup pending2' : s.data = FinalContent(s.tile)
    BY <1>4 DEF IInv, DataCurrent
  <2>3. \A q \in Threads : Working(q)' => cur'[q] \notin OutsideBox
    BY <1>1, <1>2, <1>3, MainApart DEF IInv, DataCurrent
  <2>4. \A q \in Threads : pc'[q] \in {"count", "counting"} => old'[q] = {}
    BY <1>1, <1>2, MainApart DEF IInv, DataCurrent
  <2> QED BY <2>1, <2>2, <2>3, <2>4, SameOpening DEF DataCurrent
<1>11. Flushing' /\ Closing'
  BY <1>0, <1>1, <1>2 DEF IInv, Flushing, Closing
<1> QED BY <1>7, <1>8, <1>9, <1>10, <1>11 DEF IInv, NoThrow

(* flushPendingStatements writes a tile that was left pending. *)
LEMMA FlushOneIInv ==
  ASSUME IInv, NEW p \in Procs, NEW stmt \in pending2, FlushOne(p, stmt)
  PROVE  IInv'
<1> USE DEF FlushOne
<1>0. pending2' \subseteq pending2 /\ stmt \notin pending2'
      /\ \A s \in pending2 : s # stmt => s \in pending2'
  BY DEF Pop
<1> PICK t \in Tiles : t = stmt.tile
  BY DEF IInv, TypeOK
<1>1. /\ \A q \in Procs : Working(q)' = Working(q)
      /\ \A u : InHand(u)' = InHand(u)
  BY DEF Working, InHand
<1>2. t \notin queue /\ ~InHand(t) /\ t \notin PendingTiles(pending1) /\ t \in PendingTiles(pending2)
  BY DEF IInv, OnePlace, PendingTiles
<1>3. \A s \in pending2' : s.tile # t
  BY <1>0 DEF IInv, OnePlace
<1>4. \A u : u # t => (u \in PendingTiles(pending2)' <=> u \in PendingTiles(pending2))
  BY <1>0 DEF PendingTiles
<1>5. t \notin PendingTiles(pending2)' /\ PendingTiles(pending1)' = PendingTiles(pending1)
  BY <1>3 DEF PendingTiles
<1>6. Unwritten(t) /\ ~Unwritten(t)'
  BY <1>1, <1>2, <1>5 DEF Unwritten
<1>7. \A u \in Tiles : u # t => Unwritten(u)' = Unwritten(u)
  BY <1>1, <1>4, <1>5 DEF Unwritten
<1>8. InsertOrReplace(t, FinalContent(t))
  BY DEF IInv, DataCurrent
<1>9. WrittenOrNot' /\ thrown' = thrown /\ DOMAIN db' = DOMAIN db
  BY <1>6, <1>7, <1>8, WriteOne DEF IInv
<1>10. TypeOK'
  BY <1>0, <1>9 DEF IInv, TypeOK
<1>11. OnePlace'
  BY <1>0, <1>1 DEF IInv, OnePlace
<1>12. DataCurrent'
  <2>1. \A u : FinalContent(u)' = FinalContent(u) /\ ExistingFeatures(u)' = ExistingFeatures(u)
    BY SameOpening
  <2>2. \A s \in pending1' \cup pending2' : s.data = FinalContent(s.tile)
    BY <1>0 DEF IInv, DataCurrent
  <2>3. UNCHANGED <<pc, cur, old>> /\ pending1' = pending1
    OBVIOUS
  <2> QED BY <1>1, <2>1, <2>2, <2>3, MainApart DEF IInv, DataCurrent
<1>13. Flushing' /\ Closing'
  BY <1>0 DEF IInv, Flushing, Closing
<1> QED BY <1>9, <1>10, <1>11, <1>12, <1>13 DEF IInv, NoThrow

(* flushPendingStatements swaps the lists.  Main's second swap finds both  *)
(* empty, as no thread pushes to the first any more.                       *)
LEMMA SwapPendingIInv ==
  ASSUME IInv, NEW p \in Procs, SwapPending(p)
  PROVE  IInv'
<1> USE DEF SwapPending, LastIteration
<1>0. iter[p] \in {0, 1} /\ Main \in Procs /\ Main \notin Threads
  BY MainApart DEF IInv, Flushing
<1>1. pc'[p] = (IF iter[p] = 1 THEN "idle" ELSE "flush") /\ iter'[p] = iter[p] + 1
  BY DEF IInv, TypeOK
<1>2. \A q \in Procs : q # p => pc'[q] = pc[q] /\ iter'[q] = iter[q]
  BY DEF IInv, TypeOK
<1>3. /\ \A q \in Procs : Working(q)' = Working(q)
      /\ \A u : InHand(u)' = InHand(u)
  <2>1. \A q \in Procs : Working(q)' = Working(q)
    BY <1>1, <1>2 DEF Working
  <2> QED BY <2>1, MainApart DEF InHand
<1>4. TypeOK'
  <2>1. iter' \in [Procs -> 0..2]
    BY <1>0, TypeParts
  <2>2. m' \in Threads \cup {None} /\ closed' \in BOOLEAN
    BY DEF IInv, TypeOK
  <2>3. pc' \in [Procs -> {"idle", "count", "counting", "select", "selecting", "save", "buffer", "flush"}]
    BY DEF IInv, TypeOK
  <2> QED BY <2>1, <2>2, <2>3 DEF IInv, TypeOK
<1>5. OnePlace'
  BY <1>3 DEF IInv, OnePlace
<1>6. WrittenOrNot'
  <2>1. \A u \in Tiles : Unwritten(u)' = Unwritten(u)
    BY <1>3 DEF Unwritten, PendingTiles
  <2> QED BY <2>1, WriteNone DEF IInv
<1>7. DataCurrent'
  <2>1. \A q \in Threads : /\ pc'[q] \in {"save", "buffer"} => pc[q] \in {"save", "buffer"}
                           /\ pc'[q] \notin {"count", "counting"} \/ pc'[q] = pc[q]
    BY <1>1, <1>2, MainApart
  <2> QED BY <1>3, <2>1, SameOpening, MainApart DEF IInv, DataCurrent
<1>8. Flushing'
  BY <1>0, <1>1, <1>2 DEF IInv, Flushing
<1>9. Closing'
  <2>1. CASE p = Main
    <3>1. queue' = {} /\ \A q \in Threads : pc'[q] = "idle"
      BY <1>0, <1>2, <2>1, MainApart DEF IInv, Closing
    <3>2. closed' <=> iter[Main] = 1
      BY <2>1
    <3>3. iter[Main] = 1 => pending1 = {}
      BY <2>1 DEF IInv, Closing
    <3>4. CASE iter[Main] = 1
      BY <1>1, <2>1, <3>1, <3>3, <3>4 DEF Closing
    <3>5. CASE iter[Main] = 0
      BY <1>1, <2>1, <3>1, <3>2, <3>5 DEF Closing
    <3> QED BY <1>0, <2>1, <3>4, <3>5
  <2>2. CASE p # Main
    <3>1. p \in Threads /\ closed' = FALSE
      BY <2>2 DEF Procs
    <3>2. pc[Main] = "idle" /\ pc'[Main] = "idle"
      BY <1>0, <1>2, <2>2, <3>1 DEF IInv, Closing
    <3> QED BY <3>1, <3>2 DEF Closing
  <2> QED BY <2>1, <2>2
<1> QED BY <1>4, <1>5, <1>6, <1>7, <1>8, <1>9 DEF IInv, NoThrow

(* closeForWriting begins when the pool has ended. *)
LEMMA CloseForWritingIInv ==
  ASSUME IInv, CloseForWriting
  PROVE  IInv'
<1> USE DEF CloseForWriting
<1>0. Main \in Procs /\ Main \notin Threads
  BY MainApart
<1>1. pc'[Main] = "flush" /\ iter'[Main] = 0
  BY <1>0 DEF IInv, TypeOK
<1>2. \A q \in Procs : q # Main => pc'[q] = pc[q] /\ iter'[q] = iter[q]
  BY DEF IInv, TypeOK
<1>3. /\ \A q \in Procs : Working(q)' = Working(q)
      /\ \A u : InHand(u)' = InHand(u)
  <2>1. \A q \in Procs : Working(q)' = Working(q)
    BY <1>1, <1>2 DEF Working
  <2> QED BY <2>1, MainApart DEF InHand
<1>4. TypeOK'
  <2>1. iter' \in [Procs -> 0..2]
    BY <1>0, TypeParts
  <2> QED BY <2>1 DEF IInv, TypeOK
<1>5. OnePlace'
  BY <1>3 DEF IInv, OnePlace
<1>6. WrittenOrNot'
  <2>1. \A u \in Tiles : Unwritten(u)' = Unwritten(u)
    BY <1>3 DEF Unwritten, PendingTiles
  <2> QED BY <2>1, WriteNone DEF IInv
<1>7. DataCurrent'
  <2>1. \A q \in Threads : pc'[q] = pc[q]
    BY <1>0, <1>2, MainApart
  <2> QED BY <1>3, <2>1, SameOpening, MainApart DEF IInv, DataCurrent
<1>8. Flushing' /\ Closing'
  <2>1. \A q \in Threads : pc'[q] = "idle"
    BY <1>0, <1>2, MainApart
  <2> QED BY <1>0, <1>1, <1>2, <2>1 DEF IInv, Flushing, Closing
<1> QED BY <1>4, <1>5, <1>6, <1>7, <1>8 DEF IInv, NoThrow

(* A step that changes nothing. *)
LEMMA StutterIInv == ASSUME IInv, UNCHANGED vars PROVE IInv'
<1> USE DEF vars
<1>1. /\ \A q : Working(q)' = Working(q)
      /\ \A u : InHand(u)' = InHand(u)
  BY DEF Working, InHand
<1>2. \A u \in Tiles : Unwritten(u)' = Unwritten(u)
  BY <1>1 DEF Unwritten, PendingTiles
<1>3. WrittenOrNot'
  BY <1>2, WriteNone DEF IInv
<1>4. TypeOK' /\ NoThrow' /\ OnePlace'
  BY <1>1 DEF IInv, TypeOK, NoThrow, OnePlace
<1>5. DataCurrent' /\ Flushing' /\ Closing'
  BY <1>1, SameOpening DEF IInv, DataCurrent, Flushing, Closing
<1> QED BY <1>3, <1>4, <1>5 DEF IInv

(* Every step of output keeps the inductive invariant. *)
LEMMA NextIInv == IInv /\ [Next]_vars => IInv'
<1> SUFFICES ASSUME IInv, [Next]_vars PROVE IInv'
  OBVIOUS
<1>1. ASSUME NEW p \in Procs, Step(p) PROVE IInv'
  <2>1. CASE \E t \in queue : TakeTile(p, t)
    BY <2>1, TakeTileIInv
  <2>2. CASE LockToRead(p) \/ CountExisting(p) \/ SelectExisting(p) \/ TryLockFails(p)
    BY <2>2, KeepTileIInv
  <2>3. CASE SaveDirectly(p)
    BY <2>3, SaveDirectlyIInv
  <2>4. CASE SaveLater(p)
    BY <2>4, SaveLaterIInv
  <2>5. CASE \E stmt \in pending2 : FlushOne(p, stmt)
    BY <2>5, FlushOneIInv
  <2>6. CASE SwapPending(p)
    BY <2>6, SwapPendingIInv
  <2> QED BY <1>1, <2>1, <2>2, <2>3, <2>4, <2>5, <2>6 DEF Step
<1>2. CASE CloseForWriting
  BY <1>2, CloseForWritingIInv
<1>3. CASE UNCHANGED vars
  BY <1>3, StutterIInv
<1> QED BY <1>1, <1>2, <1>3 DEF Next, Terminated

(* The invariant of output: whatever the interleaving of the pool, each    *)
(* tile is in one place until saveTile or flushPendingStatements writes it. *)
THEOREM Invariance == Spec => []IInv
BY InitIInv, NextIInv, PTL DEF Spec

(* No INSERT of insertOrReplace meets a row that exists. *)
THEOREM NeverThrows == Spec => []NoThrow
<1>1. IInv => NoThrow
  BY DEF IInv
<1> QED BY Invariance, <1>1, PTL

(* When closeForWriting has returned, every tile is in the file with its   *)
(* own content merged into what the file had.                              *)
THEOREM NothingLeftPending == Spec => []AllWritten
<1>1. IInv => AllWritten
  <2> SUFFICES ASSUME IInv, closed, NEW t \in Tiles PROVE db[Row(t)] = FinalContent(t)
    BY DEF AllWritten
  <2>1. ~InHand(t)
    BY DEF IInv, Closing, InHand, Working
  <2>2. ~Unwritten(t)
    BY <2>1 DEF IInv, Closing, Unwritten, PendingTiles
  <2> QED BY <2>2 DEF IInv, WrittenOrNot
<1> QED BY Invariance, <1>1, PTL

(* Merging into a file (ProcessLayer with mergeSqlite, saveTile, --merge)   *)
(* keeps what the file had in the configured layers of every tile that no  *)
(* signal cut short, and all of what it had outside the bounding box: what *)
(* is written contains what the tile had when the file was opened,         *)
(* although that is read by one thread, in two turns of the lock, and      *)
(* written by another; and when a tile cannot be read the file is not      *)
(* closed.                                                                 *)
THEOREM MergingKeeps == Spec => []MergeKeeps
<1>1. IInv /\ AllWritten => MergeKeeps
  <2> SUFFICES ASSUME IInv, AllWritten, closed, NEW t \in Tiles
               PROVE  Kept(t) \subseteq db[Row(t)]
    BY DEF MergeKeeps
  <2>1. db[Row(t)] = FinalContent(t)
    BY DEF AllWritten
  <2>2. CASE t \in OutsideBox /\ Existing(t) = None
    BY <2>2 DEF Kept, ExistingFeatures
  <2>3. CASE t \in OutsideBox /\ Existing(t) # None
    BY <2>1, <2>3 DEF Kept, ExistingFeatures, FinalContent
  <2>4. CASE t \notin OutsideBox
    BY <2>1, <2>4 DEF Kept, FinalContent, Merged
  <2> QED BY <2>2, <2>3, <2>4
<1> QED BY Invariance, NothingLeftPending, <1>1, PTL

(* A write of one row is a write of one tile, as no two tiles share a row. *)
LEMMA WriteMaps ==
  ASSUME TypeOK, NEW t \in Tiles, ~closed, closed' = closed, opening' = opening,
         InsertOrReplace(t, FinalContent(t)), NoThrow'
  PROVE  Archive!Next
<1>1. db' = [db EXCEPT ![Row(t)] = FinalContent(t)]
  BY DEF InsertOrReplace, NoThrow
<1>2. \A u \in Tiles : db'[Row(u)] = IF u = t THEN FinalContent(t) ELSE db[Row(u)]
  BY <1>1, RowInjective DEF TypeOK
<1>3. [u \in Tiles |-> db[Row(u)]]' = [[u \in Tiles |-> db[Row(u)]] EXCEPT ![t] = FinalContent(t)]
  BY <1>2
<1>4. [u \in Tiles |-> FinalContent(u)]' = [u \in Tiles |-> FinalContent(u)]
  BY SameOpening
<1>5. Archive!Write(t)
  BY <1>3, <1>4 DEF Archive!Write
<1> QED BY <1>5 DEF Archive!Next

(* A step that writes nothing leaves the archive as it is. *)
LEMMA QuietMaps ==
  ASSUME opening' = opening, db' = db, closed' = closed
  PROVE  UNCHANGED Archive!vars
BY SameOpening DEF Archive!vars

(* Every step of output writes one tile with its final content, closes the *)
(* complete archive, or changes nothing that a reader sees.                *)
LEMMA StepMaps ==
  ASSUME IInv, IInv', [Next]_vars
  PROVE  [Archive!Next]_(Archive!vars)
<1>1. ASSUME NEW p \in Procs, SaveDirectly(p)
      PROVE  Archive!Next
  <2>1. p \in Threads /\ cur[p] \in Tiles
    BY <1>1 DEF SaveDirectly, IInv, OnePlace, Working
  <2> PICK t \in Tiles : t = cur[p]
    BY <2>1
  <2>2. ~closed
    BY <1>1, <2>1 DEF SaveDirectly, IInv, Closing
  <2>3. InsertOrReplace(t, FinalContent(t))
    <3>1. t \notin OutsideBox /\ old[p] = ExistingFeatures(t)
      BY <1>1, <2>1 DEF SaveDirectly, IInv, DataCurrent, Working
    <3> QED BY <1>1, <3>1 DEF SaveDirectly, FinalContent
  <2> QED BY <1>1, <2>2, <2>3, WriteMaps DEF SaveDirectly, IInv
<1>2. ASSUME NEW p \in Procs, NEW stmt \in pending2, FlushOne(p, stmt)
      PROVE  Archive!Next
  <2> PICK t \in Tiles : t = stmt.tile
    BY DEF IInv, TypeOK
  <2>1. ~closed
    BY <1>2 DEF FlushOne, IInv, Closing
  <2>2. InsertOrReplace(t, FinalContent(t))
    BY <1>2 DEF FlushOne, IInv, DataCurrent
  <2> QED BY <1>2, <2>1, <2>2, WriteMaps DEF FlushOne, IInv
<1>3. ASSUME NEW p \in Procs, SwapPending(p)
      PROVE  [Archive!Next]_(Archive!vars)
  <2>1. ~closed
    <3>1. p = Main \/ p \in Threads
      BY DEF Procs
    <3> QED BY <1>3, <3>1 DEF SwapPending, IInv, Closing
  <2>2. CASE closed'
    <3>1. p = Main /\ iter[Main] = 1
      BY <1>3, <2>2 DEF SwapPending, LastIteration
    <3>2. queue = {} /\ pending1 = {} /\ pending2 = {} /\ \A q \in Threads : pc[q] = "idle"
      BY <1>3, <3>1 DEF SwapPending, IInv, Closing
    <3>3. \A t \in Tiles : ~Unwritten(t)
      BY <3>2 DEF Unwritten, InHand, Working, PendingTiles
    <3>4. \A t \in Tiles : db[Row(t)] = FinalContent(t)
      BY <3>3 DEF IInv, WrittenOrNot
    <3>5. [t \in Tiles |-> db[Row(t)]] = [t \in Tiles |-> FinalContent(t)]
      BY <3>4
    <3>6. [t \in Tiles |-> FinalContent(t)]' = [t \in Tiles |-> FinalContent(t)]
      BY <1>3, SameOpening DEF SwapPending
    <3>7. [t \in Tiles |-> db[Row(t)]]' = [t \in Tiles |-> db[Row(t)]]
      BY <1>3 DEF SwapPending
    <3>8. closed' = TRUE
      BY <1>3, <2>2 DEF SwapPending
    <3>9. Archive!Close
      BY <3>5, <3>6, <3>7, <3>8 DEF Archive!Close
    <3> QED BY <3>9 DEF Archive!Next
  <2>3. CASE ~closed'
    <3>1. closed' = closed
      BY <2>1, <2>3 DEF IInv, TypeOK
    <3> QED BY <1>3, <3>1, QuietMaps DEF SwapPending
  <2> QED BY <2>2, <2>3
<1>4. ASSUME NEW p \in Procs,
             \/ \E t \in queue : TakeTile(p, t)
             \/ LockToRead(p) \/ CountExisting(p) \/ SelectExisting(p) \/ TryLockFails(p) \/ SaveLater(p)
      PROVE  UNCHANGED Archive!vars
  BY <1>4, QuietMaps DEF TakeTile, LockToRead, CountExisting, SelectExisting, TryLockFails, SaveLater
<1>5. CASE CloseForWriting
  BY <1>5, QuietMaps DEF CloseForWriting
<1>6. CASE UNCHANGED vars
  BY <1>6, QuietMaps DEF vars
<1> QED BY <1>1, <1>2, <1>3, <1>4, <1>5, <1>6 DEF Next, Step, Terminated

(* Output to .mbtiles implements an archive: a tile changes once, to its   *)
(* own content, whichever thread writes it, and closing finds all written. *)
THEOREM Refinement == Spec => ImplementsArchive
<1>1. Init => Archive!Init
  BY DEF Init, Archive!Init
<1>2. IInv /\ IInv' /\ [Next]_vars => [Archive!Next]_(Archive!vars)
  BY StepMaps
<1> QED BY <1>1, <1>2, Invariance, PTL DEF Spec, ImplementsArchive, Archive!Spec
-----------------------------------------------------------------------------
(* Output to .pmtiles. *)

(* Saving tiles. *)

LEMMA SaveBegins ==
  ASSUME InitPmtiles
  PROVE  SaveInv
<1>1. PICK in \in Inputs : data = in.tiles /\ tileQueue = in.order /\ pool = in.pool
  BY DEF InitPmtiles
<1>2. /\ DOMAIN in.tiles \subseteq Nat /\ in.tiles = [t \in DOMAIN in.tiles |-> in.tiles[t]] /\ in.order \in Seq(Nat) /\ ToSet(in.order) = DOMAIN in.tiles
      /\ \A i, j \in DOMAIN in.order : in.order[i] = in.order[j] => i = j
  BY <1>1, InputsAssumption
<1>3. /\ place = [p \in SaveThreads |-> "idle"] /\ curTile = [p \in SaveThreads |-> -1] /\ offset = [p \in SaveThreads |-> -1]
      /\ file = <<>> /\ tinyCache = <<>> /\ index = <<>> /\ numTilesAddressed = 0 /\ closing = "no"
  BY DEF InitPmtiles
<1>4. DOMAIN index = {} /\ DOMAIN tinyCache = {} /\ Busy = {} /\ Carried = {}
  <2>1. DOMAIN <<>> = {}
    OBVIOUS
  <2>2. Busy = {}
    BY <1>3 DEF Busy
  <2> QED BY <1>3, <2>1, <2>2 DEF Carried
<1>5. SaveTypeOK
  <2>1. file \in Seq({data[t] : t \in DOMAIN data})
    BY <1>3
  <2> QED BY <1>1, <1>2, <1>3, <2>1 DEF SaveTypeOK
<1>6. TilesInOnePlace
  BY <1>1, <1>2, <1>4 DEF TilesInOnePlace
<1>7. OffsetsPoint
  BY <1>3, <1>4 DEF OffsetsPoint
<1>8. IsFiniteSet(DOMAIN index) /\ numTilesAddressed = Cardinality(DOMAIN index)
  BY <1>3, <1>4, FS_EmptySet
<1> QED BY <1>3, <1>5, <1>6, <1>7, <1>8 DEF SaveInv

(* The next tile of the queue, and what is left of it. *)
LEMMA QueueFacts ==
  ASSUME NEW q \in Seq(Nat), q # <<>>, \A i, j \in DOMAIN q : q[i] = q[j] => i = j
  PROVE  /\ Head(q) \in Nat /\ Tail(q) \in Seq(Nat) /\ Head(q) \notin ToSet(Tail(q))
         /\ ToSet(q) = ToSet(Tail(q)) \cup {Head(q)}
         /\ \A i, j \in DOMAIN Tail(q) : Tail(q)[i] = Tail(q)[j] => i = j
<1> DEFINE n == Len(q)
           r == Tail(q)
<1>1. n \in Nat \ {0} /\ DOMAIN q = 1..n /\ Head(q) = q[1] /\ Head(q) \in Nat
  BY LenProperties, EmptySeq
<1>2. r \in Seq(Nat) /\ Len(r) = n - 1 /\ DOMAIN r = 1..(n - 1) /\ \A i \in 1..(n - 1) : r[i] = q[i + 1]
  <2>1. r \in Seq(Nat) /\ Len(r) = n - 1 /\ \A i \in 1..(n - 1) : r[i] = q[i + 1]
    BY <1>1, HeadTailProperties
  <2> QED BY <2>1, LenProperties
<1> HIDE DEF n, r
<1>3. \A i \in 1..(n - 1) : i + 1 \in 1..n /\ i + 1 # 1
  BY <1>1
<1>4. Head(q) \notin ToSet(r)
  <2>1. SUFFICES ASSUME NEW i \in 1..(n - 1), r[i] = q[1] PROVE FALSE
    BY <1>1, <1>2 DEF ToSet
  <2>2. q[i + 1] = q[1] /\ i + 1 \in DOMAIN q /\ 1 \in DOMAIN q /\ i + 1 # 1
    BY <1>1, <1>2, <1>3, <2>1
  <2> QED BY <2>2
<1>5. ToSet(q) = ToSet(r) \cup {Head(q)}
  <2>1. ASSUME NEW x \in ToSet(q) PROVE x \in ToSet(r) \cup {Head(q)}
    <3>1. PICK i \in 1..n : x = q[i]
      BY <1>1 DEF ToSet
    <3>2. CASE i = 1
      BY <1>1, <3>1, <3>2
    <3>3. CASE i # 1
      <4>1. i - 1 \in 1..(n - 1) /\ i - 1 + 1 = i
        BY <1>1, <3>3
      <4>2. r[i - 1] = x
        BY <1>2, <3>1, <4>1
      <4> QED BY <1>2, <4>1, <4>2 DEF ToSet
    <3> QED BY <3>2, <3>3
  <2>2. ASSUME NEW x \in ToSet(r) PROVE x \in ToSet(q)
    <3>1. PICK i \in 1..(n - 1) : x = r[i]
      BY <1>2 DEF ToSet
    <3>2. i + 1 \in DOMAIN q /\ x = q[i + 1]
      BY <1>1, <1>2, <1>3, <3>1
    <3> QED BY <3>2 DEF ToSet
  <2>3. Head(q) \in ToSet(q)
    BY <1>1 DEF ToSet
  <2> QED BY <2>1, <2>2, <2>3
<1>6. ASSUME NEW i \in DOMAIN r, NEW j \in DOMAIN r, r[i] = r[j] PROVE i = j
  <2>1. i + 1 \in DOMAIN q /\ j + 1 \in DOMAIN q /\ q[i + 1] = q[j + 1]
    BY <1>1, <1>2, <1>3, <1>6
  <2>2. i + 1 = j + 1
    BY <2>1
  <2> QED BY <1>1, <1>2, <2>2
<1> QED BY <1>1, <1>2, <1>4, <1>5, <1>6 DEF r

(* Threads save tiles only before the file is closed. *)
LEMMA StepFirst ==
  ASSUME SaveInv, NEW p \in SaveThreads, ThreadStep(p)
  PROVE  closing = "no" /\ closing' = "no" /\ dirs' = dirs
<1>1. closing' = closing /\ dirs' = dirs
  BY DEF ThreadStep, TakeTileId, LookUp, WriteTile, IndexTile
<1>2. tileQueue # <<>> \/ p \in Busy
  BY DEF ThreadStep, TakeTileId, LookUp, WriteTile, IndexTile, Busy
<1> QED BY <1>1, <1>2 DEF SaveInv

LEMMA TakeTileKeeps ==
  ASSUME SaveInv, NEW p \in SaveThreads, TakeTileId(p)
  PROVE  SaveInv'
<1>1. closing = "no" /\ closing' = "no"
  BY StepFirst DEF ThreadStep
<1>2. /\ place[p] = "idle" /\ tileQueue # <<>> /\ curTile' = [curTile EXCEPT ![p] = Head(tileQueue)] /\ tileQueue' = Tail(tileQueue)
      /\ place' = [place EXCEPT ![p] = "lookup"]
      /\ UNCHANGED <<data, pool, offset, file, tinyCache, index, numTilesAddressed>>
  BY DEF TakeTileId
<1>3. SaveTypeOK /\ TilesInOnePlace /\ OffsetsPoint /\ IsFiniteSet(DOMAIN index) /\ numTilesAddressed = Cardinality(DOMAIN index)
  BY DEF SaveInv
<1>4. /\ Head(tileQueue) \in Nat /\ tileQueue' \in Seq(Nat) /\ Head(tileQueue) \notin ToSet(tileQueue')
      /\ ToSet(tileQueue) = ToSet(tileQueue') \cup {Head(tileQueue)}
      /\ \A i, j \in DOMAIN tileQueue' : tileQueue'[i] = tileQueue'[j] => i = j
  <2>1. tileQueue \in Seq(Nat) /\ tileQueue # <<>> /\ \A i, j \in DOMAIN tileQueue : tileQueue[i] = tileQueue[j] => i = j
    BY <1>2, <1>3 DEF SaveTypeOK, TilesInOnePlace
  <2>2. /\ Head(tileQueue) \in Nat /\ Tail(tileQueue) \in Seq(Nat) /\ Head(tileQueue) \notin ToSet(Tail(tileQueue))
        /\ ToSet(tileQueue) = ToSet(Tail(tileQueue)) \cup {Head(tileQueue)}
        /\ \A i, j \in DOMAIN Tail(tileQueue) : Tail(tileQueue)[i] = Tail(tileQueue)[j] => i = j
    BY <2>1, QueueFacts
  <2> QED BY <1>2, <2>2
<1> DEFINE h == Head(tileQueue)
<1>5. SaveTypeOK'
  BY <1>1, <1>2, <1>3, <1>4 DEF SaveTypeOK
<1>6. Busy' = Busy \cup {p} /\ p \notin Busy /\ curTile'[p] = h /\ \A q \in Busy : curTile'[q] = curTile[q]
  <2>1. place \in [SaveThreads -> {"idle", "lookup", "write", "reuse", "new"}] /\ curTile \in [SaveThreads -> Int]
    BY <1>3 DEF SaveTypeOK
  <2>2. p \notin Busy /\ Busy \subseteq SaveThreads
    BY <1>2 DEF Busy
  <2>3. Busy' = Busy \cup {p}
    BY <1>2, <2>1 DEF Busy
  <2> QED BY <1>2, <2>1, <2>2, <2>3
<1>7. Carried' = Carried \cup {h}
  BY <1>6 DEF Carried
<1> HIDE DEF h
<1>8. TilesInOnePlace'
  <2>1. /\ ToSet(tileQueue) \cup Carried \cup DOMAIN index = DOMAIN data
        /\ ToSet(tileQueue) \cap (Carried \cup DOMAIN index) = {} /\ Carried \cap DOMAIN index = {}
    BY <1>3 DEF TilesInOnePlace
  <2>2. ToSet(tileQueue) = ToSet(tileQueue') \cup {h} /\ h \notin ToSet(tileQueue')
    BY <1>4 DEF h
  <2>3. /\ ToSet(tileQueue') \cup Carried' \cup DOMAIN index = DOMAIN data
        /\ ToSet(tileQueue') \cap (Carried' \cup DOMAIN index) = {} /\ Carried' \cap DOMAIN index = {}
    BY <1>7, <2>1, <2>2
  <2>4. \A q, r \in Busy' : curTile'[q] = curTile'[r] => q = r
    <3>1. \A q \in Busy : curTile[q] # h
      BY <2>1, <2>2 DEF Carried
    <3>2. \A q, r \in Busy : curTile[q] = curTile[r] => q = r
      BY <1>3 DEF TilesInOnePlace
    <3> QED BY <1>6, <3>1, <3>2
  <2> QED BY <1>2, <1>4, <2>3, <2>4 DEF TilesInOnePlace
<1>9. OffsetsPoint'
  <2>1. place \in [SaveThreads -> {"idle", "lookup", "write", "reuse", "new"}] /\ curTile \in [SaveThreads -> Int]
    BY <1>3 DEF SaveTypeOK
  <2>2. ASSUME NEW q \in SaveThreads, place'[q] \in {"reuse", "new"} PROVE Written(offset[q], data[curTile[q]])'
    BY <1>2, <1>3, <2>1, <2>2 DEF OffsetsPoint, Written
  <2> QED BY <1>2, <1>3, <2>2 DEF OffsetsPoint, Written
<1> QED BY <1>1, <1>2, <1>3, <1>5, <1>8, <1>9 DEF SaveInv

(* A step of a thread that keeps its tile leaves every tile where it is. *)
LEMMA SamePlace ==
  ASSUME SaveInv, UNCHANGED <<data, tileQueue, curTile, index>>, Busy' = Busy
  PROVE  TilesInOnePlace'
<1>1. Carried' = Carried
  BY DEF Carried
<1> QED BY <1>1 DEF TilesInOnePlace, SaveInv

LEMMA LookUpKeeps ==
  ASSUME SaveInv, NEW p \in SaveThreads, LookUp(p)
  PROVE  SaveInv'
<1> DEFINE x == data[curTile[p]]
           hit == x \in Tiny /\ x \in DOMAIN tinyCache
<1>1. closing = "no" /\ closing' = "no"
  BY StepFirst DEF ThreadStep
<1>2. /\ place[p] = "lookup"
      /\ place' = [place EXCEPT ![p] = IF hit THEN "reuse" ELSE "write"]
      /\ offset' = [offset EXCEPT ![p] = IF hit THEN tinyCache[x] ELSE -1]
      /\ UNCHANGED <<data, pool, tileQueue, curTile, file, tinyCache, index, numTilesAddressed>>
  BY DEF LookUp
<1>3. SaveTypeOK /\ TilesInOnePlace /\ OffsetsPoint /\ IsFiniteSet(DOMAIN index) /\ numTilesAddressed = Cardinality(DOMAIN index)
  BY DEF SaveInv
<1> HIDE DEF hit
<1>4. place \in [SaveThreads -> {"idle", "lookup", "write", "reuse", "new"}] /\ offset \in [SaveThreads -> Int]
  BY <1>3 DEF SaveTypeOK
<1>5. Busy' = Busy
  BY <1>2, <1>4 DEF Busy
<1>6. hit => Written(tinyCache[x], x)
  BY <1>3 DEF OffsetsPoint, hit
<1> HIDE DEF x
<1>7. SaveTypeOK'
  <2>1. hit => tinyCache[x] \in Int
    BY <1>6 DEF Written
  <2> QED BY <1>1, <1>2, <1>3, <2>1 DEF SaveTypeOK
<1>8. TilesInOnePlace'
  BY <1>2, <1>5, SamePlace
<1>9. OffsetsPoint'
  <2>2. ASSUME NEW q \in SaveThreads, place'[q] \in {"reuse", "new"} PROVE Written(offset[q], data[curTile[q]])'
    <3>1. CASE q = p
      <4>1. hit /\ offset'[p] = tinyCache[x]
        BY <1>2, <1>4, <2>2, <3>1
      <4> QED BY <1>2, <1>6, <3>1, <4>1 DEF Written, x
    <3>2. CASE q # p
      <4>1. place'[q] = place[q] /\ offset'[q] = offset[q]
        BY <1>2, <1>4, <3>2
      <4> QED BY <1>2, <1>3, <2>2, <4>1 DEF OffsetsPoint, Written
    <3> QED BY <3>1, <3>2
  <2> QED BY <1>2, <1>3, <2>2 DEF OffsetsPoint, Written
<1> QED BY <1>1, <1>2, <1>3, <1>7, <1>8, <1>9 DEF SaveInv

(* Data stays where it was written. *)
LEMMA FileGrows ==
  ASSUME SaveTypeOK, NEW t \in DOMAIN data, file' = Append(file, data[t])
  PROVE  /\ file' \in Seq({data[u] : u \in DOMAIN data}) /\ Len(file) \in Nat
         /\ Len(file) + 1 \in DOMAIN file' /\ file'[Len(file) + 1] = data[t]
         /\ \A i \in DOMAIN file : i \in DOMAIN file' /\ file'[i] = file[i]
<1> DEFINE S == {data[u] : u \in DOMAIN data}
           n == Len(file)
<1>1. file \in Seq(S) /\ data[t] \in S
  BY DEF SaveTypeOK
<1> HIDE DEF S
<1>2. n \in Nat /\ DOMAIN file = 1..n
  BY <1>1, LenProperties
<1>3. /\ file' \in Seq(S) /\ Len(file') = n + 1
      /\ \A i \in 1..n : file'[i] = file[i] /\ file'[n + 1] = data[t]
  BY <1>1, AppendProperties
<1>4. file'[n + 1] = data[t]
  BY <1>1, AppendProperties
<1>5. DOMAIN file' = 1..(n + 1)
  BY <1>3, LenProperties
<1> HIDE DEF n
<1>6. n + 1 \in DOMAIN file' /\ \A i \in DOMAIN file : i \in DOMAIN file'
  BY <1>2, <1>5
<1>7. file' \in Seq({data[u] : u \in DOMAIN data})
  BY <1>3 DEF S
<1> QED BY <1>2, <1>3, <1>4, <1>6, <1>7 DEF n

LEMMA WriteTileKeeps ==
  ASSUME SaveInv, NEW p \in SaveThreads, WriteTile(p)
  PROVE  SaveInv'
<1>1. closing = "no" /\ closing' = "no"
  BY StepFirst DEF ThreadStep
<1>2. /\ place[p] = "write" /\ file' = Append(file, data[curTile[p]])
      /\ place' = [place EXCEPT ![p] = "new"] /\ offset' = [offset EXCEPT ![p] = Len(file)]
      /\ UNCHANGED <<data, pool, tileQueue, curTile, tinyCache, index, numTilesAddressed>>
  BY DEF WriteTile, WriteOffset
<1>3. SaveTypeOK /\ TilesInOnePlace /\ OffsetsPoint /\ IsFiniteSet(DOMAIN index) /\ numTilesAddressed = Cardinality(DOMAIN index)
  BY DEF SaveInv
<1>4. place \in [SaveThreads -> {"idle", "lookup", "write", "reuse", "new"}] /\ offset \in [SaveThreads -> Int]
  BY <1>3 DEF SaveTypeOK
<1>5. Busy' = Busy /\ p \in Busy
  BY <1>2, <1>4 DEF Busy
<1>6. curTile[p] \in DOMAIN data
  BY <1>3, <1>5 DEF TilesInOnePlace, Carried
<1>7. /\ file' \in Seq({data[u] : u \in DOMAIN data}) /\ Len(file) \in Nat
      /\ Len(file) + 1 \in DOMAIN file' /\ file'[Len(file) + 1] = data[curTile[p]]
      /\ \A i \in DOMAIN file : i \in DOMAIN file' /\ file'[i] = file[i]
  BY <1>2, <1>3, <1>6, FileGrows
<1> DEFINE n == Len(file)
<1> HIDE DEF n
<1>8. SaveTypeOK'
  <2>1. offset' \in [SaveThreads -> Int]
    BY <1>2, <1>4, <1>7
  <2> QED BY <1>1, <1>2, <1>3, <1>7, <2>1 DEF SaveTypeOK
<1>9. TilesInOnePlace'
  BY <1>2, <1>5, SamePlace
<1>10. \A off, x : Written(off, x) => Written(off, x)'
  BY <1>7 DEF Written
<1>11. OffsetsPoint'
  <2>1. offset'[p] = n /\ n \in Nat /\ n + 1 \in DOMAIN file' /\ file'[n + 1] = data[curTile[p]]
    BY <1>2, <1>4, <1>7 DEF n
  <2>2. ASSUME NEW q \in SaveThreads, place'[q] \in {"reuse", "new"} PROVE Written(offset[q], data[curTile[q]])'
    <3>1. CASE q = p
      BY <1>2, <2>1, <3>1 DEF Written
    <3>2. CASE q # p
      <4>1. place'[q] = place[q] /\ offset'[q] = offset[q] /\ data'[curTile'[q]] = data[curTile[q]]
        BY <1>2, <1>4, <3>2
      <4>2. Written(offset[q], data[curTile[q]])
        BY <1>3, <2>2, <4>1 DEF OffsetsPoint
      <4> QED BY <1>7, <4>1, <4>2 DEF Written
    <3> QED BY <3>1, <3>2
  <2>3. ASSUME NEW t \in DOMAIN index PROVE Written(index[t], data[t])'
    <3>1. Written(index[t], data[t])
      BY <1>3 DEF OffsetsPoint
    <3> QED BY <1>2, <1>7, <3>1 DEF Written
  <2>4. ASSUME NEW x \in DOMAIN tinyCache PROVE Written(tinyCache[x], x)'
    <3>1. Written(tinyCache[x], x)
      BY <1>3 DEF OffsetsPoint
    <3> QED BY <1>2, <1>7, <3>1 DEF Written
  <2> QED BY <1>2, <2>2, <2>3, <2>4 DEF OffsetsPoint
<1> QED BY <1>1, <1>2, <1>3, <1>8, <1>9, <1>11 DEF SaveInv

(* What the cache holds after a tile was offered to it. *)
LEMMA CacheFacts ==
  ASSUME NEW x, NEW off, Written(off, x), \A y \in DOMAIN tinyCache : Written(tinyCache[y], y)
  PROVE  \A y \in DOMAIN TinyCacheWith(x, off) : Written(TinyCacheWith(x, off)[y], y)
<1> DEFINE older == IF Cardinality(DOMAIN tinyCache) > TINY_MAX_SIZE THEN <<>> ELSE tinyCache
           c == [y \in DOMAIN older \cup {x} |-> IF y \in DOMAIN older THEN older[y] ELSE off]
<1>1. TinyCacheWith(x, off) = c
  BY DEF TinyCacheWith
<1>2. \A y \in DOMAIN older : Written(older[y], y)
  <2>1. DOMAIN <<>> = {}
    OBVIOUS
  <2>2. CASE older = <<>>
    BY <2>1, <2>2
  <2>3. CASE older = tinyCache
    BY <2>3
  <2> QED BY <2>2, <2>3
<1> HIDE DEF older
<1>3. ASSUME NEW y \in DOMAIN c PROVE Written(c[y], y)
  <2>1. CASE y \in DOMAIN older
    BY <1>2, <2>1
  <2>2. CASE y \notin DOMAIN older
    BY <2>2
  <2> QED BY <2>1, <2>2
<1> QED BY <1>1, <1>3

LEMMA IndexTileKeeps ==
  ASSUME SaveInv, NEW p \in SaveThreads, IndexTile(p)
  PROVE  SaveInv'
<1> DEFINE c == curTile[p]
<1>1. closing = "no" /\ closing' = "no"
  BY StepFirst DEF ThreadStep
<1>2. /\ place[p] \in {"reuse", "new"} /\ numTilesAddressed' = numTilesAddressed + 1
      /\ index' = [t \in DOMAIN index \cup {c} |-> IF t = c THEN offset[p] ELSE index[t]]
      /\ tinyCache' = tinyCache \/ tinyCache' = TinyCacheWith(data[c], offset[p])
      /\ place' = [place EXCEPT ![p] = "idle"]
      /\ UNCHANGED <<data, pool, tileQueue, curTile, offset, file>>
  BY DEF IndexTile
<1>3. SaveTypeOK /\ TilesInOnePlace /\ OffsetsPoint /\ IsFiniteSet(DOMAIN index) /\ numTilesAddressed = Cardinality(DOMAIN index)
  BY DEF SaveInv
<1>4. place \in [SaveThreads -> {"idle", "lookup", "write", "reuse", "new"}]
  BY <1>3 DEF SaveTypeOK
<1>5. p \in Busy /\ Busy' = Busy \ {p}
  BY <1>2, <1>4 DEF Busy
<1>6. c \in Carried /\ Carried' = Carried \ {c}
  <2>1. \A q \in Busy : curTile[q] = c => q = p
    BY <1>3, <1>5 DEF TilesInOnePlace
  <2>2. Carried' = {curTile[q] : q \in Busy \ {p}}
    BY <1>2, <1>5 DEF Carried
  <2> QED BY <1>5, <2>1, <2>2 DEF Carried
<1>7. DOMAIN index' = DOMAIN index \cup {c} /\ index'[c] = offset[p] /\ \A t \in DOMAIN index : t # c => index'[t] = index[t]
  BY <1>2
<1>8. Written(offset[p], data[c])
  BY <1>2, <1>3 DEF OffsetsPoint
<1> HIDE DEF c
<1>9. SaveTypeOK'
  BY <1>1, <1>2, <1>3 DEF SaveTypeOK
<1>10. TilesInOnePlace'
  <2>1. /\ ToSet(tileQueue) \cup Carried \cup DOMAIN index = DOMAIN data
        /\ ToSet(tileQueue) \cap (Carried \cup DOMAIN index) = {} /\ Carried \cap DOMAIN index = {}
    BY <1>3 DEF TilesInOnePlace
  <2>2. /\ ToSet(tileQueue) \cup Carried' \cup DOMAIN index' = DOMAIN data
        /\ ToSet(tileQueue) \cap (Carried' \cup DOMAIN index') = {} /\ Carried' \cap DOMAIN index' = {}
    BY <1>6, <1>7, <2>1
  <2>3. \A q, r \in Busy' : curTile[q] = curTile[r] => q = r
    BY <1>3, <1>5 DEF TilesInOnePlace
  <2>4. \A i, j \in DOMAIN tileQueue : tileQueue[i] = tileQueue[j] => i = j
    BY <1>3 DEF TilesInOnePlace
  <2> QED BY <1>2, <2>2, <2>3, <2>4 DEF TilesInOnePlace
<1>11. OffsetsPoint'
  <2>1. ASSUME NEW q \in SaveThreads, place'[q] \in {"reuse", "new"} PROVE Written(offset[q], data[curTile[q]])'
    <3>1. place'[q] = place[q]
      BY <1>2, <1>4, <2>1
    <3>2. Written(offset[q], data[curTile[q]])
      BY <1>3, <2>1, <3>1 DEF OffsetsPoint
    <3> QED BY <1>2, <3>2 DEF Written
  <2>2. ASSUME NEW t \in DOMAIN index' PROVE Written(index[t], data[t])'
    <3>1. Written(index'[t], data[t])
      <4>1. CASE t = c
        BY <1>7, <1>8, <4>1
      <4>2. CASE t # c
        BY <1>3, <1>7, <2>2, <4>2 DEF OffsetsPoint
      <4> QED BY <4>1, <4>2
    <3> QED BY <1>2, <3>1 DEF Written
  <2>3. ASSUME NEW x \in DOMAIN tinyCache' PROVE Written(tinyCache[x], x)'
    <3>1. \A y \in DOMAIN tinyCache : Written(tinyCache[y], y)
      BY <1>3 DEF OffsetsPoint
    <3>2. Written(tinyCache'[x], x)
      <4>1. CASE tinyCache' = tinyCache
        BY <2>3, <3>1, <4>1
      <4>2. CASE tinyCache' = TinyCacheWith(data[c], offset[p])
        BY <1>8, <2>3, <3>1, <4>2, CacheFacts
      <4> QED BY <1>2, <4>1, <4>2
    <3> QED BY <1>2, <3>2 DEF Written
  <2> QED BY <1>2, <2>1, <2>2, <2>3 DEF OffsetsPoint
<1>12. (IsFiniteSet(DOMAIN index) /\ numTilesAddressed = Cardinality(DOMAIN index))'
  <2>1. c \notin DOMAIN index
    BY <1>3, <1>6 DEF TilesInOnePlace
  <2>2. IsFiniteSet(DOMAIN index \cup {c}) /\ Cardinality(DOMAIN index \cup {c}) = Cardinality(DOMAIN index) + 1
    BY <1>3, <2>1, FS_AddElement
  <2> QED BY <1>2, <1>3, <1>7, <2>2
<1> QED BY <1>1, <1>9, <1>10, <1>11, <1>12 DEF SaveInv

(* Closing leaves everything that was saved alone. *)
LEMMA CloseKeepsSaved ==
  ASSUME SaveInv, Close \/ UNCHANGED pmtilesVars
  PROVE  SaveInv'
<1>1. UNCHANGED saving
  BY DEF Close, BeginClose, AddTile, EndClose, saving, pmtilesVars
<1>2. UNCHANGED <<data, pool, tileQueue, place, curTile, offset, file, tinyCache, index, numTilesAddressed>>
  BY <1>1 DEF saving
<1>3. closing' \in {"no", "yes", "done"} /\ (closing' # "no" => tileQueue = <<>> /\ Busy = {})
  BY DEF Close, BeginClose, AddTile, EndClose, saving, pmtilesVars, SaveInv, SaveTypeOK, Busy
<1>4. Busy' = Busy /\ Carried' = Carried
  BY <1>2 DEF Busy, Carried
<1>5. SaveTypeOK'
  BY <1>2, <1>3 DEF SaveInv, SaveTypeOK
<1>6. TilesInOnePlace'
  BY <1>2, <1>4 DEF SaveInv, TilesInOnePlace
<1>7. OffsetsPoint'
  BY <1>2 DEF SaveInv, OffsetsPoint, Written
<1> QED BY <1>2, <1>3, <1>4, <1>5, <1>6, <1>7 DEF SaveInv

LEMMA SaveStep == SaveInv /\ [NextPmtiles]_pmtilesVars => SaveInv'
<1>1. SUFFICES ASSUME SaveInv, [NextPmtiles]_pmtilesVars PROVE SaveInv'
  OBVIOUS
<1>2. ASSUME NEW p \in SaveThreads, ThreadStep(p) PROVE SaveInv'
  BY <1>1, <1>2, TakeTileKeeps, LookUpKeeps, WriteTileKeeps, IndexTileKeeps DEF ThreadStep
<1>3. CASE Close \/ UNCHANGED pmtilesVars
  BY <1>1, <1>3, CloseKeepsSaved
<1> QED BY <1>1, <1>2, <1>3 DEF NextPmtiles, PmtilesDone

(* However threads take turns, every tile is in the queue, with one of     *)
(* them or in the index, and each offset points to its tile's own data:    *)
(* in the index, in the cache of tiny tiles and in the threads' hands      *)
(* (PMTiles::saveTile).                                                    *)
THEOREM SavingInvariance == SpecPmtiles => []SaveInv
<1>1. InitPmtiles => SaveInv
  BY SaveBegins
<1> QED BY <1>1, SaveStep, PTL DEF SpecPmtiles

-----------------------------------------------------------------------------
(* Saving implements an archive. *)

Saved == [t \in DOMAIN data |-> IF t \in DOMAIN index THEN file[index[t] + 1] ELSE "none"]

LEMMA PmtilesQuietMaps ==
  ASSUME UNCHANGED <<data, index, pmtilesClosed>>, \A t \in DOMAIN index : file'[index[t] + 1] = file[index[t] + 1]
  PROVE  UNCHANGED PmtilesArchive!vars
BY DEF PmtilesArchive!vars

LEMMA PmtilesWriteMaps ==
  ASSUME SaveInv, NEW p \in SaveThreads, WriteTile(p)
  PROVE  UNCHANGED PmtilesArchive!vars
<1>1. /\ place[p] = "write" /\ file' = Append(file, data[curTile[p]]) /\ UNCHANGED <<data, index, closing>>
  BY DEF WriteTile
<1>2. SaveTypeOK /\ curTile[p] \in DOMAIN data
  BY <1>1 DEF SaveInv, TilesInOnePlace, Carried, Busy
<1>3. \A i \in DOMAIN file : file'[i] = file[i]
  BY <1>1, <1>2, FileGrows
<1>4. \A t \in DOMAIN index : index[t] + 1 \in DOMAIN file
  BY DEF SaveInv, OffsetsPoint, Written
<1> QED BY <1>1, <1>3, <1>4, PmtilesQuietMaps DEF pmtilesClosed

LEMMA IndexMaps ==
  ASSUME SaveInv, NEW p \in SaveThreads, IndexTile(p)
  PROVE  \E t \in DOMAIN data : PmtilesArchive!Write(t)
<1>0. PICK c \in DOMAIN data : c = curTile[p]
  BY DEF IndexTile, SaveInv, TilesInOnePlace, Carried, Busy
<1>1. /\ place[p] \in {"reuse", "new"}
      /\ index' = [t \in DOMAIN index \cup {c} |-> IF t = c THEN offset[p] ELSE index[t]]
      /\ UNCHANGED <<data, file, closing>>
  BY <1>0 DEF IndexTile
<1>2. c \in DOMAIN data /\ p \in Busy
  BY <1>1 DEF SaveInv, TilesInOnePlace, Carried, Busy
<1>3. pmtilesClosed = FALSE
  BY <1>2 DEF SaveInv, pmtilesClosed
<1>4. file[offset[p] + 1] = data[c]
  BY <1>0, <1>1 DEF SaveInv, OffsetsPoint, Written
<1>5. Saved' = [Saved EXCEPT ![c] = data[c]]
  <2>1. DOMAIN index' = DOMAIN index \cup {c} /\ index'[c] = offset[p] /\ \A t \in DOMAIN index : t # c => index'[t] = index[t]
    BY <1>1
  <2>2. \A t \in DOMAIN data : Saved'[t] = IF t = c THEN data[c] ELSE Saved[t]
    BY <1>1, <1>4, <2>1 DEF Saved
  <2>3. DOMAIN Saved' = DOMAIN data /\ DOMAIN Saved = DOMAIN data
    BY <1>1 DEF Saved
  <2> QED BY <1>1, <2>2, <2>3 DEF Saved
<1>6. PmtilesArchive!Write(c)
  BY <1>1, <1>3, <1>5 DEF PmtilesArchive!Write, Saved, pmtilesClosed
<1> QED BY <1>2, <1>6

LEMMA EndMaps ==
  ASSUME SaveInv, EndClose
  PROVE  PmtilesArchive!Close
<1>1. closing = "yes" /\ closing' = "done" /\ UNCHANGED <<data, file, index>>
  BY DEF EndClose, saving
<1>2. DOMAIN index = DOMAIN data
  <2>1. tileQueue = <<>> /\ Busy = {}
    BY <1>1 DEF SaveInv
  <2>2. ToSet(tileQueue) = {} /\ Carried = {}
    BY <2>1 DEF ToSet, Carried
  <2> QED BY <2>2 DEF SaveInv, TilesInOnePlace
<1>3. \A t \in DOMAIN data : Saved[t] = data[t]
  BY <1>2 DEF SaveInv, OffsetsPoint, Written, Saved
<1>4. Saved = data
  BY <1>3 DEF SaveInv, SaveTypeOK, Saved
<1> QED BY <1>1, <1>4 DEF PmtilesArchive!Close, Saved, pmtilesClosed

LEMMA PmtilesStepMaps == SaveInv /\ [NextPmtiles]_pmtilesVars => [PmtilesArchive!Next]_(PmtilesArchive!vars)
<1>1. SUFFICES ASSUME SaveInv, [NextPmtiles]_pmtilesVars PROVE PmtilesArchive!Next \/ UNCHANGED PmtilesArchive!vars
  OBVIOUS
<1>2. ASSUME NEW p \in SaveThreads, ThreadStep(p) PROVE PmtilesArchive!Next \/ UNCHANGED PmtilesArchive!vars
  <2>1. CASE TakeTileId(p) \/ LookUp(p)
    BY <2>1, PmtilesQuietMaps DEF TakeTileId, LookUp, pmtilesClosed
  <2>2. CASE WriteTile(p)
    BY <1>1, <2>2, PmtilesWriteMaps
  <2>3. CASE IndexTile(p)
    BY <1>1, <2>3, IndexMaps DEF PmtilesArchive!Next
  <2> QED BY <1>2, <2>1, <2>2, <2>3 DEF ThreadStep
<1>3. CASE Close
  <2>1. CASE BeginClose \/ AddTile
    <3>1. UNCHANGED <<data, index, file, pmtilesClosed>>
      BY <2>1 DEF BeginClose, AddTile, saving, pmtilesClosed
    <3> QED BY <3>1, PmtilesQuietMaps
  <2>2. CASE EndClose
    BY <1>1, <2>2, EndMaps DEF PmtilesArchive!Next
  <2> QED BY <1>3, <2>1, <2>2 DEF Close
<1>4. CASE UNCHANGED pmtilesVars
  <2>1. UNCHANGED <<data, index, file, pmtilesClosed>>
    BY <1>4 DEF pmtilesVars, pmtilesClosed
  <2> QED BY <2>1, PmtilesQuietMaps
<1> QED BY <1>1, <1>2, <1>3, <1>4 DEF NextPmtiles, PmtilesDone

(* Output to .pmtiles implements an archive: a tile appears once, with its *)
(* own data, and is never changed, whichever thread writes it, whether its *)
(* data is new or shared through the cache; closing finds all of them      *)
(* written (PMTiles::saveTile).                                            *)
THEOREM PmtilesRefinement == SpecPmtiles => PmtilesImplementsArchive
<1>1. InitPmtiles => PmtilesArchive!Init
  BY DEF InitPmtiles, PmtilesArchive!Init, pmtilesClosed
<1> QED BY <1>1, PmtilesStepMaps, SavingInvariance, PTL DEF SpecPmtiles, PmtilesImplementsArchive, PmtilesArchive!Spec
-----------------------------------------------------------------------------
(* The reader: binary search. *)

(* What is left to search is an interval; entries before it begin at or    *)
(* before the tile, entries after it begin after the tile.                 *)
Intervals(N) == [lo : 1..(N + 1), hi : 0..N]
Narrow(es, id, s) ==
  /\ s.lo <= s.hi + 1
  /\ \A i \in DOMAIN es : (i < s.lo => es[i].id <= id) /\ (i > s.hi => es[i].id > id)

LEMMA EntriesType ==
  ASSUME NEW es \in Seq(Entry)
  PROVE  /\ Len(es) \in Nat /\ DOMAIN es = 1..Len(es)
         /\ \A i \in DOMAIN es : es[i] \in Entry /\ es[i].id \in Nat /\ es[i].offset \in Nat /\ es[i].run \in Nat
<1>1. Len(es) \in Nat /\ DOMAIN es = 1..Len(es) /\ \A i \in 1..Len(es) : es[i] \in Entry
  BY LenProperties
<1>2. \A e \in Entry : e.id \in Nat /\ e.offset \in Nat /\ e.run \in Nat
  BY DEF Entry
<1> QED BY <1>1, <1>2

LEMMA MiddleFacts ==
  ASSUME NEW N \in Nat, NEW lo \in 1..(N + 1), NEW hi \in 0..N, lo <= hi
  PROVE  (lo + hi) \div 2 \in 1..N /\ lo <= (lo + hi) \div 2 /\ (lo + hi) \div 2 <= hi
OBVIOUS

LEMMA NarrowedCases ==
  ASSUME NEW es \in Seq(Entry), NEW id \in Nat, NEW s \in Intervals(Len(es))
  PROVE  /\ Narrowed(es, id, s) \in Intervals(Len(es))
         /\ s.lo > s.hi => Narrowed(es, id, s) = s
         /\ s.lo <= s.hi => \E k \in 1..Len(es) :
              /\ s.lo <= k /\ k <= s.hi
              /\ \/ id > es[k].id /\ Narrowed(es, id, s) = [lo |-> k + 1, hi |-> s.hi]
                 \/ id < es[k].id /\ Narrowed(es, id, s) = [lo |-> s.lo, hi |-> k - 1]
                 \/ id = es[k].id /\ Narrowed(es, id, s) = [lo |-> k + 1, hi |-> k]
<1> DEFINE N == Len(es)
           k == (s.lo + s.hi) \div 2
<1>1. N \in Nat /\ DOMAIN es = 1..N /\ \A i \in 1..N : es[i] \in Entry
  BY LenProperties
<1>2. s.lo \in 1..(N + 1) /\ s.hi \in 0..N
  BY DEF Intervals
<1>3. CASE s.lo > s.hi
  <2>1. ~(s.lo <= s.hi)
    BY <1>2, <1>3
  <2>2. Narrowed(es, id, s) = s
    BY <1>3, <2>1 DEF Narrowed
  <2> QED BY <2>1, <2>2
<1>4. CASE s.lo <= s.hi
  <2>1. k \in 1..N /\ s.lo <= k /\ k <= s.hi
    BY <1>1, <1>2, <1>4, MiddleFacts
  <2>2. es[k].id \in Nat
    BY <1>1, <2>1 DEF Entry
  <2>3. ~(s.lo > s.hi) /\ (id > es[k].id \/ id < es[k].id \/ id = es[k].id)
    BY <1>2, <1>4, <2>2
  <2>4. \/ id > es[k].id /\ Narrowed(es, id, s) = [lo |-> k + 1, hi |-> s.hi]
        \/ id < es[k].id /\ Narrowed(es, id, s) = [lo |-> s.lo, hi |-> k - 1]
        \/ id = es[k].id /\ Narrowed(es, id, s) = [lo |-> k + 1, hi |-> k]
    BY <1>4, <2>2, <2>3 DEF Narrowed
  <2> HIDE DEF k, N
  <2>5. k + 1 \in 1..(N + 1) /\ k - 1 \in 0..N /\ k \in 0..N
    BY <1>1, <2>1
  <2>6. Narrowed(es, id, s) \in Intervals(N)
    BY <1>2, <2>4, <2>5 DEF Intervals
  <2> QED BY <2>1, <2>3, <2>4, <2>6 DEF N
<1> QED BY <1>2, <1>3, <1>4

(* A round keeps what is known of the entries outside the interval, and    *)
(* makes the interval smaller.                                             *)
LEMMA NarrowedKeeps ==
  ASSUME NEW es \in Seq(Entry), NEW id \in Nat, NEW s \in Intervals(Len(es)), Narrow(es, id, s),
         \A i, j \in DOMAIN es : i < j => es[i].id < es[j].id, s.lo <= s.hi
  PROVE  LET t == Narrowed(es, id, s)
         IN  Narrow(es, id, t) /\ t.hi - t.lo < s.hi - s.lo
<1> DEFINE N == Len(es)
           t == Narrowed(es, id, s)
<1>1. N \in Nat /\ DOMAIN es = 1..N /\ \A i \in 1..N : es[i].id \in Nat
  BY EntriesType
<1>2. s.lo \in 1..(N + 1) /\ s.hi \in 0..N
  BY DEF Intervals
<1>3. PICK k \in 1..N :
              /\ s.lo <= k /\ k <= s.hi
              /\ \/ id > es[k].id /\ t = [lo |-> k + 1, hi |-> s.hi]
                 \/ id < es[k].id /\ t = [lo |-> s.lo, hi |-> k - 1]
                 \/ id = es[k].id /\ t = [lo |-> k + 1, hi |-> k]
  BY NarrowedCases
<1> HIDE DEF N, t
<1>4. \A i \in 1..N : (i < k => es[i].id < es[k].id) /\ (i > k => es[i].id > es[k].id)
  BY <1>1, <1>3
<1>5. \A i \in 1..N : (i < s.lo => es[i].id <= id) /\ (i > s.hi => es[i].id > id)
  BY <1>1 DEF Narrow
<1>6. \/ id > es[k].id /\ t.lo = k + 1 /\ t.hi = s.hi
      \/ id < es[k].id /\ t.lo = s.lo /\ t.hi = k - 1
      \/ id = es[k].id /\ t.lo = k + 1 /\ t.hi = k
  BY <1>3
<1>7. t.lo <= t.hi + 1 /\ t.hi - t.lo < s.hi - s.lo
  BY <1>1, <1>2, <1>3, <1>6
<1>8. ASSUME NEW i \in 1..N PROVE (i < t.lo => es[i].id <= id) /\ (i > t.hi => es[i].id > id)
  <2>1. es[i].id \in Nat /\ es[k].id \in Nat /\ (i < k => es[i].id < es[k].id) /\ (i > k => es[i].id > es[k].id)
        /\ (i < s.lo => es[i].id <= id) /\ (i > s.hi => es[i].id > id) /\ (i = k => es[i].id = es[k].id)
    BY <1>1, <1>4, <1>5
  <2> QED BY <1>1, <1>2, <1>3, <1>6, <2>1
<1> QED BY <1>1, <1>7, <1>8 DEF Narrow, t

(* The search ends at the last entry that begins at or before the tile.    *)
LEMMA SearchEnds ==
  ASSUME NEW es \in Seq(Entry), NEW id \in Nat, \A i, j \in DOMAIN es : i < j => es[i].id < es[j].id
  PROVE  \E k \in 0..Len(es) :
           /\ \A i \in DOMAIN es : (i <= k => es[i].id <= id) /\ (i > k => es[i].id > id)
           /\ FindTile(es, id) = IF k > 0 /\ (es[k].run = 0 \/ id - es[k].id < es[k].run) THEN es[k] ELSE NotFound
<1> DEFINE N == Len(es)
           X == Intervals(N)
           s0 == [lo |-> 1, hi |-> N]
           g == [s \in X |-> Narrowed(es, id, s)]
           Is(f) == f = [n \in 0..N |-> IF n = 0 THEN s0 ELSE Narrowed(es, id, f[n - 1])]
           after == CHOOSE f : Is(f)
<1>1. N \in Nat /\ DOMAIN es = 1..N
  BY LenProperties
<1>2. s0 \in X
  BY <1>1 DEF Intervals
<1>3. g \in [X -> X]
  BY NarrowedCases
<1>4. \E f : Is(f)
  <2>1. PICK f \in [0..N -> X] : f[0] = s0 /\ \A n \in 1..N : f[n] = g[f[n - 1]]
    <3>1. \E f \in [0..N -> X] : Iterates(f, s0, g, N)
      <4> HIDE DEF N, X, s0, g
      <4> QED BY <1>1, <1>2, <1>3, RecursionExists
    <3> QED BY <3>1 DEF Iterates
  <2>2. \A n \in 1..N : f[n - 1] \in X
    BY <1>1, <2>1
  <2>3. \A n \in 1..N : f[n] = Narrowed(es, id, f[n - 1])
    BY <2>1, <2>2
  <2>4. \A n \in 0..N : f[n] = IF n = 0 THEN s0 ELSE Narrowed(es, id, f[n - 1])
    BY <1>1, <2>1, <2>3
  <2>5. Is(f)
    <3> HIDE DEF X, s0
    <3> QED BY <2>1, <2>4
  <2> QED BY <2>5
<1>5. Is(after)
  BY <1>4
<1> HIDE DEF after
<1>6. after[0] = s0 /\ \A n \in 1..N : after[n] = Narrowed(es, id, after[n - 1])
  <2>1. 0 \in 0..N /\ \A n \in 1..N : n \in 0..N /\ n # 0
    BY <1>1
  <2> HIDE DEF s0
  <2> QED BY <1>5, <2>1
<1> DEFINE Q(n) == /\ after[n] \in X /\ Narrow(es, id, after[n])
                   /\ after[n].lo > after[n].hi \/ after[n].hi - after[n].lo + 1 <= N - n
           S == {n \in Nat : n <= N => Q(n)}
<1>7. 0 \in S
  <2>1. Narrow(es, id, s0) /\ s0.hi - s0.lo + 1 <= N - 0
    BY <1>1 DEF Narrow
  <2> QED BY <1>2, <1>6, <2>1
<1>8. ASSUME NEW n \in Nat, n \in S PROVE n + 1 \in S
  <2>1. SUFFICES ASSUME n + 1 <= N PROVE Q(n + 1)
    OBVIOUS
  <2>2. Q(n)
    BY <1>1, <1>8, <2>1
  <2> DEFINE s == after[n]
             t == after[n + 1]
  <2>3. t = Narrowed(es, id, s)
    <3>1. n + 1 \in 1..N /\ n + 1 - 1 = n
      BY <1>1, <2>1
    <3> QED BY <1>6, <3>1
  <2>4. s \in X /\ Narrow(es, id, s) /\ (s.lo > s.hi \/ s.hi - s.lo + 1 <= N - n)
    BY <2>2
  <2> HIDE DEF s, t
  <2>5. CASE s.lo > s.hi
    <3>1. t = s
      BY <2>3, <2>4, <2>5, NarrowedCases
    <3> QED BY <2>4, <2>5, <3>1 DEF t
  <2>6. CASE s.lo <= s.hi
    <3>1. t \in X /\ Narrow(es, id, t) /\ t.hi - t.lo < s.hi - s.lo
      BY <2>3, <2>4, <2>6, NarrowedCases, NarrowedKeeps
    <3>2. s.lo \in Int /\ s.hi \in Int /\ t.lo \in Int /\ t.hi \in Int
      BY <1>1, <2>4, <3>1 DEF Intervals
    <3>3. s.hi - s.lo + 1 <= N - n
      BY <2>4, <2>6, <3>2
    <3>4. t.hi - t.lo + 1 <= N - (n + 1)
      <4> HIDE DEF N
      <4> QED BY <1>1, <3>1, <3>2, <3>3
    <3> QED BY <3>1, <3>4 DEF t
  <2>7. s.lo \in Int /\ s.hi \in Int
    BY <1>1, <2>4 DEF Intervals
  <2> QED BY <2>5, <2>6, <2>7
<1> HIDE DEF S
<1>9. \A n \in Nat : n \in S
  BY <1>7, <1>8, SetInduction
<1>10. Q(N)
  BY <1>1, <1>9 DEF S
<1> DEFINE e == after[N]
           k == e.hi
<1>11. e.lo \in 1..(N + 1) /\ k \in 0..N
  BY <1>10 DEF Intervals
<1>12. e.lo = k + 1
  <2>1. e.lo <= k + 1 /\ (e.lo > k \/ k - e.lo + 1 <= N - N)
    BY <1>10 DEF Narrow
  <2> HIDE DEF e, k, N
  <2> QED BY <1>1, <1>11, <2>1
<1>13. \A i \in DOMAIN es : (i < k + 1 => es[i].id <= id) /\ (i > k => es[i].id > id)
  BY <1>10, <1>12 DEF Narrow
<1>14. FindTile(es, id) = IF k > 0 /\ (es[k].run = 0 \/ id - es[k].id < es[k].run) THEN es[k] ELSE NotFound
  BY DEF FindTile, after
<1> HIDE DEF k, N
<1>15. \A i \in DOMAIN es : i <= k => i < k + 1
  BY <1>1, <1>11
<1> QED BY <1>11, <1>13, <1>14, <1>15 DEF N

(* A tile that an entry covers is found there. *)
LEMMA FindsListed ==
  ASSUME NEW leaves, NEW es \in Seq(Entry), Ordered(leaves, es), NEW x \in Nat,
         NEW i \in DOMAIN es, Covers(es[i], x)
  PROVE  FindTile(es, x) = es[i]
<1>1. Len(es) \in Nat /\ DOMAIN es = 1..Len(es) /\ \A j \in DOMAIN es : es[j].id \in Nat /\ es[j].run \in Nat
  BY EntriesType
<1>2. \A j, k \in DOMAIN es : j < k => es[j].id < es[k].id /\ es[j].id + es[j].run <= es[k].id
  BY DEF Ordered, Before
<1>3. PICK k \in 0..Len(es) :
           /\ \A j \in DOMAIN es : (j <= k => es[j].id <= x) /\ (j > k => es[j].id > x)
           /\ FindTile(es, x) = IF k > 0 /\ (es[k].run = 0 \/ x - es[k].id < es[k].run) THEN es[k] ELSE NotFound
  BY <1>2, SearchEnds
<1>4. es[i].id <= x /\ x < es[i].id + es[i].run
  BY DEF Covers
<1>5. i <= k
  BY <1>1, <1>3, <1>4
<1>6. k \in DOMAIN es
  BY <1>1, <1>5
<1>7. i = k
  <2>1. SUFFICES ASSUME i < k PROVE FALSE
    BY <1>1, <1>5
  <2>2. es[i].id + es[i].run <= es[k].id /\ es[k].id <= x
    BY <1>2, <1>3, <1>6, <2>1
  <2> QED BY <1>1, <1>4, <1>6, <2>2
<1>8. k > 0 /\ x - es[k].id < es[k].run
  BY <1>1, <1>4, <1>7
<1> QED BY <1>3, <1>7, <1>8

(* A search that finds no entry for the tile ends at a pointer, the last   *)
(* one that begins at or before the tile, or nowhere.                      *)
LEMMA FindsPointer ==
  ASSUME NEW leaves, NEW es \in Seq(Entry), Ordered(leaves, es), NEW x \in Nat, ~Listed(es, x)
  PROVE  \/ /\ FindTile(es, x) = NotFound
            /\ \A j \in DOMAIN es : es[j].run = 0 /\ es[j].id <= x => \E k \in DOMAIN es : j < k /\ es[k].id <= x
         \/ \E k \in DOMAIN es : /\ FindTile(es, x) = es[k] /\ es[k].run = 0 /\ es[k].id <= x
                                 /\ \A j \in DOMAIN es : es[j].id <= x => j <= k
<1>1. Len(es) \in Nat /\ DOMAIN es = 1..Len(es) /\ \A j \in DOMAIN es : es[j].id \in Nat /\ es[j].run \in Nat
  BY EntriesType
<1>2. \A j, k \in DOMAIN es : j < k => es[j].id < es[k].id
  BY DEF Ordered, Before
<1>3. PICK k \in 0..Len(es) :
           /\ \A j \in DOMAIN es : (j <= k => es[j].id <= x) /\ (j > k => es[j].id > x)
           /\ FindTile(es, x) = IF k > 0 /\ (es[k].run = 0 \/ x - es[k].id < es[k].run) THEN es[k] ELSE NotFound
  BY <1>2, SearchEnds
<1>4. \A j \in DOMAIN es : es[j].id <= x => j <= k
  BY <1>1, <1>3
<1>5. CASE k = 0
  <2>1. FindTile(es, x) = NotFound
    BY <1>3, <1>5
  <2>2. \A j \in DOMAIN es : ~(es[j].id <= x)
    BY <1>1, <1>4, <1>5
  <2> QED BY <2>1, <2>2
<1>6. CASE k > 0
  <2>1. k \in DOMAIN es
    BY <1>1, <1>6
  <2>2. es[k].id <= x /\ es[k].id \in Nat /\ es[k].run \in Nat
    BY <1>1, <1>3, <2>1
  <2>3. ~(x < es[k].id + es[k].run)
    BY <2>1, <2>2 DEF Listed, Covers
  <2>4. CASE es[k].run = 0
    BY <1>3, <1>4, <1>6, <2>1, <2>2, <2>4
  <2>5. CASE es[k].run # 0
    <3>1. ~(x - es[k].id < es[k].run)
      BY <2>2, <2>3
    <3>2. FindTile(es, x) = NotFound
      BY <1>3, <2>5, <3>1
    <3>3. ASSUME NEW j \in DOMAIN es, es[j].run = 0, es[j].id <= x PROVE j < k
      <4>1. j <= k /\ j # k
        BY <1>4, <2>5, <3>3
      <4> QED BY <1>1, <4>1
    <3> QED BY <2>1, <2>2, <3>2, <3>3
  <2> QED BY <2>4, <2>5
<1> QED BY <1>1, <1>3, <1>5, <1>6

(* A search in a leaf for a tile that is not there. *)
LEMMA FindsNothing ==
  ASSUME NEW leaves, NEW es \in Seq(Entry), Ordered(leaves, es), OnlyTiles(es), NEW x \in Nat, ~Listed(es, x)
  PROVE  FindTile(es, x) = NotFound
<1>1. \A k \in DOMAIN es : es[k].run # 0
  BY EntriesType DEF OnlyTiles
<1> QED BY <1>1, FindsPointer

(* What the directories of a closed file give a reader. *)
LEMMA ReaderFinds ==
  ASSUME dirs \in Directories, DOMAIN index \subseteq Nat, DirectoriesHold(index, dirs, DOMAIN index),
         dirs.todo = {}, dirs.entries = <<>>, \A t \in DOMAIN index : index[t] \in Nat, NEW x \in Nat
  PROVE  GetTile(x) = IF x \in DOMAIN index THEN index[x] ELSE -1
<1> DEFINE root == dirs.root
           leaves == dirs.leaves
           e == FindTile(root, x)
<1>1. root \in Seq(Entry) /\ leaves \in Seq(Seq(Entry))
  BY DEF Directories
<1>2. \A k \in DOMAIN leaves : leaves[k] \in Seq(Entry)
  BY <1>1
<1> DEFINE done == DOMAIN index \ dirs.todo
           high == {y \in done : y >= FIRST_LEAF_TILE}
<1>3. done = DOMAIN index /\ high \subseteq DOMAIN index
  OBVIOUS
<1>4. /\ Within(index, root, DOMAIN index) /\ Ordered(leaves, root)
      /\ \A k \in DOMAIN leaves :
           /\ leaves[k] # <<>> /\ Within(index, leaves[k], high) /\ Ordered(leaves, leaves[k]) /\ OnlyTiles(leaves[k])
           /\ \E i \in DOMAIN root : root[i].run = 0 /\ root[i].offset + 1 = k
      /\ \A i \in DOMAIN root : root[i].run = 0 => PointsToLeaf(leaves, root[i])
      /\ \A y \in done : Listed(root, y) \/ Listed(dirs.entries, y) \/ \E k \in DOMAIN leaves : Listed(leaves[k], y)
  BY DEF DirectoriesHold, RootHolds, LeafHolds
<1>5. ~Listed(dirs.entries, x)
  <2>1. DOMAIN <<>> = {}
    OBVIOUS
  <2> QED BY <2>1 DEF Listed
<1>6. GetTile(x) = IF e # NotFound /\ e.run = 0 THEN FindTile(leaves[e.offset + 1], x).offset ELSE e.offset
  BY DEF GetTile
<1>7. \A i \in DOMAIN root : root[i] # NotFound /\ root[i].id \in Nat /\ root[i].run \in Nat /\ root[i].offset \in Nat
  <2>1. \A i \in DOMAIN root : root[i].id \in Nat /\ root[i].run \in Nat /\ root[i].offset \in Nat
    BY <1>1, EntriesType
  <2>2. NotFound.offset = -1 /\ NotFound.offset \notin Nat
    BY DEF NotFound
  <2> QED BY <2>1, <2>2
<1> HIDE DEF root, leaves, e, done, high
<1>8. CASE Listed(root, x)
  <2>1. PICK i \in DOMAIN root : Covers(root[i], x)
    BY <1>8 DEF Listed
  <2>2. e = root[i]
    BY <1>1, <1>4, <2>1, FindsListed DEF e
  <2>3. x \in DOMAIN index /\ index[x] = root[i].offset
    BY <1>4, <2>1 DEF Within
  <2>4. root[i].run # 0
    BY <1>7, <2>1 DEF Covers
  <2> QED BY <1>6, <2>2, <2>3, <2>4
<1>9. ASSUME ~Listed(root, x), NEW k \in DOMAIN leaves, Listed(leaves[k], x)
      PROVE  x \in DOMAIN index /\ GetTile(x) = index[x]
  <2> DEFINE leaf == leaves[k]
  <2>1. PICK mid \in DOMAIN leaf : Covers(leaf[mid], x)
    BY <1>9 DEF Listed
  <2>2. PICK i \in DOMAIN root : root[i].run = 0 /\ root[i].offset + 1 = k
    BY <1>4
  <2>3. leaf \in Seq(Entry) /\ Ordered(leaves, leaf) /\ Within(index, leaf, high) /\ leaf # <<>>
    BY <1>2, <1>4
  <2>4. Len(leaf) \in Nat /\ DOMAIN leaf = 1..Len(leaf) /\ \A j \in DOMAIN leaf : leaf[j].id \in Nat /\ leaf[j].run \in Nat
    BY <2>3, EntriesType
  <2>5. root[i].id = leaf[1].id
    BY <1>4, <2>2 DEF PointsToLeaf
  <2> HIDE DEF leaf
  <2>6. leaf[1].id <= leaf[mid].id
    <3>1. 1 \in DOMAIN leaf /\ (mid = 1 \/ 1 < mid)
      BY <2>1, <2>4
    <3>2. 1 < mid => leaf[1].id < leaf[mid].id
      BY <2>3, <3>1 DEF Ordered, Before
    <3> QED BY <2>4, <3>1, <3>2
  <2>7. leaf[mid].id <= x /\ x < leaf[mid].id + leaf[mid].run
    BY <2>1 DEF Covers
  <2>8. root[i].id <= x
    BY <1>7, <2>4, <2>5, <2>6, <2>7
  <2>9. \A j \in DOMAIN root : i < j => ~(root[j].id <= x)
    <3>1. SUFFICES ASSUME NEW j \in DOMAIN root, i < j, root[j].id <= x PROVE FALSE
      OBVIOUS
    <3>2. Before(leaves, root[i], root[j].id)
      BY <1>4, <3>1 DEF Ordered
    <3>3. leaf[mid].id + leaf[mid].run <= root[j].id
      BY <2>1, <2>2, <3>2 DEF Before, leaf
    <3> QED BY <1>7, <2>4, <2>7, <3>1, <3>3
  <2>10. e = root[i]
    <3>1. CASE /\ e = NotFound
               /\ \A j \in DOMAIN root : root[j].run = 0 /\ root[j].id <= x => \E l \in DOMAIN root : j < l /\ root[l].id <= x
      BY <2>2, <2>8, <2>9, <3>1
    <3>2. CASE \E l \in DOMAIN root : e = root[l] /\ root[l].run = 0 /\ root[l].id <= x
                                        /\ \A j \in DOMAIN root : root[j].id <= x => j <= l
      <4>1. PICK l \in DOMAIN root : e = root[l] /\ root[l].id <= x /\ i <= l
        BY <2>8, <3>2
      <4>2. ~(i < l)
        BY <2>9, <4>1
      <4>3. DOMAIN root \subseteq Nat
        BY <1>1, LenProperties
      <4>4. i = l
        BY <4>1, <4>2, <4>3
      <4> QED BY <4>1, <4>4
    <3> QED BY <1>1, <1>4, <1>9, <3>1, <3>2, FindsPointer DEF e
  <2>11. GetTile(x) = FindTile(leaf, x).offset
    BY <1>6, <1>7, <2>2, <2>10 DEF leaf
  <2>12. FindTile(leaf, x) = leaf[mid]
    BY <2>1, <2>3, FindsListed
  <2>13. x \in high /\ index[x] = leaf[mid].offset
    BY <2>1, <2>3 DEF Within
  <2> QED BY <1>3, <2>11, <2>12, <2>13
<1>10. ASSUME ~Listed(root, x), \A k \in DOMAIN leaves : ~Listed(leaves[k], x)
       PROVE  x \notin DOMAIN index /\ GetTile(x) = -1
  <2>1. x \notin DOMAIN index
    BY <1>3, <1>4, <1>5, <1>10
  <2>2. NotFound.offset = -1
    BY DEF NotFound
  <2>3. CASE e = NotFound
    BY <1>6, <2>1, <2>2, <2>3
  <2>4. CASE \E l \in DOMAIN root : e = root[l] /\ root[l].run = 0
    <3>1. PICK l \in DOMAIN root : e = root[l] /\ root[l].run = 0
      BY <2>4
    <3> DEFINE leaf == leaves[root[l].offset + 1]
    <3>2. root[l].offset + 1 \in DOMAIN leaves
      BY <1>4, <3>1 DEF PointsToLeaf
    <3>3. leaf \in Seq(Entry) /\ Ordered(leaves, leaf) /\ OnlyTiles(leaf) /\ ~Listed(leaf, x)
      BY <1>2, <1>4, <1>10, <3>2
    <3>4. GetTile(x) = FindTile(leaf, x).offset
      BY <1>6, <1>7, <3>1
    <3> HIDE DEF leaf
    <3>5. FindTile(leaf, x) = NotFound
      BY <3>3, FindsNothing
    <3> QED BY <2>1, <2>2, <3>4, <3>5
  <2> QED BY <1>1, <1>4, <1>10, <2>3, <2>4, FindsPointer DEF e
<1> QED BY <1>8, <1>9, <1>10

-----------------------------------------------------------------------------
(* Making directories. *)

(* appendWithRLE: the last entry is new, or one tile longer.               *)
LEMMA AppendedFacts ==
  ASSUME NEW es \in Seq(Entry), NEW id \in Nat, NEW off \in Nat
  PROVE  LET es2 == AppendWithRLE(es, id, off)
             mid == Len(es2)
             n == Len(es)
         IN  /\ es2 \in Seq(Entry) /\ mid \in Nat \ {0} /\ DOMAIN es2 = 1..mid
             /\ \A i \in 1..mid : i < mid => i \in DOMAIN es /\ es2[i] = es[i]
             /\ es2[mid].offset = off /\ es2[mid].run > 0 /\ es2[mid].id + es2[mid].run = id + 1
             /\ \/ mid = n /\ es2[mid].id = es[n].id /\ es2[mid].run = es[n].run + 1 /\ es[n].offset = off
                \/ mid = n + 1 /\ es2[mid].id = id /\ es2[mid].run = 1
<1> DEFINE es2 == AppendWithRLE(es, id, off)
           mid == Len(es2)
           n == Len(es)
<1>1. n \in Nat /\ DOMAIN es = 1..n /\ \A i \in DOMAIN es : es[i] \in Entry /\ es[i].id \in Nat /\ es[i].offset \in Nat /\ es[i].run \in Nat
  BY EntriesType
<1>2. CASE Continues(es, id, off)
  <2>1. es # <<>> /\ Last(es).offset = off /\ Last(es).id = id - Last(es).run
    BY <1>2 DEF Continues
  <2>2. n # 0 /\ Last(es) = es[n]
    BY <2>1, EmptySeq DEF Last
  <2>3. n \in DOMAIN es /\ es[n].id = id - es[n].run /\ es[n].offset = off
    BY <1>1, <2>1, <2>2
  <2> DEFINE e == [es[n] EXCEPT !.run = @ + 1]
  <2>4. e \in Entry /\ e.id = es[n].id /\ e.offset = off /\ e.run = es[n].run + 1
    BY <1>1, <2>3 DEF Entry
  <2>5. es2 = [es EXCEPT ![n] = e]
    BY <1>2 DEF AppendWithRLE
  <2> HIDE DEF e, es2
  <2>6. es2 \in Seq(Entry) /\ Len(es2) = n /\ DOMAIN es2 = 1..n
    BY <1>1, <2>3, <2>4, <2>5, ExceptSeq
  <2>7. es2[n] = e /\ \A i \in 1..n : i # n => es2[i] = es[i]
    BY <1>1, <2>3, <2>5
  <2>8. es2[n].id + es2[n].run = id + 1 /\ es2[n].run > 0
    <3>1. es[n].id \in Nat /\ es[n].run \in Nat
      BY <1>1, <2>3
    <3> QED BY <2>3, <2>4, <2>7, <3>1
  <2>9. \A i \in 1..n : i < n => i \in DOMAIN es /\ es2[i] = es[i]
    <3> HIDE DEF n
    <3>1. \A i \in 1..n : i < n => i # n
      BY <1>1
    <3> QED BY <1>1, <2>7, <3>1
  <2> QED BY <1>1, <2>2, <2>3, <2>4, <2>6, <2>7, <2>8, <2>9 DEF es2
<1>3. CASE ~Continues(es, id, off)
  <2> DEFINE e == [id |-> id, offset |-> off, run |-> 1]
  <2>1. e \in Entry /\ e.id = id /\ e.offset = off /\ e.run = 1
    BY DEF Entry
  <2>2. es2 = Append(es, e)
    BY <1>3 DEF AppendWithRLE
  <2> HIDE DEF e, es2
  <2>3. es2 \in Seq(Entry) /\ Len(es2) = n + 1 /\ es2[n + 1] = e
    BY <2>1, <2>2, AppendProperties
  <2>4. \A i \in 1..n : es2[i] = es[i]
    BY <2>1, <2>2, AppendProperties
  <2>5. DOMAIN es2 = 1..(n + 1)
    BY <2>3, LenProperties
  <2> HIDE DEF n
  <2>6. \A i \in 1..(n + 1) : i < n + 1 => i \in DOMAIN es /\ es2[i] = es[i]
    BY <1>1, <2>4
  <2>7. n + 1 \in Nat \ {0}
    BY <1>1
  <2> QED BY <2>1, <2>3, <2>5, <2>6, <2>7 DEF es2, n
<1> QED BY <1>2, <1>3

(* The directory es2 is es with one tile more. *)
Longer(leaves, es, es2, id, ix, S) ==
  /\ es2 \in Seq(Entry) /\ Ordered(leaves, es2) /\ Within(ix, es2, S \cup {id})
  /\ Listed(es2, id) /\ \A y \in Nat : Listed(es, y) => Listed(es2, y)
  /\ OnlyTiles(es) => OnlyTiles(es2)
  /\ \A i \in DOMAIN es2 : es2[i].run = 0 => i \in DOMAIN es /\ es2[i] = es[i]
  /\ \A i \in DOMAIN es : es[i].run = 0 => i \in DOMAIN es2 /\ es2[i] = es[i]
  /\ \A i \in DOMAIN es2 : es2[i].id = id \/ \E j \in DOMAIN es : es2[i].id = es[j].id
  /\ \/ Len(es2) = Len(es) /\ StartsIn(es2) = StartsIn(es)
     \/ Len(es2) = Len(es) + 1 /\ StartsIn(es2) = StartsIn(es) \cup {id}

(* What it does to a directory whose tiles lie before the new one.         *)
LEMMA AppendedHolds ==
  ASSUME NEW leaves, NEW es \in Seq(Entry), NEW id \in Nat, NEW ix, ix[id] \in Nat, NEW S, NEW es2,
         es2 = AppendWithRLE(es, id, ix[id]), Ordered(leaves, es), Within(ix, es, S),
         \A i \in DOMAIN es : Before(leaves, es[i], id)
  PROVE  Longer(leaves, es, es2, id, ix, S)
<1> DEFINE off == ix[id]
           mid == Len(es2)
           n == Len(es)
<1>1. n \in Nat /\ DOMAIN es = 1..n /\ \A i \in DOMAIN es : es[i].id \in Nat /\ es[i].offset \in Nat /\ es[i].run \in Nat
  BY EntriesType
<1>2. /\ es2 \in Seq(Entry) /\ mid \in Nat \ {0} /\ DOMAIN es2 = 1..mid
      /\ \A i \in 1..mid : i < mid => i \in DOMAIN es /\ es2[i] = es[i]
      /\ es2[mid].offset = off /\ es2[mid].run > 0 /\ es2[mid].id + es2[mid].run = id + 1
      /\ \/ mid = n /\ es2[mid].id = es[n].id /\ es2[mid].run = es[n].run + 1 /\ es[n].offset = off
         \/ mid = n + 1 /\ es2[mid].id = id /\ es2[mid].run = 1
  BY AppendedFacts
<1>3. \A i \in DOMAIN es2 : es2[i].id \in Nat /\ es2[i].run \in Nat
  BY <1>2, EntriesType
<1> HIDE DEF off, mid, n
<1>4. mid = n => n \in DOMAIN es /\ es[n].run > 0
  <2>1. SUFFICES ASSUME mid = n PROVE n \in DOMAIN es /\ es[n].run > 0
    OBVIOUS
  <2>2. n \in DOMAIN es /\ mid \in DOMAIN es2
    BY <1>1, <1>2, <2>1
  <2>3. es[n].id < id
    BY <2>2 DEF Before
  <2>4. es[n].id \in Nat /\ es[n].run \in Nat
    BY <1>1, <2>2
  <2>5. es2[mid].id = es[n].id /\ es2[mid].run = es[n].run + 1 /\ es2[mid].id + es2[mid].run = id + 1
    BY <1>1, <1>2, <2>1
  <2> QED BY <2>2, <2>3, <2>4, <2>5
<1>5. \A i \in DOMAIN es : i \in DOMAIN es2 /\ es2[i].id = es[i].id /\ (i # mid => es2[i] = es[i])
  <2>1. SUFFICES ASSUME NEW i \in DOMAIN es PROVE i \in DOMAIN es2 /\ es2[i].id = es[i].id /\ (i # mid => es2[i] = es[i])
    OBVIOUS
  <2>2. i \in 1..n /\ i \in 1..mid
    BY <1>1, <1>2
  <2>3. CASE i < mid
    BY <1>2, <2>2, <2>3
  <2>4. CASE i = mid
    <3>1. mid = n
      BY <1>1, <1>2, <2>2, <2>4
    <3> QED BY <1>1, <1>2, <2>2, <2>4, <3>1
  <2> QED BY <1>1, <1>2, <2>2, <2>3, <2>4
<1>6. Ordered(leaves, es2)
  <2>1. SUFFICES ASSUME NEW i \in 1..mid, NEW j \in 1..mid, i < j PROVE Before(leaves, es2[i], es2[j].id)
    BY <1>2 DEF Ordered
  <2>2. i < mid /\ i \in DOMAIN es /\ es2[i] = es[i]
    BY <1>2, <2>1
  <2>3. CASE j < mid
    BY <1>2, <2>1, <2>2, <2>3 DEF Ordered
  <2>4. CASE j = mid
    <3>1. CASE mid = n
      <4>1. Before(leaves, es[i], es[n].id)
        BY <1>1, <1>4, <2>1, <2>2, <2>4, <3>1 DEF Ordered
      <4>2. es2[j].id = es[n].id
        BY <1>1, <1>2, <2>4, <3>1
      <4> QED BY <2>2, <4>1, <4>2
    <3>2. CASE mid # n
      <4>1. es2[j].id = id
        BY <1>2, <2>4, <3>2
      <4> QED BY <2>2, <4>1
    <3> QED BY <3>1, <3>2
  <2> QED BY <1>2, <2>3, <2>4
<1>7. ASSUME NEW i \in DOMAIN es2, NEW y \in Nat, Covers(es2[i], y)
      PROVE  \/ i \in DOMAIN es /\ Covers(es[i], y) /\ es2[i].offset = es[i].offset
             \/ i = mid /\ y = id
  <2>1. CASE i # mid
    <3>1. i \in DOMAIN es /\ es2[i] = es[i]
      BY <1>2, <2>1
    <3> QED BY <1>7, <3>1
  <2>2. CASE i = mid
    <3>1. es2[mid].id <= y /\ y < id + 1
      BY <1>2, <1>7, <2>2 DEF Covers
    <3>2. CASE mid = n
      <4>1. es2[mid].id = es[n].id /\ es2[mid].run = es[n].run + 1 /\ n \in DOMAIN es /\ es2[mid].offset = es[n].offset
        BY <1>1, <1>2, <1>4, <3>2
      <4>2. es[n].id \in Nat /\ es[n].run \in Nat /\ es[n].id + es[n].run = id
        <5>1. es[n].id \in Nat /\ es[n].run \in Nat
          BY <1>1, <4>1
        <5>2. es2[mid].id + es2[mid].run = id + 1
          BY <1>2
        <5> DEFINE a == es[n].id
                   b == es[n].run
        <5>3. a + (b + 1) = id + 1 /\ a \in Nat /\ b \in Nat
          BY <4>1, <5>1, <5>2
        <5> HIDE DEF a, b
        <5>4. a + b = id
          BY <5>3
        <5> QED BY <5>1, <5>4 DEF a, b
      <4>3. y = id \/ (es[n].id <= y /\ y < es[n].id + es[n].run)
        BY <3>1, <4>1, <4>2
      <4> QED BY <2>2, <3>2, <4>1, <4>3 DEF Covers
    <3>3. CASE mid # n
      <4>1. es2[mid].id = id
        BY <1>2, <3>3
      <4> QED BY <2>2, <3>1, <4>1
    <3> QED BY <3>2, <3>3
  <2> QED BY <2>1, <2>2
<1>8. Within(ix, es2, S \cup {id})
  <2>1. SUFFICES ASSUME NEW i \in DOMAIN es2, NEW y \in Nat, Covers(es2[i], y)
                 PROVE  y \in S \cup {id} /\ ix[y] = es2[i].offset
    BY DEF Within
  <2>2. CASE i \in DOMAIN es /\ Covers(es[i], y) /\ es2[i].offset = es[i].offset
    BY <2>2 DEF Within
  <2>3. CASE i = mid /\ y = id
    BY <1>2, <2>3 DEF off
  <2> QED BY <1>7, <2>1, <2>2, <2>3
<1>9. Listed(es2, id)
  <2>1. mid \in DOMAIN es2 /\ es2[mid].id \in Nat /\ es2[mid].run \in Nat
    BY <1>2, <1>3
  <2>2. es2[mid].id <= id /\ id < es2[mid].id + es2[mid].run
    BY <1>2, <2>1
  <2> QED BY <2>1, <2>2 DEF Listed, Covers
<1>10. ASSUME NEW y \in Nat, Listed(es, y) PROVE Listed(es2, y)
  <2>1. PICK i \in DOMAIN es : Covers(es[i], y)
    BY <1>10 DEF Listed
  <2>2. CASE i # mid
    BY <1>5, <2>1, <2>2 DEF Listed
  <2>3. CASE i = mid
    <3>1. mid = n
      BY <1>1, <1>2, <2>1, <2>3
    <3>2. es2[mid].id = es[n].id /\ es2[mid].run = es[n].run + 1 /\ es[n].id \in Nat /\ es[n].run \in Nat
      BY <1>1, <1>2, <1>4, <3>1
    <3>3. Covers(es2[mid], y)
      BY <2>1, <2>3, <3>1, <3>2 DEF Covers
    <3> QED BY <1>5, <2>1, <2>3, <3>3 DEF Listed
  <2> QED BY <2>2, <2>3
<1>11. OnlyTiles(es) => OnlyTiles(es2)
  BY <1>2 DEF OnlyTiles
<1>12. \A i \in DOMAIN es2 : es2[i].run = 0 => i \in DOMAIN es /\ es2[i] = es[i]
  BY <1>2
<1>13. \A i \in DOMAIN es : es[i].run = 0 => i \in DOMAIN es2 /\ es2[i] = es[i]
  <2>1. \A i \in DOMAIN es : es[i].run = 0 => i # mid
    <3>1. \A i \in DOMAIN es : i = mid => mid = n
      BY <1>1, <1>2
    <3> QED BY <1>4, <3>1
  <2> QED BY <1>5, <2>1
<1>14. \A i \in DOMAIN es2 : es2[i].id = id \/ \E j \in DOMAIN es : es2[i].id = es[j].id
  BY <1>2, <1>4
<1>15. \/ mid = n /\ StartsIn(es2) = StartsIn(es)
       \/ mid = n + 1 /\ StartsIn(es2) = StartsIn(es) \cup {id}
  <2>1. CASE mid = n
    <3>1. DOMAIN es2 = DOMAIN es /\ \A i \in DOMAIN es : es2[i].id = es[i].id /\ (es2[i].run > 0 <=> es[i].run > 0)
      BY <1>1, <1>2, <1>4, <1>5, <2>1
    <3> QED BY <2>1, <3>1 DEF StartsIn
  <2>2. CASE mid # n
    <3>1. mid = n + 1 /\ es2[mid].id = id /\ es2[mid].run = 1 /\ mid \notin DOMAIN es /\ DOMAIN es2 = DOMAIN es \cup {mid}
      BY <1>1, <1>2, <2>2
    <3>2. \A i \in DOMAIN es : es2[i] = es[i]
      BY <1>5, <3>1
    <3>3. es2[mid].run > 0
      BY <3>1
    <3> QED BY <3>1, <3>2, <3>3 DEF StartsIn
  <2> QED BY <2>1, <2>2
<1> QED BY <1>2, <1>6, <1>8, <1>9, <1>10, <1>11, <1>12, <1>13, <1>14, <1>15 DEF Longer, mid, n

(* Tiles that are covered by a tile entry lie before what is still to do.  *)
LEMMA TileBefore ==
  ASSUME NEW ix, NEW es \in Seq(Entry), NEW S, Within(ix, es, S), NEW y \in Nat, \A x \in S \cap Nat : x < y,
         NEW i \in DOMAIN es, es[i].run > 0
  PROVE  es[i].id < y /\ es[i].id + es[i].run <= y
<1> DEFINE a == es[i].id
           b == es[i].run
<1>1. a \in Nat /\ b \in Nat /\ b > 0
  BY EntriesType
<1>2. a + b - 1 \in Nat /\ a <= a + b - 1 /\ a + b - 1 < a + b
  BY <1>1
<1>3. a + b - 1 \in S
  BY <1>2 DEF Within, Covers
<1>4. a + b - 1 < y
  BY <1>2, <1>3
<1> HIDE DEF a, b
<1>5. a < y /\ a + b <= y
  BY <1>1, <1>2, <1>4
<1> QED BY <1>5 DEF a, b

LEMMA AllBefore ==
  ASSUME NEW ix, DOMAIN ix \subseteq Nat, NEW d \in Directories, NEW low \in SUBSET (DOMAIN ix \ d.todo),
         DirectoriesHold(ix, d, low), NEW y \in d.todo
  PROVE  /\ \A i \in DOMAIN d.root : Before(d.leaves, d.root[i], y)
         /\ \A i \in DOMAIN d.entries : Before(d.leaves, d.entries[i], y)
<1> DEFINE done == DOMAIN ix \ d.todo
           high == {x \in done : x >= FIRST_LEAF_TILE}
<1>1. /\ d.root \in Seq(Entry) /\ d.entries \in Seq(Entry) /\ d.leaves \in Seq(Seq(Entry)) /\ y \in Nat
  BY DEF Directories
<1>2. /\ \A x \in done : x < y
      /\ Within(ix, d.root, low) /\ Within(ix, d.entries, high) /\ OnlyTiles(d.entries)
      /\ \A i \in DOMAIN d.root : d.root[i].run = 0 => PointsToLeaf(d.leaves, d.root[i])
      /\ \A k \in DOMAIN d.leaves : d.leaves[k] # <<>> /\ Within(ix, d.leaves[k], high) /\ OnlyTiles(d.leaves[k])
  BY DEF DirectoriesHold, RootHolds, LeafHolds
<1>3. (\A x \in low \cap Nat : x < y) /\ (\A x \in high \cap Nat : x < y)
  BY <1>2
<1> HIDE DEF done, high
<1>4. ASSUME NEW i \in DOMAIN d.root PROVE Before(d.leaves, d.root[i], y)
  <2>1. d.root[i].run \in Nat
    BY <1>1, EntriesType
  <2>2. CASE d.root[i].run > 0
    <3>1. d.root[i].id < y /\ d.root[i].id + d.root[i].run <= y
      BY <1>1, <1>2, <1>3, <2>2, TileBefore
    <3> QED BY <2>1, <2>2, <3>1 DEF Before
  <2>3. CASE d.root[i].run = 0
    <3> DEFINE k == d.root[i].offset + 1
               leaf == d.leaves[k]
    <3>1. k \in DOMAIN d.leaves /\ leaf[1].id = d.root[i].id
      BY <1>2, <2>3 DEF PointsToLeaf
    <3>2. leaf \in Seq(Entry) /\ leaf # <<>> /\ Within(ix, leaf, high) /\ OnlyTiles(leaf)
      BY <1>1, <1>2, <3>1
    <3>3. \A mid \in DOMAIN leaf : leaf[mid].id < y /\ leaf[mid].id + leaf[mid].run <= y
      <4> HIDE DEF leaf
      <4>1. \A mid \in DOMAIN leaf : leaf[mid].run > 0
        BY <3>2 DEF OnlyTiles
      <4> QED BY <1>1, <1>3, <3>2, <4>1, TileBefore
    <3>4. 1 \in DOMAIN leaf
      <4> HIDE DEF leaf
      <4> QED BY <3>2, EmptySeq, EntriesType
    <3>5. d.root[i].id < y
      BY <3>1, <3>3, <3>4
    <3>6. d.root[i].id \in Nat
      BY <1>1, EntriesType
    <3>7. d.root[i].id + d.root[i].run <= y
      BY <1>1, <2>3, <3>5, <3>6
    <3> QED BY <3>3, <3>5, <3>7 DEF Before
  <2> QED BY <2>1, <2>2, <2>3
<1>5. ASSUME NEW i \in DOMAIN d.entries PROVE Before(d.leaves, d.entries[i], y)
  <2>1. d.entries[i].run > 0 /\ d.entries[i].run \in Nat
    BY <1>1, <1>2, EntriesType DEF OnlyTiles
  <2>2. d.entries[i].id < y /\ d.entries[i].id + d.entries[i].run <= y
    BY <1>1, <1>2, <1>3, <2>1, TileBefore
  <2> QED BY <2>1, <2>2 DEF Before
<1> QED BY <1>4, <1>5

(* A new leaf changes nothing for the entries there are.                   *)
LEMMA BeforeKept ==
  ASSUME NEW leaves \in Seq(Seq(Entry)), NEW leaf \in Seq(Entry), NEW e, e.run = 0 => e.offset + 1 \in DOMAIN leaves,
         NEW x, Before(leaves, e, x)
  PROVE  Before(Append(leaves, leaf), e, x)
<1> DEFINE l2 == Append(leaves, leaf)
<1>1. \A k \in DOMAIN leaves : l2[k] = leaves[k]
  BY AppendProperties, LenProperties
<1> HIDE DEF l2
<1> QED BY <1>1 DEF Before, l2

LEMMA OrderedKept ==
  ASSUME NEW leaves \in Seq(Seq(Entry)), NEW leaf \in Seq(Entry), NEW es, Ordered(leaves, es),
         \A i \in DOMAIN es : es[i].run = 0 => es[i].offset + 1 \in DOMAIN leaves
  PROVE  Ordered(Append(leaves, leaf), es)
BY BeforeKept DEF Ordered

(* flushEntries keeps what the directories hold.                           *)
LEMMA FlushHolds ==
  ASSUME NEW ix, DOMAIN ix \subseteq Nat, NEW d \in Directories, NEW low, DirectoriesHold(ix, d, low), d.entries # <<>>,
         NEW d2, d2 = FlushEntries(d)
  PROVE  /\ d2 \in Directories /\ d2.todo = d.todo /\ d2.count = d.count /\ d2.entries = <<>>
         /\ d2.leaves = Append(d.leaves, d.entries)
         /\ DirectoriesHold(ix, d2, low)
<1> DEFINE done == DOMAIN ix \ d.todo
           high == {x \in done : x >= FIRST_LEAF_TILE}
           entries == d.entries
           leaves == d.leaves
           root == d.root
           K == Len(leaves)
           ptr == [id |-> entries[1].id, offset |-> K, run |-> 0]
           leaves2 == Append(leaves, entries)
           root2 == Append(root, ptr)
           N == Len(root)
<1>1. /\ root \in Seq(Entry) /\ entries \in Seq(Entry) /\ leaves \in Seq(Seq(Entry)) /\ entries # <<>>
      /\ d.todo \in SUBSET Nat /\ d.count \in Nat
  BY DEF Directories
<1>2. /\ \A x \in done, y \in d.todo : x < y
      /\ Within(ix, root, low) /\ Ordered(leaves, root)
      /\ \A i \in DOMAIN root : root[i].run = 0 => PointsToLeaf(leaves, root[i])
      /\ \A k \in DOMAIN leaves : \E i \in DOMAIN root : root[i].run = 0 /\ root[i].offset + 1 = k
      /\ Within(ix, entries, high) /\ Ordered(leaves, entries) /\ OnlyTiles(entries)
      /\ \A k \in DOMAIN leaves : leaves[k] # <<>> /\ Within(ix, leaves[k], high) /\ Ordered(leaves, leaves[k]) /\ OnlyTiles(leaves[k])
      /\ \A i \in DOMAIN root, j \in DOMAIN entries : Before(leaves, root[i], entries[j].id)
      /\ \A x \in done : Listed(root, x) \/ Listed(entries, x) \/ \E k \in DOMAIN leaves : Listed(leaves[k], x)
  BY DEF DirectoriesHold, RootHolds, LeafHolds
<1>3. K \in Nat /\ DOMAIN leaves = 1..K /\ N \in Nat /\ DOMAIN root = 1..N
  BY <1>1, LenProperties
<1>4. 1 \in DOMAIN entries /\ entries[1].id \in Nat
  <2> HIDE DEF entries
  <2> QED BY <1>1, EmptySeq, EntriesType
<1>5. ptr \in Entry /\ ptr.run = 0 /\ ptr.offset = K /\ ptr.id = entries[1].id
  BY <1>3, <1>4 DEF Entry
<1>6. d2 = [d EXCEPT !.leaves = leaves2, !.root = root2, !.entries = <<>>]
  BY <1>1 DEF FlushEntries
<1> HIDE DEF ptr, high
<1>7. /\ leaves2 \in Seq(Seq(Entry)) /\ DOMAIN leaves2 = 1..(K + 1) /\ leaves2[K + 1] = entries
      /\ \A k \in 1..K : leaves2[k] = leaves[k]
  <2>1. leaves2 \in Seq(Seq(Entry)) /\ Len(leaves2) = K + 1 /\ leaves2[K + 1] = entries
    BY <1>1, AppendProperties
  <2>2. \A k \in 1..K : leaves2[k] = leaves[k]
    BY <1>1, AppendProperties
  <2> QED BY <2>1, <2>2, LenProperties
<1>8. /\ root2 \in Seq(Entry) /\ DOMAIN root2 = 1..(N + 1) /\ root2[N + 1] = ptr
      /\ \A i \in 1..N : root2[i] = root[i]
  <2>1. root2 \in Seq(Entry) /\ Len(root2) = N + 1 /\ root2[N + 1] = ptr
    BY <1>1, <1>5, AppendProperties
  <2>2. \A i \in 1..N : root2[i] = root[i]
    BY <1>1, <1>5, AppendProperties
  <2> QED BY <2>1, <2>2, LenProperties
<1>9. <<>> \in Seq(Entry) /\ DOMAIN <<>> = {}
  OBVIOUS
<1>10. /\ d2 \in Directories /\ d2.root = root2 /\ d2.leaves = leaves2 /\ d2.entries = <<>>
       /\ d2.todo = d.todo /\ d2.count = d.count
  BY <1>6, <1>7, <1>8, <1>9 DEF Directories
<1> HIDE DEF root2, root, entries, K, N
<1>11. \A i \in DOMAIN root : root[i].run = 0 => root[i].offset + 1 \in DOMAIN leaves
  BY <1>2 DEF PointsToLeaf
<1>12. Ordered(leaves2, root)
  BY <1>1, <1>2, <1>11, OrderedKept
<1>13. ASSUME NEW k \in DOMAIN leaves PROVE Ordered(leaves2, leaves[k])
  <2>1. \A i \in DOMAIN leaves[k] : leaves[k][i].run # 0
    BY <1>2 DEF OnlyTiles
  <2> QED BY <1>1, <1>2, <2>1, OrderedKept
<1>14. Ordered(leaves2, entries)
  <2>1. \A i \in DOMAIN entries : entries[i].run # 0
    BY <1>2 DEF OnlyTiles
  <2> QED BY <1>1, <1>2, <2>1, OrderedKept
<1>15. \A i \in DOMAIN root : Before(leaves2, root[i], ptr.id)
  <2>1. \A i \in DOMAIN root : Before(leaves, root[i], ptr.id)
    BY <1>2, <1>4, <1>5
  <2> QED BY <1>1, <1>11, <2>1, BeforeKept
<1> HIDE DEF leaves2, leaves
<1>16. Ordered(leaves2, root2)
  <2>1. SUFFICES ASSUME NEW i \in 1..(N + 1), NEW j \in 1..(N + 1), i < j PROVE Before(leaves2, root2[i], root2[j].id)
    BY <1>8 DEF Ordered
  <2>2. i \in 1..N
    BY <1>3, <2>1
  <2>3. CASE j = N + 1
    BY <1>3, <1>8, <1>15, <2>2, <2>3
  <2>4. CASE j # N + 1
    <3>1. j \in 1..N
      BY <1>3, <2>4
    <3> QED BY <1>3, <1>8, <1>12, <2>1, <2>2, <3>1 DEF Ordered
  <2> QED BY <2>3, <2>4
<1>17. \A i \in 1..(N + 1) : i \in 1..N \/ i = N + 1
  BY <1>3
<1>18. \A k \in 1..(K + 1) : k \in 1..K \/ k = K + 1
  BY <1>3
<1>19. 1..N \subseteq 1..(N + 1) /\ N + 1 \in 1..(N + 1) /\ 1..K \subseteq 1..(K + 1) /\ K + 1 \in 1..(K + 1)
  BY <1>3
<1>20. Within(ix, root2, low)
  <2>1. \A x \in Nat : ~Covers(ptr, x)
    BY <1>4, <1>5 DEF Covers
  <2> QED BY <1>2, <1>3, <1>8, <1>17, <2>1 DEF Within
<1>21. \A i \in DOMAIN root2 : root2[i].run = 0 => PointsToLeaf(leaves2, root2[i])
  <2>1. SUFFICES ASSUME NEW i \in DOMAIN root2, root2[i].run = 0 PROVE PointsToLeaf(leaves2, root2[i])
    OBVIOUS
  <2>2. CASE i \in 1..N
    <3>1. root2[i] = root[i] /\ PointsToLeaf(leaves, root[i])
      BY <1>2, <1>3, <1>8, <2>1, <2>2
    <3> QED BY <1>3, <1>7, <1>19, <3>1 DEF PointsToLeaf
  <2>3. CASE i = N + 1
    <3>1. root2[i] = ptr
      BY <1>8, <2>3
    <3> QED BY <1>5, <1>7, <1>19, <3>1 DEF PointsToLeaf
  <2> QED BY <1>8, <1>17, <2>2, <2>3
<1>22. \A k \in DOMAIN leaves2 : \E i \in DOMAIN root2 : root2[i].run = 0 /\ root2[i].offset + 1 = k
  <2>1. SUFFICES ASSUME NEW k \in DOMAIN leaves2 PROVE \E i \in DOMAIN root2 : root2[i].run = 0 /\ root2[i].offset + 1 = k
    OBVIOUS
  <2>2. CASE k \in 1..K
    <3>1. PICK i \in DOMAIN root : root[i].run = 0 /\ root[i].offset + 1 = k
      BY <1>2, <1>3, <2>2
    <3> QED BY <1>3, <1>8, <1>19, <3>1
  <2>3. CASE k = K + 1
    BY <1>5, <1>8, <1>19, <2>3
  <2> QED BY <1>7, <1>18, <2>2, <2>3
<1>23. \A k \in DOMAIN leaves2 : leaves2[k] # <<>> /\ LeafHolds(ix, leaves2, leaves2[k], high)
  <2>1. SUFFICES ASSUME NEW k \in DOMAIN leaves2 PROVE leaves2[k] # <<>> /\ LeafHolds(ix, leaves2, leaves2[k], high)
    OBVIOUS
  <2>2. CASE k \in 1..K
    <3>1. leaves2[k] = leaves[k] /\ k \in DOMAIN leaves
      BY <1>3, <1>7, <2>2
    <3> QED BY <1>2, <1>13, <3>1 DEF LeafHolds
  <2>3. CASE k = K + 1
    <3>1. leaves2[k] = entries
      BY <1>7, <2>3
    <3> QED BY <1>1, <1>2, <1>14, <3>1 DEF LeafHolds
  <2> QED BY <1>7, <1>18, <2>2, <2>3
<1>24. ASSUME NEW x \in done PROVE Listed(root2, x) \/ \E k \in DOMAIN leaves2 : Listed(leaves2[k], x)
  <2>1. CASE Listed(root, x)
    BY <1>3, <1>8, <1>19, <2>1 DEF Listed
  <2>2. CASE Listed(entries, x)
    BY <1>7, <1>19, <2>2
  <2>3. ASSUME NEW k \in DOMAIN leaves, Listed(leaves[k], x) PROVE \E l \in DOMAIN leaves2 : Listed(leaves2[l], x)
    BY <1>3, <1>7, <1>19, <2>3
  <2> QED BY <1>2, <2>1, <2>2, <2>3
<1>25. LeafHolds(ix, leaves2, <<>>, high)
  BY <1>9 DEF LeafHolds, Within, Ordered, OnlyTiles
<1>26. DirectoriesHold(ix, d2, low)
  BY <1>2, <1>9, <1>10, <1>16, <1>20, <1>21, <1>22, <1>23, <1>24, <1>25 DEF DirectoriesHold, RootHolds, high
<1> QED BY <1>10, <1>26 DEF leaves2, leaves, entries

LEMMA WithinMore ==
  ASSUME NEW ix, NEW d, NEW low, NEW low2, low \subseteq low2, DirectoriesHold(ix, d, low)
  PROVE  DirectoriesHold(ix, d, low2)
<1>1. Within(ix, d.root, low) => Within(ix, d.root, low2)
  BY DEF Within
<1> QED BY <1>1 DEF DirectoriesHold, RootHolds

(* close(): the last entries go to the root of a small tileset.            *)
LEMMA RootOnlyHolds ==
  ASSUME NEW ix, DOMAIN ix \subseteq Nat, NEW d \in Directories, NEW low \in SUBSET DOMAIN ix, DirectoriesHold(ix, d, low),
         NEW d2, d2 = [d EXCEPT !.root = @ \o d.entries, !.entries = <<>>]
  PROVE  /\ d2 \in Directories /\ d2.todo = d.todo /\ d2.count = d.count /\ d2.entries = <<>> /\ d2.leaves = d.leaves
         /\ DirectoriesHold(ix, d2, DOMAIN ix)
<1> DEFINE done == DOMAIN ix \ d.todo
           high == {x \in done : x >= FIRST_LEAF_TILE}
           entries == d.entries
           leaves == d.leaves
           root == d.root
           root2 == root \o entries
           N == Len(root)
           M == Len(entries)
<1>1. root \in Seq(Entry) /\ entries \in Seq(Entry) /\ leaves \in Seq(Seq(Entry)) /\ d.todo \in SUBSET Nat /\ d.count \in Nat
  BY DEF Directories
<1>2. /\ \A x \in done, y \in d.todo : x < y
      /\ Within(ix, root, low) /\ Ordered(leaves, root)
      /\ \A i \in DOMAIN root : root[i].run = 0 => PointsToLeaf(leaves, root[i])
      /\ \A k \in DOMAIN leaves : \E i \in DOMAIN root : root[i].run = 0 /\ root[i].offset + 1 = k
      /\ Within(ix, entries, high) /\ Ordered(leaves, entries) /\ OnlyTiles(entries)
      /\ \A k \in DOMAIN leaves : leaves[k] # <<>> /\ LeafHolds(ix, leaves, leaves[k], high)
      /\ \A i \in DOMAIN root, j \in DOMAIN entries : Before(leaves, root[i], entries[j].id)
      /\ \A x \in done : Listed(root, x) \/ Listed(entries, x) \/ \E k \in DOMAIN leaves : Listed(leaves[k], x)
  BY DEF DirectoriesHold, RootHolds, LeafHolds
<1>3. N \in Nat /\ DOMAIN root = 1..N /\ M \in Nat /\ DOMAIN entries = 1..M
  BY <1>1, LenProperties
<1>4. /\ root2 \in Seq(Entry) /\ DOMAIN root2 = 1..(N + M)
      /\ \A i \in 1..(N + M) : root2[i] = IF i <= N THEN root[i] ELSE entries[i - N]
  <2>1. root2 \in Seq(Entry) /\ Len(root2) = N + M
        /\ \A i \in 1..(N + M) : root2[i] = IF i <= N THEN root[i] ELSE entries[i - N]
    BY <1>1, ConcatProperties
  <2> QED BY <2>1, LenProperties
<1>5. <<>> \in Seq(Entry) /\ DOMAIN <<>> = {}
  OBVIOUS
<1>6. /\ d2 \in Directories /\ d2.root = root2 /\ d2.leaves = leaves /\ d2.entries = <<>>
      /\ d2.todo = d.todo /\ d2.count = d.count
  BY <1>4, <1>5 DEF Directories
<1> HIDE DEF root2, root, entries, leaves, N, M, high
<1>7. ASSUME NEW i \in 1..(N + M)
      PROVE  \/ i \in DOMAIN root /\ root2[i] = root[i]
             \/ i > N /\ i - N \in DOMAIN entries /\ root2[i] = entries[i - N]
  <2>1. CASE i <= N
    BY <1>3, <1>4, <2>1
  <2>2. CASE i > N
    <3>1. i - N \in 1..M /\ ~(i <= N)
      BY <1>3, <2>2
    <3> QED BY <1>3, <1>4, <2>2, <3>1
  <2> QED BY <1>3, <2>1, <2>2
<1>8. \A i \in DOMAIN root : i \in DOMAIN root2 /\ root2[i] = root[i] /\ i <= N
  BY <1>3, <1>4
<1>9. \A j \in DOMAIN entries : j + N \in DOMAIN root2 /\ root2[j + N] = entries[j]
  <2>1. SUFFICES ASSUME NEW j \in 1..M PROVE j + N \in 1..(N + M) /\ root2[j + N] = entries[j]
    BY <1>3, <1>4
  <2>2. PICK i \in 1..(N + M) : i = j + N /\ ~(i <= N) /\ i - N = j
    BY <1>3
  <2> QED BY <1>4, <2>2
<1>10. Ordered(leaves, root2)
  <2>1. SUFFICES ASSUME NEW i \in 1..(N + M), NEW j \in 1..(N + M), i < j PROVE Before(leaves, root2[i], root2[j].id)
    BY <1>4 DEF Ordered
  <2>2. CASE i \in DOMAIN root /\ root2[i] = root[i]
    <3>1. CASE j \in DOMAIN root /\ root2[j] = root[j]
      BY <1>2, <2>1, <2>2, <3>1 DEF Ordered
    <3>2. CASE j - N \in DOMAIN entries /\ root2[j] = entries[j - N]
      BY <1>2, <2>2, <3>2
    <3> QED BY <1>7, <3>1, <3>2
  <2>3. CASE i > N /\ i - N \in DOMAIN entries /\ root2[i] = entries[i - N]
    <3>1. j > N
      BY <1>3, <2>1, <2>3
    <3>2. j \notin DOMAIN root
      BY <1>3, <3>1
    <3>3. j - N \in DOMAIN entries /\ root2[j] = entries[j - N]
      BY <1>7, <3>2
    <3>4. i - N < j - N
      BY <1>3, <2>1
    <3> QED BY <1>2, <2>3, <3>3, <3>4 DEF Ordered
  <2> QED BY <1>7, <2>2, <2>3
<1>11. Within(ix, root2, DOMAIN ix)
  <2>1. SUFFICES ASSUME NEW i \in 1..(N + M), NEW x \in Nat, Covers(root2[i], x) PROVE x \in DOMAIN ix /\ ix[x] = root2[i].offset
    BY <1>4 DEF Within
  <2>2. CASE i \in DOMAIN root /\ root2[i] = root[i]
    BY <1>2, <2>1, <2>2 DEF Within
  <2>3. CASE i - N \in DOMAIN entries /\ root2[i] = entries[i - N]
    BY <1>2, <2>1, <2>3 DEF Within, high
  <2> QED BY <1>7, <2>2, <2>3
<1>12. \A j \in DOMAIN entries : entries[j].run # 0
  BY <1>2 DEF OnlyTiles
<1>13. \A i \in DOMAIN root2 : root2[i].run = 0 => PointsToLeaf(leaves, root2[i])
  BY <1>2, <1>4, <1>7, <1>12
<1>14. \A k \in DOMAIN leaves : \E i \in DOMAIN root2 : root2[i].run = 0 /\ root2[i].offset + 1 = k
  BY <1>2, <1>8
<1>15. \A x \in done : Listed(root2, x) \/ \E k \in DOMAIN leaves : Listed(leaves[k], x)
  <2>1. \A x : Listed(root, x) => Listed(root2, x)
    BY <1>8 DEF Listed
  <2>2. \A x : Listed(entries, x) => Listed(root2, x)
    BY <1>9 DEF Listed
  <2> QED BY <1>2, <2>1, <2>2
<1>16. LeafHolds(ix, leaves, <<>>, high)
  BY <1>5 DEF LeafHolds, Within, Ordered, OnlyTiles
<1>17. DirectoriesHold(ix, d2, DOMAIN ix)
  BY <1>2, <1>5, <1>6, <1>10, <1>11, <1>13, <1>14, <1>15, <1>16 DEF DirectoriesHold, RootHolds, high
<1> QED BY <1>6, <1>17 DEF leaves

(* Entries for tiles, in a directory made longer or of two. *)
LEMMA StartsConcat ==
  ASSUME NEW a \in Seq(Entry), NEW b \in Seq(Entry)
  PROVE  StartsIn(a \o b) = StartsIn(a) \cup StartsIn(b)
<1> DEFINE c == a \o b
           n == Len(a)
           mid == Len(b)
<1>1. n \in Nat /\ DOMAIN a = 1..n /\ mid \in Nat /\ DOMAIN b = 1..mid
  BY LenProperties
<1>2. DOMAIN c = 1..(n + mid) /\ \A i \in 1..(n + mid) : c[i] = IF i <= n THEN a[i] ELSE b[i - n]
  <2>1. c \in Seq(Entry) /\ Len(c) = n + mid /\ \A i \in 1..(n + mid) : c[i] = IF i <= n THEN a[i] ELSE b[i - n]
    BY ConcatProperties
  <2> QED BY <2>1, LenProperties
<1> HIDE DEF c, n, mid
<1>3. \A i \in DOMAIN a : i \in DOMAIN c /\ c[i] = a[i]
  BY <1>1, <1>2
<1>4. \A j \in DOMAIN b : j + n \in DOMAIN c /\ c[j + n] = b[j]
  <2>1. SUFFICES ASSUME NEW j \in 1..mid PROVE j + n \in 1..(n + mid) /\ c[j + n] = b[j]
    BY <1>1, <1>2
  <2>2. PICK i \in 1..(n + mid) : i = j + n /\ ~(i <= n) /\ i - n = j
    BY <1>1
  <2> QED BY <1>2, <2>2
<1>5. \A i \in DOMAIN c : (i \in DOMAIN a /\ c[i] = a[i]) \/ (i - n \in DOMAIN b /\ c[i] = b[i - n])
  <2>1. SUFFICES ASSUME NEW i \in 1..(n + mid) PROVE (i \in DOMAIN a /\ c[i] = a[i]) \/ (i - n \in DOMAIN b /\ c[i] = b[i - n])
    BY <1>2
  <2>2. CASE i <= n
    BY <1>1, <1>2, <2>2
  <2>3. CASE i > n
    <3>1. i - n \in 1..mid /\ ~(i <= n)
      BY <1>1, <2>3
    <3> QED BY <1>1, <1>2, <3>1
  <2> QED BY <1>1, <2>2, <2>3
<1>6. ASSUME NEW x \in StartsIn(c) PROVE x \in StartsIn(a) \cup StartsIn(b)
  <2>1. PICK i \in DOMAIN c : c[i].run > 0 /\ x = c[i].id
    BY <1>6 DEF StartsIn
  <2>2. CASE i \in DOMAIN a /\ c[i] = a[i]
    BY <2>1, <2>2 DEF StartsIn
  <2>3. CASE i - n \in DOMAIN b /\ c[i] = b[i - n]
    BY <2>1, <2>3 DEF StartsIn
  <2> QED BY <1>5, <2>2, <2>3
<1>7. ASSUME NEW x \in StartsIn(a) PROVE x \in StartsIn(c)
  BY <1>3 DEF StartsIn
<1>8. ASSUME NEW x \in StartsIn(b) PROVE x \in StartsIn(c)
  <2>1. PICK j \in DOMAIN b : b[j].run > 0 /\ x = b[j].id
    BY <1>8 DEF StartsIn
  <2>2. j + n \in DOMAIN c /\ c[j + n].run > 0 /\ x = c[j + n].id
    BY <1>4, <2>1
  <2> QED BY <2>2 DEF StartsIn
<1> QED BY <1>6, <1>7, <1>8 DEF c

(* A directory's entries begin with tiles that were added. *)
LEMMA StartsAdded ==
  ASSUME NEW ix, NEW es \in Seq(Entry), NEW S, Within(ix, es, S)
  PROVE  StartsIn(es) \subseteq S
<1>1. SUFFICES ASSUME NEW i \in DOMAIN es, es[i].run > 0 PROVE es[i].id \in S
  BY DEF StartsIn
<1>2. es[i].id \in Nat /\ es[i].run \in Nat
  BY EntriesType
<1>3. Covers(es[i], es[i].id)
  BY <1>1, <1>2 DEF Covers
<1> QED BY <1>2, <1>3 DEF Within

LEMMA AllStartsAdded ==
  ASSUME NEW ix, NEW d \in Directories, NEW low \in SUBSET (DOMAIN ix \ d.todo), DirectoriesHold(ix, d, low)
  PROVE  Starts(d) \subseteq DOMAIN ix \ d.todo
<1> DEFINE high == {x \in DOMAIN ix \ d.todo : x >= FIRST_LEAF_TILE}
<1>1. d.root \in Seq(Entry) /\ d.entries \in Seq(Entry) /\ d.leaves \in Seq(Seq(Entry))
  BY DEF Directories
<1>2. \A k \in DOMAIN d.leaves : d.leaves[k] \in Seq(Entry)
  BY <1>1
<1>3. Within(ix, d.root, low) /\ Within(ix, d.entries, high) /\ \A k \in DOMAIN d.leaves : Within(ix, d.leaves[k], high)
  BY DEF DirectoriesHold, RootHolds, LeafHolds
<1>4. high \subseteq DOMAIN ix \ d.todo
  OBVIOUS
<1> HIDE DEF high
<1>5. StartsIn(d.root) \subseteq low /\ StartsIn(d.entries) \subseteq high
  BY <1>1, <1>3, StartsAdded
<1>6. \A k \in DOMAIN d.leaves : StartsIn(d.leaves[k]) \subseteq high
  BY <1>2, <1>3, StartsAdded
<1> QED BY <1>4, <1>5, <1>6 DEF Starts

(* flushEntries: the same entries, and a leaf that is not too long.        *)
LEMMA FlushSized ==
  ASSUME NEW d \in Directories, DirectoriesSized(d), d.entries # <<>>, Len(d.entries) <= LEAF_DIRECTORY_SIZE,
         d.count >= LEAF_DIRECTORY_SIZE \/ d.count >= ROOT_ONLY, NEW d2, d2 = FlushEntries(d)
  PROVE  DirectoriesSized(d2)
<1> DEFINE entries == d.entries
           leaves == d.leaves
           root == d.root
           K == Len(leaves)
           ptr == [id |-> entries[1].id, offset |-> K, run |-> 0]
           leaves2 == Append(leaves, entries)
           root2 == Append(root, ptr)
           N == Len(root)
<1>1. root \in Seq(Entry) /\ entries \in Seq(Entry) /\ leaves \in Seq(Seq(Entry)) /\ entries # <<>> /\ d.count \in Nat
  BY DEF Directories
<1>2. K \in Nat /\ DOMAIN leaves = 1..K /\ N \in Nat /\ DOMAIN root = 1..N
  BY <1>1, LenProperties
<1>3. ptr \in Entry /\ ptr.run = 0
  <2>1. entries[1].id \in Nat
    <3> HIDE DEF entries
    <3> QED BY <1>1, EmptySeq, EntriesType
  <2> QED BY <1>2, <2>1 DEF Entry
<1>4. d2.root = root2 /\ d2.leaves = leaves2 /\ d2.entries = <<>> /\ d2.count = d.count
  BY <1>1 DEF FlushEntries, Directories
<1> HIDE DEF ptr
<1>5. /\ DOMAIN leaves2 = 1..(K + 1) /\ leaves2[K + 1] = entries
      /\ \A k \in 1..K : leaves2[k] = leaves[k]
  <2>1. leaves2 \in Seq(Seq(Entry)) /\ Len(leaves2) = K + 1 /\ leaves2[K + 1] = entries
    BY <1>1, AppendProperties
  <2>2. \A k \in 1..K : leaves2[k] = leaves[k]
    BY <1>1, AppendProperties
  <2> QED BY <2>1, <2>2, LenProperties
<1>6. /\ DOMAIN root2 = 1..(N + 1) /\ root2[N + 1] = ptr
      /\ \A i \in 1..N : root2[i] = root[i]
  <2>1. root2 \in Seq(Entry) /\ Len(root2) = N + 1 /\ root2[N + 1] = ptr
    BY <1>1, <1>3, AppendProperties
  <2>2. \A i \in 1..N : root2[i] = root[i]
    BY <1>1, <1>3, AppendProperties
  <2> QED BY <2>1, <2>2, LenProperties
<1> HIDE DEF root2, root, entries, K, N, leaves2, leaves
<1>7. StartsIn(root2) = StartsIn(root)
  <2>1. \A i \in 1..(N + 1) : i \in 1..N \/ i = N + 1
    BY <1>2
  <2>2. 1..N \subseteq 1..(N + 1)
    BY <1>2
  <2>3. ~(ptr.run > 0)
    BY <1>3
  <2> QED BY <1>2, <1>6, <2>1, <2>2, <2>3 DEF StartsIn
<1>8. 1..(K + 1) = (1..K) \cup {K + 1}
  BY <1>2
<1>9. UNION {StartsIn(leaves2[k]) : k \in DOMAIN leaves2} = StartsIn(entries) \cup UNION {StartsIn(leaves[k]) : k \in DOMAIN leaves}
  BY <1>2, <1>5, <1>8
<1>10. StartsIn(<<>>) = {}
  BY DEF StartsIn
<1>11. Starts(d2) = Starts(d)
  BY <1>4, <1>7, <1>9, <1>10 DEF Starts, root, entries, leaves
<1>12. Len(<<>>) = 0
  OBVIOUS
<1>13. \A k \in DOMAIN leaves2 : Len(leaves2[k]) <= LEAF_DIRECTORY_SIZE
  <2>1. \A k \in DOMAIN leaves : Len(leaves[k]) <= LEAF_DIRECTORY_SIZE
    BY DEF DirectoriesSized, leaves
  <2>2. Len(entries) <= LEAF_DIRECTORY_SIZE
    BY DEF entries
  <2> QED BY <1>2, <1>5, <1>8, <2>1, <2>2
<1>14. IsFiniteSet(Starts(d)) /\ d.count = Cardinality(Starts(d))
  BY DEF DirectoriesSized
<1>15. Len(d2.entries) <= d2.count
  BY <1>1, <1>4, <1>12
<1> QED BY <1>4, <1>11, <1>13, <1>14, <1>15 DEF DirectoriesSized

LEMMA RootOnlySized ==
  ASSUME NEW d \in Directories, DirectoriesSized(d),
         NEW d2, d2 = [d EXCEPT !.root = @ \o d.entries, !.entries = <<>>]
  PROVE  DirectoriesSized(d2)
<1>1. d.root \in Seq(Entry) /\ d.entries \in Seq(Entry) /\ d.count \in Nat
  BY DEF Directories
<1>2. d2.root = d.root \o d.entries /\ d2.entries = <<>> /\ d2.leaves = d.leaves /\ d2.count = d.count
  BY DEF Directories
<1>3. StartsIn(d2.root) = StartsIn(d.root) \cup StartsIn(d.entries)
  BY <1>1, <1>2, StartsConcat
<1>4. StartsIn(<<>>) = {} /\ Len(<<>>) = 0
  BY DEF StartsIn
<1>5. Starts(d2) = Starts(d)
  BY <1>2, <1>3, <1>4 DEF Starts
<1> QED BY <1>1, <1>2, <1>4, <1>5 DEF DirectoriesSized

(* A tile is added to the root, or to the entries of the next leaf.        *)
WithRoot(d, es, c, x) == [d EXCEPT !.root = es, !.count = c, !.todo = @ \ {x}]
WithEntries(d, es, c, x) == [d EXCEPT !.entries = es, !.count = c, !.todo = @ \ {x}]
Counted(d, es, es2) == IF Len(es2) > Len(es) THEN d.count + 1 ELSE d.count

(* appendTileEntry: a tile of a low zoom goes to the root, while no leaf   *)
(* has been begun.                                                         *)
LEMMA LowTileHolds ==
  ASSUME NEW ix, DOMAIN ix \subseteq Nat, NEW d \in Directories, d.todo \subseteq DOMAIN ix,
         DirectoriesHold(ix, d, Low(ix, d)), DirectoriesSized(d),
         NEW x \in d.todo, \A y \in d.todo : x <= y, ix[x] \in Nat, x < FIRST_LEAF_TILE,
         NEW es2, es2 = AppendWithRLE(d.root, x, ix[x]),
         NEW c, c = Counted(d, d.root, es2),
         NEW d2, d2 = WithRoot(d, es2, c, x)
  PROVE  d2 \in Directories /\ d2.entries = <<>> /\ DirectoriesHold(ix, d2, Low(ix, d2)) /\ DirectoriesSized(d2)
<1> DEFINE done == DOMAIN ix \ d.todo
           high == {y \in done : y >= FIRST_LEAF_TILE}
           low == {y \in done : y < FIRST_LEAF_TILE}
           done2 == DOMAIN ix \ d2.todo
           high2 == {y \in done2 : y >= FIRST_LEAF_TILE}
           low2 == {y \in done2 : y < FIRST_LEAF_TILE}
<1>1. /\ d.root \in Seq(Entry) /\ d.entries \in Seq(Entry) /\ d.leaves \in Seq(Seq(Entry)) /\ d.todo \in SUBSET Nat
      /\ d.count \in Nat /\ x \in Nat /\ FIRST_LEAF_TILE \in Nat
  BY SizesAssumption DEF Directories
<1>2. d2.root = es2 /\ d2.entries = d.entries /\ d2.leaves = d.leaves /\ d2.todo = d.todo \ {x} /\ d2.count = c
  BY DEF Directories, WithRoot
<1>3. /\ \A y \in done, z \in d.todo : y < z
      /\ Within(ix, d.root, low) /\ Ordered(d.leaves, d.root)
      /\ \A i \in DOMAIN d.root : d.root[i].run = 0 => PointsToLeaf(d.leaves, d.root[i])
      /\ \A k \in DOMAIN d.leaves : \E i \in DOMAIN d.root : d.root[i].run = 0 /\ d.root[i].offset + 1 = k
      /\ LeafHolds(ix, d.leaves, d.entries, high)
      /\ \A k \in DOMAIN d.leaves : d.leaves[k] # <<>> /\ LeafHolds(ix, d.leaves, d.leaves[k], high)
      /\ \A y \in done : Listed(d.root, y) \/ Listed(d.entries, y) \/ \E k \in DOMAIN d.leaves : Listed(d.leaves[k], y)
  BY DEF DirectoriesHold, RootHolds, Low
<1>4. done2 = done \cup {x} /\ high2 = high /\ low2 = low \cup {x} /\ x \notin done /\ low \in SUBSET (DOMAIN ix \ d.todo)
  BY <1>1, <1>2
<1>5. \A y \in done2, z \in d2.todo : y < z
  <2>1. \A z \in d2.todo : x < z
    BY <1>1, <1>2
  <2> QED BY <1>2, <1>3, <1>4, <2>1
<1>6. /\ \A i \in DOMAIN d.root : Before(d.leaves, d.root[i], x)
      /\ \A i \in DOMAIN d.entries : Before(d.leaves, d.entries[i], x)
  <2>1. DirectoriesHold(ix, d, low)
    BY DEF Low
  <2> HIDE DEF low
  <2> QED BY <1>4, <2>1, AllBefore
<1> HIDE DEF low, high, done, low2, high2, done2
<1>7. d.entries = <<>>
  <2>1. SUFFICES ASSUME d.entries # <<>> PROVE FALSE
    OBVIOUS
  <2>2. 1 \in DOMAIN d.entries
    <3>1. Len(d.entries) \in Nat /\ Len(d.entries) # 0 /\ DOMAIN d.entries = 1..Len(d.entries)
      BY <1>1, <2>1, EmptySeq, LenProperties
    <3> QED BY <3>1
  <2>3. d.entries[1].id < x
    BY <1>6, <2>2 DEF Before
  <2>4. d.entries[1].run > 0 /\ Within(ix, d.entries, high)
    BY <1>3, <2>2 DEF LeafHolds, OnlyTiles
  <2>5. d.entries[1].id \in high
    <3>1. d.entries[1].id \in StartsIn(d.entries)
      BY <2>2, <2>4 DEF StartsIn
    <3> QED BY <1>1, <2>4, <3>1, StartsAdded
  <2> QED BY <1>1, <2>2, <2>3, <2>5, EntriesType DEF high
<1>8. Longer(d.leaves, d.root, es2, x, ix, low)
  BY <1>1, <1>3, <1>6, AppendedHolds
<1>8a. /\ es2 \in Seq(Entry) /\ Ordered(d.leaves, es2) /\ Within(ix, es2, low \cup {x})
       /\ Listed(es2, x) /\ \A y \in Nat : Listed(d.root, y) => Listed(es2, y)
       /\ \A i \in DOMAIN es2 : es2[i].run = 0 => i \in DOMAIN d.root /\ es2[i] = d.root[i]
       /\ \A i \in DOMAIN d.root : d.root[i].run = 0 => i \in DOMAIN es2 /\ es2[i] = d.root[i]
       /\ \/ Len(es2) = Len(d.root) /\ StartsIn(es2) = StartsIn(d.root)
          \/ Len(es2) = Len(d.root) + 1 /\ StartsIn(es2) = StartsIn(d.root) \cup {x}
  BY <1>8 DEF Longer
<1>9. c \in Nat
  BY <1>1 DEF Counted
<1>10. d2 \in Directories
  BY <1>1, <1>8a, <1>9 DEF Directories, WithRoot
<1>11. RootHolds(ix, d2, low2)
  <2>1. Within(ix, d2.root, low2) /\ Ordered(d2.leaves, d2.root)
    BY <1>2, <1>4, <1>8a
  <2>2. \A i \in DOMAIN d2.root : d2.root[i].run = 0 => PointsToLeaf(d2.leaves, d2.root[i])
    BY <1>2, <1>3, <1>8a
  <2>3. \A k \in DOMAIN d2.leaves : \E i \in DOMAIN d2.root : d2.root[i].run = 0 /\ d2.root[i].offset + 1 = k
    <3>1. SUFFICES ASSUME NEW k \in DOMAIN d.leaves PROVE \E i \in DOMAIN es2 : es2[i].run = 0 /\ es2[i].offset + 1 = k
      BY <1>2
    <3>2. PICK i \in DOMAIN d.root : d.root[i].run = 0 /\ d.root[i].offset + 1 = k
      BY <1>3
    <3> QED BY <1>8a, <3>2
  <2> QED BY <2>1, <2>2, <2>3 DEF RootHolds
<1>12. \A y \in done2 :
         Listed(d2.root, y) \/ Listed(d2.entries, y) \/ \E k \in DOMAIN d2.leaves : Listed(d2.leaves[k], y)
  <2>1. SUFFICES ASSUME NEW y \in done PROVE Listed(es2, y) \/ Listed(d.entries, y) \/ \E k \in DOMAIN d.leaves : Listed(d.leaves[k], y)
    BY <1>2, <1>4, <1>8a
  <2>2. y \in Nat
    BY DEF done
  <2> QED BY <1>3, <1>8a, <2>2
<1>13. DirectoriesHold(ix, d2, low2)
  <2>1. DOMAIN d2.entries = {}
    BY <1>2, <1>7
  <2> QED BY <1>2, <1>3, <1>4, <1>5, <1>11, <1>12, <2>1 DEF DirectoriesHold, done2, high2
<1>14. DirectoriesSized(d2)
  <2>1. DirectoriesHold(ix, d, low)
    BY DEF Low, low, done
  <2>2. x \notin Starts(d)
    BY <1>4, <2>1, AllStartsAdded
  <2>3. IsFiniteSet(Starts(d)) /\ d.count = Cardinality(Starts(d)) /\ Len(d.entries) <= d.count
    BY DEF DirectoriesSized
  <2>4. Len(d.root) \in Nat /\ Len(d.entries) \in Nat
    BY <1>1, LenProperties
  <2> DEFINE n == Len(d.root)
             mid == Len(es2)
             l == Len(d.entries)
             k == d.count
             S == Starts(d)
             S2 == Starts(d2)
  <2>5. CASE mid = n /\ StartsIn(es2) = StartsIn(d.root)
    <3>1. S2 = S
      BY <1>2, <2>5 DEF Starts
    <3>2. ~(mid > n)
      <4> HIDE DEF mid, n
      <4> QED BY <2>4, <2>5 DEF n
    <3>3. c = d.count
      BY <3>2 DEF Counted
    <3> QED BY <1>2, <2>3, <3>1, <3>3 DEF DirectoriesSized
  <2>6. CASE mid = n + 1 /\ StartsIn(es2) = StartsIn(d.root) \cup {x}
    <3>1. S2 = S \cup {x}
      BY <1>2, <2>6 DEF Starts
    <3>2. mid > n
      <4> HIDE DEF mid, n
      <4> QED BY <2>4, <2>6 DEF n
    <3>3. c = k + 1
      BY <3>2 DEF Counted
    <3>4. IsFiniteSet(S2) /\ Cardinality(S2) = Cardinality(S) + 1
      <4> HIDE DEF S, S2
      <4> QED BY <2>2, <2>3, <3>1, FS_AddElement DEF S
    <3>5. k >= LEAF_DIRECTORY_SIZE => c >= LEAF_DIRECTORY_SIZE
      BY <1>1, <3>3, SizesAssumption
    <3>6. k >= ROOT_ONLY => c >= ROOT_ONLY
      BY <1>1, <3>3, SizesAssumption
    <3>7. l <= c
      <4> HIDE DEF l, k
      <4> QED BY <1>1, <2>3, <2>4, <3>3 DEF l, k
    <3>8. c = Cardinality(S2)
      BY <2>3, <3>3, <3>4
    <3> QED BY <1>2, <3>4, <3>5, <3>6, <3>7, <3>8 DEF DirectoriesSized
  <2> QED BY <1>8a, <2>5, <2>6
<1> QED BY <1>2, <1>7, <1>10, <1>13, <1>14 DEF Low, low2, done2

(* appendTileEntry: other tiles go to the entries of the next leaf.        *)
LEMMA HighTileHolds ==
  ASSUME NEW ix, DOMAIN ix \subseteq Nat, NEW d \in Directories, d.todo \subseteq DOMAIN ix,
         DirectoriesHold(ix, d, Low(ix, d)), DirectoriesSized(d),
         NEW x \in d.todo, \A y \in d.todo : x <= y, ix[x] \in Nat, x >= FIRST_LEAF_TILE,
         NEW es2, es2 = AppendWithRLE(d.entries, x, ix[x]),
         NEW c, c = Counted(d, d.entries, es2),
         NEW d2, d2 = WithEntries(d, es2, c, x)
  PROVE  /\ d2 \in Directories /\ DirectoriesHold(ix, d2, Low(ix, d2)) /\ DirectoriesSized(d2)
         /\ Len(d2.entries) <= Len(d.entries) + 1
<1> DEFINE done == DOMAIN ix \ d.todo
           high == {y \in done : y >= FIRST_LEAF_TILE}
           low == {y \in done : y < FIRST_LEAF_TILE}
           done2 == DOMAIN ix \ d2.todo
           high2 == {y \in done2 : y >= FIRST_LEAF_TILE}
           low2 == {y \in done2 : y < FIRST_LEAF_TILE}
<1>1. /\ d.root \in Seq(Entry) /\ d.entries \in Seq(Entry) /\ d.leaves \in Seq(Seq(Entry)) /\ d.todo \in SUBSET Nat
      /\ d.count \in Nat /\ x \in Nat /\ FIRST_LEAF_TILE \in Nat
  BY SizesAssumption DEF Directories
<1>2. d2.root = d.root /\ d2.entries = es2 /\ d2.leaves = d.leaves /\ d2.todo = d.todo \ {x} /\ d2.count = c
  BY DEF Directories, WithEntries
<1>3. /\ \A y \in done, z \in d.todo : y < z
      /\ RootHolds(ix, d, low)
      /\ Within(ix, d.entries, high) /\ Ordered(d.leaves, d.entries) /\ OnlyTiles(d.entries)
      /\ \A k \in DOMAIN d.leaves : d.leaves[k] # <<>> /\ LeafHolds(ix, d.leaves, d.leaves[k], high)
      /\ \A i \in DOMAIN d.root, j \in DOMAIN d.entries : Before(d.leaves, d.root[i], d.entries[j].id)
      /\ \A y \in done : Listed(d.root, y) \/ Listed(d.entries, y) \/ \E k \in DOMAIN d.leaves : Listed(d.leaves[k], y)
  BY DEF DirectoriesHold, LeafHolds, Low
<1>4. done2 = done \cup {x} /\ high2 = high \cup {x} /\ low2 = low /\ x \notin done /\ low \in SUBSET (DOMAIN ix \ d.todo)
  BY <1>1, <1>2
<1>5. \A y \in done2, z \in d2.todo : y < z
  <2>1. \A z \in d2.todo : x < z
    BY <1>1, <1>2
  <2> QED BY <1>2, <1>3, <1>4, <2>1
<1>6. /\ \A i \in DOMAIN d.root : Before(d.leaves, d.root[i], x)
      /\ \A i \in DOMAIN d.entries : Before(d.leaves, d.entries[i], x)
  <2>1. DirectoriesHold(ix, d, low)
    BY DEF Low
  <2> HIDE DEF low
  <2> QED BY <1>4, <2>1, AllBefore
<1> HIDE DEF low, high, done, low2, high2, done2
<1>7. Longer(d.leaves, d.entries, es2, x, ix, high)
  BY <1>1, <1>3, <1>6, AppendedHolds
<1>8. /\ es2 \in Seq(Entry) /\ Ordered(d.leaves, es2) /\ Within(ix, es2, high \cup {x})
      /\ Listed(es2, x) /\ \A y \in Nat : Listed(d.entries, y) => Listed(es2, y)
      /\ OnlyTiles(es2)
      /\ \A i \in DOMAIN es2 : es2[i].id = x \/ \E j \in DOMAIN d.entries : es2[i].id = d.entries[j].id
      /\ \/ Len(es2) = Len(d.entries) /\ StartsIn(es2) = StartsIn(d.entries)
         \/ Len(es2) = Len(d.entries) + 1 /\ StartsIn(es2) = StartsIn(d.entries) \cup {x}
  BY <1>3, <1>7 DEF Longer
<1>9. c \in Nat
  BY <1>1 DEF Counted
<1>10. d2 \in Directories
  BY <1>1, <1>8, <1>9 DEF Directories, WithEntries
<1>11. RootHolds(ix, d2, low2)
  BY <1>2, <1>3, <1>4 DEF RootHolds
<1>12. \A y \in done2 :
         Listed(d2.root, y) \/ Listed(d2.entries, y) \/ \E k \in DOMAIN d2.leaves : Listed(d2.leaves[k], y)
  <2>1. SUFFICES ASSUME NEW y \in done PROVE Listed(d.root, y) \/ Listed(es2, y) \/ \E k \in DOMAIN d.leaves : Listed(d.leaves[k], y)
    BY <1>2, <1>4, <1>8
  <2>2. y \in Nat
    BY DEF done
  <2> QED BY <1>3, <1>8, <2>2
<1>13. LeafHolds(ix, d2.leaves, d2.entries, high2)
  BY <1>2, <1>4, <1>8 DEF LeafHolds
<1>14. \A k \in DOMAIN d2.leaves : d2.leaves[k] # <<>> /\ LeafHolds(ix, d2.leaves, d2.leaves[k], high2)
  <2>1. SUFFICES ASSUME NEW k \in DOMAIN d.leaves PROVE d.leaves[k] # <<>> /\ LeafHolds(ix, d.leaves, d.leaves[k], high2)
    BY <1>2
  <2>2. d.leaves[k] # <<>> /\ LeafHolds(ix, d.leaves, d.leaves[k], high)
    BY <1>3
  <2>3. Within(ix, d.leaves[k], high2)
    BY <1>4, <2>2 DEF LeafHolds, Within
  <2> QED BY <2>2, <2>3 DEF LeafHolds
<1>15. \A i \in DOMAIN d2.root, j \in DOMAIN d2.entries : Before(d2.leaves, d2.root[i], d2.entries[j].id)
  <2>1. SUFFICES ASSUME NEW i \in DOMAIN d.root, NEW j \in DOMAIN es2 PROVE Before(d.leaves, d.root[i], es2[j].id)
    BY <1>2
  <2>2. CASE es2[j].id = x
    BY <1>6, <2>2
  <2>3. ASSUME NEW mid \in DOMAIN d.entries, es2[j].id = d.entries[mid].id PROVE Before(d.leaves, d.root[i], es2[j].id)
    BY <1>3, <2>3
  <2> QED BY <1>8, <2>2, <2>3
<1>16. DirectoriesHold(ix, d2, low2)
  BY <1>5, <1>11, <1>12, <1>13, <1>14, <1>15 DEF DirectoriesHold, done2, high2
<1>17. DirectoriesSized(d2) /\ Len(d2.entries) <= Len(d.entries) + 1
  <2>1. DirectoriesHold(ix, d, low)
    BY DEF Low, low, done
  <2>2. x \notin Starts(d)
    BY <1>4, <2>1, AllStartsAdded
  <2>3. IsFiniteSet(Starts(d)) /\ d.count = Cardinality(Starts(d)) /\ Len(d.entries) <= d.count
    BY DEF DirectoriesSized
  <2>4. Len(d.entries) \in Nat
    BY <1>1, LenProperties
  <2> DEFINE n == Len(d.entries)
             mid == Len(es2)
             k == d.count
             S == Starts(d)
             S2 == Starts(d2)
  <2>5. CASE mid = n /\ StartsIn(es2) = StartsIn(d.entries)
    <3>1. S2 = S
      BY <1>2, <2>5 DEF Starts
    <3>2. ~(mid > n) /\ mid <= n + 1
      <4> HIDE DEF mid, n
      <4> QED BY <2>4, <2>5 DEF n
    <3>3. c = d.count
      BY <3>2 DEF Counted
    <3> QED BY <1>2, <2>3, <2>5, <3>1, <3>2, <3>3 DEF DirectoriesSized
  <2>6. CASE mid = n + 1 /\ StartsIn(es2) = StartsIn(d.entries) \cup {x}
    <3>1. S2 = S \cup {x}
      BY <1>2, <2>6 DEF Starts
    <3>2. mid > n /\ mid <= n + 1
      <4> HIDE DEF mid, n
      <4> QED BY <2>4, <2>6 DEF n
    <3>3. c = k + 1
      BY <3>2 DEF Counted
    <3>4. IsFiniteSet(S2) /\ Cardinality(S2) = Cardinality(S) + 1
      <4> HIDE DEF S, S2
      <4> QED BY <2>2, <2>3, <3>1, FS_AddElement DEF S
    <3>5. k >= LEAF_DIRECTORY_SIZE => c >= LEAF_DIRECTORY_SIZE
      BY <1>1, <3>3, SizesAssumption
    <3>6. k >= ROOT_ONLY => c >= ROOT_ONLY
      BY <1>1, <3>3, SizesAssumption
    <3>7. mid <= c
      <4> HIDE DEF mid, n, k
      <4> QED BY <1>1, <2>3, <2>4, <2>6, <3>3 DEF n, k
    <3>8. c = Cardinality(S2)
      BY <2>3, <3>3, <3>4
    <3> QED BY <1>2, <3>2, <3>4, <3>5, <3>6, <3>7, <3>8 DEF DirectoriesSized
  <2> QED BY <1>8, <2>5, <2>6
<1> QED BY <1>10, <1>16, <1>17 DEF Low, low2, done2

(* close() adds a tile.                                                    *)
LEMMA AddedHolds ==
  ASSUME NEW d \in Directories, DOMAIN index \subseteq Nat, \A t \in DOMAIN index : index[t] \in Nat,
         d.todo \subseteq DOMAIN index, d.todo # {}, DirectoriesHold(index, d, Low(index, d)), DirectoriesSized(d),
         Len(d.entries) < LEAF_DIRECTORY_SIZE,
         NEW d2, d2 = [AppendTileEntry(d, Min(d.todo)) EXCEPT !.todo = @ \ {Min(d.todo)}]
  PROVE  /\ d2 \in Directories /\ d2.todo \subseteq DOMAIN index /\ Len(d2.entries) < LEAF_DIRECTORY_SIZE
         /\ DirectoriesHold(index, d2, Low(index, d2)) /\ DirectoriesSized(d2)
<1>1. d.todo \in SUBSET Nat /\ d.root \in Seq(Entry) /\ d.entries \in Seq(Entry) /\ d.count \in Nat
  BY DEF Directories
<1>2. PICK x : x = Min(d.todo) /\ x \in d.todo /\ (\A y \in d.todo : x <= y) /\ x \in Nat
  BY <1>1, MinOfNats
<1>3. index[x] \in Nat /\ LEAF_DIRECTORY_SIZE \in Nat \ {0} /\ FIRST_LEAF_TILE \in Nat /\ Len(<<>>) = 0
  BY <1>2, SizesAssumption
<1>4. CASE x < FIRST_LEAF_TILE
  <2>1. PICK es2 : es2 = AppendWithRLE(d.root, x, index[x])
    OBVIOUS
  <2>2. PICK c : c = Counted(d, d.root, es2)
    OBVIOUS
  <2>e. PICK e : e = [d EXCEPT !.root = es2, !.count = c]
    OBVIOUS
  <2>3. PICK d1 : d1 = WithRoot(d, es2, c, x)
    OBVIOUS
  <2>4. d1 \in Directories /\ d1.entries = <<>> /\ DirectoriesHold(index, d1, Low(index, d1)) /\ DirectoriesSized(d1)
    BY <1>2, <1>3, <1>4, <2>1, <2>2, <2>3, LowTileHolds
  <2>5. AppendTileEntry(d, x) = IF Len(e.entries) >= LEAF_DIRECTORY_SIZE THEN FlushEntries(e) ELSE e
    BY <1>1, <1>4, <2>e, <2>1, <2>2 DEF AppendTileEntry, Directories, Counted
  <2>6. e.entries = d.entries /\ d1.entries = d.entries /\ d1.todo = d.todo \ {x} /\ [e EXCEPT !.todo = @ \ {x}] = d1
    BY <2>3, <2>e DEF Directories, WithRoot, WithEntries
  <2>7. d2 = d1
    BY <1>2, <1>3, <2>4, <2>5, <2>6
  <2> QED BY <1>3, <2>4, <2>6, <2>7
<1>5. CASE x >= FIRST_LEAF_TILE
  <2>1. PICK es2 : es2 = AppendWithRLE(d.entries, x, index[x])
    OBVIOUS
  <2>2. PICK c : c = Counted(d, d.entries, es2)
    OBVIOUS
  <2>e. PICK e : e = [d EXCEPT !.entries = es2, !.count = c]
    OBVIOUS
  <2>3. PICK d1 : d1 = WithEntries(d, es2, c, x)
    OBVIOUS
  <2>4. /\ d1 \in Directories /\ DirectoriesHold(index, d1, Low(index, d1)) /\ DirectoriesSized(d1)
        /\ Len(d1.entries) <= Len(d.entries) + 1
    BY <1>2, <1>3, <1>5, <2>1, <2>2, <2>3, HighTileHolds
  <2>5. AppendTileEntry(d, x) = IF Len(e.entries) >= LEAF_DIRECTORY_SIZE THEN FlushEntries(e) ELSE e
    <3>1. ~(x < FIRST_LEAF_TILE)
      BY <1>2, <1>3, <1>5
    <3> QED BY <2>e, <2>1, <2>2, <3>1 DEF AppendTileEntry, Directories, Counted
  <2>6. e.entries = es2 /\ d1.entries = es2 /\ d1.todo = d.todo \ {x} /\ [e EXCEPT !.todo = @ \ {x}] = d1
    BY <2>3, <2>e DEF Directories, WithRoot, WithEntries
  <2> DEFINE n == Len(d.entries)
             mid == Len(es2)
  <2>7. n \in Nat /\ mid \in Nat /\ n < LEAF_DIRECTORY_SIZE /\ mid <= n + 1 /\ d1.entries \in Seq(Entry) /\ d1.count \in Nat
    BY <1>1, <2>4, <2>6, LenProperties DEF Directories
  <2>8. CASE mid >= LEAF_DIRECTORY_SIZE
    <3>1. es2 # <<>>
      BY <1>3, <2>8
    <3>2. PICK d3 : d3 = FlushEntries(d1)
      OBVIOUS
    <3>3. [FlushEntries(e) EXCEPT !.todo = @ \ {x}] = FlushEntries(d1)
      BY <2>3, <2>e, <2>6, <3>1 DEF FlushEntries, Directories, WithEntries
    <3>4. d2 = d3
      BY <1>2, <2>5, <2>6, <2>8, <3>2, <3>3
    <3>5. mid <= LEAF_DIRECTORY_SIZE
      <4> HIDE DEF n, mid
      <4> QED BY <1>3, <2>7
    <3>6. d1.count >= LEAF_DIRECTORY_SIZE
      <4>1. mid <= d1.count
        BY <2>4, <2>6 DEF DirectoriesSized
      <4> HIDE DEF mid
      <4> QED BY <1>3, <2>7, <2>8, <4>1
    <3>7. DirectoriesSized(d3)
      BY <2>4, <2>6, <3>1, <3>2, <3>5, <3>6, FlushSized
    <3>8. /\ d3 \in Directories /\ d3.todo = d1.todo /\ d3.entries = <<>>
          /\ DirectoriesHold(index, d3, Low(index, d1))
      <4>1. PICK low : low = Low(index, d1)
        OBVIOUS
      <4>2. DirectoriesHold(index, d1, low) /\ d1.entries # <<>>
        BY <2>4, <2>6, <3>1, <4>1
      <4>3. d3 \in Directories /\ d3.todo = d1.todo /\ d3.entries = <<>> /\ DirectoriesHold(index, d3, low)
        BY <2>4, <3>2, <4>2, FlushHolds
      <4> QED BY <4>1, <4>3
    <3>9. Low(index, d3) = Low(index, d1)
      BY <3>8 DEF Low
    <3>10. d1.todo \subseteq DOMAIN index
      BY <2>6
    <3>11. Len(d3.entries) < LEAF_DIRECTORY_SIZE
      BY <1>3, <3>8
    <3>12. d3.todo \subseteq DOMAIN index /\ DirectoriesHold(index, d3, Low(index, d3))
      BY <3>8, <3>9, <3>10
    <3> QED BY <3>4, <3>7, <3>8, <3>11, <3>12, Zenon
  <2>9. CASE mid < LEAF_DIRECTORY_SIZE
    <3>1. ~(mid >= LEAF_DIRECTORY_SIZE)
      <4> HIDE DEF mid
      <4> QED BY <1>3, <2>7, <2>9
    <3>2. d2 = d1
      BY <1>2, <2>5, <2>6, <3>1
    <3> QED BY <2>4, <2>6, <2>9, <3>2
  <2>10. mid < LEAF_DIRECTORY_SIZE \/ mid >= LEAF_DIRECTORY_SIZE
    <3> HIDE DEF mid
    <3> QED BY <1>3, <2>7
  <2> QED BY <2>8, <2>9, <2>10
<1> QED BY <1>2, <1>3, <1>4, <1>5

-----------------------------------------------------------------------------
(* close() makes directories in which a reader finds every tile. *)

(* What saving leaves to close(). *)
LEMMA SavedIndex ==
  ASSUME SaveInv
  PROVE  /\ DOMAIN index \subseteq DOMAIN data /\ DOMAIN index \subseteq Nat
         /\ \A t \in DOMAIN index : index[t] \in Nat
         /\ closing # "no" => DOMAIN index = DOMAIN data
<1>1. DOMAIN index \subseteq DOMAIN data /\ DOMAIN index \subseteq Nat
  BY DEF SaveInv, TilesInOnePlace, SaveTypeOK
<1>2. \A t \in DOMAIN index : index[t] \in Nat
  BY DEF SaveInv, OffsetsPoint, Written
<1>3. ASSUME closing # "no" PROVE DOMAIN index = DOMAIN data
  <2>1. tileQueue = <<>> /\ Busy = {}
    BY <1>3 DEF SaveInv
  <2>2. ToSet(tileQueue) = {} /\ Carried = {}
    BY <2>1 DEF ToSet, Carried
  <2> QED BY <2>2 DEF SaveInv, TilesInOnePlace
<1> QED BY <1>1, <1>2, <1>3

NoDirectories == [root |-> <<>>, leaves |-> <<>>, entries |-> <<>>, count |-> 0, todo |-> {}]

LEMMA BeginKeeps ==
  ASSUME SaveInv, CloseInv, BeginClose
  PROVE  CloseInv'
<1>1. closing = "no" /\ closing' = "yes" /\ index' = index /\ dirs = NoDirectories
  BY DEF BeginClose, saving, CloseInv, NoDirectories
<1>2. PICK d : d = [root |-> <<>>, leaves |-> <<>>, entries |-> <<>>, count |-> 0, todo |-> DOMAIN index]
  OBVIOUS
<1>3. dirs' = d
  BY <1>1, <1>2 DEF BeginClose, NoDirectories
<1>4. d.root = <<>> /\ d.leaves = <<>> /\ d.entries = <<>> /\ d.count = 0 /\ d.todo = DOMAIN index
  BY <1>2
<1>5. d \in Directories
  BY <1>2, SavedIndex DEF Directories
<1>6. Starts(d) = {}
  BY <1>4 DEF Starts, StartsIn
<1>7. DirectoriesSized(d)
  BY <1>4, <1>6, FS_EmptySet DEF DirectoriesSized
<1>8. DirectoriesHold(index, d, Low(index, d))
  BY <1>4 DEF DirectoriesHold, RootHolds, LeafHolds, Within, Ordered, OnlyTiles
<1>9. Len(d.entries) < LEAF_DIRECTORY_SIZE
  BY <1>4, SizesAssumption
<1> QED BY <1>1, <1>3, <1>4, <1>5, <1>7, <1>8, <1>9 DEF CloseInv, pmtilesClosed

LEMMA AddKeeps ==
  ASSUME SaveInv, CloseInv, AddTile
  PROVE  CloseInv'
<1>1. closing = "yes" /\ closing' = "yes" /\ index' = index /\ dirs.todo # {}
  BY DEF AddTile, saving
<1>2. PICK d : d = dirs
  OBVIOUS
<1>3. /\ d \in Directories /\ d.todo \subseteq DOMAIN index /\ DirectoriesSized(d)
      /\ DirectoriesHold(index, d, Low(index, d)) /\ Len(d.entries) < LEAF_DIRECTORY_SIZE
  BY <1>1, <1>2 DEF CloseInv
<1>4. PICK d2 : d2 = [AppendTileEntry(d, Min(d.todo)) EXCEPT !.todo = @ \ {Min(d.todo)}]
  OBVIOUS
<1>5. dirs' = d2
  BY <1>2, <1>4 DEF AddTile
<1>6. /\ d2 \in Directories /\ d2.todo \subseteq DOMAIN index /\ Len(d2.entries) < LEAF_DIRECTORY_SIZE
      /\ DirectoriesHold(index, d2, Low(index, d2)) /\ DirectoriesSized(d2)
  BY <1>1, <1>2, <1>3, <1>4, SavedIndex, AddedHolds
<1> QED BY <1>1, <1>5, <1>6 DEF CloseInv, pmtilesClosed

LEMMA EndKeeps ==
  ASSUME SaveInv, CloseInv, EndClose
  PROVE  CloseInv'
<1>1. closing = "yes" /\ closing' = "done" /\ index' = index /\ dirs.todo = {}
  BY DEF EndClose, saving
<1>2. PICK d : d = dirs
  OBVIOUS
<1>3. /\ d \in Directories /\ d.todo = {} /\ DirectoriesSized(d)
      /\ DirectoriesHold(index, d, Low(index, d)) /\ Len(d.entries) < LEAF_DIRECTORY_SIZE
  BY <1>1, <1>2 DEF CloseInv
<1>4. PICK d2 : d2 = LastEntries(d)
  OBVIOUS
<1>5. PICK low : low = Low(index, d)
  OBVIOUS
<1>6. low \subseteq DOMAIN index /\ DirectoriesHold(index, d, low) /\ DOMAIN index \subseteq Nat
  BY <1>3, <1>5, SavedIndex DEF Low
<1>7. d2 \in Directories /\ d2.todo = {} /\ d2.entries = <<>> /\ DirectoriesSized(d2) /\ DirectoriesHold(index, d2, DOMAIN index)
  <2>1. CASE d.count < ROOT_ONLY
    <3>1. d2 = [d EXCEPT !.root = @ \o d.entries, !.entries = <<>>]
      BY <1>4, <2>1 DEF LastEntries
    <3>2. DirectoriesSized(d2)
      BY <1>3, <3>1, RootOnlySized
    <3>3. d2 \in Directories /\ d2.todo = d.todo /\ d2.entries = <<>> /\ DirectoriesHold(index, d2, DOMAIN index)
      BY <1>3, <1>6, <3>1, RootOnlyHolds
    <3> QED BY <1>3, <3>2, <3>3
  <2>2. CASE ~(d.count < ROOT_ONLY) /\ d.entries = <<>>
    <3>1. d2 = d
      BY <1>4, <2>2 DEF LastEntries, FlushEntries
    <3>2. DirectoriesHold(index, d, DOMAIN index)
      BY <1>6, WithinMore
    <3> QED BY <1>3, <2>2, <3>1, <3>2
  <2>3. CASE ~(d.count < ROOT_ONLY) /\ d.entries # <<>>
    <3>1. d2 = FlushEntries(d)
      BY <1>4, <2>3 DEF LastEntries
    <3>2. d.count >= ROOT_ONLY
      BY <1>3, <2>3, SizesAssumption DEF Directories
    <3>3. Len(d.entries) <= LEAF_DIRECTORY_SIZE
      <4>1. Len(d.entries) \in Nat /\ LEAF_DIRECTORY_SIZE \in Nat
        BY <1>3, LenProperties, SizesAssumption DEF Directories
      <4> QED BY <1>3, <4>1
    <3>4. DirectoriesSized(d2)
      BY <1>3, <2>3, <3>1, <3>2, <3>3, FlushSized
    <3>5. d2 \in Directories /\ d2.todo = d.todo /\ d2.entries = <<>> /\ DirectoriesHold(index, d2, low)
      BY <1>3, <1>6, <2>3, <3>1, FlushHolds
    <3>6. DirectoriesHold(index, d2, DOMAIN index)
      BY <1>6, <3>5, WithinMore
    <3> QED BY <1>3, <3>4, <3>5, <3>6
  <2> QED BY <2>1, <2>2, <2>3
<1>8. dirs' = d2
  BY <1>2, <1>4 DEF EndClose
<1> QED BY <1>1, <1>7, <1>8 DEF CloseInv, pmtilesClosed

LEMMA CloseStep == PmtilesInv /\ [NextPmtiles]_pmtilesVars => PmtilesInv'
<1>1. SUFFICES ASSUME SaveInv, CloseInv, [NextPmtiles]_pmtilesVars PROVE CloseInv'
  BY SaveStep DEF PmtilesInv
<1>2. ASSUME NEW p \in SaveThreads, ThreadStep(p) PROVE CloseInv'
  <2>1. closing = "no" /\ closing' = "no" /\ dirs' = dirs
    BY <1>1, <1>2, StepFirst
  <2> QED BY <1>1, <2>1 DEF CloseInv, pmtilesClosed
<1>3. CASE Close
  BY <1>1, <1>3, BeginKeeps, AddKeeps, EndKeeps DEF Close
<1>4. CASE UNCHANGED pmtilesVars
  BY <1>1, <1>4 DEF pmtilesVars, CloseInv, pmtilesClosed
<1> QED BY <1>1, <1>2, <1>3, <1>4 DEF NextPmtiles, PmtilesDone

(* While close() works, the directories hold the tiles added so far, each  *)
(* where a search for it comes out, whatever the sizes of directories, the *)
(* number of tiles and the data they share (PMTiles::close,                *)
(* appendTileEntry, appendWithRLE, flushEntries).                          *)
THEOREM ClosingInvariance == SpecPmtiles => []PmtilesInv
<1>1. InitPmtiles => PmtilesInv
  <2>1. SUFFICES ASSUME InitPmtiles PROVE SaveInv /\ CloseInv
    BY DEF PmtilesInv
  <2>2. CloseInv
    BY <2>1 DEF InitPmtiles, CloseInv, pmtilesClosed
  <2> QED BY <2>1, <2>2, SaveBegins
<1>2. PmtilesInv /\ [NextPmtiles]_pmtilesVars => PmtilesInv'
  BY CloseStep
<1> QED BY <1>1, <1>2, PTL DEF SpecPmtiles

(* A reader of a closed .pmtiles finds under every ID the data of that     *)
(* tile, or nothing where there is no tile, by a binary search in the root *)
(* and, where that points to one, in a leaf; the header's totals agree     *)
(* with the directories; and leaves are used only where they must be.      *)
THEOREM ReadersFindTiles == SpecPmtiles => []PmtilesReadBack
<1>1. PmtilesInv => PmtilesReadBack
  <2>1. SUFFICES ASSUME SaveInv, CloseInv, pmtilesClosed PROVE ReadsBack /\ HeaderCounts /\ LeavesOnlyWhenLarge
    BY DEF PmtilesInv, PmtilesReadBack, ReadsBack, HeaderCounts, LeavesOnlyWhenLarge
  <2>2. DOMAIN index = DOMAIN data /\ DOMAIN index \subseteq Nat /\ \A t \in DOMAIN index : index[t] \in Nat
    BY <2>1, SavedIndex DEF pmtilesClosed
  <2>3. /\ dirs \in Directories /\ DirectoriesSized(dirs) /\ DirectoriesHold(index, dirs, DOMAIN index)
        /\ dirs.todo = {} /\ dirs.entries = <<>>
    BY <2>1 DEF CloseInv, pmtilesClosed
  <2>4. ASSUME NEW id \in Ids
        PROVE  IF id \in DOMAIN data THEN GetTile(id) + 1 \in DOMAIN file /\ file[GetTile(id) + 1] = data[id]
               ELSE GetTile(id) = -1
    <3>1. id \in Nat
      BY SizesAssumption
    <3>2. GetTile(id) = IF id \in DOMAIN index THEN index[id] ELSE -1
      BY <2>2, <2>3, <3>1, ReaderFinds
    <3>3. \A t \in DOMAIN index : index[t] + 1 \in DOMAIN file /\ file[index[t] + 1] = data[t]
      BY <2>1 DEF SaveInv, OffsetsPoint, Written
    <3> QED BY <2>2, <3>2, <3>3
  <2>5. HeaderCounts
    BY <2>1, <2>2, <2>3 DEF HeaderCounts, DirectoriesSized, SaveInv
  <2>6. LeavesOnlyWhenLarge
    <3>1. dirs.count \in Nat /\ LEAF_DIRECTORY_SIZE \in Nat /\ ROOT_ONLY \in Nat
      BY <2>3, SizesAssumption DEF Directories
    <3>2. dirs.count < ROOT_ONLY /\ dirs.count < LEAF_DIRECTORY_SIZE => dirs.leaves = <<>>
      BY <2>3, <3>1 DEF DirectoriesSized
    <3> QED BY <2>3, <3>2 DEF DirectoriesSized, LeavesOnlyWhenLarge
  <2> QED BY <2>4, <2>5, <2>6 DEF ReadsBack
<1> QED BY <1>1, ClosingInvariance, PTL
=============================================================================
