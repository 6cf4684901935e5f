----------------------------- MODULE MCOsmInput -----------------------------
(***************************************************************************)
(* Reading OpenStreetMap data: the passes over a file (PbfPhases), the     *)
(* scan of its relations (RelationScan), the joining of the ways of one    *)
(* relation (MergeWays, prefix m), how the sorted stores are filled        *)
(* (SortedStore), and the memory layout of the node store and of the way   *)
(* store.  `which' says whose behaviour it is; the others keep their first *)
(* values, and the variables of the two layouts are Unused.                *)
(***************************************************************************)
EXTENDS PbfPhases, RelationScan, SortedStore, TLC

CONSTANT Parts      \* what is looked at: "passes", "scan", "join", "filling", "nodes", "ways"

VARIABLES which,
          mWays, mLists, mRole, mPc, mTodo, mDone, mStarts, mEnds, mResults, mRt, mAdded,
          nodeFile, nodeGroups, nodeCache, wayFile, wayGroups, wayThrown

mVars == <<mWays, mLists, mRole, mPc, mTodo, mDone, mStarts, mEnds, mResults, mRt, mAdded>>
nodeVars == <<nodeFile, nodeGroups, nodeCache>>
wayVars == <<wayFile, wayGroups, wayThrown>>
Unused == "unused"
-----------------------------------------------------------------------------
(* Small files for PbfPhases. *)

Node(id, offered, emits, sh) == [id |-> id, offered |-> offered, emits |-> emits, shard |-> sh]
Way(id, refs, matches) == [id |-> id, refs |-> refs, matches |-> matches, emits |-> matches]
Rel(id, kind, matches, accepted, ws, ns) ==
  [id |-> id, kind |-> kind, matches |-> matches, accepted |-> accepted, ways |-> ws, nodes |-> ns]
Group(type, objs) == [type |-> type, objs |-> objs]
Block(gs, mp) == [groups |-> gs, mp |-> mp]

N1 == Node(1, FALSE, FALSE, 0)
N2 == Node(2, TRUE, FALSE, 1)
N3 == Node(3, TRUE, TRUE, 1)
N4 == Node(4, FALSE, FALSE, 0)
W1 == Way(1, <<1, 2>>, TRUE)
W2 == Way(2, <<2, 4>>, FALSE)
W3 == Way(3, <<3, 9, 1>>, TRUE)
W4 == Way(4, <<3, 1>>, TRUE)
R1 == Rel(1, "multipolygon", TRUE, FALSE, <<2, 1>>, {})
R2 == Rel(2, "route", FALSE, TRUE, <<1, 4>>, {5})
R4 == Rel(4, "boundary", TRUE, FALSE, <<1>>, {})

(* A sorted file, cut into blocks in every possible way: type boundaries   *)
(* fall between and inside blocks, wherever the binary searches look.      *)
Stream == <<<<"node", N1>>, <<"node", N2>>, <<"node", N3>>, <<"way", W2>>, <<"way", W3>>,
            <<"relation", R1>>, <<"relation", R2>>>>
CutAt(cuts) ==
  LET begin == SetToSortSeq({1} \cup cuts, <)
      end(b) == IF b = Len(begin) THEN Len(Stream) ELSE begin[b + 1] - 1
      objs(b, ty) == LET part == SelectSeq(SubSeq(Stream, begin[b], end(b)), LAMBDA o : o[1] = ty)
                     IN  [i \in 1..Len(part) |-> part[i][2]]
      cut(b) == SelectSeq([i \in 1..3 |-> LET ty == <<"node", "way", "relation">>[i]
                                          IN  Group(ty, objs(b, ty))],
                          LAMBDA g : g.objs # <<>>)
  IN  [sorted |-> TRUE, locations |-> FALSE, shards |-> 1, wayKeys |-> TRUE, integrity |-> FALSE,
       blocks |-> [b \in 1..Len(begin) |-> Block(cut(b), objs(b, "relation") # <<>>)]]
CutFiles == {CutAt(cuts) : cuts \in SUBSET (2..Len(Stream))}

(* Types in no order, several groups of one type in a block. *)
Unsorted == [sorted |-> FALSE, locations |-> FALSE, shards |-> 1, wayKeys |-> TRUE, integrity |-> FALSE, blocks |-> <<
  Block(<<Group("relation", <<R1>>), Group("relation", <<R2, R4>>)>>, TRUE),
  Block(<<Group("way", <<W1, W4>>), Group("node", <<N3>>)>>, FALSE),
  Block(<<Group("node", <<N1, N2, N4>>)>>, FALSE),
  Block(<<Group("way", <<W2>>)>>, FALSE)>>]

(* As osmium writes files: one type per block; a single block of relations.*)
Plain == [sorted |-> TRUE, locations |-> FALSE, shards |-> 1, wayKeys |-> TRUE, integrity |-> FALSE, blocks |-> <<
  Block(<<Group("node", <<N1, N2>>)>>, FALSE),
  Block(<<Group("node", <<N3, N4>>)>>, FALSE),
  Block(<<Group("way", <<W1>>)>>, FALSE),
  Block(<<Group("way", <<W2, W4>>)>>, FALSE),
  Block(<<Group("relation", <<R1, R2>>)>>, TRUE)>>]

(* Enough blocks of relations that they are not subdivided. *)
ManyRelations == [sorted |-> TRUE, locations |-> FALSE, shards |-> 1, wayKeys |-> TRUE, integrity |-> FALSE, blocks |-> <<
  Block(<<Group("node", <<N1, N2, N3, N4>>)>>, FALSE),
  Block(<<Group("way", <<W1, W2, W4>>)>>, FALSE),
  Block(<<Group("relation", <<R1>>)>>, TRUE),
  Block(<<Group("relation", <<R2>>)>>, TRUE),
  Block(<<Group("relation", <<R4>>)>>, TRUE)>>]

(* A way refers to node 9, which the file does not have. *)
Incomplete == [Plain EXCEPT !.blocks[3] = Block(<<Group("way", <<W3>>)>>, FALSE)]

Located == [Plain EXCEPT !.locations = TRUE]

(* Two shards, no way_keys, and missing nodes are an error. *)
Sharded(f) == [f EXCEPT !.shards = 2, !.wayKeys = FALSE, !.integrity = TRUE]

(* A third shard in which no node lies: its passes are skipped. *)
WithEmptyShard(f) == [Sharded(f) EXCEPT !.shards = 3]

MCFiles == CutFiles \cup {Unsorted, Plain, Located}
             \cup {WithEmptyShard(ManyRelations), Sharded(Incomplete)}
OneRelationBlock == {[Sharded(Plain) EXCEPT !.integrity = FALSE]}
-----------------------------------------------------------------------------
(* Relations for RelationScan: routes and superroutes, two of which        *)
(* contain each other, a route nobody accepts, and a multipolygon.         *)
Member(type, id, role) == [type |-> type, id |-> id, role |-> role]
Route(id, name, members) ==
    [id |-> id, native |-> FALSE, accept |-> TRUE, tags |-> {<<"name", name>>, <<"key", 1>>}, members |-> members]
Routes == {
    Route(3, "c", <<Member("way", 1, "forward"), Member("node", 1, "rare"), Member("relation", 9, "rare")>>),
    Route(4, "d", <<Member("way", 3, "rarer"), Member("relation", 3, "sub"), Member("way", 1, "rare")>>),
    Route(9, "i", <<Member("relation", 3, "sub")>>),
    [Route(6, "f", <<Member("way", 1, "forward")>>) EXCEPT !.accept = FALSE],
    [Route(5, "e", <<Member("way", 2, "outer")>>) EXCEPT !.native = TRUE]}

(* The multipolygon is a member of an accepted relation. *)
MultipolygonMember == {
    Route(3, "c", <<Member("relation", 5, "sub")>>),
    [Route(5, "e", <<Member("way", 2, "outer")>>) EXCEPT !.native = TRUE]}

(* The hypothesis of the theorem about TagsKept: true of the routes.       *)
ASSUME MembersAssumption == ScannedMembers \/ Relations = MultipolygonMember

MCPopularRoles == <<"", "forward", "sub">>
-----------------------------------------------------------------------------
(* Relations for MergeWays: four ways between three points, in all ways to *)
(* choose their ends (the first starts at point 1: the points are          *)
(* interchangeable), each with a point of its own in the middle.  The      *)
(* relation lists them all as outer; or two as outer, one in both roles    *)
(* and one as inner; or one twice and a missing way; or none as outer.     *)
Corners == 1 .. 3
WaysOver(ids) ==
    {[w \in ids |-> <<e[w][1], 10 + w, e[w][2]>>] :
        e \in {f \in [ids -> Corners \X Corners] : f[1][1] = 1}}
Listed(ids, outerWays, innerWays) ==
    {[ways |-> ws, outer |-> outerWays, inner |-> innerWays] : ws \in WaysOver(ids)}
Multipolygons ==
    Listed(1 .. 4, <<1, 2, 3, 4>>, << >>)
    \cup Listed(1 .. 4, <<1, 2, 3>>, <<3, 4>>)
    \cup Listed(1 .. 3, <<1, 2, 2>>, <<4, 3>>)
    \cup Listed(1 .. 2, << >>, <<1, 2>>)
OneMultipolygon == CHOOSE i \in Listed(1 .. 2, << >>, <<1, 2>>) : TRUE

Joining == INSTANCE MergeWays WITH
    WayIds <- 1 .. 4, Points <- Corners \cup (11 .. 14), Inputs <- Multipolygons,
    ways <- mWays, lists <- mLists, role <- mRole, pc <- mPc, todo <- mTodo, done <- mDone, startNodes <- mStarts,
    endNodes <- mEnds, results <- mResults, rt <- mRt, added <- mAdded
-----------------------------------------------------------------------------
(* Filling: groups of three IDs, batches whose borders fall inside groups, *)
(* on group borders, and that span several groups.                         *)
MCIds == {0, 1, 2, 4, 5, 7, 8, 9, 11, 12}
MCBatchOf == [x \in MCIds |->
  CASE x <= 1 -> 1
    [] x = 2 -> 2
    [] x \in 3..9 -> 3
    [] OTHER -> 4]

-----------------------------------------------------------------------------
(* Nodes: bytes of two bits and masks of two bytes, so chunks and groups   *)
(* of four.  Each of eight IDs is absent or in one of two shards; they     *)
(* fill a chunk, part of another with an absent one between them, and part *)
(* of a chunk of the second group that has the same place in it as the     *)
(* first.  Positions are close, far apart in one coordinate (too long for  *)
(* the bits of a length) or far apart in both (not worth compressing), and *)
(* wrap around an int.                                                     *)
StoredIds == {0, 1, 2, 3, 9, 10, 16, 18}
StoredAt == {
    [id \in StoredIds |-> <<id + 60, 1 - id>>],
    [id \in StoredIds |-> <<IF id % 2 = 0 THEN -120 ELSE 7 * id, id>>],
    [id \in StoredIds |-> <<IF id % 2 = 0 THEN -128 ELSE -60, (id * 41) % 128>>] }
NodeShards == {"s1", "s2"}
\* The shards are interchangeable.
InS1First(owner) == \A i \in StoredIds : owner[i] = "s2" => \E j \in StoredIds : j < i /\ owner[j] = "s1"
NodeFiles ==
    {[s \in NodeShards |-> [id \in {i \in StoredIds : owner[i] = s} |-> pos[id]]] :
        owner \in {o \in [StoredIds -> NodeShards \cup {"absent"}] : InS1First(o)}, pos \in StoredAt}

Nodes == INSTANCE NodeChunks WITH
    ByteBits <- 2, IntBytes <- 4, MaskBytes <- 2, SizeBits <- 3, Stores <- NodeShards, GroupSlots <- {0, 1},
    Files <- NodeFiles, file <- nodeFile, groups <- nodeGroups, cache <- nodeCache

(* Ways: bytes of four bits, ints of two bytes and masks of one byte, so   *)
(* IDs have seven low bits and two upper ones, chunks and groups four      *)
(* members.  A way of 16 bytes is big and big ways start at multiples of   *)
(* 8.  The nodes of a way lie close together, far apart, or on both sides  *)
(* of 2^LowBits; ways are single nodes, open, closed, too long, or with an *)
(* ID too high.  Up to four of them lie in two chunks of a group and in    *)
(* the next group.                                                         *)
GoodWays == { <<5>>, <<130, 3>>, <<9, 9>>, <<1, 300, 1>>,
              <<127, 128, 126, 0>>, <<256, 260, 383, 256>>, <<1, 130, 259, 388, 511, 1>>, <<7, 6, 5, 4, 3, 2, 1>> }
BadWays == { << >>, <<512, 1>>, <<1, 2, 3, 4, 5, 6, 7, 8, 9>> }
NoWay == <<-1>>
WayFiles ==
    LET present(f) == [id \in {i \in DOMAIN f : f[i] # NoWay} |-> f[id]]
    IN  {present(f) : f \in [{4, 7, 14, 20} -> GoodWays \cup {NoWay}]} \cup {(7 :> w) @@ (14 :> <<5>>) : w \in BadWays}

Ways == INSTANCE WayChunks WITH
    ByteBits <- 4, IntBytes <- 2, MaskBytes <- 1, LowBits <- 7, LengthBits <- 4, MaxWayNodes <- 8,
    SmallLimit <- 16, LargeWayAlignment <- 8, OffsetBits <- 6, GroupSlots <- {0, 1},
    Files <- WayFiles, file <- wayFile, groups <- wayGroups, thrown <- wayThrown

ASSUME LayoutAssumption == Nodes!NodeChunksAssumption /\ Ways!WayChunksAssumption
-----------------------------------------------------------------------------
MCInit ==
    /\ which \in Parts
    /\ which = "passes" \/ file = Plain
    /\ which = "join" \/ (mWays = OneMultipolygon.ways /\ mLists = <<OneMultipolygon.outer, OneMultipolygon.inner>>)
    /\ Init /\ InitScan /\ Joining!Init /\ InitStore
    /\ IF which = "nodes" THEN Nodes!Init ELSE nodeFile = Unused /\ nodeGroups = Unused /\ nodeCache = Unused
    /\ IF which = "ways" THEN Ways!Init ELSE wayFile = Unused /\ wayGroups = Unused /\ wayThrown = Unused

Pass(action) == which = "passes" /\ action /\ UNCHANGED <<which, scanVars, mVars, storeVars, nodeVars, wayVars>>
Fill(action) == which = "filling" /\ action /\ UNCHANGED <<which, vars, scanVars, mVars, nodeVars, wayVars>>
Scans  == which = "scan" /\ NextScan /\ UNCHANGED <<which, vars, mVars, storeVars, nodeVars, wayVars>>
Joins  == which = "join" /\ Joining!Next /\ UNCHANGED <<which, vars, scanVars, storeVars, nodeVars, wayVars>>
Caches == which = "nodes" /\ Nodes!Next /\ UNCHANGED <<which, vars, scanVars, mVars, storeVars, wayVars>>
Packs  == which = "ways" /\ Ways!Next /\ UNCHANGED <<which, vars, scanVars, mVars, storeVars, nodeVars>>
MCNext == Pass(Next) \/ Fill(NextStore) \/ Scans \/ Joins \/ Caches \/ Packs
allVars == <<which, vars, scanVars, mVars, storeVars, nodeVars, wayVars>>

(* As in PbfPhases, MergeWays and SortedStore: main goes on, the pools run *)
(* their threads, and the joining is a loop of one thread.                 *)
MCFairness ==
    /\ WF_allVars(Pass(Main)) /\ \A t \in Threads : WF_allVars(Pass(Worker(t)))
    /\ WF_allVars(Fill(Finalize)) /\ \A t \in StoreThreads : WF_allVars(Fill(Step(t)))
    /\ WF_allVars(Joins)
MCSpec == MCInit /\ [][MCNext]_allVars /\ MCFairness

(* All passes over the file end, or the program does (PbfProcessor         *)
(* ReadPbfFile).                                                           *)
PassesEnd == which = "passes" ~> ~Running

(* Each way of a relation is in one line, joined to others exactly where   *)
(* they meet, and complete rings are closed (mergeMultiPolygonWays).       *)
WaysJoined ==
    /\ Joining!EachWayOnce /\ Joining!JoinedWhereTheyMeet
    /\ Joining!NothingLeftToJoin /\ Joining!RingsClose

(* The joining of ways ends (mergeMultiPolygonWays).                       *)
JoiningEnds == which = "join" ~> mPc = "done"

(* The reading of the file and finalize() end: no thread waits for another *)
(* (SortedNodeStore and SortedWayStore insert, batchStart, finalize).      *)
StoresFinalized == which = "filling" => EventuallyFinalized

(* Every node is found at its position and no other ID is, whatever is     *)
(* cached, and the groups stay within their memory (SortedNodeStore        *)
(* publishGroup, at and contains).                                         *)
NodesReadBack == which = "nodes" => Nodes!ReadsBack /\ Nodes!FitsGroupSpace

(* Every way is decoded to the nodes it was inserted with, and the groups  *)
(* stay within their memory (SortedWayStore publishGroup, at and           *)
(* contains).                                                              *)
WaysReadBack == which = "ways" => Ways!ReadsBack /\ Ways!FitsGroupSpace
=============================================================================
