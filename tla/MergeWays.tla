------------------------------- MODULE MergeWays -------------------------------
(***************************************************************************)
(* How the member ways of a relation become rings and lines                *)
(* (OSMStore::mergeMultiPolygonWays, wayListMultiPolygon and               *)
(* wayListMultiLinestring in src/osm_store.cpp).  Ways are joined where    *)
(* they share an end; the outer ways first, then the inner ones that were  *)
(* not used already.                                                       *)
(*                                                                         *)
(* A point is a value; a way is a sequence of them.  startNodes and        *)
(* endNodes map an end to the ways there, a point without ways not being   *)
(* in the maps.  They are unordered: which way becomes the next seed is    *)
(* not determined.  The geometry that follows (which outer ring holds an   *)
(* inner one, winding) is not modelled.                                    *)
(***************************************************************************)
EXTENDS Naturals, Sequences, FiniteSets, SequencesExt, FiniteSetsExt

CONSTANTS
    WayIds,
    Points,
    Inputs          \* records of the stored ways and the outer and inner lists

VARIABLES
    ways,           \* the way store: functions from the ways it has to points
    lists,          \* <<outer, inner>>, the members of the relation by role
    role,           \* 1: merging the outer ways, 2: the inner ones
    pc,             \* "collect", "join", "seed" or "done"
    todo,           \* the members still to be collected
    done,           \* the map done, as a set
    startNodes, endNodes,
    results,        \* results[r]: the points of the lines of role r
    rt,             \* the line being extended
    added           \* counts the ways used in this round

vars == <<ways, lists, role, pc, todo, done, startNodes, endNodes, results, rt, added>>

input == <<ways, lists>>

First(way) == way[1]
Final(way) == way[Len(way)]

Without(list, w) == SelectSeq(list, LAMBDA v : v # w)

-------------------------------------------------------------------------------
(* static isClosed: it compares the iterators, not the points. *)
IsClosed(way) == way = << >>

Init ==
    /\ \E in \in Inputs : ways = in.ways /\ lists = <<in.outer, in.inner>>
    /\ role = 1
    /\ pc = IF lists[1] = << >> THEN "done" ELSE "collect"
    /\ todo = lists[1]
    /\ done = {}
    /\ startNodes = [n \in Points |-> << >>]
    /\ endNodes = [n \in Points |-> << >>]
    /\ results = << << >>, << >> >>
    /\ rt = 1
    /\ added = 0

(* The first loop: one member. *)
Collecting(w) == pc = "collect" /\ todo # << >> /\ w = Head(todo) /\ todo' = Tail(todo)

SkipDone(w) ==
    /\ Collecting(w)
    /\ w \in done
    /\ UNCHANGED <<input, role, pc, done, startNodes, endNodes, results, rt, added>>

SkipMissing(w) ==
    /\ Collecting(w)
    /\ w \notin done
    /\ w \notin DOMAIN ways
    /\ done' = done \cup {w}
    /\ UNCHANGED <<input, role, pc, startNodes, endNodes, results, rt, added>>

TakesAsIs(w) == IsClosed(ways[w]) \/ results[role] = << >>

AddAsIs(w) ==
    /\ Collecting(w)
    /\ w \in DOMAIN ways \ done
    /\ TakesAsIs(w)
    /\ results' = [results EXCEPT ![role] = Append(@, ways[w])]
    /\ done' = done \cup {w}
    /\ UNCHANGED <<input, role, pc, startNodes, endNodes, rt, added>>

NoteEnds(w) ==
    /\ Collecting(w)
    /\ w \in DOMAIN ways \ done
    /\ ~ TakesAsIs(w)
    /\ startNodes' = [startNodes EXCEPT ![First(ways[w])] = Append(@, w)]
    /\ endNodes' = [endNodes EXCEPT ![Final(ways[w])] = Append(@, w)]
    /\ UNCHANGED <<input, role, pc, done, results, rt, added>>

BeginJoining ==
    /\ pc = "collect" /\ todo = << >>
    /\ pc' = "join" /\ rt' = 1 /\ added' = 0
    /\ UNCHANGED <<input, role, todo, done, startNodes, endNodes, results>>

-------------------------------------------------------------------------------
(* The second loop. *)

\* mutant: a way that was joined is not marked as done
RemoveWay_NotDone(w) ==
    LET ends == {First(ways[w]), Final(ways[w])}
        cut(map) == [n \in Points |-> IF n \in ends THEN Without(map[n], w) ELSE map[n]]
    IN  /\ startNodes' = cut(startNodes)
        /\ endNodes' = cut(endNodes)
        /\ UNCHANGED done

RemoveWay(w) ==
    LET ends == {First(ways[w]), Final(ways[w])}
        cut(map) == [n \in Points |-> IF n \in ends THEN Without(map[n], w) ELSE map[n]]
    IN  /\ startNodes' = cut(startNodes)
        /\ endNodes' = cut(endNodes)
        /\ done' = done \cup {w}

(* The line with the way found at one of its ends, in the order in which   *)
(* the code looks: <<the way, the longer line>>.                           *)
Extension(line) ==
    LET found(map, n) == map[n] # << >>
        way(map, n) == Last(map[n])
        points(map, n) == ways[way(map, n)]
        first == First(line)
        last == Final(line)
    IN  CASE found(startNodes, last) ->
               <<way(startNodes, last), line \o points(startNodes, last)>>
          [] ~ found(startNodes, last) /\ found(endNodes, last) ->
               <<way(endNodes, last), line \o Reverse(points(endNodes, last))>>
          [] ~ found(startNodes, last) /\ ~ found(endNodes, last) /\ found(endNodes, first) ->
               <<way(endNodes, first), points(endNodes, first) \o line>>
          [] OTHER ->
               <<way(startNodes, first), Reverse(points(startNodes, first)) \o line>>

HasExtension(line) ==
    /\ First(line) # Final(line)
    /\ \E n \in {First(line), Final(line)} : startNodes[n] # << >> \/ endNodes[n] # << >>

Extend ==
    /\ pc = "join" /\ rt <= Len(results[role])
    /\ HasExtension(results[role][rt])
    /\ LET extension == Extension(results[role][rt])
       IN  /\ results' = [results EXCEPT ![role][rt] = extension[2]]
           /\ RemoveWay(extension[1])
    /\ added' = added + 1
    /\ UNCHANGED <<input, role, pc, todo, rt>>

NextLine ==
    /\ pc = "join" /\ rt <= Len(results[role])
    /\ ~ HasExtension(results[role][rt])
    /\ rt' = rt + 1
    /\ UNCHANGED <<input, role, pc, todo, done, startNodes, endNodes, results, added>>

EndRound ==
    /\ pc = "join" /\ rt > Len(results[role])
    /\ pc' = "seed"
    /\ UNCHANGED <<input, role, todo, done, startNodes, endNodes, results, rt, added>>

(* The ends to take a seed from: startNodes, or endNodes if it is empty. *)
Left(map) == {n \in Points : map[n] # << >>}

SeedMap == IF Left(startNodes) # {} THEN startNodes ELSE endNodes

(* Nothing was added: a way that is left becomes a line of its own. *)
Seed(n) ==
    /\ pc = "seed" /\ added = 0 /\ n \in Left(SeedMap)
    /\ LET w == Last(SeedMap[n])
       IN  /\ results' = [results EXCEPT ![role] = Append(@, ways[w])]
           /\ RemoveWay(w)
    /\ pc' = "join" /\ rt' = 1 /\ added' = 0
    /\ UNCHANGED <<input, role, todo>>

\* mutant: the count is not reset
NextRound_NotReset ==
    /\ pc = "seed" /\ added > 0
    /\ pc' = "join" /\ rt' = 1
    /\ UNCHANGED <<input, role, todo, done, startNodes, endNodes, results, added>>

NextRound ==
    /\ pc = "seed" /\ added > 0
    /\ pc' = "join" /\ rt' = 1 /\ added' = 0
    /\ UNCHANGED <<input, role, todo, done, startNodes, endNodes, results>>

EndRole ==
    /\ pc = "seed" /\ added = 0 /\ Left(SeedMap) = {}
    /\ IF role = 1
       THEN role' = 2 /\ pc' = "collect" /\ todo' = lists[2]
       ELSE role' = role /\ pc' = "done" /\ todo' = todo
    /\ UNCHANGED <<input, done, startNodes, endNodes, results, rt, added>>

Terminating == pc = "done" /\ UNCHANGED vars

Next ==
    \/ \E w \in WayIds : SkipDone(w) \/ SkipMissing(w) \/ AddAsIs(w) \/ NoteEnds(w)
    \/ BeginJoining \/ Extend \/ NextLine \/ EndRound
    \/ \E n \in Points : Seed(n)
    \/ NextRound \/ EndRole
    \/ Terminating

Spec == Init /\ [][Next]_vars

(* mergeMultiPolygonWays is a loop of one thread. *)
FairSpec == Spec /\ WF_vars(Next)

-------------------------------------------------------------------------------
Lines == Range(results[1]) \cup Range(results[2])

(* The ways that were merged for a role. *)
Members(r) ==
    (Range(lists[r]) \cap DOMAIN ways) \ (IF r = 1 THEN {} ELSE Range(lists[1]))

(* Two points that follow each other in a line are the same point, or they *)
(* follow each other in some way, in either direction: ways are joined     *)
(* only where they meet, the right way round.                              *)
JoinedWhereTheyMeet ==
    \A line \in Lines : \A k \in 1 .. Len(line) - 1 :
        \/ line[k] = line[k + 1]
        \/ \E w \in DOMAIN ways : \E j \in 1 .. Len(ways[w]) - 1 :
              {ways[w][j], ways[w][j + 1]} = {line[k], line[k + 1]}

Occurrences(p) ==
    Cardinality({<<r, i, k>> \in {1, 2} \X (1 .. Cardinality(WayIds)) \X (1 .. 3 * Cardinality(WayIds)) :
        /\ i <= Len(results[r])
        /\ k <= Len(results[r][i])
        /\ results[r][i][k] = p})

(* When the merge ends, every member way that the store has is part of     *)
(* exactly one line, once: none is lost, and one that is listed twice or   *)
(* as outer and inner is not used twice.  (The second point of each way    *)
(* is in no other way.)                                                    *)
EachWayOnce ==
    pc = "done" =>
        \A w \in DOMAIN ways :
            Occurrences(ways[w][2]) =
                IF lists[1] # << >> /\ w \in Members(1) \cup Members(2) THEN 1 ELSE 0

(* When the merge ends no two open lines could still be joined. *)
NothingLeftToJoin ==
    pc = "done" =>
        \A r \in {1, 2} : \A i, j \in DOMAIN results[r] :
            LET a == results[r][i]
                b == results[r][j]
            IN  i # j /\ First(a) # Final(a) /\ First(b) # Final(b) =>
                    {First(a), Final(a)} \cap {First(b), Final(b)} = {}

EndsAt(n, r) ==
    Cardinality({w \in Members(r) : First(ways[w]) = n})
    + Cardinality({w \in Members(r) : Final(ways[w]) = n})

(* If the ways of a role meet in pairs - an even number of ends at every   *)
(* point, as in every set of complete rings, touching ones included - then *)
(* every line that results is closed.                                      *)
RingsClose ==
    pc = "done" =>
        \A r \in {1, 2} :
            (\A n \in Points : EndsAt(n, r) % 2 = 0) =>
                \A i \in DOMAIN results[r] : First(results[r][i]) = Final(results[r][i])

===============================================================================
