------------------------------ MODULE UsedWays ------------------------------
(***************************************************************************)
(* UsedWays (src/include/osm_store.h): the bit vector in which             *)
(* ScanRelations marks the ways that relations need, and which ScanWays    *)
(* and ReadWays consult.  A list is a record                               *)
(*   size - usedList.size()                                                *)
(*   bits - the positions whose bit is set, within the reserved capacity.  *)
(* reserve() has allocated the capacity before the first mark, so that a   *)
(* write at position size lands in memory the vector owns but has not      *)
(* counted; a later resize() writes zeros over it.  (In compact mode the   *)
(* capacity is 0 and the same write may also miss the vector's memory.)    *)
(***************************************************************************)
EXTENDS Integers

CONSTANTS
  Slack,        \* resize(wayid + Slack): 256 in the code
  MaxWay        \* bound on the way IDs that are tried

EmptyList == [size |-> 0, bits |-> {}]

(* resize(n) clears the bits it adds and leaves the memory beyond alone. *)
Resize(u, n) == [size |-> n, bits |-> {b \in u.bits : b < u.size \/ b >= n}]

(* insert(wayid): a list that is too short grows first. *)
Insert(u, w) ==
  LET v == IF w > u.size THEN Resize(u, w + Slack) ELSE u
  IN  [v EXCEPT !.bits = @ \cup {w}]

(* at(wayid) *)
At(u, w) == w <= u.size /\ w \in u.bits

-----------------------------------------------------------------------------
VARIABLES list, marked

vars == <<list, marked>>

Init == list = EmptyList /\ marked = {}

MarkWayUsed(w) ==
  /\ list' = Insert(list, w)
  /\ marked' = marked \cup {w}

(* clear() forgets the size and not the bits. *)
Clear == list' = [list EXCEPT !.size = 0] /\ marked' = {}

Next == Clear \/ \E w \in 1..MaxWay : MarkWayUsed(w)

Spec == Init /\ [][Next]_vars

(* "Mark a way as used" / "See if a way is used": at() answers yes for     *)
(* exactly the ways that insert() was called with.                         *)
MarkedAreUsed == \A w \in 1..MaxWay : At(list, w) <=> w \in marked
=============================================================================
