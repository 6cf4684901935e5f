---------------------------- MODULE GroupedIndex ----------------------------
(***************************************************************************)
(* What a sorted store promises its readers: an index of IDs that only     *)
(* grows, always by one whole group of IDs, and that holds every ID once   *)
(* it is closed.                                                           *)
(***************************************************************************)
EXTENDS Integers

CONSTANTS Ids, Span

VARIABLES
  index,   \* the IDs a reader can find
  closed   \* finalize() has returned

Init == index = {} /\ closed = FALSE

Group(g) == {x \in Ids : x \div Span = g}

Publish(x) ==
  /\ ~closed
  /\ x \in Ids \ index
  /\ index' = index \cup Group(x \div Span)
  /\ UNCHANGED closed

Close ==
  /\ ~closed
  /\ index = Ids
  /\ closed' = TRUE
  /\ UNCHANGED index

Next == (\E x \in Ids : Publish(x)) \/ Close

Spec == Init /\ [][Next]_<<index, closed>>
=============================================================================
