------------------------------ MODULE DequeMap ------------------------------
(***************************************************************************)
(* include/deque_map.h: entries in the order they were added, so that an   *)
(* index keeps its meaning, and beside them the indices in the order of    *)
(* the entries, so that an entry is found by binary search. Indices count  *)
(* from 0.                                                                 *)
(***************************************************************************)
EXTENDS Integers, Sequences, SequencesExt

\* operator< of the entries, a total order.
CONSTANT EntryLess(_, _)

NotFound == -1
EmptyMap(maxSize) == [maxSize |-> maxSize, objects |-> <<>>, keys |-> <<>>]

SizeOf(dm)      == Len(dm.objects)
IsFull(dm)      == dm.maxSize # 0 /\ SizeOf(dm) = dm.maxSize
EntryAt(dm, i)  == dm.objects[i + 1]
HasEntry(dm, i) == i \in 0..(SizeOf(dm) - 1)

\* std::lower_bound over the keys: the position of the first entry not less than x.
KeyPosition(dm, x) ==
    LET search[first \in Nat, n \in Nat] ==
          IF n = 0 THEN first
          ELSE LET half == n \div 2
               IN  IF EntryLess(EntryAt(dm, dm.keys[first + half]), x)
                   THEN search[first + half + 1, n - half - 1]
                   ELSE search[first, half]
    IN  search[1, Len(dm.keys)]

\* find(): the index of an entry, or -1.
FindEntry(dm, x) ==
    LET at == KeyPosition(dm, x)
    IN  IF at <= Len(dm.keys) /\ EntryAt(dm, dm.keys[at]) = x THEN dm.keys[at] ELSE NotFound

\* add(): an entry that is there or does not fit leaves the map as it is.
AddEntry(dm, x) ==
    IF FindEntry(dm, x) # NotFound \/ (dm.maxSize > 0 /\ SizeOf(dm) >= dm.maxSize) THEN dm
    ELSE [dm EXCEPT !.objects = Append(@, x),
                    !.keys = InsertAt(@, KeyPosition(dm, x), SizeOf(dm))]
=============================================================================
