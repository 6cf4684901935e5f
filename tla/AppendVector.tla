---------------------------- MODULE AppendVector ----------------------------
(***************************************************************************)
(* include/append_vector.h: the append-only vector of vectors the output   *)
(* objects of one cluster are kept in, with its random access iterator.    *)
(***************************************************************************)
EXTENDS Integers, Sequences

\* The capacity of one inner vector (8192 in the code).
CONSTANT APPEND_VECTOR_SIZE

ASSUME AppendVectorAssumption == APPEND_VECTOR_SIZE \in Nat \ {0}

\* The constructor: no element, one inner vector.
EmptyVector == [count |-> 0, vecs |-> << <<>> >>]

\* push_back(): a full inner vector is followed by an empty one at once.
PushBack(av, el) ==
    LET last == Len(av.vecs)
        vecs == [av.vecs EXCEPT ![last] = Append(@, el)]
    IN  [count |-> av.count + 1,
         vecs  |-> IF Len(vecs[last]) = APPEND_VECTOR_SIZE THEN Append(vecs, <<>>) ELSE vecs]

\* An iterator is an inner vector and an offset into it.
BeginOf(av) == [vec |-> 0, offset |-> 0]
EndOf(av)   == [vec |-> Len(av.vecs) - 1, offset |-> av.count % APPEND_VECTOR_SIZE]

\* Arithmetic goes through the absolute position.
Absolute(it)      == it.vec * APPEND_VECTOR_SIZE + it.offset
Advance(it, d)    == [vec    |-> (Absolute(it) + d) \div APPEND_VECTOR_SIZE,
                      offset |-> (Absolute(it) + d) % APPEND_VECTOR_SIZE]
Distance(to, fr)  == Absolute(to) - Absolute(fr)

\* operator++: carries into the next inner vector.
Increment(it) == IF it.offset + 1 = APPEND_VECTOR_SIZE
                 THEN [vec |-> it.vec + 1, offset |-> 0]
                 ELSE [it EXCEPT !.offset = @ + 1]

\* operator* and operator->.
Deref(av, it) == av.vecs[it.vec + 1][it.offset + 1]

\* The elements from begin() to end(), as a loop over the iterators meets them.
Contents(av) == [i \in 1..Distance(EndOf(av), BeginOf(av)) |-> Deref(av, Advance(BeginOf(av), i - 1))]

\* The vector with the same shape whose elements are those of s, in order
\* (what sorting between begin() and end() leaves behind).
Refilled(av, s) ==
    [av EXCEPT !.vecs = [v \in 1..Len(av.vecs) |->
        [o \in 1..Len(av.vecs[v]) |-> s[(v - 1) * APPEND_VECTOR_SIZE + o]]]]
=============================================================================
