----------------------------- MODULE WireFormat -----------------------------
(***************************************************************************)
(* The protocol buffers encoding as the vendored protozero writes and      *)
(* reads it: variable length integers, fields, and nested messages whose   *)
(* length is filled in when they are closed. A buffer is a sequence of     *)
(* bytes; with a small VarintBase, short messages need long lengths.       *)
(***************************************************************************)
EXTENDS Integers, SequencesExt, FiniteSetsExt

CONSTANTS
    VarintBase,     \* 128: what one byte of a varint holds
    ReserveBytes    \* 5: bytes kept free for the length of an open message

VARINT == 0
LENGTH_DELIMITED == 2
max_varint_length == 10

\* add_varint_to_buffer(): low bytes first, all but the last marked.
Varint(v) ==
    LET n == CHOOSE k \in 1..max_varint_length : v < VarintBase^k /\ (k = 1 \/ v >= VarintBase^(k - 1))
    IN  [i \in 1..n |-> ((v \div VarintBase^(i - 1)) % VarintBase) + (IF i < n THEN VarintBase ELSE 0)]

encode_zigzag32(v) == IF v >= 0 THEN 2 * v ELSE -2 * v - 1
decode_zigzag32(n) == IF n % 2 = 0 THEN n \div 2 ELSE -((n + 1) \div 2)

\* decode_varint() from a position on; past the end of the buffer it throws.
Thrown == [value |-> 0, next |-> 0]
DecodeVarint(buf, p) ==
    LET from[i \in p..(Len(buf) + 1)] ==
          IF i > Len(buf) THEN Thrown
          ELSE IF buf[i] < VarintBase THEN [value |-> buf[i], next |-> i + 1]
          ELSE LET rest == from[i + 1]
               IN  IF rest = Thrown THEN Thrown
                   ELSE [value |-> (buf[i] - VarintBase) + VarintBase * rest.value, next |-> rest.next]
    IN  from[p]
-----------------------------------------------------------------------------
(* The writer: its data, and for every open submessage where its header and its data begin. *)

NewWriter == [data |-> <<>>, open |-> <<>>]

AddField(w, tag, type)      == [w EXCEPT !.data = @ \o Varint(tag * 8 + type)]
AddTaggedVarint(w, tag, v)  == [w EXCEPT !.data = @ \o Varint(tag * 8 + VARINT) \o Varint(v)]
AddElement(w, v)            == [w EXCEPT !.data = @ \o Varint(v)]
AddBytes(w, tag, bytes)     == [w EXCEPT !.data = @ \o Varint(tag * 8 + LENGTH_DELIMITED) \o Varint(Len(bytes)) \o bytes]

OpenSubmessage(w, tag) ==
    LET head == AddField(w, tag, LENGTH_DELIMITED).data \o [i \in 1..ReserveBytes |-> 0]
    IN  [data |-> head, open |-> Append(w.open, [rollback |-> Len(w.data), pos |-> Len(head)])]

RollbackSubmessage(w) == [data |-> SubSeq(w.data, 1, Last(w.open).rollback), open |-> Front(w.open)]

\* The length takes the place of the reserved bytes and what it does not need is erased.
CommitSubmessage(w) ==
    LET pos == Last(w.open).pos
    IN  [data |-> SubSeq(w.data, 1, pos - ReserveBytes) \o Varint(Len(w.data) - pos) \o SubSeq(w.data, pos + 1, Len(w.data)),
         open |-> Front(w.open)]

\* commit() of a writer or packed field: an empty submessage is taken back.
CloseSubmessage(w) == IF Len(w.data) = Last(w.open).pos THEN RollbackSubmessage(w) ELSE CommitSubmessage(w)
-----------------------------------------------------------------------------
(* The reader. *)

\* pbf_reader::next() and the accessors: a field of which key and first number are decoded,
\* with a varint's value or the bytes of a length delimited field, and where it ends.
Field(key, value, next) == [tag |-> key \div 8, type |-> key % 8, value |-> value, next |-> next]
BrokenField == Field(0, 0, 0)
ReadField(buf, key, arg) ==
    IF key = Thrown \/ arg = Thrown \/ key.value < 8 THEN BrokenField
    ELSE CASE key.value % 8 = VARINT -> Field(key.value, arg.value, arg.next)
           [] key.value % 8 = LENGTH_DELIMITED /\ arg.next + arg.value <= Len(buf) + 1 ->
                 Field(key.value, SubSeq(buf, arg.next, arg.next + arg.value - 1), arg.next + arg.value)
           [] OTHER -> BrokenField

\* The fields of a whole message in order; what cannot be read ends it.
FieldsOf(buf) ==
    LET from[p \in 1..(Len(buf) + 1)] ==
          IF p = Len(buf) + 1 THEN <<>>
          ELSE LET key == DecodeVarint(buf, p)
                   f   == ReadField(buf, key, DecodeVarint(buf, key.next))
               IN  <<f>> \o (IF f = BrokenField THEN <<>> ELSE from[f.next])
    IN  from[1]

\* get_packed_uint32(): the numbers of a packed field.
Unpacked(buf) ==
    LET from[p \in 1..(Len(buf) + 1)] ==
          IF p = Len(buf) + 1 THEN <<>>
          ELSE LET v == DecodeVarint(buf, p) IN IF v = Thrown THEN <<-1>> ELSE <<v.value>> \o from[v.next]
    IN  from[1]

\* next(tag, type) repeatedly: the values of the fields with one tag.
ValuesAt(fields, tag, type) ==
    LET hits == SelectSeq(fields, LAMBDA f : f.tag = tag /\ f.type = type)
    IN  [i \in DOMAIN hits |-> hits[i].value]
=============================================================================
