-------------------------------- MODULE Packing --------------------------------
(***************************************************************************)
(* What the two sorted stores share: masks that say what is present, and   *)
(* how a series of integers is packed.                                     *)
(*                                                                         *)
(* Integers are packed as the differences of neighbours, zigzag encoded so *)
(* that small negative differences become small unsigned numbers, then     *)
(* written by streamvbyte with as few bytes as each needs.  Every width of *)
(* the code (8 bits, 4 bytes, 32 bytes) is a parameter; arithmetic wraps   *)
(* as it does on uint32_t.                                                 *)
(*                                                                         *)
(* Encoded data is a sequence of cells, one for each byte.  The first cell *)
(* stands for the contents and the others are Pad: that keeps the size and *)
(* the place of everything and leaves out the bit patterns.                *)
(***************************************************************************)
EXTENDS Integers, Sequences, FiniteSets, SequencesExt, FiniteSetsExt

CONSTANTS
    ByteBits,       \* bits in a byte
    IntBytes,       \* bytes in an int32_t, 4 in the code
    MaskBytes       \* bytes in a mask, 32 in the code

ChunkSize == MaskBytes * ByteBits

-------------------------------------------------------------------------------
(* Masks: for every byte the set of its bits that are 1. *)

MaskByte(k) == k \div ByteBits
MaskBit(k) == k % ByteBits

(* mask[byte] |= 1 << bit for each of the given places. *)
MaskOf(places) ==
    [b \in 0 .. MaskBytes - 1 |->
        {MaskBit(k) : k \in {j \in places : MaskByte(j) = b}}]

IsSet(mask, byte, bit) == bit \in mask[byte]

(* popcnt of the bytes before byte and of the bits before bit in it. *)
CountBefore(mask, byte, bit) ==
    MapThenSumSet(LAMBDA b : Cardinality(mask[b]), 0 .. byte - 1)
    + Cardinality({j \in mask[byte] : j < bit})

Popcnt(mask) == MapThenSumSet(LAMBDA b : Cardinality(mask[b]), DOMAIN mask)

-------------------------------------------------------------------------------
(* Delta, zigzag and streamvbyte. *)

Word == 2 ^ (ByteBits * IntBytes)

Pad == << >>

Cells(content, size) ==
    [k \in 1 .. size |-> IF k = 1 THEN content ELSE Pad]

(* (int32_t) v, for an unsigned v. *)
Signed(v) == IF v >= Word \div 2 THEN v - Word ELSE v

ZigzagEncode(d) ==
    LET s == Signed(d % Word) IN IF s >= 0 THEN 2 * s ELSE (-2) * s - 1

ZigzagDecode(v) ==
    IF v % 2 = 0 THEN v \div 2 ELSE - ((v + 1) \div 2)

ZigzagDeltaEncode(ints, first) ==
    [k \in DOMAIN ints |->
        ZigzagEncode(ints[k] - (IF k = 1 THEN first ELSE ints[k - 1]))]

(* Every prefix sum of the differences, on int32_t. *)
ZigzagDeltaDecode(vals, first) ==
    [k \in DOMAIN vals |->
        Signed((FoldLeft(LAMBDA sum, v : sum + ZigzagDecode(v),
                         first, SubSeq(vals, 1, k))) % Word)]

(* A byte for every number, one more for each that is above 0xff, for each *)
(* above 0xffff and so on, and a control byte for every four numbers.      *)
StreamvbyteSize(vals) ==
    (Len(vals) + 3) \div 4
    + MapThenSumSet(LAMBDA b : Cardinality({k \in DOMAIN vals :
                                  b = 0 \/ vals[k] >= 2 ^ (ByteBits * b)}),
                    0 .. IntBytes - 1)

StreamvbyteEncode(vals) == Cells(vals, StreamvbyteSize(vals))

(* n numbers from the data at cell p: garbage unless an encoding of that   *)
(* many numbers starts there.                                              *)
StreamvbyteDecode(data, p, n) ==
    IF n = 0 THEN << >>
    ELSE IF p \in DOMAIN data /\ data[p] # Pad /\ Len(data[p]) = n
         THEN data[p]
         ELSE [k \in 1 .. n |-> 0]

===============================================================================
