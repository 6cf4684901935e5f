-------------------------- MODULE TileOutputProofs --------------------------
(***************************************************************************)
(* Proofs about the pool that writes tiles (TileOutput), for any threads,  *)
(* objects, layers, weights, clipping box and sizes of batches and caches: *)
(* each wanted tile is saved once, and no other.                           *)
(***************************************************************************)
EXTENDS TileOutput, Induction, TLAPS

-----------------------------------------------------------------------------
(* The list of tiles: inserting in whatever order keeps each tile once. *)

Enumerates(q, S) == q \in Seq(S) /\ IsInjective(q) /\ ToSet(q) = S
Inserted(s, e, k) == SubSeq(s, 1, k) \o <<e>> \o SubSeq(s, k + 1, Len(s))
ElementAt(s, e, k, i) == IF i <= k THEN s[i] ELSE IF i = k + 1 THEN e ELSE s[i - 1]

LEMMA InsertedElements ==
    ASSUME NEW S, NEW s \in Seq(S), NEW e \in S, NEW k \in 0..Len(s)
    PROVE  /\ Inserted(s, e, k) \in Seq(S) /\ Len(Inserted(s, e, k)) = Len(s) + 1
           /\ \A i \in 1..(Len(s) + 1) : Inserted(s, e, k)[i] = ElementAt(s, e, k, i)
<1> DEFINE n == Len(s)
           a == SubSeq(s, 1, k)
           m == <<e>>
           b == SubSeq(s, k + 1, n)
<1>1. n \in Nat /\ k \in Nat /\ k <= n
  BY LenProperties
<1>2. a \in Seq(S) /\ Len(a) = k /\ \A i \in 1..k : a[i] = s[i]
  <2>1. CASE k = 0
    <3>1. a = <<>>
      BY <2>1, SubSeqProperties
    <3> QED BY <3>1, <2>1
  <2>2. CASE k > 0
    <3>1. 1 \in 1..(n + 1) /\ k \in 0..n /\ k - 1 + 1 = k
      BY <1>1, <2>2
    <3> QED BY <3>1, <2>2, <1>1, SubSeqProperties
  <2> QED BY <1>1, <2>1, <2>2
<1>3. b \in Seq(S) /\ Len(b) = n - k /\ \A i \in 1..(n - k) : b[i] = s[k + i]
  BY <1>1, SubSeqProperties
<1>4. m \in Seq(S) /\ Len(m) = 1 /\ m[1] = e
  OBVIOUS
<1> HIDE DEF n, a, b, m
<1>5. /\ a \o m \in Seq(S) /\ Len(a \o m) = k + 1
      /\ \A i \in 1..(k + 1) : (a \o m)[i] = IF i <= k THEN a[i] ELSE m[i - k]
  <2>1. /\ a \o m \in Seq(S) /\ Len(a \o m) = Len(a) + Len(m)
        /\ \A i \in 1..(Len(a) + Len(m)) : (a \o m)[i] = IF i <= Len(a) THEN a[i] ELSE m[i - Len(a)]
    BY <1>2, <1>4, ConcatProperties, Zenon
  <2> QED BY <1>2, <1>4, <2>1, Zenon
<1>6. /\ (a \o m) \o b \in Seq(S) /\ Len((a \o m) \o b) = n + 1
      /\ \A i \in 1..(n + 1) : ((a \o m) \o b)[i] = IF i <= k + 1 THEN (a \o m)[i] ELSE b[i - (k + 1)]
  <2> DEFINE c == a \o m
  <2> HIDE DEF c
  <2>1. c \in Seq(S) /\ Len(c) = k + 1
    BY <1>5 DEF c
  <2>2. /\ c \o b \in Seq(S) /\ Len(c \o b) = Len(c) + Len(b)
        /\ \A i \in 1..(Len(c) + Len(b)) : (c \o b)[i] = IF i <= Len(c) THEN c[i] ELSE b[i - Len(c)]
    BY <1>3, <2>1, ConcatProperties, Zenon
  <2>3. Len(c) + Len(b) = n + 1
    BY <1>1, <1>3, <2>1
  <2>4. /\ c \o b \in Seq(S) /\ Len(c \o b) = n + 1
        /\ \A i \in 1..(n + 1) : (c \o b)[i] = IF i <= k + 1 THEN c[i] ELSE b[i - (k + 1)]
    BY <2>1, <2>2, <2>3, Zenon
  <2> QED BY <2>4 DEF c
<1>7. Inserted(s, e, k) = (a \o m) \o b
  BY DEF Inserted, a, m, b, n
<1>8. ASSUME NEW i \in 1..(n + 1)
      PROVE  ((a \o m) \o b)[i] = IF i <= k THEN s[i] ELSE IF i = k + 1 THEN e ELSE s[i - 1]
  <2>1. CASE i <= k
    BY <1>1, <1>2, <1>5, <1>6, <2>1
  <2>2. CASE i = k + 1
    <3>1. i - k = 1 /\ ~(i <= k) /\ i \in 1..(k + 1)
      BY <1>1, <2>2
    <3> QED BY <1>4, <1>5, <1>6, <2>2, <3>1
  <2>3. CASE i > k + 1
    <3>1. i - (k + 1) \in 1..(n - k) /\ k + (i - (k + 1)) = i - 1 /\ ~(i <= k + 1) /\ ~(i <= k) /\ i # k + 1
      BY <1>1, <2>3
    <3> QED BY <1>3, <1>6, <3>1
  <2>4. i <= k \/ i = k + 1 \/ i > k + 1
    BY <1>1
  <2> QED BY <2>1, <2>2, <2>3, <2>4, Zenon
<1>9. \A i \in 1..(n + 1) : ((a \o m) \o b)[i] = ElementAt(s, e, k, i)
  BY <1>8 DEF ElementAt
<1> QED BY <1>6, <1>7, <1>9 DEF n

LEMMA InsertedOnce ==
    ASSUME NEW S, NEW s \in Seq(S), IsInjective(s), NEW e \in S, e \notin ToSet(s), NEW k \in 0..Len(s)
    PROVE  /\ Inserted(s, e, k) \in Seq(S) /\ IsInjective(Inserted(s, e, k))
           /\ ToSet(Inserted(s, e, k)) = ToSet(s) \cup {e}
<1> DEFINE n == Len(s)
           q == Inserted(s, e, k)
<1>1. n \in Nat /\ k \in Nat /\ k <= n /\ DOMAIN s = 1..n
  BY LenProperties
<1>2. /\ q \in Seq(S) /\ Len(q) = n + 1
      /\ \A i \in 1..(n + 1) : q[i] = IF i <= k THEN s[i] ELSE IF i = k + 1 THEN e ELSE s[i - 1]
  <2>1. q \in Seq(S) /\ Len(q) = n + 1 /\ \A i \in 1..(n + 1) : q[i] = ElementAt(s, e, k, i)
    BY InsertedElements
  <2> QED BY <2>1 DEF ElementAt
<1> HIDE DEF n, q
<1>3. DOMAIN q = 1..(n + 1)
  BY <1>2, LenProperties
<1>4. \A i, j \in 1..n : s[i] = s[j] => i = j
  BY <1>1 DEF IsInjective
<1>5. \A i \in 1..n : s[i] # e
  BY <1>1 DEF ToSet
<1>6. ASSUME NEW i \in 1..(n + 1), NEW j \in 1..(n + 1), q[i] = q[j] PROVE i = j
  <2> DEFINE at(x) == IF x <= k THEN x ELSE x - 1
  <2>1. \A x \in 1..(n + 1) : x # k + 1 => at(x) \in 1..n /\ q[x] = s[at(x)]
    BY <1>1, <1>2
  <2>2. q[k + 1] = e
    BY <1>1, <1>2
  <2>3. \A x, y \in 1..(n + 1) : x # k + 1 /\ y # k + 1 /\ at(x) = at(y) => x = y
    BY <1>1
  <2> HIDE DEF at
  <2> QED BY <1>4, <1>5, <1>6, <2>1, <2>2, <2>3
<1>7. ASSUME NEW i \in 1..(n + 1) PROVE q[i] \in ToSet(s) \cup {e}
  <2>1. i <= k => i \in 1..n
    BY <1>1
  <2>2. i > k + 1 => i - 1 \in 1..n
    BY <1>1
  <2> QED BY <1>1, <1>2, <2>1, <2>2 DEF ToSet
<1>8. ASSUME NEW i \in 1..n PROVE \E j \in 1..(n + 1) : q[j] = s[i]
  <2>1. CASE i <= k
    BY <1>1, <1>2, <2>1
  <2>2. CASE i > k
    <3>1. i + 1 \in 1..(n + 1) /\ ~(i + 1 <= k) /\ i + 1 # k + 1 /\ (i + 1) - 1 = i
      BY <1>1, <2>2
    <3> QED BY <1>2, <3>1
  <2> QED BY <1>1, <2>1, <2>2
<1>9. q[k + 1] = e /\ k + 1 \in 1..(n + 1)
  BY <1>1, <1>2
<1>10. ToSet(q) = ToSet(s) \cup {e}
  BY <1>1, <1>3, <1>7, <1>8, <1>9 DEF ToSet
<1>11. IsInjective(q)
  BY <1>3, <1>6 DEF IsInjective
<1> QED BY <1>2, <1>10, <1>11 DEF q

LEMMA InsertByInserts ==
    ASSUME NEW S, NEW s \in Seq(S), NEW e
    PROVE  \E k \in 0..Len(s) : InsertBy(TileLess, s, e) = Inserted(s, e, k)
<1> DEFINE K == {i \in DOMAIN s : ~TileLess(e, s[i])}
<1>1. DOMAIN s = 1..Len(s) /\ Len(s) \in Nat
  BY LenProperties
<1>2. IsFiniteSet(1..Len(s)) /\ Cardinality(1..Len(s)) = Len(s)
  BY <1>1, FS_Interval
<1>3. K \in SUBSET (1..Len(s))
  BY <1>1
<1>4. Cardinality(K) \in 0..Len(s)
  <2> HIDE DEF K
  <2>1. IsFiniteSet(K) /\ Cardinality(K) <= Cardinality(1..Len(s))
    BY <1>2, <1>3, FS_Subset
  <2>2. Cardinality(K) \in Nat
    BY <2>1, FS_CardinalityType
  <2> QED BY <1>1, <1>2, <2>1, <2>2
<1> WITNESS Cardinality(K) \in 0..Len(s)
<1> QED BY DEF InsertBy, Inserted

(* Sorting a finite set lists each of its elements once, whatever the      *)
(* order: also under TileLess, which does not tell all tiles apart.        *)
LEMMA SortedTiles ==
    ASSUME NEW S, IsFiniteSet(S)
    PROVE  Enumerates(SortedSet(TileLess, S), S)
<1> DEFINE Iter == CHOOSE iter : iter = [s \in SUBSET S |->
                       IF s = {} THEN <<>> ELSE InsertBy(TileLess, iter[s \ {Picked(s)}], Picked(s))]
           G == [p \in S \X Seq(S) |-> InsertBy(TileLess, p[2], p[1])]
<1>1. SortedSet(TileLess, S) = Iter[S]
  BY DEF SortedSet, FoldSet, MapThenFoldSet, Picked, InsertBy
<1>2. G \in [S \X Seq(S) -> Seq(S)]
  <2>1. ASSUME NEW e \in S, NEW q \in Seq(S) PROVE InsertBy(TileLess, q, e) \in Seq(S)
    BY InsertByInserts, InsertedElements
  <2> QED BY <2>1
<1>3. PICK f \in [SUBSET S -> Seq(S)] : FoldsBy(f, <<>>, G, S)
  <2>1. <<>> \in Seq(S)
    OBVIOUS
  <2> HIDE DEF G
  <2> QED BY <1>2, <2>1, FoldExists
<1>4. f = [s \in SUBSET S |-> IF s = {} THEN <<>> ELSE InsertBy(TileLess, f[s \ {Picked(s)}], Picked(s))]
  <2>1. ASSUME NEW s \in SUBSET S, s # {} PROVE f[s] = InsertBy(TileLess, f[s \ {Picked(s)}], Picked(s))
    <3>1. Picked(s) \in S /\ f[s \ {Picked(s)}] \in Seq(S)
      BY <2>1, PickedLess
    <3>2. f[s] = G[<<Picked(s), f[s \ {Picked(s)}]>>]
      BY <1>3, <2>1 DEF FoldsBy
    <3> QED BY <3>1, <3>2
  <2>2. \A s \in SUBSET S : s = {} => f[s] = <<>>
    BY <1>3 DEF FoldsBy
  <2> QED BY <2>1, <2>2
<1>5. Iter = [s \in SUBSET S |-> IF s = {} THEN <<>> ELSE InsertBy(TileLess, Iter[s \ {Picked(s)}], Picked(s))]
  BY <1>4
<1>6. /\ Iter[{}] = <<>>
      /\ \A s \in SUBSET S : s # {} => Iter[s] = InsertBy(TileLess, Iter[s \ {Picked(s)}], Picked(s))
  <2> HIDE DEF Iter
  <2>1. {} \in SUBSET S
    OBVIOUS
  <2> QED BY <1>5, <2>1
<1> HIDE DEF Iter
<1> DEFINE T == {n \in Nat : \A s \in SUBSET S : Cardinality(s) = n => Enumerates(Iter[s], s)}
<1>7. \A s \in SUBSET S : IsFiniteSet(s) /\ Cardinality(s) \in Nat /\ (Cardinality(s) = 0 => s = {})
  BY FS_Subset, FS_CardinalityType, FS_EmptySet
<1>8. 0 \in T
  <2>1. Enumerates(<<>>, {})
    BY DEF Enumerates, IsInjective, ToSet
  <2> QED BY <1>6, <1>7, <2>1
<1>9. ASSUME NEW n \in Nat, n \in T PROVE n + 1 \in T
  <2>1. SUFFICES ASSUME NEW s \in SUBSET S, Cardinality(s) = n + 1 PROVE Enumerates(Iter[s], s)
    OBVIOUS
  <2>2. s # {}
    BY <2>1, FS_EmptySet
  <2> DEFINE e == Picked(s)
             r == s \ {e}
  <2>3. e \in s /\ r \in SUBSET S /\ Cardinality(r) = n
    BY <2>1, <2>2, PickedLess
  <2>4. Enumerates(Iter[r], r)
    BY <1>9, <2>3
  <2>5. Iter[s] = InsertBy(TileLess, Iter[r], e)
    BY <1>6, <2>2
  <2> DEFINE q == Iter[r]
  <2> HIDE DEF e, q
  <2>6. q \in Seq(s) /\ IsInjective(q) /\ ToSet(q) = r /\ e \notin ToSet(q)
    <3>1. \A x : x \in Seq(r) => x \in Seq(s)
      OBVIOUS
    <3> QED BY <2>4, <3>1 DEF Enumerates, q
  <2>7. PICK k \in 0..Len(q) : Iter[s] = Inserted(q, e, k)
    BY <2>5, <2>6, InsertByInserts DEF q
  <2>8. /\ Inserted(q, e, k) \in Seq(s) /\ IsInjective(Inserted(q, e, k))
        /\ ToSet(Inserted(q, e, k)) = ToSet(q) \cup {e}
    BY <2>3, <2>6, InsertedOnce
  <2> QED BY <2>3, <2>6, <2>7, <2>8 DEF Enumerates
<1> HIDE DEF T
<1>10. \A n \in Nat : n \in T
  BY <1>8, <1>9, SetInduction
<1>11. S \in SUBSET S /\ Cardinality(S) \in T
  BY <1>7, <1>10
<1>12. Enumerates(Iter[S], S)
  BY <1>11 DEF T
<1> QED BY <1>1, <1>12

LEMMA AllTilesFinite == IsFiniteSet(AllTiles)
<1> DEFINE A == StartZoom..EndZoom
           B == 0..(2^EndZoom - 1)
<1>1. IsFiniteSet(A) /\ IsFiniteSet(B)
  BY TilesAssumption, PowerType, FS_Interval
<1>2. IsFiniteSet(A \X B)
  BY <1>1, FS_Product
<1>3. AllTiles \in SUBSET (A \X B)
  BY DEF AllTiles, Tile
<1> QED BY <1>2, <1>3, FS_Subset

LEMMA ListBegins ==
    ASSUME InitOutput
    PROVE  TilesListed
<1> DEFINE S == {t \in Marked : Selected(t)}
<1>1. S \in SUBSET AllTiles
  BY DEF Marked
<1>2. IsFiniteSet(S)
  BY <1>1, AllTilesFinite, FS_Subset
<1>3. tiles = SortedSet(TileLess, S)
  BY DEF InitOutput
<1> HIDE DEF S
<1>4. Enumerates(tiles, S)
  BY <1>2, <1>3, SortedTiles
<1>5. \A x : x \in Seq(S) => x \in Seq(AllTiles)
  BY <1>1
<1> QED BY <1>4, <1>5 DEF Enumerates, TilesListed, S
-----------------------------------------------------------------------------
(* Batches are never empty and end with the list. *)

Load(S) == SumOver(LAMBDA i : Weight(tiles[i][1]), S)

LEMMA EmptyLoad == Load({}) = 0
<1> DEFINE op(i, acc) == acc + Weight(tiles[i][1])
           Iter == CHOOSE iter : iter = [s \in SUBSET {} |->
                       IF s = {} THEN 0 ELSE op(Picked(s), iter[s \ {Picked(s)}])]
           f == [s \in SUBSET {} |-> 0]
<1>2. Load({}) = Iter[{}]
  BY DEF Load, SumOver, FoldSet, MapThenFoldSet, Picked
<1>3. f = [s \in SUBSET {} |-> IF s = {} THEN 0 ELSE op(Picked(s), f[s \ {Picked(s)}])]
  OBVIOUS
<1>4. Iter = [s \in SUBSET {} |-> IF s = {} THEN 0 ELSE op(Picked(s), Iter[s \ {Picked(s)}])]
  <2> HIDE DEF f, op
  <2> QED BY <1>3
<1>5. Iter[{}] = 0
  <2> HIDE DEF Iter, op
  <2>1. {} \in SUBSET {}
    OBVIOUS
  <2> QED BY <1>4, <2>1
<1> QED BY <1>2, <1>5

LEMMA BatchSizeRange ==
    ASSUME Len(tiles) \in Nat, NEW from \in Nat, from < Len(tiles)
    PROVE  BatchSize(from) \in 1..(Len(tiles) - from)
<1> DEFINE load(n) == SumOver(LAMBDA i : Weight(tiles[i][1]), (from + 1)..(from + n))
           N == {n \in 1..(Len(tiles) - from) : load(n - 1) < BatchWeight}
<1>1. load(0) = 0
  <2>1. load(0) = Load((from + 1)..(from + 0))
    BY DEF Load
  <2>2. (from + 1)..(from + 0) = {}
    OBVIOUS
  <2> HIDE DEF load
  <2> QED BY <2>1, <2>2, EmptyLoad
<1>2. 1 - 1 = 0 /\ 1 \in 1..(Len(tiles) - from) /\ 0 < BatchWeight
  BY TilesAssumption
<1>3. 1 \in N
  <2> HIDE DEF load
  <2> QED BY <1>1, <1>2
<1>4. BatchSize(from) = Max(N)
  BY DEF BatchSize
<1>5. N \in SUBSET Nat /\ \A y \in N : y <= Len(tiles) - from
  <2> HIDE DEF load
  <2> QED OBVIOUS
<1>6. Max(N) \in N
  <2> HIDE DEF N
  <2>1. N # {} /\ Len(tiles) - from \in Nat
    BY <1>3
  <2> QED BY <1>5, <2>1, MaxOfNats
<1> HIDE DEF load
<1> QED BY <1>4, <1>6
-----------------------------------------------------------------------------
(* The short cut for covered clusters selects no tile outside the box. *)

LEMMA ProductMonotone == \A a, b, c \in Nat : a <= b => a * c <= b * c
OBVIOUS

LEMMA WidthHalves ==
    ASSUME NEW a \in Nat, NEW z \in Nat, z <= a, a <= EndZoom
    PROVE  Width(a) \in Nat /\ Width(z) = 2^(a - z) * Width(a)
<1>1. World \in Nat /\ World % 2^EndZoom = 0 /\ EndZoom \in Nat
  BY TilesAssumption
<1>2. /\ 2^EndZoom = 2^a * 2^(EndZoom - a) /\ 2^a = 2^z * 2^(a - z)
      /\ 2^EndZoom \in Nat \ {0} /\ 2^a \in Nat \ {0} /\ 2^z \in Nat \ {0} /\ 2^(a - z) \in Nat \ {0} /\ 2^(EndZoom - a) \in Nat \ {0}
  <2>1. EndZoom - a \in Nat /\ a - z \in Nat /\ a + (EndZoom - a) = EndZoom /\ z + (a - z) = a
    BY <1>1
  <2>2. 2^(a + (EndZoom - a)) = 2^a * 2^(EndZoom - a)
    BY <2>1, PowerSum
  <2>3. 2^(z + (a - z)) = 2^z * 2^(a - z)
    BY <2>1, PowerSum
  <2> QED BY <1>1, <2>1, <2>2, <2>3, PowerType
<1> DEFINE E == 2^EndZoom
           A == 2^a
           Z == 2^z
           P == 2^(a - z)
           R == 2^(EndZoom - a)
           K == World \div E
<1>3. E = A * R /\ A = Z * P /\ E \in Nat \ {0} /\ A \in Nat \ {0} /\ Z \in Nat \ {0} /\ P \in Nat \ {0} /\ R \in Nat \ {0}
  BY <1>2
<1> HIDE DEF E, A, Z, P, R
<1>4. World \in Nat /\ World % E = 0
  BY <1>1 DEF E
<1>5. K \in Nat /\ World = K * E
  BY <1>3, <1>4
<1> HIDE DEF K
<1>6. \A x \in Nat, y \in Nat \ {0} : (x * y) \div y = x
  OBVIOUS
<1>7. World = (K * R) * A
  BY <1>3, <1>5
<1>8. K * R \in Nat /\ World \div A = K * R
  BY <1>3, <1>5, <1>6, <1>7
<1>9. World = (P * (K * R)) * Z /\ P * (K * R) \in Nat
  BY <1>3, <1>5, <1>7, <1>8
<1>10. World \div Z = P * (K * R)
  BY <1>3, <1>6, <1>9
<1> QED BY <1>8, <1>10 DEF Width, A, Z, P

LEMMA AboveContains ==
    ASSUME NEW a \in Nat, NEW x \in Nat, NEW z \in Nat, z <= a, a <= EndZoom
    PROVE  /\ From(<<a, x>>) \in Int /\ To(<<a, x>>) \in Int /\ From(<<a, x>>) <= To(<<a, x>>)
           /\ From(Above(<<a, x>>, z)) \in Int /\ From(Above(<<a, x>>, z)) <= From(<<a, x>>)
           /\ To(Above(<<a, x>>, z)) \in Int /\ To(<<a, x>>) <= To(Above(<<a, x>>, z))
<1> DEFINE P == 2^(a - z)
           W == Width(a)
           q == x \div P
<1>1. W \in Nat /\ Width(z) = P * W
  BY WidthHalves
<1>2. P \in Nat \ {0}
  BY PowerType
<1>3. From(<<a, x>>) = x * W /\ To(<<a, x>>) = (x + 1) * W
  BY DEF From, To
<1>4. From(Above(<<a, x>>, z)) = q * (P * W) /\ To(Above(<<a, x>>, z)) = (q + 1) * (P * W)
  BY <1>1 DEF From, To, Above, Tile
<1> HIDE DEF P, W
<1>5. q \in Nat /\ q * P <= x /\ x + 1 <= (q + 1) * P
  BY <1>2
<1> HIDE DEF q
<1>6. q * P \in Nat /\ (q + 1) * P \in Nat
  BY <1>2, <1>5
<1>7. q * (P * W) = (q * P) * W /\ (q + 1) * (P * W) = ((q + 1) * P) * W
  BY <1>1, <1>2, <1>5
<1>8. (q * P) * W <= x * W
  BY <1>1, <1>5, <1>6, ProductMonotone
<1>9. (x + 1) * W <= ((q + 1) * P) * W
  BY <1>1, <1>5, <1>6, ProductMonotone
<1>10. x * W <= (x + 1) * W
  BY <1>1, ProductMonotone
<1>11. x * W \in Int /\ (x + 1) * W \in Int /\ (q * P) * W \in Int /\ ((q + 1) * P) * W \in Int
  BY <1>1, <1>6
<1> QED BY <1>3, <1>4, <1>7, <1>8, <1>9, <1>10, <1>11

LEMMA SelectedTouches ==
    ASSUME NEW t \in AllTiles
    PROVE  Selected(t) <=> (ClippingBox = <<>> \/ Touches(<<From(t), To(t)>>, ClippingBox))
<1>1. SUFFICES ASSUME ClippingBox # <<>>, Covered(t) PROVE Touches(<<From(t), To(t)>>, ClippingBox)
  BY DEF Selected
<1>2. PICK a \in StartZoom..EndZoom, x \in 0..(2^EndZoom - 1) : t = <<a, x>>
  BY DEF AllTiles, Tile
<1>3. a \in Nat /\ a <= EndZoom /\ x \in Nat /\ CLUSTER_ZOOM \in Nat /\ CLUSTER_ZOOM <= a
  BY <1>1, <1>2, TilesAssumption, PowerType DEF Covered
<1> DEFINE c == Above(t, CLUSTER_ZOOM)
<1>4. ClippingBox[1] \in Int /\ ClippingBox[2] \in Int
  BY <1>1, TilesAssumption
<1>5. ClippingBox[1] < From(c) /\ To(c) < ClippingBox[2]
  BY <1>1 DEF Covered
<1>6. /\ From(t) \in Int /\ To(t) \in Int /\ From(t) <= To(t)
      /\ From(c) \in Int /\ From(c) <= From(t) /\ To(c) \in Int /\ To(t) <= To(c)
  BY <1>2, <1>3, AboveContains
<1> HIDE DEF c
<1>7. From(t) <= ClippingBox[2] /\ To(t) >= ClippingBox[1]
  BY <1>4, <1>5, <1>6
<1> QED BY <1>7 DEF Touches
-----------------------------------------------------------------------------
(* The pool: its invariant. *)

LEMMA PoolBegins == InitOutput => PoolInv
<1>1. SUFFICES ASSUME InitOutput PROVE PoolInv
  OBVIOUS
<1>2. TilesListed
  BY <1>1, ListBegins
<1>3. Len(tiles) \in Nat /\ startIndex = 0 /\ DOMAIN tiles = 1..Len(tiles)
  BY <1>1, <1>2, LenProperties DEF TilesListed, InitOutput
<1>4. \A w \in OutputThreads : worker[w] = Idle /\ Owned(w) = {}
  BY <1>1 DEF InitOutput, Owned, Idle
<1>5. WorkersApart
  BY <1>1, <1>4 DEF WorkersApart, InitOutput
<1>6. \A k \in DOMAIN tiles : ~Saved(k)
  BY <1>3 DEF Saved
<1>7. written = [t \in AllTiles |-> <<>>]
  BY <1>1 DEF InitOutput
<1>8. SavedOnce
  BY <1>6, <1>7 DEF SavedOnce
<1> QED BY <1>2, <1>3, <1>5, <1>8 DEF PoolInv

(* The sizes that matter, and where a thread's places lie. *)
LEMMA PoolFacts ==
    ASSUME PoolInv
    PROVE  /\ Len(tiles) \in Nat /\ DOMAIN tiles = 1..Len(tiles) /\ startIndex \in Nat /\ startIndex <= Len(tiles)
           /\ \A k \in DOMAIN tiles : tiles[k] \in AllTiles
           /\ \A j, k \in DOMAIN tiles : tiles[j] = tiles[k] => j = k
<1>1. tiles \in Seq(AllTiles) /\ IsInjective(tiles) /\ startIndex \in 0..Len(tiles)
  BY DEF PoolInv, TilesListed
<1>2. Len(tiles) \in Nat /\ DOMAIN tiles = 1..Len(tiles)
  BY <1>1, LenProperties
<1>3. \A k \in 1..Len(tiles) : tiles[k] \in AllTiles
  BY <1>1, ElementOfSeq
<1> QED BY <1>1, <1>2, <1>3 DEF IsInjective

LEMMA OwnedTaken ==
    ASSUME PoolInv, NEW w \in OutputThreads
    PROVE  \A k \in Owned(w) : k \in Nat /\ 1 <= k /\ k <= startIndex
<1>1. startIndex \in Nat
  BY PoolFacts
<1>2. CASE worker[w] = Idle
  BY <1>2 DEF Owned, Idle
<1>3. CASE OnItsBatch(w)
  <2> DEFINE n == worker[w].next
             l == worker[w].last
  <2>1. n \in 1..(l + 1) /\ l \in 1..startIndex /\ (worker[w].on # "batch" => n > 1) /\ worker[w].on # "idle"
    BY <1>3 DEF OnItsBatch
  <2>2. Owned(w) = IF worker[w].on = "batch" THEN n..l ELSE (n - 1)..l
    BY <2>1 DEF Owned
  <2> HIDE DEF n, l
  <2>3. \A k \in n..l : k \in Nat /\ 1 <= k /\ k <= startIndex
    BY <1>1, <2>1
  <2>4. worker[w].on # "batch" => \A k \in (n - 1)..l : k \in Nat /\ 1 <= k /\ k <= startIndex
    BY <1>1, <2>1
  <2> QED BY <2>2, <2>3, <2>4
<1> QED BY <1>2, <1>3 DEF PoolInv, WorkersApart

(* Which tiles are wanted depends on no variable. *)
LEMMA ListStays ==
    ASSUME TilesListed, tiles' = tiles
    PROVE  TilesListed'
BY DEF TilesListed, Marked, AllTiles, Selected, Covered, Touches, From, To, Width, Above, Tile, Meets

LEMMA PassedOverStays == \A t : PassedOver(t)' <=> PassedOver(t)
BY DEF PassedOver, From, To, Width, Meets

(* A step after which the same places are saved, and nothing was written,  *)
(* keeps what is said of the tiles that were.                              *)
LEMMA SavedKept ==
    ASSUME SavedOnce, UNCHANGED <<tiles, written>>, \A k \in DOMAIN tiles : Saved(k)' <=> Saved(k)
    PROVE  SavedOnce'
<1>1. \A t : (\E k \in DOMAIN tiles : tiles[k] = t /\ Saved(k))' <=> (\E k \in DOMAIN tiles : tiles[k] = t /\ Saved(k))
  OBVIOUS
<1> QED BY <1>1, PassedOverStays DEF SavedOnce

(* The other threads are where they were. *)
LEMMA OthersStay ==
    ASSUME PoolInv, NEW w \in OutputThreads, NEW r, worker' = [worker EXCEPT ![w] = r], tiles' = tiles, startIndex' \in Nat,
           startIndex <= startIndex'
    PROVE  /\ worker' = [v \in OutputThreads |-> worker'[v]] /\ worker'[w] = r
           /\ \A v \in OutputThreads : v # w => /\ worker'[v] = worker[v] /\ Owned(v)' = Owned(v)
                                          /\ (worker[v] = Idle \/ OnItsBatch(v))'
<1>1. worker = [v \in OutputThreads |-> worker[v]]
  BY DEF PoolInv, WorkersApart
<1>2. worker' = [v \in OutputThreads |-> worker'[v]] /\ worker'[w] = r /\ \A v \in OutputThreads : v # w => worker'[v] = worker[v]
  BY <1>1
<1>3. ASSUME NEW v \in OutputThreads, v # w PROVE Owned(v)' = Owned(v) /\ (worker[v] = Idle \/ OnItsBatch(v))'
  <2>1. worker'[v] = worker[v]
    BY <1>2, <1>3
  <2>2. Owned(v)' = Owned(v)
    BY <2>1 DEF Owned
  <2>3. CASE worker[v] = Idle
    BY <2>1, <2>2, <2>3 DEF Idle
  <2>4. CASE OnItsBatch(v)
    <3>1. startIndex \in Nat
      BY PoolFacts
    <3>2. \A l \in 1..startIndex : l \in 1..startIndex'
      BY <3>1
    <3>3. OnItsBatch(v)'
      BY <2>1, <2>4, <3>2, PassedOverStays DEF OnItsBatch
    <3> QED BY <2>2, <3>3
  <2> QED BY <2>3, <2>4 DEF PoolInv, WorkersApart
<1> QED BY <1>2, <1>3

(* A step of one thread that keeps the places it has not saved. *)
LEMMA PlacesKept ==
    ASSUME PoolInv, NEW w \in OutputThreads, NEW r, worker' = [worker EXCEPT ![w] = r], UNCHANGED <<tiles, startIndex, written>>,
           (worker[w] = Idle \/ OnItsBatch(w))', Owned(w)' = Owned(w)
    PROVE  PoolInv'
<1>1. startIndex \in Nat
  BY PoolFacts
<1>2. /\ worker' = [v \in OutputThreads |-> worker'[v]]
      /\ \A v \in OutputThreads : v # w => Owned(v)' = Owned(v) /\ (worker[v] = Idle \/ OnItsBatch(v))'
  <2>1. startIndex' \in Nat /\ startIndex <= startIndex' /\ tiles' = tiles
    BY <1>1
  <2> QED BY <2>1, OthersStay
<1>3. \A v \in OutputThreads : Owned(v)' = Owned(v)
  BY <1>2
<1>4. WorkersApart'
  <2>1. \A v \in OutputThreads : (worker[v] = Idle \/ OnItsBatch(v))'
    BY <1>2
  <2>2. \A u, v \in OutputThreads : u # v => Owned(u)' \cap Owned(v)' = {}
    BY <1>3 DEF PoolInv, WorkersApart
  <2> QED BY <1>2, <2>1, <2>2 DEF WorkersApart
<1>5. \A k \in DOMAIN tiles : Saved(k)' <=> Saved(k)
  BY <1>3 DEF Saved
<1>6. SavedOnce'
  BY <1>5, SavedKept DEF PoolInv
<1>7. TilesListed'
  BY ListStays DEF PoolInv
<1> QED BY <1>4, <1>6, <1>7 DEF PoolInv

(* A step of one thread by which it has one place less to save. *)
LEMMA PlaceLeft ==
    ASSUME PoolInv, NEW w \in OutputThreads, NEW r, worker' = [worker EXCEPT ![w] = r], UNCHANGED <<tiles, startIndex>>,
           OnItsBatch(w)', NEW i \in Owned(w), i <= startIndex, Owned(w)' = Owned(w) \ {i}
    PROVE  WorkersApart' /\ \A k \in DOMAIN tiles : Saved(k)' <=> (Saved(k) \/ k = i)
<1>1. /\ worker' = [v \in OutputThreads |-> worker'[v]]
      /\ \A v \in OutputThreads : v # w => Owned(v)' = Owned(v) /\ (worker[v] = Idle \/ OnItsBatch(v))'
  <2>1. startIndex' \in Nat /\ startIndex <= startIndex' /\ tiles' = tiles
    BY PoolFacts
  <2> QED BY <2>1, OthersStay
<1>2. \A u, v \in OutputThreads : u # v => Owned(u) \cap Owned(v) = {}
  BY DEF PoolInv, WorkersApart
<1>3. WorkersApart'
  <2>1. \A u, v \in OutputThreads : u # v => Owned(u)' \cap Owned(v)' = {}
    BY <1>1, <1>2
  <2> QED BY <1>1, <2>1 DEF WorkersApart
<1>4. Saved(i)'
  <2>1. \A v \in OutputThreads : i \notin Owned(v)'
    BY <1>1, <1>2
  <2> QED BY <2>1 DEF Saved
<1>5. ASSUME NEW k \in DOMAIN tiles, k # i PROVE Saved(k)' <=> Saved(k)
  <2>1. \A v \in OutputThreads : k \in Owned(v)' <=> k \in Owned(v)
    BY <1>1, <1>5
  <2> QED BY <2>1 DEF Saved
<1> QED BY <1>3, <1>4, <1>5

(* The steps of a thread within a tile. *)
LEMMA WithinTile ==
    ASSUME PoolInv, NEW w \in OutputThreads, NEW r, worker' = [worker EXCEPT ![w] = r], UNCHANGED <<tiles, startIndex, written>>,
           worker[w].on \in {"tile", "object", "clip"}, r.on \in {"tile", "object", "clip"},
           DOMAIN r = DOMAIN worker[w], r.next = worker[w].next, r.last = worker[w].last, r.tile = worker[w].tile
    PROVE  PoolInv'
<1>1. OnItsBatch(w) /\ worker[w].on # "batch" /\ worker[w].on # "idle"
  BY DEF PoolInv, WorkersApart, Idle
<1>2. worker'[w] = r
  BY DEF PoolInv, WorkersApart
<1>3. OnItsBatch(w)'
  BY <1>1, <1>2, PassedOverStays DEF OnItsBatch
<1>4. Owned(w)' = Owned(w)
  BY <1>1, <1>2 DEF Owned
<1> QED BY <1>3, <1>4, PlacesKept

LEMMA WorkSteps ==
    ASSUME PoolInv, NEW w \in OutputThreads, NextGroup(w) \/ LookUpGeometry(w) \/ BuildGeometry(w) \/ WriteFeature(w)
    PROVE  PoolInv'
<1> DEFINE me == worker[w]
           Fields == {"on", "next", "last", "tile", "layer", "work", "group", "input", "made", "out", "cut"}
<1>1. me.on \in {"tile", "object", "clip"}
  BY DEF NextGroup, LookUpGeometry, BuildGeometry, WriteFeature
<1>2. DOMAIN me = Fields /\ worker = [v \in OutputThreads |-> worker[v]]
  <2>1. OnItsBatch(w)
    BY <1>1 DEF PoolInv, WorkersApart, Idle
  <2> QED BY <1>1, <2>1 DEF OnItsBatch, PoolInv, WorkersApart
<1>3. UNCHANGED <<tiles, startIndex, written>>
  BY DEF NextGroup, LookUpGeometry, BuildGeometry, WriteFeature
<1>4. SUFFICES ASSUME TRUE
               PROVE  \E r : /\ worker' = [worker EXCEPT ![w] = r]
                             /\ r.on \in {"tile", "object", "clip"} /\ DOMAIN r = DOMAIN me
                             /\ r.next = me.next /\ r.last = me.last /\ r.tile = me.tile
  BY <1>1, <1>3, WithinTile
<1>5. CASE NextGroup(w)
  <2> DEFINE r1 == [me EXCEPT !.on = "object", !.group = Head(me.work[me.layer]), !.made = {}, !.work[me.layer] = Tail(@)]
             r2 == [me EXCEPT !.layer = Len(LayerOrder) + 1, !.cut = TRUE]
             r3 == [me EXCEPT !.layer = @ + 1]
             r == worker'[w]
  <2>1. worker' = [worker EXCEPT ![w] = r] /\ r \in {r1, r2, r3}
    BY <1>2, <1>5 DEF NextGroup
  <2>2. me.on = "tile"
    BY <1>5 DEF NextGroup
  <2>3. r1.on = "object" /\ DOMAIN r1 = DOMAIN me /\ r1.next = me.next /\ r1.last = me.last /\ r1.tile = me.tile
    BY <1>2
  <2>4. r2.on = "tile" /\ DOMAIN r2 = DOMAIN me /\ r2.next = me.next /\ r2.last = me.last /\ r2.tile = me.tile
    BY <1>2, <2>2
  <2>5. r3.on = "tile" /\ DOMAIN r3 = DOMAIN me /\ r3.next = me.next /\ r3.last = me.last /\ r3.tile = me.tile
    BY <1>2, <2>2
  <2> HIDE DEF r1, r2, r3, r, me
  <2> QED BY <2>1, <2>3, <2>4, <2>5
<1>6. CASE LookUpGeometry(w)
  <2>1. PICK i : worker' = [worker EXCEPT ![w].on = "clip", ![w].input = i]
    BY <1>6 DEF LookUpGeometry
  <2> DEFINE r == [me EXCEPT !.on = "clip", !.input = i]
  <2>2. worker' = [worker EXCEPT ![w] = r]
    BY <1>2, <2>1
  <2>3. r.on = "clip" /\ DOMAIN r = DOMAIN me /\ r.next = me.next /\ r.last = me.last /\ r.tile = me.tile
    BY <1>2
  <2> HIDE DEF r, me
  <2> QED BY <2>2, <2>3
<1>7. CASE BuildGeometry(w)
  <2>1. PICK x : worker' = [worker EXCEPT ![w].on = "object", ![w].group = Tail(@), ![w].input = {}, ![w].made = @ \cup x]
    BY <1>7 DEF BuildGeometry
  <2> DEFINE r == [me EXCEPT !.on = "object", !.group = Tail(@), !.input = {}, !.made = @ \cup x]
  <2>2. worker' = [worker EXCEPT ![w] = r]
    BY <1>2, <2>1
  <2>3. r.on = "object" /\ DOMAIN r = DOMAIN me /\ r.next = me.next /\ r.last = me.last /\ r.tile = me.tile
    BY <1>2
  <2> HIDE DEF r, me
  <2> QED BY <2>2, <2>3
<1>8. CASE WriteFeature(w)
  <2>1. PICK o : worker' = [worker EXCEPT ![w].on = "tile", ![w].out = o]
    BY <1>8 DEF WriteFeature
  <2> DEFINE r == [me EXCEPT !.on = "tile", !.out = o]
  <2>2. worker' = [worker EXCEPT ![w] = r]
    BY <1>2, <2>1
  <2>3. r.on = "tile" /\ DOMAIN r = DOMAIN me /\ r.next = me.next /\ r.last = me.last /\ r.tile = me.tile
    BY <1>2
  <2> HIDE DEF r, me
  <2> QED BY <2>2, <2>3
<1> QED BY <1>5, <1>6, <1>7, <1>8

LEMMA BeginStep ==
    ASSUME PoolInv, NEW w \in OutputThreads, BeginTile(w)
    PROVE  PoolInv'
<1> DEFINE n == worker[w].next
           l == worker[w].last
           N == Len(tiles)
<1>1. worker[w].on = "batch" /\ UNCHANGED <<tiles, startIndex, written>>
  BY DEF BeginTile
<1>2. OnItsBatch(w)
  BY <1>1 DEF PoolInv, WorkersApart, Idle
<1>3. n \in 1..(l + 1) /\ l \in 1..startIndex /\ startIndex \in Nat /\ startIndex <= N /\ N \in Nat
  BY <1>2, PoolFacts DEF OnItsBatch
<1>4. Owned(w) = n..l
  BY <1>1 DEF Owned
<1>5. Min({l, N}) = l
  <2>1. {l, N} \in SUBSET Nat /\ {l, N} # {}
    BY <1>3
  <2>2. Min({l, N}) \in {l, N} /\ \A y \in {l, N} : Min({l, N}) <= y
    BY <2>1, MinOfNats
  <2> QED BY <1>3, <2>2
<1>6. worker = [v \in OutputThreads |-> worker[v]]
  BY DEF PoolInv, WorkersApart
<1>7. CASE n > l
  <2>1. worker' = [worker EXCEPT ![w] = Idle]
    BY <1>5, <1>7 DEF BeginTile
  <2>2. worker'[w] = Idle
    BY <1>6, <2>1
  <2>3. Owned(w)' = {}
    BY <2>2 DEF Owned, Idle
  <2>4. n..l = {}
    BY <1>3, <1>7
  <2>5. (worker[w] = Idle \/ OnItsBatch(w))'
    BY <2>2 DEF Idle
  <2> QED BY <1>1, <1>4, <2>1, <2>3, <2>4, <2>5, PlacesKept
<1>8. CASE ~(n > l) /\ ~PassedOver(tiles[n])
  <2> DEFINE t == tiles[n]
             r == [on |-> "tile", next |-> n + 1, last |-> l, tile |-> t, work |-> Work[t], layer |-> 0, group |-> <<>>,
                   input |-> {}, made |-> {}, out |-> {}, cut |-> FALSE]
  <2>1. worker' = [worker EXCEPT ![w] = r]
    BY <1>5, <1>8 DEF BeginTile
  <2>2. worker'[w] = r
    BY <1>6, <2>1
  <2>3. /\ worker'[w].on = "tile" /\ worker'[w].next = n + 1 /\ worker'[w].last = l /\ worker'[w].tile = tiles[n]
        /\ DOMAIN worker'[w] = {"on", "next", "last", "tile", "layer", "work", "group", "input", "made", "out", "cut"}
    BY <2>2
  <2> HIDE DEF r, t
  <2>4. (n + 1) - 1 = n /\ n + 1 \in 1..(l + 1) /\ n + 1 > 1
    BY <1>3, <1>8
  <2>5. Owned(w)' = n..l
    BY <2>3, <2>4 DEF Owned
  <2>6. OnItsBatch(w)'
    BY <1>1, <1>3, <1>8, <2>3, <2>4, PassedOverStays DEF OnItsBatch
  <2> QED BY <1>1, <1>4, <2>1, <2>5, <2>6, PlacesKept
<1>9. CASE ~(n > l) /\ PassedOver(tiles[n])
  <2> DEFINE r == [on |-> "batch", next |-> n + 1, last |-> l]
  <2>1. worker' = [worker EXCEPT ![w] = r]
    BY <1>5, <1>9 DEF BeginTile
  <2>2. n + 1 \in 1..(l + 1)
    BY <1>3, <1>9
  <2>4. n \in DOMAIN tiles /\ n \in Owned(w) /\ n \in 1..startIndex
    BY <1>3, <1>4, <1>9, PoolFacts
  <2>5. worker'[w].on = "batch" /\ worker'[w].next = n + 1 /\ worker'[w].last = l
    BY <1>6, <2>1
  <2> HIDE DEF r
  <2>6. OnItsBatch(w)' /\ Owned(w)' = Owned(w) \ {n}
    <3>1. (n + 1)..l = (n..l) \ {n}
      BY <1>3
    <3> QED BY <1>1, <1>3, <1>4, <2>2, <2>5, <3>1 DEF OnItsBatch, Owned
  <2>7. PICK i : i = n
    OBVIOUS
  <2>8. PassedOver(tiles[i]) /\ i \in Owned(w) /\ i <= startIndex /\ i \in DOMAIN tiles /\ Owned(w)' = Owned(w) \ {i}
    BY <1>3, <1>9, <2>4, <2>6, <2>7
  <2> HIDE DEF n, l, N
  <2>9. WorkersApart' /\ \A k \in DOMAIN tiles : Saved(k)' <=> (Saved(k) \/ k = i)
    BY <1>1, <2>1, <2>6, <2>8, PlaceLeft
  <2>10. SavedOnce'
    <3>1. \A u \in AllTiles : ~PassedOver(u) => \A k \in DOMAIN tiles : tiles[k] = u => (Saved(k)' <=> Saved(k))
      BY <2>8, <2>9
    <3>2. \A u \in AllTiles : (~PassedOver(u)' /\ \E k \in DOMAIN tiles : tiles[k] = u /\ Saved(k)')
                             <=> (~PassedOver(u) /\ \E k \in DOMAIN tiles : tiles[k] = u /\ Saved(k))
      BY <3>1, PassedOverStays
    <3>3. AllTiles' = AllTiles
      BY DEF AllTiles, Tile
    <3> QED BY <1>1, <3>2, <3>3 DEF PoolInv, SavedOnce
  <2>11. TilesListed' /\ (startIndex \in 0..Len(tiles))'
    BY <1>1, ListStays DEF PoolInv
  <2> QED BY <2>9, <2>10, <2>11 DEF PoolInv
<1> QED BY <1>7, <1>8, <1>9

LEMMA TakeStep ==
    ASSUME PoolInv, NEW w \in OutputThreads, TakeBatch(w)
    PROVE  PoolInv'
<1> DEFINE b == BatchSize(startIndex)
           N == Len(tiles)
           r == [on |-> "batch", next |-> startIndex + 1, last |-> startIndex + b]
<1>1. /\ worker[w] = Idle /\ startIndex < N /\ worker' = [worker EXCEPT ![w] = r]
      /\ startIndex' = startIndex + b /\ UNCHANGED <<tiles, written>>
  BY DEF TakeBatch
<1>2. N \in Nat /\ startIndex \in Nat /\ DOMAIN tiles = 1..N
  BY PoolFacts
<1>3. b \in 1..(N - startIndex)
  BY <1>1, <1>2, BatchSizeRange
<1> HIDE DEF b
<1>4. startIndex' \in Nat /\ startIndex <= startIndex' /\ startIndex' \in 0..N
  BY <1>1, <1>2, <1>3
<1>5. /\ worker' = [v \in OutputThreads |-> worker'[v]] /\ worker'[w] = r
      /\ \A v \in OutputThreads : v # w => Owned(v)' = Owned(v) /\ (worker[v] = Idle \/ OnItsBatch(v))'
  BY <1>1, <1>4, OthersStay
<1>6. worker'[w].on = "batch" /\ worker'[w].next = startIndex + 1 /\ worker'[w].last = startIndex'
  BY <1>1, <1>5
<1> HIDE DEF r, N
<1>7. Owned(w)' = (startIndex + 1)..startIndex' /\ Owned(w) = {}
  BY <1>1, <1>6 DEF Owned, Idle
<1>8. OnItsBatch(w)'
  <2>1. startIndex + 1 \in 1..(startIndex' + 1) /\ startIndex' \in 1..startIndex'
    BY <1>1, <1>2, <1>3, <1>4
  <2> QED BY <1>6, <2>1 DEF OnItsBatch
<1>9. \A v \in OutputThreads : \A k \in Owned(v) : k \in Nat /\ k <= startIndex
  BY OwnedTaken
<1>10. WorkersApart'
  <2>1. \A v \in OutputThreads : v # w => Owned(v)' \cap Owned(w)' = {}
    BY <1>2, <1>5, <1>7, <1>9
  <2>2. \A u, v \in OutputThreads : u # v => Owned(u)' \cap Owned(v)' = {}
    <3>1. \A u, v \in OutputThreads : u # v => Owned(u) \cap Owned(v) = {}
      BY DEF PoolInv, WorkersApart
    <3> QED BY <1>5, <2>1, <3>1
  <2> QED BY <1>5, <1>8, <2>2 DEF WorkersApart
<1>11. ASSUME NEW k \in DOMAIN tiles PROVE Saved(k)' <=> Saved(k)
  <2>1. k \in Nat
    BY <1>2
  <2>2. CASE k <= startIndex
    <3>1. k <= startIndex' /\ k \notin Owned(w)' /\ k \notin Owned(w)
      BY <1>2, <1>4, <1>7, <2>1, <2>2
    <3> QED BY <1>5, <2>2, <3>1 DEF Saved
  <2>3. CASE ~(k <= startIndex)
    <3>1. k <= startIndex' => k \in Owned(w)'
      BY <1>2, <1>4, <1>7, <2>1, <2>3
    <3> QED BY <2>3, <3>1 DEF Saved
  <2> QED BY <2>2, <2>3
<1>12. SavedOnce'
  BY <1>1, <1>11, SavedKept DEF PoolInv
<1>13. TilesListed'
  BY <1>1, ListStays DEF PoolInv
<1> QED BY <1>1, <1>4, <1>10, <1>12, <1>13 DEF PoolInv, N

LEMMA SaveStep ==
    ASSUME PoolInv, NEW w \in OutputThreads, SaveTile(w)
    PROVE  PoolInv'
<1> DEFINE n == worker[w].next
           l == worker[w].last
           N == Len(tiles)
           t == worker[w].tile
           r == [on |-> "batch", next |-> n, last |-> l]
           x == [features |-> worker[w].out, cut |-> worker[w].cut]
<1>1. /\ worker[w].on = "tile" /\ worker' = [worker EXCEPT ![w] = r]
      /\ written' = [written EXCEPT ![t] = Append(@, x)] /\ UNCHANGED <<tiles, startIndex>>
  BY DEF SaveTile
<1>2. OnItsBatch(w)
  BY <1>1 DEF PoolInv, WorkersApart, Idle
<1>3. /\ n \in 1..(l + 1) /\ l \in 1..startIndex /\ n > 1 /\ t = tiles[n - 1]
      /\ startIndex \in Nat /\ startIndex <= N /\ N \in Nat /\ DOMAIN tiles = 1..N
  BY <1>1, <1>2, PoolFacts DEF OnItsBatch
<1> HIDE DEF x, t
<1>4. /\ worker' = [v \in OutputThreads |-> worker'[v]] /\ worker'[w] = r
      /\ \A v \in OutputThreads : v # w => Owned(v)' = Owned(v) /\ (worker[v] = Idle \/ OnItsBatch(v))'
  <2>1. startIndex' \in Nat /\ startIndex <= startIndex' /\ tiles' = tiles
    BY <1>1, <1>3
  <2> QED BY <1>1, <2>1, OthersStay
<1>5. worker'[w].on = "batch" /\ worker'[w].next = n /\ worker'[w].last = l
  BY <1>4
<1>6. Owned(w) = (n - 1)..l /\ Owned(w)' = n..l
  BY <1>1, <1>5 DEF Owned
<1> HIDE DEF r
<1>7. OnItsBatch(w)'
  BY <1>1, <1>3, <1>5 DEF OnItsBatch
<1> HIDE DEF n, l, N
<1>8. PICK i : i = n - 1
  OBVIOUS
<1>9. i \in DOMAIN tiles /\ i \in Owned(w) /\ i <= startIndex /\ i \notin Owned(w)' /\ t = tiles[i] /\ ~PassedOver(t)
  BY <1>8, <1>1, <1>2, <1>3, <1>6 DEF OnItsBatch, t
<1>10. Owned(w)' = Owned(w) \ {i}
  BY <1>8, <1>3, <1>6
<1>11. WorkersApart' /\ \A k \in DOMAIN tiles : Saved(k)' <=> (Saved(k) \/ k = i)
  BY <1>1, <1>7, <1>9, <1>10, PlaceLeft
<1>12. ~Saved(i)
  BY <1>9 DEF Saved
<1>13. /\ \A k \in DOMAIN tiles : tiles[k] \in AllTiles
       /\ \A j, k \in DOMAIN tiles : tiles[j] = tiles[k] => j = k
  BY PoolFacts
<1>14. t \in AllTiles /\ \A k \in DOMAIN tiles : tiles[k] = t => k = i
  BY <1>9, <1>13
<1>15. written = [u \in AllTiles |-> written[u]]
  BY DEF PoolInv, SavedOnce
<1>16. written[t] = <<>>
  BY <1>12, <1>14 DEF PoolInv, SavedOnce
<1>17. written'[t] = <<x>> /\ \A u \in AllTiles : u # t => written'[u] = written[u]
  <2>1. Append(<<>>, x) = <<x>>
    OBVIOUS
  <2> QED BY <1>1, <1>14, <1>15, <1>16, <2>1
<1>18. written' = [u \in AllTiles |-> written'[u]]
  BY <1>1, <1>15
<1>19. ASSUME NEW u \in AllTiles
       PROVE  IF ~PassedOver(u)' /\ \E k \in DOMAIN tiles : tiles[k] = u /\ Saved(k)'
              THEN written'[u] = <<written'[u][1]>> ELSE written'[u] = <<>>
  <2>1. CASE u = t
    <3>1. <<x>>[1] = x
      OBVIOUS
    <3>2. \E k \in DOMAIN tiles : tiles[k] = u /\ Saved(k)'
      BY <1>9, <1>11, <2>1
    <3>3. written'[u] = <<written'[u][1]>>
      BY <1>17, <2>1, <3>1
    <3> QED BY <1>9, <2>1, <3>2, <3>3, PassedOverStays
  <2>2. CASE u # t
    <3>1. (\E k \in DOMAIN tiles : tiles[k] = u /\ Saved(k)') <=> (\E k \in DOMAIN tiles : tiles[k] = u /\ Saved(k))
      BY <1>9, <1>11, <2>2
    <3>2. IF ~PassedOver(u) /\ \E k \in DOMAIN tiles : tiles[k] = u /\ Saved(k)
          THEN written[u] = <<written[u][1]>> ELSE written[u] = <<>>
      BY DEF PoolInv, SavedOnce
    <3> QED BY <1>17, <2>2, <3>1, <3>2, PassedOverStays, Zenon
  <2> QED BY <2>1, <2>2
<1>20. SavedOnce'
  BY <1>1, <1>18, <1>19 DEF SavedOnce
<1>21. TilesListed'
  BY <1>1, ListStays DEF PoolInv
<1>22. (startIndex \in 0..Len(tiles))'
  BY <1>1 DEF PoolInv
<1> QED BY <1>11, <1>20, <1>21, <1>22 DEF PoolInv

LEMMA PoolStep == PoolInv /\ [NextOutput]_outputVars => PoolInv'
<1>1. SUFFICES ASSUME PoolInv, [NextOutput]_outputVars PROVE PoolInv'
  OBVIOUS
<1>2. ASSUME NEW w \in OutputThreads, OutputStep(w) PROVE PoolInv'
  BY <1>1, <1>2, TakeStep, BeginStep, WorkSteps, SaveStep DEF OutputStep
<1>3. CASE UserSignal \/ UNCHANGED outputVars
  <2>1. UNCHANGED <<tiles, startIndex, worker, written>>
    BY <1>3 DEF UserSignal, outputVars
  <2>2. TilesListed'
    BY <1>1, <2>1, ListStays DEF PoolInv
  <2>3. WorkersApart'
    BY <1>1, <2>1 DEF PoolInv, WorkersApart, OnItsBatch, Owned, Idle
  <2>4. \A k \in DOMAIN tiles : Saved(k)' <=> Saved(k)
    BY <2>1 DEF Saved, Owned
  <2>5. SavedOnce'
    BY <1>1, <2>1, <2>4, SavedKept DEF PoolInv
  <2> QED BY <1>1, <2>1, <2>2, <2>3, <2>5 DEF PoolInv
<1> QED BY <1>1, <1>2, <1>3 DEF NextOutput

(* The pool's invariant: the list holds each wanted tile once, the threads *)
(* have disjoint parts of it, and exactly what was handed out and is owned *)
(* by no thread any more has been saved (the batches of tilemaker.cpp,     *)
(* outputProc).                                                            *)
THEOREM PoolInvariance == SpecOutput => []PoolInv
<1>1. InitOutput => PoolInv
  BY PoolBegins
<1>2. PoolInv /\ [NextOutput]_outputVars => PoolInv'
  BY PoolStep
<1> QED BY <1>1, <1>2, PTL DEF SpecOutput

(* No tile is ever saved twice, none outside the clipping box, none that   *)
(* touches a configured box only from outside and none without an object,  *)
(* and when the pool has ended every other has been: for any weights,      *)
(* batches, threads and signals, and although tiles of a covered cluster   *)
(* are not compared with the box (tilemaker.cpp, outputProc).              *)
THEOREM TilesAreWrittenOnce == SpecOutput => []TilesWrittenOnce
<1>1. PoolInv => TilesWrittenOnce
  <2>1. SUFFICES ASSUME PoolInv, NEW t \in AllTiles
                 PROVE  LET wanted == Wanted(t)
                        IN  /\ Len(written[t]) <= (IF wanted THEN 1 ELSE 0)
                            /\ Finished /\ wanted => written[t] # <<>>
    BY DEF TilesWrittenOnce
  <2> DEFINE wanted == Wanted(t)
  <2>2. wanted <=> ~PassedOver(t) /\ \E k \in DOMAIN tiles : tiles[k] = t
    <3>1. wanted <=> ~PassedOver(t) /\ t \in {u \in Marked : Selected(u)}
      BY SelectedTouches DEF Wanted, PassedOver
    <3>2. ToSet(tiles) = {u \in Marked : Selected(u)}
      BY <2>1 DEF PoolInv, TilesListed
    <3> QED BY <3>1, <3>2 DEF ToSet
  <2> HIDE DEF wanted
  <2>3. IF ~PassedOver(t) /\ \E k \in DOMAIN tiles : tiles[k] = t /\ Saved(k) THEN written[t] = <<written[t][1]>> ELSE written[t] = <<>>
    BY <2>1 DEF PoolInv, SavedOnce
  <2>4. Len(<<written[t][1]>>) = 1 /\ Len(<<>>) = 0 /\ <<written[t][1]>> # <<>>
    OBVIOUS
  <2>5. Len(written[t]) <= (IF wanted THEN 1 ELSE 0)
    <3>1. written[t] = <<>> \/ written[t] = <<written[t][1]>>
      BY <2>3
    <3>2. Len(written[t]) = 0 \/ Len(written[t]) = 1
      BY <2>4, <3>1, Zenon
    <3>3. CASE wanted
      <4>1. Len(written[t]) <= 1
        <5>1. 0 <= 1 /\ 1 <= 1
          OBVIOUS
        <5> QED BY <3>2, <5>1, Zenon
      <4>2. (IF wanted THEN 1 ELSE 0) = 1
        BY <3>3
      <4> QED BY <4>1, <4>2
    <3>4. CASE ~wanted
      <4>1. written[t] = <<>>
        BY <2>2, <2>3, <3>4
      <4>2. Len(written[t]) = 0
        BY <2>4, <4>1, Zenon
      <4> QED BY <3>4, <4>2
    <3> QED BY <3>3, <3>4
  <2>6. ASSUME Finished, wanted PROVE written[t] # <<>>
    <3>1. PICK k \in DOMAIN tiles : tiles[k] = t
      BY <2>2, <2>6
    <3>2. k <= startIndex
      BY <2>1, <2>6, PoolFacts DEF Finished
    <3>3. \A w \in OutputThreads : Owned(w) = {}
      BY <2>6 DEF Finished, Owned, Idle
    <3>4. Saved(k)
      BY <3>2, <3>3 DEF Saved
    <3> QED BY <2>2, <2>3, <2>4, <2>6, <3>1, <3>4
  <2> QED BY <2>5, <2>6 DEF wanted
<1> QED BY <1>1, PoolInvariance, PTL
=============================================================================
