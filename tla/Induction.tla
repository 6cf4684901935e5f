----------------------------- MODULE Induction ------------------------------
(***************************************************************************)
(* Induction over natural numbers and finite sets, stated of sets: what is *)
(* to be shown of every number is membership in a set, which the provers   *)
(* can instantiate.  It rests on the ordering of finite sets by inclusion  *)
(* being well-founded.  The proofs about components use it for least and   *)
(* greatest elements and for what recursive functions compute.             *)
(***************************************************************************)
EXTENDS Integers, FiniteSets, FiniteSetsExt, SequencesExt, SequenceTheorems, WellFoundedInduction, FiniteSetTheorems, TLAPS

(* A set of numbers that is not empty has a least element. *)
LEMMA LeastNat ==
  ASSUME NEW T \in SUBSET Nat, T # {}
  PROVE  \E x \in T : \A y \in T : x <= y
<1> DEFINE Below(n) == 0..(n - 1)
           F == {Below(n) : n \in T}
<1>1. \A n \in T : Below(n) \in SUBSET Nat
  OBVIOUS
<1>2. \A n \in T : IsFiniteSet(Below(n))
  BY FS_Interval
<1>3. F \subseteq FiniteSubsetsOf(Nat)
  BY <1>1, <1>2 DEF FiniteSubsetsOf
<1>4. F # {}
  OBVIOUS
<1>5. PICK X \in F : \A Y \in F : ~ (<<Y, X>> \in StrictSubsetOrdering(Nat))
  BY <1>3, <1>4, WFMin, FS_StrictSubsetOrderingWellFounded
<1>6. PICK x \in T : X = Below(x)
  OBVIOUS
<1>7. ASSUME NEW y \in T, y < x PROVE FALSE
  <2>1. Below(y) \in F /\ Below(y) \in SUBSET Nat /\ Below(x) \in SUBSET Nat
    OBVIOUS
  <2>2. Below(y) \subseteq Below(x)
    BY <1>7
  <2>3. y \in Below(x) /\ y \notin Below(y)
    BY <1>7
  <2> QED BY <2>1, <2>2, <2>3, <1>5, <1>6 DEF StrictSubsetOrdering
<1> QED BY <1>7

(* A set that contains 0, and with a number the next, contains all. *)
LEMMA SetInduction ==
  ASSUME NEW S, 0 \in S, \A n \in Nat : n \in S => n + 1 \in S
  PROVE  \A n \in Nat : n \in S
<1> DEFINE T == Nat \ S
<1>1. SUFFICES ASSUME T # {} PROVE FALSE
  OBVIOUS
<1>2. PICK x \in T : \A y \in T : x <= y
  BY <1>1, LeastNat
<1>3. x # 0
  OBVIOUS
<1>4. x - 1 \in Nat /\ x - 1 \notin T
  BY <1>2, <1>3
<1> QED BY <1>4

(* Min of a set of numbers is its least element. *)
LEMMA MinOfNats ==
  ASSUME NEW T \in SUBSET Nat, T # {}
  PROVE  Min(T) \in T /\ \A y \in T : Min(T) <= y
BY LeastNat DEF Min

(* A set of numbers below a bound has a greatest element, its Max. *)
LEMMA MaxOfNats ==
  ASSUME NEW T \in SUBSET Nat, T # {}, NEW b \in Nat, \A y \in T : y <= b
  PROVE  Max(T) \in T /\ \A y \in T : Max(T) >= y
<1> DEFINE D == {b - y : y \in T}
<1>1. D \in SUBSET Nat
  OBVIOUS
<1>0. D # {}
  OBVIOUS
<1>2. PICK d \in D : \A e \in D : d <= e
  BY <1>0, <1>1, LeastNat
<1>3. PICK x \in T : d = b - x
  OBVIOUS
<1>4. \A y \in T : x >= y
  BY <1>2, <1>3
<1> QED BY <1>4 DEF Max

(* f[n] is what n applications of g make of s. *)
Iterates(f, s, g, N) == f[0] = s /\ \A n \in 1..N : f[n] = g[f[n - 1]]

(* A function defined by recursion on numbers up to N exists. *)
LEMMA RecursionExists ==
  ASSUME NEW X, NEW s0 \in X, NEW g \in [X -> X], NEW N \in Nat
  PROVE  \E f \in [0..N -> X] : Iterates(f, s0, g, N)
<1> DEFINE S == {m \in Nat : m <= N => \E f \in [0..N -> X] : f[0] = s0 /\ \A n \in 1..m : f[n] = g[f[n - 1]]}
<1>1. 0 \in S
  <2> DEFINE f == [i \in 0..N |-> s0]
  <2>1. f \in [0..N -> X] /\ f[0] = s0
    OBVIOUS
  <2>2. \A n \in 1..0 : f[n] = g[f[n - 1]]
    OBVIOUS
  <2> HIDE DEF f
  <2> QED BY <2>1, <2>2
<1>2. ASSUME NEW m \in Nat, m \in S PROVE m + 1 \in S
  <2>1. SUFFICES ASSUME m + 1 <= N
                 PROVE  \E f \in [0..N -> X] : f[0] = s0 /\ \A n \in 1..(m + 1) : f[n] = g[f[n - 1]]
    OBVIOUS
  <2>2. PICK h \in [0..N -> X] : h[0] = s0 /\ \A n \in 1..m : h[n] = g[h[n - 1]]
    BY <1>2, <2>1
  <2> DEFINE f == [h EXCEPT ![m + 1] = g[h[m]]]
  <2>3. m \in 0..N /\ m + 1 \in 0..N /\ m + 1 # 0
    BY <2>1
  <2>4. f \in [0..N -> X] /\ f[0] = s0 /\ f[m + 1] = g[h[m]] /\ \A n \in 0..N : n # m + 1 => f[n] = h[n]
    BY <2>2, <2>3
  <2> HIDE DEF f
  <2>5. ASSUME NEW n \in 1..(m + 1) PROVE f[n] = g[f[n - 1]]
    <3>1. CASE n = m + 1
      <4>1. n - 1 = m /\ m # m + 1
        BY <3>1
      <4> QED BY <2>3, <2>4, <3>1, <4>1
    <3>2. CASE n # m + 1
      <4>1. n \in 1..m /\ n \in 0..N /\ n - 1 \in 0..N /\ n - 1 # m + 1
        BY <2>1, <3>2
      <4> QED BY <2>2, <2>4, <4>1
    <3> QED BY <3>1, <3>2
  <2> QED BY <2>4, <2>5
<1> HIDE DEF S
<1>3. \A m \in Nat : m \in S
  BY <1>1, <1>2, SetInduction
<1>4. N \in S
  BY <1>3
<1> QED BY <1>4 DEF S, Iterates
-----------------------------------------------------------------------------
(* Facts about sets and sequences that several proofs need. *)

(* Two sets with nothing in common count as their sum. *)
LEMMA CountDisjoint ==
    ASSUME NEW A, NEW B, IsFiniteSet(A), IsFiniteSet(B), A \cap B = {}
    PROVE  Cardinality(A \cup B) = Cardinality(A) + Cardinality(B) /\ IsFiniteSet(A \cup B)
<1>1. Cardinality(A) \in Nat /\ Cardinality(B) \in Nat /\ Cardinality(A \cap B) = 0
  BY FS_CardinalityType, FS_EmptySet
<1>2. Cardinality(A \cup B) = Cardinality(A) + Cardinality(B) - Cardinality(A \cap B) /\ IsFiniteSet(A \cup B)
  BY FS_Union
<1> QED BY <1>1, <1>2

(* A function on 1..k is a sequence. *)
LEMMA FunctionIsSeq ==
    ASSUME NEW S, NEW k \in Nat, NEW g \in [1..k -> S]
    PROVE  g \in Seq(S) /\ Len(g) = k
OBVIOUS

(* What two sequences hold, one after the other. *)
LEMMA ToSetConcat ==
    ASSUME NEW S, NEW a \in Seq(S), NEW b \in Seq(S)
    PROVE  a \o b \in Seq(S) /\ ToSet(a \o b) = ToSet(a) \cup ToSet(b) /\ Len(a \o b) = Len(a) + Len(b)
<1>1. /\ a \o b \in Seq(S) /\ Len(a \o b) = Len(a) + Len(b)
      /\ \A i \in 1..(Len(a) + Len(b)) : (a \o b)[i] = IF i <= Len(a) THEN a[i] ELSE b[i - Len(a)]
  BY ConcatProperties
<1>2. Len(a) \in Nat /\ Len(b) \in Nat /\ DOMAIN a = 1..Len(a) /\ DOMAIN b = 1..Len(b) /\ DOMAIN (a \o b) = 1..(Len(a) + Len(b))
  BY <1>1, LenProperties
<1> DEFINE c == a \o b
           m == Len(a)
           k == Len(b)
<1> HIDE DEF c, m, k
<1>3. ASSUME NEW x \in ToSet(c) PROVE x \in ToSet(a) \cup ToSet(b)
  <2>1. PICK i \in 1..(m + k) : x = c[i]
    BY <1>2 DEF ToSet, c, m, k
  <2>2. CASE i <= m
    BY <1>1, <1>2, <2>1, <2>2 DEF ToSet, c, m, k
  <2>3. CASE i > m
    <3>1. i - m \in 1..k /\ x = b[i - m]
      BY <1>1, <1>2, <2>1, <2>3 DEF c, m, k
    <3> QED BY <1>2, <3>1 DEF ToSet, k
  <2> QED BY <1>2, <2>2, <2>3 DEF m
<1>4. ASSUME NEW x \in ToSet(a) PROVE x \in ToSet(c)
  <2>1. PICK i \in 1..m : x = a[i]
    BY <1>2 DEF ToSet, m
  <2>2. i \in 1..(m + k) /\ x = c[i]
    BY <1>1, <1>2, <2>1 DEF c, m, k
  <2> QED BY <1>2, <2>2 DEF ToSet, c, m, k
<1>5. ASSUME NEW x \in ToSet(b) PROVE x \in ToSet(c)
  <2>1. PICK i \in 1..k : x = b[i]
    BY <1>2 DEF ToSet, k
  <2>2. i + m \in 1..(m + k) /\ x = c[i + m]
    <3>1. i + m \in 1..(m + k) /\ ~(i + m <= m) /\ i + m - m = i
      BY <1>2 DEF m, k
    <3> QED BY <1>1, <2>1, <3>1 DEF c, m, k
  <2> QED BY <1>2, <2>2 DEF ToSet, c, m, k
<1> QED BY <1>1, <1>3, <1>4, <1>5 DEF c
-----------------------------------------------------------------------------
(* Folds over finite sets. *)

(* f[s] is what is made of b by taking the elements of s one by one. *)
Picked(s) == CHOOSE x \in s : TRUE
FoldsBy(f, b, g, S) == \A s \in SUBSET S : f[s] = IF s = {} THEN b ELSE g[<<Picked(s), f[s \ {Picked(s)}]>>]

(* The element taken of a set, and what is left of it. *)
LEMMA PickedLess ==
    ASSUME NEW S, IsFiniteSet(S), NEW s \in SUBSET S, s # {}
    PROVE  /\ Picked(s) \in s /\ s \ {Picked(s)} \in SUBSET S
           /\ Cardinality(s) \in Nat /\ Cardinality(s \ {Picked(s)}) = Cardinality(s) - 1
<1>1. Picked(s) \in s
  BY DEF Picked
<1>2. IsFiniteSet(s)
  BY FS_Subset
<1> QED BY <1>1, <1>2, FS_RemoveElement, FS_CardinalityType

(* Such a function exists for each finite set. *)
LEMMA FoldExists ==
    ASSUME NEW S, IsFiniteSet(S), NEW X, NEW b \in X, NEW g \in [S \X X -> X]
    PROVE  \E f \in [SUBSET S -> X] : FoldsBy(f, b, g, S)
<1> DEFINE Next(f, s) == IF s = {} THEN b ELSE g[<<Picked(s), f[s \ {Picked(s)}]>>]
           UpTo(n) == {s \in SUBSET S : Cardinality(s) <= n}
           T == {n \in Nat : \E f \in [SUBSET S -> X] : \A s \in UpTo(n) : f[s] = Next(f, s)}
<1>1. \A s \in SUBSET S : IsFiniteSet(s) /\ Cardinality(s) \in Nat /\ (Cardinality(s) = 0 => s = {})
  BY FS_Subset, FS_CardinalityType, FS_EmptySet
<1>2. ASSUME NEW s \in SUBSET S, NEW f \in [SUBSET S -> X] PROVE Next(f, s) \in X
  <2>1. CASE s = {}
    BY <2>1
  <2>2. CASE s # {}
    <3>1. Picked(s) \in S /\ f[s \ {Picked(s)}] \in X
      BY <2>2, PickedLess
    <3> QED BY <2>2, <3>1
  <2> QED BY <2>1, <2>2
<1>3. 0 \in T
  <2> DEFINE f == [s \in SUBSET S |-> b]
  <2>1. \A s \in UpTo(0) : s = {}
    BY <1>1
  <2>2. \A s \in UpTo(0) : f[s] = Next(f, s)
    BY <2>1
  <2>3. f \in [SUBSET S -> X]
    OBVIOUS
  <2> HIDE DEF f, Next
  <2> QED BY <2>2, <2>3
<1>4. ASSUME NEW n \in Nat, n \in T PROVE n + 1 \in T
  <2>1. PICK h \in [SUBSET S -> X] : \A s \in UpTo(n) : h[s] = Next(h, s)
    BY <1>4
  <2> DEFINE f == [s \in SUBSET S |-> IF Cardinality(s) = n + 1 THEN Next(h, s) ELSE h[s]]
  <2>2. f \in [SUBSET S -> X]
    <3> HIDE DEF Next
    <3> QED BY <1>2
  <2>3. ASSUME NEW s \in UpTo(n + 1) PROVE f[s] = Next(f, s) /\ Next(f, s) = Next(h, s)
    <3>1. CASE s = {}
      <4>1. Cardinality(s) = 0 /\ s \in UpTo(n)
        BY <3>1, FS_EmptySet
      <4>2. f[s] = h[s]
        BY <4>1
      <4>3. h[s] = Next(h, s)
        BY <4>1, <2>1
      <4> HIDE DEF f
      <4> QED BY <4>2, <4>3, <3>1
    <3>2. CASE s # {}
      <4> DEFINE r == s \ {Picked(s)}
      <4>1. r \in SUBSET S /\ Cardinality(r) = Cardinality(s) - 1 /\ Cardinality(s) \in Nat
        BY <3>2, PickedLess
      <4>2. Cardinality(r) # n + 1
        BY <4>1
      <4>3. f[r] = h[r]
        BY <4>1, <4>2
      <4>4. Next(f, s) = Next(h, s)
        BY <4>3, <3>2
      <4>5. CASE Cardinality(s) = n + 1
        <5>1. f[s] = Next(h, s)
          BY <4>5
        <5> HIDE DEF f, Next
        <5> QED BY <5>1, <4>4
      <4>6. CASE Cardinality(s) # n + 1
        <5>1. s \in UpTo(n)
          BY <4>1, <4>6
        <5>2. f[s] = h[s]
          BY <4>6
        <5> HIDE DEF f, Next
        <5> QED BY <5>1, <5>2, <4>4, <2>1
      <4> QED BY <4>5, <4>6
    <3> QED BY <3>1, <3>2
  <2> HIDE DEF f, Next
  <2> QED BY <2>2, <2>3
<1> HIDE DEF T
<1>5. \A n \in Nat : n \in T
  BY <1>3, <1>4, SetInduction
<1>6. Cardinality(S) \in T
  BY <1>5, FS_CardinalityType
<1>7. PICK f \in [SUBSET S -> X] : \A s \in UpTo(Cardinality(S)) : f[s] = Next(f, s)
  BY <1>6 DEF T
<1>8. \A s \in SUBSET S : s \in UpTo(Cardinality(S))
  BY FS_Subset
<1> QED BY <1>7, <1>8 DEF FoldsBy
-----------------------------------------------------------------------------
(* Powers of two, counted as sets of subsets. *)

LEMMA PowerType == \A n \in Nat : 2^n \in Nat /\ 2^n > 0
<1>1. ASSUME NEW n \in Nat PROVE 2^n \in Nat /\ 2^n > 0
  <2>1. IsFiniteSet(1..n) /\ Cardinality(1..n) = n
    BY FS_Interval
  <2>2. IsFiniteSet(SUBSET (1..n)) /\ Cardinality(SUBSET (1..n)) = 2^n
    BY <2>1, FS_SUBSET
  <2>3. SUBSET (1..n) # {}
    OBVIOUS
  <2> QED BY <2>2, <2>3, FS_CardinalityType, FS_EmptySet
<1> QED BY <1>1

LEMMA PowerZero == 2^0 = 1
<1>1. IsFiniteSet({}) /\ Cardinality({}) = 0
  BY FS_EmptySet
<1>2. Cardinality(SUBSET {}) = 2^0
  BY <1>1, FS_SUBSET
<1>3. SUBSET {} = {{}}
  OBVIOUS
<1> QED BY <1>2, <1>3, FS_Singleton

LEMMA PowerNext == ASSUME NEW n \in Nat PROVE 2^(n + 1) = 2 * 2^n
<1> DEFINE A == SUBSET (1..n)
           B == {a \cup {n + 1} : a \in A}
           h == [a \in A |-> a \cup {n + 1}]
<1>1. /\ IsFiniteSet(1..n) /\ Cardinality(1..n) = n
      /\ IsFiniteSet(1..(n + 1)) /\ Cardinality(1..(n + 1)) = n + 1
  BY FS_Interval
<1>2. /\ IsFiniteSet(A) /\ Cardinality(A) = 2^n
      /\ Cardinality(SUBSET (1..(n + 1))) = 2^(n + 1)
  BY <1>1, FS_SUBSET
<1>3. h \in Bijection(A, B)
  <2>1. h \in [A -> B]
    OBVIOUS
  <2>2. ASSUME NEW a \in A, NEW c \in A, h[a] = h[c] PROVE a = c
    <3>1. n + 1 \notin a /\ n + 1 \notin c
      OBVIOUS
    <3> QED BY <3>1, <2>2
  <2>3. \A y \in B : \E a \in A : h[a] = y
    OBVIOUS
  <2> HIDE DEF h, A, B
  <2> QED BY <2>1, <2>2, <2>3 DEF Bijection, Injection, Surjection, IsInjective
<1>4. IsFiniteSet(B) /\ Cardinality(B) = 2^n
  BY <1>2, <1>3, FS_Bijection DEF ExistsBijection
<1>5. A \cap B = {}
  OBVIOUS
<1>6. ASSUME NEW s \in SUBSET (1..(n + 1)) PROVE s \in A \cup B
  <2>1. CASE n + 1 \in s
    <3>1. s \ {n + 1} \in A /\ s = (s \ {n + 1}) \cup {n + 1}
      BY <2>1
    <3> QED BY <3>1
  <2>2. CASE n + 1 \notin s
    BY <2>2
  <2> QED BY <2>1, <2>2
<1>7. ASSUME NEW s \in A \cup B PROVE s \in SUBSET (1..(n + 1))
  OBVIOUS
<1>8. SUBSET (1..(n + 1)) = A \cup B
  BY <1>6, <1>7
<1>9. Cardinality(A \cup B) = 2^n + 2^n
  <2> HIDE DEF A, B
  <2>1. Cardinality(A \cup B) = Cardinality(A) + Cardinality(B)
    BY <1>2, <1>4, <1>5, CountDisjoint
  <2> QED BY <1>2, <1>4, <2>1
<1>10. 2^(n + 1) = 2^n + 2^n
  BY <1>2, <1>8, <1>9
<1>11. \A x \in Nat : x + x = 2 * x
  OBVIOUS
<1> QED BY <1>10, <1>11, PowerType

LEMMA PowerSum == \A a, b \in Nat : 2^(a + b) = 2^a * 2^b
<1>1. SUFFICES ASSUME NEW a \in Nat PROVE \A b \in Nat : 2^(a + b) = 2^a * 2^b
  OBVIOUS
<1> DEFINE T == {b \in Nat : 2^(a + b) = 2^a * 2^b}
<1>2. 0 \in T
  <2>1. a + 0 = a /\ 2^a * 1 = 2^a
    BY PowerType
  <2> QED BY <2>1, PowerZero
<1>3. ASSUME NEW b \in Nat, b \in T PROVE b + 1 \in T
  <2>1. 2^(a + (b + 1)) = 2 * 2^(a + b)
    <3>1. a + (b + 1) = (a + b) + 1 /\ a + b \in Nat
      OBVIOUS
    <3> QED BY <3>1, PowerNext
  <2>2. 2^(b + 1) = 2 * 2^b
    BY PowerNext
  <2>3. 2^(a + b) = 2^a * 2^b
    BY <1>3
  <2>4. \A x, y \in Nat : 2 * (x * y) = x * (2 * y)
    OBVIOUS
  <2>5. 2 * (2^a * 2^b) = 2^a * (2 * 2^b)
    BY <2>4, PowerType
  <2> QED BY <2>1, <2>2, <2>3, <2>5
<1> HIDE DEF T
<1>4. \A b \in Nat : b \in T
  BY <1>2, <1>3, SetInduction
<1> QED BY <1>4 DEF T
=============================================================================
