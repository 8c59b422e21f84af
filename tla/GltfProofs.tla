----------------------------- MODULE GltfProofs -----------------------------
(***************************************************************************)
(* The importer, for every well-formed document and every disk: what it     *)
(* makes of the document is the document's meaning, and it fails or reads   *)
(* outside a vector only for the reasons GltfScene lists.                   *)
(***************************************************************************)
EXTENDS GltfScene, SequenceTheorems, FiniteSetTheorems, TLAPS

(***************************************************************************)
(* Natural numbers: a nonempty set has a least element, since a set without *)
(* one has as many lower bounds as lower bounds other than 0; induction and *)
(* definition by recursion follow from it.                                  *)
(***************************************************************************)
LEMMA Least ==
  ASSUME NEW T \in SUBSET Nat, T # {}
  PROVE  \E x \in T : \A y \in T : x <= y
<1> SUFFICES ASSUME \A x \in T : \E y \in T : y < x
             PROVE  FALSE
    OBVIOUS
<1>1. PICK m \in T : TRUE
      OBVIOUS
<1> DEFINE U == {x \in 0..m : \A y \in T : x <= y}
           next == [x \in U |-> x + 1]
<1>2. IsFiniteSet(U) /\ 0 \in U
  <2>1. IsFiniteSet(0..m)
        BY <1>1, FS_Interval
  <2>2. U \in SUBSET (0..m)
        OBVIOUS
  <2>3. QED
        BY <1>1, <2>1, <2>2, FS_Subset
<1>3. ASSUME NEW x \in U PROVE x + 1 \in U \ {0}
  <2>1. x \notin T
        BY <1>3
  <2>2. \A y \in T : x + 1 <= y
        BY <2>1, <1>3
  <2>3. QED
        BY <2>2, <1>1
<1>4. next \in Injection(U, U \ {0})
      BY <1>3 DEF Injection, IsInjective
<1>5. /\ IsFiniteSet(U \ {0})
      /\ Cardinality(U \ {0}) = Cardinality(U) - 1
      BY <1>2, FS_RemoveElement
<1>6. Cardinality(U) <= Cardinality(U \ {0})
      BY <1>4, <1>5, FS_Injection
<1>7. Cardinality(U) \in Nat
      BY <1>2, FS_CardinalityType
<1>8. QED
      BY <1>5, <1>6, <1>7

\* Induction over a set of natural numbers.
LEMMA InductionInSet ==
  ASSUME NEW T, 0 \in T, \A n \in Nat : n \in T => n + 1 \in T
  PROVE  Nat \subseteq T
<1> SUFFICES ASSUME Nat \ T # {} PROVE FALSE
    OBVIOUS
<1>1. PICK x \in Nat \ T : \A y \in Nat \ T : x <= y
      BY Least
<1>2. x # 0 /\ x - 1 \in Nat
      OBVIOUS
<1>3. x - 1 \in T
      BY <1>1, <1>2
<1>4. QED
      BY <1>2, <1>3

\* Up to a bound.
LEMMA InductionUpTo ==
  ASSUME NEW T, NEW a \in Int, NEW b \in Int, a \in T,
         \A n \in a..(b - 1) : n \in T => n + 1 \in T
  PROVE  a..b \subseteq T
<1> DEFINE U == {n \in Nat : a + n <= b => a + n \in T}
<1>1. 0 \in U
      OBVIOUS
<1>2. ASSUME NEW n \in Nat, n \in U PROVE n + 1 \in U
  <2>1. a + n + 1 <= b => a + n \in a..(b - 1)
        OBVIOUS
  <2>2. a + n + 1 <= b => a + n + 1 \in T
        BY <1>2, <2>1
  <2>3. QED
        BY <2>2
<1>3. Nat \subseteq U
      BY <1>1, <1>2, InductionInSet
<1>4. ASSUME NEW n \in a..b PROVE n \in T
  <2>1. n - a \in U
        BY <1>3
  <2>2. QED
        BY <2>1
<1>5. QED
      BY <1>4

\* The Min of Collect is one of the numbers.
LEMMA MinIs ==
  ASSUME NEW T \in SUBSET Nat, T # {}
  PROVE  Min(T) \in T
BY Least DEF Min
-----------------------------------------------------------------------------
(* Vectors.                                                                 *)

\* A vector is a function on 1..n.
LEMMA VectorIs ==
  ASSUME NEW v
  PROVE  IsVector(v) <=> \E n \in Nat : v = [i \in 1..n |-> v[i]]
<1>1. ASSUME IsVector(v) PROVE \E n \in Nat : v = [i \in 1..n |-> v[i]]
  <2>1. v \in Seq(ToSet(v))
        BY <1>1 DEF IsVector
  <2>2. Len(v) \in Nat /\ v = [i \in 1..Len(v) |-> v[i]]
        BY <2>1
  <2>3. QED
        BY <2>2
<1>2. ASSUME NEW n \in Nat, v = [i \in 1..n |-> v[i]] PROVE IsVector(v)
  <2>1. DOMAIN v = 1..n /\ \A i \in 1..n : v[i] \in ToSet(v)
        BY <1>2 DEF ToSet
  <2>2. v \in [1..n -> ToSet(v)]
        BY <1>2, <2>1
  <2>3. QED
        BY <2>2, SeqDef DEF IsVector
<1>3. QED
      BY <1>1, <1>2

\* Its domain, and the sets it is a sequence over.
LEMMA VectorElements ==
  ASSUME NEW v, IsVector(v)
  PROVE  /\ Len(v) \in Nat /\ DOMAIN v = 1..Len(v)
         /\ \A S : (\A i \in 1..Len(v) : v[i] \in S) => v \in Seq(S)
<1>1. v \in Seq(ToSet(v))
      BY DEF IsVector
<1>2. Len(v) \in Nat /\ DOMAIN v = 1..Len(v) /\ v = [i \in 1..Len(v) |-> v[i]]
      BY <1>1
<1>3. ASSUME NEW S, \A i \in 1..Len(v) : v[i] \in S PROVE v \in Seq(S)
  <2>1. v \in [1..Len(v) -> S]
        BY <1>2, <1>3
  <2>2. QED
        BY <1>2, <2>1, SeqDef
<1>4. QED
      BY <1>2, <1>3

\* Every sequence is a vector.
LEMMA SeqIsVector ==
  ASSUME NEW S, NEW v \in Seq(S)
  PROVE  IsVector(v)
<1>1. Len(v) \in Nat /\ v = [i \in 1..Len(v) |-> v[i]]
      BY ElementOfSeq
<1>2. QED
      BY <1>1, VectorIs

\* push_back.
LEMMA VectorAppend ==
  ASSUME NEW v, NEW x, IsVector(v)
  PROVE  /\ IsVector(Append(v, x))
         /\ Len(Append(v, x)) = Len(v) + 1
         /\ \A i \in 1..Len(v) : Append(v, x)[i] = v[i]
         /\ Append(v, x)[Len(v) + 1] = x
<1> DEFINE S == ToSet(v) \cup {x}
<1>1. Len(v) \in Nat /\ v \in Seq(S) /\ x \in S
      BY VectorElements DEF ToSet
<1> HIDE DEF S
<1>2. /\ Append(v, x) \in Seq(S) /\ Len(Append(v, x)) = Len(v) + 1
      /\ \A i \in 1..Len(v) : Append(v, x)[i] = v[i]
      /\ Append(v, x)[Len(v) + 1] = x
      BY <1>1
<1>3. QED
      BY <1>2, SeqIsVector

\* What is left without the first element.
LEMMA VectorTail ==
  ASSUME NEW v, IsVector(v), v # <<>>
  PROVE  /\ Len(v) \in Nat \ {0} /\ Head(v) = v[1]
         /\ IsVector(Tail(v)) /\ Len(Tail(v)) = Len(v) - 1
         /\ \A i \in 1..(Len(v) - 1) : Tail(v)[i] = v[i + 1]
<1> DEFINE S == ToSet(v)
<1>1. v \in Seq(S)
      BY DEF IsVector
<1> HIDE DEF S
<1>2. /\ Len(v) \in Nat \ {0} /\ Head(v) = v[1]
      /\ Tail(v) \in Seq(S) /\ Len(Tail(v)) = Len(v) - 1
      /\ \A i \in 1..(Len(v) - 1) : Tail(v)[i] = v[i + 1]
      BY <1>1, EmptySeq
<1>3. QED
      BY <1>2, SeqIsVector

\* One vector after the other.
LEMMA VectorConcat ==
  ASSUME NEW v, NEW w, IsVector(v), IsVector(w)
  PROVE  /\ IsVector(v \o w) /\ Len(v \o w) = Len(v) + Len(w)
         /\ \A i \in 1..Len(v) : (v \o w)[i] = v[i]
         /\ \A i \in 1..Len(w) : (v \o w)[Len(v) + i] = w[i]
<1> DEFINE S == ToSet(v) \cup ToSet(w)
<1>1. v \in Seq(S) /\ w \in Seq(S) /\ Len(v) \in Nat /\ Len(w) \in Nat
      BY VectorElements DEF ToSet
<1> HIDE DEF S
<1>2. /\ v \o w \in Seq(S) /\ Len(v \o w) = Len(v) + Len(w)
      /\ \A i \in 1..(Len(v) + Len(w)) :
           (v \o w)[i] = IF i <= Len(v) THEN v[i] ELSE w[i - Len(v)]
      BY <1>1, ConcatProperties
<1>3. \A i \in 1..Len(v) : (v \o w)[i] = v[i]
      BY <1>1, <1>2
<1>4. ASSUME NEW i \in 1..Len(w) PROVE (v \o w)[Len(v) + i] = w[i]
  <2>1. Len(v) + i \in 1..(Len(v) + Len(w)) /\ ~(Len(v) + i <= Len(v))
        /\ (Len(v) + i) - Len(v) = i
        BY <1>1
  <2>2. QED
        BY <1>2, <2>1
<1>5. QED
      BY <1>2, <1>3, <1>4, SeqIsVector
-----------------------------------------------------------------------------
(* Concatenations.                                                          *)

\* f adds up the sequences of ss.
IsFlattening(ss, f, m) ==
  f = [i \in 1..m |-> IF i = 1 THEN ss[i] ELSE f[i - 1] \o ss[i]]

\* FlattenSeq is the last of the sums it is defined by.
LEMMA FlattenIs ==
  ASSUME NEW ss, Len(ss) \in Nat, Len(ss) > 0
  PROVE  \E f : IsFlattening(ss, f, Len(ss)) /\ FlattenSeq(ss) = f[Len(ss)]
<1> DEFINE T == {m \in Nat : \E f : IsFlattening(ss, f, m)}
<1>1. 0 \in T
  <2>1. IsFlattening(ss, [i \in 1..0 |-> 0], 0)
        BY DEF IsFlattening
  <2>2. QED
        BY <2>1
<1>2. ASSUME NEW m \in Nat, m \in T PROVE m + 1 \in T
  <2>1. PICK f : IsFlattening(ss, f, m)
        BY <1>2
  <2>2. /\ f = [i \in 1..m |-> f[i]]
        /\ \A i \in 1..m : f[i] = IF i = 1 THEN ss[i] ELSE f[i - 1] \o ss[i]
        BY <2>1 DEF IsFlattening
  <2> DEFINE h == [i \in 1..(m + 1) |->
                     IF i <= m THEN f[i]
                     ELSE IF i = 1 THEN ss[i] ELSE f[i - 1] \o ss[i]]
  <2>3. ASSUME NEW i \in 1..(m + 1)
        PROVE  h[i] = IF i = 1 THEN ss[i] ELSE h[i - 1] \o ss[i]
    <3>1. CASE i <= m
      <4>1. i \in 1..m /\ (i # 1 => i - 1 \in 1..m)
            BY <3>1
      <4>2. h[i] = f[i] /\ (i # 1 => h[i - 1] = f[i - 1])
            BY <4>1
      <4>3. QED
            BY <2>2, <4>1, <4>2
    <3>2. CASE i = m + 1
      <4>1. i # 1 => i - 1 \in 1..m
            BY <3>2
      <4>2. i # 1 => h[i - 1] = f[i - 1]
            BY <4>1
      <4>3. h[i] = IF i = 1 THEN ss[i] ELSE f[i - 1] \o ss[i]
            BY <3>2
      <4>4. QED
            BY <4>2, <4>3
    <3>3. QED
          BY <3>1, <3>2
  <2>4. IsFlattening(ss, h, m + 1)
    <3>1. h = [i \in 1..(m + 1) |-> h[i]]
          OBVIOUS
    <3>2. [i \in 1..(m + 1) |-> h[i]] =
            [i \in 1..(m + 1) |-> IF i = 1 THEN ss[i] ELSE h[i - 1] \o ss[i]]
          BY <2>3, Zenon
    <3> HIDE DEF h
    <3>3. QED
          BY <3>1, <3>2 DEF IsFlattening
  <2> HIDE DEF h
  <2>5. QED
        BY <2>4
<1>3. Nat \subseteq T
      BY <1>1, <1>2, InductionInSet
<1>4. \E f : IsFlattening(ss, f, Len(ss))
      BY <1>3
<1> DEFINE flatten == CHOOSE f : IsFlattening(ss, f, Len(ss))
<1>5. IsFlattening(ss, flatten, Len(ss))
      BY <1>4, Zenon
<1>6. FlattenSeq(ss) = flatten[Len(ss)]
  <2>1. Len(ss) # 0
        OBVIOUS
  <2>2. FlattenSeq(ss) = (CHOOSE f : IsFlattening(ss, f, Len(ss)))[Len(ss)]
        BY <2>1, Zenon DEF FlattenSeq, IsFlattening
  <2>3. QED
        BY <2>2
<1>7. QED
      BY <1>5, <1>6, Zenon

\* The sums of the first i sequences, from none on.
LEMMA Flattening ==
  ASSUME NEW D, NEW ss \in Seq(Seq(D))
  PROVE  \E f \in [0..Len(ss) -> Seq(D)] :
           /\ f[0] = <<>>
           /\ \A i \in 0..(Len(ss) - 1) : f[i + 1] = f[i] \o ss[i + 1]
           /\ FlattenSeq(ss) = f[Len(ss)]
<1> DEFINE S == Seq(D)
           n == Len(ss)
<1>1. n \in Nat /\ \A i \in 1..n : ss[i] \in S
      BY LenProperties, ElementOfSeq
<1>2. <<>> \in S
      BY EmptySeq
<1>3. CASE n = 0
  <2>1. FlattenSeq(ss) = ss
        BY <1>3 DEF FlattenSeq
  <2>2. ss = <<>>
        BY <1>3, EmptySeq
  <2> DEFINE f == [i \in 0..n |-> <<>>]
  <2>3. /\ f \in [0..n -> S] /\ f[0] = <<>> /\ f[n] = <<>>
        /\ 0..(n - 1) = {}
        BY <1>2, <1>3
  <2> HIDE DEF f
  <2>4. QED
        BY <2>1, <2>2, <2>3
<1>4. CASE n > 0
  <2>1. PICK h : IsFlattening(ss, h, n) /\ FlattenSeq(ss) = h[n]
        BY <1>1, <1>4, FlattenIs
  <2>2. \A i \in 1..n : h[i] = IF i = 1 THEN ss[i] ELSE h[i - 1] \o ss[i]
        BY <2>1 DEF IsFlattening
  <2> DEFINE T == {i \in Nat : i \in 1..n => h[i] \in S}
  <2>3. 0 \in T
        OBVIOUS
  <2>4. ASSUME NEW i \in Nat, i \in T PROVE i + 1 \in T
    <3> SUFFICES ASSUME i + 1 \in 1..n PROVE h[i + 1] \in S
        OBVIOUS
    <3>1. CASE i = 0
          BY <3>1, <2>2, <1>1
    <3>2. CASE i # 0
      <4>1. i \in 1..n /\ h[i] \in S
            BY <3>2, <2>4
      <4>2. h[i + 1] = h[i] \o ss[i + 1]
        <5>1. (i + 1) - 1 = i /\ i + 1 # 1 /\ i + 1 \in 1..n
              BY <3>2
        <5>2. QED
              BY <5>1, <2>2
      <4>3. QED
            BY <4>1, <4>2, <1>1, ConcatProperties
    <3>3. QED
          BY <3>1, <3>2
  <2>5. \A i \in 1..n : h[i] \in S
    <3>1. Nat \subseteq T
          BY <2>3, <2>4, InductionInSet
    <3>2. QED
          BY <3>1
  <2> DEFINE f == [i \in 0..n |-> IF i = 0 THEN <<>> ELSE h[i]]
  <2>6. f \in [0..n -> S] /\ f[0] = <<>> /\ f[n] = h[n]
        BY <2>5, <1>2, <1>1, <1>4
  <2>7. ASSUME NEW i \in 0..(n - 1) PROVE f[i + 1] = f[i] \o ss[i + 1]
    <3>1. CASE i = 0
      <4>1. f[i + 1] = ss[i + 1] /\ f[i] = <<>> /\ i + 1 \in 1..n
            BY <3>1, <2>2
      <4>2. QED
            BY <4>1, <1>1, ConcatEmptySeq
    <3>2. CASE i # 0
      <4>1. f[i + 1] = h[i + 1] /\ f[i] = h[i] /\ i + 1 \in 1..n /\ i + 1 # 1
            /\ (i + 1) - 1 = i
            BY <3>2
      <4> HIDE DEF f
      <4>2. QED
            BY <4>1, <2>2
    <3>3. QED
          BY <3>1, <3>2
  <2> HIDE DEF f
  <2>8. QED
        BY <2>1, <2>6, <2>7
<1>5. n = 0 \/ n > 0
      BY <1>1
<1>6. QED
      BY <1>3, <1>4, <1>5, Zenon

\* The elements of the first b sequences, if these have one each.
LEMMA FlattenSingles ==
  ASSUME NEW D, NEW ss \in Seq(Seq(D)), NEW b \in 0..Len(ss),
         \A i \in 1..b : Len(ss[i]) = 1
  PROVE  /\ FlattenSeq(ss) \in Seq(D)
         /\ Len(FlattenSeq(ss)) >= b
         /\ \A j \in 1..b : FlattenSeq(ss)[j] = ss[j][1]
<1> DEFINE n == Len(ss)
<1>0. n \in Nat /\ b \in Nat /\ b <= n
      BY LenProperties
<1>1. \A i \in 1..n : ss[i] \in Seq(D)
      BY LenProperties, ElementOfSeq
<1>2. PICK f :
        /\ f \in [0..n -> Seq(D)]
        /\ f[0] = <<>>
        /\ \A i \in 0..(n - 1) : f[i + 1] = f[i] \o ss[i + 1]
        /\ FlattenSeq(ss) = f[n]
      BY Flattening
<1> HIDE DEF n
<1>3. \A i \in 0..n : f[i] \in Seq(D) /\ Len(f[i]) \in Nat
      BY <1>2, LenProperties
<1>4. ASSUME NEW i \in 0..(n - 1)
      PROVE  /\ Len(f[i + 1]) = Len(f[i]) + Len(ss[i + 1])
             /\ Len(ss[i + 1]) \in Nat
             /\ \A j \in 1..Len(f[i + 1]) : f[i + 1][j] =
                  IF j <= Len(f[i]) THEN f[i][j] ELSE ss[i + 1][j - Len(f[i])]
  <2>1. i \in 0..n /\ i + 1 \in 1..n
        BY <1>0, <1>1
  <2>2. f[i + 1] = f[i] \o ss[i + 1]
        BY <1>2
  <2> DEFINE u == f[i]
             v == ss[i + 1]
  <2>3. u \in Seq(D) /\ v \in Seq(D)
        BY <1>1, <1>3, <2>1
  <2> HIDE DEF u, v
  <2>4. /\ Len(u) \in Nat /\ Len(v) \in Nat /\ Len(u \o v) = Len(u) + Len(v)
        /\ \A j \in 1..(Len(u) + Len(v)) : (u \o v)[j] =
             IF j <= Len(u) THEN u[j] ELSE v[j - Len(u)]
        BY <2>3, ConcatProperties, LenProperties
  <2>5. f[i + 1] = u \o v
        BY <2>2 DEF u, v
  <2>6. QED
        BY <2>4, <2>5 DEF u, v
<1> DEFINE A == {i \in 0..n : /\ i <= b => Len(f[i]) = i
                              /\ i > b => Len(f[i]) >= b
                              /\ \A j \in 1..b : j <= i => f[i][j] = ss[j][1]}
<1>5. 0 \in A
  <2>1. Len(f[0]) = 0
        BY <1>2
  <2>2. QED
        BY <2>1, <1>0, <1>1
<1>6. ASSUME NEW i \in 0..(n - 1), i \in A PROVE i + 1 \in A
  <2>1. CASE i < b
    <3>1. Len(ss[i + 1]) = 1 /\ Len(f[i]) = i
          BY <2>1, <1>6, <1>0, <1>1
    <3>2. Len(f[i + 1]) = i + 1
          BY <1>4, <3>1
    <3>3. ASSUME NEW j \in 1..b, j <= i + 1 PROVE f[i + 1][j] = ss[j][1]
      <4>1. f[i + 1][j] = IF j <= i THEN f[i][j] ELSE ss[i + 1][j - i]
        <5>1. j \in 1..Len(f[i + 1])
              BY <3>2, <3>3
        <5>2. QED
              BY <1>4, <5>1, <3>1
      <4>2. CASE j <= i
            BY <4>1, <4>2, <1>6
      <4>3. CASE j = i + 1
            BY <4>1, <4>3
      <4>4. QED
            BY <4>2, <4>3, <3>3, <1>0, <1>1
    <3>4. QED
          BY <2>1, <3>2, <3>3, <1>0, <1>1
  <2>2. CASE i >= b
    <3>1. Len(f[i]) >= b
          BY <2>2, <1>6, <1>0, <1>1
    <3>2. Len(f[i + 1]) >= b
      <4>1. Len(f[i + 1]) = Len(f[i]) + Len(ss[i + 1]) /\ Len(ss[i + 1]) \in Nat
            BY <1>4
      <4>2. Len(f[i]) \in Nat
            BY <1>3, <1>0, <1>1
      <4>3. \A k, l, m \in Nat : k >= b /\ m = k + l => m >= b
            BY <1>0
      <4>4. Len(f[i + 1]) \in Nat
            BY <1>3, <1>0
      <4>5. QED
            BY <3>1, <4>1, <4>2, <4>3, <4>4, Zenon
    <3>3. ASSUME NEW j \in 1..b PROVE f[i + 1][j] = ss[j][1]
      <4>1. j \in 1..Len(f[i + 1]) /\ j <= Len(f[i]) /\ j <= i
            BY <3>1, <3>2, <2>2, <1>3, <1>0, <1>1
      <4>2. f[i + 1][j] = f[i][j]
            BY <1>4, <4>1
      <4>3. QED
            BY <4>1, <4>2, <1>6
    <3>4. QED
          BY <2>2, <3>2, <3>3, <1>0, <1>1
  <2>3. QED
        BY <2>1, <2>2, <1>0, <1>1
<1>7. n \in A
  <2> HIDE DEF A
  <2>0. 0 \in Int /\ n \in Int /\ \A i \in 0..(n - 1) : i \in A => i + 1 \in A
        BY <1>0, <1>6
  <2>1. 0..n \subseteq A
        BY <2>0, <1>5, InductionUpTo, Zenon
  <2>2. QED
        BY <2>1, <1>0
<1>8. QED
      BY <1>7, <1>2, <1>3, <1>0 DEF n

\* Sequences of at most one element each add up to at most their number.
LEMMA FlattenAtMost ==
  ASSUME NEW D, NEW ss \in Seq(Seq(D)), \A i \in 1..Len(ss) : Len(ss[i]) <= 1
  PROVE  Len(FlattenSeq(ss)) <= Len(ss)
<1> DEFINE n == Len(ss)
<1>1. n \in Nat /\ \A i \in 1..n : ss[i] \in Seq(D)
      BY LenProperties, ElementOfSeq
<1>2. PICK f :
        /\ f \in [0..n -> Seq(D)]
        /\ f[0] = <<>>
        /\ \A i \in 0..(n - 1) : f[i + 1] = f[i] \o ss[i + 1]
        /\ FlattenSeq(ss) = f[n]
      BY Flattening
<1>3. \A i \in 1..n : Len(ss[i]) <= 1
      OBVIOUS
<1> HIDE DEF n
<1> DEFINE A == {i \in 0..n : Len(f[i]) <= i}
<1>4. 0 \in A
  <2>1. Len(f[0]) = 0
        BY <1>2
  <2>2. QED
        BY <2>1, <1>1
<1>5. ASSUME NEW i \in 0..(n - 1), i \in A PROVE i + 1 \in A
  <2> DEFINE u == f[i]
             v == ss[i + 1]
  <2>1. i \in 0..n /\ i + 1 \in 1..n /\ i + 1 \in 0..n
        BY <1>1
  <2>2. /\ u \in Seq(D) /\ v \in Seq(D) /\ f[i + 1] = u \o v
        /\ Len(u) <= i /\ Len(v) <= 1
        BY <2>1, <1>1, <1>2, <1>3, <1>5
  <2> HIDE DEF u, v
  <2>3. Len(u) \in Nat /\ Len(v) \in Nat /\ Len(u \o v) = Len(u) + Len(v)
        BY <2>2, ConcatProperties, LenProperties
  <2>4. Len(f[i + 1]) <= i + 1
        BY <2>1, <2>2, <2>3
  <2>5. QED
        BY <2>1, <2>4
<1>6. 0 \in Int /\ n \in Int /\ n \in 0..n
      BY <1>1
<1> HIDE DEF A
<1>7. \A i \in 0..(n - 1) : i \in A => i + 1 \in A
      BY <1>5
<1>8. 0..n \subseteq A
      BY <1>4, <1>6, <1>7, InductionUpTo, Zenon
<1>9. QED
      BY <1>2, <1>6, <1>8 DEF A, n

\* One more sequence is one more summand.
LEMMA FlattenAppend ==
  ASSUME NEW D, NEW ss \in Seq(Seq(D)), NEW x \in Seq(D)
  PROVE  FlattenSeq(Append(ss, x)) = FlattenSeq(ss) \o x
<1> DEFINE n == Len(ss)
           tt == Append(ss, x)
<1>1. /\ n \in Nat /\ tt \in Seq(Seq(D)) /\ Len(tt) = n + 1 /\ tt[n + 1] = x
      /\ \A i \in 1..n : tt[i] = ss[i]
      BY LenProperties, AppendProperties
<1>2. PICK f :
        /\ f[0] = <<>>
        /\ \A i \in 0..(n - 1) : f[i + 1] = f[i] \o ss[i + 1]
        /\ FlattenSeq(ss) = f[n]
      BY Flattening
<1> HIDE DEF n, tt
<1>3. PICK h :
        /\ h[0] = <<>>
        /\ \A i \in 0..(Len(tt) - 1) : h[i + 1] = h[i] \o tt[i + 1]
        /\ FlattenSeq(tt) = h[Len(tt)]
      BY <1>1, Flattening
<1>4. \A i \in 0..n : h[i + 1] = h[i] \o tt[i + 1]
  <2>1. Len(tt) - 1 = n
        BY <1>1
  <2>2. QED
        BY <1>3, <2>1
<1> DEFINE A == {i \in 0..n : h[i] = f[i]}
<1>5. /\ 0 \in Int /\ n \in Int /\ 0 \in A
      /\ \A i \in 0..(n - 1) : i \in A => i + 1 \in A
  <2>1. 0 \in Int /\ n \in Int /\ 0 \in A
        BY <1>1, <1>2, <1>3
  <2>2. ASSUME NEW i \in 0..(n - 1), i \in A PROVE i + 1 \in A
    <3>1. i \in 0..n /\ i + 1 \in 0..n /\ i + 1 \in 1..n
          BY <1>1
    <3>2. h[i + 1] = h[i] \o tt[i + 1] /\ tt[i + 1] = ss[i + 1]
          BY <3>1, <1>1, <1>4
    <3>3. f[i + 1] = f[i] \o ss[i + 1] /\ h[i] = f[i]
          BY <2>2, <1>2
    <3>4. QED
          BY <3>1, <3>2, <3>3
  <2>3. QED
        BY <2>1, <2>2
<1> HIDE DEF A
<1>6. 0..n \subseteq A
      BY <1>5, InductionUpTo, Zenon
<1>7. h[n] = f[n] /\ n \in 0..n /\ Len(tt) = n + 1
      BY <1>6, <1>1 DEF A
<1>8. h[n + 1] = f[n] \o x
      BY <1>7, <1>4, <1>1
<1>9. QED
      BY <1>2, <1>3, <1>7, <1>8 DEF tt
-----------------------------------------------------------------------------
(***************************************************************************)
(* What an operator of the importer returns for the drawables X: the meshes *)
(* that mean them, or a failure with its reason.                            *)
(***************************************************************************)
Depicts(g, disk, data, X) ==
  /\ AreMeshData(data)
  /\ IsFiniteSet(X) /\ Len(data) = Cardinality(X)
  /\ \A d \in X : \E i \in DOMAIN data : Means(g, disk, data[i], d)

Refused(g, disk, result) ==
  \/ result.status = "error" /\ MayFail(g, disk)
  \/ result.status = "undefined" /\ MayBeUndefined(g, disk)
Explained(g, disk, result, X) ==
  \/ result.status = "ok" /\ Depicts(g, disk, result.data, X)
  \/ Refused(g, disk, result)

\* No meshes depict no drawables.
LEMMA DepictsNothing ==
  ASSUME NEW g, NEW disk
  PROVE  Depicts(g, disk, <<>>, {})
<1>1. <<>> \in Seq({}) /\ DOMAIN <<>> = {} /\ Len(<<>>) = 0
      BY EmptySeq
<1>2. IsVector(<<>>)
      BY <1>1, SeqIsVector
<1>3. QED
      BY <1>1, <1>2, FS_EmptySet DEF Depicts, AreMeshData

\* Meshes of disjoint drawables, one after the other, depict both.
LEMMA DepictsBoth ==
  ASSUME NEW g, NEW disk, NEW v, NEW w, NEW X, NEW Y,
         Depicts(g, disk, v, X), Depicts(g, disk, w, Y), X \cap Y = {}
  PROVE  Depicts(g, disk, v \o w, X \cup Y)
<1>1. /\ IsVector(v) /\ \A i \in DOMAIN v : IsVector(v[i].indices)
      /\ IsFiniteSet(X) /\ Len(v) = Cardinality(X)
      /\ \A d \in X : \E i \in DOMAIN v : Means(g, disk, v[i], d)
      BY DEF Depicts, AreMeshData
<1>2. /\ IsVector(w) /\ \A i \in DOMAIN w : IsVector(w[i].indices)
      /\ IsFiniteSet(Y) /\ Len(w) = Cardinality(Y)
      /\ \A d \in Y : \E i \in DOMAIN w : Means(g, disk, w[i], d)
      BY DEF Depicts, AreMeshData
<1> DEFINE u == v \o w
<1>3. /\ Len(v) \in Nat /\ DOMAIN v = 1..Len(v)
      /\ Len(w) \in Nat /\ DOMAIN w = 1..Len(w)
      BY <1>1, <1>2, VectorElements
<1>4. /\ IsVector(u) /\ Len(u) = Len(v) + Len(w)
      /\ \A i \in 1..Len(v) : u[i] = v[i]
      /\ \A i \in 1..Len(w) : u[Len(v) + i] = w[i]
      BY <1>1, <1>2, VectorConcat
<1> HIDE DEF u
<1>5. DOMAIN u = 1..(Len(v) + Len(w))
      BY <1>4, VectorElements
<1>6. AreMeshData(u)
  <2>1. ASSUME NEW i \in DOMAIN u PROVE IsVector(u[i].indices)
    <3>1. CASE i \in 1..Len(v)
          BY <3>1, <1>4, <1>1, <1>3
    <3>2. CASE i \notin 1..Len(v)
      <4>1. i - Len(v) \in 1..Len(w) /\ Len(v) + (i - Len(v)) = i
            BY <3>2, <1>5, <1>3
      <4>2. u[i] = w[i - Len(v)]
            BY <4>1, <1>4
      <4>3. QED
            BY <4>1, <4>2, <1>2, <1>3
    <3>3. QED
          BY <3>1, <3>2
  <2>2. QED
        BY <2>1, <1>4 DEF AreMeshData
<1>7. IsFiniteSet(X \cup Y) /\ Len(u) = Cardinality(X \cup Y)
  <2>1. /\ IsFiniteSet(X \cup Y)
        /\ Cardinality(X \cup Y) = Cardinality(X) + Cardinality(Y) - Cardinality(X \cap Y)
        BY <1>1, <1>2, FS_Union
  <2>2. Cardinality(X \cap Y) = 0
        BY FS_EmptySet
  <2>3. QED
        BY <2>1, <2>2, <1>1, <1>2, <1>3, <1>4
<1>8. ASSUME NEW d \in X \cup Y
      PROVE  \E i \in DOMAIN u : Means(g, disk, u[i], d)
  <2>1. CASE d \in X
    <3>1. PICK i \in DOMAIN v : Means(g, disk, v[i], d)
          BY <2>1, <1>1
    <3>2. i \in DOMAIN u /\ u[i] = v[i]
          BY <1>3, <1>4, <1>5
    <3>3. QED
          BY <3>1, <3>2
  <2>2. CASE d \in Y
    <3>1. PICK i \in DOMAIN w : Means(g, disk, w[i], d)
          BY <2>2, <1>2
    <3>2. Len(v) + i \in DOMAIN u /\ u[Len(v) + i] = w[i]
          BY <1>3, <1>4, <1>5
    <3>3. QED
          BY <3>1, <3>2
  <2>3. QED
        BY <2>1, <2>2
<1>9. QED
      BY <1>6, <1>7, <1>8 DEF Depicts, u

\* The drawables of the first n.
FirstOf(X, n) == UNION {X[i] : i \in 1..n}

\* They grow by one set at a time.
LEMMA FirstOfNext ==
  ASSUME NEW X, NEW n \in Nat
  PROVE  /\ FirstOf(X, 0) = {}
         /\ FirstOf(X, n + 1) = FirstOf(X, n) \cup X[n + 1]
<1>1. FirstOf(X, 0) = {}
      BY DEF FirstOf
<1>2. 1..(n + 1) = (1..n) \cup {n + 1}
      OBVIOUS
<1>3. ASSUME NEW d
      PROVE  d \in FirstOf(X, n + 1) <=> d \in FirstOf(X, n) \/ d \in X[n + 1]
  <2>1. d \in FirstOf(X, n + 1) <=> \E i \in 1..(n + 1) : d \in X[i]
        BY Zenon DEF FirstOf
  <2>2. d \in FirstOf(X, n) <=> \E i \in 1..n : d \in X[i]
        BY Zenon DEF FirstOf
  <2>3. QED
        BY <1>2, <2>1, <2>2
<1>4. QED
      BY <1>1, <1>3

Disjoint(X, n) == \A i, j \in 1..n : i # j => X[i] \cap X[j] = {}

\* Meshes of disjoint sets of drawables, concatenated, depict all.
LEMMA DepictsAll ==
  ASSUME NEW g, NEW disk, NEW ss, IsVector(ss), NEW X,
         \A i \in 1..Len(ss) : Depicts(g, disk, ss[i], X[i]),
         Disjoint(X, Len(ss))
  PROVE  Depicts(g, disk, FlattenSeq(ss), FirstOf(X, Len(ss)))
<1> DEFINE n == Len(ss)
           D == UNION {ToSet(ss[i]) : i \in 1..n}
<1>1. n \in Nat
      BY VectorElements
<1>2. ss \in Seq(Seq(D))
  <2>1. ASSUME NEW i \in 1..n PROVE ss[i] \in Seq(D)
    <3>1. IsVector(ss[i])
          BY DEF Depicts, AreMeshData
    <3>2. ss[i] \in Seq(ToSet(ss[i])) /\ ToSet(ss[i]) \subseteq D
          BY <3>1 DEF IsVector
    <3> HIDE DEF D
    <3>3. QED
          BY <3>2, SeqMonotonic
  <2> HIDE DEF D
  <2>2. QED
        BY <2>1, VectorElements
<1> HIDE DEF D
<1>3. PICK f :
        /\ f[0] = <<>>
        /\ \A i \in 0..(n - 1) : f[i + 1] = f[i] \o ss[i + 1]
        /\ FlattenSeq(ss) = f[n]
      BY <1>2, Flattening
<1> DEFINE A == {i \in 0..n : Depicts(g, disk, f[i], FirstOf(X, i))}
<1> HIDE DEF n
<1>4. 0 \in A
  <2>1. 0 \in 0..n /\ FirstOf(X, 0) = {}
        BY <1>1, FirstOfNext
  <2>2. QED
        BY <2>1, <1>3, DepictsNothing
<1>5. ASSUME NEW i \in 0..(n - 1), i \in A PROVE i + 1 \in A
  <2>1. i \in Nat /\ i + 1 \in 0..n /\ i + 1 \in 1..n
        BY <1>1
  <2>2. Depicts(g, disk, f[i], FirstOf(X, i))
        BY <1>5
  <2>3. Depicts(g, disk, ss[i + 1], X[i + 1])
        BY <2>1 DEF n
  <2>4. FirstOf(X, i) \cap X[i + 1] = {}
    <3>1. ASSUME NEW j \in 1..i PROVE X[j] \cap X[i + 1] = {}
      <4>1. j \in 1..n /\ j # i + 1
            BY <1>1, <2>1
      <4>2. QED
            BY <4>1, <2>1 DEF Disjoint, n
    <3>2. QED
          BY <3>1, Zenon DEF FirstOf
  <2>5. Depicts(g, disk, f[i] \o ss[i + 1], FirstOf(X, i) \cup X[i + 1])
        BY <2>2, <2>3, <2>4, DepictsBoth
  <2>6. f[i + 1] = f[i] \o ss[i + 1] /\ FirstOf(X, i + 1) = FirstOf(X, i) \cup X[i + 1]
        BY <1>3, <2>1, FirstOfNext
  <2>7. QED
        BY <2>1, <2>5, <2>6
<1>6. 0 \in Int /\ n \in Int /\ \A i \in 0..(n - 1) : i \in A => i + 1 \in A
      BY <1>1, <1>5
<1> HIDE DEF A
<1>7. 0..n \subseteq A
      BY <1>4, <1>6, InductionUpTo, Zenon
<1>8. n \in A
      BY <1>1, <1>7
<1>9. QED
      BY <1>3, <1>8 DEF A, n

\* A result of Collect that is not Ok is one of those collected.
LEMMA CollectFails ==
  ASSUME NEW results, IsVector(results),
         \E i \in 1..Len(results) : results[i].status # "ok"
  PROVE  \E i \in 1..Len(results) :
           /\ Collect(results) = results[i]
           /\ results[i].status # "ok"
<1> DEFINE bad == {i \in DOMAIN results : results[i].status # "ok"}
<1>1. DOMAIN results = 1..Len(results) /\ Len(results) \in Nat
      BY VectorElements
<1>2. bad # {} /\ bad \in SUBSET Nat
      BY <1>1
<1>3. Min(bad) \in bad
      BY <1>2, MinIs
<1>4. Collect(results) = results[Min(bad)]
      BY <1>2 DEF Collect
<1>5. QED
      BY <1>1, <1>3, <1>4

\* Collect concatenates results that are all Ok.
LEMMA CollectOk ==
  ASSUME NEW results, IsVector(results),
         \A i \in 1..Len(results) : results[i].status = "ok"
  PROVE  /\ Collect(results).status = "ok"
         /\ Collect(results).data =
              FlattenSeq([i \in 1..Len(results) |-> results[i].data])
<1>1. DOMAIN results = 1..Len(results)
      BY VectorElements
<1>2. {i \in DOMAIN results : results[i].status # "ok"} = {}
      BY <1>1
<1>3. Collect(results) = Ok(FlattenSeq([i \in 1..Len(results) |-> results[i].data]))
      BY <1>1, <1>2, Zenon DEF Collect
<1>4. QED
      BY <1>3 DEF Ok

\* If each result is explained by drawables of its own, so are all together.
LEMMA CollectExplained ==
  ASSUME NEW g, NEW disk, NEW results, IsVector(results), NEW X,
         \A i \in 1..Len(results) : Explained(g, disk, results[i], X[i]),
         Disjoint(X, Len(results))
  PROVE  Explained(g, disk, Collect(results), FirstOf(X, Len(results)))
<1>1. CASE \E i \in 1..Len(results) : results[i].status # "ok"
      BY <1>1, CollectFails DEF Explained
<1>2. CASE \A i \in 1..Len(results) : results[i].status = "ok"
  <2> DEFINE n  == Len(results)
             ss == [i \in 1..n |-> results[i].data]
  <2>1. n \in Nat
        BY VectorElements
  <2>2. IsVector(ss) /\ Len(ss) = n
    <3>1. ss = [i \in 1..n |-> ss[i]]
          OBVIOUS
    <3>2. IsVector(ss)
          BY <2>1, <3>1, VectorIs
    <3>3. DOMAIN ss = 1..n
          OBVIOUS
    <3> HIDE DEF ss
    <3>4. 1..n = 1..Len(ss) /\ Len(ss) \in Nat
          BY <3>2, <3>3, VectorElements
    <3>5. QED
          BY <3>2, <3>4, <2>1
  <2>3. ASSUME NEW i \in 1..n PROVE Depicts(g, disk, ss[i], X[i])
        BY <1>2 DEF Explained, Refused
  <2> HIDE DEF ss
  <2>4. Depicts(g, disk, FlattenSeq(ss), FirstOf(X, n))
        BY <2>2, <2>3, DepictsAll
  <2>5. Collect(results).status = "ok" /\ Collect(results).data = FlattenSeq(ss)
        BY <1>2, CollectOk DEF ss
  <2>6. QED
        BY <2>4, <2>5 DEF Explained
<1>3. QED
      BY <1>1, <1>2

-----------------------------------------------------------------------------
(* Lookups, buffers and accessors.                                          *)

\* A lookup of an index of the vector finds its element.
LEMMA LookupFound ==
  ASSUME NEW vector, IsVector(vector), NEW index, IsIndex(index, vector)
  PROVE  /\ Lookup(vector, index) = Ok(vector[index + 1])
         /\ LookupPresent(vector, index) = Ok(vector[index + 1])
<1>1. /\ Len(vector) \in Nat /\ index \in Nat /\ index < Len(vector)
      /\ index \in 0..(Len(vector) - 1)
      BY VectorElements DEF IsIndex
<1>2. vector # <<>>
      BY <1>1
<1>3. Lookup(vector, index) = Ok(vector[index + 1])
      BY <1>1 DEF Lookup, Unchecked
<1>4. QED
      BY <1>2, <1>3, Zenon DEF LookupPresent

\* A lookup of another one is an error or reads outside.
LEMMA LookupIs ==
  ASSUME NEW vector, IsVector(vector), NEW index \in Int, ~IsIndex(index, vector)
  PROVE  \/ Lookup(vector, index) = Error
         \/ Lookup(vector, index) = Undefined /\ index = Len(vector)
<1>1. Len(vector) \in Nat /\ index \notin 0..(Len(vector) - 1)
      BY VectorElements DEF IsIndex
<1>2. Lookup(vector, index) = IF index < 0 \/ Len(vector) < index THEN Error ELSE Undefined
      BY <1>1 DEF Lookup, Unchecked
<1> DEFINE r == Lookup(vector, index)
<1> HIDE DEF r
<1>3. r = IF index < 0 \/ Len(vector) < index THEN Error ELSE Undefined
      BY <1>2 DEF r
<1>4. QED
      BY <1>1, <1>3 DEF r

\* One that is preceded by a check for emptiness likewise.
LEMMA LookupPresentIs ==
  ASSUME NEW vector, IsVector(vector), NEW index \in Int, ~IsIndex(index, vector)
  PROVE  \/ LookupPresent(vector, index) = Error
         \/ LookupPresent(vector, index) = Undefined /\ index = Len(vector)
<1>1. \/ LookupPresent(vector, index) = Error
      \/ LookupPresent(vector, index) = Lookup(vector, index)
      BY DEF LookupPresent
<1>2. QED
      BY <1>1, LookupIs

\* What may be undefined is refused, however it fails.
LEMMA UndefinedRefused ==
  ASSUME NEW g, NEW disk, MayBeUndefined(g, disk),
         NEW r, r.status \in {"error", "undefined"}
  PROVE  Refused(g, disk, r)
BY DEF MayFail, Refused

\* The results of looking up what is not there are refused.
LEMMA ReferenceRefused ==
  ASSUME NEW g, NEW disk, NEW index \in Int, NEW size \in Nat,
         <<index, size>> \in References(g), index \notin 0..(size - 1),
         NEW r, r = Error \/ (r = Undefined /\ index = size)
  PROVE  Refused(g, disk, r) /\ r.status \in {"error", "undefined"}
<1> DEFINE e == <<index, size>>
<1>1. e \in References(g) /\ e[1] = index /\ e[2] = size /\ index # None
      BY NoneAssumption
<1>2. r.status \in {"error", "undefined"}
      BY DEF Error, Undefined
<1> HIDE DEF e
<1>3. CASE index = size
  <2>1. OneBeyond(g)
        BY <1>1, <1>3 DEF OneBeyond
  <2>2. QED
        BY <1>2, <2>1, UndefinedRefused DEF MayBeUndefined
<1>4. CASE index # size
  <2>1. index \notin 0..size /\ r = Error
        BY <1>4
  <2>2. TooFar(g)
        BY <1>1, <2>1 DEF TooFar
  <2>3. QED
        BY <1>2, <2>1, <2>2 DEF MayFail, Refused, Error
<1>5. QED
      BY <1>3, <1>4

\* The references of a document.
LEMMA ReferencesAre ==
  ASSUME NEW g
  PROVE  /\ <<FirstNode(g), Len(g.nodes)>> \in References(g)
         /\ \A i \in DOMAIN g.nodes :
              /\ <<g.nodes[i].mesh, Len(g.meshes)>> \in References(g)
              /\ \A c \in ToSet(g.nodes[i].children) :
                   <<c, Len(g.nodes)>> \in References(g)
         /\ \A p \in AllPrimitives(g) :
              /\ <<p.indices, Len(g.accessors)>> \in References(g)
              /\ \A s \in DOMAIN Types :
                   <<p.attributes[s], Len(g.accessors)>> \in References(g)
         /\ \A i \in DOMAIN g.accessors :
              <<g.accessors[i].bufferView, Len(g.bufferViews)>> \in References(g)
         /\ \A i \in DOMAIN g.bufferViews :
              <<g.bufferViews[i].buffer, Len(g.buffers)>> \in References(g)
<1> DEFINE first == {<<FirstNode(g), Len(g.nodes)>>}
           mesh == {<<g.nodes[i].mesh, Len(g.meshes)>> : i \in DOMAIN g.nodes}
           childrenOf(i) == {<<c, Len(g.nodes)>> : c \in ToSet(g.nodes[i].children)}
           children == UNION {childrenOf(i) : i \in DOMAIN g.nodes}
           indices == {<<p.indices, Len(g.accessors)>> : p \in AllPrimitives(g)}
           attributesOf(p) ==
             {<<p.attributes[s], Len(g.accessors)>> : s \in DOMAIN Types}
           attributes == UNION {attributesOf(p) : p \in AllPrimitives(g)}
           view == {<<g.accessors[i].bufferView, Len(g.bufferViews)>> :
                      i \in DOMAIN g.accessors}
           buffer == {<<g.bufferViews[i].buffer, Len(g.buffers)>> :
                        i \in DOMAIN g.bufferViews}
<1>1. References(g) =
        first \cup mesh \cup children \cup indices \cup attributes \cup view \cup buffer
      BY Zenon DEF References
<1>2. \A i \in DOMAIN g.nodes : \A c \in ToSet(g.nodes[i].children) :
        <<c, Len(g.nodes)>> \in children
  <2>1. TAKE i \in DOMAIN g.nodes
  <2>2. TAKE c \in ToSet(g.nodes[i].children)
  <2>3. <<c, Len(g.nodes)>> \in childrenOf(i)
        OBVIOUS
  <2> HIDE DEF childrenOf
  <2>4. QED
        BY <2>3
<1>3. \A p \in AllPrimitives(g) : \A s \in DOMAIN Types :
        <<p.attributes[s], Len(g.accessors)>> \in attributes
  <2>1. TAKE p \in AllPrimitives(g)
  <2>2. TAKE s \in DOMAIN Types
  <2>3. <<p.attributes[s], Len(g.accessors)>> \in attributesOf(p)
        OBVIOUS
  <2> HIDE DEF attributesOf
  <2>4. QED
        BY <2>3
<1>4. /\ <<FirstNode(g), Len(g.nodes)>> \in first
      /\ \A i \in DOMAIN g.nodes : <<g.nodes[i].mesh, Len(g.meshes)>> \in mesh
      /\ \A p \in AllPrimitives(g) : <<p.indices, Len(g.accessors)>> \in indices
      /\ \A i \in DOMAIN g.accessors :
           <<g.accessors[i].bufferView, Len(g.bufferViews)>> \in view
      /\ \A i \in DOMAIN g.bufferViews :
           <<g.bufferViews[i].buffer, Len(g.buffers)>> \in buffer
      OBVIOUS
<1> HIDE DEF first, mesh, children, indices, attributes, view, buffer
<1>5. QED
      BY <1>1, <1>2, <1>3, <1>4

SizesAreNatural(disk) == \A path \in DOMAIN disk : disk[path] \in Nat

\* Buffers that could all be read up to b are where the document counts them.
LEMMA BytesAre ==
  ASSUME NEW g, NEW disk, WellFormed(g), SizesAreNatural(disk),
         NEW b \in 0..Len(g.buffers),
         \A i \in 1..b : g.buffers[i].uri \in DOMAIN disk
  PROVE  LET bytes == BuffersBytes(g, disk)
         IN /\ IsVector(bytes)
            /\ \A i \in 1..Len(bytes) : bytes[i].size \in Nat
            /\ Len(bytes) >= b /\ Len(bytes) <= Len(g.buffers)
            /\ \A i \in 1..b : /\ bytes[i].file = g.buffers[i].uri
                               /\ bytes[i].size = disk[g.buffers[i].uri]
<1> DEFINE made(uri) == [file |-> uri, size |-> disk[uri]]
           read(uri) == IF Readable(disk, uri) THEN <<made(uri)>> ELSE <<>>
           n == Len(g.buffers)
           ss == [i \in 1..n |-> read(g.buffers[i].uri)]
           D == {made(uri) : uri \in DOMAIN disk}
<1>1. n \in Nat /\ DOMAIN g.buffers = 1..n
      BY VectorElements DEF WellFormed, ArraysAreVectors
<1>2. BuffersBytes(g, disk) = FlattenSeq(ss)
      BY <1>1, Zenon DEF BuffersBytes
<1>3. ASSUME NEW i \in 1..n PROVE ss[i] \in Seq(D)
  <2>1. CASE g.buffers[i].uri \in DOMAIN disk
    <3>1. made(g.buffers[i].uri) \in D
          BY <2>1
    <3>2. ss[i] = <<made(g.buffers[i].uri)>>
          BY <2>1 DEF Readable
    <3> HIDE DEF made, D
    <3>3. QED
          BY <3>1, <3>2
  <2>2. CASE g.buffers[i].uri \notin DOMAIN disk
    <3>1. ss[i] = <<>>
          BY <2>2 DEF Readable
    <3>2. QED
          BY <3>1, EmptySeq
  <2>3. QED
        BY <2>1, <2>2
<1>12. ASSUME NEW i \in 1..n PROVE Len(ss[i]) <= 1
  <2>1. CASE g.buffers[i].uri \in DOMAIN disk
    <3>1. ss[i] = <<made(g.buffers[i].uri)>>
          BY <2>1 DEF Readable
    <3> HIDE DEF made, ss
    <3>2. Len(ss[i]) = 1
          BY <3>1
    <3>3. QED
          BY <3>2
  <2>2. CASE g.buffers[i].uri \notin DOMAIN disk
    <3>1. ss[i] = <<>>
          BY <2>2 DEF Readable
    <3> HIDE DEF made, ss
    <3>2. Len(ss[i]) = 0
          BY <3>1
    <3>3. QED
          BY <3>2
  <2>3. QED
        BY <2>1, <2>2
<1>4. ASSUME NEW i \in 1..b
      PROVE  i \in 1..n /\ Len(ss[i]) = 1 /\ ss[i][1] = made(g.buffers[i].uri)
  <2>1. i \in 1..n
        BY <1>1
  <2>2. ss[i] = <<made(g.buffers[i].uri)>>
        BY <2>1 DEF Readable
  <2> HIDE DEF made, ss
  <2>3. QED
        BY <2>1, <2>2
<1>5. ss \in Seq(Seq(D)) /\ Len(ss) = n
  <2>1. ss = [i \in 1..n |-> ss[i]] /\ DOMAIN ss = 1..n
        OBVIOUS
  <2> HIDE DEF ss, D
  <2>2. ss \in [1..n -> Seq(D)]
        BY <1>3, <2>1
  <2>3. ss \in Seq(Seq(D))
        BY <2>2, <1>1, SeqDef
  <2>4. 1..n = 1..Len(ss) /\ Len(ss) \in Nat
        BY <2>1, <2>3, LenProperties
  <2>5. QED
        BY <2>3, <2>4, <1>1
<1> DEFINE bytes == BuffersBytes(g, disk)
<1>6. /\ bytes \in Seq(D) /\ Len(bytes) >= b /\ Len(bytes) <= n
      /\ \A j \in 1..b : bytes[j] = made(g.buffers[j].uri)
  <2> HIDE DEF ss, D, made
  <2>1. \A i \in 1..b : Len(ss[i]) = 1
        BY <1>4
  <2>2. /\ FlattenSeq(ss) \in Seq(D) /\ Len(FlattenSeq(ss)) >= b
        /\ \A j \in 1..b : FlattenSeq(ss)[j] = ss[j][1]
        BY <1>5, <2>1, FlattenSingles
  <2>4. Len(FlattenSeq(ss)) <= n
        BY <1>5, <1>12, FlattenAtMost
  <2>3. QED
        BY <1>2, <1>4, <2>2, <2>4
<1>7. \A i \in 1..Len(bytes) : bytes[i] \in D
      BY <1>6, ElementOfSeq
<1>8. \A x \in D : x.size \in Nat
      BY DEF SizesAreNatural
<1>9. IsVector(bytes)
  <2> HIDE DEF D
  <2>1. QED
        BY <1>6, SeqIsVector
<1>10. \A j \in 1..b : /\ bytes[j].file = g.buffers[j].uri
                       /\ bytes[j].size = disk[g.buffers[j].uri]
  <2>1. \A uri : made(uri).file = uri /\ made(uri).size = disk[uri]
        OBVIOUS
  <2> HIDE DEF bytes, made
  <2>2. QED
        BY <1>6, <2>1
<1>11. QED
  <2> HIDE DEF D
  <2>1. QED
        BY <1>6, <1>7, <1>8, <1>9, <1>10

\* The value of a CASE over three disjoint sets.
LEMMA CaseOfThree ==
  ASSUME NEW x, NEW P, NEW Q, NEW R
  PROVE  LET value == CASE x \in P -> 1 [] x \in Q -> 2 [] x \in R -> 4 [] OTHER -> 0
         IN /\ x \in P /\ x \notin Q /\ x \notin R => value = 1
            /\ x \notin P /\ x \in Q /\ x \notin R => value = 2
            /\ x \notin P /\ x \notin Q /\ x \in R => value = 4
BY Zenon

\* The sizes of elements and their components.
LEMMA ElementSizeIs ==
  ASSUME NEW a, AccessorWellFormed(a)
  PROVE  /\ ComponentSize(a.componentType) \in {1, 2, 4}
         /\ ComponentCount(a.type) \in 1..16
         /\ Step(a) = ElementSize(a)
         /\ Step(a) \in Nat
         /\ ComponentSize(a.componentType) <= Step(a)
<1>1. ComponentSize(a.componentType) \in {1, 2, 4}
  <2>1. a.componentType \in {5120, 5121, 5122, UnsignedShort, UnsignedInt, Float}
        BY DEF AccessorWellFormed
  <2>2. CASE a.componentType \in {5120, 5121}
    <3>1. a.componentType \notin {5122, UnsignedShort}
          /\ a.componentType \notin {UnsignedInt, Float}
          BY <2>2 DEF UnsignedShort, UnsignedInt, Float
    <3>2. ComponentSize(a.componentType) = 1
          BY <2>2, <3>1, CaseOfThree DEF ComponentSize
    <3>3. QED
          BY <3>2
  <2>3. CASE a.componentType \in {5122, UnsignedShort}
    <3>1. a.componentType \notin {5120, 5121}
          /\ a.componentType \notin {UnsignedInt, Float}
          BY <2>3 DEF UnsignedShort, UnsignedInt, Float
    <3>2. ComponentSize(a.componentType) = 2
          BY <2>3, <3>1, CaseOfThree DEF ComponentSize
    <3>3. QED
          BY <3>2
  <2>4. CASE a.componentType \in {UnsignedInt, Float}
    <3>1. a.componentType \notin {5120, 5121}
          /\ a.componentType \notin {5122, UnsignedShort}
          BY <2>4 DEF UnsignedShort, UnsignedInt, Float
    <3>2. ComponentSize(a.componentType) = 4
          BY <2>4, <3>1, CaseOfThree DEF ComponentSize
    <3>3. QED
          BY <3>2
  <2>5. QED
        BY <2>1, <2>2, <2>3, <2>4
<1>2. ComponentCount(a.type) \in 1..16
  <2>1. a.type \in {"SCALAR", "VEC2", "VEC3", "VEC4", "MAT2", "MAT3", "MAT4"}
        BY DEF AccessorWellFormed
  <2>2. QED
        BY <2>1 DEF ComponentCount
<1>3. Step(a) = ElementSize(a)
      BY DEF Step, ElementSize
<1>4. \A c \in 1..16, s \in {1, 2, 4} : c * s \in Nat /\ s <= c * s
      OBVIOUS
<1>5. QED
  <2>1. Step(a) = ComponentCount(a.type) * ComponentSize(a.componentType)
        BY DEF Step
  <2>2. QED
        BY <1>1, <1>2, <1>3, <1>4, <2>1

\* The bytes ReadGLTF needs are not more than the document asks for.
LEMMA Needed ==
  ASSUME NEW start \in Nat, NEW stride \in Nat, NEW step \in Nat, NEW s \in Nat,
         NEW count \in Nat \ {0}, stride >= step, step >= s
  PROVE  /\ start + step * count <= start + stride * (count - 1) + step
         /\ start + s * count <= start + step * count
<1>1. \A x, y, z \in Nat : x <= y => x * z <= y * z
      OBVIOUS
<1>2. count - 1 \in Nat
      OBVIOUS
<1>3. step * (count - 1) <= stride * (count - 1) /\ s * count <= step * count
      BY <1>1, <1>2
<1>4. step * count = step * (count - 1) + step
      OBVIOUS
<1>5. /\ step * (count - 1) \in Nat /\ stride * (count - 1) \in Nat
      /\ s * count \in Nat /\ step * count \in Nat
      BY <1>2
<1>6. QED
      BY <1>3, <1>4, <1>5

\* An accessor of the document is well-formed.
LEMMA AccessorIs ==
  ASSUME NEW g, WellFormed(g), NEW index, IsIndex(index, g.accessors)
  PROVE  AccessorWellFormed(g.accessors[index + 1])
<1>1. index + 1 \in DOMAIN g.accessors
      BY VectorElements DEF WellFormed, ArraysAreVectors, IsIndex
<1>2. QED
      BY <1>1 DEF WellFormed

\* It has elements.
LEMMA CountIs ==
  ASSUME NEW a, AccessorWellFormed(a)
  PROVE  a.count \in Nat \ {0}
BY DEF AccessorWellFormed

\* The view and the buffer of an accessor that has them.
LEMMA ViewIs ==
  ASSUME NEW g, WellFormed(g), NEW a, AccessorWellFormed(a),
         a.bufferView # None, ViewResolves(g, a)
  PROVE  LET view == g.bufferViews[a.bufferView + 1]
         IN /\ IsIndex(a.bufferView, g.bufferViews)
            /\ view.buffer + 1 \in 1..Len(g.buffers) /\ view.buffer \in Nat
            /\ view.byteOffset \in Nat
            /\ Stride(g, a) \in Nat
            /\ Start(view, a) \in Nat
            /\ a.count \in Nat \ {0}
            /\ g.buffers[view.buffer + 1].byteLength \in Nat
<1> DEFINE view == g.bufferViews[a.bufferView + 1]
           length == g.buffers[view.buffer + 1].byteLength
<1>1. /\ a.count \in Nat \ {0} /\ a.byteOffset \in Nat
      BY DEF AccessorWellFormed
<1>2. /\ IsIndex(a.bufferView, g.bufferViews) /\ IsIndex(view.buffer, g.buffers)
      BY DEF ViewResolves
<1>3. /\ view.byteOffset \in Nat
      /\ view.byteStride # None => view.byteStride \in Nat
  <2>1. a.bufferView + 1 \in DOMAIN g.bufferViews
        BY <1>2, VectorElements DEF WellFormed, ArraysAreVectors, IsIndex
  <2>2. QED
        BY <2>1 DEF WellFormed, ViewWellFormed
<1>4. Stride(g, a) \in Nat
  <2>1. ElementSize(a) \in Nat
        BY ElementSizeIs
  <2>2. QED
        BY <1>3, <2>1 DEF Stride
<1>5. Start(view, a) \in Nat
      BY <1>1, <1>3 DEF Start
<1>6. Len(g.buffers) \in Nat /\ DOMAIN g.buffers = 1..Len(g.buffers)
      BY VectorElements DEF WellFormed, ArraysAreVectors
<1>7. view.buffer + 1 \in 1..Len(g.buffers) /\ view.buffer \in Nat
      BY <1>2, <1>6 DEF IsIndex
<1>8. length \in Nat
      BY <1>6, <1>7 DEF WellFormed
<1>9. QED
      BY <1>1, <1>2, <1>3, <1>4, <1>5, <1>7, <1>8

\* How much of its buffer an accessor that fits uses.
LEMMA ViewFits ==
  ASSUME NEW g, WellFormed(g), NEW a, AccessorWellFormed(a),
         a.bufferView # None, ViewResolves(g, a), AccessorFits(g, a)
  PROVE  LET view == g.bufferViews[a.bufferView + 1]
         IN /\ Start(view, a) + Step(a) * a.count <=
                 g.buffers[view.buffer + 1].byteLength
            /\ Start(view, a) + ComponentSize(a.componentType) * a.count <=
                 g.buffers[view.buffer + 1].byteLength
<1> DEFINE view == g.bufferViews[a.bufferView + 1]
           s == ComponentSize(a.componentType)
           length == g.buffers[view.buffer + 1].byteLength
<1>1. /\ Stride(g, a) >= ElementSize(a)
      /\ Start(view, a) + Stride(g, a) * (a.count - 1) + ElementSize(a) <= length
      BY Zenon DEF AccessorFits
<1>2. Step(a) = ElementSize(a) /\ Step(a) \in Nat /\ s <= Step(a) /\ s \in Nat
      BY ElementSizeIs
<1>3. /\ Stride(g, a) \in Nat /\ Start(view, a) \in Nat /\ length \in Nat
      /\ a.count \in Nat \ {0}
      BY ViewIs
<1> DEFINE start == Start(view, a)
           stride == Stride(g, a)
           step == Step(a)
           count == a.count
<1> HIDE DEF start, stride, step, count, s, length
<1>4. /\ start \in Nat /\ stride \in Nat /\ step \in Nat /\ s \in Nat
      /\ count \in Nat \ {0} /\ stride >= step /\ step >= s
      BY <1>1, <1>2, <1>3 DEF start, stride, step, count
<1>5. /\ start + step * count <= start + stride * (count - 1) + step
      /\ start + s * count <= start + step * count
      BY <1>4, Needed
<1>6. start + stride * (count - 1) + step <= length
      BY <1>1, <1>2 DEF start, stride, step, count
<1>7. /\ start + step * count \in Nat /\ start + s * count \in Nat
      /\ start + stride * (count - 1) + step \in Nat
  <2>1. count - 1 \in Nat /\ count \in Nat
        BY <1>4
  <2>2. step * count \in Nat /\ s * count \in Nat /\ stride * (count - 1) \in Nat
        BY <1>4, <2>1
  <2>3. QED
        BY <1>4, <2>2
<1>8. start + step * count <= length /\ start + s * count <= length
      BY <1>3, <1>5, <1>6, <1>7
<1>9. QED
      BY <1>8 DEF start, step, count, s, length

\* All the buffers of a document whose buffers are not damaged are read.
LEMMA BuffersRead ==
  ASSUME NEW g, NEW disk, WellFormed(g), SizesAreNatural(disk),
         ~BufferDamaged(g, disk)
  PROVE  LET bytes == BuffersBytes(g, disk)
         IN /\ Len(bytes) = Len(g.buffers)
            /\ \A i \in 1..Len(g.buffers) :
                 bytes[i].size \in Nat /\ ~(bytes[i].size < g.buffers[i].byteLength)
<1> DEFINE bytes == BuffersBytes(g, disk)
           n == Len(g.buffers)
<1>1. n \in Nat /\ DOMAIN g.buffers = 1..n
      BY VectorElements DEF WellFormed, ArraysAreVectors
<1>2. ASSUME NEW i \in 1..n
      PROVE  /\ g.buffers[i].uri \in DOMAIN disk
             /\ disk[g.buffers[i].uri] \in Nat
             /\ ~(disk[g.buffers[i].uri] < g.buffers[i].byteLength)
  <2>1. g.buffers[i] \in ToSet(g.buffers)
        BY VectorElements DEF WellFormed, ArraysAreVectors, ToSet
  <2>2. QED
        BY <2>1 DEF BufferDamaged, SizesAreNatural
<1>3. n \in 0..n
      BY <1>1
<1>4. /\ IsVector(bytes) /\ Len(bytes) >= n /\ Len(bytes) <= n
      /\ \A i \in 1..n : bytes[i].size = disk[g.buffers[i].uri]
      BY <1>2, <1>3, BytesAre
<1>5. Len(bytes) \in Nat
      BY <1>4, VectorElements
<1> HIDE DEF bytes
<1>6. Len(bytes) = n
      BY <1>1, <1>4, <1>5
<1>7. QED
      BY <1>2, <1>4, <1>6 DEF bytes

\* What is read for an accessor of the document: nothing, with a reason in the
\* document or on the disk, or its elements.
Viewed(g, disk, a, r) ==
  LET view  == g.bufferViews[a.bufferView + 1]
      bytes == BuffersBytes(g, disk)
  IN \/ Refused(g, disk, r) /\ r.status # "ok"
     \/ /\ r.status = "ok" /\ ViewResolves(g, a)
        /\ r.data = [i \in 1..a.count |->
                       <<bytes[view.buffer + 1].file,
                         Start(view, a) + (i - 1) * Step(a)>>]

\* What ViewData returns for an accessor of the document.
LEMMA ViewDataIs ==
  ASSUME NEW g, NEW disk, WellFormed(g), SizesAreNatural(disk),
         NEW k \in DOMAIN g.accessors, NEW a, a = g.accessors[k],
         a.bufferView # None, IsIndex(a.bufferView, g.bufferViews)
  PROVE  Viewed(g, disk, a, ViewData(BuffersBytes(g, disk),
                                     g.bufferViews[a.bufferView + 1], a))
<1> DEFINE view  == g.bufferViews[a.bufferView + 1]
           bytes == BuffersBytes(g, disk)
           b     == view.buffer
           size  == bytes[b + 1].size
           s     == ComponentSize(a.componentType)
           start == Start(view, a)
           r     == ViewData(bytes, view, a)
           length == g.buffers[b + 1].byteLength
           data  == [i \in 1..a.count |->
                       <<bytes[b + 1].file, start + (i - 1) * Step(a)>>]
<1> SUFFICES \/ Refused(g, disk, r) /\ r.status # "ok"
             \/ /\ r.status = "ok" /\ ViewResolves(g, a)
                /\ r.data = data
    BY DEF Viewed
<1>1. AccessorWellFormed(a)
      BY DEF WellFormed
<1>2. b \in Int /\ <<b, Len(g.buffers)>> \in References(g)
  <2>1. a.bufferView + 1 \in DOMAIN g.bufferViews
        BY VectorElements DEF WellFormed, ArraysAreVectors, IsIndex
  <2>2. QED
        BY <2>1, ReferencesAre DEF WellFormed, ViewWellFormed
<1>3. /\ IsVector(bytes) /\ Len(bytes) \in Nat /\ Len(g.buffers) \in Nat
      /\ Len(bytes) <= Len(g.buffers)
  <2>1. Len(g.buffers) \in Nat
        BY VectorElements DEF WellFormed, ArraysAreVectors
  <2>2. 0 \in 0..Len(g.buffers)
        BY <2>1
  <2>3. IsVector(bytes) /\ Len(bytes) <= Len(g.buffers)
        BY <2>2, BytesAre
  <2>4. QED
        BY <2>1, <2>3, VectorElements
<1>4. s # 0 /\ ByteOffset(view, a) = start
      BY <1>1, ElementSizeIs DEF ByteOffset, Start
<1>5. IsIndex(b, g.buffers) => ViewResolves(g, a)
      BY DEF ViewResolves
<1> HIDE DEF view, bytes
<1>6. CASE IsIndex(b, bytes)
  <2>1. Lookup(bytes, b) = Ok(bytes[b + 1])
        BY <1>3, <1>6, LookupFound
  <2>2. Lookup(bytes, b).status = "ok" /\ Lookup(bytes, b).data = bytes[b + 1]
        BY <2>1 DEF Ok
  <2>3. r = IF size < start + s * a.count \/ s = 0 THEN Error
            ELSE IF size < start + Step(a) * a.count THEN Undefined ELSE Ok(data)
        BY <2>2, <1>4, Zenon DEF ViewData
  <2>4. r = Ok(data) \/ (r \in {Error, Undefined} /\ (\/ size < start + s * a.count
                                                     \/ size < start + Step(a) * a.count))
        BY <2>3, <1>4
  <2>5. IsIndex(b, g.buffers)
        BY <1>2, <1>3, <1>6 DEF IsIndex
  <2>6. ASSUME ~BufferDamaged(g, disk), ~Overrun(g)
        PROVE  /\ ~(size < start + s * a.count)
               /\ ~(size < start + Step(a) * a.count)
    <3>1. a.bufferView # None /\ ViewResolves(g, a) /\ AccessorFits(g, a)
          BY <1>5, <2>5, <2>6 DEF Overrun
    <3>2. size \in Nat /\ ~(size < length)
      <4>1. b + 1 \in 1..Len(g.buffers)
            BY <1>3, <2>5 DEF IsIndex
      <4>2. QED
            BY <2>6, <4>1, BuffersRead DEF bytes
    <3> DEFINE x == start + s * a.count
               y == start + Step(a) * a.count
    <3>3. x <= length /\ y <= length
          BY <1>1, <3>1, ViewFits DEF view
    <3>4. length \in Nat /\ start \in Nat /\ a.count \in Nat \ {0}
          BY <1>1, <3>1, ViewIs DEF view
    <3>5. x \in Nat /\ y \in Nat
      <4>1. s \in Nat /\ Step(a) \in Nat
            BY <1>1, ElementSizeIs
      <4> HIDE DEF s
      <4>2. s * a.count \in Nat /\ Step(a) * a.count \in Nat
        <5>1. \A p, q \in Nat : p * q \in Nat
              OBVIOUS
        <5>2. QED
              BY <3>4, <4>1, <5>1
      <4>3. QED
            BY <3>4, <4>2
    <3> HIDE DEF x, y, size, length
    <3>6. ~(size < x) /\ ~(size < y)
          BY <3>2, <3>3, <3>4, <3>5
    <3>7. QED
          BY <3>6 DEF x, y
  <2>7. r = Ok(data) \/ (r \in {Error, Undefined} /\ (BufferDamaged(g, disk) \/ Overrun(g)))
        BY <2>4, <2>6
  <2> HIDE DEF r, data
  <2>8. CASE r = Ok(data)
    <3>1. r.status = "ok" /\ r.data = data
          BY <2>8 DEF Ok
    <3>2. QED
          BY <3>1, <1>5, <2>5 DEF r, data, view, bytes
  <2>9. CASE r \in {Error, Undefined} /\ (BufferDamaged(g, disk) \/ Overrun(g))
    <3>1. MayBeUndefined(g, disk)
          BY <2>9 DEF MayBeUndefined
    <3>2. r.status \in {"error", "undefined"}
          BY <2>9 DEF Error, Undefined
    <3>3. Refused(g, disk, r) /\ r.status # "ok"
          BY <3>1, <3>2, UndefinedRefused
    <3>4. QED
          BY <3>3 DEF r, view, bytes
  <2>10. QED
         BY <2>7, <2>8, <2>9
<1>7. CASE ~IsIndex(b, bytes)
  <2> DEFINE found == Lookup(bytes, b)
  <2>1. found = Error \/ (found = Undefined /\ b = Len(bytes))
        BY <1>2, <1>3, <1>7, LookupIs
  <2>2. found.status \in {"error", "undefined"}
        BY <2>1 DEF Error, Undefined
  <2>3. r = found
        BY <2>2 DEF ViewData
  <2> HIDE DEF found, r
  <2>4. CASE IsIndex(b, g.buffers)
    <3>1. BufferDamaged(g, disk)
      <4>1. ASSUME ~BufferDamaged(g, disk) PROVE FALSE
        <5>1. Len(bytes) = Len(g.buffers)
              BY <4>1, BuffersRead DEF bytes
        <5>2. QED
              BY <1>7, <2>4, <5>1 DEF IsIndex
      <4>2. QED
            BY <4>1
    <3>2. MayBeUndefined(g, disk)
          BY <3>1 DEF MayBeUndefined
    <3>3. Refused(g, disk, r) /\ r.status # "ok"
          BY <3>2, <2>2, <2>3, UndefinedRefused
    <3>4. QED
          BY <3>3 DEF r, view, bytes
  <2>5. CASE ~IsIndex(b, g.buffers)
    <3>1. b \notin 0..(Len(g.buffers) - 1)
          BY <2>5 DEF IsIndex
    <3>2. r = Error \/ (r = Undefined /\ b = Len(g.buffers))
          BY <2>1, <2>3, <3>1, <1>2, <1>3
    <3>3. Refused(g, disk, r) /\ r.status \in {"error", "undefined"}
          BY <1>2, <1>3, <3>1, <3>2, ReferenceRefused
    <3>4. QED
          BY <3>3 DEF r, view, bytes
  <2>6. QED
        BY <2>4, <2>5
<1>8. QED
      BY <1>6, <1>7

\* An index is not None.
LEMMA IndexIsPresent ==
  ASSUME NEW vector, IsVector(vector), NEW index, IsIndex(index, vector)
  PROVE  index # None
BY NoneAssumption, VectorElements DEF IsIndex

\* A function on 1..n is a vector of n elements.
LEMMA DataIsVector ==
  ASSUME NEW n \in Nat, NEW v, v = [i \in 1..n |-> v[i]]
  PROVE  IsVector(v) /\ Len(v) = n
<1>1. IsVector(v)
      BY VectorIs
<1>2. DOMAIN v = 1..n
      OBVIOUS
<1>3. 1..n = 1..Len(v) /\ Len(v) \in Nat
      BY <1>1, <1>2, VectorElements
<1>4. QED
      BY <1>1, <1>3

\* What is read for the number of an accessor: as above, or an error because the
\* accessor is not of the kind that is asked for.
Accessed(g, disk, index, type, componentTypes, canBeZero, r) ==
  LET a == g.accessors[index + 1]
  IN \/ Refused(g, disk, r) /\ r.status # "ok"
     \/ /\ r.status = "error" /\ IsIndex(index, g.accessors)
        /\ \/ a.type # type \/ a.componentType \notin componentTypes
           \/ a.bufferView = None /\ ~canBeZero
     \/ /\ r.status = "ok" /\ Resolves(g, index)
        /\ IsVector(r.data) /\ Len(r.data) = a.count
        /\ Reads(g, disk, r.data, index)

\* What AccessorData returns for a number of the document.
LEMMA AccessorDataIs ==
  ASSUME NEW g, NEW disk, WellFormed(g), SizesAreNatural(disk),
         NEW index \in Int, <<index, Len(g.accessors)>> \in References(g),
         NEW type, NEW componentTypes, NEW canBeZero
  PROVE  Accessed(g, disk, index, type, componentTypes, canBeZero,
                  AccessorData(g, BuffersBytes(g, disk), index, type,
                               componentTypes, canBeZero))
<1> DEFINE a == g.accessors[index + 1]
           bytes == BuffersBytes(g, disk)
           view == g.bufferViews[a.bufferView + 1]
           found == LookupPresent(g.accessors, index)
           viewFound == LookupPresent(g.bufferViews, a.bufferView)
           r == AccessorData(g, bytes, index, type, componentTypes, canBeZero)
           wrong == \/ a.type # type \/ a.componentType \notin componentTypes
                    \/ a.bufferView = None /\ ~canBeZero
           zeros == [i \in 1..a.count |-> Zero]
<1> SUFFICES \/ Refused(g, disk, r) /\ r.status # "ok"
             \/ r.status = "error" /\ IsIndex(index, g.accessors) /\ wrong
             \/ /\ r.status = "ok" /\ Resolves(g, index)
                /\ IsVector(r.data) /\ Len(r.data) = a.count
                /\ Reads(g, disk, r.data, index)
    BY DEF Accessed
<1>1. /\ IsVector(g.accessors) /\ Len(g.accessors) \in Nat
      /\ DOMAIN g.accessors = 1..Len(g.accessors)
      /\ IsVector(g.bufferViews) /\ Len(g.bufferViews) \in Nat
      BY VectorElements DEF WellFormed, ArraysAreVectors
<1>2. index # None
      BY NoneAssumption
<1>3. CASE ~IsIndex(index, g.accessors)
  <2>1. found = Error \/ (found = Undefined /\ index = Len(g.accessors))
        BY <1>1, <1>3, LookupPresentIs
  <2>2. index \notin 0..(Len(g.accessors) - 1)
        BY <1>3 DEF IsIndex
  <2> HIDE DEF found
  <2>3. Refused(g, disk, found) /\ found.status \in {"error", "undefined"}
        BY <1>1, <2>1, <2>2, ReferenceRefused
  <2>4. r = found
        BY <2>3, Zenon DEF AccessorData, found
  <2>5. QED
        BY <2>3, <2>4
<1>4. CASE IsIndex(index, g.accessors)
  <2>1. /\ AccessorWellFormed(a) /\ index + 1 \in DOMAIN g.accessors
        BY <1>1, <1>4, AccessorIs DEF IsIndex
  <2>2. a.count \in Nat \ {0} /\ IsOptionalInt(a.bufferView)
        BY <2>1 DEF AccessorWellFormed
  <2>3. found.status = "ok" /\ found.data = a
        BY <1>1, <1>4, LookupFound DEF Ok
  <2>4. ViewResolves(g, a) => Resolves(g, index)
        BY <1>4 DEF Resolves
  <2> HIDE DEF a, view, bytes
  <2>5. r = IF wrong THEN Error
            ELSE IF a.bufferView = None THEN Ok(zeros)
            ELSE IF viewFound.status # "ok" THEN viewFound
            ELSE ViewData(bytes, viewFound.data, a)
        BY <2>3, Zenon DEF AccessorData
  <2> HIDE DEF r, zeros, found
  <2>6. CASE wrong
    <3>1. r.status = "error"
          BY <2>5, <2>6 DEF Error
    <3>2. QED
          BY <1>4, <2>6, <3>1 DEF r, a, bytes
  <2>7. CASE ~wrong /\ a.bufferView = None
    <3>1. r = Ok(zeros)
          BY <2>5, <2>7
    <3>2. zeros = Elements(g, index)
          BY <2>7 DEF Elements, a, zeros
    <3>3. IsVector(zeros) /\ Len(zeros) = a.count
      <4>1. zeros = [i \in 1..a.count |-> zeros[i]]
            BY DEF zeros
      <4>2. QED
            BY <2>2, <4>1, DataIsVector
    <3>4. Reads(g, disk, zeros, index) /\ Resolves(g, index)
          BY <1>2, <2>4, <2>7, <3>2 DEF Reads, ViewResolves
    <3>5. r.status = "ok" /\ r.data = zeros
          BY <3>1 DEF Ok
    <3>6. QED
          BY <3>3, <3>4, <3>5 DEF r, a, bytes
  <2>8. CASE ~wrong /\ a.bufferView # None /\ ~IsIndex(a.bufferView,
      g.bufferViews)
    <3>1. a.bufferView \in Int
          BY <2>2, <2>8 DEF IsOptionalInt
    <3>2. <<a.bufferView, Len(g.bufferViews)>> \in References(g)
          BY <2>1, ReferencesAre DEF a
    <3>3. viewFound = Error \/ (viewFound = Undefined /\ a.bufferView = Len(g.bufferViews))
          BY <1>1, <2>8, <3>1, LookupPresentIs
    <3>4. a.bufferView \notin 0..(Len(g.bufferViews) - 1)
          BY <2>8 DEF IsIndex
    <3> HIDE DEF viewFound
    <3>5. Refused(g, disk, viewFound) /\ viewFound.status \in {"error", "undefined"}
          BY <1>1, <3>1, <3>2, <3>3, <3>4, ReferenceRefused
    <3>6. r = viewFound
          BY <2>5, <2>8, <3>5
    <3>7. QED
          BY <3>5, <3>6 DEF r, a, bytes
  <2>9. CASE ~wrong /\ a.bufferView # None /\ IsIndex(a.bufferView,
      g.bufferViews)
    <3> DEFINE data == [i \in 1..a.count |->
                          <<bytes[view.buffer + 1].file,
                            Start(view, a) + (i - 1) * Step(a)>>]
    <3>1. viewFound.status = "ok" /\ viewFound.data = view
          BY <1>1, <2>9, LookupFound DEF Ok, view
    <3> HIDE DEF viewFound
    <3>2. r = ViewData(bytes, view, a)
          BY <2>5, <2>9, <3>1
    <3>3. \/ Refused(g, disk, r) /\ r.status # "ok"
          \/ r.status = "ok" /\ ViewResolves(g, a) /\ r.data = data
      <4>1. PICK k \in DOMAIN g.accessors : a = g.accessors[k]
            BY <2>1 DEF a
      <4>2. Viewed(g, disk, a, ViewData(BuffersBytes(g, disk),
                                        g.bufferViews[a.bufferView + 1], a))
            BY <2>9, <4>1, ViewDataIs
      <4>3. Viewed(g, disk, a, r)
            BY <3>2, <4>2 DEF view, bytes
      <4> HIDE DEF r
      <4>4. QED
            BY <4>3 DEF Viewed, view, bytes
    <3>4. CASE r.status = "ok" /\ ViewResolves(g, a) /\ r.data = data
      <4>1. IsVector(data) /\ Len(data) = a.count
        <5>1. data = [i \in 1..a.count |-> data[i]]
              OBVIOUS
        <5> HIDE DEF data
        <5>2. QED
              BY <2>2, <5>1, DataIsVector
      <4>2. ASSUME ~Interleaved(g, index), ~Shifted(g, disk, index)
            PROVE  data = Elements(g, index)
        <5>1. Stride(g, a) = Step(a)
              BY <4>2, <2>1, <2>9, ElementSizeIs DEF Interleaved, a
        <5>2. view.buffer \in Nat /\ view.buffer + 1 \in 1..Len(g.buffers)
              BY <2>1, <2>9, <3>4, ViewIs DEF view
        <5>3. \A b \in 0..view.buffer : g.buffers[b + 1].uri \in DOMAIN disk
              BY <4>2, <2>9 DEF Shifted, a, view
        <5>4. bytes[view.buffer + 1].file = g.buffers[view.buffer + 1].uri
          <6> DEFINE b == view.buffer + 1
          <6>1. b \in 0..Len(g.buffers) /\ b \in 1..b
                BY <5>2
          <6>2. \A i \in 1..b : g.buffers[i].uri \in DOMAIN disk
            <7>1. TAKE i \in 1..b
            <7>2. i - 1 \in 0..view.buffer /\ (i - 1) + 1 = i
                  BY <5>2
            <7>3. QED
                  BY <5>3, <7>2
          <6> HIDE DEF b
          <6>3. bytes[b].file = g.buffers[b].uri
                BY <6>1, <6>2, BytesAre DEF bytes
          <6>4. QED
                BY <6>3 DEF b
        <5>5. Elements(g, index) =
                [i \in 1..a.count |-> <<g.buffers[view.buffer + 1].uri,
                                        Start(view, a) + (i - 1) * Stride(g, a)>>]
              BY <2>9, Zenon DEF Elements, a, view
        <5>6. QED
              BY <5>1, <5>4, <5>5
      <4>3. Reads(g, disk, data, index)
            BY <1>2, <4>2 DEF Reads
      <4> HIDE DEF data
      <4>4. QED
            BY <2>4, <3>4, <4>1, <4>3 DEF r, a, bytes
    <3>5. QED
          BY <3>3, <3>4 DEF r, a, bytes
  <2>10. QED
         BY <2>6, <2>7, <2>8, <2>9
<1>5. QED
      BY <1>3, <1>4

-----------------------------------------------------------------------------
(* Primitives.                                                              *)

\* The four attributes.
LEMMA TypesAre == DOMAIN Types = {"POSITION", "NORMAL", "TANGENT", "TEXCOORD_0"}
BY DEF Types

\* A primitive of the document is well-formed.
LEMMA PrimitiveIs ==
  ASSUME NEW g, WellFormed(g), NEW p \in AllPrimitives(g)
  PROVE  PrimitiveWellFormed(p)
<1>1. PICK i \in DOMAIN g.meshes : p \in ToSet(g.meshes[i])
      BY DEF AllPrimitives
<1>2. PICK j \in DOMAIN g.meshes[i] : p = g.meshes[i][j]
      BY <1>1 DEF ToSet
<1>3. QED
      BY <1>1, <1>2 DEF WellFormed

\* The data that is read for an optional number of an accessor.
Gets(g, disk, data, index) ==
  /\ IsVector(data) /\ Reads(g, disk, data, index)
  /\ index = None => data = <<>>
  /\ index # None => /\ Resolves(g, index)
                     /\ Len(data) = g.accessors[index + 1].count

\* Nothing is read for an absent one.
LEMMA GetsNothing ==
  ASSUME NEW g, NEW disk, NEW index, index = None
  PROVE  /\ Gets(g, disk, <<>>, index)
         /\ Ok(<<>>).status = "ok" /\ Ok(<<>>).data = <<>>
<1>1. IsVector(<<>>)
      BY EmptySeq, SeqIsVector
<1>2. QED
      BY <1>1 DEF Gets, Reads, Ok

\* What Indices returns for a primitive of the document.
LEMMA IndicesAre ==
  ASSUME NEW g, NEW disk, WellFormed(g), SizesAreNatural(disk),
         NEW p \in AllPrimitives(g)
  PROVE  LET r == Indices(g, BuffersBytes(g, disk), p)
         IN \/ r.status = "ok" /\ Gets(g, disk, r.data, p.indices)
            \/ r.status # "ok" /\ Refused(g, disk, r)
<1> DEFINE bytes == BuffersBytes(g, disk)
           a == g.accessors[p.indices + 1]
           r == Indices(g, bytes, p)
<1>1. CASE p.indices = None
  <2>1. r = Ok(<<>>)
        BY <1>1 DEF Indices
  <2>2. QED
        BY <1>1, <2>1, GetsNothing
<1>2. CASE p.indices # None
  <2>1. p.indices \in Int /\ <<p.indices, Len(g.accessors)>> \in References(g)
        BY <1>2, PrimitiveIs, ReferencesAre DEF PrimitiveWellFormed,
        IsOptionalInt
  <2> DEFINE componentTypes == {UnsignedShort, UnsignedInt, 0}
  <2>2. r = AccessorData(g, bytes, p.indices, "SCALAR", componentTypes, FALSE)
        BY <1>2 DEF Indices
  <2> HIDE DEF componentTypes, r
  <2>3. \/ Refused(g, disk, r) /\ r.status # "ok"
        \/ /\ r.status = "error" /\ IsIndex(p.indices, g.accessors)
           /\ \/ a.type # "SCALAR" \/ a.componentType \notin componentTypes
              \/ a.bufferView = None /\ ~FALSE
        \/ /\ r.status = "ok" /\ Resolves(g, p.indices)
           /\ IsVector(r.data) /\ Len(r.data) = a.count
           /\ Reads(g, disk, r.data, p.indices)
    <3>1. Accessed(g, disk, p.indices, "SCALAR", componentTypes, FALSE, r)
          BY <2>1, <2>2, AccessorDataIs
    <3>2. QED
          BY <3>1 DEF Accessed
  <2>4. CASE Refused(g, disk, r) /\ r.status # "ok"
        BY <2>4 DEF r
  <2>5. CASE /\ r.status = "error" /\ IsIndex(p.indices, g.accessors)
             /\ \/ a.type # "SCALAR" \/ a.componentType \notin componentTypes
                \/ a.bufferView = None
    <3>1. Mistyped(g)
          BY <2>5 DEF Mistyped, componentTypes
    <3>2. QED
          BY <2>5, <3>1 DEF Refused, MayFail, r
  <2>6. CASE /\ r.status = "ok" /\ Resolves(g, p.indices)
             /\ IsVector(r.data) /\ Len(r.data) = a.count
             /\ Reads(g, disk, r.data, p.indices)
        BY <1>2, <2>6 DEF Gets, r
  <2>7. QED
        BY <2>3, <2>4, <2>5, <2>6
<1>3. QED
      BY <1>1, <1>2

\* What Attribute returns for one of its attributes.
LEMMA AttributeIs ==
  ASSUME NEW g, NEW disk, WellFormed(g), SizesAreNatural(disk),
         NEW p \in AllPrimitives(g), NEW s \in DOMAIN Types
  PROVE  LET r == Attribute(g, BuffersBytes(g, disk), p, s)
         IN \/ r.status = "ok" /\ Gets(g, disk, r.data, p.attributes[s])
            \/ r.status # "ok" /\ Refused(g, disk, r)
<1> DEFINE bytes == BuffersBytes(g, disk)
           index == p.attributes[s]
           a == g.accessors[index + 1]
           r == Attribute(g, bytes, p, s)
<1>1. CASE index = None
  <2>1. r = Ok(<<>>)
        BY <1>1 DEF Attribute
  <2>2. QED
        BY <1>1, <2>1, GetsNothing
<1>2. CASE index # None
  <2>1. index \in Int /\ <<index, Len(g.accessors)>> \in References(g)
        BY <1>2, PrimitiveIs, ReferencesAre DEF PrimitiveWellFormed,
        IsOptionalInt
  <2>2. r = AccessorData(g, bytes, index, Types[s], {Float}, TRUE)
        BY <1>2 DEF Attribute
  <2> HIDE DEF r, index
  <2>3. \/ Refused(g, disk, r) /\ r.status # "ok"
        \/ /\ r.status = "error" /\ IsIndex(index, g.accessors)
           /\ \/ a.type # Types[s] \/ a.componentType \notin {Float}
              \/ a.bufferView = None /\ ~TRUE
        \/ /\ r.status = "ok" /\ Resolves(g, index)
           /\ IsVector(r.data) /\ Len(r.data) = a.count
           /\ Reads(g, disk, r.data, index)
    <3>1. Accessed(g, disk, index, Types[s], {Float}, TRUE, r)
          BY <2>1, <2>2, AccessorDataIs
    <3>2. QED
          BY <3>1 DEF Accessed
  <2>4. CASE Refused(g, disk, r) /\ r.status # "ok"
        BY <2>4 DEF r
  <2>5. CASE /\ r.status = "error" /\ IsIndex(index, g.accessors)
             /\ \/ a.type # Types[s] \/ a.componentType # Float
    <3>1. Mistyped(g)
          BY <2>5 DEF Mistyped, index
    <3>2. QED
          BY <2>5, <3>1 DEF Refused, MayFail, r
  <2>6. CASE /\ r.status = "ok" /\ Resolves(g, index)
             /\ IsVector(r.data) /\ Len(r.data) = a.count
             /\ Reads(g, disk, r.data, index)
        BY <1>2, <2>6 DEF Gets, r, index
  <2>7. QED
        BY <2>3, <2>4, <2>5, <2>6
<1>3. QED
      BY <1>1, <1>2

\* What Topology returns for it.
LEMMA TopologyIs ==
  ASSUME NEW g, NEW disk, WellFormed(g), NEW p \in AllPrimitives(g)
  PROVE  LET r == Topology(p.mode)
         IN \/ r.status = "ok" /\ r.data = ModeMeans(p.mode)
            \/ r.status # "ok" /\ Refused(g, disk, r)
<1>1. p.mode = None \/ p.mode \in Int
      BY PrimitiveIs DEF PrimitiveWellFormed, IsOptionalInt
<1>2. CASE p.mode = None
  <2>1. Topology(p.mode) = Ok("triangles")
        BY <1>2 DEF Topology
  <2>2. QED
        BY <1>2, <2>1 DEF Ok, ModeMeans
<1>3. CASE p.mode # None /\ p.mode \in 0..6 \ {2}
  <2>1. p.mode \in {0, 1, 3, 4, 5, 6}
        BY <1>3
  <2>2. p.mode + 1 \in DOMAIN Topologies /\ Topologies[p.mode + 1] # "unknown"
        BY <2>1 DEF Topologies
  <2>3. Topologies[p.mode + 1] = Modes[p.mode + 1]
        BY <2>1 DEF Topologies, Modes
  <2>4. Topology(p.mode) = Ok(Topologies[p.mode + 1])
        BY <1>3, <2>2, Zenon DEF Topology
  <2>5. ModeMeans(p.mode) = Modes[p.mode + 1]
        BY <1>3, Zenon DEF ModeMeans
  <2>6. QED
        BY <2>3, <2>4, <2>5 DEF Ok
<1>4. CASE p.mode # None /\ p.mode \in Int /\ p.mode \notin 0..6 \ {2}
  <2>1. Unsupported(g)
        BY <1>4 DEF Unsupported
  <2>2. p.mode + 1 \notin DOMAIN Topologies \/ Topologies[p.mode + 1] = "unknown"
    <3>1. p.mode = 2 \/ p.mode + 1 \notin 1..7
          BY <1>4
    <3>2. DOMAIN Topologies = 1..7 /\ Topologies[3] = "unknown"
          BY DEF Topologies
    <3>3. QED
          BY <3>1, <3>2
  <2>3. Topology(p.mode) = Error
        BY <1>4, <2>2, Zenon DEF Topology
  <2>4. QED
        BY <2>1, <2>3 DEF MayFail, Refused, Error
<1>5. QED
      BY <1>1, <1>2, <1>3, <1>4

\* Collect of three results.
LEMMA ThreeCollected ==
  ASSUME NEW x, NEW y, NEW z
  PROVE  LET r == Collect(<<x, y, z>>)
         IN /\ r.status = "ok" =>
                 x.status = "ok" /\ y.status = "ok" /\ z.status = "ok"
            /\ r.status # "ok" => r \in {x, y, z}
<1> DEFINE v == <<x, y, z>>
           r == Collect(v)
<1>1. v \in Seq({x, y, z}) /\ Len(v) = 3
      OBVIOUS
<1>2. v[1] = x /\ v[2] = y /\ v[3] = z
      OBVIOUS
<1> HIDE DEF v
<1>3. IsVector(v)
      BY <1>1, SeqIsVector
<1>4. CASE \E i \in 1..Len(v) : v[i].status # "ok"
  <2>1. PICK i \in 1..Len(v) : r = v[i] /\ v[i].status # "ok"
        BY <1>3, <1>4, CollectFails
  <2>2. r \in {x, y, z} /\ r.status # "ok"
        BY <1>1, <1>2, <2>1
  <2>3. QED
        BY <2>2 DEF v
<1>5. CASE \A i \in 1..Len(v) : v[i].status = "ok"
  <2>1. r.status = "ok"
        BY <1>3, <1>5, CollectOk
  <2>2. x.status = "ok" /\ y.status = "ok" /\ z.status = "ok"
        BY <1>1, <1>2, <1>5
  <2>3. QED
        BY <2>1, <2>2 DEF v
<1>6. QED
      BY <1>4, <1>5

\* The imported form of a primitive and its drawable.
LEMMA MeshMeans ==
  ASSUME NEW g, NEW disk, NEW path, NEW j, NEW matrix, NEW topology,
  NEW indices,
         NEW M, NEW p, p = PrimitivesOf(g, Last(path))[j],
         matrix = Transform(g, path) \/ Collapsed(g, path),
         topology = ModeMeans(p.mode),
         IsVector(indices), Reads(g, disk, indices, p.indices),
         \A s \in DOMAIN Types :
           ReadsVertices(g, disk, M[s], p.attributes[s], VertexCount(g, p))
  PROVE  Depicts(g, disk,
                 <<[name |-> <<Last(path), j - 1>>, matrix |-> matrix,
                    topology |-> topology, indices |-> indices,
                    POSITION |-> M["POSITION"], NORMAL |-> M["NORMAL"],
                    TANGENT |-> M["TANGENT"],
                    TEXCOORD_0 |-> M["TEXCOORD_0"]]>>,
                 {<<path, j>>})
<1> DEFINE m == [name |-> <<Last(path), j - 1>>, matrix |-> matrix,
                 topology |-> topology, indices |-> indices,
                 POSITION |-> M["POSITION"], NORMAL |-> M["NORMAL"],
                 TANGENT |-> M["TANGENT"],
                 TEXCOORD_0 |-> M["TEXCOORD_0"]]
           d == <<path, j>>
<1>1. /\ m.name = <<Last(path), j - 1>> /\ m.matrix = matrix
      /\ m.topology = topology /\ m.indices = indices
      OBVIOUS
<1>2. \A s \in DOMAIN Types : m[s] = M[s]
      BY TypesAre
<1> HIDE DEF m
<1>3. d[1] = path /\ d[2] = j
      OBVIOUS
<1>4. Means(g, disk, m, d)
  <2> HIDE DEF d
  <2>1. \A s \in DOMAIN Types :
          ReadsVertices(g, disk, m[s], p.attributes[s], VertexCount(g, p))
        BY <1>2
  <2>2. QED
        BY <1>1, <1>3, <2>1, Zenon DEF Means
<1>5. /\ <<m>> \in Seq({m}) /\ Len(<<m>>) = 1 /\ <<m>>[1] = m
      /\ DOMAIN <<m>> = 1..1
      OBVIOUS
<1>6. AreMeshData(<<m>>)
  <2>1. IsVector(<<m>>)
        BY <1>5, SeqIsVector
  <2>2. ASSUME NEW i \in DOMAIN <<m>> PROVE IsVector(<<m>>[i].indices)
    <3>1. i = 1
          BY <1>5
    <3>2. QED
          BY <3>1, <1>1, <1>5
  <2>3. QED
        BY <2>1, <2>2 DEF AreMeshData
<1>7. IsFiniteSet({d}) /\ Cardinality({d}) = 1
      BY FS_Singleton
<1> HIDE DEF d
<1>8. \A e \in {d} : \E i \in DOMAIN <<m>> : Means(g, disk, <<m>>[i], e)
  <2>1. 1 \in DOMAIN <<m>> /\ Means(g, disk, <<m>>[1], d)
        BY <1>4, <1>5
  <2>2. QED
        BY <2>1
<1>9. Depicts(g, disk, <<m>>, {d})
      BY <1>5, <1>6, <1>7, <1>8 DEF Depicts
<1>10. QED
       BY <1>9 DEF m, d

\* The elements that are copied for every position.
LEMMA PerVertexIs ==
  ASSUME NEW g, NEW disk, WellFormed(g), NEW index, NEW data,
         Gets(g, disk, data, index), NEW positions, IsVector(positions)
  PROVE  ReadsVertices(g, disk, PerVertex(data, positions), index, Len(positions))
<1>1. CASE index = None
      BY <1>1 DEF Gets, PerVertex, ReadsVertices
<1>2. CASE index # None /\ data = <<>>
  <2>1. Len(data) = 0
        BY <1>2
  <2>2. IsIndex(index, g.accessors) /\ g.accessors[index + 1].count = 0
        BY <1>2, <2>1 DEF Gets, Resolves
  <2>3. g.accessors[index + 1].count # 0
        BY <2>2, AccessorIs, CountIs
  <2>4. QED
        BY <2>2, <2>3
<1>3. CASE index # None /\ data # <<>>
  <2>1. DOMAIN positions = 1..Len(positions)
        BY VectorElements
  <2>2. PerVertex(data, positions) = [i \in 1..Len(positions) |-> data[i]]
        BY <1>3, <2>1, Zenon DEF PerVertex
  <2>3. data = Elements(g, index) \/ Interleaved(g, index) \/ Shifted(g, disk, index)
        BY <1>3 DEF Gets, Reads
  <2>4. QED
        BY <1>3, <2>2, <2>3, Zenon DEF ReadsVertices
<1>4. QED
      BY <1>1, <1>2, <1>3

\* The corners of the faces of a primitive: one for every element of the accessor
\* they come from; without indices each is a position.
Numbered(g, p, componentType, indices, positions, corners) ==
  /\ DOMAIN corners = 1..Len(corners) /\ Len(corners) \in Nat \ {0}
  /\ IsIndex(CornerAccessor(p), g.accessors)
  /\ Len(corners) = g.accessors[CornerAccessor(p) + 1].count
  /\ p.indices = None =>
       \A i \in 1..Len(corners) : corners[i] < Len(positions)
  /\ p.indices # None =>
       \A i \in 1..Len(corners) :
         corners[i] = IndexAt(componentType, indices[i])

\* Corners returns such numbers.
LEMMA CornersAre ==
  ASSUME NEW g, NEW disk, WellFormed(g), NEW p \in AllPrimitives(g),
         NEW indices, Gets(g, disk, indices, p.indices),
         NEW positions, Gets(g, disk, positions, p.attributes["POSITION"]),
         HasPositions(p), NEW componentType
  PROVE  Numbered(g, p, componentType, indices, positions,
                  Corners(componentType, indices, positions))
<1> DEFINE corners == Corners(componentType, indices, positions)
           a == g.accessors[CornerAccessor(p) + 1]
<1> SUFFICES
      /\ DOMAIN corners = 1..Len(corners) /\ Len(corners) \in Nat \ {0}
      /\ IsIndex(CornerAccessor(p), g.accessors)
      /\ Len(corners) = a.count
      /\ p.indices = None => \A i \in 1..Len(corners) : corners[i] < Len(positions)
      /\ p.indices # None =>
           \A i \in 1..Len(corners) :
             corners[i] = IndexAt(componentType, indices[i])
    BY DEF Numbered
<1>1. IsIndex(CornerAccessor(p), g.accessors)
      BY DEF Gets, HasPositions, CornerAccessor, Resolves
<1>2. a.count \in Nat \ {0}
  <2>1. AccessorWellFormed(a)
        BY <1>1, AccessorIs
  <2>2. QED
        BY <2>1, CountIs
<1>3. CASE p.indices = None
  <2>1. indices = <<>> /\ Len(positions) = a.count /\ IsVector(positions)
        BY <1>3 DEF Gets, HasPositions, CornerAccessor
  <2>2. DOMAIN positions = 1..a.count
        BY <2>1, VectorElements
  <2>3. corners = [i \in 1..a.count |-> i - 1]
        BY <2>1, <2>2, Zenon DEF Corners
  <2>4. IsVector(corners) /\ Len(corners) = a.count
    <3>1. corners = [i \in 1..a.count |-> corners[i]]
          BY <2>3
    <3> HIDE DEF corners, a
    <3>2. QED
          BY <1>2, <3>1, DataIsVector
  <2>5. ASSUME NEW i \in 1..a.count PROVE corners[i] < Len(positions)
    <3>1. corners[i] = i - 1
          BY <2>3
    <3> HIDE DEF corners, a
    <3>2. QED
          BY <1>2, <2>1, <3>1
  <2>6. QED
        BY <1>1, <1>2, <1>3, <2>3, <2>4, <2>5
<1>4. CASE p.indices # None
  <2>1. Len(indices) = a.count /\ IsVector(indices)
        BY <1>4 DEF Gets, CornerAccessor
  <2>2. DOMAIN indices = 1..a.count
        BY <2>1, VectorElements
  <2>3. indices # <<>>
    <3> HIDE DEF a
    <3>1. QED
          BY <1>2, <2>1
  <2>4. corners = [i \in 1..a.count |-> IndexAt(componentType, indices[i])]
        BY <2>2, <2>3, Zenon DEF Corners
  <2>5. IsVector(corners) /\ Len(corners) = a.count
    <3>1. corners = [i \in 1..a.count |-> corners[i]]
          BY <2>4
    <3> HIDE DEF corners, a
    <3>2. QED
          BY <1>2, <3>1, DataIsVector
  <2>6. \A i \in 1..a.count : corners[i] = IndexAt(componentType, indices[i])
        BY <2>4
  <2>7. QED
        BY <1>1, <1>2, <1>4, <2>4, <2>5, <2>6
<1>5. QED
      BY <1>3, <1>4

\* A whole face that has a corner outside is a reason to be undefined.
LEMMA CornerOutside ==
  ASSUME NEW g, NEW disk, WellFormed(g), NEW p \in AllPrimitives(g),
         NEW indices, Gets(g, disk, indices, p.indices), p.indices # None,
         IsIndex(p.attributes["POSITION"], g.accessors),
         p.attributes["NORMAL"] = None \/ p.attributes["TANGENT"] = None,
         NEW i \in 1..(3 * (g.accessors[p.indices + 1].count \div 3)),
         ~(IndexAt(g.accessors[p.indices + 1].componentType, indices[i])
             < VertexCount(g, p))
  PROVE  MayBeUndefined(g, disk)
<1>1. \/ indices = Elements(g, p.indices)
      \/ Interleaved(g, p.indices) \/ Shifted(g, disk, p.indices)
      BY DEF Gets, Reads
<1>2. Resolves(g, p.indices)
      BY DEF Gets
<1>3. CASE indices = Elements(g, p.indices)
  <2>1. IndexBeyond(g)
        BY <1>2, <1>3 DEF IndexBeyond
  <2>2. QED
        BY <2>1 DEF MayBeUndefined
<1>4. CASE Interleaved(g, p.indices)
  <2>1. IndexBeyond(g)
        BY <1>2, <1>4, Zenon DEF IndexBeyond
  <2>2. QED
        BY <2>1 DEF MayBeUndefined
<1>5. CASE Shifted(g, disk, p.indices)
  <2> DEFINE view == g.bufferViews[g.accessors[p.indices + 1].bufferView + 1]
  <2>1. PICK b \in 0..view.buffer : g.buffers[b + 1].uri \notin DOMAIN disk
        BY <1>5 DEF Shifted
  <2>2. IsIndex(view.buffer, g.buffers)
        BY <1>2, <1>5 DEF Resolves, ViewResolves, Shifted
  <2>3. Len(g.buffers) \in Nat /\ DOMAIN g.buffers = 1..Len(g.buffers)
        BY VectorElements DEF WellFormed, ArraysAreVectors
  <2>4. b + 1 \in DOMAIN g.buffers
    <3>1. view.buffer \in 0..(Len(g.buffers) - 1)
          BY <2>2 DEF IsIndex
    <3> HIDE DEF view
    <3>2. b \in 0..(Len(g.buffers) - 1)
          BY <2>1, <2>3, <3>1
    <3>3. QED
          BY <2>3, <3>2
  <2>5. g.buffers[b + 1] \in ToSet(g.buffers)
        BY <2>4 DEF ToSet
  <2>6. QED
        BY <2>1, <2>5 DEF BufferDamaged, MayBeUndefined
<1>6. QED
      BY <1>1, <1>3, <1>4, <1>5

\* So is what makes the generation of normals or of tangents leave the vertices.
LEMMA GenerationOutside ==
  ASSUME NEW g, NEW disk, WellFormed(g), NEW p \in AllPrimitives(g),
         NEW indices, Gets(g, disk, indices, p.indices),
         NEW positions, Gets(g, disk, positions, p.attributes["POSITION"]),
         HasPositions(p)
  PROVE  LET corners == Corners(g.accessors[p.indices + 1].componentType,
                                indices, positions)
         IN /\ (p.attributes["NORMAL"] = None /\ ~NormalsInside(corners, positions))
                 => MayBeUndefined(g, disk)
            /\ (p.attributes["TANGENT"] = None /\ ~TangentsInside(corners, positions))
                 => MayBeUndefined(g, disk)
            /\ (p.attributes["TANGENT"] = None /\ ~HasFaces(corners))
                 => MayFail(g, disk)
<1> DEFINE componentType == g.accessors[p.indices + 1].componentType
           corners == Corners(componentType, indices, positions)
           n == Len(corners)
           a == g.accessors[CornerAccessor(p) + 1]
<1>1. /\ DOMAIN corners = 1..n /\ n \in Nat \ {0}
      /\ IsIndex(CornerAccessor(p), g.accessors)
      /\ n = a.count
      /\ p.indices = None => \A i \in 1..n : corners[i] < Len(positions)
      /\ p.indices # None =>
           \A i \in 1..n : corners[i] = IndexAt(componentType, indices[i])
  <2>1. Numbered(g, p, componentType, indices, positions, corners)
        BY CornersAre
  <2> HIDE DEF corners
  <2>2. QED
        BY <2>1 DEF Numbered
<1>2. /\ IsIndex(p.attributes["POSITION"], g.accessors)
      /\ Len(positions) = VertexCount(g, p)
      BY DEF Gets, HasPositions, Resolves, VertexCount
<1> HIDE DEF corners, n
<1>3. 3 * (n \div 3) <= n /\ 3 * (n \div 3) \in Nat
      BY <1>1
<1>4. ASSUME p.attributes["NORMAL"] = None \/ p.attributes["TANGENT"] = None,
             NEW i \in 1..(3 * (n \div 3)), ~(corners[i] < Len(positions))
      PROVE  MayBeUndefined(g, disk)
  <2>1. i \in 1..n
        BY <1>1, <1>3
  <2>2. p.indices # None /\ CornerAccessor(p) = p.indices
        BY <1>1, <1>4, <2>1 DEF CornerAccessor
  <2>3. corners[i] = IndexAt(componentType, indices[i])
        BY <1>1, <2>1, <2>2
  <2>4. /\ i \in 1..(3 * (g.accessors[p.indices + 1].count \div 3))
        /\ ~(IndexAt(componentType, indices[i]) < VertexCount(g, p))
        BY <1>1, <1>2, <1>4, <2>2, <2>3
  <2>5. QED
        BY <1>2, <1>4, <2>2, <2>4, CornerOutside
<1>5. ASSUME p.attributes["NORMAL"] = None, ~NormalsInside(corners, positions)
      PROVE  MayBeUndefined(g, disk)
  <2>1. CASE n % 3 # 0
    <3>1. PartialTriangles(g)
          BY <1>1, <1>5, <2>1 DEF PartialTriangles
    <3>2. QED
          BY <3>1 DEF MayBeUndefined
  <2>2. CASE n % 3 = 0
    <3>1. 3 * (n \div 3) = n
          BY <1>1, <2>2
    <3>2. PICK i \in 1..n : ~(corners[i] < Len(positions))
          BY <1>1, <1>5, <2>2 DEF NormalsInside, n
    <3>3. QED
          BY <1>4, <1>5, <3>1, <3>2
  <2>3. QED
        BY <2>1, <2>2
<1>6. ASSUME p.attributes["TANGENT"] = None, ~TangentsInside(corners, positions)
      PROVE  MayBeUndefined(g, disk)
  <2>1. PICK i \in 1..(3 * (n \div 3)) : ~(corners[i] < Len(positions))
        BY <1>6 DEF TangentsInside, n
  <2>2. QED
        BY <1>4, <1>6, <2>1
<1>7. ASSUME p.attributes["TANGENT"] = None, ~HasFaces(corners)
      PROVE  MayFail(g, disk)
  <2>1. n < 3
        BY <1>1, <1>7 DEF HasFaces, n
  <2>2. Unsupported(g)
        BY <1>1, <1>7, <2>1 DEF Unsupported
  <2>3. QED
        BY <2>2 DEF MayFail
<1>8. QED
      BY <1>5, <1>6, <1>7 DEF corners

\* The vertices of a primitive with positions whose attributes could be read.
LEMMA VerticesExplained ==
  ASSUME NEW g, NEW disk, WellFormed(g),
         NEW path, NEW j, NEW matrix, NEW topology, NEW indices, NEW A,
         matrix = Transform(g, path) \/ Collapsed(g, path),
         NEW p \in AllPrimitives(g), p = PrimitivesOf(g, Last(path))[j],
         topology = ModeMeans(p.mode),
         HasPositions(p), Gets(g, disk, indices, p.indices),
         \A s \in DOMAIN Types : Gets(g, disk, A[s].data, p.attributes[s])
  PROVE  Explained(g, disk,
                   Vertices(<<Last(path), j - 1>>, matrix, topology,
                            g.accessors[p.indices + 1].componentType, indices,
                            A["POSITION"].data, A),
                   {<<path, j>>})
<1> DEFINE positions == A["POSITION"].data
           componentType == g.accessors[p.indices + 1].componentType
           corners == Corners(componentType, indices, positions)
           short(v) == v # <<>> /\ Len(v) < Len(positions)
           name == <<Last(path), j - 1>>
           r == Vertices(name, matrix, topology, componentType, indices, positions, A)
           M == [s \in DOMAIN Types |->
                   IF s = "POSITION" THEN positions ELSE PerVertex(A[s].data, positions)]
           mesh == [name |-> name, matrix |-> matrix,
                    topology |-> topology, indices |-> indices,
                    POSITION |-> M["POSITION"], NORMAL |-> M["NORMAL"],
                    TANGENT |-> M["TANGENT"], TEXCOORD_0 |-> M["TEXCOORD_0"]]
<1>1. /\ Gets(g, disk, positions, p.attributes["POSITION"])
      /\ Gets(g, disk, A["NORMAL"].data, p.attributes["NORMAL"])
      /\ Gets(g, disk, A["TANGENT"].data, p.attributes["TANGENT"])
      /\ Gets(g, disk, A["TEXCOORD_0"].data, p.attributes["TEXCOORD_0"])
      BY TypesAre
<1>2. /\ IsVector(positions) /\ Len(positions) = VertexCount(g, p)
      /\ IsIndex(p.attributes["POSITION"], g.accessors)
      BY <1>1 DEF Gets, HasPositions, VertexCount, Resolves
<1>3. VertexCount(g, p) \in Nat \ {0}
  <2>1. AccessorWellFormed(g.accessors[p.attributes["POSITION"] + 1])
        BY <1>2, AccessorIs
  <2>2. QED
        BY <2>1, CountIs DEF VertexCount
<1>4. ASSUME NEW s \in DOMAIN Types
      PROVE  /\ short(A[s].data) => MayBeUndefined(g, disk)
             /\ A[s].data = <<>> => p.attributes[s] = None
  <2>1. Gets(g, disk, A[s].data, p.attributes[s])
        OBVIOUS
  <2>2. CASE p.attributes[s] = None
        BY <2>1, <2>2 DEF Gets
  <2>3. CASE p.attributes[s] # None
    <3>1. /\ IsIndex(p.attributes[s], g.accessors)
          /\ Len(A[s].data) = g.accessors[p.attributes[s] + 1].count
          BY <2>1, <2>3 DEF Gets, Resolves
    <3>2. Len(A[s].data) # 0
      <4>1. AccessorWellFormed(g.accessors[p.attributes[s] + 1])
            BY <3>1, AccessorIs
      <4>2. QED
            BY <3>1, <4>1, CountIs
    <3>3. A[s].data # <<>>
          BY <3>2
    <3>4. ASSUME short(A[s].data) PROVE MayBeUndefined(g, disk)
      <4>1. g.accessors[p.attributes[s] + 1].count < VertexCount(g, p)
            BY <1>2, <3>1, <3>4
      <4>2. AttributeShort(g)
            BY <1>2, <3>1, <4>1 DEF AttributeShort
      <4>3. QED
            BY <4>2 DEF MayBeUndefined
    <3>5. QED
          BY <3>3, <3>4
  <2>4. QED
        BY <2>2, <2>3
<1>5. /\ short(A["NORMAL"].data) => MayBeUndefined(g, disk)
      /\ short(A["TEXCOORD_0"].data) => MayBeUndefined(g, disk)
      /\ short(A["TANGENT"].data) => MayBeUndefined(g, disk)
      /\ A["NORMAL"].data = <<>> => p.attributes["NORMAL"] = None
      /\ A["TANGENT"].data = <<>> => p.attributes["TANGENT"] = None
  <2>1. /\ "NORMAL" \in DOMAIN Types /\ "TEXCOORD_0" \in DOMAIN Types
        /\ "TANGENT" \in DOMAIN Types
        BY TypesAre
  <2> HIDE DEF short
  <2>2. QED
        BY <1>4, <2>1, Zenon
<1>6. /\ (p.attributes["NORMAL"] = None /\ ~NormalsInside(corners, positions))
           => MayBeUndefined(g, disk)
      /\ (p.attributes["TANGENT"] = None /\ ~TangentsInside(corners, positions))
           => MayBeUndefined(g, disk)
      /\ (p.attributes["TANGENT"] = None /\ ~HasFaces(corners))
           => MayFail(g, disk)
      BY <1>1, GenerationOutside
<1> DEFINE outside == \/ short(A["NORMAL"].data) \/ short(A["TEXCOORD_0"].data)
                      \/ A["NORMAL"].data = <<>> /\ ~NormalsInside(corners, positions)
                      \/ short(A["TANGENT"].data)
                      \/ A["TANGENT"].data = <<>> /\ ~TangentsInside(corners, positions)
           bare == A["TANGENT"].data = <<>> /\ ~HasFaces(corners)
<1>7. outside => MayBeUndefined(g, disk)
  <2> HIDE DEF short, corners
  <2>1. QED
        BY <1>5, <1>6
<1>8. bare => MayFail(g, disk)
      BY <1>5, <1>6
<1>9. /\ M["POSITION"] = positions
      /\ M["NORMAL"] = PerVertex(A["NORMAL"].data, positions)
      /\ M["TANGENT"] = PerVertex(A["TANGENT"].data, positions)
      /\ M["TEXCOORD_0"] = PerVertex(A["TEXCOORD_0"].data, positions)
      BY TypesAre
<1> HIDE DEF M
<1>10. r = IF outside THEN Undefined ELSE IF bare THEN Error ELSE Ok(<<mesh>>)
  <2> DEFINE built == [name |-> name, matrix |-> matrix,
                       topology |-> topology, indices |-> indices,
                       POSITION |-> positions,
                       NORMAL |-> PerVertex(A["NORMAL"].data, positions),
                       TANGENT |-> PerVertex(A["TANGENT"].data, positions),
                       TEXCOORD_0 |-> PerVertex(A["TEXCOORD_0"].data, positions)]
  <2>1. r = IF outside THEN Undefined ELSE IF bare THEN Error ELSE Ok(<<built>>)
        BY Zenon DEF Vertices
  <2>2. built = mesh
        BY <1>9
  <2> HIDE DEF built, mesh, outside, bare, r
  <2>3. QED
        BY <2>1, <2>2
<1>11. Depicts(g, disk, <<mesh>>, {<<path, j>>})
  <2>1. ASSUME NEW s \in DOMAIN Types
        PROVE  ReadsVertices(g, disk, M[s], p.attributes[s], VertexCount(g, p))
    <3>1. Gets(g, disk, A[s].data, p.attributes[s])
          OBVIOUS
    <3>2. M[s] = PerVertex(A[s].data, positions)
      <4>1. CASE s # "POSITION"
            BY <4>1 DEF M
      <4>2. CASE s = "POSITION"
        <5>1. M[s] = positions /\ A[s].data = positions
              BY <4>2, <1>9
        <5>2. positions # <<>>
          <6>1. Len(positions) # 0
                BY <1>2, <1>3
          <6> HIDE DEF positions
          <6>2. QED
                BY <6>1
        <5>3. PerVertex(positions, positions) = [i \in DOMAIN positions |-> positions[i]]
              BY <5>2, Zenon DEF PerVertex
        <5>4. positions = [i \in DOMAIN positions |-> positions[i]]
          <6> HIDE DEF positions
          <6>1. QED
                BY <1>2 DEF IsVector
        <5>5. QED
              BY <5>1, <5>3, <5>4
      <4>3. QED
            BY <4>1, <4>2
    <3> HIDE DEF positions
    <3>3. ReadsVertices(g, disk, PerVertex(A[s].data, positions), p.attributes[s],
                        Len(positions))
          BY <1>2, <3>1, PerVertexIs
    <3>4. QED
          BY <1>2, <3>2, <3>3
  <2>2. IsVector(indices) /\ Reads(g, disk, indices, p.indices)
        BY DEF Gets
  <2>3. QED
        BY <2>1, <2>2, MeshMeans
<1> HIDE DEF outside, bare, mesh
<1>12. Explained(g, disk, r, {<<path, j>>})
  <2> HIDE DEF r
  <2>1. CASE outside
        BY <2>1, <1>7, <1>10 DEF Explained, Refused, Undefined
  <2>2. CASE ~outside /\ bare
        BY <2>2, <1>8, <1>10 DEF Explained, Refused, Error
  <2>3. CASE ~outside /\ ~bare
    <3>1. r = Ok(<<mesh>>)
          BY <2>3, <1>10
    <3>2. r.status = "ok" /\ r.data = <<mesh>>
          BY <3>1 DEF Ok
    <3>3. QED
          BY <3>2, <1>11 DEF Explained
  <2>4. QED
        BY <2>1, <2>2, <2>3
<1>13. QED
       BY <1>12

\* A primitive imports as its one drawable, or none, or fails for a reason.
LEMMA PrimitiveExplained ==
  ASSUME NEW g, NEW disk, WellFormed(g), SizesAreNatural(disk),
         NEW path, NEW j, NEW matrix,
         matrix = Transform(g, path) \/ Collapsed(g, path),
         NEW p \in AllPrimitives(g), p = PrimitivesOf(g, Last(path))[j]
  PROVE  Explained(g, disk,
                   Primitive(g, BuffersBytes(g, disk), <<Last(path), j - 1>>,
                             matrix, p),
                   IF HasPositions(p) THEN {<<path, j>>} ELSE {})
<1> DEFINE bytes     == BuffersBytes(g, disk)
           topology  == Topology(p.mode)
           indices   == Indices(g, bytes, p)
           A         == [s \in DOMAIN Types |-> Attribute(g, bytes, p, s)]
           positions == A["POSITION"]
           others    == Collect(<<A["NORMAL"], A["TANGENT"], A["TEXCOORD_0"]>>)
           name      == <<Last(path), j - 1>>
           r         == Primitive(g, bytes, name, matrix, p)
           X         == IF HasPositions(p) THEN {<<path, j>>} ELSE {}
           vertices  == Vertices(name, matrix, topology.data,
                                 g.accessors[p.indices + 1].componentType,
                                 indices.data, positions.data, A)
<1>1. \/ topology.status = "ok" /\ topology.data = ModeMeans(p.mode)
      \/ topology.status # "ok" /\ Refused(g, disk, topology)
      BY TopologyIs
<1>2. \/ indices.status = "ok" /\ Gets(g, disk, indices.data, p.indices)
      \/ indices.status # "ok" /\ Refused(g, disk, indices)
      BY IndicesAre
<1>3. \A s \in DOMAIN Types :
        \/ A[s].status = "ok" /\ Gets(g, disk, A[s].data, p.attributes[s])
        \/ A[s].status # "ok" /\ Refused(g, disk, A[s])
  <2>1. TAKE s \in DOMAIN Types
  <2>2. A[s] = Attribute(g, bytes, p, s)
        OBVIOUS
  <2> HIDE DEF A
  <2>3. QED
        BY <2>2, AttributeIs
<1>4. r = IF topology.status # "ok" THEN topology
          ELSE IF indices.status # "ok" THEN indices
          ELSE IF positions.status # "ok" \/ positions.data = <<>> THEN positions
          ELSE IF others.status # "ok" THEN others
          ELSE vertices
      BY Zenon DEF Primitive
<1> HIDE DEF r, A, topology, indices, bytes, vertices, others, X
<1>5. CASE topology.status # "ok"
      BY <1>1, <1>4, <1>5 DEF Explained, r, X, bytes
<1>6. CASE topology.status = "ok" /\ indices.status # "ok"
  <2>1. r = indices
        BY <1>4, <1>6
  <2>2. Explained(g, disk, r, X)
        BY <1>2, <1>6, <2>1 DEF Explained
  <2>3. QED
        BY <2>2 DEF r, X, bytes
<1>7. CASE /\ topology.status = "ok" /\ indices.status = "ok"
           /\ positions.status # "ok" \/ positions.data = <<>>
  <2>1. r = positions
        BY <1>4, <1>7
  <2> DEFINE P == "POSITION"
  <2>2. P \in DOMAIN Types
        BY TypesAre
  <2>3. \/ /\ positions.status = "ok"
           /\ Gets(g, disk, positions.data, p.attributes[P])
        \/ positions.status # "ok" /\ Refused(g, disk, positions)
        BY <1>3, <2>2, Zenon
  <2>4. CASE positions.status = "ok"
    <3>1. positions.data = <<>> /\ Gets(g, disk, positions.data, p.attributes[P])
          BY <1>7, <2>3, <2>4
    <3>2. ~HasPositions(p)
      <4>1. SUFFICES ASSUME HasPositions(p) PROVE FALSE
            OBVIOUS
      <4>2. /\ IsIndex(p.attributes[P], g.accessors)
            /\ Len(positions.data) = g.accessors[p.attributes[P] + 1].count
            BY <3>1, <4>1 DEF HasPositions, Gets, Resolves
      <4>3. AccessorWellFormed(g.accessors[p.attributes[P] + 1])
            BY <4>2, AccessorIs
      <4>4. g.accessors[p.attributes[P] + 1].count # 0
            BY <4>3, CountIs
      <4>5. Len(positions.data) = 0
            BY <3>1
      <4>6. QED
            BY <4>2, <4>4, <4>5
    <3>3. X = {}
          BY <3>2 DEF X
    <3>4. Explained(g, disk, r, X)
          BY <2>1, <2>4, <3>1, <3>3, DepictsNothing DEF Explained
    <3>5. QED
          BY <3>4 DEF r, X, bytes
  <2>5. CASE positions.status # "ok"
    <3>1. Explained(g, disk, r, X)
          BY <2>1, <2>3, <2>5 DEF Explained
    <3>2. QED
          BY <3>1 DEF r, X, bytes
  <2>6. QED
        BY <2>4, <2>5
<1>8. CASE /\ topology.status = "ok" /\ indices.status = "ok"
           /\ positions.status = "ok" /\ positions.data # <<>>
           /\ others.status # "ok"
  <2>1. r = others
        BY <1>4, <1>8
  <2>2. others \in {A["NORMAL"], A["TANGENT"], A["TEXCOORD_0"]}
        BY <1>8, ThreeCollected DEF others
  <2>3. PICK s \in DOMAIN Types : others = A[s]
        BY <2>2, TypesAre
  <2>4. Explained(g, disk, r, X)
        BY <1>3, <1>8, <2>1, <2>3 DEF Explained
  <2>5. QED
        BY <2>4 DEF r, X, bytes
<1>9. CASE /\ topology.status = "ok" /\ indices.status = "ok"
           /\ positions.status = "ok" /\ positions.data # <<>>
           /\ others.status = "ok"
  <2>1. r = vertices
        BY <1>4, <1>9
  <2>2. \A s \in DOMAIN Types : A[s].status = "ok"
    <3>1. /\ A["NORMAL"].status = "ok" /\ A["TANGENT"].status = "ok"
          /\ A["TEXCOORD_0"].status = "ok"
          BY <1>9, ThreeCollected DEF others
    <3>2. QED
          BY <3>1, <1>9, TypesAre
  <2>3. \A s \in DOMAIN Types : Gets(g, disk, A[s].data, p.attributes[s])
        BY <1>3, <2>2
  <2>4. HasPositions(p)
    <3>1. Gets(g, disk, positions.data, p.attributes["POSITION"])
          BY <2>3, TypesAre
    <3>2. QED
          BY <1>9, <3>1 DEF HasPositions, Gets
  <2>5. X = {<<path, j>>}
        BY <2>4 DEF X
  <2>6. Explained(g, disk, vertices, {<<path, j>>})
    <3> DEFINE t == topology.data
               v == indices.data
    <3>1. Gets(g, disk, v, p.indices) /\ t = ModeMeans(p.mode)
          BY <1>1, <1>2, <1>9
    <3> HIDE DEF t, v
    <3>2. Explained(g, disk,
                    Vertices(<<Last(path), j - 1>>, matrix, t,
                             g.accessors[p.indices + 1].componentType, v,
                             A["POSITION"].data, A),
                    {<<path, j>>})
          BY <2>3, <2>4, <3>1, VerticesExplained
    <3>3. QED
          BY <3>2 DEF vertices, t, v
  <2>7. Explained(g, disk, r, X)
        BY <2>1, <2>5, <2>6
  <2>8. QED
        BY <2>7 DEF r, X, bytes
<1>10. QED
       BY <1>5, <1>6, <1>7, <1>8, <1>9

-----------------------------------------------------------------------------
(* Nodes and paths.                                                         *)

NodeNumbers(g) == 0..(Len(g.nodes) - 1)

\* The drawables of the mesh of the last node of a path.
Own(g, path) ==
  {<<path, i>> : i \in {i \in DOMAIN PrimitivesOf(g, Last(path)) :
     PrimitivesOf(g, Last(path))[i].attributes["POSITION"] # None}}

\* What a well-formed document says of its nodes.
LEMMA NodesAre ==
  ASSUME NEW g, WellFormed(g)
  PROVE  /\ Len(g.nodes) \in Nat /\ IsVector(g.nodes)
         /\ \A n \in NodeNumbers(g) :
              /\ n \in Nat /\ n + 1 \in 1..Len(g.nodes) /\ IsIndex(n, g.nodes)
              /\ IsVector(g.nodes[n + 1].children)
              /\ IsInjective(g.nodes[n + 1].children)
              /\ Children(g, n) \subseteq NodeNumbers(g)
              /\ \A p \in Paths(g, n) : Children(g, Last(p)) \cap ToSet(p) = {}
              /\ ToSet(g.nodes[n + 1].children) \subseteq Int
              /\ IsOptionalInt(g.nodes[n + 1].mesh)
<1>1. Len(g.nodes) \in Nat /\ IsVector(g.nodes)
      BY VectorElements DEF WellFormed, ArraysAreVectors
<1>2. NodesAreTrees(g)
      BY DEF WellFormed
<1>3. ASSUME NEW n \in NodeNumbers(g)
      PROVE  /\ n \in Nat /\ n + 1 \in 1..Len(g.nodes) /\ IsIndex(n, g.nodes)
             /\ IsVector(g.nodes[n + 1].children)
             /\ IsInjective(g.nodes[n + 1].children)
             /\ Children(g, n) \subseteq NodeNumbers(g)
             /\ \A p \in Paths(g, n) : Children(g, Last(p)) \cap ToSet(p) = {}
             /\ ToSet(g.nodes[n + 1].children) \subseteq Int
             /\ IsOptionalInt(g.nodes[n + 1].mesh)
  <2>1. n \in Nat /\ n + 1 \in 1..Len(g.nodes) /\ IsIndex(n, g.nodes)
        BY <1>1 DEF NodeNumbers, IsIndex
  <2>2. (n + 1) - 1 = n
        BY <2>1
  <2> DEFINE i == n + 1
  <2>3. i \in 1..Len(g.nodes) /\ i - 1 = n
        BY <2>1, <2>2
  <2> HIDE DEF i
  <2>4. /\ IsVector(g.nodes[i].children) /\ IsInjective(g.nodes[i].children)
        /\ ToSet(g.nodes[i].children) \subseteq Int
        /\ \A p \in Paths(g, i - 1) : Children(g, Last(p)) \cap ToSet(p) = {}
        /\ IsOptionalInt(g.nodes[i].mesh)
        BY <1>2, <2>3, Zenon DEF NodesAreTrees
  <2>5. Children(g, n) \subseteq NodeNumbers(g)
        BY DEF Children, NodeNumbers
  <2>6. QED
        BY <2>1, <2>3, <2>4, <2>5 DEF i
<1>4. QED
      BY <1>1, <1>3

\* The mesh of a node imports as the drawables of the path to it.
LEMMA NodeMeshExplained ==
  ASSUME NEW g, NEW disk, WellFormed(g), SizesAreNatural(disk),
         NEW path, NEW matrix,
         matrix = Transform(g, path) \/ Collapsed(g, path),
         NEW n \in NodeNumbers(g), n = Last(path),
         g.nodes[n + 1].mesh # None
  PROVE  Explained(g, disk,
                   NodeMesh(g, BuffersBytes(g, disk), n, g.nodes[n + 1].mesh,
                            matrix),
                   Own(g, path))
<1> DEFINE bytes == BuffersBytes(g, disk)
           mesh == g.nodes[n + 1].mesh
           primitives == g.meshes[mesh + 1]
           results == [i \in DOMAIN primitives |->
                         Primitive(g, bytes, <<n, i - 1>>, matrix, primitives[i])]
           X == [i \in DOMAIN primitives |->
                   IF HasPositions(primitives[i]) THEN {<<path, i>>} ELSE {}]
           r == NodeMesh(g, bytes, n, mesh, matrix)
<1>0. IsVector(g.meshes) /\ Len(g.meshes) \in Nat
      BY VectorElements DEF WellFormed, ArraysAreVectors
<1>1. CASE ~IsIndex(mesh, g.meshes)
  <2> DEFINE found == LookupPresent(g.meshes, mesh)
  <2>1. mesh \in Int
        BY NodesAre DEF IsOptionalInt
  <2>2. <<mesh, Len(g.meshes)>> \in References(g)
    <3>1. n + 1 \in DOMAIN g.nodes
          BY NodesAre, VectorElements
    <3>2. QED
          BY <3>1, ReferencesAre
  <2>3. found = Error \/ (found = Undefined /\ mesh = Len(g.meshes))
        BY <1>0, <1>1, <2>1, LookupPresentIs
  <2>4. mesh \notin 0..(Len(g.meshes) - 1)
        BY <1>1 DEF IsIndex
  <2> HIDE DEF found, mesh
  <2>5. Refused(g, disk, found) /\ found.status \in {"error", "undefined"}
        BY <1>0, <2>1, <2>2, <2>3, <2>4, ReferenceRefused
  <2>6. r = found
        BY <2>5, Zenon DEF NodeMesh, found
  <2>7. QED
        BY <2>5, <2>6 DEF Explained, mesh
<1>14. SUFFICES ASSUME IsIndex(mesh, g.meshes)
                PROVE  Explained(g, disk, r, Own(g, path))
      BY <1>1
<1>2. mesh + 1 \in DOMAIN g.meshes
      BY <1>0, <1>14, VectorElements DEF IsIndex
<1>3. IsVector(primitives)
      BY <1>2 DEF WellFormed, ArraysAreVectors
<1>4. Len(primitives) \in Nat /\ DOMAIN primitives = 1..Len(primitives)
      BY <1>3, VectorElements
<1>5. LookupPresent(g.meshes, mesh) = Ok(primitives)
      BY <1>0, <1>14, LookupFound
<1>6. r = Collect(results)
  <2>1. /\ LookupPresent(g.meshes, mesh).status = "ok"
        /\ LookupPresent(g.meshes, mesh).data = primitives
        BY <1>5 DEF Ok
  <2>2. QED
        BY <2>1, Zenon DEF NodeMesh
<1>7. PrimitivesOf(g, n) = primitives
      BY <1>14, Zenon DEF PrimitivesOf
<1> HIDE DEF mesh, primitives, bytes
<1>8. ASSUME NEW i \in 1..Len(primitives)
      PROVE  Explained(g, disk, results[i], X[i])
  <2> DEFINE p == primitives[i]
  <2>1. p \in AllPrimitives(g)
    <3>1. p \in ToSet(primitives)
          BY <1>4 DEF ToSet
    <3>2. QED
          BY <1>2, <3>1 DEF AllPrimitives, primitives
  <2>2. p = PrimitivesOf(g, Last(path))[i]
        BY <1>7
  <2>3. results[i] = Primitive(g, bytes, <<Last(path), i - 1>>, matrix, p)
        BY <1>4
  <2>4. X[i] = IF HasPositions(p) THEN {<<path, i>>} ELSE {}
        BY <1>4
  <2> HIDE DEF p, results, X
  <2>5. Explained(g, disk,
                  Primitive(g, BuffersBytes(g, disk), <<Last(path), i - 1>>,
                            matrix, p),
                  IF HasPositions(p) THEN {<<path, i>>} ELSE {})
        BY <2>1, <2>2, PrimitiveExplained
  <2>6. QED
        BY <2>3, <2>4, <2>5 DEF bytes
<1>9. IsVector(results) /\ Len(results) = Len(primitives)
  <2>1. results = [i \in 1..Len(primitives) |-> results[i]]
        BY <1>4
  <2> HIDE DEF results
  <2>2. QED
        BY <1>4, <2>1, DataIsVector
<1>10. Disjoint(X, Len(results))
  <2>1. SUFFICES ASSUME NEW i \in 1..Len(primitives), NEW k \in 1..Len(primitives),
                        i # k
                 PROVE  X[i] \cap X[k] = {}
        BY <1>9 DEF Disjoint
  <2>2. X[i] \subseteq {<<path, i>>} /\ X[k] \subseteq {<<path, k>>}
        BY <1>4
  <2>3. <<path, i>> # <<path, k>>
        BY <2>1
  <2>4. QED
        BY <2>2, <2>3
<1>11. FirstOf(X, Len(results)) = Own(g, path)
  <2>1. ASSUME NEW d
        PROVE  d \in FirstOf(X, Len(results)) <=> d \in Own(g, path)
    <3>1. d \in FirstOf(X, Len(results)) <=>
            \E i \in DOMAIN primitives : d \in X[i]
          BY <1>4, <1>9 DEF FirstOf
    <3>2. ASSUME NEW i \in DOMAIN primitives
          PROVE  d \in X[i] <=> HasPositions(primitives[i]) /\ d = <<path, i>>
          OBVIOUS
    <3>3. d \in Own(g, path) <=>
            \E i \in DOMAIN primitives : HasPositions(primitives[i]) /\ d = <<path, i>>
          BY <1>7, Zenon DEF Own, HasPositions
    <3> HIDE DEF X
    <3>4. QED
          BY <3>1, <3>2, <3>3
  <2>2. QED
        BY <2>1
<1> HIDE DEF results, X
<1>12. Explained(g, disk, Collect(results), FirstOf(X, Len(results)))
       BY <1>8, <1>9, <1>10, CollectExplained
<1>13. QED
       BY <1>6, <1>11, <1>12 DEF bytes, mesh

IsPath(g, root, p) ==
  /\ p \in Seq(NodeNumbers(g)) /\ Len(p) >= 1 /\ p[1] = root
  /\ \A k \in 1..(Len(p) - 1) : p[k + 1] \in Children(g, p[k])

\* A path's last node.
LEMMA PathIs ==
  ASSUME NEW g, NEW root, NEW p, IsPath(g, root, p)
  PROVE  /\ Len(p) \in Nat \ {0} /\ DOMAIN p = 1..Len(p)
         /\ Last(p) = p[Len(p)]
         /\ Last(p) \in NodeNumbers(g)
         /\ \A k \in 1..Len(p) : p[k] \in NodeNumbers(g)
<1>1. p \in Seq(NodeNumbers(g)) /\ Len(p) >= 1
      BY DEF IsPath
<1>2. Len(p) \in Nat /\ DOMAIN p = 1..Len(p)
      BY <1>1, LenProperties
<1>3. \A k \in 1..Len(p) : p[k] \in NodeNumbers(g)
      BY <1>1, ElementOfSeq
<1>4. Last(p) = p[Len(p)]
      BY DEF Last
<1>5. QED
      BY <1>1, <1>2, <1>3, <1>4

\* A path goes on to any child.
LEMMA PathAppend ==
  ASSUME NEW g, WellFormed(g), NEW root, NEW q, IsPath(g, root, q),
         NEW c \in Children(g, Last(q))
  PROVE  /\ IsPath(g, root, Append(q, c))
         /\ Len(Append(q, c)) = Len(q) + 1 /\ Last(Append(q, c)) = c
         /\ Append(q, c)[Len(q) + 1] = c
         /\ \A k \in 1..Len(q) : Append(q, c)[k] = q[k]
<1> DEFINE S == NodeNumbers(g)
           p == Append(q, c)
<1>1. /\ q \in Seq(S) /\ q[1] = root /\ Len(q) \in Nat \ {0}
      /\ \A k \in 1..(Len(q) - 1) : q[k + 1] \in Children(g, q[k])
      BY PathIs DEF IsPath
<1>2. c \in S
  <2>1. Last(q) \in S
        BY PathIs
  <2>2. QED
        BY <2>1, NodesAre
<1>3. Last(q) = q[Len(q)]
      BY DEF Last
<1> HIDE DEF S
<1>4. /\ p \in Seq(S) /\ Len(p) = Len(q) + 1 /\ p[Len(q) + 1] = c
      /\ \A k \in 1..Len(q) : p[k] = q[k]
      BY <1>1, <1>2, AppendProperties
<1> HIDE DEF p
<1>5. ASSUME NEW k \in 1..(Len(p) - 1) PROVE p[k + 1] \in Children(g, p[k])
  <2>1. k \in 1..Len(q) /\ Len(p) - 1 = Len(q)
        BY <1>1, <1>4
  <2>2. p[k] = q[k]
        BY <2>1, <1>4
  <2>3. CASE k = Len(q)
        BY <2>2, <2>3, <1>3, <1>4
  <2>4. CASE k # Len(q)
    <3>1. k \in 1..(Len(q) - 1) /\ k + 1 \in 1..Len(q)
          BY <2>1, <2>4, <1>1
    <3>2. p[k + 1] = q[k + 1]
          BY <3>1, <1>4
    <3>3. QED
          BY <3>1, <3>2, <2>2, <1>1
  <2>5. QED
        BY <2>3, <2>4
<1>6. Len(p) >= 1 /\ p[1] = root
      BY <1>1, <1>4
<1>7. Last(p) = c
      BY <1>4 DEF Last
<1>8. QED
      BY <1>4, <1>5, <1>6, <1>7 DEF IsPath, p, S

\* The start of a path is a path.
LEMMA PathPrefix ==
  ASSUME NEW g, NEW root, NEW p, IsPath(g, root, p), NEW n \in 1..Len(p)
  PROVE  LET q == SubSeq(p, 1, n)
         IN /\ IsPath(g, root, q) /\ Len(q) = n /\ Last(q) = p[n]
            /\ \A k \in 1..n : q[k] = p[k]
<1> DEFINE S == NodeNumbers(g)
           q == SubSeq(p, 1, n)
<1>1. /\ p \in Seq(S) /\ p[1] = root /\ Len(p) \in Nat \ {0}
      /\ \A k \in 1..Len(p) : p[k] \in S
      /\ \A k \in 1..(Len(p) - 1) : p[k + 1] \in Children(g, p[k])
      BY PathIs DEF IsPath
<1>2. n \in Nat /\ 1 <= n /\ n <= Len(p)
      BY <1>1
<1> HIDE DEF S
<1>3. q \in Seq(S) /\ Len(q) = n /\ \A k \in 1..n : q[k] = p[k]
  <2>1. \A k \in 1..n : p[k] \in S
        BY <1>1, <1>2
  <2>2. /\ q \in Seq(S) /\ Len(q) = (IF 1 <= n THEN n - 1 + 1 ELSE 0)
        /\ \A i \in 1..(n - 1 + 1) : q[i] = p[1 + i - 1]
        BY <1>2, <2>1, SubSeqProperties
  <2>3. Len(q) = n /\ n - 1 + 1 = n
        BY <1>2, <2>2
  <2>4. \A k \in 1..n : 1 + k - 1 = k
        BY <1>2
  <2>5. QED
        BY <2>2, <2>3, <2>4
<1> HIDE DEF q
<1>4. ASSUME NEW k \in 1..(Len(q) - 1) PROVE q[k + 1] \in Children(g, q[k])
  <2>1. k \in 1..n /\ k + 1 \in 1..n /\ k \in 1..(Len(p) - 1)
        BY <1>2, <1>3
  <2>2. q[k] = p[k] /\ q[k + 1] = p[k + 1]
        BY <2>1, <1>3
  <2>3. QED
        BY <2>1, <2>2, <1>1
<1>5. Len(q) >= 1 /\ q[1] = root /\ Last(q) = p[n]
      BY <1>1, <1>2, <1>3 DEF Last
<1>6. QED
      BY <1>3, <1>4, <1>5 DEF IsPath, q, S

\* The paths of length k.
PathsOfLength(g, root, k) ==
  {p \in Seq(NodeNumbers(g)) : IsPath(g, root, p) /\ Len(p) = k}

\* The path of one node.
LEMMA PathsOfLengthOne ==
  ASSUME NEW g, NEW root \in NodeNumbers(g)
  PROVE  PathsOfLength(g, root, 1) = {<<root>>}
<1>1. /\ <<root>> \in Seq(NodeNumbers(g)) /\ Len(<<root>>) = 1
      /\ <<root>>[1] = root
      OBVIOUS
<1>2. 1..(1 - 1) = {}
      OBVIOUS
<1>3. IsPath(g, root, <<root>>)
      BY <1>1, <1>2 DEF IsPath
<1>4. ASSUME NEW p \in PathsOfLength(g, root, 1) PROVE p = <<root>>
  <2> DEFINE S == NodeNumbers(g)
  <2>1. p \in Seq(S) /\ Len(p) = 1 /\ p[1] = root
        BY DEF PathsOfLength, IsPath
  <2> DEFINE s == <<root>>
  <2>2. s \in Seq(S) /\ Len(s) = 1 /\ s[1] = root
        BY <1>1
  <2> HIDE DEF s, S
  <2>3. \A i \in 1..Len(p) : p[i] = s[i]
        BY <2>1, <2>2
  <2>4. p = s
        BY <2>1, <2>2, <2>3, SeqEqual
  <2>5. QED
        BY <2>4 DEF s
<1>5. <<root>> \in PathsOfLength(g, root, 1)
      BY <1>1, <1>3 DEF PathsOfLength
<1>6. QED
      BY <1>4, <1>5

\* Those of one more node, as Paths defines them.
LEMMA PathsOfLengthNext ==
  ASSUME NEW g, WellFormed(g), NEW root, NEW k \in Nat \ {0}
  PROVE  PathsOfLength(g, root, k + 1) =
           UNION {{Append(p, c) : c \in Children(g, Last(p))} :
                    p \in PathsOfLength(g, root, k)}
<1> DEFINE next(p) == {Append(p, c) : c \in Children(g, Last(p))}
<1>1. ASSUME NEW p \in PathsOfLength(g, root, k + 1)
      PROVE  \E q \in PathsOfLength(g, root, k) : p \in next(q)
  <2> DEFINE q == SubSeq(p, 1, k)
             c == p[k + 1]
  <2>1. p \in Seq(NodeNumbers(g)) /\ IsPath(g, root, p) /\ Len(p) = k + 1
        BY DEF PathsOfLength
  <2>2. k \in 1..Len(p) /\ k \in 1..(Len(p) - 1)
        BY <2>1
  <2>3. /\ IsPath(g, root, q) /\ Len(q) = k /\ Last(q) = p[k]
        /\ \A i \in 1..k : q[i] = p[i]
        BY <2>1, <2>2, PathPrefix
  <2>4. c \in Children(g, Last(q))
        BY <2>1, <2>2, <2>3 DEF IsPath
  <2> HIDE DEF q, c
  <2>5. /\ IsPath(g, root, Append(q, c)) /\ Len(Append(q, c)) = k + 1
        /\ Append(q, c)[k + 1] = c
        /\ \A i \in 1..k : Append(q, c)[i] = q[i]
        BY <2>3, <2>4, PathAppend
  <2> DEFINE S == NodeNumbers(g)
             t == Append(q, c)
  <2>6. t \in Seq(S)
        BY <2>5 DEF IsPath
  <2>7. \A i \in 1..Len(p) : p[i] = t[i]
    <3>1. TAKE i \in 1..Len(p)
    <3>2. CASE i = k + 1
          BY <3>2, <2>5 DEF c
    <3>3. CASE i # k + 1
      <4>1. i \in 1..k
            BY <3>3, <2>1
      <4>2. QED
            BY <4>1, <2>3, <2>5
    <3>4. QED
          BY <3>2, <3>3
  <2> HIDE DEF t, S
  <2>8. p = t
        BY <2>1, <2>5, <2>6, <2>7, SeqEqual DEF t, S
  <2>9. q \in PathsOfLength(g, root, k)
        BY <2>3 DEF PathsOfLength, IsPath
  <2>10. QED
         BY <2>4, <2>8, <2>9 DEF t
<1>2. ASSUME NEW q \in PathsOfLength(g, root, k), NEW c \in Children(g, Last(q))
      PROVE  Append(q, c) \in PathsOfLength(g, root, k + 1)
  <2>1. IsPath(g, root, q) /\ Len(q) = k
        BY DEF PathsOfLength
  <2>2. IsPath(g, root, Append(q, c)) /\ Len(Append(q, c)) = k + 1
        BY <2>1, PathAppend
  <2>3. QED
        BY <2>2 DEF PathsOfLength, IsPath
<1> DEFINE B == UNION {next(q) : q \in PathsOfLength(g, root, k)}
<1>3. \A p : p \in B <=> \E q \in PathsOfLength(g, root, k) : p \in next(q)
      BY Zenon
<1>4. \A q \in PathsOfLength(g, root, k) :
        next(q) \subseteq PathsOfLength(g, root, k + 1)
      BY <1>2
<1>5. PathsOfLength(g, root, k + 1) = B
  <2> HIDE DEF B, next
  <2>1. QED
        BY <1>1, <1>3, <1>4
<1>6. QED
      BY <1>5

\* Paths are the paths no longer than there are nodes.
LEMMA PathsAre ==
  ASSUME NEW g, WellFormed(g), NEW root \in NodeNumbers(g)
  PROVE  Paths(g, root) = {p \in Seq(NodeNumbers(g)) :
                             IsPath(g, root, p) /\ Len(p) <= Len(g.nodes)}
<1> DEFINE N == Len(g.nodes)
           Body(f) == [k \in 1..N |->
                         IF k = 1 THEN {<<root>>}
                         ELSE UNION {{Append(p, c) : c \in Children(g, Last(p))} :
                                       p \in f[k - 1]}]
           h == [k \in 1..N |-> PathsOfLength(g, root, k)]
           f == CHOOSE f : f = Body(f)
<1>1. N \in Nat
      BY NodesAre
<1>2. ASSUME NEW k \in 1..N
      PROVE  PathsOfLength(g, root, k) =
               IF k = 1 THEN {<<root>>}
               ELSE UNION {{Append(p, c) : c \in Children(g, Last(p))} :
                             p \in PathsOfLength(g, root, k - 1)}
  <2>1. CASE k = 1
        BY <2>1, PathsOfLengthOne
  <2>2. CASE k # 1
    <3>1. k - 1 \in Nat \ {0} /\ (k - 1) + 1 = k
          BY <2>2, <1>1
    <3> DEFINE j == k - 1
    <3>2. j \in Nat \ {0} /\ j + 1 = k
          BY <3>1
    <3> HIDE DEF j
    <3>3. PathsOfLength(g, root, j + 1) =
            UNION {{Append(p, c) : c \in Children(g, Last(p))} :
                     p \in PathsOfLength(g, root, j)}
          BY <3>2, PathsOfLengthNext
    <3>4. PathsOfLength(g, root, k) =
            UNION {{Append(p, c) : c \in Children(g, Last(p))} :
                     p \in PathsOfLength(g, root, j)}
          BY <3>2, <3>3
    <3>5. QED
          BY <2>2, <3>4 DEF j
  <2>3. QED
        BY <2>1, <2>2
<1>3. h = Body(h)
  <2>1. ASSUME NEW k \in 1..N
        PROVE  h[k] = IF k = 1 THEN {<<root>>}
                      ELSE UNION {{Append(p, c) : c \in Children(g, Last(p))} :
                                    p \in h[k - 1]}
    <3>1. h[k] = PathsOfLength(g, root, k)
          OBVIOUS
    <3>2. k # 1 => h[k - 1] = PathsOfLength(g, root, k - 1)
          BY <1>1
    <3> HIDE DEF h
    <3>3. CASE k = 1
          BY <3>1, <3>3, <1>2
    <3>4. CASE k # 1
      <4>1. h[k] = UNION {{Append(p, c) : c \in Children(g, Last(p))} :
                            p \in PathsOfLength(g, root, k - 1)}
            BY <3>1, <3>4, <1>2
      <4>2. QED
            BY <3>2, <3>4, <4>1
    <3>5. QED
          BY <3>3, <3>4
  <2>2. h = [k \in 1..N |-> h[k]]
        OBVIOUS
  <2> HIDE DEF h
  <2>3. Body(h) = [k \in 1..N |-> h[k]]
        BY <2>1, Zenon
  <2> HIDE DEF Body
  <2>4. QED
        BY <2>2, <2>3
<1>4. f = Body(f)
  <2> HIDE DEF Body, h
  <2>1. QED
        BY <1>3, Zenon
<1>5. Paths(g, root) = UNION {f[k] : k \in 1..N}
      BY Zenon DEF Paths
<1> HIDE DEF f
<1>6. ASSUME NEW k \in 1..N
      PROVE  f[k] = IF k = 1 THEN {<<root>>}
                    ELSE UNION {{Append(p, c) : c \in Children(g, Last(p))} :
                                  p \in f[k - 1]}
      BY <1>4
<1> HIDE DEF Body, h, N
<1> DEFINE T == {k \in 1..N : f[k] = PathsOfLength(g, root, k)}
<1>7. N >= 1 => 1 \in T
  <2>1. SUFFICES ASSUME N >= 1 PROVE f[1] = PathsOfLength(g, root, 1)
        BY <1>1
  <2>2. 1 \in 1..N
        BY <2>1, <1>1
  <2>3. QED
        BY <2>2, <1>2, <1>6
<1>8. ASSUME NEW k \in 1..(N - 1), k \in T PROVE k + 1 \in T
  <2>1. k + 1 \in 1..N /\ k + 1 # 1 /\ (k + 1) - 1 = k
        BY <1>1
  <2>2. f[k] = PathsOfLength(g, root, k)
        BY <1>8
  <2>3. f[k + 1] = UNION {{Append(p, c) : c \in Children(g, Last(p))} : p \in f[k]}
        BY <2>1, <1>6
  <2>4. PathsOfLength(g, root, k + 1) =
          UNION {{Append(p, c) : c \in Children(g, Last(p))} :
                   p \in PathsOfLength(g, root, k)}
        BY <2>1, <1>2
  <2>5. QED
        BY <2>1, <2>2, <2>3, <2>4
<1>9. \A k \in 1..N : f[k] = PathsOfLength(g, root, k)
  <2>1. 1 \in Int /\ N \in Int /\ \A k \in 1..(N - 1) : k \in T => k + 1 \in T
        BY <1>1, <1>8
  <2> HIDE DEF T
  <2>2. CASE N >= 1
    <3>1. 1..N \subseteq T
          BY <2>1, <2>2, <1>7, InductionUpTo, Zenon
    <3>2. QED
          BY <3>1 DEF T
  <2>3. CASE ~(N >= 1)
        BY <2>3, <1>1
  <2>4. QED
        BY <2>2, <2>3
<1>10. ASSUME NEW p
       PROVE  p \in Paths(g, root) <=>
                p \in Seq(NodeNumbers(g)) /\ IsPath(g, root, p) /\ Len(p) <= N
  <2>1. p \in Paths(g, root) <=> \E k \in 1..N : p \in f[k]
        BY <1>5, Zenon
  <2>2. p \in Paths(g, root) <=> \E k \in 1..N : p \in PathsOfLength(g, root, k)
        BY <2>1, <1>9
  <2>3. (\E k \in 1..N : p \in PathsOfLength(g, root, k)) <=>
          \E k \in 1..N : IsPath(g, root, p) /\ Len(p) = k
        BY DEF PathsOfLength, IsPath
  <2>4. IsPath(g, root, p) => p \in Seq(NodeNumbers(g)) /\ Len(p) \in Nat \ {0}
        BY PathIs DEF IsPath
  <2>5. QED
        BY <1>1, <2>2, <2>3, <2>4
<1>11. QED
       BY <1>10 DEF N

\* A path meets no node twice, so it is no longer than there are nodes.
LEMMA PathSimple ==
  ASSUME NEW g, WellFormed(g), NEW root \in NodeNumbers(g),
         NEW p, IsPath(g, root, p), Len(p) <= Len(g.nodes) + 1,
         NEW i \in 1..Len(p), NEW j \in 1..Len(p), i < j
  PROVE  p[i] # p[j]
<1> DEFINE n == j - 1
           q == SubSeq(p, 1, n)
<1>1. Len(p) \in Nat /\ Len(g.nodes) \in Nat
      BY PathIs, NodesAre
<1>2. /\ n \in 1..Len(p) /\ i \in 1..n /\ n <= Len(g.nodes)
      /\ n \in 1..(Len(p) - 1) /\ n + 1 = j
      BY <1>1
<1> HIDE DEF n
<1>3. /\ IsPath(g, root, q) /\ Len(q) = n /\ Last(q) = p[n]
      /\ \A k \in 1..n : q[k] = p[k]
      BY <1>2, PathPrefix
<1> HIDE DEF q
<1>4. q \in Paths(g, root)
      BY <1>2, <1>3, PathsAre DEF IsPath
<1>5. Children(g, Last(q)) \cap ToSet(q) = {}
      BY <1>4, NodesAre
<1>6. p[j] \in Children(g, Last(q))
      BY <1>2, <1>3 DEF IsPath
<1>7. p[i] \in ToSet(q)
  <2>1. i \in DOMAIN q /\ q[i] = p[i]
        BY <1>2, <1>3, PathIs
  <2>2. QED
        BY <2>1 DEF ToSet
<1>8. QED
      BY <1>5, <1>6, <1>7

\* By the pigeonhole principle every path is that short.
LEMMA PathShort ==
  ASSUME NEW g, WellFormed(g), NEW root \in NodeNumbers(g),
         NEW p, IsPath(g, root, p)
  PROVE  Len(p) <= Len(g.nodes)
<1> DEFINE N == Len(g.nodes)
<1>1. N \in Nat /\ Len(p) \in Nat
      BY PathIs, NodesAre
<1>2. SUFFICES ASSUME Len(p) > N PROVE FALSE
      BY <1>1
<1> DEFINE n == N + 1
           q == SubSeq(p, 1, n)
<1>3. n \in 1..Len(p) /\ n \in Nat /\ n = N + 1
      BY <1>1, <1>2
<1> HIDE DEF n
<1>4. IsPath(g, root, q) /\ Len(q) = n
      BY <1>3, PathPrefix
<1> HIDE DEF q
<1>5. q \in [1..n -> NodeNumbers(g)]
      BY <1>4, LenProperties DEF IsPath
<1>6. /\ IsFiniteSet(1..n) /\ Cardinality(1..n) = n
      /\ IsFiniteSet(NodeNumbers(g)) /\ Cardinality(NodeNumbers(g)) = N
  <2>0. \A a, b \in Int : /\ IsFiniteSet(a..b)
                          /\ Cardinality(a..b) = IF a > b THEN 0 ELSE b - a + 1
        BY FS_Interval
  <2>1. IsFiniteSet(1..n) /\ Cardinality(1..n) = IF 1 > n THEN 0 ELSE n - 1 + 1
    <3>1. 1 \in Int /\ n \in Int
          BY <1>3
    <3>2. QED
          BY <2>0, <3>1
  <2>2. /\ IsFiniteSet(0..(N - 1))
        /\ Cardinality(0..(N - 1)) = IF 0 > N - 1 THEN 0 ELSE (N - 1) - 0 + 1
    <3>1. 0 \in Int /\ N - 1 \in Int
          BY <1>1
    <3>2. QED
          BY <2>0, <3>1
  <2>3. QED
        BY <1>1, <1>3, <2>1, <2>2 DEF NodeNumbers
<1>7. PICK i \in 1..n, j \in 1..n : i # j /\ q[i] = q[j]
  <2>1. Cardinality(NodeNumbers(g)) < Cardinality(1..n)
        BY <1>1, <1>3, <1>6
  <2>2. QED
        BY <1>5, <1>6, <2>1, FS_PigeonHole
<1>8. i < j \/ j < i
      BY <1>3, <1>7
<1>9. Len(q) <= Len(g.nodes) + 1
      BY <1>1, <1>3, <1>4
<1>10. \A a, b \in 1..n : a < b => q[a] # q[b]
       BY <1>4, <1>9, PathSimple
<1>11. QED
       BY <1>7, <1>8, <1>10

\* The paths from root that begin with p.
From(g, root, p) ==
  {q \in Paths(g, root) : Len(q) >= Len(p) /\ \A k \in 1..Len(p) : q[k] = p[k]}

\* The drawables on them.
Below(g, root, p) == UNION {Own(g, q) : q \in From(g, root, p)}

\* Membership of From.
LEMMA FromIs ==
  ASSUME NEW g, WellFormed(g), NEW root \in NodeNumbers(g), NEW p, NEW q
  PROVE  q \in From(g, root, p) <=>
           /\ IsPath(g, root, q) /\ Len(q) >= Len(p)
           /\ \A k \in 1..Len(p) : q[k] = p[k]
<1>1. q \in Paths(g, root) <=> IsPath(g, root, q)
      BY PathsAre, PathShort DEF IsPath
<1>2. QED
      BY <1>1 DEF From

\* A path from p is p or goes on to one of its children.
LEMMA FromSplits ==
  ASSUME NEW g, WellFormed(g), NEW root \in NodeNumbers(g),
         NEW p, IsPath(g, root, p), NEW q
  PROVE  q \in From(g, root, p) <=>
           q = p \/ \E c \in Children(g, Last(p)) : q \in From(g, root, Append(p, c))
<1> DEFINE n == Len(p)
           S == NodeNumbers(g)
<1>1. n \in Nat \ {0} /\ p \in Seq(S) /\ Last(p) = p[n]
      BY PathIs DEF IsPath
<1>2. ASSUME q \in From(g, root, p), q # p
      PROVE  \E c \in Children(g, Last(p)) : q \in From(g, root, Append(p, c))
  <2>1. /\ IsPath(g, root, q) /\ Len(q) >= n /\ Len(q) \in Nat
        /\ \A k \in 1..n : q[k] = p[k]
        BY <1>2, FromIs, PathIs
  <2>2. Len(q) # n
    <3>1. q \in Seq(S)
          BY <2>1 DEF IsPath
    <3> HIDE DEF S
    <3>2. SUFFICES ASSUME Len(q) = n PROVE FALSE
          OBVIOUS
    <3>3. q = p
          BY <1>1, <2>1, <3>1, <3>2, SeqEqual
    <3>4. QED
          BY <1>2, <3>3
  <2> DEFINE c == q[n + 1]
  <2>3. n \in 1..(Len(q) - 1) /\ n \in 1..n /\ Len(q) >= n + 1
        BY <1>1, <2>1, <2>2
  <2>4. c \in Children(g, Last(p))
        BY <1>1, <2>1, <2>3 DEF IsPath
  <2> HIDE DEF c
  <2>5. /\ Len(Append(p, c)) = n + 1 /\ Append(p, c)[n + 1] = c
        /\ \A k \in 1..n : Append(p, c)[k] = p[k]
        BY <2>4, PathAppend
  <2>6. \A k \in 1..(n + 1) : q[k] = Append(p, c)[k]
    <3>1. TAKE k \in 1..(n + 1)
    <3>2. CASE k = n + 1
          BY <3>2, <2>5 DEF c
    <3>3. CASE k # n + 1
      <4>1. k \in 1..n
            BY <3>3, <1>1
      <4>2. QED
            BY <4>1, <2>1, <2>5
    <3>4. QED
          BY <3>2, <3>3
  <2>7. q \in From(g, root, Append(p, c))
        BY <2>1, <2>3, <2>5, <2>6, FromIs
  <2>8. QED
        BY <2>4, <2>7
<1>3. p \in From(g, root, p)
      BY <1>1, FromIs
<1>4. ASSUME NEW c \in Children(g, Last(p)), q \in From(g, root, Append(p, c))
      PROVE  q \in From(g, root, p)
  <2> DEFINE t == Append(p, c)
  <2>1. /\ Len(t) = n + 1
        /\ \A k \in 1..n : t[k] = p[k]
        BY PathAppend
  <2>2. q \in From(g, root, t)
        BY <1>4
  <2> HIDE DEF t
  <2>3. /\ IsPath(g, root, q) /\ Len(q) >= n + 1 /\ Len(q) \in Nat
        /\ \A k \in 1..(n + 1) : q[k] = t[k]
    <3>1. /\ IsPath(g, root, q) /\ Len(q) >= Len(t)
          /\ \A k \in 1..Len(t) : q[k] = t[k]
          BY <2>2, FromIs
    <3>2. QED
          BY <2>1, <3>1, PathIs
  <2>4. \A k \in 1..n : k \in 1..(n + 1)
        BY <1>1
  <2>5. \A k \in 1..n : q[k] = p[k]
        BY <2>1, <2>3, <2>4
  <2>6. Len(q) >= n
        BY <1>1, <2>3
  <2>7. QED
        BY <2>3, <2>5, <2>6, FromIs
<1>5. QED
      BY <1>2, <1>3, <1>4

\* A drawable's path.
LEMMA OwnIs ==
  ASSUME NEW g, NEW path, NEW d \in Own(g, path)
  PROVE  d[1] = path
BY DEF Own

\* Membership of Below.
LEMMA BelowIs ==
  ASSUME NEW g, WellFormed(g), NEW root \in NodeNumbers(g), NEW p, NEW d
  PROVE  d \in Below(g, root, p) <=> d \in Own(g, d[1]) /\ d[1] \in From(g, root, p)
<1>1. d \in Below(g, root, p) <=> \E q \in From(g, root, p) : d \in Own(g, q)
      BY Zenon DEF Below
<1>2. QED
      BY <1>1, OwnIs

\* Below p are its own drawables and, apart from them and from each other, those
\* below its children.
LEMMA BelowSplits ==
  ASSUME NEW g, WellFormed(g), NEW root \in NodeNumbers(g),
         NEW p, IsPath(g, root, p)
  PROVE  LET below(c) == Below(g, root, Append(p, c))
         IN /\ Below(g, root, p) =
                 (UNION {below(c) : c \in Children(g, Last(p))}) \cup Own(g, p)
            /\ \A c \in Children(g, Last(p)) : below(c) \cap Own(g, p) = {}
            /\ \A c, e \in Children(g, Last(p)) :
                 c # e => below(c) \cap below(e) = {}
<1> DEFINE below(c) == Below(g, root, Append(p, c))
           C == Children(g, Last(p))
           n == Len(p)
           U == UNION {below(c) : c \in C}
<1>1. ASSUME NEW d
      PROVE  d \in Below(g, root, p) <=> d \in U \/ d \in Own(g, p)
  <2>1. d \in U <=> \E c \in C : d \in below(c)
        BY Zenon
  <2>2. d \in U <=>
          d \in Own(g, d[1]) /\ \E c \in C : d[1] \in From(g, root, Append(p, c))
        BY <2>1, BelowIs
  <2>3. d \in Own(g, p) <=> d \in Own(g, d[1]) /\ d[1] = p
        BY OwnIs
  <2>4. d[1] \in From(g, root, p) <=>
          d[1] = p \/ \E c \in C : d[1] \in From(g, root, Append(p, c))
        BY FromSplits
  <2>5. d \in Below(g, root, p) <=> d \in Own(g, d[1]) /\ d[1] \in From(g, root, p)
        BY BelowIs
  <2> HIDE DEF U
  <2>6. QED
        BY <2>2, <2>3, <2>4, <2>5
<1>2. n \in Nat
      BY PathIs
<1>3. ASSUME NEW c \in C
      PROVE  Len(Append(p, c)) = n + 1 /\ Append(p, c)[n + 1] = c
      BY PathAppend
<1>4. ASSUME NEW c \in C, NEW d \in below(c)
      PROVE  Len(d[1]) >= n + 1 /\ d[1][n + 1] = c
  <2> DEFINE t == Append(p, c)
             q == d[1]
  <2>0. Len(t) = n + 1 /\ t[n + 1] = c
        BY <1>3
  <2>1. q \in From(g, root, t)
        BY BelowIs
  <2> HIDE DEF t, q
  <2>2. /\ Len(q) >= Len(t)
        /\ \A k \in 1..Len(t) : q[k] = t[k]
        BY <2>1, FromIs
  <2>3. n + 1 \in 1..(n + 1)
        BY <1>2
  <2>4. Len(q) >= n + 1 /\ q[n + 1] = c
        BY <2>0, <2>2, <2>3
  <2>5. QED
        BY <2>4 DEF q
<1>5. ASSUME NEW c \in C, NEW d \in below(c) PROVE d \notin Own(g, p)
  <2>1. ~(n >= n + 1)
        BY <1>2
  <2>2. QED
        BY <1>4, <2>1, OwnIs
<1>6. ASSUME NEW c \in C, NEW e \in C, c # e PROVE below(c) \cap below(e) = {}
      BY <1>4, <1>6
<1>7. Below(g, root, p) = U \cup Own(g, p)
  <2> HIDE DEF U
  <2>1. QED
        BY <1>1
<1>8. \A c \in C : below(c) \cap Own(g, p) = {}
      BY <1>5
<1>9. QED
      BY <1>6, <1>7, <1>8

\* All drawables are below the path of the root alone.
LEMMA DrawablesAre ==
  ASSUME NEW g, WellFormed(g), NEW root \in NodeNumbers(g)
  PROVE  /\ IsPath(g, root, <<root>>)
         /\ Drawables(g, root) = Below(g, root, <<root>>)
<1>1. <<root>> \in PathsOfLength(g, root, 1)
      BY PathsOfLengthOne
<1>2. IsPath(g, root, <<root>>)
      BY <1>1 DEF PathsOfLength
<1>3. From(g, root, <<root>>) = Paths(g, root)
  <2>1. ASSUME NEW q \in Paths(g, root) PROVE q \in From(g, root, <<root>>)
    <3>1. IsPath(g, root, q)
          BY PathsAre
    <3>2. Len(q) >= 1 /\ q[1] = root
          BY <3>1 DEF IsPath
    <3>3. Len(<<root>>) = 1 /\ <<root>>[1] = root
          OBVIOUS
    <3>4. \A k \in 1..1 : k = 1
          OBVIOUS
    <3>5. QED
          BY <3>1, <3>2, <3>3, <3>4, FromIs
  <2>2. QED
        BY <2>1 DEF From
<1>4. Drawables(g, root) = UNION {Own(g, q) : q \in Paths(g, root)}
      BY Zenon DEF Drawables, Own
<1>5. QED
      BY <1>2, <1>3, <1>4 DEF Below

-----------------------------------------------------------------------------
(* Matrices.                                                                *)

\* A matrix as the importer has it when it comes to the node at the end of path.
Agrees(g, matrix, path) ==
  /\ matrix \in Seq(Factors)
  /\ matrix = Transform(g, path) \/ Collapsed(g, path)

\* The factors of a node's transforms.
Given == Nat \X {"matrix", "translation", "rotation", "scale"}
Vanishes(f) == f[2] \in {"translation", "scale"}

\* Concatenation stays within Seq.
LEMMA ConcatTyped ==
  ASSUME NEW D, NEW v \in Seq(D), NEW w \in Seq(D)
  PROVE  v \o w \in Seq(D)
OBVIOUS

\* Sequences of one element and of none.
LEMMA OneTyped ==
  ASSUME NEW D, NEW x \in D
  PROVE  <<x>> \in Seq(D) /\ <<>> \in Seq(D)
OBVIOUS

\* The elements of a concatenation.
LEMMA ConcatElements ==
  ASSUME NEW D, NEW v \in Seq(D), NEW w \in Seq(D)
  PROVE  ToSet(v \o w) = ToSet(v) \cup ToSet(w)
<1>1. /\ Len(v) \in Nat /\ DOMAIN v = 1..Len(v)
      /\ Len(w) \in Nat /\ DOMAIN w = 1..Len(w)
      BY LenProperties
<1>2. /\ v \o w \in Seq(D) /\ Len(v \o w) = Len(v) + Len(w)
      /\ DOMAIN (v \o w) = 1..(Len(v) + Len(w))
      /\ \A i \in 1..Len(v) : (v \o w)[i] = v[i]
      /\ \A i \in 1..Len(w) : (v \o w)[Len(v) + i] = w[i]
      BY SeqIsVector, VectorConcat, VectorElements
<1> DEFINE u == v \o w
<1> HIDE DEF u
<1>3. ASSUME NEW x \in ToSet(u) PROVE x \in ToSet(v) \cup ToSet(w)
  <2>1. PICK i \in 1..(Len(v) + Len(w)) : x = u[i]
        BY <1>2, <1>3 DEF ToSet, u
  <2>2. CASE i \in 1..Len(v)
        BY <1>1, <1>2, <2>1, <2>2 DEF ToSet, u
  <2>3. CASE i \notin 1..Len(v)
    <3>1. PICK j \in 1..Len(w) : i = Len(v) + j
      <4>1. i - Len(v) \in 1..Len(w) /\ i = Len(v) + (i - Len(v))
            BY <1>1, <2>1, <2>3
      <4>2. QED
            BY <4>1
    <3>2. x = w[j]
          BY <1>2, <2>1, <3>1 DEF u
    <3>3. QED
          BY <1>1, <3>2 DEF ToSet
  <2>4. QED
        BY <2>2, <2>3
<1>4. ASSUME NEW i \in 1..Len(v) PROVE v[i] \in ToSet(u)
  <2>1. i \in 1..(Len(v) + Len(w)) /\ u[i] = v[i]
        BY <1>1, <1>2 DEF u
  <2>2. QED
        BY <1>2, <2>1 DEF ToSet, u
<1>5. ASSUME NEW i \in 1..Len(w) PROVE w[i] \in ToSet(u)
  <2>1. Len(v) + i \in 1..(Len(v) + Len(w)) /\ u[Len(v) + i] = w[i]
        BY <1>1, <1>2 DEF u
  <2>2. QED
        BY <1>2, <2>1 DEF ToSet, u
<1>6. ToSet(v) \cup ToSet(w) \subseteq ToSet(u)
      BY <1>1, <1>4, <1>5 DEF ToSet
<1>7. QED
      BY <1>3, <1>6 DEF u

\* The importer's factors for a node are its transforms, or one of these is lost.
LEMMA LocalIs ==
  ASSUME NEW g, NEW n \in Nat
  PROVE  LET m == LocalMatrix(n, g.nodes[n + 1])
         IN /\ Local(g, n) \in Seq(Given)
            /\ m \in Seq(Factors)
            /\ m = Local(g, n) \/ \E f \in ToSet(Local(g, n)) : Vanishes(f)
<1> DEFINE given == g.nodes[n + 1].local
           one(t) == IF t \in given THEN <<<<n, t>>>> ELSE <<>>
           z(t) == IF t \in given THEN <<<<n, "zero">>>> ELSE <<>>
           G == Given
           F == Factors
           tr == one("translation")
           ro == one("rotation")
           sc == one("scale")
           zt == z("translation")
           zs == z("scale")
           l == Local(g, n)
           m == LocalMatrix(n, g.nodes[n + 1])
<1>1. /\ <<n, "matrix">> \in G /\ <<n, "translation">> \in G
      /\ <<n, "rotation">> \in G /\ <<n, "scale">> \in G
      BY DEF Given
<1>2. <<n, "matrix">> \in F /\ <<n, "zero">> \in F /\ <<n, "rotation">> \in F
      BY DEF Factors
<1> HIDE DEF G, F
<1>3. /\ tr \in Seq(G) /\ ro \in Seq(G) /\ sc \in Seq(G) /\ one("matrix") \in Seq(G)
      BY <1>1, OneTyped
<1>4. zt \in Seq(F) /\ ro \in Seq(F) /\ zs \in Seq(F) /\ one("matrix") \in Seq(F)
      BY <1>2, OneTyped
<1>5. /\ "matrix" \in given => l = one("matrix") /\ m = one("matrix")
      /\ "matrix" \notin given => l = tr \o ro \o sc /\ m = zt \o ro \o zs
      BY Zenon DEF Local, LocalMatrix
<1>6. CASE "matrix" \in given
      BY <1>3, <1>4, <1>5, <1>6 DEF G, F
<1>7. CASE "matrix" \notin given
  <2>0. /\ "translation" \notin given => tr = <<>> /\ zt = <<>>
        /\ "scale" \notin given => sc = <<>> /\ zs = <<>>
        /\ "translation" \in given => tr = <<<<n, "translation">>>>
        /\ "scale" \in given => sc = <<<<n, "scale">>>>
        OBVIOUS
  <2> HIDE DEF tr, ro, sc, zt, zs, l, m
  <2>1. tr \o ro \in Seq(G) /\ tr \o ro \o sc \in Seq(G)
        BY <1>3, ConcatTyped
  <2>2. zt \o ro \in Seq(F) /\ zt \o ro \o zs \in Seq(F)
        BY <1>4, ConcatTyped
  <2>3. ToSet(l) = (ToSet(tr) \cup ToSet(ro)) \cup ToSet(sc)
    <3> DEFINE u == tr \o ro
    <3>1. u \in Seq(G) /\ ToSet(u) = ToSet(tr) \cup ToSet(ro)
          BY <1>3, <2>1, ConcatElements
    <3> HIDE DEF u
    <3>2. ToSet(u \o sc) = ToSet(u) \cup ToSet(sc)
          BY <1>3, <3>1, ConcatElements
    <3>3. QED
          BY <1>5, <1>7, <3>1, <3>2 DEF u
  <2>4. CASE "translation" \in given
    <3>1. <<n, "translation">> \in ToSet(tr)
          BY <2>0, <2>4 DEF ToSet
    <3>2. Vanishes(<<n, "translation">>)
          BY DEF Vanishes
    <3>3. QED
          BY <1>5, <1>7, <2>1, <2>2, <2>3, <3>1, <3>2 DEF G, F, l, m
  <2>5. CASE "scale" \in given
    <3>1. <<n, "scale">> \in ToSet(sc)
          BY <2>0, <2>5 DEF ToSet
    <3>2. Vanishes(<<n, "scale">>)
          BY DEF Vanishes
    <3>3. QED
          BY <1>5, <1>7, <2>1, <2>2, <2>3, <3>1, <3>2 DEF G, F, l, m
  <2>6. CASE "translation" \notin given /\ "scale" \notin given
        BY <1>5, <1>7, <2>0, <2>1, <2>2, <2>6 DEF G, F, l, m
  <2>7. QED
        BY <2>4, <2>5, <2>6
<1>8. QED
      BY <1>6, <1>7

\* A path's transform is that of its start times its last node's.
LEMMA TransformAppend ==
  ASSUME NEW g, NEW q \in Seq(Nat), NEW n \in Nat
  PROVE  /\ Transform(g, q) \in Seq(Given)
         /\ Transform(g, Append(q, n)) = Transform(g, q) \o Local(g, n)
<1> DEFINE D == Given
           x == Local(g, n)
           ss == [i \in 1..Len(q) |-> Local(g, q[i])]
           r == Append(q, n)
           tt == [i \in 1..Len(r) |-> Local(g, r[i])]
<1>1. /\ Len(q) \in Nat /\ DOMAIN q = 1..Len(q) /\ \A i \in 1..Len(q) : q[i] \in Nat
      BY LenProperties, ElementOfSeq
<1>2. /\ Len(r) = Len(q) + 1 /\ DOMAIN r = 1..(Len(q) + 1)
      /\ r[Len(q) + 1] = n /\ \A i \in 1..Len(q) : r[i] = q[i]
      BY <1>1, AppendProperties
<1>3. x \in Seq(D) /\ \A i \in 1..Len(q) : Local(g, q[i]) \in Seq(D)
      BY <1>1, LocalIs
<1> HIDE DEF x, D
<1>4. ss \in Seq(Seq(D)) /\ Len(ss) = Len(q)
  <2>1. ss \in [1..Len(q) -> Seq(D)]
        BY <1>3
  <2>2. QED
        BY <1>1, <2>1, SeqDef, LenProperties
<1>5. Transform(g, q) = FlattenSeq(ss) /\ Transform(g, r) = FlattenSeq(tt)
      BY <1>1, <1>2 DEF Transform
<1>6. tt = Append(ss, x)
  <2>1. /\ Len(Append(ss, x)) = Len(q) + 1 /\ Append(ss, x) \in Seq(Seq(D))
        /\ DOMAIN Append(ss, x) = 1..(Len(q) + 1)
        /\ Append(ss, x)[Len(q) + 1] = x
        /\ \A i \in 1..Len(q) : Append(ss, x)[i] = ss[i]
        BY <1>3, <1>4, AppendProperties
  <2>2. tt = [i \in 1..(Len(q) + 1) |-> Local(g, r[i])]
        BY <1>2
  <2>3. Append(ss, x) = [i \in 1..(Len(q) + 1) |-> Append(ss, x)[i]]
        BY <2>1
  <2>4. ASSUME NEW i \in 1..(Len(q) + 1) PROVE Append(ss, x)[i] = Local(g, r[i])
    <3>1. CASE i \in 1..Len(q)
          BY <3>1, <2>1, <1>2
    <3>2. CASE i = Len(q) + 1
          BY <3>2, <2>1, <1>2 DEF x
    <3>3. QED
          BY <3>1, <3>2, <1>1
  <2> HIDE DEF tt, ss, r
  <2>5. QED
        BY <2>2, <2>3, <2>4
<1> HIDE DEF tt, ss, r
<1>7. FlattenSeq(Append(ss, x)) = FlattenSeq(ss) \o x
      BY <1>3, <1>4, FlattenAppend
<1>8. FlattenSeq(ss) \in Seq(D)
  <2>1. PICK f : /\ f \in [0..Len(ss) -> Seq(D)]
                 /\ FlattenSeq(ss) = f[Len(ss)]
        BY <1>4, Flattening
  <2>2. Len(ss) \in 0..Len(ss)
        BY <1>1, <1>4
  <2>3. QED
        BY <2>1, <2>2
<1>9. QED
      BY <1>5, <1>6, <1>7, <1>8 DEF x, D, r

\* The matrix stays in agreement with the path when a node is entered.
LEMMA MatrixStep ==
  ASSUME NEW g, NEW q \in Seq(Nat), NEW n \in Nat,
         NEW matrix, Agrees(g, matrix, q)
  PROVE  Agrees(g, matrix \o LocalMatrix(n, g.nodes[n + 1]), Append(q, n))
<1> DEFINE l == Local(g, n)
           m == LocalMatrix(n, g.nodes[n + 1])
           t == Transform(g, q)
           u == Transform(g, Append(q, n))
<1>1. /\ l \in Seq(Given) /\ m \in Seq(Factors)
      /\ m = l \/ \E f \in ToSet(l) : Vanishes(f)
      BY LocalIs
<1>2. t \in Seq(Given) /\ u = t \o l
      BY TransformAppend
<1>3. matrix \o m \in Seq(Factors)
  <2>1. matrix \in Seq(Factors)
        BY DEF Agrees
  <2> HIDE DEF m
  <2>2. QED
        BY <1>1, <2>1, ConcatTyped
<1>4. ToSet(u) = ToSet(t) \cup ToSet(l)
  <2> HIDE DEF t, l, u
  <2>1. QED
        BY <1>1, <1>2, ConcatElements
<1>5. Collapsed(g, Append(q, n)) <=> \E f \in ToSet(u) : Vanishes(f)
      BY Zenon DEF Collapsed, Vanishes
<1>6. matrix = t \/ \E f \in ToSet(t) : Vanishes(f)
      BY Zenon DEF Agrees, Collapsed, Vanishes
<1> HIDE DEF t, l, m, u
<1>7. matrix \o m = u \/ \E f \in ToSet(u) : Vanishes(f)
  <2>1. CASE matrix = t /\ m = l
        BY <1>2, <2>1
  <2>2. CASE \E f \in ToSet(t) : Vanishes(f)
        BY <1>4, <2>2
  <2>3. CASE \E f \in ToSet(l) : Vanishes(f)
        BY <1>4, <2>3
  <2>4. QED
        BY <1>1, <1>6, <2>1, <2>2, <2>3
<1>8. QED
      BY <1>3, <1>5, <1>7 DEF Agrees, m, u

\* It does so at the start, with no path.
LEMMA MatrixStart ==
  ASSUME NEW g
  PROVE  Agrees(g, <<>>, <<>>)
<1> DEFINE ss == [i \in DOMAIN <<>> |-> Local(g, <<>>[i])]
<1>1. ss = <<>>
      OBVIOUS
<1>2. FlattenSeq(<<>>) = <<>>
  <2> DEFINE ns == <<>>
             D == Given
  <2>1. ns \in Seq(Seq(D)) /\ Len(ns) = 0
        OBVIOUS
  <2> HIDE DEF ns, D
  <2>2. PICK f : f[0] = <<>> /\ FlattenSeq(ns) = f[Len(ns)]
    <3>1. \E f \in [0..Len(ns) -> Seq(D)] :
            /\ f[0] = <<>>
            /\ \A i \in 0..(Len(ns) - 1) : f[i + 1] = f[i] \o ns[i + 1]
            /\ FlattenSeq(ns) = f[Len(ns)]
          BY <2>1, Flattening
    <3>2. QED
          BY <3>1
  <2>3. FlattenSeq(ns) = <<>>
        BY <2>1, <2>2
  <2>4. QED
        BY <2>3 DEF ns
<1>3. Transform(g, <<>>) = <<>>
      BY <1>1, <1>2, Zenon DEF Transform
<1>4. <<>> \in Seq(Factors)
      OBVIOUS
<1>5. QED
      BY <1>3, <1>4 DEF Agrees

-----------------------------------------------------------------------------
(* ParseNode.                                                               *)

\* Different entries of children are different nodes.
LEMMA ChildrenDiffer ==
  ASSUME NEW g, WellFormed(g), NEW n \in NodeNumbers(g),
         NEW i \in 1..Len(g.nodes[n + 1].children),
         NEW j \in 1..Len(g.nodes[n + 1].children), i # j
  PROVE  g.nodes[n + 1].children[i] # g.nodes[n + 1].children[j]
<1> DEFINE c == g.nodes[n + 1].children
<1>1. IsVector(c) /\ IsInjective(c)
      BY NodesAre
<1>2. DOMAIN c = 1..Len(c)
      BY <1>1, VectorElements
<1>3. QED
      BY <1>1, <1>2 DEF IsInjective

\* The parse of a node that is not there.
LEMMA MissingNode ==
  ASSUME NEW g, NEW disk, WellFormed(g), NEW parse, NEW bytes, NEW matrix,
         NEW n \in Int, n \notin NodeNumbers(g),
         <<n, Len(g.nodes)>> \in References(g)
  PROVE  Refused(g, disk, ParseWith(parse, g, bytes, n, matrix))
<1> DEFINE found == IF ~g.hasNodes THEN Error ELSE Lookup(g.nodes, n)
<1>1. Len(g.nodes) \in Nat /\ IsVector(g.nodes)
      BY NodesAre
<1>2. Refused(g, disk, found) /\ found.status # "ok"
  <2>1. CASE ~g.hasNodes
    <3>1. found = Error
          BY <2>1
    <3>2. MayFail(g, disk)
          BY <2>1 DEF MayFail, Unsupported
    <3>3. QED
          BY <3>1, <3>2 DEF Refused, Error
  <2>2. CASE g.hasNodes
    <3>1. ~IsIndex(n, g.nodes) /\ n \notin 0..(Len(g.nodes) - 1)
          BY DEF NodeNumbers, IsIndex
    <3>2. found = Error \/ (found = Undefined /\ n = Len(g.nodes))
          BY <1>1, <2>2, <3>1, LookupIs
    <3> HIDE DEF found
    <3>3. Refused(g, disk, found) /\ found.status \in {"error", "undefined"}
          BY <1>1, <3>1, <3>2, ReferenceRefused
    <3>4. QED
          BY <3>3
  <2>3. QED
        BY <2>1, <2>2
<1>3. ParseWith(parse, g, bytes, n, matrix) = found
  <2>1. found.status # "ok"
        BY <1>2
  <2>2. QED
        BY <2>1, Zenon DEF ParseWith
<1>4. QED
      BY <1>2, <1>3

\* What the calls for the children return adds up to what is below the node.
LEMMA ParseExplained ==
  ASSUME NEW g, NEW disk, WellFormed(g), SizesAreNatural(disk),
         NEW root \in NodeNumbers(g), NEW p, IsPath(g, root, p),
         NEW n, n = Last(p), NEW parse, NEW matrix,
         Agrees(g, matrix \o LocalMatrix(n, g.nodes[n + 1]), p),
         \A c \in Children(g, n) :
           Explained(g, disk,
                     parse[<<c, matrix \o LocalMatrix(n, g.nodes[n + 1])>>],
                     Below(g, root, Append(p, c))),
         \A c \in ToSet(g.nodes[n + 1].children) \ NodeNumbers(g) :
           Refused(g, disk, parse[<<c, matrix \o LocalMatrix(n, g.nodes[n + 1])>>])
  PROVE  Explained(g, disk, ParseWith(parse, g, BuffersBytes(g, disk), n, matrix),
                   Below(g, root, p))
<1> DEFINE node == g.nodes[n + 1]
           mat == matrix \o LocalMatrix(n, g.nodes[n + 1])
           ch == node.children
           N == Len(ch)
           C == Children(g, n)
           S == NodeNumbers(g)
           results == [i \in DOMAIN ch |-> parse[<<ch[i], mat>>]]
           X == [i \in 1..N |-> IF ch[i] \in S THEN Below(g, root, Append(p, ch[i])) ELSE {}]
           below == Collect(results)
           own == NodeMesh(g, BuffersBytes(g, disk), n, node.mesh, mat)
           bs == BuffersBytes(g, disk)
           whole == ParseWith(parse, g, bs, n, matrix)
           Y == FirstOf(X, N)
           W == Own(g, p)
<1>1. /\ n \in NodeNumbers(g) /\ IsVector(g.nodes) /\ IsIndex(n, g.nodes)
      /\ IsVector(ch) /\ N \in Nat /\ DOMAIN ch = 1..N
      BY PathIs, NodesAre, VectorElements
<1>2. g.hasNodes /\ Lookup(g.nodes, n) = Ok(node)
  <2>1. Lookup(g.nodes, n) = Ok(node)
        BY <1>1, LookupFound
  <2>2. g.nodes # <<>>
    <3>1. Len(g.nodes) # 0 /\ Len(<<>>) = 0
          BY <1>1, NodesAre
    <3>2. QED
          BY <3>1
  <2>3. QED
        BY <2>1, <2>2 DEF WellFormed, ArraysAreVectors
<1>3. IsVector(results) /\ Len(results) = N
      BY <1>1, DataIsVector
<1>4. ToSet(ch) = {ch[i] : i \in 1..N} /\ C = ToSet(ch) \cap S
      BY <1>1 DEF Children, ToSet, NodeNumbers
<1>5. ASSUME NEW i \in 1..N PROVE Explained(g, disk, results[i], X[i])
  <2>1. results[i] = parse[<<ch[i], mat>>]
        BY <1>1
  <2>2. CASE ch[i] \in S
    <3>1. ch[i] \in C /\ X[i] = Below(g, root, Append(p, ch[i]))
          BY <1>4, <2>2
    <3>2. QED
          BY <2>1, <3>1
  <2>3. CASE ch[i] \notin S
    <3>1. ch[i] \in ToSet(ch) \ S
          BY <1>4, <2>3
    <3>2. Refused(g, disk, results[i])
          BY <2>1, <3>1
    <3>3. QED
          BY <3>2 DEF Explained
  <2>4. QED
        BY <2>2, <2>3
<1>6. Disjoint(X, N)
  <2>1. ASSUME NEW i \in 1..N, NEW j \in 1..N, i # j
        PROVE  X[i] \cap X[j] = {}
    <3>1. ch[i] # ch[j]
          BY <1>1, <2>1, ChildrenDiffer
    <3>2. \A c, e \in C : c # e => Below(g, root, Append(p, c)) \cap Below(g, root, Append(p, e)) = {}
          BY BelowSplits
    <3>3. CASE ch[i] \in S /\ ch[j] \in S
      <4>1. ch[i] \in C /\ ch[j] \in C
            BY <1>4, <3>3
      <4>2. /\ X[i] = Below(g, root, Append(p, ch[i]))
            /\ X[j] = Below(g, root, Append(p, ch[j]))
            BY <3>3
      <4>3. QED
            BY <3>1, <3>2, <4>1, <4>2
    <3>4. CASE ~(ch[i] \in S /\ ch[j] \in S)
      <4>1. X[i] = {} \/ X[j] = {}
            BY <3>4
      <4>2. QED
            BY <4>1
    <3>5. QED
          BY <3>3, <3>4
  <2>2. QED
        BY <2>1 DEF Disjoint
<1>7. Explained(g, disk, below, Y)
  <2> HIDE DEF results, X
  <2>1. QED
        BY <1>3, <1>5, <1>6, CollectExplained
<1>8. Y = UNION {Below(g, root, Append(p, c)) : c \in C}
  <2>1. ASSUME NEW d
        PROVE  d \in Y <=> \E i \in 1..N : ch[i] \in S /\ d \in Below(g, root, Append(p, ch[i]))
    <3>1. d \in Y <=> \E i \in 1..N : d \in X[i]
          BY Zenon DEF FirstOf
    <3>2. \A i \in 1..N : d \in X[i] <=> ch[i] \in S /\ d \in Below(g, root, Append(p, ch[i]))
          OBVIOUS
    <3> HIDE DEF X, Y
    <3>3. QED
          BY <3>1, <3>2
  <2>2. ASSUME NEW d PROVE d \in Y <=> \E c \in C : d \in Below(g, root, Append(p, c))
    <3>1. \A c : c \in C <=> \E i \in 1..N : ch[i] \in S /\ c = ch[i]
      <4> HIDE DEF C, S, ch
      <4>1. QED
            BY <1>4
    <3> HIDE DEF Y, C, S
    <3>2. QED
          BY <2>1, <3>1, Zenon
  <2>3. ASSUME NEW d
        PROVE  d \in UNION {Below(g, root, Append(p, c)) : c \in C} <=>
                 \E c \in C : d \in Below(g, root, Append(p, c))
        BY Zenon
  <2> HIDE DEF Y, C
  <2>4. QED
        BY <2>2, <2>3
<1>9. /\ Below(g, root, p) = Y \cup W
      /\ Y \cap W = {}
  <2>1. /\ Below(g, root, p) = (UNION {Below(g, root, Append(p, c)) : c \in C}) \cup W
        /\ \A c \in C : Below(g, root, Append(p, c)) \cap W = {}
        BY BelowSplits
  <2>2. \A d \in Y : \E c \in C : d \in Below(g, root, Append(p, c))
    <3> HIDE DEF Y, C
    <3>1. QED
          BY <1>8, Zenon
  <2> HIDE DEF Y, C, W
  <2>3. QED
        BY <1>8, <2>1, <2>2
<1>10. whole = IF below.status # "ok" \/ node.mesh = None THEN below
               ELSE IF own.status # "ok" THEN own
               ELSE Ok(below.data \o own.data)
  <2>1. Ok(node).status = "ok" /\ Ok(node).data = node
        BY DEF Ok
  <2> DEFINE found == IF ~g.hasNodes THEN Error ELSE Lookup(g.nodes, n)
  <2>2. found = Ok(node)
        BY <1>2
  <2>3. found.status = "ok" /\ found.data = node
        BY <2>1, <2>2
  <2>4. QED
        BY <2>3, Zenon DEF ParseWith
<1>11. node.mesh = None => W = {}
  <2>1. node.mesh = None => PrimitivesOf(g, n) = <<>>
    <3>1. None \notin 0..(Len(g.meshes) - 1)
          BY NoneAssumption
    <3>2. QED
          BY <3>1 DEF PrimitivesOf, IsIndex
  <2>2. DOMAIN <<>> = {}
        OBVIOUS
  <2>3. QED
        BY <2>1, <2>2 DEF Own
<1>12. node.mesh # None => Explained(g, disk, own, W)
       BY <1>1, NodeMeshExplained DEF Agrees
<1> HIDE DEF node, below, own, whole, Y, W
<1>13. CASE below.status # "ok"
       BY <1>7, <1>10, <1>13 DEF Explained, whole, bs
<1>14. CASE below.status = "ok" /\ node.mesh = None
  <2>1. Y \cup W = Y
        BY <1>11, <1>14
  <2>2. QED
        BY <1>7, <1>9, <1>10, <1>14, <2>1 DEF whole, bs
<1>15. CASE below.status = "ok" /\ node.mesh # None
  <2>1. CASE own.status # "ok"
        BY <1>10, <1>12, <1>15, <2>1 DEF Explained, whole, bs
  <2>2. CASE own.status = "ok"
    <3>1. Depicts(g, disk, below.data, Y) /\ Depicts(g, disk, own.data, W)
          BY <1>7, <1>12, <1>15, <2>2 DEF Explained, Refused
    <3> DEFINE v == below.data
               w == own.data
    <3>2. Depicts(g, disk, v \o w, Y \cup W)
      <4> HIDE DEF v, w
      <4>1. Depicts(g, disk, v, Y) /\ Depicts(g, disk, w, W)
            BY <3>1 DEF v, w
      <4>2. QED
            BY <1>9, <4>1, DepictsBoth
    <3>3. whole.status = "ok" /\ whole.data = v \o w
          BY <1>10, <1>15, <2>2 DEF Ok
    <3>4. QED
          BY <1>9, <3>2, <3>3 DEF Explained, whole, bs
  <2>3. QED
        BY <2>1, <2>2
<1>16. QED
       BY <1>13, <1>14, <1>15

\* The results of the calls that may nest depth deep, from those that may nest
\* one less.
CallsAt(g, bytes, before, depth) ==
  [call \in Int \X Seq(Factors) |->
     IF depth = 0 THEN Undefined
     ELSE ParseWith(before, g, bytes, call[1], call[2])]

IsParse(g, bytes, parse, m) ==
  parse = [depth \in 0..m |-> CallsAt(g, bytes, parse[depth - 1], depth)]

\* Without depth it does not matter what the calls return.
LEMMA CallsAtZero ==
  ASSUME NEW g, NEW bytes, NEW f, NEW h
  PROVE  CallsAt(g, bytes, f, 0) = CallsAt(g, bytes, h, 0)
BY DEF CallsAt

\* With depth a call is ParseWith.
LEMMA CallsAtMore ==
  ASSUME NEW g, NEW bytes, NEW before, NEW depth \in Nat,
         NEW n \in Int, NEW matrix \in Seq(Factors)
  PROVE  CallsAt(g, bytes, before, depth + 1)[<<n, matrix>>] =
           ParseWith(before, g, bytes, n, matrix)
<1> DEFINE S == Seq(Factors)
<1>1. matrix \in S
      OBVIOUS
<1> HIDE DEF S
<1>2. <<n, matrix>> \in Int \X S /\ <<n, matrix>>[1] = n /\ <<n, matrix>>[2] = matrix
      BY <1>1
<1>3. depth + 1 # 0
      OBVIOUS
<1> DEFINE e == depth + 1
           call == <<n, matrix>>
           value(c) == IF e = 0 THEN Undefined ELSE ParseWith(before, g, bytes, c[1], c[2])
           f == [c \in Int \X S |-> value(c)]
<1>4. f[call] = value(call)
  <2> HIDE DEF call, value
  <2>1. call \in Int \X S
        BY <1>2 DEF call
  <2>2. QED
        BY <2>1
<1>5. value(call) = ParseWith(before, g, bytes, n, matrix)
  <2>1. value(call) = ParseWith(before, g, bytes, call[1], call[2])
        BY <1>3, Zenon
  <2>2. call[1] = n /\ call[2] = matrix
        BY <1>2
  <2>3. QED
        BY <2>1, <2>2
<1>6. CallsAt(g, bytes, before, e) = f
      BY Zenon DEF CallsAt, S
<1>7. QED
      BY <1>4, <1>5, <1>6

\* The recursion has a solution.
LEMMA ParseIs ==
  ASSUME NEW g, NEW bytes, NEW m \in Nat
  PROVE  \E parse : IsParse(g, bytes, parse, m)
<1> DEFINE T == {k \in Nat : \E f : IsParse(g, bytes, f, k)}
           at(f, d) == CallsAt(g, bytes, f, d)
<1>0. \A f, h : at(f, 0) = at(h, 0)
      BY CallsAtZero
<1>1. 0 \in T
  <2> DEFINE f == [d \in 0..0 |-> at(0, d)]
  <2>1. \A d \in 0..0 : at(0, d) = at(f[d - 1], d)
    <3>1. TAKE d \in 0..0
    <3>2. d = 0
          OBVIOUS
    <3> HIDE DEF f
    <3>3. QED
          BY <1>0, <3>2, Zenon
  <2>2. f = [d \in 0..0 |-> at(f[d - 1], d)]
    <3> DEFINE a == [d \in 0..0 |-> at(f[d - 1], d)]
    <3>1. a = f
          BY <2>1, Zenon
    <3>2. QED
          BY <3>1
  <2> HIDE DEF f
  <2>3. IsParse(g, bytes, f, 0)
        BY <2>2 DEF IsParse
  <2>4. QED
        BY <2>3
<1>2. ASSUME NEW k \in Nat, k \in T PROVE k + 1 \in T
  <2>1. PICK f : IsParse(g, bytes, f, k)
        BY <1>2
  <2>2. \A d \in 0..k : f[d] = at(f[d - 1], d)
    <3> DEFINE a(d) == at(f[d - 1], d)
    <3>1. f = [d \in 0..k |-> a(d)]
          BY <2>1 DEF IsParse
    <3> HIDE DEF a
    <3>2. \A d \in 0..k : f[d] = a(d)
          BY <3>1
    <3>3. QED
          BY <3>2 DEF a
  <2> DEFINE h == [d \in 0..(k + 1) |-> IF d <= k THEN f[d] ELSE at(f[d - 1], d)]
  <2> HIDE DEF at
  <2>3. ASSUME NEW d \in 0..(k + 1) PROVE h[d] = at(h[d - 1], d)
    <3>1. CASE d = 0
      <4>1. h[d] = f[d] /\ d \in 0..k
            BY <3>1
      <4>2. h[d] = at(f[d - 1], d)
            BY <2>2, <4>1
      <4> HIDE DEF h
      <4>3. QED
            BY <1>0, <3>1, <4>2
    <3>2. CASE d # 0
      <4>1. d - 1 \in 0..k
            BY <3>2
      <4>2. h[d - 1] = f[d - 1]
            BY <4>1
      <4>3. d <= k => d \in 0..k /\ h[d] = f[d]
            OBVIOUS
      <4>4. ~(d <= k) => h[d] = at(f[d - 1], d)
            OBVIOUS
      <4> HIDE DEF h
      <4>5. QED
            BY <2>2, <4>2, <4>3, <4>4
    <3>3. QED
          BY <3>1, <3>2
  <2>4. IsParse(g, bytes, h, k + 1)
    <3>1. h = [d \in 0..(k + 1) |-> h[d]]
          OBVIOUS
    <3> HIDE DEF h
    <3>2. [d \in 0..(k + 1) |-> h[d]] = [d \in 0..(k + 1) |-> at(h[d - 1], d)]
          BY <2>3, Zenon
    <3>3. QED
          BY <3>1, <3>2 DEF IsParse, at
  <2> HIDE DEF h
  <2>5. QED
        BY <2>4
<1>3. Nat \subseteq T
      BY <1>1, <1>2, InductionInSet
<1>4. QED
      BY <1>3

\* ParseNode is the first call of a solution.
LEMMA ParseNodeIs ==
  ASSUME NEW g, WellFormed(g), NEW bytes, NEW root
  PROVE  \E f : /\ ParseNode(g, bytes, root) = f[Len(g.nodes) + 1][<<root, <<>>>>]
                /\ \A d \in 0..(Len(g.nodes) + 1) :
                     f[d] = CallsAt(g, bytes, f[d - 1], d)
<1> DEFINE N == Len(g.nodes)
           m == N + 1
           f == CHOOSE f : IsParse(g, bytes, f, m)
           a(d) == CallsAt(g, bytes, f[d - 1], d)
<1>1. m \in Nat
      BY NodesAre
<1>2. ParseNode(g, bytes, root) = f[m][<<root, <<>>>>]
      BY Zenon DEF ParseNode, IsParse, CallsAt
<1>3. IsParse(g, bytes, f, m)
  <2> HIDE DEF m
  <2>1. \E h : IsParse(g, bytes, h, m)
        BY <1>1, ParseIs
  <2>2. QED
        BY <2>1, Zenon
<1> HIDE DEF f
<1>4. f = [d \in 0..m |-> a(d)]
      BY <1>3 DEF IsParse
<1> HIDE DEF a
<1>5. \A d \in 0..m : f[d] = a(d)
      BY <1>4
<1>6. QED
      BY <1>2, <1>5 DEF a

\* What a call at the end of a path returns, when it may nest deep enough, and
\* one for a node that is not there.
CallsExplained(g, disk, root, calls, d) ==
  /\ \A p, q, matrix :
       /\ IsPath(g, root, p) /\ q \in Seq(Nat) /\ p = Append(q, Last(p))
       /\ Agrees(g, matrix, q)
       /\ Len(p) + d > Len(g.nodes) + 1
       => Explained(g, disk, calls[<<Last(p), matrix>>], Below(g, root, p))
  /\ d > 0 =>
       \A n \in Int \ NodeNumbers(g), matrix \in Seq(Factors) :
         <<n, Len(g.nodes)>> \in References(g) =>
           Refused(g, disk, calls[<<n, matrix>>])

\* One more level of depth.
LEMMA CallsExplainedNext ==
  ASSUME NEW g, NEW disk, WellFormed(g), SizesAreNatural(disk),
         NEW root \in NodeNumbers(g), NEW d \in Nat,
         NEW before, CallsExplained(g, disk, root, before, d)
  PROVE  CallsExplained(g, disk, root,
                        CallsAt(g, BuffersBytes(g, disk), before, d + 1), d + 1)
<1> DEFINE calls == CallsAt(g, BuffersBytes(g, disk), before, d + 1)
           N == Len(g.nodes)
           R == References(g)
<1>1. ASSUME NEW n \in Int \ NodeNumbers(g), NEW matrix \in Seq(Factors),
             <<n, N>> \in R
      PROVE  Refused(g, disk, calls[<<n, matrix>>])
  <2>1. calls[<<n, matrix>>] = ParseWith(before, g, BuffersBytes(g, disk), n, matrix)
        BY CallsAtMore
  <2>2. Refused(g, disk, ParseWith(before, g, BuffersBytes(g, disk), n, matrix))
        BY <1>1, MissingNode
  <2>3. QED
        BY <2>1, <2>2
<1>2. ASSUME NEW p, NEW q, NEW matrix,
             IsPath(g, root, p), q \in Seq(Nat), p = Append(q, Last(p)),
             Agrees(g, matrix, q), Len(p) + (d + 1) > N + 1
      PROVE  Explained(g, disk, calls[<<Last(p), matrix>>], Below(g, root, p))
  <2> DEFINE n == Last(p)
             mat == matrix \o LocalMatrix(n, g.nodes[n + 1])
  <2>1. /\ n \in NodeNumbers(g) /\ n \in Nat /\ Len(p) \in Nat /\ N \in Nat
        /\ p \in Seq(Nat)
    <3>1. n \in NodeNumbers(g) /\ Len(p) \in Nat
          BY <1>2, PathIs
    <3>2. N \in Nat /\ NodeNumbers(g) \subseteq Nat
          BY NodesAre
    <3>3. p \in Seq(NodeNumbers(g))
          BY <1>2 DEF IsPath
    <3>4. p \in Seq(Nat)
      <4> DEFINE S == NodeNumbers(g)
      <4>1. p \in Seq(S) /\ S \subseteq Nat
            BY <3>2, <3>3
      <4> HIDE DEF S
      <4>2. IsVector(p) /\ \A i \in 1..Len(p) : p[i] \in S
            BY <4>1, SeqIsVector, ElementOfSeq
      <4>3. QED
            BY <4>1, <4>2, VectorElements
    <3>5. QED
          BY <3>1, <3>2, <3>4
  <2>2. d > 0
    <3>1. Len(p) <= N
          BY <1>2, PathShort
    <3>2. QED
          BY <1>2, <2>1, <3>1
  <2>3. Agrees(g, mat, p)
    <3>1. Agrees(g, mat, Append(q, n))
          BY <1>2, <2>1, MatrixStep
    <3>2. QED
          BY <1>2, <3>1
  <2>4. matrix \in Seq(Factors) /\ mat \in Seq(Factors)
        BY <1>2, <2>3 DEF Agrees
  <2>5. ASSUME NEW c \in Children(g, n)
        PROVE  Explained(g, disk, before[<<c, mat>>], Below(g, root, Append(p, c)))
    <3> DEFINE r == Append(p, c)
    <3>1. IsPath(g, root, r) /\ Len(r) = Len(p) + 1 /\ Last(r) = c
          BY <1>2, PathAppend
    <3>2. r = Append(p, Last(r))
          BY <3>1
    <3> HIDE DEF r, mat, N
    <3>3. Len(r) + d > N + 1
          BY <1>2, <2>1, <3>1
    <3>4. Explained(g, disk, before[<<Last(r), mat>>], Below(g, root, r))
          BY <2>1, <2>3, <3>1, <3>2, <3>3 DEF CallsExplained, N
    <3>5. QED
          BY <3>1, <3>4 DEF r
  <2>6. ASSUME NEW c \in ToSet(g.nodes[n + 1].children) \ NodeNumbers(g)
        PROVE  Refused(g, disk, before[<<c, mat>>])
    <3>1. n + 1 \in DOMAIN g.nodes /\ c \in Int
          BY <2>1, NodesAre, VectorElements
    <3>2. <<c, N>> \in R
          BY <3>1, ReferencesAre
    <3> HIDE DEF mat, R
    <3>3. QED
          BY <2>2, <2>4, <3>1, <3>2, Zenon DEF CallsExplained, R
  <2>7. Explained(g, disk, ParseWith(before, g, BuffersBytes(g, disk), n, matrix),
                  Below(g, root, p))
        BY <1>2, <2>3, <2>5, <2>6, ParseExplained
  <2>8. calls[<<n, matrix>>] = ParseWith(before, g, BuffersBytes(g, disk), n, matrix)
        BY <2>1, <2>4, CallsAtMore
  <2>9. QED
        BY <2>7, <2>8
<1> HIDE DEF calls
<1>3. QED
      BY <1>1, <1>2, Zenon DEF CallsExplained, calls

\* The first call is explained by all drawables.
LEMMA TreeExplained ==
  ASSUME NEW g, NEW disk, WellFormed(g), SizesAreNatural(disk),
         NEW root \in NodeNumbers(g)
  PROVE  Explained(g, disk, ParseNode(g, BuffersBytes(g, disk), root),
                   Drawables(g, root))
<1> DEFINE bytes == BuffersBytes(g, disk)
           N == Len(g.nodes)
<1>1. N \in Nat
      BY NodesAre
<1>2. PICK f : /\ ParseNode(g, bytes, root) = f[N + 1][<<root, <<>>>>]
               /\ \A d \in 0..(N + 1) : f[d] = CallsAt(g, bytes, f[d - 1], d)
      BY ParseNodeIs
<1>3. ParseNode(g, bytes, root) = f[N + 1][<<root, <<>>>>]
      BY <1>2
<1>4. \A d \in 0..(N + 1) : f[d] = CallsAt(g, bytes, f[d - 1], d)
      BY <1>2
<1> DEFINE T == {d \in 0..(N + 1) : CallsExplained(g, disk, root, f[d], d)}
<1>5. 0 \in T
  <2>1. CallsExplained(g, disk, root, f[0], 0)
    <3>1. ASSUME NEW p, IsPath(g, root, p) PROVE ~(Len(p) + 0 > N + 1)
      <4>1. Len(p) <= N /\ Len(p) \in Nat
            BY <3>1, PathShort, PathIs
      <4>2. QED
            BY <1>1, <4>1
    <3>2. ~(0 > 0)
          OBVIOUS
    <3>3. QED
          BY <3>1, <3>2, Zenon DEF CallsExplained
  <2>2. QED
        BY <1>1, <2>1
<1>6. ASSUME NEW d \in 0..((N + 1) - 1), d \in T PROVE d + 1 \in T
  <2>1. d \in Nat /\ d + 1 \in 0..(N + 1) /\ (d + 1) - 1 = d
        BY <1>1
  <2>2. f[d + 1] = CallsAt(g, bytes, f[d], d + 1)
        BY <1>4, <2>1
  <2>3. CallsExplained(g, disk, root, f[d], d)
        BY <1>6
  <2> DEFINE before == f[d]
  <2>4. CallsExplained(g, disk, root, before, d)
        BY <2>3
  <2> HIDE DEF before
  <2>5. CallsExplained(g, disk, root, CallsAt(g, bytes, before, d + 1), d + 1)
        BY <2>1, <2>4, CallsExplainedNext
  <2>6. CallsExplained(g, disk, root, f[d + 1], d + 1)
        BY <2>2, <2>5 DEF before
  <2>7. QED
        BY <2>1, <2>6
<1>7. N + 1 \in T
  <2>1. 0 \in Int /\ N + 1 \in Int /\ N + 1 \in 0..(N + 1)
        BY <1>1
  <2> HIDE DEF T
  <2>2. \A d \in 0..((N + 1) - 1) : d \in T => d + 1 \in T
        BY <1>6
  <2>3. 0..(N + 1) \subseteq T
        BY <1>5, <2>1, <2>2, InductionUpTo, Zenon
  <2>4. QED
        BY <2>1, <2>3
<1>8. CallsExplained(g, disk, root, f[N + 1], N + 1)
      BY <1>7
<1>9. IsPath(g, root, <<root>>) /\ Drawables(g, root) = Below(g, root, <<root>>)
      BY DrawablesAre
<1> DEFINE p == <<root>>
           q == <<>>
<1>10. /\ Last(p) = root /\ q \in Seq(Nat) /\ p = Append(q, Last(p))
       /\ Len(p) + (N + 1) > N + 1
  <2>1. Len(p) = 1 /\ Last(p) = root
        BY <1>9, PathIs
  <2>2. QED
        BY <1>1, <2>1
<1>11. Agrees(g, q, q)
       BY MatrixStart
<1>12. IsPath(g, root, p)
       BY <1>9
<1> HIDE DEF p, q
<1>13. Explained(g, disk, f[N + 1][<<Last(p), q>>], Below(g, root, p))
       BY <1>8, <1>10, <1>11, <1>12 DEF CallsExplained
<1>14. QED
       BY <1>3, <1>9, <1>10, <1>13 DEF p, q

-----------------------------------------------------------------------------
(* The whole document.                                                      *)

\* An image is refused, or read outside a vector, for a listed reason.
LEMMA ImagesAre ==
  ASSUME NEW g, NEW disk, WellFormed(g), SizesAreNatural(disk)
  PROVE  LET r == Images(g, BuffersBytes(g, disk), disk)
         IN r.status = "ok" \/ Refused(g, disk, r)
<1> DEFINE bytes == BuffersBytes(g, disk)
           N == Len(g.images)
           one(i) == ImageData(g.images[i], bytes, disk)
           results == [i \in DOMAIN g.images |-> one(i)]
           r == Collect(results)
<1>1. DOMAIN g.images = 1..N /\ N \in Nat
      BY VectorElements DEF WellFormed, ArraysAreVectors
<1>2. IsVector(results) /\ Len(results) = N
      BY <1>1, DataIsVector
<1>3. \A i \in 1..N : results[i] = one(i)
      BY <1>1
<1>4. Images(g, bytes, disk) = r
      BY DEF Images
<1>5. ASSUME NEW i \in 1..N, one(i).status # "ok"
      PROVE  Refused(g, disk, one(i))
  <2> DEFINE image == g.images[i]
  <2>1. image \in ToSet(g.images)
        BY <1>1 DEF ToSet
  <2>2. CASE image.uri # None
    <3>1. one(i) = IF Readable(disk, image.uri) THEN Ok(<<image.uri>>) ELSE Error
          BY <2>2 DEF ImageData
    <3>2. one(i) = Error /\ image.uri \notin DOMAIN disk
          BY <1>5, <3>1 DEF Ok, Readable
    <3>3. ImageMissing(g, disk)
          BY <2>1, <2>2, <3>2 DEF ImageMissing
    <3>4. QED
          BY <3>2, <3>3 DEF MayFail, Refused, Error
  <2>3. CASE image.uri = None
    <3>1. MayBeUndefined(g, disk)
          BY <2>1, <2>3 DEF MayBeUndefined, ImageInBuffer
    <3>2. one(i).status \in {"error", "undefined"}
      <4> DEFINE b == Unchecked(bytes, image.bufferView)
      <4>1. b.status \in {"ok", "undefined"}
            BY DEF Unchecked, Ok, Undefined
      <4>2. one(i) = IF image.bufferView = None THEN Error
                     ELSE IF b.status = "ok" THEN Ok(<<b.data.file>>) ELSE b
            BY <2>3 DEF ImageData
      <4>3. Error.status = "error" /\ Ok(<<b.data.file>>).status = "ok"
            BY DEF Error, Ok
      <4> HIDE DEF b, one
      <4>4. QED
            BY <1>5, <4>1, <4>2, <4>3
    <3> HIDE DEF one
    <3>3. QED
          BY <3>1, <3>2, UndefinedRefused
  <2>4. QED
        BY <2>2, <2>3
<1> HIDE DEF results, one
<1>6. CASE \A i \in 1..N : results[i].status = "ok"
      BY <1>2, <1>4, <1>6, CollectOk
<1>7. CASE \E i \in 1..N : results[i].status # "ok"
  <2>1. PICK i \in 1..N : r = results[i] /\ results[i].status # "ok"
        BY <1>2, <1>7, CollectFails
  <2>2. QED
        BY <1>3, <1>4, <1>5, <2>1
<1>8. QED
      BY <1>6, <1>7

\* The first node has a number.
LEMMA FirstNodeIs ==
  ASSUME NEW g, WellFormed(g)
  PROVE  FirstNode(g) \in Int
BY DEF WellFormed, IsOptionalInt, FirstNode

\* The parse of a first node that is not there.
LEMMA NoSuchNode ==
  ASSUME NEW g, NEW disk, WellFormed(g), NEW bytes,
         NEW root \in Int, root = FirstNode(g), root \notin NodeNumbers(g)
  PROVE  Refused(g, disk, ParseNode(g, bytes, root))
<1> DEFINE N == Len(g.nodes)
           none == <<>>
<1>1. N \in Nat
      BY NodesAre
<1>2. PICK f : /\ ParseNode(g, bytes, root) = f[N + 1][<<root, none>>]
               /\ \A d \in 0..(N + 1) : f[d] = CallsAt(g, bytes, f[d - 1], d)
      BY ParseNodeIs
<1>3. ParseNode(g, bytes, root) = f[N + 1][<<root, none>>]
      BY <1>2
<1>4. none \in Seq(Factors)
      OBVIOUS
<1> HIDE DEF none
<1>5. f[N + 1] = CallsAt(g, bytes, f[N], N + 1)
  <2>1. N + 1 \in 0..(N + 1) /\ (N + 1) - 1 = N
        BY <1>1
  <2>2. QED
        BY <1>2, <2>1
<1> DEFINE before == f[N]
<1>6. f[N + 1] = CallsAt(g, bytes, before, N + 1)
      BY <1>5
<1> HIDE DEF before
<1>7. ParseNode(g, bytes, root) = ParseWith(before, g, bytes, root, none)
      BY <1>1, <1>3, <1>4, <1>6, CallsAtMore
<1>8. <<root, N>> \in References(g)
      BY ReferencesAre
<1>9. Refused(g, disk, ParseWith(before, g, bytes, root, none))
      BY <1>8, MissingNode
<1>10. QED
       BY <1>7, <1>9

\* For every well-formed document, however its parts refer to each other, and
\* every disk: what ReadGLTF returns is the drawables below the first node, each
\* once, with their transforms, topologies and elements as Imports says; it
\* returns an error or reads outside a vector only for the reasons MayFail and
\* MayBeUndefined list (ReadGLTF, ParseNode, GetAccessorData, GenerateNormals,
\* GenerateTangents).
THEOREM ImporterCorrect ==
  ASSUME NEW g, NEW disk, WellFormed(g), SizesAreNatural(disk)
  PROVE  LET r == ReadGLTF(g, disk)
         IN /\ r.status \in {"ok", "error", "undefined"}
            /\ r.status = "ok" =>
                 AreMeshData(r.data) /\ Imports(g, disk, FirstNode(g), r.data)
            /\ r.status = "error" => MayFail(g, disk)
            /\ r.status = "undefined" => MayBeUndefined(g, disk)
<1> DEFINE r == ReadGLTF(g, disk)
           bytes == Buffers(g, disk)
           images == Images(g, bytes.data, disk)
           root == FirstNode(g)
           node == ParseNode(g, BuffersBytes(g, disk), root)
<1>1. r = IF ~SupportedVersion(g) THEN Error
          ELSE IF bytes.status # "ok" THEN bytes
          ELSE IF images.status # "ok" THEN images
          ELSE ParseNode(g, bytes.data, root)
      BY Zenon DEF ReadGLTF
<1>2. DOMAIN g.buffers = 1..Len(g.buffers)
      BY VectorElements DEF WellFormed, ArraysAreVectors
<1>3. \/ bytes = Error /\ MayFail(g, disk)
      \/ bytes = Ok(BuffersBytes(g, disk))
  <2>1. CASE \E i \in DOMAIN g.buffers : g.buffers[i].uri = None
    <3>1. bytes = Error
          BY <2>1, Zenon DEF Buffers
    <3>2. \E b \in ToSet(g.buffers) : b.uri = None
          BY <2>1 DEF ToSet
    <3>3. QED
          BY <3>1, <3>2 DEF MayFail, Unsupported
  <2>2. CASE ~\E i \in DOMAIN g.buffers : g.buffers[i].uri = None
        BY <2>2, Zenon DEF Buffers
  <2>3. QED
        BY <2>1, <2>2
<1>4. CASE ~SupportedVersion(g)
      BY <1>1, <1>4 DEF Error, MayFail, Unsupported
<1>5. CASE SupportedVersion(g) /\ bytes = Error /\ MayFail(g, disk)
  <2>1. r = Error
        BY <1>1, <1>5 DEF Error
  <2>2. QED
        BY <1>5, <2>1 DEF Error
<1>6. CASE SupportedVersion(g) /\ bytes = Ok(BuffersBytes(g, disk))
  <2>1. bytes.status = "ok" /\ bytes.data = BuffersBytes(g, disk)
        BY <1>6 DEF Ok
  <2>2. r = IF images.status # "ok" THEN images ELSE node
        BY <1>1, <1>6, <2>1
  <2>3. images.status = "ok" \/ Refused(g, disk, images)
        BY <2>1, ImagesAre
  <2>4. CASE images.status # "ok"
        BY <2>2, <2>3, <2>4 DEF Refused
  <2>5. CASE images.status = "ok"
    <3>1. r = node
          BY <2>2, <2>5
    <3>2. root \in Int
          BY FirstNodeIs
    <3>3. CASE root \notin NodeNumbers(g)
      <4>1. Refused(g, disk, node)
            BY <3>2, <3>3, NoSuchNode
      <4> HIDE DEF node
      <4>2. QED
            BY <3>1, <4>1 DEF Refused
    <3>4. CASE root \in NodeNumbers(g)
      <4>1. Explained(g, disk, node, Drawables(g, root))
            BY <3>4, TreeExplained
      <4>2. Depicts(g, disk, node.data, Drawables(g, root)) =>
              AreMeshData(node.data) /\ Imports(g, disk, root, node.data)
            BY DEF Depicts, Imports
      <4> HIDE DEF node, root
      <4>3. QED
            BY <3>1, <4>1, <4>2 DEF Explained, Refused, root
    <3>5. QED
          BY <3>3, <3>4
  <2>6. QED
        BY <2>4, <2>5
<1>7. QED
      BY <1>3, <1>4, <1>5, <1>6
=============================================================================
