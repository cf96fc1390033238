--------------------------- MODULE Reports_proofs ----------------------------
(***************************************************************************)
(* What a report and an archive hold, for every number of sections, rows   *)
(* and runs and every size of sheets, batches and names; and the lemmas    *)
(* about lists that this rests on.                                         *)
(***************************************************************************)
EXTENDS Reports, FiniteSetTheorems, SequenceTheorems, WellFoundedInduction, TLAPS

(* A set of naturals that is not empty has a smallest element.              *)
LEMMA Smallest ==
  ASSUME NEW T, T \subseteq Nat, T # {}
  PROVE  \E m \in T : \A k \in T : m <= k
<1> DEFINE R == OpToRel(<, Nat)
<1>1. IsWellFoundedOn(R, Nat)
  BY NatLessThanWellFounded
<1>2. \A x, y \in Nat : x < y => <<x, y>> \in R
  BY DEF OpToRel
<1> HIDE DEF R
<1>3. PICK m \in T : \A y \in T : ~ (<<y, m>> \in R)
  BY <1>1, WFMin
<1>4. ASSUME NEW k \in T PROVE m <= k
  <2>1. ~(k < m)
    BY <1>2, <1>3, <1>4, Zenon
  <2> QED BY <2>1, <1>3, <1>4
<1> QED BY <1>4

(* What holds of zero and of a number's successor holds of every natural.   *)
LEMMA SetInduction ==
  ASSUME NEW T, 0 \in T, \A n \in Nat : n \in T => n + 1 \in T
  PROVE  Nat \subseteq T
<1> SUFFICES ASSUME Nat \ T # {} PROVE FALSE
  OBVIOUS
<1>1. PICK m \in Nat \ T : \A k \in Nat \ T : m <= k
  <2>1. Nat \ T \subseteq Nat
    OBVIOUS
  <2> QED BY <2>1, Smallest
<1>2. m # 0
  BY <1>1
<1>3. m - 1 \in Nat /\ m - 1 \in T
  BY <1>1, <1>2
<1>4. (m - 1) + 1 \in T
  BY <1>3
<1> QED BY <1>1, <1>4

(* Multiplying and dividing by a positive number keep the order.            *)
LEMMA TimesIsMonotone ==
  ASSUME NEW d \in Nat \ {0}, NEW a \in Int, NEW b \in Int, a <= b
  PROVE  d * a <= d * b
<1>1. \A c \in Nat : d * c >= 0
  OBVIOUS
<1>2. d * (b - a) >= 0
  BY <1>1
<1>3. d * (b - a) = d * b - d * a
  OBVIOUS
<1> QED BY <1>2, <1>3

(* Division by a positive number keeps the order.                           *)
LEMMA DivisionIsMonotone ==
  ASSUME NEW d \in Nat \ {0}, NEW a \in Int, NEW b \in Int, a <= b
  PROVE  a \div d <= b \div d
<1> DEFINE p == a \div d
           q == b \div d
<1>1. /\ p \in Int /\ q \in Int
      /\ d * p <= a /\ b < d * q + d
  OBVIOUS
<1> HIDE DEF p, q
<1>2. SUFFICES ASSUME q + 1 <= p PROVE FALSE
  BY <1>1 DEF p, q
<1>3. d * (q + 1) <= d * p
  BY <1>1, <1>2, TimesIsMonotone
<1>4. d * (q + 1) = d * q + d
  BY <1>1
<1> QED BY <1>1, <1>3, <1>4

(* What holds of the empty set, and of a set with one element more than one *)
(* it holds of, holds of every finite set.                                  *)
LEMMA FiniteInduction ==
  ASSUME NEW S, IsFiniteSet(S), NEW T, {} \in T,
         \A U \in SUBSET S : \A x \in S \ U : U \in T => U \cup {x} \in T
  PROVE  \A U \in SUBSET S : U \in T
<1> DEFINE N == {n \in Nat : \A U \in SUBSET S : Cardinality(U) = n => U \in T}
<1>1. \A U \in SUBSET S : IsFiniteSet(U) /\ Cardinality(U) \in Nat
  BY FS_Subset, FS_CardinalityType
<1>2. 0 \in N
  BY <1>1, FS_EmptySet
<1>3. ASSUME NEW n \in Nat, n \in N PROVE n + 1 \in N
  <2> SUFFICES ASSUME NEW U \in SUBSET S, Cardinality(U) = n + 1 PROVE U \in T
    OBVIOUS
  <2>1. U # {}
    <3>1. Cardinality({}) = 0
      BY FS_EmptySet
    <3> QED BY <3>1
  <2>2. PICK x \in U : TRUE
    BY <2>1
  <2> DEFINE V == U \ {x}
  <2>3. V \in SUBSET S /\ x \in S \ V /\ V \cup {x} = U
    OBVIOUS
  <2>4. Cardinality(V) = n
    <3>1. Cardinality(V) = Cardinality(U) - 1
      BY <1>1, <2>2, FS_RemoveElement
    <3> QED BY <3>1
  <2>5. V \in T
    BY <1>3, <2>3, <2>4
  <2> HIDE DEF V
  <2> QED BY <2>3, <2>5
<1>4. Nat \subseteq N
  <2> HIDE DEF N
  <2>1. \A n \in Nat : n \in N => n + 1 \in N
    BY <1>3
  <2> QED BY <1>2, <2>1, SetInduction
<1> QED BY <1>1, <1>4

(* A finite set of integers has a largest element and a smallest one.       *)
LEMMA FiniteBounds ==
  ASSUME NEW S, IsFiniteSet(S), S \subseteq Int, S # {}
  PROVE  /\ Max(S) \in S /\ \A y \in S : Max(S) >= y
         /\ Min(S) \in S /\ \A y \in S : Min(S) <= y
<1> DEFINE Bounded(U) == /\ \E x \in U : \A y \in U : x >= y
                         /\ \E x \in U : \A y \in U : x <= y
           T == {U \in SUBSET S : U # {} => Bounded(U)}
<1>1. {} \in T
  OBVIOUS
<1>2. ASSUME NEW U \in SUBSET S, NEW x \in S \ U, U \in T PROVE U \cup {x} \in T
  <2>1. CASE U = {}
    <3>1. U \cup {x} = {x} /\ x >= x /\ x <= x
      BY <2>1
    <3> QED BY <3>1
  <2>2. CASE U # {}
    <3>1. PICK a \in U : \A y \in U : a >= y
      BY <1>2, <2>2
    <3>2. PICK b \in U : \A y \in U : b <= y
      BY <1>2, <2>2
    <3>3. x \in Int /\ a \in Int /\ b \in Int /\ U \subseteq Int
      OBVIOUS
    <3>4. \E z \in U \cup {x} : \A y \in U \cup {x} : z >= y
      <4>1. CASE x >= a
        BY <3>1, <3>3, <4>1
      <4>2. CASE a >= x
        BY <3>1, <3>3, <4>2
      <4> QED BY <3>3, <4>1, <4>2
    <3>5. \E z \in U \cup {x} : \A y \in U \cup {x} : z <= y
      <4>1. CASE x <= b
        BY <3>2, <3>3, <4>1
      <4>2. CASE b <= x
        BY <3>2, <3>3, <4>2
      <4> QED BY <3>3, <4>1, <4>2
    <3> QED BY <3>4, <3>5
  <2> QED BY <2>1, <2>2
<1>3. S \in T
  <2> HIDE DEF T
  <2> QED BY <1>1, <1>2, FiniteInduction
<1> QED BY <1>3 DEF Max, Min

(* The image of a finite set is finite.                                     *)
LEMMA ImageIsFinite ==
  ASSUME NEW D, IsFiniteSet(D), NEW F, DOMAIN F = D
  PROVE  /\ IsFiniteSet({F[x] : x \in D})
         /\ Cardinality({F[x] : x \in D}) <= Cardinality(D)
<1> DEFINE T == {F[x] : x \in D}
           G == [x \in D |-> F[x]]
<1>1. G \in Surjection(D, T)
  BY DEF Surjection
<1> HIDE DEF G, T
<1>2. IsFiniteSet(T) /\ Cardinality(T) <= Cardinality(D)
  BY <1>1, FS_Surjection
<1> QED BY <1>2 DEF T

-----------------------------------------------------------------------------
(* Lists put one after the other.                                           *)

(* A function on 1 .. n whose values are of a set is a list over it.        *)
LEMMA ListOver ==
  ASSUME NEW S, NEW n \in Nat, NEW s, DOMAIN s = 1 .. n, s = [i \in 1 .. n |-> s[i]],
         \A i \in 1 .. n : s[i] \in S
  PROVE  s \in Seq(S) /\ Len(s) = n
<1>1. s \in [1 .. n -> S]
  OBVIOUS
<1>2. s \in Seq(S)
  BY <1>1, SeqDef
<1> QED BY <1>1, <1>2

(* What has been put together after each of the lists.                      *)
IsRunning(seqs, R, g) ==
  /\ g \in [0 .. Len(seqs) -> Seq(R)]
  /\ g[0] = <<>>
  /\ \A i \in 1 .. Len(seqs) : g[i] = g[i - 1] \o seqs[i]

(* FlattenSeq ends with what has been put together after the last.          *)
LEMMA FlattenIsRunning ==
  ASSUME NEW R, NEW seqs \in Seq(Seq(R)), NEW g, IsRunning(seqs, R, g)
  PROVE  FlattenSeq(seqs) = g[Len(seqs)]
<1> DEFINE n == Len(seqs)
           IsFlat(f) == f = [i \in 1 .. n |-> IF i = 1 THEN seqs[i] ELSE f[i - 1] \o seqs[i]]
           flatten == CHOOSE f : IsFlat(f)
           table == [i \in 1 .. n |-> g[i]]
<1>1. n \in Nat /\ \A i \in 1 .. n : seqs[i] \in Seq(R)
  OBVIOUS
<1>2. g[0] = <<>> /\ \A i \in 1 .. n : g[i] = g[i - 1] \o seqs[i]
  BY DEF IsRunning
<1>3. CASE n = 0
  <2>1. seqs = <<>>
    BY <1>3, EmptySeq
  <2>2. FlattenSeq(seqs) = seqs
    BY <1>3 DEF FlattenSeq
  <2> QED BY <1>2, <1>3, <2>1, <2>2
<1>4. CASE n # 0
  <2>1. FlattenSeq(seqs) = flatten[n]
    BY <1>4 DEF FlattenSeq
  <2> HIDE DEF n
  <2>2. g[1] = seqs[1]
    <3>0. 1 \in 1 .. n /\ 1 - 1 = 0
      BY <1>1, <1>4
    <3>1. g[1] = g[0] \o seqs[1] /\ seqs[1] \in Seq(R)
      BY <1>1, <1>2, <3>0
    <3> QED BY <1>2, <3>1, ConcatEmptySeq
  <2>3. ASSUME NEW i \in 1 .. n
        PROVE  table[i] = IF i = 1 THEN seqs[i] ELSE table[i - 1] \o seqs[i]
    <3>1. CASE i = 1
      BY <2>2, <3>1
    <3>2. CASE i # 1
      <4>1. i - 1 \in 1 .. n
        BY <1>1, <3>2
      <4> QED BY <1>2, <3>2, <4>1
    <3> QED BY <3>1, <3>2
  <2>4. IsFlat(table)
    <3> DEFINE other == [i \in 1 .. n |-> IF i = 1 THEN seqs[i] ELSE table[i - 1] \o seqs[i]]
    <3>1. \A i \in 1 .. n : table[i] = other[i]
      BY <2>3, Zenon
    <3> QED BY <3>1
  <2>5. IsFlat(flatten)
    <3> HIDE DEF IsFlat, table
    <3> QED BY <2>4
  <2> HIDE DEF flatten
  <2> DEFINE T == {i \in Nat : i + 1 <= n => flatten[i + 1] = g[i + 1]}
  <2>6. 0 \in T
    BY <1>1, <1>4, <2>2, <2>5
  <2>7. ASSUME NEW i \in T PROVE i + 1 \in T
    <3> SUFFICES ASSUME (i + 1) + 1 <= n PROVE flatten[(i + 1) + 1] = g[(i + 1) + 1]
      OBVIOUS
    <3>1. (i + 1) + 1 \in 1 .. n /\ (i + 1) + 1 # 1 /\ ((i + 1) + 1) - 1 = i + 1 /\ i + 1 <= n
      BY <1>1
    <3>2. flatten[(i + 1) + 1] = flatten[i + 1] \o seqs[(i + 1) + 1]
      BY <2>5, <3>1
    <3>3. g[(i + 1) + 1] = g[i + 1] \o seqs[(i + 1) + 1]
      BY <1>2, <3>1
    <3>4. flatten[i + 1] = g[i + 1]
      BY <2>7, <3>1
    <3> QED BY <3>2, <3>3, <3>4
  <2>8. Nat \subseteq T
    <3> HIDE DEF T
    <3>1. \A i \in Nat : i \in T => i + 1 \in T
      BY <2>7
    <3> QED BY <2>6, <3>1, SetInduction
  <2>9. n - 1 \in Nat /\ (n - 1) + 1 = n
    BY <1>1, <1>4
  <2>10. flatten[n] = g[n]
    BY <1>1, <2>8, <2>9
  <2> QED BY <2>1, <2>10 DEF n
<1> QED BY <1>3, <1>4

(* There is always something that has been put together.                    *)
LEMMA RunningExists ==
  ASSUME NEW R, NEW seqs \in Seq(Seq(R))
  PROVE  \E g : IsRunning(seqs, R, g)
<1> DEFINE n == Len(seqs)
           Good(m, g) == /\ g \in [0 .. m -> Seq(R)] /\ g[0] = <<>>
                         /\ \A i \in 1 .. m : g[i] = g[i - 1] \o seqs[i]
           T == {m \in Nat : m <= n => \E g : Good(m, g)}
<1>1. n \in Nat /\ \A i \in 1 .. n : seqs[i] \in Seq(R)
  OBVIOUS
<1> HIDE DEF n
<1>2. 0 \in T
  <2> DEFINE g == [i \in 0 .. 0 |-> <<>>]
  <2>1. Good(0, g)
    OBVIOUS
  <2> HIDE DEF Good
  <2> QED BY <2>1
<1>3. ASSUME NEW m \in T PROVE m + 1 \in T
  <2> HIDE DEF Good
  <2> SUFFICES ASSUME m + 1 <= n PROVE \E g : Good(m + 1, g)
    OBVIOUS
  <2>0. m \in Nat /\ m <= n
    BY <1>1
  <2>1. PICK g : Good(m, g)
    BY <2>0
  <2> USE DEF Good
  <2> DEFINE h == [i \in 0 .. m + 1 |-> IF i = m + 1 THEN g[m] \o seqs[m + 1] ELSE g[i]]
  <2>2. g[m] \in Seq(R) /\ seqs[m + 1] \in Seq(R)
    BY <1>1, <2>1
  <2>3. g[m] \o seqs[m + 1] \in Seq(R)
    BY <2>2, ConcatProperties
  <2>4. \A i \in 0 .. m + 1 : h[i] \in Seq(R)
    <3> SUFFICES ASSUME NEW i \in 0 .. m + 1 PROVE h[i] \in Seq(R)
      OBVIOUS
    <3>1. i = m + 1 \/ i \in 0 .. m
      OBVIOUS
    <3> QED BY <2>1, <2>3, <3>1
  <2>5. h[0] = <<>> /\ h \in [0 .. m + 1 -> Seq(R)]
    <3>1. h[0] = g[0]
      OBVIOUS
    <3> QED BY <2>1, <2>4, <3>1
  <2>6. ASSUME NEW i \in 1 .. m + 1 PROVE h[i] = h[i - 1] \o seqs[i]
    <3>1. CASE i = m + 1
      <4>1. m + 1 \in 0 .. m + 1 /\ m \in 0 .. m + 1 /\ m # m + 1 /\ i - 1 = m
        BY <2>0, <3>1
      <4>2. h[m + 1] = g[m] \o seqs[m + 1] /\ h[m] = g[m]
        BY <4>1
      <4> HIDE DEF h
      <4> QED BY <3>1, <4>1, <4>2
    <3>2. CASE i # m + 1
      <4>1. i \in 1 .. m /\ i - 1 \in 0 .. m /\ i - 1 # m + 1 /\ i - 1 \in 0 .. m + 1
        BY <3>2
      <4>2. h[i] = g[i] /\ h[i - 1] = g[i - 1]
        BY <3>2, <4>1
      <4> QED BY <2>1, <4>1, <4>2
    <3> QED BY <3>1, <3>2
  <2> HIDE DEF h
  <2>7. Good(m + 1, h)
    BY <2>5, <2>6
  <2> HIDE DEF Good
  <2> QED BY <2>7
<1>4. Nat \subseteq T
  <2> HIDE DEF T
  <2>1. \A m \in Nat : m \in T => m + 1 \in T
    BY <1>3
  <2> QED BY <1>2, <2>1, SetInduction
<1>5. \E g : Good(n, g)
  <2> HIDE DEF Good
  <2> QED BY <1>1, <1>4
<1> QED BY <1>5 DEF IsRunning, n

(* Three lists, put together in either order.                               *)
Joined3(x, y, z) == (x \o y) \o z = x \o (y \o z)

(* The order does not matter.                                               *)
LEMMA Associative == \A R : \A x, y, z \in Seq(R) : Joined3(x, y, z)
<1> SUFFICES ASSUME NEW R, NEW x \in Seq(R), NEW y \in Seq(R), NEW z \in Seq(R)
             PROVE  Joined3(x, y, z)
  OBVIOUS
<1> QED BY ConcatAssociative DEF Joined3

(* Lists of lists, one after the other.                                     *)
LEMMA FlattenConcat ==
  ASSUME NEW R, NEW a \in Seq(Seq(R)), NEW b \in Seq(Seq(R))
  PROVE  /\ FlattenSeq(a) \in Seq(R)
         /\ FlattenSeq(a \o b) = FlattenSeq(a) \o FlattenSeq(b)
<1> DEFINE n == Len(a)
           m == Len(b)
           c == a \o b
<1>1. n \in Nat /\ m \in Nat
  OBVIOUS
<1>2. /\ c \in Seq(Seq(R)) /\ Len(c) = n + m
      /\ \A i \in 1 .. n + m : c[i] = IF i <= n THEN a[i] ELSE b[i - n]
  <2> HIDE DEF c
  <2> QED BY ConcatProperties DEF c
<1>3. PICK f : IsRunning(a, R, f)
  BY RunningExists
<1>4. PICK g : IsRunning(b, R, g)
  BY RunningExists
<1>5. FlattenSeq(a) = f[n] /\ FlattenSeq(b) = g[m]
  BY <1>3, <1>4, FlattenIsRunning
<1>6. /\ \A i \in 0 .. n : f[i] \in Seq(R)
      /\ f[0] = <<>> /\ \A i \in 1 .. n : f[i] = f[i - 1] \o a[i]
  BY <1>3 DEF IsRunning
<1>7. /\ \A i \in 0 .. m : g[i] \in Seq(R)
      /\ g[0] = <<>> /\ \A i \in 1 .. m : g[i] = g[i - 1] \o b[i]
  BY <1>4 DEF IsRunning
<1>8. \A i \in 1 .. m : b[i] \in Seq(R)
  BY ElementOfSeq
<1> HIDE DEF n, m, c
<1> DEFINE h == [i \in 0 .. n + m |-> IF i <= n THEN f[i] ELSE f[n] \o g[i - n]]
<1>9. f[n] \in Seq(R) /\ f[n] \o g[0] = f[n]
  <2>1. f[n] \in Seq(R)
    BY <1>1, <1>6
  <2> QED BY <1>7, <2>1, ConcatEmptySeq
<1>10. \A i \in 0 .. m : h[n + i] = f[n] \o g[i]
  <2> SUFFICES ASSUME NEW i \in 0 .. m PROVE h[n + i] = f[n] \o g[i]
    OBVIOUS
  <2>1. CASE i = 0
    <3>1. h[n + i] = f[n]
      BY <1>1, <2>1
    <3> QED BY <1>9, <2>1, <3>1
  <2>2. CASE i # 0
    <3>1. n + i \in 0 .. n + m /\ ~(n + i <= n) /\ (n + i) - n = i
      BY <1>1, <2>2
    <3> QED BY <3>1
  <2> QED BY <2>1, <2>2
<1>11. \A i \in 0 .. n : h[i] = f[i]
  BY <1>1
<1>12. \A i \in 0 .. m : f[n] \o g[i] \in Seq(R)
  BY <1>7, <1>9, ConcatProperties
<1>13. h \in [0 .. n + m -> Seq(R)]
  <2> SUFFICES ASSUME NEW i \in 0 .. n + m PROVE h[i] \in Seq(R)
    OBVIOUS
  <2>1. CASE i <= n
    <3>1. i \in 0 .. n
      BY <1>1, <2>1
    <3> QED BY <1>6, <1>11, <3>1
  <2>2. CASE ~(i <= n)
    <3>1. i - n \in 0 .. m /\ n + (i - n) = i
      BY <1>1, <2>2
    <3> HIDE DEF h
    <3> QED BY <1>10, <1>12, <3>1
  <2> QED BY <2>1, <2>2
<1> HIDE DEF h
<1>14. ASSUME NEW i \in 1 .. n + m PROVE h[i] = h[i - 1] \o c[i]
  <2>1. CASE i <= n
    <3>1. i \in 1 .. n /\ i \in 0 .. n /\ i - 1 \in 0 .. n
      BY <1>1, <2>1
    <3>2. c[i] = a[i]
      BY <1>2, <2>1
    <3> QED BY <1>6, <1>11, <3>1, <3>2
  <2>2. CASE ~(i <= n)
    <3> DEFINE j == i - n
    <3>1. j \in 1 .. m /\ j \in 0 .. m /\ j - 1 \in 0 .. m /\ n + j = i /\ n + (j - 1) = i - 1
      BY <1>1, <2>2
    <3>2. c[i] = b[j]
      BY <1>2, <2>2
    <3> HIDE DEF j
    <3>3. h[i] = f[n] \o g[j] /\ h[i - 1] = f[n] \o g[j - 1]
      BY <1>10, <3>1
    <3>4. g[j] = g[j - 1] \o b[j]
      BY <1>7, <3>1
    <3>5. (f[n] \o g[j - 1]) \o b[j] = f[n] \o (g[j - 1] \o b[j])
      <4>1. f[n] \in Seq(R) /\ g[j - 1] \in Seq(R) /\ b[j] \in Seq(R)
        BY <1>7, <1>8, <1>9, <3>1
      <4>2. \A x, y, z \in Seq(R) : Joined3(x, y, z)
        BY Associative, Zenon
      <4>3. Joined3(f[n], g[j - 1], b[j])
        BY <4>1, <4>2, Zenon
      <4> QED BY <4>3 DEF Joined3
    <3> QED BY <3>2, <3>3, <3>4, <3>5
  <2> QED BY <2>1, <2>2
<1>15. IsRunning(c, R, h)
  <2>1. h[0] = <<>>
    <3>1. 0 \in 0 .. n
      BY <1>1
    <3> QED BY <1>6, <1>11, <3>1
  <2> QED BY <1>2, <1>13, <1>14, <2>1 DEF IsRunning
<1>16. FlattenSeq(c) = h[n + m]
  BY <1>2, <1>15, FlattenIsRunning
<1>17. m \in 0 .. m
  BY <1>1
<1> QED BY <1>5, <1>9, <1>10, <1>16, <1>17 DEF c

(* The rows of parts, as a list of lists.                                   *)
RowLists(parts) == [i \in DOMAIN parts |-> parts[i].rows]

(* Parts of a kind whose rows are of a kind.                                *)
HoldRows(P, R) == \A p \in P : p.rows \in Seq(R)

(* The lists of the rows of parts put together, part by part.               *)
LEMMA RowListsConcat ==
  ASSUME NEW P, NEW R, HoldRows(P, R), NEW a \in Seq(P), NEW b \in Seq(P)
  PROVE  /\ RowLists(a) \in Seq(Seq(R)) /\ Len(RowLists(a)) = Len(a)
         /\ RowLists(a \o b) = RowLists(a) \o RowLists(b)
<1> DEFINE n == Len(a)
           m == Len(b)
<1>1. /\ n \in Nat /\ m \in Nat /\ DOMAIN a = 1 .. n /\ DOMAIN b = 1 .. m
      /\ \A i \in 1 .. n : a[i] \in P
      /\ \A i \in 1 .. m : b[i] \in P
  BY LenProperties, ElementOfSeq
<1>2. /\ Len(a \o b) = n + m /\ DOMAIN (a \o b) = 1 .. n + m /\ (a \o b) \in Seq(P)
      /\ \A i \in 1 .. n + m : (a \o b)[i] = IF i <= n THEN a[i] ELSE b[i - n]
  <2>1. /\ (a \o b) \in Seq(P) /\ Len(a \o b) = n + m
        /\ \A i \in 1 .. n + m : (a \o b)[i] = IF i <= n THEN a[i] ELSE b[i - n]
    BY ConcatProperties
  <2> QED BY <2>1, LenProperties
<1> DEFINE c == a \o b
<1> HIDE DEF c, n, m
<1>3. RowLists(a) = [i \in 1 .. n |-> a[i].rows] /\ RowLists(b) = [i \in 1 .. m |-> b[i].rows]
  BY <1>1 DEF RowLists
<1>4. /\ RowLists(a) \in Seq(Seq(R)) /\ Len(RowLists(a)) = n
      /\ RowLists(b) \in Seq(Seq(R)) /\ Len(RowLists(b)) = m
  <2> DEFINE x == RowLists(a)
             y == RowLists(b)
  <2>1. /\ DOMAIN x = 1 .. n /\ x = [i \in 1 .. n |-> x[i]] /\ \A i \in 1 .. n : x[i] \in Seq(R)
        /\ DOMAIN y = 1 .. m /\ y = [i \in 1 .. m |-> y[i]] /\ \A i \in 1 .. m : y[i] \in Seq(R)
    BY <1>1, <1>3 DEF HoldRows
  <2> HIDE DEF x, y
  <2>2. x \in Seq(Seq(R)) /\ Len(x) = n
    BY <1>1, <2>1, ListOver
  <2>3. y \in Seq(Seq(R)) /\ Len(y) = m
    BY <1>1, <2>1, ListOver
  <2> QED BY <2>2, <2>3 DEF x, y
<1> DEFINE d == RowLists(a) \o RowLists(b)
           e == RowLists(c)
<1>5. /\ d \in Seq(Seq(R)) /\ Len(d) = n + m
      /\ \A i \in 1 .. n + m : d[i] = IF i <= n THEN RowLists(a)[i] ELSE RowLists(b)[i - n]
  BY <1>4, ConcatProperties
<1>6. e = [i \in 1 .. n + m |-> c[i].rows]
  BY <1>2 DEF RowLists, c
<1>7. \A i \in 1 .. n + m : c[i] \in P
  BY <1>2, ElementOfSeq DEF c
<1>8. e \in Seq(Seq(R)) /\ Len(e) = n + m
  <2>1. DOMAIN e = 1 .. n + m /\ e = [i \in 1 .. n + m |-> e[i]] /\ \A i \in 1 .. n + m : e[i] \in Seq(R)
    BY <1>6, <1>7 DEF HoldRows
  <2>2. n + m \in Nat
    BY <1>1
  <2> HIDE DEF e
  <2> QED BY <2>1, <2>2, ListOver
<1>9. \A i \in 1 .. n + m : e[i] = d[i]
  <2> SUFFICES ASSUME NEW i \in 1 .. n + m PROVE e[i] = d[i]
    OBVIOUS
  <2>1. e[i] = c[i].rows
    BY <1>6
  <2>2. CASE i <= n
    <3>1. i \in 1 .. n /\ c[i] = a[i]
      BY <1>1, <1>2, <2>2 DEF c
    <3>2. d[i] = RowLists(a)[i]
      BY <1>5, <2>2
    <3> QED BY <1>3, <2>1, <3>1, <3>2
  <2>3. CASE ~(i <= n)
    <3>1. i - n \in 1 .. m /\ c[i] = b[i - n]
      BY <1>1, <1>2, <2>3 DEF c
    <3>2. d[i] = RowLists(b)[i - n]
      BY <1>5, <2>3
    <3> QED BY <1>3, <2>1, <3>1, <3>2
  <2> QED BY <2>2, <2>3
<1> HIDE DEF d, e
<1>10. e = d
  BY <1>5, <1>8, <1>9, SeqEqual
<1> QED BY <1>4, <1>10 DEF c, d, e, n

(* The rows of parts put one after the other.                               *)
LEMMA RowsConcat ==
  ASSUME NEW P, NEW R, HoldRows(P, R), NEW a \in Seq(P), NEW b \in Seq(P)
  PROVE  /\ RowsOf(a) \in Seq(R)
         /\ RowsOf(a \o b) = RowsOf(a) \o RowsOf(b)
<1>1. \A parts : RowsOf(parts) = FlattenSeq(RowLists(parts))
  BY DEF RowsOf, RowLists
<1>2. /\ RowLists(a) \in Seq(Seq(R)) /\ RowLists(b) \in Seq(Seq(R))
      /\ RowLists(a \o b) = RowLists(a) \o RowLists(b)
  BY RowListsConcat
<1>3. /\ FlattenSeq(RowLists(a)) \in Seq(R)
      /\ FlattenSeq(RowLists(a) \o RowLists(b)) = FlattenSeq(RowLists(a)) \o FlattenSeq(RowLists(b))
  BY <1>2, FlattenConcat
<1> QED BY <1>1, <1>2, <1>3, Zenon

(* No part has no rows, one part its own.                                   *)
LEMMA RowsOfOne ==
  ASSUME NEW p
  PROVE  /\ RowsOf(<<>>) = <<>>
         /\ \A R : p.rows \in Seq(R) => RowsOf(<<p>>) = p.rows
<1>1. RowsOf(<<>>) = <<>>
  <2>1. RowLists(<<>>) = <<>> /\ RowsOf(<<>>) = FlattenSeq(RowLists(<<>>))
    BY DEF RowLists, RowsOf
  <2>2. FlattenSeq(<<>>) = <<>>
    BY DEF FlattenSeq
  <2> QED BY <2>1, <2>2
<1>2. ASSUME NEW R, p.rows \in Seq(R) PROVE RowsOf(<<p>>) = p.rows
  <2> DEFINE g == [i \in 0 .. 1 |-> IF i = 0 THEN <<>> ELSE p.rows]
             s == <<p.rows>>
  <2>1. RowLists(<<p>>) = s
    BY DEF RowLists
  <2>2. s \in Seq(Seq(R)) /\ Len(s) = 1 /\ s[1] = p.rows
    BY <1>2
  <2>3. g[0] = <<>> /\ g[1] = p.rows /\ g \in [0 .. 1 -> Seq(R)]
    BY <1>2
  <2>4. <<>> \o p.rows = p.rows
    BY <1>2, ConcatEmptySeq
  <2> HIDE DEF g, s
  <2>5. \A i \in 1 .. 1 : g[i] = g[i - 1] \o s[i]
    <3>1. \A i \in 1 .. 1 : i = 1 /\ i - 1 = 0
      OBVIOUS
    <3> QED BY <2>2, <2>3, <2>4, <3>1
  <2>6. IsRunning(s, R, g)
    BY <2>2, <2>3, <2>5 DEF IsRunning
  <2>7. FlattenSeq(s) = g[1]
    BY <2>2, <2>6, FlattenIsRunning
  <2> QED BY <2>1, <2>3, <2>7 DEF RowsOf, RowLists
<1> QED BY <1>1, <1>2

(* The rows of lists of parts, one list after the other.                    *)
LEMMA RowsOfFlat ==
  ASSUME NEW P, NEW R, HoldRows(P, R), NEW pss \in Seq(Seq(P))
  PROVE  /\ FlattenSeq(pss) \in Seq(P)
         /\ RowsOf(FlattenSeq(pss)) = FlattenSeq([i \in DOMAIN pss |-> RowsOf(pss[i])])
<1> DEFINE n == Len(pss)
           lists == [i \in DOMAIN pss |-> RowsOf(pss[i])]
<1>1. n \in Nat /\ DOMAIN pss = 1 .. n /\ \A i \in 1 .. n : pss[i] \in Seq(P)
  BY LenProperties, ElementOfSeq
<1>2. PICK g : IsRunning(pss, P, g)
  BY RunningExists
<1>3. /\ \A i \in 0 .. n : g[i] \in Seq(P)
      /\ g[0] = <<>> /\ \A i \in 1 .. n : g[i] = g[i - 1] \o pss[i]
  BY <1>2 DEF IsRunning
<1>4. FlattenSeq(pss) = g[n]
  BY <1>2, FlattenIsRunning
<1> HIDE DEF n
<1>5. \A s \in Seq(P) : RowsOf(s) \in Seq(R)
  BY RowsConcat
<1>6. lists \in Seq(Seq(R)) /\ Len(lists) = n /\ \A i \in 1 .. n : lists[i] = RowsOf(pss[i])
  <2>1. /\ DOMAIN lists = 1 .. n /\ lists = [i \in 1 .. n |-> lists[i]]
        /\ \A i \in 1 .. n : lists[i] = RowsOf(pss[i])
    BY <1>1
  <2> HIDE DEF lists
  <2>2. \A i \in 1 .. n : lists[i] \in Seq(R)
    BY <1>1, <1>5, <2>1
  <2> QED BY <1>1, <2>1, <2>2, ListOver
<1> HIDE DEF lists
<1> DEFINE h == [i \in 0 .. n |-> RowsOf(g[i])]
<1>7. h \in [0 .. n -> Seq(R)]
  BY <1>3, <1>5
<1>8. h[0] = <<>>
  <2>1. h[0] = RowsOf(<<>>)
    BY <1>1, <1>3
  <2> QED BY <2>1, RowsOfOne
<1>9. ASSUME NEW i \in 1 .. n PROVE h[i] = h[i - 1] \o lists[i]
  <2>1. i \in 0 .. n /\ i - 1 \in 0 .. n
    BY <1>1
  <2>2. h[i] = RowsOf(g[i]) /\ h[i - 1] = RowsOf(g[i - 1])
    BY <2>1
  <2>3. g[i - 1] \in Seq(P) /\ pss[i] \in Seq(P) /\ g[i] = g[i - 1] \o pss[i]
    BY <1>1, <1>3, <2>1
  <2>4. RowsOf(g[i - 1] \o pss[i]) = RowsOf(g[i - 1]) \o RowsOf(pss[i])
    BY <2>3, RowsConcat
  <2> HIDE DEF h
  <2> QED BY <1>6, <2>2, <2>3, <2>4
<1> HIDE DEF h
<1>10. IsRunning(lists, R, h)
  BY <1>6, <1>7, <1>8, <1>9 DEF IsRunning
<1>11. FlattenSeq(lists) = h[n]
  BY <1>6, <1>10, FlattenIsRunning
<1>12. h[n] = RowsOf(g[n]) /\ g[n] \in Seq(P)
  <2>1. n \in 0 .. n
    BY <1>1
  <2> QED BY <1>3, <2>1 DEF h
<1> QED BY <1>4, <1>11, <1>12 DEF lists

(* The smaller of two numbers.                                              *)
LEMMA MinOfTwo ==
  ASSUME NEW a \in Int, NEW b \in Int
  PROVE  Min({a, b}) = IF a <= b THEN a ELSE b
<1> DEFINE S == {a, b}
           Least(x) == \A y \in S : x <= y
           m == CHOOSE x \in S : Least(x)
<1>1. Min(S) = m
  BY DEF Min
<1>2. \E x \in S : Least(x)
  <2>1. a <= b \/ b <= a
    OBVIOUS
  <2> QED BY <2>1
<1>3. m \in S /\ Least(m)
  <2> HIDE DEF Least, S
  <2> QED BY <1>2
<1> HIDE DEF m
<1>4. (m = a \/ m = b) /\ m <= a /\ m <= b
  BY <1>3
<1>5. m = IF a <= b THEN a ELSE b
  BY <1>4
<1> QED BY <1>1, <1>5

(* Where the batches of a frame end.                                        *)
BatchEnd(n, size, k) == Min({k * size, n})
BatchCount(n, size) == (n + size - 1) \div size

(* The batches follow each other, none is larger than it may be, and the    *)
(* last one ends with the frame.                                            *)
LEMMA BatchEnds ==
  ASSUME NEW n \in Nat, NEW size \in Nat \ {0}, n > size
  PROVE  /\ BatchCount(n, size) \in Nat \ {0}
         /\ \A k \in 1 .. BatchCount(n, size) :
              /\ (k - 1) * size \in 0 .. n
              /\ BatchEnd(n, size, k) \in (k - 1) * size .. n
              /\ BatchEnd(n, size, k) - (k - 1) * size <= size
              /\ k > 1 => BatchEnd(n, size, k - 1) = (k - 1) * size
         /\ BatchEnd(n, size, BatchCount(n, size)) = n
<1> DEFINE m == BatchCount(n, size)
<1>1. /\ m \in Int
      /\ size * m <= n + size - 1 /\ n + size - 1 < size * m + size
  BY DEF BatchCount
<1> HIDE DEF m
<1>2. m > 0
  <2>1. SUFFICES ASSUME m <= 0 PROVE FALSE
    BY <1>1
  <2>2. size * m <= size * 0
    BY <1>1, <2>1, TimesIsMonotone
  <2> QED BY <1>1, <2>2
<1>3. ASSUME NEW k \in 1 .. m
      PROVE  /\ (k - 1) * size \in 0 .. n - 1 /\ k * size \in Int
             /\ k * size = (k - 1) * size + size
             /\ k < m => k * size <= n - 1
  <2>1. k \in Int /\ k - 1 \in Nat /\ k - 1 <= m - 1 /\ (k < m => k <= m - 1) /\ m - 1 \in Int
    BY <1>1, <1>2
  <2>2. /\ k * size = size * k /\ (k - 1) * size = size * (k - 1) /\ size * k = size * (k - 1) + size
        /\ size * (m - 1) = size * m - size
        /\ size * k \in Int /\ size * (k - 1) \in Nat
    BY <1>1, <2>1
  <2>3. size * (k - 1) <= size * (m - 1) /\ (k < m => size * k <= size * (m - 1))
    BY <2>1, TimesIsMonotone
  <2>4. size * (m - 1) <= n - 1
    BY <1>1, <2>2
  <2> DEFINE a == size * (k - 1)
             b == size * k
             c == size * (m - 1)
  <2>5. a \in Nat /\ b \in Int /\ c \in Int /\ b = a + size /\ a <= c /\ (k < m => b <= c) /\ c <= n - 1
    BY <1>1, <2>2, <2>3, <2>4
  <2> HIDE DEF a, b, c
  <2>6. a \in 0 .. n - 1 /\ (k < m => b <= n - 1)
    BY <2>5
  <2> QED BY <2>2, <2>5, <2>6 DEF a, b
<1>4. \A k \in 1 .. m : BatchEnd(n, size, k) = IF k * size <= n THEN k * size ELSE n
  BY <1>3, MinOfTwo DEF BatchEnd
<1>5. ASSUME NEW k \in 1 .. m
      PROVE  /\ (k - 1) * size \in 0 .. n
             /\ BatchEnd(n, size, k) \in (k - 1) * size .. n
             /\ BatchEnd(n, size, k) - (k - 1) * size <= size
             /\ k > 1 => BatchEnd(n, size, k - 1) = (k - 1) * size
  <2> DEFINE a == (k - 1) * size
             b == k * size
             e == BatchEnd(n, size, k)
  <2>1. a \in 0 .. n - 1 /\ b \in Int /\ b = a + size /\ e = IF b <= n THEN b ELSE n
    BY <1>3, <1>4
  <2>2. ASSUME k > 1 PROVE BatchEnd(n, size, k - 1) = a
    <3>1. k - 1 \in 1 .. m
      BY <1>1, <2>2
    <3>2. BatchEnd(n, size, k - 1) = IF a <= n THEN a ELSE n
      BY <1>4, <3>1
    <3> HIDE DEF a
    <3> QED BY <2>1, <3>2
  <2> HIDE DEF a, b, e
  <2>3. a \in 0 .. n /\ e \in a .. n /\ e - a <= size
    BY <2>1
  <2> QED BY <2>2, <2>3 DEF a, e
<1>6. BatchEnd(n, size, m) = n
  <2> DEFINE b == m * size
  <2>1. m \in 1 .. m /\ b = size * m /\ b \in Int
    BY <1>1, <1>2
  <2>2. BatchEnd(n, size, m) = IF b <= n THEN b ELSE n
    BY <1>4, <2>1
  <2>3. n <= b
    BY <1>1, <2>1
  <2> HIDE DEF b
  <2> QED BY <2>1, <2>2, <2>3
<1> QED BY <1>1, <1>2, <1>5, <1>6 DEF m

(* Titles are spelt with letters, numbered suffixes among them; parts are   *)
(* titled lists of rows.                                                    *)
IsAlphabet(L) ==
  /\ Letter("Sheet") \in L /\ Letter("Summary") \in L
  /\ \A k \in Nat : Suffix(k) \in L
Parts(L, R) == [name : Seq(L), rows : Seq(R)]

(* A part's name, or one numbered after it.                                 *)
NamedAfter(name, title) == name = title \/ \E k \in Nat \ {0} : name = Append(title, Suffix(k))

(* A frame in batches: all its rows in order, no batch too large, no two of *)
(* one name.                                                                *)
LEMMA BatchesOfOne ==
  ASSUME NEW L, NEW R, IsAlphabet(L), NEW part \in Parts(L, R), NEW size \in Nat \ {0}
  PROVE  LET b == BatchFrame(part, size)
         IN  /\ b \in Seq(Parts(L, R))
             /\ RowsOf(b) = part.rows
             /\ \A i \in 1 .. Len(b) : Len(b[i].rows) <= size /\ NamedAfter(b[i].name, part.name)
             /\ \A i, j \in 1 .. Len(b) : b[i].name = b[j].name => i = j
<1> DEFINE n == Len(part.rows)
           b == BatchFrame(part, size)
           rows == part.rows
<1>1. rows \in Seq(R) /\ part.name \in Seq(L) /\ n \in Nat
  BY DEF Parts
<1>2. CASE n <= size
  <2>1. b = <<part>>
    BY <1>2 DEF BatchFrame
  <2>2. <<part>> \in Seq(Parts(L, R)) /\ Len(<<part>>) = 1 /\ <<part>>[1] = part
    OBVIOUS
  <2>3. RowsOf(<<part>>) = part.rows
    BY <1>1, RowsOfOne
  <2>4. \A i \in 1 .. 1 : i = 1
    OBVIOUS
  <2>5. NamedAfter(part.name, part.name)
    BY DEF NamedAfter
  <2> HIDE DEF n, b, rows
  <2> QED BY <1>2, <2>1, <2>2, <2>3, <2>4, <2>5 DEF b, n
<1>3. CASE n > size
  <2> DEFINE m == BatchCount(n, size)
             lo(k) == (k - 1) * size
             hi(k) == BatchEnd(n, size, k)
             batch(k) == Part(Append(part.name, Suffix(k)), SubSeq(rows, lo(k) + 1, hi(k)))
  <2>1. b = [k \in 1 .. m |-> batch(k)]
    <3>1. ~(n <= size)
      BY <1>1, <1>3
    <3> QED BY <3>1, Zenon DEF BatchFrame, BatchCount, BatchEnd
  <2>2. /\ m \in Nat \ {0}
        /\ \A k \in 1 .. m : /\ lo(k) \in 0 .. n /\ hi(k) \in lo(k) .. n /\ hi(k) - lo(k) <= size
                             /\ k > 1 => hi(k - 1) = lo(k)
        /\ hi(m) = n
    BY <1>1, <1>3, BatchEnds
  <2>3. lo(1) = 0
    OBVIOUS
  <2> HIDE DEF m, lo, hi
  <2>4. ASSUME NEW k \in 1 .. m
        PROVE  /\ SubSeq(rows, lo(k) + 1, hi(k)) \in Seq(R)
               /\ Len(SubSeq(rows, lo(k) + 1, hi(k))) <= size
               /\ SubSeq(rows, 1, hi(k)) \in Seq(R)
    <3>1. lo(k) \in Nat /\ hi(k) \in Nat /\ lo(k) <= hi(k) /\ hi(k) <= n /\ hi(k) - lo(k) <= size
      BY <1>1, <2>2
    <3>2. \A i \in 1 .. n : rows[i] \in R
      BY <1>1, ElementOfSeq
    <3> HIDE DEF n, rows
    <3>3. (\A i \in lo(k) + 1 .. hi(k) : rows[i] \in R) /\ (\A i \in 1 .. hi(k) : rows[i] \in R)
      BY <1>1, <3>1, <3>2
    <3>4. lo(k) + 1 \in Int /\ hi(k) \in Int /\ 1 \in Int
      BY <3>1
    <3>5. /\ SubSeq(rows, lo(k) + 1, hi(k)) \in Seq(R)
          /\ Len(SubSeq(rows, lo(k) + 1, hi(k)))
               = IF lo(k) + 1 <= hi(k) THEN hi(k) - (lo(k) + 1) + 1 ELSE 0
          /\ SubSeq(rows, 1, hi(k)) \in Seq(R)
      BY <3>3, <3>4, SubSeqProperties
    <3>6. (IF lo(k) + 1 <= hi(k) THEN hi(k) - (lo(k) + 1) + 1 ELSE 0) <= size
      BY <3>1
    <3> QED BY <3>5, <3>6
  <2>5. \A k \in 1 .. m : Suffix(k) \in L /\ Append(part.name, Suffix(k)) \in Seq(L)
    <3> SUFFICES ASSUME NEW k \in 1 .. m
                 PROVE  Suffix(k) \in L /\ Append(part.name, Suffix(k)) \in Seq(L)
      OBVIOUS
    <3>1. Suffix(k) \in L
      BY <2>2 DEF IsAlphabet
    <3> QED BY <1>1, <3>1, AppendProperties
  <2>6. \A k \in 1 .. m : /\ batch(k) \in Parts(L, R)
                          /\ batch(k).name = Append(part.name, Suffix(k))
                          /\ batch(k).rows = SubSeq(rows, lo(k) + 1, hi(k))
    BY <2>4, <2>5 DEF Part, Parts
  <2> HIDE DEF batch
  <2>7. /\ b \in Seq(Parts(L, R)) /\ Len(b) = m
        /\ \A k \in 1 .. m : b[k] = batch(k)
    <3>1. /\ DOMAIN b = 1 .. m /\ b = [i \in 1 .. m |-> b[i]]
          /\ \A k \in 1 .. m : b[k] = batch(k)
      BY <2>1
    <3> HIDE DEF b
    <3>2. \A k \in 1 .. m : b[k] \in Parts(L, R)
      BY <2>6, <3>1
    <3> QED BY <2>2, <3>1, <3>2, ListOver
  <2> HIDE DEF b
  <2> DEFINE lists == RowLists(b)
             g == [k \in 0 .. m |-> IF k = 0 THEN <<>> ELSE SubSeq(rows, 1, hi(k))]
  <2>8. lists \in Seq(Seq(R)) /\ Len(lists) = m /\ \A k \in 1 .. m : lists[k] = SubSeq(rows, lo(k) + 1, hi(k))
    <3>1. HoldRows(Parts(L, R), R)
      BY DEF HoldRows, Parts
    <3>2. lists \in Seq(Seq(R)) /\ Len(lists) = m
      BY <2>7, <3>1, RowListsConcat
    <3>3. DOMAIN b = 1 .. m
      BY <2>7, LenProperties
    <3>4. \A k \in 1 .. m : lists[k] = b[k].rows
      BY <3>3 DEF RowLists
    <3> QED BY <2>6, <2>7, <3>2, <3>4
  <2> HIDE DEF lists
  <2>9. g[0] = <<>> /\ (\A k \in 1 .. m : g[k] = SubSeq(rows, 1, hi(k))) /\ g \in [0 .. m -> Seq(R)]
    <3>1. g[0] = <<>> /\ (\A k \in 1 .. m : g[k] = SubSeq(rows, 1, hi(k)))
      BY <2>2
    <3>2. \A k \in 0 .. m : k = 0 \/ k \in 1 .. m
      BY <2>2
    <3>3. \A k \in 0 .. m : (IF k = 0 THEN <<>> ELSE SubSeq(rows, 1, hi(k))) \in Seq(R)
      BY <2>4, <3>2, EmptySeq
    <3> QED BY <3>1, <3>3
  <2> HIDE DEF g
  <2>10. ASSUME NEW k \in 1 .. m PROVE g[k] = g[k - 1] \o lists[k]
    <3>1. lo(k) \in 0 .. n /\ hi(k) \in lo(k) .. n
      BY <2>2
    <3>2. g[k - 1] = SubSeq(rows, 1, lo(k))
      <4>1. CASE k = 1
        <5>1. SubSeq(rows, 1, 0) = <<>>
          BY SubSeqEmpty
        <5>2. k - 1 = 0 /\ lo(k) = 0
          BY <2>3, <4>1
        <5> QED BY <2>9, <5>1, <5>2, Zenon
      <4>2. CASE k # 1
        <5>1. k - 1 \in 1 .. m /\ k > 1
          BY <2>2, <4>2
        <5> QED BY <2>2, <2>9, <5>1
      <4> QED BY <4>1, <4>2
    <3>3. SubSeq(rows, 1, lo(k)) \o SubSeq(rows, lo(k) + 1, hi(k)) = SubSeq(rows, 1, hi(k))
      <4>1. 1 \in 1 .. n + 1 /\ lo(k) \in 1 - 1 .. n /\ hi(k) \in lo(k) .. n
        BY <1>1, <3>1
      <4> QED BY <1>1, <4>1, ConcatAdjacentSubSeq
    <3> QED BY <2>8, <2>9, <3>2, <3>3
  <2>11. IsRunning(lists, R, g)
    BY <2>8, <2>9, <2>10 DEF IsRunning
  <2>12. RowsOf(b) = rows
    <3>1. FlattenSeq(lists) = g[m]
      BY <2>8, <2>11, FlattenIsRunning
    <3>2. m \in 1 .. m
      BY <2>2
    <3>3. g[m] = SubSeq(rows, 1, n)
      BY <2>2, <2>9, <3>2
    <3>4. SubSeq(rows, 1, n) = rows
      BY <1>1, SubSeqFull
    <3> QED BY <3>1, <3>3, <3>4 DEF RowsOf, lists, RowLists
  <2>13. ASSUME NEW i \in 1 .. m, NEW j \in 1 .. m, b[i].name = b[j].name PROVE i = j
    <3>1. Append(part.name, Suffix(i)) = Append(part.name, Suffix(j))
      BY <2>6, <2>7, <2>13
    <3>2. Suffix(i) = Suffix(j)
      BY <1>1, <2>5, <3>1, AppendInjective
    <3> QED BY <3>2 DEF Suffix
  <2>14. ASSUME NEW i \in 1 .. m
         PROVE  Len(b[i].rows) <= size /\ NamedAfter(b[i].name, part.name)
    <3>1. b[i].rows = SubSeq(rows, lo(i) + 1, hi(i)) /\ b[i].name = Append(part.name, Suffix(i))
      BY <2>6, <2>7
    <3>2. Len(SubSeq(rows, lo(i) + 1, hi(i))) <= size
      BY <2>4
    <3>3. Len(b[i].rows) <= size
      BY <3>1, <3>2, Zenon
    <3>4. i \in Nat \ {0}
      BY <2>2
    <3> QED BY <3>1, <3>3, <3>4, Zenon DEF NamedAfter
  <2> QED BY <2>7, <2>12, <2>13, <2>14 DEF b
<1> QED BY <1>1, <1>2, <1>3

-----------------------------------------------------------------------------
(* Folds over a list.                                                       *)

(* The largest number of an interval, and of a part of it.                  *)
LEMMA LargestOfMany ==
  ASSUME NEW n \in Nat
  PROVE  /\ \A s \in SUBSET (1 .. n) : s # {} =>
              Max(s) \in s /\ s \ {Max(s)} \in SUBSET (1 .. n)
         /\ \A k \in 1 .. n : Max(1 .. k) = k /\ (1 .. k) \ {k} = 1 .. k - 1
<1>1. ASSUME NEW s \in SUBSET (1 .. n), s # {} PROVE Max(s) \in s /\ \A y \in s : Max(s) >= y
  <2>1. IsFiniteSet(1 .. n)
    BY FS_Interval
  <2>2. s \subseteq 1 .. n
    OBVIOUS
  <2>3. IsFiniteSet(s)
    BY <2>1, <2>2, FS_Subset, Zenon
  <2>4. s \in SUBSET Int
    BY <2>2
  <2> QED BY <1>1, <2>3, <2>4, FiniteBounds
<1>2. ASSUME NEW k \in 1 .. n PROVE Max(1 .. k) = k /\ (1 .. k) \ {k} = 1 .. k - 1
  <2>1. (1 .. k) \in SUBSET (1 .. n) /\ k \in 1 .. k
    OBVIOUS
  <2> DEFINE m == Max(1 .. k)
  <2>2. m \in 1 .. k /\ m >= k
    BY <1>1, <2>1
  <2> HIDE DEF m
  <2>3. m = k
    BY <2>2
  <2> QED BY <2>3 DEF m
<1> QED BY <1>1, <1>2

(* A table of a fold over parts of an interval: whatever is folded, as long *)
(* as it stays in a set.                                                    *)
IsFoldTable(base, step, D, it) ==
  it = [s \in D |-> IF s = {} THEN base ELSE step[<<Max(s), it[s \ {Max(s)}]>>]]

(* There is such a table.                                                   *)
LEMMA FoldTableExists ==
  ASSUME NEW V, NEW base \in V, NEW n \in Nat, NEW step,
         \A i \in 1 .. n : \A v \in V : step[<<i, v>>] \in V
  PROVE  \E it : /\ IsFoldTable(base, step, SUBSET (1 .. n), it)
                 /\ \A s \in SUBSET (1 .. n) : it[s] \in V
<1> DEFINE Level(c) == {s \in SUBSET (1 .. n) : Cardinality(s) <= c}
           Good(c, it) == /\ IsFoldTable(base, step, Level(c), it)
                          /\ \A s \in Level(c) : it[s] \in V
           T == {c \in Nat : \E it : Good(c, it)}
<1>1. \A s \in SUBSET (1 .. n) : IsFiniteSet(s) /\ Cardinality(s) \in Nat /\ Cardinality(s) <= n
  <2>1. IsFiniteSet(1 .. n) /\ Cardinality(1 .. n) = n
    <3>1. IsFiniteSet(1 .. n) /\ Cardinality(1 .. n) = IF 1 > n THEN 0 ELSE n - 1 + 1
      BY FS_Interval
    <3> QED BY <3>1
  <2> QED BY <2>1, FS_Subset, FS_CardinalityType
<1>2. \A s \in SUBSET (1 .. n) : s # {} => Max(s) \in 1 .. n /\ Max(s) \in s
  BY LargestOfMany
<1>3. Level(0) = {{}}
  <2>1. Cardinality({}) = 0
    BY FS_EmptySet
  <2>2. \A s \in SUBSET (1 .. n) : Cardinality(s) <= 0 => s = {}
    BY <1>1, FS_EmptySet
  <2> QED BY <2>1, <2>2
<1>4. 0 \in T
  <2> DEFINE it == [s \in {{}} |-> base]
  <2>1. it = [s \in {{}} |-> IF s = {} THEN base ELSE step[<<Max(s), it[s \ {Max(s)}]>>]]
    OBVIOUS
  <2>2. \A s \in {{}} : it[s] \in V
    OBVIOUS
  <2> HIDE DEF it, Level
  <2>3. Good(0, it)
    BY <1>3, <2>1, <2>2, Zenon DEF IsFoldTable
  <2> HIDE DEF Good
  <2> QED BY <2>3
<1>5. ASSUME NEW c \in Nat, c \in T PROVE c + 1 \in T
  <2>1. PICK it : Good(c, it)
    <3> HIDE DEF Good
    <3> QED BY <1>5
  <2> DEFINE value(f, s) == IF s = {} THEN base ELSE step[<<Max(s), f[s \ {Max(s)}]>>]
             more == [s \in Level(c + 1) |-> value(it, s)]
  <2>2. ASSUME NEW s \in Level(c + 1), s # {} PROVE s \ {Max(s)} \in Level(c)
    <3>1. s \in SUBSET (1 .. n) /\ Max(s) \in s /\ IsFiniteSet(s) /\ Cardinality(s) <= c + 1
      BY <1>1, <1>2, <2>2
    <3>2. Cardinality(s \ {Max(s)}) = Cardinality(s) - 1
      BY <3>1, FS_RemoveElement
    <3>3. Cardinality(s) \in Nat
      BY <1>1, <3>1
    <3>4. Cardinality(s) - 1 <= c
      BY <3>1, <3>3
    <3>5. Cardinality(s \ {Max(s)}) <= c
      BY <3>2, <3>4, Zenon
    <3>6. s \ {Max(s)} \in SUBSET (1 .. n)
      BY <3>1
    <3> QED BY <3>5, <3>6, Zenon
  <2>3. \A s \in Level(c) : s \in Level(c + 1)
    <3>1. \A s \in SUBSET (1 .. n) : Cardinality(s) <= c => Cardinality(s) <= c + 1
      BY <1>1
    <3> QED BY <3>1
  <2>4. \A s \in Level(c) : it[s] = value(it, s) /\ it[s] \in V
    BY <2>1 DEF IsFoldTable
  <2> HIDE DEF Level
  <2>5. \A s \in Level(c) : more[s] = it[s]
    <3> HIDE DEF value
    <3> QED BY <2>3, <2>4
  <2>6. ASSUME NEW s \in Level(c + 1) PROVE value(more, s) = value(it, s)
    <3> HIDE DEF more
    <3>1. CASE s = {}
      BY <3>1
    <3>2. CASE s # {}
      <4>1. more[s \ {Max(s)}] = it[s \ {Max(s)}]
        BY <2>2, <2>5, <3>2
      <4> QED BY <4>1, Zenon
    <3> QED BY <3>1, <3>2
  <2>7. IsFoldTable(base, step, Level(c + 1), more)
    <3> DEFINE again == [s \in Level(c + 1) |-> value(more, s)]
    <3>1. \A s \in Level(c + 1) : more[s] = again[s]
      BY <2>6, Zenon
    <3>2. more = again
      BY <3>1
    <3> QED BY <3>2, Zenon DEF IsFoldTable
  <2>8. ASSUME NEW s \in Level(c + 1) PROVE more[s] \in V
    <3>1. CASE s = {}
      BY <3>1
    <3>2. CASE s # {}
      <4>1. it[s \ {Max(s)}] \in V /\ Max(s) \in 1 .. n
        BY <1>2, <2>2, <2>4, <3>2 DEF Level
      <4>2. more[s] = step[<<Max(s), it[s \ {Max(s)}]>>]
        BY <3>2
      <4> QED BY <4>1, <4>2
    <3> QED BY <3>1, <3>2
  <2> HIDE DEF more
  <2>9. Good(c + 1, more)
    BY <2>7, <2>8
  <2> HIDE DEF Good
  <2> QED BY <2>9
<1>6. n \in T
  <2> HIDE DEF T
  <2>1. \A c \in Nat : c \in T => c + 1 \in T
    BY <1>5
  <2>2. Nat \subseteq T
    BY <1>4, <2>1, SetInduction
  <2> QED BY <2>2
<1>7. Level(n) = SUBSET (1 .. n)
  BY <1>1
<1>8. PICK it : Good(n, it)
  <2> HIDE DEF Good
  <2> QED BY <1>6
<1>9. /\ IsFoldTable(base, step, SUBSET (1 .. n), it)
      /\ \A s \in SUBSET (1 .. n) : it[s] \in V
  <2> HIDE DEF Level
  <2> QED BY <1>7, <1>8
<1> QED BY <1>9

-----------------------------------------------------------------------------
(* The elements of a list that belong to a set.                             *)

(* What has been kept after each element.                                   *)
Kept(s, S, h, k) == IF s[k] \in S THEN Append(h[k - 1], s[k]) ELSE h[k - 1]
IsKept(s, S, h) == h[0] = <<>> /\ \A k \in 1 .. Len(s) : h[k] = Kept(s, S, h, k)

(* Something has always been kept, and Among is what has been kept in the   *)
(* end.                                                                     *)
LEMMA AmongIsKept ==
  ASSUME NEW R, NEW s \in Seq(R), NEW S
  PROVE  \E h : /\ IsKept(s, S, h) /\ Among(s, S) = h[Len(s)]
                /\ \A k \in 0 .. Len(s) : h[k] \in Seq(R)
<1> DEFINE n == Len(s)
           D == SUBSET (1 .. n)
           next(kept, x) == IF x \in S THEN Append(kept, x) ELSE kept
           step == [p \in (1 .. n) \X Seq(R) |-> next(p[2], s[p[1]])]
           IsIter(it) == it = [t \in D |-> IF t = {} THEN <<>>
                                           ELSE next(it[t \ {Max(t)}], s[Max(t)])]
           iter == CHOOSE it : IsIter(it)
<1>1. n \in Nat /\ DOMAIN s = 1 .. n /\ \A i \in 1 .. n : s[i] \in R
  BY LenProperties, ElementOfSeq
<1>2. Among(s, S) = iter[1 .. n]
  <2>1. Among(s, S) = (CHOOSE it : it = [t \in SUBSET (DOMAIN s) |-> IF t = {} THEN <<>>
                         ELSE next(it[t \ {Max(t)}], s[Max(t)])])[DOMAIN s]
    BY DEF Among, FoldLeft, MapThenFoldSet
  <2> QED BY <1>1, <2>1, Zenon
<1> HIDE DEF n
<1>3. \A i \in 1 .. n : \A v \in Seq(R) : step[<<i, v>>] = next(v, s[i]) /\ step[<<i, v>>] \in Seq(R)
  <2> SUFFICES ASSUME NEW i \in 1 .. n, NEW v \in Seq(R)
               PROVE  step[<<i, v>>] = next(v, s[i]) /\ step[<<i, v>>] \in Seq(R)
    OBVIOUS
  <2>1. step[<<i, v>>] = next(v, s[i])
    OBVIOUS
  <2>2. Append(v, s[i]) \in Seq(R)
    BY <1>1, AppendProperties
  <2> HIDE DEF step
  <2> QED BY <2>1, <2>2
<1> HIDE DEF step
<1>4. PICK it : /\ IsFoldTable(<<>>, step, D, it)
                /\ \A t \in D : it[t] \in Seq(R)
  <2>1. \A i \in 1 .. n : \A v \in Seq(R) : step[<<i, v>>] \in Seq(R)
    BY <1>3
  <2>2. <<>> \in Seq(R)
    BY EmptySeq
  <2> HIDE DEF next
  <2> QED BY <1>1, <2>1, <2>2, FoldTableExists
<1>5. \A t \in D : t # {} => Max(t) \in 1 .. n /\ t \ {Max(t)} \in D
  BY <1>1, LargestOfMany
<1>6. IsIter(it)
  <2> HIDE DEF next
  <2>1. it = [t \in D |-> IF t = {} THEN <<>> ELSE step[<<Max(t), it[t \ {Max(t)}]>>]]
    BY <1>4, Zenon DEF IsFoldTable
  <2>2. \A t \in D : t # {} => step[<<Max(t), it[t \ {Max(t)}]>>] = next(it[t \ {Max(t)}], s[Max(t)])
    <3> HIDE DEF D
    <3> QED BY <1>3, <1>4, <1>5
  <2> DEFINE other == [t \in D |-> IF t = {} THEN <<>> ELSE next(it[t \ {Max(t)}], s[Max(t)])]
             same == [t \in D |-> IF t = {} THEN <<>> ELSE step[<<Max(t), it[t \ {Max(t)}]>>]]
  <2>3. \A t \in D : same[t] = other[t]
    <3> SUFFICES ASSUME NEW t \in D PROVE same[t] = other[t]
      OBVIOUS
    <3>1. CASE t = {}
      BY <3>1
    <3>2. CASE t # {}
      <4>1. step[<<Max(t), it[t \ {Max(t)}]>>] = next(it[t \ {Max(t)}], s[Max(t)])
        BY <2>2, <3>2
      <4> HIDE DEF D
      <4> QED BY <3>2, <4>1
    <3> QED BY <3>1, <3>2
  <2>4. same = other
    <3> HIDE DEF D
    <3> QED BY <2>3
  <2> QED BY <2>1, <2>4
<1>7. IsIter(iter)
  <2> HIDE DEF IsIter
  <2> QED BY <1>6
<1> HIDE DEF iter
<1> DEFINE h == [k \in 0 .. n |-> iter[1 .. k]]
<1>8. h[0] = <<>>
  <2>1. 1 .. 0 = {} /\ {} \in D /\ 0 \in 0 .. n
    BY <1>1
  <2>2. iter[{}] = <<>>
    BY <1>7, <2>1
  <2> QED BY <2>1, <2>2
<1>9. ASSUME NEW k \in 1 .. n PROVE h[k] = next(h[k - 1], s[k])
  <2>0. Max(1 .. k) = k /\ (1 .. k) \ {k} = 1 .. k - 1
    BY <1>1, LargestOfMany
  <2>00. (1 .. k) \in D /\ 1 .. k # {} /\ k \in 0 .. n /\ k - 1 \in 0 .. n
    BY <1>1
  <2>1. /\ Max(1 .. k) = k /\ (1 .. k) \ {k} = 1 .. k - 1 /\ (1 .. k) \in D /\ 1 .. k # {}
        /\ k \in 0 .. n /\ k - 1 \in 0 .. n
    BY <2>0, <2>00, Zenon
  <2>2. iter[1 .. k] = next(iter[(1 .. k) \ {Max(1 .. k)}], s[Max(1 .. k)])
    <3> HIDE DEF next, D
    <3> QED BY <1>7, <2>1
  <2>3. h[k] = iter[1 .. k] /\ h[k - 1] = iter[1 .. k - 1]
    BY <2>1
  <2> HIDE DEF h, next
  <2> QED BY <2>1, <2>2, <2>3
<1>10. h[n] = iter[1 .. n]
  BY <1>1
<1> HIDE DEF h
<1>11. IsKept(s, S, h)
  BY <1>8, <1>9 DEF IsKept, Kept, n
<1> DEFINE G == {k \in Nat : k <= n => h[k] \in Seq(R)}
<1>12. 0 \in G
  BY <1>8, EmptySeq
<1>13. ASSUME NEW k \in Nat, k \in G PROVE k + 1 \in G
  <2> SUFFICES ASSUME k + 1 <= n PROVE h[k + 1] \in Seq(R)
    OBVIOUS
  <2>1. k + 1 \in 1 .. n /\ k <= n /\ (k + 1) - 1 = k
    BY <1>1
  <2>2. h[k] \in Seq(R) /\ h[k + 1] = next(h[k], s[k + 1]) /\ s[k + 1] \in R
    BY <1>1, <1>9, <1>13, <2>1
  <2>3. Append(h[k], s[k + 1]) \in Seq(R)
    BY <2>2, AppendProperties
  <2> QED BY <2>2, <2>3
<1>14. Nat \subseteq G
  <2> HIDE DEF G
  <2>1. \A k \in Nat : k \in G => k + 1 \in G
    BY <1>13
  <2> QED BY <1>12, <2>1, SetInduction
<1>15. \A k \in 0 .. n : h[k] \in Seq(R)
  BY <1>14
<1> QED BY <1>2, <1>10, <1>11, <1>15 DEF n

(* What is kept of a list is kept in one way only.                          *)
LEMMA KeptIsAmong ==
  ASSUME NEW R, NEW s \in Seq(R), NEW S, NEW h, IsKept(s, S, h)
  PROVE  Among(s, S) = h[Len(s)]
<1>1. PICK g : IsKept(s, S, g) /\ Among(s, S) = g[Len(s)]
  BY AmongIsKept, Zenon
<1> DEFINE n == Len(s)
           T == {k \in Nat : k <= n => h[k] = g[k]}
<1>2. n \in Nat
  OBVIOUS
<1> HIDE DEF n
<1>3. 0 \in T
  BY <1>1 DEF IsKept
<1>4. ASSUME NEW k \in Nat, k \in T PROVE k + 1 \in T
  <2> SUFFICES ASSUME k + 1 <= n PROVE h[k + 1] = g[k + 1]
    OBVIOUS
  <2>1. k + 1 \in 1 .. n /\ k <= n /\ (k + 1) - 1 = k
    BY <1>2
  <2>2. h[k] = g[k]
    BY <1>4, <2>1
  <2>3. h[k + 1] = Kept(s, S, h, k + 1) /\ g[k + 1] = Kept(s, S, g, k + 1)
    BY <1>1, <2>1 DEF IsKept, n
  <2>4. Kept(s, S, h, k + 1) = Kept(s, S, g, k + 1)
    BY <2>1, <2>2, Zenon DEF Kept
  <2> QED BY <2>3, <2>4
<1>5. Nat \subseteq T
  <2> HIDE DEF T
  <2>1. \A k \in Nat : k \in T => k + 1 \in T
    BY <1>4
  <2> QED BY <1>3, <2>1, SetInduction
<1>6. h[n] = g[n]
  BY <1>2, <1>5
<1> QED BY <1>1, <1>6 DEF n

(* An element appended to the second of two lists, or to both together.     *)
Appended(x, y, z) == x \o Append(y, z) = Append(x \o y, z)

(* It is the same.                                                          *)
LEMMA AppendAfterConcat == \A R : \A x, y \in Seq(R) : \A z \in R : Appended(x, y, z)
<1> SUFFICES ASSUME NEW R, NEW x \in Seq(R), NEW y \in Seq(R), NEW z \in R
             PROVE  Appended(x, y, z)
  OBVIOUS
<1>1. x \o y \in Seq(R) /\ <<z>> \in Seq(R)
  BY ConcatProperties
<1>2. Append(y, z) = y \o <<z>>
  BY AppendIsConcat
<1>3. Append(x \o y, z) = (x \o y) \o <<z>>
  BY <1>1, AppendIsConcat
<1>4. (x \o y) \o <<z>> = x \o (y \o <<z>>)
  <2>1. Joined3(x, y, <<z>>)
    BY <1>1, Associative, Zenon
  <2> QED BY <2>1 DEF Joined3
<1> QED BY <1>2, <1>3, <1>4 DEF Appended

(* What is kept of two lists, in either way.                                *)
KeptTogether(a, b, S) == Among(a \o b, S) = Among(a, S) \o Among(b, S)

(* What is kept of two lists is what is kept of each.                       *)
LEMMA AmongConcat ==
  ASSUME NEW R, NEW a \in Seq(R), NEW b \in Seq(R), NEW S
  PROVE  Among(a, S) \in Seq(R) /\ KeptTogether(a, b, S)
<1> DEFINE n == Len(a)
           m == Len(b)
           c == a \o b
<1>1. n \in Nat /\ m \in Nat
  OBVIOUS
<1>2. /\ c \in Seq(R) /\ Len(c) = n + m
      /\ \A i \in 1 .. n + m : c[i] = IF i <= n THEN a[i] ELSE b[i - n]
  <2> HIDE DEF c
  <2> QED BY ConcatProperties DEF c
<1>3. PICK f : /\ IsKept(a, S, f) /\ Among(a, S) = f[n]
               /\ \A k \in 0 .. n : f[k] \in Seq(R)
  BY AmongIsKept
<1>4. PICK g : /\ IsKept(b, S, g) /\ Among(b, S) = g[m]
               /\ \A k \in 0 .. m : g[k] \in Seq(R)
  BY AmongIsKept
<1>5. \A i \in 1 .. m : b[i] \in R
  BY ElementOfSeq
<1>6. /\ f[0] = <<>> /\ \A k \in 1 .. n : f[k] = Kept(a, S, f, k)
      /\ g[0] = <<>> /\ \A k \in 1 .. m : g[k] = Kept(b, S, g, k)
  BY <1>3, <1>4 DEF IsKept
<1> HIDE DEF n, m, c
<1>7. f[n] \in Seq(R) /\ f[n] \o g[0] = f[n]
  <2>1. f[n] \in Seq(R)
    BY <1>1, <1>3
  <2> QED BY <1>6, <2>1, ConcatEmptySeq
<1> DEFINE h == [i \in 0 .. n + m |-> IF i <= n THEN f[i] ELSE f[n] \o g[i - n]]
<1>8. \A i \in 0 .. m : h[n + i] = f[n] \o g[i]
  <2> SUFFICES ASSUME NEW i \in 0 .. m PROVE h[n + i] = f[n] \o g[i]
    OBVIOUS
  <2>1. CASE i = 0
    <3>1. h[n + i] = f[n]
      BY <1>1, <2>1
    <3> QED BY <1>7, <2>1, <3>1
  <2>2. CASE i # 0
    <3>1. n + i \in 0 .. n + m /\ ~(n + i <= n) /\ (n + i) - n = i
      BY <1>1, <2>2
    <3> QED BY <3>1
  <2> QED BY <2>1, <2>2
<1>9. \A i \in 0 .. n : h[i] = f[i]
  BY <1>1
<1> HIDE DEF h
<1>10. ASSUME NEW i \in 1 .. n + m PROVE h[i] = Kept(c, S, h, i)
  <2>1. CASE i <= n
    <3>1. i \in 1 .. n /\ i \in 0 .. n /\ i - 1 \in 0 .. n
      BY <1>1, <2>1
    <3>2. c[i] = a[i]
      BY <1>2, <2>1
    <3>3. h[i] = f[i] /\ h[i - 1] = f[i - 1] /\ f[i] = Kept(a, S, f, i)
      BY <1>6, <1>9, <3>1
    <3> QED BY <3>2, <3>3, Zenon DEF Kept
  <2>2. CASE ~(i <= n)
    <3> DEFINE j == i - n
    <3>1. j \in 1 .. m /\ j \in 0 .. m /\ j - 1 \in 0 .. m /\ n + j = i /\ n + (j - 1) = i - 1
      BY <1>1, <2>2
    <3>2. c[i] = b[j]
      BY <1>2, <2>2
    <3> HIDE DEF j
    <3>3. h[i] = f[n] \o g[j] /\ h[i - 1] = f[n] \o g[j - 1]
      BY <1>8, <3>1
    <3>4. g[j] = Kept(b, S, g, j) /\ g[j - 1] \in Seq(R) /\ b[j] \in R
      BY <1>4, <1>5, <1>6, <3>1
    <3>5. f[n] \o Append(g[j - 1], b[j]) = Append(f[n] \o g[j - 1], b[j])
      <4>1. f[n] \in Seq(R) /\ g[j - 1] \in Seq(R) /\ b[j] \in R
        BY <1>7, <3>4
      <4>2. Appended(f[n], g[j - 1], b[j])
        BY <4>1, AppendAfterConcat, Zenon
      <4> QED BY <4>2 DEF Appended
    <3>6. CASE b[j] \in S
      <4>1. g[j] = Append(g[j - 1], b[j])
        BY <3>4, <3>6 DEF Kept
      <4>2. h[i] = Append(h[i - 1], c[i])
        BY <3>2, <3>3, <3>5, <4>1
      <4> QED BY <3>2, <3>6, <4>2 DEF Kept
    <3>7. CASE b[j] \notin S
      <4>1. g[j] = g[j - 1]
        BY <3>4, <3>7 DEF Kept
      <4>2. h[i] = h[i - 1]
        BY <3>3, <4>1
      <4> QED BY <3>2, <3>7, <4>2 DEF Kept
    <3> QED BY <3>6, <3>7
  <2> QED BY <2>1, <2>2
<1>11. IsKept(c, S, h)
  <2>1. h[0] = <<>>
    <3>1. 0 \in 0 .. n
      BY <1>1
    <3> QED BY <1>6, <1>9, <3>1
  <2> QED BY <1>2, <1>10, <2>1 DEF IsKept
<1>12. Among(c, S) = h[n + m]
  BY <1>2, <1>11, KeptIsAmong
<1>13. m \in 0 .. m
  BY <1>1
<1> QED BY <1>3, <1>4, <1>7, <1>8, <1>12, <1>13 DEF c, KeptTogether

(* Nothing is left out of a list all of whose elements belong to the set.   *)
LEMMA AmongAll ==
  ASSUME NEW R, NEW s \in Seq(R), NEW S, \A i \in 1 .. Len(s) : s[i] \in S
  PROVE  Among(s, S) = s
<1> DEFINE n == Len(s)
           h == [k \in 0 .. n |-> SubSeq(s, 1, k)]
<1>1. n \in Nat /\ \A i \in 1 .. n : s[i] \in R
  BY LenProperties, ElementOfSeq
<1>2. h[0] = <<>>
  <2>1. SubSeq(s, 1, 0) = <<>>
    BY SubSeqEmpty
  <2> HIDE DEF n
  <2>2. 0 \in 0 .. n
    BY <1>1
  <2> QED BY <2>1, <2>2
<1>3. ASSUME NEW k \in 1 .. n PROVE h[k] = Kept(s, S, h, k)
  <2>1. 1 \in 1 .. n /\ k \in 1 .. n /\ k \in 0 .. n /\ k - 1 \in 0 .. n
    BY <1>1
  <2>2. SubSeq(s, 1, k) = SubSeq(s, 1, k - 1) \o <<s[k]>>
    BY <2>1, SubSeqRecursiveSecond
  <2>3. SubSeq(s, 1, k - 1) \in Seq(R)
    <3> HIDE DEF n
    <3>1. \A i \in 1 .. k - 1 : s[i] \in R
      BY <1>1
    <3>2. 1 \in Int /\ k - 1 \in Int
      OBVIOUS
    <3> QED BY <3>1, <3>2, SubSeqProperties
  <2>4. Append(SubSeq(s, 1, k - 1), s[k]) = SubSeq(s, 1, k - 1) \o <<s[k]>>
    BY <1>1, <2>3, AppendIsConcat
  <2>5. h[k] = SubSeq(s, 1, k) /\ h[k - 1] = SubSeq(s, 1, k - 1)
    BY <2>1
  <2>6. s[k] \in S
    OBVIOUS
  <2> HIDE DEF h
  <2> QED BY <2>2, <2>4, <2>5, <2>6, Zenon DEF Kept
<1>4. h[n] = s
  <2>1. SubSeq(s, 1, n) = s
    BY SubSeqFull
  <2> HIDE DEF n
  <2>2. n \in 0 .. n
    BY <1>1
  <2> QED BY <2>1, <2>2
<1> HIDE DEF h
<1>5. IsKept(s, S, h)
  BY <1>2, <1>3 DEF IsKept
<1> QED BY <1>4, <1>5, KeptIsAmong

(* Everything is left out of a list none of whose elements belongs to it.   *)
LEMMA AmongNone ==
  ASSUME NEW R, NEW s \in Seq(R), NEW S, \A i \in 1 .. Len(s) : s[i] \notin S
  PROVE  Among(s, S) = <<>>
<1> DEFINE n == Len(s)
           h == [k \in 0 .. n |-> <<>>]
<1>1. n \in Nat
  OBVIOUS
<1>2. ASSUME NEW k \in 1 .. n PROVE h[k] = Kept(s, S, h, k)
  <2>1. s[k] \notin S
    OBVIOUS
  <2> HIDE DEF n
  <2>2. h[k] = <<>> /\ h[k - 1] = <<>>
    BY <1>1
  <2> QED BY <2>1, <2>2 DEF Kept
<1>3. h[0] = <<>> /\ h[n] = <<>>
  <2> HIDE DEF n
  <2> QED BY <1>1
<1> HIDE DEF h
<1>4. IsKept(s, S, h)
  BY <1>2, <1>3 DEF IsKept
<1> QED BY <1>3, <1>4, KeptIsAmong

(* It does not matter what else belongs to the set.                         *)
LEMMA AmongSame ==
  ASSUME NEW R, NEW s \in Seq(R), NEW S, NEW U,
         \A i \in 1 .. Len(s) : s[i] \in S <=> s[i] \in U
  PROVE  Among(s, S) = Among(s, U)
<1>1. PICK h : IsKept(s, S, h) /\ Among(s, S) = h[Len(s)]
  BY AmongIsKept, Zenon
<1>2. ASSUME NEW k \in 1 .. Len(s) PROVE h[k] = Kept(s, U, h, k)
  <2>1. h[k] = Kept(s, S, h, k)
    BY <1>1 DEF IsKept
  <2>2. Kept(s, S, h, k) = Kept(s, U, h, k)
    BY Zenon DEF Kept
  <2> QED BY <2>1, <2>2
<1>3. IsKept(s, U, h)
  BY <1>1, <1>2 DEF IsKept
<1> QED BY <1>1, <1>3, KeptIsAmong

(* What is kept of lists put together is what is kept of each, put together.*)
LEMMA AmongFlat ==
  ASSUME NEW R, NEW lists \in Seq(Seq(R)), NEW S
  PROVE  Among(FlattenSeq(lists), S) = FlattenSeq([i \in DOMAIN lists |-> Among(lists[i], S)])
<1> DEFINE n == Len(lists)
           kept == [i \in DOMAIN lists |-> Among(lists[i], S)]
<1>1. n \in Nat /\ DOMAIN lists = 1 .. n /\ \A i \in 1 .. n : lists[i] \in Seq(R)
  BY LenProperties, ElementOfSeq
<1>2. PICK g : IsRunning(lists, R, g)
  BY RunningExists
<1>3. /\ \A i \in 0 .. n : g[i] \in Seq(R)
      /\ g[0] = <<>> /\ \A i \in 1 .. n : g[i] = g[i - 1] \o lists[i]
  BY <1>2 DEF IsRunning
<1>4. FlattenSeq(lists) = g[n]
  BY <1>2, FlattenIsRunning
<1> HIDE DEF n
<1>5. \A s \in Seq(R) : Among(s, S) \in Seq(R)
  BY AmongConcat
<1>6. kept \in Seq(Seq(R)) /\ Len(kept) = n /\ \A i \in 1 .. n : kept[i] = Among(lists[i], S)
  <2>1. /\ DOMAIN kept = 1 .. n /\ kept = [i \in 1 .. n |-> kept[i]]
        /\ \A i \in 1 .. n : kept[i] = Among(lists[i], S)
    BY <1>1
  <2> HIDE DEF kept
  <2>2. \A i \in 1 .. n : kept[i] \in Seq(R)
    BY <1>1, <1>5, <2>1
  <2> QED BY <1>1, <2>1, <2>2, ListOver
<1> HIDE DEF kept
<1> DEFINE h == [i \in 0 .. n |-> Among(g[i], S)]
<1>7. h \in [0 .. n -> Seq(R)]
  BY <1>3, <1>5
<1>8. h[0] = <<>>
  <2>1. h[0] = Among(<<>>, S)
    BY <1>1, <1>3
  <2>2. <<>> \in Seq(R) /\ Len(<<>>) = 0
    BY EmptySeq
  <2>3. \A i \in 1 .. Len(<<>>) : <<>>[i] \in S
    BY <2>2
  <2>4. Among(<<>>, S) = <<>>
    BY <2>2, <2>3, AmongAll, Zenon
  <2> QED BY <2>1, <2>4
<1>9. ASSUME NEW i \in 1 .. n PROVE h[i] = h[i - 1] \o kept[i]
  <2>1. i \in 0 .. n /\ i - 1 \in 0 .. n
    BY <1>1
  <2>2. h[i] = Among(g[i], S) /\ h[i - 1] = Among(g[i - 1], S)
    BY <2>1
  <2>3. g[i - 1] \in Seq(R) /\ lists[i] \in Seq(R) /\ g[i] = g[i - 1] \o lists[i]
    BY <1>1, <1>3, <2>1
  <2>4. Among(g[i - 1] \o lists[i], S) = Among(g[i - 1], S) \o Among(lists[i], S)
    <3>1. KeptTogether(g[i - 1], lists[i], S)
      BY <2>3, AmongConcat
    <3> QED BY <3>1 DEF KeptTogether
  <2> HIDE DEF h
  <2> QED BY <1>6, <2>2, <2>3, <2>4
<1> HIDE DEF h
<1>10. IsRunning(kept, R, h)
  BY <1>6, <1>7, <1>8, <1>9 DEF IsRunning
<1>11. FlattenSeq(kept) = h[n]
  BY <1>6, <1>10, FlattenIsRunning
<1>12. h[n] = Among(g[n], S)
  <2>1. n \in 0 .. n
    BY <1>1
  <2> QED BY <2>1 DEF h
<1> QED BY <1>4, <1>11, <1>12 DEF kept

-----------------------------------------------------------------------------
(* Where the elements of lists put together come from.                      *)

(* Every element of a list is in one of the first lists.                    *)
Placed(pss, s, i) ==
  \A a \in 1 .. Len(s) : \E j \in 1 .. i : \E b \in 1 .. Len(pss[j]) : s[a] = pss[j][b]

(* No two elements of a list have one key.                                  *)
KeyedBy(s, key) == \A i, j \in 1 .. Len(s) : key[s[i]] = key[s[j]] => i = j

(* The places of two lists put together.                                    *)
LEMMA ConcatPlaces ==
  ASSUME NEW P, NEW x \in Seq(P), NEW y \in Seq(P), NEW z, z = x \o y
  PROVE  /\ z \in Seq(P) /\ Len(z) = Len(x) + Len(y)
         /\ \A a \in 1 .. Len(z) :
              \/ a \in 1 .. Len(x) /\ z[a] = x[a]
              \/ a - Len(x) \in 1 .. Len(y) /\ z[a] = y[a - Len(x)]
<1> DEFINE n == Len(x)
           m == Len(y)
<1>1. n \in Nat /\ m \in Nat
  OBVIOUS
<1>2. z \in Seq(P) /\ Len(z) = n + m /\ \A i \in 1 .. n + m : z[i] = IF i <= n THEN x[i] ELSE y[i - n]
  <2>1. /\ x \o y \in Seq(P) /\ Len(x \o y) = n + m
        /\ \A i \in 1 .. n + m : (x \o y)[i] = IF i <= n THEN x[i] ELSE y[i - n]
    BY ConcatProperties
  <2> QED BY <2>1, Zenon
<1> HIDE DEF n, m
<1>3. ASSUME NEW a \in 1 .. n + m
      PROVE  \/ a \in 1 .. n /\ z[a] = x[a]
             \/ a - n \in 1 .. m /\ z[a] = y[a - n]
  <2>1. CASE a <= n
    <3>1. a \in 1 .. n
      BY <1>1, <2>1
    <3> QED BY <1>2, <2>1, <3>1
  <2>2. CASE ~(a <= n)
    <3>1. a - n \in 1 .. m
      BY <1>1, <2>2
    <3> QED BY <1>2, <2>2, <3>1
  <2> QED BY <2>1, <2>2
<1> QED BY <1>2, <1>3 DEF n, m

(* Elements put together are each in one of the lists; no two of them have  *)
(* one key if none in a list have, and none in two lists.                   *)
LEMMA FlattenKeyed ==
  ASSUME NEW P, NEW pss \in Seq(Seq(P))
  PROVE  /\ FlattenSeq(pss) \in Seq(P)
         /\ Placed(pss, FlattenSeq(pss), Len(pss))
         /\ \A key :
              /\ \A j \in 1 .. Len(pss) : KeyedBy(pss[j], key)
              /\ \A j, k \in 1 .. Len(pss) : \A b \in 1 .. Len(pss[j]) : \A c \in 1 .. Len(pss[k]) :
                   key[pss[j][b]] = key[pss[k][c]] => j = k
              => KeyedBy(FlattenSeq(pss), key)
<1> DEFINE n == Len(pss)
<1>1. n \in Nat /\ \A i \in 1 .. n : pss[i] \in Seq(P)
  BY LenProperties, ElementOfSeq
<1>2. PICK g : IsRunning(pss, P, g)
  BY RunningExists
<1>3. /\ \A i \in 0 .. n : g[i] \in Seq(P)
      /\ g[0] = <<>> /\ \A i \in 1 .. n : g[i] = g[i - 1] \o pss[i]
  BY <1>2 DEF IsRunning
<1>4. FlattenSeq(pss) = g[n]
  BY <1>2, FlattenIsRunning
<1>5. \A i \in 1 .. n : Len(pss[i]) \in Nat
  BY <1>1, LenProperties
<1> HIDE DEF n
<1>6. ASSUME NEW i \in Nat, i + 1 <= n
      PROVE  /\ i + 1 \in 1 .. n /\ i \in 0 .. n /\ g[i] \in Seq(P) /\ pss[i + 1] \in Seq(P)
             /\ Len(g[i]) \in Nat /\ Len(pss[i + 1]) \in Nat
             /\ \A a \in 1 .. Len(g[i + 1]) :
                  \/ a \in 1 .. Len(g[i]) /\ g[i + 1][a] = g[i][a]
                  \/ a - Len(g[i]) \in 1 .. Len(pss[i + 1])
                     /\ g[i + 1][a] = pss[i + 1][a - Len(g[i])]
             /\ Len(g[i + 1]) = Len(g[i]) + Len(pss[i + 1])
  <2>1. i + 1 \in 1 .. n /\ i \in 0 .. n /\ (i + 1) - 1 = i
    BY <1>1, <1>6
  <2>2. g[i] \in Seq(P) /\ pss[i + 1] \in Seq(P) /\ g[i + 1] = g[i] \o pss[i + 1]
    BY <1>1, <1>3, <2>1
  <2>3. Len(g[i]) \in Nat /\ Len(pss[i + 1]) \in Nat
    BY <2>2, LenProperties
  <2> DEFINE x == g[i]
             y == pss[i + 1]
             z == g[i + 1]
  <2>4. x \in Seq(P) /\ y \in Seq(P) /\ z = x \o y
    BY <2>2
  <2> HIDE DEF x, y, z
  <2>5. /\ Len(z) = Len(x) + Len(y)
        /\ \A a \in 1 .. Len(z) :
              \/ a \in 1 .. Len(x) /\ z[a] = x[a]
              \/ a - Len(x) \in 1 .. Len(y) /\ z[a] = y[a - Len(x)]
    BY <2>4, ConcatPlaces
  <2> QED BY <2>1, <2>2, <2>3, <2>5 DEF x, y, z
<1> DEFINE T == {i \in Nat : i <= n => Placed(pss, g[i], i)}
<1>7. 0 \in T
  <2>1. Len(g[0]) = 0
    BY <1>3, EmptySeq
  <2> QED BY <2>1 DEF Placed
<1>8. ASSUME NEW i \in Nat, i \in T PROVE i + 1 \in T
  <2> SUFFICES ASSUME i + 1 <= n, NEW a \in 1 .. Len(g[i + 1])
               PROVE  \E j \in 1 .. i + 1 : \E b \in 1 .. Len(pss[j]) : g[i + 1][a] = pss[j][b]
    BY DEF Placed
  <2>1. Placed(pss, g[i], i)
    BY <1>1, <1>8
  <2>2. \/ a \in 1 .. Len(g[i]) /\ g[i + 1][a] = g[i][a]
        \/ a - Len(g[i]) \in 1 .. Len(pss[i + 1]) /\ g[i + 1][a] = pss[i + 1][a - Len(g[i])]
    BY <1>6
  <2>3. CASE a \in 1 .. Len(g[i]) /\ g[i + 1][a] = g[i][a]
    <3>1. \E j \in 1 .. i : \E b \in 1 .. Len(pss[j]) : g[i + 1][a] = pss[j][b]
      BY <2>1, <2>3 DEF Placed
    <3>2. \A j \in 1 .. i : j \in 1 .. i + 1
      OBVIOUS
    <3> QED BY <3>1, <3>2, Zenon
  <2>4. CASE a - Len(g[i]) \in 1 .. Len(pss[i + 1]) /\ g[i + 1][a] = pss[i + 1][a - Len(g[i])]
    <3>1. i + 1 \in 1 .. i + 1
      OBVIOUS
    <3> QED BY <2>4, <3>1, Zenon
  <2> QED BY <2>2, <2>3, <2>4
<1>9. Nat \subseteq T
  <2> HIDE DEF T
  <2>1. \A i \in Nat : i \in T => i + 1 \in T
    BY <1>8
  <2> QED BY <1>7, <2>1, SetInduction
<1>10. Placed(pss, FlattenSeq(pss), n) /\ FlattenSeq(pss) \in Seq(P)
  <2>1. n \in 0 .. n
    BY <1>1
  <2> QED BY <1>1, <1>3, <1>4, <1>9, <2>1
<1>11. ASSUME NEW key,
              \A j \in 1 .. n : KeyedBy(pss[j], key),
              \A j, k \in 1 .. n : \A b \in 1 .. Len(pss[j]) : \A c \in 1 .. Len(pss[k]) :
                key[pss[j][b]] = key[pss[k][c]] => j = k
       PROVE  KeyedBy(FlattenSeq(pss), key)
  <2> DEFINE U == {i \in Nat : i <= n => KeyedBy(g[i], key)}
  <2>1. 0 \in U
    <3>1. Len(g[0]) = 0
      BY <1>3, EmptySeq
    <3> QED BY <3>1 DEF KeyedBy
  <2>2. ASSUME NEW i \in Nat, i \in U PROVE i + 1 \in U
    <3> SUFFICES ASSUME i + 1 <= n, NEW a \in 1 .. Len(g[i + 1]), NEW c \in 1 .. Len(g[i + 1]),
                        key[g[i + 1][a]] = key[g[i + 1][c]]
                 PROVE  a = c
      BY DEF KeyedBy
    <3> DEFINE m == Len(g[i])
               First(d) == d \in 1 .. m /\ g[i + 1][d] = g[i][d]
               Second(d) == d - m \in 1 .. Len(pss[i + 1]) /\ g[i + 1][d] = pss[i + 1][d - m]
    <3>1. KeyedBy(g[i], key) /\ Placed(pss, g[i], i) /\ i \in 0 .. n
      BY <1>1, <1>9, <2>2
    <3>2. (First(a) \/ Second(a)) /\ (First(c) \/ Second(c)) /\ i + 1 \in 1 .. n /\ m \in Nat
      BY <1>6
    <3>3. Len(g[i + 1]) \in Nat
      BY <1>5, <1>6
    <3>4. ASSUME NEW d, First(d), NEW e, Second(e) PROVE key[g[i + 1][d]] # key[g[i + 1][e]]
      <4>1. PICK j \in 1 .. i : \E b \in 1 .. Len(pss[j]) : g[i][d] = pss[j][b]
        BY <3>1, <3>4 DEF Placed
      <4>2. PICK b \in 1 .. Len(pss[j]) : g[i][d] = pss[j][b]
        BY <4>1
      <4>3. j \in 1 .. n /\ j # i + 1
        BY <1>1, <3>1
      <4>4. e - m \in 1 .. Len(pss[i + 1]) /\ g[i + 1][e] = pss[i + 1][e - m]
        BY <3>4
      <4>5. g[i + 1][d] = pss[j][b]
        BY <3>4, <4>2
      <4> HIDE DEF m
      <4>6. key[pss[j][b]] = key[pss[i + 1][e - m]] => j = i + 1
        BY <1>11, <3>2, <4>3, <4>4
      <4> QED BY <4>3, <4>4, <4>5, <4>6
    <3>5. CASE First(a) /\ First(c)
      BY <3>1, <3>5 DEF KeyedBy
    <3>6. CASE Second(a) /\ Second(c)
      <4>1. KeyedBy(pss[i + 1], key)
        BY <1>11, <3>2
      <4>2. a - m = c - m
        BY <3>6, <4>1 DEF KeyedBy
      <4> HIDE DEF m
      <4> QED BY <3>2, <3>3, <4>2
    <3> HIDE DEF First, Second
    <3> QED BY <3>2, <3>4, <3>5, <3>6, Zenon
  <2>3. Nat \subseteq U
    <3> HIDE DEF U
    <3>1. \A i \in Nat : i \in U => i + 1 \in U
      BY <2>2
    <3> QED BY <2>1, <3>1, SetInduction
  <2> QED BY <1>1, <1>4, <2>3
<1> QED BY <1>10, <1>11 DEF n

-----------------------------------------------------------------------------
(* Documents that hold every row of a report.                               *)

(* No name can have been made of the titles of two parts.                   *)
TellsApart(parts) ==
  \A i, j \in 1 .. Len(parts) : \A name :
    NamedAfter(name, parts[i].name) /\ NamedAfter(name, parts[j].name) => i = j

(* Parts in batches: all their rows in order, no batch too large; and no two*)
(* of one name where the titles tell the parts apart.                       *)
LEMMA BatchesHoldEveryRow ==
  ASSUME NEW L, NEW R, IsAlphabet(L), NEW parts \in Seq(Parts(L, R)), NEW size \in Nat \ {0}
  PROVE  LET b == Batches(parts, size)
         IN  /\ b \in Seq(Parts(L, R))
             /\ RowsOf(b) = RowsOf(parts)
             /\ \A i \in 1 .. Len(b) :
                  /\ Len(b[i].rows) <= size
                  /\ \E j \in 1 .. Len(parts) : NamedAfter(b[i].name, parts[j].name)
             /\ TellsApart(parts) =>
                  \A i, j \in 1 .. Len(b) : b[i].name = b[j].name => i = j
<1> DEFINE P == Parts(L, R)
           n == Len(parts)
           b == Batches(parts, size)
           pss == [i \in DOMAIN parts |-> BatchFrame(parts[i], size)]
           key == [p \in P |-> p.name]
<1>1. n \in Nat /\ DOMAIN parts = 1 .. n /\ \A i \in 1 .. n : parts[i] \in P
  BY LenProperties, ElementOfSeq
<1>2. b = FlattenSeq(pss)
  BY DEF Batches
<1>3. \A i \in 1 .. n : pss[i] = BatchFrame(parts[i], size)
  BY <1>1
<1>4. DOMAIN pss = 1 .. n /\ pss = [i \in 1 .. n |-> pss[i]]
  BY <1>1
<1> HIDE DEF n, pss, b
<1>5. ASSUME NEW i \in 1 .. n
      PROVE  /\ pss[i] \in Seq(P)
             /\ RowsOf(pss[i]) = parts[i].rows
             /\ \A k \in 1 .. Len(pss[i]) : /\ Len(pss[i][k].rows) <= size
                                            /\ NamedAfter(pss[i][k].name, parts[i].name)
             /\ \A k, m \in 1 .. Len(pss[i]) : pss[i][k].name = pss[i][m].name => k = m
  <2> DEFINE part == parts[i]
             batch == BatchFrame(part, size)
  <2>1. part \in Parts(L, R)
    BY <1>1
  <2> HIDE DEF part
  <2>2. /\ batch \in Seq(Parts(L, R))
        /\ RowsOf(batch) = part.rows
        /\ \A k \in 1 .. Len(batch) : Len(batch[k].rows) <= size /\ NamedAfter(batch[k].name, part.name)
        /\ \A k, m \in 1 .. Len(batch) : batch[k].name = batch[m].name => k = m
    BY <2>1, BatchesOfOne
  <2>3. pss[i] = batch
    BY <1>3 DEF part
  <2> HIDE DEF batch
  <2> QED BY <2>2, <2>3 DEF part
<1>6. pss \in Seq(Seq(P)) /\ Len(pss) = n
  BY <1>1, <1>4, <1>5, ListOver
<1>7. HoldRows(P, R)
  BY DEF HoldRows, Parts
<1>8. RowsOf(b) = RowsOf(parts)
  <2> DEFINE lists == [i \in DOMAIN pss |-> RowsOf(pss[i])]
             rows == [i \in DOMAIN parts |-> parts[i].rows]
  <2>1. RowsOf(FlattenSeq(pss)) = FlattenSeq(lists)
    BY <1>6, <1>7, RowsOfFlat
  <2>2. lists = rows
    BY <1>1, <1>4, <1>5
  <2>3. RowsOf(parts) = FlattenSeq(rows)
    BY DEF RowsOf
  <2> QED BY <1>2, <2>1, <2>2, <2>3, Zenon
<1>9. b \in Seq(P) /\ Placed(pss, b, n)
  BY <1>2, <1>6, FlattenKeyed
<1>10. ASSUME NEW i \in 1 .. Len(b)
       PROVE  /\ Len(b[i].rows) <= size
              /\ \E j \in 1 .. n : NamedAfter(b[i].name, parts[j].name)
  <2>1. PICK j \in 1 .. n : \E k \in 1 .. Len(pss[j]) : b[i] = pss[j][k]
    BY <1>9 DEF Placed
  <2> QED BY <1>5, <2>1
<1>11. ASSUME TellsApart(parts), NEW i \in 1 .. Len(b), NEW j \in 1 .. Len(b), b[i].name = b[j].name
       PROVE  i = j
  <2>1. \A k \in 1 .. n : \A m \in 1 .. Len(pss[k]) : pss[k][m] \in P /\ key[pss[k][m]] = pss[k][m].name
    <3>1. \A k \in 1 .. n : \A m \in 1 .. Len(pss[k]) : pss[k][m] \in P
      BY <1>5, ElementOfSeq
    <3> QED BY <3>1
  <2> HIDE DEF key
  <2>2. \A k \in 1 .. n : KeyedBy(pss[k], key)
    BY <1>5, <2>1 DEF KeyedBy
  <2>3. ASSUME NEW k \in 1 .. n, NEW m \in 1 .. n,
               NEW c \in 1 .. Len(pss[k]), NEW d \in 1 .. Len(pss[m]),
               key[pss[k][c]] = key[pss[m][d]]
        PROVE  k = m
    <3>1. NamedAfter(pss[k][c].name, parts[k].name) /\ NamedAfter(pss[m][d].name, parts[m].name)
      BY <1>5
    <3>2. pss[k][c].name = pss[m][d].name
      BY <2>1, <2>3
    <3> QED BY <1>11, <3>1, <3>2 DEF TellsApart, n
  <2>4. KeyedBy(b, key)
    <3>1. /\ \A k \in 1 .. Len(pss) : KeyedBy(pss[k], key)
          /\ \A k, m \in 1 .. Len(pss) : \A c \in 1 .. Len(pss[k]) : \A d \in 1 .. Len(pss[m]) :
               key[pss[k][c]] = key[pss[m][d]] => k = m
      BY <1>6, <2>2, <2>3
    <3>2. KeyedBy(FlattenSeq(pss), key)
      BY <1>6, <3>1, FlattenKeyed
    <3> QED BY <1>2, <3>2
  <2>5. b[i] \in P /\ b[j] \in P
    BY <1>9, ElementOfSeq
  <2>6. key[b[i]] = key[b[j]]
    BY <1>11, <2>5 DEF key
  <2> QED BY <2>4, <2>6 DEF KeyedBy
<1> QED BY <1>8, <1>9, <1>10, <1>11 DEF b, n

(* A summary before the parts adds no rows.                                 *)
LEMMA SummaryHasNoRows ==
  ASSUME NEW L, NEW R, IsAlphabet(L), NEW parts \in Seq(Parts(L, R))
  PROVE  /\ <<Summary>> \in Seq(Parts(L, R)) /\ <<Summary>> \o parts \in Seq(Parts(L, R))
         /\ RowsOf(<<Summary>>) = <<>>
         /\ RowsOf(<<Summary>> \o parts) = RowsOf(parts)
<1> DEFINE P == Parts(L, R)
           one == <<Summary>>
<1>1. Summary \in P /\ Summary.rows = <<>>
  BY DEF Summary, Parts, IsAlphabet
<1>2. one \in Seq(P)
  BY <1>1
<1>3. HoldRows(P, R)
  BY DEF HoldRows, Parts
<1>4. <<>> \in Seq(R)
  BY EmptySeq
<1>5. RowsOf(one) = <<>>
  BY <1>1, <1>4, RowsOfOne
<1> HIDE DEF one, P
<1>6. /\ one \o parts \in Seq(P) /\ RowsOf(parts) \in Seq(R)
      /\ RowsOf(one \o parts) = RowsOf(one) \o RowsOf(parts)
  <2>1. parts \in Seq(P)
    BY DEF P
  <2> QED BY <1>2, <1>3, <2>1, RowsConcat, ConcatProperties
<1>7. RowsOf(one) \o RowsOf(parts) = RowsOf(parts)
  BY <1>5, <1>6, ConcatEmptySeq
<1> QED BY <1>2, <1>5, <1>6, <1>7 DEF one, P

(* The first elements of a list.                                            *)
LEMMA FirstElements ==
  ASSUME NEW R, NEW s \in Seq(R), NEW n \in Nat
  PROVE  LET m == IF n <= Len(s) THEN n ELSE Len(s)
         IN  /\ UpTo(s, n) = SubSeq(s, 1, m)
             /\ UpTo(s, n) \in Seq(R) /\ Len(UpTo(s, n)) = m
             /\ \A k \in 1 .. m : UpTo(s, n)[k] = s[k]
<1> DEFINE m == IF n <= Len(s) THEN n ELSE Len(s)
<1>1. Len(s) \in Nat
  OBVIOUS
<1>2. Min({n, Len(s)}) = m
  BY <1>1, MinOfTwo
<1>3. m \in Nat /\ m <= Len(s)
  BY <1>1
<1>4. UpTo(s, n) = SubSeq(s, 1, m)
  BY <1>2, Zenon DEF UpTo
<1> HIDE DEF m
<1>5. \A k \in 1 .. m : s[k] \in R
  <2>1. \A k \in 1 .. m : k \in 1 .. Len(s)
    BY <1>1, <1>3
  <2> QED BY <2>1, ElementOfSeq
<1>6. /\ SubSeq(s, 1, m) \in Seq(R)
      /\ Len(SubSeq(s, 1, m)) = IF 1 <= m THEN m - 1 + 1 ELSE 0
      /\ \A k \in 1 .. m - 1 + 1 : SubSeq(s, 1, m)[k] = s[1 + k - 1]
  BY <1>3, <1>5, SubSeqProperties
<1>7. (IF 1 <= m THEN m - 1 + 1 ELSE 0) = m /\ m - 1 + 1 = m
  BY <1>3
<1>8. \A k \in 1 .. m : 1 + k - 1 = k
  OBVIOUS
<1>9. \A k \in 1 .. m : SubSeq(s, 1, m)[k] = s[k]
  BY <1>6, <1>7, <1>8
<1> QED BY <1>4, <1>6, <1>7, <1>9 DEF m

(* The rows a PDF shows of a section are those of the first places.         *)
LEMMA FirstRows ==
  ASSUME NEW i, NEW rows \in Seq(Nat \X Nat), \A k \in 1 .. Len(rows) : rows[k] = <<i, k>>
  PROVE  Among(rows, {row \in Nat \X Nat : row[2] <= PdfRows}) = UpTo(rows, PdfRows)
<1> DEFINE R == Nat \X Nat
           S == {row \in R : row[2] <= PdfRows}
           n == Len(rows)
           m == IF PdfRows <= n THEN PdfRows ELSE n
           a == SubSeq(rows, 1, m)
           b == SubSeq(rows, m + 1, n)
<1>0. PdfRows \in Nat
  BY ReportAssumption
<1>1. n \in Nat /\ \A k \in 1 .. n : rows[k] \in R
  BY LenProperties, ElementOfSeq
<1>2. m \in Nat /\ m <= n /\ m <= PdfRows /\ (m < n => m = PdfRows)
  BY <1>0, <1>1
<1>3. /\ UpTo(rows, PdfRows) = a /\ a \in Seq(R) /\ Len(a) = m
      /\ \A k \in 1 .. m : a[k] = rows[k]
  <2>1. LET l == IF PdfRows <= Len(rows) THEN PdfRows ELSE Len(rows)
        IN  /\ UpTo(rows, PdfRows) = SubSeq(rows, 1, l)
            /\ UpTo(rows, PdfRows) \in Seq(R) /\ Len(UpTo(rows, PdfRows)) = l
            /\ \A k \in 1 .. l : UpTo(rows, PdfRows)[k] = rows[k]
    BY <1>0, FirstElements
  <2> QED BY <2>1
<1> HIDE DEF n, m
<1>4. b \in Seq(R) /\ Len(b) = n - m /\ \A k \in 1 .. n - m : b[k] = rows[m + k]
  <2>1. \A k \in m + 1 .. n : rows[k] \in R
    BY <1>1, <1>2
  <2>2. /\ b \in Seq(R) /\ Len(b) = IF m + 1 <= n THEN n - (m + 1) + 1 ELSE 0
        /\ \A k \in 1 .. n - (m + 1) + 1 : b[k] = rows[(m + 1) + k - 1]
    BY <1>1, <1>2, <2>1, SubSeqProperties
  <2>3. n - (m + 1) + 1 = n - m /\ (IF m + 1 <= n THEN n - (m + 1) + 1 ELSE 0) = n - m
    BY <1>1, <1>2
  <2>4. \A k \in 1 .. n - m : (m + 1) + k - 1 = m + k
    BY <1>1, <1>2
  <2> HIDE DEF b
  <2> QED BY <2>2, <2>3, <2>4
<1>5. a \o b = rows
  <2>1. SubSeq(rows, 1, m) \o SubSeq(rows, m + 1, n) = SubSeq(rows, 1, n)
    <3>1. 1 \in 1 .. n + 1 /\ m \in 1 - 1 .. n /\ n \in m .. n
      BY <1>1, <1>2
    <3> QED BY <3>1, ConcatAdjacentSubSeq DEF n
  <2>2. SubSeq(rows, 1, n) = rows
    BY SubSeqFull DEF n
  <2> QED BY <2>1, <2>2, Zenon
<1> HIDE DEF a, b
<1>6. \A k \in 1 .. n : rows[k] = <<i, k>>
  BY DEF n
<1>7. \A k \in 1 .. Len(a) : a[k] \in S
  <2> SUFFICES ASSUME NEW k \in 1 .. m PROVE a[k] \in S
    BY <1>3
  <2>1. k \in 1 .. n /\ k <= PdfRows
    BY <1>0, <1>1, <1>2
  <2>2. a[k] = <<i, k>> /\ a[k] \in R
    BY <1>1, <1>3, <1>6, <2>1
  <2>3. <<i, k>>[2] = k
    OBVIOUS
  <2> QED BY <2>1, <2>2, <2>3
<1>8. \A k \in 1 .. Len(b) : b[k] \notin S
  <2> SUFFICES ASSUME NEW k \in 1 .. n - m PROVE b[k] \notin S
    BY <1>4
  <2>1. m + k \in 1 .. n /\ ~(m + k <= PdfRows)
    BY <1>0, <1>1, <1>2
  <2>2. b[k] = <<i, m + k>>
    BY <1>4, <1>6, <2>1
  <2>3. <<i, m + k>>[2] = m + k
    OBVIOUS
  <2> QED BY <2>1, <2>2, <2>3
<1> HIDE DEF S, R
<1>9. Among(a, S) = a /\ Among(b, S) = <<>>
  BY <1>3, <1>4, <1>7, <1>8, AmongAll, AmongNone
<1>10. Among(a \o b, S) = Among(a, S) \o Among(b, S)
  <2>1. KeptTogether(a, b, S)
    BY <1>3, <1>4, AmongConcat
  <2> QED BY <2>1 DEF KeptTogether
<1>11. a \o <<>> = a
  BY <1>3, ConcatEmptySeq
<1> QED BY <1>3, <1>5, <1>9, <1>10, <1>11 DEF S, R

(* A PDF holds the first rows of each section.                              *)
LEMMA PdfHoldsFirstRows ==
  ASSUME NEW L, IsAlphabet(L), NEW sections \in Seq(Parts(L, Nat \X Nat)),
         \A i \in 1 .. Len(sections) : \A k \in 1 .. Len(sections[i].rows) :
           sections[i].rows[k] = <<i, k>>
  PROVE  LET all == RowsOf(sections)
         IN  RowsOf(ToPdf(sections)) = Among(all, {row \in ToSet(all) : row[2] <= PdfRows})
<1> DEFINE R == Nat \X Nat
           P == Parts(L, R)
           n == Len(sections)
           lists == [i \in DOMAIN sections |-> sections[i].rows]
           all == RowsOf(sections)
           S == {row \in R : row[2] <= PdfRows}
           cut == [i \in DOMAIN sections |-> Part(sections[i].name, UpTo(sections[i].rows, PdfRows))]
<1>1. n \in Nat /\ DOMAIN sections = 1 .. n /\ \A i \in 1 .. n : sections[i] \in P
  BY LenProperties, ElementOfSeq
<1>2. \A i \in 1 .. n : sections[i].rows \in Seq(R) /\ sections[i].name \in Seq(L)
  BY <1>1 DEF Parts
<1>3. PdfRows \in Nat
  BY ReportAssumption
<1>4. \A i \in 1 .. n : UpTo(sections[i].rows, PdfRows) \in Seq(R)
  BY <1>2, <1>3, FirstElements
<1>5. \A i \in 1 .. n : Among(sections[i].rows, S) = UpTo(sections[i].rows, PdfRows)
  <2> SUFFICES ASSUME NEW i \in 1 .. n
               PROVE  Among(sections[i].rows, S) = UpTo(sections[i].rows, PdfRows)
    OBVIOUS
  <2> DEFINE rows == sections[i].rows
  <2>1. rows \in Seq(R) /\ \A k \in 1 .. Len(rows) : rows[k] = <<i, k>>
    BY <1>2
  <2> HIDE DEF rows
  <2>2. Among(rows, S) = UpTo(rows, PdfRows)
    BY <2>1, FirstRows
  <2> QED BY <2>2 DEF rows
<1>6. all = FlattenSeq(lists)
  BY DEF RowsOf
<1>7. lists \in Seq(Seq(R)) /\ DOMAIN lists = 1 .. n /\ \A i \in 1 .. n : lists[i] = sections[i].rows
  <2>1. /\ DOMAIN lists = 1 .. n /\ lists = [i \in 1 .. n |-> lists[i]]
        /\ \A i \in 1 .. n : lists[i] = sections[i].rows
    BY <1>1
  <2> HIDE DEF lists, n
  <2>2. \A i \in 1 .. n : lists[i] \in Seq(R)
    BY <1>2, <2>1
  <2>3. lists \in Seq(Seq(R))
    BY <1>1, <2>1, <2>2, ListOver
  <2> QED BY <2>1, <2>3
<1>8. /\ cut \in Seq(P) /\ DOMAIN cut = 1 .. n
      /\ \A i \in 1 .. n : cut[i].rows = UpTo(sections[i].rows, PdfRows)
  <2>1. /\ DOMAIN cut = 1 .. n /\ cut = [i \in 1 .. n |-> cut[i]]
        /\ \A i \in 1 .. n : cut[i] = Part(sections[i].name, UpTo(sections[i].rows, PdfRows))
    BY <1>1
  <2> HIDE DEF cut, n
  <2>2. ASSUME NEW i \in 1 .. n
        PROVE  cut[i] \in P /\ cut[i].rows = UpTo(sections[i].rows, PdfRows)
    <3> DEFINE name == sections[i].name
               rows == UpTo(sections[i].rows, PdfRows)
    <3>1. name \in Seq(L) /\ rows \in Seq(R) /\ cut[i] = Part(name, rows)
      BY <1>2, <1>4, <2>1
    <3> HIDE DEF name, rows, R
    <3>2. cut[i] \in P /\ cut[i].rows = rows
      BY <3>1 DEF Part, Parts
    <3> QED BY <3>2 DEF rows
  <2>3. cut \in Seq(P)
    BY <1>1, <2>1, <2>2, ListOver
  <2> QED BY <2>1, <2>2, <2>3
<1>9. RowsOf(ToPdf(sections)) = RowsOf(cut)
  <2>1. ToPdf(sections) = <<Summary>> \o cut
    BY DEF ToPdf
  <2> HIDE DEF cut
  <2>2. RowsOf(<<Summary>> \o cut) = RowsOf(cut)
    BY <1>8, SummaryHasNoRows
  <2> QED BY <2>1, <2>2
<1> HIDE DEF cut, lists, S, n, all
<1>10. RowsOf(cut) = FlattenSeq([i \in DOMAIN lists |-> Among(lists[i], S)])
  <2> DEFINE shown == [i \in DOMAIN cut |-> cut[i].rows]
             kept == [i \in DOMAIN lists |-> Among(lists[i], S)]
  <2>1. RowsOf(cut) = FlattenSeq(shown)
    BY DEF RowsOf
  <2>2. \A i \in 1 .. n : cut[i].rows = Among(lists[i], S)
    BY <1>5, <1>7, <1>8
  <2>3. shown = kept
    BY <1>7, <1>8, <2>2
  <2> QED BY <2>1, <2>3, Zenon
<1>11. FlattenSeq([i \in DOMAIN lists |-> Among(lists[i], S)]) = Among(all, S)
  BY <1>6, <1>7, AmongFlat
<1>12. Among(all, S) = Among(all, {row \in ToSet(all) : row[2] <= PdfRows})
  <2>1. all \in Seq(R)
    BY <1>6, <1>7, FlattenConcat
  <2>2. \A k \in 1 .. Len(all) : all[k] \in R /\ all[k] \in ToSet(all)
    BY <2>1, ElementOfSeq, LenProperties DEF ToSet
  <2> DEFINE U == {row \in ToSet(all) : row[2] <= PdfRows}
  <2>3. \A k \in 1 .. Len(all) : all[k] \in S <=> all[k] \in U
    BY <2>2 DEF S
  <2> HIDE DEF U
  <2>4. Among(all, S) = Among(all, U)
    BY <2>1, <2>3, AmongSame
  <2> QED BY <2>4 DEF U
<1> QED BY <1>9, <1>10, <1>11, <1>12, Zenon DEF all

(* JSON leaves no section out where the titles are different.               *)
LEMMA JsonHoldsEveryRow ==
  ASSUME NEW P, NEW sections \in Seq(P), Distinct(Titles(sections))
  PROVE  ToJson(sections) = sections
<1> DEFINE n == Len(sections)
           last(i) == \A j \in DOMAIN sections : j > i => sections[j].name # sections[i].name
           S == {sections[i] : i \in {k \in DOMAIN sections : last(k)}}
<1>1. n \in Nat /\ DOMAIN sections = 1 .. n
  BY LenProperties
<1>2. \A i, j \in 1 .. n : sections[i].name = sections[j].name => i = j
  BY <1>1 DEF Distinct, Titles
<1>3. \A i \in 1 .. n : last(i)
  BY <1>1, <1>2
<1>4. \A i \in 1 .. n : sections[i] \in S
  BY <1>1, <1>3
<1>5. ToJson(sections) = Among(sections, S)
  BY DEF ToJson
<1> HIDE DEF S
<1>6. Among(sections, S) = sections
  BY <1>4, AmongAll
<1> QED BY <1>5, <1>6

-----------------------------------------------------------------------------
(* The names of worksheets.                                                 *)

(* A worksheet gets a name no other has, of the right length.               *)
LEMMA SheetNameIsFree ==
  ASSUME NEW L, IsAlphabet(L), NEW title \in Seq(L), NEW used, IsFiniteSet(used)
  PROVE  LET u == UniqueSheetName(title, used)
         IN  u \in Seq(L) /\ u \notin used /\ Len(u) \in 1 .. Width
<1> DEFINE allowed == Among(title, {c \in ToSet(title) : c.text # "/"})
           base == IF allowed = <<>> THEN <<Letter("Sheet")>> ELSE UpTo(allowed, Width)
           stem == UpTo(base, Width - 1)
           numbered(i) == Append(stem, Suffix(i))
           m == Cardinality(used) + 1
           free == {i \in 1 .. m : numbered(i) \notin used}
           u == UniqueSheetName(title, used)
<1>1. u = IF base \notin used THEN base ELSE numbered(Min(free))
  BY DEF UniqueSheetName
<1>2. Width \in Nat /\ Width > 1 /\ Width - 1 \in Nat
  BY ReportAssumption
<1>3. allowed \in Seq(L)
  <2> HIDE DEF allowed
  <2> QED BY AmongConcat DEF allowed
<1> HIDE DEF allowed
<1>4. base \in Seq(L) /\ Len(base) \in 1 .. Width
  <2>1. CASE allowed = <<>>
    <3>1. Letter("Sheet") \in L
      BY DEF IsAlphabet
    <3>2. base = <<Letter("Sheet")>>
      BY <2>1
    <3>3. <<Letter("Sheet")>> \in Seq(L) /\ Len(<<Letter("Sheet")>>) = 1
      BY <3>1
    <3> HIDE DEF base
    <3>4. 1 \in 1 .. Width
      BY <1>2
    <3> QED BY <3>2, <3>3, <3>4
  <2>2. CASE allowed # <<>>
    <3>1. base = UpTo(allowed, Width)
      BY <2>2
    <3>2. Len(allowed) \in Nat \ {0}
      BY <1>3, <2>2, EmptySeq
    <3>3. UpTo(allowed, Width) \in Seq(L)
          /\ Len(UpTo(allowed, Width)) = IF Width <= Len(allowed) THEN Width ELSE Len(allowed)
      BY <1>2, <1>3, FirstElements
    <3>4. (IF Width <= Len(allowed) THEN Width ELSE Len(allowed)) \in 1 .. Width
      BY <1>2, <3>2
    <3> QED BY <3>1, <3>3, <3>4
  <2> QED BY <2>1, <2>2
<1> HIDE DEF base
<1>5. stem \in Seq(L) /\ Len(stem) \in 0 .. Width - 1
  <2>1. stem \in Seq(L) /\ Len(stem) = IF Width - 1 <= Len(base) THEN Width - 1 ELSE Len(base)
    BY <1>2, <1>4, FirstElements
  <2> QED BY <1>2, <1>4, <2>1
<1> HIDE DEF stem
<1>6. m \in Nat \ {0}
  BY FS_CardinalityType
<1>7. ASSUME NEW i \in 1 .. m
      PROVE  numbered(i) \in Seq(L) /\ Len(numbered(i)) \in 1 .. Width
  <2>1. Suffix(i) \in L
    BY <1>6 DEF IsAlphabet
  <2>2. numbered(i) \in Seq(L) /\ Len(numbered(i)) = Len(stem) + 1
    BY <1>5, <2>1, AppendProperties
  <2>3. Len(stem) + 1 \in 1 .. Width
    BY <1>2, <1>5
  <2> QED BY <2>2, <2>3
<1>8. \A i, j \in 1 .. m : numbered(i) = numbered(j) => i = j
  <2> SUFFICES ASSUME NEW i \in 1 .. m, NEW j \in 1 .. m, numbered(i) = numbered(j) PROVE i = j
    OBVIOUS
  <2>1. Suffix(i) \in L /\ Suffix(j) \in L
    BY <1>6 DEF IsAlphabet
  <2>2. Suffix(i) = Suffix(j)
    BY <1>5, <2>1, AppendInjective
  <2> QED BY <2>2 DEF Suffix
<1>9. free # {}
  <2> SUFFICES ASSUME free = {} PROVE FALSE
    OBVIOUS
  <2> DEFINE f == [i \in 1 .. m |-> numbered(i)]
  <2>1. \A i \in 1 .. m : numbered(i) \in used
    OBVIOUS
  <2> HIDE DEF m, numbered
  <2>2. f \in Injection(1 .. m, used)
    BY <1>8, <2>1 DEF Injection, IsInjective
  <2>3. Cardinality(1 .. m) <= Cardinality(used)
    BY <2>2, FS_Injection
  <2>4. Cardinality(1 .. m) = m
    <3>1. Cardinality(1 .. m) = IF 1 > m THEN 0 ELSE m - 1 + 1
      BY <1>6, FS_Interval
    <3> QED BY <1>6, <3>1
  <2>5. Cardinality(used) \in Nat
    BY FS_CardinalityType
  <2> QED BY <2>3, <2>4, <2>5 DEF m
<1>10. Min(free) \in free
  <2>1. free \subseteq 1 .. m
    OBVIOUS
  <2> HIDE DEF free, m
  <2>2. IsFiniteSet(1 .. m)
    BY FS_Interval, <1>6
  <2>3. IsFiniteSet(free)
    BY <2>1, <2>2, FS_Subset, Zenon
  <2>4. free \in SUBSET Int
    BY <1>6, <2>1
  <2> QED BY <1>9, <2>3, <2>4, FiniteBounds
<1>11. Min(free) \in 1 .. m /\ numbered(Min(free)) \notin used
  <2> HIDE DEF numbered, m
  <2> QED BY <1>10
<1> HIDE DEF u, numbered, free, m
<1>12. u \in Seq(L) /\ u \notin used /\ Len(u) \in 1 .. Width
  <2>1. CASE base \notin used
    BY <1>1, <1>4, <2>1
  <2>2. CASE base \in used
    <3>1. u = numbered(Min(free))
      BY <1>1, <2>2
    <3> QED BY <1>7, <1>11, <3>1
  <2> QED BY <2>1, <2>2
<1> QED BY <1>12 DEF u

-----------------------------------------------------------------------------
(* The sheets of a workbook.                                                *)

(* The rows of a document are those of another with some after them.        *)
RowsFollow(z, s, rows) == RowsOf(z) = RowsOf(s) \o rows

(* A sheet is added with the batch's rows under a name no other has.        *)
LEMMA SheetIsAdded ==
  ASSUME NEW L, NEW R, IsAlphabet(L), NEW sheets \in Seq(Parts(L, R)), NEW batch \in Parts(L, R)
  PROVE  LET u == UniqueSheetName(batch.name, NamesOf(sheets))
         IN  /\ AddSheet(sheets, batch) = Append(sheets, Part(u, batch.rows))
             /\ Part(u, batch.rows) \in Parts(L, R)
             /\ Part(u, batch.rows).name = u /\ Part(u, batch.rows).rows = batch.rows
             /\ AddSheet(sheets, batch) \in Seq(Parts(L, R))
             /\ u \notin NamesOf(sheets) /\ Len(u) \in 1 .. Width
             /\ RowsFollow(AddSheet(sheets, batch), sheets, batch.rows)
<1> DEFINE P == Parts(L, R)
           used == NamesOf(sheets)
           u == UniqueSheetName(batch.name, used)
           p == Part(u, batch.rows)
<1>1. AddSheet(sheets, batch) = Append(sheets, p)
  BY DEF AddSheet
<1>2. IsFiniteSet(used)
  <2> DEFINE F == [i \in DOMAIN sheets |-> sheets[i].name]
  <2>1. IsFiniteSet(DOMAIN sheets)
    BY LenProperties, FS_Interval
  <2>2. IsFiniteSet({F[i] : i \in DOMAIN sheets})
    BY <2>1, ImageIsFinite
  <2>3. {F[i] : i \in DOMAIN sheets} = used
    BY DEF NamesOf
  <2> QED BY <2>2, <2>3
<1>3. batch.name \in Seq(L) /\ batch.rows \in Seq(R)
  BY DEF Parts
<1> HIDE DEF used
<1>4. u \in Seq(L) /\ u \notin used /\ Len(u) \in 1 .. Width
  BY <1>2, <1>3, SheetNameIsFree
<1> HIDE DEF u
<1>5. p \in P /\ p.name = u /\ p.rows = batch.rows
  BY <1>3, <1>4 DEF Part, Parts
<1> HIDE DEF p
<1>6. Append(sheets, p) \in Seq(P) /\ Append(sheets, p) = sheets \o <<p>> /\ <<p>> \in Seq(P)
  <2>1. <<p>> \in Seq(P)
    BY <1>5
  <2> HIDE DEF P
  <2>2. sheets \in Seq(P)
    BY DEF P
  <2> QED BY <1>5, <2>1, <2>2, AppendProperties, AppendIsConcat
<1>7. RowsOf(sheets \o <<p>>) = RowsOf(sheets) \o RowsOf(<<p>>)
  <2>1. HoldRows(P, R)
    BY DEF HoldRows, Parts
  <2> HIDE DEF P
  <2>2. sheets \in Seq(P)
    BY DEF P
  <2> QED BY <1>6, <2>1, <2>2, RowsConcat
<1>8. RowsOf(<<p>>) = batch.rows
  BY <1>3, <1>5, RowsOfOne
<1>9. RowsFollow(AddSheet(sheets, batch), sheets, batch.rows)
  BY <1>1, <1>6, <1>7, <1>8, Zenon DEF RowsFollow
<1> QED BY <1>1, <1>4, <1>5, <1>6, <1>9, Zenon DEF p, u, used

(* The workbook is what there is after the last batch.                      *)
LEMMA SheetsAreAdded ==
  ASSUME NEW L, NEW R, IsAlphabet(L), NEW b \in Seq(Parts(L, R))
  PROVE  \E h : /\ h[0] = <<Summary>>
                /\ \A k \in 1 .. Len(b) : h[k] = AddSheet(h[k - 1], b[k])
                /\ \A k \in 0 .. Len(b) : h[k] \in Seq(Parts(L, R))
                /\ FoldLeft(AddSheet, <<Summary>>, b) = h[Len(b)]
<1> DEFINE n == Len(b)
           P == Parts(L, R)
           D == SUBSET (1 .. n)
           base == <<Summary>>
           step == [p \in (1 .. n) \X Seq(P) |-> AddSheet(p[2], b[p[1]])]
           IsIter(it) == it = [t \in D |-> IF t = {} THEN base
                                           ELSE AddSheet(it[t \ {Max(t)}], b[Max(t)])]
           iter == CHOOSE it : IsIter(it)
<1>1. n \in Nat /\ DOMAIN b = 1 .. n /\ \A i \in 1 .. n : b[i] \in P
  BY LenProperties, ElementOfSeq
<1>2. FoldLeft(AddSheet, base, b) = iter[1 .. n]
  <2>1. FoldLeft(AddSheet, base, b)
          = (CHOOSE it : it = [t \in SUBSET (DOMAIN b) |-> IF t = {} THEN base
                         ELSE AddSheet(it[t \ {Max(t)}], b[Max(t)])])[DOMAIN b]
    BY DEF FoldLeft, MapThenFoldSet
  <2> QED BY <1>1, <2>1, Zenon
<1> HIDE DEF n
<1>3. base \in Seq(P)
  <2>1. <<>> \in Seq(P)
    BY EmptySeq
  <2> QED BY <2>1, SummaryHasNoRows
<1>4. \A i \in 1 .. n : \A v \in Seq(P) : step[<<i, v>>] = AddSheet(v, b[i]) /\ step[<<i, v>>] \in Seq(P)
  <2> SUFFICES ASSUME NEW i \in 1 .. n, NEW v \in Seq(P)
               PROVE  step[<<i, v>>] = AddSheet(v, b[i]) /\ step[<<i, v>>] \in Seq(P)
    OBVIOUS
  <2>1. step[<<i, v>>] = AddSheet(v, b[i])
    OBVIOUS
  <2>2. AddSheet(v, b[i]) \in Seq(P)
    <3>1. v \in Seq(Parts(L, R)) /\ b[i] \in Parts(L, R)
      BY <1>1
    <3> QED BY <3>1, SheetIsAdded
  <2> HIDE DEF step
  <2> QED BY <2>1, <2>2
<1> HIDE DEF step, P, base
<1>5. PICK it : /\ IsFoldTable(base, step, D, it)
                /\ \A t \in D : it[t] \in Seq(P)
  <2>1. \A i \in 1 .. n : \A v \in Seq(P) : step[<<i, v>>] \in Seq(P)
    BY <1>4
  <2> QED BY <1>1, <1>3, <2>1, FoldTableExists
<1>6. \A t \in D : t # {} => Max(t) \in 1 .. n /\ t \ {Max(t)} \in D
  BY <1>1, LargestOfMany
<1>7. IsIter(it)
  <2>1. it = [t \in D |-> IF t = {} THEN base ELSE step[<<Max(t), it[t \ {Max(t)}]>>]]
    BY <1>5, Zenon DEF IsFoldTable
  <2>2. \A t \in D : t # {} => step[<<Max(t), it[t \ {Max(t)}]>>] = AddSheet(it[t \ {Max(t)}], b[Max(t)])
    <3> HIDE DEF D
    <3> QED BY <1>4, <1>5, <1>6
  <2> DEFINE other == [t \in D |-> IF t = {} THEN base ELSE AddSheet(it[t \ {Max(t)}], b[Max(t)])]
             same == [t \in D |-> IF t = {} THEN base ELSE step[<<Max(t), it[t \ {Max(t)}]>>]]
  <2>3. \A t \in D : same[t] = other[t]
    <3> SUFFICES ASSUME NEW t \in D PROVE same[t] = other[t]
      OBVIOUS
    <3>1. CASE t = {}
      BY <3>1
    <3>2. CASE t # {}
      <4>1. step[<<Max(t), it[t \ {Max(t)}]>>] = AddSheet(it[t \ {Max(t)}], b[Max(t)])
        BY <2>2, <3>2
      <4> HIDE DEF D
      <4> QED BY <3>2, <4>1
    <3> QED BY <3>1, <3>2
  <2>4. same = other
    <3> HIDE DEF D
    <3> QED BY <2>3
  <2> QED BY <2>1, <2>4
<1>8. IsIter(iter)
  <2> HIDE DEF IsIter
  <2> QED BY <1>7
<1> HIDE DEF iter
<1> DEFINE h == [k \in 0 .. n |-> iter[1 .. k]]
<1>9. h[0] = base
  <2>1. 1 .. 0 = {} /\ {} \in D /\ 0 \in 0 .. n
    BY <1>1
  <2>2. iter[{}] = base
    BY <1>8, <2>1
  <2> QED BY <2>1, <2>2
<1>10. ASSUME NEW k \in 1 .. n PROVE h[k] = AddSheet(h[k - 1], b[k])
  <2>1. Max(1 .. k) = k /\ (1 .. k) \ {k} = 1 .. k - 1
    BY <1>1, LargestOfMany
  <2>0. n \in Nat
    BY <1>1
  <2>2. (1 .. k) \in D /\ 1 .. k # {} /\ k \in 0 .. n /\ k - 1 \in 0 .. n
    <3>1. k \in 1 .. k /\ k \in 0 .. n /\ k - 1 \in 0 .. n
      BY <2>0
    <3>2. (1 .. k) \in D
      BY <2>0
    <3> QED BY <3>1, <3>2
  <2>3. iter[1 .. k] = AddSheet(iter[(1 .. k) \ {Max(1 .. k)}], b[Max(1 .. k)])
    <3> HIDE DEF D
    <3> QED BY <1>8, <2>2
  <2>4. h[k] = iter[1 .. k] /\ h[k - 1] = iter[1 .. k - 1]
    BY <2>2
  <2> HIDE DEF h
  <2> QED BY <2>1, <2>3, <2>4
<1>11. h[n] = iter[1 .. n]
  BY <1>1
<1> HIDE DEF h
<1> DEFINE G == {k \in Nat : k <= n => h[k] \in Seq(P)}
<1>12. 0 \in G
  BY <1>3, <1>9
<1>13. ASSUME NEW k \in Nat, k \in G PROVE k + 1 \in G
  <2> SUFFICES ASSUME k + 1 <= n PROVE h[k + 1] \in Seq(P)
    OBVIOUS
  <2>1. k + 1 \in 1 .. n /\ k <= n /\ (k + 1) - 1 = k
    BY <1>1
  <2>2. h[k] \in Seq(P) /\ h[k + 1] = AddSheet(h[k], b[k + 1]) /\ b[k + 1] \in P
    BY <1>1, <1>10, <1>13, <2>1
  <2> QED BY <1>4, <2>1, <2>2
<1>14. Nat \subseteq G
  <2> HIDE DEF G
  <2>1. \A k \in Nat : k \in G => k + 1 \in G
    BY <1>13
  <2> QED BY <1>12, <2>1, SetInduction
<1>15. \A k \in 0 .. n : h[k] \in Seq(P)
  BY <1>14
<1> QED BY <1>2, <1>9, <1>10, <1>11, <1>15 DEF n, P, base

(* A workbook holds every row, in sheets that are not too large and whose   *)
(* names are of the right length and all different.                         *)
LEMMA ExcelHoldsEveryRow ==
  ASSUME NEW L, NEW R, IsAlphabet(L), NEW sections \in Seq(Parts(L, R))
  PROVE  LET parts == ToExcel(sections)
         IN  /\ RowsOf(parts) = RowsOf(sections)
             /\ Distinct(Titles(parts)) /\ \A i \in DOMAIN parts : Len(parts[i].name) \in 1 .. Width
             /\ \A i \in DOMAIN parts : Len(parts[i].rows) <= SheetRows
<1> DEFINE P == Parts(L, R)
           b == Batches(sections, SheetRows)
           n == Len(b)
           parts == ToExcel(sections)
<1>0. SheetRows \in Nat \ {0} /\ Width \in Nat /\ Width > 1
  BY ReportAssumption
<1>1. /\ b \in Seq(P) /\ RowsOf(b) = RowsOf(sections)
      /\ \A i \in 1 .. Len(b) : Len(b[i].rows) <= SheetRows
  BY <1>0, BatchesHoldEveryRow
<1> HIDE DEF b
<1>2. n \in Nat /\ DOMAIN b = 1 .. n /\ \A i \in 1 .. n : b[i] \in P /\ b[i].rows \in Seq(R)
  <2>1. n \in Nat /\ DOMAIN b = 1 .. n /\ \A i \in 1 .. n : b[i] \in P
    BY <1>1, LenProperties, ElementOfSeq
  <2> HIDE DEF n
  <2>2. \A i \in 1 .. n : b[i].rows \in Seq(R)
    BY <2>1 DEF Parts
  <2> QED BY <2>1, <2>2
<1>3. PICK h : /\ h[0] = <<Summary>>
               /\ \A k \in 1 .. n : h[k] = AddSheet(h[k - 1], b[k])
               /\ \A k \in 0 .. n : h[k] \in Seq(P)
               /\ FoldLeft(AddSheet, <<Summary>>, b) = h[n]
  BY <1>1, SheetsAreAdded
<1>4. parts = h[n]
  BY <1>3 DEF ToExcel, b
<1> HIDE DEF n, P, parts
<1>5. ASSUME NEW k \in Nat, k + 1 <= n
      PROVE  LET u == UniqueSheetName(b[k + 1].name, NamesOf(h[k]))
                 p == Part(u, b[k + 1].rows)
             IN  /\ k + 1 \in 1 .. n /\ h[k] \in Seq(P) /\ p \in P
                 /\ h[k + 1] = Append(h[k], p) /\ p.name = u /\ p.rows = b[k + 1].rows
                 /\ u \notin NamesOf(h[k]) /\ Len(u) \in 1 .. Width
                 /\ RowsFollow(h[k + 1], h[k], b[k + 1].rows)
  <2>1. k + 1 \in 1 .. n /\ k \in 0 .. n /\ (k + 1) - 1 = k
    BY <1>2, <1>5
  <2>2. h[k] \in Seq(P) /\ b[k + 1] \in P /\ h[k + 1] = AddSheet(h[k], b[k + 1])
    BY <1>2, <1>3, <2>1
  <2> DEFINE sheets == h[k]
             batch == b[k + 1]
             u == UniqueSheetName(batch.name, NamesOf(sheets))
             p == Part(u, batch.rows)
  <2>3. sheets \in Seq(Parts(L, R)) /\ batch \in Parts(L, R)
    BY <2>2 DEF P
  <2> HIDE DEF sheets, batch
  <2>4. /\ AddSheet(sheets, batch) = Append(sheets, p)
        /\ p \in Parts(L, R) /\ p.name = u /\ p.rows = batch.rows
        /\ u \notin NamesOf(sheets) /\ Len(u) \in 1 .. Width
        /\ RowsFollow(AddSheet(sheets, batch), sheets, batch.rows)
    BY <2>3, SheetIsAdded
  <2> QED BY <2>1, <2>2, <2>4, Zenon DEF sheets, batch, P
<1> DEFINE Sound(s) == /\ \A i, j \in 1 .. Len(s) : s[i].name = s[j].name => i = j
                       /\ \A i \in 1 .. Len(s) : Len(s[i].name) \in 1 .. Width /\ Len(s[i].rows) <= SheetRows
           T == {k \in Nat : k <= n => Sound(h[k])}
<1>6. 0 \in T
  <2>1. Len(<<Summary>>) = 1 /\ <<Summary>>[1] = Summary
    OBVIOUS
  <2>2. Summary.name = <<Letter("Summary")>> /\ Summary.rows = <<>>
    BY DEF Summary
  <2>3. Len(Summary.name) = 1 /\ Len(Summary.rows) = 0
    BY <2>2
  <2>4. \A i \in 1 .. 1 : i = 1
    OBVIOUS
  <2>5. Sound(<<Summary>>)
    <3>1. 1 \in 1 .. Width /\ 0 <= SheetRows
      BY <1>0
    <3> QED BY <2>1, <2>3, <2>4, <3>1
  <2> HIDE DEF Sound
  <2> QED BY <1>3, <2>5
<1>7. ASSUME NEW k \in Nat, k \in T PROVE k + 1 \in T
  <2> SUFFICES ASSUME k + 1 <= n PROVE Sound(h[k + 1])
    BY DEF T
  <2> DEFINE s == h[k]
             p == Part(UniqueSheetName(b[k + 1].name, NamesOf(s)), b[k + 1].rows)
             z == Append(s, p)
  <2>1. /\ k + 1 \in 1 .. n /\ s \in Seq(P) /\ p \in P /\ h[k + 1] = z
        /\ p.name \notin NamesOf(s) /\ Len(p.name) \in 1 .. Width /\ p.rows = b[k + 1].rows
    BY <1>5, Zenon
  <2>2. Sound(s)
    BY <1>2, <1>7
  <2>3. Len(p.rows) <= SheetRows
    BY <1>1, <2>1 DEF n
  <2> HIDE DEF s, p, Sound
  <2>4. /\ Len(s) \in Nat /\ DOMAIN s = 1 .. Len(s) /\ Len(z) = Len(s) + 1
        /\ \A i \in 1 .. Len(s) : z[i] = s[i]
        /\ z[Len(s) + 1] = p
    BY <2>1, LenProperties, AppendProperties
  <2> HIDE DEF z
  <2> DEFINE m == Len(s)
  <2>5. \A i \in 1 .. m : s[i].name # p.name
    BY <2>1, <2>4 DEF NamesOf
  <2>6. \A i \in 1 .. m + 1 : \/ i \in 1 .. m /\ z[i] = s[i]
                              \/ i = m + 1 /\ z[i] = p
    <3> HIDE DEF m
    <3>1. m \in Nat /\ (\A i \in 1 .. m : z[i] = s[i]) /\ z[m + 1] = p
      BY <2>4 DEF m
    <3>2. \A i \in 1 .. m + 1 : i \in 1 .. m \/ i = m + 1
      BY <3>1
    <3> QED BY <3>1, <3>2
  <2>7. Len(z) = m + 1
    BY <2>4
  <2> HIDE DEF m
  <2>8. /\ \A i, j \in 1 .. m : s[i].name = s[j].name => i = j
        /\ \A i \in 1 .. m : Len(s[i].name) \in 1 .. Width /\ Len(s[i].rows) <= SheetRows
    BY <2>2 DEF Sound, m
  <2>9. ASSUME NEW i \in 1 .. m + 1, NEW j \in 1 .. m + 1, z[i].name = z[j].name PROVE i = j
    BY <2>5, <2>6, <2>8, <2>9
  <2>10. ASSUME NEW i \in 1 .. m + 1
         PROVE  Len(z[i].name) \in 1 .. Width /\ Len(z[i].rows) <= SheetRows
    BY <2>1, <2>3, <2>6, <2>8, Zenon
  <2>11. Sound(z)
    BY <2>7, <2>9, <2>10 DEF Sound
  <2> QED BY <2>1, <2>11
<1>8. Nat \subseteq T
  <2> HIDE DEF T
  <2>1. \A k \in Nat : k \in T => k + 1 \in T
    BY <1>7
  <2> QED BY <1>6, <2>1, SetInduction
<1>9. Sound(parts)
  <2> HIDE DEF Sound
  <2> QED BY <1>2, <1>4, <1>8
<1>10. parts \in Seq(P) /\ DOMAIN parts = 1 .. Len(parts)
  <2>1. n \in 0 .. n
    BY <1>2
  <2>2. parts \in Seq(P)
    BY <1>3, <1>4, <2>1
  <2> QED BY <2>2, LenProperties
<1>11. Distinct(Titles(parts))
  BY <1>9, <1>10 DEF Distinct, Titles
<1>12. RowsOf(parts) = RowsOf(sections)
  <2> DEFINE lists == RowLists(b)
             g == [k \in 0 .. n |-> RowsOf(h[k])]
  <2>1. HoldRows(P, R)
    BY DEF HoldRows, Parts, P
  <2>2. lists \in Seq(Seq(R)) /\ Len(lists) = n /\ \A k \in 1 .. n : lists[k] = b[k].rows
    <3>1. lists \in Seq(Seq(R)) /\ Len(lists) = n
      BY <1>1, <2>1, RowListsConcat DEF P, n
    <3>2. \A k \in 1 .. n : lists[k] = b[k].rows
      BY <1>2 DEF RowLists
    <3> QED BY <3>1, <3>2
  <2> HIDE DEF lists
  <2>3. \A k \in 0 .. n : RowsOf(h[k]) \in Seq(R)
    BY <1>3, <2>1, RowsConcat
  <2>4. g \in [0 .. n -> Seq(R)]
    BY <2>3
  <2>5. g[0] = <<>>
    <3>1. RowsOf(<<Summary>>) = <<>>
      <4>1. <<>> \in Seq(Parts(L, R))
        BY EmptySeq
      <4> QED BY <4>1, SummaryHasNoRows
    <3> QED BY <1>2, <1>3, <3>1
  <2>6. ASSUME NEW i \in 1 .. n PROVE g[i] = g[i - 1] \o lists[i]
    <3>1. i - 1 \in Nat /\ (i - 1) + 1 = i /\ i <= n /\ i \in 0 .. n /\ i - 1 \in 0 .. n
      BY <1>2
    <3>2. RowsFollow(h[(i - 1) + 1], h[i - 1], b[(i - 1) + 1].rows)
      BY <1>5, <3>1, Zenon
    <3>3. g[i] = RowsOf(h[i]) /\ g[i - 1] = RowsOf(h[i - 1])
      BY <3>1
    <3> HIDE DEF g
    <3> QED BY <2>2, <3>1, <3>2, <3>3 DEF RowsFollow
  <2> HIDE DEF g
  <2>7. IsRunning(lists, R, g)
    BY <2>2, <2>4, <2>5, <2>6 DEF IsRunning
  <2>8. FlattenSeq(lists) = g[n]
    BY <2>2, <2>7, FlattenIsRunning
  <2>9. g[n] = RowsOf(h[n])
    BY <1>2 DEF g
  <2>10. RowsOf(b) = FlattenSeq(lists)
    BY DEF RowsOf, RowLists, lists
  <2> QED BY <1>1, <1>4, <2>8, <2>9, <2>10
<1> QED BY <1>9, <1>10, <1>11, <1>12 DEF parts

-----------------------------------------------------------------------------
(* The folders of an archive.                                               *)

(* The folders are what there is after the last run.                        *)
LEMMA FoldersAreAdded ==
  ASSUME NEW F, NEW Q, NEW runs \in Seq(Q),
         \A i \in 1 .. Len(runs) :
           [label |-> runs[i].label, id |-> 0] \in F /\ [label |-> runs[i].label, id |-> runs[i].id.head] \in F
  PROVE  \E h : /\ h[0] = <<>>
                /\ \A k \in 1 .. Len(runs) : h[k] = AddRun(h[k - 1], runs[k])
                /\ \A k \in 0 .. Len(runs) : h[k] \in Seq(F)
                /\ FoldLeft(AddRun, <<>>, runs) = h[Len(runs)]
<1> DEFINE n == Len(runs)
           D == SUBSET (1 .. n)
           base == <<>>
           step == [p \in (1 .. n) \X Seq(F) |-> AddRun(p[2], runs[p[1]])]
           IsIter(it) == it = [t \in D |-> IF t = {} THEN base
                                           ELSE AddRun(it[t \ {Max(t)}], runs[Max(t)])]
           iter == CHOOSE it : IsIter(it)
<1>1. n \in Nat /\ DOMAIN runs = 1 .. n
  BY LenProperties
<1>2. FoldLeft(AddRun, base, runs) = iter[1 .. n]
  <2>1. FoldLeft(AddRun, base, runs)
          = (CHOOSE it : it = [t \in SUBSET (DOMAIN runs) |-> IF t = {} THEN base
                         ELSE AddRun(it[t \ {Max(t)}], runs[Max(t)])])[DOMAIN runs]
    BY DEF FoldLeft, MapThenFoldSet
  <2> QED BY <1>1, <2>1, Zenon
<1>3. base \in Seq(F)
  BY EmptySeq
<1>4. \A i \in 1 .. n : \A v \in Seq(F) : step[<<i, v>>] = AddRun(v, runs[i]) /\ step[<<i, v>>] \in Seq(F)
  <2> SUFFICES ASSUME NEW i \in 1 .. n, NEW v \in Seq(F)
               PROVE  step[<<i, v>>] = AddRun(v, runs[i]) /\ step[<<i, v>>] \in Seq(F)
    OBVIOUS
  <2>1. step[<<i, v>>] = AddRun(v, runs[i])
    OBVIOUS
  <2>2. UniqueFolder(runs[i], ToSet(v)) \in F
    BY DEF UniqueFolder
  <2>3. AddRun(v, runs[i]) \in Seq(F)
    BY <2>2, AppendProperties DEF AddRun
  <2> HIDE DEF step
  <2> QED BY <2>1, <2>3
<1> HIDE DEF n, step, base
<1>5. PICK it : /\ IsFoldTable(base, step, D, it)
                /\ \A t \in D : it[t] \in Seq(F)
  <2>1. \A i \in 1 .. n : \A v \in Seq(F) : step[<<i, v>>] \in Seq(F)
    BY <1>4
  <2> QED BY <1>1, <1>3, <2>1, FoldTableExists
<1>6. \A t \in D : t # {} => Max(t) \in 1 .. n /\ t \ {Max(t)} \in D
  BY <1>1, LargestOfMany
<1>7. IsIter(it)
  <2>1. it = [t \in D |-> IF t = {} THEN base ELSE step[<<Max(t), it[t \ {Max(t)}]>>]]
    BY <1>5, Zenon DEF IsFoldTable
  <2>2. \A t \in D : t # {} => step[<<Max(t), it[t \ {Max(t)}]>>] = AddRun(it[t \ {Max(t)}], runs[Max(t)])
    <3> HIDE DEF D
    <3> QED BY <1>4, <1>5, <1>6
  <2> DEFINE other == [t \in D |-> IF t = {} THEN base ELSE AddRun(it[t \ {Max(t)}], runs[Max(t)])]
             same == [t \in D |-> IF t = {} THEN base ELSE step[<<Max(t), it[t \ {Max(t)}]>>]]
  <2>3. \A t \in D : same[t] = other[t]
    <3> SUFFICES ASSUME NEW t \in D PROVE same[t] = other[t]
      OBVIOUS
    <3>1. CASE t = {}
      BY <3>1
    <3>2. CASE t # {}
      <4>1. step[<<Max(t), it[t \ {Max(t)}]>>] = AddRun(it[t \ {Max(t)}], runs[Max(t)])
        BY <2>2, <3>2
      <4> HIDE DEF D
      <4> QED BY <3>2, <4>1
    <3> QED BY <3>1, <3>2
  <2>4. same = other
    <3> HIDE DEF D
    <3> QED BY <2>3
  <2> QED BY <2>1, <2>4
<1>8. IsIter(iter)
  <2> HIDE DEF IsIter
  <2> QED BY <1>7
<1> HIDE DEF iter
<1> DEFINE h == [k \in 0 .. n |-> iter[1 .. k]]
<1>9. h[0] = base
  <2>1. 1 .. 0 = {} /\ {} \in D /\ 0 \in 0 .. n
    BY <1>1
  <2>2. iter[{}] = base
    BY <1>8, <2>1
  <2> QED BY <2>1, <2>2
<1>10. ASSUME NEW k \in 1 .. n PROVE h[k] = AddRun(h[k - 1], runs[k])
  <2>1. Max(1 .. k) = k /\ (1 .. k) \ {k} = 1 .. k - 1
    BY <1>1, LargestOfMany
  <2>0. n \in Nat
    BY <1>1
  <2>2. (1 .. k) \in D /\ 1 .. k # {} /\ k \in 0 .. n /\ k - 1 \in 0 .. n
    <3>1. k \in 1 .. k /\ k \in 0 .. n /\ k - 1 \in 0 .. n
      BY <2>0
    <3>2. (1 .. k) \in D
      BY <2>0
    <3> QED BY <3>1, <3>2
  <2>3. iter[1 .. k] = AddRun(iter[(1 .. k) \ {Max(1 .. k)}], runs[Max(1 .. k)])
    <3> HIDE DEF D
    <3> QED BY <1>8, <2>2
  <2>4. h[k] = iter[1 .. k] /\ h[k - 1] = iter[1 .. k - 1]
    BY <2>2
  <2> HIDE DEF h
  <2> QED BY <2>1, <2>3, <2>4
<1>11. h[n] = iter[1 .. n]
  BY <1>1
<1> HIDE DEF h
<1> DEFINE G == {k \in Nat : k <= n => h[k] \in Seq(F)}
<1>12. 0 \in G
  BY <1>3, <1>9
<1>13. ASSUME NEW k \in Nat, k \in G PROVE k + 1 \in G
  <2> SUFFICES ASSUME k + 1 <= n PROVE h[k + 1] \in Seq(F)
    OBVIOUS
  <2>1. k + 1 \in 1 .. n /\ k <= n /\ (k + 1) - 1 = k
    BY <1>1
  <2>2. h[k] \in Seq(F) /\ h[k + 1] = AddRun(h[k], runs[k + 1])
    BY <1>1, <1>10, <1>13, <2>1
  <2> QED BY <1>4, <2>1, <2>2
<1>14. Nat \subseteq G
  <2> HIDE DEF G
  <2>1. \A k \in Nat : k \in G => k + 1 \in G
    BY <1>13
  <2> QED BY <1>12, <2>1, SetInduction
<1>15. \A k \in 0 .. n : h[k] \in Seq(F)
  BY <1>14
<1> QED BY <1>2, <1>9, <1>10, <1>11, <1>15 DEF n, base

(* A run's folder has its label, and the run's id if any.                   *)
FolderOf(run, f) ==
  f = [label |-> run.label, id |-> 0] \/ f = [label |-> run.label, id |-> run.id.head]

(* Runs that their labels and the heads of their ids tell apart get a folder*)
(* each.                                                                    *)
LEMMA FoldersAreDistinct ==
  ASSUME NEW Q, NEW runs \in Seq(Q),
         \A i \in 1 .. Len(runs) : runs[i].id.head # 0,
         \A i, j \in 1 .. Len(runs) :
           runs[i].label = runs[j].label /\ runs[i].id.head = runs[j].id.head => i = j
  PROVE  LET folders == FoldLeft(AddRun, <<>>, runs)
         IN  \A i, j \in 1 .. Len(runs) : folders[i] = folders[j] => i = j
<1> DEFINE n == Len(runs)
           F == {[label |-> runs[i].label, id |-> 0] : i \in 1 .. n}
                  \cup {[label |-> runs[i].label, id |-> runs[i].id.head] : i \in 1 .. n}
           folders == FoldLeft(AddRun, <<>>, runs)
<1>1. n \in Nat /\ DOMAIN runs = 1 .. n
  BY LenProperties
<1>2. \A i \in 1 .. n :
        [label |-> runs[i].label, id |-> 0] \in F /\ [label |-> runs[i].label, id |-> runs[i].id.head] \in F
  OBVIOUS
<1> HIDE DEF F
<1>3. PICK h : /\ h[0] = <<>>
               /\ \A k \in 1 .. n : h[k] = AddRun(h[k - 1], runs[k])
               /\ \A k \in 0 .. n : h[k] \in Seq(F)
               /\ folders = h[n]
  BY <1>2, FoldersAreAdded
<1> HIDE DEF folders
<1>4. /\ \A i \in 1 .. n : runs[i].id.head # 0
      /\ \A i, j \in 1 .. n :
           runs[i].label = runs[j].label /\ runs[i].id.head = runs[j].id.head => i = j
  OBVIOUS
<1> HIDE DEF n
<1> DEFINE Sound(k, s) == /\ Len(s) = k
                          /\ \A i \in 1 .. k : FolderOf(runs[i], s[i])
                          /\ \A i, j \in 1 .. k : s[i] = s[j] => i = j
           T == {k \in Nat : k <= n => Sound(k, h[k])}
<1>5. 0 \in T
  BY <1>3, EmptySeq
<1>6. ASSUME NEW k \in Nat, k \in T PROVE k + 1 \in T
  <2> SUFFICES ASSUME k + 1 <= n PROVE Sound(k + 1, h[k + 1])
    BY DEF T
  <2> DEFINE s == h[k]
             run == runs[k + 1]
             f == UniqueFolder(run, ToSet(s))
             z == Append(s, f)
             base == [label |-> run.label, id |-> 0]
             full == [label |-> run.label, id |-> run.id.head]
  <2>1. k + 1 \in 1 .. n /\ k \in 0 .. n /\ k <= n /\ (k + 1) - 1 = k
    BY <1>1
  <2>2. s \in Seq(F) /\ h[k + 1] = z /\ Sound(k, s)
    BY <1>3, <1>6, <2>1 DEF AddRun
  <2>3. f = IF base \in ToSet(s) THEN full ELSE base
    BY DEF UniqueFolder
  <2>4. base \in F /\ full \in F
    BY <1>2, <2>1
  <2>5. /\ run.id.head # 0
        /\ \A i \in 1 .. k : runs[i].label # run.label \/ runs[i].id.head # run.id.head
    <3>1. \A i \in 1 .. k : i \in 1 .. n /\ i # k + 1
      BY <1>1, <2>1
    <3> QED BY <1>4, <2>1, <3>1
  <2>6. \A i \in 1 .. k : s[i] \in ToSet(s)
    <3>1. DOMAIN s = 1 .. k
      BY <2>2, LenProperties
    <3> QED BY <3>1 DEF ToSet
  <2>7. \A i \in 1 .. k : s[i] # f
    <3>1. CASE base \in ToSet(s)
      <4>1. f.id = run.id.head /\ f.label = run.label
        BY <2>3, <3>1
      <4>2. \A i \in 1 .. k : s[i].id = 0 \/ (s[i].id = runs[i].id.head /\ s[i].label = runs[i].label)
        <5> HIDE DEF f, z
        <5>1. \A i \in 1 .. k : FolderOf(runs[i], s[i])
          BY <2>2
        <5> HIDE DEF s
        <5> SUFFICES ASSUME NEW i \in 1 .. k PROVE s[i].id = 0 \/ (s[i].id = runs[i].id.head /\ s[i].label = runs[i].label)
          OBVIOUS
        <5> DEFINE x == s[i]
        <5>2. \/ x = [label |-> runs[i].label, id |-> 0]
              \/ x = [label |-> runs[i].label, id |-> runs[i].id.head]
          BY <5>1 DEF FolderOf
        <5> HIDE DEF x
        <5>3. x.id = 0 \/ (x.id = runs[i].id.head /\ x.label = runs[i].label)
          BY <5>2
        <5> QED BY <5>3 DEF x
      <4> QED BY <2>5, <4>1, <4>2
    <3>2. CASE base \notin ToSet(s)
      BY <2>3, <2>6, <3>2
    <3> QED BY <3>1, <3>2
  <2>8. FolderOf(run, f)
    BY <2>3 DEF FolderOf
  <2>9. f \in F
    BY <2>3, <2>4
  <2> HIDE DEF f, s, base, full
  <2>10. /\ Len(z) = k + 1 /\ z[k + 1] = f
         /\ \A i \in 1 .. k : z[i] = s[i]
    BY <2>2, <2>9, AppendProperties
  <2> HIDE DEF z
  <2>11. \A i \in 1 .. k + 1 : i \in 1 .. k \/ i = k + 1
    OBVIOUS
  <2>12. ASSUME NEW i \in 1 .. k + 1 PROVE FolderOf(runs[i], z[i])
    BY <2>2, <2>8, <2>10, <2>11 DEF run
  <2>13. ASSUME NEW i \in 1 .. k + 1, NEW j \in 1 .. k + 1, z[i] = z[j] PROVE i = j
    BY <2>2, <2>7, <2>10, <2>11, <2>13
  <2> QED BY <2>2, <2>10, <2>12, <2>13
<1>7. Nat \subseteq T
  <2> HIDE DEF T
  <2>1. \A k \in Nat : k \in T => k + 1 \in T
    BY <1>6
  <2> QED BY <1>5, <2>1, SetInduction
<1>8. Sound(n, folders)
  <2> HIDE DEF Sound
  <2> QED BY <1>1, <1>3, <1>7
<1> QED BY <1>8 DEF n, folders

-----------------------------------------------------------------------------
(* The files of an archive.                                                 *)

(* Titles that are different and not numbered tell the parts apart, and no  *)
(* batch is called by the summary's name.                                   *)
LEMMA TitlesTellApart ==
  ASSUME NEW L, NEW R, IsAlphabet(L), NEW parts \in Seq(Parts(L, R)),
         \A i, j \in 1 .. Len(parts) : parts[i].name = parts[j].name => i = j,
         \A i \in 1 .. Len(parts) : \A k \in 1 .. Len(parts[i].name) : parts[i].name[k].number = 0,
         \A i \in 1 .. Len(parts) : parts[i].name # Summary.name
  PROVE  /\ TellsApart(parts)
         /\ \A i \in 1 .. Len(parts) : ~NamedAfter(Summary.name, parts[i].name)
<1> DEFINE n == Len(parts)
<1>1. \A i \in 1 .. n : parts[i].name \in Seq(L)
  <2>1. \A i \in 1 .. n : parts[i] \in Parts(L, R)
    BY ElementOfSeq
  <2> HIDE DEF n
  <2> QED BY <2>1 DEF Parts
<1>2. \A k \in Nat : Suffix(k) \in L /\ Suffix(k).number = k
  BY DEF IsAlphabet, Suffix
<1>3. ASSUME NEW i \in 1 .. n, NEW t \in Seq(L), NEW k \in Nat \ {0}, parts[i].name = Append(t, Suffix(k))
      PROVE  FALSE
  <2> DEFINE s == parts[i].name
             c == Suffix(k)
  <2>1. c \in L /\ c.number = k
    BY <1>2
  <2>2. s = Append(t, c)
    BY <1>3
  <2>3. \A m \in 1 .. Len(s) : s[m].number = 0
    OBVIOUS
  <2> HIDE DEF s, c
  <2>4. Len(s) = Len(t) + 1 /\ s[Len(t) + 1] = c /\ Len(t) \in Nat
    BY <2>1, <2>2, AppendProperties, LenProperties
  <2>5. Len(t) + 1 \in 1 .. Len(s)
    BY <2>4
  <2>6. c.number = 0
    BY <2>3, <2>4, <2>5
  <2> QED BY <2>1, <2>6
<1>4. ASSUME NEW i \in 1 .. n, NEW j \in 1 .. n, NEW name,
             NamedAfter(name, parts[i].name), NamedAfter(name, parts[j].name)
      PROVE  i = j
  <2>1. CASE name = parts[i].name /\ name = parts[j].name
    BY <2>1
  <2>2. CASE name = parts[i].name /\ name # parts[j].name
    <3>1. PICK k \in Nat \ {0} : name = Append(parts[j].name, Suffix(k))
      BY <1>4, <2>2 DEF NamedAfter
    <3> QED BY <1>1, <1>3, <2>2, <3>1
  <2>3. CASE name # parts[i].name /\ name = parts[j].name
    <3>1. PICK k \in Nat \ {0} : name = Append(parts[i].name, Suffix(k))
      BY <1>4, <2>3 DEF NamedAfter
    <3> QED BY <1>1, <1>3, <2>3, <3>1
  <2>4. CASE name # parts[i].name /\ name # parts[j].name
    <3>1. PICK k \in Nat \ {0} : name = Append(parts[i].name, Suffix(k))
      BY <1>4, <2>4 DEF NamedAfter
    <3>2. PICK m \in Nat \ {0} : name = Append(parts[j].name, Suffix(m))
      BY <1>4, <2>4 DEF NamedAfter
    <3>3. parts[i].name = parts[j].name
      <4> DEFINE s == parts[i].name
                 t == parts[j].name
                 c == Suffix(k)
                 d == Suffix(m)
      <4>1. s \in Seq(L) /\ t \in Seq(L) /\ c \in L /\ d \in L /\ Append(s, c) = Append(t, d)
        BY <1>1, <1>2, <3>1, <3>2
      <4> HIDE DEF s, t, c, d
      <4>2. s = t
        BY <4>1, AppendInjective
      <4> QED BY <4>2 DEF s, t
    <3> QED BY <3>3
  <2> QED BY <2>1, <2>2, <2>3, <2>4
<1>5. ASSUME NEW i \in 1 .. n, NamedAfter(Summary.name, parts[i].name) PROVE FALSE
  <2>1. PICK k \in Nat \ {0} : Summary.name = Append(parts[i].name, Suffix(k))
    BY <1>5 DEF NamedAfter
  <2> DEFINE t == parts[i].name
             c == Suffix(k)
             d == Letter("Summary")
  <2>2. t \in Seq(L) /\ c \in L /\ c.number = k /\ d \in L /\ d.number = 0 /\ Summary.name = Append(t, c)
    BY <1>1, <1>2, <2>1 DEF IsAlphabet, Letter
  <2>3. Summary.name = <<d>>
    BY DEF Summary
  <2> HIDE DEF t, c, d
  <2>4. Append(<<>>, d) = <<d>> /\ <<>> \in Seq(L)
    BY <2>2
  <2> DEFINE e == <<>>
  <2>5. e \in Seq(L) /\ Append(t, c) = Append(e, d)
    BY <2>2, <2>3, <2>4
  <2> HIDE DEF e
  <2>6. c = d
    BY <2>2, <2>5, AppendInjective
  <2> QED BY <2>2, <2>5
<1> QED BY <1>4, <1>5 DEF TellsApart

(* The files made of the detail of a run.                                   *)
RunFiles(sections) == <<Summary>> \o Batches(sections, BatchRows)

(* They hold every row of it, and no two have one name.                     *)
LEMMA FilesOfRun ==
  ASSUME NEW L, NEW R, IsAlphabet(L), NEW sections \in Seq(Parts(L, R)),
         \A i, j \in 1 .. Len(sections) : sections[i].name = sections[j].name => i = j,
         \A i \in 1 .. Len(sections) :
           \A k \in 1 .. Len(sections[i].name) : sections[i].name[k].number = 0,
         \A i \in 1 .. Len(sections) : sections[i].name # Summary.name
  PROVE  LET files == RunFiles(sections)
         IN  /\ files \in Seq(Parts(L, R))
             /\ RowsOf(files) = RowsOf(sections)
             /\ \A i, j \in 1 .. Len(files) : files[i].name = files[j].name => i = j
<1> DEFINE P == Parts(L, R)
           b == Batches(sections, BatchRows)
           files == RunFiles(sections)
           one == <<Summary>>
<1>0. BatchRows \in Nat \ {0}
  BY ReportAssumption
<1>1. /\ TellsApart(sections)
      /\ \A i \in 1 .. Len(sections) : ~NamedAfter(Summary.name, sections[i].name)
  BY TitlesTellApart
<1>2. /\ b \in Seq(P) /\ RowsOf(b) = RowsOf(sections)
      /\ \A i \in 1 .. Len(b) : \E j \in 1 .. Len(sections) : NamedAfter(b[i].name, sections[j].name)
      /\ \A i, j \in 1 .. Len(b) : b[i].name = b[j].name => i = j
  BY <1>0, <1>1, BatchesHoldEveryRow
<1> HIDE DEF b
<1>3. files = one \o b
  BY DEF RunFiles, b
<1>4. /\ one \in Seq(P) /\ one \o b \in Seq(P) /\ RowsOf(one \o b) = RowsOf(b)
  BY <1>2, SummaryHasNoRows
<1>5. Len(one) = 1 /\ one[1] = Summary
  OBVIOUS
<1>6. \A i \in 1 .. Len(b) : b[i].name # Summary.name
  BY <1>1, <1>2
<1> HIDE DEF one, files, P
<1>7. /\ Len(files) = Len(one) + Len(b)
      /\ \A a \in 1 .. Len(files) :
           \/ a \in 1 .. Len(one) /\ files[a] = one[a]
           \/ a - Len(one) \in 1 .. Len(b) /\ files[a] = b[a - Len(one)]
  BY <1>2, <1>3, <1>4, ConcatPlaces
<1>8. \A a \in 1 .. Len(files) : \/ a = 1 /\ files[a] = Summary
                                 \/ a - 1 \in 1 .. Len(b) /\ files[a] = b[a - 1]
  <2> SUFFICES ASSUME NEW a \in 1 .. Len(files)
               PROVE  \/ a = 1 /\ files[a] = Summary
                      \/ a - 1 \in 1 .. Len(b) /\ files[a] = b[a - 1]
    OBVIOUS
  <2>1. \/ a \in 1 .. 1 /\ files[a] = one[a]
        \/ a - 1 \in 1 .. Len(b) /\ files[a] = b[a - 1]
    BY <1>5, <1>7
  <2>2. a \in 1 .. 1 => a = 1
    OBVIOUS
  <2> QED BY <1>5, <2>1, <2>2
<1>9. Len(b) \in Nat /\ Len(files) = Len(b) + 1
  BY <1>2, <1>5, <1>7, LenProperties
<1>10. ASSUME NEW i \in 1 .. Len(files), NEW j \in 1 .. Len(files), files[i].name = files[j].name
       PROVE  i = j
  <2>1. CASE i = 1 /\ j = 1
    BY <2>1
  <2>2. CASE i = 1 /\ j # 1
    BY <1>6, <1>8, <1>10, <2>2
  <2>3. CASE i # 1 /\ j = 1
    BY <1>6, <1>8, <1>10, <2>3
  <2>4. CASE i # 1 /\ j # 1
    <3>1. /\ i - 1 \in 1 .. Len(b) /\ files[i] = b[i - 1]
          /\ j - 1 \in 1 .. Len(b) /\ files[j] = b[j - 1]
      BY <1>8, <2>4
    <3>2. i - 1 = j - 1
      BY <1>2, <1>10, <3>1
    <3>3. i \in Int /\ j \in Int
      BY <1>9
    <3> QED BY <3>2, <3>3
  <2> QED BY <2>1, <2>2, <2>3, <2>4
<1>11. files \in Seq(P) /\ RowsOf(files) = RowsOf(sections)
  BY <1>2, <1>3, <1>4
<1> QED BY <1>10, <1>11 DEF files, P

(* Files in folders, and the files of one folder.                           *)
Filed(F, L, R) == [folder : F, name : Seq(L), rows : Seq(R)]

InFolder(files, f) ==
  [i \in DOMAIN files |-> [folder |-> f, name |-> files[i].name, rows |-> files[i].rows]]

(* What files of a kind hold when they are in a folder.                     *)
HeldIn(x, files, f, P) ==
  /\ x \in Seq(P) /\ Len(x) = Len(files)
  /\ RowsOf(x) = RowsOf(files)
  /\ \A i \in 1 .. Len(files) : x[i].folder = f /\ x[i].name = files[i].name

(* Files hold in a folder what they hold outside.                           *)
LEMMA FilesInFolder ==
  ASSUME NEW L, NEW R, NEW files \in Seq(Parts(L, R)), NEW F, NEW f \in F
  PROVE  HeldIn(InFolder(files, f), files, f, Filed(F, L, R))
<1> DEFINE n == Len(files)
           x == InFolder(files, f)
<1>1. n \in Nat /\ DOMAIN files = 1 .. n /\ \A i \in 1 .. n : files[i] \in Parts(L, R)
  BY LenProperties, ElementOfSeq
<1> HIDE DEF n
<1>2. /\ DOMAIN x = 1 .. n /\ x = [i \in 1 .. n |-> x[i]]
      /\ \A i \in 1 .. n : x[i] = [folder |-> f, name |-> files[i].name, rows |-> files[i].rows]
  BY <1>1 DEF InFolder
<1> HIDE DEF x
<1>3. ASSUME NEW i \in 1 .. n
      PROVE  /\ x[i] \in Filed(F, L, R)
             /\ x[i].folder = f /\ x[i].name = files[i].name /\ x[i].rows = files[i].rows
  <2> DEFINE name == files[i].name
             rows == files[i].rows
  <2>1. name \in Seq(L) /\ rows \in Seq(R) /\ x[i] = [folder |-> f, name |-> name, rows |-> rows]
    BY <1>1, <1>2 DEF Parts
  <2> HIDE DEF name, rows
  <2>2. x[i] \in Filed(F, L, R) /\ x[i].folder = f /\ x[i].name = name /\ x[i].rows = rows
    BY <2>1 DEF Filed
  <2> QED BY <2>2 DEF name, rows
<1>4. x \in Seq(Filed(F, L, R)) /\ Len(x) = n
  BY <1>1, <1>2, <1>3, ListOver
<1>5. RowsOf(x) = RowsOf(files)
  <2>1. RowLists(x) = RowLists(files)
    BY <1>1, <1>2, <1>3 DEF RowLists
  <2> QED BY <2>1, Zenon DEF RowsOf, RowLists
<1> QED BY <1>3, <1>4, <1>5 DEF x, n, HeldIn

(* The files of an archive hold the rows of the runs, under names of their  *)
(* own.                                                                     *)
HoldRuns(files, runs) ==
  /\ HeadsDiffer(runs) =>
       \A i, j \in 1 .. Len(files) :
         <<files[i].folder, files[i].name>> = <<files[j].folder, files[j].name>> => i = j
  /\ DOMAIN files = 1 .. Len(files)
  /\ RowsOf(files) = FlattenSeq([k \in DOMAIN runs |-> RowsOf(runs[k].sections)])

(* An archive holds every row of every run, and no two of its files have one*)
(* name in one folder.                                                      *)
LEMMA BuildHoldsEveryRow ==
  ASSUME NEW L, NEW R, IsAlphabet(L), NEW Q, NEW runs \in Seq(Q),
         \A k \in 1 .. Len(runs) : runs[k].id.head # 0,
         \A k \in 1 .. Len(runs) : runs[k].sections \in Seq(Parts(L, R)),
         \A k \in 1 .. Len(runs) : \A i, j \in 1 .. Len(runs[k].sections) :
           runs[k].sections[i].name = runs[k].sections[j].name => i = j,
         \A k \in 1 .. Len(runs) : \A i \in 1 .. Len(runs[k].sections) :
           /\ runs[k].sections[i].name # Summary.name
           /\ \A c \in 1 .. Len(runs[k].sections[i].name) : runs[k].sections[i].name[c].number = 0
  PROVE  HoldRuns(BuildExport(runs), runs)
<1> DEFINE n == Len(runs)
           folders == FoldLeft(AddRun, <<>>, runs)
           pss == [k \in DOMAIN runs |-> InFolder(RunFiles(runs[k].sections), folders[k])]
           F == {folders[k] : k \in 1 .. n}
           P == Filed(F, L, R)
           files == BuildExport(runs)
           key == [p \in P |-> <<p.folder, p.name>>]
<1>1. n \in Nat /\ DOMAIN runs = 1 .. n
  BY LenProperties
<1>2. files = FlattenSeq(pss)
  BY Zenon DEF BuildExport, InFolder, RunFiles
<1>3. HeadsDiffer(runs) => \A i, j \in 1 .. n : folders[i] = folders[j] => i = j
  BY <1>1, FoldersAreDistinct DEF HeadsDiffer
<1> HIDE DEF folders
<1>4. ASSUME NEW k \in 1 .. n
      PROVE  LET made == RunFiles(runs[k].sections)
             IN  /\ made \in Seq(Parts(L, R))
                 /\ RowsOf(made) = RowsOf(runs[k].sections)
                 /\ \A i, j \in 1 .. Len(made) : made[i].name = made[j].name => i = j
  <2> DEFINE sections == runs[k].sections
             made == RunFiles(sections)
  <2>1. /\ sections \in Seq(Parts(L, R))
        /\ \A i, j \in 1 .. Len(sections) : sections[i].name = sections[j].name => i = j
        /\ \A i \in 1 .. Len(sections) : \A c \in 1 .. Len(sections[i].name) : sections[i].name[c].number = 0
        /\ \A i \in 1 .. Len(sections) : sections[i].name # Summary.name
    OBVIOUS
  <2> HIDE DEF sections
  <2>2. /\ made \in Seq(Parts(L, R)) /\ RowsOf(made) = RowsOf(sections)
        /\ \A i, j \in 1 .. Len(made) : made[i].name = made[j].name => i = j
    BY <2>1, FilesOfRun
  <2> QED BY <2>2, Zenon DEF sections
<1>5. /\ DOMAIN pss = 1 .. n /\ pss = [k \in 1 .. n |-> pss[k]]
      /\ \A k \in 1 .. n : pss[k] = InFolder(RunFiles(runs[k].sections), folders[k])
  BY <1>1
<1>6. \A k \in 1 .. n : folders[k] \in F
  OBVIOUS
<1> HIDE DEF n, pss, F, files
<1>7. ASSUME NEW k \in 1 .. n
      PROVE  /\ pss[k] \in Seq(P)
             /\ RowsOf(pss[k]) = RowsOf(runs[k].sections)
             /\ \A i \in 1 .. Len(pss[k]) : pss[k][i].folder = folders[k]
             /\ \A i, j \in 1 .. Len(pss[k]) : pss[k][i].name = pss[k][j].name => i = j
  <2> DEFINE made == RunFiles(runs[k].sections)
             f == folders[k]
             x == InFolder(made, f)
  <2>1. /\ made \in Seq(Parts(L, R)) /\ RowsOf(made) = RowsOf(runs[k].sections) /\ f \in F
        /\ \A i, j \in 1 .. Len(made) : made[i].name = made[j].name => i = j
    BY <1>4, <1>6
  <2>2. pss[k] = x
    BY <1>5
  <2> HIDE DEF made, f
  <2>3. /\ x \in Seq(Filed(F, L, R)) /\ Len(x) = Len(made)
        /\ RowsOf(x) = RowsOf(made)
        /\ \A i \in 1 .. Len(made) : x[i].folder = f /\ x[i].name = made[i].name
    <3>1. HeldIn(x, made, f, Filed(F, L, R))
      BY <2>1, FilesInFolder
    <3> QED BY <3>1 DEF HeldIn
  <2> HIDE DEF x
  <2>4. /\ \A i \in 1 .. Len(x) : x[i].folder = f
        /\ \A i, j \in 1 .. Len(x) : x[i].name = x[j].name => i = j
    BY <2>1, <2>3
  <2> QED BY <2>1, <2>2, <2>3, <2>4, Zenon DEF f, P
<1>8. pss \in Seq(Seq(P)) /\ Len(pss) = n
  <2> HIDE DEF P
  <2> QED BY <1>1, <1>5, <1>7, ListOver
<1>9. RowsOf(files) = FlattenSeq([k \in DOMAIN runs |-> RowsOf(runs[k].sections)])
  <2> DEFINE lists == [k \in DOMAIN pss |-> RowsOf(pss[k])]
             rows == [k \in DOMAIN runs |-> RowsOf(runs[k].sections)]
  <2>1. HoldRows(P, R)
    BY DEF HoldRows, Filed
  <2>2. RowsOf(FlattenSeq(pss)) = FlattenSeq(lists)
    BY <1>8, <2>1, RowsOfFlat
  <2>3. lists = rows
    BY <1>1, <1>5, <1>7
  <2> QED BY <1>2, <2>2, <2>3, Zenon
<1>10. files \in Seq(P)
  BY <1>2, <1>8, FlattenKeyed
<1>11. \A k \in 1 .. n : \A i \in 1 .. Len(pss[k]) :
         pss[k][i] \in P /\ key[pss[k][i]] = <<folders[k], pss[k][i].name>>
  <2>1. \A k \in 1 .. n : \A i \in 1 .. Len(pss[k]) : pss[k][i] \in P
    BY <1>7, ElementOfSeq
  <2>2. \A p \in P : key[p] = <<p.folder, p.name>>
    OBVIOUS
  <2> HIDE DEF key, P
  <2> QED BY <1>7, <2>1, <2>2
<1>12. \A i \in 1 .. Len(files) : key[files[i]] = <<files[i].folder, files[i].name>>
  BY <1>10, ElementOfSeq
<1> HIDE DEF key, P
<1>13. ASSUME HeadsDiffer(runs) PROVE KeyedBy(files, key)
  <2>1. ASSUME NEW k \in 1 .. n, NEW i \in 1 .. Len(pss[k]), NEW j \in 1 .. Len(pss[k]),
               key[pss[k][i]] = key[pss[k][j]]
        PROVE  i = j
    <3>1. pss[k][i].name = pss[k][j].name
      BY <1>11, <2>1
    <3> QED BY <1>7, <3>1
  <2>2. \A k \in 1 .. n : KeyedBy(pss[k], key)
    BY <2>1 DEF KeyedBy
  <2>3. ASSUME NEW j \in 1 .. n, NEW k \in 1 .. n,
               NEW b \in 1 .. Len(pss[j]), NEW c \in 1 .. Len(pss[k]),
               key[pss[j][b]] = key[pss[k][c]]
        PROVE  j = k
    <3>1. folders[j] = folders[k]
      BY <1>11, <2>3
    <3> QED BY <1>3, <1>13, <3>1
  <2>4. /\ \A j \in 1 .. Len(pss) : KeyedBy(pss[j], key)
        /\ \A j, k \in 1 .. Len(pss) : \A b \in 1 .. Len(pss[j]) : \A c \in 1 .. Len(pss[k]) :
             key[pss[j][b]] = key[pss[k][c]] => j = k
    BY <1>8, <2>2, <2>3
  <2>5. \A by : /\ \A j \in 1 .. Len(pss) : KeyedBy(pss[j], by)
                /\ \A j, k \in 1 .. Len(pss) : \A b \in 1 .. Len(pss[j]) : \A c \in 1 .. Len(pss[k]) :
                     by[pss[j][b]] = by[pss[k][c]] => j = k
                => KeyedBy(FlattenSeq(pss), by)
    BY <1>8, FlattenKeyed
  <2>6. KeyedBy(FlattenSeq(pss), key)
    BY <2>4, <2>5, Zenon
  <2> QED BY <1>2, <2>6
<1>14. HeadsDiffer(runs) =>
       \A i, j \in 1 .. Len(files) :
         <<files[i].folder, files[i].name>> = <<files[j].folder, files[j].name>> => i = j
  <2> SUFFICES ASSUME HeadsDiffer(runs)
               PROVE  \A i, j \in 1 .. Len(files) :
                        <<files[i].folder, files[i].name>> = <<files[j].folder, files[j].name>> => i = j
    OBVIOUS
  <2>1. KeyedBy(files, key)
    BY <1>13
  <2> QED BY <1>12, <2>1, Zenon DEF KeyedBy
<1>15. DOMAIN files = 1 .. Len(files)
  BY <1>10, LenProperties
<1> QED BY <1>9, <1>14, <1>15, Zenon DEF files, HoldRuns

-----------------------------------------------------------------------------
(* Reports and archives.                                                    *)

(* The letters that are always there, with those of some titles.            *)
Alphabet(letters) ==
  letters \cup {Letter("Sheet"), Letter("Summary")} \cup {Suffix(k) : k \in Nat}

(* A list over a set that holds its elements.                               *)
LEMMA ListIsOver ==
  ASSUME NEW s, IsList(s), NEW S, ToSet(s) \subseteq S
  PROVE  s \in Seq(S) /\ DOMAIN s = 1 .. Len(s)
<1> DEFINE n == Len(s)
<1>1. n \in Nat /\ s = [i \in 1 .. n |-> s[i]]
  BY DEF IsList
<1> HIDE DEF n
<1>2. DOMAIN s = 1 .. n
  BY <1>1
<1>3. \A i \in 1 .. n : s[i] \in S
  BY <1>2 DEF ToSet
<1>4. s \in Seq(S)
  BY <1>1, <1>2, <1>3, ListOver
<1> QED BY <1>2, <1>4 DEF n

(* Sections are titled lists of rows.                                       *)
LEMMA SectionsAreParts ==
  ASSUME NEW letters, NEW R, NEW sections, IsList(sections),
         \A i \in 1 .. Len(sections) :
           /\ IsSection(sections[i])
           /\ ToSet(sections[i].name) \subseteq letters /\ ToSet(sections[i].rows) \subseteq R
  PROVE  /\ IsAlphabet(Alphabet(letters))
         /\ sections \in Seq(Parts(Alphabet(letters), R))
<1> DEFINE L == Alphabet(letters)
           n == Len(sections)
<1>1. IsAlphabet(L) /\ letters \subseteq L
  BY DEF IsAlphabet, Alphabet
<1> HIDE DEF L
<1>2. ASSUME NEW i \in 1 .. n PROVE sections[i] \in Parts(L, R)
  <2> DEFINE p == sections[i]
             name == p.name
             rows == p.rows
  <2>1. p = [name |-> name, rows |-> rows] /\ IsList(name) /\ IsList(rows)
    BY DEF IsSection
  <2>2. ToSet(name) \subseteq L /\ ToSet(rows) \subseteq R
    BY <1>1
  <2> HIDE DEF p, name, rows
  <2>3. name \in Seq(L) /\ rows \in Seq(R)
    BY <2>1, <2>2, ListIsOver
  <2>4. p \in Parts(L, R)
    BY <2>1, <2>3 DEF Parts
  <2> QED BY <2>4 DEF p
<1>3. DOMAIN sections = 1 .. n
  <2>1. sections = [i \in 1 .. n |-> sections[i]]
    BY DEF IsList
  <2> HIDE DEF n
  <2> QED BY <2>1
<1>4. ToSet(sections) \subseteq Parts(L, R)
  BY <1>2, <1>3 DEF ToSet
<1>5. sections \in Seq(Parts(L, R))
  BY <1>4, ListIsOver
<1> QED BY <1>1, <1>5 DEF L

(* A report in any of its formats.                                          *)
LEMMA ReportIsExported ==
  ASSUME NEW sections, IsReport(sections)
  PROVE  LET all == RowsOf(sections)
         IN  /\ LET parts == ToExcel(sections)
                IN  /\ RowsOf(parts) = all
                    /\ Distinct(Titles(parts)) /\ \A i \in DOMAIN parts : Len(parts[i].name) \in 1 .. Width
                    /\ \A i \in DOMAIN parts : Len(parts[i].rows) <= SheetRows
             /\ RowsOf(ToPdf(sections)) = Among(all, {row \in ToSet(all) : row[2] <= PdfRows})
             /\ LET parts == ToDownloads(sections)
                IN  /\ RowsOf(parts) = all
                    /\ Len(sections) = 1 => Distinct(Titles(parts))
                    /\ \A i \in DOMAIN parts : Len(parts[i].rows) <= BatchRows
             /\ RowsOf(ToCsv(sections)) = all
             /\ Distinct(Titles(sections)) => RowsOf(ToJson(sections)) = all
<1> DEFINE R == Nat \X Nat
           n == Len(sections)
           letters == UNION {ToSet(sections[i].name) : i \in 1 .. n}
           L == Alphabet(letters)
           P == Parts(L, R)
<1>1. n \in Nat /\ DOMAIN sections = 1 .. n
  <2>1. n \in Nat /\ sections = [i \in 1 .. n |-> sections[i]]
    BY DEF IsReport, IsList
  <2> HIDE DEF n
  <2> QED BY <2>1
<1> HIDE DEF n
<1>2. \A i \in 1 .. n : IsSection(sections[i]) /\ \A k \in DOMAIN sections[i].rows : sections[i].rows[k] = <<i, k>>
  BY <1>1 DEF IsReport
<1>3. ASSUME NEW i \in 1 .. n
      PROVE  /\ DOMAIN sections[i].rows = 1 .. Len(sections[i].rows)
             /\ ToSet(sections[i].rows) \subseteq R
  <2> DEFINE rows == sections[i].rows
             m == Len(rows)
  <2>1. m \in Nat /\ rows = [k \in 1 .. m |-> rows[k]]
    BY <1>2 DEF IsSection, IsList
  <2>2. \A k \in DOMAIN rows : rows[k] = <<i, k>>
    BY <1>2
  <2> HIDE DEF m, rows
  <2>3. DOMAIN rows = 1 .. m
    BY <2>1
  <2>4. ASSUME NEW k \in 1 .. m PROVE rows[k] \in R
    <3>1. rows[k] = <<i, k>> /\ i \in Nat /\ k \in Nat
      BY <1>1, <2>1, <2>2, <2>3
    <3> QED BY <3>1
  <2>5. ToSet(rows) \subseteq R
    BY <2>3, <2>4 DEF ToSet
  <2> QED BY <2>3, <2>5 DEF rows, m
<1>4. IsAlphabet(L) /\ sections \in Seq(P)
  <2>1. \A i \in 1 .. n : /\ IsSection(sections[i])
                          /\ ToSet(sections[i].name) \subseteq letters
                          /\ ToSet(sections[i].rows) \subseteq R
    BY <1>2, <1>3
  <2>2. IsList(sections)
    BY DEF IsReport
  <2> HIDE DEF letters, R
  <2> QED BY <2>1, <2>2, SectionsAreParts DEF n
<1>5. \A i \in 1 .. n : \A k \in 1 .. Len(sections[i].rows) : sections[i].rows[k] = <<i, k>>
  BY <1>2, <1>3
<1> HIDE DEF letters, L
<1>6. LET parts == ToExcel(sections)
      IN  /\ RowsOf(parts) = RowsOf(sections)
          /\ Distinct(Titles(parts)) /\ \A i \in DOMAIN parts : Len(parts[i].name) \in 1 .. Width
          /\ \A i \in DOMAIN parts : Len(parts[i].rows) <= SheetRows
  BY <1>4, ExcelHoldsEveryRow
<1>7. LET all == RowsOf(sections)
      IN  RowsOf(ToPdf(sections)) = Among(all, {row \in ToSet(all) : row[2] <= PdfRows})
  BY <1>4, <1>5, PdfHoldsFirstRows DEF n
<1>8. LET parts == ToDownloads(sections)
      IN  /\ RowsOf(parts) = RowsOf(sections)
          /\ Len(sections) = 1 => Distinct(Titles(parts))
          /\ \A i \in DOMAIN parts : Len(parts[i].rows) <= BatchRows
  <2> DEFINE parts == ToDownloads(sections)
  <2>1. BatchRows \in Nat \ {0}
    BY ReportAssumption
  <2>2. /\ parts \in Seq(P) /\ RowsOf(parts) = RowsOf(sections)
        /\ \A i \in 1 .. Len(parts) : Len(parts[i].rows) <= BatchRows
        /\ TellsApart(sections) => \A i, j \in 1 .. Len(parts) : parts[i].name = parts[j].name => i = j
    BY <1>4, <2>1, BatchesHoldEveryRow DEF ToDownloads
  <2>3. Len(sections) = 1 => TellsApart(sections)
    <3>1. \A i, j \in 1 .. 1 : i = j
      OBVIOUS
    <3> QED BY <3>1 DEF TellsApart
  <2> HIDE DEF parts
  <2>4. DOMAIN parts = 1 .. Len(parts)
    BY <2>2, LenProperties
  <2>5. Len(sections) = 1 => Distinct(Titles(parts))
    BY <2>2, <2>3, <2>4 DEF Distinct, Titles
  <2>6. \A i \in DOMAIN parts : Len(parts[i].rows) <= BatchRows
    BY <2>2, <2>4, Zenon
  <2> QED BY <2>2, <2>5, <2>6 DEF parts
<1>9. RowsOf(ToCsv(sections)) = RowsOf(sections)
  <2>1. CASE Len(sections) = 1
    BY <2>1 DEF ToCsv
  <2>2. CASE Len(sections) # 1
    <3>1. ToCsv(sections) = <<Summary>> \o sections
      BY <2>2 DEF ToCsv
    <3>2. RowsOf(<<Summary>> \o sections) = RowsOf(sections)
      BY <1>4, SummaryHasNoRows
    <3> QED BY <3>1, <3>2
  <2> QED BY <2>1, <2>2
<1>10. ASSUME Distinct(Titles(sections)) PROVE RowsOf(ToJson(sections)) = RowsOf(sections)
  <2>1. ToJson(sections) = sections
    BY <1>4, <1>10, JsonHoldsEveryRow
  <2> QED BY <2>1
<1> QED BY <1>6, <1>7, <1>8, <1>9, <1>10

(* An archive of any selection of runs.                                     *)
LEMMA SelectionIsExported ==
  ASSUME NEW runs, IsSelection(runs)
  PROVE  LET files == BuildExport(runs)
         IN  /\ HeadsDiffer(runs) => Distinct([i \in DOMAIN files |-> <<files[i].folder, files[i].name>>])
             /\ RowsOf(files) = FlattenSeq([k \in DOMAIN runs |-> RowsOf(runs[k].sections)])
<1> DEFINE n == Len(runs)
           all == UNION {ToSet(runs[k].sections) : k \in 1 .. n}
           letters == UNION {ToSet(p.name) : p \in all}
           R == UNION {ToSet(p.rows) : p \in all}
           L == Alphabet(letters)
           files == BuildExport(runs)
<1>1. n \in Nat /\ DOMAIN runs = 1 .. n
  <2>1. n \in Nat /\ runs = [i \in 1 .. n |-> runs[i]]
    BY DEF IsSelection, IsList
  <2> HIDE DEF n
  <2> QED BY <2>1
<1> HIDE DEF n
<1>2. \A k \in 1 .. n : runs[k].id.head # 0 /\ IsList(runs[k].sections)
  BY <1>1 DEF IsSelection
<1>3. \A k \in 1 .. n :
        /\ \A i, j \in DOMAIN runs[k].sections :
             runs[k].sections[i].name = runs[k].sections[j].name => i = j
        /\ \A i \in DOMAIN runs[k].sections :
             /\ IsSection(runs[k].sections[i]) /\ runs[k].sections[i].name # Summary.name
             /\ \A c \in ToSet(runs[k].sections[i].name) : c.number = 0
  BY <1>1 DEF IsSelection
<1>4. ASSUME NEW s, IsList(s) PROVE DOMAIN s = 1 .. Len(s)
  BY <1>4, ListIsOver
<1>5. ASSUME NEW k \in 1 .. n
      PROVE  LET s == runs[k].sections
             IN  /\ DOMAIN s = 1 .. Len(s)
                 /\ \A i \in 1 .. Len(s) : DOMAIN s[i].name = 1 .. Len(s[i].name)
                 /\ IsAlphabet(L) /\ s \in Seq(Parts(L, R))
  <2> DEFINE s == runs[k].sections
  <2>1. IsList(s) /\ DOMAIN s = 1 .. Len(s)
    BY <1>2, <1>4
  <2>2. \A i \in 1 .. Len(s) : IsSection(s[i])
    BY <1>3, <2>1
  <2>3. \A i \in 1 .. Len(s) : s[i] \in all
    BY <2>1 DEF ToSet
  <2> HIDE DEF s, all
  <2>4. \A i \in 1 .. Len(s) : ToSet(s[i].name) \subseteq letters /\ ToSet(s[i].rows) \subseteq R
    BY <2>3
  <2> HIDE DEF letters, R
  <2>5. IsAlphabet(L) /\ s \in Seq(Parts(L, R))
    BY <2>1, <2>2, <2>4, SectionsAreParts
  <2>6. \A i \in 1 .. Len(s) : DOMAIN s[i].name = 1 .. Len(s[i].name)
    BY <1>4, <2>2 DEF IsSection
  <2> QED BY <2>1, <2>5, <2>6 DEF s
<1>6. IsAlphabet(L)
  BY DEF Alphabet, IsAlphabet
<1> HIDE DEF L, R, all, letters
<1>7. runs \in Seq(ToSet(runs))
  BY ListIsOver DEF IsSelection
<1>8. /\ \A k \in 1 .. n : runs[k].sections \in Seq(Parts(L, R))
      /\ \A k \in 1 .. n : \A i, j \in 1 .. Len(runs[k].sections) :
           runs[k].sections[i].name = runs[k].sections[j].name => i = j
      /\ \A k \in 1 .. n : \A i \in 1 .. Len(runs[k].sections) :
           /\ runs[k].sections[i].name # Summary.name
           /\ \A c \in 1 .. Len(runs[k].sections[i].name) : runs[k].sections[i].name[c].number = 0
  <2> SUFFICES ASSUME NEW k \in 1 .. n
               PROVE  /\ runs[k].sections \in Seq(Parts(L, R))
                      /\ \A i, j \in 1 .. Len(runs[k].sections) :
                           runs[k].sections[i].name = runs[k].sections[j].name => i = j
                      /\ \A i \in 1 .. Len(runs[k].sections) :
                           /\ runs[k].sections[i].name # Summary.name
                           /\ \A c \in 1 .. Len(runs[k].sections[i].name) :
                                runs[k].sections[i].name[c].number = 0
    OBVIOUS
  <2>1. /\ DOMAIN runs[k].sections = 1 .. Len(runs[k].sections)
        /\ runs[k].sections \in Seq(Parts(L, R))
        /\ \A i \in 1 .. Len(runs[k].sections) :
             DOMAIN runs[k].sections[i].name = 1 .. Len(runs[k].sections[i].name)
    BY <1>5
  <2> QED BY <1>3, <2>1 DEF ToSet
<1> DEFINE Q == ToSet(runs)
<1> HIDE DEF Q
<1>9. HoldRuns(BuildExport(runs), runs)
  <2>1. runs \in Seq(Q)
    BY <1>7 DEF Q
  <2>2. \A k \in 1 .. Len(runs) : runs[k].id.head # 0
    BY <1>2 DEF n
  <2>4. \A k \in 1 .. Len(runs) : runs[k].sections \in Seq(Parts(L, R))
    BY <1>8 DEF n
  <2>5. \A k \in 1 .. Len(runs) : \A i, j \in 1 .. Len(runs[k].sections) :
          runs[k].sections[i].name = runs[k].sections[j].name => i = j
    BY <1>8 DEF n
  <2>6. \A k \in 1 .. Len(runs) : \A i \in 1 .. Len(runs[k].sections) :
          /\ runs[k].sections[i].name # Summary.name
          /\ \A c \in 1 .. Len(runs[k].sections[i].name) : runs[k].sections[i].name[c].number = 0
    BY <1>8 DEF n
  <2> QED BY <1>6, <2>1, <2>2, <2>4, <2>5, <2>6, BuildHoldsEveryRow
<1>10. HeadsDiffer(runs) => Distinct([i \in DOMAIN files |-> <<files[i].folder, files[i].name>>])
  BY <1>9 DEF Distinct, HoldRuns, files
<1> QED BY <1>9, <1>10, Zenon DEF files, HoldRuns

=============================================================================
