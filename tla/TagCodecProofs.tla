--------------------------- MODULE TagCodecProofs ----------------------------
(***************************************************************************)
(* The tag codec: proofs for all names, values and files, for lists of     *)
(* every length and for any number of calls.                               *)
(***************************************************************************)
EXTENDS TagCodec, Induction, SequenceTheorems, FiniteSetTheorems, FunctionTheorems

-----------------------------------------------------------------------------
(* Sums and joined sequences, from their last element.                     *)

\* Without its last element.
Shorter(s, n) == [k \in 1 .. n - 1 |-> s[k]]

\* The recursion that defines Sum.
LEMMA SumSolved ==
  ASSUME NEW n \in Nat, NEW s \in [1 .. n -> Int]
  PROVE  \E u : /\ Solves(u, n, Int, 0, [k \in 1 .. n |-> [x \in Int |-> x + s[k]]])
               /\ Sum(s) = u[n]
<1> DEFINE step  == [k \in 1 .. n |-> [x \in Int |-> x + s[k]]]
           Eq(v) == v = [k \in 0 .. n |-> IF k = 0 THEN 0 ELSE v[k - 1] + s[k]]
           u     == CHOOSE v : Eq(v)
<1>1. \A k \in 1 .. n, x \in Int : step[k][x] = x + s[k] /\ s[k] \in Int
  OBVIOUS
<1>2. IsRecursion(n, Int, 0, step)
  <2>1. step \in [1 .. n -> [Int -> Int]]
    OBVIOUS
  <2>. QED  BY <2>1 DEF IsRecursion
<1>3. s \in Seq(Int) /\ Len(s) = n
  OBVIOUS
<1>4. PICK g : Solves(g, n, Int, 0, step)
  <2> HIDE DEF step
  <2>. QED  BY <1>2, RecursionExists
<1>5. Eq(g)
  <2> HIDE DEF step
  <2>1. /\ g \in [0 .. n -> Int] /\ g[0] = 0
        /\ \A k \in 1 .. n : g[k] = step[k][g[k - 1]]
    BY <1>4 DEF Solves
  <2>2. \A k \in 1 .. n : k - 1 \in 0 .. n /\ k \in 0 .. n
    OBVIOUS
  <2>3. \A k \in 1 .. n : g[k] = g[k - 1] + s[k]
    BY <1>1, <2>1, <2>2
  <2>4. \A k \in 0 .. n : g[k] = IF k = 0 THEN 0 ELSE g[k - 1] + s[k]
    BY <2>1, <2>3
  <2>. QED  BY <2>1, <2>4
<1>6. Eq(u)
  <2> HIDE DEF Eq
  <2>. QED  BY <1>5
<1>7. Sum(s) = u[n]
  BY <1>3 DEF Sum
<1> HIDE DEF u
<1>8. u = [k \in 0 .. n |-> u[k]] /\ u[0] = 0
  BY <1>6
<1>9. \A k \in 1 .. n : u[k - 1] \in Int => u[k] = step[k][u[k - 1]]
  <2>1. \A k \in 1 .. n : u[k] = u[k - 1] + s[k]
    BY <1>6
  <2> HIDE DEF step
  <2>. QED  BY <1>1, <2>1
<1>10. Solves(u, n, Int, 0, step)
  <2> HIDE DEF step
  <2>. QED  BY <1>2, <1>8, <1>9, RecursionSolved
<1>. QED
  BY <1>7, <1>10

LEMMA SumStep ==
  ASSUME NEW n \in Nat, NEW s \in [1 .. n -> Int]
  PROVE  /\ Sum(s) \in Int
         /\ n = 0 => Sum(s) = 0
         /\ n > 0 => Sum(s) = Sum(Shorter(s, n)) + s[n]
<1> DEFINE step == [k \in 1 .. n |-> [x \in Int |-> x + s[k]]]
<1>1. \A k \in 1 .. n, x \in Int : step[k][x] = x + s[k] /\ s[k] \in Int
  OBVIOUS
<1>2. IsRecursion(n, Int, 0, step)
  <2>1. step \in [1 .. n -> [Int -> Int]]
    OBVIOUS
  <2>. QED  BY <2>1 DEF IsRecursion
<1>3. PICK u : Solves(u, n, Int, 0, step) /\ Sum(s) = u[n]
  BY SumSolved
<1>4. ASSUME n > 0
      PROVE  Sum(s) = Sum(Shorter(s, n)) + s[n]
  <2> DEFINE m == n - 1
             r == Shorter(s, n)
             prefix == [k \in 1 .. m |-> [x \in Int |-> x + r[k]]]
  <2>1. m \in Nat /\ m <= n /\ \A k \in 1 .. m : k \in 1 .. n
    BY <1>4
  <2>2. r \in [1 .. m -> Int] /\ \A k \in 1 .. m : r[k] = s[k]
    BY <2>1 DEF Shorter
  <2> HIDE DEF r, m
  <2>3. PICK h : Solves(h, m, Int, 0, prefix) /\ Sum(r) = h[m]
    BY <2>1, <2>2, SumSolved
  <2>4. \A k \in 1 .. m : prefix[k] = step[k]
    BY <2>1, <2>2
  <2>5. IsRecursion(m, Int, 0, prefix)
    <3>1. prefix \in [1 .. m -> [Int -> Int]]
      BY <2>2
    <3>. QED  BY <2>1, <3>1 DEF IsRecursion
  <2> HIDE DEF step, prefix
  <2>6. h[m] = u[m]
    <3>1. \A k \in 0 .. m : h[k] = u[k]
      BY <1>2, <1>3, <2>1, <2>3, <2>4, <2>5, RecursionUnique
    <3>. QED  BY <2>1, <3>1
  <2>7. u[n] = step[n][u[m]] /\ u[m] \in Int
    BY <1>3, <1>4 DEF Solves, m
  <2>8. u[n] = u[m] + s[n]
    <3>1. n \in 1 .. n
      BY <1>4
    <3>. QED  BY <1>1, <2>7, <3>1
  <2>. QED  BY <1>3, <2>3, <2>6, <2>8 DEF r
<1>5. u[n] \in Int /\ u[0] = 0
  <2> HIDE DEF step
  <2>. QED  BY <1>3 DEF Solves
<1>. QED
  BY <1>3, <1>4, <1>5

\* The recursion that defines FlattenSeq.
LEMMA FlattenSolved ==
  ASSUME NEW T, NEW n \in Nat, NEW s \in [1 .. n -> Seq(T)]
  PROVE  \E u : /\ Solves(u, n, Seq(T), << >>, [k \in 1 .. n |-> [x \in Seq(T) |-> x \o s[k]]])
               /\ FlattenSeq(s) = u[n]
<1> DEFINE step  == [k \in 1 .. n |-> [x \in Seq(T) |-> x \o s[k]]]
           Eq(v) == v = [i \in 1 .. n |-> IF i = 1 THEN s[i] ELSE v[i - 1] \o s[i]]
           f     == CHOOSE v : Eq(v)
<1>1. \A k \in 1 .. n, x \in Seq(T) :
        step[k][x] = x \o s[k] /\ s[k] \in Seq(T) /\ x \o s[k] \in Seq(T)
  OBVIOUS
<1>2. IsRecursion(n, Seq(T), << >>, step)
  <2>1. step \in [1 .. n -> [Seq(T) -> Seq(T)]]
    OBVIOUS
  <2>. QED  BY <2>1 DEF IsRecursion
<1>3. s \in Seq(Seq(T)) /\ Len(s) = n
  OBVIOUS
<1>4. PICK g : Solves(g, n, Seq(T), << >>, step)
  <2> HIDE DEF step
  <2>. QED  BY <1>2, RecursionExists
<1>5. /\ g \in [0 .. n -> Seq(T)] /\ g[0] = << >>
      /\ \A k \in 1 .. n : g[k] = step[k][g[k - 1]]
  <2> HIDE DEF step
  <2>. QED  BY <1>4 DEF Solves
<1>6. \A k \in 1 .. n : k - 1 \in 0 .. n /\ k \in 0 .. n
  OBVIOUS
<1>7. \A k \in 1 .. n : g[k] = g[k - 1] \o s[k]
  <2> HIDE DEF step
  <2>. QED  BY <1>1, <1>5, <1>6
<1>8. n > 0 => g[1] = s[1]
  <2>1. \A x \in Seq(T) : << >> \o x = x
    BY ConcatEmptySeq
  <2>2. ASSUME n > 0
        PROVE  g[1] = s[1]
    <3>1. 1 \in 1 .. n
      BY <2>2
    <3>2. g[1] = g[1 - 1] \o s[1]
      BY <1>7, <3>1
    <3>3. g[1] = << >> \o s[1]
      <4>1. 1 - 1 = 0
        OBVIOUS
      <4>. QED  BY <1>5, <3>2, <4>1
    <3>. QED  BY <1>1, <2>1, <3>1, <3>3
  <2>. QED  BY <2>2
<1> DEFINE h == [i \in 1 .. n |-> g[i]]
<1>9. Eq(h)
  <2>1. \A i \in 1 .. n : h[i] = IF i = 1 THEN s[i] ELSE h[i - 1] \o s[i]
    <3>1. TAKE i \in 1 .. n
    <3>2. CASE i = 1
      BY <1>8, <3>2
    <3>3. CASE i # 1
      <4>1. i - 1 \in 1 .. n
        BY <3>3
      <4>2. h[i - 1] = g[i - 1] /\ h[i] = g[i]
        BY <4>1
      <4>. QED  BY <1>7, <3>3, <4>2
    <3>. QED  BY <3>2, <3>3
  <2>. QED  BY <2>1
<1>10. Eq(f)
  <2> HIDE DEF Eq
  <2>. QED  BY <1>9
<1>11. FlattenSeq(s) = IF n = 0 THEN s ELSE f[n]
  BY <1>3 DEF FlattenSeq
<1> HIDE DEF f
<1> DEFINE u == [k \in 0 .. n |-> IF k = 0 THEN << >> ELSE f[k]]
<1>12. \A k \in 1 .. n : u[k - 1] \in Seq(T) => u[k] = step[k][u[k - 1]]
  <2>1. ASSUME NEW k \in 1 .. n, u[k - 1] \in Seq(T)
        PROVE  u[k] = u[k - 1] \o s[k]
    <3>1. f[k] = IF k = 1 THEN s[k] ELSE f[k - 1] \o s[k]
      BY <1>10
    <3>2. CASE k = 1
      <4>1. u[k] = s[k] /\ u[k - 1] = << >>
        BY <3>1, <3>2
      <4>. QED  BY <1>1, <4>1, ConcatEmptySeq
    <3>3. CASE k # 1
      <4>1. u[k] = f[k] /\ u[k - 1] = f[k - 1]
        BY <3>3
      <4>. QED  BY <3>1, <3>3, <4>1
    <3>. QED  BY <3>2, <3>3
  <2> HIDE DEF step, u
  <2>. QED  BY <1>1, <2>1
<1>13. u = [k \in 0 .. n |-> u[k]] /\ u[0] = << >>
  OBVIOUS
<1>14. Solves(u, n, Seq(T), << >>, step)
  <2> HIDE DEF step, u
  <2>. QED  BY <1>2, <1>12, <1>13, RecursionSolved
<1>15. FlattenSeq(s) = u[n]
  <2>1. CASE n = 0
    BY <1>3, <1>11, <2>1, EmptySeq
  <2>2. CASE n # 0
    BY <1>11, <2>2
  <2>. QED  BY <2>1, <2>2
<1>. QED
  BY <1>14, <1>15

LEMMA FlattenStep ==
  ASSUME NEW T, NEW n \in Nat, NEW s \in [1 .. n -> Seq(T)]
  PROVE  /\ FlattenSeq(s) \in Seq(T)
         /\ n = 0 => FlattenSeq(s) = << >>
         /\ n > 0 => FlattenSeq(s) = FlattenSeq(Shorter(s, n)) \o s[n]
<1> DEFINE step == [k \in 1 .. n |-> [x \in Seq(T) |-> x \o s[k]]]
<1>1. \A k \in 1 .. n, x \in Seq(T) :
        step[k][x] = x \o s[k] /\ s[k] \in Seq(T) /\ x \o s[k] \in Seq(T)
  OBVIOUS
<1>2. IsRecursion(n, Seq(T), << >>, step)
  <2>1. step \in [1 .. n -> [Seq(T) -> Seq(T)]]
    OBVIOUS
  <2>. QED  BY <2>1 DEF IsRecursion
<1>3. PICK u : Solves(u, n, Seq(T), << >>, step) /\ FlattenSeq(s) = u[n]
  BY FlattenSolved
<1>4. ASSUME n > 0
      PROVE  FlattenSeq(s) = FlattenSeq(Shorter(s, n)) \o s[n]
  <2> DEFINE m == n - 1
             r == Shorter(s, n)
             prefix == [k \in 1 .. m |-> [x \in Seq(T) |-> x \o r[k]]]
  <2>1. m \in Nat /\ m <= n /\ \A k \in 1 .. m : k \in 1 .. n
    BY <1>4
  <2>2. r \in [1 .. m -> Seq(T)] /\ \A k \in 1 .. m : r[k] = s[k]
    BY <2>1 DEF Shorter
  <2> HIDE DEF r, m
  <2>3. PICK h : Solves(h, m, Seq(T), << >>, prefix) /\ FlattenSeq(r) = h[m]
    BY <2>1, <2>2, FlattenSolved
  <2>4. \A k \in 1 .. m : prefix[k] = step[k]
    BY <2>1, <2>2
  <2>5. IsRecursion(m, Seq(T), << >>, prefix)
    <3>1. prefix \in [1 .. m -> [Seq(T) -> Seq(T)]]
      BY <2>2
    <3>. QED  BY <2>1, <3>1 DEF IsRecursion
  <2> HIDE DEF step, prefix
  <2>6. h[m] = u[m]
    <3> DEFINE S == Seq(T)
               e == << >>
    <3>1. IsRecursion(n, S, e, step) /\ IsRecursion(m, S, e, prefix)
      BY <1>2, <2>5
    <3>2. Solves(u, n, S, e, step) /\ Solves(h, m, S, e, prefix)
      BY <1>3, <2>3
    <3> HIDE DEF S, e
    <3>3. \A k \in 0 .. m : h[k] = u[k]
      BY <2>1, <2>4, <3>1, <3>2, RecursionUnique
    <3>. QED  BY <2>1, <3>3
  <2>7. u[n] = step[n][u[m]] /\ u[m] \in Seq(T)
    BY <1>3, <1>4 DEF Solves, m
  <2>8. u[n] = u[m] \o s[n]
    <3>1. n \in 1 .. n
      BY <1>4
    <3>. QED  BY <1>1, <2>7, <3>1
  <2>. QED  BY <1>3, <2>3, <2>6, <2>8 DEF r
<1>5. u[n] \in Seq(T) /\ u[0] = << >>
  <2> HIDE DEF step
  <2>. QED  BY <1>3 DEF Solves
<1>. QED
  BY <1>3, <1>4, <1>5

-----------------------------------------------------------------------------
(* The order of writing.                                                   *)

\* A list is in order if no tag of a later name is in front of another.
Sorted(s) ==
  \A i, j \in DOMAIN s : i < j => RankOf(s[i].name) <= RankOf(s[j].name)

LEMMA Ranks ==
  ASSUME CodecAssumption
  PROVE  /\ \A n \in Names : RankOf(n) \in Nat
         /\ \A n, m \in Names : RankOf(n) = RankOf(m) => n = m
<1>1. DOMAIN NameOrder = 1 .. Len(NameOrder) /\ Len(NameOrder) \in Nat
  BY DEF CodecAssumption
<1>2. ASSUME NEW n \in Names
      PROVE  RankOf(n) \in DOMAIN NameOrder /\ NameOrder[RankOf(n)] = n
  <2>1. \E r \in DOMAIN NameOrder : NameOrder[r] = n
    BY <1>2 DEF Names, Range
  <2>. QED  BY <2>1 DEF RankOf
<1>3. \A n \in Names : RankOf(n) \in Nat
  BY <1>1, <1>2
<1>4. ASSUME NEW n \in Names, NEW m \in Names, RankOf(n) = RankOf(m)
      PROVE  n = m
  <2>1. NameOrder[RankOf(n)] = n /\ NameOrder[RankOf(m)] = m
    BY <1>2
  <2>. QED  BY <1>4, <2>1
<1>. QED
  BY <1>3, <1>4

LEMMA TagsOf ==
  ASSUME CodecAssumption, NEW s \in Seq(TagType)
  PROVE  /\ Len(s) \in Nat /\ DOMAIN s = 1 .. Len(s)
         /\ \A i \in DOMAIN s : /\ i \in Nat /\ s[i] \in TagType /\ s[i].name \in Names
                                /\ RankOf(s[i].name) \in Nat
<1>1. Len(s) \in Nat /\ DOMAIN s = 1 .. Len(s) /\ \A i \in DOMAIN s : i \in Nat /\ s[i] \in TagType
  OBVIOUS
<1>2. \A t \in TagType : t.name \in Names
  BY DEF TagType
<1>. QED
  BY <1>1, <1>2, Ranks

\* A list in order stays as it is.
LEMMA SortedStays ==
  ASSUME CodecAssumption, NEW s \in Seq(TagType), Sorted(s)
  PROVE  ByName(s) = s
<1> DEFINE D == DOMAIN s
<1>1. /\ Len(s) \in Nat /\ D = 1 .. Len(s)
      /\ \A i \in D : i \in Nat /\ s[i].name \in Names /\ RankOf(s[i].name) \in Nat
  BY TagsOf
<1>2. ASSUME NEW i \in D
      PROVE  Place(s, i) = i
  <2>1. ASSUME NEW j \in D
        PROVE  Before(s, j, i) <=> j < i
    <3>1. CASE j < i
      <4>1. RankOf(s[j].name) <= RankOf(s[i].name)
        BY <3>1 DEF Sorted
      <4>2. RankOf(s[j].name) = RankOf(s[i].name) => s[j].name = s[i].name
        BY <1>1, Ranks
      <4>3. RankOf(s[j].name) \in Nat /\ RankOf(s[i].name) \in Nat
        BY <1>1
      <4>4. RankOf(s[j].name) < RankOf(s[i].name) \/ s[j].name = s[i].name
        BY <4>1, <4>2, <4>3
      <4>. QED  BY <3>1, <4>4 DEF Before
    <3>2. CASE ~ (j < i)
      <4>1. j = i \/ i < j
        BY <1>1, <3>2
      <4>2. RankOf(s[i].name) <= RankOf(s[j].name)
        <5>1. CASE j = i
          BY <1>1, <5>1
        <5>2. CASE i < j
          BY <5>2 DEF Sorted
        <5>. QED  BY <4>1, <5>1, <5>2
      <4>3. ~ (RankOf(s[j].name) < RankOf(s[i].name))
        BY <1>1, <4>2
      <4>. QED  BY <3>2, <4>3 DEF Before
    <3>. QED  BY <3>1, <3>2
  <2>2. {j \in D : Before(s, j, i)} = 1 .. i - 1
    <3>1. \A j : j \in 1 .. i - 1 <=> j \in D /\ j < i
      BY <1>1
    <3>. QED  BY <2>1, <3>1
  <2>3. Cardinality(1 .. i - 1) = i - 1
    <3>1. i \in Nat /\ i >= 1
      BY <1>1
    <3>. QED  BY <3>1, FS_Interval
  <2>4. Place(s, i) = (i - 1) + 1
    BY <2>2, <2>3 DEF Place
  <2>. QED  BY <1>1, <2>4
<1>3. ASSUME NEW n \in D
      PROVE  (CHOOSE i \in D : Place(s, i) = n) = n
  BY <1>2
<1>4. \A n \in D : ByName(s)[n] = s[n]
  BY <1>3 DEF ByName
<1>5. ByName(s) = [n \in D |-> ByName(s)[n]] /\ s = [n \in D |-> s[n]]
  BY DEF ByName
<1>. QED
  BY <1>4, <1>5

LEMMA IntervalSize ==
  ASSUME NEW n \in Nat
  PROVE  IsFiniteSet(1 .. n) /\ Cardinality(1 .. n) = n
<1>1. n \in Int /\ 1 \in Int
  OBVIOUS
<1>2. IsFiniteSet(1 .. n) /\ Cardinality(1 .. n) = IF 1 > n THEN 0 ELSE n - 1 + 1
  BY <1>1, FS_Interval
<1>. QED
  BY <1>2

\* Sorting brings a list in order and keeps its tags.
LEMMA ByNameSorts ==
  ASSUME CodecAssumption, NEW s \in Seq(TagType)
  PROVE  /\ ByName(s) \in Seq(TagType)
         /\ DOMAIN ByName(s) = DOMAIN s
         /\ \A n \in DOMAIN s : \E i \in DOMAIN s : ByName(s)[n] = s[i]
         /\ Sorted(ByName(s))
<1> DEFINE D       == DOMAIN s
           B(i)    == {j \in D : Before(s, j, i)}
           place   == [i \in D |-> Place(s, i)]
<1>1. /\ Len(s) \in Nat /\ D = 1 .. Len(s)
      /\ \A i \in D : i \in Nat /\ s[i] \in TagType /\ s[i].name \in Names
                      /\ RankOf(s[i].name) \in Nat
  BY TagsOf
<1>2. IsFiniteSet(D) /\ Cardinality(D) = Len(s)
  <2>. QED  BY <1>1, IntervalSize
<1>3. \A i \in D : IsFiniteSet(B(i)) /\ Cardinality(B(i)) \in Nat
  <2>1. TAKE i \in D
  <2>2. B(i) \in SUBSET D
    OBVIOUS
  <2>. QED  BY <1>2, <2>2, FS_Subset, FS_CardinalityType
<1>4. ASSUME NEW i \in D, NEW j \in D, i # j
      PROVE  Before(s, i, j) \/ Before(s, j, i)
  <2>1. RankOf(s[i].name) \in Nat /\ RankOf(s[j].name) \in Nat /\ i \in Nat /\ j \in Nat
    BY <1>1
  <2>2. RankOf(s[i].name) = RankOf(s[j].name) => s[i].name = s[j].name
    BY <1>1, Ranks
  <2>. QED  BY <1>4, <2>1, <2>2 DEF Before
<1>5. ASSUME NEW i \in D, NEW j \in D, Before(s, i, j)
      PROVE  /\ RankOf(s[i].name) <= RankOf(s[j].name)
             /\ Place(s, i) < Place(s, j)
  <2>1. RankOf(s[i].name) \in Nat /\ RankOf(s[j].name) \in Nat /\ i \in Nat /\ j \in Nat
    BY <1>1
  <2>2. RankOf(s[i].name) <= RankOf(s[j].name)
    BY <1>5, <2>1 DEF Before
  <2>3. B(i) \subseteq B(j)
    <3>1. ASSUME NEW k \in D, Before(s, k, i)
          PROVE  Before(s, k, j)
      <4>1. RankOf(s[k].name) \in Nat /\ k \in Nat
        BY <1>1
      <4>. QED  BY <1>5, <2>1, <3>1, <4>1 DEF Before
    <3>. QED  BY <3>1
  <2>4. i \in B(j) /\ i \notin B(i)
    BY <1>5, <2>1 DEF Before
  <2>5. Cardinality(B(i)) < Cardinality(B(j))
    <3>1. B(i) \in SUBSET B(j) /\ B(i) # B(j)
      BY <2>3, <2>4
    <3>2. IsFiniteSet(B(j)) /\ Cardinality(B(j)) \in Nat /\ Cardinality(B(i)) \in Nat
      BY <1>3
    <3> HIDE DEF B
    <3>3. Cardinality(B(i)) <= Cardinality(B(j)) /\ Cardinality(B(i)) # Cardinality(B(j))
      BY <3>1, <3>2, FS_Subset
    <3>. QED  BY <3>2, <3>3
  <2>6. Place(s, i) = Cardinality(B(i)) + 1 /\ Place(s, j) = Cardinality(B(j)) + 1
    BY DEF Place
  <2>7. Cardinality(B(i)) \in Nat /\ Cardinality(B(j)) \in Nat
    BY <1>3
  <2> HIDE DEF B
  <2>. QED  BY <2>2, <2>5, <2>6, <2>7
<1>6. \A i \in D : Place(s, i) \in D
  <2>1. TAKE i \in D
  <2>2. B(i) \in SUBSET D /\ B(i) # D
    <3>1. ~ Before(s, i, i)
      BY <1>1 DEF Before
    <3>. QED  BY <3>1
  <2>3. Cardinality(B(i)) \in Nat
    BY <1>3
  <2>4. Cardinality(B(i)) <= Len(s) /\ Cardinality(B(i)) # Len(s)
    <3> HIDE DEF B, D
    <3>. QED  BY <1>2, <2>2, FS_Subset
  <2>5. Place(s, i) = Cardinality(B(i)) + 1
    BY DEF Place
  <2> HIDE DEF B
  <2>. QED  BY <1>1, <2>3, <2>4, <2>5
<1>7. \A i, j \in D : Place(s, i) = Place(s, j) => i = j
  <2>1. \A i \in D : Place(s, i) \in Nat
    BY <1>1, <1>6
  <2>. QED  BY <1>4, <1>5, <2>1
<1>8. \A n \in D : \E i \in D : Place(s, i) = n
  <2>1. place \in [D -> D] /\ \A i, j \in D : place[i] = place[j] => i = j
    BY <1>6, <1>7
  <2>2. \A i \in D : place[i] = Place(s, i)
    OBVIOUS
  <2> HIDE DEF place, D
  <2>3. place \in Injection(D, D)
    BY <2>1, Fun_IsInj
  <2>4. place \in Surjection(D, D)
    BY <1>2, <2>3, FS_Injection
  <2>5. \A n \in D : \E i \in D : place[i] = n
    BY <2>4 DEF Surjection
  <2>. QED  BY <2>2, <2>5
<1> DEFINE at(n) == CHOOSE i \in D : Place(s, i) = n
<1>9. \A n \in D : at(n) \in D /\ Place(s, at(n)) = n
  BY <1>8
<1>10. \A n \in D : ByName(s)[n] = s[at(n)]
  BY DEF ByName
<1>11. DOMAIN ByName(s) = D /\ ByName(s) = [n \in D |-> ByName(s)[n]]
  BY DEF ByName
<1> HIDE DEF at, D
<1>12. Sorted(ByName(s))
  <2>1. ASSUME NEW n \in D, NEW m \in D, n < m
        PROVE  RankOf(ByName(s)[n].name) <= RankOf(ByName(s)[m].name)
    <3>1. at(n) \in D /\ at(m) \in D /\ Place(s, at(n)) = n /\ Place(s, at(m)) = m
      BY <1>9
    <3>2. n \in Nat /\ m \in Nat
      BY <1>1
    <3>3. at(n) # at(m)
      BY <2>1, <3>1, <3>2
    <3>4. ~ Before(s, at(m), at(n))
      <4>1. Before(s, at(m), at(n)) => m < n
        BY <1>5, <3>1
      <4>. QED  BY <2>1, <3>2, <4>1
    <3>5. Before(s, at(n), at(m))
      BY <1>4, <3>1, <3>3, <3>4
    <3>. QED  BY <1>5, <1>10, <3>1, <3>5
  <2>. QED  BY <1>11, <2>1 DEF Sorted
<1>13. ByName(s) \in Seq(TagType)
  <2>1. \A n \in D : ByName(s)[n] \in TagType
    BY <1>1, <1>9, <1>10
  <2>. QED  BY <1>1, <1>11, <2>1
<1>. QED
  BY <1>9, <1>10, <1>11, <1>12, <1>13 DEF D

-----------------------------------------------------------------------------
(* Values, tags and boxes have their types.                                *)

LEMMA Remainders ==
  ASSUME NEW M \in Nat, M > 0, NEW x \in Int
  PROVE  /\ x % M \in Int /\ 0 <= x % M /\ x % M < M
         /\ 0 <= x /\ x < M => x % M = x
OBVIOUS

LEMMA Numbers ==
  ASSUME CodecAssumption
  PROVE  /\ \A n \in Int : Digits(n) \in Nat /\ Num(n) \in TextValue
         /\ \A a, b \in Int : Pair(a, b) \in TextValue
         /\ \A n \in Int, w \in Widths :
              /\ Unsigned(n, w) \in Int /\ Unsigned(Unsigned(n, w), w) = Unsigned(n, w)
              /\ Signed(n, w) \in Int   /\ Signed(Signed(n, w), w) = Signed(n, w)
              /\ Stored(n, w) \in Int   /\ Stored(Stored(n, w), w) = Stored(n, w)
<1>1. ASSUME NEW n \in Int
      PROVE  Digits(n) \in Nat
  <2> DEFINE m == IF n < 0 THEN -n ELSE n
             S == {k \in 1 .. MaxDigits - 1 : m >= 10 ^ k}
  <2>1. IsFiniteSet(S) /\ Cardinality(S) \in Nat
    <3>1. MaxDigits - 1 \in Int /\ 1 \in Int
      BY DEF CodecAssumption
    <3>2. IsFiniteSet(1 .. MaxDigits - 1)
      BY <3>1, FS_Interval
    <3>3. S \in SUBSET (1 .. MaxDigits - 1)
      OBVIOUS
    <3> HIDE DEF S
    <3>. QED  BY <3>2, <3>3, FS_Subset, FS_CardinalityType
  <2>2. Digits(n) = (IF n < 0 THEN 2 ELSE 1) + Cardinality(S)
    BY DEF Digits
  <2> HIDE DEF S
  <2>. QED  BY <2>1, <2>2
<1>2. \A n \in Int : Num(n) \in TextValue
  BY <1>1 DEF Num, Value, TextValue, TextForms
<1>3. ASSUME NEW a \in Int, NEW b \in Int
      PROVE  Pair(a, b) \in TextValue
  <2>1. Digits(a) + 1 + Digits(b) \in Nat
    <3>1. Digits(a) \in Nat /\ Digits(b) \in Nat
      BY <1>1
    <3>. QED  BY <3>1
  <2>. QED  BY <2>1 DEF Pair, Value, TextValue, TextForms
<1>4. ASSUME NEW n \in Int, NEW w \in Widths
      PROVE  /\ Unsigned(n, w) \in Int /\ Unsigned(Unsigned(n, w), w) = Unsigned(n, w)
             /\ Signed(n, w) \in Int   /\ Signed(Signed(n, w), w) = Signed(n, w)
  <2> DEFINE M == Values[w]
             h == M \div 2
  <2>1. M \in Nat /\ M > 0
    BY DEF CodecAssumption
  <2>2. h \in Nat
    <3> HIDE DEF M
    <3>. QED  BY <2>1
  <2>3. \A x \in Int : x % M \in Int /\ 0 <= x % M /\ x % M < M
    <3> HIDE DEF M
    <3>. QED  BY <2>1, Remainders
  <2>4. \A x \in Int : 0 <= x /\ x < M => x % M = x
    <3> HIDE DEF M
    <3>. QED  BY <2>1, Remainders
  <2>5. \A x \in Int : Unsigned(x, w) = x % M /\ Signed(x, w) = ((x + h) % M) - h
    BY DEF Unsigned, Signed
  <2> HIDE DEF M, h
  <2>6. n % M \in Int /\ (n % M) % M = n % M
    BY <2>1, <2>3, <2>4
  <2>7. ((n + h) % M) - h \in Int /\ ((((n + h) % M) - h + h) % M) - h = ((n + h) % M) - h
    <3>1. n + h \in Int
      BY <2>2
    <3>2. (n + h) % M \in Int /\ ((n + h) % M) % M = (n + h) % M
      BY <2>1, <2>3, <2>4, <3>1
    <3>3. ((n + h) % M) - h + h = (n + h) % M
      BY <2>2, <3>2
    <3>. QED  BY <2>2, <3>2, <3>3
  <2>. QED  BY <2>5, <2>6, <2>7
<1>5. \A n \in Int, w \in Widths :
        Stored(n, w) \in Int /\ Stored(Stored(n, w), w) = Stored(n, w)
  BY <1>4 DEF Stored
<1>. QED
  BY <1>1, <1>2, <1>3, <1>4, <1>5

\* Only an image has a covername.
GoodTag == {t \in TagType : t.name # "covr" => t.covername = NoValue}

LEMMA TagFacts ==
  ASSUME NEW t \in TagType
  PROVE  /\ t.name \in Names /\ t.type \in Types /\ t.internallen \in Nat
         /\ t.data \in TextValue \cup ByteValue /\ t.data \in AnyValue
         /\ t.data.len \in Nat /\ t.data.a \in Int /\ t.data.b \in Int
         /\ IsBinary(t.data) => t.data \in ByteValue /\ t.data = Blob(t.data.a, t.data.len)
         /\ AtoLL(t.data) \in Int
         /\ ParsePair(t.data)[1] \in Int /\ ParsePair(t.data)[2] \in Int
         /\ t.covername \in TextValue \cup {NoValue} /\ t.covername.len \in Nat
         /\ Named(t) => t.covername \in TextValue /\ t.covername # NoValue
         /\ NameRoom(t) \in Nat
<1>1. /\ t.name \in Names /\ t.type \in Types /\ t.internallen \in Nat
      /\ t.data \in TextValue \cup ByteValue
      /\ t.covername \in TextValue \cup {NoValue}
  BY DEF TagType
<1>2. \A v \in TextValue \cup ByteValue :
        /\ v \in AnyValue /\ v.len \in Nat /\ v.a \in Int /\ v.b \in Int
        /\ v.form = "bytes" => v \in ByteValue
  BY DEF TextValue, ByteValue, AnyValue, TextForms
<1>3. \A v \in ByteValue : v = Blob(v.a, v.len)
  BY DEF ByteValue, Blob, Value
<1>4. AtoLL(t.data) \in Int /\ ParsePair(t.data)[1] \in Int /\ ParsePair(t.data)[2] \in Int
  BY <1>1, <1>2 DEF AtoLL, ParsePair
<1>5. NoValue.len = 0
  BY DEF NoValue, Value
<1>6. t.covername.len \in Nat
  BY <1>1, <1>2, <1>5
<1>7. Named(t) => t.covername \in TextValue /\ t.covername # NoValue
  BY <1>1, <1>5 DEF Named
<1>8. NameRoom(t) \in Nat
  BY <1>6 DEF NameRoom, BoxHeadSz
<1>. QED
  BY <1>1, <1>2, <1>3, <1>4, <1>6, <1>7, <1>8 DEF IsBinary

LEMMA PartTyped ==
  ASSUME CodecAssumption, NEW t \in TagType
  PROVE  /\ SaveLen(t) \in Nat /\ Payload(t) \in AnyValue /\ PartOf(t) \in PartType
         /\ Grown(t) \in Nat /\ GrownByName(t) \in Nat
<1>1. SaveLen(t) \in Nat
  BY TagFacts DEF SaveLen
<1>2. Payload(t) \in AnyValue
  <2>1. t.internallen \in Widths => IntOf(Stored(AtoLL(t.data), t.internallen), t.internallen) \in AnyValue
    <3>1. t.internallen \in Widths => Stored(AtoLL(t.data), t.internallen) \in Int
      BY TagFacts, Numbers
    <3>. QED  BY <3>1, TagFacts DEF IntOf, Value, AnyValue
  <2>2. \A n \in Nat : Ints(ParsePair(t.data), n) \in AnyValue
    <3>1. /\ Signed(ParsePair(t.data)[1], 4) \in Int
          /\ Unsigned(ParsePair(t.data)[2], 2) \in Int
      BY TagFacts, Numbers DEF Widths
    <3>. QED  BY <3>1 DEF Ints, Value, AnyValue
  <2>3. NoValue \in AnyValue
    BY DEF NoValue, Value, AnyValue
  <2>. QED  BY <2>1, <2>2, <2>3, TagFacts DEF Payload
<1>3. Payload(t).len \in Nat
  BY <1>2 DEF AnyValue
<1>4. PartOf(t) \in PartType
  <2> DEFINE names == IF Named(t) THEN <<t.covername>> ELSE << >>
             gap   == SaveLen(t) + NameRoom(t) - (Payload(t).len + GrownByName(t))
  <2>1. names \in Seq(TextValue)
    BY TagFacts
  <2>2. gap \in Int
    BY <1>1, <1>3, TagFacts DEF GrownByName
  <2>3. DataSz + SaveLen(t) \in Int
    BY <1>1 DEF DataSz
  <2>4. PartOf(t) = [type |-> t.type, len |-> DataSz + SaveLen(t), val |-> Payload(t),
                     names |-> names, gap |-> gap]
    BY DEF PartOf, Part
  <2> HIDE DEF names, gap
  <2>. QED  BY <1>2, <2>1, <2>2, <2>3, <2>4, TagFacts DEF PartType
<1>5. Grown(t) \in Nat /\ GrownByName(t) \in Nat
  BY TagFacts DEF Grown, GrownByName, DataSz
<1>. QED
  BY <1>1, <1>2, <1>4, <1>5

LEMMA BoxSizes ==
  ASSUME CodecAssumption, NEW n \in Names
  PROVE  /\ CustomSz(n) \in Nat
         /\ n \in Customs =>
              /\ AppLen[n] \in Nat \ {0} /\ CustomLen[n] \in Nat \ {0}
              /\ CustomSz(n) = 24 + AppLen[n] + CustomLen[n]
         /\ n \notin Customs => CustomSz(n) = 0
<1>1. n \in Customs => AppLen[n] \in Nat \ {0} /\ CustomLen[n] \in Nat \ {0}
  BY DEF CodecAssumption
<1>. QED
  BY <1>1 DEF CustomSz

LEMMA BoxesTyped ==
  ASSUME CodecAssumption, NEW t \in TagType
  PROVE  /\ Started(t) \in BoxType
         /\ \A b \in BoxType : Extended(b, t) \in BoxType
         /\ \A s \in Seq(BoxType) : BuildAppend(s, t) \in Seq(BoxType)
<1>1. /\ PartOf(t) \in PartType /\ SaveLen(t) \in Nat
      /\ Grown(t) \in Nat /\ GrownByName(t) \in Nat
  BY PartTyped
<1>2. Started(t) \in BoxType
  <2> DEFINE len == BoxHeadSz + CustomSz(t.name) + DataSz + SaveLen(t) + GrownByName(t)
  <2>1. CustomSz(t.name) \in Nat
    BY TagFacts, BoxSizes
  <2>2. len \in Int
    BY <1>1, <2>1 DEF BoxHeadSz, DataSz
  <2>3. << >> \in Seq(TextValue) /\ <<PartOf(t)>> \in Seq(PartType) /\ t.name \in Names
    BY <1>1, TagFacts
  <2>4. Started(t) = [name |-> t.name, len |-> len, front |-> << >>, parts |-> <<PartOf(t)>>]
    BY DEF Started, Box
  <2> HIDE DEF len
  <2>. QED  BY <2>2, <2>3, <2>4 DEF BoxType
<1>3. ASSUME NEW b \in BoxType
      PROVE  Extended(b, t) \in BoxType
  <2>1. /\ b.name \in Names /\ b.len \in Int /\ b.front \in Seq(TextValue)
        /\ b.parts \in Seq(PartType)
    BY DEF BoxType
  <2>2. b.len + Grown(t) + GrownByName(t) \in Int
    BY <1>1, <2>1
  <2>3. Append(b.parts, PartOf(t)) \in Seq(PartType)
    BY <1>1, <2>1
  <2>. QED  BY <2>1, <2>2, <2>3 DEF Extended, Box, BoxType
<1>4. ASSUME NEW s \in Seq(BoxType)
      PROVE  BuildAppend(s, t) \in Seq(BoxType)
  <2>1. CASE Again(s, t)
    <3>1. Len(s) \in 1 .. Len(s)
      BY <2>1, EmptySeq DEF Again
    <3>2. Extended(s[Len(s)], t) \in BoxType
      BY <1>3, <3>1
    <3>3. BuildAppend(s, t) = [s EXCEPT ![Len(s)] = Extended(s[Len(s)], t)]
      BY <2>1 DEF BuildAppend
    <3>. QED  BY <3>1, <3>2, <3>3, ExceptSeq
  <2>2. CASE ~ Again(s, t)
    BY <1>2, <2>2 DEF BuildAppend
  <2>. QED  BY <2>1, <2>2
<1>. QED
  BY <1>2, <1>3, <1>4

\* The recursion that defines Built: a tag that is written is added to the boxes
\* of the tags in front of it.
LEMMA BuiltStep ==
  ASSUME CodecAssumption, NEW s \in Seq(TagType)
  PROVE  /\ Built(s)[0] = << >>
         /\ \A k \in 1 .. Len(s) :
              Built(s)[k] = IF s[k].name \in Unwritten THEN Built(s)[k - 1]
                            ELSE BuildAppend(Built(s)[k - 1], s[k])
         /\ \A k \in 0 .. Len(s) : Built(s)[k] \in Seq(BoxType)
<1> DEFINE n     == Len(s)
           S     == Seq(BoxType)
           e     == << >>
           next(x, k) == IF s[k].name \in Unwritten THEN x ELSE BuildAppend(x, s[k])
           step  == [k \in 1 .. n |-> [x \in S |-> next(x, k)]]
           Eq(v) == v = [k \in 0 .. n |->
                           IF k = 0 THEN << >>
                           ELSE IF s[k].name \in Unwritten THEN v[k - 1]
                           ELSE BuildAppend(v[k - 1], s[k])]
           u     == CHOOSE v : Eq(v)
<1>1. n \in Nat /\ \A k \in 1 .. n : s[k] \in TagType
  OBVIOUS
<1>2. e \in S
  BY EmptySeq
<1>3. \A k \in 1 .. n, x \in S : next(x, k) \in S
  BY <1>1, BoxesTyped
<1>4. Built(s) = u
  BY DEF Built
<1> HIDE DEF next, S, n
<1>5. step \in [1 .. n -> [S -> S]] /\ \A k \in 1 .. n, x \in S : step[k][x] = next(x, k)
  BY <1>3
<1> HIDE DEF step
<1>6. IsRecursion(n, S, e, step)
  <2> HIDE DEF e
  <2>. QED  BY <1>1, <1>2, <1>5 DEF IsRecursion
<1>7. PICK g : Solves(g, n, S, e, step)
  <2> HIDE DEF e
  <2>. QED  BY <1>6, RecursionExists
<1>8. Eq(g)
  <2>1. /\ g \in [0 .. n -> S] /\ g[0] = << >>
        /\ \A k \in 1 .. n : g[k] = step[k][g[k - 1]]
    BY <1>7 DEF Solves
  <2>2. \A k \in 1 .. n : k - 1 \in 0 .. n /\ k \in 0 .. n
    BY <1>1
  <2>3. \A k \in 1 .. n : g[k] = next(g[k - 1], k)
    BY <1>5, <2>1, <2>2
  <2>4. \A k \in 0 .. n : k # 0 => k \in 1 .. n
    BY <1>1
  <2>5. \A k \in 0 .. n : g[k] = IF k = 0 THEN << >>
                                 ELSE IF s[k].name \in Unwritten THEN g[k - 1]
                                 ELSE BuildAppend(g[k - 1], s[k])
    BY <2>1, <2>3, <2>4 DEF next
  <2>6. g = [k \in 0 .. n |-> g[k]]
    BY <2>1
  <2>. QED  BY <2>5, <2>6
<1>9. Eq(u)
  <2> HIDE DEF Eq
  <2>. QED  BY <1>8
<1> HIDE DEF u
<1>10. \A k \in 1 .. n : k \in 0 .. n /\ k # 0
  BY <1>1
<1>11. 0 \in 0 .. n
  BY <1>1
<1>12. u[0] = e /\ \A k \in 1 .. n : u[k] = next(u[k - 1], k)
  BY <1>9, <1>10, <1>11 DEF next
<1>13. u = [k \in 0 .. n |-> u[k]]
  BY <1>9
<1>14. Solves(u, n, S, e, step)
  <2>1. \A k \in 1 .. n : u[k - 1] \in S => u[k] = step[k][u[k - 1]]
    BY <1>5, <1>12
  <2> HIDE DEF e
  <2>. QED  BY <1>6, <1>12, <1>13, <2>1, RecursionSolved
<1>15. \A k \in 0 .. n : u[k] \in S
  BY <1>14 DEF Solves
<1>. QED
  BY <1>4, <1>12, <1>15 DEF n, S, next

\* Reading a data box or an image whose lengths agree gives well-formed tags.
LEMMA PartFacts ==
  ASSUME NEW p \in PartType
  PROVE  /\ p.type \in Types /\ p.len \in Int /\ p.gap \in Int /\ p.names \in Seq(TextValue)
         /\ p.val \in AnyValue /\ p.val.len \in Nat /\ p.val.a \in Int /\ p.val.b \in Int
         /\ PartAgrees(p) => DataLen(p) \in Nat
<1>1. /\ p.type \in Types /\ p.len \in Int /\ p.gap \in Int /\ p.names \in Seq(TextValue)
      /\ p.val \in AnyValue
  BY DEF PartType
<1>2. p.val.len \in Nat /\ p.val.a \in Int /\ p.val.b \in Int
  BY <1>1 DEF AnyValue
<1>3. PartAgrees(p) => DataLen(p) \in Nat
  BY <1>1, <1>2 DEF PartAgrees, DataLen, DataSz
<1>. QED
  BY <1>1, <1>2, <1>3

LEMMA TagMade ==
  ASSUME NEW name \in Names, NEW type \in Types, NEW len \in Nat,
         NEW data \in TextValue \cup ByteValue
  PROVE  Tag(name, type, len, data, NoValue) \in GoodTag
<1>1. Tag(name, type, len, data, NoValue) =
        [name |-> name, type |-> type, internallen |-> len, data |-> data, covername |-> NoValue]
  BY DEF Tag
<1>2. Tag(name, type, len, data, NoValue) \in TagType
  BY <1>1 DEF TagType
<1>. QED
  BY <1>1, <1>2 DEF GoodTag

LEMMA Bytes ==
  ASSUME NEW x \in Int, NEW n \in Nat
  PROVE  Blob(x, n) \in ByteValue /\ Word(x, n) \in TextValue
BY DEF Blob, Word, Value, ByteValue, TextValue, TextForms

LEMMA ReadDataTyped ==
  ASSUME CodecAssumption, NEW name \in Names, NEW p \in PartType, PartAgrees(p)
  PROVE  ReadData(name, p) \in Seq(GoodTag)
<1> DEFINE v   == p.val
           len == DataLen(p)
<1>1. len \in Nat /\ v \in AnyValue /\ v.a \in Int /\ v.b \in Int /\ v.len \in Nat /\ p.type \in Types
  BY PartFacts
<1>2. Number(v) \in Int
  BY <1>1 DEF Number, CodecAssumption
<1>3. ReadPair(name, v, len) \in TextValue
  <2>1. Letters \in Int
    BY DEF CodecAssumption
  <2>2. \A a, b \in Int : Num(a) \in TextValue /\ Pair(a, b) \in TextValue
    BY Numbers
  <2> HIDE DEF v, len
  <2>. QED  BY <1>1, <2>1, <2>2 DEF ReadPair
<1>4. \A t \in GoodTag : <<t>> \in Seq(GoodTag)
  OBVIOUS
<1>5. << >> \in Seq(GoodTag)
  OBVIOUS
<1>6. "STRING" \in Types
  BY DEF Types
<1> HIDE DEF v, len
<1>7. ReadPlain(name, p.type, len, v) \in Seq(GoodTag)
  <2>1. "gen" \in Names
    BY DEF CodecAssumption
  <2>2. Genre(Number(v)) \in TextValue
    BY <1>2, Bytes DEF Genre
  <2>3. Num(Number(v)) \in TextValue
    BY <1>2, Numbers
  <2>4. Blob(v.a, len) \in ByteValue
    BY <1>1, Bytes
  <2>5. /\ Tag(name, p.type, len, ReadPair(name, v, len), NoValue) \in GoodTag
        /\ Tag("gen", "STRING", 4, Genre(Number(v)), NoValue) \in GoodTag
        /\ Tag(name, p.type, len, Num(Number(v)), NoValue) \in GoodTag
        /\ Tag(name, p.type, len, Blob(v.a, len), NoValue) \in GoodTag
    BY <1>1, <1>3, <1>6, <2>1, <2>2, <2>3, <2>4, TagMade
  <2>. QED  BY <1>4, <1>5, <2>5 DEF ReadPlain
<1>8. Tag(name, "STRING", len, IF v.form \in TextForms THEN v ELSE Word(v.a, len), NoValue) \in GoodTag
  <2>1. Word(v.a, len) \in TextValue
    BY <1>1, Bytes
  <2>2. v.form \in TextForms => v \in TextValue
    BY <1>1 DEF AnyValue, TextValue
  <2>. QED  BY <1>1, <1>6, <2>1, <2>2, TagMade
<1>. QED
  BY <1>4, <1>5, <1>7, <1>8 DEF ReadData, v, len

LEMMA ReadImageTyped ==
  ASSUME CodecAssumption, NEW b \in BoxType, NEW m \in DOMAIN b.parts, PartAgrees(b.parts[m])
  PROVE  ReadImage(b, m) \in GoodTag
<1> DEFINE p    == b.parts[m]
           type == IF p.type = "DATA" THEN "JPG" ELSE p.type
<1>1. b.front \in Seq(TextValue) /\ b.parts \in Seq(PartType)
  BY DEF BoxType
<1>2. p \in PartType
  BY <1>1
<1>3. DataLen(p) \in Nat /\ p.val.a \in Int /\ p.type \in Types /\ p.names \in Seq(TextValue)
  BY <1>2, PartFacts
<1>4. Blob(p.val.a, DataLen(p)) \in ByteValue
  BY <1>3, Bytes
<1>5. type \in Types
  BY <1>3 DEF Types, Images
<1>6. NameOf(b, m) \in TextValue \cup {NoValue}
  <2>1. \A names \in Seq(TextValue) : LastName(names) \in TextValue \cup {NoValue}
    <3>1. TAKE names \in Seq(TextValue)
    <3>2. CASE names = << >>
      BY <3>2 DEF LastName
    <3>3. CASE names # << >>
      <4>1. Len(names) \in 1 .. Len(names)
        BY <3>3, EmptySeq
      <4>. QED  BY <3>3, <4>1 DEF LastName
    <3>. QED  BY <3>2, <3>3
  <2>2. b.front \o p.names \in Seq(TextValue)
    BY <1>1, <1>3
  <2>. QED  BY <1>3, <2>1, <2>2 DEF NameOf
<1>7. "covr" \in Names
  BY DEF CodecAssumption, Special
<1>8. ReadImage(b, m) =
        [name |-> "covr", type |-> type, internallen |-> DataLen(p),
         data |-> Blob(p.val.a, DataLen(p)), covername |-> NameOf(b, m)]
  BY DEF ReadImage, Tag
<1> HIDE DEF type, p
<1>9. ReadImage(b, m) \in TagType
  BY <1>3, <1>4, <1>5, <1>6, <1>7, <1>8 DEF TagType
<1>. QED
  BY <1>8, <1>9 DEF GoodTag

LEMMA VisitedInBox ==
  ASSUME NEW b \in BoxType
  PROVE  /\ Visited(b) \in 0 .. Len(b.parts)
         /\ Visited(b) # 0 => EndsAt(b, Visited(b))
         /\ \A k \in DOMAIN b.parts : EndsAt(b, k) => 0 < Visited(b) /\ Visited(b) <= k
<1> DEFINE ends == {k \in DOMAIN b.parts : EndsAt(b, k)}
<1>1. b.parts \in Seq(PartType)
  BY DEF BoxType
<1>2. Len(b.parts) \in Nat /\ DOMAIN b.parts = 1 .. Len(b.parts)
  BY <1>1
<1>3. ends \subseteq Nat
  BY <1>2
<1>4. Visited(b) = IF ends = {} THEN 0 ELSE CHOOSE k \in ends : \A n \in ends : k <= n
  BY DEF Visited
<1>5. CASE ends = {}
  BY <1>2, <1>4, <1>5
<1>6. CASE ends # {}
  <2>1. \E k \in ends : \A n \in ends : k <= n
    <3> HIDE DEF ends
    <3>. QED  BY <1>3, <1>6, Least
  <2>2. Visited(b) \in ends /\ \A n \in ends : Visited(b) <= n
    BY <1>4, <1>6, <2>1
  <2>. QED  BY <1>2, <2>2
<1>. QED
  BY <1>5, <1>6

\* What is read of a list whose lengths agree.
LEMMA ReadTyped ==
  ASSUME CodecAssumption, NEW s \in Seq(BoxType),
         \A n \in DOMAIN s : \A m \in DOMAIN s[n].parts : PartAgrees(s[n].parts[m])
  PROVE  /\ \A n \in DOMAIN s : ReadBox(s[n]) \in Seq(GoodTag)
         /\ FlattenSeq([n \in DOMAIN s |-> ReadBox(s[n])]) \in Seq(GoodTag)
<1>1. ASSUME NEW n \in DOMAIN s
      PROVE  ReadBox(s[n]) \in Seq(GoodTag)
  <2> DEFINE b == s[n]
  <2>1. b \in BoxType
    OBVIOUS
  <2>2. b.parts \in Seq(PartType) /\ b.name \in Names
    BY <2>1 DEF BoxType
  <2>3. Len(b.parts) \in Nat /\ DOMAIN b.parts = 1 .. Len(b.parts)
    BY <2>2
  <2>4. \A m \in DOMAIN b.parts : b.parts[m] \in PartType /\ PartAgrees(b.parts[m])
    BY <2>2
  <2> HIDE DEF b
  <2>5. ProcessCovr(b) \in Seq(GoodTag)
    <3>1. \A m \in DOMAIN b.parts : ReadImage(b, m) \in GoodTag
      BY <2>1, <2>4, ReadImageTyped
    <3>. QED  BY <2>3, <3>1 DEF ProcessCovr
  <2>6. ProcessTag(b) \in Seq(GoodTag)
    <3> DEFINE k == Visited(b)
               c == [m \in 1 .. k |-> ReadData(NameAt(b, m), b.parts[m])]
    <3>1. k \in Nat /\ \A m \in 1 .. k : m \in DOMAIN b.parts
      BY <2>1, <2>3, VisitedInBox
    <3>2. \A m \in 1 .. k : ReadData(NameAt(b, m), b.parts[m]) \in Seq(GoodTag)
      <4>1. TAKE m \in 1 .. k
      <4>2. NameAt(b, m) \in Names
        BY <2>2 DEF NameAt, CodecAssumption
      <4>3. b.parts[m] \in PartType /\ PartAgrees(b.parts[m])
        BY <2>4, <3>1
      <4>. QED  BY <4>2, <4>3, ReadDataTyped
    <3>3. ProcessTag(b) = FlattenSeq(c)
      BY DEF ProcessTag
    <3> HIDE DEF k
    <3>4. c \in [1 .. k -> Seq(GoodTag)]
      BY <3>2
    <3> HIDE DEF c
    <3>5. k \in Nat
      BY <3>1
    <3>6. FlattenSeq(c) \in Seq(GoodTag)
      BY <3>4, <3>5, FlattenStep
    <3>. QED  BY <3>3, <3>6
  <2>. QED  BY <2>5, <2>6 DEF ReadBox, b
<1>2. Len(s) \in Nat /\ DOMAIN s = 1 .. Len(s)
  OBVIOUS
<1> DEFINE c == [n \in 1 .. Len(s) |-> ReadBox(s[n])]
<1>3. c \in [1 .. Len(s) -> Seq(GoodTag)] /\ c = [n \in DOMAIN s |-> ReadBox(s[n])]
  BY <1>1, <1>2
<1>4. FlattenSeq(c) \in Seq(GoodTag)
  <2> HIDE DEF c
  <2>. QED  BY <1>2, <1>3, FlattenStep
<1>. QED
  BY <1>1, <1>3, <1>4

-----------------------------------------------------------------------------
(* The inductive invariant.                                                *)

\* The handle: the list is well formed and in order, and what has been written
\* was made of the list as it is.
TypeInv ==
  /\ {open, written} \subseteq BOOLEAN /\ calls \in 0 .. MaxCalls
  /\ disk \in Seq(BoxType) /\ tags \in Seq(GoodTag)
  /\ Sorted(tags)
  /\ ~ open => tags = << >>
  /\ written => disk = BuildData(tags)

LEMMA GoodList ==
  ASSUME NEW s \in Seq(GoodTag)
  PROVE  /\ s \in Seq(TagType)
         /\ Len(s) \in Nat /\ DOMAIN s = 1 .. Len(s)
         /\ \A i \in DOMAIN s : i \in Nat /\ s[i] \in GoodTag /\ s[i] \in TagType
<1>1. Len(s) \in Nat /\ DOMAIN s = 1 .. Len(s) /\ \A i \in DOMAIN s : i \in Nat /\ s[i] \in GoodTag
  OBVIOUS
<1>2. \A t \in GoodTag : t \in TagType
  BY DEF GoodTag
<1>3. s \in Seq(TagType)
  <2>1. s \in [1 .. Len(s) -> TagType]
    BY <1>1, <1>2
  <2>. QED  BY <1>1, <2>1
<1>. QED
  BY <1>1, <1>2, <1>3

LEMMA SortedGood ==
  ASSUME CodecAssumption, NEW s \in Seq(GoodTag)
  PROVE  ByName(s) \in Seq(GoodTag) /\ Sorted(ByName(s))
<1>1. /\ ByName(s) \in Seq(TagType) /\ DOMAIN ByName(s) = DOMAIN s /\ Sorted(ByName(s))
      /\ \A n \in DOMAIN s : \E i \in DOMAIN s : ByName(s)[n] = s[i]
  BY GoodList, ByNameSorts
<1>2. \A n \in DOMAIN s : ByName(s)[n] \in GoodTag
  BY <1>1, GoodList
<1>3. DOMAIN s = 1 .. Len(s) /\ Len(s) \in Nat
  BY GoodList
<1>4. ByName(s) \in [1 .. Len(s) -> GoodTag]
  BY <1>2, <1>3 DEF ByName
<1>5. ByName(s) \in Seq(GoodTag)
  BY <1>3, <1>4
<1>. QED
  BY <1>1, <1>5

\* A tag that keeps its name keeps its place.
LEMMA ChangedInPlace ==
  ASSUME CodecAssumption, NEW s \in Seq(GoodTag), Sorted(s),
         NEW i \in DOMAIN s, NEW t \in GoodTag, t.name = s[i].name
  PROVE  [s EXCEPT ![i] = t] \in Seq(GoodTag) /\ Sorted([s EXCEPT ![i] = t])
<1> DEFINE r == [s EXCEPT ![i] = t]
<1>1. r \in Seq(GoodTag) /\ DOMAIN r = DOMAIN s
  BY GoodList, ExceptSeq
<1>2. \A j \in DOMAIN s : r[j].name = s[j].name
  OBVIOUS
<1> HIDE DEF r
<1>3. Sorted(r)
  BY <1>1, <1>2 DEF Sorted
<1>. QED
  BY <1>1, <1>3 DEF r

\* Without one of its tags a list stays in order.
LEMMA StillSorted ==
  ASSUME CodecAssumption, NEW s \in Seq(GoodTag), Sorted(s), NEW i \in DOMAIN s
  PROVE  RemoveAt(s, i) \in Seq(GoodTag) /\ Sorted(RemoveAt(s, i))
<1> DEFINE n == Len(s)
           a == SubSeq(s, 1, i - 1)
           b == SubSeq(s, i + 1, n)
           r == RemoveAt(s, i)
           at(j) == IF j < i THEN j ELSE j + 1
<1>1. n \in Nat /\ DOMAIN s = 1 .. n /\ i \in 1 .. n
  BY GoodList
<1>2. r = a \o b
  BY DEF RemoveAt
<1>3. a \in Seq(GoodTag) /\ Len(a) = i - 1 /\ \A j \in 1 .. i - 1 : a[j] = s[j]
  BY <1>1
<1>4. b \in Seq(GoodTag) /\ Len(b) = n - i /\ \A j \in 1 .. n - i : b[j] = s[i + j]
  <2>1. i + 1 \in Int /\ n \in Int
    BY <1>1
  <2>2. /\ b \in Seq(GoodTag)
        /\ Len(b) = IF i + 1 <= n THEN n - (i + 1) + 1 ELSE 0
        /\ \A j \in 1 .. n - (i + 1) + 1 : b[j] = s[(i + 1) + j - 1]
    BY <1>1, <2>1, SubSeqProperties
  <2>3. \A j \in 1 .. n - i : j \in 1 .. n - (i + 1) + 1 /\ (i + 1) + j - 1 = i + j
    BY <1>1
  <2>4. \A j \in 1 .. n - i : b[j] = s[i + j]
    BY <2>2, <2>3
  <2> HIDE DEF b
  <2>. QED  BY <1>1, <2>2, <2>4
<1> HIDE DEF a, b, r
<1>5. r \in Seq(GoodTag) /\ Len(r) = n - 1
  <2>1. a \o b \in Seq(GoodTag) /\ Len(a \o b) = Len(a) + Len(b)
    BY <1>3, <1>4, ConcatProperties
  <2>. QED  BY <1>1, <1>2, <1>3, <1>4, <2>1
<1>6. \A j \in 1 .. n - 1 : r[j] = s[at(j)] /\ at(j) \in 1 .. n
  <2>1. TAKE j \in 1 .. n - 1
  <2>2. CASE j < i
    <3>1. r[j] = a[j] /\ j \in 1 .. i - 1
      BY <1>1, <1>2, <1>3, <1>4, <2>2
    <3>. QED  BY <1>1, <1>3, <2>2, <3>1
  <2>3. CASE ~ (j < i)
    <3>1. r[j] = b[j - (i - 1)] /\ j - (i - 1) \in 1 .. n - i
      BY <1>1, <1>2, <1>3, <1>4, <2>3
    <3>2. b[j - (i - 1)] = s[i + (j - (i - 1))] /\ i + (j - (i - 1)) = j + 1
      BY <1>1, <1>4, <3>1
    <3>. QED  BY <1>1, <2>3, <3>1, <3>2
  <2>. QED  BY <2>2, <2>3
<1>7. DOMAIN r = 1 .. n - 1
  BY <1>5
<1>8. ASSUME NEW j \in DOMAIN r, NEW k \in DOMAIN r, j < k
      PROVE  RankOf(r[j].name) <= RankOf(r[k].name)
  <2>1. at(j) \in DOMAIN s /\ at(k) \in DOMAIN s /\ r[j] = s[at(j)] /\ r[k] = s[at(k)]
    BY <1>1, <1>6, <1>7
  <2>2. at(j) < at(k)
    BY <1>1, <1>7, <1>8
  <2>. QED  BY <2>1, <2>2 DEF Sorted
<1>9. Sorted(r)
  BY <1>8 DEF Sorted
<1>. QED
  BY <1>5, <1>9 DEF r

LEMMA ChangeKeeps ==
  ASSUME CodecAssumption, TypeInv, NEW s \in Seq(GoodTag), Sorted(s), Change(s)
  PROVE  TypeInv'
<1>1. /\ open /\ calls < MaxCalls /\ calls' = calls + 1
      /\ tags' = s /\ written' = FALSE /\ disk' = disk /\ open' = open
  BY DEF Change
<1>2. Sorted(tags)' = Sorted(s)
  BY <1>1 DEF Sorted
<1>3. calls' \in 0 .. MaxCalls
  BY <1>1 DEF TypeInv, CodecAssumption
<1>. QED
  BY <1>1, <1>2, <1>3 DEF TypeInv

LEMMA AddedKeeps ==
  ASSUME CodecAssumption, TypeInv, NEW t \in GoodTag, Added(t)
  PROVE  TypeInv'
<1>1. tags \in Seq(GoodTag)
  BY DEF TypeInv
<1>2. Append(tags, t) \in Seq(GoodTag)
  BY <1>1
<1>3. ByName(Append(tags, t)) \in Seq(GoodTag) /\ Sorted(ByName(Append(tags, t)))
  BY <1>2, SortedGood
<1>. QED
  BY <1>3, ChangeKeeps DEF Added

LEMMA TypeInit ==
  ASSUME CodecAssumption, Init
  PROVE  TypeInv
<1>1. disk \in Seq(BoxType) /\ 0 \in 0 .. MaxCalls
  BY DEF Init, CodecAssumption
<1>2. << >> \in Seq(GoodTag)
  OBVIOUS
<1>3. tags = << >> => Sorted(tags)
  <2>1. DOMAIN << >> = {}
    OBVIOUS
  <2>. QED  BY <2>1 DEF Sorted
<1>. QED
  BY <1>1, <1>2, <1>3 DEF Init, TypeInv

LEMMA TypeStep ==
  ASSUME CodecAssumption, TypeInv, [Next]_vars
  PROVE  TypeInv'
<1>1. /\ tags \in Seq(GoodTag) /\ Sorted(tags) /\ disk \in Seq(BoxType)
      /\ calls \in 0 .. MaxCalls /\ {open, written} \subseteq BOOLEAN
  BY DEF TypeInv
<1>2. \A i \in DOMAIN tags : tags[i] \in GoodTag /\ tags[i] \in TagType
  BY <1>1, GoodList
<1>3. << >> \in Seq(GoodTag) /\ Sorted(<< >>)
  BY DEF Sorted
<1>4. CASE Parse
  <2>1. \A n \in DOMAIN disk : \A m \in DOMAIN disk[n].parts : PartAgrees(disk[n].parts[m])
    BY <1>4 DEF Parse, Readable, BoxReadable, Agrees
  <2> DEFINE s == ReadList(disk)
  <2>2. s \in Seq(GoodTag) /\ Sorted(s)
    BY <1>1, <2>1, ReadTyped, SortedGood DEF ReadList
  <2> HIDE DEF s
  <2>3. /\ tags' = s /\ open' = TRUE /\ written' = FALSE /\ disk' = disk /\ calls' = calls
    BY <1>4 DEF Parse, s
  <2>4. Sorted(tags)' = Sorted(s)
    BY <2>3 DEF Sorted
  <2>. QED  BY <1>1, <2>2, <2>3, <2>4 DEF TypeInv
<1>5. CASE Free
  <2>1. Sorted(tags)' = Sorted(<< >>)
    BY <1>5 DEF Free, Sorted
  <2>. QED  BY <1>1, <1>3, <1>5, <2>1 DEF Free, TypeInv
<1>6. CASE WriteTags
  <2>1. Sorted(tags)' = Sorted(tags)
    BY <1>6 DEF WriteTags, Sorted
  <2>2. tags' = tags /\ disk' = BuildData(tags) /\ BuildData(tags)' = BuildData(tags)
    BY <1>6 DEF WriteTags, BuildData, Built
  <2>3. BuildData(tags) \in Seq(BoxType)
    <3>1. Len(tags) \in 0 .. Len(tags)
      BY <1>1, GoodList
    <3>. QED  BY <1>1, <3>1, GoodList, BuiltStep DEF BuildData
  <2>. QED  BY <1>1, <1>6, <2>1, <2>2, <2>3 DEF WriteTags, TypeInv
<1>7. ASSUME NEW i \in DOMAIN tags, NEW v \in Texts, SetString(i, v) \/ SetCoverName(i, v)
      PROVE  TypeInv'
  <2>1. v \in TextValue
    BY DEF CodecAssumption
  <2>2. CASE SetString(i, v)
    <3> DEFINE t == [tags[i] EXCEPT !.data = v]
    <3>1. t \in GoodTag /\ t.name = tags[i].name
      BY <1>2, <2>1 DEF GoodTag, TagType
    <3>2. Change([tags EXCEPT ![i] = t])
      BY <2>2 DEF SetString
    <3> HIDE DEF t
    <3>. QED  BY <1>1, <3>1, <3>2, ChangedInPlace, ChangeKeeps
  <2>3. CASE SetCoverName(i, v)
    <3> DEFINE t == [tags[i] EXCEPT !.covername = v]
    <3>1. t \in GoodTag /\ t.name = tags[i].name
      BY <1>2, <2>1, <2>3 DEF GoodTag, TagType, SetCoverName
    <3>2. Change([tags EXCEPT ![i] = t])
      BY <2>3 DEF SetCoverName
    <3> HIDE DEF t
    <3>. QED  BY <1>1, <3>1, <3>2, ChangedInPlace, ChangeKeeps
  <2>. QED  BY <1>7, <2>2, <2>3
<1>8. ASSUME NEW i \in DOMAIN tags, NEW v \in Blobs, NEW type \in Types, SetBinary(i, v, type)
      PROVE  TypeInv'
  <2>1. v \in ByteValue /\ v.len \in Nat
    BY DEF CodecAssumption, ByteValue
  <2> DEFINE t == [tags[i] EXCEPT !.data = v, !.type = type, !.internallen = v.len]
  <2>2. t \in GoodTag /\ t.name = tags[i].name
    BY <1>2, <1>8, <2>1, ZenonT(30) DEF GoodTag, TagType
  <2>3. Change([tags EXCEPT ![i] = t])
    BY <1>8 DEF SetBinary
  <2> HIDE DEF t
  <2>. QED  BY <1>1, <2>2, <2>3, ChangedInPlace, ChangeKeeps
<1>9. ASSUME NEW n \in Names, NEW v \in Texts, NewString(n, v)
      PROVE  TypeInv'
  <2>1. v \in TextValue /\ v.len \in Nat
    BY DEF CodecAssumption, TextValue
  <2>2. Tag(n, "STRING", v.len, v, NoValue) \in GoodTag
    <3>1. "STRING" \in Types
      BY DEF Types
    <3>. QED  BY <2>1, <3>1, TagMade
  <2>3. n \in DOMAIN Def => Tag(n, Def[n].type, Def[n].len, v, NoValue) \in GoodTag
    <3>1. n \in DOMAIN Def => Def[n].type \in Types /\ Def[n].len \in Nat
      BY DEF CodecAssumption
    <3>. QED  BY <2>1, <3>1, TagMade
  <2>4. \/ Added(Tag(n, "STRING", v.len, v, NoValue))
        \/ n \in DOMAIN Def /\ Added(Tag(n, Def[n].type, Def[n].len, v, NoValue))
    BY <1>9 DEF NewString
  <2>. QED  BY <2>2, <2>3, <2>4, AddedKeeps
<1>10. ASSUME NEW n \in Names, NEW v \in Blobs, NEW type \in Types, NewBinary(n, v, type)
       PROVE  TypeInv'
  <2>1. v \in ByteValue /\ v.len \in Nat
    BY DEF CodecAssumption, ByteValue
  <2>2. Tag(n, type, v.len, v, NoValue) \in GoodTag
    BY <2>1, TagMade
  <2>. QED  BY <1>10, <2>2, AddedKeeps DEF NewBinary
<1>11. ASSUME NEW i \in DOMAIN tags, Delete(i)
       PROVE  TypeInv'
  BY <1>1, <1>11, StillSorted, ChangeKeeps DEF Delete
<1>12. CASE UNCHANGED vars
  <2>1. Sorted(tags)' = Sorted(tags) /\ BuildData(tags)' = BuildData(tags)
    BY <1>12 DEF vars, Sorted, BuildData, Built
  <2>. QED  BY <1>12, <2>1 DEF vars, TypeInv
<1>. QED
  BY <1>4, <1>5, <1>6, <1>7, <1>8, <1>9, <1>10, <1>11, <1>12 DEF Next

\* The list is well formed and in the order of writing after every call: a new
\* tag is sorted in, a changed one keeps its place (mp4tag_add_tag, mp4tag_build_data).
THEOREM CodecTypes == Spec => []TypeOK
<1>1. Init => TypeInv
  BY CodecAssumption, TypeInit
<1>2. TypeInv /\ [Next]_vars => TypeInv'
  BY CodecAssumption, TypeStep
<1>3. TypeInv => TypeOK
  <2>1. TypeInv => tags \in Seq(TagType) /\ Sorted(tags)
    BY GoodList DEF TypeInv
  <2>2. TypeInv => tags = ByName(tags)
    BY <2>1, CodecAssumption, SortedStays
  <2>. QED  BY <2>1, <2>2 DEF TypeInv, TypeOK
<1>. QED
  BY <1>1, <1>2, <1>3, PTL DEF Spec

-----------------------------------------------------------------------------
(* What is written of one tag.                                             *)

LEMMA EmptySum == Sum(<< >>) = 0
<1>1. << >> \in [1 .. 0 -> Int]
  OBVIOUS
<1>. QED
  BY <1>1, SumStep

LEMMA OneSum ==
  ASSUME NEW x \in Int
  PROVE  Sum(<<x>>) = x
<1> DEFINE s == <<x>>
           n == 1
<1>1. n \in Nat /\ n > 0 /\ s \in [1 .. n -> Int] /\ s[n] = x
  OBVIOUS
<1>2. Shorter(s, n) = << >>
  BY DEF Shorter
<1> HIDE DEF s, n
<1>3. Sum(s) = Sum(Shorter(s, n)) + s[n]
  BY <1>1, SumStep
<1>4. Sum(s) = 0 + x
  BY <1>1, <1>2, <1>3, EmptySum
<1>. QED
  BY <1>4 DEF s

LEMMA NameSizes ==
  /\ NamesSz(<< >>) = 0
  /\ \A v \in TextValue : NamesSz(<<v>>) = BoxHeadSz + v.len
<1>1. NamesSz(<< >>) = 0
  <2>1. [i \in DOMAIN << >> |-> BoxHeadSz + << >>[i].len] = << >>
    OBVIOUS
  <2>. QED  BY <2>1, EmptySum DEF NamesSz
<1>2. ASSUME NEW v \in TextValue
      PROVE  NamesSz(<<v>>) = BoxHeadSz + v.len
  <2>1. [i \in DOMAIN <<v>> |-> BoxHeadSz + <<v>>[i].len] = <<BoxHeadSz + v.len>>
    OBVIOUS
  <2>2. BoxHeadSz + v.len \in Int
    BY DEF TextValue, BoxHeadSz
  <2>. QED  BY <2>1, <2>2, OneSum DEF NamesSz
<1>. QED
  BY <1>1, <1>2

\* A tag that is written as the properties demand: its data box has the length
\* that is stored in it, and the box grows by what is added to it.
LEMMA WrittenTag ==
  ASSUME CodecAssumption, NEW t \in GoodTag, Settling(t), t.name \notin Unwritten
  PROVE  /\ PartAgrees(PartOf(t))
         /\ PartOf(t).type = t.type /\ PartOf(t).len = DataSz + SaveLen(t)
         /\ PartSz(PartOf(t)) = DataSz + SaveLen(t) + GrownByName(t)
         /\ t.name # "covr" => GrownByName(t) = 0
         /\ t.type \in Images \cup {"STRING"} => Grown(t) = DataSz + SaveLen(t)
         /\ t.name \in Pairs => t.type = "DATA"
         /\ (t.name = "disk" => t.internallen = 6) => PartOf(t).gap = 0
<1>1. t \in TagType
  BY DEF GoodTag
<1>2. /\ t.data.len \in Nat /\ t.internallen \in Nat /\ NameRoom(t) \in Nat
      /\ SaveLen(t) \in Nat /\ Payload(t).len \in Nat
      /\ GrownByName(t) \in Nat
  <2>1. Payload(t) \in AnyValue
    BY <1>1, PartTyped
  <2>2. Payload(t).len \in Nat
    BY <2>1 DEF AnyValue
  <2>. QED  BY <1>1, <2>2, TagFacts, PartTyped
<1>3. /\ NameEnds(t)
      /\ \/ TextTag(t) \/ NumberTag(t) \/ PairTag(t) \/ DataTag(t) \/ ImageTag(t) \/ Untyped(t)
  BY DEF Settling
<1>4. GrownByName(t) = NameRoom(t)
  <2>1. CASE t.covername = NoValue
    <3>1. NoValue.len = 0
      BY DEF NoValue, Value
    <3>. QED  BY <2>1, <3>1 DEF GrownByName, NameRoom, Named
  <2>2. CASE t.covername # NoValue
    <3>1. t.name = "covr"
      BY <2>2 DEF GoodTag
    <3>2. ImageTag(t)
      BY <1>3, <2>2, <3>1 DEF TextTag, NumberTag, PairTag, DataTag, Untyped, Special, Pairs
    <3>. QED  BY <2>2, <3>2 DEF ImageTag, GrownByName, Named
  <2>. QED  BY <2>1, <2>2
<1>5. t.name # "covr" => GrownByName(t) = 0
  BY <1>4 DEF GoodTag, NameRoom
<1>6. PartOf(t) = [type |-> t.type, len |-> DataSz + SaveLen(t), val |-> Payload(t),
                   names |-> IF Named(t) THEN <<t.covername>> ELSE << >>,
                   gap |-> SaveLen(t) + NameRoom(t) - (Payload(t).len + GrownByName(t))]
  BY DEF PartOf, Part
<1>7. PartOf(t).gap = SaveLen(t) - Payload(t).len
  BY <1>2, <1>4, <1>6
<1>8. /\ SaveLen(t) - Payload(t).len >= 0
      /\ (t.name = "disk" => t.internallen = 6) \/ ~ PairTag(t) => SaveLen(t) = Payload(t).len
  <2>1. CASE TextTag(t)
    BY <1>2, <2>1 DEF TextTag, SaveLen, Payload, Special, Pairs
  <2>2. CASE NumberTag(t)
    <3>1. Payload(t) = IntOf(Stored(AtoLL(t.data), t.internallen), t.internallen)
      BY <2>2 DEF NumberTag, Payload, Images
    <3>2. Payload(t).len = t.internallen /\ SaveLen(t) = t.internallen
      BY <2>2, <3>1 DEF NumberTag, SaveLen, IntOf, Value, Special, Pairs
    <3>. QED  BY <1>2, <3>2
  <2>3. CASE PairTag(t)
    <3>1. t.name = "trkn" => Payload(t).len = 8 /\ SaveLen(t) = 8
      BY <2>3 DEF PairTag, Payload, SaveLen, Ints, Value, Images
    <3>2. t.name = "disk" => Payload(t).len = 6 /\ SaveLen(t) = t.internallen /\ t.internallen >= 6
      BY <2>3 DEF PairTag, Payload, SaveLen, Ints, Value, Images
    <3>3. CASE t.name = "trkn"
      BY <3>1, <3>3
    <3>4. CASE t.name = "disk"
      <4>1. t.internallen = 6 => SaveLen(t) = Payload(t).len
        BY <3>2, <3>4
      <4>. QED  BY <1>2, <2>3, <3>2, <3>4, <4>1
    <3>5. t.name = "trkn" \/ t.name = "disk"
      BY <2>3 DEF PairTag, Pairs
    <3>. QED  BY <3>3, <3>4, <3>5
  <2>4. CASE DataTag(t)
    BY <1>2, <2>4 DEF DataTag, HasBytes, SaveLen, Payload, Images, Special, Pairs
  <2>5. CASE ImageTag(t)
    BY <1>2, <2>5 DEF ImageTag, HasBytes, SaveLen, Payload, Images
  <2>6. CASE Untyped(t)
    BY <1>2, <2>6 DEF Untyped, HasBytes, SaveLen, Payload, Images
  <2>. QED  BY <1>3, <2>1, <2>2, <2>3, <2>4, <2>5, <2>6
<1>9. t.name \in Pairs => t.type = "DATA"
  BY <1>3 DEF TextTag, NumberTag, PairTag, DataTag, ImageTag, Untyped, Special, Pairs
<1>10. Named(t) => ~ PairTag(t)
  BY DEF Named, PairTag, Images
<1>11. PartAgrees(PartOf(t))
  <2>1. PartOf(t).gap >= 0
    BY <1>7, <1>8
  <2>2. PartOf(t).names # << >> => PartOf(t).gap = 0
    BY <1>2, <1>6, <1>7, <1>8, <1>10
  <2>3. PartOf(t).len = DataSz + PartOf(t).val.len + PartOf(t).gap
    BY <1>2, <1>6, <1>7 DEF DataSz
  <2>. QED  BY <2>1, <2>2, <2>3 DEF PartAgrees
<1>12. NamesSz(PartOf(t).names) = GrownByName(t)
  <2>1. CASE Named(t)
    <3>1. t.covername \in TextValue /\ t.covername # NoValue
      BY <1>1, <2>1, TagFacts
    <3>. QED  BY <1>6, <2>1, <3>1, NameSizes DEF GrownByName, NameRoom
  <2>2. CASE ~ Named(t)
    BY <1>6, <2>2, NameSizes DEF GrownByName
  <2>. QED  BY <2>1, <2>2
<1>13. PartSz(PartOf(t)) = DataSz + SaveLen(t) + GrownByName(t)
  BY <1>2, <1>6, <1>7, <1>12 DEF PartSz, DataSz
<1>14. t.type \in Images \cup {"STRING"} => Grown(t) = DataSz + SaveLen(t)
  <2>1. t.type \in Images \cup {"STRING"} => SaveLen(t) = t.data.len
    BY <1>3 DEF TextTag, NumberTag, PairTag, DataTag, ImageTag, Untyped, HasBytes,
                SaveLen, Special, Pairs, Images
  <2>. QED  BY <2>1 DEF Grown
<1>15. (t.name = "disk" => t.internallen = 6) => PartOf(t).gap = 0
  BY <1>2, <1>7, <1>8
<1>. QED
  BY <1>5, <1>6, <1>9, <1>11, <1>13, <1>14, <1>15

-----------------------------------------------------------------------------
(* The boxes that are written.                                             *)

\* A sum of one element more.
LEMMA LongerSum ==
  ASSUME NEW k \in Nat, NEW f \in [1 .. k + 1 -> Int]
  PROVE  /\ Sum(f) = Sum([m \in 1 .. k |-> f[m]]) + f[k + 1]
         /\ Sum([m \in 1 .. k |-> f[m]]) \in Int
<1> DEFINE n == k + 1
           g == [m \in 1 .. k |-> f[m]]
<1>1. n \in Nat /\ n > 0 /\ f \in [1 .. n -> Int] /\ n - 1 = k
  OBVIOUS
<1>2. Shorter(f, n) = g
  BY <1>1 DEF Shorter
<1>3. g \in [1 .. k -> Int]
  OBVIOUS
<1>4. Sum(g) \in Int
  <2> HIDE DEF g
  <2>. QED  BY <1>3, SumStep
<1>5. Sum(f) = Sum(g) + f[n]
  <2> HIDE DEF g, n
  <2>. QED  BY <1>1, <1>2, SumStep
<1>. QED
  BY <1>4, <1>5

\* The sums of the first elements grow by what the elements are at least.
LEMMA SumsGrow ==
  ASSUME NEW n \in Nat, NEW f \in [1 .. n -> Int], NEW c \in Nat,
         \A m \in 1 .. n : f[m] >= c
  PROVE  \A k \in 0 .. n : /\ Sum([m \in 1 .. k |-> f[m]]) \in Int
                           /\ k < n => Sum([m \in 1 .. k |-> f[m]]) + c <= Sum(f)
<1> DEFINE S(k) == Sum([m \in 1 .. k |-> f[m]])
           P    == {j \in Nat : j <= n => /\ S(j) \in Int
                                          /\ \A k \in 0 .. j : k < j => S(k) \in Int /\ S(k) + c <= S(j)}
<1>1. ASSUME NEW k \in Nat, k < n
      PROVE  S(k + 1) = S(k) + f[k + 1] /\ S(k) \in Int
  <2> DEFINE g == [m \in 1 .. k + 1 |-> f[m]]
  <2>1. g \in [1 .. k + 1 -> Int] /\ g[k + 1] = f[k + 1]
    BY <1>1
  <2>2. [m \in 1 .. k |-> g[m]] = [m \in 1 .. k |-> f[m]]
    OBVIOUS
  <2> HIDE DEF g
  <2>3. Sum(g) = Sum([m \in 1 .. k |-> g[m]]) + g[k + 1] /\ Sum([m \in 1 .. k |-> g[m]]) \in Int
    BY <2>1, LongerSum
  <2>. QED  BY <2>1, <2>2, <2>3 DEF g
<1>2. S(0) = 0
  <2>1. [m \in 1 .. 0 |-> f[m]] = << >>
    OBVIOUS
  <2>. QED  BY <2>1, EmptySum
<1>3. S(n) = Sum(f)
  <2>1. [m \in 1 .. n |-> f[m]] = f
    OBVIOUS
  <2>. QED  BY <2>1
<1> HIDE DEF S
<1>4. 0 \in P
  BY <1>2
<1>5. ASSUME NEW j \in Nat, j < n, j \in P
      PROVE  j + 1 \in P
  <2>1. S(j) \in Int /\ \A k \in 0 .. j : k < j => S(k) \in Int /\ S(k) + c <= S(j)
    BY <1>5
  <2>2. S(j + 1) = S(j) + f[j + 1] /\ f[j + 1] \in Int /\ f[j + 1] >= c
    BY <1>1, <1>5
  <2>3. S(j) + c <= S(j + 1) /\ S(j + 1) \in Int
    BY <2>1, <2>2
  <2>4. ASSUME NEW k \in 0 .. j + 1, k < j + 1
        PROVE  S(k) \in Int /\ S(k) + c <= S(j + 1)
    <3>1. CASE k = j
      BY <2>1, <2>3, <3>1
    <3>2. CASE k # j
      <4>1. k \in 0 .. j /\ k < j
        BY <2>4, <3>2
      <4>2. S(k) \in Int /\ S(k) + c <= S(j)
        BY <2>1, <4>1
      <4>. QED  BY <2>1, <2>3, <4>2
    <3>. QED  BY <3>1, <3>2
  <2>. QED  BY <2>3, <2>4
<1>6. \A j \in 0 .. n : j \in P
  <2> HIDE DEF P
  <2>. QED  BY <1>4, <1>5, BoundedInduction
<1>7. ASSUME NEW k \in 0 .. n
      PROVE  S(k) \in Int /\ (k < n => S(k) + c <= Sum(f))
  <2>1. n \in P /\ k \in P
    BY <1>6
  <2>. QED  BY <1>3, <2>1
<1>. QED
  BY <1>7 DEF S

\* A box that has been made of the first k tags of a list.
PartSizes(b) == [m \in DOMAIN b.parts |-> PartSz(b.parts[m])]

MadeOf(b, s, k) ==
  /\ b \in BoxType /\ b.front = << >> /\ b.parts # << >>
  /\ b.len = BoxHeadSz + CustomSz(b.name) + Sum(PartSizes(b))
  /\ \A m \in DOMAIN b.parts :
       /\ \E i \in 1 .. k : /\ s[i].name = b.name /\ s[i].name \notin Unwritten
                            /\ b.parts[m] = PartOf(s[i])
       /\ m > 1 => b.parts[m].type \in Images \cup {"STRING"}

LEMMA MadeFacts ==
  ASSUME CodecAssumption, NEW s \in Seq(GoodTag), AllSettling(s),
         NEW k \in 0 .. Len(s), NEW b, MadeOf(b, s, k)
  PROVE  /\ b.name \in Names /\ b.parts \in Seq(PartType)
         /\ Len(b.parts) \in Nat /\ Len(b.parts) > 0 /\ DOMAIN b.parts = 1 .. Len(b.parts)
         /\ \A m \in DOMAIN b.parts :
              /\ b.parts[m] \in PartType /\ PartAgrees(b.parts[m])
              /\ b.parts[m].len \in Int /\ b.parts[m].len >= DataSz
              /\ PartSz(b.parts[m]) \in Int
              /\ b.name # "covr" => PartSz(b.parts[m]) = b.parts[m].len
              /\ b.name \in Pairs => b.parts[m].type = "DATA"
         /\ NameEnds(b)
<1>1. /\ b.name \in Names /\ b.parts \in Seq(PartType)
  BY DEF MadeOf, BoxType
<1>2. Len(b.parts) \in Nat /\ Len(b.parts) > 0 /\ DOMAIN b.parts = 1 .. Len(b.parts)
  BY <1>1, EmptySeq DEF MadeOf
<1>3. ASSUME NEW m \in DOMAIN b.parts
      PROVE  /\ b.parts[m] \in PartType /\ PartAgrees(b.parts[m])
             /\ b.parts[m].len \in Int /\ b.parts[m].len >= DataSz
             /\ PartSz(b.parts[m]) \in Int
             /\ b.name # "covr" => PartSz(b.parts[m]) = b.parts[m].len
             /\ b.name \in Pairs => b.parts[m].type = "DATA"
             /\ NameEnds(b)
  <2>1. PICK i \in 1 .. k : /\ s[i].name = b.name /\ s[i].name \notin Unwritten
                            /\ b.parts[m] = PartOf(s[i])
    BY DEF MadeOf
  <2>2. s[i] \in GoodTag /\ s[i] \in TagType /\ Settling(s[i])
    <3>1. i \in DOMAIN s
      BY GoodList
    <3>. QED  BY <3>1, GoodList DEF AllSettling
  <2>3. /\ PartAgrees(b.parts[m]) /\ b.parts[m].type = s[i].type
        /\ b.parts[m].len = DataSz + SaveLen(s[i])
        /\ PartSz(b.parts[m]) = DataSz + SaveLen(s[i]) + GrownByName(s[i])
        /\ s[i].name # "covr" => GrownByName(s[i]) = 0
        /\ s[i].name \in Pairs => s[i].type = "DATA"
    BY <2>1, <2>2, WrittenTag
  <2>4. SaveLen(s[i]) \in Nat /\ GrownByName(s[i]) \in Nat
    BY <2>2, PartTyped
  <2>5. NameEnds(s[i])
    BY <2>1, <2>2 DEF Settling
  <2>6. NameEnds(b)
    BY <2>1, <2>5 DEF NameEnds
  <2>7. b.parts[m] \in PartType
    BY <1>1
  <2>. QED  BY <2>1, <2>3, <2>4, <2>6, <2>7 DEF DataSz
<1>4. NameEnds(b)
  <2> DEFINE n == Len(b.parts)
  <2>1. n \in Nat /\ n > 0 /\ DOMAIN b.parts = 1 .. n
    BY <1>2
  <2> HIDE DEF n
  <2>2. 1 \in DOMAIN b.parts
    BY <2>1
  <2>. QED  BY <1>3, <2>2
<1>. QED
  BY <1>1, <1>2, <1>3, <1>4

\* The reader takes such a box for what it is.
LEMMA MadeIsRead ==
  ASSUME CodecAssumption, NEW s \in Seq(GoodTag), AllSettling(s),
         NEW k \in 0 .. Len(s), NEW b, MadeOf(b, s, k)
  PROVE  BoxReadable(b) /\ (b.name # "covr" => Visited(b) = Len(b.parts))
<1> DEFINE n    == Len(b.parts)
           lens == [m \in 1 .. n |-> b.parts[m].len]
           L(j) == Sum([m \in 1 .. j |-> b.parts[m].len])
<1>1. /\ b \in BoxType /\ b.name \in Names /\ b.parts \in Seq(PartType) /\ NameEnds(b)
      /\ n \in Nat /\ n > 0 /\ DOMAIN b.parts = 1 .. n
      /\ \A m \in 1 .. n :
           /\ PartAgrees(b.parts[m]) /\ b.parts[m].len \in Int /\ b.parts[m].len >= DataSz
           /\ b.name # "covr" => PartSz(b.parts[m]) = b.parts[m].len
           /\ b.name \in Pairs => b.parts[m].type = "DATA"
  <2>1. b \in BoxType
    BY DEF MadeOf
  <2>2. /\ b.name \in Names /\ b.parts \in Seq(PartType) /\ NameEnds(b)
        /\ n \in Nat /\ n > 0 /\ DOMAIN b.parts = 1 .. n
    BY MadeFacts
  <2>3. ASSUME NEW m \in 1 .. n
        PROVE  /\ PartAgrees(b.parts[m])
               /\ b.parts[m].len \in Int /\ b.parts[m].len >= DataSz
               /\ b.name # "covr" => PartSz(b.parts[m]) = b.parts[m].len
               /\ b.name \in Pairs => b.parts[m].type = "DATA"
    <3>1. m \in DOMAIN b.parts
      BY <2>2, <2>3
    <3> HIDE DEF n
    <3>. QED  BY <3>1, MadeFacts
  <2> HIDE DEF n
  <2>. QED  BY <2>1, <2>2, <2>3
<1>2. /\ b.front = << >>
      /\ b.len = BoxHeadSz + CustomSz(b.name) + Sum(PartSizes(b))
      /\ \A m \in 1 .. n : m > 1 => b.parts[m].type \in Images \cup {"STRING"}
  BY <1>1 DEF MadeOf
<1>3. Sum(PartSizes(b)) \in Int
  <2>1. \A m \in 1 .. n : PartSz(b.parts[m]) \in Int
    BY <1>1, MadeFacts
  <2>2. PartSizes(b) \in [1 .. n -> Int]
    BY <1>1, <2>1 DEF PartSizes
  <2>3. n \in Nat
    BY <1>1
  <2> HIDE DEF n
  <2>. QED  BY <2>2, <2>3, SumStep
<1>4. Agrees(b)
  <2>1. NamesSz(b.front) = 0 /\ CustomSz(b.name) \in Nat
    BY <1>1, <1>2, NameSizes, BoxSizes
  <2>2. b.len = BoxHeadSz + CustomSz(b.name) + NamesSz(b.front) + Sum(PartSizes(b))
    BY <1>2, <1>3, <2>1 DEF BoxHeadSz
  <2>. QED  BY <1>1, <2>2 DEF Agrees, PartSizes
<1>5. b.name \in Pairs => n = 1
  <2>1. ASSUME b.name \in Pairs, n # 1
        PROVE  FALSE
    <3>1. 2 \in 1 .. n /\ 2 > 1
      <4>1. n \in Nat /\ n > 0 /\ n # 1
        BY <1>1, <2>1
      <4> HIDE DEF n
      <4>. QED  BY <4>1
    <3>2. b.parts[2].type = "DATA" /\ b.parts[2].type \in Images \cup {"STRING"}
      BY <1>1, <1>2, <2>1, <3>1
    <3>. QED  BY <3>2 DEF Images
  <2>. QED  BY <2>1
<1>6. ASSUME b.name # "covr"
      PROVE  Visited(b) = n
  <2>1. lens \in [1 .. n -> Int] /\ \A m \in 1 .. n : lens[m] >= 16
    BY <1>1 DEF DataSz
  <2>2. \A j \in 0 .. n : [m \in 1 .. j |-> lens[m]] = [m \in 1 .. j |-> b.parts[m].len]
    BY <1>1
  <2>3. lens = PartSizes(b)
    BY <1>1, <1>6 DEF PartSizes
  <2> HIDE DEF lens, n
  <2>4. \A j \in 0 .. n : /\ Sum([m \in 1 .. j |-> lens[m]]) \in Int
                          /\ j < n => Sum([m \in 1 .. j |-> lens[m]]) + 16 <= Sum(lens)
    BY <1>1, <2>1, SumsGrow
  <2>5. L(n) = Sum(lens)
    BY <1>1, <2>2, <2>3 DEF lens
  <2>6. \A j \in 0 .. n : L(j) \in Int /\ (j < n => L(j) + 16 <= Sum(lens))
    BY <2>2, <2>4
  <2>7. BoxLen(b) \in Int /\ BoxLen(b) <= Sum(lens) /\ Sum(lens) - 15 <= BoxLen(b)
    <3>1. b.len = 8 + CustomSz(b.name) + Sum(lens) /\ Sum(lens) \in Int
      BY <1>2, <1>3, <2>3 DEF BoxHeadSz
    <3>2. CASE b.name \in Customs
      <4>1. /\ AppLen[b.name] \in Nat \ {0} /\ CustomLen[b.name] \in Nat \ {0}
            /\ CustomSz(b.name) = 24 + AppLen[b.name] + CustomLen[b.name]
        BY <1>1, <3>2, BoxSizes
      <4>2. AppLen[b.name] <= 16
        BY <1>1, <3>2 DEF NameEnds, MaxAppLen, DataSz
      <4>3. BoxLen(b) = b.len - 8 - (16 + 2 * 8 + 2 * 4 + CustomLen[b.name])
        BY <3>2 DEF BoxLen, BoxHeadSz, DataSz
      <4> DEFINE x == AppLen[b.name]
                 y == CustomLen[b.name]
                 z == Sum(lens)
                 c == BoxLen(b)
      <4>4. x \in Nat /\ x > 0 /\ x <= 16 /\ y \in Nat /\ z \in Int
        BY <3>1, <4>1, <4>2
      <4>5. c = (8 + (24 + x + y) + z) - 8 - (16 + 2 * 8 + 2 * 4 + y)
        BY <3>1, <4>1, <4>3
      <4> HIDE DEF x, y, z, c
      <4>6. c \in Int /\ c <= z /\ z - 15 <= c
        BY <4>4, <4>5
      <4>. QED  BY <4>6 DEF z, c
    <3>3. CASE b.name \notin Customs
      <4>1. CustomSz(b.name) = 0
        BY <1>1, <3>3, BoxSizes
      <4>2. BoxLen(b) = b.len - 8 - 0
        BY <3>3 DEF BoxLen, BoxHeadSz
      <4>. QED  BY <3>1, <4>1, <4>2
    <3>. QED  BY <3>2, <3>3
  <2>8. EndsAt(b, n) /\ \A j \in 1 .. n : EndsAt(b, j) => j = n
    <3>1. EndsAt(b, n)
      BY <2>5, <2>6, <2>7 DEF EndsAt
    <3>2. ASSUME NEW j \in 1 .. n, j # n
          PROVE  ~ EndsAt(b, j)
      <4>1. j \in 0 .. n /\ j < n
        BY <1>1, <3>2
      <4>2. L(j) + 16 <= Sum(lens) /\ L(j) \in Int /\ Sum(lens) \in Int
        BY <1>3, <2>3, <2>6, <4>1
      <4>. QED  BY <2>7, <4>2 DEF EndsAt
    <3>. QED  BY <3>1, <3>2
  <2>9. n \in 1 .. n
    BY <1>1
  <2>10. Visited(b) \in 0 .. n /\ (Visited(b) # 0 => EndsAt(b, Visited(b))) /\ 0 < Visited(b)
    BY <1>1, <2>8, <2>9, VisitedInBox DEF n
  <2>. QED  BY <2>8, <2>10
<1>. QED
  BY <1>1, <1>4, <1>5, <1>6 DEF BoxReadable

LEMMA StartedMade ==
  ASSUME CodecAssumption, NEW s \in Seq(GoodTag), AllSettling(s),
         NEW k \in 1 .. Len(s), s[k].name \notin Unwritten
  PROVE  MadeOf(Started(s[k]), s, k)
<1> DEFINE t == s[k]
           b == Started(t)
<1>1. t \in GoodTag /\ t \in TagType /\ Settling(t) /\ k \in Nat /\ k >= 1
  BY GoodList DEF AllSettling
<1>2. b = [name |-> t.name,
           len |-> BoxHeadSz + CustomSz(t.name) + DataSz + SaveLen(t) + GrownByName(t),
           front |-> << >>, parts |-> <<PartOf(t)>>]
  BY DEF Started, Box
<1>3. b \in BoxType
  BY <1>1, BoxesTyped
<1>4. PartSz(PartOf(t)) = DataSz + SaveLen(t) + GrownByName(t)
  BY <1>1, WrittenTag
<1>5. SaveLen(t) \in Nat /\ GrownByName(t) \in Nat /\ CustomSz(t.name) \in Nat
  BY <1>1, PartTyped, TagFacts, BoxSizes
<1>6. Sum(PartSizes(b)) = PartSz(PartOf(t))
  <2>1. PartSizes(b) = <<PartSz(PartOf(t))>>
    BY <1>2 DEF PartSizes
  <2>2. PartSz(PartOf(t)) \in Int
    BY <1>4, <1>5 DEF DataSz
  <2>. QED  BY <2>1, <2>2, OneSum
<1>7. b.len = BoxHeadSz + CustomSz(b.name) + Sum(PartSizes(b))
  BY <1>2, <1>4, <1>5, <1>6 DEF BoxHeadSz, DataSz
<1>8. b.front = << >> /\ b.parts # << >> /\ b.parts = <<PartOf(t)>> /\ b.name = t.name
  BY <1>2
<1>9. ASSUME NEW m \in DOMAIN b.parts
      PROVE  m = 1 /\ b.parts[m] = PartOf(t)
  BY <1>8
<1>10. k \in 1 .. k
  BY <1>1
<1> HIDE DEF b
<1>11. ASSUME NEW m \in DOMAIN b.parts
       PROVE  /\ \E i \in 1 .. k : /\ s[i].name = b.name /\ s[i].name \notin Unwritten
                                   /\ b.parts[m] = PartOf(s[i])
              /\ m > 1 => b.parts[m].type \in Images \cup {"STRING"}
  <2>1. m = 1 /\ b.parts[m] = PartOf(t)
    BY <1>9
  <2>. QED  BY <1>8, <1>10, <2>1
<1>12. MadeOf(b, s, k)
  BY <1>3, <1>7, <1>8, <1>11 DEF MadeOf
<1>. QED
  BY <1>12 DEF b

LEMMA ExtendedMade ==
  ASSUME CodecAssumption, NEW s \in Seq(GoodTag), AllSettling(s),
         NEW k \in 1 .. Len(s), s[k].name \notin Unwritten,
         NEW b, MadeOf(b, s, k - 1), b.name = s[k].name
  PROVE  MadeOf(Extended(b, s[k]), s, k)
<1> DEFINE t == s[k]
           c == Extended(b, t)
           n == Len(b.parts)
<1>1. /\ t \in GoodTag /\ t \in TagType /\ Settling(t) /\ k \in Nat /\ k >= 1
      /\ k \in DOMAIN s /\ DOMAIN s = 1 .. Len(s) /\ k - 1 \in 0 .. Len(s)
  BY GoodList DEF AllSettling
<1>2. /\ b \in BoxType /\ b.front = << >> /\ b.parts # << >>
      /\ b.len = BoxHeadSz + CustomSz(b.name) + Sum(PartSizes(b))
      /\ \A m \in DOMAIN b.parts :
           /\ \E i \in 1 .. k - 1 : /\ s[i].name = b.name /\ s[i].name \notin Unwritten
                                    /\ b.parts[m] = PartOf(s[i])
           /\ m > 1 => b.parts[m].type \in Images \cup {"STRING"}
  BY DEF MadeOf
<1>3. /\ b.name \in Names /\ b.parts \in Seq(PartType)
      /\ n \in Nat /\ n > 0 /\ DOMAIN b.parts = 1 .. n
      /\ \A m \in 1 .. n : b.parts[m] \in PartType /\ PartSz(b.parts[m]) \in Int
  BY <1>1, MadeFacts
<1>4. c = [name |-> b.name, len |-> b.len + Grown(t) + GrownByName(t),
           front |-> << >>, parts |-> Append(b.parts, PartOf(t))]
  BY <1>2 DEF Extended, Box
<1>5. c \in BoxType
  BY <1>1, <1>2, BoxesTyped
<1>6. t.type \in Images \cup {"STRING"}
  <2>1. 1 \in DOMAIN b.parts
    BY <1>3
  <2>2. PICK i \in 1 .. k - 1 : s[i].name = b.name /\ s[i].name \notin Unwritten
    BY <1>2, <2>1
  <2>3. i \in DOMAIN s /\ i < k
    BY <1>1
  <2>4. ArraysOf(s, Images \cup {"STRING"})
    BY DEF AllSettling, SoundArrays
  <2>. QED  BY <1>1, <2>2, <2>3, <2>4 DEF ArraysOf
<1>7. /\ PartSz(PartOf(t)) = DataSz + SaveLen(t) + GrownByName(t)
      /\ Grown(t) = DataSz + SaveLen(t) /\ PartOf(t).type = t.type
  BY <1>1, <1>6, WrittenTag
<1>8. SaveLen(t) \in Nat /\ GrownByName(t) \in Nat /\ CustomSz(t.name) \in Nat
  BY <1>1, PartTyped, TagFacts, BoxSizes
<1> DEFINE p == PartOf(t)
           q == c.parts
<1>9. /\ c.name = b.name /\ c.front = << >> /\ q = Append(b.parts, p)
      /\ c.len = b.len + Grown(t) + GrownByName(t)
  BY <1>4
<1>10. p \in PartType /\ PartSz(p) \in Int
  BY <1>1, <1>7, <1>8, PartTyped DEF DataSz
<1> HIDE DEF p, q, n
<1>11. /\ Len(q) = n + 1 /\ DOMAIN q = 1 .. n + 1 /\ q[n + 1] = p /\ q # << >>
       /\ \A m \in 1 .. n : q[m] = b.parts[m]
  <2>1. n \in Nat /\ Len(b.parts) = n /\ b.parts \in Seq(PartType)
    BY <1>3 DEF n
  <2>2. /\ q \in Seq(PartType) /\ Len(q) = Len(b.parts) + 1
        /\ q[Len(b.parts) + 1] = p
        /\ \A m \in 1 .. Len(b.parts) : q[m] = b.parts[m]
    BY <1>9, <1>10, <2>1, AppendProperties
  <2>3. DOMAIN q = 1 .. n + 1 /\ q # << >>
    BY <2>1, <2>2
  <2>. QED  BY <2>1, <2>2, <2>3
<1>12. Sum(PartSizes(c)) = Sum(PartSizes(b)) + PartSz(p) /\ Sum(PartSizes(b)) \in Int
  <2> DEFINE f == [m \in 1 .. n + 1 |-> PartSz(q[m])]
             g == [m \in 1 .. n |-> f[m]]
  <2>1. PartSizes(c) = f
    BY <1>11 DEF PartSizes, q
  <2>2. \A m \in 1 .. n : m \in 1 .. n + 1 /\ f[m] = PartSz(b.parts[m])
    BY <1>3, <1>11
  <2>3. PartSizes(b) = g
    BY <1>3, <2>2 DEF PartSizes
  <2>4. n + 1 \in 1 .. n + 1 /\ f[n + 1] = PartSz(p)
    BY <1>3, <1>11
  <2>5. ASSUME NEW m \in 1 .. n + 1
        PROVE  PartSz(q[m]) \in Int
    <3>1. CASE m = n + 1
      BY <1>10, <1>11, <3>1
    <3>2. CASE m # n + 1
      <4>1. m \in 1 .. n
        BY <1>3, <3>2
      <4>. QED  BY <1>3, <1>11, <4>1
    <3>. QED  BY <3>1, <3>2
  <2>6. f \in [1 .. n + 1 -> Int]
    BY <2>5
  <2>7. n \in Nat
    BY <1>3
  <2> HIDE DEF f
  <2>8. Sum(f) = Sum(g) + f[n + 1] /\ Sum(g) \in Int
    BY <2>6, <2>7, LongerSum
  <2>. QED  BY <2>1, <2>3, <2>4, <2>8
<1>13. c.len = BoxHeadSz + CustomSz(c.name) + Sum(PartSizes(c))
  <2>1. PartSz(p) = Grown(t) + GrownByName(t)
    BY <1>7, <1>8 DEF p, DataSz
  <2>2. Grown(t) \in Int /\ CustomSz(b.name) \in Int
    BY <1>7, <1>8 DEF DataSz
  <2>. QED  BY <1>2, <1>8, <1>9, <1>12, <2>1, <2>2 DEF BoxHeadSz
<1>14. ASSUME NEW m \in DOMAIN q
       PROVE  /\ \E i \in 1 .. k : /\ s[i].name = c.name /\ s[i].name \notin Unwritten
                                   /\ q[m] = PartOf(s[i])
              /\ m > 1 => q[m].type \in Images \cup {"STRING"}
  <2>1. CASE m = n + 1
    <3>1. q[m] = PartOf(t) /\ k \in 1 .. k
      BY <1>1, <1>11, <2>1 DEF p
    <3>. QED  BY <1>6, <1>7, <1>9, <3>1
  <2>2. CASE m # n + 1
    <3>1. m \in DOMAIN b.parts /\ q[m] = b.parts[m]
      BY <1>3, <1>11, <2>2
    <3>2. PICK i \in 1 .. k - 1 : /\ s[i].name = b.name /\ s[i].name \notin Unwritten
                                  /\ b.parts[m] = PartOf(s[i])
      BY <1>2, <3>1
    <3>3. i \in 1 .. k
      BY <1>1
    <3>. QED  BY <1>2, <1>9, <3>1, <3>2, <3>3
  <2>. QED  BY <2>1, <2>2
<1>15. MadeOf(c, s, k)
  BY <1>5, <1>9, <1>11, <1>13, <1>14 DEF MadeOf, q
<1>. QED
  BY <1>15 DEF c

LEMMA MadeLater ==
  ASSUME NEW s, NEW k \in Nat, k > 0, NEW b, MadeOf(b, s, k - 1)
  PROVE  MadeOf(b, s, k)
<1>1. \A i \in 1 .. k - 1 : i \in 1 .. k
  OBVIOUS
<1>. QED
  BY <1>1 DEF MadeOf

\* All boxes are such boxes.
LEMMA BuiltMade ==
  ASSUME CodecAssumption, NEW s \in Seq(GoodTag), AllSettling(s)
  PROVE  \A k \in 0 .. Len(s) :
           /\ Built(s)[k] \in Seq(BoxType)
           /\ \A n \in DOMAIN Built(s)[k] : MadeOf(Built(s)[k][n], s, k)
<1> DEFINE B(k) == Built(s)[k]
           P    == {k \in Nat : k <= Len(s) => \A n \in DOMAIN B(k) : MadeOf(B(k)[n], s, k)}
<1>1. /\ B(0) = << >>
      /\ \A k \in 1 .. Len(s) :
           B(k) = IF s[k].name \in Unwritten THEN B(k - 1) ELSE BuildAppend(B(k - 1), s[k])
      /\ \A k \in 0 .. Len(s) : B(k) \in Seq(BoxType)
  BY GoodList, BuiltStep
<1> HIDE DEF B
<1>2. Len(s) \in Nat
  BY GoodList
<1>3. 0 \in P
  BY <1>1
<1>4. ASSUME NEW j \in Nat, j < Len(s), j \in P
      PROVE  j + 1 \in P
  <2> DEFINE k == j + 1
             t == s[k]
  <2>1. k \in Nat /\ k > 0 /\ k \in 1 .. Len(s) /\ k - 1 = j /\ j \in 0 .. Len(s)
    BY <1>2, <1>4
  <2>2. \A n \in DOMAIN B(j) : MadeOf(B(j)[n], s, j)
    BY <1>2, <1>4
  <2>3. B(k) = IF t.name \in Unwritten THEN B(j) ELSE BuildAppend(B(j), t)
    BY <1>1, <2>1
  <2>4. B(j) \in Seq(BoxType) /\ Len(B(j)) \in Nat /\ DOMAIN B(j) = 1 .. Len(B(j))
    BY <1>1, <2>1
  <2> HIDE DEF k
  <2>5. \A n \in DOMAIN B(j) : MadeOf(B(j)[n], s, k)
    BY <2>1, <2>2, MadeLater
  <2>6. ASSUME NEW n \in DOMAIN B(k)
        PROVE  MadeOf(B(k)[n], s, k)
    <3>1. CASE t.name \in Unwritten
      BY <2>3, <2>5, <3>1
    <3>2. CASE t.name \notin Unwritten /\ Again(B(j), t)
      <4> DEFINE l == Len(B(j))
      <4>1. l \in DOMAIN B(j) /\ B(j)[l].name = t.name
        BY <2>4, <3>2, EmptySeq DEF Again
      <4>2. B(k) = [B(j) EXCEPT ![l] = Extended(B(j)[l], t)]
        BY <2>3, <3>2 DEF BuildAppend
      <4>3. MadeOf(B(j)[l], s, k - 1)
        BY <2>1, <2>2, <4>1
      <4>4. MadeOf(Extended(B(j)[l], t), s, k)
        BY <2>1, <3>2, <4>1, <4>3, ExtendedMade
      <4> HIDE DEF l
      <4>. QED  BY <2>5, <2>6, <4>1, <4>2, <4>4
    <3>3. CASE t.name \notin Unwritten /\ ~ Again(B(j), t)
      <4>1. B(k) = Append(B(j), Started(t))
        BY <2>3, <3>3 DEF BuildAppend
      <4>2. MadeOf(Started(t), s, k)
        BY <2>1, <3>3, StartedMade
      <4>3. \A m \in DOMAIN B(k) : B(k)[m] = Started(t) \/ (m \in DOMAIN B(j) /\ B(k)[m] = B(j)[m])
        <5>1. DOMAIN B(k) = 1 .. Len(B(j)) + 1
          BY <2>4, <4>1
        <5>. QED  BY <2>4, <4>1, <5>1
      <4>. QED  BY <2>5, <2>6, <4>2, <4>3
    <3>. QED  BY <3>1, <3>2, <3>3
  <2>. QED  BY <2>6 DEF k
<1>5. \A k \in 0 .. Len(s) : k \in P
  <2> HIDE DEF P
  <2>. QED  BY <1>2, <1>3, <1>4, BoundedInduction
<1>6. ASSUME NEW k \in 0 .. Len(s)
      PROVE  \A n \in DOMAIN B(k) : MadeOf(B(k)[n], s, k)
  <2>1. k \in Nat /\ k <= Len(s) /\ k \in P
    BY <1>2, <1>5
  <2>. QED  BY <2>1
<1>. QED
  BY <1>1, <1>6 DEF B

LEMMA Made ==
  ASSUME CodecAssumption, NEW s \in Seq(GoodTag), AllSettling(s)
  PROVE  /\ BuildData(s) \in Seq(BoxType)
         /\ \A n \in DOMAIN BuildData(s) : MadeOf(BuildData(s)[n], s, Len(s))
         /\ Readable(BuildData(s))
<1>1. Len(s) \in Nat /\ Len(s) \in 0 .. Len(s)
  BY GoodList
<1>2. /\ BuildData(s) \in Seq(BoxType)
      /\ \A n \in DOMAIN BuildData(s) : MadeOf(BuildData(s)[n], s, Len(s))
  BY <1>1, BuiltMade DEF BuildData
<1>3. \A n \in DOMAIN BuildData(s) : BoxReadable(BuildData(s)[n])
  BY <1>1, <1>2, MadeIsRead
<1>. QED
  BY <1>2, <1>3 DEF Readable

LEMMA GapsFilled ==
  ASSUME CodecAssumption, NEW s \in Seq(GoodTag), AllSettling(s),
         \A i \in DOMAIN s : s[i].name = "disk" => s[i].internallen = 6
  PROVE  \A n \in DOMAIN BuildData(s) : \A m \in DOMAIN BuildData(s)[n].parts :
           BuildData(s)[n].parts[m].gap = 0
<1>1. TAKE n \in DOMAIN BuildData(s)
<1> DEFINE b == BuildData(s)[n]
<1>2. MadeOf(b, s, Len(s))
  BY Made
<1>3. ASSUME NEW m \in DOMAIN b.parts
      PROVE  b.parts[m].gap = 0
  <2>1. PICK i \in 1 .. Len(s) : s[i].name \notin Unwritten /\ b.parts[m] = PartOf(s[i])
    BY <1>2 DEF MadeOf
  <2>2. i \in DOMAIN s /\ s[i] \in GoodTag
    BY GoodList
  <2>3. Settling(s[i])
    BY <2>2 DEF AllSettling
  <2>. QED  BY <2>1, <2>2, <2>3, WrittenTag
<1>. QED
  BY <1>3

\* The handle keeps its invariant.
LEMMA TypeInvariant == Spec => []TypeInv
<1>1. Init => TypeInv
  BY CodecAssumption, TypeInit
<1>2. TypeInv /\ [Next]_vars => TypeInv'
  BY CodecAssumption, TypeStep
<1>. QED
  BY <1>1, <1>2, PTL DEF Spec

\* Whatever was set, added and deleted: every list of tags that are kept or settle
\* is written with lengths the reader can rely on, mp4tag_update_data_len for every
\* further value of a name and for every cover name included.
THEOREM LengthsStored == Spec => []LengthsAgree
<1>1. TypeInv => LengthsAgree
  BY CodecAssumption, Made DEF TypeInv, LengthsAgree
<1>. QED
  BY <1>1, TypeInvariant, PTL

\* No byte of what was reserved for a list of such tags is left, and none is written
\* behind it.
THEOREM AllFilled == Spec => []Filled
<1>1. ASSUME TypeInv, written, AllSettling(tags),
             \A i \in DOMAIN tags : tags[i].name = "disk" => tags[i].internallen = 6
      PROVE  \A n \in DOMAIN disk : \A m \in DOMAIN disk[n].parts : disk[n].parts[m].gap = 0
  <2>1. disk = BuildData(tags) /\ tags \in Seq(GoodTag)
    BY <1>1 DEF TypeInv
  <2>. QED  BY <1>1, <2>1, CodecAssumption, GapsFilled, SMTT(30)
<1>2. TypeInv => Filled
  BY <1>1 DEF Filled
<1>. QED
  BY <1>2, TypeInvariant, PTL

-----------------------------------------------------------------------------
(* What a tag comes back as.                                               *)

ImageOf(p) ==
  Tag("covr", IF p.type = "DATA" THEN "JPG" ELSE p.type, DataLen(p),
      Blob(p.val.a, DataLen(p)), LastName(p.names))

Back(t) == IF t.name = "covr" THEN <<ImageOf(PartOf(t))>> ELSE ReadData(t.name, PartOf(t))

\* A tag as it is after it has been written and read.
Settled(t, u) ==
  /\ u \in GoodTag /\ Kept(u) /\ u.name = t.name
  /\ t.type \in Images \cup {"STRING"} => u.type \in Images \cup {"STRING"}
  /\ Kept(t) => View(u) = View(t)

LEMMA TextBack ==
  ASSUME CodecAssumption, NEW t \in GoodTag, TextTag(t), NameEnds(t), t.name \notin Unwritten
  PROVE  IF t.data.len > 0 THEN \E u : Back(t) = <<u>> /\ Settled(t, u)
         ELSE Back(t) = << >> /\ ~ Kept(t)
<1> DEFINE p == PartOf(t)
           u == Tag(t.name, "STRING", t.data.len, t.data, NoValue)
<1>1. t \in TagType /\ t.name # "covr" /\ t.covername = NoValue /\ t.type = "STRING"
      /\ t.name \notin Special
  BY DEF GoodTag, TextTag, Special
<1>2. /\ t.name \in Names /\ t.data.len \in Nat /\ t.data \in TextValue \cup ByteValue
      /\ t.data.form \in TextForms
  BY <1>1, TagFacts DEF TextTag
<1>3. SaveLen(t) = t.data.len /\ Payload(t) = t.data
  BY <1>1 DEF SaveLen, Payload, Special, Pairs
<1>4. p.type = "STRING" /\ p.len = DataSz + SaveLen(t) /\ p.val = t.data
  BY <1>1, <1>3 DEF PartOf, Part
<1>5. DataLen(p) = t.data.len
  BY <1>2, <1>3, <1>4 DEF DataLen, DataSz
<1> HIDE DEF p
<1>6. Back(t) = ReadData(t.name, p)
  BY <1>1 DEF Back, p
<1>7. CASE t.data.len > 0
  <2>1. Back(t) = <<u>>
    BY <1>2, <1>4, <1>5, <1>6, <1>7 DEF ReadData, Plain
  <2>2. u = [name |-> t.name, type |-> "STRING", internallen |-> t.data.len,
             data |-> t.data, covername |-> NoValue]
    BY DEF Tag
  <2>3. u \in GoodTag
    BY <1>2, TagMade DEF Types
  <2>4. Kept(u)
    BY <1>1, <1>2, <1>7, <2>2 DEF Kept, TextTag, NameEnds
  <2>5. View(u) = View(t)
    BY <1>1, <2>2 DEF View
  <2>6. u.name = t.name /\ u.type = "STRING"
    BY <2>2
  <2> HIDE DEF u
  <2>7. Settled(t, u)
    BY <2>3, <2>4, <2>5, <2>6 DEF Settled
  <2>. QED  BY <1>7, <2>1, <2>7
<1>8. CASE ~ (t.data.len > 0)
  <2>1. Back(t) = << >>
    BY <1>4, <1>5, <1>6, <1>8 DEF ReadData, Plain
  <2>2. ~ Kept(t)
    BY <1>1, <1>8 DEF Kept, NumberTag, PairTag, DataTag, ImageTag, Images
  <2>. QED  BY <1>8, <2>1, <2>2
<1>. QED
  BY <1>7, <1>8

LEMMA NumberBack ==
  ASSUME CodecAssumption, NEW t \in GoodTag, NumberTag(t), NameEnds(t), t.name \notin Unwritten
  PROVE  \E u : Back(t) = <<u>> /\ Settled(t, u)
<1> DEFINE p == PartOf(t)
           w == t.internallen
           x == Stored(AtoLL(t.data), w)
           u == Tag(t.name, "NUM", w, Num(x), NoValue)
<1>1. t \in TagType /\ t.name # "covr" /\ t.covername = NoValue /\ t.type = "NUM"
      /\ t.name \notin Special /\ w \in Widths
  BY DEF GoodTag, NumberTag, Special
<1>2. t.name \in Names /\ w \in Nat /\ AtoLL(t.data) \in Int
  BY <1>1, TagFacts
<1>3. x \in Int /\ Stored(x, w) = x /\ Num(x) \in TextValue
  <2>1. x \in Int /\ Stored(x, w) = x
    BY <1>1, <1>2, Numbers
  <2>. QED  BY <2>1, Numbers
<1>4. SaveLen(t) = w /\ Payload(t) = IntOf(x, w)
  BY <1>1 DEF SaveLen, Payload, Special, Pairs, Images
<1> HIDE DEF x
<1>5. p.type = "NUM" /\ p.len = DataSz + w /\ p.val = IntOf(x, w)
  BY <1>1, <1>4 DEF PartOf, Part
<1>6. DataLen(p) = w
  BY <1>2, <1>5 DEF DataLen, DataSz
<1>7. Number(p.val) = x
  BY <1>5 DEF Number, IntOf, Value
<1> HIDE DEF p
<1>8. Back(t) = ReadPlain(t.name, "NUM", w, p.val)
  BY <1>1, <1>5, <1>6 DEF Back, p, ReadData, Plain
<1>9. Back(t) = <<u>>
  BY <1>1, <1>7, <1>8 DEF ReadPlain, Special
<1>10. u = [name |-> t.name, type |-> "NUM", internallen |-> w,
            data |-> Num(x), covername |-> NoValue]
  BY DEF Tag
<1>11. u \in GoodTag
  BY <1>2, <1>3, TagMade DEF Types, Plain
<1>12. AtoLL(Num(x)) = x
  BY DEF AtoLL, Num, Value
<1>13. Kept(u)
  BY <1>1, <1>3, <1>10, <1>12 DEF Kept, NumberTag, NameEnds
<1>14. Kept(t) => t.data = Num(x)
  BY <1>1 DEF Kept, TextTag, PairTag, DataTag, ImageTag, Images, x
<1>15. Kept(t) => View(u) = View(t)
  BY <1>1, <1>10, <1>14 DEF View
<1>16. u.name = t.name /\ t.type \notin Images \cup {"STRING"}
  BY <1>1, <1>10 DEF Images
<1> HIDE DEF u
<1>17. Settled(t, u)
  BY <1>11, <1>13, <1>15, <1>16 DEF Settled
<1>. QED
  BY <1>9, <1>17

LEMMA PairBack ==
  ASSUME CodecAssumption, NEW t \in GoodTag, PairTag(t), NameEnds(t), t.name \notin Unwritten
  PROVE  \E u : Back(t) = <<u>> /\ Settled(t, u)
<1> DEFINE p == PartOf(t)
           a == Signed(ParsePair(t.data)[1], 4)
           b == Unsigned(ParsePair(t.data)[2], 2)
           v == IF b = 0 THEN Num(a) ELSE Pair(a, b)
           n == IF t.name = "trkn" THEN 8 ELSE t.internallen
           u == Tag(t.name, "DATA", n, v, NoValue)
<1>1. t \in TagType /\ t.name # "covr" /\ t.covername = NoValue /\ t.type = "DATA"
      /\ t.name \in Pairs
  BY DEF GoodTag, PairTag, Pairs
<1>2. t.name \in Names /\ n \in Nat /\ n >= 6
  BY <1>1, TagFacts DEF PairTag, Pairs
<1>3. /\ a \in Int /\ Signed(a, 4) = a
      /\ b \in Int /\ Unsigned(b, 2) = b
  BY <1>1, TagFacts, Numbers DEF Widths
<1>4. v \in TextValue
  <2> HIDE DEF a, b
  <2>1. Num(a) \in TextValue /\ Pair(a, b) \in TextValue
    BY <1>3, Numbers
  <2>. QED  BY <2>1
<1>5. SaveLen(t) = n /\ \E k \in Nat : Payload(t) = Value("ints", a, b, k)
  <2>1. SaveLen(t) = n
    BY <1>1 DEF SaveLen
  <2>2. Payload(t) = Ints(ParsePair(t.data), IF t.name = "trkn" THEN 8 ELSE 6)
    BY <1>1 DEF Payload, Images, Pairs
  <2>. QED  BY <2>1, <2>2 DEF Ints
<1> HIDE DEF a, b, n
<1>6. p.type = "DATA" /\ p.len = DataSz + n /\ p.val = Payload(t)
  BY <1>1, <1>5 DEF PartOf, Part
<1>7. DataLen(p) = n
  BY <1>2, <1>6 DEF DataLen, DataSz
<1>8. p.val.form = "ints" /\ p.val.a = a /\ p.val.b = b
  BY <1>5, <1>6 DEF Value
<1> HIDE DEF p
<1>9. ReadPair(t.name, p.val, n) = v
  BY <1>2, <1>8 DEF ReadPair
<1>10. Back(t) = <<u>>
  <2>1. Back(t) = ReadPlain(t.name, "DATA", n, p.val)
    BY <1>1, <1>6, <1>7 DEF Back, p, ReadData, Plain
  <2>. QED  BY <1>1, <1>9, <2>1 DEF ReadPlain
<1>11. u = [name |-> t.name, type |-> "DATA", internallen |-> n,
            data |-> v, covername |-> NoValue]
  BY DEF Tag
<1>12. u \in GoodTag
  BY <1>2, <1>4, TagMade DEF Types, Plain
<1>13. Printed(v)
  <2>1. CASE b = 0
    <3>1. v = Num(a) /\ ParsePair(v) = <<a, 0>>
      BY <2>1 DEF ParsePair, Num, Value
    <3>. QED  BY <1>3, <2>1, <3>1 DEF Printed
  <2>2. CASE b # 0
    <3>1. v = Pair(a, b) /\ ParsePair(v) = <<a, b>>
      BY <2>2 DEF ParsePair, Pair, Value
    <3>. QED  BY <1>3, <2>2, <3>1 DEF Printed
  <2>. QED  BY <2>1, <2>2
<1> HIDE DEF v
<1>14. Kept(u)
  BY <1>1, <1>2, <1>11, <1>13 DEF Kept, PairTag, NameEnds
<1>15. Kept(t) => t.data = v
  <2>1. Kept(t) => Printed(t.data)
    BY <1>1 DEF Kept, TextTag, NumberTag, DataTag, ImageTag, Images, Special
  <2>2. Printed(t.data) => t.data = v
    BY DEF Printed, v, a, b
  <2>. QED  BY <2>1, <2>2
<1>16. Kept(t) => View(u) = View(t)
  BY <1>1, <1>11, <1>15 DEF View
<1>17. u.name = t.name /\ t.type \notin Images \cup {"STRING"}
  BY <1>1, <1>11 DEF Images
<1> HIDE DEF u
<1>18. Settled(t, u)
  BY <1>12, <1>14, <1>16, <1>17 DEF Settled
<1>. QED
  BY <1>10, <1>18

LEMMA DataBack ==
  ASSUME CodecAssumption, NEW t \in GoodTag, DataTag(t), NameEnds(t), t.name \notin Unwritten
  PROVE  \E u : Back(t) = <<u>> /\ Settled(t, u)
<1> DEFINE p == PartOf(t)
           n == t.internallen
           u == Tag(t.name, "DATA", n, t.data, NoValue)
<1>1. t \in TagType /\ t.name # "covr" /\ t.covername = NoValue /\ t.type = "DATA"
      /\ t.name \notin Special /\ n \notin Widths
      /\ IsBinary(t.data) /\ t.data.len = n
  BY DEF GoodTag, DataTag, HasBytes, Special
<1>2. /\ t.name \in Names /\ n \in Nat /\ t.data \in TextValue \cup ByteValue
      /\ t.data = Blob(t.data.a, n)
  BY <1>1, TagFacts
<1>3. SaveLen(t) = n /\ Payload(t) = t.data
  BY <1>1 DEF SaveLen, Payload, Special, Pairs, Images
<1>4. p.type = "DATA" /\ p.len = DataSz + n /\ p.val = t.data
  BY <1>1, <1>3 DEF PartOf, Part
<1>5. DataLen(p) = n
  BY <1>2, <1>4 DEF DataLen, DataSz
<1> HIDE DEF p
<1>6. Back(t) = ReadPlain(t.name, "DATA", n, t.data)
  BY <1>1, <1>4, <1>5 DEF Back, p, ReadData, Plain
<1>7. Back(t) = <<u>>
  BY <1>1, <1>2, <1>6 DEF ReadPlain, Special
<1>8. u = [name |-> t.name, type |-> "DATA", internallen |-> n,
           data |-> t.data, covername |-> NoValue]
  BY DEF Tag
<1>9. u \in GoodTag
  BY <1>2, TagMade DEF Types, Plain
<1>10. Kept(u)
  BY <1>1, <1>8 DEF Kept, DataTag, HasBytes, NameEnds
<1>11. View(u) = View(t)
  BY <1>1, <1>8 DEF View
<1>12. u.name = t.name /\ t.type \notin Images \cup {"STRING"}
  BY <1>1, <1>8 DEF Images
<1> HIDE DEF u
<1>13. Settled(t, u)
  BY <1>9, <1>10, <1>11, <1>12 DEF Settled
<1>. QED
  BY <1>7, <1>13

\* An image without a known type becomes one of type JPG.
LEMMA ImageBack ==
  ASSUME CodecAssumption, NEW t \in GoodTag, ImageTag(t) \/ Untyped(t), NameEnds(t),
         t.name \notin Unwritten
  PROVE  \E u : Back(t) = <<u>> /\ Settled(t, u)
<1> DEFINE p    == PartOf(t)
           n    == t.internallen
           type == IF t.type = "DATA" THEN "JPG" ELSE t.type
           u    == Tag("covr", type, n, t.data, t.covername)
<1>1. t \in TagType /\ t.name = "covr" /\ t.type \in Images \cup {"DATA"}
      /\ IsBinary(t.data) /\ t.data.len = n
      /\ (t.covername # NoValue => t.covername.len > 0 /\ t.type \in Images)
      /\ (t.type = "DATA" => ~ ImageTag(t))
  BY DEF GoodTag, ImageTag, Untyped, HasBytes, Images
<1>2. /\ t.name \in Names /\ n \in Nat /\ t.data \in TextValue \cup ByteValue
      /\ t.data = Blob(t.data.a, n)
      /\ t.covername \in TextValue \cup {NoValue}
  BY <1>1, TagFacts
<1>3. SaveLen(t) = n /\ Payload(t) = t.data
  BY <1>1 DEF SaveLen, Payload, Pairs, Images
<1>4. /\ p.type = t.type /\ p.len = DataSz + n /\ p.val = t.data
      /\ p.names = IF Named(t) THEN <<t.covername>> ELSE << >>
  BY <1>1, <1>3 DEF PartOf, Part
<1>5. DataLen(p) = n
  BY <1>2, <1>4 DEF DataLen, DataSz
<1>6. LastName(p.names) = t.covername
  <2>1. CASE t.covername = NoValue
    <3>1. NoValue.len = 0
      BY DEF NoValue, Value
    <3>2. p.names = << >>
      BY <1>4, <2>1, <3>1 DEF Named
    <3>. QED  BY <2>1, <3>2 DEF LastName
  <2>2. CASE t.covername # NoValue
    <3>1. p.names = <<t.covername>>
      BY <1>1, <1>4, <2>2 DEF Named
    <3>2. p.names # << >> /\ Len(p.names) = 1 /\ p.names[1] = t.covername
      BY <3>1
    <3>. QED  BY <3>2 DEF LastName
  <2>. QED  BY <2>1, <2>2
<1> HIDE DEF p
<1>7. Back(t) = <<u>>
  <2>1. Back(t) = <<ImageOf(p)>>
    BY <1>1 DEF Back, p
  <2>2. Blob(p.val.a, n) = t.data
    BY <1>2, <1>4
  <2>3. ImageOf(p) = u
    BY <1>4, <1>5, <1>6, <2>2 DEF ImageOf
  <2>. QED  BY <2>1, <2>3
<1>8. type \in Images
  BY <1>1 DEF Images
<1>9. Kept(t) => type = t.type
  BY <1>1 DEF Kept, TextTag, NumberTag, PairTag, DataTag, Special, Pairs
<1> HIDE DEF type
<1>10. u = [name |-> "covr", type |-> type, internallen |-> n,
            data |-> t.data, covername |-> t.covername]
  BY DEF Tag
<1>11. u \in GoodTag
  <2>1. u \in TagType
    BY <1>1, <1>2, <1>8, <1>10 DEF TagType, Types
  <2>. QED  BY <1>10, <2>1 DEF GoodTag
<1>12. Kept(u)
  BY <1>1, <1>8, <1>10 DEF Kept, ImageTag, HasBytes, NameEnds
<1>13. Kept(t) => View(u) = View(t)
  BY <1>1, <1>9, <1>10 DEF View
<1>14. u.name = t.name /\ u.type \in Images
  BY <1>1, <1>8, <1>10
<1> HIDE DEF u
<1>15. Settled(t, u)
  BY <1>11, <1>12, <1>13, <1>14 DEF Settled
<1>. QED
  BY <1>7, <1>15

\* A tag that is kept comes back as it is, one that settles comes back as one that
\* is kept, or not at all.
LEMMA ComesBack ==
  ASSUME CodecAssumption, NEW t \in GoodTag, Settling(t), t.name \notin Unwritten
  PROVE  \/ Back(t) = << >> /\ ~ Kept(t)
         \/ \E u : Back(t) = <<u>> /\ Settled(t, u)
<1>1. /\ NameEnds(t)
      /\ \/ TextTag(t) \/ NumberTag(t) \/ PairTag(t) \/ DataTag(t) \/ ImageTag(t) \/ Untyped(t)
  BY DEF Settling
<1>. QED
  BY <1>1, TextBack, NumberBack, PairBack, DataBack, ImageBack

-----------------------------------------------------------------------------
(* What the boxes are read as.                                             *)

\* A tag that is written makes well-formed tags when it is read.
LEMMA BackTyped ==
  ASSUME CodecAssumption, NEW t \in GoodTag, Settling(t), t.name \notin Unwritten
  PROVE  /\ Back(t) \in Seq(GoodTag)
         /\ t.name = "covr" => ImageOf(PartOf(t)) \in GoodTag /\ Back(t) = <<ImageOf(PartOf(t))>>
         /\ t.name # "covr" => Back(t) = ReadData(t.name, PartOf(t))
<1>1. Back(t) \in Seq(GoodTag)
  <2>1. \A u \in GoodTag : <<u>> \in Seq(GoodTag)
    OBVIOUS
  <2>2. << >> \in Seq(GoodTag)
    OBVIOUS
  <2>3. Back(t) = << >> \/ \E u : Back(t) = <<u>> /\ Settled(t, u)
    BY ComesBack
  <2>4. \A u : Settled(t, u) => u \in GoodTag
    BY DEF Settled
  <2>. QED  BY <2>1, <2>2, <2>3, <2>4
<1>2. t.name = "covr" => Back(t) = <<ImageOf(PartOf(t))>>
  BY DEF Back
<1>3. t.name = "covr" => ImageOf(PartOf(t)) \in GoodTag
  <2> DEFINE x == ImageOf(PartOf(t))
  <2>1. \A y : <<y>>[1] = y /\ 1 \in 1 .. Len(<<y>>)
    OBVIOUS
  <2> HIDE DEF x
  <2>2. ASSUME t.name = "covr"
        PROVE  x \in GoodTag
    <3>1. <<x>> \in Seq(GoodTag)
      BY <1>1, <1>2, <2>2 DEF x
    <3>. QED  BY <3>1, <2>1
  <2>. QED  BY <2>2 DEF x
<1>4. t.name # "covr" => Back(t) = ReadData(t.name, PartOf(t))
  BY DEF Back
<1>. QED
  BY <1>1, <1>2, <1>3, <1>4

\* What is written of such a tag is no genre, so that all of its data boxes are
\* read by its own name.
LEMMA OwnName ==
  ASSUME NEW t, Settling(t), t.name \notin Unwritten, NEW b, b.name = t.name
  PROVE  \A m : NameAt(b, m) = b.name
<1>1. t.name # "gnre"
  BY DEF Settling, TextTag, NumberTag, PairTag, DataTag, ImageTag, Untyped, Special, Pairs
<1>. QED
  BY <1>1 DEF NameAt

\* An image of a box without names in front.
LEMMA ImageRead ==
  ASSUME CodecAssumption, NEW b \in BoxType, b.front = << >>, NEW m \in DOMAIN b.parts
  PROVE  ReadImage(b, m) = ImageOf(b.parts[m])
<1>1. b.parts[m].names \in Seq(TextValue)
  <2>1. b.parts[m] \in PartType
    BY DEF BoxType
  <2>. QED  BY <2>1 DEF PartType
<1>2. b.front \o b.parts[m].names = b.parts[m].names
  BY <1>1, ConcatEmptySeq
<1>3. NameOf(b, m) = LastName(b.parts[m].names)
  BY <1>2 DEF NameOf
<1>. QED
  BY <1>3 DEF ReadImage, ImageOf

LEMMA ReadStarted ==
  ASSUME CodecAssumption, NEW s \in Seq(GoodTag), AllSettling(s),
         NEW k \in 1 .. Len(s), s[k].name \notin Unwritten
  PROVE  ReadBox(Started(s[k])) = Back(s[k])
<1> DEFINE t == s[k]
           b == Started(t)
           p == PartOf(t)
<1>1. t \in GoodTag /\ t \in TagType /\ Settling(t) /\ k \in 0 .. Len(s)
  BY GoodList DEF AllSettling
<1>2. MadeOf(b, s, k)
  BY StartedMade
<1>3. b.name = t.name /\ b.parts = <<p>> /\ Len(b.parts) = 1 /\ b.parts[1] = p
  BY DEF Started, Box
<1>4. b \in BoxType /\ b.front = << >> /\ (b.name # "covr" => Visited(b) = 1)
  <2>1. b \in BoxType /\ b.front = << >>
    BY <1>2 DEF MadeOf
  <2> HIDE DEF b
  <2>2. b.name # "covr" => Visited(b) = Len(b.parts)
    BY <1>1, <1>2, MadeIsRead
  <2>. QED  BY <1>3, <2>1, <2>2
<1> HIDE DEF b, p, t
<1>5. CASE t.name = "covr"
  <2>1. DOMAIN b.parts = 1 .. 1 /\ 1 \in DOMAIN b.parts
    BY <1>3
  <2>2. ReadImage(b, 1) = ImageOf(p)
    BY <1>3, <1>4, <2>1, ImageRead
  <2>3. ProcessCovr(b) = [m \in 1 .. 1 |-> ReadImage(b, m)]
    BY <2>1 DEF ProcessCovr
  <2>4. [m \in 1 .. 1 |-> ReadImage(b, m)] = <<ReadImage(b, 1)>>
    OBVIOUS
  <2>5. ReadBox(b) = ProcessCovr(b)
    BY <1>3, <1>5 DEF ReadBox
  <2>. QED  BY <1>1, <1>5, <2>2, <2>3, <2>4, <2>5, BackTyped DEF b, p, t
<1>6. CASE t.name # "covr"
  <2> DEFINE f == [m \in 1 .. 1 |-> ReadData(b.name, b.parts[m])]
             n == 1
             g == Shorter(f, n)
             T == GoodTag
  <2>0. \A m : NameAt(b, m) = b.name
    BY <1>1, <1>3, OwnName DEF t
  <2>1. ReadBox(b) = FlattenSeq(f)
    BY <1>3, <1>4, <1>6, <2>0 DEF ReadBox, ProcessTag
  <2>2. f[n] = Back(t) /\ Back(t) \in Seq(T)
    <3>1. Back(t) \in Seq(T) /\ Back(t) = ReadData(t.name, p)
      BY <1>1, <1>6, BackTyped DEF p, t
    <3>. QED  BY <1>3, <3>1
  <2>3. f \in [1 .. n -> Seq(T)] /\ n \in Nat /\ n > 0
    BY <2>2
  <2>4. g = << >>
    BY DEF Shorter
  <2> HIDE DEF f, g, n, T
  <2>5. FlattenSeq(f) = FlattenSeq(g) \o f[n]
    BY <2>3, FlattenStep DEF g
  <2>6. FlattenSeq(g) = << >>
    <3>1. << >> \in [1 .. 0 -> Seq(T)] /\ 0 \in Nat
      OBVIOUS
    <3>. QED  BY <2>4, <3>1, FlattenStep
  <2>7. << >> \o f[n] = f[n]
    BY <2>2, ConcatEmptySeq
  <2>. QED  BY <2>1, <2>2, <2>5, <2>6, <2>7 DEF b, t
<1>. QED
  BY <1>5, <1>6

LEMMA ReadExtended ==
  ASSUME CodecAssumption, NEW s \in Seq(GoodTag), AllSettling(s),
         NEW k \in 1 .. Len(s), s[k].name \notin Unwritten,
         NEW b, MadeOf(b, s, k - 1), b.name = s[k].name
  PROVE  /\ ReadBox(b) \in Seq(GoodTag)
         /\ ReadBox(Extended(b, s[k])) = ReadBox(b) \o Back(s[k])
<1> DEFINE t == s[k]
           c == Extended(b, t)
           p == PartOf(t)
           n == Len(b.parts)
<1>1. t \in GoodTag /\ t \in TagType /\ Settling(t) /\ k \in 0 .. Len(s) /\ k - 1 \in 0 .. Len(s)
  BY GoodList DEF AllSettling
<1>2. MadeOf(c, s, k)
  BY ExtendedMade
<1>3. /\ b \in BoxType /\ b.front = << >> /\ b.name \in Names /\ b.parts \in Seq(PartType)
      /\ n \in Nat /\ n > 0 /\ DOMAIN b.parts = 1 .. n
      /\ \A m \in 1 .. n : b.parts[m] \in PartType /\ PartAgrees(b.parts[m])
  <2>1. b \in BoxType /\ b.front = << >>
    BY DEF MadeOf
  <2>2. /\ b.name \in Names /\ b.parts \in Seq(PartType)
        /\ n \in Nat /\ n > 0 /\ DOMAIN b.parts = 1 .. n
        /\ \A m \in DOMAIN b.parts : b.parts[m] \in PartType /\ PartAgrees(b.parts[m])
    <3> DEFINE j == k - 1
    <3>1. j \in 0 .. Len(s) /\ MadeOf(b, s, j)
      BY <1>1
    <3> HIDE DEF j
    <3>2. \A m \in DOMAIN b.parts : b.parts[m] \in PartType /\ PartAgrees(b.parts[m])
      BY <3>1, MadeFacts
    <3>. QED  BY <3>1, <3>2, MadeFacts
  <2>. QED  BY <2>1, <2>2
<1>4. c.name = b.name /\ c.front = << >> /\ c.parts = Append(b.parts, p)
  BY <1>3 DEF Extended, Box
<1>5. p \in PartType
  BY <1>1, PartTyped
<1>6. b.name # "covr" => Visited(b) = n
  BY <1>1, MadeIsRead
<1>7. c \in BoxType /\ (c.name # "covr" => Visited(c) = Len(c.parts))
  <2>1. c \in BoxType
    BY <1>2 DEF MadeOf
  <2> HIDE DEF c
  <2>. QED  BY <1>1, <1>2, <2>1, MadeIsRead
<1>8. b.name = t.name
  OBVIOUS
<1> HIDE DEF c, p, t, n
<1>9. /\ Len(c.parts) = n + 1 /\ DOMAIN c.parts = 1 .. n + 1 /\ c.parts[n + 1] = p
      /\ \A m \in 1 .. n : c.parts[m] = b.parts[m]
  <2>1. n \in Nat /\ Len(b.parts) = n
    BY <1>3 DEF n
  <2>2. /\ Append(b.parts, p) \in Seq(PartType) /\ Len(Append(b.parts, p)) = Len(b.parts) + 1
        /\ Append(b.parts, p)[Len(b.parts) + 1] = p
        /\ \A m \in 1 .. Len(b.parts) : Append(b.parts, p)[m] = b.parts[m]
    BY <1>3, <1>5, AppendProperties
  <2>. QED  BY <1>4, <2>1, <2>2
<1>10. CASE t.name = "covr"
  <2>1. \A m \in 1 .. n : ReadImage(b, m) = ImageOf(b.parts[m]) /\ ReadImage(b, m) \in GoodTag
    BY <1>3, ImageRead, ReadImageTyped
  <2>2. \A m \in 1 .. n + 1 : ReadImage(c, m) = ImageOf(c.parts[m])
    BY <1>4, <1>7, <1>9, ImageRead
  <2>3. ImageOf(p) \in GoodTag /\ Back(t) = <<ImageOf(p)>>
    BY <1>1, <1>10, BackTyped DEF p, t
  <2> DEFINE old == [m \in 1 .. n |-> ReadImage(b, m)]
             new == [m \in 1 .. n + 1 |-> ReadImage(c, m)]
  <2>4. ReadBox(b) = old /\ ReadBox(c) = new
    BY <1>3, <1>4, <1>8, <1>9, <1>10 DEF ReadBox, ProcessCovr
  <2>5. old \in Seq(GoodTag) /\ Len(old) = n
    BY <1>3, <2>1
  <2>6. \A m \in 1 .. n + 1 : new[m] = IF m <= n THEN old[m] ELSE ImageOf(p)
    <3>1. TAKE m \in 1 .. n + 1
    <3>2. new[m] = ImageOf(c.parts[m])
      BY <2>2
    <3>3. CASE m <= n
      <4>1. m \in 1 .. n
        BY <1>3, <3>3
      <4>. QED  BY <1>9, <2>1, <3>2, <3>3, <4>1
    <3>4. CASE ~ (m <= n)
      <4>1. m = n + 1
        BY <1>3, <3>4
      <4>. QED  BY <1>9, <3>2, <3>4, <4>1
    <3>. QED  BY <3>3, <3>4
  <2>7. new = [m \in 1 .. n + 1 |-> new[m]]
    OBVIOUS
  <2> DEFINE x == ImageOf(p)
             r == old \o <<x>>
  <2>8. n \in Nat /\ x \in GoodTag
    BY <1>3, <2>3
  <2> HIDE DEF old, new, x
  <2>9. r \in Seq(GoodTag) /\ Len(r) = n + 1 /\ \A m \in 1 .. n + 1 : r[m] = IF m <= n THEN old[m] ELSE x
    <3>1. <<x>> \in Seq(GoodTag) /\ Len(<<x>>) = 1 /\ <<x>>[1] = x
      BY <2>8
    <3>2. /\ r \in Seq(GoodTag) /\ Len(r) = Len(old) + Len(<<x>>)
          /\ \A m \in 1 .. Len(old) + Len(<<x>>) :
               r[m] = IF m <= Len(old) THEN old[m] ELSE <<x>>[m - Len(old)]
      BY <2>5, <3>1, ConcatProperties
    <3>3. \A m \in 1 .. n + 1 : ~ (m <= n) => m - n = 1
      BY <2>8
    <3> HIDE DEF r
    <3>. QED  BY <2>5, <2>8, <3>1, <3>2, <3>3
  <2>10. r = [m \in 1 .. n + 1 |-> r[m]]
    <3> HIDE DEF r
    <3>. QED  BY <2>8, <2>9
  <2>11. new = r
    <3> HIDE DEF r
    <3>1. \A m \in 1 .. n + 1 : new[m] = r[m]
      BY <2>6, <2>9 DEF x
    <3>. QED  BY <2>7, <2>10, <3>1
  <2>. QED  BY <2>3, <2>4, <2>5, <2>11 DEF x, c, t
<1>11. CASE t.name # "covr"
  <2> DEFINE f == [m \in 1 .. n + 1 |-> ReadData(c.name, c.parts[m])]
             g == [m \in 1 .. n |-> ReadData(b.name, b.parts[m])]
             l == n + 1
  <2>0. \A m : NameAt(b, m) = b.name /\ NameAt(c, m) = c.name
    BY <1>1, <1>4, OwnName DEF t
  <2>1. ReadBox(c) = FlattenSeq(f) /\ ReadBox(b) = FlattenSeq(g)
    BY <1>4, <1>6, <1>7, <1>8, <1>9, <1>11, <2>0 DEF ReadBox, ProcessTag
  <2>2. \A m \in 1 .. n : ReadData(b.name, b.parts[m]) \in Seq(GoodTag)
    BY <1>3, ReadDataTyped
  <2>3. ReadData(t.name, p) = Back(t) /\ Back(t) \in Seq(GoodTag)
    BY <1>1, <1>11, BackTyped DEF p, t
  <2>4. l \in Nat /\ l > 0 /\ l - 1 = n /\ n \in Nat
    BY <1>3
  <2>5. f[l] = Back(t)
    BY <1>4, <1>8, <1>9, <2>3, <2>4
  <2>6. Shorter(f, l) = g
    <3>1. \A m \in 1 .. n : m \in 1 .. n + 1
      BY <2>4
    <3>. QED  BY <1>4, <1>9, <2>4, <3>1 DEF Shorter
  <2>7. f \in [1 .. l -> Seq(GoodTag)]
    <3>1. \A m \in 1 .. l : ReadData(c.name, c.parts[m]) \in Seq(GoodTag)
      <4>1. TAKE m \in 1 .. l
      <4>2. CASE m = l
        BY <1>4, <1>8, <1>9, <2>3, <4>2
      <4>3. CASE m # l
        <5>1. m \in 1 .. n
          BY <2>4, <4>3
        <5>. QED  BY <1>4, <1>9, <2>2, <5>1
      <4>. QED  BY <4>2, <4>3
    <3>. QED  BY <3>1
  <2>8. g \in [1 .. n -> Seq(GoodTag)]
    BY <2>2
  <2> HIDE DEF f, g, l
  <2>9. FlattenSeq(f) = FlattenSeq(g) \o f[l] /\ FlattenSeq(g) \in Seq(GoodTag)
    BY <2>4, <2>6, <2>7, <2>8, FlattenStep
  <2>. QED  BY <2>1, <2>5, <2>9 DEF c, t
<1>. QED
  BY <1>10, <1>11

\* The tags of a list of boxes, before they are sorted.
Flat(B) == FlattenSeq([n \in DOMAIN B |-> ReadBox(B[n])])

LEMMA FlatAppended ==
  ASSUME NEW B \in Seq(BoxType), \A n \in DOMAIN B : ReadBox(B[n]) \in Seq(GoodTag),
         NEW b \in BoxType, ReadBox(b) \in Seq(GoodTag)
  PROVE  Flat(Append(B, b)) = Flat(B) \o ReadBox(b)
<1> DEFINE n == Len(B)
           l == n + 1
           C == Append(B, b)
           f == [m \in 1 .. l |-> ReadBox(C[m])]
           g == [m \in 1 .. n |-> ReadBox(B[m])]
<1>1. n \in Nat /\ DOMAIN B = 1 .. n
  OBVIOUS
<1>2. /\ C \in Seq(BoxType) /\ Len(C) = n + 1 /\ C[n + 1] = b
      /\ \A m \in 1 .. n : C[m] = B[m]
  BY AppendProperties
<1> HIDE DEF n, C
<1>3. DOMAIN C = 1 .. l /\ l \in Nat /\ l > 0 /\ l - 1 = n /\ C[l] = b
  BY <1>1, <1>2
<1>4. Flat(C) = FlattenSeq(f) /\ Flat(B) = FlattenSeq(g)
  BY <1>1, <1>3 DEF Flat
<1>5. f \in [1 .. l -> Seq(GoodTag)]
  <2>1. \A m \in 1 .. l : ReadBox(C[m]) \in Seq(GoodTag)
    <3>1. TAKE m \in 1 .. l
    <3>2. CASE m = l
      BY <1>3, <3>2
    <3>3. CASE m # l
      <4>1. m \in 1 .. n
        BY <1>1, <3>3
      <4>. QED  BY <1>1, <1>2, <4>1
    <3>. QED  BY <3>2, <3>3
  <2>. QED  BY <2>1
<1>6. f[l] = ReadBox(b)
  BY <1>3
<1>7. Shorter(f, l) = g
  <2>1. \A m \in 1 .. n : m \in 1 .. l
    BY <1>1
  <2>. QED  BY <1>2, <1>3, <2>1 DEF Shorter
<1> HIDE DEF f, g, l
<1>8. FlattenSeq(f) = FlattenSeq(g) \o f[l]
  BY <1>3, <1>5, <1>7, FlattenStep
<1>. QED
  BY <1>4, <1>6, <1>8 DEF C

LEMMA FlatChanged ==
  ASSUME NEW B \in Seq(BoxType), \A n \in DOMAIN B : ReadBox(B[n]) \in Seq(GoodTag),
         B # << >>, NEW c \in BoxType, NEW x \in Seq(GoodTag),
         ReadBox(c) = ReadBox(B[Len(B)]) \o x
  PROVE  Flat([B EXCEPT ![Len(B)] = c]) = Flat(B) \o x
<1> DEFINE l == Len(B)
           C == [B EXCEPT ![l] = c]
           f == [m \in 1 .. l |-> ReadBox(C[m])]
           g == [m \in 1 .. l |-> ReadBox(B[m])]
<1>1. l \in Nat /\ l > 0 /\ DOMAIN B = 1 .. l
  BY EmptySeq
<1> HIDE DEF l
<1>2. DOMAIN C = 1 .. l /\ C[l] = c /\ l \in 1 .. l /\ \A m \in 1 .. l : m # l => C[m] = B[m]
  BY <1>1
<1> HIDE DEF C
<1>3. Flat(C) = FlattenSeq(f) /\ Flat(B) = FlattenSeq(g)
  BY <1>1, <1>2 DEF Flat
<1>4. g \in [1 .. l -> Seq(GoodTag)] /\ g[l] = ReadBox(B[l]) /\ g[l] \in Seq(GoodTag)
  BY <1>1, <1>2
<1>5. f[l] = g[l] \o x
  BY <1>2 DEF l
<1>6. f[l] \in Seq(GoodTag)
  <2> HIDE DEF f, g
  <2>. QED  BY <1>4, <1>5, ConcatProperties
<1>7. f \in [1 .. l -> Seq(GoodTag)]
  <2>1. \A m \in 1 .. l : ReadBox(C[m]) \in Seq(GoodTag)
    <3>1. TAKE m \in 1 .. l
    <3>2. CASE m = l
      BY <1>6, <3>2
    <3>3. CASE m # l
      BY <1>1, <1>2, <3>3
    <3>. QED  BY <3>2, <3>3
  <2>. QED  BY <2>1
<1>8. Shorter(f, l) = Shorter(g, l)
  <2>1. \A m \in 1 .. l - 1 : m \in 1 .. l /\ m # l
    BY <1>1
  <2>2. \A m \in 1 .. l - 1 : f[m] = g[m]
    BY <1>2, <2>1
  <2> HIDE DEF f, g
  <2>. QED  BY <2>2 DEF Shorter
<1> DEFINE h == Shorter(g, l)
           n == l - 1
<1>9. n \in Nat /\ h \in [1 .. n -> Seq(GoodTag)]
  <2>1. n \in Nat /\ \A m \in 1 .. n : m \in 1 .. l
    BY <1>1
  <2>2. h = [m \in 1 .. n |-> g[m]]
    BY DEF Shorter
  <2> HIDE DEF g, h
  <2>. QED  BY <1>4, <2>1, <2>2
<1> HIDE DEF f, g, h, n
<1>10. FlattenSeq(f) = FlattenSeq(h) \o f[l] /\ FlattenSeq(g) = FlattenSeq(h) \o g[l]
  BY <1>1, <1>4, <1>7, <1>8, FlattenStep DEF h
<1>11. FlattenSeq(h) \in Seq(GoodTag)
  BY <1>9, FlattenStep
<1>12. FlattenSeq(h) \o (g[l] \o x) = (FlattenSeq(h) \o g[l]) \o x
  <2> DEFINE T == GoodTag
             a == FlattenSeq(h)
             b == g[l]
  <2>1. a \in Seq(T) /\ b \in Seq(T) /\ x \in Seq(T)
    BY <1>4, <1>11
  <2> HIDE DEF T, a, b
  <2>2. (a \o b) \o x = a \o (b \o x)
    BY <2>1, ConcatAssociative, SMTT(30)
  <2>. QED  BY <2>2 DEF a, b
<1>. QED
  BY <1>3, <1>5, <1>10, <1>12 DEF C, l

\* A tag that is written adds to what is read what it comes back as.
LEMMA ReadStep ==
  ASSUME CodecAssumption, NEW s \in Seq(GoodTag), AllSettling(s), NEW k \in 1 .. Len(s)
  PROVE  /\ Flat(Built(s)[k - 1]) \in Seq(GoodTag)
         /\ Flat(Built(s)[k]) = IF s[k].name \in Unwritten THEN Flat(Built(s)[k - 1])
                                ELSE Flat(Built(s)[k - 1]) \o Back(s[k])
<1> DEFINE j == k - 1
           B == Built(s)[j]
           t == s[k]
<1>1. Len(s) \in Nat /\ k \in Nat /\ j \in 0 .. Len(s) /\ k \in 0 .. Len(s) /\ t \in GoodTag
      /\ Settling(t)
  BY GoodList DEF AllSettling
<1>2. Built(s)[k] = IF t.name \in Unwritten THEN B ELSE BuildAppend(B, t)
  BY GoodList, BuiltStep
<1> HIDE DEF j
<1>3. B \in Seq(BoxType) /\ \A n \in DOMAIN B : MadeOf(B[n], s, j)
  BY <1>1, BuiltMade
<1> HIDE DEF B, t
<1>4. \A n \in DOMAIN B : \A m \in DOMAIN B[n].parts : PartAgrees(B[n].parts[m])
  BY <1>1, <1>3, MadeFacts
<1>5. (\A n \in DOMAIN B : ReadBox(B[n]) \in Seq(GoodTag)) /\ Flat(B) \in Seq(GoodTag)
  BY <1>3, <1>4, ReadTyped DEF Flat
<1>6. ASSUME t.name \notin Unwritten
      PROVE  Flat(BuildAppend(B, t)) = Flat(B) \o Back(t)
  <2>1. Back(t) \in Seq(GoodTag)
    BY <1>1, <1>6, BackTyped
  <2>2. CASE Again(B, t)
    <3> DEFINE b == B[Len(B)]
               c == Extended(b, t)
    <3>1. B # << >> /\ b.name = t.name
      BY <2>2 DEF Again
    <3>2. Len(B) \in DOMAIN B
      BY <1>3, <3>1, EmptySeq
    <3>3. MadeOf(b, s, k - 1)
      BY <1>3, <3>2 DEF j
    <3>4. b \in BoxType
      BY <1>3, <3>2
    <3>5. c \in BoxType
      <4>1. t \in TagType
        BY <1>1 DEF GoodTag
      <4>. QED  BY <3>4, <4>1, BoxesTyped
    <3>6. ReadBox(c) = ReadBox(b) \o Back(t)
      <4> HIDE DEF b
      <4>. QED  BY <1>6, <3>1, <3>3, ReadExtended DEF t
    <3>7. BuildAppend(B, t) = [B EXCEPT ![Len(B)] = c]
      BY <2>2 DEF BuildAppend
    <3> HIDE DEF c
    <3>. QED  BY <1>3, <1>5, <2>1, <3>1, <3>5, <3>6, <3>7, FlatChanged
  <2>3. CASE ~ Again(B, t)
    <3>1. BuildAppend(B, t) = Append(B, Started(t))
      BY <2>3 DEF BuildAppend
    <3>2. ReadBox(Started(t)) = Back(t)
      BY <1>6, ReadStarted DEF t
    <3>3. Started(t) \in BoxType
      <4>1. t \in TagType
        BY <1>1 DEF GoodTag
      <4>. QED  BY <4>1, BoxesTyped
    <3>. QED  BY <1>3, <1>5, <2>1, <3>1, <3>2, <3>3, FlatAppended
  <2>. QED  BY <2>2, <2>3
<1>. QED
  BY <1>2, <1>5, <1>6 DEF B, j, t

LEMMA ReadNone ==
  ASSUME CodecAssumption, NEW s \in Seq(GoodTag)
  PROVE  Flat(Built(s)[0]) = << >>
<1>1. Built(s)[0] = << >>
  BY GoodList, BuiltStep
<1> DEFINE f == [n \in DOMAIN << >> |-> ReadBox(<< >>[n])]
<1>2. f \in [1 .. 0 -> Seq(GoodTag)] /\ 0 \in Nat
  OBVIOUS
<1>3. Flat(<< >>) = FlattenSeq(f)
  BY DEF Flat
<1> HIDE DEF f
<1>. QED
  BY <1>1, <1>2, <1>3, FlattenStep

-----------------------------------------------------------------------------
(* A list that is written and read.                                        *)

LEMMA KeptSettles ==
  /\ \A t : Kept(t) => Settling(t) /\ t.name \notin Unwritten
  /\ \A s : AllKept(s) => AllSettling(s)
<1>1. \A t : Kept(t) => Settling(t) /\ t.name \notin Unwritten
  BY DEF Kept, Settling
<1>. QED
  BY <1>1 DEF AllKept, AllSettling

LEMMA OneMore ==
  ASSUME NEW T, NEW r \in Seq(T), NEW u \in T
  PROVE  /\ r \o <<u>> \in Seq(T) /\ Len(r) \in Nat /\ Len(r \o <<u>>) = Len(r) + 1
         /\ DOMAIN (r \o <<u>>) = 1 .. Len(r) + 1 /\ DOMAIN r = 1 .. Len(r)
         /\ (r \o <<u>>)[Len(r) + 1] = u
         /\ \A i \in DOMAIN r : (r \o <<u>>)[i] = r[i]
<1>1. Append(r, u) = r \o <<u>>
  BY AppendIsConcat
<1>2. /\ Append(r, u) \in Seq(T) /\ Len(Append(r, u)) = Len(r) + 1
      /\ Append(r, u)[Len(r) + 1] = u
      /\ \A i \in 1 .. Len(r) : Append(r, u)[i] = r[i]
  BY AppendProperties
<1>3. Len(r) \in Nat /\ DOMAIN r = 1 .. Len(r)
  OBVIOUS
<1>4. DOMAIN Append(r, u) = 1 .. Len(r) + 1
  BY <1>2, LenProperties
<1>. QED
  BY <1>1, <1>2, <1>3, <1>4

\* What the first k tags of a list come back as.
CameOf(r, s, k) ==
  /\ r \in Seq(GoodTag) /\ Sorted(r) /\ SoundArrays(r)
  /\ \A i \in DOMAIN r :
       /\ Kept(r[i])
       /\ \E j \in 1 .. k : s[j].name \notin Unwritten /\ r[i].name = s[j].name

LEMMA CameMore ==
  ASSUME CodecAssumption, NEW s \in Seq(GoodTag), Sorted(s), AllSettling(s),
         NEW k \in 1 .. Len(s), s[k].name \notin Unwritten,
         NEW r, CameOf(r, s, k - 1), NEW u, Settled(s[k], u)
  PROVE  CameOf(r \o <<u>>, s, k)
<1> DEFINE t == s[k]
           n == Len(r)
           q == r \o <<u>>
<1>1. /\ Len(s) \in Nat /\ DOMAIN s = 1 .. Len(s) /\ k \in Nat
      /\ \A j \in 1 .. k : j \in DOMAIN s
      /\ \A j \in 1 .. k - 1 : j \in 1 .. k /\ j < k
  BY GoodList
<1>2. u \in GoodTag /\ Kept(u) /\ u.name = t.name
      /\ (t.type \in Images \cup {"STRING"} => u.type \in Images \cup {"STRING"})
  BY DEF Settled
<1>3. /\ r \in Seq(GoodTag) /\ Sorted(r) /\ SoundArrays(r)
      /\ \A i \in DOMAIN r :
           /\ Kept(r[i])
           /\ \E j \in 1 .. k - 1 : s[j].name \notin Unwritten /\ r[i].name = s[j].name
  BY DEF CameOf
<1>4. /\ q \in Seq(GoodTag) /\ n \in Nat /\ DOMAIN q = 1 .. n + 1 /\ DOMAIN r = 1 .. n
      /\ q[n + 1] = u /\ \A i \in 1 .. n : q[i] = r[i]
  <2> DEFINE T == GoodTag
  <2>1. r \in Seq(T) /\ u \in T
    BY <1>2, <1>3
  <2> HIDE DEF T
  <2>2. /\ q \in Seq(T) /\ n \in Nat /\ DOMAIN q = 1 .. n + 1 /\ DOMAIN r = 1 .. n
        /\ q[n + 1] = u /\ \A i \in DOMAIN r : q[i] = r[i]
    BY <2>1, OneMore
  <2>. QED  BY <2>2 DEF T
<1> HIDE DEF q, n
<1>5. ASSUME NEW i \in 1 .. n + 1
      PROVE  i \in 1 .. n \/ i = n + 1
  BY <1>4
<1>6. ASSUME NEW i \in DOMAIN q
      PROVE  /\ Kept(q[i])
             /\ \E j \in 1 .. k : s[j].name \notin Unwritten /\ q[i].name = s[j].name
  <2>1. CASE i \in 1 .. n
    <3>1. q[i] = r[i] /\ i \in DOMAIN r
      BY <1>4, <2>1
    <3>2. PICK j \in 1 .. k - 1 : s[j].name \notin Unwritten /\ r[i].name = s[j].name
      BY <1>3, <3>1
    <3>3. j \in 1 .. k
      BY <1>1
    <3>. QED  BY <1>3, <3>1, <3>2, <3>3
  <2>2. CASE i = n + 1
    <3>1. k \in 1 .. k
      BY <1>1
    <3>. QED  BY <1>2, <1>4, <2>2, <3>1
  <2>. QED  BY <1>4, <1>5, <2>1, <2>2
<1>7. ASSUME NEW i \in DOMAIN r
      PROVE  RankOf(r[i].name) <= RankOf(u.name)
  <2>1. PICK j \in 1 .. k - 1 : r[i].name = s[j].name
    BY <1>3
  <2>2. j \in DOMAIN s /\ k \in DOMAIN s /\ j < k
    BY <1>1
  <2>. QED  BY <1>2, <2>1, <2>2 DEF Sorted
<1>8. ASSUME NEW i \in DOMAIN r, r[i].name = u.name
      PROVE  u.type \in Images \cup {"STRING"}
  <2>1. PICK j \in 1 .. k - 1 : s[j].name \notin Unwritten /\ r[i].name = s[j].name
    BY <1>3
  <2>2. j \in DOMAIN s /\ k \in DOMAIN s /\ j < k /\ s[j].name = s[k].name
    BY <1>1, <1>2, <1>8, <2>1
  <2>3. ArraysOf(s, Images \cup {"STRING"})
    BY DEF AllSettling, SoundArrays
  <2>4. t.type \in Images \cup {"STRING"}
    BY <2>1, <2>2, <2>3 DEF ArraysOf
  <2>. QED  BY <1>2, <2>4
<1>9. ASSUME NEW i \in DOMAIN q, NEW j \in DOMAIN q, i < j
      PROVE  i \in DOMAIN r /\ q[i] = r[i] /\ ((j \in DOMAIN r /\ q[j] = r[j]) \/ q[j] = u)
  BY <1>4, <1>5, <1>9
<1>10. Sorted(q)
  <2>1. ASSUME NEW i \in DOMAIN q, NEW j \in DOMAIN q, i < j
        PROVE  RankOf(q[i].name) <= RankOf(q[j].name)
    <3>1. i \in DOMAIN r /\ q[i] = r[i]
      BY <1>9, <2>1
    <3>2. CASE j \in DOMAIN r /\ q[j] = r[j]
      BY <1>3, <2>1, <3>1, <3>2 DEF Sorted
    <3>3. CASE q[j] = u
      BY <1>7, <3>1, <3>3
    <3>. QED  BY <1>9, <2>1, <3>2, <3>3
  <2>. QED  BY <2>1 DEF Sorted
<1>11. SoundArrays(q)
  <2> DEFINE S == Images \cup {"STRING"}
  <2> HIDE DEF S
  <2>1. ArraysOf(r, S)
    BY <1>3 DEF SoundArrays, S
  <2>2. ASSUME NEW i \in DOMAIN q, NEW j \in DOMAIN q, i < j, q[i].name = q[j].name,
               q[i].name \notin Unwritten
        PROVE  q[j].type \in S
    <3>1. i \in DOMAIN r /\ q[i] = r[i]
      BY <1>9, <2>2
    <3>2. CASE j \in DOMAIN r /\ q[j] = r[j]
      BY <2>1, <2>2, <3>1, <3>2 DEF ArraysOf
    <3>3. CASE q[j] = u
      BY <1>8, <2>2, <3>1, <3>3 DEF S
    <3>. QED  BY <1>9, <2>2, <3>2, <3>3
  <2>3. ArraysOf(q, S)
    BY <2>2 DEF ArraysOf
  <2>. QED  BY <2>3 DEF SoundArrays, S
<1>12. CameOf(q, s, k)
  BY <1>4, <1>6, <1>10, <1>11 DEF CameOf
<1>. QED
  BY <1>12 DEF q

LEMMA Came ==
  ASSUME CodecAssumption, NEW s \in Seq(GoodTag), Sorted(s), AllSettling(s)
  PROVE  CameOf(Flat(BuildData(s)), s, Len(s))
<1> DEFINE R(k) == Flat(Built(s)[k])
           P    == {k \in Nat : k <= Len(s) => CameOf(R(k), s, k)}
<1>1. Len(s) \in Nat
  BY GoodList
<1>2. R(0) = << >>
  BY ReadNone
<1>3. \A k \in 1 .. Len(s) :
        R(k) = IF s[k].name \in Unwritten THEN R(k - 1) ELSE R(k - 1) \o Back(s[k])
  BY ReadStep
<1>4. BuildData(s) = Built(s)[Len(s)]
  BY DEF BuildData
<1> HIDE DEF R
<1>5. 0 \in P
  <2>1. << >> \in Seq(GoodTag) /\ DOMAIN << >> = {}
    OBVIOUS
  <2>2. CameOf(<< >>, s, 0)
    BY <2>1 DEF CameOf, Sorted, SoundArrays, ArraysOf
  <2>. QED  BY <1>2, <2>2
<1>6. ASSUME NEW j \in Nat, j < Len(s), j \in P
      PROVE  j + 1 \in P
  <2> DEFINE k == j + 1
             t == s[k]
  <2>1. /\ k \in Nat /\ k \in 1 .. Len(s) /\ k - 1 = j /\ k \in DOMAIN s
        /\ \A i \in 1 .. j : i \in 1 .. k
    BY <1>1, <1>6, GoodList
  <2>2. CameOf(R(j), s, j)
    BY <1>6
  <2> HIDE DEF k
  <2>3. t \in GoodTag /\ Settling(t)
    BY <2>1, GoodList DEF AllSettling
  <2>4. CameOf(R(j), s, k)
    BY <2>1, <2>2 DEF CameOf
  <2>5. R(k) = IF t.name \in Unwritten THEN R(j) ELSE R(j) \o Back(t)
    BY <1>3, <2>1
  <2>6. CASE t.name \in Unwritten
    BY <2>4, <2>5, <2>6 DEF k
  <2>7. CASE t.name \notin Unwritten /\ Back(t) = << >>
    <3>1. R(j) \in Seq(GoodTag)
      BY <2>2 DEF CameOf
    <3>2. R(j) \o << >> = R(j)
      BY <3>1, ConcatEmptySeq
    <3>. QED  BY <2>4, <2>5, <2>7, <3>2 DEF k
  <2>8. CASE t.name \notin Unwritten /\ \E u : Back(t) = <<u>> /\ Settled(t, u)
    <3>1. PICK u : Back(t) = <<u>> /\ Settled(t, u)
      BY <2>8
    <3>2. CameOf(R(j), s, k - 1)
      BY <2>1, <2>2
    <3> DEFINE r == R(j)
    <3>3. CameOf(r, s, k - 1) /\ s[k].name \notin Unwritten /\ Settled(s[k], u)
      BY <2>8, <3>1, <3>2
    <3> HIDE DEF r, t
    <3>4. CameOf(r \o <<u>>, s, k)
      BY <2>1, <3>3, CameMore
    <3>5. R(k) = r \o <<u>>
      BY <2>5, <2>8, <3>1 DEF r
    <3>6. CameOf(R(k), s, k)
      BY <3>4, <3>5
    <3>. QED  BY <3>6 DEF k
  <2>. QED  BY <2>3, <2>6, <2>7, <2>8, ComesBack
<1>7. \A k \in 0 .. Len(s) : k \in P
  <2> HIDE DEF P
  <2>. QED  BY <1>1, <1>5, <1>6, BoundedInduction
<1>8. CameOf(R(Len(s)), s, Len(s))
  <2>1. Len(s) \in P
    BY <1>1, <1>7
  <2>. QED  BY <1>1, <2>1
<1>. QED
  BY <1>4, <1>8 DEF R

\* What is read is in order: it stays as it is when the list is sorted.
LEMMA ReadInOrder ==
  ASSUME CodecAssumption, NEW s \in Seq(GoodTag), Sorted(s), AllSettling(s)
  PROVE  /\ ReadList(BuildData(s)) = Flat(BuildData(s))
         /\ CameOf(ReadList(BuildData(s)), s, Len(s))
<1> DEFINE r == Flat(BuildData(s))
<1>1. CameOf(r, s, Len(s))
  BY Came
<1>2. ReadList(BuildData(s)) = ByName(r)
  BY DEF ReadList, Flat
<1> HIDE DEF r
<1>3. r \in Seq(TagType) /\ Sorted(r)
  BY <1>1, GoodList DEF CameOf
<1>4. ByName(r) = r
  BY <1>3, SortedStays
<1>. QED
  BY <1>1, <1>2, <1>4 DEF r

\* Tags that are kept are read as they were in the list.
LEMMA ReadAsWritten ==
  ASSUME CodecAssumption, NEW s \in Seq(GoodTag), Sorted(s), AllKept(s)
  PROVE  Views(ReadList(BuildData(s))) = Views(s)
<1> DEFINE R(k) == Flat(Built(s)[k])
           Same(r, k) == /\ r \in Seq(GoodTag) /\ Len(r) = k
                         /\ \A i \in 1 .. k : View(r[i]) = View(s[i])
           P == {k \in Nat : k <= Len(s) => Same(R(k), k)}
<1>1. Len(s) \in Nat /\ AllSettling(s)
  BY GoodList, KeptSettles
<1>2. R(0) = << >>
  BY ReadNone
<1>3. \A k \in 1 .. Len(s) :
        R(k) = IF s[k].name \in Unwritten THEN R(k - 1) ELSE R(k - 1) \o Back(s[k])
  BY <1>1, ReadStep
<1>4. BuildData(s) = Built(s)[Len(s)]
  BY DEF BuildData
<1> HIDE DEF R
<1>5. 0 \in P
  <2>1. << >> \in Seq(GoodTag) /\ Len(<< >>) = 0
    OBVIOUS
  <2>2. R(0) \in Seq(GoodTag) /\ Len(R(0)) = 0
    BY <1>2, <2>1
  <2>3. Same(R(0), 0)
    BY <2>2
  <2> HIDE DEF Same
  <2>. QED  BY <2>3
<1>6. ASSUME NEW j \in Nat, j < Len(s), j \in P
      PROVE  j + 1 \in P
  <2> DEFINE k == j + 1
             t == s[k]
             r == R(j)
  <2>1. k \in Nat /\ k \in 1 .. Len(s) /\ k - 1 = j /\ k \in DOMAIN s
    BY <1>1, <1>6, GoodList
  <2>2. Same(r, j)
    BY <1>6
  <2> HIDE DEF k
  <2>3. t \in GoodTag /\ Kept(t) /\ Settling(t) /\ t.name \notin Unwritten
    BY <2>1, GoodList, KeptSettles DEF AllKept
  <2>4. R(k) = r \o Back(t)
    BY <1>3, <2>1, <2>3
  <2>5. PICK u : Back(t) = <<u>> /\ Settled(t, u)
    BY <2>3, ComesBack
  <2>6. u \in GoodTag /\ View(u) = View(t)
    BY <2>3, <2>5 DEF Settled
  <2> DEFINE q == r \o <<u>>
  <2>7. R(k) = q
    BY <2>4, <2>5
  <2>8. r \in Seq(GoodTag) /\ Len(r) = j
    BY <2>2
  <2> HIDE DEF r
  <2>9. /\ q \in Seq(GoodTag) /\ Len(q) = k /\ q[k] = u
        /\ \A i \in 1 .. j : q[i] = r[i]
    <3> DEFINE T == GoodTag
    <3>1. r \in Seq(T) /\ u \in T
      BY <2>6, <2>8
    <3> HIDE DEF T
    <3>2. /\ q \in Seq(T) /\ Len(q) = Len(r) + 1 /\ DOMAIN r = 1 .. Len(r)
          /\ q[Len(r) + 1] = u /\ \A i \in DOMAIN r : q[i] = r[i]
      BY <3>1, OneMore
    <3>. QED  BY <2>8, <3>2 DEF T, k
  <2> HIDE DEF q
  <2>10. ASSUME NEW i \in 1 .. k
         PROVE  View(q[i]) = View(s[i])
    <3>1. CASE i = k
      BY <2>6, <2>9, <3>1
    <3>2. CASE i # k
      <4>1. i \in 1 .. j
        BY <2>1, <3>2 DEF k
      <4>. QED  BY <2>2, <2>9, <4>1
    <3>. QED  BY <3>1, <3>2
  <2>11. Same(R(k), k)
    BY <2>7, <2>9, <2>10
  <2>. QED  BY <2>11 DEF k
<1>7. \A k \in 0 .. Len(s) : k \in P
  <2> HIDE DEF P
  <2>. QED  BY <1>1, <1>5, <1>6, BoundedInduction
<1> DEFINE r == ReadList(BuildData(s))
<1>8. Same(r, Len(s))
  <2>1. Len(s) \in P
    BY <1>1, <1>7
  <2>2. Same(R(Len(s)), Len(s))
    BY <1>1, <2>1
  <2>3. r = R(Len(s))
    BY <1>1, <1>4, ReadInOrder DEF R
  <2> HIDE DEF r
  <2>. QED  BY <2>2, <2>3
<1> HIDE DEF r
<1>9. DOMAIN r = DOMAIN s /\ \A i \in DOMAIN s : View(r[i]) = View(s[i])
  BY <1>8, GoodList
<1>. QED
  BY <1>9 DEF Views, r

\* Every tag of a known kind is read as it was in the list: same text, number, pair,
\* data, type and cover name, in the same order, for lists and arrays of any length
\* (mp4tag_build_data and mp4tag_build_append against mp4tag_process_tag and
\* mp4tag_process_covr).
THEOREM NothingLost == Spec => []RoundTrip
<1>1. TypeInv => RoundTrip
  BY CodecAssumption, ReadAsWritten DEF TypeInv, RoundTrip
<1>. QED
  BY <1>1, TypeInvariant, PTL

\* What the numbers, pairs and images of a list lose, they lose when they are written
\* for the first time: what is read then is written and read without loss.
THEOREM LostAtOnce == Spec => []SettlesAtOnce
<1>1. ASSUME TypeInv, written, AllSettling(tags)
      PROVE  /\ AllKept(ReadList(disk))
             /\ Views(ReadList(BuildData(ReadList(disk)))) = Views(ReadList(disk))
  <2> DEFINE r == ReadList(disk)
  <2>1. CodecAssumption /\ disk = BuildData(tags) /\ tags \in Seq(GoodTag) /\ Sorted(tags)
    BY <1>1, CodecAssumption DEF TypeInv
  <2>2. CameOf(r, tags, Len(tags))
    BY <1>1, <2>1, ReadInOrder
  <2> HIDE DEF r
  <2>3. r \in Seq(GoodTag) /\ Sorted(r) /\ AllKept(r)
    BY <2>2 DEF CameOf, AllKept
  <2>4. Views(ReadList(BuildData(r))) = Views(r)
    BY <2>1, <2>3, ReadAsWritten
  <2>. QED  BY <2>3, <2>4 DEF r
<1>2. TypeInv => SettlesAtOnce
  BY <1>1 DEF SettlesAtOnce
<1>. QED
  BY <1>2, TypeInvariant, PTL
=============================================================================
