--------------------------- MODULE TagListProofs ----------------------------
(***************************************************************************)
(* Proofs about TagList and TagIterator, for all names, arguments, values  *)
(* and files, for lists of every length, for any number of calls and for   *)
(* any changes of the list during an iteration: the invariants, and that   *)
(* TagList implements the bag of tags of TagStore.                         *)
(***************************************************************************)
EXTENDS TagIterator, Induction, FiniteSetTheorems, FunctionTheorems

-----------------------------------------------------------------------------
(* Lists and items.                                                        *)

\* A function on 1 .. n whose values are entries is a list of entries.
LEMMA ListOfTags ==
  ASSUME NEW n \in Nat, NEW t, t = [i \in 1 .. n |-> t[i]],
         \A i \in 1 .. n : t[i] \in Tag
  PROVE  t \in Seq(Tag) /\ Len(t) = n /\ DOMAIN t = 1 .. n
<1>1. t \in [1 .. n -> Tag]
  OBVIOUS
<1> QED BY <1>1

\* An entry stays one with another number, and keeps its name and index.
LEMMA Renumber ==
  ASSUME NEW e \in Tag, NEW n \in Int
  PROVE  LET r == [e EXCEPT !.idx = n]
         IN r \in Tag /\ r.idx = n /\ r.tag = e.tag /\ r.dataidx = e.dataidx
BY DEF Tag

\* Sorting returns a list of entries in order, numbered by their positions.
LEMMA SortsGood ==
  ASSUME NEW s \in Seq(Tag), NEW t \in Sorts(s)
  PROVE  t \in Seq(Tag) /\ InOrder(t) /\ Numbered(t)
<1>1. PICK p \in Orders(s) : t = [i \in DOMAIN s |-> [s[p[i]] EXCEPT !.idx = i - 1]]
  BY DEF Sorts
<1>2. \A i \in DOMAIN s : p[i] \in DOMAIN s
  BY <1>1 DEF Orders
<1> DEFINE q == [i \in DOMAIN s |-> s[p[i]]]
<1>3. InOrder(q)
  BY <1>1 DEF Orders
<1>4. \A i \in DOMAIN s : q[i] \in Tag
  BY <1>2
<1>5. DOMAIN s = 1 .. Len(s) /\ Len(s) \in Nat
  OBVIOUS
<1>6. DOMAIN t = DOMAIN s
  BY <1>1
<1>7. ASSUME NEW i \in DOMAIN s
      PROVE  t[i] \in Tag /\ t[i].idx = i - 1 /\ t[i].tag = q[i].tag
             /\ t[i].dataidx = q[i].dataidx
  <2>1. t[i] = [q[i] EXCEPT !.idx = i - 1]
    BY <1>1
  <2>2. i - 1 \in Int
    BY <1>5
  <2> HIDE DEF q
  <2> QED BY <2>1, <2>2, <1>4, Renumber
<1>8. t = [i \in 1 .. Len(s) |-> t[i]]
  BY <1>1, <1>5
<1>9. t \in Seq(Tag)
  BY <1>5, <1>7, <1>8, ListOfTags
<1>10. InOrder(t)
  <2>1. DOMAIN q = DOMAIN s
    OBVIOUS
  <2> HIDE DEF q
  <2> QED BY <1>3, <1>6, <1>7, <2>1 DEF InOrder, Before
<1>11. Numbered(t)
  BY <1>6, <1>7 DEF Numbered
<1> QED BY <1>9, <1>10, <1>11

\* Sets of positions are finite, and their sizes are natural numbers.
LEMMA Positions ==
  ASSUME NEW n \in Int, NEW S, \A x \in S : x \in 1 .. n
  PROVE  IsFiniteSet(S) /\ Cardinality(S) \in Nat
<1>1. IsFiniteSet(1 .. n)
  BY FS_Interval
<1>2. IsFiniteSet(S)
  <2>1. S \in SUBSET (1 .. n)
    OBVIOUS
  <2> QED BY <1>1, <2>1, FS_Subset
<1> QED BY <1>2, FS_CardinalityType

\* The size of an interval from 1.
LEMMA IntervalSize ==
  ASSUME NEW n \in Nat
  PROVE  IsFiniteSet(1 .. n) /\ Cardinality(1 .. n) = n
<1>1. IsFiniteSet(1 .. n) /\ Cardinality(1 .. n) = IF 1 > n THEN 0 ELSE n - 1 + 1
  BY FS_Interval
<1> QED BY <1>1

\* Its size without one of its members.
LEMMA IntervalWithout ==
  ASSUME NEW c \in Nat, NEW n \in 1 .. c
  PROVE  IsFiniteSet((1 .. c) \ {n}) /\ Cardinality((1 .. c) \ {n}) = c - 1
<1> DEFINE S == 1 .. c
<1>1. IsFiniteSet(S) /\ Cardinality(S) = c /\ n \in S
  BY IntervalSize
<1> HIDE DEF S
<1>2. IsFiniteSet(S \ {n}) /\ Cardinality(S \ {n}) = c - 1
  BY <1>1, FS_RemoveElement
<1> QED BY <1>2 DEF S

\* Reading a file gives a list of entries, and the number of its covers.
LEMMA ReadGood ==
  ASSUME TagAssumption, NEW items \in Seq(Item)
  PROVE  Read(items) \in Seq(Tag) /\ ReadCount(items) \in Nat
<1>1. DOMAIN items = 1 .. Len(items) /\ Len(items) \in Nat
  OBVIOUS
<1>2. ReadCount(items) \in Nat
  <2> DEFINE C == {k \in DOMAIN items : Kind[items[k].name] = "cover"}
  <2>1. \A k \in C : k \in 1 .. Len(items)
    BY <1>1
  <2>2. Len(items) \in Int
    BY <1>1
  <2>3. Cardinality(C) \in Nat
    <3> HIDE DEF C
    <3> QED BY <2>1, <2>2, Positions
  <2> QED BY <2>3 DEF ReadCount
<1>3. ASSUME NEW k \in DOMAIN items
      PROVE  ReadIndex(items, k) \in Int
  <2>0. k - 1 \in Int
    BY <1>1
  <2>1. ASSUME NEW S, \A x \in S : x \in 1 .. k - 1
        PROVE  Cardinality(S) \in Int
    <3> DEFINE m == k - 1
    <3>1. m \in Int /\ \A x \in S : x \in 1 .. m
      BY <2>0, <2>1
    <3> HIDE DEF m
    <3>2. Cardinality(S) \in Nat
      BY <3>1, Positions
    <3> QED BY <3>2
  <2>3. Cardinality({j \in 1 .. k - 1 : Kind[items[j].name] = "cover"}) \in Int
    BY <2>1
  <2>4. Cardinality({j \in 1 .. k - 1 :
                       \A i \in j .. k - 1 : items[i].name = items[k].name}) \in Int
    BY <2>1
  <2> QED BY <2>3, <2>4 DEF ReadIndex
<1>4. ASSUME NEW k \in DOMAIN items
      PROVE  Read(items)[k] \in Tag
  <2>1. items[k] \in Item
    OBVIOUS
  <2>2. Read(items)[k] = Entry(items[k].name, ReadIndex(items, k), items[k].data,
                               items[k].type, items[k].covername)
    BY DEF Read
  <2> QED BY <1>3, <2>1, <2>2 DEF Entry, Item, Tag
<1>5. Read(items) = [k \in 1 .. Len(items) |-> Read(items)[k]]
  BY <1>1 DEF Read
<1>6. Read(items) \in Seq(Tag)
  BY <1>1, <1>4, <1>5, ListOfTags
<1> QED BY <1>2, <1>6

-----------------------------------------------------------------------------
(* Writing: every writable entry is written once.                          *)

\* The writable entries are finitely many positions, in a strict order.
LEMMA WriteOrder ==
  ASSUME TagAssumption, NEW s \in Seq(Tag)
  PROVE  /\ IsFiniteSet(Writable(s))
         /\ Writable(s) \subseteq DOMAIN s
         /\ \A i, j \in Writable(s) : i # j => WriteBefore(s, i, j) \/ WriteBefore(s, j, i)
         /\ \A i \in Writable(s) : ~ WriteBefore(s, i, i)
         /\ \A i, j, k \in Writable(s) :
              WriteBefore(s, i, j) /\ WriteBefore(s, j, k) => WriteBefore(s, i, k)
<1>1. DOMAIN s = 1 .. Len(s) /\ Len(s) \in Nat
  OBVIOUS
<1>2. Writable(s) \subseteq DOMAIN s
  BY DEF Writable
<1>3. IsFiniteSet(Writable(s))
  <2>1. \A x \in Writable(s) : x \in 1 .. Len(s)
    BY <1>1, <1>2
  <2>2. Len(s) \in Int
    BY <1>1
  <2> QED BY <2>1, <2>2, Positions
<1>4. \A i \in Writable(s) : i \in Int /\ Priority[s[i].tag] \in Int
  <2>1. \A i \in DOMAIN s : s[i] \in Tag
    OBVIOUS
  <2>2. \A e \in Tag : e.tag \in Names
    BY DEF Tag
  <2>3. \A n \in Names : Priority[n] \in Int
    BY DEF TagAssumption
  <2>4. \A i \in Writable(s) : i \in Int /\ s[i] \in Tag
    BY <1>1, <1>2, <2>1
  <2> QED BY <2>2, <2>3, <2>4
<1>5. \A i, j \in Writable(s) : i # j => WriteBefore(s, i, j) \/ WriteBefore(s, j, i)
  BY <1>4 DEF WriteBefore
<1>6. \A i \in Writable(s) : ~ WriteBefore(s, i, i)
  BY <1>4 DEF WriteBefore
<1>7. \A i, j, k \in Writable(s) :
        WriteBefore(s, i, j) /\ WriteBefore(s, j, k) => WriteBefore(s, i, k)
  BY <1>4 DEF WriteBefore
<1> QED BY <1>2, <1>3, <1>5, <1>6, <1>7

\* The ranks are positions of the written items, and different entries have
\* different ranks.
LEMMA RanksDiffer ==
  ASSUME TagAssumption, NEW s \in Seq(Tag)
  PROVE  /\ \A i \in Writable(s) : WriteRank(s, i) \in 1 .. Cardinality(Writable(s))
         /\ \A i, j \in Writable(s) :
              WriteBefore(s, i, j) => WriteRank(s, i) < WriteRank(s, j)
<1> DEFINE W == Writable(s)
           below(i) == {k \in W : WriteBefore(s, k, i)}
<1>1. IsFiniteSet(W) /\ Cardinality(W) \in Nat
  BY WriteOrder, FS_CardinalityType
<1>2. \A T \in SUBSET W : IsFiniteSet(T) /\ Cardinality(T) \in Nat
  BY <1>1, FS_Subset, FS_CardinalityType
<1>3. \A i \in W : WriteRank(s, i) = Cardinality(below(i)) + 1
  BY DEF WriteRank
<1>4. ASSUME NEW i \in W
      PROVE  WriteRank(s, i) \in 1 .. Cardinality(W)
  <2>1. below(i) \in SUBSET W /\ below(i) # W
    BY WriteOrder
  <2>2. Cardinality(below(i)) <= Cardinality(W) /\ Cardinality(below(i)) # Cardinality(W)
    BY <1>1, <2>1, FS_Subset
  <2> HIDE DEF W, below
  <2> QED BY <1>1, <1>2, <1>3, <2>1, <2>2
<1>5. ASSUME NEW i \in W, NEW j \in W, WriteBefore(s, i, j)
      PROVE  WriteRank(s, i) < WriteRank(s, j)
  <2>1. below(i) \in SUBSET below(j)
    BY <1>5, WriteOrder
  <2>2. i \in below(j) /\ i \notin below(i)
    BY <1>5, WriteOrder
  <2>3. below(i) \in SUBSET W /\ below(j) \in SUBSET W
    OBVIOUS
  <2>4. IsFiniteSet(below(j))
    BY <1>2, <2>3
  <2>5. Cardinality(below(i)) <= Cardinality(below(j))
        /\ Cardinality(below(i)) # Cardinality(below(j))
    BY <2>1, <2>2, <2>4, FS_Subset
  <2> HIDE DEF W, below
  <2> QED BY <1>2, <1>3, <2>3, <2>5
<1> QED BY <1>4, <1>5

\* Each of the written items comes from exactly one writable entry.
LEMMA NthWritten ==
  ASSUME TagAssumption, NEW s \in Seq(Tag), NEW n \in 1 .. Cardinality(Writable(s))
  PROVE  Nth(s, n) \in Writable(s) /\ WriteRank(s, Nth(s, n)) = n
<1> DEFINE W == Writable(s)
           c == Cardinality(W)
           rank == [i \in W |-> WriteRank(s, i)]
<1>1. IsFiniteSet(W) /\ c \in Nat
  BY WriteOrder, FS_CardinalityType
<1>2. \E i \in W : WriteRank(s, i) = n
  <2>1. SUFFICES ASSUME \A i \in W : WriteRank(s, i) # n
                 PROVE  FALSE
    OBVIOUS
  <2>2. rank \in [W -> (1 .. c) \ {n}]
    BY <2>1, RanksDiffer
  <2>4. IsFiniteSet((1 .. c) \ {n}) /\ Cardinality((1 .. c) \ {n}) = c - 1
    <3>1. n \in 1 .. c
      OBVIOUS
    <3> HIDE DEF c
    <3> QED BY <1>1, <3>1, IntervalWithout
  <2>5. Cardinality((1 .. c) \ {n}) < c
    BY <1>1, <2>4
  <2>6. \E x, y \in W : x # y /\ rank[x] = rank[y]
    <3> HIDE DEF W, rank
    <3> QED BY <1>1, <2>2, <2>4, <2>5, FS_PigeonHole
  <2>7. PICK x \in W, y \in W : x # y /\ WriteRank(s, x) = WriteRank(s, y)
    BY <2>6
  <2>8. WriteRank(s, x) < WriteRank(s, y) \/ WriteRank(s, y) < WriteRank(s, x)
    BY <2>7, WriteOrder, RanksDiffer
  <2>9. WriteRank(s, x) \in Int /\ WriteRank(s, y) \in Int
    BY RanksDiffer
  <2> QED BY <2>7, <2>8, <2>9
<1> QED BY <1>2 DEF Nth

\* What is written is a list of items.
LEMMA BuildGood ==
  ASSUME TagAssumption, NEW s \in Seq(Tag)
  PROVE  Build(s) \in Seq(Item) /\ BuiltCount(Build(s)) \in Nat
<1> DEFINE c == Cardinality(Writable(s))
           items == Build(s)
<1>1. c \in Nat
  BY WriteOrder, FS_CardinalityType
<1>2. ASSUME NEW n \in 1 .. c
      PROVE  ItemOf(s[Nth(s, n)]) \in Item
  <2>1. Nth(s, n) \in DOMAIN s
    BY NthWritten, WriteOrder
  <2>2. s[Nth(s, n)] \in Tag
    BY <2>1
  <2> DEFINE e == s[Nth(s, n)]
  <2> HIDE DEF e
  <2>3. /\ e.tag \in Names /\ e.data \in Values /\ e.type \in Types
        /\ e.covername \in Values \cup {NoName}
        /\ e.type = "image" => Kind[e.tag] = "cover"
    BY <2>2 DEF e, Tag
  <2>4. ItemOf(e) \in Item
    <3>1. CASE Kind[e.tag] = "cover"
      BY <2>3, <3>1 DEF ItemOf, Item, Types
    <3>2. CASE Kind[e.tag] # "cover"
      BY <2>3, <3>2 DEF ItemOf, Item
    <3> QED BY <3>1, <3>2
  <2> QED BY <2>4 DEF e
<1>3. items = [n \in 1 .. c |-> ItemOf(s[Nth(s, n)])]
  BY DEF Build
<1>4. items \in Seq(Item) /\ Len(items) = c /\ DOMAIN items = 1 .. c
  <2> HIDE DEF c, items
  <2> QED BY <1>1, <1>2, <1>3
<1>5. BuiltCount(items) \in Nat
  <2> DEFINE C == {n \in DOMAIN items : items[n].name = items[Len(items)].name}
  <2>1. \A n \in C : n \in 1 .. c
    BY <1>4
  <2>2. Cardinality(C) \in Nat
    <3> HIDE DEF C, c
    <3>1. c \in Int
      BY <1>1
    <3> QED BY <2>1, <3>1, Positions
  <2> HIDE DEF items
  <2> QED BY <2>2 DEF BuiltCount
<1> QED BY <1>4, <1>5

\* Nothing is lost and nothing is written twice: the items and the writable
\* entries correspond one to one, and in the order of the array wherever the
\* priorities are the same.
THEOREM WritesEachOnce ==
  ASSUME TagAssumption, NEW s \in Seq(Tag)
  PROVE  /\ \A n \in DOMAIN Build(s) : /\ Nth(s, n) \in Writable(s)
                                       /\ Build(s)[n] = ItemOf(s[Nth(s, n)])
         /\ \A i \in Writable(s) : /\ WriteRank(s, i) \in DOMAIN Build(s)
                                   /\ Nth(s, WriteRank(s, i)) = i
         /\ \A i, j \in Writable(s) :
              s[i].tag = s[j].tag /\ i < j => WriteRank(s, i) < WriteRank(s, j)
<1> DEFINE c == Cardinality(Writable(s))
<1>1. Build(s) = [n \in 1 .. c |-> ItemOf(s[Nth(s, n)])]
  BY DEF Build
<1>2. DOMAIN Build(s) = 1 .. c
  BY <1>1
<1>3. \A n \in DOMAIN Build(s) : /\ Nth(s, n) \in Writable(s)
                                /\ Build(s)[n] = ItemOf(s[Nth(s, n)])
  BY <1>1, <1>2, NthWritten
<1>4. ASSUME NEW i \in Writable(s)
      PROVE  WriteRank(s, i) \in 1 .. c /\ Nth(s, WriteRank(s, i)) = i
  <2>1. WriteRank(s, i) \in 1 .. c
    BY RanksDiffer
  <2> DEFINE k == Nth(s, WriteRank(s, i))
  <2>2. k \in Writable(s) /\ WriteRank(s, k) = WriteRank(s, i)
    BY <2>1, NthWritten
  <2>3. k # i => WriteRank(s, k) < WriteRank(s, i) \/ WriteRank(s, i) < WriteRank(s, k)
    <3> HIDE DEF k
    <3> QED BY <2>2, WriteOrder, RanksDiffer
  <2>4. WriteRank(s, i) \in Int
    BY <2>1
  <2> HIDE DEF k
  <2>5. k = i
    BY <2>2, <2>3, <2>4
  <2> QED BY <2>1, <2>5 DEF k
<1>5. ASSUME NEW i \in Writable(s), NEW j \in Writable(s), s[i].tag = s[j].tag, i < j
      PROVE  WriteRank(s, i) < WriteRank(s, j)
  <2>1. WriteBefore(s, i, j)
    BY <1>5 DEF WriteBefore
  <2> QED BY <2>1, RanksDiffer
<1> QED BY <1>2, <1>3, <1>4, <1>5

-----------------------------------------------------------------------------
(* What the calls do to the list.                                          *)

\* A list of entries in order, numbered by their positions.
Good(s) == s \in Seq(Tag) /\ InOrder(s) /\ Numbered(s)

\* The empty list is one.
LEMMA EmptyGood == Good(<< >>)
BY DEF Good, InOrder, Numbered

\* In such a list mp4tag_find_tag returns the position of an entry of the name
\* and index that are looked for, or finds none.
LEMMA FindGood ==
  ASSUME NEW s, Good(s), NEW a \in Arg, NEW idx \in Find(s, a)
  PROVE  /\ idx \in Int
         /\ idx # NotFound => /\ idx \in 0 .. Len(s) - 1
                              /\ At(idx) \in DOMAIN s
                              /\ s[At(idx)] \in Tag
                              /\ s[At(idx)].tag = a.name
<1>1. DOMAIN s = 1 .. Len(s) /\ Len(s) \in Nat /\ \A i \in DOMAIN s : s[i] \in Tag
  BY DEF Good
<1>2. CASE idx = NotFound
  BY <1>2 DEF NotFound
<1>3. CASE idx # NotFound
  <2>1. PICK i \in DOMAIN s : s[i].tag = a.name /\ idx = s[i].idx
    BY <1>3 DEF Find
  <2>2. idx = i - 1
    BY <2>1 DEF Good, Numbered
  <2>3. i \in Int /\ At(idx) = i
    BY <1>1, <2>2 DEF At
  <2> QED BY <1>1, <2>1, <2>2, <2>3
<1> QED BY <1>2, <1>3

\* Changing the content of an entry keeps a list good.
LEMMA ReplaceGood ==
  ASSUME NEW s, Good(s), NEW k \in DOMAIN s, NEW e \in Tag,
         e.tag = s[k].tag, e.dataidx = s[k].dataidx, e.idx = s[k].idx
  PROVE  Good([s EXCEPT ![k] = e])
<1> DEFINE t == [s EXCEPT ![k] = e]
<1>1. s \in Seq(Tag) /\ t \in Seq(Tag) /\ DOMAIN t = DOMAIN s
  BY DEF Good
<1>2. \A i \in DOMAIN s : t[i].tag = s[i].tag /\ t[i].dataidx = s[i].dataidx
                         /\ t[i].idx = s[i].idx
  BY <1>1
<1> HIDE DEF t
<1>3. InOrder(t)
  BY <1>1, <1>2 DEF Good, InOrder, Before
<1>4. Numbered(t)
  BY <1>1, <1>2 DEF Good, Numbered
<1> QED BY <1>1, <1>3, <1>4 DEF Good, t

\* Removing an entry keeps a list good.
LEMMA DelGood ==
  ASSUME NEW s, Good(s), NEW idx \in 0 .. Len(s) - 1
  PROVE  Good(Without(s, idx))
<1> DEFINE from(i) == IF i <= idx THEN i ELSE i + 1
           t == Without(s, idx)
<1>1. s \in Seq(Tag) /\ Len(s) \in Nat /\ DOMAIN s = 1 .. Len(s) /\ idx \in Int
  BY DEF Good
<1>4. \A i \in 1 .. Len(s) - 1 : from(i) \in DOMAIN s /\ from(i) \in Int /\ s[from(i)] \in Tag
  BY <1>1
<1>5. \A i, j \in 1 .. Len(s) - 1 : i < j => from(i) < from(j)
  BY <1>1
<1>6. t = [i \in 1 .. Len(s) - 1 |-> [s[from(i)] EXCEPT !.idx = i - 1]]
  BY DEF Without
<1>7. ASSUME NEW i \in 1 .. Len(s) - 1
      PROVE  t[i] \in Tag /\ t[i].idx = i - 1 /\ t[i].tag = s[from(i)].tag
             /\ t[i].dataidx = s[from(i)].dataidx
  <2>1. t[i] = [s[from(i)] EXCEPT !.idx = i - 1] /\ i - 1 \in Int /\ s[from(i)] \in Tag
    <3> HIDE DEF t, from
    <3> QED BY <1>4, <1>6
  <2> HIDE DEF t, from
  <2> QED BY <2>1, Renumber
<1> HIDE DEF t, from
<1>8. t \in Seq(Tag) /\ DOMAIN t = 1 .. Len(s) - 1
  <2>1. t = [i \in 1 .. Len(s) - 1 |-> t[i]]
    BY <1>6
  <2>2. Len(s) - 1 \in Nat
    BY <1>1
  <2> QED BY <1>7, <2>1, <2>2, ListOfTags
<1>9. InOrder(t)
  BY <1>4, <1>5, <1>7, <1>8 DEF Good, InOrder, Before
<1>10. Numbered(t)
  BY <1>7, <1>8 DEF Numbered
<1> QED BY <1>8, <1>9, <1>10 DEF Good, t

-----------------------------------------------------------------------------
(* The inductive invariant: type correctness and the order of the list,    *)
(* which depend on each other, as a call goes to the position it finds.    *)

Inductive == TypeOK /\ Ordered

\* What a call on a tag may do to the list and the error.
ListStep ==
  /\ Good(tags')
  /\ present' \in BOOLEAN
  /\ datacount' \in Nat
  /\ mp4error' \in Errors

\* A call that only reports an error keeps the list in order.
LEMMA FailStep ==
  ASSUME Inductive, NEW err \in Errors, Fail(err)
  PROVE  ListStep
BY DEF Inductive, TypeOK, Ordered, Fail, list, ListStep, Good, InOrder, Before, Numbered

\* An entry replaced by one of the same name and index stays at its place.
LEMMA ReplaceStep ==
  ASSUME Inductive, NEW idx \in 0 .. Len(tags) - 1, NEW e \in Tag, Replace(idx, e),
         e.tag = tags[At(idx)].tag, e.dataidx = tags[At(idx)].dataidx,
         e.idx = tags[At(idx)].idx
  PROVE  ListStep
<1>1. Good(tags)
  BY DEF Inductive, TypeOK, Ordered, Good
<1>2. At(idx) \in DOMAIN tags
  BY <1>1 DEF At, Good
<1>3. Good([tags EXCEPT ![At(idx)] = e])
  BY <1>1, <1>2, ReplaceGood
<1> QED BY <1>3 DEF Replace, ListStep, Inductive, TypeOK, Errors

\* mp4tag_add_tag followed by mp4tag_sort_tags leaves a list in order.
LEMMA AddStep ==
  ASSUME Inductive, NEW e \in Tag, NEW count \in Nat, AddTag(e, count)
  PROVE  ListStep
<1>1. Append(tags, e) \in Seq(Tag)
  BY DEF Inductive, TypeOK
<1>2. Good(tags')
  BY <1>1, SortsGood DEF AddTag, Good
<1> QED BY <1>2 DEF AddTag, ListStep, Errors

\* mp4tag_del_tag of an existing entry leaves a list in order.
LEMMA DelStep ==
  ASSUME Inductive, NEW idx \in 0 .. Len(tags) - 1, DelTag(idx)
  PROVE  ListStep
<1>1. Good(tags)
  BY DEF Inductive, TypeOK, Ordered, Good
<1>2. Good(Without(tags, idx))
  BY <1>1, DelGood
<1> QED BY <1>2 DEF DelTag, ListStep, Inductive, TypeOK, Errors

\* The entries that are added are well typed.
LEMMA NewEntry ==
  ASSUME TagAssumption, Inductive, NEW a \in Args, NEW v \in Values,
         NEW type \in CheckCovr(a)
  PROVE  /\ Entry(a.name, a.index, v, NewType(a), NoName) \in Tag
         /\ Entry(a.name, AddedIndex(tags, datacount, a), v, type, NoName) \in Tag
         /\ AddedCount(datacount, a) \in Nat
<1>1. a \in Arg /\ a.name \in Names /\ a.index \in Int
  BY DEF TagAssumption, Arg, NoIndex
<1>2. tags \in Seq(Tag) /\ datacount \in Nat
  BY DEF Inductive, TypeOK
<1>3. Len(tags) > 0 => tags[Len(tags)].dataidx \in Int
  <2>1. Len(tags) > 0 => tags[Len(tags)] \in Tag
    BY <1>2
  <2> QED BY <2>1 DEF Tag
<1>4. AddedIndex(tags, datacount, a) \in Int
  BY <1>1, <1>2, <1>3 DEF AddedIndex, Continues
<1>5. AddedCount(datacount, a) \in Nat
  BY <1>2 DEF AddedCount
<1>6. NewType(a) \in Types /\ NewType(a) # "image"
  BY DEF NewType, Types
<1>7. type \in Types /\ (type = "image" => Kind[a.name] = "cover")
  BY DEF CheckCovr, IsCover, Types
<1> QED BY <1>1, <1>4, <1>5, <1>6, <1>7 DEF Entry, Tag

\* A new content for an entry that was found.
LEMMA NewContent ==
  ASSUME NEW e \in Tag, NEW v \in Values
  PROVE  /\ LET r == [e EXCEPT !.data = v]
            IN r \in Tag /\ r.tag = e.tag /\ r.dataidx = e.dataidx /\ r.idx = e.idx
         /\ LET r == [e EXCEPT !.covername = v]
            IN r \in Tag /\ r.tag = e.tag /\ r.dataidx = e.dataidx /\ r.idx = e.idx
         /\ LET r == [e EXCEPT !.covername = NoName]
            IN r \in Tag /\ r.tag = e.tag /\ r.dataidx = e.dataidx /\ r.idx = e.idx
BY DEF Tag

\* An entry that differs in its content only, and is read with the same type.
SameButData(r, e) ==
  /\ r \in Tag /\ r.tag = e.tag /\ r.dataidx = e.dataidx /\ r.idx = e.idx
  /\ r.covername = e.covername /\ ItemOf(r).type = ItemOf(e).type

\* A new content and type for a binary entry.
LEMMA NewBinary ==
  ASSUME NEW a, NEW e \in Tag, NEW v \in Values, NEW type \in CheckCovr(a), e.tag = a.name,
         Binary(e)
  PROVE  SameButData([e EXCEPT !.data = v, !.type = type], e)
<1> DEFINE r == [e EXCEPT !.data = v, !.type = type]
<1>1. e.type \in {"data", "image"} /\ (e.type = "image" => Kind[e.tag] = "cover")
  BY DEF Binary, Tag
<1>2. type \in {"data", "image"} /\ (type = "image" => Kind[e.tag] = "cover")
  BY DEF CheckCovr, IsCover
<1>3. /\ r \in Tag /\ r.tag = e.tag /\ r.dataidx = e.dataidx /\ r.idx = e.idx
      /\ r.covername = e.covername /\ r.type = type
  BY <1>2 DEF Tag, Types
<1> HIDE DEF r
<1>4. ItemOf(r).type = ItemOf(e).type
  BY <1>1, <1>2, <1>3 DEF ItemOf
<1> QED BY <1>3, <1>4 DEF r, SameButData

\* Every branch of mp4tag_set_tag_string keeps the list in order.
LEMMA StringStep ==
  ASSUME TagAssumption, Inductive, NEW a \in Args, NEW v \in Values,
         NEW idx \in Find(tags, a), SetTagString(a, idx, v)
  PROVE  ListStep
<1>1. Good(tags) /\ a \in Arg
  BY DEF Inductive, TypeOK, Ordered, Good, TagAssumption
<1> DEFINE e == tags[At(idx)]
<1>2. idx # NotFound => idx \in 0 .. Len(tags) - 1 /\ e \in Tag
  BY <1>1, FindGood
<1>3. CASE idx # NotFound /\ Replace(idx, [e EXCEPT !.covername = v])
  BY <1>2, <1>3, NewContent, ReplaceStep
<1>4. CASE idx # NotFound /\ Replace(idx, [e EXCEPT !.data = v])
  BY <1>2, <1>4, NewContent, ReplaceStep
<1>5. CASE Fail("TAG_NOT_FOUND")
  BY <1>5, FailStep DEF Errors
<1>6. CASE Fail("MISMATCH")
  BY <1>6, FailStep DEF Errors
<1>7. CASE AddTag(Entry(a.name, a.index, v, NewType(a), NoName), AddedCount(datacount, a))
  <2>1. "data" \in CheckCovr(a)
    BY DEF CheckCovr
  <2> QED BY <1>7, <2>1, NewEntry, AddStep
<1> QED BY <1>3, <1>4, <1>5, <1>6, <1>7 DEF SetTagString

\* Every branch of mp4tag_set_tag_binary keeps the list in order.
LEMMA BinaryStep ==
  ASSUME TagAssumption, Inductive, NEW a \in Args, NEW v \in Values,
         NEW idx \in Find(tags, a), NEW type \in CheckCovr(a), SetTagBinary(a, idx, v, type)
  PROVE  ListStep
<1>1. Good(tags) /\ a \in Arg
  BY DEF Inductive, TypeOK, Ordered, Good, TagAssumption
<1> DEFINE e == tags[At(idx)]
<1>2. idx # NotFound => idx \in 0 .. Len(tags) - 1 /\ e \in Tag /\ e.tag = a.name
  BY <1>1, FindGood
<1>3. CASE idx # NotFound /\ Binary(e) /\ Replace(idx, [e EXCEPT !.data = v, !.type = type])
  <2> DEFINE r == [e EXCEPT !.data = v, !.type = type]
  <2>1. SameButData(r, e)
    <3> HIDE DEF e
    <3> QED BY <1>2, <1>3, NewBinary
  <2>2. r \in Tag /\ r.tag = e.tag /\ r.dataidx = e.dataidx /\ r.idx = e.idx
    <3> HIDE DEF r
    <3> QED BY <2>1 DEF SameButData
  <2> HIDE DEF r
  <2> QED BY <1>2, <1>3, <2>2, ReplaceStep DEF r
<1>4. CASE Fail("TAG_NOT_FOUND")
  BY <1>4, FailStep DEF Errors
<1>5. CASE Fail("MISMATCH")
  BY <1>5, FailStep DEF Errors
<1>6. CASE AddTag(Entry(a.name, AddedIndex(tags, datacount, a), v, type, NoName),
                  AddedCount(datacount, a))
  BY <1>6, NewEntry, AddStep
<1> QED BY <1>3, <1>4, <1>5, <1>6 DEF SetTagBinary

\* Every branch of mp4tag_delete_tag keeps the list in order.
LEMMA DeleteStep ==
  ASSUME TagAssumption, Inductive, NEW a \in Args, DeleteTag(a)
  PROVE  ListStep
<1>1. Good(tags) /\ a \in Arg
  BY DEF Inductive, TypeOK, Ordered, Good, TagAssumption
<1>2. PICK idx \in Find(tags, a) :
        \/ Fail("TAG_NOT_FOUND")
        \/ idx # NotFound /\ Replace(idx, [tags[At(idx)] EXCEPT !.covername = NoName])
        \/ idx # NotFound /\ DelTag(idx)
  BY DEF DeleteTag
<1> DEFINE e == tags[At(idx)]
<1>3. idx # NotFound => idx \in 0 .. Len(tags) - 1 /\ e \in Tag
  BY <1>1, FindGood
<1>4. CASE Fail("TAG_NOT_FOUND")
  BY <1>4, FailStep DEF Errors
<1>5. CASE idx # NotFound /\ Replace(idx, [e EXCEPT !.covername = NoName])
  <2>1. idx \in 0 .. Len(tags) - 1 /\ e \in Tag
    BY <1>3, <1>5
  <2> DEFINE r == [e EXCEPT !.covername = NoName]
  <2>2. r \in Tag /\ r.tag = e.tag /\ r.dataidx = e.dataidx /\ r.idx = e.idx
    BY <2>1 DEF Tag
  <2> QED BY <1>5, <2>1, <2>2, ReplaceStep
<1>6. CASE idx # NotFound /\ DelTag(idx)
  BY <1>3, <1>6, DelStep
<1> QED BY <1>2, <1>4, <1>5, <1>6

\* A step that changes the list as a call does, and the file and the preserved
\* list not at all, keeps the invariant.
LEMMA ListStepKeeps ==
  ASSUME Inductive, ListStep, calls' \in 0 .. MaxCalls, UNCHANGED <<disk, open, saved>>
  PROVE  Inductive'
BY DEF Inductive, TypeOK, Ordered, ListStep, Good, InOrder, Before, Numbered, NoList

\* A counted call stays within the bound of the model.
LEMMA CountedKeeps ==
  ASSUME TagAssumption, Inductive, Counted
  PROVE  calls' \in 0 .. MaxCalls
BY DEF TagAssumption, Inductive, TypeOK, Counted

\* A closed handle has an empty list, which is in order.
LEMMA InitInductive ==
  ASSUME TagAssumption, Init
  PROVE  Inductive
<1>1. Good(tags)
  BY EmptyGood DEF Init
<1>2. disk \in Seq(Item) /\ calls \in 0 .. MaxCalls /\ datacount \in Nat
  BY DEF Init, TagAssumption
<1>3. saved = NoList
  BY DEF Init
<1>4. open \in BOOLEAN /\ present \in BOOLEAN /\ mp4error \in Errors
  BY DEF Init, Errors
<1> QED BY <1>1, <1>2, <1>3, <1>4 DEF Inductive, TypeOK, Ordered, Good

\* Every call keeps the inductive invariant.
LEMMA StepInductive ==
  ASSUME TagAssumption, Inductive, [Next]_vars
  PROVE  Inductive'
<1>1. CASE Parse
  <2>1. Read(disk) \in Seq(Tag) /\ ReadCount(disk) \in Nat
    BY ReadGood DEF Inductive, TypeOK
  <2>2. Good(tags')
    BY <1>1, <2>1, SortsGood DEF Parse, Good
  <2> QED BY <1>1, <2>1, <2>2
          DEF Parse, Inductive, TypeOK, Ordered, Good, Errors, NoList, InOrder, Before, Numbered
<1>2. CASE Free
  <2>1. Good(tags')
    BY <1>2, EmptyGood DEF Free
  <2> QED BY <1>2, <2>1
          DEF Free, Inductive, TypeOK, Ordered, Good, Errors, NoList, InOrder, Before, Numbered
<1>3. CASE Mangle
  <2>1. disk' \in Seq(Item)
    BY <1>3 DEF Mangle, TagAssumption
  <2>2. calls' \in 0 .. MaxCalls
    BY <1>3, CountedKeeps DEF Mangle
  <2> QED BY <1>3, <2>1, <2>2
          DEF Mangle, list, Inductive, TypeOK, Ordered, NoList, InOrder, Before, Numbered
<1>4. ASSUME NEW a \in Args, GetTagByName(a)
      PROVE  Inductive'
  <2>1. mp4error' \in Errors
    BY <1>4 DEF GetTagByName, Errors
  <2> QED BY <1>4, <2>1
          DEF GetTagByName, Look, list, Inductive, TypeOK, Ordered, NoList, InOrder, Before,
              Numbered
<1>5. ASSUME NEW a \in Args, DeleteTag(a)
      PROVE  Inductive'
  BY <1>5, DeleteStep, CountedKeeps, ListStepKeeps DEF DeleteTag, Change
<1>6. ASSUME NEW a \in Args, NEW v \in Values, SetBinaryTag(a, v)
      PROVE  Inductive'
  <2>1. PICK idx \in Find(tags, a) : SetTagBinary(a, idx, v, "data") \/ Fail("MISMATCH")
    BY <1>6 DEF SetBinaryTag
  <2>2. ListStep
    <3>1. CASE SetTagBinary(a, idx, v, "data")
      <4>1. "data" \in CheckCovr(a)
        BY DEF CheckCovr
      <4> QED BY <3>1, <4>1, BinaryStep
    <3>2. CASE Fail("MISMATCH")
      BY <3>2, FailStep DEF Errors
    <3> QED BY <2>1, <3>1, <3>2
  <2> QED BY <1>6, <2>2, CountedKeeps, ListStepKeeps DEF SetBinaryTag, Change
<1>7. ASSUME NEW a \in Args, NEW v \in Values, NEW force \in BOOLEAN, SetTag(a, v, force)
      PROVE  Inductive'
  <2>1. PICK idx \in Find(tags, a) :
          \/ Fail("FILE_NOT_FOUND") \/ SetTagString(a, idx, v)
          \/ \E type \in CheckCovr(a) : SetTagBinary(a, idx, v, type)
    BY <1>7 DEF SetTag
  <2>2. ListStep
    <3>1. CASE Fail("FILE_NOT_FOUND")
      BY <3>1, FailStep DEF Errors
    <3>2. ASSUME NEW type \in CheckCovr(a), SetTagBinary(a, idx, v, type)
          PROVE  ListStep
      BY <3>2, BinaryStep
    <3>3. CASE SetTagString(a, idx, v)
      BY <3>3, StringStep
    <3> QED BY <2>1, <3>1, <3>2, <3>3
  <2> QED BY <1>7, <2>2, CountedKeeps, ListStepKeeps DEF SetTag, Change
<1>8. CASE CleanTags
  <2>1. ListStep
    BY <1>8, EmptyGood DEF CleanTags, ListStep, Errors, Inductive, TypeOK
  <2> QED BY <1>8, <2>1, CountedKeeps, ListStepKeeps DEF CleanTags, Change
<1>9. CASE WriteTags
  <2>1. Build(tags) \in Seq(Item) /\ BuiltCount(Build(tags)) \in Nat
    BY BuildGood DEF Inductive, TypeOK
  <2>2. calls' \in 0 .. MaxCalls
    BY <1>9, CountedKeeps DEF WriteTags
  <2>3. disk' \in Seq(Item)
    BY <1>9, <2>1 DEF WriteTags, TagAssumption
  <2> QED BY <1>9, <2>1, <2>2, <2>3
          DEF WriteTags, Inductive, TypeOK, Ordered, Errors, NoList, InOrder, Before, Numbered
<1>10. CASE PreserveTags
  <2>1. calls' \in 0 .. MaxCalls
    BY <1>10, CountedKeeps DEF PreserveTags
  <2>2. saved' = <<tags>> \/ saved' = saved
    BY <1>10 DEF PreserveTags
  <2>3. mp4error' \in Errors
    BY <1>10 DEF PreserveTags, Errors
  <2> QED BY <1>10, <2>1, <2>2, <2>3
          DEF PreserveTags, list, Inductive, TypeOK, Ordered, NoList, InOrder, Before, Numbered
<1>11. CASE RestoreTags
  <2>1. Good(saved[1])
    BY <1>11 DEF RestoreTags, Inductive, TypeOK, Ordered, Good
  <2>2. ListStep
    BY <1>11, <2>1 DEF RestoreTags, ListStep, Errors, Inductive, TypeOK
  <2> QED BY <1>11, <2>2, CountedKeeps, ListStepKeeps DEF RestoreTags, Change
<1>12. CASE UNCHANGED vars
  BY <1>12 DEF vars, Inductive, TypeOK, Ordered, NoList, InOrder, Before, Numbered
<1> QED BY <1>1, <1>2, <1>3, <1>4, <1>5, <1>6, <1>7, <1>8, <1>9, <1>10, <1>11, <1>12 DEF Next

-----------------------------------------------------------------------------
(* The theorems.                                                           *)

\* The inductive invariant of the list.
THEOREM ListInductive == Spec => []Inductive
<1>1. Init => Inductive
  BY TagAssumption, InitInductive
<1>2. Inductive /\ [Next]_vars => Inductive'
  BY TagAssumption, StepInductive
<1> QED BY <1>1, <1>2, PTL DEF Spec

\* The list stays well typed for all names, arguments, values and files.
THEOREM ListTypes == Spec => []TypeOK
BY ListInductive, PTL DEF Inductive

\* After any number of calls bsearch finds the list in order, and the number of
\* an entry is its position; a preserved list can replace it at any time.
THEOREM ListOrdered == Spec => []Ordered
BY ListInductive, PTL DEF Inductive

\* A call that reports an error has changed nothing.
THEOREM FailedCalls == Spec => FailedCallChangesNothing
<1>1. ASSUME [Next]_vars
      PROVE  [open /\ mp4error' # "OK" => UNCHANGED <<list, disk, saved>>]_vars
  <2>1. SUFFICES ASSUME Next, open, mp4error' # "OK"
                 PROVE  UNCHANGED <<list, disk, saved>>
    BY <1>1
  <2>2. CASE Parse \/ Free \/ Mangle
    BY <2>1, <2>2 DEF Parse, Free, Mangle
  <2>3. ASSUME NEW a \in Args, GetTagByName(a)
        PROVE  UNCHANGED <<list, disk, saved>>
    BY <2>3 DEF GetTagByName, Look
  <2>4. ASSUME NEW a \in Args, DeleteTag(a)
        PROVE  UNCHANGED <<list, disk, saved>>
    BY <2>1, <2>4 DEF DeleteTag, Change, Fail, Replace, DelTag
  <2>5. ASSUME NEW a, NEW v, NEW idx, NEW type, SetTagBinary(a, idx, v, type)
        PROVE  UNCHANGED list
    BY <2>1, <2>5 DEF SetTagBinary, Fail, Replace, AddTag
  <2>6. ASSUME NEW a, NEW v, NEW idx, SetTagString(a, idx, v)
        PROVE  UNCHANGED list
    BY <2>1, <2>6 DEF SetTagString, Fail, Replace, AddTag
  <2>7. ASSUME NEW a \in Args, NEW v \in Values, SetBinaryTag(a, v)
        PROVE  UNCHANGED <<list, disk, saved>>
    BY <2>5, <2>7 DEF SetBinaryTag, Change, Fail
  <2>8. ASSUME NEW a \in Args, NEW v \in Values, NEW force \in BOOLEAN, SetTag(a, v, force)
        PROVE  UNCHANGED <<list, disk, saved>>
    BY <2>5, <2>6, <2>8 DEF SetTag, Change, Fail
  <2>9. CASE CleanTags \/ WriteTags \/ PreserveTags \/ RestoreTags
    BY <2>1, <2>9 DEF CleanTags, WriteTags, PreserveTags, RestoreTags, Change
  <2> QED BY <2>1, <2>2, <2>3, <2>4, <2>7, <2>8, <2>9 DEF Next
<1> QED BY <1>1, PTL DEF Spec, FailedCallChangesNothing

-----------------------------------------------------------------------------
(* What is written is read back in the same order.                         *)

\* Sorting moves the entries and keeps what they hold, but for their numbers.
LEMMA SortMoves ==
  ASSUME NEW s \in Seq(Tag), NEW t \in Sorts(s)
  PROVE  \E p \in Bijection(DOMAIN s, DOMAIN s) :
           /\ DOMAIN t = DOMAIN s
           /\ \A i \in DOMAIN s : /\ ItemOf(t[i]) = ItemOf(s[p[i]])
                                  /\ t[i].tag = s[p[i]].tag
                                  /\ t[i].dataidx = s[p[i]].dataidx
<1> DEFINE D == DOMAIN s
<1>1. PICK p \in Orders(s) : t = [i \in D |-> [s[p[i]] EXCEPT !.idx = i - 1]]
  BY DEF Sorts
<1>2. p \in [D -> D] /\ \A j \in D : \E i \in D : p[i] = j
  BY DEF Orders, Candidates
<1>3. IsFiniteSet(D) /\ \A i \in D : s[i] \in Tag
  <2>1. D = 1 .. Len(s) /\ Len(s) \in Nat
    OBVIOUS
  <2> QED BY <2>1, IntervalSize
<1>4. p \in Surjection(D, D)
  BY <1>2, Fun_IsSurj
<1>5. p \in Bijection(D, D)
  <2>1. p \in Injection(D, D)
    <3> HIDE DEF D
    <3> QED BY <1>3, <1>4, FS_SurjSameCardinalityImpliesInj
  <2> QED BY <1>4, <2>1, Fun_IsBij
<1>6. ASSUME NEW i \in D
      PROVE  /\ ItemOf(t[i]) = ItemOf(s[p[i]])
             /\ t[i].tag = s[p[i]].tag
             /\ t[i].dataidx = s[p[i]].dataidx
  <2>1. p[i] \in D /\ s[p[i]] \in Tag
    BY <1>2, <1>3
  <2>2. t[i] = [s[p[i]] EXCEPT !.idx = i - 1]
    BY <1>1
  <2> QED BY <2>1, <2>2 DEF ItemOf, Tag
<1>7. DOMAIN t = D
  BY <1>1
<1> QED BY <1>5, <1>6, <1>7

\* Two sets of positions of which one is the image of the other have one size.
LEMMA ImageSize ==
  ASSUME NEW n \in Int, NEW S, \A x \in S : x \in 1 .. n, NEW T, NEW f \in [S -> T],
         \A x, y \in S : f[x] = f[y] => x = y,
         \A y \in T : \E x \in S : f[x] = y
  PROVE  Cardinality(T) = Cardinality(S)
<1>1. IsFiniteSet(S)
  BY Positions
<1>2. f \in Bijection(S, T)
  BY Fun_IsBij
<1>3. ExistsBijection(S, T)
  BY <1>2, Fun_ExistsBij
<1> QED BY <1>1, <1>3, FS_Bijection

\* The entries of one name lie next to each other in a list in order, and so do
\* they when they are written; those that are written before one of them are
\* the ones before it in the list.
LEMMA WrittenTogether ==
  ASSUME TagAssumption, NEW s \in Seq(Tag), InOrder(s),
         NEW i \in Writable(s), NEW j \in Writable(s), s[j].tag = s[i].tag
  PROVE  /\ WriteRank(s, j) < WriteRank(s, i) <=> j < i
         /\ \A m \in DOMAIN Build(s) :
              WriteRank(s, j) <= m /\ m < WriteRank(s, i) => Build(s)[m].name = s[i].tag
<1>1. /\ \A k \in Writable(s) : k \in DOMAIN s /\ k \in Int /\ s[k] \in Tag
                                /\ Priority[s[k].tag] \in Int /\ s[k].tag \in Int
      /\ DOMAIN s = 1 .. Len(s)
  <2>1. DOMAIN s = 1 .. Len(s) /\ \A k \in DOMAIN s : s[k] \in Tag
    OBVIOUS
  <2>2. \A e \in Tag : e.tag \in Names
    BY DEF Tag
  <2>3. \A n \in Names : n \in Int /\ Priority[n] \in Int
    BY DEF TagAssumption
  <2> QED BY <2>1, <2>2, <2>3 DEF Writable
<1>2. \A k \in Writable(s) : WriteRank(s, k) \in DOMAIN Build(s) /\ WriteRank(s, k) \in Int
  <2>1. \A k \in Writable(s) : WriteRank(s, k) \in 1 .. Cardinality(Writable(s))
    BY RanksDiffer
  <2> QED BY <2>1, WritesEachOnce
<1>3. WriteRank(s, j) < WriteRank(s, i) <=> j < i
  <2>1. i < j => WriteRank(s, i) < WriteRank(s, j)
    BY WritesEachOnce
  <2>2. j < i => WriteRank(s, j) < WriteRank(s, i)
    BY WritesEachOnce
  <2> QED BY <1>1, <1>2, <2>1, <2>2
<1>4. ASSUME NEW m \in DOMAIN Build(s), WriteRank(s, j) <= m, m < WriteRank(s, i)
      PROVE  Build(s)[m].name = s[i].tag
  <2> DEFINE l == Nth(s, m)
  <2>1. l \in Writable(s) /\ Build(s)[m] = ItemOf(s[l])
    BY WritesEachOnce
  <2>2. WriteRank(s, l) = m
    <3>1. m \in 1 .. Cardinality(Writable(s))
      BY DEF Build
    <3> QED BY <3>1, NthWritten
  <2> HIDE DEF l
  <2>3. l = j \/ WriteBefore(s, j, l)
    <3>1. WriteBefore(s, l, j) => m < WriteRank(s, j)
      BY <2>1, <2>2, RanksDiffer
    <3>2. ~ WriteBefore(s, l, j)
      BY <3>1, <1>2, <1>4, <2>1, <2>2
    <3> QED BY <2>1, <3>2, WriteOrder
  <2>4. WriteBefore(s, l, i)
    <3>1. WriteBefore(s, i, l) => WriteRank(s, i) < m
      BY <2>1, <2>2, RanksDiffer
    <3>2. ~ WriteBefore(s, i, l) /\ l # i
      BY <3>1, <1>2, <1>4, <2>1, <2>2
    <3> QED BY <2>1, <3>2, WriteOrder
  <2>5. j <= l /\ l < i
    BY <1>1, <2>1, <2>3, <2>4 DEF WriteBefore
  <2>6. s[l].tag = s[i].tag
    <3>1. l # j => ~ Before(s[l], s[j])
      BY <1>1, <2>1, <2>5 DEF InOrder
    <3>2. ~ Before(s[i], s[l])
      BY <1>1, <2>1, <2>5 DEF InOrder
    <3> QED BY <1>1, <2>1, <3>1, <3>2 DEF Before
  <2> QED BY <2>1, <2>6 DEF ItemOf
<1> QED BY <1>3, <1>4

\* The index that an item gets when it is read is the place its entry had among
\* those of its name.
LEMMA PlaceKept ==
  ASSUME TagAssumption, NEW s \in Seq(Tag), InOrder(s), NEW i \in Writable(s)
  PROVE  ReadIndex(Build(s), WriteRank(s, i)) = Place(s, i)
<1> DEFINE items == Build(s)
           n == s[i].tag
           k == WriteRank(s, i)
           P == {q \in 1 .. i - 1 : s[q].tag = n}
           f == [q \in P |-> WriteRank(s, q)]
           R == {m \in 1 .. k - 1 : \A l \in m .. k - 1 : items[l].name = n}
           C == {m \in 1 .. k - 1 : Kind[items[m].name] = "cover"}
<1>1. DOMAIN s = 1 .. Len(s) /\ Len(s) \in Nat /\ i \in DOMAIN s
  BY DEF Writable
<1>2. \A q \in P : q \in Writable(s) /\ q \in Int /\ q < i
  BY <1>1 DEF Writable
<1>3. \A q \in Writable(s) : WriteRank(s, q) \in DOMAIN items /\ Nth(s, WriteRank(s, q)) = q
  BY WritesEachOnce
<1>4. \A m \in DOMAIN items : Nth(s, m) \in Writable(s) /\ items[m] = ItemOf(s[Nth(s, m)])
  BY WritesEachOnce
<1>5. Cardinality(Writable(s)) \in Nat /\ DOMAIN items = 1 .. Cardinality(Writable(s))
  BY WriteOrder, FS_CardinalityType DEF Build
<1>6. k \in DOMAIN items /\ k \in Int /\ 1 .. k - 1 \subseteq DOMAIN items /\ items[k].name = n
  <2>1. k \in DOMAIN items /\ Nth(s, k) = i
    BY <1>3
  <2> QED BY <1>4, <1>5, <2>1 DEF ItemOf
<1>7. \A q \in P : /\ f[q] \in 1 .. k - 1
                   /\ f[q] \in R
                   /\ items[f[q]].name = n
  <2> TAKE q \in P
  <2>1. s[q].tag = s[i].tag /\ f[q] = WriteRank(s, q) /\ q \in Writable(s) /\ q < i
    BY <1>2
  <2>2. /\ f[q] < k
        /\ \A m \in DOMAIN items : f[q] <= m /\ m < k => items[m].name = n
    <3> HIDE DEF items, f, P
    <3> QED BY <2>1, WrittenTogether DEF items
  <2>3. f[q] \in DOMAIN items
    BY <1>3, <2>1
  <2> HIDE DEF f, P, n, k, items
  <2>4. f[q] \in 1 .. k - 1
    BY <1>5, <1>6, <2>2, <2>3
  <2>5. \A l \in f[q] .. k - 1 : items[l].name = n
    BY <1>5, <1>6, <2>2, <2>3
  <2>6. items[f[q]].name = n
    BY <1>5, <1>6, <2>2, <2>3
  <2> QED BY <2>4, <2>5, <2>6
<1>8. \A q, r \in P : f[q] = f[r] => q = r
  BY <1>2, <1>3
<1>9. ASSUME NEW m \in 1 .. k - 1, items[m].name = n
      PROVE  \E q \in P : f[q] = m
  <2> DEFINE q == Nth(s, m)
  <2>1. q \in Writable(s) /\ s[q].tag = n
    <3>1. m \in DOMAIN items
      BY <1>6
    <3> QED BY <1>4, <1>9, <3>1 DEF ItemOf
  <2>2. WriteRank(s, q) = m
    <3>1. m \in 1 .. Cardinality(Writable(s))
      BY <1>5, <1>6
    <3> QED BY <3>1, NthWritten
  <2>3. m < k
    BY <1>6
  <2> HIDE DEF q
  <2>4. q < i
    BY <2>1, <2>2, <2>3, WrittenTogether
  <2>5. q \in P
    BY <1>1, <2>1, <2>4 DEF Writable
  <2> QED BY <2>2, <2>5
<1>10. \A x \in P : x \in 1 .. i - 1
  OBVIOUS
<1>11. i - 1 \in Int
  BY <1>1
<1>12. CASE Kind[n] = "cover"
  <2>1. \A m \in C : items[m].name = n
    <3>1. \A q \in DOMAIN s : s[q].tag \in Names
      <4>1. \A q \in DOMAIN s : s[q] \in Tag
        OBVIOUS
      <4> QED BY <4>1 DEF Tag
    <3>2. \A m \in 1 .. k - 1 : items[m].name \in Names
      BY <1>4, <1>6, <3>1 DEF ItemOf, Writable
    <3>3. n \in Names
      BY <1>1, <3>1
    <3>4. \A m \in C : Kind[items[m].name] = "cover" /\ items[m].name \in Names
      BY <3>2
    <3> HIDE DEF C, n, items, k
    <3> QED BY <1>12, <3>3, <3>4 DEF TagAssumption
  <2>2. f \in [P -> C]
    BY <1>7, <1>12
  <2>3. \A m \in C : \E q \in P : f[q] = m
    BY <1>9, <2>1
  <2>4. Cardinality(C) = Cardinality(P)
    <3> DEFINE b == i - 1
    <3>1. \A x \in P : x \in 1 .. b
      BY <1>10
    <3>2. b \in Int
      BY <1>11
    <3> HIDE DEF b, P, C, f
    <3> QED BY <1>8, <2>2, <2>3, <3>1, <3>2, ImageSize
  <2>5. ReadIndex(items, k) = Cardinality(C)
    BY <1>6, <1>12 DEF ReadIndex
  <2> QED BY <2>4, <2>5 DEF Place
<1>13. CASE Kind[n] # "cover"
  <2>1. \A m \in R : items[m].name = n
    BY <1>6
  <2>2. f \in [P -> R]
    BY <1>7
  <2>3. \A m \in R : \E q \in P : f[q] = m
    BY <1>9, <2>1
  <2>4. Cardinality(R) = Cardinality(P)
    <3> DEFINE b == i - 1
    <3>1. \A x \in P : x \in 1 .. b
      BY <1>10
    <3>2. b \in Int
      BY <1>11
    <3> HIDE DEF b, P, R, f
    <3> QED BY <1>8, <2>2, <2>3, <3>1, <3>2, ImageSize
  <2>5. ReadIndex(items, k) = Cardinality(R)
    BY <1>6, <1>13 DEF ReadIndex
  <2> QED BY <2>4, <2>5 DEF Place
<1> QED BY <1>12, <1>13

\* Entries of one name have different places.
LEMMA PlacesDiffer ==
  ASSUME NEW s \in Seq(Tag), NEW i \in DOMAIN s, NEW j \in DOMAIN s,
         s[i].tag = s[j].tag, Place(s, i) = Place(s, j)
  PROVE  i = j
<1>1. SUFFICES ASSUME NEW a \in DOMAIN s, NEW b \in DOMAIN s, s[a].tag = s[b].tag, a < b
               PROVE  Place(s, a) # Place(s, b)
  <2>1. i \in Int /\ j \in Int
    OBVIOUS
  <2> QED BY <1>1, <2>1
<1> DEFINE A == {q \in 1 .. a - 1 : s[q].tag = s[a].tag}
           B == {q \in 1 .. b - 1 : s[q].tag = s[b].tag}
<1>2. a \in Int /\ b \in Int
  OBVIOUS
<1>3. A \in SUBSET B /\ a \in B /\ a \notin A
  BY <1>1, <1>2
<1>4. IsFiniteSet(B)
  <2> DEFINE c == b - 1
  <2>1. c \in Int /\ \A x \in B : x \in 1 .. c
    BY <1>2
  <2> HIDE DEF B, c
  <2> QED BY <2>1, Positions
<1>5. Cardinality(A) # Cardinality(B)
  <2> HIDE DEF A, B
  <2> QED BY <1>3, <1>4, FS_Subset
<1> QED BY <1>5 DEF Place

\* The list as it is read back, before it is sorted.
LEMMA ReadBack ==
  ASSUME TagAssumption, NEW s \in Seq(Tag), InOrder(s)
  PROVE  LET r == Read(Build(s))
         IN /\ Distinct(r)
            /\ {<<ItemOf(r[k]), r[k].dataidx>> : k \in DOMAIN r}
                 = {<<ItemOf(s[i]), Place(s, i)>> : i \in Writable(s)}
<1> DEFINE items == Build(s)
           r == Read(items)
<1>1. DOMAIN r = DOMAIN items
  BY DEF Read
<1>2. \A i \in Writable(s) : WriteRank(s, i) \in DOMAIN items
  BY WritesEachOnce
<1>3. ASSUME NEW k \in DOMAIN items
      PROVE  /\ Nth(s, k) \in Writable(s)
             /\ WriteRank(s, Nth(s, k)) = k
             /\ ItemOf(r[k]) = ItemOf(s[Nth(s, k)])
             /\ r[k].tag = s[Nth(s, k)].tag
             /\ r[k].dataidx = Place(s, Nth(s, k))
  <2>1. Nth(s, k) \in Writable(s) /\ items[k] = ItemOf(s[Nth(s, k)])
    BY WritesEachOnce
  <2>2. WriteRank(s, Nth(s, k)) = k
    <3>1. k \in 1 .. Cardinality(Writable(s))
      BY DEF Build
    <3> QED BY <3>1, NthWritten
  <2>3. ReadIndex(items, k) = Place(s, Nth(s, k))
    BY <2>1, <2>2, PlaceKept
  <2>4. r[k] = Entry(items[k].name, ReadIndex(items, k), items[k].data, items[k].type,
                     items[k].covername)
    BY DEF Read
  <2> QED BY <2>1, <2>2, <2>3, <2>4 DEF Entry, ItemOf
<1>4. \A i \in Writable(s) : Nth(s, WriteRank(s, i)) = i
  BY WritesEachOnce
<1>5. Writable(s) \subseteq DOMAIN s
  BY DEF Writable
<1> HIDE DEF r, items
<1>6. Distinct(r)
  <2> SUFFICES ASSUME NEW k \in DOMAIN r, NEW l \in DOMAIN r, r[k].tag = r[l].tag,
                      r[k].dataidx = r[l].dataidx
               PROVE  k = l
    BY DEF Distinct
  <2>1. Nth(s, k) = Nth(s, l)
    BY <1>1, <1>3, <1>5, PlacesDiffer
  <2> QED BY <1>1, <1>3, <2>1
<1>7. \A k \in DOMAIN r : \E i \in Writable(s) :
        <<ItemOf(r[k]), r[k].dataidx>> = <<ItemOf(s[i]), Place(s, i)>>
  BY <1>1, <1>3
<1>8. \A i \in Writable(s) : \E k \in DOMAIN r :
        <<ItemOf(r[k]), r[k].dataidx>> = <<ItemOf(s[i]), Place(s, i)>>
  BY <1>1, <1>2, <1>3, <1>4
<1> QED BY <1>6, <1>7, <1>8 DEF r, items

\* Whatever the calls before, a list whose arrays are sound is read back with every
\* value at its place among the values of its name, whenever it is written.
THEOREM WrittenInOrder == Spec => []OrderWritten
<1>1. ASSUME TagAssumption, Inductive
      PROVE  OrderWritten
  <2> DEFINE r == Read(Build(tags))
  <2>1. tags \in Seq(Tag) /\ InOrder(tags)
    BY <1>1 DEF Inductive, TypeOK, Ordered
  <2>2. r \in Seq(Tag)
    BY <1>1, <2>1, BuildGood, ReadGood
  <2>3. /\ Distinct(r)
        /\ {<<ItemOf(r[k]), r[k].dataidx>> : k \in DOMAIN r}
             = {<<ItemOf(tags[i]), Place(tags, i)>> : i \in Writable(tags)}
    BY <1>1, <2>1, ReadBack
  <2> HIDE DEF r
  <2>4. ASSUME NEW t \in Sorts(r)
        PROVE  /\ Distinct(t)
               /\ {<<ItemOf(t[k]), t[k].dataidx>> : k \in DOMAIN t}
                    = {<<ItemOf(r[k]), r[k].dataidx>> : k \in DOMAIN r}
    <3>1. PICK p \in Bijection(DOMAIN r, DOMAIN r) :
            /\ DOMAIN t = DOMAIN r
            /\ \A i \in DOMAIN r : /\ ItemOf(t[i]) = ItemOf(r[p[i]])
                                   /\ t[i].tag = r[p[i]].tag
                                   /\ t[i].dataidx = r[p[i]].dataidx
      BY <2>2, SortMoves
    <3>2. /\ p \in [DOMAIN r -> DOMAIN r]
          /\ \A i, j \in DOMAIN r : p[i] = p[j] => i = j
          /\ \A k \in DOMAIN r : \E i \in DOMAIN r : p[i] = k
      BY Fun_BijectionProperties
    <3>3. Distinct(t)
      BY <2>3, <3>1, <3>2 DEF Distinct
    <3>4. \A i \in DOMAIN r : <<ItemOf(t[i]), t[i].dataidx>> = <<ItemOf(r[p[i]]), r[p[i]].dataidx>>
      BY <3>1
    <3> QED BY <3>1, <3>2, <3>3, <3>4
  <2> QED BY <2>3, <2>4 DEF OrderWritten, r
<1>2. Inductive => OrderWritten
  BY TagAssumption, <1>1
<1> QED BY ListInductive, <1>2, PTL

-----------------------------------------------------------------------------
(* Reading counts as mp4tag_add_tag does.                                  *)

Covers(items, k) == {j \in 1 .. k : Kind[items[j].name] = "cover"}
Run(items, k)    == {j \in 1 .. k - 1 : \A i \in j .. k - 1 : items[i].name = items[k].name}

EntryAt(items, k) ==
  Entry(items[k].name, ReadIndex(items, k), items[k].data, items[k].type,
        items[k].covername)

\* The list and the count after the first k items by the closed form, and by one
\* more call of mp4tag_add_tag from r.
ReadTo(items, k) ==
  [tags |-> [j \in 1 .. k |-> EntryAt(items, j)], count |-> Cardinality(Covers(items, k))]

AddNext(items, r, k) ==
  LET item == items[k]
      a    == [name |-> item.name, index |-> NoIndex, isname |-> FALSE]
  IN [tags  |-> Append(r.tags, Entry(item.name, AddedIndex(r.tags, r.count, a),
                                     item.data, item.type, item.covername)),
      count |-> AddedCount(r.count, a)]

\* An item adds one to the covers if it is a cover, and one to the run of its
\* name, which starts where the name before is another.
LEMMA CountsGrow ==
  ASSUME NEW items \in Seq(Item), NEW k \in 1 .. Len(items)
  PROVE  /\ Cardinality(Covers(items, k - 1)) \in Nat
         /\ Cardinality(Covers(items, k))
              = IF Kind[items[k].name] = "cover" THEN Cardinality(Covers(items, k - 1)) + 1
                ELSE Cardinality(Covers(items, k - 1))
         /\ k = 1 \/ items[k - 1].name # items[k].name => Cardinality(Run(items, k)) = 0
         /\ k > 1 /\ items[k - 1].name = items[k].name
              => Cardinality(Run(items, k)) = Cardinality(Run(items, k - 1)) + 1
<1> DEFINE C == Covers(items, k - 1)
<1>1. k \in Nat /\ k >= 1 /\ k - 1 \in Int /\ k - 2 \in Int
  OBVIOUS
<1>2. IsFiniteSet(C) /\ Cardinality(C) \in Nat
  <2> DEFINE m == k - 1
  <2>1. m \in Int /\ \A x \in C : x \in 1 .. m
    BY <1>1 DEF Covers
  <2> HIDE DEF m, C
  <2> QED BY <2>1, Positions
<1>3. k \notin C
  BY <1>1 DEF Covers
<1>4. Cardinality(Covers(items, k))
        = IF Kind[items[k].name] = "cover" THEN Cardinality(C) + 1 ELSE Cardinality(C)
  <2>1. CASE Kind[items[k].name] = "cover"
    <3>1. Covers(items, k) = C \cup {k}
      BY <1>1, <2>1 DEF Covers
    <3> HIDE DEF C
    <3> QED BY <1>2, <1>3, <2>1, <3>1, FS_AddElement
  <2>2. CASE Kind[items[k].name] # "cover"
    <3>1. Covers(items, k) = C
      BY <1>1, <2>2 DEF Covers
    <3> QED BY <2>2, <3>1
  <2> QED BY <2>1, <2>2
<1>5. ASSUME k = 1 \/ items[k - 1].name # items[k].name
      PROVE  Cardinality(Run(items, k)) = 0
  <2>1. Run(items, k) = {}
    BY <1>1, <1>5 DEF Run
  <2> QED BY <2>1, FS_EmptySet
<1>6. ASSUME k > 1, items[k - 1].name = items[k].name
      PROVE  Cardinality(Run(items, k)) = Cardinality(Run(items, k - 1)) + 1
  <2> DEFINE R == Run(items, k - 1)
  <2>1. IsFiniteSet(R)
    <3> DEFINE m == k - 2
    <3>1. m \in Int /\ \A x \in R : x \in 1 .. m
      BY <1>1 DEF Run
    <3> HIDE DEF m, R
    <3> QED BY <3>1, Positions
  <2>2. k - 1 \notin R
    BY <1>1 DEF Run
  <2>3. Run(items, k) = R \cup {k - 1}
    <3>1. ASSUME NEW j \in Run(items, k), j # k - 1
          PROVE  j \in R
      BY <1>1, <1>6, <3>1 DEF Run
    <3>2. ASSUME NEW j \in R
          PROVE  j \in Run(items, k)
      <4>1. j \in 1 .. k - 1 /\ \A i \in j .. k - 2 : items[i].name = items[k - 1].name
        BY <1>1 DEF Run
      <4>2. \A i \in j .. k - 1 : i = k - 1 \/ i \in j .. k - 2
        BY <1>1, <4>1
      <4> QED BY <1>6, <4>1, <4>2 DEF Run
    <3>3. k - 1 \in Run(items, k)
      BY <1>1, <1>6 DEF Run
    <3> QED BY <3>1, <3>2, <3>3
  <2> HIDE DEF R
  <2>4. Cardinality(R \cup {k - 1}) = Cardinality(R) + 1
    BY <2>1, <2>2, FS_AddElement
  <2> QED BY <2>3, <2>4 DEF R
<1> QED BY <1>2, <1>4, <1>5, <1>6

\* A function on 1 .. m is a sequence, and one longer with a value appended.
LEMMA ListOfAny ==
  ASSUME NEW m \in Nat, NEW t, t = [j \in 1 .. m |-> t[j]], NEW e
  PROVE  /\ Len(t) = m
         /\ Append(t, e) = [j \in 1 .. m + 1 |-> IF j = m + 1 THEN e ELSE t[j]]
<1> DEFINE S == {t[j] : j \in 1 .. m} \cup {e}
<1>1. t \in [1 .. m -> S] /\ e \in S
  OBVIOUS
<1> HIDE DEF S
<1>2. t \in Seq(S)
  BY <1>1
<1>3. Len(t) = m
  BY <1>1, <1>2
<1> QED BY <1>1, <1>2, <1>3

\* The closed form satisfies the recursion.
LEMMA ReadNext ==
  ASSUME TagAssumption, NEW items \in Seq(Item), NEW k \in 1 .. Len(items)
  PROVE  ReadTo(items, k) = AddNext(items, ReadTo(items, k - 1), k)
<1> DEFINE r == ReadTo(items, k - 1)
           a == [name |-> items[k].name, index |-> NoIndex, isname |-> FALSE]
           s == [j \in 1 .. k - 1 |-> EntryAt(items, j)]
           m == k - 1
<1>1. m \in Nat /\ k = m + 1 /\ k \in Nat
  OBVIOUS
<1>2. r.tags = s /\ r.count = Cardinality(Covers(items, m))
  BY DEF ReadTo
<1>3. /\ Len(s) = m
      /\ Append(s, EntryAt(items, k))
           = [j \in 1 .. m + 1 |-> IF j = m + 1 THEN EntryAt(items, k) ELSE s[j]]
  <2>1. s = [j \in 1 .. m |-> s[j]]
    OBVIOUS
  <2> HIDE DEF s, m
  <2> QED BY <1>1, <2>1, ListOfAny
<1>4. a.name = items[k].name /\ a.index = NoIndex
  OBVIOUS
<1>5. \A j \in 1 .. m : s[j].tag = items[j].name /\ s[j].dataidx = ReadIndex(items, j)
  BY DEF EntryAt, Entry
<1>6. Cardinality(Covers(items, k)) = AddedCount(r.count, a)
  <2>1. Cardinality(Covers(items, k))
          = IF Kind[items[k].name] = "cover" THEN Cardinality(Covers(items, m)) + 1
            ELSE Cardinality(Covers(items, m))
    BY CountsGrow
  <2> HIDE DEF r, a, m
  <2> QED BY <1>2, <1>4, <2>1 DEF AddedCount
<1>7. ReadIndex(items, k) = AddedIndex(r.tags, r.count, a)
  <2>1. CASE Kind[items[k].name] = "cover"
    <3>1. ReadIndex(items, k) = Cardinality(Covers(items, m))
      BY <2>1 DEF ReadIndex, Covers
    <3> HIDE DEF r, a, m
    <3> QED BY <1>2, <1>4, <2>1, <3>1 DEF AddedIndex
  <2>2. CASE Kind[items[k].name] # "cover" /\ m > 0 /\ items[m].name = items[k].name
    <3>1. ReadIndex(items, k) = Cardinality(Run(items, k))
      BY <2>2 DEF ReadIndex, Run
    <3>2. ReadIndex(items, m) = Cardinality(Run(items, m))
      BY <2>2 DEF ReadIndex, Run
    <3>3. Cardinality(Run(items, k)) = Cardinality(Run(items, m)) + 1
      BY <1>1, <2>2, CountsGrow
    <3>4. m \in 1 .. m
      BY <1>1, <2>2
    <3>5. s[Len(s)].tag = items[k].name /\ s[Len(s)].dataidx = ReadIndex(items, m)
      BY <1>3, <1>5, <2>2, <3>4
    <3> HIDE DEF r, a, m, s
    <3>6. Continues(r.tags, a)
      BY <1>2, <1>3, <1>4, <2>2, <3>5 DEF Continues
    <3> QED BY <1>2, <1>4, <2>2, <3>1, <3>2, <3>3, <3>5, <3>6 DEF AddedIndex
  <2>3. CASE Kind[items[k].name] # "cover" /\ ~ (m > 0 /\ items[m].name = items[k].name)
    <3>1. ReadIndex(items, k) = Cardinality(Run(items, k))
      BY <2>3 DEF ReadIndex, Run
    <3>2. Cardinality(Run(items, k)) = 0
      BY <1>1, <2>3, CountsGrow
    <3>3. m > 0 => s[Len(s)].tag = items[m].name
      <4>1. m > 0 => m \in 1 .. m
        BY <1>1
      <4> QED BY <1>3, <1>5, <4>1
    <3> HIDE DEF r, a, m, s
    <3>4. ~ Continues(r.tags, a)
      BY <1>2, <1>3, <1>4, <2>3, <3>3 DEF Continues
    <3> QED BY <1>2, <1>4, <2>3, <3>1, <3>2, <3>4 DEF AddedIndex
  <2> QED BY <2>1, <2>2, <2>3
<1>8. [j \in 1 .. k |-> EntryAt(items, j)] = Append(s, EntryAt(items, k))
  <2>1. \A j \in 1 .. m + 1 : j # m + 1 => j \in 1 .. m
    BY <1>1
  <2> QED BY <1>1, <1>3, <2>1
<1>9. EntryAt(items, k)
        = Entry(items[k].name, AddedIndex(r.tags, r.count, a), items[k].data,
                items[k].type, items[k].covername)
  BY <1>7 DEF EntryAt
<1>10. AddNext(items, r, k)
         = [tags |-> Append(r.tags, EntryAt(items, k)), count |-> AddedCount(r.count, a)]
  BY <1>9 DEF AddNext
<1>11. ReadTo(items, k)
         = [tags |-> Append(s, EntryAt(items, k)), count |-> AddedCount(r.count, a)]
  BY <1>6, <1>8 DEF ReadTo
<1> HIDE DEF r, s, a
<1> QED BY <1>2, <1>10, <1>11 DEF r

\* So it is what the loop of calls leaves, after any number of items.
LEMMA AddedIsRead ==
  ASSUME TagAssumption, NEW items \in Seq(Item), NEW n \in 0 .. Len(items)
  PROVE  Added(items, n) = ReadTo(items, n)
<1> DEFINE g     == [k \in 0 .. n |-> ReadTo(items, k)]
           base  == [tags |-> << >>, count |-> 0]
           Eq(v) == v = [k \in 0 .. n |-> IF k = 0 THEN base ELSE AddNext(items, v[k - 1], k)]
           u     == CHOOSE v : Eq(v)
<1>1. n \in Nat /\ \A k \in 1 .. n : k \in 1 .. Len(items) /\ k - 1 \in 0 .. n
  OBVIOUS
<1>2. ReadTo(items, 0) = base
  <2>1. Covers(items, 0) = {} /\ [j \in 1 .. 0 |-> EntryAt(items, j)] = << >>
    BY DEF Covers
  <2> QED BY <2>1, FS_EmptySet DEF ReadTo
<1>3. Eq(g)
  <2>1. \A k \in 0 .. n : k # 0 => k \in 1 .. n
    BY <1>1
  <2>2. \A k \in 1 .. n : g[k - 1] = ReadTo(items, k - 1)
    BY <1>1
  <2>3. \A k \in 1 .. n : ReadTo(items, k) = AddNext(items, g[k - 1], k)
    BY <1>1, <2>2, ReadNext
  <2> HIDE DEF base
  <2> QED BY <1>2, <2>1, <2>3
<1>4. Eq(u)
  <2> HIDE DEF Eq
  <2> QED BY <1>3
<1>5. Added(items, n) = u[n]
  BY DEF Added, AddNext
<1> HIDE DEF u, base
<1>6. u[0] = base /\ \A k \in 1 .. n : u[k] = AddNext(items, u[k - 1], k)
  BY <1>1, <1>4
<1> DEFINE P == {k \in Nat : k <= n => u[k] = ReadTo(items, k)}
<1>7. 0 \in P
  BY <1>2, <1>6
<1>8. ASSUME NEW k \in Nat, k < n, k \in P
      PROVE  k + 1 \in P
  <2>1. k + 1 \in 1 .. n /\ (k + 1) - 1 = k /\ u[k] = ReadTo(items, k)
    BY <1>1, <1>8
  <2>2. u[k + 1] = AddNext(items, ReadTo(items, k), k + 1)
    BY <1>6, <2>1
  <2>3. ReadTo(items, k + 1) = AddNext(items, ReadTo(items, k), k + 1)
    BY <1>1, <2>1, ReadNext
  <2> QED BY <2>2, <2>3
<1>9. \A k \in 0 .. n : k \in P
  <2> HIDE DEF P
  <2> QED BY <1>1, <1>7, <1>8, BoundedInduction
<1>10. u[n] = ReadTo(items, n)
  BY <1>1, <1>9
<1> QED BY <1>5, <1>10

\* In every file the indexes of the closed form are the ones that are handed out
\* when the items are added one after the other.
THEOREM ReadingIsAdding == Spec => []ReadIsAdding
<1>1. ASSUME TagAssumption, Inductive
      PROVE  ReadIsAdding
  <2>1. disk \in Seq(Item) /\ DOMAIN disk = 1 .. Len(disk) /\ Len(disk) \in 0 .. Len(disk)
    BY <1>1 DEF Inductive, TypeOK
  <2>2. Added(disk, Len(disk)) = ReadTo(disk, Len(disk))
    BY <1>1, <2>1, AddedIsRead
  <2>3. ReadTo(disk, Len(disk)) = [tags |-> Read(disk), count |-> ReadCount(disk)]
    BY <2>1 DEF ReadTo, Read, ReadCount, EntryAt, Covers
  <2> QED BY <2>2, <2>3 DEF ReadIsAdding
<1>2. Inductive => ReadIsAdding
  BY TagAssumption, <1>1
<1> QED BY ListInductive, <1>2, PTL

-----------------------------------------------------------------------------
(* Bags of the values of a function with a finite domain.                  *)

ValuesOf(s) == {s[i] : i \in DOMAIN s}
Hits(s, x)  == {i \in DOMAIN s : s[i] = x}

\* The bag of such a function counts the places of each of its values.
LEMMA BagCounts ==
  ASSUME NEW s
  PROVE  BagOf(s) = [x \in ValuesOf(s) |-> Cardinality(Hits(s, x))]
BY DEF BagOf, ValuesOf, Hits

\* It is a bag: every value has a place, and not infinitely many.
LEMMA BagIsBag ==
  ASSUME NEW s, IsFiniteSet(DOMAIN s)
  PROVE  /\ Store!IsABag(BagOf(s))
         /\ \A x \in ValuesOf(s) : Cardinality(Hits(s, x)) \in Nat \ {0}
<1>1. ASSUME NEW x \in ValuesOf(s)
      PROVE  Cardinality(Hits(s, x)) \in Nat \ {0}
  <2>1. Hits(s, x) \in SUBSET DOMAIN s /\ Hits(s, x) # {}
    BY DEF Hits, ValuesOf
  <2>2. IsFiniteSet(Hits(s, x))
    BY <2>1, FS_Subset
  <2>3. Cardinality(Hits(s, x)) \in Nat /\ Cardinality(Hits(s, x)) # 0
    BY <2>1, <2>2, FS_CardinalityType, FS_EmptySet
  <2> QED BY <2>3
<1>2. Store!IsABag(BagOf(s))
  BY <1>1, BagCounts DEF Store!IsABag
<1> QED BY <1>1, <1>2

\* The same values at other places make the same bag.
LEMMA BijectionBag ==
  ASSUME NEW s, NEW t, IsFiniteSet(DOMAIN s),
         NEW f \in Bijection(DOMAIN s, DOMAIN t),
         \A i \in DOMAIN s : t[f[i]] = s[i]
  PROVE  BagOf(t) = BagOf(s)
<1>1. /\ f \in [DOMAIN s -> DOMAIN t]
      /\ \A i, j \in DOMAIN s : f[i] = f[j] => i = j
      /\ \A k \in DOMAIN t : \E i \in DOMAIN s : f[i] = k
  BY Fun_BijectionProperties
<1>2. ValuesOf(s) = ValuesOf(t)
  BY <1>1 DEF ValuesOf
<1>3. ASSUME NEW x
      PROVE  Cardinality(Hits(t, x)) = Cardinality(Hits(s, x))
  <2> DEFINE S == Hits(s, x)
             T == Hits(t, x)
             g == [i \in S |-> f[i]]
  <2>1. IsFiniteSet(S)
    <3>1. S \in SUBSET DOMAIN s
      BY DEF Hits
    <3> QED BY <3>1, FS_Subset
  <2>2. g \in [S -> T] /\ \A i, j \in S : g[i] = g[j] => i = j
    BY <1>1 DEF Hits
  <2>3. \A k \in T : \E i \in S : g[i] = k
    BY <1>1 DEF Hits
  <2>4. g \in Bijection(S, T)
    <3> HIDE DEF S, T, g
    <3> QED BY <2>2, <2>3, Fun_IsBij
  <2>5. ExistsBijection(S, T)
    BY <2>4, Fun_ExistsBij
  <2> QED BY <2>1, <2>5, FS_Bijection
<1> QED BY <1>2, <1>3, BagCounts

\* One place more adds its value to the bag, and one place less removes it.
LEMMA PlaceBag ==
  ASSUME NEW s, NEW t, NEW k, IsFiniteSet(DOMAIN s), k \notin DOMAIN s,
         DOMAIN t = DOMAIN s \cup {k}, \A i \in DOMAIN s : t[i] = s[i]
  PROVE  /\ BagOf(t) = Store!BagAdd(BagOf(s), t[k])
         /\ BagOf(s) = Store!BagRemove(BagOf(t), t[k])
<1> DEFINE v == t[k]
           cs(x) == Cardinality(Hits(s, x))
           ct(x) == Cardinality(Hits(t, x))
<1>1. ValuesOf(t) = ValuesOf(s) \cup {v}
  BY DEF ValuesOf
<1>2. \A x : x # v => ct(x) = cs(x)
  <2>1. \A x : x # v => Hits(t, x) = Hits(s, x)
    BY DEF Hits
  <2> QED BY <2>1
<1>3. IsFiniteSet(Hits(s, v)) /\ k \notin Hits(s, v)
  <2>1. Hits(s, v) \in SUBSET DOMAIN s
    BY DEF Hits
  <2> QED BY <2>1, FS_Subset
<1>4. cs(v) \in Nat /\ ct(v) = cs(v) + 1
  <2>1. Hits(t, v) = Hits(s, v) \cup {k}
    BY DEF Hits
  <2> QED BY <1>3, <2>1, FS_CardinalityType, FS_AddElement
<1>5. v \notin ValuesOf(s) => cs(v) = 0
  <2>1. v \notin ValuesOf(s) => Hits(s, v) = {}
    BY DEF Hits, ValuesOf
  <2> QED BY <2>1, FS_EmptySet
<1>6. v \in ValuesOf(s) => cs(v) # 0
  BY BagIsBag
<1>7. BagOf(s) = [x \in ValuesOf(s) |-> cs(x)] /\ BagOf(t) = [x \in ValuesOf(t) |-> ct(x)]
  BY BagCounts
<1> HIDE DEF v, cs, ct
<1>8. BagOf(t) = Store!BagAdd(BagOf(s), v)
  <2>1. CASE v \in ValuesOf(s)
    BY <1>1, <1>2, <1>4, <1>7, <2>1 DEF Store!BagAdd
  <2>2. CASE v \notin ValuesOf(s)
    BY <1>1, <1>2, <1>4, <1>5, <1>7, <2>2 DEF Store!BagAdd
  <2> QED BY <2>1, <2>2
<1>9. BagOf(s) = Store!BagRemove(BagOf(t), v)
  <2>1. CASE v \in ValuesOf(s)
    <3>1. ct(v) # 1 /\ ct(v) - 1 = cs(v) /\ ValuesOf(t) = ValuesOf(s)
      BY <1>1, <1>4, <1>6, <2>1
    <3> QED BY <1>2, <1>7, <2>1, <3>1 DEF Store!BagRemove
  <2>2. CASE v \notin ValuesOf(s)
    <3>1. ct(v) = 1 /\ ValuesOf(t) \ {v} = ValuesOf(s) /\ v \in ValuesOf(t)
      BY <1>1, <1>4, <1>5, <2>2
    <3> QED BY <1>2, <1>7, <2>2, <3>1 DEF Store!BagRemove
  <2> QED BY <2>1, <2>2
<1> QED BY <1>8, <1>9 DEF v

-----------------------------------------------------------------------------
(* The bag of a list under the operations of the list.                     *)

Bag(s) == BagOf(Contents(s))

\* The contents of a list have its positions.
LEMMA ContentsPlaces ==
  ASSUME NEW s \in Seq(Tag)
  PROVE  /\ DOMAIN Contents(s) = DOMAIN s
         /\ IsFiniteSet(DOMAIN s)
         /\ DOMAIN s = 1 .. Len(s) /\ Len(s) \in Nat
         /\ \A i \in DOMAIN s : s[i] \in Tag /\ Contents(s)[i] = ItemOf(s[i])
<1>1. DOMAIN s = 1 .. Len(s) /\ Len(s) \in Nat /\ \A i \in DOMAIN s : s[i] \in Tag
  OBVIOUS
<1>2. IsFiniteSet(1 .. Len(s))
  BY <1>1, IntervalSize
<1> QED BY <1>1, <1>2 DEF Contents

\* mp4tag_sort_tags: sorting neither loses nor doubles a tag.
LEMMA SortsBag ==
  ASSUME NEW s \in Seq(Tag), NEW t \in Sorts(s)
  PROVE  Bag(t) = Bag(s)
<1> DEFINE D == DOMAIN s
<1>1. PICK p \in Bijection(D, D) :
        DOMAIN t = D /\ \A i \in D : ItemOf(t[i]) = ItemOf(s[p[i]])
  BY SortMoves
<1>2. p \in [D -> D]
  BY Fun_BijectionProperties
<1>3. IsFiniteSet(D) /\ \A i \in D : Contents(s)[i] = ItemOf(s[i])
  BY ContentsPlaces
<1>4. DOMAIN Contents(t) = D /\ DOMAIN Contents(s) = D
  BY <1>1 DEF Contents
<1>5. \A i \in D : Contents(s)[p[i]] = Contents(t)[i]
  BY <1>1, <1>2 DEF Contents
<1> HIDE DEF D
<1> QED BY <1>1, <1>3, <1>4, <1>5, BijectionBag DEF Bag

\* mp4tag_add_tag adds one tag to the bag.
LEMMA AppendBag ==
  ASSUME NEW s \in Seq(Tag), NEW e \in Tag
  PROVE  /\ Bag(Append(s, e)) = Store!BagAdd(Bag(s), ItemOf(e))
         /\ ItemOf(e) \in DOMAIN Bag(Append(s, e))
<1> DEFINE t == Append(s, e)
           k == Len(s) + 1
<1>1. /\ t \in Seq(Tag) /\ DOMAIN t = DOMAIN s \cup {k} /\ k \notin DOMAIN s /\ t[k] = e
      /\ \A i \in DOMAIN s : t[i] = s[i]
  BY ContentsPlaces
<1>2. DOMAIN Contents(s) = DOMAIN s /\ DOMAIN Contents(t) = DOMAIN t /\ IsFiniteSet(DOMAIN s)
  BY <1>1, ContentsPlaces
<1>3. Contents(t)[k] = ItemOf(e) /\ \A i \in DOMAIN s : Contents(t)[i] = Contents(s)[i]
  BY <1>1 DEF Contents
<1>4. ItemOf(e) \in DOMAIN Bag(t)
  <2>1. k \in DOMAIN Contents(t)
    BY <1>1, <1>2
  <2> QED BY <1>3, <2>1, BagCounts DEF Bag, ValuesOf
<1> HIDE DEF t, k
<1>5. Bag(t) = Store!BagAdd(Bag(s), ItemOf(e))
  BY <1>1, <1>2, <1>3, PlaceBag DEF Bag
<1> QED BY <1>4, <1>5 DEF t

\* The list without the entry at a position.
Rest(s, k) == [i \in DOMAIN s \ {k} |-> ItemOf(s[i])]

\* Its bag lacks that entry.
LEMMA RestBag ==
  ASSUME NEW s \in Seq(Tag), NEW k \in DOMAIN s
  PROVE  /\ ItemOf(s[k]) \in DOMAIN Bag(s)
         /\ BagOf(Rest(s, k)) = Store!BagRemove(Bag(s), ItemOf(s[k]))
         /\ Bag(s) = Store!BagAdd(BagOf(Rest(s, k)), ItemOf(s[k]))
<1> DEFINE r == Rest(s, k)
           t == Contents(s)
<1>1. /\ DOMAIN t = DOMAIN s /\ IsFiniteSet(DOMAIN s)
      /\ \A i \in DOMAIN s : t[i] = ItemOf(s[i])
  BY ContentsPlaces
<1>2. /\ DOMAIN r = DOMAIN s \ {k} /\ \A i \in DOMAIN r : r[i] = t[i]
  BY <1>1 DEF Rest
<1>3. IsFiniteSet(DOMAIN r) /\ k \notin DOMAIN r /\ DOMAIN t = DOMAIN r \cup {k}
  BY <1>1, <1>2, FS_Subset
<1>4. t[k] \in DOMAIN BagOf(t)
  BY <1>1, BagCounts DEF ValuesOf
<1> HIDE DEF r, t
<1>5. BagOf(t) = Store!BagAdd(BagOf(r), t[k]) /\ BagOf(r) = Store!BagRemove(BagOf(t), t[k])
  BY <1>2, <1>3, PlaceBag
<1> QED BY <1>1, <1>4, <1>5 DEF Bag, r, t

\* Replacing an entry exchanges one tag of the bag.
LEMMA ReplaceBag ==
  ASSUME NEW s \in Seq(Tag), NEW k \in DOMAIN s, NEW e \in Tag
  PROVE  LET t == [s EXCEPT ![k] = e]
         IN /\ Bag(t) = Store!BagAdd(Store!BagRemove(Bag(s), ItemOf(s[k])), ItemOf(e))
            /\ ItemOf(s[k]) \in DOMAIN Bag(s)
            /\ ItemOf(e) \in DOMAIN Bag(t)
<1> DEFINE t == [s EXCEPT ![k] = e]
<1>1. t \in Seq(Tag) /\ DOMAIN t = DOMAIN s /\ t[k] = e
  BY ContentsPlaces
<1>2. Rest(t, k) = Rest(s, k)
  BY DEF Rest
<1> HIDE DEF t
<1>3. /\ ItemOf(e) \in DOMAIN Bag(t)
      /\ Bag(t) = Store!BagAdd(BagOf(Rest(t, k)), ItemOf(e))
  BY <1>1, RestBag
<1>4. /\ ItemOf(s[k]) \in DOMAIN Bag(s)
      /\ BagOf(Rest(s, k)) = Store!BagRemove(Bag(s), ItemOf(s[k]))
  BY RestBag
<1> QED BY <1>2, <1>3, <1>4 DEF t

\* mp4tag_del_tag removes one tag from the bag.
LEMMA WithoutBag ==
  ASSUME NEW s \in Seq(Tag), NEW idx \in 0 .. Len(s) - 1
  PROVE  /\ At(idx) \in DOMAIN s
         /\ ItemOf(s[At(idx)]) \in DOMAIN Bag(s)
         /\ Bag(Without(s, idx)) = Store!BagRemove(Bag(s), ItemOf(s[At(idx)]))
<1> DEFINE from(i) == IF i <= idx THEN i ELSE i + 1
           k == At(idx)
           t == Without(s, idx)
           f == [i \in DOMAIN t |-> from(i)]
           r == Rest(s, k)
<1>1. DOMAIN s = 1 .. Len(s) /\ Len(s) \in Nat /\ \A i \in DOMAIN s : s[i] \in Tag
  BY ContentsPlaces
<1>2. k = idx + 1 /\ k \in DOMAIN s /\ idx \in Int
  BY <1>1 DEF At
<1>3. DOMAIN t = 1 .. Len(s) - 1 /\ DOMAIN Contents(t) = DOMAIN t /\ DOMAIN r = DOMAIN s \ {k}
  BY DEF Without, Contents, Rest
<1>4. f \in Bijection(DOMAIN t, DOMAIN r)
  <2>1. f \in [DOMAIN t -> DOMAIN r]
    BY <1>1, <1>2, <1>3
  <2>2. \A i, j \in DOMAIN t : f[i] = f[j] => i = j
    BY <1>1, <1>2, <1>3
  <2>3. ASSUME NEW j \in DOMAIN r
        PROVE  \E i \in DOMAIN t : f[i] = j
    <3>1. CASE j <= idx
      BY <1>1, <1>2, <1>3, <3>1
    <3>2. CASE ~ (j <= idx)
      <4>1. j - 1 \in DOMAIN t /\ f[j - 1] = j
        BY <1>1, <1>2, <1>3, <3>2
      <4> QED BY <4>1
    <3> QED BY <3>1, <3>2
  <2> HIDE DEF f, t, r
  <2> QED BY <2>1, <2>2, <2>3, Fun_IsBij
<1>5. ASSUME NEW i \in DOMAIN t
      PROVE  r[f[i]] = Contents(t)[i]
  <2>1. from(i) \in DOMAIN s \ {k}
    BY <1>1, <1>2, <1>3
  <2>2. t[i] = [s[from(i)] EXCEPT !.idx = i - 1] /\ s[from(i)] \in Tag
    BY <1>1, <1>3, <2>1 DEF Without
  <2>3. ItemOf(t[i]) = ItemOf(s[from(i)])
    <3> HIDE DEF t, from
    <3> QED BY <2>2 DEF ItemOf, Tag
  <2>4. f[i] = from(i) /\ r[from(i)] = ItemOf(s[from(i)]) /\ Contents(t)[i] = ItemOf(t[i])
    <3> HIDE DEF from
    <3> QED BY <2>1 DEF Contents, Rest
  <2> QED BY <2>3, <2>4
<1>6. IsFiniteSet(DOMAIN t)
  BY <1>1, <1>3, IntervalSize, FS_Interval
<1>7. BagOf(r) = BagOf(Contents(t))
  <2> HIDE DEF f, t, r
  <2> QED BY <1>3, <1>4, <1>5, <1>6, BijectionBag
<1>8. ItemOf(s[k]) \in DOMAIN Bag(s) /\ BagOf(r) = Store!BagRemove(Bag(s), ItemOf(s[k]))
  BY <1>2, RestBag
<1> QED BY <1>2, <1>7, <1>8 DEF Bag

\* Reading a file makes a list of the tags that are in it.
LEMMA ReadBag ==
  ASSUME TagAssumption, NEW items \in Seq(Item)
  PROVE  Bag(Read(items)) = BagOf(items)
<1>1. DOMAIN items = 1 .. Len(items) /\ \A k \in DOMAIN items : items[k] \in Item
  OBVIOUS
<1>2. ASSUME NEW k \in DOMAIN items
      PROVE  ItemOf(Read(items)[k]) = items[k]
  <2>1. Read(items)[k] = Entry(items[k].name, ReadIndex(items, k), items[k].data,
                               items[k].type, items[k].covername)
    BY DEF Read
  <2>2. items[k] \in Item
    BY <1>1
  <2> QED BY <2>1, <2>2 DEF Entry, ItemOf, Item
<1>3. Contents(Read(items)) = [k \in DOMAIN items |-> items[k]]
  <2>1. DOMAIN Read(items) = DOMAIN items
    BY DEF Read
  <2> QED BY <1>2, <2>1 DEF Contents
<1>4. items = [k \in DOMAIN items |-> items[k]]
  BY <1>1
<1> QED BY <1>3, <1>4 DEF Bag

\* mp4tag_build_data writes the tags that are ever written, each once.
LEMMA BuildBag ==
  ASSUME TagAssumption, NEW s \in Seq(Tag)
  PROVE  BagOf(Build(s)) = Store!Writable(Bag(s))
<1> DEFINE b == Build(s)
           W == Writable(s)
           r == [i \in W |-> ItemOf(s[i])]
           f == [n \in DOMAIN b |-> Nth(s, n)]
           written(x) == x.name \notin {n \in Names : Priority[n] = NoWrite}
<1>1. W \subseteq DOMAIN s /\ IsFiniteSet(W) /\ IsFiniteSet(DOMAIN s)
  BY WriteOrder, ContentsPlaces
<1>2. IsFiniteSet(DOMAIN b)
  <2>1. DOMAIN b = 1 .. Cardinality(W) /\ Cardinality(W) \in Nat
    BY <1>1, FS_CardinalityType DEF Build
  <2> HIDE DEF b, W
  <2> QED BY <2>1, IntervalSize
<1>3. f \in Bijection(DOMAIN b, DOMAIN r)
  <2>1. f \in [DOMAIN b -> DOMAIN r]
    BY WritesEachOnce
  <2>2. \A m, n \in DOMAIN b : f[m] = f[n] => m = n
    <3>1. DOMAIN b = 1 .. Cardinality(W)
      BY DEF Build
    <3>2. \A n \in DOMAIN b : WriteRank(s, f[n]) = n
      BY <3>1, NthWritten
    <3> HIDE DEF f, b
    <3> QED BY <3>2
  <2>3. \A i \in DOMAIN r : \E n \in DOMAIN b : f[n] = i
    BY WritesEachOnce
  <2> HIDE DEF f, b, r
  <2> QED BY <2>1, <2>2, <2>3, Fun_IsBij
<1>4. \A n \in DOMAIN b : r[f[n]] = b[n]
  BY WritesEachOnce
<1>5. BagOf(r) = BagOf(b)
  <2> HIDE DEF f, b, r
  <2> QED BY <1>2, <1>3, <1>4, BijectionBag
<1>6. ASSUME NEW i \in DOMAIN s
      PROVE  i \in W <=> written(Contents(s)[i])
  <2>1. s[i] \in Tag /\ Contents(s)[i] = ItemOf(s[i])
    BY ContentsPlaces
  <2>2. s[i].tag \in Names /\ ItemOf(s[i]).name = s[i].tag
    BY <2>1 DEF Tag, ItemOf
  <2> QED BY <2>1, <2>2 DEF Writable
<1>7. /\ DOMAIN Contents(s) = DOMAIN s /\ DOMAIN r = W
      /\ \A i \in W : r[i] = Contents(s)[i]
  BY <1>1, ContentsPlaces
<1> HIDE DEF r, W, written
<1>8. ValuesOf(r) = {x \in ValuesOf(Contents(s)) : written(x)}
  BY <1>1, <1>6, <1>7 DEF ValuesOf
<1>9. \A x : written(x) => Hits(r, x) = Hits(Contents(s), x)
  BY <1>1, <1>6, <1>7 DEF Hits
<1>10. BagOf(r) = [x \in {y \in ValuesOf(Contents(s)) : written(y)} |->
                     Cardinality(Hits(Contents(s), x))]
  BY <1>8, <1>9, BagCounts
<1>11. BagOf(r) = Store!Writable(Bag(s))
  <2>1. Bag(s) = [x \in ValuesOf(Contents(s)) |-> Cardinality(Hits(Contents(s), x))]
    BY BagCounts DEF Bag
  <2>2. Store!Writable(Bag(s)) = [x \in {y \in DOMAIN Bag(s) : written(y)} |-> Bag(s)[x]]
    BY DEF Store!Writable, Store!BagToSet, written
  <2> QED BY <1>10, <2>1, <2>2
<1> QED BY <1>5, <1>11

\* An empty list is an empty bag.
LEMMA EmptyBagOf == Bag(<< >>) = Store!EmptyBag
<1>1. ValuesOf(Contents(<< >>)) = {}
  BY DEF ValuesOf, Contents
<1> QED BY <1>1, BagCounts DEF Bag, Store!EmptyBag, Store!SetToBag

-----------------------------------------------------------------------------
(* The calls that change one tag.                                          *)

\* What such a call may do to the bag.
TagStep == Store!Add \/ Store!Remove \/ Store!Replace \/ UNCHANGED tags

\* The bag the handle holds, before and after a step.
LEMMA HeldBag ==
  /\ BagOf(Contents(tags)) = Bag(tags)
  /\ BagOf(Contents(tags))' = Bag(tags')
BY DEF Bag, BagOf, Contents, ItemOf

\* A replaced entry keeps its name and kind, and its data or its cover name.
LEMMA ReplaceTagStep ==
  ASSUME tags \in Seq(Tag), NEW idx \in 0 .. Len(tags) - 1, NEW e \in Tag, Replace(idx, e),
         e.tag = tags[At(idx)].tag, ItemOf(e).type = ItemOf(tags[At(idx)]).type,
         e.data = tags[At(idx)].data \/ e.covername = tags[At(idx)].covername
  PROVE  TagStep
<1> DEFINE k == At(idx)
           t == ItemOf(tags[k])
           u == ItemOf(e)
<1>1. k \in DOMAIN tags
  BY ContentsPlaces DEF At
<1>2. tags' = [tags EXCEPT ![k] = e]
  BY DEF Replace
<1>3. /\ Bag(tags') = Store!BagAdd(Store!BagRemove(Bag(tags), t), u)
      /\ t \in DOMAIN Bag(tags)
      /\ u \in DOMAIN Bag(tags')
  BY <1>1, <1>2, ReplaceBag
<1>4. t.name = u.name /\ t.type = u.type /\ (t.data = u.data \/ t.covername = u.covername)
  BY DEF ItemOf
<1> HIDE DEF t, u
<1>5. Store!Replace
  BY <1>3, <1>4, HeldBag DEF Store!Replace, Store!BagToSet
<1> QED BY <1>5 DEF TagStep

\* A new entry adds its tag, wherever it is sorted.
LEMMA AddTagStep ==
  ASSUME tags \in Seq(Tag), NEW e \in Tag, NEW count, AddTag(e, count)
  PROVE  TagStep
<1>1. Append(tags, e) \in Seq(Tag) /\ tags' \in Sorts(Append(tags, e))
  BY DEF AddTag
<1>2. Bag(tags') = Bag(Append(tags, e))
  BY <1>1, SortsBag
<1>3. /\ Bag(tags') = Store!BagAdd(Bag(tags), ItemOf(e))
      /\ ItemOf(e) \in DOMAIN Bag(tags')
  BY <1>2, AppendBag
<1>4. Store!Add
  BY <1>3, HeldBag DEF Store!Add, Store!BagToSet
<1> QED BY <1>4 DEF TagStep

\* A deleted entry removes its tag.
LEMMA DelTagStep ==
  ASSUME tags \in Seq(Tag), NEW idx \in 0 .. Len(tags) - 1, DelTag(idx)
  PROVE  TagStep
<1>1. tags' = Without(tags, idx)
  BY DEF DelTag
<1>2. /\ ItemOf(tags[At(idx)]) \in DOMAIN Bag(tags)
      /\ Bag(tags') = Store!BagRemove(Bag(tags), ItemOf(tags[At(idx)]))
  BY <1>1, WithoutBag
<1>3. Store!Remove
  BY <1>2, HeldBag DEF Store!Remove, Store!BagToSet
<1> QED BY <1>3 DEF TagStep

\* A refused call leaves the bag alone.
LEMMA FailTagStep ==
  ASSUME NEW err, Fail(err)
  PROVE  TagStep
BY DEF Fail, list, TagStep

\* A new content keeps the rest of an entry.
LEMMA NewContentKeeps ==
  ASSUME NEW e \in Tag, NEW v \in Values \cup {NoName}
  PROVE  /\ v \in Values => LET r == [e EXCEPT !.data = v]
                            IN /\ r \in Tag /\ r.tag = e.tag /\ ItemOf(r).type = ItemOf(e).type
                               /\ r.covername = e.covername
         /\ LET r == [e EXCEPT !.covername = v]
            IN r \in Tag /\ r.tag = e.tag /\ ItemOf(r).type = ItemOf(e).type /\ r.data = e.data
BY DEF Tag, ItemOf

\* mp4tag_set_tag_string replaces or adds one tag.
LEMMA StringTagStep ==
  ASSUME TagAssumption, Inductive, NEW a \in Args, NEW v \in Values,
         NEW idx \in Find(tags, a), SetTagString(a, idx, v)
  PROVE  TagStep
<1>1. Good(tags) /\ tags \in Seq(Tag) /\ a \in Arg
  BY DEF Inductive, TypeOK, Ordered, Good, TagAssumption
<1> DEFINE e == tags[At(idx)]
<1>2. idx # NotFound => idx \in 0 .. Len(tags) - 1 /\ e \in Tag
  BY <1>1, FindGood
<1>3. CASE idx # NotFound /\ Replace(idx, [e EXCEPT !.covername = v])
  BY <1>1, <1>2, <1>3, NewContentKeeps, ReplaceTagStep
<1>4. CASE idx # NotFound /\ Replace(idx, [e EXCEPT !.data = v])
  BY <1>1, <1>2, <1>4, NewContentKeeps, ReplaceTagStep
<1>5. CASE Fail("TAG_NOT_FOUND") \/ Fail("MISMATCH")
  BY <1>5, FailTagStep
<1>6. CASE AddTag(Entry(a.name, a.index, v, NewType(a), NoName), AddedCount(datacount, a))
  <2>1. "data" \in CheckCovr(a)
    BY DEF CheckCovr
  <2> QED BY <1>1, <1>6, <2>1, NewEntry, AddTagStep
<1> QED BY <1>3, <1>4, <1>5, <1>6 DEF SetTagString

\* mp4tag_set_tag_binary replaces or adds one tag.
LEMMA BinaryTagStep ==
  ASSUME TagAssumption, Inductive, NEW a \in Args, NEW v \in Values,
         NEW idx \in Find(tags, a), NEW type \in CheckCovr(a), SetTagBinary(a, idx, v, type)
  PROVE  TagStep
<1>1. Good(tags) /\ tags \in Seq(Tag) /\ a \in Arg
  BY DEF Inductive, TypeOK, Ordered, Good, TagAssumption
<1> DEFINE e == tags[At(idx)]
<1>2. idx # NotFound => idx \in 0 .. Len(tags) - 1 /\ e \in Tag /\ e.tag = a.name
  BY <1>1, FindGood
<1>3. CASE idx # NotFound /\ Binary(e) /\ Replace(idx, [e EXCEPT !.data = v, !.type = type])
  <2> DEFINE r == [e EXCEPT !.data = v, !.type = type]
  <2>1. SameButData(r, e)
    <3> HIDE DEF e
    <3> QED BY <1>2, <1>3, NewBinary
  <2>2. /\ r \in Tag /\ r.tag = e.tag /\ r.covername = e.covername
        /\ ItemOf(r).type = ItemOf(e).type
    <3> HIDE DEF r
    <3> QED BY <2>1 DEF SameButData
  <2> HIDE DEF r
  <2> QED BY <1>1, <1>2, <1>3, <2>2, ReplaceTagStep DEF r
<1>4. CASE Fail("TAG_NOT_FOUND") \/ Fail("MISMATCH")
  BY <1>4, FailTagStep
<1>5. CASE AddTag(Entry(a.name, AddedIndex(tags, datacount, a), v, type, NoName),
                  AddedCount(datacount, a))
  BY <1>1, <1>5, NewEntry, AddTagStep
<1> QED BY <1>3, <1>4, <1>5 DEF SetTagBinary

\* mp4tag_delete_tag removes one tag, or the name of one cover.
LEMMA DeleteTagStep ==
  ASSUME TagAssumption, Inductive, NEW a \in Args, DeleteTag(a)
  PROVE  TagStep
<1>1. Good(tags) /\ tags \in Seq(Tag) /\ a \in Arg
  BY DEF Inductive, TypeOK, Ordered, Good, TagAssumption
<1>2. PICK idx \in Find(tags, a) :
        \/ Fail("TAG_NOT_FOUND")
        \/ idx # NotFound /\ Replace(idx, [tags[At(idx)] EXCEPT !.covername = NoName])
        \/ idx # NotFound /\ DelTag(idx)
  BY DEF DeleteTag
<1> DEFINE e == tags[At(idx)]
<1>3. idx # NotFound => idx \in 0 .. Len(tags) - 1 /\ e \in Tag
  BY <1>1, FindGood
<1>4. CASE Fail("TAG_NOT_FOUND")
  BY <1>4, FailTagStep
<1>5. CASE idx # NotFound /\ Replace(idx, [e EXCEPT !.covername = NoName])
  BY <1>1, <1>3, <1>5, NewContentKeeps, ReplaceTagStep
<1>6. CASE idx # NotFound /\ DelTag(idx)
  BY <1>1, <1>3, <1>6, DelTagStep
<1> QED BY <1>2, <1>4, <1>5, <1>6

-----------------------------------------------------------------------------
(* The refinement.                                                         *)

\* A step that changes one tag of an open handle at most is a step of the store
\* or leaves it alone.
LEMMA TagStepStore ==
  ASSUME open, TagStep, UNCHANGED <<disk, open, saved>>
  PROVE  Store!Next \/ UNCHANGED Store!vars
<1>1. CASE UNCHANGED tags
  BY <1>1 DEF Store!vars, Contents, BagOf, ItemOf
<1>2. CASE Store!Add \/ Store!Remove \/ Store!Replace
  <2>1. Store!Change
    BY <1>2 DEF Store!Change
  <2> QED BY <2>1 DEF Store!Next
<1> QED BY <1>1, <1>2 DEF TagStep

\* Every step of the list is a step of the store or leaves it alone.
LEMMA StepStore ==
  ASSUME TagAssumption, Inductive, [Next]_vars
  PROVE  Store!Next \/ UNCHANGED Store!vars
<1>0. /\ disk \in Seq(Item) /\ tags \in Seq(Tag)
      /\ tags' = << >> => Bag(tags') = Store!EmptyBag
  BY EmptyBagOf DEF Inductive, TypeOK
<1>1. CASE Parse
  <2>1. Bag(tags') = BagOf(disk)
    BY <1>0, <1>1, ReadGood, ReadBag, SortsBag DEF Parse
  <2>2. Store!Open
    BY <1>1, <2>1, HeldBag DEF Parse, Store!Open
  <2> QED BY <2>2 DEF Store!Next
<1>2. CASE Free
  <2>1. Store!Close
    BY <1>0, <1>2, HeldBag DEF Free, Store!Close
  <2> QED BY <2>1 DEF Store!Next
<1>3. CASE Mangle
  <2>1. disk' \in Seq(Item)
    BY <1>3 DEF Mangle, TagAssumption
  <2>2. IsFiniteSet(DOMAIN disk')
    <3>1. DOMAIN disk' = 1 .. Len(disk') /\ Len(disk') \in Nat
      BY <2>1
    <3> QED BY <3>1, IntervalSize
  <2>3. Store!IsABag(BagOf(disk'))
    BY <2>2, BagIsBag
  <2>4. Store!OtherProgram
    BY <1>3, <2>3 DEF Mangle, list, Store!OtherProgram
  <2> QED BY <2>4 DEF Store!Next
<1>4. ASSUME NEW a \in Args, GetTagByName(a)
      PROVE  UNCHANGED Store!vars
  BY <1>4 DEF GetTagByName, Look, list, Store!vars
<1>5. ASSUME NEW a \in Args, DeleteTag(a)
      PROVE  Store!Next \/ UNCHANGED Store!vars
  BY <1>5, DeleteTagStep, TagStepStore DEF DeleteTag, Change
<1>6. ASSUME NEW a \in Args, NEW v \in Values, SetBinaryTag(a, v)
      PROVE  Store!Next \/ UNCHANGED Store!vars
  <2>1. "data" \in CheckCovr(a)
    BY DEF CheckCovr
  <2>2. TagStep
    BY <1>6, <2>1, BinaryTagStep, FailTagStep DEF SetBinaryTag
  <2> QED BY <1>6, <2>2, TagStepStore DEF SetBinaryTag, Change
<1>7. ASSUME NEW a \in Args, NEW v \in Values, NEW force \in BOOLEAN, SetTag(a, v, force)
      PROVE  Store!Next \/ UNCHANGED Store!vars
  <2>1. TagStep
    BY <1>7, BinaryTagStep, StringTagStep, FailTagStep DEF SetTag
  <2> QED BY <1>7, <2>1, TagStepStore DEF SetTag, Change
<1>8. CASE CleanTags
  <2>1. Store!Change
    BY <1>0, <1>8, HeldBag DEF CleanTags, Change, Store!Change
  <2> QED BY <2>1 DEF Store!Next
<1>9. CASE WriteTags
  <2>1. SoundArrays(tags) => BagOf(disk') = Store!Writable(Bag(tags))
    BY <1>0, <1>9, BuildBag DEF WriteTags
  <2>2. ~ SoundArrays(tags) => Store!IsABag(BagOf(disk'))
    <3>1. ASSUME ~ SoundArrays(tags) PROVE disk' \in Seq(Item)
      BY <1>9, <3>1 DEF WriteTags, TagAssumption
    <3>2. ASSUME disk' \in Seq(Item) PROVE IsFiniteSet(DOMAIN disk')
      <4>1. DOMAIN disk' = 1 .. Len(disk') /\ Len(disk') \in Nat
        BY <3>2
      <4> QED BY <4>1, IntervalSize
    <3> QED BY <3>1, <3>2, BagIsBag
  <2>3. Store!Write
    BY <1>9, <2>1, <2>2, HeldBag DEF WriteTags, Store!Write
  <2> QED BY <2>3 DEF Store!Next
<1>10. CASE PreserveTags
  <2>1. CASE present
    <3>1. saved' = <<tags>> /\ saved' # NoList /\ saved'[1] = tags
      BY <1>10, <2>1 DEF PreserveTags, NoList
    <3>2. Store!Preserve
      BY <1>10, <3>1 DEF PreserveTags, list, Store!Preserve
    <3> QED BY <3>2 DEF Store!Next
  <2>2. CASE ~ present
    BY <1>10, <2>2 DEF PreserveTags, list, Store!vars
  <2> QED BY <2>1, <2>2
<1>11. CASE RestoreTags
  <2>1. Store!Restore
    BY <1>11 DEF RestoreTags, Change, Store!Restore
  <2> QED BY <2>1 DEF Store!Next
<1>12. CASE UNCHANGED vars
  BY <1>12 DEF vars, Store!vars
<1> QED BY <1>1, <1>2, <1>3, <1>4, <1>5, <1>6, <1>7, <1>8, <1>9, <1>10, <1>11, <1>12 DEF Next

\* A closed handle over any file is an initial state of the store.
LEMMA InitStore ==
  ASSUME TagAssumption, Init
  PROVE  Store!Init
<1>1. disk \in Seq(Item)
  BY DEF Init, TagAssumption
<1>2. IsFiniteSet(DOMAIN disk)
  <2>1. DOMAIN disk = 1 .. Len(disk) /\ Len(disk) \in Nat
    BY <1>1
  <2> QED BY <2>1, IntervalSize
<1>3. Store!IsABag(BagOf(disk)) /\ Bag(tags) = Store!EmptyBag
  BY <1>2, BagIsBag, EmptyBagOf DEF Init
<1> QED BY <1>3, HeldBag DEF Init, Store!Init

\* The array of tags implements a bag of tags: a call on a tag changes that one
\* tag only, and sorting, preserving and restoring lose, double and mix up none,
\* nor do writing and reading a list whose arrays are sound (mp4tag_build_append
\* does not count further numbers or binary data of one name).
THEOREM ListIsABagOfTags == Spec => StoreSpec
<1>1. Init => Store!Init
  BY TagAssumption, InitStore
<1>2. Inductive /\ [Next]_vars => [Store!Next]_(Store!vars)
  BY TagAssumption, StepStore
<1> QED BY <1>1, <1>2, ListInductive, PTL DEF Spec, StoreSpec, Store!Spec
-----------------------------------------------------------------------------
(* The keys of the list before and behind the iterator, when it changes.   *)

\* The sizes of parts of a finite set.
LEMMA Parts ==
  ASSUME NEW A, NEW B, IsFiniteSet(A), IsFiniteSet(B)
  PROVE  /\ Cardinality(A) \in Nat /\ Cardinality(B) \in Nat
         /\ IsFiniteSet(A \cup B) /\ Cardinality(A \cup B) <= Cardinality(A) + Cardinality(B)
         /\ Cardinality(A \cup B) \in Nat
         /\ A \cap B = {} => Cardinality(A \cup B) = Cardinality(A) + Cardinality(B)
<1>1. IsFiniteSet(A \cap B)
  BY FS_Intersection
<1>2. Cardinality(A) \in Nat /\ Cardinality(B) \in Nat /\ Cardinality(A \cap B) \in Nat
  BY <1>1, FS_CardinalityType
<1>3. /\ IsFiniteSet(A \cup B)
      /\ Cardinality(A \cup B) = Cardinality(A) + Cardinality(B) - Cardinality(A \cap B)
  BY FS_Union
<1>4. A \cap B = {} => Cardinality(A \cap B) = 0
  BY FS_EmptySet
<1> DEFINE a == Cardinality(A)
           b == Cardinality(B)
           i == Cardinality(A \cap B)
           u == Cardinality(A \cup B)
<1>5. a \in Nat /\ b \in Nat /\ i \in Nat /\ u = a + b - i
  BY <1>2, <1>3
<1>6. u \in Nat
  BY <1>3, FS_CardinalityType
<1> HIDE DEF a, b, i, u
<1>7. u <= a + b /\ (i = 0 => u = a + b)
  BY <1>5
<1> QED BY <1>3, <1>4, <1>5, <1>6, <1>7 DEF a, b, i, u

\* A part of a finite set is finite and not larger.
LEMMA Part ==
  ASSUME NEW A, NEW B, IsFiniteSet(B), A \subseteq B
  PROVE  /\ IsFiniteSet(A) /\ Cardinality(A) \in Nat /\ Cardinality(B) \in Nat
         /\ Cardinality(A) <= Cardinality(B)
BY FS_Subset, FS_CardinalityType

\* A change of the list: the keys before the iterator, O, and behind it, S, become
\* N and R.  No key passes from behind the iterator to before it while another
\* passes the other way, as both lists are in order.
Shift(O, S, N, R, n) ==
  /\ IsFiniteSet(O) /\ IsFiniteSet(S) /\ IsFiniteSet(N) /\ IsFiniteSet(R) /\ n \in Nat
  /\ O \cap S = {} /\ N \cap R = {}
  /\ Cardinality(O) <= n /\ (S # {} => Cardinality(O) = n)
  /\ Cardinality(N) <= n /\ (R # {} => Cardinality(N) = n)
  /\ N \cap S = {} \/ O \cap R = {}

\* The keys before the iterator that were not returned become more by the
\* number of lost and new keys at most.
LEMMA MissedShift ==
  ASSUME NEW O, NEW S, NEW N, NEW R, NEW n, Shift(O, S, N, R, n), NEW V
  PROVE  Cardinality(N \ V) <= Cardinality(O \ V) + Cardinality((O \cup S) \ (N \cup R))
                                                 + Cardinality((N \cup R) \ (O \cup S))
<1> DEFINE lost == (O \cup S) \ (N \cup R)
           new  == (N \cup R) \ (O \cup S)
<1>1. /\ IsFiniteSet(O \cup S) /\ IsFiniteSet(N \cup R)
      /\ IsFiniteSet(O) /\ IsFiniteSet(N)
  BY Parts DEF Shift
<1>2. /\ IsFiniteSet(lost) /\ IsFiniteSet(new) /\ IsFiniteSet(O \ V) /\ IsFiniteSet(N \ V)
      /\ IsFiniteSet(N \ O) /\ IsFiniteSet(O \ (N \cup R))
  BY <1>1, FS_Difference
<1>3. Cardinality(lost) \in Nat /\ Cardinality(new) \in Nat
  BY <1>2, FS_CardinalityType
<1>4. /\ Cardinality(N \ V) <= Cardinality(O \ V) + Cardinality(N \ O)
      /\ Cardinality(O \ V) \in Nat /\ Cardinality(N \ O) \in Nat /\ Cardinality(N \ V) \in Nat
  <2>1. N \ V \subseteq (O \ V) \cup (N \ O)
    OBVIOUS
  <2>2. Cardinality(N \ V) <= Cardinality((O \ V) \cup (N \ O))
    BY <1>2, <2>1, Parts, Part
  <2> QED BY <1>2, <2>2, Parts, FS_CardinalityType
<1>5. CASE N \cap S = {}
  <2>1. N \ O \subseteq new
    BY <1>5
  <2>2. Cardinality(N \ O) <= Cardinality(new)
    BY <1>2, <2>1, Part
  <2> HIDE DEF lost, new
  <2>3. Cardinality(N \ V) <= Cardinality(O \ V) + Cardinality(lost) + Cardinality(new)
    BY <1>3, <1>4, <2>2
  <2> QED BY <2>3 DEF lost, new
<1>6. CASE O \cap R = {} /\ N \cap S # {}
  <2>1. Cardinality(O) = n /\ Cardinality(N) <= n /\ n \in Nat
    BY <1>6 DEF Shift
  <2>2. O = (N \cap O) \cup (O \ (N \cup R)) /\ (N \cap O) \cap (O \ (N \cup R)) = {}
    BY <1>6
  <2>3. N = (N \cap O) \cup (N \ O) /\ (N \cap O) \cap (N \ O) = {}
    OBVIOUS
  <2>4. IsFiniteSet(N \cap O)
    BY <1>1, FS_Intersection
  <2>5. Cardinality(O) = Cardinality(N \cap O) + Cardinality(O \ (N \cup R))
    BY <1>2, <2>2, <2>4, Parts
  <2>6. Cardinality(N) = Cardinality(N \cap O) + Cardinality(N \ O)
    BY <1>2, <2>3, <2>4, Parts
  <2>7. Cardinality(O \ (N \cup R)) <= Cardinality(lost)
    BY <1>2, Part
  <2>8. Cardinality(N \cap O) \in Nat /\ Cardinality(O \ (N \cup R)) \in Nat
    BY <1>2, <2>4, FS_CardinalityType
  <2> HIDE DEF lost, new
  <2>9. Cardinality(N \ O) <= Cardinality(lost)
    BY <1>3, <1>4, <2>1, <2>5, <2>6, <2>7, <2>8
  <2>10. Cardinality(N \ V) <= Cardinality(O \ V) + Cardinality(lost) + Cardinality(new)
    BY <1>3, <1>4, <2>9
  <2> QED BY <2>10 DEF lost, new
<1> QED BY <1>5, <1>6 DEF Shift

\* The keys behind the iterator that were returned become more by the number of
\* new keys at most.
LEMMA SeenShift ==
  ASSUME NEW O, NEW S, NEW N, NEW R, NEW n, Shift(O, S, N, R, n), NEW V
  PROVE  Cardinality(V \cap R) <= Cardinality(V \cap S) + Cardinality((N \cup R) \ (O \cup S))
<1> DEFINE new == (N \cup R) \ (O \cup S)
<1>1. /\ IsFiniteSet(O \cup S) /\ IsFiniteSet(N \cup R)
      /\ IsFiniteSet(O) /\ IsFiniteSet(N) /\ IsFiniteSet(S) /\ IsFiniteSet(R)
  BY Parts DEF Shift
<1>2. /\ IsFiniteSet(new) /\ IsFiniteSet(R \ S) /\ IsFiniteSet(R \ (O \cup S))
      /\ IsFiniteSet(N \ (O \cup S)) /\ IsFiniteSet(V \cap R) /\ IsFiniteSet(V \cap S)
      /\ IsFiniteSet(O \cap R) /\ IsFiniteSet(N \cap O)
  BY <1>1, FS_Difference, FS_Intersection
<1>3. /\ Cardinality(V \cap R) <= Cardinality(V \cap S) + Cardinality(R \ S)
      /\ Cardinality(V \cap S) \in Nat /\ Cardinality(R \ S) \in Nat
      /\ Cardinality(V \cap R) \in Nat /\ Cardinality(new) \in Nat
  <2>1. V \cap R \subseteq (V \cap S) \cup (R \ S)
    OBVIOUS
  <2>2. Cardinality(V \cap R) <= Cardinality((V \cap S) \cup (R \ S))
    BY <1>2, <2>1, Parts, Part
  <2> QED BY <1>2, <2>2, Parts, FS_CardinalityType
<1>4. CASE O \cap R = {}
  <2>1. R \ S \subseteq new
    BY <1>4
  <2>2. Cardinality(R \ S) <= Cardinality(new)
    BY <1>2, <2>1, Part
  <2> HIDE DEF new
  <2>3. Cardinality(V \cap R) <= Cardinality(V \cap S) + Cardinality(new)
    BY <1>3, <2>2
  <2> QED BY <2>3 DEF new
<1>5. CASE N \cap S = {} /\ O \cap R # {}
  <2>1. Cardinality(N) = n /\ Cardinality(O) <= n /\ n \in Nat /\ N \cap R = {} /\ O \cap S = {}
    BY <1>5 DEF Shift
  <2>2. N = (N \cap O) \cup (N \ (O \cup S)) /\ (N \cap O) \cap (N \ (O \cup S)) = {}
    BY <1>5
  <2>3. (N \cap O) \cup (O \cap R) \subseteq O /\ (N \cap O) \cap (O \cap R) = {}
    BY <2>1
  <2>4. R \ S = (O \cap R) \cup (R \ (O \cup S)) /\ (O \cap R) \cap (R \ (O \cup S)) = {}
    BY <2>1
  <2>5. /\ new = (N \ (O \cup S)) \cup (R \ (O \cup S))
        /\ (N \ (O \cup S)) \cap (R \ (O \cup S)) = {}
    BY <2>1
  <2>6. Cardinality(N) = Cardinality(N \cap O) + Cardinality(N \ (O \cup S))
    BY <1>2, <2>2, Parts
  <2>7. Cardinality(N \cap O) + Cardinality(O \cap R) <= Cardinality(O)
    <3>1. Cardinality((N \cap O) \cup (O \cap R)) = Cardinality(N \cap O) + Cardinality(O \cap R)
      BY <1>2, <2>3, Parts
    <3> QED BY <1>1, <2>3, <3>1, Part
  <2>8. Cardinality(R \ S) = Cardinality(O \cap R) + Cardinality(R \ (O \cup S))
    BY <1>2, <2>4, Parts
  <2>9. Cardinality(new) = Cardinality(N \ (O \cup S)) + Cardinality(R \ (O \cup S))
    BY <1>2, <2>5, Parts
  <2>10. /\ Cardinality(N \cap O) \in Nat /\ Cardinality(O \cap R) \in Nat
         /\ Cardinality(N \ (O \cup S)) \in Nat /\ Cardinality(R \ (O \cup S)) \in Nat
         /\ Cardinality(O) \in Nat
    BY <1>1, <1>2, FS_CardinalityType
  <2> HIDE DEF new
  <2>11. Cardinality(R \ S) <= Cardinality(new)
    BY <1>3, <2>1, <2>6, <2>7, <2>8, <2>9, <2>10
  <2>12. Cardinality(V \cap R) <= Cardinality(V \cap S) + Cardinality(new)
    BY <1>3, <2>11
  <2> QED BY <2>12 DEF new
<1> QED BY <1>4, <1>5 DEF Shift

-----------------------------------------------------------------------------
(* The keys of a list before and behind a position.                        *)

Passed(s, n) == {Key(s[i]) : i \in {j \in DOMAIN s : j <= n}}
Coming(s, n) == {Key(s[i]) : i \in {j \in DOMAIN s : j > n}}

\* A list has finitely many keys.
LEMMA KeysFinite ==
  ASSUME NEW s \in Seq(Tag)
  PROVE  IsFiniteSet(Keys(s))
<1> DEFINE g == [i \in DOMAIN s |-> Key(s[i])]
<1>1. g \in Surjection(DOMAIN s, Keys(s))
  <2>1. g \in [DOMAIN s -> Keys(s)] /\ \A k \in Keys(s) : \E i \in DOMAIN s : g[i] = k
    BY DEF Keys
  <2> HIDE DEF g
  <2> QED BY <2>1, Fun_IsSurj
<1>2. IsFiniteSet(DOMAIN s)
  <2>1. DOMAIN s = 1 .. Len(s) /\ Len(s) \in Nat
    OBVIOUS
  <2> QED BY <2>1, IntervalSize
<1> QED BY <1>1, <1>2, FS_Surjection

\* They part the keys of a list without equal entries, n to the one side if any
\* are left for the other.
LEMMA CutSizes ==
  ASSUME NEW s \in Seq(Tag), Distinct(s), NEW n \in Nat
  PROVE  /\ IsFiniteSet(Passed(s, n)) /\ IsFiniteSet(Coming(s, n))
         /\ Passed(s, n) \cup Coming(s, n) = Keys(s)
         /\ Passed(s, n) \cap Coming(s, n) = {}
         /\ Cardinality(Passed(s, n)) <= n
         /\ Coming(s, n) # {} => Cardinality(Passed(s, n)) = n
<1> DEFINE P == Passed(s, n)
           m == IF n <= Len(s) THEN n ELSE Len(s)
           f == [i \in 1 .. m |-> Key(s[i])]
<1>1. DOMAIN s = 1 .. Len(s) /\ Len(s) \in Nat /\ \A i \in DOMAIN s : i \in Int
  OBVIOUS
<1>2. m \in Nat /\ m <= n /\ 1 .. m = {j \in DOMAIN s : j <= n}
  BY <1>1
<1>3. \A i, j \in DOMAIN s : Key(s[i]) = Key(s[j]) => i = j
  BY DEF Distinct, Key
<1>4. P \cup Coming(s, n) = Keys(s)
  BY <1>1 DEF Passed, Coming, Keys
<1>5. P \cap Coming(s, n) = {}
  BY <1>1, <1>3 DEF Passed, Coming
<1>6. IsFiniteSet(Keys(s))
  BY KeysFinite
<1>7. IsFiniteSet(P) /\ IsFiniteSet(Coming(s, n))
  BY <1>4, <1>6, Part
<1>8. Cardinality(P) = m
  <2>1. f \in [1 .. m -> P] /\ \A k \in P : \E i \in 1 .. m : f[i] = k
    BY <1>2 DEF Passed
  <2>2. \A i, j \in 1 .. m : f[i] = f[j] => i = j
    BY <1>2, <1>3
  <2>3. f \in Bijection(1 .. m, P)
    <3> HIDE DEF f, m, P
    <3> QED BY <2>1, <2>2, Fun_IsBij
  <2>4. ExistsBijection(1 .. m, P)
    BY <2>3, Fun_ExistsBij
  <2>5. IsFiniteSet(1 .. m) /\ Cardinality(1 .. m) = m
    BY <1>2, IntervalSize
  <2> QED BY <2>4, <2>5, FS_Bijection
<1>9. ASSUME Coming(s, n) # {}
      PROVE  m = n
  <2>1. PICK j \in DOMAIN s : j > n
    BY <1>9 DEF Coming
  <2>2. n <= Len(s)
    BY <1>1, <2>1
  <2> QED BY <2>2
<1> HIDE DEF m, P
<1>10. Cardinality(P) <= n /\ (Coming(s, n) # {} => Cardinality(P) = n)
  BY <1>2, <1>8, <1>9
<1> QED BY <1>4, <1>5, <1>7, <1>10 DEF P

\* The order of the list is one of the keys.
KeyBefore(x, y) == x[1] < y[1] \/ (x[1] = y[1] /\ x[2] < y[2])

LEMMA CutOrder ==
  ASSUME TagAssumption, NEW s, Good(s), Distinct(s), NEW n \in Nat,
         NEW x \in Passed(s, n), NEW y \in Coming(s, n)
  PROVE  KeyBefore(x, y) /\ {x[1], x[2], y[1], y[2]} \subseteq Int
<1>1. PICK i \in DOMAIN s : i <= n /\ x = Key(s[i])
  BY DEF Passed
<1>2. PICK j \in DOMAIN s : j > n /\ y = Key(s[j])
  BY DEF Coming
<1>3. i \in Int /\ j \in Int /\ s[i] \in Tag /\ s[j] \in Tag
  BY DEF Good
<1>4. i < j
  BY <1>1, <1>2, <1>3
<1>5. {s[i].tag, s[i].dataidx, s[j].tag, s[j].dataidx} \subseteq Int
  <2>1. \A e \in Tag : e.tag \in Names /\ e.dataidx \in Int
    BY DEF Tag
  <2>2. Names \subseteq Int
    BY DEF TagAssumption
  <2> QED BY <1>3, <2>1, <2>2
<1>6. ~ Before(s[j], s[i])
  BY <1>4 DEF Good, InOrder
<1>7. ~ (s[i].tag = s[j].tag /\ s[i].dataidx = s[j].dataidx)
  BY <1>3, <1>4 DEF Distinct
<1>8. Before(s[i], s[j])
  BY <1>5, <1>6, <1>7 DEF Before
<1> QED BY <1>1, <1>2, <1>5, <1>8 DEF Before, Key, KeyBefore

\* Two sorted lists, cut at the same position.
LEMMA ListShift ==
  ASSUME TagAssumption, NEW s, Good(s), Distinct(s), NEW t, Good(t), Distinct(t), NEW n \in Nat
  PROVE  Shift(Passed(s, n), Coming(s, n), Passed(t, n), Coming(t, n), n)
<1>1. s \in Seq(Tag) /\ t \in Seq(Tag)
  BY DEF Good
<1>2. Passed(t, n) \cap Coming(s, n) = {} \/ Passed(s, n) \cap Coming(t, n) = {}
  <2>1. SUFFICES ASSUME NEW x \in Passed(t, n) \cap Coming(s, n),
                        NEW y \in Passed(s, n) \cap Coming(t, n)
                 PROVE  FALSE
    OBVIOUS
  <2>2. KeyBefore(x, y) /\ KeyBefore(y, x) /\ {x[1], x[2], y[1], y[2]} \subseteq Int
    BY CutOrder
  <2> QED BY <2>2 DEF KeyBefore
<1> QED BY <1>1, <1>2, CutSizes DEF Shift

-----------------------------------------------------------------------------
(* The inductive invariant.                                                *)

\* Where an iteration stands: what it has missed and what it may repeat is
\* paid for by changes of the list.
Walk(s, it, vis, rep, rem, add) ==
  /\ Distinct(s)
  /\ Cardinality(Passed(s, it) \ vis) <= rem + add
  /\ Cardinality(vis \cap Coming(s, it)) + rep <= add

IterInv ==
  /\ iterator \in Nat /\ repeated \in Nat /\ removed \in Nat /\ added \in Nat
  /\ IsFiniteSet(visited)
  /\ distinct \in BOOLEAN
  /\ returned = "finish" => iterator >= Len(tags)
  /\ distinct => Walk(tags, iterator, visited, repeated, removed, added)

\* An iteration begins.
LEMMA WalkStart ==
  ASSUME NEW s \in Seq(Tag), Distinct(s)
  PROVE  Walk(s, 0, {}, 0, 0, 0)
<1>1. Passed(s, 0) = {}
  BY DEF Passed
<1>2. Cardinality(Passed(s, 0) \ {}) = 0 /\ Cardinality({} \cap Coming(s, 0)) = 0
  BY <1>1, FS_EmptySet
<1> QED BY <1>2 DEF Walk

\* The next tag is returned.
LEMMA WalkOn ==
  ASSUME NEW s \in Seq(Tag), NEW it \in Nat, it < Len(s), NEW vis, IsFiniteSet(vis),
         NEW rep \in Nat, NEW rem \in Nat, NEW add \in Nat, Walk(s, it, vis, rep, rem, add)
  PROVE  LET key == Key(s[At(it)])
         IN Walk(s, it + 1, vis \cup {key}, rep + (IF key \in vis THEN 1 ELSE 0), rem, add)
<1> DEFINE key == Key(s[At(it)])
           new == vis \cup {key}
<1>1. DOMAIN s = 1 .. Len(s) /\ Len(s) \in Nat /\ At(it) \in DOMAIN s /\ At(it) = it + 1
  BY DEF At
<1>2. Distinct(s) /\ IsFiniteSet(Passed(s, it)) /\ IsFiniteSet(Coming(s, it))
  BY CutSizes DEF Walk
<1>3. Passed(s, it + 1) = Passed(s, it) \cup {key}
  BY <1>1 DEF Passed
<1>4. key \in Coming(s, it) /\ key \notin Coming(s, it + 1)
  BY <1>1, <1>2 DEF Coming, Distinct, Key
<1>5. Coming(s, it) = Coming(s, it + 1) \cup {key}
  BY <1>1 DEF Coming
<1> HIDE DEF key
<1>6. Passed(s, it + 1) \ new = Passed(s, it) \ new /\ Passed(s, it) \ new \subseteq Passed(s, it) \ vis
  BY <1>3
<1>7. Cardinality(Passed(s, it + 1) \ new) <= rem + add
  <2>1. IsFiniteSet(Passed(s, it) \ vis)
    BY <1>2, FS_Difference
  <2>2. /\ Cardinality(Passed(s, it) \ new) <= Cardinality(Passed(s, it) \ vis)
        /\ Cardinality(Passed(s, it) \ new) \in Nat /\ Cardinality(Passed(s, it) \ vis) \in Nat
    BY <1>6, <2>1, Part
  <2>3. Cardinality(Passed(s, it) \ vis) <= rem + add
    BY DEF Walk
  <2> DEFINE a == Cardinality(Passed(s, it) \ new)
             b == Cardinality(Passed(s, it) \ vis)
  <2>4. a <= rem + add
    <3> HIDE DEF a, b
    <3> QED BY <2>2, <2>3 DEF a, b
  <2> QED BY <1>6, <2>4
<1>8. IsFiniteSet(vis \cap Coming(s, it)) /\ Cardinality(vis \cap Coming(s, it)) \in Nat
  BY <1>2, FS_Intersection, FS_CardinalityType
<1>9. Cardinality(vis \cap Coming(s, it)) + rep <= add
  BY DEF Walk
<1> DEFINE c == Cardinality(vis \cap Coming(s, it))
<1>10. CASE key \in vis
  <2>1. new \cap Coming(s, it + 1) = (vis \cap Coming(s, it)) \ {key}
    BY <1>4, <1>5
  <2>2. Cardinality(new \cap Coming(s, it + 1)) = Cardinality(vis \cap Coming(s, it)) - 1
    BY <1>4, <1>8, <1>10, <2>1, FS_RemoveElement
  <2>3. Cardinality(new \cap Coming(s, it + 1)) + (rep + 1) <= add
    BY <1>8, <1>9, <2>2
  <2> QED BY <1>2, <1>7, <1>10, <2>3 DEF Walk, key
<1>11. CASE key \notin vis
  <2>1. new \cap Coming(s, it + 1) = vis \cap Coming(s, it)
    BY <1>4, <1>5, <1>11
  <2>2. c + (rep + 0) <= add
    <3> HIDE DEF c
    <3> QED BY <1>8, <1>9 DEF c
  <2> QED BY <1>2, <1>7, <1>11, <2>1, <2>2 DEF Walk, key
<1> QED BY <1>10, <1>11

\* The list changes.
LEMMA WalkShift ==
  ASSUME TagAssumption, NEW s, Good(s), NEW t, Good(t), Distinct(t), NEW it \in Nat,
         NEW vis, IsFiniteSet(vis),
         NEW rep \in Nat, NEW rem \in Nat, NEW add \in Nat, Walk(s, it, vis, rep, rem, add)
  PROVE  Walk(t, it, vis, rep, rem + Cardinality(Keys(s) \ Keys(t)),
                               add + Cardinality(Keys(t) \ Keys(s)))
<1> DEFINE O == Passed(s, it)
           S == Coming(s, it)
           N == Passed(t, it)
           R == Coming(t, it)
           lost == Cardinality(Keys(s) \ Keys(t))
           new  == Cardinality(Keys(t) \ Keys(s))
<1>1. s \in Seq(Tag) /\ t \in Seq(Tag) /\ Distinct(s)
  BY DEF Good, Walk
<1>2. Shift(O, S, N, R, it)
  BY <1>1, ListShift
<1>3. O \cup S = Keys(s) /\ N \cup R = Keys(t)
  BY <1>1, CutSizes
<1>4. IsFiniteSet(O) /\ IsFiniteSet(S) /\ IsFiniteSet(N) /\ IsFiniteSet(R)
      /\ IsFiniteSet(Keys(s)) /\ IsFiniteSet(Keys(t))
  <2>1. IsFiniteSet(O) /\ IsFiniteSet(S) /\ IsFiniteSet(N) /\ IsFiniteSet(R)
    BY <1>2 DEF Shift
  <2>2. IsFiniteSet(O \cup S) /\ IsFiniteSet(N \cup R)
    <3> HIDE DEF O, S, N, R
    <3> QED BY <2>1, Parts
  <2> QED BY <1>3, <2>1, <2>2
<1>5. lost \in Nat /\ new \in Nat
  BY <1>4, FS_Difference, FS_CardinalityType
<1>6. /\ Cardinality(O \ vis) \in Nat /\ Cardinality(N \ vis) \in Nat
      /\ Cardinality(vis \cap S) \in Nat /\ Cardinality(vis \cap R) \in Nat
  BY <1>4, FS_Difference, FS_Intersection, FS_CardinalityType
<1>7. Cardinality(O \ vis) <= rem + add /\ Cardinality(vis \cap S) + rep <= add
  BY DEF Walk
<1>8. Cardinality(N \ vis) <= Cardinality(O \ vis) + lost + new
  BY <1>2, <1>3, MissedShift
<1>9. Cardinality(vis \cap R) <= Cardinality(vis \cap S) + new
  BY <1>2, <1>3, SeenShift
<1> DEFINE a == Cardinality(O \ vis)
           b == Cardinality(N \ vis)
           c == Cardinality(vis \cap S)
           d == Cardinality(vis \cap R)
<1>10. b <= (rem + lost) + (add + new) /\ d + rep <= add + new
  <2> HIDE DEF a, b, c, d, lost, new
  <2> QED BY <1>5, <1>6, <1>7, <1>8, <1>9, SMTT(30) DEF a, b, c, d
<1> QED BY <1>10 DEF Walk

-----------------------------------------------------------------------------
(* The steps.                                                              *)

\* mp4tag_iterate_init.
LEMMA IterateInitStep ==
  ASSUME Inductive, IterInv, IterateInit
  PROVE  Inductive' /\ IterInv'
<1>1. Inductive'
  BY DEF IterateInit, vars, Inductive, TypeOK, Ordered, NoList, InOrder, Before, Numbered
<1>2. tags' = tags /\ tags \in Seq(Tag)
  BY DEF IterateInit, vars, Inductive, TypeOK
<1>3. /\ iterator' = 0 /\ returned' = "none" /\ visited' = {} /\ repeated' = 0
      /\ removed' = 0 /\ added' = 0 /\ distinct' = Distinct(tags)
  BY DEF IterateInit, Fresh
<1>4. distinct' => Walk(tags', iterator', visited', repeated', removed', added')
  BY <1>2, <1>3, WalkStart
<1>5. IsFiniteSet(visited')
  BY <1>3, FS_EmptySet
<1>6. distinct' \in BOOLEAN
  BY <1>3 DEF Distinct
<1> QED BY <1>1, <1>3, <1>4, <1>5, <1>6 DEF IterInv

\* The iteration stands where it stood.
LEMMA SameWalk ==
  ASSUME IterInv, UNCHANGED <<tags, iterator, history>>,
         returned' = returned \/ iterator >= Len(tags)
  PROVE  IterInv'
<1>1. /\ tags' = tags /\ iterator' = iterator /\ visited' = visited /\ repeated' = repeated
      /\ removed' = removed /\ added' = added /\ distinct' = distinct
  BY DEF history
<1>2. distinct' => Walk(tags', iterator', visited', repeated', removed', added')
  BY <1>1, Zenon DEF IterInv
<1>3. returned' = "finish" => iterator' >= Len(tags')
  BY <1>1 DEF IterInv
<1> QED BY <1>1, <1>2, <1>3, Zenon DEF IterInv

\* mp4tag_iterate.
LEMMA IterateStep ==
  ASSUME Inductive, IterInv, Iterate
  PROVE  Inductive' /\ IterInv'
<1>1. mp4error' \in Errors /\ UNCHANGED <<disk, open, tags, present, datacount, saved, calls>>
  BY DEF Iterate, Look, list, Errors
<1>2. Inductive'
  BY <1>1 DEF Inductive, TypeOK, Ordered, NoList, InOrder, Before, Numbered
<1>3. CASE UNCHANGED <<iterator, history>> /\ returned' = returned
  BY <1>1, <1>2, <1>3, SameWalk
<1>4. CASE UNCHANGED <<iterator, history>> /\ iterator >= Len(tags)
  BY <1>1, <1>2, <1>4, SameWalk
<1>5. CASE present /\ ~ (iterator >= Len(tags)) /\ returned' = "tag"
  <2> DEFINE key == Key(tags[At(iterator)])
  <2>1. /\ iterator' = iterator + 1 /\ visited' = visited \cup {key}
        /\ repeated' = repeated + (IF key \in visited THEN 1 ELSE 0)
        /\ UNCHANGED <<removed, added, distinct>>
    BY <1>5 DEF Iterate
  <2>2. tags \in Seq(Tag) /\ Len(tags) \in Nat
    BY DEF Inductive, TypeOK
  <2>3. /\ iterator \in Nat /\ repeated \in Nat /\ removed \in Nat /\ added \in Nat
        /\ IsFiniteSet(visited) /\ distinct \in BOOLEAN
    BY DEF IterInv
  <2>4. iterator < Len(tags)
    BY <1>5, <2>2, <2>3
  <2>5. distinct => Walk(tags, iterator + 1, visited \cup {key},
                         repeated + (IF key \in visited THEN 1 ELSE 0), removed, added)
    BY <2>2, <2>3, <2>4, WalkOn DEF IterInv
  <2>6. IsFiniteSet(visited')
    BY <2>1, <2>3, FS_AddElement
  <2> HIDE DEF key
  <2>7. distinct' => Walk(tags', iterator', visited', repeated', removed', added')
    BY <1>1, <2>1, <2>5
  <2>8. iterator' \in Nat /\ repeated' \in Nat
    BY <2>1, <2>3
  <2> QED BY <1>2, <1>5, <2>1, <2>3, <2>6, <2>7, <2>8 DEF IterInv
<1> QED BY <1>2, <1>3, <1>4, <1>5 DEF Iterate

\* Every other call.
LEMMA CallStep ==
  ASSUME TagAssumption, Inductive, IterInv, Call
  PROVE  Inductive' /\ IterInv'
<1>1. Inductive'
  BY StepInductive DEF Call
<1>2. Good(tags) /\ Good(tags') /\ tags \in Seq(Tag) /\ tags' \in Seq(Tag)
  BY <1>1 DEF Inductive, TypeOK, Ordered, Good, InOrder, Before, Numbered
<1>3. CASE open' /\ ~ open
  <2>1. /\ iterator' = 0 /\ returned' = "none" /\ visited' = {} /\ repeated' = 0
        /\ removed' = 0 /\ added' = 0 /\ distinct' = Distinct(tags')
    BY <1>3 DEF Call, Fresh
  <2>2. distinct' => Walk(tags', iterator', visited', repeated', removed', added')
    BY <1>2, <2>1, WalkStart
  <2>3. IsFiniteSet(visited') /\ distinct' \in BOOLEAN
    BY <2>1, FS_EmptySet DEF Distinct
  <2> QED BY <1>1, <2>1, <2>2, <2>3 DEF IterInv
<1>4. CASE ~ (open' /\ ~ open)
  <2> DEFINE lost == Cardinality(Keys(tags) \ Keys(tags'))
             new  == Cardinality(Keys(tags') \ Keys(tags))
  <2>1. /\ removed' = removed + lost /\ added' = added + new
        /\ distinct' = (distinct /\ Distinct(tags'))
        /\ returned' = (IF UNCHANGED list THEN returned ELSE "none")
        /\ UNCHANGED <<iterator, visited, repeated>>
    BY <1>4 DEF Call
  <2>2. /\ iterator \in Nat /\ repeated \in Nat /\ removed \in Nat /\ added \in Nat
        /\ IsFiniteSet(visited) /\ distinct \in BOOLEAN
    BY DEF IterInv
  <2>3. lost \in Nat /\ new \in Nat
    BY <1>2, KeysFinite, FS_Difference, FS_CardinalityType
  <2>4. ASSUME distinct, Distinct(tags')
        PROVE  Walk(tags', iterator, visited, repeated, removed + lost, added + new)
    BY <1>2, <2>2, <2>4, WalkShift DEF IterInv
  <2> HIDE DEF lost, new
  <2>5. distinct' => Walk(tags', iterator', visited', repeated', removed', added')
    BY <2>1, <2>4
  <2>6. returned' = "finish" => iterator' >= Len(tags')
    BY <2>1 DEF IterInv, list
  <2>7. distinct' \in BOOLEAN
    BY <2>1
  <2>8. iterator' \in Nat /\ repeated' \in Nat /\ removed' \in Nat /\ added' \in Nat
    BY <2>1, <2>2, <2>3
  <2> QED BY <1>1, <2>1, <2>2, <2>5, <2>6, <2>7, <2>8 DEF IterInv
<1> QED BY <1>3, <1>4

\* A new handle has not been iterated.
LEMMA InitIter ==
  ASSUME TagAssumption, IterInit
  PROVE  Inductive /\ IterInv
<1>1. Inductive
  BY InitInductive DEF IterInit
<1>2. tags = << >> /\ Distinct(tags) /\ tags \in Seq(Tag)
  BY DEF IterInit, Init, Distinct
<1>3. Walk(tags, 0, {}, 0, 0, 0)
  BY <1>2, WalkStart
<1> QED BY <1>1, <1>3, FS_EmptySet DEF IterInit, IterInv

\* The inductive invariant of the iterator.
THEOREM IterInductive == IterSpec => [](Inductive /\ IterInv)
<1>1. IterInit => Inductive /\ IterInv
  BY TagAssumption, InitIter
<1>2. (Inductive /\ IterInv) /\ [IterNext]_ivars => (Inductive /\ IterInv)'
  <2> SUFFICES ASSUME Inductive, IterInv, [IterNext]_ivars
               PROVE  Inductive' /\ IterInv'
    OBVIOUS
  <2>1. CASE UNCHANGED ivars
    BY <2>1 DEF ivars, vars, history, IterInv, Inductive, TypeOK, Ordered, NoList, InOrder,
                Before, Numbered
  <2> QED BY <2>1, TagAssumption, IterateInitStep, IterateStep, CallStep DEF IterNext
<1> QED BY <1>1, <1>2, PTL DEF IterSpec

\* An iteration that has ended misses at most one tag for each that was added or
\* removed on the way, whatever the calls were and wherever they hit the list.
THEOREM IterationMisses == IterSpec => []MissesOnlyChanged
<1>1. ASSUME Inductive, IterInv
      PROVE  MissesOnlyChanged
  <2>1. SUFFICES ASSUME returned = "finish", distinct
                 PROVE  Cardinality(Keys(tags) \ visited) <= removed + added
    BY DEF MissesOnlyChanged
  <2>2. tags \in Seq(Tag) /\ iterator >= Len(tags) /\ iterator \in Nat
    BY <1>1, <2>1 DEF Inductive, TypeOK, IterInv
  <2>3. Keys(tags) = Passed(tags, iterator)
    <3>1. \A i \in DOMAIN tags : i <= iterator
      BY <2>2
    <3> QED BY <3>1 DEF Keys, Passed
  <2> QED BY <1>1, <2>1, <2>3 DEF IterInv, Walk
<1> QED BY <1>1, IterInductive, PTL

\* A tag is returned again at most once for each tag that was added.
THEOREM IterationRepeats == IterSpec => []RepeatsOnlyAdded
<1>1. ASSUME Inductive, IterInv
      PROVE  RepeatsOnlyAdded
  <2>1. SUFFICES ASSUME distinct
                 PROVE  repeated <= added
    BY DEF RepeatsOnlyAdded
  <2>2. tags \in Seq(Tag) /\ iterator \in Nat /\ repeated \in Nat /\ added \in Nat
    BY <1>1 DEF Inductive, TypeOK, IterInv
  <2>3. Distinct(tags) /\ Cardinality(visited \cap Coming(tags, iterator)) + repeated <= added
    BY <1>1, <2>1 DEF IterInv, Walk
  <2>4. Cardinality(visited \cap Coming(tags, iterator)) \in Nat
    BY <2>2, <2>3, CutSizes, FS_Intersection, FS_CardinalityType
  <2> QED BY <2>2, <2>3, <2>4
<1> QED BY <1>1, IterInductive, PTL
=============================================================================
