---------------------------- MODULE WriterProofs ----------------------------
(***************************************************************************)
(* Proofs about Writer for every base offset, every length of the tag      *)
(* data, of free space and of media data, every setting of the free space  *)
(* and every number of writes.                                             *)
(***************************************************************************)
EXTENDS Writer, TLAPS

-----------------------------------------------------------------------------
(* Lemmas about the layout operators.                                      *)

\* The bytes of the tail within a parent are a number, and an inner parent
\* holds no more of them than an outer one.
LEMMA TailFacts ==
  ASSUME NEW f \in File
  PROVE  /\ TailIn(f, 0) \in Nat /\ TailIn(f, 1) \in Nat /\ TailIn(f, 2) \in Nat
         /\ \A c \in Parents : TailIn(f, c) \in Nat
         /\ TailIn(f, 2) <= TailIn(f, 1) /\ TailIn(f, 1) <= TailIn(f, 0)
         /\ f.tail[0] \in Nat
         /\ TailLen(f) = f.tail[0] + TailIn(f, 0)
<1>1. /\ f.tail[0] \in Nat /\ f.tail[1] \in Nat
      /\ f.tail[2] \in Nat /\ f.tail[3] \in Nat
  BY DEF File, Levels
<1>2. /\ TailIn(f, 0) = f.tail[1] + f.tail[2] + f.tail[3]
      /\ TailIn(f, 1) = f.tail[2] + f.tail[3]
      /\ TailIn(f, 2) = f.tail[3]
  BY <1>1 DEF TailIn
<1>3. Parents = {0, 1, 2}
  BY DEF Parents
<1> QED
  BY <1>1, <1>2, <1>3 DEF TailLen

\* TailIn depends on nothing but the tail.
LEMMA SameTail ==
  ASSUME NEW f, NEW g, g.tail = f.tail
  PROVE  /\ \A c : TailIn(g, c) = TailIn(f, c)
         /\ TailLen(g) = TailLen(f)
BY DEF TailIn, TailLen

\* What the parser keeps is well typed, and the free boxes it counts are the
\* whole run unless ilst is empty.
LEMMA ParseFacts ==
  ASSUME NEW f \in File, MarksOK(f), BoxTree(f) \/ Bug13(f)
  PROVE  /\ ParseOf(f) \in Parsed
         /\ f.tail_at >= BaseOffset + HeadSz + ParseOf(f).taglist_len
         /\ f.ilst > 0 => ParseOf(f).taglist_len = f.ilst + f.run
         /\ f.ilst > 0 => ParseOf(f).interior_free_len = FreeIn(f, 0)
         /\ f.ilst > 0 => ParseOf(f).exterior_free_len = f.run - FreeIn(f, 0)
         /\ f.ilst > 0 => FreeIn(f, 0) \in 0 .. f.run
<1>1. /\ f.ilst \in Nat /\ f.run \in Nat /\ f.tail_at \in Nat
      /\ f.len \in [Parents -> Int] /\ f.marks \subseteq 0 .. f.run
  BY DEF File, MarksOK
<1>2. FreeIn(f, 0) \in 0 .. f.run
  BY <1>1 DEF BoxTree, Bug13, Parents
<1>3. f.tail_at = BaseOffset + HeadSz + f.ilst + f.run
  BY DEF BoxTree, Bug13, IlstEnd
<1>4. FileSize(f) \in Nat
  BY <1>1, TailFacts DEF FileSize
<1>5. BaseOffset \in Nat
  BY ParamAssumption DEF NParams
<1> QED
  BY <1>1, <1>2, <1>3, <1>4, <1>5 DEF ParseOf, Parsed, HeadSz

\* The repair of the 1.3.0 damage yields a proper tree of boxes and touches
\* nothing but the three stored lengths.
LEMMA FixedFacts ==
  ASSUME NEW f \in File, MarksOK(f), BoxTree(f) \/ Bug13(f)
  PROVE  /\ Fixed(f) \in File
         /\ BoxTree(Fixed(f))
         /\ MarksOK(Fixed(f))
         /\ Fixed(f).tables = f.tables
         /\ Fixed(f).tail_at = f.tail_at
         /\ Fixed(f).tail = f.tail
<1>1. CASE ~ Bug13(f)
  BY <1>1 DEF Fixed
<1>2. CASE Bug13(f)
  <2> DEFINE g == Fixed(f)
             k == FreeIn(f, 0)
  <2>1. g = [f EXCEPT !.len = [c \in Parents |-> f.len[c] + (- FreeIn(f, 2))]]
    BY <1>2 DEF Fixed, UpdateParentLengths, ParseOf
  <2>2. /\ f.ilst \in Nat /\ f.run \in Nat /\ f.tail_at \in Nat
        /\ f.len \in [Parents -> Int]
    BY DEF File
  <2>3. k \in 1 .. (f.run - 1) /\ \A c \in Parents : FreeIn(f, c) = k
    BY <1>2 DEF Bug13
  <2>4. 0 \in Parents /\ 1 \in Parents /\ 2 \in Parents
    BY DEF Parents
  <2>51. [c \in Parents |-> f.len[c] + (- FreeIn(f, 2))] \in [Parents -> Int]
    BY <2>2, <2>3, <2>4
  <2>52. g \in File
    BY <2>1, <2>51 DEF File
  <2>5. /\ g.tables = f.tables /\ g.tail_at = f.tail_at /\ g.tail = f.tail
        /\ g.ilst = f.ilst /\ g.run = f.run /\ g.marks = f.marks
        /\ g.lost = f.lost /\ g.ilstlen = f.ilstlen
    BY <2>1 DEF File
  <2>6. \A c \in Parents : g.len[c] = f.len[c] - k
    BY <2>1, <2>2, <2>3, <2>4 DEF File
  <2>7. /\ \A c : TailIn(g, c) = TailIn(f, c)
        /\ \A c \in Parents : TailIn(f, c) \in Nat
        /\ TailIn(f, 0) = 0 /\ TailIn(f, 1) = 0 /\ TailIn(f, 2) = 0
    BY <1>2, <2>5, SameTail, TailFacts DEF Bug13
  <2>8. ParentOffset \in [Parents -> Nat] /\ BaseOffset \in Nat
    BY ParamAssumption DEF NParams
  <2>9. \A c \in Parents : FreeIn(g, c) = 0
    BY <2>2, <2>3, <2>5, <2>6, <2>7, <2>8 DEF FreeIn, EndOf, IlstEnd, HeadSz
  <2>10. \A c \in Parents : EndOf(g, c) = IlstEnd(f)
    BY <2>2, <2>5, <2>6, <2>7, <2>8, <2>9 DEF FreeIn, EndOf, IlstEnd, HeadSz, Parents
  <2>11. BoxTree(g)
    BY <1>2, <2>2, <2>4, <2>5, <2>7, <2>8, <2>9, <2>10
       DEF BoxTree, Bug13, IlstEnd, HeadSz, Parents
  <2> QED
    BY <2>5, <2>52, <2>11 DEF MarksOK
<1> QED
  BY <1>1, <1>2

\* Types of the numbers an in-place write computes.
LEMMA InPlaceTypes ==
  ASSUME NEW p \in Parsed, NEW d \in Nat
  PROVE  /\ IlstDelta(p, d) \in Int /\ ParentDelta(p, d) \in Int
         /\ TotalDelta(p, d) \in Int /\ FreeLeft(p, d) \in Int
         /\ FreeBox(p, d) \in Nat
         /\ UpdateParentLengths(p, ParentDelta(p, d)) \in [Parents -> Int]
<1>1. /\ p.taglist_len \in Nat /\ p.orig_data_len \in Nat
      /\ p.interior_free_len \in Nat /\ p.exterior_free_len \in Nat
      /\ p.unlimited \in BOOLEAN /\ p.base_lengths \in [Parents -> Int]
  BY DEF Parsed
<1>2. IlstDelta(p, d) \in Int /\ ParentDelta(p, d) \in Int
  BY <1>1 DEF IlstDelta, ParentDelta
<1>3. FreeLeft(p, d) \in Int
  BY <1>1, <1>2 DEF FreeLeft
<1>4. FreeSpaceSz \in Nat
  BY ParamAssumption DEF NParams
<1> QED
  BY <1>1, <1>2, <1>3, <1>4 DEF FreeBox, TotalDelta, UpdateParentLengths, HeadSz

\* An in-place write keeps a file well typed; it leaves the tail and the
\* tables alone and never moves the tail to the front.
LEMMA InPlaceFacts ==
  ASSUME NEW f \in File, MarksOK(f), NEW p \in Parsed, NEW d \in Nat
  PROVE  LET g == InPlace(f, p, d)
         IN /\ g \in File /\ MarksOK(g)
            /\ g.ilst = d /\ g.tail = f.tail /\ g.tables = f.tables
            /\ g.tail_at >= f.tail_at
<1> DEFINE g == InPlace(f, p, d)
<1>1. /\ f.ilst \in Nat /\ f.run \in Nat /\ f.tail_at \in Nat
      /\ f.len \in [Parents -> Int] /\ f.marks \in SUBSET Nat
      /\ f.lost \in BOOLEAN /\ f.ilstlen \in Int
  BY DEF File
<1>2. /\ FreeBox(p, d) \in Nat /\ ParentDelta(p, d) \in Int
      /\ UpdateParentLengths(p, ParentDelta(p, d)) \in [Parents -> Int]
  BY InPlaceTypes
<1>3. BaseOffset \in Nat
  BY ParamAssumption DEF NParams
<1>4. TailLen(f) \in Nat
  BY TailFacts
<1> DEFINE free   == FreeBox(p, d)
           newend == BaseOffset + HeadSz + d + free
           run    == IF free > 0 THEN free ELSE IF d = f.ilst THEN f.run ELSE 0
           marks  == IF free > 0 THEN {0, free}
                     ELSE IF d = f.ilst THEN f.marks ELSE {0}
           at     == IF TailLen(f) = 0 /\ newend > f.tail_at
                     THEN newend ELSE f.tail_at
           lost   == f.lost \/ (TailLen(f) > 0 /\ newend > f.tail_at)
           ilen   == IF ParentDelta(p, d) # 0 THEN HeadSz + d ELSE f.ilstlen
           len    == IF TotalDelta(p, d) # 0
                     THEN UpdateParentLengths(p, ParentDelta(p, d)) ELSE f.len
<1>5. g \in File
  <2>1. /\ run \in Nat /\ marks \in SUBSET Nat /\ at \in Nat
        /\ lost \in BOOLEAN /\ ilen \in Int /\ len \in [Parents -> Int]
    <3>1. run \in Nat
      BY <1>1, <1>2
    <3>2. newend \in Nat
      BY <1>2, <1>3 DEF HeadSz
    <3>3. at \in Nat
      <4> HIDE DEF newend
      <4> QED
        BY <1>1, <3>2
    <3>4. ilen \in Int
      BY <1>1 DEF HeadSz
    <3>5. marks \in SUBSET Nat
      BY <1>1, <1>2
    <3>6. lost \in BOOLEAN
      BY <1>1
    <3>7. len \in [Parents -> Int]
      BY <1>1, <1>2
    <3> QED
      BY <3>1, <3>3, <3>4, <3>5, <3>6, <3>7
  <2>2. g = [f EXCEPT !.ilst = d, !.run = run, !.marks = marks, !.tail_at = at,
                      !.lost = lost, !.ilstlen = ilen, !.len = len]
    BY DEF InPlace
  <2>3. [f EXCEPT !.ilst = d, !.run = run, !.marks = marks, !.tail_at = at,
                  !.lost = lost, !.ilstlen = ilen, !.len = len] \in File
    <3> HIDE DEF run, marks, at, lost, ilen, len, g
    <3> QED
      BY <2>1 DEF File
  <2> QED
    BY <2>2, <2>3
<1>6. MarksOK(g)
  BY <1>1, <1>2 DEF InPlace, MarksOK, File
<1>7. /\ g.ilst = d /\ g.tail = f.tail /\ g.tables = f.tables
      /\ g.tail_at >= f.tail_at
  BY <1>1, <1>2, <1>3, <1>4 DEF InPlace, File, HeadSz
<1> QED
  BY <1>5, <1>6, <1>7

\* The first byte behind the new tag data and the new free box.
NewEnd(p, d) == BaseOffset + HeadSz + d + FreeBox(p, d)

\* The new tag data and the new free box of an in-place write between other
\* boxes fit into the old tag data and free boxes; they fill them, and the
\* lengths of the parents stay, if there was no exterior space.
LEMMA InPlaceSpace ==
  ASSUME NEW p \in Parsed, NEW d \in Nat, ~ p.unlimited, FitsInPlace(p, d),
         p.taglist_len = p.orig_data_len + p.interior_free_len + p.exterior_free_len
  PROVE  /\ NewEnd(p, d) <= BaseOffset + HeadSz + p.taglist_len
         /\ p.interior_free_len + p.exterior_free_len > 0
              => /\ d + FreeBox(p, d) = p.taglist_len
                 /\ FreeLeft(p, d) = p.taglist_len - d
         /\ p.interior_free_len + p.exterior_free_len = 0 => FreeBox(p, d) = 0
         /\ d = p.orig_data_len => d + FreeLeft(p, d) = p.taglist_len
<1>1. /\ p.taglist_len \in Nat /\ p.orig_data_len \in Nat
      /\ p.interior_free_len \in Nat /\ p.exterior_free_len \in Nat
      /\ BaseOffset \in Nat
  BY ParamAssumption DEF Parsed, NParams
<1>2. d = p.taglist_len \/ d < p.taglist_len - 8
  BY DEF FitsInPlace, HeadSz
<1>3. FreeBox(p, d) = IF FreeLeft(p, d) > 8 THEN FreeLeft(p, d) ELSE 0
  BY DEF FreeBox, HeadSz
<1>4. FreeLeft(p, d) = IF p.interior_free_len + p.exterior_free_len > 0
                       THEN p.taglist_len - d ELSE 0
  BY <1>1 DEF FreeLeft, IlstDelta
<1> QED
  BY <1>1, <1>2, <1>3, <1>4 DEF NewEnd, HeadSz

\* If the parents all grow by the same amount the free space within them
\* shrinks by what the tag data grows more.
LEMMA FreeInMoves ==
  ASSUME NEW f \in File, NEW g \in File, g.tail = f.tail, NEW delta \in Int,
         \A c \in Parents : g.len[c] = f.len[c] + delta
  PROVE  /\ \A c \in Parents : FreeIn(g, c) = FreeIn(f, c) + delta + f.ilst - g.ilst
         /\ \A c \in Parents : EndOf(g, c) = EndOf(f, c) + delta
         /\ \A c \in Parents : TailIn(g, c) = TailIn(f, c)
         /\ \A c \in Parents : EndOf(f, c) \in Int /\ FreeIn(f, c) \in Int
<1>1. /\ f.ilst \in Nat /\ g.ilst \in Nat
      /\ \A c \in Parents : f.len[c] \in Int /\ g.len[c] \in Int
  BY DEF File
<1>2. \A c \in Parents : TailIn(g, c) = TailIn(f, c) /\ TailIn(f, c) \in Nat
  BY SameTail, TailFacts
<1>3. BaseOffset \in Nat /\ \A c \in Parents : ParentOffset[c] \in Nat
  BY ParamAssumption DEF NParams
<1>4. \A c \in Parents : EndOf(g, c) = EndOf(f, c) + delta /\ EndOf(f, c) \in Int
  BY <1>1, <1>3 DEF EndOf
<1>5. ASSUME NEW c \in Parents
      PROVE  /\ FreeIn(g, c) = FreeIn(f, c) + delta + f.ilst - g.ilst
             /\ FreeIn(f, c) \in Int
  <2>1. /\ EndOf(g, c) = EndOf(f, c) + delta /\ EndOf(f, c) \in Int
        /\ TailIn(g, c) = TailIn(f, c) /\ TailIn(f, c) \in Nat
    BY <1>2, <1>4
  <2>2. /\ FreeIn(f, c) = EndOf(f, c) - TailIn(f, c) - (BaseOffset + 8 + f.ilst)
        /\ FreeIn(g, c) = EndOf(g, c) - TailIn(g, c) - (BaseOffset + 8 + g.ilst)
    BY DEF FreeIn, IlstEnd, HeadSz
  <2> QED
    BY <1>1, <1>3, <2>1, <2>2
<1> QED
  BY <1>2, <1>4, <1>5

\* The fields of the file an in-place write leaves.
LEMMA InPlaceFields ==
  ASSUME NEW f \in File, NEW p \in Parsed, NEW d \in Nat,
         NEW g, g = InPlace(f, p, d), NEW free, free = FreeBox(p, d),
         NEW end, end = NewEnd(p, d)
  PROVE  /\ g.ilst = d
         /\ g.run = IF free > 0 THEN free ELSE IF d = f.ilst THEN f.run ELSE 0
         /\ g.marks = IF free > 0 THEN {0, free}
                      ELSE IF d = f.ilst THEN f.marks ELSE {0}
         /\ g.tail_at = IF TailLen(f) = 0 /\ end > f.tail_at THEN end ELSE f.tail_at
         /\ g.lost <=> (f.lost \/ (TailLen(f) > 0 /\ end > f.tail_at))
         /\ g.ilstlen = IF ParentDelta(p, d) # 0 THEN HeadSz + d ELSE f.ilstlen
         /\ g.len = IF TotalDelta(p, d) # 0
                    THEN UpdateParentLengths(p, ParentDelta(p, d)) ELSE f.len
BY DEF InPlace, File, NewEnd

\* A covered in-place write leaves a proper tree of boxes.  When the space is
\* bounded by other boxes they stay where they are.
LEMMA InPlaceBoxTree ==
  ASSUME NEW f \in File, MarksOK(f), BoxTree(f), NEW d \in Nat,
         NEW p, p = ParseOf(f), FitsInPlace(p, d), WriteSound(f, p, d),
         NEW g, g = InPlace(f, p, d)
  PROVE  /\ BoxTree(g)
         /\ g.tail_at # f.tail_at => TailLen(f) = 0
<1> DEFINE free  == FreeBox(p, d)
           end   == NewEnd(p, d)
           delta == IF TotalDelta(p, d) # 0 THEN ParentDelta(p, d) ELSE 0
<1>1. /\ f.ilst \in Nat /\ f.run \in Nat /\ f.tail_at \in Nat
      /\ f.len \in [Parents -> Int] /\ f.marks \subseteq 0 .. f.run
      /\ 0 \in f.marks /\ f.run \in f.marks
      /\ ~ f.lost /\ f.ilstlen = HeadSz + f.ilst
      /\ f.tail_at = BaseOffset + HeadSz + f.ilst + f.run
      /\ BaseOffset \in Nat
  BY ParamAssumption DEF File, MarksOK, BoxTree, IlstEnd, NParams
<1>2. /\ p \in Parsed /\ p.orig_data_len = f.ilst /\ p.base_lengths = f.len
      /\ p.interior_free_len = IF f.ilst = 0 THEN 0 ELSE FreeIn(f, 0)
      /\ p.exterior_free_len = IF f.ilst = 0 THEN 0 ELSE f.run - FreeIn(f, 0)
      /\ p.taglist_len = f.ilst + p.interior_free_len + p.exterior_free_len
      /\ p.unlimited <=> (f.ilst > 0 /\ TailLen(f) = 0)
  BY ParseFacts DEF ParseOf
<1>3. /\ p.interior_free_len \in Nat /\ p.exterior_free_len \in Nat
      /\ FreeIn(f, 0) \in 0 .. f.run
      /\ \A c \in Parents : FreeIn(f, c) \in f.marks
      /\ \A c \in Parents : TailIn(f, c) > 0 => FreeIn(f, c) = f.run
      /\ EndOf(f, 2) <= EndOf(f, 1) /\ EndOf(f, 1) <= EndOf(f, 0)
  BY <1>1, <1>2 DEF BoxTree, Parsed, Parents
<1>4. /\ ParentDelta(p, d) \in Int /\ TotalDelta(p, d) \in Int /\ free \in Nat
      /\ FreeLeft(p, d) \in Int
  BY <1>2, InPlaceTypes
<1>5. /\ g \in File /\ g.tail = f.tail
  BY <1>2, InPlaceFacts
<1>6. /\ g.ilst = d
      /\ g.run = IF free > 0 THEN free ELSE IF d = f.ilst THEN f.run ELSE 0
      /\ g.marks = IF free > 0 THEN {0, free}
                   ELSE IF d = f.ilst THEN f.marks ELSE {0}
      /\ g.tail_at = IF TailLen(f) = 0 /\ end > f.tail_at THEN end ELSE f.tail_at
      /\ g.lost <=> (f.lost \/ (TailLen(f) > 0 /\ end > f.tail_at))
      /\ g.ilstlen = IF ParentDelta(p, d) # 0 THEN HeadSz + d ELSE f.ilstlen
      /\ g.len = IF TotalDelta(p, d) # 0
                 THEN UpdateParentLengths(p, ParentDelta(p, d)) ELSE f.len
  <2> HIDE DEF free, end
  <2> QED
    BY <1>2, InPlaceFields DEF free, end
<1>7. \A c \in Parents : g.len[c] = f.len[c] + delta
  <2>1. CASE TotalDelta(p, d) = 0
    BY <1>1, <1>6, <2>1
  <2>2. CASE TotalDelta(p, d) # 0
    <3>1. g.len = [c \in Parents |-> f.len[c] + ParentDelta(p, d)]
      BY <1>2, <1>6, <2>2 DEF UpdateParentLengths
    <3> QED
      BY <2>2, <3>1
  <2> QED
    BY <2>1, <2>2
<1> HIDE DEF free, end, delta
<1>8. delta \in Int
  BY <1>4 DEF delta
<1>9. /\ \A c \in Parents : FreeIn(g, c) = FreeIn(f, c) + delta + f.ilst - g.ilst
      /\ \A c \in Parents : EndOf(g, c) = EndOf(f, c) + delta
      /\ \A c \in Parents : TailIn(g, c) = TailIn(f, c)
      /\ \A c \in Parents : EndOf(f, c) \in Int /\ FreeIn(f, c) \in Int
  BY <1>5, <1>7, <1>8, FreeInMoves
<1>10. EndOf(g, 2) <= EndOf(g, 1) /\ EndOf(g, 1) <= EndOf(g, 0)
  BY <1>3, <1>8, <1>9 DEF Parents
<1>11. IlstEnd(g) = BaseOffset + HeadSz + d
  BY <1>6 DEF IlstEnd
<1>12. /\ TailLen(f) \in Nat /\ \A c \in Parents : TailIn(f, c) \in Nat
       /\ TailLen(f) = 0 => \A c \in Parents : TailIn(f, c) = 0
  BY TailFacts DEF Parents
<1>13. end = BaseOffset + HeadSz + d + free /\ end \in Nat
  BY <1>1, <1>4 DEF NewEnd, free, end, HeadSz
<1>14. ParentDelta(p, d) = IF p.exterior_free_len # 0 \/ p.unlimited
                           THEN d - f.ilst - p.interior_free_len ELSE d - f.ilst
  BY <1>2 DEF ParentDelta, IlstDelta
<1>15. TotalDelta(p, d) = IF p.exterior_free_len = 0 /\ ~ p.unlimited
                          THEN p.taglist_len - (d + FreeLeft(p, d))
                          ELSE ParentDelta(p, d)
  BY DEF TotalDelta
<1>16. \/ /\ p.unlimited /\ UnlimitedInPlaceSound(f, p, d)
       \/ /\ ~ p.unlimited /\ BoundedInPlaceSound(f, p, d)
  BY DEF WriteSound
<1>161. /\ p.taglist_len \in Nat /\ p.taglist_len <= f.ilst + f.run
        /\ f.ilst > 0 => p.taglist_len = f.ilst + f.run
        /\ f.ilst > 0 => p.interior_free_len + p.exterior_free_len = f.run
        /\ f.ilst = 0 => p.interior_free_len = 0 /\ p.exterior_free_len = 0
  <2>1. CASE f.ilst = 0
    BY <1>1, <1>2, <2>1
  <2>2. CASE f.ilst > 0
    BY <1>1, <1>2, <1>3, <2>2
  <2> QED
    BY <1>1, <2>1, <2>2
<1>17. ASSUME ~ p.unlimited, BoundedInPlaceSound(f, p, d)
       PROVE  /\ g.tail_at = f.tail_at /\ ~ g.lost /\ g.ilstlen = HeadSz + d
              /\ g.tail_at = IlstEnd(g) + g.run
              /\ \A c \in Parents : FreeIn(g, c) \in g.marks
              /\ \A c \in Parents : TailIn(f, c) > 0 => FreeIn(g, c) = g.run
  <2>1. /\ end <= BaseOffset + HeadSz + p.taglist_len
        /\ p.interior_free_len + p.exterior_free_len > 0
             => /\ d + free = p.taglist_len
                /\ FreeLeft(p, d) = p.taglist_len - d
        /\ p.interior_free_len + p.exterior_free_len = 0 => free = 0
        /\ d = p.orig_data_len => d + FreeLeft(p, d) = p.taglist_len
    BY <1>2, <1>17, InPlaceSpace DEF free, end
  <2>2. end <= f.tail_at
    BY <1>1, <1>13, <1>161, <2>1 DEF HeadSz
  <2>3. g.tail_at = f.tail_at /\ ~ g.lost
    BY <1>1, <1>4, <1>6, <1>12, <1>13, <2>2 DEF HeadSz
  <2>4. CASE /\ d = f.ilst /\ p.exterior_free_len = 0
             /\ free > 0 => \A c \in Parents : FreeIn(f, c) \in {0, f.run}
    <3>1. delta = 0 /\ ParentDelta(p, d) = 0
      <4>1. ParentDelta(p, d) = 0
        BY <1>1, <1>14, <1>17, <2>4
      <4>2. TotalDelta(p, d) = 0
        BY <1>2, <1>4, <1>15, <1>161, <1>17, <2>1, <2>4
      <4> QED
        BY <4>1, <4>2 DEF delta
    <3>2. free > 0 => free = f.run
      BY <1>1, <1>3, <1>4, <1>161, <2>1, <2>4
    <3>3. g.run = f.run /\ (free > 0 => g.marks = {0, f.run}) /\ (free = 0 => g.marks = f.marks)
      BY <1>4, <1>6, <2>4, <3>2
    <3>4. \A c \in Parents : FreeIn(g, c) = FreeIn(f, c)
      BY <1>1, <1>6, <1>9, <2>4, <3>1
    <3> QED
      BY <1>1, <1>3, <1>4, <1>6, <1>11, <2>3, <2>4, <3>1, <3>3, <3>4
  <2>5. CASE /\ p.exterior_free_len = 0 /\ p.interior_free_len > 0
             /\ \A c \in Parents : FreeIn(f, c) = f.run
    <3>1. f.ilst > 0 /\ p.interior_free_len = f.run /\ p.taglist_len = f.ilst + f.run
      BY <1>1, <1>2, <1>3, <2>5
    <3>2. d + free = f.ilst + f.run /\ FreeLeft(p, d) = f.ilst + f.run - d
      BY <1>1, <2>1, <2>5, <3>1
    <3>3. delta = 0 /\ ParentDelta(p, d) = d - f.ilst
      BY <1>1, <1>14, <1>15, <1>17, <2>5, <3>1, <3>2 DEF delta
    <3>4. g.run = free /\ free \in g.marks
      BY <1>1, <1>4, <1>6, <2>5, <3>1, <3>2
    <3>5. \A c \in Parents : FreeIn(g, c) = free
      BY <1>1, <1>4, <1>6, <1>9, <2>5, <3>2, <3>3
    <3>6. g.ilstlen = HeadSz + d
      BY <1>1, <1>6, <3>3
    <3> QED
      BY <1>1, <1>4, <1>11, <2>3, <3>2, <3>4, <3>5, <3>6 DEF HeadSz
  <2>6. CASE /\ p.exterior_free_len > 0
             /\ \A c \in Parents : FreeIn(f, c) = p.interior_free_len
             /\ ParentDelta(p, d) # 0 \/ d = f.ilst
    <3>1. f.ilst > 0 /\ p.taglist_len = f.ilst + f.run /\ p.interior_free_len < f.run
      BY <1>1, <1>2, <1>3, <2>6
    <3>2. d + free = f.ilst + f.run
      BY <1>3, <2>1, <2>6, <3>1
    <3>3. delta = ParentDelta(p, d) /\ delta = d - f.ilst - p.interior_free_len
      BY <1>3, <1>14, <1>15, <1>17, <2>6 DEF delta
    <3>4. g.run = free /\ 0 \in g.marks
      BY <1>1, <1>3, <1>4, <1>6, <2>6, <3>1, <3>2
    <3>5. \A c \in Parents : FreeIn(g, c) = 0
      BY <1>1, <1>3, <1>6, <1>9, <2>6, <3>3
    <3>6. \A c \in Parents : ~ (TailIn(f, c) > 0)
      <4>1. SUFFICES ASSUME NEW c \in Parents, TailIn(f, c) > 0 PROVE FALSE
        OBVIOUS
      <4>2. FreeIn(f, c) = f.run /\ FreeIn(f, c) = p.interior_free_len
        BY <1>3, <2>6, <4>1
      <4> QED
        BY <1>1, <1>3, <3>1, <4>2
    <3>7. g.ilstlen = HeadSz + d
      BY <1>1, <1>6, <2>6, <3>3
    <3> QED
      BY <1>1, <1>4, <1>11, <2>3, <3>2, <3>4, <3>5, <3>6, <3>7 DEF HeadSz
  <2> QED
    BY <1>17, <2>4, <2>5, <2>6 DEF BoundedInPlaceSound, free
<1>18. ASSUME p.unlimited, UnlimitedInPlaceSound(f, p, d)
       PROVE  /\ TailLen(f) = 0 /\ ~ g.lost /\ g.ilstlen = HeadSz + d
              /\ g.tail_at = IlstEnd(g) + g.run
              /\ \A c \in Parents : FreeIn(g, c) \in g.marks
  <2>1. f.ilst > 0 /\ TailLen(f) = 0 /\ p.taglist_len = f.ilst + f.run
    BY <1>1, <1>2, <1>3, <1>18
  <2>2. /\ \A c \in Parents : FreeIn(f, c) = p.interior_free_len
        /\ ParentDelta(p, d) # 0 \/ d = f.ilst
        /\ d + free >= f.ilst + f.run
    BY <1>18, <2>1 DEF UnlimitedInPlaceSound, free
  <2>3. delta = ParentDelta(p, d) /\ delta = d - f.ilst - p.interior_free_len
    BY <1>3, <1>14, <1>15, <1>18 DEF delta
  <2>4. \A c \in Parents : FreeIn(g, c) = 0
    BY <1>1, <1>3, <1>6, <1>9, <2>2, <2>3
  <2>5. g.run = free
    BY <1>1, <1>4, <1>6, <2>2
  <2>6. 0 \in g.marks
    BY <1>1, <1>6
  <2>7. g.tail_at = end /\ ~ g.lost
    <3>1. end >= f.tail_at
      BY <1>1, <1>4, <1>13, <2>2 DEF HeadSz
    <3> QED
      BY <1>1, <1>6, <1>13, <2>1, <3>1
  <2>8. g.ilstlen = HeadSz + d
    BY <1>1, <1>6, <2>2
  <2> QED
    BY <1>4, <1>11, <1>13, <2>1, <2>4, <2>5, <2>6, <2>7, <2>8
<1>19. BoxTree(g)
  BY <1>9, <1>10, <1>12, <1>16, <1>17, <1>18, <1>6 DEF BoxTree
<1> QED
  BY <1>16, <1>17, <1>18, <1>19

-----------------------------------------------------------------------------
(* Rewrites.                                                               *)

OldEnd(p)    == BaseOffset + HeadSz + p.taglist_len
Skipped(f, p) == OldEnd(p) - IlstEnd(f)
NewTail(f, p, d) == f.tail_at + (d + RewriteFree - p.taglist_len)

\* The fields of the file a rewrite leaves.
LEMMA RewriteFields ==
  ASSUME NEW f \in File, NEW p \in Parsed, NEW d \in Nat
  PROVE  /\ Rewrite(f, p, d).ilst = d
         /\ Rewrite(f, p, d).run =
              RewriteFree + (IF Skipped(f, p) \in f.marks THEN f.run - Skipped(f, p) ELSE 0)
         /\ Rewrite(f, p, d).marks =
              {0} \cup {RewriteFree + m : m \in
                          IF Skipped(f, p) \in f.marks
                          THEN {k - Skipped(f, p) : k \in {n \in f.marks : n >= Skipped(f, p)}}
                          ELSE {0}}
         /\ Rewrite(f, p, d).tail = f.tail
         /\ Rewrite(f, p, d).lost <=> (f.lost \/ FileSize(f) > p.filesz)
         /\ Rewrite(f, p, d).ilstlen = HeadSz + d
         /\ Rewrite(f, p, d).len = [c \in Parents |-> p.base_lengths[c] + RewriteDelta(p, d)]
BY DEF Rewrite, File, OldEnd, Skipped, UpdateParentLengths

\* A rewrite moves the tail to the end of the new free box and shifts the
\* chunk offsets for that move.
LEMMA RewriteMoves ==
  ASSUME NEW f \in File, NEW p \in Parsed, NEW d \in Nat
  PROVE  /\ Rewrite(f, p, d).tail_at = NewTail(f, p, d)
         /\ Rewrite(f, p, d).tables =
              UpdateOffsets(f, p, d, NewTail(f, p, d) - f.tail_at)
<1>1. /\ f.tail_at \in Nat /\ p.taglist_len \in Nat /\ BaseOffset \in Nat
      /\ FreeSpaceSz \in Nat
  BY ParamAssumption DEF File, Parsed, NParams
<1>2. BaseOffset + HeadSz + d + RewriteFree + (f.tail_at - OldEnd(p)) = NewTail(f, p, d)
  BY <1>1 DEF NewTail, OldEnd, HeadSz, RewriteFree
<1> QED
  BY <1>2 DEF Rewrite, File, OldEnd

\* The new entries of the tables are offsets again.
LEMMA OffsetsType ==
  ASSUME NEW f \in File, NEW p \in Parsed, NEW d \in Nat, NEW moved \in Int
  PROVE  /\ UpdateOffsets(f, p, d, moved) \in Seq(Table)
         /\ DOMAIN UpdateOffsets(f, p, d, moved) = DOMAIN f.tables
         /\ \A i \in DOMAIN f.tables :
              LET t == f.tables[i] IN
              /\ UpdateOffsets(f, p, d, moved)[i].front = t.front
              /\ UpdateOffsets(f, p, d, moved)[i].pos = t.pos
              /\ UpdateOffsets(f, p, d, moved)[i].after = t.after
              /\ UpdateOffsets(f, p, d, moved)[i].entry =
                   IF /\ Kept(f, p, i)
                      /\ t.after => RewriteDelta(p, d) = moved
                      /\ t.entry > OldEnd(p)
                   THEN IF t.co64 THEN t.entry + RewriteDelta(p, d)
                        ELSE (t.entry + RewriteDelta(p, d)) % StcoMod
                   ELSE t.entry
<1> DEFINE u == UpdateOffsets(f, p, d, moved)
           Hit(i) == /\ Kept(f, p, i)
                     /\ f.tables[i].after => RewriteDelta(p, d) = moved
                     /\ f.tables[i].entry > OldEnd(p)
           Moved(i) == IF f.tables[i].co64 THEN f.tables[i].entry + RewriteDelta(p, d)
                       ELSE (f.tables[i].entry + RewriteDelta(p, d)) % StcoMod
           Entry(i) == IF Hit(i) THEN Moved(i) ELSE f.tables[i].entry
<1>1. f.tables \in Seq(Table)
  BY DEF File
<1>2. /\ RewriteDelta(p, d) \in Int /\ StcoMod \in Nat \ {0}
  BY ParamAssumption DEF Parsed, NParams, RewriteDelta, RewriteFree, HeadSz
<1>3. u = [i \in DOMAIN f.tables |->
             IF Hit(i) THEN [f.tables[i] EXCEPT !.entry = Moved(i)] ELSE f.tables[i]]
  BY DEF UpdateOffsets, OldEnd
<1>4. ASSUME NEW i \in DOMAIN f.tables
      PROVE  /\ u[i] \in Table /\ u[i].front = f.tables[i].front
             /\ u[i].pos = f.tables[i].pos /\ u[i].after = f.tables[i].after
             /\ u[i].entry = Entry(i)
  <2>1. f.tables[i] \in Table
    BY <1>1
  <2>2. Moved(i) \in Int
    BY <1>2, <2>1 DEF Table
  <2>3. u[i] = IF Hit(i) THEN [f.tables[i] EXCEPT !.entry = Moved(i)] ELSE f.tables[i]
    BY <1>3
  <2> HIDE DEF u, Hit, Moved
  <2> QED
    BY <2>1, <2>2, <2>3 DEF Table
<1>5. u \in Seq(Table)
  <2>1. /\ Len(f.tables) \in Nat /\ DOMAIN f.tables = 1 .. Len(f.tables)
    BY <1>1
  <2>2. u \in [1 .. Len(f.tables) -> Table]
    <3> HIDE DEF Hit, Moved, Entry
    <3>1. DOMAIN u = 1 .. Len(f.tables) /\ u = [i \in 1 .. Len(f.tables) |-> u[i]]
      BY <1>3, <2>1
    <3> HIDE DEF u
    <3> QED
      BY <1>4, <2>1, <3>1
  <2> HIDE DEF u
  <2> QED
    BY <2>1, <2>2
<1>6. DOMAIN u = DOMAIN f.tables
  BY <1>3
<1> QED
  BY <1>4, <1>5, <1>6

\* A rewrite keeps a file well typed, leaves the tail whole and never moves it
\* to the front: it is only done if the new tag data and free box are longer.
LEMMA RewriteFacts ==
  ASSUME NEW f \in File, MarksOK(f), NEW p \in Parsed, NEW d \in Nat,
         ~ FitsInPlace(p, d), f.tail_at >= OldEnd(p),
         NEW g, g = Rewrite(f, p, d)
  PROVE  /\ g \in File /\ MarksOK(g)
         /\ g.tail_at >= f.tail_at
<1> DEFINE skipped == Skipped(f, p)
           run     == RewriteFree + (IF skipped \in f.marks THEN f.run - skipped ELSE 0)
           copied  == IF skipped \in f.marks
                      THEN {k - skipped : k \in {n \in f.marks : n >= skipped}}
                      ELSE {0}
           marks   == {0} \cup {RewriteFree + m : m \in copied}
           at      == NewTail(f, p, d)
           ilen    == HeadSz + d
           lost    == f.lost \/ FileSize(f) > p.filesz
           len     == [c \in Parents |-> p.base_lengths[c] + RewriteDelta(p, d)]
           tables  == UpdateOffsets(f, p, d, NewTail(f, p, d) - f.tail_at)
<1>1. /\ f.ilst \in Nat /\ f.run \in Nat /\ f.tail_at \in Nat
      /\ f.marks \subseteq 0 .. f.run /\ 0 \in f.marks /\ f.run \in f.marks
      /\ f.lost \in BOOLEAN
  BY DEF File, MarksOK
<1>2. /\ p.taglist_len \in Nat /\ p.base_lengths \in [Parents -> Int]
      /\ RewriteFree \in Nat /\ RewriteFree >= 8 /\ RewriteDelta(p, d) \in Int
      /\ BaseOffset \in Nat
  BY ParamAssumption DEF Parsed, NParams, RewriteDelta, RewriteFree, HeadSz
<1>3. d >= p.taglist_len - 8
  BY <1>2 DEF FitsInPlace, HeadSz
<1>4. at \in Nat /\ at >= f.tail_at
  BY <1>1, <1>2, <1>3 DEF NewTail
<1>5. skipped \in Int
  BY <1>1, <1>2 DEF Skipped, OldEnd, IlstEnd, HeadSz
<1> HIDE DEF skipped
<1>6. run \in Nat /\ copied \in SUBSET Nat
  BY <1>1, <1>2, <1>5
<1>7. marks \subseteq 0 .. run /\ 0 \in marks /\ run \in marks
  <2>1. CASE skipped \in f.marks
    <3>1. run = RewriteFree + (f.run - skipped) /\ f.run >= skipped /\ skipped \in Nat
      BY <1>1, <2>1
    <3>2. copied \subseteq 0 .. (f.run - skipped) /\ (f.run - skipped) \in copied
      BY <1>1, <2>1, <3>1
    <3> HIDE DEF copied, run
    <3> QED
      BY <1>1, <1>2, <1>6, <3>1, <3>2
  <2>2. CASE skipped \notin f.marks
    BY <1>2, <2>2
  <2> QED
    BY <2>1, <2>2
<1>8. lost \in BOOLEAN /\ len \in [Parents -> Int] /\ ilen \in Int
  BY <1>1, <1>2 DEF HeadSz
<1>9. tables \in Seq(Table)
  BY <1>1, <1>4, OffsetsType
<1>10. marks \in SUBSET Nat
  BY <1>6, <1>7
<1>11. g = [f EXCEPT !.ilst = d, !.run = run, !.marks = marks,
                     !.tail_at = at, !.lost = lost,
                     !.ilstlen = ilen, !.len = len, !.tables = tables]
  <2>1. BaseOffset + HeadSz + d + RewriteFree + (f.tail_at - OldEnd(p)) = at
    BY <1>1, <1>2 DEF NewTail, OldEnd, HeadSz
  <2>2. g = Rewrite(f, p, d)
    OBVIOUS
  <2> QED
    BY <2>1, <2>2 DEF Rewrite, OldEnd, UpdateParentLengths, skipped, Skipped
<1> HIDE DEF run, copied, marks, at, ilen, lost, len, tables
<1>12. g \in File
  <2>1. [f EXCEPT !.ilst = d, !.run = run, !.marks = marks,
                  !.tail_at = at, !.lost = lost,
                  !.ilstlen = ilen, !.len = len, !.tables = tables] \in File
    BY <1>4, <1>6, <1>8, <1>9, <1>10 DEF File
  <2> QED
    BY <1>11, <2>1
<1>13. g.run = run /\ g.marks = marks /\ g.tail_at = at
  BY <1>11 DEF File
<1> QED
  BY <1>4, <1>7, <1>12, <1>13 DEF MarksOK

\* A covered rewrite leaves a proper tree of boxes.
LEMMA RewriteBoxTree ==
  ASSUME NEW f \in File, MarksOK(f), BoxTree(f), NEW d \in Nat,
         NEW p, p = ParseOf(f), ~ FitsInPlace(p, d), WriteSound(f, p, d),
         NEW g, g = Rewrite(f, p, d)
  PROVE  BoxTree(g)
<1> DEFINE skipped == Skipped(f, p)
<1>1. /\ f.ilst \in Nat /\ f.run \in Nat /\ f.tail_at \in Nat
      /\ f.len \in [Parents -> Int] /\ f.marks \subseteq 0 .. f.run
      /\ 0 \in f.marks /\ f.run \in f.marks
      /\ ~ f.lost /\ f.tail_at = BaseOffset + HeadSz + f.ilst + f.run
      /\ BaseOffset \in Nat /\ RewriteFree \in Nat /\ RewriteFree >= 8
  BY ParamAssumption
     DEF File, MarksOK, BoxTree, IlstEnd, NParams, RewriteFree, HeadSz
<1>2. /\ p \in Parsed /\ p.orig_data_len = f.ilst /\ p.base_lengths = f.len
      /\ p.interior_free_len = IF f.ilst = 0 THEN 0 ELSE FreeIn(f, 0)
      /\ p.exterior_free_len = IF f.ilst = 0 THEN 0 ELSE f.run - FreeIn(f, 0)
      /\ p.taglist_len = f.ilst + p.interior_free_len + p.exterior_free_len
      /\ p.filesz = FileSize(f)
      /\ f.tail_at >= OldEnd(p)
  BY ParseFacts DEF ParseOf, OldEnd
<1>3. /\ FreeIn(f, 0) \in 0 .. f.run
      /\ \A c \in Parents : FreeIn(f, c) \in f.marks /\ FreeIn(f, c) \in 0 .. f.run
      /\ \A c \in Parents : TailIn(f, c) > 0 => FreeIn(f, c) = f.run
      /\ EndOf(f, 2) <= EndOf(f, 1) /\ EndOf(f, 1) <= EndOf(f, 0)
  BY <1>1 DEF BoxTree, Parents
<1>4. p.interior_free_len = 0 /\ p.exterior_free_len \in {0, RewriteFree}
  BY DEF WriteSound, RewriteSound
<1>5. g \in File
  BY <1>2, RewriteFacts
<1>6. /\ g.ilst = d
      /\ g.run = RewriteFree + (IF skipped \in f.marks THEN f.run - skipped ELSE 0)
      /\ g.marks = {0} \cup {RewriteFree + m : m \in
                       IF skipped \in f.marks
                       THEN {k - skipped : k \in {n \in f.marks : n >= skipped}}
                       ELSE {0}}
      /\ g.tail_at = NewTail(f, p, d)
      /\ g.tail = f.tail
      /\ g.lost <=> (f.lost \/ FileSize(f) > p.filesz)
      /\ g.ilstlen = HeadSz + d
      /\ g.len = [c \in Parents |-> p.base_lengths[c] + RewriteDelta(p, d)]
  BY <1>2, RewriteFields, RewriteMoves
<1> DEFINE delta == d - p.taglist_len + RewriteFree
<1>7. delta \in Int /\ RewriteDelta(p, d) = delta
  BY <1>1, <1>2, <1>4 DEF RewriteDelta, Parsed
<1> HIDE DEF skipped
<1>8. /\ \A c \in Parents : FreeIn(g, c) = FreeIn(f, c) + delta + f.ilst - d
      /\ \A c \in Parents : EndOf(g, c) = EndOf(f, c) + delta
      /\ \A c \in Parents : TailIn(g, c) = TailIn(f, c)
      /\ \A c \in Parents : EndOf(f, c) \in Int /\ FreeIn(f, c) \in Int
  <2> HIDE DEF delta
  <2>1. \A c \in Parents : g.len[c] = f.len[c] + delta
    BY <1>1, <1>2, <1>6, <1>7
  <2>2. g.tail = f.tail /\ g.ilst = d /\ delta \in Int
    BY <1>6, <1>7
  <2> QED
    BY <1>5, <2>1, <2>2, FreeInMoves
<1>9. EndOf(g, 2) <= EndOf(g, 1) /\ EndOf(g, 1) <= EndOf(g, 0)
  <2> HIDE DEF delta
  <2> QED
    BY <1>3, <1>7, <1>8 DEF Parents
<1>10. IlstEnd(g) = BaseOffset + HeadSz + d
  BY <1>6 DEF IlstEnd
<1>11. FileSize(f) \in Nat
  BY <1>1, TailFacts DEF FileSize
<1>12. ~ g.lost
  BY <1>1, <1>2, <1>6, <1>11
<1>13. ASSUME f.ilst = 0
       PROVE  /\ g.tail_at = IlstEnd(g) + g.run
              /\ \A c \in Parents : FreeIn(g, c) \in g.marks
              /\ \A c \in Parents : TailIn(f, c) > 0 => FreeIn(g, c) = g.run
  <2>1. p.taglist_len = 0 /\ skipped = 0
    BY <1>1, <1>2, <1>4, <1>13 DEF skipped, Skipped, OldEnd, IlstEnd, HeadSz
  <2>2. g.run = RewriteFree + f.run
    BY <1>1, <1>6, <2>1
  <2>3. \A m \in f.marks : RewriteFree + m \in g.marks
    <3>1. SUFFICES ASSUME NEW m \in f.marks PROVE RewriteFree + m \in g.marks
      OBVIOUS
    <3>2. m - skipped = m /\ m >= skipped
      BY <1>1, <2>1
    <3> QED
      BY <1>1, <1>6, <2>1, <3>2
  <2>4. \A c \in Parents : FreeIn(g, c) = RewriteFree + FreeIn(f, c)
    BY <1>1, <1>8, <1>13, <2>1
  <2>5. g.tail_at = IlstEnd(g) + g.run
    BY <1>1, <1>6, <1>10, <1>13, <2>1, <2>2 DEF NewTail, HeadSz
  <2> QED
    BY <1>3, <2>2, <2>3, <2>4, <2>5
<1>14. ASSUME f.ilst > 0
       PROVE  /\ g.tail_at = IlstEnd(g) + g.run
              /\ \A c \in Parents : FreeIn(g, c) \in g.marks
              /\ \A c \in Parents : TailIn(f, c) > 0 => FreeIn(g, c) = g.run
  <2>1. /\ FreeIn(f, 0) = 0 /\ f.run \in {0, RewriteFree}
        /\ p.taglist_len = f.ilst + f.run
    BY <1>1, <1>2, <1>3, <1>4, <1>14
  <2>2. skipped = f.run
    BY <1>1, <2>1 DEF skipped, Skipped, OldEnd, IlstEnd, HeadSz
  <2>3. g.run = RewriteFree
    BY <1>1, <1>6, <2>2
  <2>4. 0 \in g.marks
    BY <1>6
  <2>5. RewriteFree \in g.marks
    <3>1. f.run - skipped = 0 /\ f.run >= skipped /\ RewriteFree + 0 = RewriteFree
      BY <1>1, <2>2
    <3> QED
      BY <1>1, <1>6, <2>2, <3>1
  <2>6. g.tail_at = IlstEnd(g) + g.run
    BY <1>1, <1>6, <1>10, <2>1, <2>3 DEF NewTail, HeadSz
  <2>7. \A c \in Parents : FreeIn(g, c) = FreeIn(f, c) + RewriteFree - f.run
    BY <1>1, <1>8, <2>1
  <2>8. CASE f.run = 0
    <3>1. \A c \in Parents : FreeIn(f, c) = 0
      BY <1>3, <2>8
    <3> QED
      BY <1>1, <2>3, <2>5, <2>6, <2>7, <2>8, <3>1
  <2>9. CASE f.run = RewriteFree
    <3>1. /\ TailIn(f, 0) \in Nat /\ TailIn(f, 1) \in Nat /\ TailIn(f, 2) \in Nat
          /\ TailIn(f, 2) <= TailIn(f, 1) /\ TailIn(f, 1) <= TailIn(f, 0)
      BY TailFacts
    <3>2. TailIn(f, 0) = 0 /\ TailIn(f, 1) = 0 /\ TailIn(f, 2) = 0
      BY <1>1, <1>3, <2>1, <2>9, <3>1 DEF Parents
    <3>3. \A c \in Parents :
            EndOf(f, c) = BaseOffset + 8 + f.ilst + FreeIn(f, c) + TailIn(f, c)
      <4>1. SUFFICES ASSUME NEW c \in Parents
                     PROVE EndOf(f, c) = BaseOffset + 8 + f.ilst + FreeIn(f, c) + TailIn(f, c)
        OBVIOUS
      <4>2. EndOf(f, c) \in Int /\ TailIn(f, c) \in Nat
        BY <1>8, TailFacts
      <4>3. FreeIn(f, c) = EndOf(f, c) - TailIn(f, c) - (BaseOffset + 8 + f.ilst)
        BY DEF FreeIn, IlstEnd, HeadSz
      <4> QED
        BY <1>1, <4>2, <4>3
    <3>4. FreeIn(f, 1) = 0 /\ FreeIn(f, 2) = 0
      BY <1>1, <1>3, <2>1, <3>2, <3>3 DEF Parents
    <3>5. \A c \in Parents : FreeIn(f, c) = 0 /\ TailIn(f, c) = 0
      BY <2>1, <3>2, <3>4 DEF Parents
    <3> QED
      BY <1>1, <2>4, <2>6, <2>7, <2>9, <3>5
  <2> QED
    BY <2>1, <2>8, <2>9
<1>15. g.ilstlen = HeadSz + g.ilst
  BY <1>6
<1> QED
  BY <1>1, <1>8, <1>9, <1>12, <1>13, <1>14, <1>15 DEF BoxTree

\* A number that fits is not changed by storing it.
LEMMA SmallMod ==
  ASSUME NEW m \in Nat \ {0}, NEW a \in 0 .. (m - 1)
  PROVE  a % m = a
OBVIOUS

\* A covered rewrite shifts the entries of the tables by as much as the tail
\* moves, so they still point at their chunks.
LEMMA RewriteChunks ==
  ASSUME NEW f \in File, MarksOK(f), BoxTree(f), Chunks(f), ChunkPlaces(f),
         NEW d \in Nat,
         NEW p, p = ParseOf(f), ~ FitsInPlace(p, d), WriteSound(f, p, d),
         NEW g, g = Rewrite(f, p, d)
  PROVE  Chunks(g)
<1>1. /\ p \in Parsed /\ f.tail_at >= OldEnd(p)
  BY ParseFacts DEF OldEnd
<1>2. /\ BaseOffset \in Nat /\ RewriteFree \in Nat /\ StcoMod \in Nat \ {0}
      /\ RewriteFree >= 8
  BY ParamAssumption DEF NParams, RewriteFree, HeadSz
<1>3. p.interior_free_len = 0 /\ p.taglist_len \in Nat
  BY <1>1 DEF WriteSound, RewriteSound, Parsed
<1>4. f.tail_at \in Nat
  BY DEF File
<1>6. /\ g.tables = UpdateOffsets(f, p, d, NewTail(f, p, d) - f.tail_at)
      /\ g.tail_at = NewTail(f, p, d)
  BY <1>1, RewriteMoves
<1> DEFINE delta == RewriteDelta(p, d)
           at    == NewTail(f, p, d)
<1>5. /\ delta = d - p.taglist_len + RewriteFree
      /\ delta \in Int /\ at = f.tail_at + delta /\ delta >= 0
  BY <1>2, <1>3, <1>4 DEF RewriteDelta, NewTail, FitsInPlace, HeadSz
<1>7. at - f.tail_at \in Int /\ at - f.tail_at = delta
  BY <1>4, <1>5
<1> HIDE DEF delta, at
<1>8. /\ DOMAIN g.tables = DOMAIN f.tables
      /\ \A i \in DOMAIN f.tables :
           /\ g.tables[i].front = f.tables[i].front
           /\ g.tables[i].pos = f.tables[i].pos
           /\ g.tables[i].entry =
                IF /\ Kept(f, p, i)
                   /\ f.tables[i].after => delta = at - f.tail_at
                   /\ f.tables[i].entry > OldEnd(p)
                THEN IF f.tables[i].co64 THEN f.tables[i].entry + delta
                     ELSE (f.tables[i].entry + delta) % StcoMod
                ELSE f.tables[i].entry
  BY <1>1, <1>6, <1>7, OffsetsType DEF delta, at
<1>9. SUFFICES ASSUME NEW i \in DOMAIN f.tables
               PROVE  g.tables[i].entry = ChunkAt(g, i)
  BY <1>8 DEF Chunks
<1>10. /\ f.tables[i].pos \in Nat /\ f.tables[i].co64 \in BOOLEAN
       /\ f.tables[i].entry \in Int
  <2>1. f.tables[i] \in Table
    BY DEF File
  <2> QED
    BY <2>1 DEF Table
<1>11. f.tables[i].entry = ChunkAt(f, i)
  BY DEF Chunks
<1>12. OldEnd(p) = BaseOffset + 8 + p.taglist_len
  BY DEF OldEnd, HeadSz
<1>13. CASE f.tables[i].front
  <2>1. f.tables[i].entry = f.tables[i].pos /\ f.tables[i].pos < BaseOffset
    BY <1>11, <1>13 DEF ChunkAt, ChunkPlaces
  <2>2. ~ (f.tables[i].entry > OldEnd(p))
    BY <1>2, <1>3, <1>10, <1>12, <2>1
  <2> QED
    BY <1>8, <1>13, <2>1, <2>2 DEF ChunkAt
<1>14. CASE ~ f.tables[i].front
  <2>1. f.tables[i].entry = f.tail_at + f.tables[i].pos /\ f.tables[i].pos >= 8
    <3>1. f.tables[i].pos \in 8 .. (TailLen(f) - 1) /\ TailLen(f) \in Nat
      BY <1>14, TailFacts DEF ChunkPlaces, HeadSz
    <3> QED
      BY <1>11, <1>14, <3>1 DEF ChunkAt
  <2>2. f.tables[i].entry > OldEnd(p)
    BY <1>1, <1>2, <1>3, <1>4, <1>10, <1>12, <2>1
  <2>3. /\ Kept(f, p, i)
        /\ f.tables[i].co64 \/ f.tables[i].entry + delta < StcoMod
    BY <1>14 DEF WriteSound, RewriteSound, delta
  <2>4. f.tables[i].entry + delta = at + f.tables[i].pos
    BY <1>4, <1>5, <1>10, <2>1
  <2>5. ~ f.tables[i].co64 => (f.tables[i].entry + delta) % StcoMod = f.tables[i].entry + delta
    <3>1. SUFFICES ASSUME ~ f.tables[i].co64
                   PROVE  (f.tables[i].entry + delta) % StcoMod = f.tables[i].entry + delta
      OBVIOUS
    <3>2. f.tables[i].entry + delta \in 0 .. (StcoMod - 1)
      <4>1. f.tables[i].entry + delta < StcoMod
        BY <2>3, <3>1
      <4>2. f.tables[i].entry + delta \in Int /\ f.tables[i].entry + delta >= 0
        BY <1>4, <1>5, <1>10, <2>1
      <4> QED
        BY <1>2, <4>1, <4>2
    <3> QED
      BY <1>2, <3>2, SmallMod
  <2>6. g.tables[i].entry = f.tables[i].entry + delta
    BY <1>7, <1>8, <2>2, <2>3, <2>5
  <2> QED
    BY <1>6, <1>8, <1>14, <2>4, <2>6 DEF ChunkAt, at
<1> QED
  BY <1>13, <1>14

-----------------------------------------------------------------------------
(* The inductive invariant and the theorems.                               *)

\* BoxTreeKept and ChunksKept are not inductive: a write is only right if the
\* handle still describes the file, and a rewrite must find the tail behind
\* what it takes for the old tag list, even when the handle is stale.
Inductive ==
  /\ TypeOK
  /\ MarksOK(file) /\ ChunkPlaces(file)
  /\ handle = "parsed" => parse = ParseOf(file) /\ BoxTree(file)
  /\ handle # "closed" => file.tail_at >= OldEnd(parse)
  /\ BoxTreeKept
  /\ ChunksKept

\* The files a session may be opened on satisfy the inductive invariant.
LEMMA InitInductive == Init => Inductive
<1>1. SUFFICES ASSUME Init PROVE Inductive
  OBVIOUS
<1>2. /\ file \in File /\ MarksOK(file) /\ Chunks(file) /\ ChunkPlaces(file)
      /\ BoxTree(file) \/ Bug13(file)
  BY <1>1, ParamAssumption, LayoutAssumption DEF Init, NParams
<1>3. parse \in Parsed
  BY <1>1, <1>2, ParseFacts DEF Init
<1>4. MaxWrites \in Nat
  BY ParamAssumption DEF NParams
<1> QED
  BY <1>1, <1>2, <1>3, <1>4 DEF Init, Inductive, TypeOK, BoxTreeKept, ChunksKept

\* Where the chunks are depends only on the tables and the tail.
LEMMA ChunksMove ==
  ASSUME NEW f \in File, NEW g \in File, g.tables = f.tables, g.tail = f.tail
  PROVE  /\ ChunkPlaces(f) => ChunkPlaces(g)
         /\ Chunks(f) /\ g.tail_at = f.tail_at => Chunks(g)
<1>1. TailLen(g) = TailLen(f)
  BY SameTail
<1> QED
  BY <1>1 DEF ChunkPlaces, Chunks, ChunkAt

\* Opening a file keeps the invariant, also when it repairs the file.
LEMMA ParseInductive == Inductive /\ Parse => Inductive'
<1>1. SUFFICES ASSUME Inductive, Parse PROVE Inductive'
  OBVIOUS
<1> DEFINE g == Fixed(file)
<1>2. /\ file \in File /\ MarksOK(file) /\ ChunkPlaces(file)
      /\ BoxTree(file) \/ Bug13(file)
      /\ writes \in 0 .. MaxWrites /\ sound \in BOOLEAN
      /\ sound => Chunks(file)
  BY <1>1 DEF Inductive, TypeOK, Parse, ChunksKept
<1>3. /\ g \in File /\ BoxTree(g) /\ MarksOK(g)
      /\ g.tables = file.tables /\ g.tail_at = file.tail_at /\ g.tail = file.tail
  BY <1>2, FixedFacts
<1>4. /\ ParseOf(g) \in Parsed /\ g.tail_at >= OldEnd(ParseOf(g))
  BY <1>3, ParseFacts DEF OldEnd
<1>5. ChunkPlaces(g) /\ (sound => Chunks(g))
  BY <1>2, <1>3, ChunksMove
<1>6. /\ file' = g /\ parse' = ParseOf(g) /\ handle' = "parsed"
      /\ writes' = writes /\ sound' = sound
  BY <1>1 DEF Parse
<1> HIDE DEF g
<1> QED
  BY <1>2, <1>3, <1>4, <1>5, <1>6 DEF Inductive, TypeOK, BoxTreeKept, ChunksKept

\* Closing the handle keeps the invariant: the file is not touched.
LEMMA CloseInductive == Inductive /\ Close => Inductive'
BY DEF Inductive, Close, TypeOK, BoxTreeKept, ChunksKept

\* What a write leaves whether it is covered or not.
LEMMA WriteKeeps ==
  ASSUME Inductive, NEW d \in DataLens, WriteTags(d)
  PROVE  /\ file' \in File /\ MarksOK(file') /\ ChunkPlaces(file')
         /\ file'.tail_at >= file.tail_at
         /\ file'.tail = file.tail
<1>1. /\ file \in File /\ parse \in Parsed /\ MarksOK(file) /\ ChunkPlaces(file)
      /\ file.tail_at >= OldEnd(parse) /\ d \in Nat
  BY ParamAssumption DEF Inductive, TypeOK, WriteTags, NParams
<1>2. CASE WriteInPlace(d)
  <2>1. file' = InPlace(file, parse, d)
    BY <1>2 DEF WriteInPlace
  <2>2. LET g == InPlace(file, parse, d)
        IN /\ g \in File /\ MarksOK(g)
           /\ g.ilst = d /\ g.tail = file.tail /\ g.tables = file.tables
           /\ g.tail_at >= file.tail_at
    BY <1>1, InPlaceFacts
  <2> QED
    BY <1>1, <2>1, <2>2, ChunksMove
<1>3. CASE WriteRewrite(d)
  <2> DEFINE g == Rewrite(file, parse, d)
  <2>1. file' = g /\ ~ FitsInPlace(parse, d)
    BY <1>3 DEF WriteRewrite
  <2>2. g \in File /\ MarksOK(g) /\ g.tail_at >= file.tail_at
    BY <1>1, <2>1, RewriteFacts
  <2>3. g.tail = file.tail
    BY <1>1, RewriteFields
  <2>4. g.tables = UpdateOffsets(file, parse, d, NewTail(file, parse, d) - file.tail_at)
    BY <1>1, RewriteMoves
  <2>5. NewTail(file, parse, d) - file.tail_at \in Int
    BY <1>1, ParamAssumption DEF NewTail, File, Parsed, NParams, RewriteFree, HeadSz
  <2> HIDE DEF g
  <2>6. /\ DOMAIN g.tables = DOMAIN file.tables
        /\ \A i \in DOMAIN file.tables :
             /\ g.tables[i].front = file.tables[i].front
             /\ g.tables[i].pos = file.tables[i].pos
             /\ g.tables[i].after = file.tables[i].after
    BY <1>1, <2>4, <2>5, OffsetsType
  <2>7. TailLen(g) = TailLen(file)
    BY <2>3, SameTail
  <2>8. ChunkPlaces(g)
    BY <1>1, <2>3, <2>6, <2>7 DEF ChunkPlaces
  <2> QED
    BY <2>1, <2>2, <2>3, <2>8
<1> QED
  BY <1>2, <1>3 DEF WriteTags

\* A covered write keeps the tree of boxes and the chunk offsets.
LEMMA CoveredWrite ==
  ASSUME Inductive, NEW d \in DataLens, WriteTags(d), sound'
  PROVE  BoxTree(file') /\ Chunks(file')
<1>1. /\ file \in File /\ MarksOK(file) /\ ChunkPlaces(file) /\ BoxTree(file)
      /\ parse = ParseOf(file) /\ WriteSound(file, parse, d) /\ Chunks(file)
      /\ d \in Nat /\ parse \in Parsed
  BY ParamAssumption DEF Inductive, TypeOK, WriteTags, NParams, ChunksKept
<1>2. CASE WriteInPlace(d)
  <2> DEFINE g == InPlace(file, parse, d)
  <2>1. file' = g /\ FitsInPlace(parse, d)
    BY <1>2 DEF WriteInPlace
  <2>2. BoxTree(g) /\ (g.tail_at # file.tail_at => TailLen(file) = 0)
    BY <1>1, <2>1, InPlaceBoxTree
  <2>3. g \in File /\ g.tail = file.tail /\ g.tables = file.tables
    BY <1>1, InPlaceFacts
  <2> HIDE DEF g
  <2>4. CASE g.tail_at = file.tail_at
    BY <1>1, <2>1, <2>2, <2>3, <2>4, ChunksMove
  <2>5. CASE TailLen(file) = 0
    <3>1. \A i \in DOMAIN file.tables : file.tables[i].front
      BY <1>1, <2>5 DEF ChunkPlaces, HeadSz
    <3> QED
      BY <1>1, <2>1, <2>2, <2>3, <3>1 DEF Chunks, ChunkAt
  <2> QED
    BY <2>2, <2>4, <2>5
<1>3. CASE WriteRewrite(d)
  <2>1. file' = Rewrite(file, parse, d) /\ ~ FitsInPlace(parse, d)
    BY <1>3 DEF WriteRewrite
  <2> QED
    BY <1>1, <2>1, RewriteBoxTree, RewriteChunks
<1> QED
  BY <1>2, <1>3 DEF WriteTags

\* A call of mp4tag_write_tags keeps the invariant.
LEMMA WriteInductive ==
  ASSUME Inductive, NEW d \in DataLens, WriteTags(d)
  PROVE  Inductive'
<1>1. /\ file' \in File /\ MarksOK(file') /\ ChunkPlaces(file')
      /\ file'.tail_at >= file.tail_at
  BY WriteKeeps
<1>2. sound' => BoxTree(file') /\ Chunks(file')
  BY CoveredWrite
<1>3. /\ handle' = "stale" /\ parse' = parse /\ parse \in Parsed
      /\ writes' \in 0 .. MaxWrites /\ sound' \in BOOLEAN
  BY ParamAssumption DEF Inductive, TypeOK, WriteTags, NParams
<1>4. file'.tail_at >= OldEnd(parse')
  <2>1. file \in File /\ file' \in File /\ parse \in Parsed
    BY <1>1 DEF Inductive, TypeOK
  <2>2. file.tail_at \in Nat /\ file'.tail_at \in Nat
    BY <2>1 DEF File
  <2>3. BaseOffset \in Int /\ HeadSz \in Int /\ parse.taglist_len \in Int
    BY <2>1, ParamAssumption DEF Parsed, NParams, HeadSz
  <2>4. OldEnd(parse) \in Int
    BY <2>3 DEF OldEnd
  <2>5. handle # "closed"
    BY DEF WriteTags
  <2>6. file.tail_at >= OldEnd(parse)
    BY <2>5 DEF Inductive
  <2>7. OldEnd(parse') = OldEnd(parse)
    BY <1>3
  <2> QED
    BY <1>1, <2>2, <2>4, <2>6, <2>7
<1> QED
  BY <1>1, <1>2, <1>3, <1>4 DEF Inductive, TypeOK, BoxTreeKept, ChunksKept

\* The inductive invariant holds in every session.
THEOREM InductiveHolds == Spec => []Inductive
<1>1. Inductive /\ [Next]_vars => Inductive'
  <2>1. SUFFICES ASSUME Inductive, [Next]_vars PROVE Inductive'
    OBVIOUS
  <2>2. CASE Parse
    BY <2>1, <2>2, ParseInductive
  <2>3. CASE Close
    BY <2>1, <2>3, CloseInductive
  <2>4. ASSUME NEW d \in DataLens, WriteTags(d) PROVE Inductive'
    BY <2>1, <2>4, WriteInductive
  <2>5. CASE UNCHANGED vars
    BY <2>1, <2>5 DEF vars, Inductive, TypeOK, BoxTreeKept, ChunksKept
  <2> QED
    BY <2>1, <2>2, <2>3, <2>4, <2>5 DEF Next
<1> QED
  BY <1>1, InitInductive, PTL DEF Spec

\* Types are kept for every size of the file, of the tags and of the free space.
THEOREM TypesHold == Spec => []TypeOK
BY InductiveHolds, PTL DEF Inductive

\* No mix of covered writes breaks the tree of boxes.
THEOREM BoxTreeHolds == Spec => []BoxTreeKept
BY InductiveHolds, PTL DEF Inductive

\* No mix of covered writes leaves a stale chunk offset.
THEOREM ChunksHold == Spec => []ChunksKept
BY InductiveHolds, PTL DEF Inductive

\* What is opened is readable, damaged by version 1.3.0 or not.
THEOREM ParsedReadableHolds == Spec => []ParsedIsReadable
<1>1. Inductive => ParsedIsReadable
  BY DEF Inductive, ParsedIsReadable
<1> QED
  BY <1>1, InductiveHolds, PTL

\* A write in a fresh session, covered or not, never loses media data.
THEOREM MediaHolds == Spec => MediaKept
<1> DEFINE Kept1 ==
      handle = "parsed" =>
        /\ file'.lost = file.lost
        /\ file'.tail = file.tail
        /\ FitsInPlace(parse, file'.ilst) /\ handle' = "stale" /\ ~ parse.unlimited
             => file'.tail_at = file.tail_at
<1>1. Inductive /\ [Next]_vars => [Kept1]_vars
  <2>1. SUFFICES ASSUME Inductive, [Next]_vars, handle = "parsed" PROVE Kept1
    BY DEF vars
  <2>2. CASE Parse
    BY <2>1, <2>2 DEF Parse
  <2>3. CASE Close \/ UNCHANGED vars
    BY <2>1, <2>3 DEF Close, vars
  <2>4. ASSUME NEW d \in DataLens, WriteTags(d) PROVE Kept1
    <3>1. /\ file \in File /\ MarksOK(file) /\ BoxTree(file)
          /\ parse = ParseOf(file) /\ parse \in Parsed /\ d \in Nat
          /\ file.tail_at >= OldEnd(parse)
      BY <2>1, <2>4, ParamAssumption DEF Inductive, TypeOK, NParams
    <3>2. file'.tail = file.tail
      BY <2>1, <2>4, WriteKeeps
    <3>3. CASE WriteInPlace(d)
      <4> DEFINE g == InPlace(file, parse, d)
      <4>1. file' = g /\ FitsInPlace(parse, d)
        BY <3>3 DEF WriteInPlace
      <4>2. /\ g.tail_at = IF TailLen(file) = 0 /\ NewEnd(parse, d) > file.tail_at
                           THEN NewEnd(parse, d) ELSE file.tail_at
            /\ g.lost = (file.lost \/ (TailLen(file) > 0 /\ NewEnd(parse, d) > file.tail_at))
        BY DEF InPlace, NewEnd, File
      <4> HIDE DEF g
      <4>3. ASSUME ~ parse.unlimited PROVE ~ (NewEnd(parse, d) > file.tail_at)
        <5>1. parse.taglist_len = parse.orig_data_len + parse.interior_free_len
                                    + parse.exterior_free_len
          BY <3>1 DEF ParseOf
        <5>2. NewEnd(parse, d) <= OldEnd(parse)
          BY <3>1, <4>1, <4>3, <5>1, InPlaceSpace DEF OldEnd
        <5>3. NewEnd(parse, d) \in Int /\ OldEnd(parse) \in Int /\ file.tail_at \in Int
          <6>1. FreeBox(parse, d) \in Nat /\ parse.taglist_len \in Nat
            BY <3>1, InPlaceTypes DEF Parsed
          <6>2. BaseOffset \in Nat /\ file.tail_at \in Nat
            BY <3>1, ParamAssumption DEF NParams, File
          <6> QED
            BY <3>1, <6>1, <6>2 DEF NewEnd, OldEnd, HeadSz
        <5> QED
          BY <3>1, <5>2, <5>3
      <4>4. parse.unlimited => TailLen(file) = 0
        BY <3>1 DEF ParseOf
      <4>5. file.lost \in BOOLEAN /\ TailLen(file) \in Nat
        BY <3>1, TailFacts DEF File
      <4>6. file'.lost = file.lost
        BY <4>1, <4>2, <4>3, <4>4, <4>5
      <4>7. ~ parse.unlimited => file'.tail_at = file.tail_at
        BY <4>1, <4>2, <4>3
      <4> QED
        BY <3>2, <4>6, <4>7
    <3>4. CASE WriteRewrite(d)
      <4>1. file' = Rewrite(file, parse, d) /\ ~ FitsInPlace(parse, d)
        BY <3>4 DEF WriteRewrite
      <4>2. file'.ilst = d /\ (file'.lost <=> (file.lost \/ FileSize(file) > parse.filesz))
        BY <3>1, <4>1 DEF Rewrite, File
      <4>3. parse.filesz = FileSize(file) /\ FileSize(file) \in Nat
        <5>1. file.tail_at \in Nat /\ TailLen(file) \in Nat
          BY <3>1, TailFacts DEF File
        <5> QED
          BY <3>1, <5>1 DEF ParseOf, FileSize
      <4>4. file'.lost \in BOOLEAN /\ file.lost \in BOOLEAN
        BY <2>1, <2>4, <3>1, WriteKeeps DEF File
      <4>5. file'.lost = file.lost
        BY <4>2, <4>3, <4>4
      <4> QED
        BY <3>2, <4>1, <4>2, <4>5
    <3> QED
      BY <2>4, <3>3, <3>4 DEF WriteTags
  <2> QED
    BY <2>1, <2>2, <2>3, <2>4 DEF Next
<1> QED
  BY <1>1, InductiveHolds, PTL DEF Spec, MediaKept

\* Covered in-place writes between other boxes turn free space into tag data
\* and back, and lose none: the boxes behind stay where they are, and what is
\* in front of them is the tag data and the free boxes alone.
THEOREM SpaceHolds == Spec => SpaceConserved
<1> DEFINE Media1 ==
      handle = "parsed" =>
        /\ file'.lost = file.lost
        /\ file'.tail = file.tail
        /\ FitsInPlace(parse, file'.ilst) /\ handle' = "stale" /\ ~ parse.unlimited
             => file'.tail_at = file.tail_at
           Space1 ==
      sound' /\ handle = "parsed" /\ handle' = "stale"
        /\ FitsInPlace(parse, file'.ilst) /\ ~ parse.unlimited
      => file'.ilst + file'.run = file.ilst + file.run
<1>1. Inductive /\ [Next]_vars /\ [Media1]_vars => [Space1]_vars
  <2> SUFFICES ASSUME Inductive, [Next]_vars, Media1, sound', handle = "parsed",
                      handle' = "stale", FitsInPlace(parse, file'.ilst), ~ parse.unlimited
               PROVE  file'.ilst + file'.run = file.ilst + file.run
    BY DEF vars
  <2>1. PICK d \in DataLens : WriteTags(d)
    BY DEF Next, Parse, Close, vars
  <2>2. file \in File /\ file' \in File
    BY <2>1, WriteKeeps DEF Inductive, TypeOK
  <2>3. BoxTree(file) /\ BoxTree(file')
    BY <2>1, CoveredWrite DEF Inductive
  <2>4. file'.tail_at = file.tail_at
    OBVIOUS
  <2>5. /\ file.tail_at = BaseOffset + HeadSz + file.ilst + file.run
        /\ file'.tail_at = BaseOffset + HeadSz + file'.ilst + file'.run
    BY <2>3 DEF BoxTree, IlstEnd
  <2>6. /\ file.ilst \in Nat /\ file.run \in Nat /\ file'.ilst \in Nat /\ file'.run \in Nat
        /\ BaseOffset \in Nat /\ HeadSz \in Nat
    BY <2>2, ParamAssumption DEF File, NParams, HeadSz
  <2> QED
    BY <2>4, <2>5, <2>6
<1>2. [][Media1]_vars <=> MediaKept
  BY PTL DEF MediaKept
<1>3. [][Space1]_vars <=> SpaceConserved
  BY PTL DEF SpaceConserved
<1> HIDE DEF Media1, Space1
<1> QED
  BY <1>1, <1>2, <1>3, InductiveHolds, MediaHolds, PTL DEF Spec
=============================================================================
