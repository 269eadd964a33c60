---------------------------- MODULE ParserProofs -----------------------------
(***************************************************************************)
(* The parser: proofs for all files, in whatever way they are opened and   *)
(* wherever a stream times out, for every limit of the depth and any bytes *)
(* that are taken for headers.                                             *)
(***************************************************************************)
EXTENDS Parser, Induction, SequenceTheorems, FiniteSetTheorems

-----------------------------------------------------------------------------
(* The places of the cells.                                                *)

\* The recursion equation of Reach: the bytes of k cells are those of the cells
\* in front of the last one and its own.
LEMMA ReachStep ==
  ASSUME NEW cells \in Seq(Cell)
  PROVE  /\ Reach(cells, 0) = 0
         /\ \A k \in 1 .. Len(cells) : Reach(cells, k) = Reach(cells, k - 1) + Size(cells[k])
         /\ \A k \in 0 .. Len(cells) : Reach(cells, k) \in Nat
<1> DEFINE n    == Len(cells)
           size == [k \in 1 .. n |-> Size(cells[k])]
           Eq(v) == v = [k \in 0 .. n |-> IF k = 0 THEN 0 ELSE v[k - 1] + Size(cells[k])]
           u    == CHOOSE v : Eq(v)
<1>1. n \in Nat /\ \A k \in 1 .. n : Size(cells[k]) \in Nat
  <2>1. \A k \in 1 .. n : cells[k] \in Cell
    OBVIOUS
  <2>2. \A c \in Cell : Size(c) \in Nat
    BY DEF Cell, Size
  <2>. QED  BY <2>1, <2>2
<1>2. size \in [1 .. n -> Nat]
  BY <1>1
<1>3. PICK g \in [0 .. n -> Nat] : g[0] = 0 /\ \A k \in 1 .. n : g[k] = g[k - 1] + size[k]
  <2> HIDE DEF size, n
  <2>. QED  BY <1>1, <1>2, SumsExist
<1>4. Eq(g)
  BY <1>1, <1>3
<1>5. Eq(u)
  <2> HIDE DEF Eq
  <2>. QED  BY <1>4
<1>6. \A k \in 0 .. n : Reach(cells, k) = u[k]
  BY DEF Reach
<1> HIDE DEF u
<1>7. u[0] = 0 /\ \A k \in 1 .. n : u[k] = u[k - 1] + Size(cells[k])
  BY <1>1, <1>5
<1> DEFINE P == {k \in Nat : k <= n => u[k] \in Nat}
<1>8. 0 \in P
  BY <1>7
<1>9. ASSUME NEW k \in Nat, k < n, k \in P
      PROVE  k + 1 \in P
  <2>1. k + 1 \in 1 .. n /\ (k + 1) - 1 = k
    BY <1>1, <1>9
  <2>2. u[k + 1] = u[k] + Size(cells[k + 1])
    BY <1>7, <2>1
  <2>3. u[k] \in Nat /\ Size(cells[k + 1]) \in Nat
    BY <1>1, <1>9, <2>1
  <2>. QED  BY <2>2, <2>3
<1>10. \A k \in 0 .. n : k \in P
  <2> HIDE DEF P, n
  <2>. QED  BY <1>1, <1>8, <1>9, BoundedInduction
<1>11. \A k \in 0 .. n : u[k] \in Nat
  BY <1>1, <1>10
<1>12. \A k \in 1 .. n : k \in 0 .. n /\ k - 1 \in 0 .. n
  BY <1>1
<1>13. 0 \in 0 .. n
  BY <1>1
<1> HIDE DEF n
<1>14. \A k \in 1 .. n : Reach(cells, k) = Reach(cells, k - 1) + Size(cells[k])
  BY <1>6, <1>7, <1>12
<1>15. Reach(cells, 0) = 0 /\ \A k \in 0 .. n : Reach(cells, k) \in Nat
  BY <1>6, <1>7, <1>11, <1>13
<1>. QED
  BY <1>14, <1>15 DEF n

LEMMA CellFacts ==
  ASSUME NEW c \in Cell
  PROVE  /\ Size(c) \in Nat /\ c.at \in Nat /\ c.head \in Nat /\ c.len \in Int /\ c.body \in Nat
         /\ c.head >= 8 /\ Size(c) >= c.head /\ After(c) = c.at + Size(c) /\ After(c) \in Nat
         /\ Payload(c) = c.len - c.head
BY DEF Cell, Size, After, Payload

\* The cells of a file lie one behind the other, and the last one ends where the
\* file ends.
LEMMA Places ==
  ASSUME NEW f, IsFile(f)
  PROVE  /\ Len(f) \in Nat /\ DOMAIN f = 1 .. Len(f)
         /\ \A i \in DOMAIN f : f[i] \in Cell
         /\ f # <<>> => 1 \in DOMAIN f /\ Len(f) \in DOMAIN f /\ f[1].at = 0
                         /\ FileSz(f) = After(f[Len(f)])
         /\ f = <<>> => FileSz(f) = 0 /\ Len(f) = 0
         /\ FileSz(f) \in Nat
         /\ \A i \in DOMAIN f : i + 1 \in DOMAIN f => f[i + 1].at = After(f[i])
         /\ \A i, j \in DOMAIN f : i < j => After(f[i]) <= f[j].at
         /\ \A i \in DOMAIN f : After(f[i]) <= FileSz(f)
<1>1. f \in Seq(Cell)
  BY DEF IsFile
<1>2. Len(f) \in Nat /\ DOMAIN f = 1 .. Len(f) /\ \A i \in DOMAIN f : f[i] \in Cell
  BY <1>1
<1> DEFINE n == Len(f)
           R(k) == Reach(f, k)
<1>3. /\ R(0) = 0
      /\ \A k \in 1 .. n : R(k) = R(k - 1) + Size(f[k])
      /\ \A k \in 0 .. n : R(k) \in Nat
  BY <1>1, ReachStep
<1>4. \A k \in 1 .. n : f[k].at = R(k - 1)
  BY <1>2 DEF IsFile
<1> HIDE DEF R
<1>5. \A k \in 1 .. n : After(f[k]) = R(k) /\ Size(f[k]) \in Nat /\ Size(f[k]) >= 8
  BY <1>2, <1>3, <1>4, CellFacts
<1>6. \A i \in DOMAIN f : i + 1 \in DOMAIN f => f[i + 1].at = After(f[i])
  <2>1. ASSUME NEW i \in DOMAIN f, i + 1 \in DOMAIN f
        PROVE  f[i + 1].at = After(f[i])
    <3>1. i + 1 \in 1 .. n /\ (i + 1) - 1 = i
      BY <1>2, <2>1
    <3>2. f[i + 1].at = R(i)
      BY <1>4, <3>1
    <3>. QED  BY <1>2, <1>5, <3>2
  <2>. QED  BY <2>1
<1>7. \A i, j \in 0 .. n : i <= j => R(i) <= R(j)
  <2>1. SUFFICES ASSUME NEW i \in 0 .. n
                 PROVE  \A j \in 0 .. n : i <= j => R(i) <= R(j)
    OBVIOUS
  <2> DEFINE P == {j \in Nat : j <= n /\ i <= j => R(i) <= R(j)}
  <2>2. 0 \in P
    BY <1>3
  <2>3. ASSUME NEW j \in Nat, j < n, j \in P
        PROVE  j + 1 \in P
    <3>1. j + 1 \in 1 .. n /\ (j + 1) - 1 = j /\ j \in 0 .. n
      BY <1>2, <2>3
    <3>2. R(j + 1) = R(j) + Size(f[j + 1]) /\ Size(f[j + 1]) \in Nat
      BY <1>3, <1>5, <3>1
    <3>3. R(i) \in Nat /\ R(j) \in Nat /\ R(j + 1) \in Nat
      BY <1>2, <1>3, <3>1
    <3>. QED  BY <2>3, <3>1, <3>2, <3>3
  <2>4. \A j \in 0 .. n : j \in P
    <3> HIDE DEF P, n
    <3>. QED  BY <1>2, <2>2, <2>3, BoundedInduction DEF n
  <2>. QED  BY <1>2, <2>4
<1>8. ASSUME NEW i \in DOMAIN f, NEW j \in DOMAIN f, i < j
      PROVE  After(f[i]) <= f[j].at
  <2>1. i \in 0 .. n /\ j - 1 \in 0 .. n /\ i <= j - 1 /\ j \in 1 .. n /\ i \in 1 .. n
    BY <1>2, <1>8
  <2>. QED  BY <1>4, <1>5, <1>7, <2>1
<1>9. f # <<>> => 1 \in DOMAIN f /\ n \in DOMAIN f /\ f[1].at = 0 /\ FileSz(f) = After(f[n])
  <2>1. f # <<>> => 1 \in 1 .. n /\ n \in 1 .. n
    BY <1>1, <1>2
  <2>2. 1 \in 1 .. n => f[1].at = R(0)
    BY <1>4
  <2>3. f # <<>> => FileSz(f) = After(f[n])
    BY <1>1 DEF FileSz, Last
  <2>. QED  BY <1>2, <1>3, <2>1, <2>2, <2>3
<1>10. f = <<>> => FileSz(f) = 0 /\ n = 0
  BY DEF FileSz
<1>11. FileSz(f) \in Nat
  BY <1>2, <1>9, <1>10, CellFacts
<1>12. ASSUME NEW i \in DOMAIN f
       PROVE  After(f[i]) <= FileSz(f)
  <2>1. i \in 0 .. n /\ n \in 0 .. n /\ i <= n /\ i \in 1 .. n /\ n \in 1 .. n /\ f # <<>>
    BY <1>2, <1>12
  <2>. QED  BY <1>5, <1>7, <1>9, <2>1
<1>. QED
  BY <1>2, <1>6, <1>8, <1>9, <1>10, <1>11, <1>12

-----------------------------------------------------------------------------
(* Types.                                                                  *)

\* What a header may be taken for, the calls, and the handle.
Header  == [nm : Names \cup {"junk", "none"}, at : Nat, len : Int, head : Nat, body : Nat,
          id : Nat, entry : Int]
Errors == {"ok", "not_mp4", "out_of_memory", "seek", "unable_to_process"}
Frame == [boxlen : Int, rem : Int, box : Header, skip : Nat]
Levels == 0 .. LevelMax - 1
Handle ==
  [mp4error : Errors, parentidx : -1 .. LevelMax - 2,
   base_lengths : [Levels -> Int], base_offsets : [Levels -> Nat],
   taglist_offset : Nat, taglist_len : Nat, orig_data_len : Nat,
   interior_free_len : Nat, exterior_free_len : Nat,
   noilst_offset : Nat, after_ilst_offset : Nat, insert_delta : Nat,
   stco_offset : Nat, co64_offset : Nat,
   unlimited : BOOLEAN, processdata : BOOLEAN, checkforfree : BOOLEAN,
   parsedone : BOOLEAN,
   ilst_remaining : Int, ilstend : BOOLEAN, ilstdone : BOOLEAN,
   ilstremain : BOOLEAN, freeneg : BOOLEAN, udtazero : BOOLEAN, dofix : BOOLEAN]

LEMMA NewHandleType == NewHandle \in Handle
<1>1. LevelMax \in Nat \ {0}
  BY ParserAssumption
<1>2. -1 \in -1 .. LevelMax - 2
  BY <1>1
<1>3. NoBases \in [Levels -> Int] /\ NoBases \in [Levels -> Nat]
  BY <1>1 DEF Levels, NoBases
<1>. QED
  BY <1>2, <1>3 DEF NewHandle, Handle, Errors

\* What the parser notes at a header keeps the types; of the fields the parser
\* itself looks at, a box that is no tag list changes none.
LEMMA NotedFacts ==
  ASSUME NEW hh \in Handle, NEW b \in Header, NEW off \in Nat, NEW l \in Levels,
         b.nm = "ilst" => Payload(b) \in Nat, off >= BoxHead
  PROVE  /\ Noted(hh, b, off, l) \in Handle
         /\ Noted(hh, b, off, l).parsedone = hh.parsedone
         /\ Noted(hh, b, off, l).mp4error = hh.mp4error
         /\ Noted(hh, b, off, l).base_offsets = hh.base_offsets
         /\ b.nm # "ilst" =>
              /\ Noted(hh, b, off, l).taglist_offset = hh.taglist_offset
              /\ Noted(hh, b, off, l).processdata = hh.processdata
              /\ Noted(hh, b, off, l).checkforfree = hh.checkforfree
         /\ b.nm = "ilst" =>
              /\ Noted(hh, b, off, l).taglist_offset = off
              /\ Noted(hh, b, off, l).processdata = (Payload(b) # 0)
              /\ Noted(hh, b, off, l).checkforfree =
                   (hh.checkforfree \/ (Payload(b) = 0 /\ canwrite))
<1>1. LevelMax \in Nat
  BY ParserAssumption
<1>2. CASE b.nm = "ilst"
  <2> DEFINE n == [hh EXCEPT !.parentidx = l - 1,
                             !.taglist_offset = off,
                             !.taglist_len = Payload(b),
                             !.after_ilst_offset = off + Payload(b),
                             !.processdata = Payload(b) # 0,
                             !.checkforfree = @ \/ (Payload(b) = 0 /\ canwrite)]
  <2>1. Noted(hh, b, off, l) = n
    BY <1>2 DEF Noted
  <2>2. l - 1 \in -1 .. LevelMax - 2
    BY <1>1 DEF Levels
  <2>3. off + Payload(b) \in Nat /\ Payload(b) \in Nat
    BY <1>2
  <2>4. n \in Handle
    BY <2>2, <2>3, ZenonT(30) DEF Handle
  <2>5. /\ n.parsedone = hh.parsedone /\ n.mp4error = hh.mp4error
        /\ n.base_offsets = hh.base_offsets /\ n.taglist_offset = off
        /\ n.processdata = (Payload(b) # 0)
        /\ n.checkforfree = (hh.checkforfree \/ (Payload(b) = 0 /\ canwrite))
    BY DEF Handle
  <2>. QED  BY <1>2, <2>1, <2>4, <2>5
<1>3. CASE b.nm # "ilst"
  <2> DEFINE n == Noted(hh, b, off, l)
  <2>1. \/ n = [hh EXCEPT !.insert_delta = @ + MetaSz]
        \/ n = [hh EXCEPT !.noilst_offset = off - BoxHead, !.after_ilst_offset = off,
                          !.insert_delta = BoxHead]
        \/ n = [hh EXCEPT !.stco_offset = off]
        \/ n = [hh EXCEPT !.co64_offset = off]
        \/ n = hh
    BY <1>3 DEF Noted
  <2>2. off - BoxHead \in Nat /\ BoxHead \in Nat /\ hh.insert_delta + MetaSz \in Nat
    BY DEF Handle, BoxHead, MetaSz
  <2> HIDE DEF n
  <2>3. n \in Handle
    <3>1. CASE n = [hh EXCEPT !.insert_delta = @ + MetaSz]
      BY <2>2, <3>1 DEF Handle
    <3>2. CASE n = [hh EXCEPT !.noilst_offset = off - BoxHead, !.after_ilst_offset = off,
                              !.insert_delta = BoxHead]
      BY <2>2, <3>2 DEF Handle
    <3>3. CASE n = [hh EXCEPT !.stco_offset = off]
      BY <3>3 DEF Handle
    <3>4. CASE n = [hh EXCEPT !.co64_offset = off]
      BY <3>4 DEF Handle
    <3>. QED  BY <2>1, <3>1, <3>2, <3>3, <3>4
  <2>4. /\ n.parsedone = hh.parsedone /\ n.mp4error = hh.mp4error
        /\ n.base_offsets = hh.base_offsets /\ n.taglist_offset = hh.taglist_offset
        /\ n.processdata = hh.processdata /\ n.checkforfree = hh.checkforfree
    BY <2>1 DEF Handle
  <2>. QED  BY <1>3, <2>3, <2>4 DEF n
<1>. QED
  BY <1>2, <1>3

-----------------------------------------------------------------------------
(* The inductive invariant: types.                                         *)

Modes == {"rw", "ro", "stream"}
Parsing == pc \in {"header", "body"}

TypeInv ==
  /\ IsFile(file) /\ mode \in Modes /\ pc \in {"ftyp", "brands", "header", "body", "done"}
  /\ pos \in Nat /\ faults \in Nat
  /\ repaired \in BOOLEAN /\ written \in BOOLEAN /\ faulty \in BOOLEAN
  /\ stack \in Seq(Frame) /\ Len(stack) <= LevelMax /\ (stack = <<>> <=> ~ Parsing)
  /\ h \in Handle
  /\ tags \in Seq(Nat)

\* How a parse starts; a file that is written to has been seen to start with an
\* ftyp box, or it is empty and nothing is found in it.
Blank(hh) == ~ hh.dofix /\ hh.noilst_offset = 0
StartInv ==
  /\ pc = "ftyp" => pos = 0
  /\ pc = "brands" => file # <<>> /\ file[1].nm = "ftyp" /\ pos = BoxHead
  /\ pc \in {"ftyp", "brands"} => h = NewHandle /\ tags = <<>>
  /\ file # <<>> /\ mode = "rw" /\ pc # "ftyp" /\ ~ (pc = "done" /\ h.mp4error # "ok")
       => file[1].nm = "ftyp"
  /\ file = <<>> => Len(stack) <= 1 /\ pc # "body" /\ Blank(h)

\* The offsets of the parents that are kept are never that of a tag list or of
\* free space: 0, where the first box is, stands for none.
BaseInv ==
  \A l \in Levels, i \in DOMAIN file :
    file[i].at = h.base_offsets[l] => i = 1 \/ file[i].nm \notin {"ilst", "free"}

-----------------------------------------------------------------------------
(* What the operators on the handle change.                                *)

\* The fields of the handle that direct the parser.
Same(n, hh) ==
  /\ n.parsedone = hh.parsedone /\ n.mp4error = hh.mp4error
  /\ n.base_offsets = hh.base_offsets /\ n.taglist_offset = hh.taglist_offset
  /\ n.processdata = hh.processdata /\ n.checkforfree = hh.checkforfree

LEMMA WithDataLenFacts ==
  ASSUME NEW hh \in Handle
  PROVE  WithDataLen(hh) \in Handle /\ Same(WithDataLen(hh), hh)
<1> DEFINE n == WithDataLen(hh)
           v == IF hh.orig_data_len = 0 THEN hh.taglist_len ELSE hh.orig_data_len
<1>1. v \in Nat
  BY DEF Handle
<1>2. n = [hh EXCEPT !.orig_data_len = v]
  BY DEF WithDataLen, Handle
<1> HIDE DEF v, n
<1>3. n \in Handle
  BY <1>1, <1>2 DEF Handle
<1>4. Same(n, hh)
  BY <1>2 DEF Handle, Same
<1>. QED
  BY <1>3, <1>4 DEF n

LEMMA CountFreeFacts ==
  ASSUME NEW hh \in Handle, NEW b \in Header, NEW l, b.len \in Nat
  PROVE  CountFree(hh, b, l) \in Handle /\ Same(CountFree(hh, b, l), hh)
<1> DEFINE w == WithDataLen(hh)
           n == CountFree(hh, b, l)
           e == IF l = 0 THEN w.exterior_free_len + b.len ELSE w.exterior_free_len
           i == IF l = 0 THEN w.interior_free_len ELSE w.interior_free_len + b.len
           t == w.taglist_len + b.len
           a == w.after_ilst_offset + b.len
<1>1. w \in Handle /\ Same(w, hh)
  BY WithDataLenFacts
<1>2. n = [w EXCEPT !.exterior_free_len = e, !.interior_free_len = i,
                    !.taglist_len = t, !.after_ilst_offset = a]
  <2> HIDE DEF w
  <2>. QED  BY <1>1 DEF CountFree, Handle, w
<1> HIDE DEF w, n
<1>3. e \in Nat /\ i \in Nat /\ t \in Nat /\ a \in Nat
  BY <1>1 DEF Handle
<1> HIDE DEF e, i, t, a
<1>4. n \in Handle
  BY <1>1, <1>2, <1>3 DEF Handle
<1>5. Same(n, w)
  BY <1>1, <1>2 DEF Handle, Same
<1>. QED
  BY <1>1, <1>4, <1>5 DEF n, Same

LEMMA WithBaseFacts ==
  ASSUME NEW hh \in Handle, NEW b \in Header, NEW off \in Nat, NEW l \in Levels,
         off >= BoxHead
  PROVE  LET n == WithBase(hh, b, off, l) IN
         /\ n \in Handle
         /\ n.parsedone = hh.parsedone /\ n.mp4error = hh.mp4error
         /\ n.taglist_offset = hh.taglist_offset
         /\ n.processdata = hh.processdata /\ n.checkforfree = hh.checkforfree
         /\ \A k \in Levels : \/ n.base_offsets[k] = hh.base_offsets[k]
                              \/ hh.taglist_offset = 0 /\ n.base_offsets[k] = off - BoxHead
<1> DEFINE n == WithBase(hh, b, off, l)
<1>1. CASE hh.taglist_offset # 0
  <2>1. n = hh
    BY <1>1 DEF WithBase
  <2> HIDE DEF n
  <2>. QED  BY <2>1 DEF n
<1>2. CASE hh.taglist_offset = 0
  <2> DEFINE bl == [hh.base_lengths EXCEPT ![l] = b.len]
             bo == [hh.base_offsets EXCEPT ![l] = off - BoxHead]
  <2>1. off - BoxHead \in Nat
    BY DEF BoxHead
  <2>2. bl \in [Levels -> Int] /\ bo \in [Levels -> Nat]
    BY <2>1 DEF Handle, Header
  <2>3. n = [hh EXCEPT !.base_lengths = bl, !.base_offsets = bo]
    BY <1>2 DEF WithBase, Handle
  <2>4. \A k \in Levels : bo[k] = hh.base_offsets[k] \/ bo[k] = off - BoxHead
    BY DEF Handle
  <2> HIDE DEF n, bl, bo
  <2>5. n \in Handle
    BY <2>2, <2>3 DEF Handle
  <2>6. /\ n.parsedone = hh.parsedone /\ n.mp4error = hh.mp4error
        /\ n.taglist_offset = hh.taglist_offset
        /\ n.processdata = hh.processdata /\ n.checkforfree = hh.checkforfree
        /\ n.base_offsets = bo
    BY <2>3 DEF Handle
  <2>. QED  BY <1>2, <2>4, <2>5, <2>6 DEF n
<1>. QED
  BY <1>1, <1>2

LEMMA BehindFacts ==
  ASSUME NEW hh \in Handle, NEW b \in Header, pos \in Nat
  PROVE  LET n == Behind(hh, b) IN
         /\ n \in Handle
         /\ n.parsedone = hh.parsedone /\ n.mp4error = hh.mp4error
         /\ n.base_offsets = hh.base_offsets /\ n.taglist_offset = hh.taglist_offset
         /\ b.nm # "ilst" => n.processdata = hh.processdata /\ n.checkforfree = hh.checkforfree
         /\ b.nm = "ilst" => n.processdata = FALSE
                              /\ n.checkforfree = (hh.checkforfree \/ canwrite)
<1> DEFINE w == WithDataLen(hh)
           n == Behind(hh, b)
<1>1. w \in Handle /\ Same(w, hh)
  BY WithDataLenFacts
<1>2. CASE b.nm = "ilst"
  <2> DEFINE c == w.checkforfree \/ canwrite
  <2>1. c \in BOOLEAN
    OBVIOUS
  <2>2. n = [w EXCEPT !.processdata = FALSE, !.checkforfree = c]
    <3> HIDE DEF w
    <3>. QED  BY <1>1, <1>2 DEF Behind, Handle, w
  <2> HIDE DEF w, n
  <2>3. c = (hh.checkforfree \/ canwrite)
    BY <1>1 DEF Same
  <2> HIDE DEF c
  <2>4. n \in Handle
    BY <1>1, <2>1, <2>2 DEF Handle
  <2>5. /\ n.parsedone = w.parsedone /\ n.mp4error = w.mp4error
        /\ n.base_offsets = w.base_offsets /\ n.taglist_offset = w.taglist_offset
        /\ n.processdata = FALSE /\ n.checkforfree = c
    BY <1>1, <2>2 DEF Handle
  <2>. QED  BY <1>1, <1>2, <2>3, <2>4, <2>5 DEF n, Same
<1>3. CASE b.nm # "ilst"
  <2>1. \/ n = [w EXCEPT !.noilst_offset = pos, !.after_ilst_offset = pos]
        \/ n = w
    BY <1>3 DEF Behind
  <2> HIDE DEF w, n
  <2>2. n \in Handle
    <3>1. CASE n = [w EXCEPT !.noilst_offset = pos, !.after_ilst_offset = pos]
      BY <1>1, <3>1 DEF Handle
    <3>. QED  BY <1>1, <2>1, <3>1
  <2>3. Same(n, w)
    BY <1>1, <2>1 DEF Handle, Same
  <2>. QED  BY <1>1, <1>3, <2>2, <2>3 DEF n, Same
<1>. QED
  BY <1>2, <1>3

LEMMA EndFlagsFacts ==
  ASSUME NEW hh \in Handle, NEW b \in Header, NEW rem \in Int
  PROVE  EndFlags(hh, b, rem) \in Handle /\ Same(EndFlags(hh, b, rem), hh)
<1> DEFINE n    == EndFlags(hh, b, rem)
           done == hh.ilstdone \/ b.nm = "ilst"
           neg  == hh.freeneg \/ (b.nm = "free" /\ hh.ilstend /\ ~ hh.ilstdone /\ rem < 0)
           zero == hh.udtazero \/ (b.nm = "udta" /\ rem = 0)
           fix  == hh.dofix \/ (b.nm = "udta" /\ hh.ilstremain /\ ~ done /\ neg /\ zero)
<1>1. done \in BOOLEAN /\ neg \in BOOLEAN /\ zero \in BOOLEAN /\ fix \in BOOLEAN
  OBVIOUS
<1>2. n = [hh EXCEPT !.ilstdone = done, !.freeneg = neg, !.udtazero = zero,
                     !.dofix = fix, !.ilstend = FALSE]
  BY DEF EndFlags, Handle
<1> HIDE DEF n, done, neg, zero, fix
<1>3. n \in Handle
  <2> DEFINE m == [hh EXCEPT !.ilstdone = done, !.freeneg = neg, !.ilstend = FALSE]
  <2>1. m \in Handle
    BY <1>1 DEF Handle
  <2>2. n = [m EXCEPT !.udtazero = zero, !.dofix = fix]
    BY <1>2 DEF Handle
  <2> HIDE DEF m
  <2>. QED  BY <1>1, <2>1, <2>2, ZenonT(30) DEF Handle
<1>4. Same(n, hh)
  BY <1>2 DEF Handle, Same
<1>. QED
  BY <1>3, <1>4 DEF n

-----------------------------------------------------------------------------
(* What the parts of a step do.                                            *)

\* The calls that have not returned fit to where the parser is.
StackOK(s, c) ==
  /\ s \in Seq(Frame) /\ Len(s) <= LevelMax
  /\ c \in {"ftyp", "brands", "header", "body", "done"}
  /\ s = <<>> <=> c \notin {"header", "body"}

LEMMA StackFacts ==
  ASSUME stack \in Seq(Frame), stack # <<>>
  PROVE  /\ Len(stack) \in Nat /\ Len(stack) >= 1 /\ Level = Len(stack) - 1
         /\ Top = stack[Len(stack)] /\ Top \in Frame
         /\ Front(stack) \in Seq(Frame) /\ Len(Front(stack)) = Len(stack) - 1
         /\ \A k \in 1 .. Len(stack) - 1 : Front(stack)[k] = stack[k]
         /\ \A fr \in Frame :
              /\ AtTop(fr) \in Seq(Frame) /\ Len(AtTop(fr)) = Len(stack)
              /\ AtTop(fr)[Len(stack)] = fr
              /\ \A k \in 1 .. Len(stack) - 1 : AtTop(fr)[k] = stack[k]
<1>1. Len(stack) \in Nat /\ Len(stack) >= 1 /\ DOMAIN stack = 1 .. Len(stack)
  BY EmptySeq, LenProperties
<1>2. Top = stack[Len(stack)] /\ Top \in Frame
  BY <1>1 DEF Top, Last
<1>3. Front(stack) = SubSeq(stack, 1, Len(stack) - 1)
  BY DEF Front
<1>4. /\ Front(stack) \in Seq(Frame) /\ Len(Front(stack)) = Len(stack) - 1
      /\ \A k \in 1 .. Len(stack) - 1 : Front(stack)[k] = stack[k]
  BY <1>1, <1>3
<1>5. ASSUME NEW fr \in Frame
      PROVE  /\ AtTop(fr) \in Seq(Frame) /\ Len(AtTop(fr)) = Len(stack)
             /\ AtTop(fr)[Len(stack)] = fr
             /\ \A k \in 1 .. Len(stack) - 1 : AtTop(fr)[k] = stack[k]
  <2> DEFINE q == Front(stack)
             n == Len(stack)
  <2>1. AtTop(fr) = Append(q, fr)
    BY DEF AtTop
  <2>2. q \in Seq(Frame) /\ Len(q) = n - 1 /\ \A k \in 1 .. n - 1 : q[k] = stack[k]
    BY <1>4
  <2>3. n \in Nat /\ n >= 1
    BY <1>1
  <2> HIDE DEF q, n
  <2>4. /\ Append(q, fr) \in Seq(Frame) /\ Len(Append(q, fr)) = n
        /\ Append(q, fr)[n] = fr
        /\ \A k \in 1 .. n - 1 : Append(q, fr)[k] = q[k]
    BY <2>2, <2>3
  <2>. QED  BY <2>1, <2>2, <2>4 DEF n
<1>. QED
  BY <1>1, <1>2, <1>4, <1>5 DEF Level

LEMMA ShortFacts ==
  ASSUME TypeInv, NEW n, NEW s \in Short(n)
  PROVE  s.upto \in Nat /\ s.upto >= pos
<1>1. pos \in Nat /\ FileSz(file) \in Nat
  BY Places DEF TypeInv
<1>2. Partial \subseteq Nat
  BY ParserAssumption
<1>. QED
  BY <1>1, <1>2 DEF Short

\* A header that is read is that of the cell that starts there, or it does not
\* spell a name that matters.
LEMMA HeaderFacts ==
  ASSUME NEW f, IsFile(f), NEW p \in Nat, NEW b \in HeadersAt(f, p)
  PROVE  /\ b \in Header /\ b.head \in {8, 16} /\ b.at = p
         /\ \/ \E i \in DOMAIN f : b = f[i] /\ f[i].at = p
            \/ b.nm = "junk" /\ p \notin Starts(f)
<1> DEFINE here == {f[i] : i \in {j \in DOMAIN f : f[j].at = p}}
<1>1. CASE here # {}
  <2>1. b \in here
    BY <1>1 DEF HeadersAt
  <2>2. PICK i \in DOMAIN f : b = f[i] /\ f[i].at = p
    BY <2>1
  <2>3. b \in Cell
    BY <2>2, Places
  <2>. QED  BY <2>2, <2>3 DEF Cell, Header
<1>2. CASE here = {}
  <2>1. b \in {[nm |-> "junk", at |-> p, len |-> j.len, head |-> j.head,
                body |-> 0, id |-> 0, entry |-> 0] : j \in Junk}
    BY <1>2 DEF HeadersAt
  <2>2. PICK j \in Junk : b = [nm |-> "junk", at |-> p, len |-> j.len, head |-> j.head,
                               body |-> 0, id |-> 0, entry |-> 0]
    BY <2>1
  <2>3. j.len \in Int /\ j.head \in {8, 16}
    BY ParserAssumption
  <2>4. p \notin Starts(f)
    BY <1>2 DEF Starts
  <2>. QED  BY <2>2, <2>3, <2>4 DEF Header
<1>. QED
  BY <1>1, <1>2

\* A call returns.
LEMMA ReturnFacts ==
  ASSUME TypeInv, Parsing, NEW hh, Return(hh)
  PROVE  /\ h' = hh /\ stack' = Front(stack) /\ StackOK(stack', pc')
         /\ pc' = (IF Len(stack) = 1 THEN "done" ELSE "body")
<1>1. stack \in Seq(Frame) /\ stack # <<>> /\ Len(stack) <= LevelMax
  BY DEF TypeInv
<1>2. LevelMax \in Nat
  BY ParserAssumption
<1>3. h' = hh /\ stack' = Front(stack) /\ pc' = IF Level = 0 THEN "done" ELSE "body"
  BY DEF Return
<1>4. Level = 0 <=> Len(stack) = 1
  BY <1>1, StackFacts
<1>5. stack' \in Seq(Frame) /\ Len(stack') = Len(stack) - 1 /\ Len(stack) \in Nat
  BY <1>1, <1>3, StackFacts
<1>6. stack' = <<>> <=> Len(stack) = 1
  BY <1>5, EmptySeq
<1>. QED
  BY <1>1, <1>2, <1>3, <1>4, <1>5, <1>6 DEF StackOK

\* The loop is left.
LEMMA LeaveFacts ==
  ASSUME TypeInv, Parsing, NEW hh \in Handle, NEW p, LeaveLoop(hh, p)
  PROVE  /\ stack' = Front(stack) /\ StackOK(stack', pc')
         /\ pc' = (IF Len(stack) = 1 THEN "done" ELSE "body")
         /\ h' \in Handle
         /\ h'.mp4error = hh.mp4error /\ h'.base_offsets = hh.base_offsets
         /\ h'.taglist_offset = hh.taglist_offset /\ h'.processdata = hh.processdata
         /\ h'.dofix = hh.dofix /\ h'.noilst_offset = hh.noilst_offset
         /\ h'.checkforfree = FALSE
         /\ h'.parsedone = (hh.parsedone \/ hh.checkforfree)
<1> DEFINE u == hh.unlimited \/ (Level = 0 /\ hh.checkforfree /\ p = FileSz(file))
           e == [hh EXCEPT !.unlimited = u]
           n == IF e.checkforfree THEN [e EXCEPT !.checkforfree = FALSE, !.parsedone = TRUE]
                ELSE e
<1>1. Return(n)
  BY DEF LeaveLoop, Handle
<1>2. u \in BOOLEAN
  OBVIOUS
<1> HIDE DEF u
<1>3. /\ e \in Handle
      /\ e.mp4error = hh.mp4error /\ e.base_offsets = hh.base_offsets
      /\ e.taglist_offset = hh.taglist_offset /\ e.processdata = hh.processdata
      /\ e.dofix = hh.dofix /\ e.checkforfree = hh.checkforfree
      /\ e.parsedone = hh.parsedone
  BY <1>2 DEF Handle
<1>6. e.noilst_offset = hh.noilst_offset
  BY DEF Handle
<1> HIDE DEF e
<1>4. CASE e.checkforfree
  <2>1. n = [e EXCEPT !.checkforfree = FALSE, !.parsedone = TRUE]
    BY <1>4
  <2> HIDE DEF n
  <2>2. n \in Handle
    BY <1>3, <2>1 DEF Handle
  <2>3. /\ n.mp4error = e.mp4error /\ n.base_offsets = e.base_offsets
        /\ n.taglist_offset = e.taglist_offset /\ n.processdata = e.processdata
        /\ n.dofix = e.dofix /\ n.checkforfree = FALSE /\ n.parsedone = TRUE
    BY <1>3, <2>1 DEF Handle
  <2>4. n.noilst_offset = e.noilst_offset
    BY <1>3, <2>1 DEF Handle
  <2>5. h' = n /\ stack' = Front(stack) /\ StackOK(stack', pc')
        /\ pc' = (IF Len(stack) = 1 THEN "done" ELSE "body")
    BY <1>1, ReturnFacts
  <2>. QED  BY <1>3, <1>4, <1>6, <2>2, <2>3, <2>4, <2>5
<1>5. CASE ~ e.checkforfree
  <2>1. n = e
    BY <1>5
  <2> HIDE DEF n
  <2>2. h' = n /\ stack' = Front(stack) /\ StackOK(stack', pc')
        /\ pc' = (IF Len(stack) = 1 THEN "done" ELSE "body")
    BY <1>1, ReturnFacts
  <2>3. e.checkforfree = FALSE /\ (hh.parsedone \/ hh.checkforfree) = hh.parsedone
    BY <1>3, <1>5 DEF Handle
  <2>. QED  BY <1>3, <1>6, <2>1, <2>2, <2>3
<1>. QED
  BY <1>4, <1>5

\* The call at the top once it has read a header.
LEMMA AtFacts ==
  ASSUME stack \in Seq(Frame), stack # <<>>, NEW b \in Header, NEW skip \in Nat
  PROVE  /\ At(b, skip) \in Seq(Frame) /\ Len(At(b, skip)) = Len(stack)
         /\ \A k \in 1 .. Len(stack) - 1 : At(b, skip)[k] = stack[k]
         /\ At(b, skip)[Len(stack)].box = b /\ At(b, skip)[Len(stack)].skip = skip
         /\ At(b, skip)[Len(stack)].boxlen = Top.boxlen
         /\ At(b, skip)[Len(stack)].rem = IF Top.boxlen = 0 THEN b.len ELSE Top.rem
<1> DEFINE r  == IF Top.boxlen = 0 THEN b.len ELSE Top.rem
           fr == [Top EXCEPT !.box = b, !.skip = skip, !.rem = r]
<1>1. Top \in Frame
  BY StackFacts
<1>2. r \in Int
  BY <1>1 DEF Frame, Header
<1>3. At(b, skip) = AtTop(fr)
  <2> DEFINE t == Top
  <2>1. t \in Frame /\ At(b, skip) = AtTop([t EXCEPT !.box = b, !.skip = skip,
                                             !.rem = IF t.boxlen = 0 THEN b.len ELSE @])
    BY <1>1 DEF At
  <2> HIDE DEF t
  <2>2. [t EXCEPT !.box = b, !.skip = skip, !.rem = IF t.boxlen = 0 THEN b.len ELSE @]
          = [t EXCEPT !.box = b, !.skip = skip, !.rem = IF t.boxlen = 0 THEN b.len ELSE t.rem]
    BY <2>1 DEF Frame
  <2>. QED  BY <2>1, <2>2 DEF t
<1> HIDE DEF r
<1>4. fr \in Frame
  <2> DEFINE t == Top
  <2>1. t \in Frame
    BY <1>1
  <2> HIDE DEF t
  <2>2. [t EXCEPT !.box = b, !.skip = skip, !.rem = r] \in Frame
    BY <1>2, <2>1 DEF Frame
  <2>. QED  BY <2>2 DEF t
<1>5. fr.box = b /\ fr.skip = skip /\ fr.boxlen = Top.boxlen /\ fr.rem = r
  BY <1>1 DEF Frame
<1> HIDE DEF fr
<1>6. /\ AtTop(fr) \in Seq(Frame) /\ Len(AtTop(fr)) = Len(stack)
      /\ AtTop(fr)[Len(stack)] = fr
      /\ \A k \in 1 .. Len(stack) - 1 : AtTop(fr)[k] = stack[k]
  BY <1>4, StackFacts
<1>. QED
  BY <1>3, <1>5, <1>6 DEF r

LEMMA SkipFacts ==
  ASSUME NEW b \in Header
  PROVE  Skip(b) \in Nat
<1>1. SkipMod \in Nat \ {0} /\ Payload(b) \in Int
  BY ParserAssumption DEF Payload, Header
<1>2. Payload(b) % SkipMod \in Nat
  BY <1>1
<1>. QED
  BY <1>2 DEF Skip, MetaSz, BoxHead

\* The content of a box is entered, or it is not.
LEMMA EnterFacts ==
  ASSUME TypeInv, Parsing, NEW hh \in Handle, NEW b \in Header, NEW skip \in Nat,
         Enter(hh, b, skip)
  PROVE  /\ StackOK(stack', pc')
         /\ h' \in Handle
         /\ h'.base_offsets = hh.base_offsets /\ h'.taglist_offset = hh.taglist_offset
         /\ h'.processdata = hh.processdata /\ h'.checkforfree = hh.checkforfree
         /\ h'.parsedone = hh.parsedone /\ h'.dofix = hh.dofix
         /\ h'.mp4error = "ok" => hh.mp4error = "ok"
         /\ \/ /\ stack' = At(b, 0) /\ pc' = "body"
               /\ hh.parsedone \/ h'.mp4error # "ok"
            \/ /\ stack' = Append(At(b, 0), Call((b.len - skip) % SkipMod)) /\ pc' = "header"
               /\ ~ hh.parsedone /\ h' = hh
<1>1. stack \in Seq(Frame) /\ stack # <<>> /\ Len(stack) <= LevelMax
  BY DEF TypeInv
<1>2. Len(stack) \in Nat /\ Len(stack) >= 1 /\ Level = Len(stack) - 1
  BY <1>1, StackFacts
<1>3. At(b, 0) \in Seq(Frame) /\ Len(At(b, 0)) = Len(stack) /\ At(b, 0) # <<>>
  BY <1>1, <1>2, AtFacts
<1>4. CASE /\ Level + 1 >= LevelMax
           /\ h' = [hh EXCEPT !.mp4error = "unable_to_process"]
           /\ stack' = At(b, 0) /\ pc' = "body"
  <2>1. h' \in Handle
    BY <1>4 DEF Handle, Errors
  <2>2. /\ h'.base_offsets = hh.base_offsets /\ h'.taglist_offset = hh.taglist_offset
        /\ h'.processdata = hh.processdata /\ h'.checkforfree = hh.checkforfree
        /\ h'.parsedone = hh.parsedone /\ h'.dofix = hh.dofix /\ h'.mp4error # "ok"
    BY <1>4 DEF Handle
  <2>. QED  BY <1>1, <1>3, <1>4, <2>1, <2>2 DEF StackOK
<1>5. CASE Level + 1 < LevelMax /\ hh.parsedone /\ h' = hh /\ stack' = At(b, 0) /\ pc' = "body"
  BY <1>1, <1>3, <1>5 DEF StackOK
<1>6. CASE /\ Level + 1 < LevelMax /\ ~ hh.parsedone
           /\ h' = hh /\ stack' = Append(At(b, 0), Call((b.len - skip) % SkipMod)) /\ pc' = "header"
  <2>1. Call((b.len - skip) % SkipMod) \in Frame
    <3> DEFINE n == (b.len - skip) % SkipMod
    <3>1. n \in Int
      BY ParserAssumption DEF Header
    <3> HIDE DEF n
    <3>2. Call(n) \in Frame
      BY <3>1 DEF Call, Frame, NoBox, Header, BoxHead, Names
    <3>. QED  BY <3>2 DEF n
  <2> DEFINE q == At(b, 0)
             c == Call((b.len - skip) % SkipMod)
  <2> HIDE DEF q, c
  <2>2. Append(q, c) \in Seq(Frame) /\ Len(Append(q, c)) = Len(q) + 1 /\ Append(q, c) # <<>>
    BY <1>3, <2>1 DEF q, c
  <2>3. stack' = Append(q, c)
    BY <1>6 DEF q, c
  <2>4. LevelMax \in Nat
    BY ParserAssumption
  <2>5. Len(stack') <= LevelMax
    BY <1>2, <1>3, <1>6, <2>2, <2>3, <2>4 DEF q
  <2>. QED  BY <1>6, <2>2, <2>3, <2>5 DEF StackOK
<1>. QED
  BY <1>4, <1>5, <1>6 DEF Enter

\* The end of a box: the call returns or goes on.
LEMMA AccountFacts ==
  ASSUME TypeInv, pc = "body", NEW hh \in Handle, NEW b \in Header, Account(hh, b)
  PROVE  /\ StackOK(stack', pc')
         /\ h' \in Handle /\ Same(h', hh)
         /\ \/ /\ stack' = Front(stack) /\ pc' = (IF Len(stack) = 1 THEN "done" ELSE "body")
               /\ Top.rem - b.len <= 0 /\ Top.boxlen # 0
            \/ /\ pc' = "header" /\ Len(stack') = Len(stack)
               /\ \A k \in 1 .. Len(stack) - 1 : stack'[k] = stack[k]
               /\ stack'[Len(stack)] = [Top EXCEPT !.rem = Top.rem - b.len]
               /\ Top.rem - b.len > 0 \/ Top.boxlen = 0
<1> DEFINE rem  == Top.rem - b.len
           seen == IF b.nm # "ilst" THEN hh
                   ELSE [hh EXCEPT !.ilst_remaining = rem, !.ilstend = TRUE,
                                   !.ilstremain = @ \/ rem # 0]
<1>1. stack \in Seq(Frame) /\ stack # <<>> /\ Len(stack) <= LevelMax /\ Parsing
  BY DEF TypeInv, Parsing
<1>2. Top \in Frame
  BY <1>1, StackFacts
<1>3. rem \in Int
  BY <1>2 DEF Frame, Header
<1>4. seen \in Handle /\ Same(seen, hh)
  <2> HIDE DEF rem
  <2>1. CASE b.nm # "ilst"
    BY <2>1 DEF Same
  <2>2. CASE b.nm = "ilst"
    <3> DEFINE r == hh.ilstremain \/ rem # 0
    <3>1. r \in BOOLEAN
      OBVIOUS
    <3>2. seen = [hh EXCEPT !.ilst_remaining = rem, !.ilstend = TRUE, !.ilstremain = r]
      BY <2>2 DEF Handle
    <3> HIDE DEF r, seen
    <3>3. seen \in Handle
      BY <1>3, <3>1, <3>2 DEF Handle
    <3>4. Same(seen, hh)
      BY <3>2 DEF Handle, Same
    <3>. QED  BY <3>3, <3>4
  <2>. QED  BY <2>1, <2>2
<1>5. IF rem <= 0 /\ Top.boxlen # 0
      THEN Return(EndFlags(seen, b, rem))
      ELSE h' = seen /\ stack' = AtTop([Top EXCEPT !.rem = rem]) /\ pc' = "header"
  BY DEF Account
<1> HIDE DEF seen
<1>6. CASE rem <= 0 /\ Top.boxlen # 0
  <2>1. Return(EndFlags(seen, b, rem))
    BY <1>5, <1>6
  <2>2. /\ h' = EndFlags(seen, b, rem) /\ stack' = Front(stack) /\ StackOK(stack', pc')
        /\ pc' = (IF Len(stack) = 1 THEN "done" ELSE "body")
    BY <1>1, <2>1, ReturnFacts
  <2>3. EndFlags(seen, b, rem) \in Handle /\ Same(EndFlags(seen, b, rem), seen)
    BY <1>3, <1>4, EndFlagsFacts
  <2>. QED  BY <1>4, <1>6, <2>2, <2>3 DEF Same
<1>7. CASE ~ (rem <= 0 /\ Top.boxlen # 0)
  <2> DEFINE fr == [Top EXCEPT !.rem = rem]
  <2>1. h' = seen /\ stack' = AtTop(fr) /\ pc' = "header"
    BY <1>5, <1>7
  <2>2. fr \in Frame
    BY <1>2, <1>3 DEF Frame
  <2> HIDE DEF fr
  <2>3. /\ AtTop(fr) \in Seq(Frame) /\ Len(AtTop(fr)) = Len(stack)
        /\ AtTop(fr)[Len(stack)] = fr
        /\ \A k \in 1 .. Len(stack) - 1 : AtTop(fr)[k] = stack[k]
    BY <1>1, <2>2, StackFacts
  <2>4. Len(stack) \in Nat /\ Len(stack) >= 1
    BY <1>1, StackFacts
  <2>5. AtTop(fr) # <<>>
    BY <2>3, <2>4
  <2>6. rem > 0 \/ Top.boxlen = 0
    BY <1>3, <1>7
  <2>. QED  BY <1>1, <1>4, <2>1, <2>3, <2>5, <2>6 DEF StackOK, fr
<1>. QED
  BY <1>6, <1>7

-----------------------------------------------------------------------------
(* The changes of the file.                                                *)

\* What IsFile asks of a cell, its place aside.
CellOK(c) ==
  /\ c.nm \in Containers => c.body = 0
  /\ c.nm = "meta" => c.body = MetaSz - BoxHead
  /\ c.nm \in {"ilst", "free"} => c.len = 0 \/ c.len >= c.head

LEMMA SameReach ==
  ASSUME NEW f \in Seq(Cell), NEW g \in Seq(Cell), NEW n \in Nat, n <= Len(f), n <= Len(g),
         \A k \in 1 .. n : Size(f[k]) = Size(g[k])
  PROVE  \A k \in 0 .. n : Reach(f, k) = Reach(g, k)
<1> DEFINE P == {k \in Nat : k <= n => Reach(f, k) = Reach(g, k)}
           F(k) == Reach(f, k)
           G(k) == Reach(g, k)
<1>1. /\ F(0) = 0 /\ G(0) = 0
      /\ \A k \in 1 .. n : F(k) = F(k - 1) + Size(f[k]) /\ G(k) = G(k - 1) + Size(g[k])
  <2>1. Len(f) \in Nat /\ Len(g) \in Nat
    OBVIOUS
  <2>2. \A k \in 1 .. n : k \in 1 .. Len(f) /\ k \in 1 .. Len(g)
    BY <2>1
  <2>. QED  BY <2>2, ReachStep
<1>2. 0 \in P
  BY <1>1
<1>3. ASSUME NEW k \in Nat, k < n, k \in P
      PROVE  k + 1 \in P
  <2>1. k + 1 \in 1 .. n /\ (k + 1) - 1 = k
    BY <1>3
  <2>2. F(k) = G(k)
    BY <1>3
  <2> HIDE DEF F, G
  <2>3. F(k + 1) = G(k + 1)
    BY <1>1, <2>1, <2>2
  <2>. QED  BY <2>3 DEF F, G
<1>4. \A k \in 0 .. n : k \in P
  <2> HIDE DEF P
  <2>. QED  BY <1>2, <1>3, BoundedInduction
<1>. QED
  BY <1>4

\* A sequence of boxes that is placed in a file is one.
LEMMA PlacedIsFile ==
  ASSUME NEW cells \in Seq(Cell), \A i \in DOMAIN cells : CellOK(cells[i])
  PROVE  IsFile(Placed(cells)) /\ Len(Placed(cells)) = Len(cells)
         /\ \A i \in DOMAIN cells : Placed(cells)[i].nm = cells[i].nm
<1> DEFINE n == Len(cells)
           g == Placed(cells)
<1>1. n \in Nat /\ DOMAIN cells = 1 .. n /\ \A i \in 1 .. n : cells[i] \in Cell
  OBVIOUS
<1>2. \A i \in 1 .. n : Reach(cells, i - 1) \in Nat
  <2>1. \A i \in 1 .. n : i - 1 \in 0 .. n
    BY <1>1
  <2>. QED  BY <2>1, ReachStep
<1>3. g = [i \in 1 .. n |-> [cells[i] EXCEPT !.at = Reach(cells, i - 1)]]
  BY <1>1 DEF Placed
<1> HIDE DEF g
<1>4. ASSUME NEW i \in 1 .. n
      PROVE  /\ g[i] \in Cell /\ g[i].at = Reach(cells, i - 1)
             /\ g[i].nm = cells[i].nm /\ Size(g[i]) = Size(cells[i]) /\ CellOK(g[i])
  <2>1. g[i] = [cells[i] EXCEPT !.at = Reach(cells, i - 1)]
    BY <1>3
  <2>2. cells[i] \in Cell /\ CellOK(cells[i]) /\ Reach(cells, i - 1) \in Nat
    BY <1>1, <1>2
  <2>3. g[i] \in Cell
    BY <2>1, <2>2 DEF Cell
  <2>4. /\ g[i].at = Reach(cells, i - 1) /\ g[i].nm = cells[i].nm /\ g[i].len = cells[i].len
        /\ g[i].head = cells[i].head /\ g[i].body = cells[i].body
    BY <2>1, <2>2 DEF Cell
  <2>. QED  BY <2>2, <2>3, <2>4 DEF Size, CellOK
<1>5. g \in Seq(Cell) /\ Len(g) = n
  BY <1>1, <1>3, <1>4
<1>6. \A k \in 0 .. n : Reach(cells, k) = Reach(g, k)
  BY <1>1, <1>4, <1>5, SameReach
<1>7. \A i \in 1 .. n : i - 1 \in 0 .. n
  BY <1>1
<1>8. DOMAIN g = 1 .. n
  BY <1>3
<1>. QED
  BY <1>1, <1>4, <1>5, <1>6, <1>7, <1>8 DEF g, IsFile, CellOK

\* A file whose cells keep their names and their bytes.
LEMMA AlteredFile ==
  ASSUME NEW f, IsFile(f), NEW g, g \in [DOMAIN f -> Cell],
         \A i \in DOMAIN f : /\ g[i].nm = f[i].nm /\ g[i].at = f[i].at
                             /\ g[i].head = f[i].head /\ g[i].body = f[i].body
                             /\ f[i].nm \in {"ilst", "free"} => g[i].len = f[i].len
  PROVE  IsFile(g) /\ Len(g) = Len(f) /\ DOMAIN g = DOMAIN f
<1> DEFINE n == Len(f)
<1>1. f \in Seq(Cell) /\ n \in Nat /\ DOMAIN f = 1 .. n
  BY Places DEF IsFile
<1>2. g \in Seq(Cell) /\ Len(g) = n /\ DOMAIN g = 1 .. n
  BY <1>1
<1>3. \A i \in 1 .. n : Size(g[i]) = Size(f[i])
  BY <1>1 DEF Size
<1>4. \A k \in 0 .. n : Reach(f, k) = Reach(g, k)
  BY <1>1, <1>2, <1>3, SameReach
<1>5. \A i \in 1 .. n : i - 1 \in 0 .. n
  BY <1>1
<1>. QED
  BY <1>1, <1>2, <1>4, <1>5 DEF IsFile

\* The parents' lengths are changed: those of no tag list and no free box.
LEMMA ParentsFile ==
  ASSUME TypeInv, StartInv, BaseInv, mode = "rw", pc = "done", h.mp4error = "ok",
         NEW top \in Int, 0 .. top \subseteq Levels, NEW delta \in Int
  PROVE  LET g == UpdateParentLengths(file, h, top, delta) IN
         /\ IsFile(g) /\ Len(g) = Len(file) /\ DOMAIN g = DOMAIN file
         /\ \A i \in DOMAIN file : g[i].nm = file[i].nm /\ g[i].at = file[i].at
<1> DEFINE g    == UpdateParentLengths(file, h, top, delta)
           L(i) == {k \in 0 .. top : h.base_offsets[k] = file[i].at}
<1>1. /\ IsFile(file) /\ h \in Handle
      /\ file # <<>> => file[1].nm \notin {"ilst", "free"}
  BY DEF TypeInv, StartInv
<1>2. ASSUME NEW i \in DOMAIN file
      PROVE  /\ g[i] \in Cell
             /\ g[i].nm = file[i].nm /\ g[i].at = file[i].at
             /\ g[i].head = file[i].head /\ g[i].body = file[i].body
             /\ file[i].nm \in {"ilst", "free"} => g[i].len = file[i].len
  <2>1. file[i] \in Cell /\ file # <<>>
    BY <1>1, Places
  <2>2. CASE L(i) = {}
    BY <2>1, <2>2 DEF UpdateParentLengths
  <2>3. CASE L(i) # {}
    <3>1. L(i) \subseteq Nat /\ L(i) \subseteq Levels
      OBVIOUS
    <3>2. Min(L(i)) \in L(i)
      <4> DEFINE l == L(i)
      <4>1. l # {} /\ l \subseteq Nat
        BY <2>3, <3>1
      <4> HIDE DEF l
      <4>2. \E x \in l : \A y \in l : x <= y
        BY <4>1, Least
      <4>3. Min(l) \in l
        BY <4>2 DEF Min
      <4>. QED  BY <4>3 DEF l
    <3> DEFINE m == Min(L(i))
               v == h.base_lengths[m] + delta
    <3>3. m \in Levels /\ h.base_offsets[m] = file[i].at
      BY <3>1, <3>2
    <3>4. g[i] = [file[i] EXCEPT !.len = v]
      BY <2>3 DEF UpdateParentLengths
    <3> HIDE DEF m, g
    <3>5. v \in Int
      BY <1>1, <3>3 DEF Handle
    <3>6. file[i].nm \notin {"ilst", "free"}
      BY <1>1, <2>1, <3>3 DEF BaseInv
    <3>. QED  BY <2>1, <3>4, <3>5, <3>6 DEF Cell
  <2>. QED  BY <2>2, <2>3
<1>3. g = [i \in DOMAIN file |-> g[i]] /\ DOMAIN g = DOMAIN file
  BY DEF UpdateParentLengths
<1> HIDE DEF g
<1>4. g \in [DOMAIN file -> Cell]
  BY <1>2, <1>3
<1>. QED
  BY <1>1, <1>2, <1>4, AlteredFile DEF g

\* The entries of the tables are changed.
LEMMA OffsetsFile ==
  ASSUME NEW f, IsFile(f), NEW hh \in Handle, NEW delta \in Int, NEW moved
  PROVE  LET g == UpdateOffsets(f, hh, delta, moved) IN
         /\ IsFile(g) /\ Len(g) = Len(f) /\ DOMAIN g = DOMAIN f
         /\ \A i \in DOMAIN f : g[i].nm = f[i].nm /\ g[i].at = f[i].at
<1> DEFINE g == UpdateOffsets(f, hh, delta, moved)
<1>1. ASSUME NEW i \in DOMAIN f
      PROVE  \E e \in Int : g[i] = f[i] \/ g[i] = [f[i] EXCEPT !.entry = e]
  <2> DEFINE c == f[i]
             v == IF c.nm = "co64" THEN c.entry + delta ELSE (c.entry + delta) % StcoMod
  <2>1. c \in Cell
    BY Places
  <2>2. StcoMod \in Nat \ {0}
    BY ParserAssumption
  <2>3. c.entry + delta \in Int
    BY <2>1 DEF Cell
  <2>4. v \in Int
    BY <2>2, <2>3
  <2>5. g[i] = c \/ g[i] = [c EXCEPT !.entry = IF c.nm = "co64" THEN @ + delta
                                               ELSE (@ + delta) % StcoMod]
    BY DEF UpdateOffsets
  <2> HIDE DEF c, g
  <2>6. g[i] = c \/ g[i] = [c EXCEPT !.entry = v]
    BY <2>1, <2>5 DEF Cell
  <2>. QED  BY <2>4, <2>6 DEF c
<1>2. ASSUME NEW i \in DOMAIN f
      PROVE  /\ g[i] \in Cell
             /\ g[i].nm = f[i].nm /\ g[i].at = f[i].at
             /\ g[i].head = f[i].head /\ g[i].body = f[i].body
             /\ g[i].len = f[i].len
  <2>1. f[i] \in Cell
    BY Places
  <2>2. PICK e \in Int : g[i] = f[i] \/ g[i] = [f[i] EXCEPT !.entry = e]
    BY <1>1
  <2> HIDE DEF g
  <2>. QED  BY <2>1, <2>2 DEF Cell
<1>3. g = [i \in DOMAIN f |-> g[i]] /\ DOMAIN g = DOMAIN f
  BY DEF UpdateOffsets
<1> HIDE DEF g
<1>4. g \in [DOMAIN f -> Cell]
  BY <1>2, <1>3
<1>. QED
  BY <1>2, <1>4, AlteredFile DEF g

Good == {c \in Cell : CellOK(c)}

LEMMA EmptyExtent == Extent(<<>>) = 0
<1>1. <<>> \in Seq(Cell) /\ Len(<<>>) = 0
  OBVIOUS
<1>. QED
  BY <1>1, ReachStep DEF Extent

LEMMA ExtentType ==
  ASSUME NEW cells \in Seq(Cell)
  PROVE  Extent(cells) \in Nat
<1>1. Len(cells) \in 0 .. Len(cells)
  OBVIOUS
<1>. QED
  BY <1>1, ReachStep DEF Extent

\* The boxes that are inserted are boxes.
LEMMA InsertedBoxesFacts ==
  ASSUME NEW new \in NewTags
  PROVE  /\ InsertedBoxes(new) \in Seq(Good)
         /\ Len(InsertedBoxes(new)) >= 1 /\ InsertedBoxes(new)[1].nm = "udta"
<1> DEFINE len  == (BoxHead + MetaSz + HdlrSz + BoxHead) + Extent(new) + (BoxHead + FreeSpaceSz)
           Leaf(nm, body) == [nm |-> nm, at |-> 0, len |-> BoxHead + body + Extent(<<>>),
                              head |-> BoxHead, body |-> body, id |-> 0, entry |-> 0]
           c1 == [Leaf("udta", 0) EXCEPT !.len = len]
           c2 == [Leaf("meta", MetaSz - BoxHead) EXCEPT !.len = len - BoxHead]
           c3 == Leaf("hdlr", HdlrSz - BoxHead)
           c4 == [Leaf("ilst", 0) EXCEPT
                    !.len = len - BoxHead - MetaSz - HdlrSz - (BoxHead + FreeSpaceSz)]
           c5 == Leaf("free", FreeSpaceSz)
           s  == <<c1>> \o <<c2>> \o <<c3>> \o <<c4>> \o new \o <<c5>>
<1>1. new \in Seq(Cell) /\ new \in Seq(Good)
  <2>1. new \in Seq(Cell) /\ \A i \in DOMAIN new : new[i].nm = "tag"
    BY ParserAssumption DEF AreTags
  <2>2. \A i \in DOMAIN new : new[i] \in Good
    BY <2>1 DEF Good, CellOK, Containers
  <2>. QED  BY <2>1, <2>2
<1>2. Extent(new) \in Nat /\ FreeSpaceSz \in Nat /\ Extent(<<>>) = 0
  BY <1>1, ExtentType, EmptyExtent, ParserAssumption
<1>3. c1 \in Good /\ c1.nm = "udta"
  BY <1>2 DEF Good, Cell, CellOK, Containers, Names, BoxHead, MetaSz, HdlrSz
<1>4. c2 \in Good
  BY <1>2 DEF Good, Cell, CellOK, Containers, Names, BoxHead, MetaSz, HdlrSz
<1>5. c3 \in Good
  BY <1>2 DEF Good, Cell, CellOK, Containers, Names, BoxHead, MetaSz, HdlrSz
<1>6. c4 \in Good
  <2> DEFINE v == len - BoxHead - MetaSz - HdlrSz - (BoxHead + FreeSpaceSz)
             c == Leaf("ilst", 0)
  <2>1. v \in Int /\ v >= 8
    BY <1>2 DEF BoxHead, MetaSz, HdlrSz
  <2>2. c \in Cell /\ c.nm = "ilst" /\ c.head = 8 /\ c.body = 0
    BY <1>2 DEF Cell, Containers, Names, BoxHead
  <2> HIDE DEF v, c
  <2>3. [c EXCEPT !.len = v] \in Good
    BY <2>1, <2>2 DEF Good, Cell, CellOK
  <2>. QED  BY <2>3 DEF c, v
<1>7. c5 \in Good
  BY <1>2 DEF Good, Cell, CellOK, Containers, Names, BoxHead, MetaSz, HdlrSz
<1>8. InsertedBoxes(new) = s
  <2>1. \A nm, body : Box(nm, body, <<>>) = <<Leaf(nm, body)>>
    BY DEF Box
  <2>2. \A nm, body : <<Leaf(nm, body)>>[1] = Leaf(nm, body)
    OBVIOUS
  <2> HIDE DEF Leaf
  <2>. QED  BY <2>1, <2>2 DEF InsertedBoxes
<1> HIDE DEF c1, c2, c3, c4, c5
<1>9. s \in Seq(Good) /\ Len(s) >= 1 /\ s[1] = c1
  BY <1>1, <1>3, <1>4, <1>5, <1>6, <1>7
<1>. QED
  BY <1>3, <1>8, <1>9

\* How many cells start before an offset.
LEMMA BeforeFacts ==
  ASSUME NEW f, IsFile(f), NEW p
  PROVE  /\ Cardinality({i \in DOMAIN f : f[i].at < p}) \in 0 .. Len(f)
         /\ (\E i \in DOMAIN f : f[i].at < p)
              => Cardinality({i \in DOMAIN f : f[i].at < p}) >= 1
<1> DEFINE S == {i \in DOMAIN f : f[i].at < p}
<1>1. Len(f) \in Nat /\ DOMAIN f = 1 .. Len(f)
  BY Places
<1>2. IsFiniteSet(1 .. Len(f)) /\ Cardinality(1 .. Len(f)) = Len(f)
  <2> DEFINE n == Len(f)
  <2>1. n \in Int /\ 1 \in Int /\ n >= 0
    BY <1>1
  <2> HIDE DEF n
  <2>2. IsFiniteSet(1 .. n) /\ Cardinality(1 .. n) = IF 1 > n THEN 0 ELSE n - 1 + 1
    BY <2>1, FS_Interval
  <2>3. (IF 1 > n THEN 0 ELSE n - 1 + 1) = n
    BY <2>1
  <2>. QED  BY <2>2, <2>3 DEF n
<1>3. S \subseteq 1 .. Len(f)
  BY <1>1
<1> HIDE DEF S
<1>4. IsFiniteSet(S) /\ Cardinality(S) <= Cardinality(1 .. Len(f))
  BY <1>2, <1>3, FS_Subset
<1>5. Cardinality(S) \in Nat
  BY <1>4, FS_CardinalityType
<1>6. S # {} => Cardinality(S) # 0
  BY <1>4, FS_EmptySet
<1>7. (\E i \in DOMAIN f : f[i].at < p) => S # {}
  BY DEF S
<1>8. Cardinality(S) \in 0 .. Len(f) /\ (S # {} => Cardinality(S) >= 1)
  BY <1>1, <1>2, <1>4, <1>5, <1>6
<1>. QED
  BY <1>7, <1>8 DEF S

\* The file with the inserted list is a file that starts as the old one did.
LEMMA InsertedFile ==
  ASSUME TypeInv, StartInv, BaseInv, mode = "rw", pc = "done", h.mp4error = "ok",
         h.noilst_offset # 0, file # <<>>, NEW new \in NewTags
  PROVE  LET g == Inserted(file, h, new) IN
         /\ IsFile(g) /\ g # <<>> /\ g[1].nm = "ftyp"
<1> DEFINE delta  == InsertDelta(h, new)
           moved  == Extent(InsertedBoxes(new)) - (h.after_ilst_offset - h.noilst_offset)
           longer == UpdateParentLengths(file, h, 0, delta)
           fixed  == UpdateOffsets(longer, h, delta, moved)
           Before(p) == Cardinality({i \in DOMAIN file : file[i].at < p})
           a == Before(h.noilst_offset)
           b == Before(h.after_ilst_offset)
           boxes == InsertedBoxes(new)
           front == SubSeq(fixed, 1, a)
           back  == SubSeq(fixed, b + 1, Len(file))
           cells == front \o boxes \o back
<1>1. IsFile(file) /\ h \in Handle /\ Len(file) \in Nat
      /\ file[1].nm = "ftyp" /\ 1 \in DOMAIN file /\ file[1].at = 0
      /\ h.noilst_offset \in Nat
  BY Places DEF TypeInv, StartInv, Handle
<1>2. delta \in Int
  <2>1. new \in Seq(Cell) /\ FreeSpaceSz \in Nat
    BY ParserAssumption DEF AreTags
  <2>2. Extent(new) \in Nat /\ h.insert_delta \in Nat
    BY <1>1, <2>1, ExtentType DEF Handle
  <2>. QED  BY <2>1, <2>2 DEF InsertDelta, BoxHead, MetaSz, HdlrSz
<1>3. 0 .. 0 \subseteq Levels
  <2>1. LevelMax \in Nat \ {0}
    BY ParserAssumption
  <2>. QED  BY <2>1 DEF Levels
<1>4. a \in 1 .. Len(file) /\ b \in 0 .. Len(file)
  <2>1. file[1].at < h.noilst_offset
    BY <1>1
  <2>2. a \in 0 .. Len(file) /\ a >= 1
    BY <1>1, <2>1, BeforeFacts
  <2>3. b \in 0 .. Len(file)
    BY <1>1, BeforeFacts
  <2>. QED  BY <1>1, <2>2, <2>3
<1>5. boxes \in Seq(Good) /\ Len(boxes) >= 1 /\ boxes[1].nm = "udta"
  BY InsertedBoxesFacts
<1>6. Inserted(file, h, new) = Placed(cells)
  BY DEF Inserted
<1> HIDE DEF delta, moved, Before, a, b, boxes
<1>7. /\ IsFile(longer) /\ Len(longer) = Len(file) /\ DOMAIN longer = DOMAIN file
      /\ \A i \in DOMAIN file : longer[i].nm = file[i].nm
  <2>1. 0 \in Int
    OBVIOUS
  <2>. QED  BY <1>2, <1>3, <2>1, ParentsFile
<1> HIDE DEF longer
<1>8. /\ IsFile(fixed) /\ Len(fixed) = Len(file)
      /\ \A i \in DOMAIN file : fixed[i].nm = longer[i].nm
  BY <1>1, <1>2, <1>7, OffsetsFile
<1> HIDE DEF fixed
<1>9. fixed \in Seq(Good)
  BY <1>8 DEF IsFile, Good, CellOK
<1>10. front \in Seq(Good) /\ Len(front) = a /\ front[1] = fixed[1]
  BY <1>1, <1>4, <1>8, <1>9
<1>11. back \in Seq(Good)
  <2>1. \A i \in b + 1 .. Len(file) : i \in 1 .. Len(fixed)
    BY <1>1, <1>4, <1>8
  <2>2. b + 1 \in Nat
    BY <1>4
  <2>. QED  BY <1>1, <1>9, <2>1, <2>2
<1>12. fixed[1].nm = "ftyp"
  BY <1>1, <1>7, <1>8
<1> HIDE DEF front, back
<1>13. /\ cells \in Seq(Good) /\ Len(cells) >= 1
       /\ cells[1] = front[1]
  BY <1>1, <1>4, <1>5, <1>10, <1>11
<1>14. cells[1].nm = "ftyp"
  BY <1>10, <1>12, <1>13
<1> HIDE DEF cells
<1>15. cells \in Seq(Cell) /\ \A i \in DOMAIN cells : CellOK(cells[i])
  BY <1>13 DEF Good
<1>16. 1 \in DOMAIN cells
  BY <1>13
<1>17. IsFile(Placed(cells)) /\ Len(Placed(cells)) = Len(cells) /\ Placed(cells)[1].nm = cells[1].nm
  BY <1>15, <1>16, PlacedIsFile
<1>18. Placed(cells) # <<>>
  BY <1>13, <1>17
<1>. QED
  BY <1>6, <1>14, <1>17, <1>18

-----------------------------------------------------------------------------
(* The types, the start and the parents hold in every state.               *)

ShapeInv == TypeInv /\ StartInv /\ BaseInv

\* No cell starts within another one.
LEMMA OneCell ==
  ASSUME NEW f, IsFile(f), NEW i \in DOMAIN f, NEW j \in DOMAIN f,
         f[j].at <= f[i].at, f[i].at < After(f[j])
  PROVE  i = j
<1>1. i \in Nat /\ j \in Nat
  BY Places
<1>2. /\ f[i].at \in Nat /\ f[j].at \in Nat /\ After(f[i]) \in Nat /\ After(f[j]) \in Nat
      /\ After(f[i]) > f[i].at
  <2>1. f[i] \in Cell /\ f[j] \in Cell
    BY Places
  <2>. QED  BY <2>1, CellFacts
<1>3. (i < j => After(f[i]) <= f[j].at) /\ (j < i => After(f[j]) <= f[i].at)
  BY Places
<1>. QED
  BY <1>1, <1>2, <1>3

LEMMA EndsShortFacts ==
  ASSUME TypeInv, NEW n, NEW s \in Short(n), EndsShort(s)
  PROVE  pos' = s.upto /\ pos' \in Nat /\ pos' >= pos /\ faults' \in Nat /\ faulty' \in BOOLEAN
<1>1. s.upto \in Nat /\ s.upto >= pos
  BY ShortFacts
<1>2. faults \in Nat /\ faulty \in BOOLEAN
  BY DEF TypeInv
<1>3. \/ faults' = faults /\ faulty' = faulty
      \/ faults > 0 /\ faults' = faults - 1 /\ faulty' = TRUE
  BY DEF EndsShort, Fault
<1>4. pos' = s.upto
  BY DEF EndsShort
<1>5. CASE faults' = faults /\ faulty' = faulty
  BY <1>1, <1>2, <1>4, <1>5
<1>6. CASE faults > 0 /\ faults' = faults - 1 /\ faulty' = TRUE
  BY <1>1, <1>2, <1>4, <1>6
<1>. QED
  BY <1>3, <1>5, <1>6

\* A step of the descent keeps the invariant if it keeps the types and notes no
\* tag list and no free box as a parent.
LEMMA ScanKeeps ==
  ASSUME ShapeInv, Parsing, UNCHANGED <<file, origin, mode, repaired, written>>,
         pos' \in Nat, h' \in Handle, StackOK(stack', pc'), pc' \in {"header", "body", "done"},
         tags' \in Seq(Nat), faults' \in Nat, faulty' \in BOOLEAN,
         \A l \in Levels :
           \/ h'.base_offsets[l] = h.base_offsets[l]
           \/ \A i \in DOMAIN file : file[i].at = h'.base_offsets[l]
                                       => file[i].nm \notin {"ilst", "free"},
         file = <<>> => Len(stack') <= 1 /\ pc' # "body" /\ Blank(h')
  PROVE  ShapeInv'
<1>1. TypeInv'
  BY DEF ShapeInv, TypeInv, StackOK, Parsing
<1>2. StartInv'
  BY DEF ShapeInv, StartInv, Parsing
<1>3. BaseInv'
  BY DEF ShapeInv, BaseInv
<1>. QED
  BY <1>1, <1>2, <1>3 DEF ShapeInv

\* A read within the descent fails.
LEMMA ReadFailsKeeps ==
  ASSUME ShapeInv, Parsing, NEW n, NEW hh \in Handle, ReadFails(n, hh),
         hh.base_offsets = h.base_offsets, file = <<>> => Blank(hh),
         UNCHANGED <<file, origin, mode, repaired, written>>
  PROVE  ShapeInv'
<1>1. TypeInv
  BY DEF ShapeInv
<1>2. PICK s \in Short(n) : EndsShort(s) /\ LeaveLoop(hh, s.upto) /\ UNCHANGED tags
  BY DEF ReadFails
<1>3. pos' \in Nat /\ faults' \in Nat /\ faulty' \in BOOLEAN
  BY <1>1, <1>2, EndsShortFacts
<1>4. /\ stack' = Front(stack) /\ StackOK(stack', pc') /\ h' \in Handle
      /\ pc' = (IF Len(stack) = 1 THEN "done" ELSE "body")
      /\ h'.base_offsets = hh.base_offsets /\ h'.dofix = hh.dofix
      /\ h'.noilst_offset = hh.noilst_offset
  BY <1>1, <1>2, LeaveFacts
<1>5. file = <<>> => Len(stack') <= 1 /\ pc' # "body" /\ Blank(h')
  <2>1. SUFFICES ASSUME file = <<>>
                 PROVE  Len(stack') <= 1 /\ pc' # "body" /\ Blank(h')
    OBVIOUS
  <2>2. stack \in Seq(Frame) /\ stack # <<>>
    BY DEF ShapeInv, TypeInv
  <2>3. Len(stack) = 1
    <3>1. Len(stack) <= 1
      BY <2>1 DEF ShapeInv, StartInv
    <3>. QED  BY <2>2, <3>1, StackFacts
  <2>4. Len(stack') = 0
    BY <1>4, <2>2, <2>3, StackFacts
  <2>. QED  BY <1>4, <2>1, <2>3, <2>4 DEF Blank
<1>6. tags' \in Seq(Nat)
  BY <1>2 DEF ShapeInv, TypeInv
<1>. QED
  BY <1>3, <1>4, <1>5, <1>6, ScanKeeps

\* What the parser notes at a header that lies in the file.
LEMMA ExamineTypes ==
  ASSUME TypeInv, NEW b \in HeadersAt(file, pos), b.len # 0, NEW l \in Levels
  PROVE  /\ b \in Header /\ pos + b.head \in Nat /\ pos + b.head >= BoxHead
         /\ b.nm = "ilst" => Payload(b) \in Nat
         /\ b.nm = "free" => b.len \in Nat
         /\ Noted(h, b, pos + b.head, l) \in Handle
<1>1. IsFile(file) /\ pos \in Nat /\ h \in Handle
  BY DEF TypeInv
<1>2. b \in Header /\ b.head \in {8, 16}
  BY <1>1, HeaderFacts
<1>3. pos + b.head \in Nat /\ pos + b.head >= BoxHead
  BY <1>1, <1>2 DEF BoxHead
<1>4. ASSUME b.nm \in {"ilst", "free"}
      PROVE  b.len \in Nat /\ Payload(b) \in Nat
  <2>1. PICK i \in DOMAIN file : b = file[i]
    BY <1>1, <1>4, HeaderFacts
  <2>2. b.len >= b.head /\ b.len \in Int
    BY <1>1, <1>2, <1>4, <2>1 DEF IsFile, Header
  <2>. QED  BY <1>2, <2>2 DEF Payload
<1>5. Noted(h, b, pos + b.head, l) \in Handle
  BY <1>1, <1>2, <1>3, <1>4, NotedFacts
<1>. QED
  BY <1>2, <1>3, <1>4, <1>5

LEMMA ReadHeaderShape ==
  ASSUME ShapeInv, ReadHeader
  PROVE  ShapeInv'
<1> DEFINE Chosen(b) ==
             \/ /\ b.len = 0
                /\ pos' = pos + BoxHead
                /\ LeaveLoop([h EXCEPT !.parsedone = TRUE], pos + BoxHead)
                /\ UNCHANGED <<tags, faults, faulty>>
             \/ b.len # 0 /\ b.head # BoxHead /\ ReadFails(b.head, h)
             \/ /\ b.len # 0 /\ pos + b.head <= FileSz(file)
                /\ Examine(b, pos + b.head) /\ UNCHANGED tags
<1>1. /\ TypeInv /\ IsFile(file) /\ pos \in Nat /\ h \in Handle /\ tags \in Seq(Nat)
      /\ faults \in Nat /\ faulty \in BOOLEAN
  BY DEF ShapeInv, TypeInv
<1>2. Parsing /\ UNCHANGED <<file, origin, mode, repaired, written>>
  BY DEF ReadHeader, Parsing
<1>3. stack \in Seq(Frame) /\ stack # <<>>
  BY <1>2 DEF ShapeInv, TypeInv
<1>4. FileSz(file) \in Nat /\ (file = <<>> => FileSz(file) = 0)
  BY <1>1, Places
<1>5. Level \in Levels
  <2>1. Len(stack) <= LevelMax /\ LevelMax \in Nat
    BY ParserAssumption DEF ShapeInv, TypeInv
  <2>. QED  BY <1>3, <2>1, StackFacts DEF Levels
<1>6. CASE ReadFails(BoxHead, h)
  <2>1. file = <<>> => Blank(h)
    BY DEF ShapeInv, StartInv
  <2>. QED  BY <1>1, <1>2, <1>6, <2>1, ReadFailsKeeps
<1>7. CASE /\ pos + BoxHead <= FileSz(file)
           /\ \E b \in HeadersAt(file, pos) : Chosen(b)
  <2>1. file # <<>>
    BY <1>1, <1>4, <1>7 DEF BoxHead
  <2>2. PICK b \in HeadersAt(file, pos) : Chosen(b)
    BY <1>7
  <2>4. b \in Header /\ b.head \in {8, 16} /\ b.at = pos
    BY <1>1, HeaderFacts
  <2>5. ASSUME NEW hh \in Handle, NEW p, LeaveLoop(hh, p), pos' \in Nat,
               hh.base_offsets = h.base_offsets,
               tags' \in Seq(Nat), faults' \in Nat, faulty' \in BOOLEAN
        PROVE  ShapeInv'
    <3>1. /\ StackOK(stack', pc') /\ h' \in Handle
          /\ pc' = (IF Len(stack) = 1 THEN "done" ELSE "body")
          /\ h'.base_offsets = hh.base_offsets
      BY <1>1, <1>2, <2>5, LeaveFacts
    <3>. QED  BY <1>2, <2>1, <2>5, <3>1, ScanKeeps
  <2>6. CASE /\ b.len = 0
             /\ pos' = pos + BoxHead
             /\ LeaveLoop([h EXCEPT !.parsedone = TRUE], pos + BoxHead)
             /\ UNCHANGED <<tags, faults, faulty>>
    <3> DEFINE hh == [h EXCEPT !.parsedone = TRUE]
    <3>1. hh \in Handle /\ hh.base_offsets = h.base_offsets
      BY <1>1 DEF Handle
    <3>2. pos' \in Nat
      BY <1>1, <2>6 DEF BoxHead
    <3> HIDE DEF hh
    <3>. QED  BY <1>1, <2>5, <2>6, <3>1, <3>2 DEF hh
  <2>7. CASE b.len # 0 /\ b.head # BoxHead /\ ReadFails(b.head, h)
    BY <1>1, <1>2, <2>1, <2>7, ReadFailsKeeps
  <2>8. CASE /\ b.len # 0 /\ pos + b.head <= FileSz(file)
             /\ Examine(b, pos + b.head) /\ UNCHANGED tags
    <3> DEFINE off    == pos + b.head
               noted  == Noted(h, b, off, Level)
               isfree == noted.checkforfree /\ b.nm = "free"
               seen   == IF isfree THEN CountFree(noted, b, Level) ELSE noted
    <3>1. /\ off \in Nat /\ off >= BoxHead /\ noted \in Handle
          /\ b.nm = "ilst" => Payload(b) \in Nat
          /\ b.nm = "free" => b.len \in Nat
      BY <1>1, <1>5, <2>8, ExamineTypes
    <3>2. /\ noted.base_offsets = h.base_offsets
          /\ b.nm = "ilst" => noted.taglist_offset = off
      BY <1>1, <1>5, <2>4, <3>1, NotedFacts
    <3>11. tags' \in Seq(Nat) /\ faults' \in Nat /\ faulty' \in BOOLEAN
      <4>1. UNCHANGED <<faults, faulty>> \/ Fault
        BY <2>8 DEF Examine
      <4>2. CASE UNCHANGED <<faults, faulty>>
        BY <1>1, <2>8, <4>2
      <4>3. CASE Fault
        BY <1>1, <2>8, <4>3 DEF Fault
      <4>. QED  BY <4>1, <4>2, <4>3
    <3>3. \/ /\ noted.checkforfree /\ ~ isfree
             /\ pos' = off
             /\ LeaveLoop([WithDataLen(noted) EXCEPT !.checkforfree = FALSE,
                                                     !.parsedone = TRUE], off)
          \/ /\ ~ noted.checkforfree /\ Descends(b)
             /\ pos' = off + Skip(b)
             /\ Enter(WithBase(seen, b, off, Level), b, Skip(b))
          \/ /\ ~ noted.checkforfree /\ Descends(b)
             /\ pos' = off
             /\ Enter([WithBase(seen, b, off, Level) EXCEPT !.mp4error = "seek"], b, Skip(b))
          \/ /\ isfree \/ ~ (noted.checkforfree \/ Descends(b))
             /\ pos' = off
             /\ h' = seen /\ stack' = At(b, Skip(b)) /\ pc' = "body"
      BY <2>8 DEF Examine
    <3> HIDE DEF noted, off
    <3>4. seen \in Handle /\ seen.base_offsets = h.base_offsets
          /\ seen.taglist_offset = noted.taglist_offset
      BY <2>4, <3>1, <3>2, CountFreeFacts DEF Same
    <3>5. Skip(b) \in Nat
      BY <2>4, SkipFacts
    <3>6. CASE /\ noted.checkforfree /\ ~ isfree
               /\ pos' = off
               /\ LeaveLoop([WithDataLen(noted) EXCEPT !.checkforfree = FALSE,
                                                       !.parsedone = TRUE], off)
      <4> DEFINE w  == WithDataLen(noted)
                 hh == [w EXCEPT !.checkforfree = FALSE, !.parsedone = TRUE]
      <4>1. w \in Handle /\ Same(w, noted)
        BY <3>1, WithDataLenFacts
      <4> HIDE DEF w
      <4>2. hh \in Handle /\ hh.base_offsets = h.base_offsets
        BY <3>2, <4>1 DEF Handle, Same
      <4>3. LeaveLoop(hh, off)
        BY <3>6 DEF w
      <4> HIDE DEF hh
      <4>. QED  BY <2>5, <3>1, <3>11, <3>6, <4>2, <4>3
    <3> DEFINE based == WithBase(seen, b, off, Level)
    <3>7. ASSUME ~ noted.checkforfree, Descends(b), pos' \in Nat,
                 NEW w \in Handle, w.base_offsets = based.base_offsets, Enter(w, b, Skip(b))
          PROVE  ShapeInv'
      <4> HIDE DEF seen, based
      <4>1. /\ w \in Handle
            /\ \A k \in Levels : \/ w.base_offsets[k] = seen.base_offsets[k]
                                 \/ seen.taglist_offset = 0 /\ w.base_offsets[k] = off - BoxHead
        <5>1. \A k \in Levels :
                \/ based.base_offsets[k] = seen.base_offsets[k]
                \/ seen.taglist_offset = 0 /\ based.base_offsets[k] = off - BoxHead
          BY <1>5, <2>4, <3>1, <3>4, WithBaseFacts DEF based
        <5>. QED  BY <3>7, <5>1
      <4>2. Enter(w, b, Skip(b))
        BY <3>7
      <4>3. /\ StackOK(stack', pc') /\ h' \in Handle /\ pc' \in {"header", "body"}
            /\ h'.base_offsets = w.base_offsets
        BY <1>1, <1>2, <2>4, <3>5, <4>1, <4>2, EnterFacts
      <4>4. pos' \in Nat
        BY <3>7
      <4>5. PICK j \in DOMAIN file : b = file[j] /\ file[j].at = pos
        <5>1. b.nm # "junk"
          BY <3>7 DEF Descends, Containers
        <5>. QED  BY <1>1, <5>1, HeaderFacts
      <4>6. ASSUME seen.taglist_offset = 0, NEW i \in DOMAIN file, file[i].at = off - BoxHead
            PROVE  file[i].nm \notin {"ilst", "free"}
        <5>1. file[j] \in Cell /\ file[i] \in Cell
          BY <1>1, Places
        <5>2. /\ file[j].at \in Nat /\ Size(file[j]) >= file[j].head
              /\ After(file[j]) = file[j].at + Size(file[j]) /\ Size(file[j]) \in Nat
          BY <5>1, CellFacts
        <5>3. file[j].at <= file[i].at /\ file[i].at < After(file[j])
          BY <1>1, <2>4, <4>5, <4>6, <5>2 DEF off, BoxHead
        <5>4. i = j
          BY <1>1, <5>3, OneCell
        <5>5. b.nm # "ilst"
          BY <3>1, <3>2, <3>4, <4>6 DEF BoxHead
        <5>6. b.nm # "free"
          BY <3>7 DEF Descends, Containers
        <5>. QED  BY <4>5, <5>4, <5>5, <5>6
      <4>7. ASSUME NEW l \in Levels
            PROVE  \/ h'.base_offsets[l] = h.base_offsets[l]
                   \/ \A i \in DOMAIN file : file[i].at = h'.base_offsets[l]
                                               => file[i].nm \notin {"ilst", "free"}
        BY <3>4, <4>1, <4>3, <4>6
      <4>. QED  BY <1>2, <2>1, <3>11, <4>3, <4>4, <4>7, ScanKeeps
    <3>8. CASE /\ isfree \/ ~ (noted.checkforfree \/ Descends(b))
               /\ pos' = off
               /\ h' = seen /\ stack' = At(b, Skip(b)) /\ pc' = "body"
      <4>1. At(b, Skip(b)) \in Seq(Frame) /\ Len(At(b, Skip(b))) = Len(stack)
        BY <1>3, <2>4, <3>5, AtFacts
      <4>2. Len(stack) \in Nat /\ Len(stack) >= 1 /\ Len(stack) <= LevelMax
        BY <1>3, StackFacts DEF ShapeInv, TypeInv
      <4>3. At(b, Skip(b)) # <<>>
        BY <4>1, <4>2
      <4>4. StackOK(stack', pc')
        BY <3>8, <4>1, <4>2, <4>3 DEF StackOK
      <4> HIDE DEF seen
      <4>. QED  BY <1>2, <2>1, <3>11, <3>1, <3>4, <3>8, <4>4, ScanKeeps
    <3>9. CASE /\ ~ noted.checkforfree /\ Descends(b)
               /\ pos' = off + Skip(b)
               /\ Enter(based, b, Skip(b))
      <4> HIDE DEF seen
      <4>1. based \in Handle
        BY <1>5, <2>4, <3>1, <3>4, WithBaseFacts
      <4>2. pos' \in Nat
        BY <3>1, <3>5, <3>9
      <4> HIDE DEF based
      <4>. QED  BY <3>7, <3>9, <4>1, <4>2
    <3>10. CASE /\ ~ noted.checkforfree /\ Descends(b)
                /\ pos' = off
                /\ Enter([based EXCEPT !.mp4error = "seek"], b, Skip(b))
      <4> HIDE DEF seen
      <4>1. based \in Handle
        BY <1>5, <2>4, <3>1, <3>4, WithBaseFacts
      <4> HIDE DEF based
      <4> DEFINE w == [based EXCEPT !.mp4error = "seek"]
      <4>2. w \in Handle /\ w.base_offsets = based.base_offsets
        BY <4>1 DEF Handle, Errors
      <4> HIDE DEF w
      <4>. QED  BY <3>1, <3>7, <3>10, <4>2 DEF w
    <3>. QED  BY <3>3, <3>6, <3>8, <3>9, <3>10
  <2>. QED  BY <2>2, <2>6, <2>7, <2>8
<1>. QED
  BY <1>6, <1>7 DEF ReadHeader

LEMMA FinishBoxShape ==
  ASSUME ShapeInv, FinishBox
  PROVE  ShapeInv'
<1> DEFINE b  == Top.box
           hh == Behind(h, b)
<1>1. /\ TypeInv /\ IsFile(file) /\ pos \in Nat /\ h \in Handle /\ tags \in Seq(Nat)
      /\ faults \in Nat /\ faulty \in BOOLEAN
  BY DEF ShapeInv, TypeInv
<1>2. Parsing /\ pc = "body" /\ UNCHANGED <<file, origin, mode, repaired, written>>
  BY DEF FinishBox, Parsing
<1>3. stack \in Seq(Frame) /\ stack # <<>> /\ file # <<>>
  BY <1>2 DEF ShapeInv, TypeInv, StartInv
<1>4. b \in Header /\ Top.skip \in Nat
  <2>1. Top \in Frame
    BY <1>3, StackFacts
  <2>. QED  BY <2>1 DEF Frame
<1>5. b.id \in Nat /\ Payload(b) \in Int
  BY <1>4 DEF Header, Payload
<1> HIDE DEF b
<1>6. hh \in Handle /\ hh.base_offsets = h.base_offsets
  BY <1>1, <1>4, BehindFacts
<1>7. ReadData(hh, b) \/ SkipData(hh, b)
  BY DEF FinishBox, b
<1> HIDE DEF hh
<1>8. ASSUME NEW n \in Handle, n.base_offsets = h.base_offsets, h' = n,
             StackOK(stack', pc'), pc' \in {"header", "body", "done"}, pos' \in Nat,
             tags' \in Seq(Nat), faults' \in Nat, faulty' \in BOOLEAN
      PROVE  ShapeInv'
  BY <1>2, <1>3, <1>8, ScanKeeps
<1>9. ASSUME Account(hh, b), pos' \in Nat, tags' \in Seq(Nat), UNCHANGED <<faults, faulty>>
      PROVE  ShapeInv'
  <2>1. /\ StackOK(stack', pc') /\ h' \in Handle /\ Same(h', hh)
        /\ pc' \in {"header", "body", "done"}
    BY <1>1, <1>2, <1>4, <1>6, <1>9, AccountFacts
  <2>2. h'.base_offsets = h.base_offsets
    BY <1>6, <2>1 DEF Same
  <2>. QED  BY <1>1, <1>8, <1>9, <2>1, <2>2
<1>10. ASSUME NEW n \in Handle, n.base_offsets = h.base_offsets,
              Return(n) \/ LeaveLoop(n, pos), UNCHANGED <<pos, tags>>,
              UNCHANGED <<faults, faulty>> \/ Fault
       PROVE  ShapeInv'
  <2>1. /\ StackOK(stack', pc') /\ h' \in Handle /\ h'.base_offsets = n.base_offsets
        /\ pc' \in {"header", "body", "done"}
    <3>1. CASE Return(n)
      BY <1>1, <1>2, <1>10, <3>1, ReturnFacts
    <3>2. CASE LeaveLoop(n, pos)
      BY <1>1, <1>2, <1>10, <3>2, LeaveFacts
    <3>. QED  BY <1>10, <3>1, <3>2
  <2>2. faults' \in Nat /\ faulty' \in BOOLEAN
    <3>1. CASE UNCHANGED <<faults, faulty>>
      BY <1>1, <3>1
    <3>2. CASE Fault
      BY <1>1, <3>2 DEF Fault
    <3>. QED  BY <1>10, <3>1, <3>2
  <2>. QED  BY <1>1, <1>8, <1>10, <2>1, <2>2
<1>11. CASE ReadData(hh, b)
  <2>1. CASE ReadFails(Payload(b), hh)
    BY <1>1, <1>2, <1>3, <1>6, <2>1, ReadFailsKeeps DEF ShapeInv, StartInv
  <2>2. CASE /\ Payload(b) >= 0 /\ pos + Payload(b) <= FileSz(file)
             /\ pos' = pos + Payload(b)
             /\ tags' = IF hh.processdata /\ Payload(b) # 0 /\ b.nm # "free"
                        THEN Append(tags, b.id) ELSE tags
             /\ Account(hh, b)
             /\ UNCHANGED <<faults, faulty>>
    <3>1. pos' \in Nat
      BY <1>1, <1>5, <2>2
    <3>2. tags' \in Seq(Nat)
      BY <1>1, <1>5, <2>2
    <3>. QED  BY <1>9, <2>2, <3>1, <3>2
  <2>3. CASE /\ Payload(b) # 0
             /\ IF Payload(b) < 0 THEN UNCHANGED <<faults, faulty>> ELSE Fault
             /\ Return([hh EXCEPT !.mp4error = "out_of_memory"])
             /\ UNCHANGED <<pos, tags>>
    <3> DEFINE n == [hh EXCEPT !.mp4error = "out_of_memory"]
    <3>1. n \in Handle /\ n.base_offsets = h.base_offsets
      BY <1>6 DEF Handle, Errors
    <3>2. Return(n)
      BY <2>3
    <3> HIDE DEF n
    <3>. QED  BY <1>10, <2>3, <3>1, <3>2
  <2>. QED  BY <1>11, <2>1, <2>2, <2>3 DEF ReadData
<1>12. CASE SkipData(hh, b)
  <2>1. CASE pos' = pos + Top.skip /\ Account(hh, b) /\ UNCHANGED <<tags, faults, faulty>>
    <3>1. pos' \in Nat /\ tags' \in Seq(Nat)
      BY <1>1, <1>4, <2>1
    <3>. QED  BY <1>9, <2>1, <3>1
  <2>2. CASE /\ Fault
             /\ LeaveLoop([hh EXCEPT !.mp4error = "seek"], pos)
             /\ UNCHANGED <<pos, tags>>
    <3> DEFINE n == [hh EXCEPT !.mp4error = "seek"]
    <3>1. n \in Handle /\ n.base_offsets = h.base_offsets
      BY <1>6 DEF Handle, Errors
    <3>2. LeaveLoop(n, pos)
      BY <2>2
    <3> HIDE DEF n
    <3>. QED  BY <1>10, <2>2, <3>1, <3>2
  <2>. QED  BY <1>12, <2>1, <2>2 DEF SkipData
<1>. QED
  BY <1>7, <1>11, <1>12

\* The start of the descent.
LEMMA CallZero == StackOK(<<Call(0)>>, "header") /\ Len(<<Call(0)>>) = 1
<1>1. Call(0) \in Frame
  BY DEF Call, Frame, NoBox, Header, BoxHead, Names
<1>2. LevelMax \in Nat \ {0}
  BY ParserAssumption
<1> DEFINE c == Call(0)
<1> HIDE DEF c
<1>3. <<c>> \in Seq(Frame) /\ Len(<<c>>) = 1 /\ <<c>> # <<>>
  BY <1>1 DEF c
<1>. QED
  BY <1>2, <1>3 DEF c, StackOK

\* The check of the file type is over, with no base noted.
LEMMA StartKeeps ==
  ASSUME ShapeInv, pc \in {"ftyp", "brands"}, UNCHANGED <<file, origin, mode, tags, repaired, written>>,
         pos' \in Nat, faults' \in Nat, faulty' \in BOOLEAN,
         StartParse \/ (\E e \in Errors \ {"ok"} : Refuse(e)),
         StartParse /\ mode = "rw" /\ file # <<>> => file[1].nm = "ftyp"
  PROVE  ShapeInv'
<1>1. h = NewHandle /\ h \in Handle /\ stack = <<>>
  BY NewHandleType DEF ShapeInv, StartInv, TypeInv, Parsing
<1>2. CASE StartParse
  <2>1. StackOK(stack', pc') /\ pc' = "header" /\ h' = h /\ Len(stack') = 1
    BY <1>2, CallZero DEF StartParse
  <2>2. TypeInv'
    BY <2>1 DEF ShapeInv, TypeInv, StackOK, Parsing
  <2>3. Blank(h)
    BY <1>1 DEF NewHandle, Blank
  <2>4. StartInv'
    BY <1>2, <2>1, <2>3 DEF StartInv
  <2>5. BaseInv'
    BY <2>1 DEF ShapeInv, BaseInv
  <2>. QED  BY <2>2, <2>4, <2>5 DEF ShapeInv
<1>3. CASE \E e \in Errors \ {"ok"} : Refuse(e)
  <2>1. PICK e \in Errors \ {"ok"} : Refuse(e)
    BY <1>3
  <2>2. pc' = "done" /\ h' = [h EXCEPT !.mp4error = e] /\ stack' = <<>>
    BY <1>1, <2>1 DEF Refuse
  <2>3. h' \in Handle /\ h'.base_offsets = h.base_offsets /\ h'.mp4error # "ok" /\ Blank(h')
    <3>1. h' \in Handle /\ h'.base_offsets = h.base_offsets /\ h'.mp4error = e
      BY <1>1, <2>1, <2>2 DEF Handle
    <3>2. Blank(h')
      BY <1>1, <2>2 DEF Handle, NewHandle, Blank
    <3>. QED  BY <2>1, <3>1, <3>2
  <2>4. LevelMax \in Nat
    BY ParserAssumption
  <2>5. TypeInv'
    BY <2>2, <2>3, <2>4 DEF ShapeInv, TypeInv, Parsing
  <2>6. StartInv'
    BY <2>2, <2>3, <2>4 DEF StartInv
  <2>7. BaseInv'
    BY <2>3 DEF ShapeInv, BaseInv
  <2>. QED  BY <2>5, <2>6, <2>7 DEF ShapeInv
<1>. QED
  BY <1>2, <1>3

LEMMA ReadFtypShape ==
  ASSUME ShapeInv, ReadFtyp
  PROVE  ShapeInv'
<1>1. /\ TypeInv /\ IsFile(file) /\ pos \in Nat /\ faults \in Nat /\ faulty \in BOOLEAN
      /\ pos = 0 /\ pc = "ftyp" /\ stack = <<>>
  BY DEF ShapeInv, TypeInv, StartInv, ReadFtyp, Parsing
<1>2. UNCHANGED <<file, origin, mode, tags, repaired, written>>
  BY DEF ReadFtyp
<1>3. file # <<>> => 0 + BoxHead <= FileSz(file)
  <2>1. SUFFICES ASSUME file # <<>>
                 PROVE  0 + BoxHead <= FileSz(file)
    OBVIOUS
  <2>2. file[1] \in Cell /\ After(file[1]) <= FileSz(file) /\ FileSz(file) \in Nat
    BY <1>1, <2>1, Places
  <2>3. After(file[1]) \in Nat /\ After(file[1]) >= 8
    BY <2>2, CellFacts
  <2>. QED  BY <2>2, <2>3 DEF BoxHead
<1>4. CASE \E s \in Short(BoxHead) : EndsShort(s) /\ StartParse
  <2>1. PICK s \in Short(BoxHead) : EndsShort(s) /\ StartParse
    BY <1>4
  <2>2. pos' \in Nat /\ faults' \in Nat /\ faulty' \in BOOLEAN
    BY <1>1, <2>1, EndsShortFacts
  <2>3. mode = "rw" => file = <<>>
    <3>1. s.fault => mode = "stream"
      BY <2>1 DEF EndsShort
    <3>2. pos + BoxHead > FileSz(file) \/ s.fault
      BY DEF Short
    <3>3. 0 + BoxHead > FileSz(file) => file = <<>>
      <4>1. FileSz(file) \in Nat
        BY <1>1, Places
      <4>. QED  BY <1>3, <4>1 DEF BoxHead
    <3>. QED  BY <1>1, <3>1, <3>2, <3>3
  <2>. QED  BY <1>1, <1>2, <2>1, <2>2, <2>3, StartKeeps
<1>5. CASE /\ pos + BoxHead <= FileSz(file)
           /\ UNCHANGED <<faults, faulty>>
           /\ IF file[1].nm = "ftyp"
              THEN pos' = pos + BoxHead /\ pc' = "brands" /\ UNCHANGED <<h, stack>>
              ELSE Refuse("not_mp4")
  <2>1. file # <<>>
    BY <1>1, <1>5, Places DEF BoxHead
  <2>2. CASE file[1].nm = "ftyp"
    <3>1. pos' = 8 /\ pc' = "brands" /\ h' = h /\ stack' = stack
      BY <1>1, <1>5, <2>2 DEF BoxHead
    <3>2. TypeInv'
      BY <1>1, <1>2, <1>5, <3>1 DEF TypeInv, Parsing
    <3>3. StartInv'
      BY <1>1, <1>2, <2>1, <2>2, <3>1 DEF ShapeInv, StartInv, BoxHead
    <3>4. BaseInv'
      BY <1>2, <3>1 DEF ShapeInv, BaseInv
    <3>. QED  BY <3>2, <3>3, <3>4 DEF ShapeInv
  <2>3. CASE file[1].nm # "ftyp"
    <3>1. Refuse("not_mp4") /\ "not_mp4" \in Errors \ {"ok"}
      BY <1>5, <2>3 DEF Errors
    <3>2. pos' = pos /\ ~ StartParse
      BY <3>1 DEF Refuse, StartParse
    <3>. QED  BY <1>1, <1>2, <1>5, <3>1, <3>2, StartKeeps
  <2>. QED  BY <2>2, <2>3
<1>. QED
  BY <1>4, <1>5 DEF ReadFtyp

LEMMA ReadBrandsShape ==
  ASSUME ShapeInv, ReadBrands
  PROVE  ShapeInv'
<1> DEFINE len == Payload(file[1]) % SkipMod
<1>1. /\ TypeInv /\ IsFile(file) /\ pos \in Nat /\ faults \in Nat /\ faulty \in BOOLEAN
      /\ pc = "brands" /\ file # <<>> /\ file[1].nm = "ftyp"
  BY DEF ShapeInv, TypeInv, StartInv, ReadBrands
<1>2. UNCHANGED <<file, origin, mode, tags, repaired, written>>
  BY DEF ReadBrands
<1>3. len \in Nat
  <2>1. file[1] \in Cell
    BY <1>1, Places
  <2>2. Payload(file[1]) \in Int /\ SkipMod \in Nat \ {0}
    BY <2>1, ParserAssumption DEF Payload, Cell
  <2>. QED  BY <2>2
<1> HIDE DEF len
<1>4. CASE \E s \in Short(len) : EndsShort(s) /\ StartParse
  <2>1. PICK s \in Short(len) : EndsShort(s) /\ StartParse
    BY <1>4
  <2>2. pos' \in Nat /\ faults' \in Nat /\ faulty' \in BOOLEAN
    BY <1>1, <2>1, EndsShortFacts
  <2>. QED  BY <1>1, <1>2, <2>1, <2>2, StartKeeps
<1>5. CASE Fault /\ Refuse("out_of_memory")
  <2>1. pos' = pos /\ faults' \in Nat /\ faulty' \in BOOLEAN
    BY <1>1, <1>5 DEF Fault, Refuse
  <2>2. "out_of_memory" \in Errors \ {"ok"}
    BY DEF Errors
  <2>. QED  BY <1>1, <1>2, <1>5, <2>1, <2>2, StartKeeps
<1>6. CASE /\ pos + len <= FileSz(file)
           /\ UNCHANGED <<faults, faulty>>
           /\ IF len = 0 \/ 1 + file[1].id >= 3
              THEN pos' = pos + len /\ StartParse
              ELSE Refuse("not_mp4")
  <2>1. faults' \in Nat /\ faulty' \in BOOLEAN
    BY <1>1, <1>6
  <2>2. CASE pos' = pos + len /\ StartParse
    <3>1. pos' \in Nat
      BY <1>1, <1>3, <2>2
    <3>. QED  BY <1>1, <1>2, <2>1, <2>2, <3>1, StartKeeps
  <2>3. CASE Refuse("not_mp4")
    <3>1. "not_mp4" \in Errors \ {"ok"} /\ pos' = pos
      BY <2>3 DEF Errors, Refuse
    <3>. QED  BY <1>1, <1>2, <2>1, <2>3, <3>1, StartKeeps
  <2>. QED  BY <1>6, <2>2, <2>3
<1>. QED
  BY <1>4, <1>5, <1>6 DEF ReadBrands, len

\* The file is parsed again, changed.
LEMMA AgainKeeps ==
  ASSUME ShapeInv, NEW f, IsFile(f), f # <<>>, f[1].nm = "ftyp", NEW p \in Nat, Again(f, p),
         repaired' \in BOOLEAN, written' \in BOOLEAN, UNCHANGED <<mode, faults, faulty>>
  PROVE  ShapeInv'
<1>1. /\ file' = f /\ pos' = p /\ stack' = <<Call(0)>> /\ pc' = "header"
      /\ h' = NewHandle /\ tags' = <<>>
  BY DEF Again
<1>2. f[1] \in Cell /\ 1 \in DOMAIN f /\ f[1].at = 0
  BY Places
<1>3. pos' \in Nat
  BY <1>1
<1>4. StackOK(stack', pc') /\ Len(stack') = 1
  BY <1>1, CallZero
<1>5. tags' \in Seq(Nat) /\ h' \in Handle
  BY <1>1, NewHandleType
<1>6. TypeInv'
  BY <1>1, <1>3, <1>4, <1>5 DEF ShapeInv, TypeInv, StackOK, Parsing
<1>7. Blank(h') /\ \A l \in Levels : h'.base_offsets[l] = 0
  BY <1>1 DEF NewHandle, NoBases, Levels, Blank
<1>8. StartInv'
  BY <1>1, <1>4, <1>7 DEF StartInv
<1>9. BaseInv'
  <2>1. ASSUME NEW i \in DOMAIN f, f[i].at = 0
        PROVE  i = 1
    <3>1. After(f[1]) \in Nat /\ After(f[1]) >= 8
      BY <1>2, CellFacts
    <3>. QED  BY <1>2, <2>1, <3>1, OneCell
  <2>. QED  BY <1>1, <1>7, <2>1 DEF BaseInv
<1>. QED
  BY <1>6, <1>8, <1>9 DEF ShapeInv

\* Behind ftyp the file is parsed again.
LEMMA BehindFtypFacts ==
  ASSUME NEW f, IsFile(f), f # <<>>
  PROVE  /\ BehindFtyp(f) \in Nat /\ BehindFtyp(f) >= 8
         /\ f[1].head = 8 /\ Payload(f[1]) \in Nat /\ Payload(f[1]) < SkipMod
            /\ 8 + Payload(f[1]) <= FileSz(f) => BehindFtyp(f) = 8 + Payload(f[1])
<1> DEFINE x == Payload(f[1])
           y == x % SkipMod
<1>1. f[1] \in Cell /\ FileSz(f) \in Nat /\ After(f[1]) <= FileSz(f) /\ f[1].at = 0
  BY Places
<1>2. After(f[1]) \in Nat /\ After(f[1]) >= 8 /\ x \in Int
  BY <1>1, CellFacts
<1>3. SkipMod \in Nat \ {0}
  BY ParserAssumption
<1>4. BehindFtyp(f) = IF 8 + y > FileSz(f) THEN FileSz(f) ELSE 8 + y
  BY DEF BehindFtyp, BoxHead
<1> HIDE DEF x
<1>5. y \in Nat /\ (x \in Nat /\ x < SkipMod => y = x)
  BY <1>2, <1>3
<1> HIDE DEF y
<1>. QED
  BY <1>1, <1>2, <1>4, <1>5 DEF x

\* A file that is parsed again starts with ftyp.
LEMMA RepairFile ==
  ASSUME ShapeInv, Repair
  PROVE  LET f == UpdateParentLengths(file, h, h.parentidx, - h.ilst_remaining) IN
         /\ IsFile(f) /\ f # <<>> /\ f[1].nm = "ftyp" /\ file # <<>>
         /\ Again(f, BehindFtyp(file))
<1> DEFINE f == UpdateParentLengths(file, h, h.parentidx, - h.ilst_remaining)
<1>1. /\ TypeInv /\ StartInv /\ BaseInv /\ IsFile(file) /\ h \in Handle /\ mode = "rw"
      /\ pc = "done" /\ h.mp4error = "ok" /\ h.dofix
  BY DEF ShapeInv, TypeInv, Repair, canwrite
<1>2. file # <<>> /\ file[1].nm = "ftyp"
  BY <1>1 DEF StartInv, Blank
<1>3. /\ h.parentidx \in Int /\ 0 .. h.parentidx \subseteq Levels /\ - h.ilst_remaining \in Int
  <2>1. h.parentidx \in -1 .. LevelMax - 2 /\ h.ilst_remaining \in Int
    BY <1>1 DEF Handle
  <2>2. LevelMax \in Nat
    BY ParserAssumption
  <2>. QED  BY <2>1, <2>2 DEF Levels
<1>4. /\ IsFile(f) /\ Len(f) = Len(file)
      /\ \A i \in DOMAIN file : f[i].nm = file[i].nm
  BY <1>1, <1>3, ParentsFile
<1>5. Again(f, BehindFtyp(file))
  BY DEF Repair
<1> HIDE DEF f
<1>6. f # <<>> /\ f[1].nm = "ftyp"
  <2>1. 1 \in DOMAIN file /\ Len(file) \in Nat /\ Len(file) # 0
    BY <1>1, <1>2, Places
  <2>. QED  BY <1>2, <1>4, <2>1
<1>. QED
  BY <1>2, <1>4, <1>5, <1>6 DEF f

LEMMA WriteTagsFile ==
  ASSUME ShapeInv, WriteTags
  PROVE  \E new \in NewTags : LET f == Inserted(file, h, new) IN
           /\ IsFile(f) /\ f # <<>> /\ f[1].nm = "ftyp" /\ file # <<>>
           /\ Again(f, BehindFtyp(f))
<1>1. /\ TypeInv /\ StartInv /\ BaseInv /\ mode = "rw" /\ pc = "done" /\ h.mp4error = "ok"
      /\ h.noilst_offset # 0
  BY DEF ShapeInv, WriteTags, canwrite
<1>2. PICK new \in NewTags : Again(Inserted(file, h, new), BehindFtyp(Inserted(file, h, new)))
  BY ZenonT(60) DEF WriteTags
<1>3. file # <<>>
  BY <1>1 DEF StartInv, Blank
<1>4. LET f == Inserted(file, h, new) IN IsFile(f) /\ f # <<>> /\ f[1].nm = "ftyp"
  BY <1>1, <1>3, InsertedFile
<1>. QED
  BY <1>2, <1>3, <1>4

\* Either way: where it is parsed again is what comes behind ftyp.
LEMMA AgainFile ==
  ASSUME ShapeInv, Repair \/ WriteTags
  PROVE  \E f, p : /\ IsFile(f) /\ f # <<>> /\ f[1].nm = "ftyp" /\ p \in Nat /\ p >= 8
                   /\ Again(f, p)
<1>1. IsFile(file)
  BY DEF ShapeInv, TypeInv
<1>2. CASE Repair
  <2> DEFINE f == UpdateParentLengths(file, h, h.parentidx, - h.ilst_remaining)
  <2>1. /\ IsFile(f) /\ f # <<>> /\ f[1].nm = "ftyp" /\ file # <<>>
        /\ Again(f, BehindFtyp(file))
    BY <1>2, RepairFile
  <2> HIDE DEF f
  <2>2. BehindFtyp(file) \in Nat /\ BehindFtyp(file) >= 8
    BY <1>1, <2>1, BehindFtypFacts
  <2>. QED  BY <2>1, <2>2
<1>3. CASE WriteTags
  <2>1. PICK new \in NewTags : LET f == Inserted(file, h, new) IN
           IsFile(f) /\ f # <<>> /\ f[1].nm = "ftyp" /\ Again(f, BehindFtyp(f))
    BY <1>3, WriteTagsFile
  <2> DEFINE f == Inserted(file, h, new)
  <2>2. IsFile(f) /\ f # <<>> /\ f[1].nm = "ftyp" /\ Again(f, BehindFtyp(f))
    BY <2>1
  <2> HIDE DEF f
  <2>3. BehindFtyp(f) \in Nat /\ BehindFtyp(f) >= 8
    BY <2>2, BehindFtypFacts
  <2>. QED  BY <2>2, <2>3
<1>. QED
  BY <1>2, <1>3

LEMMA AgainShape ==
  ASSUME ShapeInv, Repair \/ WriteTags
  PROVE  ShapeInv'
<1>1. PICK f, p : IsFile(f) /\ f # <<>> /\ f[1].nm = "ftyp" /\ p \in Nat /\ Again(f, p)
  BY AgainFile
<1>2. repaired' \in BOOLEAN /\ written' \in BOOLEAN /\ UNCHANGED <<mode, faults, faulty>>
  BY DEF Repair, WriteTags, ShapeInv, TypeInv
<1>. QED
  BY <1>1, <1>2, AgainKeeps

LEMMA InitShape == Init => ShapeInv
<1> SUFFICES ASSUME Init
             PROVE  ShapeInv
  OBVIOUS
<1>1. PICK o \in Openings : file = o.file /\ mode = o.mode /\ faults = o.faults
  BY DEF Init
<1>2. IsFile(file) /\ mode \in Modes /\ faults \in Nat
  BY <1>1, ParserAssumption DEF Modes
<1>3. /\ pos = 0 /\ stack = <<>> /\ pc = "ftyp" /\ h = NewHandle /\ tags = <<>>
      /\ repaired = FALSE /\ written = FALSE /\ faulty = FALSE
  BY DEF Init
<1>4. TypeInv
  <2>1. stack \in Seq(Frame) /\ Len(stack) = 0 /\ tags \in Seq(Nat)
    BY <1>3
  <2>2. LevelMax \in Nat
    BY ParserAssumption
  <2>3. Len(stack) <= LevelMax /\ (stack = <<>> <=> ~ Parsing)
    BY <1>3, <2>1, <2>2 DEF Parsing
  <2>4. repaired \in BOOLEAN /\ written \in BOOLEAN /\ faulty \in BOOLEAN
    BY <1>3
  <2>5. pos \in Nat /\ h \in Handle /\ pc \in {"ftyp", "brands", "header", "body", "done"}
    BY <1>3, NewHandleType
  <2>. QED  BY <1>2, <2>1, <2>3, <2>4, <2>5 DEF TypeInv
<1>5. StartInv
  BY <1>3 DEF StartInv, NewHandle, Blank
<1>6. BaseInv
  <2>1. \A l \in Levels : h.base_offsets[l] = 0
    BY <1>3 DEF NewHandle, NoBases, Levels
  <2>2. ASSUME NEW i \in DOMAIN file, file[i].at = 0
        PROVE  i = 1
    <3>1. 1 \in DOMAIN file /\ file[1] \in Cell /\ file[1].at = 0
      <4>1. file # <<>>
        BY <2>2
      <4>. QED  BY <1>2, <4>1, Places
    <3>2. After(file[1]) \in Nat /\ After(file[1]) >= 8
      BY <3>1, CellFacts
    <3>. QED  BY <1>2, <2>2, <3>1, <3>2, OneCell
  <2>. QED  BY <2>1, <2>2 DEF BaseInv
<1>. QED
  BY <1>4, <1>5, <1>6 DEF ShapeInv

LEMMA NextShape == ShapeInv /\ [Next]_vars => ShapeInv'
<1> SUFFICES ASSUME ShapeInv, [Next]_vars
             PROVE  ShapeInv'
  OBVIOUS
<1>1. CASE ReadFtyp
  BY <1>1, ReadFtypShape
<1>2. CASE ReadBrands
  BY <1>2, ReadBrandsShape
<1>3. CASE ReadHeader
  BY <1>3, ReadHeaderShape
<1>4. CASE FinishBox
  BY <1>4, FinishBoxShape
<1>5. CASE Repair
  BY <1>5, AgainShape
<1>6. CASE WriteTags
  BY <1>6, AgainShape
<1>7. CASE UNCHANGED vars
  BY <1>7 DEF vars, ShapeInv, TypeInv, StartInv, BaseInv, Parsing
<1>. QED
  BY <1>1, <1>2, <1>3, <1>4, <1>5, <1>6, <1>7 DEF Next, ParseStep

\* For every file, stored lengths and bytes behind the list: no length of free
\* space is negative, the calls never get deeper than LevelMax, the level that
\* holds the tag list has one above it, and no more faults happen than may
\* (mp4tag_parse_file).
THEOREM TypeCorrect == Spec => []TypeOK
<1>1. ShapeInv => TypeOK
  <2> SUFFICES ASSUME ShapeInv
               PROVE  TypeOK
    OBVIOUS
  <2>1. TypeInv
    BY DEF ShapeInv
  <2>2. h.parentidx \in -1 .. LevelMax - 2 /\ h.taglist_len \in Nat
        /\ h.interior_free_len \in Nat /\ h.exterior_free_len \in Nat
    BY <2>1 DEF TypeInv, Handle
  <2>3. {h.taglist_len, h.interior_free_len, h.exterior_free_len} \subseteq Nat
    <3> DEFINE a == h.taglist_len
               b == h.interior_free_len
               c == h.exterior_free_len
    <3>1. a \in Nat /\ b \in Nat /\ c \in Nat
      BY <2>2
    <3> HIDE DEF a, b, c
    <3>2. {a, b, c} \subseteq Nat
      BY <3>1
    <3>. QED  BY <3>2 DEF a, b, c
  <2>4. {repaired, written, faulty} \subseteq BOOLEAN
    BY <2>1 DEF TypeInv
  <2>. QED  BY <2>1, <2>2, <2>3, <2>4 DEF TypeInv, TypeOK, Modes, Parsing
<1>. QED
  BY <1>1, InitShape, NextShape, PTL DEF Spec

-----------------------------------------------------------------------------
(* The inductive invariant: the tag list.                                  *)

\* The tag list has been met.
Past(f, p) == \E q \in DOMAIN f : f[q].nm = "ilst" /\ f[q].at < p
Met(tg, hh, s) ==
  \/ tg # <<>> \/ hh.processdata \/ hh.checkforfree
  \/ \E k \in DOMAIN s : s[k].box.nm = "ilst"

\* The parser is at the n-th cell, in the list q: behind it, or behind the header
\* of the next one, with the right number of bytes still to come.
AtCell(f, q, n, p, s, c) ==
  LET top == s[Len(s)] IN
  \/ /\ c = "header" /\ p = After(f[n])
     /\ top.rem = EndOf(f, f[q]) - p /\ top.rem > 0
  \/ /\ c = "body" /\ n + 1 \in DOMAIN f /\ top.box = f[n + 1]
     /\ p = f[n + 1].at + f[n + 1].head
     /\ top.rem = EndOf(f, f[q]) - f[n + 1].at /\ top.rem > 0

\* The data of the boxes is read: the call is the one for the list, and the tags
\* so far are those in front of it; or it has returned.
InList(f, p, s, c, tg) ==
  \E q \in DOMAIN f :
    /\ f[q].nm = "ilst"
    /\ \/ c = "body" /\ s[Len(s)].box = f[q]
       \/ /\ Len(s) >= 2 /\ s[Len(s) - 1].box = f[q] /\ s[Len(s)].boxlen # 0
          /\ \E n \in DOMAIN f : q <= n /\ tg = TagsUpTo(f, n) /\ AtCell(f, q, n, p, s, c)

ListInv ==
  PlainList(file) =>
    /\ \E m \in 0 .. Len(file) : tags = TagsUpTo(file, m)
    /\ Met(tags, h, stack) => Past(file, pos)
    /\ h.processdata => ~ h.checkforfree /\ InList(file, pos, stack, pc, tags)

-----------------------------------------------------------------------------
(* The tags up to a cell.                                                  *)

\* The recursion equation of TagsUpTo.
LEMMA TagsStep ==
  ASSUME NEW f \in Seq(Cell)
  PROVE  /\ TagsUpTo(f, 0) = <<>>
         /\ \A k \in 1 .. Len(f) :
              TagsUpTo(f, k) = IF f[k].nm = "tag" THEN Append(TagsUpTo(f, k - 1), f[k].id)
                               ELSE TagsUpTo(f, k - 1)
         /\ \A k \in 0 .. Len(f) : TagsUpTo(f, k) \in Seq(Nat)
<1> DEFINE n    == Len(f)
           step == [k \in 1 .. n |-> [s \in Seq(Nat) |->
                      IF f[k].nm = "tag" THEN Append(s, f[k].id) ELSE s]]
           T(v, k) == IF f[k].nm = "tag" THEN Append(v[k - 1], f[k].id) ELSE v[k - 1]
           Eq(v) == v = [k \in 0 .. n |-> IF k = 0 THEN <<>> ELSE T(v, k)]
           u    == CHOOSE v : Eq(v)
<1>1. n \in Nat /\ \A k \in 1 .. n : f[k].id \in Nat
  <2>1. \A k \in 1 .. n : f[k] \in Cell
    OBVIOUS
  <2>. QED  BY <2>1, SMTT(30) DEF Cell
<1>2. step \in [1 .. n -> [Seq(Nat) -> Seq(Nat)]]
  BY <1>1
<1>3. \A k \in 1 .. n, s \in Seq(Nat) :
        step[k][s] = IF f[k].nm = "tag" THEN Append(s, f[k].id) ELSE s
  OBVIOUS
<1> HIDE DEF step
<1>4. PICK g : Solves(g, n, Seq(Nat), <<>>, step)
  <2>1. <<>> \in Seq(Nat)
    OBVIOUS
  <2>2. IsRecursion(n, Seq(Nat), <<>>, step)
    BY <1>1, <1>2, <2>1 DEF IsRecursion
  <2> HIDE DEF n
  <2>. QED  BY <2>2, RecursionExists
<1>5. g \in [0 .. n -> Seq(Nat)] /\ g[0] = <<>> /\ \A k \in 1 .. n : g[k] = T(g, k)
  <2>1. /\ g \in [0 .. n -> Seq(Nat)] /\ g[0] = <<>>
        /\ \A k \in 1 .. n : g[k] = step[k][g[k - 1]]
    BY <1>4 DEF Solves
  <2>2. \A k \in 1 .. n : k - 1 \in 0 .. n
    BY <1>1
  <2>3. \A k \in 1 .. n : g[k - 1] \in Seq(Nat)
    BY <2>1, <2>2
  <2>. QED  BY <1>3, <2>1, <2>3
<1>6. Eq(g)
  <2> HIDE DEF T
  <2>1. \A k \in 0 .. n : k = 0 \/ k \in 1 .. n
    BY <1>1
  <2>. QED  BY <1>5, <2>1
<1>7. Eq(u)
  <2> HIDE DEF Eq
  <2>. QED  BY <1>6
<1>8. \A k \in 0 .. n : TagsUpTo(f, k) = u[k]
  BY DEF TagsUpTo
<1> HIDE DEF u
<1>9. u[0] = <<>> /\ \A k \in 1 .. n : u[k] = T(u, k)
  <2> HIDE DEF T
  <2>1. 0 \in 0 .. n /\ \A k \in 1 .. n : k \in 0 .. n /\ k # 0
    BY <1>1
  <2>. QED  BY <1>7, <2>1
<1> DEFINE P == {k \in Nat : k <= n => u[k] \in Seq(Nat)}
<1>10. 0 \in P
  <2>1. u[0] \in Seq(Nat)
    <3>1. <<>> \in Seq(Nat)
      OBVIOUS
    <3>. QED  BY <1>9, <3>1
  <2>. QED  BY <2>1
<1>11. ASSUME NEW k \in Nat, k < n, k \in P
       PROVE  k + 1 \in P
  <2>1. k + 1 \in 1 .. n /\ (k + 1) - 1 = k
    BY <1>1, <1>11
  <2>2. u[k] \in Seq(Nat) /\ f[k + 1].id \in Nat
    BY <1>1, <1>11, <2>1
  <2>3. u[k + 1] = IF f[k + 1].nm = "tag" THEN Append(u[k], f[k + 1].id) ELSE u[k]
    BY <1>9, <2>1
  <2>4. u[k + 1] \in Seq(Nat)
    BY <2>2, <2>3
  <2>. QED  BY <2>4
<1>12. \A k \in 0 .. n : k \in P
  <2> HIDE DEF P, n
  <2>. QED  BY <1>1, <1>10, <1>11, BoundedInduction
<1>13. \A k \in 0 .. n : u[k] \in Seq(Nat)
  BY <1>1, <1>12
<1>14. 0 \in 0 .. n /\ \A k \in 1 .. n : k \in 0 .. n /\ k - 1 \in 0 .. n
  BY <1>1
<1> HIDE DEF n
<1>15. TagsUpTo(f, 0) = <<>> /\ \A k \in 0 .. n : TagsUpTo(f, k) \in Seq(Nat)
  BY <1>8, <1>9, <1>13, <1>14
<1>16. \A k \in 1 .. n :
         TagsUpTo(f, k) = IF f[k].nm = "tag" THEN Append(TagsUpTo(f, k - 1), f[k].id)
                          ELSE TagsUpTo(f, k - 1)
  BY <1>8, <1>9, <1>14
<1>. QED
  BY <1>15, <1>16 DEF n

\* There are none while no cell is a tag.
LEMMA NoTagsBefore ==
  ASSUME NEW f \in Seq(Cell), NEW n \in 0 .. Len(f), \A k \in 1 .. n : f[k].nm # "tag"
  PROVE  TagsUpTo(f, n) = <<>>
<1> DEFINE P == {k \in Nat : k <= n => TagsUpTo(f, k) = <<>>}
<1>1. 0 \in P
  BY TagsStep
<1>2. ASSUME NEW k \in Nat, k < n, k \in P
      PROVE  k + 1 \in P
  <2>1. k + 1 \in 1 .. Len(f) /\ k + 1 \in 1 .. n /\ (k + 1) - 1 = k /\ k <= n
    BY <1>2
  <2>2. TagsUpTo(f, k + 1) = TagsUpTo(f, (k + 1) - 1)
    BY <2>1, TagsStep
  <2>. QED  BY <1>2, <2>1, <2>2
<1>3. n \in Nat
  OBVIOUS
<1>4. \A k \in 0 .. n : k \in P
  <2> HIDE DEF P
  <2>. QED  BY <1>1, <1>2, <1>3, BoundedInduction
<1>. QED
  BY <1>3, <1>4

LEMMA PrefixAppend ==
  ASSUME NEW s \in Seq(Nat), NEW t \in Seq(Nat), NEW x \in Nat
  PROVE  /\ IsPrefix(s, s)
         /\ IsPrefix(s, t) => IsPrefix(s, Append(t, x))
<1>1. Len(s) \in Nat /\ Len(t) \in Nat /\ Len(Append(t, x)) = Len(t) + 1
  OBVIOUS
<1>2. ASSUME Len(s) <= Len(t)
      PROVE  SubSeq(Append(t, x), 1, Len(s)) = SubSeq(t, 1, Len(s))
  BY <1>1, <1>2
<1>. QED
  BY <1>1, <1>2 DEF IsPrefix

\* They are the first of all tags.
LEMMA TagsPrefix ==
  ASSUME NEW f \in Seq(Cell), NEW m \in 0 .. Len(f)
  PROVE  IsPrefix(TagsUpTo(f, m), TagIds(f))
<1> DEFINE n    == Len(f)
           U(k) == TagsUpTo(f, k)
           P == {k \in Nat : m <= k /\ k <= n => IsPrefix(U(m), U(k))}
<1>1. n \in Nat /\ \A k \in 1 .. n : f[k].id \in Nat
  <2>1. \A k \in 1 .. n : f[k] \in Cell
    OBVIOUS
  <2>. QED  BY <2>1, SMTT(30) DEF Cell
<1>2. \A k \in 0 .. n : U(k) \in Seq(Nat)
  BY TagsStep
<1>3. ASSUME NEW k \in Nat, m = k
      PROVE  IsPrefix(U(m), U(k))
  <2>1. U(m) \in Seq(Nat)
    BY <1>2
  <2> HIDE DEF U
  <2>. QED  BY <1>3, <2>1, PrefixAppend
<1>4. 0 \in P
  BY <1>3
<1>5. ASSUME NEW k \in Nat, k < n, k \in P
      PROVE  k + 1 \in P
  <2>1. SUFFICES ASSUME m <= k + 1
                 PROVE  IsPrefix(U(m), U(k + 1))
    OBVIOUS
  <2>2. CASE m = k + 1
    BY <1>3, <2>2
  <2>3. CASE m <= k
    <3>1. k + 1 \in 1 .. n /\ (k + 1) - 1 = k /\ k \in 0 .. n
      BY <1>1, <1>5
    <3>2. U(k + 1) = IF f[k + 1].nm = "tag" THEN Append(U(k), f[k + 1].id) ELSE U(k)
      BY <3>1, TagsStep
    <3>3. U(m) \in Seq(Nat) /\ U(k) \in Seq(Nat) /\ f[k + 1].id \in Nat
      BY <1>1, <1>2, <3>1
    <3>4. IsPrefix(U(m), U(k))
      BY <1>5, <2>3
    <3> HIDE DEF U
    <3>. QED  BY <3>2, <3>3, <3>4, PrefixAppend
  <2>. QED  BY <2>1, <2>2, <2>3
<1>6. \A k \in 0 .. n : k \in P
  <2> HIDE DEF P, n
  <2>. QED  BY <1>1, <1>4, <1>5, BoundedInduction
<1>. QED
  BY <1>1, <1>6 DEF TagIds

-----------------------------------------------------------------------------
(* The steps of the descent, without the fields that do not direct it.     *)

\* The loop is left: the level above goes on behind its box.
Left == /\ stack' = Front(stack) /\ pc' = (IF Len(stack) = 1 THEN "done" ELSE "body")
        /\ h'.checkforfree = FALSE

\* Behind the header of b: the data of the boxes is read; free space is counted.
Reads(b)  == IF b.nm = "ilst" THEN Payload(b) # 0 ELSE h.processdata
Counts(b) == IF b.nm = "ilst" THEN h.checkforfree \/ (Payload(b) = 0 /\ canwrite)
             ELSE h.checkforfree

HeaderFails ==
  /\ Left
  /\ \/ faulty' = TRUE
     \/ /\ pos + BoxHead > FileSz(file)
        /\ pos' = (IF pos > FileSz(file) THEN pos ELSE FileSz(file))
  /\ h'.processdata = h.processdata /\ h'.mp4error = h.mp4error
  /\ h'.parsedone = (h.parsedone \/ h.checkforfree)

HeaderBreaks(b) ==
  /\ Left /\ h'.mp4error = h.mp4error
  /\ \/ /\ b.len = 0 /\ pos' = pos + BoxHead
        /\ h'.parsedone = TRUE /\ h'.processdata = h.processdata
     \/ /\ b.len # 0 /\ pos + b.head > FileSz(file) /\ h'.processdata = h.processdata
        /\ h'.parsedone = (h.parsedone \/ h.checkforfree)
     \/ /\ b.len # 0 /\ pos + b.head <= FileSz(file) /\ Counts(b) /\ b.nm # "free"
        /\ pos' = pos + b.head /\ h'.parsedone = TRUE /\ h'.processdata = Reads(b)

HeaderEnters(b) ==
  /\ b.len # 0 /\ pos + b.head <= FileSz(file) /\ ~ Counts(b) /\ Descends(b)
  /\ pos' = pos + b.head + Skip(b)
  /\ h'.processdata = Reads(b) /\ h'.checkforfree = FALSE /\ h'.parsedone = h.parsedone
  /\ h'.mp4error = "ok" => h.mp4error = "ok"
  /\ \/ stack' = At(b, 0) /\ pc' = "body" /\ (h.parsedone \/ h'.mp4error # "ok")
     \/ /\ stack' = Append(At(b, 0), Call((b.len - Skip(b)) % SkipMod)) /\ pc' = "header"
        /\ ~ h.parsedone /\ h'.mp4error = h.mp4error

\* The seek over the flags of meta fails.
HeaderMisses(b) ==
  /\ faulty' = TRUE
  /\ b.len # 0 /\ pos + b.head <= FileSz(file) /\ ~ Counts(b) /\ Descends(b) /\ b.nm = "meta"
  /\ pos' = pos + b.head
  /\ h'.processdata = h.processdata /\ h'.checkforfree = FALSE
  /\ h'.parsedone = h.parsedone /\ h'.mp4error # "ok"
  /\ \/ stack' = At(b, 0) /\ pc' = "body"
     \/ /\ stack' = Append(At(b, 0), Call((b.len - Skip(b)) % SkipMod)) /\ pc' = "header"
        /\ ~ h.parsedone

HeaderSkips(b) ==
  /\ b.len # 0 /\ pos + b.head <= FileSz(file)
  /\ (Counts(b) /\ b.nm = "free") \/ ~ (Counts(b) \/ Descends(b))
  /\ pos' = pos + b.head
  /\ stack' = At(b, Skip(b)) /\ pc' = "body"
  /\ h'.processdata = Reads(b) /\ h'.checkforfree = Counts(b)
  /\ h'.parsedone = h.parsedone /\ h'.mp4error = h.mp4error

LEMMA HeaderSteps ==
  ASSUME ShapeInv, ReadHeader
  PROVE  /\ file' = file /\ tags' = tags /\ pos' \in Nat /\ pos' >= pos
         /\ faulty' = faulty \/ faulty' = TRUE
         /\ \/ HeaderFails
            \/ \E b \in HeadersAt(file, pos) :
                 /\ pos + BoxHead <= FileSz(file) /\ pos' >= pos + BoxHead /\ faulty' = faulty
                 /\ HeaderBreaks(b) \/ HeaderEnters(b) \/ HeaderSkips(b)
            \/ \E b \in HeadersAt(file, pos) :
                 pos + BoxHead <= FileSz(file) /\ pos' >= pos + BoxHead /\ HeaderMisses(b)
<1> DEFINE Chosen(b) ==
             \/ /\ b.len = 0
                /\ pos' = pos + BoxHead
                /\ LeaveLoop([h EXCEPT !.parsedone = TRUE], pos + BoxHead)
                /\ UNCHANGED <<tags, faults, faulty>>
             \/ b.len # 0 /\ b.head # BoxHead /\ ReadFails(b.head, h)
             \/ /\ b.len # 0 /\ pos + b.head <= FileSz(file)
                /\ Examine(b, pos + b.head) /\ UNCHANGED tags
<1>1. TypeInv /\ IsFile(file) /\ pos \in Nat /\ h \in Handle /\ Parsing
  BY DEF ShapeInv, TypeInv, ReadHeader, Parsing
<1>2. file' = file
  BY DEF ReadHeader
<1>3. stack \in Seq(Frame) /\ stack # <<>>
  BY <1>1 DEF TypeInv
<1>4. FileSz(file) \in Nat
  BY <1>1, Places
<1>5. Level \in Levels
  <2>1. Len(stack) <= LevelMax /\ LevelMax \in Nat
    BY <1>1, ParserAssumption DEF TypeInv
  <2>. QED  BY <1>3, <2>1, StackFacts DEF Levels
<1>8. ASSUME NEW n, ReadFails(n, h)
      PROVE  /\ tags' = tags /\ pos' \in Nat /\ pos' >= pos
             /\ \/ faulty' = TRUE
                \/ /\ faulty' = faulty /\ pos + n > FileSz(file)
                   /\ pos' = (IF pos > FileSz(file) THEN pos ELSE FileSz(file))
             /\ Left /\ h'.mp4error = h.mp4error /\ h'.processdata = h.processdata
             /\ h'.parsedone = (h.parsedone \/ h.checkforfree)
  <2>1. PICK s \in Short(n) : EndsShort(s) /\ LeaveLoop(h, s.upto) /\ UNCHANGED tags
    BY <1>8 DEF ReadFails
  <2>2. pos' \in Nat /\ pos' >= pos
    BY <1>1, <2>1, EndsShortFacts
  <2>3. \/ faulty' = TRUE
        \/ /\ faulty' = faulty /\ pos + n > FileSz(file)
           /\ pos' = (IF pos > FileSz(file) THEN pos ELSE FileSz(file))
    <3>1. CASE s.fault
      BY <2>1, <3>1 DEF EndsShort, Fault
    <3>2. CASE ~ s.fault
      <4>1. faulty' = faulty /\ pos' = s.upto
        BY <2>1, <3>2 DEF EndsShort
      <4>2. /\ pos + n > FileSz(file)
            /\ s.upto = IF pos > FileSz(file) THEN pos ELSE FileSz(file)
        BY <3>2 DEF Short
      <4>. QED  BY <4>1, <4>2
    <3>. QED  BY <3>1, <3>2
  <2>4. /\ Left /\ h'.mp4error = h.mp4error /\ h'.processdata = h.processdata
        /\ h'.parsedone = (h.parsedone \/ h.checkforfree)
    BY <1>1, <2>1, LeaveFacts DEF Left
  <2>. QED  BY <2>1, <2>2, <2>3, <2>4
<1>6. CASE ReadFails(BoxHead, h)
  BY <1>2, <1>6, <1>8 DEF HeaderFails
<1>7. CASE /\ pos + BoxHead <= FileSz(file)
           /\ \E b \in HeadersAt(file, pos) : Chosen(b)
  <2>1. PICK b \in HeadersAt(file, pos) : Chosen(b)
    BY <1>7
  <2>2. pos + BoxHead <= FileSz(file)
    BY <1>7
  <2>3. b \in Header /\ b.head \in {8, 16} /\ b.at = pos
    BY <1>1, HeaderFacts
  <2> DEFINE Failed == HeaderFails /\ pos' \in Nat /\ pos' >= pos /\ tags' = tags /\ faulty' = TRUE
             Missed == pos' \in Nat /\ pos' >= pos + BoxHead /\ tags' = tags /\ HeaderMisses(b)
             Went   == /\ pos' \in Nat /\ pos' >= pos + BoxHead
                       /\ tags' = tags /\ faulty' = faulty
                       /\ HeaderBreaks(b) \/ HeaderEnters(b) \/ HeaderSkips(b)
  <2>4. SUFFICES Failed \/ Missed \/ Went
    <3>1. ASSUME pos' \in Nat, pos' >= pos + BoxHead
          PROVE  pos' >= pos
      BY <1>1, <3>1 DEF BoxHead
    <3>2. CASE Missed
      BY <1>2, <2>2, <3>1, <3>2 DEF HeaderMisses
    <3>3. CASE Went
      BY <1>2, <2>2, <3>1, <3>3
    <3>. QED  BY <1>2, <3>2, <3>3
  <2>5. CASE /\ b.len = 0
             /\ pos' = pos + BoxHead
             /\ LeaveLoop([h EXCEPT !.parsedone = TRUE], pos + BoxHead)
             /\ UNCHANGED <<tags, faults, faulty>>
    <3> DEFINE hh == [h EXCEPT !.parsedone = TRUE]
    <3>1. /\ hh \in Handle /\ hh.parsedone = TRUE /\ hh.mp4error = h.mp4error
          /\ hh.processdata = h.processdata
      BY <1>1 DEF Handle
    <3> HIDE DEF hh
    <3>2. /\ Left /\ h'.mp4error = h.mp4error /\ h'.processdata = h.processdata
          /\ h'.parsedone = (hh.parsedone \/ hh.checkforfree)
      BY <1>1, <2>5, <3>1, LeaveFacts DEF Left, hh
    <3>3. h'.parsedone = TRUE
      BY <3>1, <3>2
    <3>. QED  BY <1>1, <2>5, <3>2, <3>3 DEF HeaderBreaks, BoxHead
  <2>6. CASE b.len # 0 /\ b.head # BoxHead /\ ReadFails(b.head, h)
    <3>1. CASE faulty' = TRUE
      BY <1>8, <2>6, <3>1 DEF HeaderFails
    <3>2. CASE faulty' # TRUE
      <4>1. HeaderBreaks(b)
        BY <1>8, <2>6, <3>2 DEF HeaderBreaks
      <4>2. /\ pos' = (IF pos > FileSz(file) THEN pos ELSE FileSz(file))
            /\ pos' \in Nat /\ faulty' = faulty /\ tags' = tags
        BY <1>8, <2>6, <3>2
      <4>3. pos' >= pos + BoxHead
        BY <1>1, <1>4, <2>2, <4>2 DEF BoxHead
      <4>. QED  BY <4>1, <4>2, <4>3
    <3>. QED  BY <1>8, <2>6, <3>1, <3>2
  <2>7. CASE /\ b.len # 0 /\ pos + b.head <= FileSz(file)
             /\ Examine(b, pos + b.head) /\ UNCHANGED tags
    <3> DEFINE off    == pos + b.head
               noted  == Noted(h, b, off, Level)
               isfree == noted.checkforfree /\ b.nm = "free"
               seen   == IF isfree THEN CountFree(noted, b, Level) ELSE noted
    <3>1. /\ off \in Nat /\ off >= BoxHead /\ noted \in Handle
          /\ b.nm = "ilst" => Payload(b) \in Nat
          /\ b.nm = "free" => b.len \in Nat
      BY <1>1, <1>5, <2>7, ExamineTypes
    <3>2. /\ noted.parsedone = h.parsedone /\ noted.mp4error = h.mp4error
          /\ noted.processdata = Reads(b) /\ noted.checkforfree = Counts(b)
      BY <1>1, <1>5, <2>3, <3>1, NotedFacts DEF Reads, Counts
    <3>3. \/ /\ noted.checkforfree /\ ~ isfree
             /\ pos' = off /\ faulty' = faulty
             /\ LeaveLoop([WithDataLen(noted) EXCEPT !.checkforfree = FALSE,
                                                     !.parsedone = TRUE], off)
          \/ /\ ~ noted.checkforfree /\ Descends(b)
             /\ pos' = off + Skip(b) /\ faulty' = faulty
             /\ Enter(WithBase(seen, b, off, Level), b, Skip(b))
          \/ /\ ~ noted.checkforfree /\ Descends(b)
             /\ pos' = off /\ Skip(b) > 0 /\ faulty' = TRUE
             /\ Enter([WithBase(seen, b, off, Level) EXCEPT !.mp4error = "seek"], b, Skip(b))
          \/ /\ isfree \/ ~ (noted.checkforfree \/ Descends(b))
             /\ pos' = off /\ faulty' = faulty
             /\ h' = seen /\ stack' = At(b, Skip(b)) /\ pc' = "body"
      BY <2>7 DEF Examine, Fault
    <3>4. off >= pos + BoxHead
      BY <1>1, <2>3 DEF BoxHead
    <3> HIDE DEF noted, off
    <3>5. seen \in Handle /\ Same(seen, noted)
      BY <2>3, <3>1, CountFreeFacts DEF Same
    <3>6. Skip(b) \in Nat
      BY <2>3, SkipFacts
    <3>7. CASE /\ noted.checkforfree /\ ~ isfree
               /\ pos' = off /\ faulty' = faulty
               /\ LeaveLoop([WithDataLen(noted) EXCEPT !.checkforfree = FALSE,
                                                       !.parsedone = TRUE], off)
      <4> DEFINE w  == WithDataLen(noted)
                 hh == [w EXCEPT !.checkforfree = FALSE, !.parsedone = TRUE]
      <4>1. w \in Handle /\ Same(w, noted)
        BY <3>1, WithDataLenFacts
      <4> HIDE DEF w
      <4>2. /\ hh \in Handle /\ hh.parsedone = TRUE /\ hh.mp4error = w.mp4error
            /\ hh.processdata = w.processdata
        BY <4>1 DEF Handle
      <4>3. LeaveLoop(hh, off)
        BY <3>7 DEF w
      <4> HIDE DEF hh
      <4>4. /\ Left /\ h'.mp4error = hh.mp4error /\ h'.processdata = hh.processdata
            /\ h'.parsedone = (hh.parsedone \/ hh.checkforfree)
        BY <1>1, <4>2, <4>3, LeaveFacts DEF Left
      <4>5. h'.parsedone = TRUE
        BY <4>2, <4>4
      <4>6. h'.mp4error = h.mp4error /\ h'.processdata = Reads(b) /\ Counts(b)
        BY <3>2, <3>7, <4>1, <4>2, <4>4 DEF Same
      <4>7. b.nm # "free" /\ pos' = pos + b.head
        BY <3>7 DEF off
      <4>8. HeaderBreaks(b)
        BY <2>7, <4>4, <4>5, <4>6, <4>7 DEF HeaderBreaks
      <4>. QED  BY <2>7, <3>1, <3>4, <3>7, <4>8
    <3> DEFINE based == WithBase(seen, b, off, Level)
    <3>12. /\ based \in Handle /\ based.parsedone = h.parsedone /\ based.mp4error = h.mp4error
           /\ based.processdata = Reads(b) /\ based.checkforfree = Counts(b)
      <4> HIDE DEF seen
      <4>1. /\ based \in Handle /\ based.parsedone = seen.parsedone
            /\ based.mp4error = seen.mp4error
            /\ based.processdata = seen.processdata /\ based.checkforfree = seen.checkforfree
        BY <1>5, <2>3, <3>1, <3>5, WithBaseFacts
      <4>. QED  BY <3>2, <3>5, <4>1 DEF Same
    <3> HIDE DEF based
    <3>13. ASSUME ~ noted.checkforfree, NEW w \in Handle, Enter(w, b, Skip(b)),
                  w.parsedone = h.parsedone, w.processdata = Reads(b),
                  w.checkforfree = Counts(b)
           PROVE  /\ h'.processdata = Reads(b) /\ h'.checkforfree = FALSE
                  /\ h'.parsedone = h.parsedone
                  /\ h'.mp4error = "ok" => w.mp4error = "ok"
                  /\ \/ /\ stack' = At(b, 0) /\ pc' = "body"
                        /\ h.parsedone \/ h'.mp4error # "ok"
                     \/ /\ stack' = Append(At(b, 0), Call((b.len - Skip(b)) % SkipMod))
                        /\ pc' = "header"
                        /\ ~ h.parsedone /\ h' = w
                  /\ ~ Counts(b)
      <4>1. /\ h'.processdata = w.processdata /\ h'.checkforfree = w.checkforfree
            /\ h'.parsedone = w.parsedone
            /\ h'.mp4error = "ok" => w.mp4error = "ok"
            /\ \/ /\ stack' = At(b, 0) /\ pc' = "body"
                  /\ w.parsedone \/ h'.mp4error # "ok"
               \/ /\ stack' = Append(At(b, 0), Call((b.len - Skip(b)) % SkipMod)) /\ pc' = "header"
                  /\ ~ w.parsedone /\ h' = w
        BY <1>1, <2>3, <3>6, <3>13, EnterFacts
      <4>2. ~ Counts(b) /\ w.checkforfree = FALSE
        <5>1. w.checkforfree \in BOOLEAN
          BY <3>13 DEF Handle
        <5>. QED  BY <3>2, <3>13, <5>1
      <4>. QED  BY <3>13, <4>1, <4>2
    <3>8. CASE /\ ~ noted.checkforfree /\ Descends(b)
               /\ pos' = off + Skip(b) /\ faulty' = faulty
               /\ Enter(based, b, Skip(b))
      <4>1. pos' = pos + b.head + Skip(b)
        BY <3>8 DEF off
      <4>2. HeaderEnters(b)
        BY <2>7, <3>8, <3>12, <3>13, <4>1 DEF HeaderEnters
      <4>3. pos' \in Nat /\ pos' >= pos + BoxHead
        BY <1>1, <3>1, <3>4, <3>6, <3>8 DEF BoxHead
      <4>. QED  BY <2>7, <3>8, <4>2, <4>3
    <3>14. CASE /\ ~ noted.checkforfree /\ Descends(b)
                /\ pos' = off /\ Skip(b) > 0 /\ faulty' = TRUE
                /\ Enter([based EXCEPT !.mp4error = "seek"], b, Skip(b))
      <4> DEFINE w == [based EXCEPT !.mp4error = "seek"]
      <4>1. /\ w \in Handle /\ w.mp4error # "ok"
            /\ w.parsedone = h.parsedone /\ w.processdata = Reads(b)
            /\ w.checkforfree = Counts(b)
        BY <3>12 DEF Handle, Errors
      <4>2. Enter(w, b, Skip(b))
        BY <3>14
      <4> HIDE DEF w
      <4>3. b.nm = "meta"
        <5>1. Payload(b) # 0 /\ b.nm \in Containers \cup {"meta"}
          BY <3>14 DEF Descends
        <5>2. b.nm \in Containers => Skip(b) = 0
          BY DEF Skip, Containers
        <5>. QED  BY <3>14, <5>1, <5>2
      <4>4. Reads(b) = h.processdata /\ pos' = pos + b.head
        BY <3>14, <4>3 DEF Reads, off
      <4>5. HeaderMisses(b)
        BY <2>7, <3>13, <3>14, <4>1, <4>2, <4>3, <4>4 DEF HeaderMisses
      <4>. QED  BY <2>7, <3>1, <3>4, <3>14, <4>5
    <3>9. CASE /\ isfree \/ ~ (noted.checkforfree \/ Descends(b))
               /\ pos' = off /\ faulty' = faulty
               /\ h' = seen /\ stack' = At(b, Skip(b)) /\ pc' = "body"
      <4>1. /\ h'.processdata = Reads(b) /\ h'.checkforfree = Counts(b)
            /\ h'.parsedone = h.parsedone /\ h'.mp4error = h.mp4error
        <5> HIDE DEF seen
        <5>. QED  BY <3>2, <3>5, <3>9 DEF Same
      <4>2. (Counts(b) /\ b.nm = "free") \/ ~ (Counts(b) \/ Descends(b))
        BY <3>2, <3>9
      <4>3. HeaderSkips(b)
        BY <2>7, <3>9, <4>1, <4>2 DEF HeaderSkips, off
      <4>. QED  BY <2>7, <3>1, <3>4, <3>9, <4>3
    <3>. QED  BY <3>3, <3>7, <3>8, <3>9, <3>14 DEF based
  <2>. QED  BY <2>1, <2>5, <2>6, <2>7
<1>. QED
  BY <1>6, <1>7 DEF ReadHeader

\* Behind the content of b.
StillReads(b)  == b.nm # "ilst" /\ h.processdata
StillCounts(b) == IF b.nm = "ilst" THEN h.checkforfree \/ canwrite ELSE h.checkforfree

\* The box is accounted for: the call returns, or it goes on with the next header.
Accounted(b) ==
  /\ h'.checkforfree = StillCounts(b) /\ h'.parsedone = h.parsedone
  /\ h'.mp4error = h.mp4error /\ faulty' = faulty
  /\ \/ /\ stack' = Front(stack) /\ pc' = (IF Len(stack) = 1 THEN "done" ELSE "body")
        /\ Top.rem - b.len <= 0 /\ Top.boxlen # 0
     \/ /\ pc' = "header" /\ Len(stack') = Len(stack)
        /\ \A k \in 1 .. Len(stack) - 1 : stack'[k] = stack[k]
        /\ stack'[Len(stack)] = [Top EXCEPT !.rem = Top.rem - b.len]
        /\ Top.rem - b.len > 0 \/ Top.boxlen = 0

\* Its data is read, or skipped.
BodyReads(b) ==
  /\ b.nm = "mdhd" \/ StillReads(b)
  /\ Payload(b) >= 0 /\ pos + Payload(b) <= FileSz(file) /\ pos' = pos + Payload(b)
  /\ tags' = (IF StillReads(b) /\ Payload(b) # 0 /\ b.nm # "free"
              THEN Append(tags, b.id) ELSE tags)
  /\ Accounted(b)

BodySkips(b) ==
  /\ ~ (b.nm = "mdhd" \/ StillReads(b)) /\ pos' = pos + Top.skip /\ tags' = tags
  /\ Accounted(b)

\* It cannot be: the file or the stream ends, memory is short, or the seek fails.
BodyFails(b) ==
  /\ tags' = tags
  /\ \/ /\ b.nm = "mdhd" \/ StillReads(b)
        /\ Payload(b) >= 0 /\ (faulty' \/ pos + Payload(b) > FileSz(file))
        /\ Left /\ h'.mp4error = h.mp4error
        /\ h'.parsedone = (h.parsedone \/ StillCounts(b))
     \/ /\ b.nm = "mdhd" \/ StillReads(b)
        /\ Payload(b) < 0 \/ faulty'
        /\ h'.mp4error # "ok" /\ pos' = pos
        /\ stack' = Front(stack) /\ pc' = (IF Len(stack) = 1 THEN "done" ELSE "body")
        /\ h'.checkforfree = StillCounts(b) /\ h'.parsedone = h.parsedone
     \/ /\ ~ (b.nm = "mdhd" \/ StillReads(b)) /\ faulty' /\ pos' = pos
        /\ Left /\ h'.mp4error # "ok" /\ h'.parsedone = (h.parsedone \/ StillCounts(b))

LEMMA BodySteps ==
  ASSUME ShapeInv, FinishBox
  PROVE  /\ file' = file /\ pos' \in Nat /\ pos' >= pos
         /\ faulty' = faulty \/ faulty' = TRUE
         /\ h'.processdata = StillReads(Top.box)
         /\ BodyReads(Top.box) \/ BodySkips(Top.box) \/ BodyFails(Top.box)
<1> DEFINE b  == Top.box
           hh == Behind(h, b)
<1>1. TypeInv /\ pos \in Nat /\ h \in Handle /\ Parsing /\ pc = "body"
  BY DEF ShapeInv, TypeInv, FinishBox, Parsing
<1>2. file' = file
  BY DEF FinishBox
<1>0. faulty' = faulty \/ faulty' = TRUE
  <2>1. \A n, hh2 : ReadFails(n, hh2) => faulty' = faulty \/ faulty' = TRUE
    BY DEF ReadFails, EndsShort, Fault
  <2>. QED  BY <2>1 DEF FinishBox, ReadData, SkipData, Fault
<1>3. stack \in Seq(Frame) /\ stack # <<>>
  BY <1>1 DEF TypeInv
<1>4. b \in Header /\ Top.skip \in Nat
  <2>1. Top \in Frame
    BY <1>3, StackFacts
  <2>. QED  BY <2>1 DEF Frame
<1>5. Payload(b) \in Int
  BY <1>4 DEF Header, Payload
<1>6. IF b.nm = "mdhd" \/ hh.processdata THEN ReadData(hh, b) ELSE SkipData(hh, b)
  BY DEF FinishBox
<1> HIDE DEF b
<1>7. /\ hh \in Handle /\ hh.parsedone = h.parsedone /\ hh.mp4error = h.mp4error
      /\ hh.processdata = StillReads(b) /\ hh.checkforfree = StillCounts(b)
  <2>1. /\ hh \in Handle /\ hh.parsedone = h.parsedone /\ hh.mp4error = h.mp4error
        /\ b.nm # "ilst" => hh.processdata = h.processdata /\ hh.checkforfree = h.checkforfree
        /\ b.nm = "ilst" => hh.processdata = FALSE
                            /\ hh.checkforfree = (h.checkforfree \/ canwrite)
    BY <1>1, <1>4, BehindFacts
  <2>2. h.processdata \in BOOLEAN /\ h.checkforfree \in BOOLEAN
    BY <1>1 DEF Handle
  <2> HIDE DEF hh
  <2>3. CASE b.nm = "ilst"
    BY <2>1, <2>3 DEF StillReads, StillCounts
  <2>4. CASE b.nm # "ilst"
    BY <2>1, <2>2, <2>4 DEF StillReads, StillCounts
  <2>. QED  BY <2>3, <2>4
<1> HIDE DEF hh
<1>8. ASSUME Account(hh, b), UNCHANGED <<faults, faulty>>
      PROVE  Accounted(b) /\ h'.processdata = StillReads(b)
  <2>1. /\ h' \in Handle /\ Same(h', hh)
        /\ \/ /\ stack' = Front(stack) /\ pc' = (IF Len(stack) = 1 THEN "done" ELSE "body")
              /\ Top.rem - b.len <= 0 /\ Top.boxlen # 0
           \/ /\ pc' = "header" /\ Len(stack') = Len(stack)
              /\ \A k \in 1 .. Len(stack) - 1 : stack'[k] = stack[k]
              /\ stack'[Len(stack)] = [Top EXCEPT !.rem = Top.rem - b.len]
              /\ Top.rem - b.len > 0 \/ Top.boxlen = 0
    BY <1>1, <1>4, <1>7, <1>8, AccountFacts
  <2>2. /\ h'.checkforfree = StillCounts(b) /\ h'.parsedone = h.parsedone
        /\ h'.mp4error = h.mp4error /\ h'.processdata = StillReads(b)
    BY <1>7, <2>1 DEF Same
  <2>. QED  BY <1>8, <2>1, <2>2 DEF Accounted
<1>9. CASE b.nm = "mdhd" \/ hh.processdata
  <2>1. b.nm = "mdhd" \/ StillReads(b)
    BY <1>7, <1>9
  <2>2. ReadData(hh, b)
    BY <1>6, <1>9
  <2>3. CASE Payload(b) >= 0 /\ ReadFails(Payload(b), hh)
    <3> DEFINE n == Payload(b)
    <3>1. PICK s \in Short(n) : EndsShort(s) /\ LeaveLoop(hh, s.upto) /\ UNCHANGED tags
      BY <2>3 DEF ReadFails
    <3>2. pos' \in Nat /\ pos' >= pos
      BY <1>1, <3>1, EndsShortFacts
    <3>3. faulty' \/ pos + n > FileSz(file)
      BY <3>1 DEF Short, EndsShort, Fault
    <3>4. /\ Left /\ h'.mp4error = hh.mp4error /\ h'.processdata = hh.processdata
          /\ h'.parsedone = (hh.parsedone \/ hh.checkforfree)
      BY <1>1, <1>7, <3>1, LeaveFacts DEF Left
    <3>5. BodyFails(b)
      BY <1>7, <2>1, <2>3, <3>1, <3>3, <3>4 DEF BodyFails
    <3>. QED  BY <1>0, <1>2, <1>7, <3>2, <3>4, <3>5 DEF b
  <2>4. CASE /\ Payload(b) >= 0 /\ pos + Payload(b) <= FileSz(file)
             /\ pos' = pos + Payload(b)
             /\ tags' = IF hh.processdata /\ Payload(b) # 0 /\ b.nm # "free"
                        THEN Append(tags, b.id) ELSE tags
             /\ Account(hh, b)
             /\ UNCHANGED <<faults, faulty>>
    <3>1. pos' \in Nat /\ pos' >= pos
      BY <1>1, <1>5, <2>4
    <3>2. BodyReads(b)
      BY <1>7, <1>8, <2>1, <2>4 DEF BodyReads
    <3>. QED  BY <1>0, <1>2, <1>8, <2>4, <3>1, <3>2 DEF b
  <2>5. CASE /\ Payload(b) # 0
             /\ IF Payload(b) < 0 THEN UNCHANGED <<faults, faulty>> ELSE Fault
             /\ Return([hh EXCEPT !.mp4error = "out_of_memory"])
             /\ UNCHANGED <<pos, tags>>
    <3> DEFINE n == [hh EXCEPT !.mp4error = "out_of_memory"]
    <3>1. /\ n \in Handle /\ n.mp4error # "ok" /\ n.parsedone = hh.parsedone
          /\ n.checkforfree = hh.checkforfree /\ n.processdata = hh.processdata
      BY <1>7 DEF Handle, Errors
    <3>2. Return(n)
      BY <2>5
    <3> HIDE DEF n
    <3>3. h' = n /\ stack' = Front(stack) /\ pc' = (IF Len(stack) = 1 THEN "done" ELSE "body")
      BY <1>1, <3>1, <3>2, ReturnFacts
    <3>4. Payload(b) < 0 \/ faulty'
      BY <2>5 DEF Fault
    <3>5. BodyFails(b)
      BY <1>7, <2>1, <2>5, <3>1, <3>3, <3>4 DEF BodyFails
    <3>. QED  BY <1>0, <1>1, <1>2, <1>7, <2>5, <3>1, <3>3, <3>5 DEF b
  <2>. QED  BY <2>2, <2>3, <2>4, <2>5 DEF ReadData
<1>10. CASE ~ (b.nm = "mdhd" \/ hh.processdata)
  <2>1. ~ (b.nm = "mdhd" \/ StillReads(b))
    BY <1>7, <1>10
  <2>2. SkipData(hh, b)
    BY <1>6, <1>10
  <2>3. CASE pos' = pos + Top.skip /\ Account(hh, b) /\ UNCHANGED <<tags, faults, faulty>>
    <3>1. pos' \in Nat /\ pos' >= pos
      BY <1>1, <1>4, <2>3
    <3>2. BodySkips(b)
      BY <1>8, <2>1, <2>3 DEF BodySkips
    <3>. QED  BY <1>0, <1>2, <1>8, <2>3, <3>1, <3>2 DEF b
  <2>4. CASE /\ Fault
             /\ LeaveLoop([hh EXCEPT !.mp4error = "seek"], pos)
             /\ UNCHANGED <<pos, tags>>
    <3> DEFINE n == [hh EXCEPT !.mp4error = "seek"]
    <3>1. /\ n \in Handle /\ n.mp4error # "ok" /\ n.parsedone = hh.parsedone
          /\ n.checkforfree = hh.checkforfree /\ n.processdata = hh.processdata
      BY <1>7 DEF Handle, Errors
    <3>2. LeaveLoop(n, pos)
      BY <2>4
    <3> HIDE DEF n
    <3>3. /\ Left /\ h'.mp4error = n.mp4error /\ h'.processdata = n.processdata
          /\ h'.parsedone = (n.parsedone \/ n.checkforfree)
      BY <1>1, <3>1, <3>2, LeaveFacts DEF Left
    <3>4. BodyFails(b)
      BY <1>7, <2>1, <2>4, <3>1, <3>3 DEF BodyFails, Fault
    <3>. QED  BY <1>0, <1>1, <1>2, <1>7, <2>4, <3>1, <3>3, <3>4 DEF b
  <2>. QED  BY <2>2, <2>3, <2>4 DEF SkipData
<1>. QED
  BY <1>9, <1>10

-----------------------------------------------------------------------------
(* The tag list is read in order.                                          *)

\* What PlainList says of the one list of a file.
LEMMA PlainFacts ==
  ASSUME NEW f, IsFile(f), PlainList(f), NEW q \in DOMAIN f, f[q].nm = "ilst"
  PROVE  /\ \A i \in DOMAIN f : f[i].nm = "ilst" => i = q
         /\ Payload(f[q]) > 0 => f[q].head = 8 /\ f[q].len < SkipMod
         /\ EndOf(f, f[q]) \in Int /\ EndOf(f, f[q]) <= FileSz(f)
         /\ \A j \in DOMAIN f : f[q].at < f[j].at /\ f[j].at < EndOf(f, f[q])
              => f[j].nm \in {"tag", "free"} /\ f[j].len = Size(f[j])
         /\ \A j \in DOMAIN f : f[j].nm = "tag" =>
              /\ f[j].body > 0 /\ q < j
              /\ f[q].at < f[j].at /\ f[j].at < EndOf(f, f[q])
<1> DEFINE ilsts == {i \in DOMAIN f : f[i].nm = "ilst"}
<1>1. /\ \A i, j \in ilsts : i = j
      /\ \A i \in ilsts :
           /\ Payload(f[i]) > 0 => f[i].head = BoxHead /\ f[i].len < SkipMod
           /\ EndOf(f, f[i]) \in Starts(f) \cup {FileSz(f)}
           /\ \A j \in DOMAIN f : i \in Enclosing(f, j) =>
                f[j].nm \in {"tag", "free"} /\ f[j].len = Size(f[j])
      /\ \A j \in DOMAIN f :
           f[j].nm = "tag" => f[j].body > 0 /\ \E i \in ilsts : i \in Enclosing(f, j)
  BY DEF PlainList
<1>2. q \in ilsts
  OBVIOUS
<1>3. \A i \in DOMAIN f : f[i].nm = "ilst" => i = q
  BY <1>1, <1>2
<1>4. EndOf(f, f[q]) \in Int /\ EndOf(f, f[q]) <= FileSz(f)
  <2>1. FileSz(f) \in Nat
    BY Places
  <2>2. CASE EndOf(f, f[q]) = FileSz(f)
    BY <2>1, <2>2
  <2>3. CASE EndOf(f, f[q]) \in Starts(f)
    <3>1. PICK i \in DOMAIN f : EndOf(f, f[q]) = f[i].at
      BY <2>3 DEF Starts
    <3>2. f[i] \in Cell /\ After(f[i]) <= FileSz(f)
      BY Places
    <3>3. f[i].at \in Nat /\ f[i].at <= After(f[i]) /\ After(f[i]) \in Nat
      BY <3>2, CellFacts
    <3>. QED  BY <2>1, <3>1, <3>2, <3>3
  <2>. QED  BY <1>1, <1>2, <2>2, <2>3
<1>5. ASSUME NEW j \in DOMAIN f, f[q].at < f[j].at, f[j].at < EndOf(f, f[q])
      PROVE  f[j].nm \in {"tag", "free"} /\ f[j].len = Size(f[j])
  <2>1. q \in Enclosing(f, j)
    BY <1>5 DEF Enclosing
  <2>. QED  BY <1>1, <1>2, <2>1
<1>6. ASSUME NEW j \in DOMAIN f, f[j].nm = "tag"
      PROVE  f[j].body > 0 /\ q < j /\ f[q].at < f[j].at /\ f[j].at < EndOf(f, f[q])
  <2>1. q \in Enclosing(f, j) /\ f[j].body > 0
    BY <1>1, <1>2, <1>6
  <2>2. f[q].at < f[j].at /\ f[j].at < EndOf(f, f[q])
    BY <2>1 DEF Enclosing
  <2>3. q \in Nat /\ j \in Nat /\ f[q] \in Cell /\ f[j] \in Cell
        /\ (j < q => After(f[j]) <= f[q].at)
    BY Places
  <2>4. f[j].at < After(f[j]) /\ f[j].at \in Nat /\ f[q].at \in Nat /\ After(f[j]) \in Nat
    BY <2>3, CellFacts
  <2>5. j # q
    BY <1>6
  <2>. QED  BY <2>1, <2>2, <2>3, <2>4, <2>5
<1>. QED
  BY <1>1, <1>2, <1>3, <1>4, <1>5, <1>6 DEF BoxHead

\* Behind a cell within the list another one follows, a tag or free space.
LEMMA NextInList ==
  ASSUME NEW f, IsFile(f), PlainList(f), NEW q \in DOMAIN f, f[q].nm = "ilst",
         NEW n \in DOMAIN f, q <= n, After(f[n]) < EndOf(f, f[q])
  PROVE  /\ n + 1 \in DOMAIN f /\ f[n + 1].at = After(f[n])
         /\ f[n + 1].nm \in {"tag", "free"} /\ f[n + 1].len = Size(f[n + 1])
         /\ f[n + 1].nm = "tag" => f[n + 1].body > 0
<1>1. Len(f) \in Nat /\ DOMAIN f = 1 .. Len(f) /\ f # <<>> /\ FileSz(f) = After(f[Len(f)])
  BY Places
<1>2. /\ EndOf(f, f[q]) \in Int /\ EndOf(f, f[q]) <= FileSz(f)
      /\ \A j \in DOMAIN f : f[q].at < f[j].at /\ f[j].at < EndOf(f, f[q])
           => f[j].nm \in {"tag", "free"} /\ f[j].len = Size(f[j])
      /\ \A j \in DOMAIN f : f[j].nm = "tag" => f[j].body > 0
  BY PlainFacts
<1>3. f[n] \in Cell /\ f[q] \in Cell
  BY Places
<1>4. After(f[n]) \in Nat /\ f[n].at < After(f[n]) /\ f[q].at \in Nat /\ f[n].at \in Nat
      /\ f[q].at < After(f[q]) /\ After(f[q]) \in Nat
  BY <1>3, CellFacts
<1>5. n # Len(f)
  BY <1>1, <1>2, <1>4
<1>6. n + 1 \in DOMAIN f
  BY <1>1, <1>5
<1>7. f[n + 1].at = After(f[n])
  BY <1>6, Places
<1>8. f[q].at < After(f[n])
  <2>1. q < n => After(f[q]) <= f[n].at
    BY Places
  <2>2. q \in Nat /\ n \in Nat
    BY <1>1
  <2>. QED  BY <1>4, <2>1, <2>2
<1>. QED
  BY <1>2, <1>6, <1>7, <1>8

\* The header that is read where a cell starts is its own.
LEMMA HeaderOf ==
  ASSUME NEW f, IsFile(f), NEW i \in DOMAIN f, NEW b \in HeadersAt(f, f[i].at)
  PROVE  b = f[i]
<1>1. f[i] \in Cell
  BY Places
<1>2. f[i].at \in Nat /\ f[i].at < After(f[i])
  BY <1>1, CellFacts
<1>3. f[i].at \in Starts(f)
  BY DEF Starts
<1>4. PICK j \in DOMAIN f : b = f[j] /\ f[j].at = f[i].at
  BY <1>2, <1>3, HeaderFacts
<1>5. j = i
  BY <1>2, <1>4, OneCell
<1>. QED
  BY <1>4, <1>5

LEMMA PastStays ==
  ASSUME NEW f, IsFile(f), NEW p \in Nat, NEW r \in Nat, p <= r, Past(f, p)
  PROVE  Past(f, r)
<1>1. PICK q \in DOMAIN f : f[q].nm = "ilst" /\ f[q].at < p
  BY DEF Past
<1>2. f[q].at \in Nat
  BY Places, CellFacts
<1>. QED
  BY <1>1, <1>2 DEF Past

\* The calls keep their boxes, but for the one whose header was read.
LEMMA FramesKept ==
  ASSUME stack \in Seq(Frame), stack # <<>>, NEW b \in Header
  PROVE  /\ stack' = Front(stack) =>
              \A k \in DOMAIN stack' : k \in DOMAIN stack /\ stack'[k] = stack[k]
         /\ \A skip \in Nat : stack' = At(b, skip) =>
              \A k \in DOMAIN stack' : \/ k \in DOMAIN stack /\ stack'[k] = stack[k]
                                       \/ stack'[k].box = b
         /\ \A n \in Int : stack' = Append(At(b, 0), Call(n)) =>
              \A k \in DOMAIN stack' : \/ k \in DOMAIN stack /\ stack'[k] = stack[k]
                                       \/ stack'[k].box = b
                                       \/ stack'[k].box.nm = "none"
<1>1. Len(stack) \in Nat /\ Len(stack) >= 1 /\ DOMAIN stack = 1 .. Len(stack)
  BY StackFacts
<1>2. /\ Front(stack) \in Seq(Frame) /\ Len(Front(stack)) = Len(stack) - 1
      /\ \A k \in 1 .. Len(stack) - 1 : Front(stack)[k] = stack[k]
  BY StackFacts
<1>3. ASSUME stack' = Front(stack), NEW k \in DOMAIN stack'
      PROVE  k \in DOMAIN stack /\ stack'[k] = stack[k]
  <2>1. k \in 1 .. Len(stack) - 1
    BY <1>1, <1>2, <1>3
  <2>. QED  BY <1>1, <1>2, <1>3, <2>1
<1>4. ASSUME NEW skip \in Nat, NEW k \in DOMAIN At(b, skip)
      PROVE  \/ k \in DOMAIN stack /\ At(b, skip)[k] = stack[k]
             \/ At(b, skip)[k].box = b
  <2>1. /\ At(b, skip) \in Seq(Frame) /\ Len(At(b, skip)) = Len(stack)
        /\ \A i \in 1 .. Len(stack) - 1 : At(b, skip)[i] = stack[i]
        /\ At(b, skip)[Len(stack)].box = b
    BY AtFacts
  <2>2. k \in 1 .. Len(stack)
    BY <1>1, <1>4, <2>1
  <2>. QED  BY <1>1, <2>1, <2>2
<1>5. ASSUME NEW n \in Int, stack' = Append(At(b, 0), Call(n)), NEW k \in DOMAIN stack'
      PROVE  \/ k \in DOMAIN stack /\ stack'[k] = stack[k]
             \/ stack'[k].box = b
             \/ stack'[k].box.nm = "none"
  <2> DEFINE s == At(b, 0)
             c == Call(n)
  <2>1. s \in Seq(Frame) /\ Len(s) = Len(stack)
    BY AtFacts
  <2>2. c.box.nm = "none" /\ c \in Frame
    BY DEF Call, NoBox, Frame, Header, BoxHead, Names
  <2>3. \A i \in DOMAIN s : (i \in DOMAIN stack /\ s[i] = stack[i]) \/ s[i].box = b
    BY <1>4
  <2> HIDE DEF s, c
  <2>4. stack' = Append(s, c)
    BY <1>5 DEF s, c
  <2>5. (k \in DOMAIN s /\ stack'[k] = s[k]) \/ stack'[k] = c
    BY <1>5, <2>1, <2>2, <2>4
  <2>. QED  BY <2>2, <2>3, <2>5
<1>. QED
  BY <1>3, <1>4, <1>5

\* The header that is read within the list is that of a tag or of free space.
LEMMA AtListHeader ==
  ASSUME ShapeInv, ListInv, PlainList(file), pc = "header", h.processdata
  PROVE  \E q, n \in DOMAIN file :
           /\ file[q].nm = "ilst" /\ q <= n /\ tags = TagsUpTo(file, n)
           /\ Len(stack) >= 2 /\ stack[Len(stack) - 1].box = file[q] /\ Top.boxlen # 0
           /\ Top.rem = EndOf(file, file[q]) - pos /\ Top.rem > 0
           /\ n + 1 \in DOMAIN file /\ file[n + 1].at = pos
           /\ file[n + 1].nm \in {"tag", "free"} /\ file[n + 1].len = Size(file[n + 1])
<1>1. /\ IsFile(file) /\ stack \in Seq(Frame) /\ stack # <<>>
      /\ InList(file, pos, stack, pc, tags)
  BY DEF ShapeInv, TypeInv, ListInv, Parsing
<1>2. Top = stack[Len(stack)]
  BY <1>1, StackFacts
<1>3. PICK q \in DOMAIN file, n \in DOMAIN file :
        /\ file[q].nm = "ilst"
        /\ Len(stack) >= 2 /\ stack[Len(stack) - 1].box = file[q] /\ Top.boxlen # 0
        /\ q <= n /\ tags = TagsUpTo(file, n)
        /\ pos = After(file[n]) /\ Top.rem = EndOf(file, file[q]) - pos /\ Top.rem > 0
  BY <1>1, <1>2 DEF InList, AtCell
<1>4. After(file[n]) \in Int /\ EndOf(file, file[q]) \in Int
  BY <1>1, <1>3, PlainFacts, Places, CellFacts
<1>5. After(file[n]) < EndOf(file, file[q])
  <2> DEFINE x == After(file[n])
             e == EndOf(file, file[q])
             r == Top.rem
  <2>1. x \in Int /\ e \in Int /\ r = e - x /\ r > 0
    BY <1>3, <1>4
  <2> HIDE DEF x, e, r
  <2>2. x < e
    BY <2>1
  <2>. QED  BY <2>2 DEF x, e
<1>6. /\ n + 1 \in DOMAIN file /\ file[n + 1].at = pos
      /\ file[n + 1].nm \in {"tag", "free"} /\ file[n + 1].len = Size(file[n + 1])
  BY <1>1, <1>3, <1>5, NextInList
<1>. QED
  BY <1>3, <1>6

\* Behind it, its data lies in front of the next cell, and when it is read the
\* tags are those up to that cell.
LEMMA AtListBody ==
  ASSUME ShapeInv, ListInv, PlainList(file), pc = "body", StillReads(Top.box)
  PROVE  LET b == Top.box IN
         \E q, n \in DOMAIN file :
           /\ file[q].nm = "ilst" /\ q <= n /\ tags = TagsUpTo(file, n)
           /\ Len(stack) >= 2 /\ stack[Len(stack) - 1].box = file[q] /\ Top.boxlen # 0
           /\ n + 1 \in DOMAIN file /\ b = file[n + 1]
           /\ EndOf(file, file[q]) \in Int
           /\ Top.rem = EndOf(file, file[q]) - b.at
           /\ b.nm \in {"tag", "free"} /\ b.len = Size(b)
           /\ Payload(b) \in Nat /\ pos + Payload(b) = After(b)
           /\ n + 1 \in 0 .. Len(file)
           /\ BodyReads(b) => tags' = TagsUpTo(file, n + 1) /\ pos' = After(b)
<1> DEFINE b == Top.box
<1>1. /\ IsFile(file) /\ stack \in Seq(Frame) /\ stack # <<>>
      /\ StillReads(b) /\ b.nm # "ilst"
      /\ InList(file, pos, stack, pc, tags)
  BY DEF ShapeInv, TypeInv, ListInv, Parsing, StillReads
<1>2. Top = stack[Len(stack)]
  BY <1>1, StackFacts
<1>3. PICK q \in DOMAIN file, n \in DOMAIN file :
        /\ file[q].nm = "ilst"
        /\ Len(stack) >= 2 /\ stack[Len(stack) - 1].box = file[q] /\ Top.boxlen # 0
        /\ q <= n /\ tags = TagsUpTo(file, n)
        /\ n + 1 \in DOMAIN file /\ b = file[n + 1]
        /\ pos = file[n + 1].at + file[n + 1].head
        /\ Top.rem = EndOf(file, file[q]) - file[n + 1].at /\ Top.rem > 0
  BY <1>1, <1>2 DEF InList, AtCell
<1> HIDE DEF b
<1>4. /\ file[n + 1] \in Cell /\ file[n + 1].at = After(file[n]) /\ After(file[n]) \in Nat
  BY <1>1, <1>3, Places, CellFacts
<1>5. EndOf(file, file[q]) \in Int
  BY <1>1, <1>3, PlainFacts
<1>6. After(file[n]) < EndOf(file, file[q])
  <2> DEFINE x == After(file[n])
             e == EndOf(file, file[q])
             r == Top.rem
  <2>1. x \in Int /\ e \in Int /\ r = e - x /\ r > 0
    BY <1>3, <1>4, <1>5
  <2> HIDE DEF x, e, r
  <2>2. x < e
    BY <2>1
  <2>. QED  BY <2>2 DEF x, e
<1>7. /\ b.nm \in {"tag", "free"} /\ b.len = Size(b)
      /\ b.nm = "tag" => b.body > 0
  BY <1>1, <1>3, <1>6, NextInList
<1>8. Payload(b) = b.body /\ b.body \in Nat /\ pos + b.body = After(b)
  <2>1. b \in Cell
    BY <1>3, <1>4
  <2>2. b.at \in Nat /\ b.head \in Nat /\ b.body \in Nat
    BY <2>1, CellFacts
  <2>3. Size(b) = b.head + b.body /\ Size(b) \in Nat
    BY <2>2 DEF Size
  <2>4. Payload(b) = b.body
    BY <1>7, <2>2, <2>3 DEF Payload
  <2>5. After(b) = b.at + Size(b) /\ After(b) \in Nat
    BY <2>2, <2>3 DEF After
  <2>6. pos = b.at + b.head
    BY <1>3
  <2>7. pos + b.body = After(b)
    BY <2>2, <2>3, <2>5, <2>6
  <2>. QED  BY <2>2, <2>4, <2>7
<1>9. n + 1 \in 1 .. Len(file) /\ n + 1 \in 0 .. Len(file) /\ (n + 1) - 1 = n
  BY <1>1, <1>3, Places
<1>10. TagsUpTo(file, n + 1) = IF b.nm = "tag" THEN Append(TagsUpTo(file, n), b.id)
                               ELSE TagsUpTo(file, n)
  <2>1. file \in Seq(Cell)
    BY <1>1 DEF IsFile
  <2>. QED  BY <1>3, <1>9, <2>1, TagsStep
<1>11. ASSUME BodyReads(b)
       PROVE  tags' = TagsUpTo(file, n + 1) /\ pos' = After(b)
  <2>1. /\ pos' = After(b)
        /\ tags' = IF b.body # 0 /\ b.nm # "free" THEN Append(tags, b.id) ELSE tags
    BY <1>1, <1>8, <1>11 DEF BodyReads
  <2>2. CASE b.nm = "tag"
    <3>1. b.body # 0 /\ b.nm # "free"
      BY <1>7, <1>8, <2>2
    <3>2. tags' = Append(tags, b.id)
      BY <2>1, <3>1
    <3>3. TagsUpTo(file, n + 1) = Append(TagsUpTo(file, n), b.id)
      BY <1>10, <2>2
    <3>. QED  BY <1>3, <2>1, <3>2, <3>3
  <2>3. CASE b.nm = "free"
    BY <1>3, <1>10, <2>1, <2>3
  <2>. QED  BY <1>7, <2>2, <2>3
<1>12. Top.rem = EndOf(file, file[q]) - b.at
  BY <1>3
<1>13. Payload(b) \in Nat /\ pos + Payload(b) = After(b)
  BY <1>8
<1>. QED
  BY <1>3, <1>5, <1>7, <1>9, <1>11, <1>12, <1>13 DEF b

LEMMA ReadHeaderList ==
  ASSUME ShapeInv, ListInv, ReadHeader
  PROVE  ListInv'
<1>1. /\ IsFile(file) /\ pos \in Nat /\ h \in Handle /\ tags \in Seq(Nat) /\ pc = "header"
      /\ stack \in Seq(Frame) /\ stack # <<>>
  BY DEF ShapeInv, TypeInv, ReadHeader, Parsing
<1>2. file' = file /\ tags' = tags /\ pos' \in Nat /\ pos' >= pos
  BY HeaderSteps
<1>3. SUFFICES ASSUME PlainList(file)
               PROVE  /\ Met(tags', h', stack') => Past(file, pos')
                      /\ h'.processdata => /\ ~ h'.checkforfree
                                           /\ InList(file, pos', stack', pc', tags')
  BY <1>2 DEF ListInv
<1>4. /\ Met(tags, h, stack) => Past(file, pos)
      /\ h.processdata => ~ h.checkforfree /\ InList(file, pos, stack, pc, tags)
  BY <1>3 DEF ListInv
<1>5. Past(file, pos) => Past(file, pos')
  BY <1>1, <1>2, PastStays
<1>6. Len(stack) \in Nat /\ Len(stack) >= 1 /\ Top = stack[Len(stack)]
  BY <1>1, StackFacts
<1>7. CASE h.processdata
  <2>1. Past(file, pos') /\ ~ h.checkforfree
    BY <1>4, <1>5, <1>7 DEF Met
  <2>2. PICK q, n \in DOMAIN file :
          /\ file[q].nm = "ilst" /\ q <= n /\ tags = TagsUpTo(file, n)
          /\ Len(stack) >= 2 /\ stack[Len(stack) - 1].box = file[q] /\ Top.boxlen # 0
          /\ Top.rem = EndOf(file, file[q]) - pos /\ Top.rem > 0
          /\ n + 1 \in DOMAIN file /\ file[n + 1].at = pos
          /\ file[n + 1].nm \in {"tag", "free"} /\ file[n + 1].len = Size(file[n + 1])
    BY <1>1, <1>3, <1>7, AtListHeader
  <2>3. ASSUME Left
        PROVE  ~ h'.checkforfree /\ InList(file, pos', stack', pc', tags')
    <3>1. stack' = Front(stack) /\ pc' = "body" /\ ~ h'.checkforfree
      <4>1. Len(stack) # 1
        BY <1>6, <2>2
      <4>. QED  BY <2>3, <4>1 DEF Left
    <3>2. Len(stack') = Len(stack) - 1 /\ stack'[Len(stack) - 1] = stack[Len(stack) - 1]
      <4>1. Len(stack) - 1 \in 1 .. Len(stack) - 1
        BY <1>6, <2>2
      <4>. QED  BY <1>1, <3>1, <4>1, StackFacts
    <3>. QED  BY <2>2, <3>1, <3>2 DEF InList
  <2>4. CASE HeaderFails
    BY <2>1, <2>3, <2>4 DEF HeaderFails
  <2>5. ASSUME NEW b \in HeadersAt(file, pos),
               HeaderBreaks(b) \/ HeaderEnters(b) \/ HeaderSkips(b) \/ HeaderMisses(b)
        PROVE  h'.processdata => ~ h'.checkforfree /\ InList(file, pos', stack', pc', tags')
    <3>1. b = file[n + 1] /\ b \in Header
      BY <1>1, <2>2, HeaderOf, HeaderFacts
    <3>2. Reads(b) = h.processdata /\ ~ Counts(b) /\ ~ Descends(b)
      BY <2>1, <2>2, <3>1 DEF Reads, Counts, Descends, Containers
    <3>3. CASE HeaderBreaks(b)
      BY <2>3, <3>3 DEF HeaderBreaks
    <3>4. CASE HeaderEnters(b)
      BY <3>2, <3>4 DEF HeaderEnters
    <3>5. CASE HeaderSkips(b)
      <4>1. /\ pos' = pos + b.head /\ stack' = At(b, Skip(b)) /\ pc' = "body"
            /\ ~ h'.checkforfree
        BY <3>2, <3>5 DEF HeaderSkips
      <4>2. /\ Len(stack') = Len(stack)
            /\ \A k \in 1 .. Len(stack) - 1 : stack'[k] = stack[k]
            /\ stack'[Len(stack)].box = b
            /\ stack'[Len(stack)].boxlen = Top.boxlen /\ stack'[Len(stack)].rem = Top.rem
        BY <1>1, <2>2, <3>1, <4>1, SkipFacts, AtFacts
      <4>3. stack'[Len(stack) - 1] = stack[Len(stack) - 1]
        <5>1. Len(stack) - 1 \in 1 .. Len(stack) - 1
          BY <1>6, <2>2
        <5>. QED  BY <4>2, <5>1
      <4>4. AtCell(file, q, n, pos', stack', pc')
        BY <2>2, <3>1, <4>1, <4>2 DEF AtCell
      <4>. QED  BY <1>2, <2>2, <4>1, <4>2, <4>3, <4>4 DEF InList
    <3>6. CASE HeaderMisses(b)
      BY <3>2, <3>6 DEF HeaderMisses
    <3>. QED  BY <2>5, <3>3, <3>4, <3>5, <3>6
  <2>. QED  BY <2>1, <2>4, <2>5, HeaderSteps
<1>8. CASE ~ h.processdata
  <2>1. h.processdata = FALSE
    BY <1>1, <1>8 DEF Handle
  <2>2. ASSUME \A k \in DOMAIN stack' : \/ k \in DOMAIN stack /\ stack'[k] = stack[k]
                                        \/ stack'[k].box.nm # "ilst",
               ~ h'.processdata, h'.checkforfree => h.checkforfree
        PROVE  Met(tags', h', stack') => Past(file, pos')
    BY <1>2, <1>4, <1>5, <2>2 DEF Met
  <2>3. CASE HeaderFails
    <3>1. stack' = Front(stack) /\ ~ h'.checkforfree /\ ~ h'.processdata
      BY <2>1, <2>3 DEF HeaderFails, Left
    <3>2. \A k \in DOMAIN stack' : k \in DOMAIN stack /\ stack'[k] = stack[k]
      <4>1. Top.box \in Header
        BY <1>1, StackFacts DEF Frame
      <4>. QED  BY <1>1, <3>1, <4>1, FramesKept
    <3>. QED  BY <2>2, <3>1, <3>2
  <2>4. ASSUME NEW b \in HeadersAt(file, pos), pos' >= pos + BoxHead,
               HeaderBreaks(b) \/ HeaderEnters(b) \/ HeaderSkips(b) \/ HeaderMisses(b)
        PROVE  /\ Met(tags', h', stack') => Past(file, pos')
               /\ h'.processdata => ~ h'.checkforfree /\ InList(file, pos', stack', pc', tags')
    <3>1. b \in Header /\ b.head \in {8, 16} /\ Skip(b) \in Nat /\ (b.len - Skip(b)) % SkipMod \in Int
      <4>1. b \in Header /\ b.head \in {8, 16}
        BY <1>1, HeaderFacts
      <4>2. b.len \in Int /\ Skip(b) \in Nat
        BY <4>1, SkipFacts DEF Header
      <4>. QED  BY <4>1, <4>2, ParserAssumption
    <3>2. CASE b.nm # "ilst"
      <4>1. ~ Reads(b) /\ (Counts(b) => h.checkforfree)
        BY <2>1, <3>2 DEF Reads, Counts
      <4>2. ~ h'.processdata /\ (h'.checkforfree => h.checkforfree)
        BY <2>1, <2>4, <4>1 DEF HeaderBreaks, HeaderEnters, HeaderSkips, HeaderMisses, Left
      <4>3. \/ stack' = Front(stack) \/ stack' = At(b, 0) \/ stack' = At(b, Skip(b))
            \/ stack' = Append(At(b, 0), Call((b.len - Skip(b)) % SkipMod))
        BY <2>4 DEF HeaderBreaks, HeaderEnters, HeaderSkips, HeaderMisses, Left
      <4>4. \A k \in DOMAIN stack' : \/ k \in DOMAIN stack /\ stack'[k] = stack[k]
                                     \/ stack'[k].box = b \/ stack'[k].box.nm = "none"
        BY <1>1, <3>1, <4>3, FramesKept
      <4>5. \A k \in DOMAIN stack' : \/ k \in DOMAIN stack /\ stack'[k] = stack[k]
                                     \/ stack'[k].box.nm # "ilst"
        BY <3>2, <4>4
      <4>. QED  BY <2>2, <4>2, <4>5
    <3>3. CASE b.nm = "ilst"
      <4>1. PICK q \in DOMAIN file : b = file[q] /\ file[q].at = pos
        BY <1>1, <3>3, HeaderFacts
      <4>2. Past(file, pos')
        BY <1>1, <1>2, <2>4, <3>3, <4>1 DEF Past, BoxHead
      <4>3. ~ Past(file, pos)
        <5>1. SUFFICES ASSUME NEW i \in DOMAIN file, file[i].nm = "ilst", file[i].at < pos
                       PROVE  FALSE
          BY DEF Past
        <5>2. i = q
          BY <1>1, <1>3, <3>3, <4>1, <5>1, PlainFacts
        <5>. QED  BY <1>1, <4>1, <5>1, <5>2
      <4>4. tags = <<>> /\ ~ h.checkforfree
        BY <1>4, <4>3 DEF Met
      <4>5. Counts(b) => ~ Reads(b)
        BY <3>3, <4>4 DEF Counts, Reads
      <4>6. CASE HeaderBreaks(b)
        BY <2>1, <4>2, <4>5, <4>6 DEF HeaderBreaks
      <4>7. CASE HeaderSkips(b)
        <5>1. ~ Descends(b)
          BY <3>3, <4>7 DEF HeaderSkips
        <5>2. ~ Reads(b)
          BY <3>3, <5>1 DEF Reads, Descends, Containers
        <5>. QED  BY <4>2, <4>7, <5>2 DEF HeaderSkips
      <4>8. CASE HeaderEnters(b)
        <5>1. /\ b.len # 0 /\ Descends(b) /\ ~ h'.checkforfree
              /\ pos' = pos + b.head + Skip(b)
          BY <4>8 DEF HeaderEnters
        <5>2. CASE stack' = At(b, 0) /\ pc' = "body"
          <6>1. Len(stack') = Len(stack) /\ stack'[Len(stack)].box = b
            BY <1>1, <3>1, <5>2, AtFacts
          <6>. QED  BY <3>3, <4>1, <4>2, <5>1, <5>2, <6>1 DEF InList
        <5>3. CASE stack' = Append(At(b, 0), Call((b.len - Skip(b)) % SkipMod)) /\ pc' = "header"
          <6> DEFINE s == At(b, 0)
                     c == Call((b.len - Skip(b)) % SkipMod)
          <6>1. Skip(b) = 0
            BY <3>3 DEF Skip, Containers
          <6>2. /\ file[q] \in Cell /\ b.len >= b.head /\ b.len \in Int /\ b.body = 0
                /\ Payload(b) # 0
            BY <1>1, <3>3, <4>1, <5>1, Places DEF IsFile, Cell, Containers, Descends
          <6>3. Payload(b) > 0 /\ b.head = 8 /\ b.len < SkipMod
            <7>1. Payload(b) > 0
              BY <3>1, <6>2 DEF Payload
            <7>. QED  BY <1>1, <1>3, <3>3, <4>1, <7>1, PlainFacts
          <6>4. pos' = After(file[q]) /\ pos' = pos + 8
            BY <1>1, <4>1, <5>1, <6>1, <6>2, <6>3 DEF After, Size
          <6>5. EndOf(file, file[q]) = pos + b.len
            BY <4>1, <5>1 DEF EndOf
          <6>6. c.boxlen = b.len /\ c.rem = b.len - 8 /\ c \in Frame
            <7>1. (b.len - Skip(b)) % SkipMod = b.len
              <8>1. SkipMod \in Nat /\ b.len \in Nat /\ b.len - Skip(b) = b.len
                BY <6>1, <6>2, <6>3, ParserAssumption
              <8>. QED  BY <6>3, <8>1
            <7>2. Call(b.len).boxlen = b.len /\ Call(b.len).rem = b.len - 8 /\ Call(b.len) \in Frame
              BY <6>2 DEF Call, Frame, NoBox, Header, BoxHead, Names
            <7>. QED  BY <7>1, <7>2
          <6>7. s \in Seq(Frame) /\ Len(s) = Len(stack) /\ s[Len(stack)].box = b
            <7>1. b \in Header
              BY <3>1
            <7>. QED  BY <1>1, <7>1, AtFacts
          <6>8. stack' = Append(s, c)
            BY <5>3
          <6> HIDE DEF s, c
          <6>9. /\ Len(stack') = Len(stack) + 1 /\ stack'[Len(stack) + 1] = c
                /\ stack'[Len(stack)] = s[Len(stack)]
            BY <1>6, <6>6, <6>7, <6>8
          <6>10. c.rem = EndOf(file, file[q]) - pos' /\ c.rem > 0 /\ c.boxlen # 0
            BY <1>1, <5>1, <6>2, <6>3, <6>4, <6>5, <6>6 DEF Payload
          <6>11. tags = TagsUpTo(file, q)
            <7>1. file \in Seq(Cell) /\ q \in 0 .. Len(file) /\ q \in Nat
              BY <1>1, Places DEF IsFile
            <7>2. \A k \in 1 .. q : k \in DOMAIN file /\ file[k].nm # "tag"
              <8>1. \A k \in 1 .. q : k \in DOMAIN file /\ ~ (q < k)
                BY <1>1, <7>1, Places
              <8>. QED  BY <1>1, <1>3, <3>3, <4>1, <8>1, PlainFacts
            <7>. QED  BY <4>4, <7>1, <7>2, NoTagsBefore
          <6>12. AtCell(file, q, q, pos', stack', pc')
            BY <5>3, <6>4, <6>9, <6>10 DEF AtCell
          <6>13. q <= q /\ Len(stack') >= 2 /\ Len(stack') - 1 = Len(stack)
            BY <1>1, <1>6, <6>9, Places
          <6>14. InList(file, pos', stack', pc', tags')
            BY <1>2, <3>3, <4>1, <6>7, <6>9, <6>10, <6>11, <6>12, <6>13 DEF InList
          <6>. QED  BY <4>2, <5>1, <6>14
        <5>. QED  BY <4>8, <5>2, <5>3 DEF HeaderEnters
      <4>. QED  BY <2>4, <3>3, <4>6, <4>7, <4>8 DEF HeaderMisses
    <3>. QED  BY <3>2, <3>3
  <2>. QED  BY <2>3, <2>4, HeaderSteps
<1>. QED
  BY <1>7, <1>8

LEMMA FinishBoxList ==
  ASSUME ShapeInv, ListInv, FinishBox
  PROVE  ListInv'
<1> DEFINE b == Top.box
<1>1. /\ IsFile(file) /\ pos \in Nat /\ h \in Handle /\ tags \in Seq(Nat) /\ pc = "body"
      /\ stack \in Seq(Frame) /\ stack # <<>>
  BY DEF ShapeInv, TypeInv, FinishBox, Parsing
<1>2. /\ file' = file /\ pos' \in Nat /\ pos' >= pos
      /\ h'.processdata = StillReads(b)
      /\ BodyReads(b) \/ BodySkips(b) \/ BodyFails(b)
  BY BodySteps
<1>3. SUFFICES ASSUME PlainList(file)
               PROVE  /\ \E m \in 0 .. Len(file) : tags' = TagsUpTo(file, m)
                      /\ Met(tags', h', stack') => Past(file, pos')
                      /\ h'.processdata => /\ ~ h'.checkforfree
                                           /\ InList(file, pos', stack', pc', tags')
  BY <1>2 DEF ListInv
<1>4. /\ \E m \in 0 .. Len(file) : tags = TagsUpTo(file, m)
      /\ Met(tags, h, stack) => Past(file, pos)
      /\ h.processdata => ~ h.checkforfree /\ InList(file, pos, stack, pc, tags)
  BY <1>3 DEF ListInv
<1>5. Past(file, pos) => Past(file, pos')
  BY <1>1, <1>2, PastStays
<1>6. Len(stack) \in Nat /\ Len(stack) >= 1 /\ Top = stack[Len(stack)] /\ Top \in Frame
      /\ DOMAIN stack = 1 .. Len(stack)
  BY <1>1, StackFacts
<1>7. b \in Header /\ b = stack[Len(stack)].box
  BY <1>6 DEF Frame
<1> HIDE DEF b
<1>8. CASE ~ StillReads(b)
  <2>1. tags' = tags /\ ~ h'.processdata
    BY <1>2, <1>8 DEF BodyReads, BodySkips, BodyFails
  <2>2. h'.checkforfree => StillCounts(b)
    BY <1>2 DEF BodyReads, BodySkips, BodyFails, Accounted, Left
  <2>3. \A k \in DOMAIN stack' : k \in DOMAIN stack /\ stack'[k].box = stack[k].box
    <3>1. CASE stack' = Front(stack)
      BY <1>1, <1>7, <3>1, FramesKept
    <3>2. CASE /\ Len(stack') = Len(stack)
               /\ \A k \in 1 .. Len(stack) - 1 : stack'[k] = stack[k]
               /\ stack'[Len(stack)] = [Top EXCEPT !.rem = Top.rem - b.len]
      <4>1. stack'[Len(stack)].box = Top.box
        <5> DEFINE t == Top
                   r == Top.rem - b.len
        <5>1. t \in Frame /\ stack'[Len(stack)] = [t EXCEPT !.rem = r]
          BY <1>6, <3>2
        <5> HIDE DEF t, r
        <5>2. [t EXCEPT !.rem = r].box = t.box
          BY <5>1 DEF Frame
        <5>. QED  BY <5>1, <5>2 DEF t
      <4>2. stack' \in Seq(Frame)
        <5>1. ShapeInv'
          BY FinishBoxShape
        <5>. QED  BY <5>1 DEF ShapeInv, TypeInv
      <4>3. DOMAIN stack' = 1 .. Len(stack)
        BY <3>2, <4>2
      <4>4. ASSUME NEW k \in 1 .. Len(stack)
            PROVE  k \in DOMAIN stack /\ stack'[k].box = stack[k].box
        <5>1. CASE k = Len(stack)
          BY <1>6, <4>1, <5>1
        <5>2. CASE k # Len(stack)
          <6>1. k \in 1 .. Len(stack) - 1
            <7> DEFINE n == Len(stack)
            <7>1. n \in Nat /\ k \in 1 .. n /\ k # n
              BY <1>6, <5>2
            <7> HIDE DEF n
            <7>2. k \in 1 .. n - 1
              BY <7>1
            <7>. QED  BY <7>2 DEF n
          <6>. QED  BY <1>6, <3>2, <6>1
        <5>. QED  BY <5>1, <5>2
      <4>. QED  BY <4>3, <4>4
    <3>. QED  BY <1>2, <3>1, <3>2 DEF BodyReads, BodySkips, BodyFails, Accounted, Left
  <2>4. Met(tags', h', stack') => Past(file, pos')
    <3>1. CASE b.nm = "ilst"
      BY <1>4, <1>5, <1>6, <1>7, <3>1 DEF Met
    <3>2. CASE b.nm # "ilst"
      <4>1. h'.checkforfree => h.checkforfree
        BY <2>2, <3>2 DEF StillCounts
      <4>. QED  BY <1>4, <1>5, <2>1, <2>3, <4>1 DEF Met
    <3>. QED  BY <3>1, <3>2
  <2>. QED  BY <1>4, <2>1, <2>4
<1>9. CASE StillReads(b)
  <2>1. b.nm # "ilst" /\ h.processdata /\ ~ h.checkforfree
    BY <1>4, <1>9 DEF StillReads
  <2>2. Past(file, pos')
    BY <1>4, <1>5, <2>1 DEF Met
  <2>3. PICK q, n \in DOMAIN file :
          /\ file[q].nm = "ilst" /\ q <= n /\ tags = TagsUpTo(file, n)
          /\ Len(stack) >= 2 /\ stack[Len(stack) - 1].box = file[q] /\ Top.boxlen # 0
          /\ n + 1 \in DOMAIN file /\ b = file[n + 1]
          /\ EndOf(file, file[q]) \in Int
          /\ Top.rem = EndOf(file, file[q]) - b.at
          /\ b.nm \in {"tag", "free"} /\ b.len = Size(b)
          /\ Payload(b) \in Nat /\ pos + Payload(b) = After(b)
          /\ n + 1 \in 0 .. Len(file)
          /\ BodyReads(b) => tags' = TagsUpTo(file, n + 1) /\ pos' = After(b)
    BY <1>1, <1>3, <1>9, AtListBody DEF b
  <2>4. Len(stack) # 1
    BY <1>6, <2>3
  <2>5. ASSUME stack' = Front(stack), pc' = (IF Len(stack) = 1 THEN "done" ELSE "body")
         PROVE  InList(file, pos', stack', pc', tags')
    <3>1. Len(stack') = Len(stack) - 1 /\ stack'[Len(stack) - 1] = stack[Len(stack) - 1]
      <4>1. Len(stack) - 1 \in 1 .. Len(stack) - 1
        BY <1>6, <2>3
      <4>. QED  BY <1>1, <2>5, <4>1, StackFacts
    <3>2. pc' = "body"
      BY <2>4, <2>5
    <3>. QED  BY <2>3, <3>1, <3>2 DEF InList
  <2>6. CASE BodyFails(b)
    <3>1. tags' = tags /\ stack' = Front(stack) /\ ~ h'.checkforfree
          /\ pc' = (IF Len(stack) = 1 THEN "done" ELSE "body")
      BY <1>9, <2>1, <2>6 DEF BodyFails, Left, StillCounts
    <3>. QED  BY <1>4, <2>2, <2>3, <2>5, <3>1
  <2>7. CASE BodyReads(b)
    <3>1. pos' = After(b) /\ Accounted(b)
      BY <2>3, <2>7 DEF BodyReads
    <3>2. tags' = TagsUpTo(file, n + 1)
      BY <2>3, <2>7
    <3>3. ~ h'.checkforfree
      BY <2>1, <3>1 DEF Accounted, StillCounts
    <3>4. CASE stack' = Front(stack) /\ pc' = (IF Len(stack) = 1 THEN "done" ELSE "body")
      BY <2>2, <2>3, <2>5, <3>2, <3>3, <3>4
    <3>5. CASE /\ pc' = "header" /\ Len(stack') = Len(stack)
               /\ \A k \in 1 .. Len(stack) - 1 : stack'[k] = stack[k]
               /\ stack'[Len(stack)] = [Top EXCEPT !.rem = Top.rem - b.len]
               /\ Top.rem - b.len > 0 \/ Top.boxlen = 0
      <4> DEFINE t == Top
                 r == Top.rem - b.len
                 s == stack'[Len(stack)]
      <4>1. t \in Frame /\ s = [t EXCEPT !.rem = r]
        BY <1>6, <3>5
      <4>2. r > 0 /\ t.boxlen # 0
        BY <2>3, <3>5
      <4>3. r = EndOf(file, file[q]) - pos'
        <5> DEFINE e == EndOf(file, file[q])
                   x == Top.rem
        <5>1. x = e - b.at /\ e \in Int /\ pos' = b.at + Size(b) /\ b.len = Size(b)
              /\ b.at \in Nat /\ Size(b) \in Nat /\ r = x - b.len
          BY <1>1, <2>3, <3>1, Places, CellFacts
        <5> HIDE DEF e, x, r
        <5>2. r = e - pos'
          BY <5>1
        <5>. QED  BY <5>2 DEF e
      <4> HIDE DEF t, r
      <4>4. s.boxlen = t.boxlen /\ s.rem = r
        <5> HIDE DEF s
        <5>. QED  BY <4>1 DEF Frame
      <4>5. stack'[Len(stack) - 1] = stack[Len(stack) - 1]
        <5>1. Len(stack) - 1 \in 1 .. Len(stack) - 1
          BY <1>6, <2>3
        <5>. QED  BY <3>5, <5>1
      <4>6. AtCell(file, q, n + 1, pos', stack', pc')
        BY <2>3, <3>1, <3>5, <4>2, <4>3, <4>4 DEF AtCell
      <4>7. q <= n + 1
        BY <1>1, <2>3, Places
      <4>8. InList(file, pos', stack', pc', tags')
        BY <2>3, <3>2, <3>5, <4>2, <4>4, <4>5, <4>6, <4>7 DEF InList
      <4>. QED  BY <2>2, <2>3, <3>2, <3>3, <4>8
    <3>. QED  BY <3>1, <3>4, <3>5 DEF Accounted
  <2>8. ~ BodySkips(b)
    BY <1>9 DEF BodySkips
  <2>. QED  BY <1>2, <2>6, <2>7, <2>8
<1>. QED
  BY <1>8, <1>9

\* Nothing has been met before the descent, and when a file is parsed again.
LEMMA NothingMet ==
  ASSUME ShapeInv, tags = <<>>, ~ h.processdata, ~ h.checkforfree,
         \A k \in DOMAIN stack : stack[k].box.nm # "ilst"
  PROVE  ListInv
<1>1. file \in Seq(Cell) /\ 0 \in 0 .. Len(file)
  BY DEF ShapeInv, TypeInv, IsFile
<1>2. tags = TagsUpTo(file, 0)
  BY <1>1, TagsStep
<1>3. ~ Met(tags, h, stack)
  BY DEF Met
<1>. QED
  BY <1>1, <1>2, <1>3 DEF ListInv

LEMMA InitList == Init => ListInv
<1> SUFFICES ASSUME Init
             PROVE  ListInv
  OBVIOUS
<1>1. ShapeInv
  BY InitShape
<1>2. /\ tags = <<>> /\ ~ h.processdata /\ ~ h.checkforfree
      /\ \A k \in DOMAIN stack : stack[k].box.nm # "ilst"
  BY DEF Init, NewHandle
<1>. QED
  BY <1>1, <1>2, NothingMet

LEMMA NextList == ShapeInv /\ ListInv /\ [Next]_vars => ListInv'
<1> SUFFICES ASSUME ShapeInv, ListInv, [Next]_vars
             PROVE  ListInv'
  OBVIOUS
<1>1. ShapeInv'
  BY NextShape
<1>2. \A k \in DOMAIN <<Call(0)>> : <<Call(0)>>[k].box.nm # "ilst"
  BY DEF Call, NoBox
<1>3. ASSUME NEW f, NEW p, Again(f, p)
      PROVE  ListInv'
  <2>1. tags' = <<>> /\ h' = NewHandle /\ stack' = <<Call(0)>>
    BY <1>3 DEF Again
  <2>2. ~ NewHandle.processdata /\ ~ NewHandle.checkforfree
    BY DEF NewHandle
  <2>3. file' \in Seq(Cell) /\ 0 \in 0 .. Len(file')
    BY <1>1 DEF ShapeInv, TypeInv, IsFile
  <2>4. tags' = TagsUpTo(file', 0)
    BY <2>1, <2>3, TagsStep
  <2>5. ~ Met(tags', h', stack')
    BY <1>2, <2>1, <2>2 DEF Met
  <2>. QED  BY <2>1, <2>2, <2>3, <2>4, <2>5 DEF ListInv
<1>4. ASSUME pc \in {"ftyp", "brands"}, file' = file, tags' = tags, h'.processdata = FALSE,
             h'.checkforfree = FALSE, stack' = <<>> \/ stack' = <<Call(0)>>
      PROVE  ListInv'
  <2>1. tags' = <<>>
    BY <1>4 DEF ShapeInv, StartInv
  <2>2. file' \in Seq(Cell) /\ 0 \in 0 .. Len(file')
    BY <1>1 DEF ShapeInv, TypeInv, IsFile
  <2>3. tags' = TagsUpTo(file', 0)
    BY <2>1, <2>2, TagsStep
  <2>4. ~ Met(tags', h', stack')
    BY <1>2, <1>4, <2>1 DEF Met
  <2>. QED  BY <1>4, <2>2, <2>3, <2>4 DEF ListInv
<1>5. ASSUME pc \in {"ftyp", "brands"}
      PROVE  h = NewHandle /\ stack = <<>>
  BY <1>5 DEF ShapeInv, StartInv, TypeInv, Parsing
<1>6. ASSUME pc \in {"ftyp", "brands"}, StartParse \/ \E e : Refuse(e)
      PROVE  /\ h'.processdata = FALSE /\ h'.checkforfree = FALSE
             /\ stack' = <<>> \/ stack' = <<Call(0)>>
  BY <1>5, <1>6 DEF StartParse, Refuse, NewHandle
<1>7. CASE ReadFtyp
  <2>1. pc = "ftyp" /\ file' = file /\ tags' = tags
    BY <1>7 DEF ReadFtyp
  <2>2. \/ StartParse \/ Refuse("not_mp4") \/ UNCHANGED <<h, stack>>
    BY <1>7 DEF ReadFtyp
  <2>3. CASE UNCHANGED <<h, stack>>
    <3>1. h' = NewHandle /\ stack' = <<>>
      BY <1>5, <2>1, <2>3
    <3>2. h'.processdata = FALSE /\ h'.checkforfree = FALSE
      BY <3>1 DEF NewHandle
    <3>. QED  BY <1>4, <2>1, <3>1, <3>2
  <2>. QED  BY <1>4, <1>6, <2>1, <2>2, <2>3
<1>8. CASE ReadBrands
  <2>1. pc = "brands" /\ file' = file /\ tags' = tags
    BY <1>8 DEF ReadBrands
  <2>2. StartParse \/ \E e : Refuse(e)
    BY <1>8 DEF ReadBrands
  <2>. QED  BY <1>4, <1>6, <2>1, <2>2
<1>9. CASE ReadHeader
  BY <1>9, ReadHeaderList
<1>10. CASE FinishBox
  BY <1>10, FinishBoxList
<1>11. CASE Repair
  BY <1>3, <1>11 DEF Repair
<1>12. CASE WriteTags
  BY <1>3, <1>12 DEF WriteTags
<1>13. CASE UNCHANGED vars
  BY <1>13 DEF vars, ListInv
<1>. QED
  BY <1>7, <1>8, <1>9, <1>10, <1>11, <1>12, <1>13 DEF Next, ParseStep

\* Whatever the file holds around its tag list, whatever the bytes behind it are
\* taken for, and wherever a read, a seek or an allocation fails: the tags that
\* are added are the first ones of the file, in their order, each once
\* (mp4tag_parse_file).
THEOREM ParsedInOrder == Spec => []TagsInOrder
<1>1. ShapeInv /\ ListInv => TagsInOrder
  <2> SUFFICES ASSUME ShapeInv, ListInv, PlainList(file)
               PROVE  IsPrefix(tags, TagIds(file))
    BY DEF TagsInOrder
  <2>1. PICK m \in 0 .. Len(file) : tags = TagsUpTo(file, m)
    BY DEF ListInv
  <2>2. file \in Seq(Cell)
    BY DEF ShapeInv, TypeInv, IsFile
  <2>. QED  BY <2>1, <2>2, TagsPrefix
<1>. QED
  BY <1>1, InitShape, NextShape, InitList, NextList, PTL DEF Spec

-----------------------------------------------------------------------------
(* What a step notes in the handle, beside what tells it where it is.       *)

\* The offsets and lengths that the writer uses, and the flags that tell the
\* damage of version 1.3.0.
SameNotes(n, hh) ==
  /\ n.parentidx = hh.parentidx /\ n.taglist_offset = hh.taglist_offset
  /\ n.base_lengths = hh.base_lengths /\ n.base_offsets = hh.base_offsets
  /\ n.noilst_offset = hh.noilst_offset /\ n.insert_delta = hh.insert_delta
  /\ n.stco_offset = hh.stco_offset /\ n.co64_offset = hh.co64_offset
SameMarks(n, hh) == n.ilstend = hh.ilstend /\ n.freeneg = hh.freeneg /\ n.dofix = hh.dofix
SameEnd(n, hh)   == n.after_ilst_offset = hh.after_ilst_offset

LEMMA WithDataLenNotes ==
  ASSUME NEW hh \in Handle
  PROVE  LET n == WithDataLen(hh) IN SameNotes(n, hh) /\ SameMarks(n, hh) /\ SameEnd(n, hh)
<1> DEFINE n == WithDataLen(hh)
           v == IF hh.orig_data_len = 0 THEN hh.taglist_len ELSE hh.orig_data_len
<1>1. n = [hh EXCEPT !.orig_data_len = v]
  BY DEF WithDataLen, Handle
<1> HIDE DEF v, n
<1>2. SameNotes(n, hh)
  BY <1>1 DEF Handle, SameNotes
<1>3. SameMarks(n, hh) /\ SameEnd(n, hh)
  BY <1>1 DEF Handle, SameMarks, SameEnd
<1>. QED
  BY <1>2, <1>3 DEF n

LEMMA CountFreeNotes ==
  ASSUME NEW hh \in Handle, NEW b \in Header, NEW l
  PROVE  LET n == CountFree(hh, b, l) IN SameNotes(n, hh) /\ SameMarks(n, hh)
<1> DEFINE w == WithDataLen(hh)
           n == CountFree(hh, b, l)
           e == IF l = 0 THEN w.exterior_free_len + b.len ELSE w.exterior_free_len
           i == IF l = 0 THEN w.interior_free_len ELSE w.interior_free_len + b.len
           t == w.taglist_len + b.len
           a == w.after_ilst_offset + b.len
<1>1. w \in Handle /\ SameNotes(w, hh) /\ SameMarks(w, hh)
  BY WithDataLenFacts, WithDataLenNotes
<1>2. n = [w EXCEPT !.exterior_free_len = e, !.interior_free_len = i,
                    !.taglist_len = t, !.after_ilst_offset = a]
  <2> HIDE DEF w
  <2>. QED  BY <1>1 DEF CountFree, Handle, w
<1> HIDE DEF w, n, e, i, t, a
<1>3. SameNotes(n, w)
  BY <1>1, <1>2 DEF Handle, SameNotes
<1>4. SameMarks(n, w)
  BY <1>1, <1>2 DEF Handle, SameMarks
<1>. QED
  BY <1>1, <1>3, <1>4 DEF n, SameNotes, SameMarks

LEMMA NotedNotes ==
  ASSUME NEW hh \in Handle, NEW b, NEW off \in Nat, NEW l
  PROVE  LET n == Noted(hh, b, off, l) IN
         /\ SameMarks(n, hh)
         /\ n.base_lengths = hh.base_lengths /\ n.base_offsets = hh.base_offsets
         /\ n.parentidx = (IF b.nm = "ilst" THEN l - 1 ELSE hh.parentidx)
         /\ n.taglist_offset = (IF b.nm = "ilst" THEN off ELSE hh.taglist_offset)
         /\ n.stco_offset = (IF b.nm = "stco" THEN off ELSE hh.stco_offset)
         /\ n.co64_offset = (IF b.nm = "co64" THEN off ELSE hh.co64_offset)
         /\ b.nm \notin {"udta", "ilst"} => SameEnd(n, hh)
         /\ n.noilst_offset = (IF b.nm = "udta" THEN off - BoxHead ELSE hh.noilst_offset)
         /\ b.nm \notin {"meta", "udta"} => n.insert_delta = hh.insert_delta
         /\ b.nm = "udta" => n.after_ilst_offset = off /\ n.insert_delta = BoxHead
<1> DEFINE n == Noted(hh, b, off, l)
<1>1. CASE b.nm = "ilst"
  <2>1. n = [hh EXCEPT !.parentidx = l - 1,
                       !.taglist_offset = off,
                       !.taglist_len = Payload(b),
                       !.after_ilst_offset = off + Payload(b),
                       !.processdata = Payload(b) # 0,
                       !.checkforfree = @ \/ (Payload(b) = 0 /\ canwrite)]
    BY <1>1 DEF Noted
  <2> HIDE DEF n
  <2>2. n.parentidx = l - 1 /\ n.taglist_offset = off /\ n.stco_offset = hh.stco_offset
    BY <2>1 DEF Handle
  <2>3. n.co64_offset = hh.co64_offset /\ n.noilst_offset = hh.noilst_offset
        /\ n.insert_delta = hh.insert_delta
    BY <2>1 DEF Handle
  <2>4. n.base_lengths = hh.base_lengths /\ n.base_offsets = hh.base_offsets
    BY <2>1 DEF Handle
  <2>5. SameMarks(n, hh)
    BY <2>1 DEF Handle, SameMarks
  <2>. QED  BY <1>1, <2>2, <2>3, <2>4, <2>5 DEF n
<1>2. CASE b.nm = "udta"
  <2>1. n = [hh EXCEPT !.noilst_offset = off - BoxHead, !.after_ilst_offset = off,
                       !.insert_delta = BoxHead]
    BY <1>2 DEF Noted
  <2> HIDE DEF n
  <2>2. n.parentidx = hh.parentidx /\ n.taglist_offset = hh.taglist_offset
        /\ n.stco_offset = hh.stco_offset
    BY <2>1 DEF Handle
  <2>3. n.co64_offset = hh.co64_offset /\ n.noilst_offset = off - BoxHead
        /\ n.insert_delta = BoxHead /\ n.after_ilst_offset = off
    BY <2>1 DEF Handle
  <2>4. n.base_lengths = hh.base_lengths /\ n.base_offsets = hh.base_offsets
    BY <2>1 DEF Handle
  <2>5. SameMarks(n, hh)
    BY <2>1 DEF Handle, SameMarks
  <2>. QED  BY <1>2, <2>2, <2>3, <2>4, <2>5 DEF n
<1>3. CASE b.nm \notin {"ilst", "udta"}
  <2>1. \/ b.nm = "meta" /\ n = [hh EXCEPT !.insert_delta = @ + MetaSz]
        \/ b.nm = "stco" /\ n = [hh EXCEPT !.stco_offset = off]
        \/ b.nm = "co64" /\ n = [hh EXCEPT !.co64_offset = off]
        \/ b.nm \notin {"meta", "stco", "co64"} /\ n = hh
    BY <1>3 DEF Noted
  <2> HIDE DEF n
  <2>2. n.parentidx = hh.parentidx /\ n.taglist_offset = hh.taglist_offset
        /\ n.noilst_offset = hh.noilst_offset
    BY <2>1 DEF Handle
  <2>3. /\ n.stco_offset = (IF b.nm = "stco" THEN off ELSE hh.stco_offset)
        /\ n.co64_offset = (IF b.nm = "co64" THEN off ELSE hh.co64_offset)
        /\ b.nm # "meta" => n.insert_delta = hh.insert_delta
    BY <2>1 DEF Handle
  <2>4. n.base_lengths = hh.base_lengths /\ n.base_offsets = hh.base_offsets
    BY <2>1 DEF Handle
  <2>5. SameMarks(n, hh) /\ SameEnd(n, hh)
    BY <2>1 DEF Handle, SameMarks, SameEnd
  <2>. QED  BY <1>3, <2>2, <2>3, <2>4, <2>5 DEF n
<1>. QED
  BY <1>1, <1>2, <1>3

LEMMA WithBaseNotes ==
  ASSUME NEW hh \in Handle, NEW b, NEW off \in Nat, NEW l \in Levels
  PROVE  LET n == WithBase(hh, b, off, l) IN
         /\ SameMarks(n, hh) /\ SameEnd(n, hh)
         /\ n.parentidx = hh.parentidx /\ n.taglist_offset = hh.taglist_offset
         /\ n.noilst_offset = hh.noilst_offset /\ n.insert_delta = hh.insert_delta
         /\ n.stco_offset = hh.stco_offset /\ n.co64_offset = hh.co64_offset
         /\ hh.taglist_offset # 0 => n = hh
         /\ hh.taglist_offset = 0 =>
              /\ n.base_offsets[l] = off - BoxHead /\ n.base_lengths[l] = b.len
              /\ \A k \in Levels \ {l} : /\ n.base_offsets[k] = hh.base_offsets[k]
                                         /\ n.base_lengths[k] = hh.base_lengths[k]
<1> DEFINE n == WithBase(hh, b, off, l)
<1>1. CASE hh.taglist_offset # 0
  <2>1. n = hh
    BY <1>1 DEF WithBase
  <2> HIDE DEF n
  <2>. QED  BY <1>1, <2>1 DEF n, SameMarks, SameEnd
<1>2. CASE hh.taglist_offset = 0
  <2> DEFINE bl == [hh.base_lengths EXCEPT ![l] = b.len]
             bo == [hh.base_offsets EXCEPT ![l] = off - BoxHead]
  <2>1. n = [hh EXCEPT !.base_lengths = bl, !.base_offsets = bo]
    BY <1>2 DEF WithBase, Handle
  <2>2. /\ bo[l] = off - BoxHead /\ bl[l] = b.len
        /\ \A k \in Levels \ {l} : bo[k] = hh.base_offsets[k] /\ bl[k] = hh.base_lengths[k]
    BY DEF Handle
  <2> HIDE DEF n, bl, bo
  <2>3. n.base_lengths = bl /\ n.base_offsets = bo
    BY <2>1 DEF Handle
  <2>4. n.parentidx = hh.parentidx /\ n.taglist_offset = hh.taglist_offset
        /\ n.noilst_offset = hh.noilst_offset
    BY <2>1 DEF Handle
  <2>5. n.insert_delta = hh.insert_delta /\ n.stco_offset = hh.stco_offset
        /\ n.co64_offset = hh.co64_offset
    BY <2>1 DEF Handle
  <2>6. SameMarks(n, hh) /\ SameEnd(n, hh)
    BY <2>1 DEF Handle, SameMarks, SameEnd
  <2>. QED  BY <1>2, <2>2, <2>3, <2>4, <2>5, <2>6 DEF n
<1>. QED
  BY <1>1, <1>2

LEMMA WithBaseOffsets ==
  ASSUME NEW hh \in Handle, NEW b \in Header, NEW off \in Nat, NEW l \in Levels,
         hh.taglist_offset = 0, NEW k \in Levels
  PROVE  WithBase(hh, b, off, l).base_offsets[k] = (IF k = l THEN off - BoxHead ELSE hh.base_offsets[k])
<1> DEFINE n  == WithBase(hh, b, off, l)
           bl == [hh.base_lengths EXCEPT ![l] = b.len]
           bo == [hh.base_offsets EXCEPT ![l] = off - BoxHead]
<1>1. n = [hh EXCEPT !.base_lengths = bl, !.base_offsets = bo]
  BY DEF WithBase, Handle
<1>2. /\ bo[k] = (IF k = l THEN off - BoxHead ELSE hh.base_offsets[k])
      /\ bl[k] = (IF k = l THEN b.len ELSE hh.base_lengths[k])
  BY DEF Handle
<1> HIDE DEF bl, bo, n
<1>3. n.base_lengths = bl /\ n.base_offsets = bo
  BY <1>1 DEF Handle
<1>. QED
  BY <1>2, <1>3 DEF n

LEMMA WithBaseLengths ==
  ASSUME NEW hh \in Handle, NEW b \in Header, NEW off \in Nat, NEW l \in Levels,
         hh.taglist_offset = 0, NEW k \in Levels
  PROVE  WithBase(hh, b, off, l).base_lengths[k] = (IF k = l THEN b.len ELSE hh.base_lengths[k])
<1> DEFINE n  == WithBase(hh, b, off, l)
           bl == [hh.base_lengths EXCEPT ![l] = b.len]
           bo == [hh.base_offsets EXCEPT ![l] = off - BoxHead]
<1>1. n = [hh EXCEPT !.base_lengths = bl, !.base_offsets = bo]
  BY DEF WithBase, Handle
<1>2. /\ bo[k] = (IF k = l THEN off - BoxHead ELSE hh.base_offsets[k])
      /\ bl[k] = (IF k = l THEN b.len ELSE hh.base_lengths[k])
  BY DEF Handle
<1> HIDE DEF bl, bo, n
<1>3. n.base_lengths = bl /\ n.base_offsets = bo
  BY <1>1 DEF Handle
<1>. QED
  BY <1>2, <1>3 DEF n

LEMMA BehindNotes ==
  ASSUME NEW hh \in Handle, NEW b
  PROVE  LET n == Behind(hh, b) IN
         /\ SameMarks(n, hh)
         /\ ~ (b.nm = "moov" /\ hh.noilst_offset = 0) => SameNotes(n, hh) /\ SameEnd(n, hh)
         /\ b.nm = "moov" /\ hh.noilst_offset = 0 =>
              /\ SameNotes(n, [hh EXCEPT !.noilst_offset = pos])
              /\ n.after_ilst_offset = pos
<1> DEFINE w == WithDataLen(hh)
           n == Behind(hh, b)
<1>1. w \in Handle /\ SameNotes(w, hh) /\ SameMarks(w, hh) /\ SameEnd(w, hh)
  BY WithDataLenFacts, WithDataLenNotes
<1>2. \/ /\ b.nm = "moov" /\ w.noilst_offset = 0
         /\ n = [w EXCEPT !.noilst_offset = pos, !.after_ilst_offset = pos]
      \/ /\ ~ (b.nm = "moov" /\ w.noilst_offset = 0)
         /\ \/ n = [w EXCEPT !.processdata = FALSE, !.checkforfree = @ \/ canwrite]
            \/ n = w
  BY DEF Behind
<1> HIDE DEF w, n
<1>3. w.noilst_offset = hh.noilst_offset
  BY <1>1 DEF SameNotes
<1>4. CASE /\ b.nm = "moov" /\ w.noilst_offset = 0
           /\ n = [w EXCEPT !.noilst_offset = pos, !.after_ilst_offset = pos]
  <2> DEFINE m == [hh EXCEPT !.noilst_offset = pos]
  <2>1. n.parentidx = w.parentidx /\ n.taglist_offset = w.taglist_offset
        /\ n.base_lengths = w.base_lengths /\ n.base_offsets = w.base_offsets
    BY <1>1, <1>4 DEF Handle
  <2>2. n.noilst_offset = pos /\ n.after_ilst_offset = pos /\ n.insert_delta = w.insert_delta
        /\ n.stco_offset = w.stco_offset /\ n.co64_offset = w.co64_offset
    BY <1>1, <1>4 DEF Handle
  <2>3. SameMarks(n, w)
    BY <1>1, <1>4 DEF Handle, SameMarks
  <2>4. m.parentidx = hh.parentidx /\ m.taglist_offset = hh.taglist_offset
        /\ m.base_lengths = hh.base_lengths /\ m.base_offsets = hh.base_offsets
    BY DEF Handle
  <2>5. m.noilst_offset = pos /\ m.insert_delta = hh.insert_delta
        /\ m.stco_offset = hh.stco_offset /\ m.co64_offset = hh.co64_offset
    BY DEF Handle
  <2> HIDE DEF m
  <2>6. SameNotes(n, m)
    BY <1>1, <2>1, <2>2, <2>4, <2>5 DEF SameNotes
  <2>7. SameMarks(n, hh)
    BY <1>1, <2>3 DEF SameMarks
  <2>. QED  BY <1>3, <1>4, <2>2, <2>6, <2>7 DEF n, m
<1>5. CASE /\ ~ (b.nm = "moov" /\ w.noilst_offset = 0)
           /\ \/ n = [w EXCEPT !.processdata = FALSE, !.checkforfree = @ \/ canwrite]
              \/ n = w
  <2>1. SameNotes(n, w)
    BY <1>1, <1>5 DEF Handle, SameNotes
  <2>2. SameMarks(n, w) /\ SameEnd(n, w)
    BY <1>1, <1>5 DEF Handle, SameMarks, SameEnd
  <2>3. SameNotes(n, hh)
    BY <1>1, <2>1 DEF SameNotes
  <2>4. SameMarks(n, hh) /\ SameEnd(n, hh)
    BY <1>1, <2>2 DEF SameMarks, SameEnd
  <2>. QED  BY <1>3, <1>5, <2>3, <2>4 DEF n
<1>. QED
  BY <1>2, <1>4, <1>5

LEMMA EndFlagsNotes ==
  ASSUME NEW hh \in Handle, NEW b, NEW rem
  PROVE  LET n == EndFlags(hh, b, rem) IN
         /\ SameNotes(n, hh) /\ SameEnd(n, hh)
         /\ n.ilstend = FALSE
         /\ n.freeneg => hh.freeneg \/ (b.nm = "free" /\ hh.ilstend /\ rem < 0)
         /\ n.dofix => hh.dofix \/ (b.nm = "udta" /\ hh.freeneg)
<1> DEFINE n    == EndFlags(hh, b, rem)
           done == hh.ilstdone \/ b.nm = "ilst"
           neg  == hh.freeneg \/ (b.nm = "free" /\ hh.ilstend /\ ~ hh.ilstdone /\ rem < 0)
           zero == hh.udtazero \/ (b.nm = "udta" /\ rem = 0)
           fix  == hh.dofix \/ (b.nm = "udta" /\ hh.ilstremain /\ ~ done /\ neg /\ zero)
<1>1. n = [hh EXCEPT !.ilstdone = done, !.freeneg = neg, !.udtazero = zero,
                     !.dofix = fix, !.ilstend = FALSE]
  BY DEF EndFlags, Handle
<1>2. /\ neg => hh.freeneg \/ (b.nm = "free" /\ hh.ilstend /\ rem < 0)
      /\ fix => hh.dofix \/ (b.nm = "udta" /\ hh.freeneg)
  OBVIOUS
<1> HIDE DEF n, done, neg, zero, fix
<1>3. SameNotes(n, hh)
  BY <1>1 DEF Handle, SameNotes
<1>4. SameEnd(n, hh)
  BY <1>1 DEF Handle, SameEnd
<1>5. n.ilstend = FALSE /\ n.freeneg = neg /\ n.dofix = fix
  BY <1>1 DEF Handle
<1>. QED
  BY <1>2, <1>3, <1>4, <1>5 DEF n

LEMMA LeaveNotes ==
  ASSUME TypeInv, Parsing, NEW hh \in Handle, NEW p, LeaveLoop(hh, p)
  PROVE  SameNotes(h', hh) /\ SameMarks(h', hh) /\ SameEnd(h', hh)
<1> DEFINE u == hh.unlimited \/ (Level = 0 /\ hh.checkforfree /\ p = FileSz(file))
           e == [hh EXCEPT !.unlimited = u]
           n == [e EXCEPT !.checkforfree = FALSE, !.parsedone = TRUE]
<1>1. h' = n \/ h' = e
  <2>1. e = [hh EXCEPT !.unlimited = @ \/ (Level = 0 /\ hh.checkforfree /\ p = FileSz(file))]
    BY DEF Handle
  <2>. QED  BY <2>1 DEF LeaveLoop, Return
<1> HIDE DEF u
<1>2. SameNotes(e, hh) /\ SameNotes(n, hh)
  BY DEF Handle, SameNotes
<1>3. SameMarks(e, hh) /\ SameEnd(e, hh)
  BY DEF Handle, SameMarks, SameEnd
<1>4. SameMarks(n, hh) /\ SameEnd(n, hh)
  BY DEF Handle, SameMarks, SameEnd
<1> HIDE DEF e, n
<1>. QED
  BY <1>1, <1>2, <1>3, <1>4

LEMMA EnterNotes ==
  ASSUME NEW hh \in Handle, NEW b, NEW skip, Enter(hh, b, skip)
  PROVE  SameNotes(h', hh) /\ SameMarks(h', hh) /\ SameEnd(h', hh)
<1> DEFINE n == [hh EXCEPT !.mp4error = "unable_to_process"]
<1>1. h' = n \/ h' = hh
  BY DEF Enter
<1>2. SameNotes(n, hh)
  BY DEF Handle, SameNotes
<1>3. SameMarks(n, hh) /\ SameEnd(n, hh)
  BY DEF Handle, SameMarks, SameEnd
<1> HIDE DEF n
<1>. QED
  BY <1>1, <1>2, <1>3 DEF SameNotes, SameMarks, SameEnd

\* Where a box is done: it goes on, or the level ends and its flags are set.
Going(b) ==
  /\ pc' = "header" /\ (h'.ilstend <=> h.ilstend \/ b.nm = "ilst")
  /\ h'.freeneg = h.freeneg /\ h'.dofix = h.dofix
Ended(b) ==
  /\ stack' = Front(stack) /\ pc' = (IF Len(stack) = 1 THEN "done" ELSE "body")
  /\ Top.boxlen # 0 /\ h'.ilstend = FALSE
  /\ h'.freeneg => h.freeneg \/ (b.nm = "free" /\ h.ilstend /\ Top.rem - b.len < 0)
  /\ h'.dofix => h.dofix \/ (b.nm = "udta" /\ h.freeneg)

LEMMA AccountNotes ==
  ASSUME TypeInv, pc = "body", NEW hh \in Handle, SameMarks(hh, h), NEW b \in Header,
         Account(hh, b)
  PROVE  SameNotes(h', hh) /\ SameEnd(h', hh) /\ (Going(b) \/ Ended(b))
<1> DEFINE rem  == Top.rem - b.len
           m    == [hh EXCEPT !.ilst_remaining = rem, !.ilstend = TRUE,
                              !.ilstremain = @ \/ rem # 0]
           seen == IF b.nm # "ilst" THEN hh ELSE m
<1>1. stack \in Seq(Frame) /\ stack # <<>> /\ rem \in Int
  <2>1. stack \in Seq(Frame) /\ stack # <<>>
    BY DEF TypeInv, Parsing
  <2>2. Top \in Frame
    BY <2>1, StackFacts
  <2>. QED  BY <2>1, <2>2 DEF Frame, Header
<1>2. IF rem <= 0 /\ Top.boxlen # 0
      THEN Return(EndFlags(seen, b, rem))
      ELSE /\ h' = seen
           /\ stack' = AtTop([Top EXCEPT !.rem = rem])
           /\ pc' = "header"
  BY DEF Account
<1>3. /\ hh.ilstend \in BOOLEAN /\ h.ilstend \in BOOLEAN
      /\ hh.ilstend = h.ilstend /\ hh.freeneg = h.freeneg /\ hh.dofix = h.dofix
  BY DEF TypeInv, Handle, SameMarks
<1>4. m \in Handle
  <2> DEFINE m1 == [hh EXCEPT !.ilst_remaining = rem]
             v  == hh.ilstremain \/ rem # 0
  <2>1. m1 \in Handle /\ m1.ilstremain = hh.ilstremain
    BY <1>1 DEF Handle
  <2>2. m = [m1 EXCEPT !.ilstend = TRUE, !.ilstremain = v]
    BY DEF Handle
  <2>3. v \in BOOLEAN
    OBVIOUS
  <2> HIDE DEF m1, v
  <2>. QED  BY <2>1, <2>2, <2>3 DEF Handle
<1>5. SameNotes(m, hh) /\ SameEnd(m, hh)
  <2>1. SameNotes(m, hh)
    BY DEF Handle, SameNotes
  <2>. QED  BY <2>1 DEF Handle, SameEnd
<1>6. m.ilstend = TRUE /\ m.freeneg = hh.freeneg /\ m.dofix = hh.dofix
  BY DEF Handle
<1> HIDE DEF m, rem
<1>7. /\ seen \in Handle /\ SameNotes(seen, hh) /\ SameEnd(seen, hh)
      /\ seen.freeneg = h.freeneg /\ seen.dofix = h.dofix
      /\ seen.ilstend <=> h.ilstend \/ b.nm = "ilst"
      /\ b.nm # "ilst" => seen.ilstend = h.ilstend
  BY <1>3, <1>4, <1>5, <1>6 DEF SameNotes, SameEnd
<1> HIDE DEF seen
<1>8. CASE rem <= 0 /\ Top.boxlen # 0
  <2> DEFINE n == EndFlags(seen, b, rem)
  <2>1. /\ SameNotes(n, seen) /\ SameEnd(n, seen)
        /\ n.ilstend = FALSE
        /\ n.freeneg => seen.freeneg \/ (b.nm = "free" /\ seen.ilstend /\ rem < 0)
        /\ n.dofix => seen.dofix \/ (b.nm = "udta" /\ seen.freeneg)
    BY <1>7, EndFlagsNotes
  <2> HIDE DEF n
  <2>2. Return(n)
    BY <1>2, <1>8 DEF n
  <2>3. h' = n /\ stack' = Front(stack) /\ pc' = (IF Len(stack) = 1 THEN "done" ELSE "body")
    BY <2>2, ReturnFacts DEF Parsing
  <2>4. SameNotes(h', hh) /\ SameEnd(h', hh)
    BY <1>7, <2>1, <2>3 DEF SameNotes, SameEnd
  <2>5. Ended(b)
    BY <1>7, <1>8, <2>1, <2>3 DEF Ended, rem
  <2>. QED  BY <2>4, <2>5
<1>9. CASE ~ (rem <= 0 /\ Top.boxlen # 0)
  <2>1. h' = seen /\ pc' = "header"
    BY <1>2, <1>9
  <2>. QED  BY <1>7, <2>1 DEF Going
<1>. QED
  BY <1>8, <1>9

\* What is noted at the header of b.
Examined(b) ==
  LET n == Noted(h, b, pos + b.head, Level) IN
  /\ b.len # 0 /\ pos + b.head <= FileSz(file) /\ pos' >= pos + b.head
  /\ IF ~ Counts(b) /\ Descends(b) THEN SameNotes(h', WithBase(n, b, pos + b.head, Level))
     ELSE SameNotes(h', n)
  /\ ~ Counts(b) => SameEnd(h', n)

LEMMA HeaderNotes ==
  ASSUME ShapeInv, ReadHeader
  PROVE  /\ SameMarks(h', h)
         /\ \/ stack' = Front(stack) /\ SameNotes(h', h) /\ SameEnd(h', h)
            \/ pos + BoxHead <= FileSz(file) /\ \E b \in HeadersAt(file, pos) : Examined(b)
<1> DEFINE Chosen(b) ==
             \/ /\ b.len = 0
                /\ pos' = pos + BoxHead
                /\ LeaveLoop([h EXCEPT !.parsedone = TRUE], pos + BoxHead)
                /\ UNCHANGED <<tags, faults, faulty>>
             \/ b.len # 0 /\ b.head # BoxHead /\ ReadFails(b.head, h)
             \/ /\ b.len # 0 /\ pos + b.head <= FileSz(file)
                /\ Examine(b, pos + b.head) /\ UNCHANGED tags
<1>1. TypeInv /\ IsFile(file) /\ pos \in Nat /\ h \in Handle /\ Parsing
  BY DEF ShapeInv, TypeInv, ReadHeader, Parsing
<1>2. stack \in Seq(Frame) /\ stack # <<>>
  BY <1>1 DEF TypeInv
<1>3. Level \in Levels
  <2>1. Len(stack) <= LevelMax /\ LevelMax \in Nat
    BY <1>1, ParserAssumption DEF TypeInv
  <2>. QED  BY <1>2, <2>1, StackFacts DEF Levels
<1>6. ASSUME NEW k, ReadFails(k, h)
      PROVE  SameMarks(h', h) /\ stack' = Front(stack) /\ SameNotes(h', h) /\ SameEnd(h', h)
  <2>1. PICK s \in Short(k) : EndsShort(s) /\ LeaveLoop(h, s.upto)
    BY <1>6 DEF ReadFails
  <2>2. stack' = Front(stack)
    BY <1>1, <2>1, LeaveFacts
  <2>3. SameNotes(h', h) /\ SameMarks(h', h) /\ SameEnd(h', h)
    BY <1>1, <2>1, LeaveNotes
  <2>. QED  BY <2>2, <2>3
<1>4. CASE ReadFails(BoxHead, h)
  BY <1>4, <1>6
<1>5. CASE pos + BoxHead <= FileSz(file) /\ \E b \in HeadersAt(file, pos) : Chosen(b)
  <2>1. PICK b \in HeadersAt(file, pos) : Chosen(b)
    BY <1>5
  <2>2. b \in Header /\ b.head \in {8, 16} /\ b.at = pos
    BY <1>1, HeaderFacts
  <2>3. CASE b.len = 0 /\ LeaveLoop([h EXCEPT !.parsedone = TRUE], pos + BoxHead)
    <3> DEFINE hh == [h EXCEPT !.parsedone = TRUE]
    <3>1. hh \in Handle /\ SameNotes(hh, h)
      BY <1>1 DEF Handle, SameNotes
    <3>2. SameMarks(hh, h) /\ SameEnd(hh, h)
      BY <1>1 DEF Handle, SameMarks, SameEnd
    <3> HIDE DEF hh
    <3>3. SameNotes(h', hh) /\ SameMarks(h', hh) /\ SameEnd(h', hh) /\ stack' = Front(stack)
      BY <1>1, <2>3, <3>1, LeaveNotes, LeaveFacts DEF hh
    <3>4. SameNotes(h', h) /\ SameMarks(h', h) /\ SameEnd(h', h)
      BY <3>1, <3>2, <3>3 DEF SameNotes, SameMarks, SameEnd
    <3>. QED  BY <3>3, <3>4
  <2>4. CASE ReadFails(b.head, h)
    BY <1>6, <2>4
  <2>5. CASE b.len # 0 /\ pos + b.head <= FileSz(file) /\ Examine(b, pos + b.head)
    <3> DEFINE off    == pos + b.head
               noted  == Noted(h, b, off, Level)
               isfree == noted.checkforfree /\ b.nm = "free"
               seen   == IF isfree THEN CountFree(noted, b, Level) ELSE noted
    <3>1. /\ off \in Nat /\ off >= BoxHead /\ noted \in Handle
          /\ b.nm = "ilst" => Payload(b) \in Nat
      BY <1>1, <1>3, <2>5, ExamineTypes
    <3>2. noted.checkforfree = Counts(b)
      BY <1>1, <1>3, <2>2, <3>1, NotedFacts DEF Counts
    <3>3. SameMarks(noted, h)
      BY <1>1, <3>1, NotedNotes
    <3>4. \/ /\ noted.checkforfree
             /\ LeaveLoop([WithDataLen(noted) EXCEPT !.checkforfree = FALSE,
                                                     !.parsedone = TRUE], off)
          \/ /\ ~ noted.checkforfree /\ Descends(b)
             /\ Enter(WithBase(seen, b, off, Level), b, Skip(b))
          \/ /\ ~ noted.checkforfree /\ Descends(b)
             /\ Enter([WithBase(seen, b, off, Level) EXCEPT !.mp4error = "seek"], b, Skip(b))
          \/ /\ isfree \/ ~ (noted.checkforfree \/ Descends(b))
             /\ h' = seen
      BY <2>5 DEF Examine
    <3>0. Counts(b) \in BOOLEAN
      BY <1>1, <3>1, <3>2 DEF Handle
    <3> HIDE DEF noted, off
    <3>5. /\ seen \in Handle /\ SameNotes(seen, noted) /\ SameMarks(seen, noted)
          /\ ~ Counts(b) => seen = noted
      <4>1. isfree => b.len \in Nat
        <5>1. b.nm = "free" => b.len \in Nat
          BY <1>1, <1>3, <2>5, ExamineTypes
        <5>. QED  BY <5>1
      <4>2. isfree => /\ CountFree(noted, b, Level) \in Handle
                      /\ SameNotes(CountFree(noted, b, Level), noted)
                      /\ SameMarks(CountFree(noted, b, Level), noted)
        BY <2>2, <3>1, <4>1, CountFreeFacts, CountFreeNotes
      <4>. QED  BY <3>1, <3>2, <4>2 DEF SameNotes, SameMarks
    <3>6. SUFFICES ASSUME TRUE
                   PROVE  /\ SameMarks(h', noted)
                          /\ IF ~ Counts(b) /\ Descends(b)
                             THEN SameNotes(h', WithBase(noted, b, off, Level))
                             ELSE SameNotes(h', noted)
                          /\ ~ Counts(b) => SameEnd(h', noted)
      <4>0. pos' >= pos + b.head
        <5>1. Skip(b) \in Nat /\ (pos' = off \/ pos' = off + Skip(b))
          BY <2>2, <2>5, SkipFacts DEF Examine, off
        <5>. QED  BY <3>1, <5>1 DEF off
      <4>1. Examined(b) /\ SameMarks(h', h)
        BY <2>5, <3>3, <3>6, <4>0 DEF Examined, noted, off, SameMarks
      <4>. QED  BY <1>5, <4>1
    <3>7. CASE /\ noted.checkforfree
               /\ LeaveLoop([WithDataLen(noted) EXCEPT !.checkforfree = FALSE,
                                                       !.parsedone = TRUE], off)
      <4> DEFINE w  == WithDataLen(noted)
                 hh == [w EXCEPT !.checkforfree = FALSE, !.parsedone = TRUE]
      <4>1. w \in Handle /\ SameNotes(w, noted) /\ SameMarks(w, noted)
        BY <3>1, WithDataLenFacts, WithDataLenNotes
      <4> HIDE DEF w
      <4>2. hh \in Handle /\ SameNotes(hh, w)
        BY <4>1 DEF Handle, SameNotes
      <4>3. SameMarks(hh, w)
        BY <4>1 DEF Handle, SameMarks
      <4>4. LeaveLoop(hh, off)
        BY <3>7 DEF w
      <4> HIDE DEF hh
      <4>5. SameNotes(h', hh) /\ SameMarks(h', hh)
        BY <1>1, <4>2, <4>4, LeaveNotes
      <4>6. SameNotes(h', noted) /\ SameMarks(h', noted)
        BY <4>1, <4>2, <4>3, <4>5 DEF SameNotes, SameMarks
      <4>. QED  BY <3>2, <3>7, <4>6
    <3> DEFINE based == WithBase(seen, b, off, Level)
    <3>8. CASE /\ ~ noted.checkforfree /\ Descends(b)
               /\ \/ Enter(based, b, Skip(b))
                  \/ Enter([based EXCEPT !.mp4error = "seek"], b, Skip(b))
      <4>1. seen = noted /\ ~ Counts(b)
        BY <3>0, <3>2, <3>5, <3>8
      <4>6. based = WithBase(noted, b, off, Level)
        BY <4>1
      <4> HIDE DEF seen
      <4>7. based \in Handle /\ SameMarks(based, noted) /\ SameEnd(based, noted)
        BY <1>3, <2>2, <3>1, <4>6, WithBaseFacts, WithBaseNotes
      <4> HIDE DEF based
      <4> DEFINE sought == [based EXCEPT !.mp4error = "seek"]
      <4>8. sought \in Handle /\ SameNotes(sought, based)
        BY <4>7 DEF Handle, Errors, SameNotes
      <4>9. SameMarks(sought, noted) /\ SameEnd(sought, noted)
        BY <4>7 DEF Handle, SameMarks, SameEnd
      <4>10. Enter(based, b, Skip(b)) \/ Enter(sought, b, Skip(b))
        BY <3>8
      <4> HIDE DEF sought
      <4>11. PICK w \in {based, sought} : Enter(w, b, Skip(b))
        BY <4>10
      <4>2. w \in Handle /\ SameMarks(w, noted) /\ SameEnd(w, noted) /\ SameNotes(w, based)
        BY <4>7, <4>8, <4>9 DEF SameNotes
      <4>3. Enter(w, b, Skip(b))
        BY <4>11
      <4>4. SameNotes(h', w) /\ SameMarks(h', w) /\ SameEnd(h', w)
        BY <4>2, <4>3, EnterNotes
      <4>5. SameMarks(h', noted) /\ SameEnd(h', noted)
        BY <4>2, <4>4 DEF SameMarks, SameEnd
      <4>12. SameNotes(h', based)
        BY <4>2, <4>4 DEF SameNotes
      <4>. QED  BY <3>8, <4>1, <4>5, <4>6, <4>12
    <3>9. CASE (isfree \/ ~ (noted.checkforfree \/ Descends(b))) /\ h' = seen
      <4>1. ~ (~ Counts(b) /\ Descends(b))
        BY <3>0, <3>2, <3>9
      <4> HIDE DEF seen
      <4>2. SameNotes(h', noted) /\ SameMarks(h', noted) /\ (~ Counts(b) => SameEnd(h', noted))
        BY <3>5, <3>9 DEF SameEnd
      <4>. QED  BY <4>1, <4>2
    <3>. QED  BY <3>4, <3>7, <3>8, <3>9 DEF based
  <2>. QED  BY <2>1, <2>3, <2>4, <2>5
<1>. QED
  BY <1>4, <1>5 DEF ReadHeader

\* Where its data cannot be read or skipped.
Broken(b) ==
  /\ SameMarks(h', h) /\ stack' = Front(stack)
  /\ h'.mp4error # "ok" \/ h'.parsedone = (h.parsedone \/ StillCounts(b))

LEMMA BodyNotes ==
  ASSUME ShapeInv, FinishBox
  PROVE  LET b == Top.box IN
         /\ ~ (b.nm = "moov" /\ h.noilst_offset = 0) => SameNotes(h', h) /\ SameEnd(h', h)
         /\ b.nm = "moov" /\ h.noilst_offset = 0 =>
              SameNotes(h', [h EXCEPT !.noilst_offset = pos]) /\ h'.after_ilst_offset = pos
         /\ Going(b) \/ Ended(b) \/ Broken(b)
<1> DEFINE b  == Top.box
           hh == Behind(h, b)
<1>1. TypeInv /\ pos \in Nat /\ h \in Handle /\ Parsing /\ pc = "body"
  BY DEF ShapeInv, TypeInv, FinishBox, Parsing
<1>2. stack \in Seq(Frame) /\ stack # <<>>
  BY <1>1 DEF TypeInv
<1>3. b \in Header
  <2>1. Top \in Frame
    BY <1>2, StackFacts
  <2>. QED  BY <2>1 DEF Frame
<1>4. ReadData(hh, b) \/ SkipData(hh, b)
  BY DEF FinishBox
<1> HIDE DEF b
<1>5. hh \in Handle /\ hh.parsedone = h.parsedone /\ hh.checkforfree = StillCounts(b)
  BY <1>1, <1>3, BehindFacts DEF StillCounts
<1>6. /\ SameMarks(hh, h)
      /\ ~ (b.nm = "moov" /\ h.noilst_offset = 0) => SameNotes(hh, h) /\ SameEnd(hh, h)
      /\ b.nm = "moov" /\ h.noilst_offset = 0 =>
           SameNotes(hh, [h EXCEPT !.noilst_offset = pos]) /\ hh.after_ilst_offset = pos
  BY <1>1, BehindNotes
<1> HIDE DEF hh
<1>7. SUFFICES /\ SameNotes(h', hh) /\ SameEnd(h', hh)
               /\ \/ Going(b) \/ Ended(b)
                  \/ /\ SameMarks(h', hh) /\ stack' = Front(stack)
                     /\ h'.mp4error # "ok" \/ h'.parsedone = (h.parsedone \/ StillCounts(b))
  <2> DEFINE m == [h EXCEPT !.noilst_offset = pos]
  <2> HIDE DEF m
  <2>1. SameMarks(h', hh) => SameMarks(h', h)
    BY <1>6 DEF SameMarks
  <2>2. ~ (b.nm = "moov" /\ h.noilst_offset = 0) => SameNotes(h', h) /\ SameEnd(h', h)
    BY <1>6, <1>7 DEF SameNotes, SameEnd
  <2>3. b.nm = "moov" /\ h.noilst_offset = 0 => SameNotes(h', m) /\ h'.after_ilst_offset = pos
    <3>1. b.nm = "moov" /\ h.noilst_offset = 0 => SameNotes(hh, m) /\ hh.after_ilst_offset = pos
      BY <1>6 DEF m
    <3>. QED  BY <1>7, <3>1 DEF SameNotes, SameEnd
  <2>4. Going(b) \/ Ended(b) \/ Broken(b)
    BY <1>7, <2>1 DEF Broken
  <2>5. /\ ~ (b.nm = "moov" /\ h.noilst_offset = 0) => SameNotes(h', h) /\ SameEnd(h', h)
        /\ b.nm = "moov" /\ h.noilst_offset = 0 =>
             SameNotes(h', [h EXCEPT !.noilst_offset = pos]) /\ h'.after_ilst_offset = pos
        /\ Going(b) \/ Ended(b) \/ Broken(b)
    BY <2>2, <2>3, <2>4, Zenon DEF m
  <2>. QED  BY <2>5, Zenon DEF b
<1>8. CASE Account(hh, b)
  BY <1>1, <1>3, <1>5, <1>6, <1>8, AccountNotes
<1>9. ASSUME NEW n, NEW g \in Handle, LeaveLoop(g, n),
             g.parsedone = h.parsedone, g.checkforfree = StillCounts(b), SameNotes(g, hh), SameMarks(g, hh), SameEnd(g, hh)
      PROVE  /\ SameNotes(h', hh) /\ SameEnd(h', hh)
             /\ SameMarks(h', hh) /\ stack' = Front(stack)
             /\ h'.parsedone = (h.parsedone \/ StillCounts(b))
  <2>1. SameNotes(h', g) /\ SameMarks(h', g) /\ SameEnd(h', g)
    BY <1>1, <1>9, LeaveNotes
  <2>2. stack' = Front(stack) /\ h'.parsedone = (g.parsedone \/ g.checkforfree)
    BY <1>1, <1>9, LeaveFacts
  <2>. QED  BY <1>9, <2>1, <2>2 DEF SameNotes, SameMarks, SameEnd
<1>10. CASE ReadFails(Payload(b), hh)
  <2>1. PICK s \in Short(Payload(b)) : LeaveLoop(hh, s.upto)
    BY <1>10 DEF ReadFails
  <2>2. SameNotes(hh, hh) /\ SameMarks(hh, hh) /\ SameEnd(hh, hh)
    BY DEF SameNotes, SameMarks, SameEnd
  <2>. QED  BY <1>5, <1>9, <2>1, <2>2
<1>11. ASSUME NEW e \in Errors
       PROVE  LET g == [hh EXCEPT !.mp4error = e] IN
              /\ g \in Handle /\ SameNotes(g, hh) /\ SameMarks(g, hh) /\ SameEnd(g, hh)
             /\ g.mp4error = e /\ g.parsedone = hh.parsedone /\ g.checkforfree = hh.checkforfree
  <2> DEFINE g == [hh EXCEPT !.mp4error = e]
  <2>1. g \in Handle /\ SameNotes(g, hh)
    BY <1>5 DEF Handle, SameNotes
  <2>2. SameMarks(g, hh) /\ SameEnd(g, hh)
    BY <1>5 DEF Handle, SameMarks, SameEnd
  <2>3. g.mp4error = e /\ g.parsedone = hh.parsedone /\ g.checkforfree = hh.checkforfree
    BY <1>5 DEF Handle
  <2>. QED  BY <2>1, <2>2, <2>3
<1>12. CASE Return([hh EXCEPT !.mp4error = "out_of_memory"])
  <2> DEFINE g == [hh EXCEPT !.mp4error = "out_of_memory"]
  <2>1. "out_of_memory" \in Errors
    BY DEF Errors
  <2>2. /\ g \in Handle /\ SameNotes(g, hh) /\ SameMarks(g, hh) /\ SameEnd(g, hh)
        /\ g.mp4error # "ok" /\ g.parsedone = hh.parsedone /\ g.checkforfree = hh.checkforfree
    BY <1>11, <2>1
  <2>3. Return(g)
    BY <1>12
  <2> HIDE DEF g
  <2>4. h' = g /\ stack' = Front(stack)
    BY <2>3 DEF Return
  <2>. QED  BY <2>2, <2>4
<1>13. CASE LeaveLoop([hh EXCEPT !.mp4error = "seek"], pos)
  <2> DEFINE g == [hh EXCEPT !.mp4error = "seek"]
  <2>1. "seek" \in Errors
    BY DEF Errors
  <2>2. /\ g \in Handle /\ SameNotes(g, hh) /\ SameMarks(g, hh) /\ SameEnd(g, hh)
        /\ g.mp4error # "ok" /\ g.parsedone = hh.parsedone /\ g.checkforfree = hh.checkforfree
    BY <1>11, <2>1
  <2>3. LeaveLoop(g, pos)
    BY <1>13
  <2> HIDE DEF g
  <2>. QED  BY <1>5, <1>9, <2>2, <2>3
<1>. QED
  BY <1>4, <1>8, <1>10, <1>12, <1>13 DEF ReadData, SkipData

-----------------------------------------------------------------------------
(* The inductive invariant: the parents of the tag list.                   *)

\* The parents whose lengths may be changed are behind ftyp: those of the calls
\* that have not returned, and those of the tag list.
OneList(f) == \A i, j \in DOMAIN f : f[i].nm = "ilst" /\ f[j].nm = "ilst" => i = j
OuterBases(n) == \A k \in 0 .. n : h.base_offsets[k] >= 8
BasesInv ==
  mode = "rw" /\ file # <<>> =>
    /\ Parsing => pos >= 8
    /\ h.taglist_offset = 0 => h.parentidx = -1 /\ OuterBases(Len(stack) - 2)
    /\ OneList(file) /\ h.taglist_offset # 0 =>
         /\ \A q \in DOMAIN file : file[q].nm = "ilst" => file[q].at < pos
         /\ OuterBases(h.parentidx)

LEMMA ReadHeaderBases ==
  ASSUME ShapeInv, BasesInv, ReadHeader
  PROVE  BasesInv'
<1> SUFFICES ASSUME mode' = "rw", file' # <<>>
             PROVE  /\ Parsing' => pos' >= 8
                    /\ h'.taglist_offset = 0 => h'.parentidx = -1 /\ OuterBases(Len(stack) - 2)'
                    /\ OneList(file') /\ h'.taglist_offset # 0 =>
                         /\ \A q \in DOMAIN file' : file'[q].nm = "ilst" => file'[q].at < pos'
                         /\ OuterBases(h.parentidx)'
  BY DEF BasesInv
<1>1. /\ IsFile(file) /\ pos \in Nat /\ h \in Handle /\ Parsing /\ stack \in Seq(Frame) /\ stack # <<>>
      /\ FileSz(file) \in Nat
  BY Places DEF ShapeInv, TypeInv, ReadHeader, Parsing
<1>2. file' = file /\ mode' = mode /\ mode = "rw" /\ file # <<>> /\ pos' \in Nat /\ pos' >= pos
  BY HeaderSteps DEF ReadHeader
<1>3. /\ pos >= 8
      /\ h.taglist_offset = 0 => h.parentidx = -1 /\ OuterBases(Len(stack) - 2)
      /\ OneList(file) /\ h.taglist_offset # 0 =>
           /\ \A q \in DOMAIN file : file[q].nm = "ilst" => file[q].at < pos
           /\ OuterBases(h.parentidx)
  BY <1>1, <1>2 DEF BasesInv
<1>4. pos' >= 8
  BY <1>1, <1>2, <1>3
<1>5. /\ Len(stack) \in Nat /\ Len(stack) >= 1 /\ Level = Len(stack) - 1 /\ Level \in Levels
      /\ Len(Front(stack)) = Len(stack) - 1
  <2>1. Len(stack) <= LevelMax /\ LevelMax \in Nat
    BY <1>1, ParserAssumption DEF ShapeInv, TypeInv
  <2>. QED  BY <1>1, <2>1, StackFacts DEF Levels
<1>6. \A q \in DOMAIN file : file[q].at \in Nat /\ (file[q].at < pos => file[q].at < pos')
  <2>1. \A q \in DOMAIN file : file[q].at \in Nat
    BY <1>1, Places, CellFacts
  <2>. QED  BY <1>1, <1>2, <2>1
<1>7. CASE stack' = Front(stack) /\ SameNotes(h', h)
  <2>1. h'.parentidx = h.parentidx /\ h'.taglist_offset = h.taglist_offset
        /\ h'.base_offsets = h.base_offsets /\ Len(stack') = Len(stack) - 1
    BY <1>5, <1>7 DEF SameNotes
  <2>2. OuterBases(Len(stack) - 2) => OuterBases(Len(stack) - 2)'
    BY <1>5, <2>1 DEF OuterBases
  <2>3. OuterBases(h.parentidx) => OuterBases(h.parentidx)'
    BY <2>1 DEF OuterBases
  <2>. QED  BY <1>2, <1>3, <1>4, <1>6, <2>1, <2>2, <2>3
<1>8. CASE pos + BoxHead <= FileSz(file) /\ \E b \in HeadersAt(file, pos) : Examined(b)
  <2>1. PICK b \in HeadersAt(file, pos) : Examined(b)
    BY <1>8
  <2>2. b \in Header /\ b.head \in {8, 16} /\ b.at = pos
        /\ (b.nm = "junk" \/ \E i \in DOMAIN file : b = file[i] /\ file[i].at = pos)
    BY <1>1, HeaderFacts
  <2> DEFINE off == pos + b.head
  <2>3. off \in Nat /\ off >= 16 /\ off - BoxHead >= 8 /\ off # 0 /\ off >= BoxHead
    <3>1. pos \in Nat /\ pos >= 8 /\ b.head \in {8, 16}
      BY <1>1, <1>3, <2>2
    <3>. QED  BY <3>1 DEF BoxHead
  <2>30. b.len # 0
    BY <2>1 DEF Examined
  <2>31. Noted(h, b, off, Level) \in Handle
    BY <1>1, <1>5, <2>30, ExamineTypes DEF ShapeInv
  <2> HIDE DEF off
  <2> DEFINE n == Noted(h, b, off, Level)
  <2>4. /\ n.base_lengths = h.base_lengths /\ n.base_offsets = h.base_offsets
        /\ n.parentidx = (IF b.nm = "ilst" THEN Level - 1 ELSE h.parentidx)
        /\ n.taglist_offset = (IF b.nm = "ilst" THEN off ELSE h.taglist_offset)
    BY <1>1, <2>3, NotedNotes
  <2>5. n \in Handle
    BY <2>31
  <2> HIDE DEF n
  <2> DEFINE w == WithBase(n, b, off, Level)
  <2>6. /\ w.parentidx = n.parentidx /\ w.taglist_offset = n.taglist_offset
        /\ n.taglist_offset # 0 => w = n
        /\ n.taglist_offset = 0 =>
             /\ w.base_offsets[Level] = off - BoxHead
             /\ \A k \in Levels \ {Level} : w.base_offsets[k] = n.base_offsets[k]
    <3>1. Level \in Levels
      BY <1>5
    <3>2. SameMarks(w, n) /\ w.parentidx = n.parentidx /\ w.taglist_offset = n.taglist_offset
      BY <2>3, <2>5, <3>1, WithBaseNotes, ZenonT(30)
    <3>3. n.taglist_offset # 0 => w = n
      BY <2>3, <2>5, <3>1, WithBaseNotes, ZenonT(30)
    <3>4. n.taglist_offset = 0 =>
             /\ w.base_offsets[Level] = off - BoxHead
             /\ \A k \in Levels \ {Level} : w.base_offsets[k] = n.base_offsets[k]
      <4> HIDE DEF w
      <4>1. ASSUME n.taglist_offset = 0
            PROVE  /\ w.base_offsets[Level] = off - BoxHead
                   /\ \A k \in Levels \ {Level} : w.base_offsets[k] = n.base_offsets[k]
        <5>0. ASSUME NEW k \in Levels
              PROVE  w.base_offsets[k] = (IF k = Level THEN off - BoxHead ELSE n.base_offsets[k])
          <6>1. WithBase(n, b, off, Level).base_offsets[k] =
                  (IF k = Level THEN off - BoxHead ELSE n.base_offsets[k])
            <7>1. b \in Header /\ off \in Nat /\ n \in Handle /\ Level \in Levels /\ n.taglist_offset = 0 /\ k \in Levels
              BY <2>2, <2>3, <2>5, <3>1, <4>1
            <7>. QED  BY <7>1, WithBaseOffsets
          <6>. QED  BY <6>1 DEF w
        <5>1. \A k \in Levels :
                w.base_offsets[k] = (IF k = Level THEN off - BoxHead ELSE n.base_offsets[k])
          BY <5>0
        <5>2. \A k \in Levels \ {Level} : w.base_offsets[k] = n.base_offsets[k]
          BY <5>1
        <5>. QED  BY <3>1, <5>1, <5>2
      <4>. QED  BY <4>1
    <3>. QED  BY <3>2, <3>3, <3>4
  <2> HIDE DEF w
  <2>7. SameNotes(h', w) \/ (SameNotes(h', n) /\ (Counts(b) \/ ~ Descends(b)))
    BY <2>1 DEF Examined, w, n, off
  <2>8. Counts(b) \/ ~ Descends(b) => Len(stack') <= Len(stack)
    <3>1. ASSUME Counts(b) \/ ~ Descends(b), ~ (Len(stack') <= Len(stack))
          PROVE  FALSE
      <4>1. \A c \in HeadersAt(file, pos) : c = b \/ ~ Descends(c)
        <5>1. CASE b.nm = "junk"
          <6>1. pos \notin Starts(file)
            <7>1. "junk" \notin Names
              BY DEF Names, Containers
            <7>2. \A i \in DOMAIN file : file[i].nm \in Names
              BY <1>1, Places DEF Cell
            <7>3. \A i \in DOMAIN file : b # file[i]
              BY <5>1, <7>1, <7>2
            <7>. QED  BY <1>1, <2>1, <7>3, HeaderFacts
          <6>2. \A c \in HeadersAt(file, pos) : c.nm = "junk"
            BY <1>1, <6>1, HeaderFacts DEF Starts
          <6>. QED  BY <6>2 DEF Descends, Containers
        <5>2. CASE \E i \in DOMAIN file : b = file[i] /\ file[i].at = pos
          BY <1>1, <5>2, HeaderOf
        <5>. QED  BY <2>2, <5>1, <5>2
      <4>2. \A c \in HeadersAt(file, pos) : ~ HeaderEnters(c) /\ ~ HeaderMisses(c)
        BY <3>1, <4>1 DEF HeaderEnters, HeaderMisses
      <4>3. stack' = Front(stack) \/ \E c \in HeadersAt(file, pos) : stack' = At(c, Skip(c))
        BY <4>2, HeaderSteps DEF HeaderFails, HeaderBreaks, HeaderSkips, Left
      <4>4. \A c \in HeadersAt(file, pos) : c \in Header /\ Skip(c) \in Nat
        BY <1>1, HeaderFacts, SkipFacts
      <4>5. \A c \in HeadersAt(file, pos) : Len(At(c, Skip(c))) = Len(stack)
        BY <1>1, <4>4, AtFacts
      <4>. QED  BY <1>5, <3>1, <4>3, <4>5
    <3>. QED  BY <3>1
  <2>9. Len(stack') <= Len(stack) + 1 /\ Len(stack') \in Nat
    <3>1. \A c \in HeadersAt(file, pos) : c \in Header /\ Skip(c) \in Nat
      BY <1>1, HeaderFacts, SkipFacts
    <3>2. \A c \in HeadersAt(file, pos) :
            /\ Len(At(c, Skip(c))) = Len(stack) /\ Len(At(c, 0)) = Len(stack)
            /\ Len(Append(At(c, 0), Call((c.len - Skip(c)) % SkipMod))) = Len(stack) + 1
      <4>1. ASSUME NEW c \in HeadersAt(file, pos)
            PROVE  /\ Len(At(c, Skip(c))) = Len(stack) /\ Len(At(c, 0)) = Len(stack)
                   /\ Len(Append(At(c, 0), Call((c.len - Skip(c)) % SkipMod))) = Len(stack) + 1
        <5>1. Len(At(c, Skip(c))) = Len(stack) /\ Len(At(c, 0)) = Len(stack) /\ At(c, 0) \in Seq(Frame)
          BY <1>1, <3>1, AtFacts
        <5> DEFINE s == At(c, 0)
                   e == Call((c.len - Skip(c)) % SkipMod)
        <5> HIDE DEF s, e
        <5>2. Len(Append(s, e)) = Len(s) + 1
          BY <5>1 DEF s
        <5>. QED  BY <5>1, <5>2 DEF s, e
      <4>. QED  BY <4>1
    <3>3. \/ stack' = Front(stack)
          \/ \E c \in HeadersAt(file, pos) :
               stack' \in {At(c, Skip(c)), At(c, 0), Append(At(c, 0), Call((c.len - Skip(c)) % SkipMod))}
      BY HeaderSteps DEF HeaderFails, HeaderBreaks, HeaderSkips, HeaderEnters, HeaderMisses, Left
    <3>. QED  BY <1>5, <3>2, <3>3
  <2>10. CASE b.nm = "ilst"
    <3>1. PICK q \in DOMAIN file : b = file[q] /\ file[q].at = pos
      BY <2>2, <2>10
    <3>2. h'.parentidx = Level - 1 /\ h'.taglist_offset # 0 /\ h'.base_offsets = h.base_offsets
      <4>1. n.taglist_offset # 0 /\ n.parentidx = Level - 1
        BY <2>3, <2>4, <2>10
      <4>. QED  BY <2>4, <2>6, <2>7, <4>1 DEF SameNotes
    <3>3. ASSUME OneList(file)
          PROVE  /\ \A r \in DOMAIN file : file[r].nm = "ilst" => file[r].at < pos'
                 /\ OuterBases(h.parentidx)'
      <4>1. h.taglist_offset = 0
        BY <1>1, <1>3, <2>10, <3>1, <3>3
      <4>2. Level - 1 = Len(stack) - 2
        BY <1>5
      <4>3. OuterBases(h.parentidx)'
        BY <1>3, <3>2, <4>1, <4>2 DEF OuterBases
      <4>4. pos' > pos
        <5>1. pos' >= pos + b.head
          BY <2>1 DEF Examined
        <5>. QED  BY <1>1, <1>2, <2>2, <5>1
      <4>5. \A r \in DOMAIN file : file[r].nm = "ilst" => r = q
        BY <2>10, <3>1, <3>3 DEF OneList
      <4>. QED  BY <3>1, <4>3, <4>4, <4>5
    <3>. QED  BY <1>2, <1>4, <3>2, <3>3
  <2>11. CASE b.nm # "ilst"
    <3>1. h'.parentidx = h.parentidx /\ h'.taglist_offset = h.taglist_offset
      BY <2>4, <2>6, <2>7, <2>11 DEF SameNotes
    <3>2. CASE h.taglist_offset # 0
      <4>1. h'.base_offsets = h.base_offsets
        BY <2>4, <2>6, <2>7, <2>11, <3>2 DEF SameNotes
      <4>2. OuterBases(h.parentidx) => OuterBases(h.parentidx)'
        BY <3>1, <4>1 DEF OuterBases
      <4>. QED  BY <1>2, <1>3, <1>4, <1>6, <3>1, <3>2, <4>2
    <3>3. CASE h.taglist_offset = 0
      <4>1. \A k \in 0 .. Len(stack) - 2 : h'.base_offsets[k] = h.base_offsets[k]
        <5>1. \A k \in 0 .. Len(stack) - 2 : k \in Levels \ {Level}
          BY <1>5, ParserAssumption DEF Levels
        <5>2. \A k \in 0 .. Len(stack) - 2 : w.base_offsets[k] = n.base_offsets[k]
          BY <2>4, <2>6, <2>11, <3>3, <5>1
        <5>. QED  BY <2>4, <2>7, <5>2 DEF SameNotes
      <4>2. Len(stack') > Len(stack) => h'.base_offsets[Level] >= 8
        <5>1. Len(stack') > Len(stack) => SameNotes(h', w)
          BY <1>5, <2>7, <2>8, <2>9
        <5>. QED  BY <2>3, <2>4, <2>6, <2>11, <3>3, <5>1 DEF SameNotes
      <4>3. OuterBases(Len(stack) - 2)'
        <5>1. ASSUME NEW k \in 0 .. Len(stack') - 2
              PROVE  h'.base_offsets[k] >= 8
          <6>1. k \in 0 .. Len(stack) - 2 \/ (k = Level /\ Len(stack') > Len(stack))
            BY <1>5, <2>9, <5>1
          <6>. QED  BY <1>3, <3>3, <4>1, <4>2, <6>1 DEF OuterBases
        <5>. QED  BY <5>1 DEF OuterBases
      <4>. QED  BY <1>3, <1>4, <3>1, <3>3, <4>3
    <3>. QED  BY <3>2, <3>3
  <2>. QED  BY <2>10, <2>11
<1>. QED
  BY <1>7, <1>8, HeaderNotes

LEMMA FinishBoxBases ==
  ASSUME ShapeInv, BasesInv, FinishBox
  PROVE  BasesInv'
<1>1. /\ IsFile(file) /\ pos \in Nat /\ h \in Handle /\ Parsing /\ stack \in Seq(Frame) /\ stack # <<>>
  BY DEF ShapeInv, TypeInv, FinishBox, Parsing
<1>2. file' = file /\ mode' = mode /\ pos' \in Nat /\ pos' >= pos
  BY BodySteps DEF FinishBox
<1>3. /\ h'.parentidx = h.parentidx /\ h'.taglist_offset = h.taglist_offset
      /\ h'.base_offsets = h.base_offsets
  <2> DEFINE m == [h EXCEPT !.noilst_offset = pos]
  <2>1. m.parentidx = h.parentidx /\ m.taglist_offset = h.taglist_offset
        /\ m.base_offsets = h.base_offsets
    BY <1>1 DEF Handle
  <2>2. SameNotes(h', h) \/ SameNotes(h', m)
    BY BodyNotes
  <2> HIDE DEF m
  <2>. QED  BY <2>1, <2>2 DEF SameNotes
<1>4. Len(stack') <= Len(stack) /\ Len(stack') \in Nat /\ Len(stack) \in Nat
  <2>1. Len(stack) \in Nat /\ Len(stack) >= 1 /\ Len(Front(stack)) = Len(stack) - 1
    BY <1>1, StackFacts
  <2>2. stack' = Front(stack) \/ Len(stack') = Len(stack)
    BY BodySteps DEF BodyReads, BodySkips, BodyFails, Accounted, Left
  <2>. QED  BY <2>1, <2>2
<1>5. /\ OuterBases(Len(stack) - 2) => OuterBases(Len(stack) - 2)'
      /\ OuterBases(h.parentidx) => OuterBases(h.parentidx)'
  <2>1. \A k \in 0 .. Len(stack') - 2 : k \in 0 .. Len(stack) - 2
    BY <1>4
  <2>. QED  BY <1>3, <2>1 DEF OuterBases
<1>6. \A q \in DOMAIN file : file[q].at \in Nat /\ (file[q].at < pos => file[q].at < pos')
  <2>1. \A q \in DOMAIN file : file[q].at \in Nat
    BY <1>1, Places, CellFacts
  <2>. QED  BY <1>1, <1>2, <2>1
<1>. QED
  BY <1>1, <1>2, <1>3, <1>5, <1>6 DEF BasesInv

LEMMA NextBases == ShapeInv /\ BasesInv /\ [Next]_vars => BasesInv'
<1> SUFFICES ASSUME ShapeInv, BasesInv, [Next]_vars
             PROVE  BasesInv'
  OBVIOUS
<1>1. /\ NewHandle.taglist_offset = 0 /\ NewHandle.parentidx = -1
      /\ \A e : LET n == [NewHandle EXCEPT !.mp4error = e]
                IN n.taglist_offset = 0 /\ n.parentidx = -1
  BY DEF NewHandle
<1>2. CASE ReadFtyp \/ ReadBrands
  <2>1. /\ file' = file /\ mode' = mode /\ h = NewHandle /\ IsFile(file) /\ stack = <<>>
        /\ pos \in Nat /\ FileSz(file) \in Nat
    BY <1>2, Places DEF ReadFtyp, ReadBrands, ShapeInv, StartInv, TypeInv, Parsing
  <2>2. h' = NewHandle \/ \E e : h' = [NewHandle EXCEPT !.mp4error = e]
    BY <1>2, <2>1 DEF ReadFtyp, ReadBrands, StartParse, Refuse
  <2>3. Len(stack') <= 1 /\ Len(stack') \in Nat
    <3>1. stack' = <<>> \/ stack' = <<Call(0)>>
      BY <1>2, <2>1, SMTT(30) DEF ReadFtyp, ReadBrands, StartParse, Refuse
    <3>. QED  BY <3>1, CallZero
  <2>4. OuterBases(Len(stack) - 2)'
    BY <2>3 DEF OuterBases
  <2>5. ASSUME mode = "rw", file # <<>>, Parsing'
        PROVE  pos' >= 8
    <3>1. pc' \in {"header", "body"} /\ StartParse
      BY <1>2, <2>5 DEF Parsing, ReadFtyp, ReadBrands, Refuse
    <3>2. CASE ReadFtyp
      <4>1. pos = 0 /\ pc = "ftyp"
        BY <3>2 DEF ReadFtyp, ShapeInv, StartInv
      <4>2. PICK s \in Short(BoxHead) : EndsShort(s)
        BY <3>1, <3>2 DEF ReadFtyp, Refuse
      <4>3. ~ s.fault
        BY <2>5, <4>2 DEF EndsShort
      <4>4. pos + BoxHead > FileSz(file)
        BY <4>2, <4>3 DEF Short
      <4>5. FileSz(file) >= 8
        <5>1. 1 \in DOMAIN file /\ file[1] \in Cell /\ file[1].at = 0 /\ After(file[1]) <= FileSz(file)
          BY <2>1, <2>5, Places
        <5>. QED  BY <2>1, <5>1, CellFacts
      <4>. QED  BY <2>1, <4>1, <4>4, <4>5 DEF BoxHead
    <3>3. CASE ReadBrands
      <4>1. pos = 8 /\ pc = "brands"
        BY <3>3 DEF ReadBrands, ShapeInv, StartInv, BoxHead
      <4> DEFINE len == Payload(file[1]) % SkipMod
      <4>2. len \in Nat
        <5>1. 1 \in DOMAIN file /\ file[1] \in Cell
          BY <2>1, <2>5, Places
        <5>2. Payload(file[1]) \in Int /\ SkipMod \in Nat \ {0}
          BY <5>1, CellFacts, ParserAssumption
        <5> DEFINE x == Payload(file[1])
        <5> HIDE DEF x
        <5>3. x \in Int
          BY <5>2 DEF x
        <5>4. x % SkipMod \in Nat
          BY <5>2, <5>3
        <5>. QED  BY <5>4 DEF x
      <4>3. (\E s \in Short(len) : EndsShort(s)) \/ pos' = pos + len
        BY <3>1, <3>3 DEF ReadBrands, Refuse, StartParse
      <4> HIDE DEF len
      <4>4. pos' >= pos
        BY <2>1, <4>2, <4>3, EndsShortFacts DEF ShapeInv
      <4>5. pos' \in Nat
        BY <2>1, <4>2, <4>3, EndsShortFacts DEF ShapeInv
      <4>. QED  BY <4>1, <4>4, <4>5
    <3>. QED  BY <1>2, <3>2, <3>3
  <2>. QED  BY <1>1, <2>1, <2>2, <2>4, <2>5 DEF BasesInv
<1>3. CASE ReadHeader
  BY <1>3, ReadHeaderBases
<1>4. CASE FinishBox
  BY <1>4, FinishBoxBases
<1>5. CASE Repair \/ WriteTags
  <2>1. PICK f, p : p \in Nat /\ p >= 8 /\ Again(f, p)
    BY <1>5, AgainFile
  <2>2. h' = NewHandle /\ stack' = <<Call(0)>> /\ pos' = p
    BY <2>1 DEF Again
  <2>3. Len(stack') = 1
    BY <2>2, CallZero
  <2>4. OuterBases(Len(stack) - 2)'
    BY <2>3 DEF OuterBases
  <2>. QED  BY <1>1, <2>1, <2>2, <2>4 DEF BasesInv
<1>6. CASE UNCHANGED vars
  BY <1>6 DEF vars, BasesInv, OuterBases, Parsing
<1>. QED
  BY <1>2, <1>3, <1>4, <1>5, <1>6 DEF Next, ParseStep

LEMMA InitBases == Init => BasesInv
<1> SUFFICES ASSUME Init
             PROVE  BasesInv
  OBVIOUS
<1>1. ~ Parsing /\ h = NewHandle /\ stack = <<>>
  BY DEF Init, Parsing
<1>2. Len(stack) = 0 /\ h.taglist_offset = 0 /\ h.parentidx = -1
  BY <1>1 DEF NewHandle
<1>3. OuterBases(Len(stack) - 2)
  BY <1>2 DEF OuterBases
<1>. QED
  BY <1>1, <1>2, <1>3 DEF BasesInv

-----------------------------------------------------------------------------
(* The inductive invariant: headers, and all of the tags.                  *)

AtBox(f, p) == p \in Starts(f) \cup {FileSz(f)}

\* A call at a box whose content was entered; at one whose content is skipped.
Entered(f, fr) == fr.skip = 0 /\ \E i \in DOMAIN f : fr.box = f[i] /\ Descends(f[i])
Skipped(f, p, fr) ==
  \E i \in DOMAIN f : /\ fr.box = f[i] /\ f[i].len # 0 /\ ~ Descends(f[i])
                      /\ p = f[i].at + f[i].head /\ fr.skip = Payload(f[i])

HeadersInv ==
  ~ faulty /\ ~ h.parsedone /\ Readable(file) =>
    /\ pc = "header" => AtBox(file, pos)
    /\ pc = "body" => \/ Entered(file, stack[Len(stack)]) /\ AtBox(file, pos)
                      \/ Skipped(file, pos, stack[Len(stack)])
    /\ \A k \in 1 .. Len(stack) - 1 : Entered(file, stack[k])

\* The outermost call has no length of its own: it never returns at the end of a
\* box.
OuterInv == stack # <<>> => stack[1].boxlen = 0

\* The parser does not stop in front of the list, and behind the header of the
\* list it has all tags, or it is still within.
CompleteInv ==
  ~ faulty /\ h.mp4error = "ok" /\ Readable(file) /\ ListInReach(file) =>
    \A q \in DOMAIN file : file[q].nm = "ilst" =>
      /\ pos <= file[q].at => ~ h.parsedone /\ pc # "done"
      /\ file[q].at < pos => \/ tags = TagIds(file)
                             \/ h.processdata /\ stack[Len(stack)].box.nm # "ilst"

\* In a file that is a tree of boxes: the boxes end where others start.
LEMMA ReadableFacts ==
  ASSUME NEW f, IsFile(f), Readable(f)
  PROVE  /\ PlainList(f)
         /\ \A i \in DOMAIN f : f[i].len # 0 =>
              /\ Payload(f[i]) \in Nat /\ Payload(f[i]) >= f[i].body /\ Payload(f[i]) < SkipMod
              /\ EndOf(f, f[i]) = f[i].at + f[i].head + Payload(f[i])
              /\ AtBox(f, EndOf(f, f[i])) /\ EndOf(f, f[i]) <= FileSz(f)
         /\ \A i \in DOMAIN f : f[i].len = 0 => i = Len(f)
         /\ \A i \in DOMAIN f : AtBox(f, After(f[i]))
         /\ \A p : AtBox(f, p) => /\ p \in Nat /\ p <= FileSz(f)
                                  /\ p = FileSz(f) \/ \E i \in DOMAIN f : f[i].at = p
         /\ f # <<>> => f[1].len # 0 /\ f[1].head = 8
<1>1. /\ \A i \in DOMAIN f : /\ AtBox(f, EndOf(f, f[i]))
                             /\ EndOf(f, f[i]) >= After(f[i])
      /\ PlainList(f)
      /\ f # <<>> => f[1].len # 0 /\ f[1].head = BoxHead
      /\ \A i \in DOMAIN f : Payload(f[i]) < SkipMod /\ (f[i].len = 0 => i = Len(f))
  BY DEF Readable, BoxTree, AtBox
<1>2. /\ Len(f) \in Nat /\ DOMAIN f = 1 .. Len(f) /\ FileSz(f) \in Nat
      /\ f # <<>> => FileSz(f) = After(f[Len(f)])
      /\ \A i \in DOMAIN f : f[i] \in Cell /\ After(f[i]) <= FileSz(f)
      /\ \A i \in DOMAIN f : i + 1 \in DOMAIN f => f[i + 1].at = After(f[i])
  BY Places
<1>3. ASSUME NEW p, AtBox(f, p)
      PROVE  p \in Nat /\ p <= FileSz(f) /\ (p = FileSz(f) \/ \E i \in DOMAIN f : f[i].at = p)
  <2>1. CASE p = FileSz(f)
    BY <1>2, <2>1
  <2>2. CASE p \in Starts(f)
    <3>1. PICK i \in DOMAIN f : f[i].at = p
      BY <2>2 DEF Starts
    <3>2. f[i].at \in Nat /\ After(f[i]) \in Nat /\ f[i].at <= After(f[i])
      BY <1>2, CellFacts
    <3>. QED  BY <1>2, <3>1, <3>2
  <2>. QED  BY <1>3, <2>1, <2>2 DEF AtBox
<1>4. ASSUME NEW i \in DOMAIN f
      PROVE  AtBox(f, After(f[i]))
  <2>1. CASE i = Len(f)
    BY <1>2, <2>1 DEF AtBox
  <2>2. CASE i # Len(f)
    <3>1. i + 1 \in DOMAIN f
      BY <1>2, <2>2
    <3>. QED  BY <1>2, <3>1 DEF AtBox, Starts
  <2>. QED  BY <2>1, <2>2
<1>5. ASSUME NEW i \in DOMAIN f, f[i].len # 0
      PROVE  /\ Payload(f[i]) \in Nat /\ Payload(f[i]) >= f[i].body /\ Payload(f[i]) < SkipMod
             /\ EndOf(f, f[i]) = f[i].at + f[i].head + Payload(f[i])
             /\ AtBox(f, EndOf(f, f[i])) /\ EndOf(f, f[i]) <= FileSz(f)
  <2> DEFINE c == f[i]
             e == EndOf(f, f[i])
  <2>1. c \in Cell /\ e >= After(c) /\ e = c.at + c.len /\ AtBox(f, e) /\ Payload(c) < SkipMod
    BY <1>1, <1>2, <1>5 DEF EndOf
  <2>2. e <= FileSz(f)
    BY <1>3, <2>1
  <2> HIDE DEF c, e
  <2>3. /\ c.at \in Nat /\ c.head \in Nat /\ c.body \in Nat /\ c.len \in Int
        /\ After(c) = c.at + Size(c) /\ Payload(c) = c.len - c.head
    BY <2>1, CellFacts
  <2>4. Size(c) = c.head + c.body
    BY DEF Size
  <2>5. /\ Payload(c) \in Nat /\ Payload(c) >= c.body /\ e = c.at + c.head + Payload(c)
    BY <2>1, <2>3, <2>4
  <2>. QED  BY <2>1, <2>2, <2>5 DEF c, e
<1>. QED
  BY <1>1, <1>3, <1>4, <1>5 DEF BoxHead

\* A box that is entered, in a file: what is behind its header and its flags is
\* its first cell.
LEMMA DescendsFacts ==
  ASSUME NEW f, IsFile(f), NEW i \in DOMAIN f
  PROVE  /\ Descends(f[i]) => /\ f[i].at + f[i].head + Skip(f[i]) = After(f[i])
                              /\ f[i].nm \in Containers \cup {"meta"}
         /\ Readable(f) /\ f[i].len # 0 /\ ~ Descends(f[i])
              => /\ Skip(f[i]) = Payload(f[i])
                 /\ f[i].nm \in Containers \cup {"meta"} => Payload(f[i]) = 0
<1>1. /\ f[i].at \in Nat /\ f[i].head \in Nat /\ f[i].body \in Nat /\ Size(f[i]) \in Nat
      /\ After(f[i]) = f[i].at + Size(f[i]) /\ Size(f[i]) = f[i].head + f[i].body
  BY Places, CellFacts DEF Size
<1>2. /\ f[i].nm \in Containers => f[i].body = 0
      /\ f[i].nm = "meta" => f[i].body = 4
  BY DEF IsFile, MetaSz, BoxHead
<1>3. ASSUME Descends(f[i])
      PROVE  /\ f[i].at + f[i].head + Skip(f[i]) = After(f[i])
             /\ f[i].nm \in Containers \cup {"meta"}
  <2>1. f[i].nm \in Containers \cup {"meta"}
    BY <1>3 DEF Descends
  <2>2. CASE f[i].nm = "meta"
    <3>1. Skip(f[i]) = 4
      BY <2>2 DEF Skip, MetaSz, BoxHead
    <3>. QED  BY <1>1, <1>2, <2>1, <2>2, <3>1
  <2>3. CASE f[i].nm \in Containers
    <3>1. Skip(f[i]) = 0
      BY <2>3 DEF Skip, Containers
    <3>. QED  BY <1>1, <1>2, <2>1, <2>3, <3>1
  <2>. QED  BY <2>1, <2>2, <2>3
<1>4. ASSUME Readable(f), f[i].len # 0, ~ Descends(f[i])
      PROVE  /\ Skip(f[i]) = Payload(f[i])
             /\ f[i].nm \in Containers \cup {"meta"} => Payload(f[i]) = 0
  <2>1. Payload(f[i]) \in Nat /\ Payload(f[i]) >= f[i].body /\ Payload(f[i]) < SkipMod
    BY <1>4, ReadableFacts
  <2>2. f[i].nm # "meta"
    BY <1>2, <1>4, <2>1 DEF Descends
  <2>3. CASE f[i].nm \in Containers
    <3>1. Payload(f[i]) = 0
      BY <1>4, <2>3 DEF Descends
    <3>2. Skip(f[i]) = 0
      BY <2>3 DEF Skip, Containers
    <3>. QED  BY <3>1, <3>2
  <2>4. CASE f[i].nm \notin Containers
    <3>1. SkipMod \in Nat \ {0}
      BY ParserAssumption
    <3>2. Payload(f[i]) % SkipMod = Payload(f[i])
      <4> DEFINE x == Payload(f[i])
      <4>1. x \in Nat /\ x < SkipMod
        BY <2>1
      <4> HIDE DEF x
      <4>2. x % SkipMod = x
        BY <3>1, <4>1
      <4>. QED  BY <4>2 DEF x
    <3>. QED  BY <2>2, <2>4, <3>2 DEF Skip
  <2>. QED  BY <2>3, <2>4
<1>. QED
  BY <1>3, <1>4

\* Without a fault, where a box starts: its own header is read, as a whole.
LEMMA ProperHeader ==
  ASSUME ShapeInv, HeadersInv, ReadHeader, ~ faulty', ~ h.parsedone, Readable(file)
  PROVE  \/ pos = FileSz(file) /\ pos' = pos /\ HeaderFails
         \/ \E i \in DOMAIN file :
              /\ file[i].at = pos
              /\ \/ HeaderEnters(file[i]) \/ HeaderSkips(file[i])
                 \/ /\ HeaderBreaks(file[i]) /\ h'.parsedone = TRUE
                    /\ file[i].len = 0 \/ Counts(file[i])
<1>1. IsFile(file) /\ pos \in Nat /\ pc = "header" /\ FileSz(file) \in Nat
  BY Places DEF ShapeInv, TypeInv, ReadHeader
<1>2. ~ faulty
  BY HeaderSteps
<1>3. AtBox(file, pos)
  BY <1>1, <1>2 DEF HeadersInv
<1>4. pos <= FileSz(file) /\ (pos = FileSz(file) \/ \E i \in DOMAIN file : file[i].at = pos)
  BY <1>1, <1>3, ReadableFacts
<1>5. ASSUME NEW i \in DOMAIN file, file[i].at = pos
      PROVE  pos + 8 <= FileSz(file) /\ pos + file[i].head <= FileSz(file)
  <2>1. file[i] \in Cell /\ After(file[i]) <= FileSz(file)
    BY <1>1, Places
  <2>2. /\ file[i].at \in Nat /\ Size(file[i]) \in Nat /\ file[i].head \in Nat
        /\ file[i].head >= 8 /\ Size(file[i]) >= file[i].head
        /\ After(file[i]) = file[i].at + Size(file[i])
    BY <2>1, CellFacts
  <2>. QED  BY <1>1, <1>5, <2>1, <2>2
<1>6. CASE HeaderFails
  <2>1. /\ pos + BoxHead > FileSz(file)
        /\ pos' = (IF pos > FileSz(file) THEN pos ELSE FileSz(file))
    BY <1>6 DEF HeaderFails
  <2>2. pos = FileSz(file)
    BY <1>1, <1>4, <1>5, <2>1 DEF BoxHead
  <2>. QED  BY <1>6, <2>1, <2>2
<1>7. ASSUME NEW b \in HeadersAt(file, pos), pos + BoxHead <= FileSz(file),
             HeaderBreaks(b) \/ HeaderEnters(b) \/ HeaderSkips(b)
      PROVE  \E i \in DOMAIN file :
               /\ file[i].at = pos
               /\ \/ HeaderEnters(file[i]) \/ HeaderSkips(file[i])
                  \/ /\ HeaderBreaks(file[i]) /\ h'.parsedone = TRUE
                     /\ file[i].len = 0 \/ Counts(file[i])
  <2>1. PICK i \in DOMAIN file : file[i].at = pos
    BY <1>1, <1>4, <1>7 DEF BoxHead
  <2>2. b = file[i]
    BY <1>1, <2>1, HeaderOf
  <2>3. pos + b.head <= FileSz(file)
    BY <1>5, <2>1, <2>2
  <2>4. b.head \in Nat
    BY <1>1, <2>2, Places, CellFacts
  <2>5. HeaderBreaks(b) => h'.parsedone = TRUE /\ (b.len = 0 \/ Counts(b))
    BY <1>1, <2>3, <2>4 DEF HeaderBreaks
  <2>. QED  BY <1>7, <2>1, <2>2, <2>5
<1>. QED
  BY <1>6, <1>7, HeaderSteps DEF HeaderMisses

\* Without a fault, behind a box whose content was entered nothing is skipped;
\* another one is skipped, or read, as far as it reaches.
LEMMA ProperBody ==
  ASSUME ShapeInv, ListInv, HeadersInv, FinishBox, ~ faulty', ~ h.parsedone, Readable(file)
  PROVE  /\ Accounted(Top.box)
         /\ \/ Entered(file, Top) /\ AtBox(file, pos) /\ pos' = pos
            \/ \E i \in DOMAIN file :
                 /\ Top.box = file[i] /\ file[i].len # 0 /\ ~ Descends(file[i])
                 /\ pos = file[i].at + file[i].head /\ pos' = EndOf(file, file[i])
<1> DEFINE b == Top.box
<1>1. /\ IsFile(file) /\ pos \in Nat /\ pc = "body" /\ FileSz(file) \in Nat
      /\ stack \in Seq(Frame) /\ stack # <<>>
  BY Places DEF ShapeInv, TypeInv, FinishBox, Parsing
<1>2. ~ faulty /\ (BodyReads(b) \/ BodySkips(b) \/ BodyFails(b))
  <2>1. faulty' = faulty \/ faulty' = TRUE
    BY BodySteps
  <2>2. BodyReads(b) \/ BodySkips(b) \/ BodyFails(b)
    BY BodySteps
  <2>. QED  BY <2>1, <2>2
<1>3. Top = stack[Len(stack)]
  BY <1>1, StackFacts
<1>4. (Entered(file, Top) /\ AtBox(file, pos)) \/ Skipped(file, pos, Top)
  BY <1>1, <1>2, <1>3 DEF HeadersInv
<1>5. PlainList(file)
  BY <1>1, ReadableFacts
<1>6. CASE Entered(file, Top) /\ AtBox(file, pos)
  <2>1. PICK i \in DOMAIN file : b = file[i] /\ Descends(file[i]) /\ Top.skip = 0
    BY <1>6 DEF Entered
  <2>2. b.nm \in Containers \cup {"meta"}
    BY <1>1, <2>1, DescendsFacts
  <2>3. b.nm \notin {"mdhd", "tag", "free"}
    BY <2>2 DEF Containers
  <2>4. ~ StillReads(b)
    BY <1>1, <1>5, <2>3, AtListBody
  <2>5. BodySkips(b)
    BY <1>2, <2>3, <2>4 DEF BodyReads, BodyFails
  <2>. QED  BY <1>1, <1>6, <2>1, <2>5 DEF BodySkips
<1>7. CASE Skipped(file, pos, Top)
  <2>1. PICK i \in DOMAIN file :
          /\ b = file[i] /\ file[i].len # 0 /\ ~ Descends(file[i])
          /\ pos = file[i].at + file[i].head /\ Top.skip = Payload(file[i])
    BY <1>7 DEF Skipped
  <2> HIDE DEF b
  <2>2. /\ Payload(b) \in Nat
        /\ EndOf(file, b) = pos + Payload(b) /\ EndOf(file, b) <= FileSz(file)
    BY <1>1, <2>1, ReadableFacts
  <2>3. ~ BodyFails(b)
    BY <1>1, <2>2 DEF BodyFails
  <2>4. pos' = pos + Payload(b) /\ Accounted(b)
    BY <1>2, <2>1, <2>3 DEF BodyReads, BodySkips
  <2>. QED  BY <2>1, <2>2, <2>4 DEF b
<1>. QED
  BY <1>4, <1>6, <1>7

\* The calls below the one that is running, behind a header and behind a box.
LEMMA ReadHeaderHeaders ==
  ASSUME ShapeInv, HeadersInv, ReadHeader
  PROVE  HeadersInv'
<1>1. /\ IsFile(file) /\ pos \in Nat /\ pc = "header" /\ h \in Handle
      /\ stack \in Seq(Frame) /\ stack # <<>>
  BY DEF ShapeInv, TypeInv, ReadHeader, Parsing
<1>2. file' = file
  BY HeaderSteps
<1>3. SUFFICES ASSUME ~ faulty', ~ h'.parsedone, Readable(file)
               PROVE  /\ pc' = "header" => AtBox(file, pos')
                      /\ pc' = "body" =>
                           \/ Entered(file, stack'[Len(stack')]) /\ AtBox(file, pos')
                           \/ Skipped(file, pos', stack'[Len(stack')])
                      /\ \A k \in 1 .. Len(stack') - 1 : Entered(file, stack'[k])
  BY <1>2 DEF HeadersInv
<1>4. ~ faulty
  BY <1>3, HeaderSteps
<1>5. ~ h.parsedone
  <2>1. h.parsedone = TRUE => h'.parsedone = TRUE
    BY HeaderSteps DEF HeaderFails, HeaderBreaks, HeaderEnters, HeaderSkips, HeaderMisses
  <2>2. h.parsedone \in BOOLEAN
    BY <1>1 DEF Handle
  <2>. QED  BY <1>3, <2>1, <2>2
<1>6. /\ AtBox(file, pos)
      /\ \A k \in 1 .. Len(stack) - 1 : Entered(file, stack[k])
  BY <1>1, <1>3, <1>4, <1>5 DEF HeadersInv
<1>7. Len(stack) \in Nat /\ Len(stack) >= 1
  BY <1>1, StackFacts
<1>8. CASE pos = FileSz(file) /\ pos' = pos /\ HeaderFails
  <2>1. stack' = Front(stack)
    BY <1>8 DEF HeaderFails, Left
  <2>2. /\ Len(stack') = Len(stack) - 1
        /\ \A k \in 1 .. Len(stack) - 1 : stack'[k] = stack[k]
    BY <1>1, <2>1, StackFacts
  <2>3. \A k \in 1 .. Len(stack') : Entered(file, stack'[k])
    BY <1>6, <1>7, <2>2
  <2>4. pc' = "body" => Len(stack') \in 1 .. Len(stack')
    BY <1>7, <1>8, <2>2 DEF HeaderFails, Left
  <2>5. \A k \in 1 .. Len(stack') - 1 : k \in 1 .. Len(stack')
    BY <1>7, <2>2
  <2>6. pc' # "header"
    BY <1>8 DEF HeaderFails, Left
  <2>. QED  BY <1>6, <1>8, <2>3, <2>4, <2>5, <2>6
<1>9. ASSUME NEW i \in DOMAIN file, file[i].at = pos,
             HeaderEnters(file[i]) \/ HeaderSkips(file[i])
      PROVE  /\ pc' = "header" => AtBox(file, pos')
             /\ pc' = "body" =>
                  \/ Entered(file, stack'[Len(stack')]) /\ AtBox(file, pos')
                  \/ Skipped(file, pos', stack'[Len(stack')])
             /\ \A k \in 1 .. Len(stack') - 1 : Entered(file, stack'[k])
  <2> DEFINE b == file[i]
  <2>1. b \in Header
    <3>1. b \in Cell
      BY <1>1, Places
    <3>. QED  BY <3>1 DEF Cell, Header
  <2>2. ASSUME NEW skip \in Nat
        PROVE  LET s == At(b, skip) IN
               /\ s \in Seq(Frame) /\ Len(s) = Len(stack)
               /\ s[Len(stack)].box = b /\ s[Len(stack)].skip = skip
               /\ \A k \in 1 .. Len(stack) - 1 : Entered(file, s[k])
    <3>1. b \in Header
      BY <2>1
    <3> HIDE DEF b
    <3>. QED  BY <1>1, <1>6, <2>2, <3>1, AtFacts
  <2>3. CASE HeaderEnters(b)
    <3>1. Descends(b) /\ pos' = pos + b.head + Skip(b)
      BY <2>3 DEF HeaderEnters
    <3>2. pos' = After(b)
      BY <1>1, <1>9, <3>1, DescendsFacts
    <3>3. AtBox(file, pos')
      BY <1>1, <1>3, <3>2, ReadableFacts
    <3> DEFINE s == At(b, 0)
    <3>4. /\ s \in Seq(Frame) /\ Len(s) = Len(stack)
          /\ \A k \in 1 .. Len(stack) : Entered(file, s[k])
      <4>1. /\ s \in Seq(Frame) /\ Len(s) = Len(stack)
            /\ s[Len(stack)].box = b /\ s[Len(stack)].skip = 0
            /\ \A k \in 1 .. Len(stack) - 1 : Entered(file, s[k])
        BY <2>2
      <4>2. Entered(file, s[Len(stack)])
        BY <3>1, <4>1 DEF Entered
      <4>3. \A k \in 1 .. Len(stack) : k = Len(stack) \/ k \in 1 .. Len(stack) - 1
        <5> DEFINE n == Len(stack)
        <5>1. n \in Nat
          BY <1>7
        <5> HIDE DEF n
        <5>2. \A k \in 1 .. n : k = n \/ k \in 1 .. n - 1
          BY <5>1
        <5>. QED  BY <5>2 DEF n
      <4>. QED  BY <4>1, <4>2, <4>3
    <3> HIDE DEF s
    <3>5. CASE stack' = s /\ pc' = "body"
      <4>1. Len(stack') \in 1 .. Len(stack)
            /\ \A k \in 1 .. Len(stack') - 1 : k \in 1 .. Len(stack)
        BY <1>7, <3>4, <3>5
      <4>. QED  BY <3>3, <3>4, <3>5, <4>1
    <3>6. CASE stack' = Append(s, Call((b.len - Skip(b)) % SkipMod)) /\ pc' = "header"
      <4> DEFINE c == Call((b.len - Skip(b)) % SkipMod)
      <4>0. stack' = Append(s, c)
        BY <3>6
      <4> HIDE DEF c
      <4>1. Len(stack') = Len(stack) + 1 /\ \A k \in 1 .. Len(stack) : stack'[k] = s[k]
        BY <1>7, <3>4, <4>0
      <4>2. \A k \in 1 .. Len(stack') - 1 : k \in 1 .. Len(stack)
        BY <1>7, <4>1
      <4>. QED  BY <3>3, <3>4, <3>6, <4>1, <4>2
    <3>. QED  BY <2>3, <3>5, <3>6 DEF HeaderEnters, s
  <2>4. CASE HeaderSkips(b)
    <3>1. /\ b.len # 0 /\ pos' = pos + b.head /\ stack' = At(b, Skip(b)) /\ pc' = "body"
          /\ (b.nm = "free" \/ ~ Descends(b))
      BY <2>4 DEF HeaderSkips
    <3>2. ~ Descends(b)
      BY <3>1 DEF Descends, Containers
    <3>3. Skip(b) = Payload(b)
      BY <1>1, <1>3, <3>1, <3>2, DescendsFacts
    <3>4. Skip(b) \in Nat
      BY <2>1, SkipFacts
    <3>5. /\ Len(stack') = Len(stack)
          /\ stack'[Len(stack)].box = b /\ stack'[Len(stack)].skip = Payload(b)
          /\ \A k \in 1 .. Len(stack) - 1 : Entered(file, stack'[k])
      BY <2>2, <3>1, <3>3, <3>4
    <3>6. Skipped(file, pos', stack'[Len(stack')])
      BY <1>9, <3>1, <3>2, <3>5 DEF Skipped
    <3>. QED  BY <3>1, <3>5, <3>6
  <2>. QED  BY <1>9, <2>3, <2>4
<1>. QED
  BY <1>3, <1>5, <1>8, <1>9, ProperHeader

LEMMA FinishBoxHeaders ==
  ASSUME ShapeInv, ListInv, HeadersInv, FinishBox
  PROVE  HeadersInv'
<1> DEFINE b == Top.box
<1>1. /\ IsFile(file) /\ pos \in Nat /\ pc = "body" /\ h \in Handle
      /\ stack \in Seq(Frame) /\ stack # <<>>
  BY DEF ShapeInv, TypeInv, FinishBox, Parsing
<1>2. file' = file
  BY BodySteps
<1>3. SUFFICES ASSUME ~ faulty', ~ h'.parsedone, Readable(file)
               PROVE  /\ pc' = "header" => AtBox(file, pos')
                      /\ pc' = "body" =>
                           \/ Entered(file, stack'[Len(stack')]) /\ AtBox(file, pos')
                           \/ Skipped(file, pos', stack'[Len(stack')])
                      /\ \A k \in 1 .. Len(stack') - 1 : Entered(file, stack'[k])
  BY <1>2 DEF HeadersInv
<1>4. ~ faulty
  <2>1. faulty' = faulty \/ faulty' = TRUE
    BY BodySteps
  <2>. QED  BY <1>3, <2>1
<1>5. ~ h.parsedone
  <2>1. h.parsedone = TRUE => h'.parsedone = TRUE
    <3>1. BodyReads(b) \/ BodySkips(b) \/ BodyFails(b)
      BY BodySteps
    <3>. QED  BY <3>1 DEF BodyReads, BodySkips, BodyFails, Accounted
  <2>2. h.parsedone \in BOOLEAN
    BY <1>1 DEF Handle
  <2>. QED  BY <1>3, <2>1, <2>2
<1>6. /\ Accounted(b)
      /\ \/ Entered(file, Top) /\ AtBox(file, pos) /\ pos' = pos
         \/ \E i \in DOMAIN file :
              /\ Top.box = file[i] /\ file[i].len # 0 /\ ~ Descends(file[i])
              /\ pos = file[i].at + file[i].head /\ pos' = EndOf(file, file[i])
  BY <1>3, <1>5, ProperBody
<1>7. AtBox(file, pos')
  <2>1. \A i \in DOMAIN file : file[i].len # 0 => AtBox(file, EndOf(file, file[i]))
    BY <1>1, <1>3, ReadableFacts
  <2>. QED  BY <1>6, <2>1
<1>8. Len(stack) \in Nat /\ Len(stack) >= 1
  BY <1>1, StackFacts
<1>9. \A k \in 1 .. Len(stack) - 1 : Entered(file, stack[k])
  BY <1>3, <1>4, <1>5 DEF HeadersInv
<1>10. CASE stack' = Front(stack) /\ pc' = (IF Len(stack) = 1 THEN "done" ELSE "body")
  <2>1. /\ Len(stack') = Len(stack) - 1
        /\ \A k \in 1 .. Len(stack) - 1 : stack'[k] = stack[k]
    BY <1>1, <1>10, StackFacts
  <2>2. \A k \in 1 .. Len(stack') : Entered(file, stack'[k])
    BY <1>8, <1>9, <2>1
  <2>3. pc' = "body" => Len(stack') \in 1 .. Len(stack')
    BY <1>8, <1>10, <2>1
  <2>4. \A k \in 1 .. Len(stack') - 1 : k \in 1 .. Len(stack')
    BY <1>8, <2>1
  <2>. QED  BY <1>7, <2>2, <2>3, <2>4
<1>11. CASE /\ pc' = "header" /\ Len(stack') = Len(stack)
            /\ \A k \in 1 .. Len(stack) - 1 : stack'[k] = stack[k]
  BY <1>7, <1>9, <1>11
<1>. QED
  BY <1>6, <1>10, <1>11 DEF Accounted

\* Where the descent starts: at the first box, or behind ftyp; there is no tag
\* list in front of it.
LEMMA StartFacts ==
  ASSUME ShapeInv, ReadFtyp \/ ReadBrands, StartParse, ~ faulty', Readable(file)
  PROVE  /\ AtBox(file, pos') /\ stack' = <<Call(0)>>
         /\ file # <<>> => /\ file[1].nm = "ftyp" /\ file[1].len # 0
                           /\ pos' = EndOf(file, file[1])
<1>1. IsFile(file) /\ pos \in Nat /\ FileSz(file) \in Nat
  BY Places DEF ShapeInv, TypeInv
<1>2. stack' = <<Call(0)>> /\ pc' = "header"
  BY DEF StartParse
<1>3. file # <<>> => /\ file[1].at = 0 /\ file[1].len # 0 /\ file[1].head = 8
                     /\ Payload(file[1]) \in Nat /\ Payload(file[1]) < SkipMod
                     /\ EndOf(file, file[1]) = 8 + Payload(file[1])
                     /\ EndOf(file, file[1]) <= FileSz(file)
                     /\ AtBox(file, EndOf(file, file[1]))
  <2>1. SUFFICES ASSUME file # <<>>
                 PROVE  /\ file[1].at = 0 /\ file[1].len # 0 /\ file[1].head = 8
                        /\ Payload(file[1]) \in Nat /\ Payload(file[1]) < SkipMod
                        /\ EndOf(file, file[1]) = 8 + Payload(file[1])
                        /\ EndOf(file, file[1]) <= FileSz(file)
                        /\ AtBox(file, EndOf(file, file[1]))
    OBVIOUS
  <2>2. 1 \in DOMAIN file /\ file[1].at = 0 /\ file[1].len # 0 /\ file[1].head = 8
    BY <1>1, <2>1, Places, ReadableFacts
  <2>3. /\ Payload(file[1]) \in Nat /\ Payload(file[1]) < SkipMod
        /\ EndOf(file, file[1]) = file[1].at + file[1].head + Payload(file[1])
        /\ EndOf(file, file[1]) <= FileSz(file)
        /\ AtBox(file, EndOf(file, file[1]))
    BY <1>1, <2>2, ReadableFacts
  <2>. QED  BY <2>2, <2>3
<1>4. ASSUME NEW n \in Nat, NEW s \in Short(n), EndsShort(s)
      PROVE  pos + n > FileSz(file) /\ pos' = (IF pos > FileSz(file) THEN pos ELSE FileSz(file))
  <2>1. ~ s.fault
    BY <1>4 DEF EndsShort, Fault
  <2>2. CASE pos + n > FileSz(file)
    BY <1>4, <2>2 DEF Short, EndsShort
  <2>3. CASE ~ (pos + n > FileSz(file))
    BY <1>4, <2>1, <2>3 DEF Short
  <2>. QED  BY <2>2, <2>3
<1>5. CASE ReadFtyp
  <2>1. pc = "ftyp" /\ pos = 0
    BY <1>5 DEF ReadFtyp, ShapeInv, StartInv
  <2>2. PICK s \in Short(BoxHead) : EndsShort(s)
    BY <1>2, <1>5 DEF ReadFtyp, Refuse
  <2>3. 0 + BoxHead > FileSz(file) /\ pos' = FileSz(file)
    <3>1. BoxHead \in Nat
      BY DEF BoxHead
    <3>2. pos + BoxHead > FileSz(file) /\ pos' = (IF pos > FileSz(file) THEN pos ELSE FileSz(file))
      BY <1>4, <2>2, <3>1
    <3>. QED  BY <1>1, <2>1, <3>2
  <2>4. file = <<>>
    BY <1>1, <1>3, <2>3 DEF BoxHead
  <2>. QED  BY <1>2, <2>3, <2>4 DEF AtBox
<1>6. CASE ReadBrands
  <2>1. file # <<>> /\ file[1].nm = "ftyp" /\ pos = 8
    BY <1>6 DEF ReadBrands, ShapeInv, StartInv, BoxHead
  <2> DEFINE len == Payload(file[1]) % SkipMod
  <2>2. len = Payload(file[1])
    <3> DEFINE x == Payload(file[1])
    <3>1. x \in Nat /\ x < SkipMod /\ SkipMod \in Nat \ {0}
      BY <1>3, <2>1, ParserAssumption
    <3> HIDE DEF x
    <3>2. x % SkipMod = x
      BY <3>1
    <3>. QED  BY <3>2 DEF x
  <2>3. len \in Nat /\ pos + len <= FileSz(file)
    BY <1>3, <2>1, <2>2
  <2> HIDE DEF len
  <2>4. pos' = pos + len
    <3>1. \A s \in Short(len) : ~ EndsShort(s)
      BY <1>1, <1>4, <2>3
    <3>2. \A e : ~ Refuse(e)
      BY <1>2 DEF Refuse
    <3>. QED  BY <1>6, <3>1, <3>2 DEF ReadBrands, len
  <2>. QED  BY <1>2, <1>3, <2>1, <2>2, <2>4
<1>. QED
  BY <1>5, <1>6

\* Where the file is parsed again: when it is a tree of boxes then, behind its
\* ftyp box.
LEMMA AgainStart ==
  ASSUME ShapeInv, BasesInv, Repair \/ WriteTags
  PROVE  \E f, p : /\ IsFile(f) /\ f # <<>> /\ f[1].nm = "ftyp" /\ p \in Nat /\ p >= 8
                   /\ Again(f, p)
                   /\ Readable(f) => p = EndOf(f, f[1])
<1>1. ASSUME NEW f, IsFile(f), f # <<>>
      PROVE  Readable(f) => BehindFtyp(f) = EndOf(f, f[1])
  <2>1. SUFFICES ASSUME Readable(f)
                 PROVE  BehindFtyp(f) = EndOf(f, f[1])
    OBVIOUS
  <2>2. 1 \in DOMAIN f /\ f[1].at = 0 /\ f[1].len # 0 /\ f[1].head = 8
    BY <1>1, <2>1, Places, ReadableFacts
  <2>3. /\ Payload(f[1]) \in Nat /\ Payload(f[1]) < SkipMod
        /\ EndOf(f, f[1]) = f[1].at + f[1].head + Payload(f[1]) /\ EndOf(f, f[1]) <= FileSz(f)
    BY <1>1, <2>1, <2>2, ReadableFacts
  <2>4. BehindFtyp(f) = 8 + Payload(f[1])
    BY <1>1, <2>2, <2>3, BehindFtypFacts
  <2>. QED  BY <2>2, <2>3, <2>4
<1>2. CASE WriteTags
  BY <1>1, <1>2, WriteTagsFile, BehindFtypFacts
<1>3. CASE Repair
  <2> DEFINE f == UpdateParentLengths(file, h, h.parentidx, - h.ilst_remaining)
  <2>1. /\ IsFile(f) /\ f # <<>> /\ f[1].nm = "ftyp" /\ file # <<>>
        /\ Again(f, BehindFtyp(file))
    BY <1>3, RepairFile
  <2>2. IsFile(file) /\ mode = "rw" /\ h \in Handle
    BY <1>3 DEF ShapeInv, TypeInv, Repair, canwrite
  <2>3. ASSUME Readable(f)
        PROVE  BehindFtyp(file) = EndOf(f, f[1])
    <3>1. /\ Len(f) = Len(file) /\ DOMAIN f = DOMAIN file
          /\ \A i \in DOMAIN file : f[i].nm = file[i].nm
      <4>1. DOMAIN f = DOMAIN file
        BY DEF UpdateParentLengths
      <4>2. \A i \in DOMAIN file : f[i].nm = file[i].nm
        <5>1. ASSUME NEW i \in DOMAIN file
              PROVE  f[i].nm = file[i].nm
          <6>1. file[i] \in Cell
            BY <2>2, Places
          <6>2. f[i] = file[i] \/ \E n : f[i] = [file[i] EXCEPT !.len = n]
            BY DEF UpdateParentLengths
          <6>. QED  BY <6>1, <6>2 DEF Cell
        <5>. QED  BY <5>1
      <4>3. Len(f) = Len(file)
        BY <2>1, <2>2, <4>1, Places
      <4>. QED  BY <4>1, <4>2, <4>3
    <3>2. OneList(file)
      <4>1. \A i, j \in DOMAIN f : f[i].nm = "ilst" /\ f[j].nm = "ilst" => i = j
        BY <2>3 DEF Readable, PlainList
      <4>. QED  BY <3>1, <4>1 DEF OneList
    <3>3. \A k \in 0 .. h.parentidx : h.base_offsets[k] >= 8
      <4>1. CASE h.taglist_offset = 0
        BY <2>1, <2>2, <4>1 DEF BasesInv
      <4>2. CASE h.taglist_offset # 0
        BY <2>1, <2>2, <3>2, <4>2 DEF BasesInv, OuterBases
      <4>. QED  BY <4>1, <4>2
    <3>4. 1 \in DOMAIN file /\ file[1].at = 0
      BY <2>1, <2>2, Places
    <3>5. f[1] = file[1]
      <4>1. {k \in 0 .. h.parentidx : h.base_offsets[k] = file[1].at} = {}
        BY <3>3, <3>4
      <4>. QED  BY <3>4, <4>1 DEF UpdateParentLengths
    <3>6. FileSz(f) = FileSz(file)
      <4>1. \A i \in DOMAIN file : f[i].at = file[i].at /\ Size(f[i]) = Size(file[i])
        <5>1. ASSUME NEW i \in DOMAIN file
              PROVE  f[i].at = file[i].at /\ Size(f[i]) = Size(file[i])
          <6>1. file[i] \in Cell
            BY <2>2, Places
          <6>2. f[i] = file[i] \/ \E n : f[i] = [file[i] EXCEPT !.len = n]
            BY DEF UpdateParentLengths
          <6>. QED  BY <6>1, <6>2 DEF Cell, Size
        <5>. QED  BY <5>1
      <4> HIDE DEF f
      <4>2. /\ FileSz(f) = After(f[Len(f)]) /\ FileSz(file) = After(file[Len(file)])
            /\ Len(file) \in DOMAIN file
        BY <2>1, <2>2, Places
      <4>. QED  BY <3>1, <4>1, <4>2 DEF After
    <3>7. BehindFtyp(file) = BehindFtyp(f)
      BY <3>5, <3>6 DEF BehindFtyp
    <3>. QED  BY <1>1, <2>1, <2>3, <3>7
  <2>4. BehindFtyp(file) \in Nat /\ BehindFtyp(file) >= 8
    BY <2>1, <2>2, BehindFtypFacts
  <2> HIDE DEF f
  <2>. QED  BY <2>1, <2>3, <2>4
<1>. QED
  BY <1>2, <1>3

LEMMA InitHeaders == Init => HeadersInv /\ OuterInv
<1>1. Init => pc = "ftyp" /\ stack = <<>> /\ Len(stack) = 0
  BY DEF Init
<1>. QED
  BY <1>1 DEF HeadersInv, OuterInv

LEMMA NextHeaders ==
  ShapeInv /\ BasesInv /\ ListInv /\ HeadersInv /\ [Next]_vars => HeadersInv'
<1> SUFFICES ASSUME ShapeInv, BasesInv, ListInv, HeadersInv, [Next]_vars
             PROVE  HeadersInv'
  OBVIOUS
<1>1. CASE Repair \/ WriteTags
  <2>1. PICK f, p : /\ IsFile(f) /\ f # <<>> /\ f[1].nm = "ftyp" /\ p \in Nat /\ Again(f, p)
                    /\ Readable(f) => p = EndOf(f, f[1])
    BY <1>1, AgainStart
  <2>2. file' = f /\ pos' = p /\ stack' = <<Call(0)>> /\ pc' = "header"
    BY <2>1 DEF Again
  <2>3. Len(stack') = 1
    BY <2>2, CallZero
  <2>4. Readable(f) => AtBox(f, p)
    <3>1. 1 \in DOMAIN f
      BY <2>1, Places
    <3>2. Readable(f) => f[1].len # 0 /\ AtBox(f, EndOf(f, f[1]))
      BY <2>1, <3>1, ReadableFacts
    <3>. QED  BY <2>1, <3>2
  <2>. QED  BY <2>2, <2>3, <2>4 DEF HeadersInv
<1>2. ASSUME ReadFtyp \/ ReadBrands
      PROVE  HeadersInv'
  <2>1. file' = file /\ stack = <<>>
    BY <1>2 DEF ReadFtyp, ReadBrands, ShapeInv, TypeInv, Parsing
  <2>2. StartParse \/ (\E e : Refuse(e)) \/ (pc' = "brands" /\ stack' = <<>>)
    BY <1>2, <2>1 DEF ReadFtyp, ReadBrands
  <2>3. CASE StartParse
    <3>1. pc' = "header" /\ Len(stack') = 1
      BY <2>3, CallZero DEF StartParse
    <3>2. ~ faulty' /\ Readable(file) => AtBox(file, pos')
      BY <1>2, <2>3, StartFacts
    <3>. QED  BY <2>1, <3>1, <3>2 DEF HeadersInv
  <2>4. CASE (\E e : Refuse(e)) \/ (pc' = "brands" /\ stack' = <<>>)
    <3>1. pc' \in {"done", "brands"} /\ stack' = <<>>
      BY <2>1, <2>4 DEF Refuse
    <3>2. Len(stack') = 0
      BY <3>1
    <3>. QED  BY <3>1, <3>2 DEF HeadersInv
  <2>. QED  BY <2>2, <2>3, <2>4
<1>3. CASE ReadHeader
  BY <1>3, ReadHeaderHeaders
<1>4. CASE FinishBox
  BY <1>4, FinishBoxHeaders
<1>5. CASE UNCHANGED vars
  BY <1>5 DEF vars, HeadersInv
<1>. QED
  BY <1>1, <1>2, <1>3, <1>4, <1>5 DEF Next, ParseStep

\* Skipping, descending and counting agree for every file that is a tree of boxes,
\* at any depth and for every limit of it: until the parser says it is done, what
\* it takes for a header is one (mp4tag_parse_file).
THEOREM HeadersFound == Spec => []HeadersOnly
<1> DEFINE Inv == ShapeInv /\ BasesInv /\ ListInv /\ HeadersInv
<1>1. Init => Inv
  BY InitShape, InitBases, InitList, InitHeaders
<1>2. Inv /\ [Next]_vars => Inv'
  BY NextShape, NextBases, NextList, NextHeaders
<1>3. Inv => HeadersOnly
  BY DEF HeadersInv, HeadersOnly, AtBox
<1> HIDE DEF Inv
<1>. QED
  BY <1>1, <1>2, <1>3, PTL DEF Spec

-----------------------------------------------------------------------------
(* All of the tags.                                                        *)

\* What the outermost call was given stays.
LEMMA OuterKept ==
  ASSUME ShapeInv, OuterInv, ReadHeader \/ FinishBox
  PROVE  OuterInv'
<1>1. /\ IsFile(file) /\ pos \in Nat /\ stack \in Seq(Frame) /\ stack # <<>>
  BY DEF ShapeInv, TypeInv, ReadHeader, FinishBox, Parsing
<1>2. Len(stack) \in Nat /\ Len(stack) >= 1 /\ Top = stack[Len(stack)] /\ Top \in Frame
  BY <1>1, StackFacts
<1>3. stack[1].boxlen = 0
  BY <1>1 DEF OuterInv
<1>4. ASSUME stack' = Front(stack)
      PROVE  stack' # <<>> => stack'[1] = stack[1]
  <2>1. /\ stack' \in Seq(Frame) /\ Len(stack') = Len(stack) - 1
        /\ \A k \in 1 .. Len(stack) - 1 : stack'[k] = stack[k]
    BY <1>1, <1>4, StackFacts
  <2>2. stack' # <<>> => 1 \in 1 .. Len(stack) - 1
    BY <1>2, <2>1
  <2>. QED  BY <2>1, <2>2
<1>5. ASSUME NEW b \in Header, NEW skip \in Nat
      PROVE  LET s == At(b, skip) IN
             s \in Seq(Frame) /\ Len(s) = Len(stack) /\ s[1].boxlen = stack[1].boxlen
  <2> DEFINE s == At(b, skip)
  <2>1. /\ s \in Seq(Frame) /\ Len(s) = Len(stack)
        /\ \A k \in 1 .. Len(stack) - 1 : s[k] = stack[k]
        /\ s[Len(stack)].boxlen = Top.boxlen
    BY <1>1, <1>5, AtFacts
  <2>2. CASE Len(stack) = 1
    BY <1>2, <2>1, <2>2
  <2>3. CASE Len(stack) # 1
    <3>1. 1 \in 1 .. Len(stack) - 1
      <4> DEFINE n == Len(stack)
      <4>1. n \in Nat /\ n >= 1 /\ n # 1
        BY <1>2, <2>3
      <4> HIDE DEF n
      <4>2. 1 \in 1 .. n - 1
        BY <4>1
      <4>. QED  BY <4>2 DEF n
    <3>. QED  BY <2>1, <3>1
  <2>. QED  BY <2>1, <2>2, <2>3
<1>6. CASE ReadHeader
  <2>1. ASSUME NEW b \in HeadersAt(file, pos),
               HeaderBreaks(b) \/ HeaderEnters(b) \/ HeaderSkips(b) \/ HeaderMisses(b)
        PROVE  OuterInv'
    <3>1. b \in Header /\ Skip(b) \in Nat
      BY <1>1, HeaderFacts, SkipFacts
    <3>2. CASE HeaderBreaks(b)
      BY <1>3, <1>4, <3>2 DEF HeaderBreaks, Left, OuterInv
    <3>3. CASE HeaderEnters(b) \/ HeaderMisses(b)
      <4> DEFINE s == At(b, 0)
                 c == Call((b.len - Skip(b)) % SkipMod)
      <4>1. s \in Seq(Frame) /\ Len(s) = Len(stack) /\ s[1].boxlen = 0
        BY <1>3, <1>5, <3>1
      <4>2. stack' = s \/ stack' = Append(s, c)
        BY <3>3 DEF HeaderEnters, HeaderMisses
      <4> HIDE DEF s, c
      <4>3. Append(s, c)[1] = s[1]
        BY <1>2, <4>1
      <4>. QED  BY <4>1, <4>2, <4>3 DEF OuterInv
    <3>4. CASE HeaderSkips(b)
      BY <1>3, <1>5, <3>1, <3>4 DEF HeaderSkips, OuterInv
    <3>. QED  BY <2>1, <3>2, <3>3, <3>4
  <2>2. CASE HeaderFails
    BY <1>3, <1>4, <2>2 DEF HeaderFails, Left, OuterInv
  <2>. QED  BY <1>6, <2>1, <2>2, HeaderSteps
<1>7. CASE FinishBox
  <2> DEFINE b == Top.box
  <2>1. BodyReads(b) \/ BodySkips(b) \/ BodyFails(b)
    BY <1>7, BodySteps
  <2>2. CASE stack' = Front(stack)
    BY <1>3, <1>4, <2>2 DEF OuterInv
  <2>3. CASE /\ Len(stack') = Len(stack)
             /\ \A k \in 1 .. Len(stack) - 1 : stack'[k] = stack[k]
             /\ stack'[Len(stack)] = [Top EXCEPT !.rem = Top.rem - b.len]
    <3>1. CASE Len(stack) = 1
      <4> DEFINE t == Top
                 r == Top.rem - b.len
      <4>1. t \in Frame /\ stack'[1] = [t EXCEPT !.rem = r] /\ t.boxlen = 0
        BY <1>2, <1>3, <2>3, <3>1
      <4> HIDE DEF t, r
      <4>2. [t EXCEPT !.rem = r].boxlen = t.boxlen
        BY <4>1 DEF Frame
      <4>. QED  BY <4>1, <4>2 DEF OuterInv
    <3>2. CASE Len(stack) # 1
      <4>1. 1 \in 1 .. Len(stack) - 1
        BY <1>2, <3>2, SMTT(30)
      <4>. QED  BY <1>3, <2>3, <4>1 DEF OuterInv
    <3>. QED  BY <3>1, <3>2
  <2>. QED  BY <2>1, <2>2, <2>3 DEF BodyReads, BodySkips, BodyFails, Accounted, Left
<1>. QED
  BY <1>6, <1>7

LEMMA NextOuter == ShapeInv /\ OuterInv /\ [Next]_vars => OuterInv'
<1> SUFFICES ASSUME ShapeInv, OuterInv, [Next]_vars
             PROVE  OuterInv'
  OBVIOUS
<1>1. <<Call(0)>>[1].boxlen = 0
  BY DEF Call
<1>2. CASE ReadFtyp \/ ReadBrands
  <2>1. stack = <<>>
    BY <1>2 DEF ReadFtyp, ReadBrands, ShapeInv, TypeInv, Parsing
  <2>2. stack' = <<>> \/ stack' = <<Call(0)>>
    BY <1>2, <2>1 DEF ReadFtyp, ReadBrands, StartParse, Refuse
  <2>. QED  BY <1>1, <2>2 DEF OuterInv
<1>3. CASE ReadHeader \/ FinishBox
  BY <1>3, OuterKept
<1>4. CASE Repair \/ WriteTags
  BY <1>1, <1>4 DEF Repair, WriteTags, Again, OuterInv
<1>5. CASE UNCHANGED vars
  BY <1>5 DEF vars, OuterInv
<1>. QED
  BY <1>2, <1>3, <1>4, <1>5 DEF Next, ParseStep

\* Behind the last tag of a file, its tags are all of them.
LEMMA NoTagsAfter ==
  ASSUME NEW f \in Seq(Cell), NEW n \in 0 .. Len(f),
         \A k \in DOMAIN f : n < k => f[k].nm # "tag"
  PROVE  TagsUpTo(f, n) = TagIds(f)
<1> DEFINE m    == Len(f)
           U(k) == TagsUpTo(f, k)
           P == {k \in Nat : n <= k /\ k <= m => U(k) = U(n)}
<1>1. m \in Nat /\ n \in Nat /\ n <= m /\ DOMAIN f = 1 .. m
  OBVIOUS
<1>2. 0 \in P
  BY <1>1
<1>3. ASSUME NEW k \in Nat, k < m, k \in P
      PROVE  k + 1 \in P
  <2>1. SUFFICES ASSUME n <= k + 1
                 PROVE  U(k + 1) = U(n)
    OBVIOUS
  <2>2. CASE n = k + 1
    BY <2>2
  <2>3. CASE n <= k
    <3>1. k + 1 \in 1 .. m /\ (k + 1) - 1 = k /\ n < k + 1
      BY <1>1, <1>3, <2>3
    <3>2. f[k + 1].nm # "tag"
      BY <1>1, <3>1
    <3>3. U(k + 1) = IF f[k + 1].nm = "tag" THEN Append(U(k), f[k + 1].id) ELSE U(k)
      BY <3>1, TagsStep
    <3>. QED  BY <1>3, <2>3, <3>2, <3>3
  <2>. QED  BY <1>1, <1>3, <2>1, <2>2, <2>3
<1>4. \A k \in 0 .. m : k \in P
  <2> HIDE DEF P, m
  <2>. QED  BY <1>1, <1>2, <1>3, BoundedInduction
<1>5. m \in P
  BY <1>1, <1>4
<1>. QED
  BY <1>1, <1>5 DEF TagIds

\* An ilst box that reaches nowhere holds no tags.
LEMMA EmptyList ==
  ASSUME NEW f, IsFile(f), PlainList(f), NEW q \in DOMAIN f, f[q].nm = "ilst",
         q = Len(f) \/ Payload(f[q]) = 0
  PROVE  TagIds(f) = <<>>
<1>1. /\ f \in Seq(Cell) /\ Len(f) \in Nat /\ DOMAIN f = 1 .. Len(f) /\ f[q] \in Cell
      /\ \A i, j \in DOMAIN f : i < j => After(f[i]) <= f[j].at
      /\ q = Len(f) => FileSz(f) = After(f[q])
  BY Places DEF IsFile
<1>2. ASSUME NEW j \in DOMAIN f, f[j].nm = "tag"
      PROVE  FALSE
  <2>1. q < j /\ f[j].at < EndOf(f, f[q])
    BY <1>2, PlainFacts
  <2>2. CASE q = Len(f)
    BY <1>1, <2>1, <2>2
  <2>3. CASE q # Len(f)
    <3>1. /\ f[q].at \in Nat /\ f[q].head \in Nat /\ f[q].head >= 8 /\ f[q].len \in Int
          /\ Size(f[q]) \in Nat /\ Size(f[q]) >= f[q].head
          /\ After(f[q]) = f[q].at + Size(f[q]) /\ Payload(f[q]) = f[q].len - f[q].head
          /\ f[j].at \in Nat
      BY <1>1, CellFacts
    <3>2. f[q].len = f[q].head
      BY <2>3, <3>1
    <3>3. EndOf(f, f[q]) = f[q].at + f[q].len
      BY <3>1, <3>2 DEF EndOf
    <3>4. After(f[q]) <= f[j].at
      BY <1>1, <2>1
    <3>. QED  BY <2>1, <3>1, <3>2, <3>3, <3>4
  <2>. QED  BY <2>2, <2>3
<1>3. 0 \in 0 .. Len(f) /\ \A k \in DOMAIN f : 0 < k => f[k].nm # "tag"
  BY <1>1, <1>2
<1>4. TagsUpTo(f, 0) = TagIds(f)
  BY <1>1, <1>3, NoTagsAfter
<1>. QED
  BY <1>1, <1>4, TagsStep

\* Tags that are all of a file's stay so: no more are added than it has.
LEMMA AllStay ==
  ASSUME ShapeInv', ListInv', PlainList(file), file' = file, tags = TagIds(file),
         tags' = tags \/ \E x \in Nat : tags' = Append(tags, x)
  PROVE  tags' = TagIds(file)
<1>1. file \in Seq(Cell)
  BY DEF ShapeInv, TypeInv, IsFile
<1>2. PICK m \in 0 .. Len(file) : tags' = TagsUpTo(file, m)
  BY DEF ListInv
<1>3. IsPrefix(tags', TagIds(file))
  BY <1>1, <1>2, TagsPrefix
<1>4. TagIds(file) \in Seq(Nat) /\ tags' \in Seq(Nat)
  <2>1. Len(file) \in 0 .. Len(file)
    BY <1>1
  <2>. QED  BY <1>1, <1>2, <2>1, TagsStep DEF TagIds
<1>5. ASSUME NEW x \in Nat, tags' = Append(tags, x)
      PROVE  FALSE
  <2> DEFINE s == TagIds(file)
  <2>1. s \in Seq(Nat) /\ tags' = Append(s, x) /\ IsPrefix(tags', s)
    BY <1>3, <1>4, <1>5
  <2> HIDE DEF s
  <2>2. Len(tags') = Len(s) + 1 /\ Len(s) \in Nat
    BY <2>1
  <2>3. Len(tags') <= Len(s)
    BY <2>1 DEF IsPrefix
  <2>. QED  BY <2>2, <2>3
<1>. QED
  BY <1>5

LEMMA ReadHeaderComplete ==
  ASSUME ShapeInv, ListInv, HeadersInv, CompleteInv, ReadHeader
  PROVE  CompleteInv'
<1>1. /\ IsFile(file) /\ pos \in Nat /\ pc = "header" /\ h \in Handle /\ FileSz(file) \in Nat
      /\ stack \in Seq(Frame) /\ stack # <<>>
  BY Places DEF ShapeInv, TypeInv, ReadHeader, Parsing
<1>2. file' = file /\ tags' = tags /\ pos' \in Nat /\ pos' >= pos
  BY HeaderSteps
<1>3. SUFFICES ASSUME ~ faulty', h'.mp4error = "ok", Readable(file), ListInReach(file),
                      NEW q \in DOMAIN file, file[q].nm = "ilst"
               PROVE  /\ pos' <= file[q].at => ~ h'.parsedone /\ pc' # "done"
                      /\ file[q].at < pos' =>
                           \/ tags' = TagIds(file)
                           \/ h'.processdata /\ stack'[Len(stack')].box.nm # "ilst"
  BY <1>2 DEF CompleteInv
<1>4. ~ faulty /\ h.mp4error = "ok"
  <2>1. h'.mp4error = "ok" => h.mp4error = "ok"
    BY HeaderSteps DEF HeaderFails, HeaderBreaks, HeaderEnters, HeaderSkips, HeaderMisses
  <2>2. faulty' = faulty \/ faulty' = TRUE
    BY HeaderSteps
  <2>. QED  BY <1>3, <2>1, <2>2
<1>5. /\ pos <= file[q].at => ~ h.parsedone
      /\ file[q].at < pos => tags = TagIds(file) \/ h.processdata
  BY <1>3, <1>4 DEF CompleteInv
<1>6. PlainList(file)
  BY <1>1, <1>3, ReadableFacts
<1>7. \A i \in DOMAIN file :
        /\ i \in Nat /\ file[i] \in Cell /\ file[i] \in Header
        /\ file[i].at \in Nat /\ file[i].head \in Nat /\ file[i].head >= 8
        /\ Size(file[i]) \in Nat /\ Size(file[i]) >= file[i].head
        /\ After(file[i]) = file[i].at + Size(file[i]) /\ After(file[i]) <= FileSz(file)
        /\ \A j \in DOMAIN file : i < j => After(file[i]) <= file[j].at
  <2>1. \A c \in Cell : c \in Header
    BY DEF Cell, Header
  <2>. QED  BY <1>1, <2>1, Places, CellFacts, SMTT(30)
<1>8. ASSUME NEW i \in DOMAIN file, file[i].at = pos
      PROVE  pos' >= pos + 8
  <2>1. pos + 8 <= FileSz(file)
    BY <1>1, <1>7, <1>8, SMTT(30)
  <2>2. ~ HeaderFails
    BY <1>1, <1>3, <2>1 DEF HeaderFails, BoxHead
  <2>. QED  BY <2>2, HeaderSteps DEF BoxHead
<1>9. CASE file[q].at < pos
  <2>1. file[q].at < pos'
    BY <1>1, <1>2, <1>7, <1>9
  <2>2. ASSUME h.processdata
        PROVE  h'.processdata /\ stack'[Len(stack')].box.nm # "ilst"
    <3>1. PICK n \in DOMAIN file :
            /\ n + 1 \in DOMAIN file /\ file[n + 1].at = pos
            /\ file[n + 1].nm \in {"tag", "free"} /\ file[n + 1].len = Size(file[n + 1])
      BY <1>1, <1>6, <2>2, AtListHeader
    <3> DEFINE b == file[n + 1]
    <3>2. ~ HeaderFails
      <4>1. pos + 8 <= FileSz(file)
        BY <1>1, <1>7, <3>1, SMTT(30)
      <4>. QED  BY <1>1, <1>3, <4>1 DEF HeaderFails, BoxHead
    <3>3. HeaderBreaks(b) \/ HeaderEnters(b) \/ HeaderSkips(b)
      BY <1>1, <1>3, <3>1, <3>2, HeaderSteps, HeaderOf DEF HeaderMisses
    <3>4. b \in Header /\ b.len # 0 /\ ~ (pos + b.head > FileSz(file))
      <4>1. /\ b \in Header /\ b.at = pos /\ b.len = Size(b) /\ b.head \in Nat /\ b.head >= 8
            /\ Size(b) \in Nat /\ Size(b) >= b.head /\ pos + Size(b) <= FileSz(file)
        BY <1>7, <3>1
      <4> HIDE DEF b
      <4>. QED  BY <1>1, <4>1
    <3>5. ~ h.checkforfree
      BY <1>6, <2>2 DEF ListInv
    <3>6. b.nm \in {"tag", "free"}
      BY <3>1
    <3> HIDE DEF b
    <3>7. Reads(b) = h.processdata /\ ~ Counts(b) /\ ~ Descends(b)
      BY <3>5, <3>6 DEF Reads, Counts, Descends, Containers
    <3>8. HeaderSkips(b)
      BY <3>3, <3>4, <3>7 DEF HeaderBreaks, HeaderEnters
    <3>9. h'.processdata = Reads(b) /\ stack' = At(b, Skip(b))
      BY <3>8 DEF HeaderSkips
    <3>10. Len(stack') = Len(stack) /\ stack'[Len(stack)].box = b
      BY <1>1, <3>4, <3>9, SkipFacts, AtFacts
    <3>. QED  BY <2>2, <3>6, <3>7, <3>9, <3>10
  <2>. QED  BY <1>1, <1>2, <1>5, <1>7, <1>9, <2>1, <2>2
<1>10. CASE pos <= file[q].at
  <2>1. ~ h.parsedone
    BY <1>5, <1>10
  <2>2. ~ Past(file, pos)
    <3>1. SUFFICES ASSUME NEW i \in DOMAIN file, file[i].nm = "ilst", file[i].at < pos
                   PROVE  FALSE
      BY DEF Past
    <3>2. i = q
      BY <1>1, <1>3, <1>6, <3>1, PlainFacts
    <3>. QED  BY <1>1, <1>7, <1>10, <3>1, <3>2
  <2>3. tags = <<>> /\ ~ h.processdata /\ ~ h.checkforfree
    BY <1>6, <2>2 DEF ListInv, Met
  <2>4. pos # FileSz(file)
    BY <1>1, <1>7, <1>10, SMTT(30)
  <2>5. PICK i \in DOMAIN file :
          /\ file[i].at = pos
          /\ \/ HeaderEnters(file[i]) \/ HeaderSkips(file[i])
             \/ /\ HeaderBreaks(file[i]) /\ h'.parsedone = TRUE
                /\ file[i].len = 0 \/ Counts(file[i])
    BY <1>3, <2>1, <2>4, ProperHeader
  <2>6. ~ (q < i)
    BY <1>1, <1>7, <1>10, <2>5, SMTT(30)
  <2>7. CASE i # q
    <3>1. file[i].nm # "ilst" /\ After(file[i]) <= file[q].at
      <4>1. i < q
        BY <1>7, <2>6, <2>7
      <4>2. file[i].nm # "ilst"
        BY <1>1, <1>3, <1>6, <2>7, PlainFacts
      <4>. QED  BY <1>7, <4>1, <4>2
    <3>2. file[i].len # 0
      <4>1. i # Len(file)
        BY <1>1, <2>6, <2>7, Places
      <4>. QED  BY <1>1, <1>3, <4>1, ReadableFacts
    <3>3. ~ Counts(file[i])
      BY <2>3, <3>1 DEF Counts
    <3>4. CASE HeaderEnters(file[i])
      <4>1. /\ pos' = pos + file[i].head + Skip(file[i]) /\ Descends(file[i])
            /\ h'.parsedone = h.parsedone /\ pc' # "done"
        BY <3>4 DEF HeaderEnters
      <4>2. pos' = After(file[i])
        BY <1>1, <2>5, <4>1, DescendsFacts
      <4>. QED  BY <1>2, <1>7, <2>1, <3>1, <4>1, <4>2
    <3>5. CASE HeaderSkips(file[i])
      <4>1. pos' = pos + file[i].head /\ h'.parsedone = h.parsedone /\ pc' # "done"
        BY <3>5 DEF HeaderSkips
      <4>2. pos' <= file[q].at
        <5>1. /\ file[i].at \in Nat /\ file[i].head \in Nat /\ Size(file[i]) \in Nat
              /\ Size(file[i]) >= file[i].head /\ After(file[i]) = file[i].at + Size(file[i])
              /\ file[q].at \in Nat
          BY <1>7
        <5>2. pos \in Nat /\ file[i].at = pos /\ After(file[i]) <= file[q].at
              /\ pos' = pos + file[i].head
          BY <1>1, <2>5, <3>1, <4>1
        <5>. QED  BY <5>1, <5>2
      <4>3. file[q].at \in Nat
        BY <1>7
      <4>. QED  BY <1>2, <2>1, <4>1, <4>2, <4>3
    <3>. QED  BY <2>5, <3>2, <3>3, <3>4, <3>5
  <2>8. CASE i = q
    <3>1. file[q].at < pos'
      BY <1>1, <1>2, <1>8, <2>5, <2>8
    <3>2. Payload(file[q]) = 0 \/ q = Len(file) => tags' = TagIds(file)
      BY <1>1, <1>2, <1>3, <1>6, <2>3, EmptyList
    <3>3. CASE file[q].len = 0 \/ Counts(file[q])
      <4>1. Counts(file[q]) => Payload(file[q]) = 0
        BY <1>3, <2>3 DEF Counts
      <4>2. file[q].len = 0 => q = Len(file)
        BY <1>1, <1>3, ReadableFacts
      <4>3. file[q].at \in Nat
        BY <1>7
      <4>. QED  BY <1>2, <3>1, <3>2, <3>3, <4>1, <4>2, <4>3
    <3>4. CASE HeaderEnters(file[q])
      <4> DEFINE s == At(file[q], 0)
                 c == Call((file[q].len - Skip(file[q])) % SkipMod)
      <4>1. Descends(file[q]) /\ h'.processdata = Reads(file[q]) /\ stack' = Append(s, c)
        BY <1>3, <2>1, <3>4 DEF HeaderEnters
      <4>2. h'.processdata = TRUE
        BY <1>3, <4>1 DEF Reads, Descends
      <4>3. s \in Seq(Frame)
        BY <1>1, <1>7, AtFacts
      <4>4. c.box.nm = "none"
        BY DEF Call, NoBox
      <4> HIDE DEF s, c
      <4>5. stack'[Len(stack')] = c
        BY <4>1, <4>3
      <4>6. file[q].at \in Nat
        BY <1>7
      <4>. QED  BY <1>2, <3>1, <4>2, <4>4, <4>5, <4>6
    <3>5. CASE HeaderSkips(file[q])
      <4>1. ~ Descends(file[q])
        BY <1>3, <3>5 DEF HeaderSkips
      <4>2. Payload(file[q]) = 0
        BY <1>3, <4>1 DEF Descends, Containers
      <4>. QED  BY <1>1, <1>2, <1>7, <3>1, <3>2, <4>2
    <3>. QED  BY <2>5, <2>8, <3>3, <3>4, <3>5
  <2>. QED  BY <2>7, <2>8
<1>. QED
  BY <1>1, <1>7, <1>9, <1>10

LEMMA FinishBoxComplete ==
  ASSUME ShapeInv, ListInv, HeadersInv, OuterInv, CompleteInv, FinishBox
  PROVE  CompleteInv'
<1> DEFINE b == Top.box
<1>1. /\ IsFile(file) /\ pos \in Nat /\ pc = "body" /\ h \in Handle /\ FileSz(file) \in Nat
      /\ stack \in Seq(Frame) /\ stack # <<>> /\ tags \in Seq(Nat)
  BY Places DEF ShapeInv, TypeInv, FinishBox, Parsing
<1>2. /\ file' = file /\ pos' \in Nat /\ pos' >= pos
      /\ h'.processdata = StillReads(b)
      /\ BodyReads(b) \/ BodySkips(b) \/ BodyFails(b)
  BY BodySteps
<1>3. SUFFICES ASSUME ~ faulty', h'.mp4error = "ok", Readable(file), ListInReach(file),
                      NEW q \in DOMAIN file, file[q].nm = "ilst"
               PROVE  /\ pos' <= file[q].at => ~ h'.parsedone /\ pc' # "done"
                      /\ file[q].at < pos' =>
                           \/ tags' = TagIds(file)
                           \/ h'.processdata /\ stack'[Len(stack')].box.nm # "ilst"
  BY <1>2 DEF CompleteInv
<1>4. ~ faulty /\ h.mp4error = "ok"
  <2>1. h'.mp4error = "ok" => h.mp4error = "ok"
    BY <1>2 DEF BodyReads, BodySkips, BodyFails, Accounted
  <2>2. faulty' = faulty \/ faulty' = TRUE
    BY BodySteps
  <2>. QED  BY <1>3, <2>1, <2>2
<1>5. Len(stack) \in Nat /\ Len(stack) >= 1 /\ Top = stack[Len(stack)] /\ Top \in Frame
      /\ stack[1].boxlen = 0
  BY <1>1, StackFacts DEF OuterInv
<1>6. /\ pos <= file[q].at => ~ h.parsedone
      /\ file[q].at < pos => \/ tags = TagIds(file)
                             \/ h.processdata /\ b.nm # "ilst"
  BY <1>3, <1>4, <1>5 DEF CompleteInv
<1>7. PlainList(file)
  BY <1>1, <1>3, ReadableFacts
<1>8. /\ file[q].at \in Nat /\ file[q].at < FileSz(file)
      /\ \A i \in DOMAIN file : /\ file[i].at \in Nat /\ file[i].head \in Nat
                                /\ file[i].head >= 8 /\ After(file[i]) <= FileSz(file)
  <2>1. \A i \in DOMAIN file : file[i] \in Cell /\ After(file[i]) <= FileSz(file)
    BY <1>1, Places
  <2>2. \A i \in DOMAIN file : /\ file[i].at \in Nat /\ file[i].head \in Nat
                               /\ file[i].head >= 8 /\ After(file[i]) \in Nat
                               /\ file[i].at < After(file[i])
    BY <2>1, CellFacts
  <2>. QED  BY <1>1, <2>1, <2>2
<1>9. b \in Header
  BY <1>5 DEF Frame
<1>10. CASE file[q].at < pos
  <2>1. file[q].at < pos'
    BY <1>1, <1>2, <1>8, <1>10
  <2>2. CASE tags = TagIds(file)
    <3>1. b.id \in Nat
      BY <1>9 DEF Header
    <3>2. tags' = tags \/ \E x \in Nat : tags' = Append(tags, x)
      BY <1>2, <3>1 DEF BodyReads, BodySkips, BodyFails
    <3>3. ShapeInv' /\ ListInv'
      BY FinishBoxShape, FinishBoxList
    <3>4. tags' = TagIds(file)
      BY <1>2, <1>7, <2>2, <3>2, <3>3, AllStay
    <3>. QED  BY <1>1, <1>2, <1>8, <2>1, <3>4
  <2>3. CASE h.processdata /\ b.nm # "ilst"
    <3>1. StillReads(b)
      BY <2>3 DEF StillReads
    <3>2. PICK i, n \in DOMAIN file :
            /\ file[i].nm = "ilst"
            /\ n + 1 \in DOMAIN file /\ b = file[n + 1]
            /\ EndOf(file, file[i]) \in Int /\ Top.boxlen # 0
            /\ Top.rem = EndOf(file, file[i]) - b.at
            /\ b.len = Size(b)
            /\ Payload(b) \in Nat /\ pos + Payload(b) = After(b)
            /\ n + 1 \in 0 .. Len(file)
            /\ BodyReads(b) => tags' = TagsUpTo(file, n + 1)
      BY <1>1, <1>7, <3>1, AtListBody
    <3> HIDE DEF b
    <3>3. ~ BodySkips(b)
      BY <3>1 DEF BodySkips
    <3>4. ~ BodyFails(b)
      BY <1>1, <1>3, <1>8, <3>1, <3>2 DEF BodyFails
    <3>5. BodyReads(b) /\ Accounted(b) /\ tags' = TagsUpTo(file, n + 1)
      BY <1>2, <3>2, <3>3, <3>4 DEF BodyReads
    <3>6. CASE Top.rem - b.len <= 0
      <4>1. EndOf(file, file[i]) <= After(b)
        <5> DEFINE e == EndOf(file, file[i])
                   x == Top.rem
        <5>1. /\ e \in Int /\ x = e - b.at /\ x - b.len <= 0 /\ b.len = Size(b)
              /\ After(b) = b.at + Size(b) /\ b.at \in Nat /\ Size(b) \in Nat
          BY <1>1, <3>2, <3>6, Places, CellFacts
        <5> HIDE DEF e, x
        <5>2. e <= After(b)
          BY <5>1
        <5>. QED  BY <5>2 DEF e
      <4>2. ASSUME NEW k \in DOMAIN file, n + 1 < k
            PROVE  file[k].nm # "tag"
        <5>1. After(file[n + 1]) <= file[k].at /\ file[k].at \in Nat /\ After(file[n + 1]) \in Nat
          BY <1>1, <1>8, <3>2, <4>2, Places, CellFacts
        <5>2. ~ (file[k].at < EndOf(file, file[i]))
          BY <3>2, <4>1, <5>1
        <5>. QED  BY <1>1, <1>7, <3>2, <5>2, PlainFacts
      <4>3. file \in Seq(Cell)
        BY <1>1 DEF IsFile
      <4>4. TagsUpTo(file, n + 1) = TagIds(file)
        BY <3>2, <4>2, <4>3, NoTagsAfter
      <4>. QED  BY <1>1, <1>2, <1>8, <2>1, <3>5, <4>4
    <3>7. CASE ~ (Top.rem - b.len <= 0)
      <4> DEFINE t == Top
                 r == Top.rem - b.len
                 s == stack'[Len(stack')]
      <4>1. t \in Frame /\ s = [t EXCEPT !.rem = r]
        BY <1>5, <3>5, <3>7 DEF Accounted
      <4> HIDE DEF t, r
      <4>2. s.box = t.box
        <5> HIDE DEF s
        <5>. QED  BY <4>1 DEF Frame
      <4>3. s.box.nm # "ilst"
        BY <2>3, <4>2 DEF t, b
      <4>. QED  BY <1>1, <1>2, <1>8, <2>1, <3>1, <4>3
    <3>. QED  BY <3>6, <3>7
  <2>. QED  BY <1>6, <1>10, <2>2, <2>3
<1>11. CASE pos <= file[q].at
  <2>1. ~ h.parsedone
    BY <1>6, <1>11
  <2>2. /\ Accounted(b)
        /\ \/ pos' = pos
           \/ \E i \in DOMAIN file :
                /\ file[i].len # 0 /\ ~ Descends(file[i])
                /\ pos = file[i].at + file[i].head /\ pos' = EndOf(file, file[i])
    BY <1>3, <2>1, ProperBody
  <2>3. pos' <= file[q].at
    <3>1. ASSUME NEW i \in DOMAIN file, file[i].len # 0, ~ Descends(file[i]),
                 pos = file[i].at + file[i].head, pos' = EndOf(file, file[i]),
                 file[q].at < pos'
          PROVE  FALSE
      <4>1. i \in Enclosing(file, q)
        <5>1. file[i].at < file[q].at
          BY <1>1, <1>8, <1>11, <3>1
        <5>. QED  BY <3>1, <5>1 DEF Enclosing
      <4>2. file[i].nm \in Containers \cup {"meta"}
        BY <1>3, <4>1 DEF ListInReach
      <4>3. Payload(file[i]) = 0
        BY <1>1, <1>3, <3>1, <4>2, DescendsFacts
      <4>4. EndOf(file, file[i]) = file[i].at + file[i].head + Payload(file[i])
        BY <1>1, <1>3, <3>1, ReadableFacts
      <4>. QED  BY <1>1, <1>8, <1>11, <3>1, <4>3, <4>4
    <3>. QED  BY <1>1, <1>2, <1>8, <1>11, <2>2, <3>1
  <2>4. pc' # "done"
    <3>1. Len(stack) = 1 => Top.boxlen = 0
      BY <1>5
    <3>. QED  BY <2>2, <3>1 DEF Accounted
  <2>5. ~ h'.parsedone
    BY <2>1, <2>2 DEF Accounted
  <2>. QED  BY <1>2, <1>8, <2>3, <2>4, <2>5
<1>. QED
  BY <1>1, <1>8, <1>10, <1>11

LEMMA NextComplete ==
  /\ ShapeInv /\ BasesInv /\ ListInv /\ HeadersInv /\ OuterInv /\ CompleteInv
  /\ [Next]_vars
  => CompleteInv'
<1> SUFFICES ASSUME ShapeInv, BasesInv, ListInv, HeadersInv, OuterInv, CompleteInv, [Next]_vars
             PROVE  CompleteInv'
  OBVIOUS
<1>1. ~ NewHandle.parsedone
  BY DEF NewHandle
<1>2. ASSUME NEW f, IsFile(f), NEW q \in DOMAIN f, q # 1
      PROVE  /\ After(f[1]) <= f[q].at /\ f[1].at = 0 /\ f[1].at < f[q].at
             /\ After(f[1]) >= 8 /\ After(f[1]) \in Nat /\ f[q].at \in Nat
  <2>1. q \in Nat /\ 1 \in DOMAIN f /\ f[1] \in Cell /\ f[q] \in Cell /\ f[1].at = 0
    BY <1>2, Places
  <2>2. 1 < q
    BY <1>2, <2>1, Places
  <2>3. After(f[1]) <= f[q].at
    BY <1>2, <2>1, <2>2, Places
  <2>4. After(f[1]) >= 8 /\ After(f[1]) \in Nat /\ f[q].at \in Nat
    BY <2>1, CellFacts
  <2>. QED  BY <2>1, <2>3, <2>4
<1>3. CASE ReadFtyp \/ ReadBrands
  <2>1. /\ file' = file /\ IsFile(file) /\ h = NewHandle
        /\ pc = "ftyp" => pos = 0
    BY <1>3 DEF ReadFtyp, ReadBrands, ShapeInv, TypeInv, StartInv
  <2>2. SUFFICES ASSUME ~ faulty', h'.mp4error = "ok", Readable(file), ListInReach(file),
                        NEW q \in DOMAIN file, file[q].nm = "ilst"
                 PROVE  /\ pos' <= file[q].at => ~ h'.parsedone /\ pc' # "done"
                        /\ file[q].at < pos' =>
                             \/ tags' = TagIds(file)
                             \/ h'.processdata /\ stack'[Len(stack')].box.nm # "ilst"
    BY <2>1 DEF CompleteInv
  <2>3. file # <<>>
    BY <2>1, Places
  <2>4. CASE StartParse
    <3>1. /\ file[1].nm = "ftyp" /\ file[1].len # 0 /\ pos' = EndOf(file, file[1])
          /\ AtBox(file, pos')
      BY <1>3, <2>2, <2>3, <2>4, StartFacts
    <3>2. q # 1
      BY <2>2, <3>1
    <3>3. 1 \notin Enclosing(file, q)
      <4>1. 1 \in DOMAIN file
        BY <2>1, <2>3, Places
      <4>. QED  BY <2>2, <3>1, <4>1 DEF ListInReach, Containers
    <3>4. ~ (file[q].at < EndOf(file, file[1]))
      BY <1>2, <2>1, <2>3, <3>2, <3>3, Places DEF Enclosing
    <3>5. pos' \in Nat /\ file[q].at \in Nat
      BY <1>2, <2>1, <2>2, <3>1, <3>2, ReadableFacts
    <3>. QED  BY <1>1, <2>1, <2>4, <3>1, <3>4, <3>5 DEF StartParse
  <2>5. CASE \E e : e # "ok" /\ Refuse(e)
    <3>1. PICK e : e # "ok" /\ h' = [h EXCEPT !.mp4error = e]
      BY <2>5 DEF Refuse
    <3>2. h'.mp4error = e
      BY <2>1, <3>1 DEF NewHandle
    <3>. QED  BY <2>2, <3>1, <3>2
  <2>6. CASE file[1].nm = "ftyp" /\ pc = "ftyp" /\ pos' = pos + BoxHead /\ pc' = "brands" /\ h' = h
    <3>1. q # 1
      BY <2>2, <2>6
    <3>2. pos' = 8
      BY <2>1, <2>6 DEF BoxHead
    <3>3. pos' <= file[q].at /\ file[q].at \in Nat
      BY <1>2, <2>1, <3>1, <3>2
    <3>. QED  BY <1>1, <2>1, <2>6, <3>2, <3>3
  <2>. QED  BY <1>3, <2>4, <2>5, <2>6 DEF ReadFtyp, ReadBrands
<1>4. CASE ReadHeader
  BY <1>4, ReadHeaderComplete
<1>5. CASE FinishBox
  BY <1>5, FinishBoxComplete
<1>6. CASE Repair \/ WriteTags
  <2>1. PICK f, p : /\ IsFile(f) /\ f # <<>> /\ f[1].nm = "ftyp" /\ p \in Nat /\ Again(f, p)
                    /\ Readable(f) => p = EndOf(f, f[1])
    BY <1>6, AgainStart
  <2>2. file' = f /\ pos' = p /\ h' = NewHandle /\ pc' = "header"
    BY <2>1 DEF Again
  <2>3. ASSUME Readable(f), ListInReach(f), NEW q \in DOMAIN f, f[q].nm = "ilst"
        PROVE  pos' <= f[q].at /\ ~ (f[q].at < pos')
    <3>1. q # 1 /\ 1 \in DOMAIN f
      BY <2>1, <2>3, Places
    <3>2. 1 \notin Enclosing(f, q)
      BY <2>1, <2>3, <3>1 DEF ListInReach, Containers
    <3>3. f[1].at < f[q].at /\ f[q].at \in Nat
      BY <1>2, <2>1, <3>1
    <3>. QED  BY <2>1, <2>2, <2>3, <3>1, <3>2, <3>3 DEF Enclosing
  <2>. QED  BY <1>1, <2>2, <2>3 DEF CompleteInv
<1>7. CASE UNCHANGED vars
  BY <1>7 DEF vars, CompleteInv
<1>. QED
  BY <1>3, <1>4, <1>5, <1>6, <1>7 DEF Next, ParseStep

LEMMA InitComplete == Init => CompleteInv
<1> SUFFICES ASSUME Init
             PROVE  CompleteInv
  OBVIOUS
<1>1. IsFile(file) /\ pos = 0 /\ pc = "ftyp" /\ ~ h.parsedone
  BY InitShape DEF ShapeInv, TypeInv, Init, NewHandle
<1>2. \A q \in DOMAIN file : file[q].at \in Nat
  BY <1>1, Places, CellFacts
<1>. QED
  BY <1>1, <1>2 DEF CompleteInv

\* Every tag of every file that is a tree of boxes is added, when no read, seek or
\* allocation fails, however deep the tag list lies, whatever is in front of it and
\* behind it, and also in the file that a list was inserted into or whose lengths
\* were corrected (mp4tag_parse_file, mp4tag_process_tag).
THEOREM AllTagsRead == Spec => []TagsRead
<1> DEFINE Inv == ShapeInv /\ BasesInv /\ ListInv /\ HeadersInv /\ OuterInv /\ CompleteInv
<1>1. Init => Inv
  BY InitShape, InitBases, InitList, InitHeaders, InitComplete
<1>2. Inv /\ [Next]_vars => Inv'
  BY NextShape, NextBases, NextList, NextHeaders, NextOuter, NextComplete
<1>3. Inv => TagsRead
  <2> SUFFICES ASSUME Inv, pc = "done", ~ faulty, h.mp4error = "ok",
                      Readable(file), ListInReach(file)
               PROVE  tags = TagIds(file)
    BY DEF TagsRead
  <2>1. IsFile(file) /\ pos \in Nat /\ file \in Seq(Cell) /\ Len(file) \in Nat
    BY DEF ShapeInv, TypeInv, IsFile
  <2>2. PlainList(file)
    BY <2>1, ReadableFacts
  <2>3. (\E m \in 0 .. Len(file) : tags = TagsUpTo(file, m)) /\ ~ h.processdata
    BY <2>2 DEF ListInv, InList, AtCell
  <2>4. CASE \E q \in DOMAIN file : file[q].nm = "ilst"
    <3>1. PICK q \in DOMAIN file : file[q].nm = "ilst"
      BY <2>4
    <3>2. file[q].at \in Nat
      BY <2>1, Places, CellFacts
    <3>. QED  BY <2>1, <2>3, <3>1, <3>2 DEF CompleteInv
  <2>5. CASE ~ \E q \in DOMAIN file : file[q].nm = "ilst"
    <3>1. \A k \in DOMAIN file : file[k].nm # "tag"
      BY <2>2, <2>5 DEF PlainList
    <3>2. PICK m \in 0 .. Len(file) : tags = TagsUpTo(file, m)
      BY <2>3
    <3>3. TagsUpTo(file, m) = TagIds(file)
      BY <2>1, <3>1, <3>2, NoTagsAfter
    <3>. QED  BY <3>2, <3>3
  <2>. QED  BY <2>4, <2>5
<1> HIDE DEF Inv
<1>. QED
  BY <1>1, <1>2, <1>3, PTL DEF Spec
=============================================================================
