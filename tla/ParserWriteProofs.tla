------------------------- MODULE ParserWriteProofs -------------------------
(***************************************************************************)
(* What happens to a file in Parser: proofs for all files, however they    *)
(* are opened and however deep the descent may go, that the repair and the *)
(* insertion of a tag list do to it what they should and nothing else.     *)
(***************************************************************************)
EXTENDS ParserProofs

-----------------------------------------------------------------------------
(* Trees of boxes.                                                         *)

\* The byte at p lies within box j, behind its first one.
Within(f, j, p) == f[j].at < p /\ p < EndOf(f, f[j])

LEMMA EnclosingIs ==
  ASSUME NEW f, NEW i \in DOMAIN f
  PROVE  \A j \in DOMAIN f : j \in Enclosing(f, i) <=> Within(f, j, f[i].at)
BY DEF Enclosing, Within

\* The places of boxes that nest.
LEMMA TreeFacts ==
  ASSUME NEW f, IsFile(f), Readable(f)
  PROVE  /\ \A i \in DOMAIN f :
              /\ f[i].at \in Nat /\ f[i].len \in Int /\ f[i].head \in {8, 16} /\ f[i].head \in Nat
              /\ f[i].body \in Nat
              /\ After(f[i]) \in Nat /\ EndOf(f, f[i]) \in Nat
              /\ After(f[i]) = f[i].at + f[i].head + f[i].body
              /\ EndOf(f, f[i]) >= After(f[i]) /\ EndOf(f, f[i]) <= FileSz(f)
              /\ f[i].len # 0 => EndOf(f, f[i]) = f[i].at + f[i].len
         /\ FileSz(f) \in Nat
         /\ \A i, j \in DOMAIN f :
              /\ Within(f, j, f[i].at) => EndOf(f, f[i]) <= EndOf(f, f[j])
              /\ f[j].at <= f[i].at /\ f[i].at < After(f[j]) => i = j
<1>1. FileSz(f) \in Nat
  BY Places
<1>2. ASSUME NEW i \in DOMAIN f
      PROVE  /\ f[i].at \in Nat /\ f[i].len \in Int /\ f[i].head \in {8, 16} /\ f[i].head \in Nat
             /\ f[i].body \in Nat
             /\ After(f[i]) \in Nat /\ EndOf(f, f[i]) \in Nat
             /\ After(f[i]) = f[i].at + f[i].head + f[i].body
             /\ EndOf(f, f[i]) >= After(f[i]) /\ EndOf(f, f[i]) <= FileSz(f)
             /\ f[i].len # 0 => EndOf(f, f[i]) = f[i].at + f[i].len
  <2>1. f[i] \in Cell
    BY Places
  <2>2. /\ f[i].at \in Nat /\ f[i].len \in Int /\ f[i].head \in {8, 16} /\ f[i].head \in Nat
        /\ f[i].body \in Nat /\ After(f[i]) \in Nat
        /\ After(f[i]) = f[i].at + f[i].head + f[i].body
    BY <2>1, CellFacts DEF Cell, After, Size
  <2>3. EndOf(f, f[i]) >= After(f[i]) /\ AtBox(f, EndOf(f, f[i]))
    BY DEF Readable, BoxTree, AtBox
  <2>4. EndOf(f, f[i]) \in Nat /\ EndOf(f, f[i]) <= FileSz(f)
    BY <2>3, ReadableFacts
  <2>. QED  BY <2>2, <2>3, <2>4 DEF EndOf
<1>3. ASSUME NEW i \in DOMAIN f, NEW j \in DOMAIN f
      PROVE  /\ Within(f, j, f[i].at) => EndOf(f, f[i]) <= EndOf(f, f[j])
             /\ f[j].at <= f[i].at /\ f[i].at < After(f[j]) => i = j
  BY <1>3, OneCell DEF Readable, BoxTree, Enclosing, Within
<1>. QED
  BY <1>1, <1>2, <1>3

LEMMA OnePlace ==
  ASSUME NEW f, IsFile(f), NEW i \in DOMAIN f, NEW j \in DOMAIN f, f[i].at = f[j].at
  PROVE  i = j
<1>1. f[j] \in Cell /\ f[i] \in Cell
  BY Places
<1>2. f[j].at \in Nat /\ f[j].at < After(f[j])
  BY <1>1, CellFacts
<1>. QED
  BY <1>2, OneCell

\* What lies around the end of box i, and around its first box.
LEMMA BehindBox ==
  ASSUME NEW f, IsFile(f), Readable(f), NEW i \in DOMAIN f, NEW j \in DOMAIN f
  PROVE  Within(f, j, EndOf(f, f[i]))
           <=> Within(f, j, f[i].at) /\ EndOf(f, f[i]) < EndOf(f, f[j])
<1> DEFINE a == f[i].at
           b == f[j].at
           d == EndOf(f, f[i])
           e == EndOf(f, f[j])
<1>1. a \in Nat /\ b \in Nat /\ d \in Nat /\ e \in Nat /\ a < d /\ b < e
  BY TreeFacts
<1>2. /\ a = b => i = j
      /\ a < b /\ b < d => e <= d
      /\ b < a /\ a < e => d <= e
  <2>1. a < After(f[i]) /\ b < After(f[j])
    BY TreeFacts
  <2>. QED  BY <1>1, <2>1, TreeFacts DEF Within
<1>3. i = j => d = e
  OBVIOUS
<1>4. /\ Within(f, j, EndOf(f, f[i])) <=> b < d /\ d < e
      /\ Within(f, j, f[i].at) <=> b < a /\ a < e
  BY DEF Within
<1> HIDE DEF a, b, d, e
<1>. QED
  BY <1>1, <1>2, <1>3, <1>4 DEF d, e

LEMMA WithinBox ==
  ASSUME NEW f, IsFile(f), Readable(f), NEW i \in DOMAIN f, NEW j \in DOMAIN f,
         After(f[i]) < EndOf(f, f[i])
  PROVE  Within(f, j, After(f[i])) <=> Within(f, j, f[i].at) \/ j = i
<1> DEFINE a == f[i].at
           c == After(f[i])
           b == f[j].at
           d == EndOf(f, f[i])
           e == EndOf(f, f[j])
<1>1. a \in Nat /\ b \in Nat /\ c \in Nat /\ d \in Nat /\ e \in Nat /\ a < c /\ c < d
  BY TreeFacts
<1>2. /\ a <= b /\ b < c => i = j
      /\ b < a /\ a < e => d <= e
  BY TreeFacts DEF Within
<1>3. i = j => d = e /\ a = b
  OBVIOUS
<1>4. /\ Within(f, j, After(f[i])) <=> b < c /\ c < e
      /\ Within(f, j, f[i].at) <=> b < a /\ a < e
  BY DEF Within
<1> HIDE DEF a, b, c, d, e
<1>. QED
  BY <1>1, <1>2, <1>3, <1>4

\* A box that is entered holds a box, and the length the next call is given is
\* what its content takes.
LEMMA EnteredBox ==
  ASSUME NEW f, IsFile(f), Readable(f), ShortHeads(f), NEW i \in DOMAIN f,
         Descends(f[i]), f[i].len # 0
  PROVE  /\ After(f[i]) < EndOf(f, f[i])
         /\ Call((f[i].len - Skip(f[i])) % SkipMod).boxlen # 0
         /\ Call((f[i].len - Skip(f[i])) % SkipMod).rem = EndOf(f, f[i]) - After(f[i])
<1>1. /\ f[i].at \in Nat /\ f[i].len \in Int /\ f[i].head = 8 /\ f[i].body \in Nat
      /\ After(f[i]) = f[i].at + f[i].head + f[i].body
      /\ EndOf(f, f[i]) >= After(f[i]) /\ EndOf(f, f[i]) = f[i].at + f[i].len
      /\ f[i].nm \in Containers \cup {"meta"}
      /\ f[i].nm = "meta" => f[i].len # 12
  BY TreeFacts DEF Descends, ShortHeads, BoxHead, MetaSz
<1>2. /\ f[i].nm \in Containers => f[i].body = 0
      /\ f[i].nm = "meta" => f[i].body = 4
  BY DEF IsFile, MetaSz, BoxHead
<1>3. f[i].len # 8
  BY <1>1 DEF Descends, Payload
<1>4. Skip(f[i]) = f[i].body
  BY <1>1, <1>2 DEF Skip, MetaSz, BoxHead, Containers
<1>5. f[i].len > 8 + f[i].body
  BY <1>1, <1>2, <1>3
<1>6. f[i].len < SkipMod /\ SkipMod \in Nat
  BY <1>1, ParserAssumption DEF Readable
<1> DEFINE l == f[i].len - Skip(f[i])
<1>7. l \in Nat /\ l < SkipMod /\ l # 0 /\ l - 8 = EndOf(f, f[i]) - After(f[i])
  BY <1>1, <1>4, <1>5, <1>6
<1> HIDE DEF l
<1>8. l % SkipMod = l
  BY <1>6, <1>7
<1>9. Call(l).boxlen # 0 /\ Call(l).rem = EndOf(f, f[i]) - After(f[i])
  BY <1>7 DEF Call, BoxHead
<1>. QED
  BY <1>1, <1>5, <1>8, <1>9 DEF l

-----------------------------------------------------------------------------
(* The inductive invariant: where the descent is, in a proper file.        *)

\* The place of call k of s: its box, or where the next one is read.
PlaceOf(s, c, p, k) == IF k = Len(s) /\ c = "header" THEN p ELSE s[k].box.at

\* The boxes around the place of call k are those of the calls below it, and what
\* remains of the level is the way to its end, which is not reached yet.
Around(f, s, n, p) == \A j \in DOMAIN f : Within(f, j, p) <=> \E l \in 1 .. n : s[l].box = f[j]
LevelOK(f, s, k, p) ==
  /\ Around(f, s, k - 1, p)
  /\ k >= 2 => /\ s[k].boxlen # 0 /\ s[k - 1].box.len # 0
               /\ s[k].rem = EndOf(f, s[k - 1].box) - p
               /\ p < EndOf(f, s[k - 1].box)

InStep ==
  ~ faulty /\ ~ h.parsedone /\ h.mp4error = "ok" /\ Readable(file) /\ ShortHeads(file) =>
    /\ \A k \in 1 .. Len(stack) : LevelOK(file, stack, k, PlaceOf(stack, pc, pos, k))
    /\ pc = "body" /\ Entered(file, stack[Len(stack)]) =>
         /\ stack[Len(stack)].box.len # 0
         /\ pos = EndOf(file, stack[Len(stack)].box)

\* A call that is not touched.
LEMMA LevelKept ==
  ASSUME NEW f, NEW s, NEW t, NEW k \in Nat, NEW p, LevelOK(f, s, k, p), k >= 1,
         \A l \in 1 .. k - 1 : t[l].box = s[l].box,
         k >= 2 => t[k].boxlen = s[k].boxlen /\ t[k].rem = s[k].rem
  PROVE  LevelOK(f, t, k, p)
<1>1. k >= 2 => t[k - 1].box = s[k - 1].box
  <2>1. k >= 2 => k - 1 \in 1 .. k - 1
    OBVIOUS
  <2>. QED  BY <2>1
<1>2. Around(f, t, k - 1, p)
  BY DEF LevelOK, Around
<1>. QED
  BY <1>1, <1>2 DEF LevelOK

LEMMA ReadHeaderInStep ==
  ASSUME ShapeInv, HeadersInv, InStep, ReadHeader
  PROVE  InStep'
<1>1. /\ IsFile(file) /\ pos \in Nat /\ pc = "header" /\ h \in Handle
      /\ stack \in Seq(Frame) /\ stack # <<>>
  BY DEF ShapeInv, TypeInv, ReadHeader, Parsing
<1>2. file' = file
  BY HeaderSteps
<1>3. SUFFICES ASSUME ~ faulty', ~ h'.parsedone, h'.mp4error = "ok", Readable(file),
                      ShortHeads(file)
               PROVE  /\ \A k \in 1 .. Len(stack') :
                           LevelOK(file, stack', k, PlaceOf(stack', pc', pos', k))
                      /\ pc' = "body" /\ Entered(file, stack'[Len(stack')]) =>
                           /\ stack'[Len(stack')].box.len # 0
                           /\ pos' = EndOf(file, stack'[Len(stack')].box)
  BY <1>2 DEF InStep
<1>4. ~ faulty /\ ~ h.parsedone
  <2>1. h.parsedone = TRUE => h'.parsedone = TRUE
    BY HeaderSteps DEF HeaderFails, HeaderBreaks, HeaderEnters, HeaderSkips, HeaderMisses
  <2>2. h.parsedone \in BOOLEAN
    BY <1>1 DEF Handle
  <2>3. ~ faulty
    BY <1>3, HeaderSteps
  <2>. QED  BY <1>3, <2>1, <2>2, <2>3
<1>5. h.mp4error = "ok"
  BY <1>3, HeaderSteps DEF HeaderFails, HeaderBreaks, HeaderEnters, HeaderSkips, HeaderMisses
<1>6. \A k \in 1 .. Len(stack) : LevelOK(file, stack, k, PlaceOf(stack, pc, pos, k))
  BY <1>3, <1>4, <1>5 DEF InStep
<1> DEFINE n == Len(stack)
<1>7. n \in Nat /\ n >= 1
  BY <1>1, StackFacts
<1>8. /\ LevelOK(file, stack, n, pos)
      /\ \A k \in 1 .. n - 1 : LevelOK(file, stack, k, stack[k].box.at)
  BY <1>1, <1>6, <1>7 DEF PlaceOf
<1>9. CASE pos = FileSz(file) /\ HeaderFails
  <2>1. ASSUME n >= 2
        PROVE  FALSE
    <3>1. n >= 2
      BY <2>1
    <3>2. Entered(file, stack[n - 1])
      BY <1>3, <1>4, <1>7, <3>1 DEF HeadersInv
    <3>3. PICK i \in DOMAIN file : stack[n - 1].box = file[i]
      BY <3>2 DEF Entered
    <3>4. pos < EndOf(file, file[i])
      BY <1>8, <3>1, <3>3 DEF LevelOK
    <3>5. EndOf(file, file[i]) <= FileSz(file) /\ EndOf(file, file[i]) \in Nat
      BY <1>1, <1>3, TreeFacts
    <3>. QED  BY <1>1, <1>9, <3>4, <3>5
  <2>2. n = 1
    <3> HIDE DEF n
    <3>. QED  BY <1>7, <2>1
  <2>3. Len(stack') = 0 /\ pc' = "done"
    BY <1>1, <1>9, <2>2, StackFacts DEF HeaderFails, Left
  <2>. QED  BY <2>3
<1>10. ASSUME NEW i \in DOMAIN file, file[i].at = pos,
              HeaderEnters(file[i]) \/ HeaderSkips(file[i])
       PROVE  /\ \A k \in 1 .. Len(stack') :
                   LevelOK(file, stack', k, PlaceOf(stack', pc', pos', k))
              /\ pc' = "body" /\ Entered(file, stack'[Len(stack')]) =>
                   /\ stack'[Len(stack')].box.len # 0
                   /\ pos' = EndOf(file, stack'[Len(stack')].box)
  <2> DEFINE b == file[i]
  <2>1. b \in Header
    <3>1. b \in Cell
      BY <1>1, Places
    <3>. QED  BY <3>1 DEF Cell, Header
  <2>2. ASSUME NEW skip \in Nat
        PROVE  LET s == At(b, skip) IN
               /\ s \in Seq(Frame) /\ Len(s) = n /\ s[n].box = b
               /\ \A k \in 1 .. n : LevelOK(file, s, k, s[k].box.at)
    <3> DEFINE s == At(b, skip)
    <3>1. /\ s \in Seq(Frame) /\ Len(s) = n /\ s[n].box = b
          /\ \A k \in 1 .. n - 1 : s[k] = stack[k]
          /\ s[n].boxlen = stack[n].boxlen
          /\ stack[n].boxlen # 0 => s[n].rem = stack[n].rem
      <4>1. b \in Header
        BY <2>1
      <4> HIDE DEF b
      <4>2. /\ s \in Seq(Frame) /\ Len(s) = n
            /\ \A k \in 1 .. n - 1 : s[k] = stack[k]
            /\ s[n].box = b /\ s[n].boxlen = Top.boxlen
            /\ s[n].rem = IF Top.boxlen = 0 THEN b.len ELSE Top.rem
        BY <1>1, <2>2, <4>1, AtFacts
      <4>3. Top = stack[n]
        BY <1>1, StackFacts
      <4>. QED  BY <4>2, <4>3
    <3> HIDE DEF s
    <3>2. ASSUME NEW k \in 1 .. n - 1
          PROVE  LevelOK(file, s, k, s[k].box.at)
      <4>1. /\ k \in Nat /\ k >= 1 /\ LevelOK(file, stack, k, stack[k].box.at) /\ s[k] = stack[k]
            /\ \A l \in 1 .. k - 1 : s[l].box = stack[l].box
        BY <1>7, <1>8, <3>1, <3>2
      <4>. QED  BY <4>1, LevelKept
    <3>3. LevelOK(file, s, n, s[n].box.at)
      <4>1. \A l \in 1 .. n - 1 : s[l].box = stack[l].box
        BY <3>1
      <4>2. n >= 2 => stack[n].boxlen # 0
        BY <1>8 DEF LevelOK
      <4>3. LevelOK(file, s, n, pos)
        BY <1>7, <1>8, <3>1, <4>1, <4>2, LevelKept
      <4>. QED  BY <1>10, <3>1, <4>3
    <3>4. \A k \in 1 .. n : k = n \/ k \in 1 .. n - 1
      <4>1. n \in Nat
        BY <1>7
      <4> HIDE DEF n
      <4>. QED  BY <4>1
    <3>. QED  BY <3>1, <3>2, <3>3, <3>4 DEF s
  <2>3. CASE HeaderEnters(b)
    <3> DEFINE s == At(b, 0)
               c == Call((b.len - Skip(b)) % SkipMod)
    <3>1. /\ b.len # 0 /\ Descends(b) /\ pos' = pos + b.head + Skip(b)
          /\ stack' = Append(s, c) /\ pc' = "header"
      BY <1>3, <1>4, <2>3 DEF HeaderEnters
    <3>2. /\ s \in Seq(Frame) /\ Len(s) = n /\ s[n].box = b
          /\ \A k \in 1 .. n : LevelOK(file, s, k, s[k].box.at)
      BY <2>2
    <3>3. pos' = After(b)
      BY <1>1, <1>10, <3>1, DescendsFacts
    <3>4. /\ After(b) < EndOf(file, b) /\ c.boxlen # 0 /\ c.rem = EndOf(file, b) - After(b)
      BY <1>1, <1>3, <3>1, EnteredBox
    <3> HIDE DEF s, c
    <3>5. /\ Len(stack') = n + 1 /\ \A k \in 1 .. n : stack'[k] = s[k]
          /\ stack'[n + 1] = c
      BY <1>7, <3>1, <3>2
    <3>6. ASSUME NEW k \in 1 .. n
          PROVE  LevelOK(file, stack', k, PlaceOf(stack', pc', pos', k))
      <4>1. /\ k \in Nat /\ k >= 1 /\ k # Len(stack') /\ stack'[k] = s[k]
            /\ \A l \in 1 .. k - 1 : stack'[l].box = s[l].box
        BY <1>7, <3>5, <3>6
      <4>2. LevelOK(file, s, k, s[k].box.at)
        BY <3>2, <3>6
      <4>3. LevelOK(file, stack', k, s[k].box.at)
        BY <4>1, <4>2, LevelKept
      <4>. QED  BY <4>1, <4>3 DEF PlaceOf
    <3>7. LevelOK(file, stack', n + 1, pos')
      <4>1. Around(file, s, n - 1, b.at)
        BY <1>7, <3>2 DEF LevelOK
      <4>2. ASSUME NEW j \in DOMAIN file
            PROVE  Within(file, j, pos') <=> \E l \in 1 .. n : stack'[l].box = file[j]
        <5>1. Within(file, j, pos') <=> Within(file, j, b.at) \/ j = i
          BY <1>1, <1>3, <3>3, <3>4, WithinBox
        <5>2. Within(file, j, b.at) <=> \E l \in 1 .. n - 1 : stack'[l].box = file[j]
          <6>1. Within(file, j, b.at) <=> \E l \in 1 .. n - 1 : s[l].box = file[j]
            BY <4>1 DEF Around
          <6>2. \A l \in 1 .. n - 1 : stack'[l] = s[l]
            BY <1>7, <3>5
          <6>. QED  BY <6>1, <6>2
        <5>3. j = i <=> stack'[n].box = file[j]
          <6>1. stack'[n].box = file[i]
            BY <1>7, <3>2, <3>5
          <6>2. file[i] = file[j] => i = j
            BY <1>1, OnePlace
          <6>. QED  BY <6>1, <6>2
        <5>4. \A l : l \in 1 .. n <=> l \in 1 .. n - 1 \/ l = n
          <6>1. n \in Nat /\ n >= 1
            BY <1>7
          <6> HIDE DEF n
          <6>. QED  BY <6>1
        <5>. QED  BY <5>1, <5>2, <5>3, <5>4
      <4>3. n + 1 - 1 = n
        BY <1>7
      <4>4. stack'[n].box = b /\ n \in 1 .. n
        BY <1>7, <3>2, <3>5
      <4> DEFINE m == n + 1
      <4>5. Around(file, stack', n, pos')
        BY <4>2 DEF Around
      <4>6. stack'[m] = c /\ stack'[n].box = b /\ m - 1 = n
        BY <3>5, <4>3, <4>4
      <4>7. /\ c.boxlen # 0 /\ b.len # 0 /\ c.rem = EndOf(file, b) - pos'
            /\ pos' < EndOf(file, b)
        BY <3>1, <3>3, <3>4
      <4> HIDE DEF m, b
      <4>8. LevelOK(file, stack', m, pos')
        BY <4>5, <4>6, <4>7 DEF LevelOK
      <4>. QED  BY <4>8 DEF m
    <3>8. \A k \in 1 .. Len(stack') : k = n + 1 \/ k \in 1 .. n
      <4>1. n \in Nat
        BY <1>7
      <4> HIDE DEF n
      <4>. QED  BY <3>5, <4>1
    <3>. QED  BY <3>1, <3>5, <3>6, <3>7, <3>8 DEF PlaceOf
  <2>4. CASE HeaderSkips(b)
    <3>1. /\ b.len # 0 /\ stack' = At(b, Skip(b)) /\ pc' = "body"
          /\ (b.nm = "free" \/ ~ Descends(b))
      BY <2>4 DEF HeaderSkips
    <3>2. ~ Descends(b)
      BY <3>1 DEF Descends, Containers
    <3>3. Skip(b) \in Nat
      BY <2>1, SkipFacts
    <3>4. /\ Len(stack') = n /\ stack'[n].box = b
          /\ \A k \in 1 .. n : LevelOK(file, stack', k, stack'[k].box.at)
      BY <2>2, <3>1, <3>3
    <3>5. ~ Entered(file, stack'[Len(stack')])
      BY <3>2, <3>4 DEF Entered
    <3>. QED  BY <3>1, <3>4, <3>5 DEF PlaceOf
  <2>. QED  BY <1>10, <2>3, <2>4
<1>. QED
  BY <1>3, <1>4, <1>9, <1>10, ProperHeader

LEMMA FinishBoxInStep ==
  ASSUME ShapeInv, ListInv, HeadersInv, OuterInv, InStep, FinishBox
  PROVE  InStep'
<1> DEFINE b == Top.box
           n == Len(stack)
<1>1. /\ IsFile(file) /\ pos \in Nat /\ pc = "body" /\ h \in Handle
      /\ stack \in Seq(Frame) /\ stack # <<>>
  BY DEF ShapeInv, TypeInv, FinishBox, Parsing
<1>2. file' = file
  BY BodySteps
<1>3. SUFFICES ASSUME ~ faulty', ~ h'.parsedone, h'.mp4error = "ok", Readable(file),
                      ShortHeads(file)
               PROVE  /\ \A k \in 1 .. Len(stack') :
                           LevelOK(file, stack', k, PlaceOf(stack', pc', pos', k))
                      /\ pc' = "body" /\ Entered(file, stack'[Len(stack')]) =>
                           /\ stack'[Len(stack')].box.len # 0
                           /\ pos' = EndOf(file, stack'[Len(stack')].box)
  BY <1>2 DEF InStep
<1>4. ~ faulty
  <2>1. faulty' = faulty \/ faulty' = TRUE
    BY BodySteps
  <2>. QED  BY <1>3, <2>1
<1>5. ~ h.parsedone /\ (h'.mp4error = "ok" => h.mp4error = "ok" \/ BodyFails(b))
  <2>1. BodyReads(b) \/ BodySkips(b) \/ BodyFails(b)
    BY BodySteps
  <2>2. h.parsedone = TRUE => h'.parsedone = TRUE
    BY <2>1 DEF BodyReads, BodySkips, BodyFails, Accounted
  <2>3. h.parsedone \in BOOLEAN
    BY <1>1 DEF Handle
  <2>. QED  BY <1>3, <2>1, <2>2, <2>3 DEF BodyReads, BodySkips, Accounted
<1>6. /\ Accounted(b)
      /\ \/ Entered(file, Top) /\ AtBox(file, pos) /\ pos' = pos
         \/ \E i \in DOMAIN file :
              /\ b = file[i] /\ file[i].len # 0 /\ ~ Descends(file[i])
              /\ pos = file[i].at + file[i].head /\ pos' = EndOf(file, file[i])
  BY <1>3, <1>5, ProperBody
<1>7. h.mp4error = "ok"
  BY <1>3, <1>6 DEF Accounted
<1>8. n \in Nat /\ n >= 1 /\ Top = stack[n] /\ Top \in Frame
  BY <1>1, StackFacts
<1>9. /\ \A k \in 1 .. n : LevelOK(file, stack, k, stack[k].box.at)
      /\ Entered(file, Top) => b.len # 0 /\ pos = EndOf(file, b)
  BY <1>1, <1>3, <1>4, <1>5, <1>7, <1>8 DEF InStep, PlaceOf
<1>10. PICK i \in DOMAIN file : b = file[i] /\ b.len # 0 /\ pos' = EndOf(file, b)
  BY <1>6, <1>9 DEF Entered
<1>11. /\ EndOf(file, b) \in Nat /\ b.at \in Nat /\ b.len \in Int
       /\ EndOf(file, b) = b.at + b.len
  BY <1>1, <1>3, <1>10, TreeFacts
<1>12. n = 1 => Top.boxlen = 0
  BY <1>1, <1>8 DEF OuterInv
\* The level the box lies in.
<1>13. ASSUME n >= 2
       PROVE  \E m \in DOMAIN file :
                /\ stack[n - 1].box = file[m] /\ file[m].len # 0
                /\ EndOf(file, b) <= EndOf(file, file[m]) /\ EndOf(file, file[m]) \in Nat
                /\ Top.boxlen # 0 /\ Top.rem = EndOf(file, file[m]) - b.at
                /\ Around(file, stack, n - 1, b.at) /\ Around(file, stack, n - 1 - 1, file[m].at)
  <2>1. n - 1 \in 1 .. n - 1 /\ n - 1 \in 1 .. n /\ n \in 1 .. n
    BY <1>8, <1>13
  <2>2. Entered(file, stack[n - 1])
    BY <1>3, <1>4, <1>5, <2>1 DEF HeadersInv
  <2>3. PICK m \in DOMAIN file : stack[n - 1].box = file[m]
    BY <2>2 DEF Entered
  <2>4. LevelOK(file, stack, n, b.at) /\ LevelOK(file, stack, n - 1, file[m].at)
    BY <1>8, <1>9, <2>1, <2>3
  <2>5. /\ Around(file, stack, n - 1, b.at) /\ Around(file, stack, n - 1 - 1, file[m].at)
        /\ file[m].len # 0 /\ Top.boxlen # 0 /\ Top.rem = EndOf(file, file[m]) - b.at
    BY <1>8, <1>13, <2>3, <2>4 DEF LevelOK
  <2>6. Within(file, m, file[i].at)
    BY <1>10, <2>1, <2>3, <2>5 DEF Around
  <2>7. EndOf(file, b) <= EndOf(file, file[m]) /\ EndOf(file, file[m]) \in Nat
    BY <1>1, <1>3, <1>10, <2>6, TreeFacts
  <2>. QED  BY <2>3, <2>5, <2>7
<1>14. CASE /\ stack' = Front(stack) /\ pc' = (IF Len(stack) = 1 THEN "done" ELSE "body")
            /\ Top.rem - b.len <= 0 /\ Top.boxlen # 0
  <2>1. n >= 2
    <3> HIDE DEF n, b
    <3>. QED  BY <1>8, <1>12, <1>14
  <2>2. PICK m \in DOMAIN file :
          /\ stack[n - 1].box = file[m] /\ file[m].len # 0
          /\ EndOf(file, b) <= EndOf(file, file[m]) /\ EndOf(file, file[m]) \in Nat
          /\ Top.rem = EndOf(file, file[m]) - b.at
    BY <1>13, <2>1
  <2>3. EndOf(file, b) = EndOf(file, file[m])
    <3> DEFINE e == EndOf(file, file[m])
               r == Top.rem
               d == EndOf(file, b)
    <3>1. r = e - b.at /\ r - b.len <= 0 /\ d <= e /\ e \in Nat /\ d \in Nat /\ d = b.at + b.len
      BY <1>11, <1>14, <2>2
    <3> HIDE DEF e, r, d, b
    <3>2. d = e
      BY <1>11, <3>1
    <3>. QED  BY <3>2 DEF d, e
  <2>4. Len(stack') = n - 1 /\ pc' = "body" /\ \A k \in 1 .. n - 1 : stack'[k] = stack[k]
    <3>1. n # 1
      <4> HIDE DEF n
      <4>. QED  BY <2>1
    <3>2. Len(stack') = n - 1 /\ \A k \in 1 .. n - 1 : stack'[k] = stack[k]
      BY <1>1, <1>14, StackFacts
    <3>. QED  BY <1>14, <3>1, <3>2
  <2>5. ASSUME NEW k \in 1 .. n - 1
        PROVE  LevelOK(file, stack', k, stack'[k].box.at)
    <3>1. /\ k \in Nat /\ k >= 1 /\ k \in 1 .. n /\ stack'[k] = stack[k]
          /\ \A l \in 1 .. k - 1 : stack'[l].box = stack[l].box
      BY <1>8, <2>4, <2>5
    <3>2. LevelOK(file, stack, k, stack[k].box.at)
      BY <1>9, <3>1
    <3>. QED  BY <3>1, <3>2, LevelKept
  <2>6. stack'[n - 1].box = file[m] /\ pos' = EndOf(file, file[m])
    <3>1. n - 1 \in 1 .. n - 1
      BY <1>8, <2>1
    <3>. QED  BY <1>10, <2>2, <2>3, <2>4, <3>1
  <2>. QED  BY <2>2, <2>4, <2>5, <2>6 DEF PlaceOf
<1>15. CASE /\ pc' = "header" /\ Len(stack') = n
            /\ \A k \in 1 .. n - 1 : stack'[k] = stack[k]
            /\ stack'[n] = [Top EXCEPT !.rem = Top.rem - b.len]
            /\ Top.rem - b.len > 0 \/ Top.boxlen = 0
  <2>1. stack'[n].boxlen = Top.boxlen /\ stack'[n].rem = Top.rem - b.len
    BY <1>8, <1>15 DEF Frame
  <2>2. ASSUME NEW k \in 1 .. n - 1
        PROVE  LevelOK(file, stack', k, stack'[k].box.at)
    <3>1. /\ k \in Nat /\ k >= 1 /\ k \in 1 .. n /\ stack'[k] = stack[k]
          /\ \A l \in 1 .. k - 1 : stack'[l].box = stack[l].box
      BY <1>8, <1>15, <2>2
    <3>2. LevelOK(file, stack, k, stack[k].box.at)
      BY <1>9, <3>1
    <3>. QED  BY <3>1, <3>2, LevelKept
  <2>3. LevelOK(file, stack', n, pos')
    <3>1. CASE n = 1
      <4>1. LevelOK(file, stack, 1, b.at)
        BY <1>8, <1>9, <3>1
      <4>2. Around(file, stack, 1 - 1, b.at)
        BY <4>1 DEF LevelOK
      <4>3. \A j \in DOMAIN file : ~ Within(file, j, b.at)
        BY <4>2 DEF Around
      <4>4. \A j \in DOMAIN file : ~ Within(file, j, pos')
        BY <1>1, <1>3, <1>10, <4>3, BehindBox
      <4>5. Around(file, stack', 1 - 1, pos')
        BY <4>4 DEF Around
      <4>6. LevelOK(file, stack', 1, pos')
        BY <4>5 DEF LevelOK
      <4>. QED  BY <3>1, <4>6
    <3>2. CASE n >= 2
      <4>1. PICK m \in DOMAIN file :
              /\ stack[n - 1].box = file[m] /\ file[m].len # 0
              /\ EndOf(file, b) <= EndOf(file, file[m]) /\ EndOf(file, file[m]) \in Nat
              /\ Top.boxlen # 0 /\ Top.rem = EndOf(file, file[m]) - b.at
              /\ Around(file, stack, n - 1, b.at) /\ Around(file, stack, n - 1 - 1, file[m].at)
        BY <1>13, <3>2
      <4> DEFINE e == EndOf(file, file[m])
                 r == Top.rem
                 d == EndOf(file, b)
      <4>2. d < e /\ r - b.len = e - pos'
        <5>1. /\ r = e - b.at /\ r - b.len > 0 /\ e \in Nat /\ d \in Nat /\ d = b.at + b.len
              /\ pos' = d
          BY <1>10, <1>11, <1>15, <4>1
        <5> HIDE DEF e, r, d, b
        <5>. QED  BY <1>11, <5>1
      <4>3. ASSUME NEW l \in 1 .. n - 1, NEW j \in DOMAIN file, stack[l].box = file[j]
            PROVE  d < EndOf(file, file[j])
        <5>1. CASE l = n - 1
          <6>1. file[j] = file[m]
            BY <4>1, <4>3, <5>1
          <6>. QED  BY <4>2, <6>1
        <5>2. CASE l # n - 1
          <6>1. l \in 1 .. n - 1 - 1
            <7> HIDE DEF n
            <7>. QED  BY <1>8, <4>3, <5>2
          <6>2. Within(file, j, file[m].at)
            BY <4>1, <4>3, <6>1 DEF Around
          <6>3. e <= EndOf(file, file[j]) /\ EndOf(file, file[j]) \in Nat
            BY <1>1, <1>3, <6>2, TreeFacts
          <6> HIDE DEF e, d
          <6>. QED  BY <1>11, <4>1, <4>2, <6>3 DEF d, e
        <5>. QED  BY <5>1, <5>2
      <4>4. ASSUME NEW j \in DOMAIN file
            PROVE  Within(file, j, pos') <=> \E l \in 1 .. n - 1 : stack'[l].box = file[j]
        <5>1. Within(file, j, pos') <=> Within(file, j, b.at) /\ d < EndOf(file, file[j])
          BY <1>1, <1>3, <1>10, BehindBox
        <5>2. Within(file, j, b.at) <=> \E l \in 1 .. n - 1 : stack[l].box = file[j]
          BY <4>1 DEF Around
        <5>3. (\E l \in 1 .. n - 1 : stack[l].box = file[j]) => d < EndOf(file, file[j])
          BY <4>3
        <5>. QED  BY <1>15, <5>1, <5>2, <5>3
      <4>5. Around(file, stack', n - 1, pos')
        BY <4>4 DEF Around
      <4>6. stack'[n - 1].box = file[m]
        <5>1. n - 1 \in 1 .. n - 1
          BY <1>8, <3>2
        <5>. QED  BY <1>15, <4>1, <5>1
      <4>7. pos' < EndOf(file, file[m])
        BY <1>10, <4>2
      <4> HIDE DEF n
      <4>. QED  BY <2>1, <4>1, <4>2, <4>5, <4>6, <4>7 DEF LevelOK
    <3>. QED
      <4> HIDE DEF n
      <4>. QED  BY <1>8, <3>1, <3>2
  <2>4. \A k \in 1 .. n : k = n \/ k \in 1 .. n - 1
    <3> HIDE DEF n
    <3>. QED  BY <1>8
  <2>5. \A k \in 1 .. n - 1 : k # n
    <3> HIDE DEF n
    <3>. QED  BY <1>8
  <2>. QED  BY <1>15, <2>2, <2>3, <2>4, <2>5 DEF PlaceOf
<1>. QED
  BY <1>6, <1>14, <1>15 DEF Accounted

\* Where the descent starts, at the outermost level, nothing lies around it.
LEMMA StartInStep ==
  ASSUME IsFile(file'), stack' = <<Call(0)>>, pc' = "header",
         file' # <<>> /\ Readable(file') /\ ~ faulty' => pos' = EndOf(file', file'[1])
  PROVE  InStep'
<1>1. Len(stack') = 1
  BY CallZero
<1>2. SUFFICES ASSUME ~ faulty', Readable(file')
               PROVE  LevelOK(file', stack', 1, pos')
  BY <1>1 DEF InStep, PlaceOf
<1>3. ASSUME NEW j \in DOMAIN file'
      PROVE  ~ Within(file', j, pos')
  <2> DEFINE f == file'
  <2>1. f # <<>> /\ 1 \in DOMAIN f /\ f[1].at = 0 /\ f[j].at \in Nat
    <3>1. f # <<>>
      BY <1>3
    <3>. QED  BY <3>1, Places, CellFacts
  <2>2. ~ Within(f, j, f[1].at)
    BY <2>1 DEF Within
  <2>3. ~ Within(f, j, EndOf(f, f[1]))
    BY <1>2, <2>1, <2>2, BehindBox
  <2>. QED  BY <1>2, <2>1, <2>3
<1>4. Around(file', stack', 1 - 1, pos')
  BY <1>3 DEF Around
<1>. QED
  BY <1>4 DEF LevelOK

LEMMA NextInStep ==
  ShapeInv /\ BasesInv /\ ListInv /\ HeadersInv /\ OuterInv /\ InStep /\ [Next]_vars => InStep'
<1> SUFFICES ASSUME ShapeInv, BasesInv, ListInv, HeadersInv, OuterInv, InStep, [Next]_vars
             PROVE  InStep'
  OBVIOUS
<1>1. CASE Repair \/ WriteTags
  <2>1. PICK f, p : /\ IsFile(f) /\ Again(f, p)
                    /\ Readable(f) => p = EndOf(f, f[1])
    BY <1>1, AgainStart
  <2>. QED  BY <2>1, StartInStep DEF Again
<1>2. ASSUME ReadFtyp \/ ReadBrands
      PROVE  InStep'
  <2>1. file' = file /\ IsFile(file) /\ stack = <<>>
    BY <1>2 DEF ReadFtyp, ReadBrands, ShapeInv, TypeInv, Parsing
  <2>2. StartParse \/ (\E e : Refuse(e)) \/ (pc' = "brands" /\ stack' = <<>>)
    BY <1>2, <2>1 DEF ReadFtyp, ReadBrands
  <2>3. CASE StartParse
    <3>1. stack' = <<Call(0)>> /\ pc' = "header"
      BY <2>3 DEF StartParse
    <3>2. file # <<>> /\ Readable(file) /\ ~ faulty' => pos' = EndOf(file, file[1])
      BY <1>2, <2>3, StartFacts
    <3>. QED  BY <2>1, <3>1, <3>2, StartInStep
  <2>4. CASE (\E e : Refuse(e)) \/ (pc' = "brands" /\ stack' = <<>>)
    <3>1. pc' \in {"done", "brands"} /\ stack' = <<>>
      BY <2>1, <2>4 DEF Refuse
    <3>2. Len(stack') = 0
      BY <3>1
    <3>. QED  BY <3>1, <3>2 DEF InStep
  <2>. QED  BY <2>2, <2>3, <2>4
<1>3. CASE ReadHeader
  BY <1>3, ReadHeaderInStep
<1>4. CASE FinishBox
  BY <1>4, FinishBoxInStep
<1>5. CASE UNCHANGED vars
  BY <1>5 DEF vars, InStep
<1>. QED
  BY <1>1, <1>2, <1>3, <1>4, <1>5 DEF Next, ParseStep

LEMMA InitInStep == Init => InStep
<1>1. Init => pc = "ftyp" /\ stack = <<>> /\ Len(stack) = 0
  BY DEF Init
<1>. QED
  BY <1>1 DEF InStep

-----------------------------------------------------------------------------
(* The inductive invariant: failures.                                      *)

\* A local file is read without a timeout; what else fails is an error.
FaultInv == mode = "rw" /\ faulty => h.mp4error # "ok"

LEMMA NextFault == ShapeInv /\ FaultInv /\ [Next]_vars => FaultInv'
<1> SUFFICES ASSUME ShapeInv, FaultInv, [Next]_vars, mode' = "rw", faulty', h'.mp4error = "ok"
             PROVE  FALSE
  BY DEF FaultInv
<1>1. h \in Handle /\ h' \in Handle /\ TypeInv
  BY NextShape DEF ShapeInv, TypeInv
<1>2. ASSUME NEW s, EndsShort(s), mode = "rw"
      PROVE  faulty' = faulty
  BY <1>2 DEF EndsShort
<1>3. CASE Repair \/ WriteTags
  BY <1>3 DEF Repair, WriteTags, FaultInv
<1>4. CASE ReadFtyp
  <2>1. mode = "rw" /\ faulty' = faulty
    BY <1>2, <1>4 DEF ReadFtyp
  <2>2. h'.mp4error = h.mp4error \/ h'.mp4error = "not_mp4"
    BY <1>1, <1>4 DEF ReadFtyp, Refuse, StartParse, Handle
  <2>. QED  BY <2>1, <2>2 DEF FaultInv
<1>5. CASE ReadBrands
  <2>1. mode = "rw" /\ (faulty' = faulty \/ Refuse("out_of_memory"))
    BY <1>2, <1>5 DEF ReadBrands
  <2>2. \A e : Refuse(e) => h'.mp4error = e
    BY <1>1 DEF Refuse, Handle
  <2>3. h'.mp4error = h.mp4error \/ Refuse("not_mp4") \/ Refuse("out_of_memory")
    BY <1>5 DEF ReadBrands, StartParse
  <2>. QED  BY <2>1, <2>2, <2>3 DEF FaultInv
<1>6. CASE ReadHeader
  <2>1. mode = "rw" /\ faulty' = faulty
    <3>1. \A b, off : Examine(b, off) /\ mode = "rw" => faulty' = faulty
      BY DEF Examine
    <3>2. \A n, hh : ReadFails(n, hh) /\ mode = "rw" => faulty' = faulty
      BY <1>2 DEF ReadFails
    <3>. QED  BY <1>6, <3>1, <3>2 DEF ReadHeader
  <2>2. h.mp4error = "ok"
    BY <1>6, HeaderSteps DEF HeaderFails, HeaderBreaks, HeaderEnters, HeaderSkips, HeaderMisses
  <2>. QED  BY <2>1, <2>2 DEF FaultInv
<1>7. CASE FinishBox
  <2> DEFINE b  == Top.box
             hh == Behind(h, b)
             n  == [hh EXCEPT !.mp4error = "out_of_memory"]
  <2>1. mode = "rw" /\ (ReadData(hh, b) \/ SkipData(hh, b))
    BY <1>7 DEF FinishBox
  <2>2. h.mp4error = "ok"
    <3>1. BodyReads(b) \/ BodySkips(b) \/ BodyFails(b)
      BY <1>7, BodySteps
    <3>. QED  BY <3>1 DEF BodyReads, BodySkips, BodyFails, Accounted
  <2>3. faulty' = faulty \/ Return(n)
    <3> HIDE DEF hh, b
    <3>1. CASE ReadData(hh, b)
      BY <1>2, <2>1, <3>1 DEF ReadData, ReadFails
    <3>2. CASE SkipData(hh, b)
      BY <2>1, <3>2 DEF SkipData
    <3>. QED  BY <2>1, <3>1, <3>2
  <2>4. hh \in Handle
    <3>1. pos \in Nat /\ Top \in Frame
      BY <1>1, <1>7, StackFacts DEF TypeInv, FinishBox, Parsing
    <3>2. b \in Header
      BY <3>1 DEF Frame
    <3> HIDE DEF b
    <3>. QED  BY <1>1, <3>1, <3>2, BehindFacts
  <2> HIDE DEF hh
  <2>5. Return(n) => h'.mp4error = "out_of_memory"
    BY <2>4 DEF Return, Handle
  <2>. QED  BY <2>1, <2>2, <2>3, <2>5 DEF FaultInv
<1>8. CASE UNCHANGED vars
  BY <1>8 DEF vars, FaultInv
<1>. QED
  BY <1>3, <1>4, <1>5, <1>6, <1>7, <1>8 DEF Next, ParseStep

-----------------------------------------------------------------------------
(* The inductive invariant: nothing looks like the damage of version 1.3.0. *)

Lists(f) == {q \in DOMAIN f : f[q].nm = "ilst"}

\* In front of p, and in the same boxes, another box than a tag or a free one has
\* come behind the tag list.
OtherBehind(f, p) ==
  \E q, j \in DOMAIN f :
    /\ f[q].nm = "ilst" /\ q < j /\ Enclosing(f, q) \subseteq Enclosing(f, j)
    /\ f[j].at < p /\ f[j].nm \notin {"free", "tag"}

\* The call fr, within box m, does not end behind a free box: what is counted for
\* it does not lag behind the bytes, and m holds no free box any more.
LevelLasts(f, fr, m, c, p) ==
  IF c = "header" THEN p >= FileSz(f) \/ (fr.rem > 0 /\ fr.rem + p <= EndOf(f, m))
  ELSE p + fr.skip >= FileSz(f) \/ fr.rem - fr.box.len + p + fr.skip <= EndOf(f, m)

NoFreeEnds(f, s, c, p) ==
  /\ s[3].boxlen # 0
  /\ c = "body" => /\ s[3].box.nm # "free"
                   /\ s[3].box.nm \in {"mdhd", "tag"} => s[3].skip = Payload(s[3].box)
  /\ \/ c = "body" /\ s[3].rem <= s[3].box.len
     \/ /\ OtherBehind(f, p)
        /\ \E m \in DOMAIN f : /\ s[2].box = f[m] /\ f[m].at < p
                               /\ LevelLasts(f, s[3], f[m], c, p)

\* Until the parser is done it is behind the list when it counts free space, and
\* the end of the list is noted as long as the box that holds it is not left.
\* Then it meets no tag list any more, and the box that holds the list is left
\* without a free box at its end.
InFront(f, s, p, hh) ==
  /\ hh.checkforfree => \A q \in Lists(f) : EndOf(f, f[q]) <= p
  /\ hh.ilstend => /\ hh.checkforfree
                   /\ \E q \in Lists(f) : Around(f, s, Len(s) - 1, f[q].at)
InBack(f, s, c, p, hh) ==
  /\ \A q \in Lists(f) : f[q].at < p
  /\ \A k \in 1 .. Len(s) : s[k].box.nm # "ilst"
  /\ hh.ilstend => Len(s) <= 3 /\ (Len(s) = 3 => NoFreeEnds(f, s, c, p))

SparedInv ==
  mode = "rw" /\ h.mp4error = "ok" /\ Undamaged(file) =>
    /\ ~ h.dofix
    /\ h.freeneg => h.parsedone /\ Len(stack) <= 1
    /\ ~ h.parsedone => InFront(file, stack, pos, h)
    /\ h.parsedone => InBack(file, stack, pc, pos, h)

\* The box a call reads the content of.
LEMMA FrameBox ==
  ASSUME ShapeInv, HeadersInv, ~ faulty, ~ h.parsedone, Readable(file), ShortHeads(file),
         NEW k \in 2 .. Len(stack), NEW p, LevelOK(file, stack, k, p)
  PROVE  \E m \in DOMAIN file :
           /\ stack[k - 1].box = file[m] /\ file[m].len # 0 /\ Descends(file[m])
           /\ stack[k - 1].skip = 0
           /\ Within(file, m, p) /\ Around(file, stack, k - 1, p)
           /\ stack[k].boxlen # 0 /\ stack[k].rem = EndOf(file, file[m]) - p
<1> DEFINE n == Len(stack)
<1>1. n \in Nat /\ IsFile(file)
  BY LenProperties DEF ShapeInv, TypeInv
<1>2. k - 1 \in 1 .. n - 1 /\ k - 1 \in 1 .. k - 1 /\ k \in Nat /\ k >= 2
  <2>1. k \in 2 .. n
    OBVIOUS
  <2> HIDE DEF n
  <2>. QED  BY <1>1, <2>1
<1>3. Entered(file, stack[k - 1])
  BY <1>2 DEF HeadersInv
<1>4. PICK m \in DOMAIN file : stack[k - 1].box = file[m] /\ Descends(file[m]) /\ stack[k - 1].skip = 0
  BY <1>3 DEF Entered
<1>5. /\ Around(file, stack, k - 1, p) /\ file[m].len # 0 /\ stack[k].boxlen # 0
      /\ stack[k].rem = EndOf(file, file[m]) - p
  BY <1>2, <1>4 DEF LevelOK
<1>6. Within(file, m, p)
  BY <1>2, <1>4, <1>5 DEF Around
<1>. QED
  BY <1>4, <1>5, <1>6

\* Tags and free boxes within the list.
LEMMA ListHolds ==
  ASSUME NEW f, IsFile(f), Readable(f), NEW q \in Lists(f), NEW i \in DOMAIN f,
         Within(f, q, f[i].at)
  PROVE  f[i].nm \in {"tag", "free"} /\ f[i].len # 0 /\ ~ Descends(f[i])
<1>1. q \in DOMAIN f /\ f[q].nm = "ilst" /\ q \in Enclosing(f, i)
  BY DEF Lists, Enclosing, Within
<1>2. f[i].nm \in {"tag", "free"} /\ f[i].len = Size(f[i])
  BY <1>1 DEF Readable, PlainList
<1>3. Size(f[i]) \in Nat /\ Size(f[i]) >= 8
  <2>1. f[i] \in Cell
    BY Places
  <2>. QED  BY <2>1, CellFacts
<1>. QED
  BY <1>2, <1>3 DEF Descends, Containers

LEMMA OneListOnly ==
  ASSUME NEW f, Readable(f), NEW q \in Lists(f), NEW r \in Lists(f)
  PROVE  q = r
BY DEF Readable, PlainList, Lists

\* The way to the list is short: no more than three calls read the boxes around
\* it.
LEMMA ShortPath ==
  ASSUME ShapeInv, HeadersInv, ~ faulty, ~ h.parsedone, Readable(file), ShortHeads(file),
         ListPath(file), NEW q \in Lists(file),
         \A k \in 1 .. Len(stack) - 1 : LevelOK(file, stack, k, stack[k].box.at),
         Around(file, stack, Len(stack) - 1, file[q].at)
  PROVE  Len(stack) <= 4
<1> DEFINE n == Len(stack)
<1>1. n \in Nat /\ IsFile(file)
  BY LenProperties DEF ShapeInv, TypeInv
<1>2. SUFFICES ASSUME n >= 5
               PROVE  FALSE
  <2> HIDE DEF n
  <2>1. n <= 4 \/ n >= 5
    BY <1>1
  <2>. QED  BY <2>1 DEF n
<1>3. \A k \in 1 .. 4 : k \in 1 .. n - 1
  <2> HIDE DEF n
  <2>. QED  BY <1>1, <1>2
<1>4. \A k \in 1 .. 4 : \E m \in DOMAIN file : stack[k].box = file[m]
  BY <1>3 DEF HeadersInv, Entered
<1>5. PICK m \in [1 .. 4 -> DOMAIN file] : \A k \in 1 .. 4 : stack[k].box = file[m[k]]
  <2> DEFINE w == [k \in 1 .. 4 |-> CHOOSE m \in DOMAIN file : stack[k].box = file[m]]
  <2>1. \A k \in 1 .. 4 : w[k] \in DOMAIN file /\ stack[k].box = file[w[k]]
    BY <1>4
  <2>2. w \in [1 .. 4 -> DOMAIN file]
    BY <2>1
  <2> HIDE DEF w
  <2>. QED  BY <2>1, <2>2
<1>6. ASSUME NEW k \in 1 .. 4, NEW l \in 1 .. 4, k < l
      PROVE  m[k] # m[l]
  <2>1. k \in 1 .. l - 1 /\ l \in 1 .. n - 1
    BY <1>3, <1>6
  <2>2. Around(file, stack, l - 1, file[m[l]].at)
    BY <1>5, <2>1 DEF LevelOK
  <2>3. Within(file, m[k], file[m[l]].at)
    BY <1>5, <2>1, <2>2 DEF Around
  <2>4. file[m[k]].at \in Nat /\ file[m[k]].at < file[m[l]].at
    BY <1>1, <1>5, <2>3, TreeFacts DEF Within
  <2>. QED  BY <2>4
<1>7. \A k \in 1 .. 4 : m[k] \in Enclosing(file, q)
  <2>1. \A k \in 1 .. 4 : m[k] \in DOMAIN file /\ Within(file, m[k], file[q].at)
    BY <1>3, <1>5 DEF Around
  <2>. QED  BY <2>1 DEF Enclosing, Within
<1>8. \A k, l \in 1 .. 4 :
        /\ file[m[k]].nm \in {"moov", "udta", "meta"}
        /\ file[m[k]].nm = file[m[l]].nm => m[k] = m[l]
  BY <1>5, <1>7 DEF ListPath, Lists
<1>9. m[1] # m[2] /\ m[1] # m[3] /\ m[1] # m[4] /\ m[2] # m[3] /\ m[2] # m[4] /\ m[3] # m[4]
  BY <1>6
<1>. QED
  BY <1>8, <1>9

\* The parser meets a box that it does not expect behind the list, or one that
\* reaches to the end of the file, and is done.
LEMMA BreakSpared ==
  ASSUME ShapeInv, HeadersInv, InStep, Undamaged(file), mode = "rw",
         ~ faulty, ~ h.parsedone, h.mp4error = "ok", InFront(file, stack, pos, h),
         pc = "header", NEW i \in DOMAIN file, file[i].at = pos, Left, h'.ilstend = h.ilstend,
         \/ file[i].len = 0 /\ pos' = pos + BoxHead
         \/ /\ file[i].len # 0 /\ Counts(file[i]) /\ file[i].nm # "free"
            /\ pos' = pos + file[i].head
  PROVE  InBack(file, stack', pc', pos', h')
<1> DEFINE n == Len(stack)
<1>1. /\ IsFile(file) /\ pos \in Nat /\ h \in Handle /\ stack \in Seq(Frame) /\ stack # <<>>
      /\ Readable(file) /\ ShortHeads(file) /\ ListPath(file)
  BY DEF ShapeInv, TypeInv, Parsing, Undamaged
<1>2. n \in Nat /\ n >= 1
  BY <1>1, StackFacts
<1>3. /\ Len(stack') = n - 1 /\ \A k \in 1 .. n - 1 : stack'[k] = stack[k]
      /\ pc' = IF n = 1 THEN "done" ELSE "body"
  BY <1>1, StackFacts DEF Left
<1>4. pos' \in Nat /\ pos < pos' /\ pos' <= EndOf(file, file[i])
  <2> DEFINE e == EndOf(file, file[i])
             a == After(file[i])
  <2>1. /\ a = pos + file[i].head + file[i].body /\ file[i].head \in {8, 16}
        /\ file[i].body \in Nat /\ e >= a /\ e \in Nat
    BY <1>1, TreeFacts
  <2> DEFINE g == file[i].head
             y == file[i].body
  <2>2. a = pos + g + y /\ g \in {8, 16} /\ y \in Nat /\ (pos' = pos + 8 \/ pos' = pos + g)
    BY <2>1 DEF BoxHead
  <2> HIDE DEF e, a, g, y
  <2>3. pos \in Nat /\ e >= a /\ e \in Nat
    BY <1>1, <2>1
  <2>4. pos' \in Nat /\ pos < pos' /\ pos' <= e
    BY <2>2, <2>3
  <2>. QED  BY <2>4 DEF e
<1>5. \A k \in 1 .. n : LevelOK(file, stack, k, PlaceOf(stack, pc, pos, k))
  BY <1>1 DEF InStep
<1>6. /\ LevelOK(file, stack, n, pos)
      /\ \A k \in 1 .. n - 1 : LevelOK(file, stack, k, stack[k].box.at)
  BY <1>2, <1>5 DEF PlaceOf
<1>7. Around(file, stack, n - 1, pos)
  BY <1>6 DEF LevelOK
\* The box is no tag, and no list when the end of one is noted.
<1>8. ASSUME NEW q \in Lists(file), file[i].len # 0
      PROVE  /\ q \in DOMAIN file /\ file[q].nm = "ilst"
             /\ file[q].at \in Nat /\ EndOf(file, file[q]) \in Nat
             /\ file[q].at < EndOf(file, file[q])
             /\ q = i \/ EndOf(file, file[q]) <= pos
  <2>1. q \in DOMAIN file /\ file[q].nm = "ilst"
    BY DEF Lists
  <2>2. /\ file[q].at \in Nat /\ EndOf(file, file[q]) \in Nat
        /\ file[q].at < EndOf(file, file[q])
    <3>1. /\ file[q].at \in Nat /\ After(file[q]) \in Nat /\ EndOf(file, file[q]) \in Nat
          /\ After(file[q]) = file[q].at + file[q].head + file[q].body
          /\ file[q].head \in {8, 16} /\ file[q].body \in Nat
          /\ EndOf(file, file[q]) >= After(file[q])
      BY <1>1, <2>1, TreeFacts
    <3>. QED  BY <3>1
  <2>3. file[i].nm = "ilst" => q = i
    BY <1>1, OneListOnly DEF Lists
  <2>4. file[i].nm # "ilst" => h.checkforfree
    BY <1>8 DEF Counts
  <2>5. h.checkforfree => EndOf(file, file[q]) <= pos
    BY DEF InFront
  <2>. QED  BY <2>1, <2>2, <2>3, <2>4, <2>5
<1>9. ASSUME NEW q \in Lists(file), file[i].len # 0
      PROVE  ~ Within(file, q, pos)
  <2>1. \/ q = i
        \/ EndOf(file, file[q]) <= pos
    BY <1>8, <1>9
  <2>2. file[q].at \in Nat /\ EndOf(file, file[q]) \in Nat
    BY <1>8, <1>9
  <2>. QED  BY <1>1, <2>1, <2>2 DEF Within
<1>10. ASSUME NEW q \in Lists(file)
       PROVE  file[q].at < pos' /\ ~ Within(file, q, pos)
  <2>1. CASE file[i].len # 0
    <3>1. file[q].at < pos'
      BY <1>1, <1>4, <1>8, <2>1
    <3>. QED  BY <1>9, <2>1, <3>1
  <2>2. CASE file[i].len = 0
    <3>1. /\ q \in Nat /\ i = Len(file) /\ q \in 1 .. Len(file) /\ Len(file) \in Nat
          /\ file[q].at \in Nat
      <4>1. q \in 1 .. Len(file) /\ Len(file) \in Nat
        BY <1>1, Places DEF Lists
      <4>2. i = Len(file)
        BY <1>1, <2>2 DEF Readable
      <4>3. file[q].at \in Nat
        BY <1>1, TreeFacts DEF Lists
      <4>. QED  BY <4>1, <4>2, <4>3
    <3>2. q = i \/ q < i
      BY <3>1
    <3>3. q < i => After(file[q]) <= pos /\ After(file[q]) > file[q].at /\ After(file[q]) \in Nat
      <4>1. q < i => After(file[q]) <= file[i].at
        BY <1>1, <3>1, Places DEF Lists
      <4>2. file[q] \in Cell
        BY <1>1, Places DEF Lists
      <4>. QED  BY <4>1, <4>2, CellFacts
    <3>4. file[q].at < pos'
      BY <1>1, <1>4, <3>1, <3>2, <3>3
    <3>5. ~ Within(file, q, pos)
      BY <1>1, <2>2, ListHolds
    <3>. QED  BY <3>4, <3>5
  <2>. QED  BY <2>1, <2>2
<1>11. ASSUME NEW k \in 1 .. Len(stack')
       PROVE  stack'[k].box.nm # "ilst"
  <2>1. k \in 1 .. n - 1 /\ stack'[k] = stack[k]
    BY <1>2, <1>3, <1>11
  <2>2. PICK m \in DOMAIN file : stack[k].box = file[m]
    BY <1>1, <2>1 DEF HeadersInv, Entered
  <2>3. Within(file, m, pos)
    BY <1>7, <2>1, <2>2 DEF Around
  <2>4. file[m].nm = "ilst" => m \in Lists(file)
    BY DEF Lists
  <2>. QED  BY <1>10, <2>1, <2>2, <2>3, <2>4
<1>12. ASSUME h.ilstend
       PROVE  Len(stack') <= 3 /\ (Len(stack') = 3 => NoFreeEnds(file, stack', pc', pos'))
  <2>1. PICK q \in Lists(file) : h.checkforfree /\ Around(file, stack, n - 1, file[q].at)
    BY <1>12 DEF InFront
  <2>2. n <= 4
    BY <1>1, <1>6, <2>1, ShortPath
  <2>3. ASSUME n = 4
        PROVE  NoFreeEnds(file, stack', pc', pos')
    <3>1. /\ 4 \in 2 .. n /\ 3 \in 2 .. n
          /\ LevelOK(file, stack, 4, pos) /\ LevelOK(file, stack, 3, stack[3].box.at)
          /\ stack'[3] = stack[3] /\ stack'[2] = stack[2] /\ pc' = "body"
      BY <1>3, <1>6, <2>3
    <3>2. PICK c \in DOMAIN file :
            /\ stack[3].box = file[c] /\ file[c].len # 0 /\ Descends(file[c])
            /\ stack[3].skip = 0 /\ Within(file, c, pos)
      <4>1. \E m \in DOMAIN file :
              /\ stack[4 - 1].box = file[m] /\ file[m].len # 0 /\ Descends(file[m])
              /\ stack[4 - 1].skip = 0 /\ Within(file, m, pos)
        BY <1>1, <3>1, FrameBox
      <4>. QED  BY <4>1
    <3>3. PICK m \in DOMAIN file :
            /\ stack[2].box = file[m] /\ Within(file, m, file[c].at)
            /\ stack[3].boxlen # 0 /\ stack[3].rem = EndOf(file, file[m]) - file[c].at
      <4>1. \E m \in DOMAIN file :
              /\ stack[3 - 1].box = file[m] /\ Within(file, m, stack[3].box.at)
              /\ stack[3].boxlen # 0 /\ stack[3].rem = EndOf(file, file[m]) - stack[3].box.at
        BY <1>1, <3>1, FrameBox
      <4>. QED  BY <3>2, <4>1
    <3>4. file[c].nm \in Containers \cup {"meta"}
      BY <3>2 DEF Descends
    <3>5. file[c].nm \notin {"free", "mdhd", "tag"}
      BY <3>4 DEF Containers
    <3> DEFINE e == EndOf(file, file[c])
               d == EndOf(file, file[m])
               r == stack[3].rem
    <3>6. /\ e \in Nat /\ d \in Nat /\ file[c].at \in Nat /\ file[c].len \in Int
          /\ e = file[c].at + file[c].len /\ r = d - file[c].at
          /\ EndOf(file, file[i]) <= e /\ EndOf(file, file[i]) \in Nat /\ file[c].at < pos
          /\ file[m].at \in Nat /\ file[m].at < file[c].at
      BY <1>1, <3>2, <3>3, TreeFacts DEF Within
    <3>7. CASE file[i].len = 0
      <4>1. d <= e
        <5>1. EndOf(file, file[i]) = FileSz(file)
          BY <3>7 DEF EndOf
        <5>2. d <= FileSz(file)
          BY <1>1, TreeFacts
        <5>3. FileSz(file) \in Nat
          BY <1>1, Places
        <5> HIDE DEF d, e
        <5>. QED  BY <3>6, <5>1, <5>2, <5>3
      <4>2. r <= file[c].len
        <5> HIDE DEF r, d, e
        <5>. QED  BY <3>6, <4>1
      <4>. QED  BY <3>1, <3>2, <3>3, <3>5, <4>2 DEF NoFreeEnds
    <3>8. CASE file[i].len # 0
      <4>1. OtherBehind(file, pos')
        <5>1. /\ q \in DOMAIN file /\ file[q].nm = "ilst" /\ file[q].at \in Nat
              /\ EndOf(file, file[q]) <= pos /\ file[q].at < EndOf(file, file[q])
              /\ EndOf(file, file[q]) \in Nat
          BY <1>8, <2>1, <3>8 DEF InFront
        <5>2. file[q].at < pos
          BY <1>1, <5>1
        <5>3. q < i
          <6>1. q \in Nat /\ i \in Nat /\ (i < q => After(file[i]) <= file[q].at)
            BY <1>1, <5>1, Places
          <6>2. After(file[i]) > pos /\ After(file[i]) \in Nat
            <7>1. file[i] \in Cell
              BY <1>1, Places
            <7>. QED  BY <7>1, CellFacts
          <6>. QED  BY <1>1, <5>1, <5>2, <6>1, <6>2
        <5>4. file[i].nm # "tag"
          <6>1. file[i].nm = "tag" => \E u \in DOMAIN file : file[u].nm = "ilst" /\ u \in Enclosing(file, i)
            BY <1>1 DEF Readable, PlainList
          <6>2. \A u \in DOMAIN file : file[u].nm = "ilst" /\ u \in Enclosing(file, i) => Within(file, u, pos) /\ u \in Lists(file)
            BY DEF Enclosing, Within, Lists
          <6>. QED  BY <1>9, <3>8, <6>1, <6>2
        <5>5. Enclosing(file, q) \subseteq Enclosing(file, i)
          <6>1. ASSUME NEW j \in Enclosing(file, q)
                PROVE  j \in Enclosing(file, i)
            <7>1. j \in DOMAIN file /\ Within(file, j, file[q].at)
              BY DEF Enclosing, Within
            <7>2. Within(file, j, pos)
              BY <1>7, <2>1, <7>1 DEF Around
            <7>. QED  BY <7>1, <7>2 DEF Enclosing, Within
          <6>. QED  BY <6>1
        <5>. QED  BY <1>4, <3>8, <5>1, <5>3, <5>4, <5>5 DEF OtherBehind
      <4>2. LevelLasts(file, stack[3], file[m], "body", pos')
        <5>1. r - file[c].len + pos' + 0 <= d
          <6> HIDE DEF r, d, e
          <6>. QED  BY <1>4, <3>6
        <5>. QED  BY <3>2, <5>1 DEF LevelLasts
      <4>3. file[m].at < pos'
        <5> DEFINE x == file[m].at
                   y == file[c].at
        <5>1. x \in Nat /\ y \in Nat /\ x < y /\ y < pos
          BY <3>6
        <5> HIDE DEF x, y
        <5>2. x < pos'
          BY <1>1, <1>4, <5>1
        <5>. QED  BY <5>2 DEF x
      <4>. QED  BY <3>1, <3>2, <3>3, <3>5, <4>1, <4>2, <4>3 DEF NoFreeEnds
    <3>. QED  BY <3>7, <3>8
  <2>4. Len(stack') <= 3 /\ (Len(stack') = 3 => n = 4)
    <3> HIDE DEF n
    <3>. QED  BY <1>2, <1>3, <2>2
  <2>. QED  BY <2>3, <2>4
<1>. QED
  BY <1>10, <1>11, <1>12 DEF InBack

\* A header in front of the end of the list.
LEMMA FrontHeader ==
  ASSUME ShapeInv, HeadersInv, InStep, ReadHeader, Undamaged(file), mode = "rw",
         ~ faulty, ~ faulty', ~ h.parsedone, h.mp4error = "ok", InFront(file, stack, pos, h)
  PROVE  /\ ~ h'.parsedone => InFront(file, stack', pos', h')
         /\ h'.parsedone => InBack(file, stack', pc', pos', h')
<1> DEFINE n == Len(stack)
<1>1. /\ IsFile(file) /\ pos \in Nat /\ h \in Handle /\ stack \in Seq(Frame) /\ stack # <<>>
      /\ pc = "header" /\ Readable(file) /\ ShortHeads(file)
  BY DEF ShapeInv, TypeInv, Parsing, Undamaged, ReadHeader
<1>2. n \in Nat /\ n >= 1
  BY <1>1, StackFacts
<1>3. h'.ilstend = h.ilstend
  BY HeaderNotes DEF SameMarks
<1>4. h.ilstend => h.checkforfree
  BY DEF InFront
<1>5. \A q \in Lists(file) :
        /\ q \in DOMAIN file /\ file[q].at \in Nat /\ EndOf(file, file[q]) \in Nat
        /\ file[q].at < FileSz(file)
  <2>1. ASSUME NEW q \in Lists(file)
        PROVE  /\ q \in DOMAIN file /\ file[q].at \in Nat /\ EndOf(file, file[q]) \in Nat
               /\ file[q].at < FileSz(file)
    <3>1. q \in DOMAIN file
      BY DEF Lists
    <3>2. /\ file[q].at \in Nat /\ file[q].head \in {8, 16} /\ file[q].body \in Nat
          /\ After(file[q]) \in Nat /\ EndOf(file, file[q]) \in Nat
          /\ After(file[q]) = file[q].at + file[q].head + file[q].body
          /\ EndOf(file, file[q]) >= After(file[q]) /\ EndOf(file, file[q]) <= FileSz(file)
          /\ FileSz(file) \in Nat
      BY <1>1, <3>1, TreeFacts
    <3>3. file[q].at < FileSz(file)
      <4> DEFINE x == file[q].at
                 y == After(file[q])
                 z == EndOf(file, file[q])
      <4>1. x \in Nat /\ y \in Nat /\ z \in Nat /\ x < y /\ z >= y /\ z <= FileSz(file)
        BY <3>2
      <4> HIDE DEF x, y, z
      <4>2. x < FileSz(file)
        BY <3>2, <4>1
      <4>. QED  BY <4>2 DEF x
    <3>. QED  BY <3>1, <3>2, <3>3
  <2>. QED  BY <2>1
<1>6. CASE pos = FileSz(file) /\ pos' = pos /\ HeaderFails
  <2>1. LevelOK(file, stack, n, pos)
    BY <1>1, <1>2 DEF InStep, PlaceOf
  <2>2. n = 1
    <3>1. ASSUME n >= 2
          PROVE  FALSE
      <4>1. n \in 2 .. n
        BY <1>2, <3>1
      <4>2. PICK m \in DOMAIN file : Within(file, m, pos)
        BY <1>1, <2>1, <4>1, FrameBox
      <4>3. EndOf(file, file[m]) <= FileSz(file) /\ EndOf(file, file[m]) \in Nat
        BY <1>1, TreeFacts
      <4>4. pos < EndOf(file, file[m])
        BY <4>2 DEF Within
      <4>. QED  BY <1>1, <1>6, <4>3, <4>4
    <3> HIDE DEF n
    <3>. QED  BY <1>2, <3>1
  <2>3. Len(stack') = 0 /\ h'.checkforfree = FALSE /\ h'.parsedone = (h.parsedone \/ h.checkforfree)
    BY <1>1, <1>6, <2>2, StackFacts DEF HeaderFails, Left
  <2>4. ~ h'.parsedone => InFront(file, stack', pos', h')
    BY <1>3, <1>4, <2>3 DEF InFront
  <2>5. InBack(file, stack', pc', pos', h')
    BY <1>5, <1>6, <2>3 DEF InBack
  <2>. QED  BY <2>4, <2>5
<1>7. ASSUME NEW i \in DOMAIN file, file[i].at = pos,
             \/ HeaderEnters(file[i]) \/ HeaderSkips(file[i])
             \/ /\ HeaderBreaks(file[i]) /\ h'.parsedone = TRUE
                /\ file[i].len = 0 \/ Counts(file[i])
      PROVE  /\ ~ h'.parsedone => InFront(file, stack', pos', h')
             /\ h'.parsedone => InBack(file, stack', pc', pos', h')
  <2>1. h.checkforfree => Counts(file[i])
    BY DEF Counts
  <2>2. CASE HeaderEnters(file[i])
    <3>1. h'.checkforfree = FALSE /\ ~ h.checkforfree /\ ~ h'.parsedone
      BY <2>1, <2>2 DEF HeaderEnters
    <3>. QED  BY <1>3, <1>4, <3>1 DEF InFront
  <2>3. CASE HeaderBreaks(file[i]) /\ h'.parsedone = TRUE
    <3>1. pos + file[i].head <= FileSz(file)
      <4> DEFINE g == file[i].head
                 y == file[i].body
                 a == After(file[i])
                 e == EndOf(file, file[i])
      <4>1. /\ g \in Nat /\ y \in Nat /\ a = pos + g + y /\ e >= a /\ e <= FileSz(file)
            /\ e \in Nat /\ FileSz(file) \in Nat
        BY <1>1, <1>7, TreeFacts
      <4> HIDE DEF g, y, a, e
      <4>2. pos + g <= FileSz(file)
        BY <1>1, <4>1
      <4>. QED  BY <4>2 DEF g
    <3>2. ~ (pos + file[i].head > FileSz(file))
      <4> DEFINE x == pos + file[i].head
      <4>1. x \in Nat /\ FileSz(file) \in Nat /\ x <= FileSz(file)
        BY <1>1, <3>1, TreeFacts
      <4> HIDE DEF x
      <4>2. ~ (x > FileSz(file))
        BY <4>1
      <4>. QED  BY <4>2 DEF x
    <3>3. Left /\ \/ file[i].len = 0 /\ pos' = pos + BoxHead
                  \/ /\ file[i].len # 0 /\ Counts(file[i]) /\ file[i].nm # "free"
                     /\ pos' = pos + file[i].head
      BY <2>3, <3>2 DEF HeaderBreaks
    <3>. QED  BY <1>1, <1>3, <1>7, <2>3, <3>3, BreakSpared
  <2>4. CASE HeaderSkips(file[i])
    <3> DEFINE b == file[i]
    <3>1. /\ pos' = pos + b.head /\ b.head \in Nat /\ h'.checkforfree = Counts(b)
          /\ ~ h'.parsedone /\ b.len # 0 /\ stack' = At(b, Skip(b))
      BY <1>1, <2>4, TreeFacts DEF HeaderSkips
    <3>2. Len(stack') = n /\ \A k \in 1 .. n - 1 : stack'[k] = stack[k]
      <4>1. b \in Header
        <5>1. b \in Cell
          BY <1>1, Places
        <5>. QED  BY <5>1 DEF Cell, Header
      <4> HIDE DEF b
      <4>. QED  BY <1>1, <3>1, <4>1, SkipFacts, AtFacts
    <3>3. ASSUME NEW q \in Lists(file), Counts(b)
          PROVE  EndOf(file, file[q]) <= pos'
      <4>1. CASE h.checkforfree
        <5>1. EndOf(file, file[q]) <= pos /\ EndOf(file, file[q]) \in Nat
          BY <1>5, <4>1 DEF InFront
        <5> DEFINE x == EndOf(file, file[q])
                   g == b.head
        <5>2. x <= pos /\ x \in Nat /\ g \in Nat /\ pos' = pos + g
          BY <3>1, <5>1
        <5> HIDE DEF x, g
        <5>3. x <= pos'
          BY <1>1, <5>2
        <5>. QED  BY <5>3 DEF x
      <4>2. CASE ~ h.checkforfree
        <5>1. b.nm = "ilst" /\ Payload(b) = 0
          BY <3>3, <4>2 DEF Counts
        <5>2. q = i
          BY <1>1, <5>1, OneListOnly DEF Lists
        <5>3. EndOf(file, b) = pos + b.len /\ b.len \in Int
          BY <1>1, <1>7, <3>1, TreeFacts
        <5>4. b.len = b.head
          BY <3>1, <5>1, <5>3 DEF Payload
        <5>5. EndOf(file, b) = pos'
          BY <3>1, <5>3, <5>4
        <5>6. pos' \in Nat
          BY <1>1, <3>1
        <5>7. EndOf(file, file[q]) = pos'
          BY <5>2, <5>5
        <5> HIDE DEF b
        <5>. QED  BY <5>6, <5>7
      <4>. QED  BY <4>1, <4>2
    <3>4. ASSUME h'.ilstend
          PROVE  Counts(b) /\ \E q \in Lists(file) : Around(file, stack', n - 1, file[q].at)
      <4>1. PICK q \in Lists(file) : Around(file, stack, n - 1, file[q].at)
        BY <1>3, <3>4 DEF InFront
      <4>2. Around(file, stack', n - 1, file[q].at)
        BY <3>2, <4>1 DEF Around
      <4>. QED  BY <1>3, <1>4, <2>1, <3>4, <4>2
    <3>5. InFront(file, stack', pos', h')
      <4> HIDE DEF b
      <4>1. Len(stack') - 1 = n - 1
        BY <3>2
      <4>. QED  BY <3>1, <3>3, <3>4, <4>1 DEF InFront
    <3>. QED  BY <3>1, <3>5
  <2>. QED  BY <1>7, <2>2, <2>3, <2>4
<1>. QED
  BY <1>1, <1>6, <1>7, ProperHeader

LEMMA ModBelow ==
  ASSUME NEW x \in Nat, NEW m \in Nat \ {0}
  PROVE  x % m \in Nat /\ x % m <= x
OBVIOUS

LEMMA StillBelow ==
  ASSUME NEW r \in Int, NEW p \in Int, NEW e \in Int, NEW l \in Int, NEW z \in Int,
         NEW k \in Int, r + p <= e, z + k <= p + l
  PROVE  r - l + z + k <= e
OBVIOUS

\* A header behind the list is a box of the file, or a length that is taken for
\* one by accident.
LEMMA HeaderKinds ==
  ASSUME NEW f, JunkPasses(f), NEW p, NEW b \in HeadersAt(f, p)
  PROVE  \/ \E k \in DOMAIN f : b = f[k] /\ f[k].at = p
         \/ /\ b.nm = "junk"
            /\ b.len # 0 /\ b.len < b.head => Payload(b) % SkipMod >= FileSz(f)
<1> DEFINE here == {f[k] : k \in {j \in DOMAIN f : f[j].at = p}}
<1>1. CASE here # {}
  <2>1. b \in here
    BY <1>1 DEF HeadersAt
  <2>. QED  BY <2>1
<1>2. CASE here = {}
  <2>1. b \in {[nm |-> "junk", at |-> p, len |-> j.len, head |-> j.head,
                body |-> 0, id |-> 0, entry |-> 0] : j \in Junk}
    BY <1>2 DEF HeadersAt
  <2>2. PICK j \in Junk : b = [nm |-> "junk", at |-> p, len |-> j.len, head |-> j.head,
                               body |-> 0, id |-> 0, entry |-> 0]
    BY <2>1
  <2>3. b.nm = "junk" /\ b.len = j.len /\ b.head = j.head
    BY <2>2
  <2>. QED  BY <2>3 DEF JunkPasses, Payload
<1>. QED
  BY <1>1, <1>2

\* Behind the header of b the level of the list still lasts.
LEMMA BoxLasts ==
  ASSUME NEW f, IsFile(f), Undamaged(f), NEW p \in Nat, NEW b \in HeadersAt(f, p),
         b.len # 0, p + 8 <= FileSz(f), NEW r \in Nat, NEW skip,
         \/ Descends(b) /\ skip = 0 /\ r = p + b.head + Skip(b)
         \/ ~ Descends(b) /\ skip = Skip(b) /\ r = p + b.head
  PROVE  \/ r + skip >= FileSz(f)
         \/ /\ r + skip <= p + b.len
            /\ b.nm \in {"mdhd", "tag"} => skip = Payload(b)
<1>1. Readable(f) /\ JunkPasses(f) /\ FileSz(f) \in Nat
  BY Places DEF Undamaged
<1>2. CASE \E k \in DOMAIN f : b = f[k] /\ f[k].at = p
  <2>1. PICK k \in DOMAIN f : b = f[k] /\ f[k].at = p
    BY <1>2
  <2>2. /\ b.len \in Int /\ b.head \in Nat /\ After(b) \in Nat /\ EndOf(f, b) >= After(b)
        /\ EndOf(f, b) = p + b.len /\ EndOf(f, b) \in Nat
    BY <1>1, <2>1, TreeFacts
  <2>3. CASE Descends(b) /\ skip = 0 /\ r = p + b.head + Skip(b)
    <3>1. r = After(b)
      BY <2>1, <2>3, DescendsFacts
    <3>2. b.nm \in Containers \cup {"meta"}
      BY <2>3 DEF Descends
    <3>3. b.nm \notin {"mdhd", "tag"}
      BY <3>2 DEF Containers
    <3>4. r + skip <= p + b.len
      BY <2>2, <2>3, <3>1
    <3>. QED  BY <3>3, <3>4
  <2>4. CASE ~ Descends(b) /\ skip = Skip(b) /\ r = p + b.head
    <3>1. skip = Payload(b)
      BY <1>1, <2>1, <2>4, DescendsFacts
    <3>2. r + skip <= p + b.len
      BY <2>2, <2>4, <3>1 DEF Payload
    <3>. QED  BY <3>1, <3>2
  <2>. QED  BY <2>3, <2>4
<1>3. CASE /\ b.nm = "junk"
           /\ b.len # 0 /\ b.len < b.head => Payload(b) % SkipMod >= FileSz(f)
  <2>1. /\ b.len \in Int /\ b.head \in Nat /\ Payload(b) \in Int /\ SkipMod \in Nat \ {0}
        /\ Payload(b) = b.len - b.head
    <3>1. b \in Header /\ b.head \in {8, 16}
      BY HeaderFacts
    <3>. QED  BY <3>1, ParserAssumption DEF Header, Payload
  <2>2. ~ Descends(b) /\ Skip(b) = Payload(b) % SkipMod
    BY <1>3 DEF Descends, Skip, Containers
  <2>3. skip = Payload(b) % SkipMod /\ r = p + b.head
    BY <2>2
  <2> DEFINE x == Payload(b)
             y == x % SkipMod
             l == b.len
             g == b.head
  <2>4. CASE x < 0
    <3>1. b.len < b.head
      BY <2>1, <2>4
    <3>2. y >= FileSz(f) /\ y \in Nat
      BY <1>3, <2>1, <3>1
    <3>3. skip = y
      BY <2>3
    <3> HIDE DEF x, y
    <3>. QED  BY <1>1, <3>2, <3>3
  <2>5. CASE x >= 0
    <3>1. x \in Nat
      BY <2>1, <2>5
    <3>2. y \in Nat /\ y <= x
      BY <2>1, <3>1, ModBelow
    <3>3. skip = y /\ r = p + g /\ x = l - g /\ l \in Int /\ g \in Nat
      BY <2>1, <2>3
    <3> HIDE DEF x, y, l, g
    <3>4. r + skip <= p + l
      BY <3>1, <3>2, <3>3
    <3>. QED  BY <1>3, <3>4 DEF l
  <2>. QED  BY <2>1, <2>4, <2>5
<1>. QED
  BY <1>1, <1>2, <1>3, HeaderKinds

\* A header behind the list.
LEMMA BackHeader ==
  ASSUME ShapeInv, ReadHeader, Undamaged(file), ~ faulty', h.parsedone, h'.mp4error = "ok",
         InBack(file, stack, pc, pos, h)
  PROVE  /\ h'.parsedone /\ Len(stack') <= Len(stack)
         /\ InBack(file, stack', pc', pos', h')
<1> DEFINE n == Len(stack)
<1>1. /\ IsFile(file) /\ pos \in Nat /\ h \in Handle /\ stack \in Seq(Frame) /\ stack # <<>>
      /\ pc = "header"
  BY DEF ShapeInv, TypeInv, Parsing, ReadHeader
<1>2. n \in Nat /\ n >= 1
  BY <1>1, StackFacts
<1>3. h'.ilstend = h.ilstend /\ pos' \in Nat /\ pos' >= pos
  BY HeaderNotes, HeaderSteps DEF SameMarks
<1>4. \A q \in Lists(file) : q \in DOMAIN file /\ file[q].at \in Nat /\ file[q].at < pos
  <2>1. \A q \in Lists(file) : q \in DOMAIN file /\ file[q] \in Cell
    BY <1>1, Places DEF Lists
  <2>. QED  BY <2>1, CellFacts DEF InBack
<1>5. \A q \in Lists(file) : file[q].at < pos'
  <2>1. ASSUME NEW q \in Lists(file)
        PROVE  file[q].at < pos'
    <3> DEFINE x == file[q].at
    <3>1. x \in Nat /\ x < pos
      BY <1>4
    <3> HIDE DEF x
    <3>2. x < pos'
      BY <1>1, <1>3, <3>1
    <3>. QED  BY <3>2 DEF x
  <2>. QED  BY <2>1
<1>6. \A k \in 1 .. n : stack[k].box.nm # "ilst"
  BY DEF InBack
<1>7. h.ilstend => n <= 3 /\ (n = 3 => NoFreeEnds(file, stack, "header", pos))
  BY <1>1 DEF InBack
<1>8. DOMAIN stack = 1 .. n
  BY <1>1
<1>9. ASSUME Left, h'.parsedone
      PROVE  Len(stack') <= n /\ InBack(file, stack', pc', pos', h')
  <2>1. Len(stack') = n - 1 /\ \A k \in 1 .. n - 1 : stack'[k] = stack[k]
    BY <1>1, <1>9, StackFacts DEF Left
  <2>2. \A k \in 1 .. Len(stack') : stack'[k].box.nm # "ilst"
    <3>1. \A k \in 1 .. n - 1 : k \in 1 .. n
      BY <1>2
    <3>. QED  BY <1>6, <2>1, <3>1
  <2>3. h'.ilstend => Len(stack') <= 2
    <3> HIDE DEF n
    <3>. QED  BY <1>2, <1>3, <1>7, <2>1
  <2>4. Len(stack') \in Nat
    <3> HIDE DEF n
    <3>. QED  BY <1>2, <2>1
  <2> DEFINE y == Len(stack')
  <2>5. y <= 2 => y <= 3 /\ y # 3
    <3>1. y \in Nat
      BY <2>4
    <3> HIDE DEF y
    <3>. QED  BY <3>1
  <2>6. y <= n
    <3> HIDE DEF n
    <3>1. y = n - 1
      BY <2>1
    <3> HIDE DEF y
    <3>. QED  BY <1>2, <3>1
  <2>. QED  BY <1>5, <1>9, <2>2, <2>3, <2>5, <2>6 DEF InBack
<1>10. ASSUME NEW b \in HeadersAt(file, pos), pos + BoxHead <= FileSz(file), h'.parsedone,
              b.len # 0, NEW skip \in Nat, stack' = At(b, skip), pc' = "body",
              \/ Descends(b) /\ skip = 0 /\ pos' = pos + b.head + Skip(b)
              \/ /\ skip = Skip(b) /\ pos' = pos + b.head
                 /\ b.nm = "free" \/ ~ Descends(b)
       PROVE  Len(stack') <= n /\ InBack(file, stack', pc', pos', h')
  <2>1. b \in Header /\ b.at = pos
    BY <1>1, HeaderFacts
  <2>2. /\ Len(stack') = n /\ \A k \in 1 .. n - 1 : stack'[k] = stack[k]
        /\ stack'[n].box = b /\ stack'[n].boxlen = Top.boxlen /\ stack'[n].skip = skip
        /\ stack'[n].rem = IF Top.boxlen = 0 THEN b.len ELSE Top.rem
    BY <1>1, <1>10, <2>1, AtFacts
  <2>3. Top = stack[n]
    BY <1>1, StackFacts
  <2>4. b.nm # "ilst"
    <3>1. \A k \in DOMAIN file : file[k].at = pos => file[k].nm # "ilst"
      BY <1>1, <1>4 DEF Lists
    <3>. QED  BY <1>1, <3>1, HeaderFacts
  <2>5. \A k \in 1 .. Len(stack') : stack'[k].box.nm # "ilst"
    <3>1. \A k \in 1 .. n : k = n \/ k \in 1 .. n - 1
      BY <1>2
    <3>. QED  BY <1>6, <2>2, <2>4, <3>1
  <2>6. ASSUME h.ilstend, n = 3
        PROVE  NoFreeEnds(file, stack', "body", pos')
    <3>1. stack'[3] = stack'[n] /\ stack[3] = Top /\ 2 \in 1 .. n - 1
      BY <1>2, <2>3, <2>6
    <3>2. stack'[2] = stack[2]
      BY <2>2, <3>1
    <3>3. NoFreeEnds(file, stack, "header", pos)
      BY <1>7, <2>6
    <3>4. Top.boxlen # 0 /\ OtherBehind(file, pos)
      BY <3>1, <3>3 DEF NoFreeEnds
    <3>5. PICK m \in DOMAIN file :
            /\ stack[2].box = file[m] /\ file[m].at < pos
            /\ LevelLasts(file, Top, file[m], "header", pos)
      BY <3>1, <3>3 DEF NoFreeEnds
    <3>6. FileSz(file) \in Nat /\ pos + 8 <= FileSz(file) /\ EndOf(file, file[m]) \in Nat
          /\ file[m].at \in Nat /\ Top.rem \in Int
      <4>1. FileSz(file) \in Nat /\ file[m] \in Cell
        BY <1>1, Places
      <4>2. EndOf(file, file[m]) \in Nat
        BY <1>1, TreeFacts DEF Undamaged
      <4>3. Top \in Frame
        BY <1>1, StackFacts
      <4>. QED  BY <1>10, <4>1, <4>2, <4>3, CellFacts DEF BoxHead, Frame
    <3> DEFINE e == EndOf(file, file[m])
               r == Top.rem
    <3>0. e \in Nat /\ r \in Int
      BY <3>6
    <3>7. r > 0 /\ r + pos <= e
      <4>1. pos >= FileSz(file) \/ (r > 0 /\ r + pos <= e)
        BY <3>5 DEF LevelLasts
      <4> HIDE DEF r, e
      <4>. QED  BY <1>1, <3>0, <3>6, <4>1
    <3>8. b.nm # "free"
      <4>1. ASSUME NEW k \in DOMAIN file, file[k].at = pos
            PROVE  file[k].nm # "free"
        <5>1. PICK q, j \in DOMAIN file :
                /\ file[q].nm = "ilst" /\ q < j /\ Enclosing(file, q) \subseteq Enclosing(file, j)
                /\ file[j].at < pos /\ file[j].nm \notin {"free", "tag"}
          BY <3>4 DEF OtherBehind
        <5>2. j < k
          <6>1. j \in Nat /\ k \in Nat /\ (k < j => After(file[k]) <= file[j].at)
            BY <1>1, Places
          <6>2. After(file[k]) \in Nat /\ After(file[k]) > file[k].at /\ file[j].at \in Nat
            <7>1. file[k] \in Cell /\ file[j] \in Cell
              BY <1>1, Places
            <7>. QED  BY <7>1, CellFacts
          <6>3. j # k
            BY <1>1, <4>1, <5>1
          <6> DEFINE x == After(file[k])
                     y == file[j].at
          <6>4. x \in Nat /\ x > pos /\ y \in Nat /\ y < pos /\ (k < j => x <= y)
            BY <4>1, <5>1, <6>1, <6>2
          <6> HIDE DEF x, y
          <6>. QED  BY <1>1, <6>1, <6>3, <6>4
        <5>3. m \in Enclosing(file, k)
          <6>1. pos < e
            <7> HIDE DEF r, e
            <7>. QED  BY <1>1, <3>0, <3>7
          <6>. QED  BY <3>5, <4>1, <6>1 DEF Enclosing
        <5>. QED  BY <5>1, <5>2, <5>3 DEF Undamaged, NoHiddenFree
      <4>. QED  BY <1>1, <4>1, HeaderFacts
    <3>9. \/ pos' + skip >= FileSz(file)
          \/ /\ pos' + skip <= pos + b.len
             /\ b.nm \in {"mdhd", "tag"} => skip = Payload(b)
      <4>1. \/ Descends(b) /\ skip = 0 /\ pos' = pos + b.head + Skip(b)
            \/ ~ Descends(b) /\ skip = Skip(b) /\ pos' = pos + b.head
        BY <1>10, <3>8
      <4>. QED  BY <1>1, <1>3, <1>10, <3>6, <4>1, BoxLasts
    <3>10. b.nm \in {"mdhd", "tag"} => skip = Payload(b)
      <4>1. ASSUME b.nm \in {"mdhd", "tag"}
            PROVE  skip = Payload(b)
        <5>1. ~ Descends(b)
          BY <4>1 DEF Descends, Containers
        <5>2. PICK k \in DOMAIN file : b = file[k]
          BY <1>1, <4>1, HeaderFacts
        <5>3. skip = Skip(b)
          BY <1>10, <5>1
        <5>. QED  BY <1>1, <1>10, <5>1, <5>2, <5>3, DescendsFacts DEF Undamaged
      <4>. QED  BY <4>1
    <3>11. LevelLasts(file, stack'[3], file[m], "body", pos')
      <4>1. stack'[3].rem = r /\ stack'[3].box = b /\ stack'[3].skip = skip
        BY <2>2, <3>1, <3>4
      <4> DEFINE l == b.len
      <4>2. pos' + skip >= FileSz(file) \/ r - l + pos' + skip <= e
        <5> DEFINE t == FileSz(file)
        <5>1. /\ l \in Int /\ t \in Nat /\ pos \in Nat /\ pos' \in Nat
              /\ pos' + skip >= t \/ pos' + skip <= pos + l
          BY <1>1, <1>3, <2>1, <3>6, <3>9 DEF Header
        <5> HIDE DEF r, e, l, t
        <5>2. ASSUME pos' + skip <= pos + l
              PROVE  r - l + pos' + skip <= e
          <6>1. r \in Int /\ e \in Int /\ pos \in Int /\ pos' \in Int /\ skip \in Int
            BY <3>0, <5>1
          <6>2. l \in Int /\ r + pos <= e
            BY <3>7, <5>1
          <6>. QED  BY <5>2, <6>1, <6>2, StillBelow
        <5>3. pos' + skip >= t \/ r - l + pos' + skip <= e
          BY <5>1, <5>2
        <5>. QED  BY <5>3 DEF t
      <4>. QED  BY <4>1, <4>2 DEF LevelLasts
    <3>12. OtherBehind(file, pos')
      <4>1. PICK q, j \in DOMAIN file :
              /\ file[q].nm = "ilst" /\ q < j /\ Enclosing(file, q) \subseteq Enclosing(file, j)
              /\ file[j].at < pos /\ file[j].nm \notin {"free", "tag"}
        BY <3>4 DEF OtherBehind
      <4>2. file[j].at \in Nat
        <5>1. file[j] \in Cell
          BY <1>1, Places
        <5>. QED  BY <5>1, CellFacts
      <4>3. file[j].at < pos'
        <5> DEFINE x == file[j].at
        <5>1. x \in Nat /\ x < pos
          BY <4>1, <4>2
        <5> HIDE DEF x
        <5>2. x < pos'
          BY <1>1, <1>3, <5>1
        <5>. QED  BY <5>2 DEF x
      <4>. QED  BY <4>1, <4>3 DEF OtherBehind
    <3>13. file[m].at < pos'
      <4> DEFINE x == file[m].at
      <4>1. x \in Nat /\ x < pos
        BY <3>5, <3>6
      <4> HIDE DEF x
      <4>2. x < pos'
        BY <1>1, <1>3, <4>1
      <4>. QED  BY <4>2 DEF x
    <3>14. /\ stack'[3].boxlen # 0 /\ stack'[3].box = b /\ stack'[3].skip = skip
           /\ stack'[2].box = file[m]
      BY <2>2, <3>1, <3>2, <3>4, <3>5
    <3> HIDE DEF e, r, n
    <3>. QED  BY <3>8, <3>10, <3>11, <3>12, <3>13, <3>14 DEF NoFreeEnds
  <2>7. h'.ilstend => Len(stack') <= 3 /\ (Len(stack') = 3 => NoFreeEnds(file, stack', "body", pos'))
    BY <1>3, <1>7, <2>2, <2>6
  <2>8. Len(stack') <= n
    <3> HIDE DEF n
    <3>. QED  BY <1>2, <2>2
  <2>. QED  BY <1>5, <1>10, <2>5, <2>7, <2>8 DEF InBack
<1>11. ASSUME HeaderFails
       PROVE  Left /\ h'.parsedone
  BY <1>11 DEF HeaderFails
<1>12. ASSUME NEW b \in HeadersAt(file, pos), pos + BoxHead <= FileSz(file),
              HeaderBreaks(b) \/ HeaderEnters(b) \/ HeaderSkips(b)
       PROVE  h'.parsedone /\ Len(stack') <= n /\ InBack(file, stack', pc', pos', h')
  <2>1. CASE HeaderBreaks(b)
    <3>1. Left /\ h'.parsedone
      BY <2>1 DEF HeaderBreaks
    <3>. QED  BY <1>9, <3>1
  <2>2. CASE HeaderEnters(b)
    <3>1. /\ b.len # 0 /\ Descends(b) /\ pos' = pos + b.head + Skip(b) /\ h'.parsedone
          /\ stack' = At(b, 0) /\ pc' = "body"
      BY <2>2 DEF HeaderEnters
    <3>. QED  BY <1>10, <1>12, <3>1
  <2>3. CASE HeaderSkips(b)
    <3>1. /\ b.len # 0 /\ pos' = pos + b.head /\ h'.parsedone
          /\ b.nm = "free" \/ ~ Descends(b)
          /\ stack' = At(b, Skip(b)) /\ pc' = "body"
      BY <2>3 DEF HeaderSkips
    <3>2. Skip(b) \in Nat
      BY <1>1, HeaderFacts, SkipFacts
    <3>. QED  BY <1>10, <1>12, <3>1, <3>2
  <2>. QED  BY <1>12, <2>1, <2>2, <2>3
<1>. QED
  BY <1>9, <1>11, <1>12, HeaderSteps DEF HeaderMisses

\* The end of a box in front of the end of the list.
LEMMA FrontBody ==
  ASSUME ShapeInv, ListInv, HeadersInv, OuterInv, InStep, FinishBox, Undamaged(file),
         mode = "rw", ~ faulty, ~ faulty', ~ h.parsedone, h.mp4error = "ok",
         InFront(file, stack, pos, h), ~ h.freeneg, ~ h.dofix
  PROVE  ~ h'.parsedone /\ ~ h'.freeneg /\ ~ h'.dofix /\ InFront(file, stack', pos', h')
<1> DEFINE b == Top.box
           n == Len(stack)
<1>1. /\ IsFile(file) /\ pos \in Nat /\ pc = "body" /\ h \in Handle
      /\ stack \in Seq(Frame) /\ stack # <<>> /\ Readable(file) /\ ShortHeads(file)
  BY DEF ShapeInv, TypeInv, FinishBox, Parsing, Undamaged
<1>2. n \in Nat /\ n >= 1 /\ Top = stack[n] /\ Top \in Frame
  BY <1>1, StackFacts
<1>3. /\ \A k \in 1 .. n : LevelOK(file, stack, k, stack[k].box.at)
      /\ Entered(file, Top) => b.len # 0 /\ pos = EndOf(file, b)
  BY <1>1, <1>2 DEF InStep, PlaceOf
<1>4. /\ Accounted(b)
      /\ \/ Entered(file, Top) /\ AtBox(file, pos) /\ pos' = pos
         \/ \E i \in DOMAIN file :
              /\ b = file[i] /\ file[i].len # 0 /\ ~ Descends(file[i])
              /\ pos = file[i].at + file[i].head /\ pos' = EndOf(file, file[i])
  BY <1>1, ProperBody
<1>5. PICK i \in DOMAIN file : b = file[i] /\ b.len # 0 /\ pos' = EndOf(file, b)
  BY <1>3, <1>4 DEF Entered
<1>6. ~ h'.parsedone /\ h'.checkforfree = StillCounts(b) /\ h'.mp4error = "ok"
  BY <1>4 DEF Accounted
<1>7. LevelOK(file, stack, n, b.at)
  BY <1>2, <1>3
<1>8. canwrite /\ (h.ilstend => h.checkforfree)
  BY DEF canwrite, InFront
<1>9. h.checkforfree => StillCounts(b)
  BY DEF StillCounts
<1>10. ASSUME NEW q \in Lists(file), StillCounts(b)
       PROVE  EndOf(file, file[q]) <= pos'
  <2>1. EndOf(file, file[q]) \in Nat
    BY <1>1, TreeFacts DEF Lists
  <2>2. CASE b.nm = "ilst"
    <3>1. q = i
      BY <1>1, <1>5, <2>2, OneListOnly DEF Lists
    <3>2. EndOf(file, file[q]) = pos'
      BY <1>5, <3>1
    <3>. QED  BY <2>1, <3>2
  <2>3. CASE b.nm # "ilst"
    <3>1. EndOf(file, file[q]) <= pos
      BY <1>10, <2>3 DEF StillCounts, InFront
    <3>2. pos' \in Nat /\ pos' >= pos
      BY BodySteps
    <3> DEFINE e == EndOf(file, file[q])
    <3>3. e \in Nat /\ e <= pos
      BY <2>1, <3>1
    <3> HIDE DEF e
    <3>4. e <= pos'
      BY <1>1, <3>2, <3>3
    <3>. QED  BY <3>4 DEF e
  <2>. QED  BY <2>2, <2>3
<1>11. SUFFICES /\ ~ h'.freeneg /\ ~ h'.dofix
                /\ h'.ilstend => /\ StillCounts(b)
                                 /\ \E q \in Lists(file) :
                                      Around(file, stack', Len(stack') - 1, file[q].at)
  BY <1>6, <1>10 DEF InFront
<1>12. CASE Going(b)
  <2>1. Len(stack') = n /\ \A k \in 1 .. n - 1 : stack'[k] = stack[k]
    BY <1>4, <1>12 DEF Going, Accounted
  <2>2. ASSUME NEW q \in Lists(file), Around(file, stack, n - 1, file[q].at)
        PROVE  Around(file, stack', Len(stack') - 1, file[q].at)
    BY <2>1, <2>2 DEF Around
  <2>3. ASSUME h.ilstend
        PROVE  \E q \in Lists(file) : Around(file, stack', Len(stack') - 1, file[q].at)
    BY <2>2, <2>3 DEF InFront
  <2>4. ASSUME b.nm = "ilst"
        PROVE  \E q \in Lists(file) : Around(file, stack', Len(stack') - 1, file[q].at)
    <3>1. i \in Lists(file) /\ Around(file, stack, n - 1, file[i].at)
      BY <1>5, <1>7, <2>4 DEF LevelOK, Lists
    <3>. QED  BY <2>2, <3>1
  <2>5. b.nm = "ilst" => StillCounts(b)
    BY <1>8 DEF StillCounts
  <2>6. h'.ilstend => h.ilstend \/ b.nm = "ilst"
    BY <1>12 DEF Going
  <2>7. ~ h'.freeneg /\ ~ h'.dofix
    BY <1>12 DEF Going
  <2>. QED  BY <1>8, <1>9, <2>3, <2>4, <2>5, <2>6, <2>7
<1>13. CASE Ended(b)
  <2>1. n \in 2 .. n
    <3>1. n # 1
      BY <1>1, <1>2, <1>13 DEF Ended, OuterInv
    <3> HIDE DEF n
    <3>. QED  BY <1>2, <3>1
  <2>2. PICK m \in DOMAIN file : Within(file, m, b.at) /\ Top.rem = EndOf(file, file[m]) - b.at
    BY <1>1, <1>2, <1>7, <2>1, FrameBox
  <2>3. ~ (Top.rem - b.len < 0)
    <3>1. EndOf(file, b) <= EndOf(file, file[m])
      BY <1>1, <1>5, <2>2, TreeFacts
    <3>2. /\ EndOf(file, b) \in Nat /\ EndOf(file, file[m]) \in Nat /\ b.at \in Nat
          /\ b.len \in Int /\ EndOf(file, b) = b.at + b.len
      BY <1>1, <1>5, TreeFacts
    <3> DEFINE d == EndOf(file, b)
               e == EndOf(file, file[m])
               r == Top.rem
               l == b.len
               a == b.at
    <3>3. /\ d <= e /\ d \in Nat /\ e \in Nat /\ a \in Nat /\ l \in Int /\ d = a + l /\ r = e - a
      BY <2>2, <3>1, <3>2
    <3> HIDE DEF d, e, r, l, a
    <3>4. ~ (r - l < 0)
      BY <3>3
    <3>. QED  BY <3>4 DEF r, l
  <2>4. ~ h'.freeneg /\ ~ h'.dofix /\ ~ h'.ilstend
    BY <1>13, <2>3 DEF Ended
  <2>. QED  BY <2>4
<1>14. CASE Broken(b)
  <2>1. ~ h'.freeneg /\ ~ h'.dofix /\ h'.ilstend = h.ilstend
    BY <1>14 DEF Broken, SameMarks
  <2>2. ~ StillCounts(b)
    BY <1>6, <1>14 DEF Broken
  <2>. QED  BY <1>8, <1>9, <2>1, <2>2
<1>. QED
  BY <1>12, <1>13, <1>14, BodyNotes

\* The end of a box behind the list.
LEMMA BackBody ==
  ASSUME ShapeInv, ListInv, OuterInv, FinishBox, Undamaged(file), h.parsedone,
         InBack(file, stack, pc, pos, h), ~ h.dofix, h.freeneg => Len(stack) <= 1
  PROVE  /\ h'.parsedone /\ ~ h'.dofix /\ (h'.freeneg => Len(stack') <= 1)
         /\ InBack(file, stack', pc', pos', h')
<1> DEFINE b == Top.box
           n == Len(stack)
<1>1. /\ IsFile(file) /\ pos \in Nat /\ pc = "body" /\ h \in Handle
      /\ stack \in Seq(Frame) /\ stack # <<>> /\ PlainList(file)
  BY DEF ShapeInv, TypeInv, FinishBox, Parsing, Undamaged, Readable
<1>2. n \in Nat /\ n >= 1 /\ Top = stack[n] /\ Top \in Frame
  BY <1>1, StackFacts
<1>3. pos' \in Nat /\ pos' >= pos /\ (BodyReads(b) \/ BodySkips(b) \/ BodyFails(b))
  BY BodySteps
<1>4. h'.parsedone
  BY <1>3 DEF BodyReads, BodySkips, BodyFails, Accounted
<1>5. \A q \in Lists(file) : file[q].at < pos'
  <2>1. ASSUME NEW q \in Lists(file)
        PROVE  file[q].at < pos'
    <3> DEFINE x == file[q].at
    <3>1. x \in Nat /\ x < pos
      <4>1. file[q] \in Cell
        BY <1>1, Places DEF Lists
      <4>. QED  BY <4>1, CellFacts DEF InBack
    <3> HIDE DEF x
    <3>2. x < pos'
      BY <1>1, <1>3, <3>1
    <3>. QED  BY <3>2 DEF x
  <2>. QED  BY <2>1
<1>6. \A k \in 1 .. n : stack[k].box.nm # "ilst"
  BY DEF InBack
<1>7. b.nm # "ilst"
  BY <1>2, <1>6
<1>8. h.ilstend => n <= 3 /\ (n = 3 => NoFreeEnds(file, stack, "body", pos))
  BY <1>1 DEF InBack
<1>9. ASSUME stack' = Front(stack)
      PROVE  /\ Len(stack') = n - 1
             /\ \A k \in 1 .. Len(stack') : stack'[k].box.nm # "ilst"
  <2>1. Len(stack') = n - 1 /\ \A k \in 1 .. n - 1 : stack'[k] = stack[k]
    BY <1>1, <1>9, StackFacts
  <2>2. \A k \in 1 .. n - 1 : k \in 1 .. n
    BY <1>2
  <2>. QED  BY <1>6, <2>1, <2>2
<1>10. CASE Going(b)
  <2>1. Accounted(b) /\ pc' = "header"
    BY <1>3, <1>10 DEF Going, BodyReads, BodySkips, BodyFails, Left
  <2>2. /\ Len(stack') = n /\ \A k \in 1 .. n - 1 : stack'[k] = stack[k]
        /\ stack'[n] = [Top EXCEPT !.rem = Top.rem - b.len]
        /\ Top.rem - b.len > 0 \/ Top.boxlen = 0
    BY <2>1 DEF Accounted
  <2>3. stack'[n].box = b /\ stack'[n].boxlen = Top.boxlen /\ stack'[n].rem = Top.rem - b.len
    BY <1>2, <2>2 DEF Frame
  <2>4. \A k \in 1 .. Len(stack') : stack'[k].box.nm # "ilst"
    <3>1. \A k \in 1 .. n : k = n \/ k \in 1 .. n - 1
      BY <1>2
    <3>2. \A k \in 1 .. n - 1 : k \in 1 .. n
      BY <1>2
    <3>. QED  BY <1>6, <1>7, <2>2, <2>3, <3>1, <3>2
  <2>5. (h'.ilstend => h.ilstend) /\ h'.freeneg = h.freeneg /\ ~ h'.dofix
    BY <1>7, <1>10 DEF Going
  <2>6. ASSUME h.ilstend, n = 3
        PROVE  NoFreeEnds(file, stack', "header", pos')
    <3>1. stack'[3] = stack'[n] /\ stack[3] = Top /\ 2 \in 1 .. n - 1
      BY <1>2, <2>6
    <3>2. stack'[2] = stack[2]
      BY <2>2, <3>1
    <3>3. NoFreeEnds(file, stack, "body", pos)
      BY <1>8, <2>6
    <3>4. /\ Top.boxlen # 0 /\ b.nm # "free"
          /\ b.nm \in {"mdhd", "tag"} => Top.skip = Payload(b)
      BY <3>1, <3>3 DEF NoFreeEnds
    <3> DEFINE r == Top.rem
               l == b.len
               s == Top.skip
    <3>5. r \in Int /\ l \in Int /\ s \in Nat /\ r - l > 0
      <4>1. b \in Header /\ r \in Int /\ s \in Nat
        BY <1>2 DEF Frame
      <4>2. l \in Int
        BY <4>1 DEF Header
      <4>. QED  BY <2>2, <3>4, <4>1, <4>2
    <3>6. ~ (r <= l)
      <4> HIDE DEF r, l
      <4>. QED  BY <3>5
    <3>7. OtherBehind(file, pos)
      BY <3>1, <3>3, <3>6 DEF NoFreeEnds
    <3>8. PICK m \in DOMAIN file :
            /\ stack[2].box = file[m] /\ file[m].at < pos
            /\ LevelLasts(file, Top, file[m], "body", pos)
      BY <3>1, <3>3, <3>6 DEF NoFreeEnds
    <3>9. pos' = pos + s
      <4>1. CASE BodySkips(b)
        BY <4>1 DEF BodySkips
      <4>2. CASE BodyReads(b)
        <5>1. pos' = pos + Payload(b) /\ (b.nm = "mdhd" \/ StillReads(b))
          BY <4>2 DEF BodyReads
        <5>2. StillReads(b) => b.nm \in {"tag", "free"}
          BY <1>1, AtListBody
        <5>3. s = Payload(b)
          BY <3>4, <5>1, <5>2
        <5>. QED  BY <5>1, <5>3
      <4>3. ~ BodyFails(b)
        BY <1>10 DEF Going, BodyFails, Left
      <4>. QED  BY <1>3, <4>1, <4>2, <4>3
    <3> DEFINE e == EndOf(file, file[m])
               t == FileSz(file)
    <3>10. e \in Nat /\ t \in Nat /\ file[m].at \in Nat
      BY <1>1, TreeFacts DEF Undamaged
    <3>11. pos + s >= t \/ r - l + pos + s <= e
      BY <3>8 DEF LevelLasts
    <3>12. pos' >= t \/ (r - l > 0 /\ r - l + pos' <= e)
      <4> HIDE DEF r, l, s, e, t
      <4>. QED  BY <1>1, <3>5, <3>9, <3>10, <3>11
    <3>13. LevelLasts(file, stack'[3], file[m], "header", pos')
      BY <2>3, <3>1, <3>12 DEF LevelLasts
    <3>14. OtherBehind(file, pos')
      <4>1. PICK q, j \in DOMAIN file :
              /\ file[q].nm = "ilst" /\ q < j /\ Enclosing(file, q) \subseteq Enclosing(file, j)
              /\ file[j].at < pos /\ file[j].nm \notin {"free", "tag"}
        BY <3>7 DEF OtherBehind
      <4>2. file[j] \in Cell
        BY <1>1, Places
      <4>3. file[j].at < pos'
        <5> DEFINE x == file[j].at
        <5>1. x \in Nat /\ x < pos
          BY <4>1, <4>2, CellFacts
        <5> HIDE DEF x
        <5>2. x < pos'
          BY <1>1, <1>3, <5>1
        <5>. QED  BY <5>2 DEF x
      <4>. QED  BY <1>1, <4>1, <4>3 DEF OtherBehind
    <3>15. file[m].at < pos'
      <4> DEFINE x == file[m].at
      <4>1. x \in Nat /\ x < pos
        BY <3>8, <3>10
      <4> HIDE DEF x
      <4>2. x < pos'
        BY <1>1, <1>3, <4>1
      <4>. QED  BY <4>2 DEF x
    <3>16. stack'[3].boxlen # 0 /\ stack'[2].box = file[m]
      BY <2>3, <3>1, <3>2, <3>4, <3>8
    <3> HIDE DEF r, l, s, e, t, n
    <3>. QED  BY <3>13, <3>14, <3>15, <3>16 DEF NoFreeEnds
  <2>7. InBack(file, stack', pc', pos', h')
    BY <1>5, <1>8, <2>1, <2>2, <2>4, <2>5, <2>6 DEF InBack
  <2>. QED  BY <1>4, <2>2, <2>5, <2>7
<1>11. CASE Ended(b)
  <2>1. stack' = Front(stack) /\ Top.boxlen # 0 /\ ~ h'.ilstend
    BY <1>11 DEF Ended
  <2>2. n # 1
    BY <1>1, <1>2, <2>1 DEF OuterInv
  <2>3. ~ (n <= 1)
    <3> HIDE DEF n
    <3>. QED  BY <1>2, <2>2
  <2>4. ~ h.freeneg
    BY <2>3
  <2>5. ~ h'.dofix
    BY <1>11, <2>4 DEF Ended
  <2>6. h'.freeneg => b.nm = "free" /\ h.ilstend
    BY <1>11, <2>4 DEF Ended
  <2>7. ASSUME h'.freeneg
        PROVE  Len(stack') <= 1
    <3>1. n <= 3
      BY <1>8, <2>6, <2>7
    <3>2. n # 3
      <4>1. n = 3 => stack[3] = Top
        BY <1>2
      <4>. QED  BY <1>8, <2>6, <2>7, <4>1 DEF NoFreeEnds
    <3>3. Len(stack') = n - 1
      BY <1>9, <2>1
    <3> HIDE DEF n
    <3>. QED  BY <1>2, <3>1, <3>2, <3>3
  <2>8. InBack(file, stack', pc', pos', h')
    BY <1>5, <1>9, <2>1 DEF InBack
  <2>. QED  BY <1>4, <2>5, <2>7, <2>8
<1>12. CASE Broken(b)
  <2>1. stack' = Front(stack) /\ h'.ilstend = h.ilstend /\ h'.freeneg = h.freeneg /\ ~ h'.dofix
    BY <1>12 DEF Broken, SameMarks
  <2>2. Len(stack') = n - 1
    BY <1>9, <2>1
  <2>3. h'.freeneg => Len(stack') <= 1
    <3> HIDE DEF n
    <3>1. h.freeneg => n <= 1
      BY DEF n
    <3>. QED  BY <1>2, <2>1, <2>2, <3>1
  <2>4. h'.ilstend => Len(stack') <= 3 /\ Len(stack') # 3
    <3> HIDE DEF n
    <3>. QED  BY <1>2, <1>8, <2>1, <2>2
  <2>5. InBack(file, stack', pc', pos', h')
    BY <1>5, <1>9, <2>1, <2>4 DEF InBack
  <2>. QED  BY <1>4, <2>1, <2>3, <2>5
<1>. QED
  BY <1>10, <1>11, <1>12, BodyNotes

LEMMA NextSpared ==
  ShapeInv /\ ListInv /\ HeadersInv /\ OuterInv /\ InStep /\ FaultInv /\ SparedInv /\ [Next]_vars
    => SparedInv'
<1> SUFFICES ASSUME ShapeInv, ListInv, HeadersInv, OuterInv, InStep, FaultInv, SparedInv,
                    [Next]_vars
             PROVE  SparedInv'
  OBVIOUS
<1>1. FaultInv'
  BY NextFault
\* Nothing has been noted yet.
<1>2. ASSUME h' = NewHandle, stack' = <<Call(0)>>
      PROVE  SparedInv'
  <2>1. /\ ~ h'.dofix /\ ~ h'.freeneg /\ ~ h'.parsedone /\ ~ h'.checkforfree /\ ~ h'.ilstend
    BY <1>2 DEF NewHandle
  <2>2. InFront(file', stack', pos', h')
    BY <2>1 DEF InFront
  <2>. QED  BY <2>1, <2>2 DEF SparedInv
<1>3. CASE Repair \/ WriteTags
  BY <1>2, <1>3 DEF Repair, WriteTags, Again
<1>4. CASE ReadFtyp \/ ReadBrands
  <2>1. h = NewHandle /\ stack = <<>> /\ h' \in Handle
    BY <1>4, NextShape DEF ReadFtyp, ReadBrands, ShapeInv, StartInv, TypeInv, Parsing
  <2>2. StartParse \/ Refuse("not_mp4") \/ Refuse("out_of_memory")
        \/ (pc' = "brands" /\ UNCHANGED <<h, stack>>)
    BY <1>4 DEF ReadFtyp, ReadBrands
  <2>3. CASE StartParse
    BY <1>2, <2>1, <2>3 DEF StartParse
  <2>4. CASE Refuse("not_mp4") \/ Refuse("out_of_memory")
    <3>1. h'.mp4error # "ok"
      BY <2>1, <2>4 DEF Refuse, NewHandle
    <3>. QED  BY <3>1 DEF SparedInv
  <2>5. CASE UNCHANGED <<h, stack>>
    <3>1. /\ ~ h'.dofix /\ ~ h'.freeneg /\ ~ h'.parsedone /\ ~ h'.checkforfree /\ ~ h'.ilstend
      BY <2>1, <2>5 DEF NewHandle
    <3>2. InFront(file', stack', pos', h')
      BY <3>1 DEF InFront
    <3>. QED  BY <3>1, <3>2 DEF SparedInv
  <2>. QED  BY <2>2, <2>3, <2>4, <2>5
<1>5. ASSUME ReadHeader \/ FinishBox, mode' = "rw", h'.mp4error = "ok", Undamaged(file')
      PROVE  /\ file' = file /\ Undamaged(file) /\ mode = "rw" /\ h.mp4error = "ok"
             /\ ~ faulty /\ ~ faulty'
             /\ ~ h.dofix
             /\ h.freeneg => h.parsedone /\ Len(stack) <= 1
             /\ ~ h.parsedone => InFront(file, stack, pos, h)
             /\ h.parsedone => InBack(file, stack, pc, pos, h)
  <2>1. file' = file /\ mode = "rw"
    BY <1>5 DEF ReadHeader, FinishBox
  <2>2. h.mp4error = "ok"
    <3>1. CASE ReadHeader
      BY <1>5, <3>1, HeaderSteps DEF HeaderFails, HeaderBreaks, HeaderEnters, HeaderSkips, HeaderMisses
    <3>2. CASE FinishBox
      <4>1. BodyReads(Top.box) \/ BodySkips(Top.box) \/ BodyFails(Top.box)
        BY <3>2, BodySteps
      <4>. QED  BY <1>5, <4>1 DEF BodyReads, BodySkips, BodyFails, Accounted
    <3>. QED  BY <1>5, <3>1, <3>2
  <2>3. ~ faulty /\ ~ faulty'
    BY <1>1, <1>5, <2>1, <2>2 DEF FaultInv
  <2>. QED  BY <1>5, <2>1, <2>2, <2>3 DEF SparedInv
<1>6. CASE ReadHeader
  <2>1. SUFFICES ASSUME mode' = "rw", h'.mp4error = "ok", Undamaged(file')
                 PROVE  /\ ~ h'.dofix
                        /\ h'.freeneg => h'.parsedone /\ Len(stack') <= 1
                        /\ ~ h'.parsedone => InFront(file, stack', pos', h')
                        /\ h'.parsedone => InBack(file, stack', pc', pos', h')
    BY <1>6 DEF SparedInv, ReadHeader
  <2>2. /\ Undamaged(file) /\ mode = "rw" /\ h.mp4error = "ok" /\ ~ faulty /\ ~ faulty'
        /\ ~ h.dofix
        /\ h.freeneg => h.parsedone /\ Len(stack) <= 1
        /\ ~ h.parsedone => InFront(file, stack, pos, h)
        /\ h.parsedone => InBack(file, stack, pc, pos, h)
    BY <1>5, <1>6, <2>1
  <2>3. h'.freeneg = h.freeneg /\ h'.dofix = h.dofix
    BY <1>6, HeaderNotes DEF SameMarks
  <2>4. CASE h.parsedone
    <3>1. h'.parsedone /\ Len(stack') <= Len(stack) /\ InBack(file, stack', pc', pos', h')
      BY <1>6, <2>1, <2>2, <2>4, BackHeader
    <3>2. h.freeneg => Len(stack') <= 1
      <4> DEFINE n == Len(stack)
                 y == Len(stack')
      <4>1. n \in Nat /\ y \in Nat /\ y <= n /\ (h.freeneg => n <= 1)
        <5>1. stack \in Seq(Frame) /\ stack' \in Seq(Frame)
          BY NextShape DEF ShapeInv, TypeInv
        <5>. QED  BY <2>2, <3>1, <5>1
      <4> HIDE DEF n, y
      <4>2. h.freeneg => y <= 1
        BY <4>1
      <4>. QED  BY <4>2 DEF y
    <3>. QED  BY <2>2, <2>3, <3>1, <3>2
  <2>5. CASE ~ h.parsedone
    <3>1. /\ ~ h'.parsedone => InFront(file, stack', pos', h')
          /\ h'.parsedone => InBack(file, stack', pc', pos', h')
      BY <1>6, <2>2, <2>5, FrontHeader
    <3>. QED  BY <2>2, <2>3, <2>5, <3>1
  <2>. QED  BY <2>4, <2>5
<1>7. CASE FinishBox
  <2>1. SUFFICES ASSUME mode' = "rw", h'.mp4error = "ok", Undamaged(file')
                 PROVE  /\ ~ h'.dofix
                        /\ h'.freeneg => h'.parsedone /\ Len(stack') <= 1
                        /\ ~ h'.parsedone => InFront(file, stack', pos', h')
                        /\ h'.parsedone => InBack(file, stack', pc', pos', h')
    BY <1>7 DEF SparedInv, FinishBox
  <2>2. /\ Undamaged(file) /\ mode = "rw" /\ h.mp4error = "ok" /\ ~ faulty /\ ~ faulty'
        /\ ~ h.dofix
        /\ h.freeneg => h.parsedone /\ Len(stack) <= 1
        /\ ~ h.parsedone => InFront(file, stack, pos, h)
        /\ h.parsedone => InBack(file, stack, pc, pos, h)
    BY <1>5, <1>7, <2>1
  <2>3. CASE h.parsedone
    BY <1>7, <2>2, <2>3, BackBody
  <2>4. CASE ~ h.parsedone
    BY <1>7, <2>2, <2>4, FrontBody
  <2>. QED  BY <2>3, <2>4
<1>8. CASE UNCHANGED vars
  BY <1>8 DEF vars, SparedInv
<1>. QED
  BY <1>3, <1>4, <1>6, <1>7, <1>8 DEF Next, ParseStep

LEMMA InitSpared == Init => FaultInv /\ SparedInv
<1> SUFFICES ASSUME Init
             PROVE  FaultInv /\ SparedInv
  OBVIOUS
<1>1. /\ ~ faulty /\ ~ h.dofix /\ ~ h.freeneg /\ ~ h.parsedone /\ ~ h.checkforfree
      /\ ~ h.ilstend
  BY DEF Init, NewHandle
<1>2. InFront(file, stack, pos, h)
  BY <1>1 DEF InFront
<1>. QED
  BY <1>1, <1>2 DEF FaultInv, SparedInv

\* Opening a file of Undamaged never changes it (a tree of boxes with short headers
\* and lengths of 32 bits, the list at moov.udta.meta or higher up, no free box in
\* another box behind the list, and no bytes there that read as a length shorter
\* than its header): the flags that start the repair need a free box that ends
\* behind the end of the level of the list (the bug checks in mp4tag_parse_file,
\* mp4tag_parse).  Of other trees of boxes it is not true.
THEOREM ProperSpared == Spec => OnlyDamageRepaired
<1> DEFINE Inv == /\ ShapeInv /\ BasesInv /\ ListInv /\ HeadersInv /\ OuterInv /\ InStep
                  /\ FaultInv /\ SparedInv
<1>1. Init => Inv
  BY InitShape, InitBases, InitList, InitHeaders, InitInStep, InitSpared
<1>2. Inv /\ [Next]_vars => Inv'
  BY NextShape, NextBases, NextList, NextHeaders, NextOuter, NextInStep, NextFault, NextSpared
<1>3. Inv /\ [Next]_vars => [repaired' # repaired => ~ Undamaged(file)]_vars
  <2> SUFFICES ASSUME Inv, [Next]_vars, repaired' # repaired
               PROVE  ~ Undamaged(file)
    OBVIOUS
  <2>1. Repair
    BY DEF Next, ParseStep, ReadFtyp, ReadBrands, ReadHeader, FinishBox, WriteTags, vars
  <2>2. mode = "rw" /\ h.mp4error = "ok" /\ h.dofix
    BY <2>1 DEF Repair, canwrite
  <2>. QED  BY <2>2 DEF SparedInv
<1> HIDE DEF Inv
<1>. QED
  BY <1>1, <1>2, <1>3, PTL DEF Spec, OnlyDamageRepaired

-----------------------------------------------------------------------------
(* The inductive invariant: what is noted of a file without a tag list.     *)

\* The last udta box, with no meta behind it; the boxes of which something is
\* noted for the insertion; and that it is.
LastUdta(f, u) ==
  f[u].nm = "udta" /\ \A i \in DOMAIN f : i > u => f[i].nm \notin {"udta", "meta"}
Noteworthy(f, i) ==
  f[i].nm = "moov" \/ LastUdta(f, i) \/ (TablesSound(f) /\ f[i].nm \in {"stco", "co64"})
NotedAt(f, hh, i) ==
  /\ f[i].nm = "moov" => hh.base_offsets[0] = f[i].at /\ hh.base_lengths[0] = f[i].len
  /\ LastUdta(f, i) => /\ hh.noilst_offset = f[i].at /\ hh.after_ilst_offset = f[i].at + 8
                       /\ hh.insert_delta = 8
  /\ TablesSound(f) /\ f[i].nm = "stco" => hh.stco_offset = f[i].at + 8
  /\ TablesSound(f) /\ f[i].nm = "co64" => hh.co64_offset = f[i].at + 8

\* A file without an udta: the list goes to the end of moov.
NoUdtaNoted(f, hh) ==
  /\ hh.insert_delta = 0 /\ hh.after_ilst_offset = hh.noilst_offset
  /\ \/ hh.noilst_offset = 0
     \/ \E m \in DOMAIN f : f[m].nm = "moov" /\ hh.noilst_offset = EndOf(f, f[m])

\* While no call has failed: nothing is taken for a tag list, and of every box the
\* parser has met what the insertion needs is in the handle.
NoteInv ==
  ~ faulty /\ h.mp4error = "ok" /\ InsertSound(file) =>
    /\ h.taglist_offset = 0 /\ ~ h.checkforfree
    /\ h.parsedone => pc = "done"
    /\ pc = "done" => \A i \in DOMAIN file : file[i].at < pos
    /\ \A i \in DOMAIN file : file[i].at < pos => NotedAt(file, h, i)
    /\ (\A i \in DOMAIN file : file[i].nm # "udta") => NoUdtaNoted(file, h)

\* What InsertSound says of a file, with its moov m.
Sound(f, m) ==
  /\ f[m].nm = "moov" /\ f[m].len # 0 /\ Descends(f[m]) /\ Enclosing(f, m) = {}
  /\ \A i \in DOMAIN f :
       /\ f[i].nm = "moov" => i = m
       /\ Descends(f[i]) /\ Enclosing(f, i) = {} => i = m
       /\ f[i].len = 0 => m \notin Enclosing(f, i)
       /\ LastUdta(f, i) => Enclosing(f, i) = {m}
       /\ f[i].nm # "ilst"
       /\ f[i].nm \in Containers \cup {"meta"} => f[i].head = 8
  /\ \/ \E u \in DOMAIN f : LastUdta(f, u)
     \/ \A i \in DOMAIN f : f[i].nm \notin {"udta", "meta"}

\* It says so.
LEMMA SoundFacts ==
  ASSUME NEW f, IsFile(f), InsertSound(f)
  PROVE  Readable(f) /\ ShortHeads(f) /\ \E m \in DOMAIN f : Sound(f, m)
<1> DEFINE Boxes(nm) == {i \in DOMAIN f : f[i].nm = nm}
<1>1. Readable(f) /\ ShortHeads(f) /\ Boxes("ilst") = {}
  BY DEF InsertSound
<1>2. PICK m \in DOMAIN f :
        /\ Boxes("moov") = {m} /\ Payload(f[m]) > 0 /\ Enclosing(f, m) = {}
        /\ \A i \in DOMAIN f : /\ Descends(f[i]) /\ Enclosing(f, i) = {} => i = m
                               /\ f[i].len = 0 => m \notin Enclosing(f, i)
        /\ IF Boxes("udta") = {} THEN Boxes("meta") = {}
           ELSE \E u \in Boxes("udta") :
                  /\ \A i \in DOMAIN f : i > u => f[i].nm \notin {"udta", "meta"}
                  /\ Enclosing(f, u) = {m}
  BY DEF InsertSound
<1>3. f[m].nm = "moov" /\ \A i \in DOMAIN f : f[i].nm = "moov" => i = m
  BY <1>2
<1>4. f[m].len # 0 /\ Descends(f[m])
  <2>1. f[m].len \in Int /\ f[m].head \in {8, 16}
    BY <1>1, TreeFacts
  <2>2. f[m].len # 0
    BY <1>2, <2>1 DEF Payload
  <2>. QED  BY <1>2, <1>3, <2>2 DEF Descends, Containers
<1>5. \A i \in DOMAIN f : /\ f[i].nm # "ilst"
                          /\ f[i].nm \in Containers \cup {"meta"} => f[i].head = 8
  BY <1>1 DEF ShortHeads, BoxHead
<1>6. ASSUME NEW i \in DOMAIN f, LastUdta(f, i)
      PROVE  Enclosing(f, i) = {m}
  <2>1. PICK u \in DOMAIN f : /\ f[u].nm = "udta" /\ Enclosing(f, u) = {m}
                              /\ \A j \in DOMAIN f : j > u => f[j].nm \notin {"udta", "meta"}
    BY <1>2, <1>6 DEF LastUdta
  <2>2. i \in Nat /\ u \in Nat
    BY Places
  <2>3. ~ (i > u) /\ ~ (u > i)
    BY <1>6, <2>1 DEF LastUdta
  <2>4. i = u
    BY <2>2, <2>3
  <2>. QED  BY <2>1, <2>4
<1>7. \/ \E u \in DOMAIN f : LastUdta(f, u)
      \/ \A i \in DOMAIN f : f[i].nm \notin {"udta", "meta"}
  BY <1>2 DEF LastUdta
<1>8. Sound(f, m)
  BY <1>2, <1>3, <1>4, <1>5, <1>6, <1>7 DEF Sound
<1>. QED
  BY <1>1, <1>8

\* The boxes of which something is noted lie in boxes that are entered.
LEMMA NoteworthyFacts ==
  ASSUME NEW f, IsFile(f), NEW m \in DOMAIN f, Sound(f, m), NEW i \in DOMAIN f,
         Noteworthy(f, i)
  PROVE  /\ f[i].len # 0 /\ f[i].head = 8
         /\ \A j \in Enclosing(f, i) : f[j].nm \in Containers \cup {"meta"}
<1>1. CASE f[i].nm = "moov"
  BY <1>1 DEF Sound, Containers
<1>2. CASE LastUdta(f, i)
  BY <1>2 DEF Sound, Containers, LastUdta
<1>3. CASE TablesSound(f) /\ f[i].nm \in {"stco", "co64"}
  <2>1. f[i].len # 0 /\ f[i].head = 8
    BY <1>3 DEF TablesSound, BoxHead
  <2>2. \A j \in DOMAIN f : j \in Enclosing(f, i) => f[j].nm \in Containers \cup {"meta"}
    BY <1>3 DEF TablesSound
  <2>. QED  BY <2>1, <2>2 DEF Enclosing
<1>. QED
  BY <1>1, <1>2, <1>3 DEF Noteworthy

\* The outermost box on the stack is moov.
LEMMA OuterIsMoov ==
  ASSUME ShapeInv, HeadersInv, InStep, NEW m \in DOMAIN file, Sound(file, m),
         Readable(file), ShortHeads(file), ~ faulty, ~ h.parsedone, h.mp4error = "ok",
         Len(stack) >= 2
  PROVE  stack[1].box = file[m]
<1> DEFINE n == Len(stack)
<1>1. n \in Nat /\ 1 \in 1 .. n - 1 /\ 1 \in 1 .. n /\ n # 1
  <2>1. stack \in Seq(Frame)
    BY DEF ShapeInv, TypeInv
  <2>2. n \in Nat
    BY <2>1
  <2> HIDE DEF n
  <2>3. n >= 2
    BY DEF n
  <2>. QED  BY <2>2, <2>3
<1>2. Entered(file, stack[1])
  BY <1>1 DEF HeadersInv
<1>3. PICK j \in DOMAIN file : stack[1].box = file[j] /\ Descends(file[j])
  BY <1>2 DEF Entered
<1>4. LevelOK(file, stack, 1, PlaceOf(stack, pc, pos, 1))
  BY <1>1 DEF InStep
<1>5. LevelOK(file, stack, 1, file[j].at)
  BY <1>1, <1>3, <1>4 DEF PlaceOf
<1>6. Around(file, stack, 1 - 1, file[j].at)
  BY <1>5 DEF LevelOK
<1>7. \A k \in DOMAIN file : ~ Within(file, k, file[j].at)
  BY <1>6 DEF Around
<1>8. Enclosing(file, j) = {}
  BY <1>7 DEF Enclosing, Within
<1>. QED
  BY <1>3, <1>8 DEF Sound

\* The offsets that stay when a container is noted.
SameOffsets(n, hh) ==
  /\ n.taglist_offset = hh.taglist_offset
  /\ n.noilst_offset = hh.noilst_offset /\ n.insert_delta = hh.insert_delta
  /\ n.stco_offset = hh.stco_offset /\ n.co64_offset = hh.co64_offset

\* They do.
LEMMA WithBaseKeeps ==
  ASSUME NEW hh \in Handle, NEW b, NEW off \in Nat, NEW l \in Levels
  PROVE  SameOffsets(WithBase(hh, b, off, l), hh)
<1> DEFINE n == WithBase(hh, b, off, l)
<1>1. CASE hh.taglist_offset # 0
  BY <1>1 DEF WithBase, SameOffsets
<1>2. CASE hh.taglist_offset = 0
  <2> DEFINE bl == [hh.base_lengths EXCEPT ![l] = b.len]
             bo == [hh.base_offsets EXCEPT ![l] = off - BoxHead]
  <2>1. n = [hh EXCEPT !.base_lengths = bl, !.base_offsets = bo]
    BY <1>2 DEF WithBase, Handle
  <2> HIDE DEF n, bl, bo
  <2>2. /\ n.taglist_offset = hh.taglist_offset
        /\ n.noilst_offset = hh.noilst_offset /\ n.insert_delta = hh.insert_delta
        /\ n.stco_offset = hh.stco_offset /\ n.co64_offset = hh.co64_offset
    BY <2>1 DEF Handle
  <2>. QED  BY <2>2 DEF n, SameOffsets
<1>. QED
  BY <1>1, <1>2

\* The header of a box: what the handle holds of the boxes in front of it stays, and
\* what is noted of it is right.
LEMMA HeaderNoted ==
  ASSUME ShapeInv, HeadersInv, InStep, NEW m \in DOMAIN file, Sound(file, m),
         Readable(file), ShortHeads(file), ~ faulty, ~ h.parsedone, h.mp4error = "ok",
         pc = "header", h.taglist_offset = 0,
         NEW i \in DOMAIN file, file[i].at = pos, Examined(file[i]), ~ Counts(file[i])
  PROVE  /\ h'.taglist_offset = 0 /\ NotedAt(file, h', i)
         /\ \A j \in DOMAIN file : file[j].at < pos /\ NotedAt(file, h, j) => NotedAt(file, h', j)
         /\ (\A j \in DOMAIN file : file[j].nm # "udta") /\ NoUdtaNoted(file, h)
              => NoUdtaNoted(file, h')
<1> DEFINE b   == file[i]
           off == pos + b.head
           n   == Noted(h, b, off, Level)
           w   == WithBase(n, b, off, Level)
           s   == Len(stack)
<1>1. /\ IsFile(file) /\ pos \in Nat /\ h \in Handle /\ stack \in Seq(Frame) /\ stack # <<>>
      /\ Len(stack) <= LevelMax
  BY DEF ShapeInv, TypeInv, Parsing
<1>2. s \in Nat /\ s >= 1 /\ Level = s - 1
  BY <1>1, StackFacts
<1>3. Level \in Levels /\ 0 \in Levels
  <2>1. LevelMax \in Nat \ {0}
    BY ParserAssumption
  <2> HIDE DEF s
  <2>. QED  BY <1>1, <1>2, <2>1 DEF Levels, s
<1>4. b \in Cell /\ b.nm # "ilst" /\ b.head \in {8, 16} /\ off \in Nat
  <2>1. b \in Cell
    BY <1>1, Places
  <2>. QED  BY <1>1, <2>1 DEF Cell, Sound
<1>5. b \in Header
  BY <1>4 DEF Cell, Header
<1>6. n \in Handle
  <2>1. off >= BoxHead /\ (b.nm = "ilst" => Payload(b) \in Nat)
    BY <1>1, <1>4 DEF BoxHead
  <2>2. h \in Handle /\ off \in Nat
    BY <1>1, <1>4
  <2> HIDE DEF b, off
  <2>. QED  BY <1>3, <1>5, <2>1, <2>2, NotedFacts
<1>7. /\ n.base_lengths = h.base_lengths /\ n.base_offsets = h.base_offsets
      /\ n.taglist_offset = 0
      /\ n.stco_offset = (IF b.nm = "stco" THEN off ELSE h.stco_offset)
      /\ n.co64_offset = (IF b.nm = "co64" THEN off ELSE h.co64_offset)
      /\ b.nm # "udta" => n.after_ilst_offset = h.after_ilst_offset
      /\ n.noilst_offset = (IF b.nm = "udta" THEN off - BoxHead ELSE h.noilst_offset)
      /\ b.nm \notin {"meta", "udta"} => n.insert_delta = h.insert_delta
      /\ b.nm = "udta" => n.after_ilst_offset = off /\ n.insert_delta = BoxHead
  <2>1. h \in Handle /\ off \in Nat
    BY <1>1, <1>4
  <2> HIDE DEF b, off
  <2>. QED  BY <1>4, <2>1, NotedNotes DEF SameEnd
<1> HIDE DEF n
<1>8. /\ h'.taglist_offset = 0
      /\ h'.stco_offset = n.stco_offset /\ h'.co64_offset = n.co64_offset
      /\ h'.noilst_offset = n.noilst_offset /\ h'.insert_delta = n.insert_delta
      /\ h'.after_ilst_offset = n.after_ilst_offset
  <2>1. SameEnd(h', n)
    BY DEF Examined, n
  <2>2. CASE SameNotes(h', n)
    BY <1>7, <2>1, <2>2 DEF SameNotes, SameEnd
  <2>3. CASE SameNotes(h', w)
    <3>1. /\ w.taglist_offset = n.taglist_offset
          /\ w.noilst_offset = n.noilst_offset /\ w.insert_delta = n.insert_delta
          /\ w.stco_offset = n.stco_offset /\ w.co64_offset = n.co64_offset
      <4>1. off \in Nat /\ Level \in Levels
        BY <1>3, <1>4
      <4> DEFINE l == Level
      <4>2. l \in Levels /\ off \in Nat /\ n \in Handle
        BY <1>6, <4>1
      <4>3. w = WithBase(n, b, off, l)
        OBVIOUS
      <4> HIDE DEF b, off, w, l
      <4>4. SameOffsets(WithBase(n, b, off, l), n)
        BY <4>2, WithBaseKeeps
      <4>. QED  BY <4>3, <4>4 DEF SameOffsets
    <3> HIDE DEF w
    <3>. QED  BY <1>7, <2>1, <2>3, <3>1 DEF SameNotes, SameEnd
  <2>. QED  BY <2>2, <2>3 DEF Examined, n
\* The parent at level 0.
<1>9. /\ i = m => /\ h'.base_offsets[0] = off - BoxHead /\ h'.base_lengths[0] = b.len
      /\ i # m => /\ h'.base_offsets[0] = h.base_offsets[0]
                  /\ h'.base_lengths[0] = h.base_lengths[0]
  <2>1. ~ Descends(b) => SameNotes(h', n)
    BY DEF Examined, n
  <2>2. Descends(b) => SameNotes(h', w)
    BY DEF Examined, n
  <2>3. /\ w.base_offsets[0] = (IF 0 = Level THEN off - BoxHead ELSE n.base_offsets[0])
        /\ w.base_lengths[0] = (IF 0 = Level THEN b.len ELSE n.base_lengths[0])
    <3>1. off \in Nat /\ Level \in Levels /\ 0 \in Levels /\ b \in Header
      BY <1>3, <1>4, <1>5
    <3> HIDE DEF b, off
    <3>. QED  BY <1>6, <1>7, <3>1, WithBaseOffsets, WithBaseLengths
  <2>4. LevelOK(file, stack, s, pos)
    <3>1. s \in 1 .. s
      BY <1>2
    <3>. QED  BY <3>1 DEF InStep, PlaceOf
  <2>5. Around(file, stack, s - 1, pos)
    BY <2>4 DEF LevelOK
  <2>6. i = m => Level = 0
    <3>1. ASSUME i = m, s >= 2
          PROVE  FALSE
      <4>1. stack[1].box = file[m]
        BY <3>1, OuterIsMoov
      <4>2. 1 \in 1 .. s - 1
        BY <1>2, <3>1
      <4>3. Within(file, m, pos)
        BY <2>5, <4>1, <4>2 DEF Around
      <4>. QED  BY <3>1, <4>3, <1>1 DEF Within
    <3> HIDE DEF s
    <3>. QED  BY <1>2, <3>1
  <2>7. Descends(b) /\ Level = 0 => i = m
    <3>1. ASSUME Level = 0
          PROVE  Enclosing(file, i) = {}
      <4>1. s - 1 = 0
        BY <1>2, <3>1
      <4>2. Around(file, stack, 0, pos)
        BY <2>5, <4>1
      <4>3. \A j \in DOMAIN file : ~ Within(file, j, pos)
        BY <4>2 DEF Around
      <4>. QED  BY <4>3 DEF Enclosing, Within
    <3>. QED  BY <3>1 DEF Sound
  <2>8. i = m => Descends(b)
    BY DEF Sound
  <2> HIDE DEF w, b, off
  <2>. QED  BY <1>7, <2>1, <2>2, <2>3, <2>6, <2>7, <2>8 DEF SameNotes
<1>10. Noteworthy(file, i) => off = b.at + 8
  BY <1>1, NoteworthyFacts
<1>11. NotedAt(file, h', i)
  <2>1. b.nm = "moov" => h'.base_offsets[0] = b.at /\ h'.base_lengths[0] = b.len
    <3>1. b.nm = "moov" => i = m /\ Noteworthy(file, i)
      BY DEF Sound, Noteworthy
    <3>2. b.nm = "moov" => off - BoxHead = b.at
      <4>1. b.at \in Nat
        BY <1>1
      <4> HIDE DEF b, off
      <4>. QED  BY <1>10, <3>1, <4>1 DEF BoxHead
    <3>. QED  BY <1>9, <3>1, <3>2
  <2>2. LastUdta(file, i) => /\ h'.noilst_offset = b.at /\ h'.after_ilst_offset = b.at + 8
                             /\ h'.insert_delta = 8
    <3>1. LastUdta(file, i) => b.nm = "udta" /\ Noteworthy(file, i)
      BY DEF LastUdta, Noteworthy
    <3>2. b.at \in Nat
      BY <1>1
    <3> HIDE DEF b, off
    <3>3. Noteworthy(file, i) => off - BoxHead = b.at /\ off = b.at + 8
      BY <1>10, <3>2 DEF BoxHead
    <3>. QED  BY <1>7, <1>8, <3>1, <3>3 DEF BoxHead
  <2>3. /\ TablesSound(file) /\ b.nm = "stco" => h'.stco_offset = b.at + 8
        /\ TablesSound(file) /\ b.nm = "co64" => h'.co64_offset = b.at + 8
    <3>1. TablesSound(file) /\ b.nm \in {"stco", "co64"} => Noteworthy(file, i)
      BY DEF Noteworthy
    <3> HIDE DEF b, off
    <3>. QED  BY <1>7, <1>8, <1>10, <3>1
  <2>. QED  BY <2>1, <2>2, <2>3 DEF NotedAt
<1>12. ASSUME NEW j \in DOMAIN file, file[j].at < pos, NotedAt(file, h, j)
       PROVE  NotedAt(file, h', j)
  <2>1. j # i /\ i \in Nat /\ j \in Nat
    BY <1>1, <1>12, Places
  <2>2. i > j
    <3>1. i < j => After(file[i]) <= file[j].at
      BY <1>1, Places
    <3>2. file[i].at < After(file[i]) /\ file[j].at \in Nat /\ After(file[i]) \in Nat
      <4>1. file[i] \in Cell /\ file[j] \in Cell
        BY <1>1, Places
      <4>. QED  BY <4>1, CellFacts
    <3>. QED  BY <1>1, <1>12, <2>1, <3>1, <3>2
  <2>3. file[j].nm = "moov" => h'.base_offsets[0] = file[j].at /\ h'.base_lengths[0] = file[j].len
    <3>1. file[j].nm = "moov" => j = m
      BY DEF Sound
    <3>. QED  BY <1>9, <1>12, <2>1, <3>1 DEF NotedAt
  <2>4. LastUdta(file, j) => /\ h'.noilst_offset = file[j].at /\ h'.after_ilst_offset = file[j].at + 8
                             /\ h'.insert_delta = 8
    <3>1. LastUdta(file, j) => b.nm \notin {"udta", "meta"}
      BY <2>2 DEF LastUdta
    <3> HIDE DEF b, off
    <3>. QED  BY <1>7, <1>8, <1>12, <3>1 DEF NotedAt
  <2>5. /\ TablesSound(file) /\ file[j].nm = "stco" => h'.stco_offset = file[j].at + 8
        /\ TablesSound(file) /\ file[j].nm = "co64" => h'.co64_offset = file[j].at + 8
    <3>1. TablesSound(file) /\ file[j].nm \in {"stco", "co64"} => b.nm # file[j].nm
      BY <2>1 DEF TablesSound
    <3> HIDE DEF b, off
    <3>. QED  BY <1>7, <1>8, <1>12, <3>1 DEF NotedAt
  <2>. QED  BY <2>3, <2>4, <2>5 DEF NotedAt
<1>13. (\A j \in DOMAIN file : file[j].nm # "udta") /\ NoUdtaNoted(file, h)
         => NoUdtaNoted(file, h')
  <2>1. (\A j \in DOMAIN file : file[j].nm # "udta") => b.nm \notin {"udta", "meta"}
    BY DEF Sound, LastUdta
  <2> HIDE DEF b, off
  <2>. QED  BY <1>7, <1>8, <2>1 DEF NoUdtaNoted
<1>. QED
  BY <1>8, <1>11, <1>12, <1>13

\* Only box i starts in front of the end of its first bytes and not in front of it.
LEMMA NextPlace ==
  ASSUME NEW f, IsFile(f), NEW i \in DOMAIN f, NEW p, p <= After(f[i]), p \in Nat,
         NEW j \in DOMAIN f, f[j].at < p
  PROVE  f[j].at < f[i].at \/ j = i
<1>1. f[i] \in Cell /\ f[j] \in Cell
  BY Places
<1>2. f[i].at \in Nat /\ f[j].at \in Nat /\ After(f[i]) \in Nat
  BY <1>1, CellFacts
<1>3. f[i].at <= f[j].at => f[j].at < After(f[i])
  BY <1>2
<1>. QED
  BY <1>2, <1>3, OneCell

\* A header is read: what is noted stays right.
LEMMA ReadHeaderNoted ==
  ASSUME ShapeInv, HeadersInv, InStep, NoteInv, ReadHeader
  PROVE  NoteInv'
<1> DEFINE s == Len(stack)
<1>1. /\ IsFile(file) /\ pos \in Nat /\ pc = "header" /\ h \in Handle
      /\ stack \in Seq(Frame) /\ stack # <<>>
  BY DEF ShapeInv, TypeInv, ReadHeader, Parsing
<1>2. file' = file /\ pos' \in Nat /\ pos' >= pos /\ (faulty' = faulty \/ faulty' = TRUE)
  BY HeaderSteps
<1>3. SUFFICES ASSUME ~ faulty', h'.mp4error = "ok", InsertSound(file)
               PROVE  /\ h'.taglist_offset = 0 /\ ~ h'.checkforfree
                      /\ h'.parsedone => pc' = "done"
                      /\ pc' = "done" => \A i \in DOMAIN file : file[i].at < pos'
                      /\ \A i \in DOMAIN file : file[i].at < pos' => NotedAt(file, h', i)
                      /\ (\A i \in DOMAIN file : file[i].nm # "udta") => NoUdtaNoted(file, h')
  BY <1>2 DEF NoteInv
<1>4. ~ faulty
  BY <1>2, <1>3
<1>5. h.mp4error = "ok"
  BY <1>3, HeaderSteps DEF HeaderFails, HeaderBreaks, HeaderEnters, HeaderSkips, HeaderMisses
<1>6. /\ h.taglist_offset = 0 /\ ~ h.checkforfree /\ ~ h.parsedone
      /\ \A i \in DOMAIN file : file[i].at < pos => NotedAt(file, h, i)
      /\ (\A i \in DOMAIN file : file[i].nm # "udta") => NoUdtaNoted(file, h)
  BY <1>1, <1>3, <1>4, <1>5 DEF NoteInv
<1>7. Readable(file) /\ ShortHeads(file)
  BY <1>1, <1>3, SoundFacts
<1>8. PICK m \in DOMAIN file : Sound(file, m)
  BY <1>1, <1>3, SoundFacts
<1>9. s \in Nat /\ s >= 1
  BY <1>1, StackFacts
<1>10. \A k \in DOMAIN file : ~ Counts(file[k])
  BY <1>6, <1>8 DEF Counts, Sound
<1>11. LevelOK(file, stack, s, pos)
  <2>1. s \in 1 .. s
    BY <1>9
  <2>. QED  BY <1>1, <1>3, <1>4, <1>5, <1>6, <1>7, <2>1 DEF InStep, PlaceOf
\* moov is left before the end of the file, or of what is known of it.
<1>12. ASSUME s >= 2
       PROVE  pos < EndOf(file, file[m]) /\ file[m].at < pos
  <2>1. stack[1].box = file[m]
    BY <1>4, <1>5, <1>6, <1>7, <1>8, <1>12, OuterIsMoov
  <2>2. 1 \in 1 .. s - 1
    BY <1>9, <1>12
  <2>. QED  BY <1>11, <2>1, <2>2 DEF LevelOK, Around, Within
<1>13. /\ \A k \in DOMAIN file : EndOf(file, file[k]) \in Nat /\ EndOf(file, file[k]) <= FileSz(file)
       /\ FileSz(file) \in Nat
  BY <1>1, <1>7, TreeFacts
<1>14. CASE pos = FileSz(file) /\ pos' = pos /\ HeaderFails
  <2>1. s = 1
    <3>1. s >= 2 => FALSE
      BY <1>1, <1>12, <1>13, <1>14
    <3> HIDE DEF s
    <3>. QED  BY <1>9, <3>1
  <2>2. pc' = "done" /\ h'.checkforfree = FALSE
    BY <1>14, <2>1 DEF HeaderFails, Left
  <2>3. \A k \in DOMAIN file : file[k].at < pos'
    <3>1. ASSUME NEW k \in DOMAIN file
          PROVE  file[k].at < FileSz(file)
      <4>1. file[k] \in Cell /\ After(file[k]) <= FileSz(file)
        BY <1>1, Places
      <4>2. file[k].at \in Nat /\ After(file[k]) \in Nat /\ file[k].at < After(file[k])
        BY <4>1, CellFacts
      <4>. QED  BY <1>13, <4>1, <4>2
    <3>. QED  BY <1>14, <3>1
  <2>4. SameNotes(h', h) /\ SameEnd(h', h)
    <3>1. ~ (pos + BoxHead <= FileSz(file))
      BY <1>1, <1>14 DEF BoxHead
    <3>. QED  BY <3>1, HeaderNotes
  <2>. QED  BY <1>6, <1>14, <2>2, <2>3, <2>4 DEF SameNotes, SameEnd, NotedAt, NoUdtaNoted
<1>15. ASSUME NEW i \in DOMAIN file, file[i].at = pos, file[i].len = 0,
              HeaderBreaks(file[i])
       PROVE  /\ h'.taglist_offset = 0 /\ ~ h'.checkforfree
              /\ h'.parsedone => pc' = "done"
              /\ pc' = "done" => \A k \in DOMAIN file : file[k].at < pos'
              /\ \A k \in DOMAIN file : file[k].at < pos' => NotedAt(file, h', k)
              /\ (\A k \in DOMAIN file : file[k].nm # "udta") => NoUdtaNoted(file, h')
  <2>1. s = 1
    <3>1. ASSUME s >= 2
          PROVE  FALSE
      <4>1. m \in Enclosing(file, i)
        BY <1>12, <1>15, <3>1 DEF Enclosing
      <4>. QED  BY <1>8, <1>15, <4>1 DEF Sound
    <3> HIDE DEF s
    <3>. QED  BY <1>9, <3>1
  <2>2. pc' = "done" /\ h'.checkforfree = FALSE /\ pos' = pos + 8
    BY <1>15, <2>1 DEF HeaderBreaks, Left, BoxHead
  <2>3. \A k \in DOMAIN file : file[k].at <= pos
    <3>1. Len(file) \in Nat /\ DOMAIN file = 1 .. Len(file) /\ i = Len(file)
      BY <1>1, <1>7, <1>15, Places, ReadableFacts
    <3>2. ASSUME NEW k \in DOMAIN file, k < i
          PROVE  file[k].at <= pos
      <4>1. file[k] \in Cell /\ After(file[k]) <= file[i].at
        BY <1>1, <3>2, Places
      <4>2. file[k].at \in Nat /\ After(file[k]) \in Nat /\ file[k].at < After(file[k])
        BY <4>1, CellFacts
      <4>. QED  BY <1>1, <1>15, <4>1, <4>2
    <3>3. \A k \in DOMAIN file : k < i \/ k = i
      BY <3>1
    <3>. QED  BY <1>1, <1>15, <3>2, <3>3
  <2>4. \A k \in DOMAIN file : file[k].at \in Nat
    BY <1>1, <1>7, TreeFacts
  <2>5. SameNotes(h', h) /\ SameEnd(h', h)
    <3>1. \A b \in HeadersAt(file, pos) : b = file[i]
      BY <1>1, <1>15, HeaderOf
    <3>2. \A b \in HeadersAt(file, pos) : ~ Examined(b)
      BY <1>15, <3>1 DEF Examined
    <3>. QED  BY <3>2, HeaderNotes
  <2>6. NotedAt(file, h, i)
    <3>1. ~ Noteworthy(file, i)
      BY <1>1, <1>8, <1>15, NoteworthyFacts
    <3>. QED  BY <3>1 DEF NotedAt, Noteworthy
  <2>7. \A k \in DOMAIN file : NotedAt(file, h, k)
    <3>1. ASSUME NEW k \in DOMAIN file
          PROVE  NotedAt(file, h, k)
      <4>1. file[k].at < pos \/ file[k].at = file[i].at
        BY <1>1, <1>15, <2>3, <2>4
      <4>2. CASE file[k].at = file[i].at
        <5>1. k = i
          BY <1>1, <4>2, OnePlace
        <5>. QED  BY <2>6, <5>1
      <4>. QED  BY <1>6, <4>1, <4>2
    <3>. QED  BY <3>1
  <2>8. \A k \in DOMAIN file : file[k].at < pos'
    BY <1>1, <2>2, <2>3, <2>4
  <2>. QED  BY <1>6, <2>2, <2>5, <2>7, <2>8 DEF SameNotes, SameEnd, NotedAt, NoUdtaNoted
<1>16. ASSUME NEW i \in DOMAIN file, file[i].at = pos, HeaderEnters(file[i]) \/ HeaderSkips(file[i])
       PROVE  /\ h'.taglist_offset = 0 /\ ~ h'.checkforfree
              /\ h'.parsedone => pc' = "done"
              /\ pc' = "done" => \A k \in DOMAIN file : file[k].at < pos'
              /\ \A k \in DOMAIN file : file[k].at < pos' => NotedAt(file, h', k)
              /\ (\A k \in DOMAIN file : file[k].nm # "udta") => NoUdtaNoted(file, h')
  <2> DEFINE b == file[i]
  <2>0. b \in Cell
    BY <1>1, Places
  <2>1. /\ h'.parsedone = h.parsedone /\ ~ h'.checkforfree /\ pc' # "done"
    BY <1>10, <1>16 DEF HeaderEnters, HeaderSkips
  <2>2. pos' <= After(b)
    <3>1. CASE HeaderEnters(b)
      <4>1. Descends(b) /\ pos' = pos + b.head + Skip(b)
        BY <3>1 DEF HeaderEnters
      <4>2. pos' = After(b)
        BY <1>1, <1>16, <4>1, DescendsFacts
      <4>. QED  BY <1>2, <4>2
    <3>2. CASE HeaderSkips(b)
      <4>1. pos' = pos + b.head
        BY <3>2 DEF HeaderSkips
      <4>2. After(b) = b.at + b.head + b.body /\ b.body \in Nat /\ b.head \in Nat /\ b.at \in Nat
        BY <1>1, <1>7, TreeFacts
      <4>. QED  BY <1>16, <4>1, <4>2
    <3>. QED  BY <1>16, <3>1, <3>2
  <2>3. Examined(b)
    <3>1. Len(stack') >= s
      <4>1. b \in Header /\ Skip(b) \in Nat
        <5>1. b \in Header
          BY <2>0 DEF Cell, Header
        <5>. QED  BY <5>1, SkipFacts
      <4>2. ASSUME NEW skip \in Nat
            PROVE  At(b, skip) \in Seq(Frame) /\ Len(At(b, skip)) = s
        <5> HIDE DEF b
        <5>. QED  BY <1>1, <4>1, <4>2, AtFacts
      <4> DEFINE q == At(b, 0)
      <4>3. q \in Seq(Frame) /\ Len(q) = s
        BY <4>2
      <4> HIDE DEF q
      <4>4. \A c : Len(Append(q, c)) = s + 1
        BY <4>3
      <4> HIDE DEF b
      <4>5. stack' = At(b, Skip(b)) \/ stack' = q \/ \E c : stack' = Append(q, c)
        BY <1>16 DEF HeaderEnters, HeaderSkips, q, b
      <4>6. Len(stack') = s \/ Len(stack') = s + 1
        BY <4>1, <4>2, <4>3, <4>4, <4>5
      <4>. QED  BY <1>9, <4>6
    <3>2. stack' # Front(stack)
      <4>1. Len(Front(stack)) = s - 1
        BY <1>1, StackFacts
      <4>. QED  BY <1>9, <3>1, <4>1
    <3>3. \A c \in HeadersAt(file, pos) : c = b
      BY <1>1, <1>16, HeaderOf
    <3>. QED  BY <3>2, <3>3, HeaderNotes
  <2>4. /\ h'.taglist_offset = 0 /\ NotedAt(file, h', i)
        /\ \A j \in DOMAIN file : file[j].at < pos /\ NotedAt(file, h, j) => NotedAt(file, h', j)
        /\ (\A j \in DOMAIN file : file[j].nm # "udta") /\ NoUdtaNoted(file, h)
             => NoUdtaNoted(file, h')
    BY <1>1, <1>4, <1>5, <1>6, <1>7, <1>8, <1>10, <1>16, <2>3, HeaderNoted
  <2>5. \A j \in DOMAIN file : file[j].at < pos' => file[j].at < pos \/ j = i
    BY <1>1, <1>2, <1>16, <2>2, NextPlace
  <2>6. \A j \in DOMAIN file : file[j].at < pos' => NotedAt(file, h', j)
    BY <1>6, <2>4, <2>5
  <2>. QED  BY <1>6, <2>1, <2>4, <2>6
<1>17. \/ pos = FileSz(file) /\ pos' = pos /\ HeaderFails
       \/ \E i \in DOMAIN file :
            /\ file[i].at = pos
            /\ \/ HeaderEnters(file[i]) \/ HeaderSkips(file[i])
               \/ /\ HeaderBreaks(file[i]) /\ h'.parsedone = TRUE
                  /\ file[i].len = 0 \/ Counts(file[i])
  BY <1>3, <1>6, <1>7, ProperHeader
<1>. QED
  BY <1>10, <1>14, <1>15, <1>16, <1>17

\* Nothing is noted of what is skipped.
LEMMA PassedFacts ==
  ASSUME NEW f, IsFile(f), Readable(f), NEW m \in DOMAIN f, Sound(f, m),
         NEW i \in DOMAIN f, f[i].len # 0, ~ Descends(f[i]),
         NEW j \in DOMAIN f, f[j].at < EndOf(f, f[i]), ~ (f[j].at < f[i].at), j # i
  PROVE  ~ Noteworthy(f, j)
<1>1. SUFFICES ASSUME Noteworthy(f, j)
               PROVE  FALSE
  OBVIOUS
<1>2. /\ f[i].at \in Nat /\ f[j].at \in Nat /\ f[i].head \in Nat /\ f[i].body \in Nat
      /\ After(f[i]) = f[i].at + f[i].head + f[i].body
  BY TreeFacts
<1>3. f[i].at # f[j].at
  BY OnePlace
<1>4. i \in Enclosing(f, j)
  BY <1>2, <1>3 DEF Enclosing
<1>5. f[i].nm \in Containers \cup {"meta"}
  BY <1>1, <1>4, NoteworthyFacts
<1>6. Payload(f[i]) = 0
  BY <1>5 DEF Descends
<1>7. EndOf(f, f[i]) = f[i].at + f[i].head
  BY <1>2, <1>6, ReadableFacts
<1>8. f[j].at < After(f[i])
  BY <1>2, <1>7
<1>. QED
  BY <1>2, <1>8, OneCell

\* A box is done: what is noted stays right.
LEMMA FinishBoxNoted ==
  ASSUME ShapeInv, ListInv, HeadersInv, OuterInv, InStep, NoteInv, FinishBox
  PROVE  NoteInv'
<1> DEFINE b == Top.box
           n == Len(stack)
<1>1. /\ IsFile(file) /\ pos \in Nat /\ pc = "body" /\ h \in Handle
      /\ stack \in Seq(Frame) /\ stack # <<>>
  BY DEF ShapeInv, TypeInv, FinishBox, Parsing
<1>2. file' = file
  BY BodySteps
<1>3. SUFFICES ASSUME ~ faulty', h'.mp4error = "ok", InsertSound(file)
               PROVE  /\ h'.taglist_offset = 0 /\ ~ h'.checkforfree
                      /\ h'.parsedone => pc' = "done"
                      /\ pc' = "done" => \A i \in DOMAIN file : file[i].at < pos'
                      /\ \A i \in DOMAIN file : file[i].at < pos' => NotedAt(file, h', i)
                      /\ (\A i \in DOMAIN file : file[i].nm # "udta") => NoUdtaNoted(file, h')
  BY <1>2 DEF NoteInv
<1>4. ~ faulty
  <2>1. faulty' = faulty \/ faulty' = TRUE
    BY BodySteps
  <2>. QED  BY <1>3, <2>1
<1>5. Readable(file) /\ ShortHeads(file)
  BY <1>1, <1>3, SoundFacts
<1>6. PICK m \in DOMAIN file : Sound(file, m)
  BY <1>1, <1>3, SoundFacts
<1>7. ~ h.parsedone
  <2>1. BodyReads(b) \/ BodySkips(b) \/ BodyFails(b)
    BY BodySteps
  <2>2. CASE h.mp4error = "ok"
    BY <1>1, <1>3, <1>4, <2>2 DEF NoteInv
  <2>3. h'.mp4error = h.mp4error
    BY <1>3, <1>4, <2>1 DEF BodyReads, BodySkips, BodyFails, Accounted
  <2>. QED  BY <1>3, <2>2, <2>3
<1>8. /\ Accounted(b)
      /\ \/ Entered(file, Top) /\ AtBox(file, pos) /\ pos' = pos
         \/ \E i \in DOMAIN file :
              /\ b = file[i] /\ file[i].len # 0 /\ ~ Descends(file[i])
              /\ pos = file[i].at + file[i].head /\ pos' = EndOf(file, file[i])
  BY <1>3, <1>5, <1>7, ProperBody
<1>9. h.mp4error = "ok"
  BY <1>3, <1>8 DEF Accounted
<1>10. /\ h.taglist_offset = 0 /\ ~ h.checkforfree
       /\ \A i \in DOMAIN file : file[i].at < pos => NotedAt(file, h, i)
       /\ (\A i \in DOMAIN file : file[i].nm # "udta") => NoUdtaNoted(file, h)
  BY <1>1, <1>3, <1>4, <1>9 DEF NoteInv
<1>11. PICK i \in DOMAIN file : b = file[i]
  BY <1>8 DEF Entered
<1>12. ~ h'.checkforfree /\ ~ h'.parsedone
  BY <1>6, <1>7, <1>8, <1>10, <1>11 DEF Accounted, StillCounts, Sound
<1>13. pc' # "done"
  <2>1. n \in Nat /\ n >= 1 /\ Top = stack[n]
    BY <1>1, StackFacts
  <2>2. n = 1 => Top.boxlen = 0
    BY <1>1, <2>1 DEF OuterInv
  <2>. QED  BY <1>8, <2>2 DEF Accounted
\* Nothing is noted of what lies within a box that is skipped.
<1>14. \A j \in DOMAIN file : file[j].at < pos' => file[j].at < pos \/ ~ Noteworthy(file, j)
  <2>1. CASE pos' = pos
    BY <2>1
  <2>2. ASSUME NEW k \in DOMAIN file, b = file[k], file[k].len # 0, ~ Descends(file[k]),
               pos = file[k].at + file[k].head, pos' = EndOf(file, file[k]),
               NEW j \in DOMAIN file, file[j].at < pos'
        PROVE  file[j].at < pos \/ ~ Noteworthy(file, j)
    <3>1. file[k].at \in Nat /\ file[k].head \in {8, 16} /\ file[j].at \in Nat
      BY <1>1, <1>5, TreeFacts
    <3>2. file[k].at < pos
      BY <2>2, <3>1
    <3>3. CASE file[j].at < file[k].at
      BY <1>1, <2>2, <3>1, <3>2, <3>3
    <3>4. CASE ~ (file[j].at < file[k].at) /\ j # k
      BY <1>1, <1>5, <1>6, <2>2, <3>4, PassedFacts
    <3>. QED  BY <3>2, <3>3, <3>4
  <2>. QED  BY <1>8, <2>1, <2>2
<1>15. ASSUME ~ (b.nm = "moov" /\ h.noilst_offset = 0)
       PROVE  /\ \A j \in DOMAIN file : NotedAt(file, h, j) => NotedAt(file, h', j)
              /\ NoUdtaNoted(file, h) => NoUdtaNoted(file, h')
  <2>1. SameNotes(h', h) /\ SameEnd(h', h)
    BY <1>15, BodyNotes
  <2>. QED  BY <2>1 DEF SameNotes, SameEnd, NotedAt, NoUdtaNoted
\* The end of moov, when there was no udta box.
<1>16. ASSUME b.nm = "moov", h.noilst_offset = 0
       PROVE  /\ \A j \in DOMAIN file : file[j].at < pos /\ NotedAt(file, h, j) => NotedAt(file, h', j)
              /\ (\A j \in DOMAIN file : file[j].nm # "udta") /\ NoUdtaNoted(file, h)
                   => NoUdtaNoted(file, h')
  <2> DEFINE w == [h EXCEPT !.noilst_offset = pos]
  <2>1. SameNotes(h', w) /\ h'.after_ilst_offset = pos
    BY <1>16, BodyNotes
  <2>2. /\ w.noilst_offset = pos /\ w.insert_delta = h.insert_delta
        /\ w.base_lengths = h.base_lengths /\ w.base_offsets = h.base_offsets
        /\ w.stco_offset = h.stco_offset /\ w.co64_offset = h.co64_offset
    BY <1>1 DEF Handle
  <2> HIDE DEF w
  <2>3. /\ h'.noilst_offset = pos /\ h'.insert_delta = h.insert_delta
        /\ h'.base_lengths = h.base_lengths /\ h'.base_offsets = h.base_offsets
        /\ h'.stco_offset = h.stco_offset /\ h'.co64_offset = h.co64_offset
    BY <2>1, <2>2 DEF SameNotes
  <2>4. i = m
    BY <1>6, <1>11, <1>16 DEF Sound
  <2>5. pos = EndOf(file, file[i])
    <3>1. Descends(file[i])
      BY <1>6, <2>4 DEF Sound
    <3>2. Entered(file, Top)
      BY <1>8, <1>11, <3>1
    <3>3. Top = stack[Len(stack)]
      BY <1>1, StackFacts
    <3>. QED  BY <1>1, <1>4, <1>5, <1>7, <1>9, <1>11, <3>2, <3>3 DEF InStep
  <2>6. ASSUME NEW j \in DOMAIN file, LastUdta(file, j), NotedAt(file, h, j)
        PROVE  FALSE
    <3>1. Enclosing(file, j) = {m}
      BY <1>6, <2>6 DEF Sound
    <3>2. file[m].at < file[j].at
      BY <3>1 DEF Enclosing
    <3>3. file[m].at \in Nat /\ file[j].at \in Nat
      BY <1>1, <1>5, TreeFacts
    <3>4. file[j].at # 0
      BY <3>2, <3>3
    <3>. QED  BY <1>16, <2>6, <3>4 DEF NotedAt
  <2>7. (\A j \in DOMAIN file : file[j].nm # "udta") /\ NoUdtaNoted(file, h) => NoUdtaNoted(file, h')
    <3>1. file[i].nm = "moov"
      BY <1>11, <1>16
    <3>. QED  BY <2>1, <2>3, <2>5, <3>1 DEF NoUdtaNoted
  <2>8. \A j \in DOMAIN file : NotedAt(file, h, j) => NotedAt(file, h', j)
    BY <2>3, <2>6 DEF NotedAt
  <2>. QED  BY <2>7, <2>8
<1>17. \A j \in DOMAIN file : file[j].at < pos' => NotedAt(file, h', j)
  <2>1. ASSUME NEW j \in DOMAIN file, ~ Noteworthy(file, j)
        PROVE  NotedAt(file, h', j)
    BY <2>1 DEF Noteworthy, NotedAt
  <2>. QED  BY <1>10, <1>14, <1>15, <1>16, <2>1
<1>18. h'.taglist_offset = 0
  <2> DEFINE w == [h EXCEPT !.noilst_offset = pos]
  <2>1. SameNotes(h', h) \/ SameNotes(h', w)
    BY BodyNotes
  <2>2. w.taglist_offset = h.taglist_offset
    BY <1>1 DEF Handle
  <2> HIDE DEF w
  <2>. QED  BY <1>10, <2>1, <2>2 DEF SameNotes
<1>. QED
  BY <1>10, <1>12, <1>13, <1>15, <1>16, <1>17, <1>18

\* Nothing is noted up to the end of the first box.
LEMMA StartNoted ==
  ASSUME IsFile(file'), h' = NewHandle, pc' = "header",
         file' # <<>> /\ Readable(file') /\ ~ faulty' =>
           pos' = EndOf(file', file'[1]) /\ file'[1].nm = "ftyp"
  PROVE  NoteInv'
<1>1. /\ NewHandle.taglist_offset = 0 /\ NewHandle.checkforfree = FALSE
      /\ NewHandle.parsedone = FALSE /\ NewHandle.insert_delta = 0
      /\ NewHandle.after_ilst_offset = 0 /\ NewHandle.noilst_offset = 0
  BY DEF NewHandle
<1>2. ASSUME InsertSound(file'), ~ faulty', NEW j \in DOMAIN file', file'[j].at < pos'
      PROVE  ~ Noteworthy(file', j)
  <2> DEFINE f == file'
  <2>1. Readable(f)
    BY <1>2, SoundFacts
  <2>2. PICK m \in DOMAIN f : Sound(f, m)
    BY <1>2, SoundFacts
  <2>3. 1 \in DOMAIN f /\ f # <<>> /\ f[1].at = 0 /\ f[1].len # 0
    <3>1. f # <<>>
      BY <1>2
    <3>. QED  BY <2>1, <3>1, Places, ReadableFacts
  <2>4. f[1].nm = "ftyp" /\ f[j].at < EndOf(f, f[1])
    BY <1>2, <2>1, <2>3
  <2>5. ~ Descends(f[1]) /\ ~ Noteworthy(f, 1)
    BY <2>4 DEF Descends, Containers, Noteworthy, LastUdta
  <2>6. ~ (f[j].at < f[1].at)
    <3>1. f[j].at \in Nat
      BY <2>1, TreeFacts
    <3>. QED  BY <2>3, <3>1
  <2> HIDE DEF f
  <2>7. j # 1 => ~ Noteworthy(f, j)
    BY <1>2, <2>1, <2>2, <2>3, <2>4, <2>5, <2>6, PassedFacts DEF f
  <2>. QED  BY <2>5, <2>7 DEF f
<1>3. InsertSound(file') /\ ~ faulty'
        => \A j \in DOMAIN file' : file'[j].at < pos' => NotedAt(file', h', j)
  BY <1>2 DEF Noteworthy, NotedAt
<1>4. NoUdtaNoted(file', h')
  BY <1>1 DEF NoUdtaNoted
<1>. QED
  BY <1>1, <1>3, <1>4 DEF NoteInv

\* What is noted is right after every step.
LEMMA NextNoted ==
  ShapeInv /\ BasesInv /\ ListInv /\ HeadersInv /\ OuterInv /\ InStep /\ NoteInv /\ [Next]_vars
    => NoteInv'
<1> SUFFICES ASSUME ShapeInv, BasesInv, ListInv, HeadersInv, OuterInv, InStep, NoteInv,
                    [Next]_vars
             PROVE  NoteInv'
  OBVIOUS
<1>1. CASE Repair \/ WriteTags
  <2>1. PICK f, p : /\ IsFile(f) /\ f[1].nm = "ftyp" /\ Again(f, p)
                    /\ Readable(f) => p = EndOf(f, f[1])
    BY <1>1, AgainStart
  <2>. QED  BY <2>1, StartNoted DEF Again
<1>2. ASSUME ReadFtyp \/ ReadBrands
      PROVE  NoteInv'
  <2>1. file' = file /\ IsFile(file) /\ h = NewHandle /\ pos \in Nat
    BY <1>2 DEF ReadFtyp, ReadBrands, ShapeInv, StartInv, TypeInv
  <2>2. \/ StartParse
        \/ \E e \in {"not_mp4", "out_of_memory"} : Refuse(e)
        \/ /\ pc = "ftyp" /\ pos' = pos + BoxHead /\ pc' = "brands" /\ h' = h
           /\ pos + BoxHead <= FileSz(file) /\ file[1].nm = "ftyp"
    BY <1>2 DEF ReadFtyp, ReadBrands
  <2>3. CASE StartParse
    <3>1. h' = NewHandle /\ pc' = "header"
      BY <2>1, <2>3 DEF StartParse
    <3>2. file # <<>> /\ Readable(file) /\ ~ faulty' =>
            pos' = EndOf(file, file[1]) /\ file[1].nm = "ftyp"
      BY <1>2, <2>3, StartFacts
    <3>. QED  BY <2>1, <3>1, <3>2, StartNoted
  <2>4. ASSUME NEW e \in {"not_mp4", "out_of_memory"}, Refuse(e)
        PROVE  NoteInv'
    <3>1. h' = [h EXCEPT !.mp4error = e]
      BY <2>4 DEF Refuse
    <3>2. h'.mp4error = e
      BY <2>1, <3>1 DEF NewHandle
    <3>3. e # "ok"
      BY <2>4
    <3>. QED  BY <3>2, <3>3 DEF NoteInv
  <2>5. CASE /\ pc = "ftyp" /\ pos' = pos + BoxHead /\ pc' = "brands" /\ h' = h
             /\ pos + BoxHead <= FileSz(file) /\ file[1].nm = "ftyp"
    <3>1. pos = 0 /\ pos' = 8
      BY <2>5 DEF ShapeInv, StartInv, BoxHead
    <3>2. ASSUME NEW j \in DOMAIN file, file[j].at < pos'
          PROVE  j = 1
      <4>1. file # <<>>
        BY <3>2
      <4>2. 1 \in DOMAIN file /\ file[1].at = 0 /\ file[1] \in Cell /\ file[j] \in Cell
        BY <2>1, <3>2, <4>1, Places
      <4>3. /\ After(file[1]) = file[1].at + Size(file[1]) /\ file[1].head >= 8
            /\ Size(file[1]) >= file[1].head /\ Size(file[1]) \in Nat /\ file[1].head \in Nat
            /\ file[j].at \in Nat
        BY <4>2, CellFacts
      <4>4. 8 <= After(file[1])
        BY <4>2, <4>3
      <4>5. file[j].at < file[1].at \/ j = 1
        BY <2>1, <3>1, <3>2, <4>2, <4>4, NextPlace
      <4>. QED  BY <4>2, <4>3, <4>5
    <3>3. \A j \in DOMAIN file : file[j].at < pos' => NotedAt(file, h', j)
      <4>1. ~ LastUdta(file, 1)
        BY <2>5 DEF LastUdta
      <4>2. NotedAt(file, h', 1)
        BY <2>5, <4>1 DEF NotedAt
      <4>. QED  BY <3>2, <4>2
    <3>4. /\ h'.taglist_offset = 0 /\ ~ h'.checkforfree /\ ~ h'.parsedone
          /\ NoUdtaNoted(file, h')
      BY <2>1, <2>5 DEF NewHandle, NoUdtaNoted
    <3>. QED  BY <2>1, <2>5, <3>3, <3>4 DEF NoteInv
  <2>. QED  BY <2>2, <2>3, <2>4, <2>5
<1>3. CASE ReadHeader
  BY <1>3, ReadHeaderNoted
<1>4. CASE FinishBox
  BY <1>4, FinishBoxNoted
<1>5. CASE UNCHANGED vars
  BY <1>5 DEF vars, NoteInv
<1>. QED
  BY <1>1, <1>2, <1>3, <1>4, <1>5 DEF Next, ParseStep

\* Nothing is noted yet.
LEMMA InitNoted == Init => NoteInv
<1> SUFFICES ASSUME Init
             PROVE  NoteInv
  OBVIOUS
<1>1. IsFile(file) /\ pos = 0 /\ pc = "ftyp" /\ h = NewHandle
  BY ParserAssumption DEF Init
<1>2. \A j \in DOMAIN file : ~ (file[j].at < pos)
  <2>1. \A j \in DOMAIN file : file[j].at \in Nat
    BY <1>1, Places, CellFacts
  <2>. QED  BY <1>1, <2>1
<1>. QED
  BY <1>1, <1>2 DEF NoteInv, NewHandle, NoUdtaNoted

-----------------------------------------------------------------------------
(* The bytes of cells that are joined.                                      *)

\* The cells of two sequences.
LEMMA JoinedCells ==
  ASSUME NEW x \in Seq(Cell), NEW y \in Seq(Cell)
  PROVE  /\ x \o y \in Seq(Cell) /\ Len(x \o y) = Len(x) + Len(y)
         /\ Len(x) \in Nat /\ Len(y) \in Nat
         /\ \A k \in 1 .. Len(x) : (x \o y)[k] = x[k]
         /\ \A k \in 1 .. Len(y) : (x \o y)[Len(x) + k] = y[k]
<1>1. x \o y \in Seq(Cell) /\ Len(x \o y) = Len(x) + Len(y) /\ Len(x) \in Nat /\ Len(y) \in Nat
  OBVIOUS
<1>2. \A k \in 1 .. Len(x) : (x \o y)[k] = x[k]
  OBVIOUS
<1>3. \A k \in 1 .. Len(y) : (x \o y)[Len(x) + k] = y[k]
  OBVIOUS
<1>. QED
  BY <1>1, <1>2, <1>3

\* The bytes in front of them.
LEMMA ReachJoined ==
  ASSUME NEW x \in Seq(Cell), NEW y \in Seq(Cell)
  PROVE  /\ \A k \in 0 .. Len(x) : Reach(x \o y, k) = Reach(x, k)
         /\ \A k \in 0 .. Len(y) : Reach(x \o y, Len(x) + k) = Extent(x) + Reach(y, k)
         /\ Extent(x \o y) = Extent(x) + Extent(y)
<1> DEFINE s == x \o y
           m == Len(x)
           n == Len(y)
           F(k) == Reach(s, k)
           G(k) == Reach(y, k)
           e == Extent(x)
           P == {k \in Nat : k <= n => F(m + k) = e + G(k)}
<1>1. /\ s \in Seq(Cell) /\ Len(s) = m + n /\ m \in Nat /\ n \in Nat /\ e \in Nat
      /\ \A k \in 1 .. m : s[k] = x[k]
      /\ \A k \in 1 .. n : s[m + k] = y[k]
  BY JoinedCells, ExtentType
<1>2. \A k \in 0 .. m : F(k) = Reach(x, k)
  <2>1. m <= Len(s) /\ m <= Len(x) /\ \A k \in 1 .. m : Size(s[k]) = Size(x[k])
    BY <1>1
  <2>2. s \in Seq(Cell) /\ m \in Nat
    BY <1>1
  <2> HIDE DEF s, m
  <2>3. \A k \in 0 .. m : Reach(s, k) = Reach(x, k)
    BY <2>1, <2>2, SameReach
  <2>. QED  BY <2>3
<1>3. /\ F(m) = e /\ G(0) = 0
  BY <1>1, <1>2, ReachStep DEF Extent
<1>4. /\ \A k \in 1 .. m + n : F(k) = F(k - 1) + Size(s[k])
      /\ \A k \in 1 .. n : G(k) = G(k - 1) + Size(y[k]) /\ Size(y[k]) \in Nat
      /\ \A k \in 0 .. n : G(k) \in Nat
  <2>1. \A k \in 1 .. n : Size(y[k]) \in Nat
    <3>1. \A k \in 1 .. n : y[k] \in Cell
      OBVIOUS
    <3>. QED  BY <3>1, CellFacts
  <2>. QED  BY <1>1, <2>1, ReachStep
<1> HIDE DEF s, F, G, e, m, n
<1>5. 0 \in P
  <2>1. m + 0 = m /\ e + 0 = e
    BY <1>1
  <2>. QED  BY <1>3, <2>1
<1>6. ASSUME NEW k \in Nat, k < n, k \in P
      PROVE  k + 1 \in P
  <2>1. F(m + k) = e + G(k)
    BY <1>6, <1>1
  <2>2. m + (k + 1) \in 1 .. m + n /\ (m + (k + 1)) - 1 = m + k /\ k + 1 \in 1 .. n /\ (k + 1) - 1 = k
        /\ k \in 0 .. n
    BY <1>1, <1>6
  <2>3. F(m + (k + 1)) = F(m + k) + Size(s[m + (k + 1)])
    BY <1>4, <2>2
  <2>4. G(k + 1) = G(k) + Size(y[k + 1])
    BY <1>4, <2>2
  <2>5. s[m + (k + 1)] = y[k + 1] /\ Size(y[k + 1]) \in Nat /\ G(k) \in Nat
    BY <1>1, <1>4, <2>2
  <2>6. F(m + (k + 1)) = e + G(k + 1)
    BY <1>1, <2>1, <2>3, <2>4, <2>5
  <2>. QED  BY <2>6
<1>7. \A k \in 0 .. n : F(m + k) = e + G(k)
  <2>1. \A k \in 0 .. n : k \in P
    <3> HIDE DEF P
    <3>. QED  BY <1>1, <1>5, <1>6, BoundedInduction
  <2>. QED  BY <2>1
<1>8. F(m + n) = e + G(n)
  BY <1>1, <1>7
<1>. QED
  BY <1>1, <1>2, <1>7, <1>8 DEF s, F, G, e, m, n, Extent

\* The cells in front of a place where a cell starts or the file ends: their number,
\* and their bytes.
LEMMA BeforePlace ==
  ASSUME NEW f, IsFile(f), NEW p, AtBox(f, p)
  PROVE  \E c \in 0 .. Len(f) :
           /\ Cardinality({i \in DOMAIN f : f[i].at < p}) = c
           /\ \A i \in DOMAIN f : f[i].at < p <=> i <= c
           /\ Reach(f, c) = p /\ p \in Nat
           /\ c # Len(f) => c + 1 \in DOMAIN f /\ f[c + 1].at = p
           /\ c = Len(f) => p = FileSz(f)
<1> DEFINE n == Len(f)
<1>1. /\ n \in Nat /\ DOMAIN f = 1 .. n /\ FileSz(f) \in Nat /\ f \in Seq(Cell)
      /\ \A i \in DOMAIN f : /\ f[i].at \in Nat /\ f[i].at < After(f[i]) /\ After(f[i]) \in Nat
                             /\ f[i].at = Reach(f, i - 1) /\ After(f[i]) = f[i].at + Size(f[i])
                             /\ After(f[i]) <= FileSz(f)
      /\ \A i, j \in DOMAIN f : i < j => After(f[i]) <= f[j].at
  <2>1. \A i \in DOMAIN f : /\ f[i].at \in Nat /\ f[i].at < After(f[i]) /\ After(f[i]) \in Nat
                            /\ After(f[i]) = f[i].at + Size(f[i])
    <3>1. ASSUME NEW i \in DOMAIN f
          PROVE  /\ f[i].at \in Nat /\ f[i].at < After(f[i]) /\ After(f[i]) \in Nat
                 /\ After(f[i]) = f[i].at + Size(f[i])
      <4>1. f[i] \in Cell
        BY Places
      <4>. QED  BY <4>1, CellFacts
    <3>. QED  BY <3>1
  <2>2. f \in Seq(Cell) /\ \A i \in DOMAIN f : f[i].at = Reach(f, i - 1)
    BY DEF IsFile
  <2>3. /\ n \in Nat /\ DOMAIN f = 1 .. n /\ FileSz(f) \in Nat
        /\ \A i \in DOMAIN f : After(f[i]) <= FileSz(f)
        /\ \A i, j \in DOMAIN f : i < j => After(f[i]) <= f[j].at
    BY Places
  <2>. QED  BY <2>1, <2>2, <2>3
<1>2. ASSUME NEW c \in 0 .. n, \A i \in DOMAIN f : f[i].at < p <=> i <= c
      PROVE  Cardinality({i \in DOMAIN f : f[i].at < p}) = c
  <2>1. {i \in DOMAIN f : f[i].at < p} = 1 .. c
    <3> HIDE DEF n
    <3>. QED  BY <1>1, <1>2
  <2>2. c \in Int /\ 1 \in Int /\ c >= 0
    BY <1>1
  <2>3. Cardinality(1 .. c) = IF 1 > c THEN 0 ELSE c - 1 + 1
    BY <2>2, FS_Interval
  <2>4. (IF 1 > c THEN 0 ELSE c - 1 + 1) = c
    BY <2>2
  <2>. QED  BY <2>1, <2>3, <2>4
<1>3. ASSUME p = FileSz(f)
      PROVE  \E c \in 0 .. n : /\ \A i \in DOMAIN f : f[i].at < p <=> i <= c
                               /\ Reach(f, c) = p /\ p \in Nat
                               /\ c # n => c + 1 \in DOMAIN f /\ f[c + 1].at = p
                               /\ c = n => p = FileSz(f)
  <2>1. \A i \in DOMAIN f : f[i].at < p <=> i <= n
    <3>1. ASSUME NEW i \in DOMAIN f
          PROVE  f[i].at < p /\ i <= n
      <4>1. /\ f[i].at \in Nat /\ After(f[i]) \in Nat /\ f[i].at < After(f[i])
            /\ After(f[i]) <= FileSz(f) /\ FileSz(f) \in Nat /\ i \in 1 .. n
        BY <1>1
      <4>. QED  BY <1>3, <4>1
    <3>. QED  BY <3>1
  <2>2. Reach(f, n) = p
    <3>1. CASE f = <<>>
      <4>1. n = 0 /\ FileSz(f) = 0
        BY <3>1 DEF FileSz
      <4>. QED  BY <1>1, <1>3, <4>1, ReachStep
    <3>2. CASE f # <<>>
      <4>1. n \in DOMAIN f /\ FileSz(f) = After(f[n])
        BY <3>2, Places
      <4>2. n \in 1 .. Len(f)
        BY <1>1, <4>1
      <4>3. Reach(f, n) = Reach(f, n - 1) + Size(f[n])
        BY <1>1, <4>2, ReachStep
      <4>. QED  BY <1>1, <1>3, <4>1, <4>3
    <3>. QED  BY <3>1, <3>2
  <2>3. n \in 0 .. n /\ p \in Nat
    BY <1>1, <1>3
  <2> HIDE DEF n
  <2>. QED  BY <1>3, <2>1, <2>2, <2>3
<1>4. ASSUME NEW j \in DOMAIN f, f[j].at = p
      PROVE  \E c \in 0 .. n : /\ \A i \in DOMAIN f : f[i].at < p <=> i <= c
                               /\ Reach(f, c) = p /\ p \in Nat
                               /\ c # n => c + 1 \in DOMAIN f /\ f[c + 1].at = p
                               /\ c = n => p = FileSz(f)
  <2> DEFINE c == j - 1
  <2>1. j \in 1 .. n /\ c \in 0 .. n /\ c # n /\ c + 1 = j
    BY <1>1
  <2>2. Reach(f, c) = p
    BY <1>1, <1>4
  <2>3. \A i \in DOMAIN f : f[i].at < p <=> i <= c
    <3>1. ASSUME NEW i \in DOMAIN f
          PROVE  f[i].at < p <=> i <= c
      <4>1. i \in 1 .. n /\ j \in Nat /\ i \in Nat
        BY <1>1
      <4>2. /\ f[i].at \in Nat /\ f[j].at \in Nat /\ After(f[i]) \in Nat /\ After(f[j]) \in Nat
            /\ f[i].at < After(f[i]) /\ f[j].at < After(f[j])
            /\ i < j => After(f[i]) <= f[j].at
            /\ j < i => After(f[j]) <= f[i].at
        BY <1>1
      <4>3. i < j => f[i].at < p
        BY <1>4, <4>2
      <4>4. j < i => ~ (f[i].at < p)
        BY <1>4, <4>2
      <4>5. i = j => ~ (f[i].at < p)
        BY <1>4, <4>2
      <4>. QED  BY <4>1, <4>3, <4>4, <4>5
    <3>. QED  BY <3>1
  <2>4. c + 1 \in DOMAIN f /\ f[c + 1].at = p /\ p \in Nat
    BY <1>1, <1>4, <2>1
  <2> HIDE DEF c, n
  <2>. QED  BY <2>1, <2>2, <2>3, <2>4
<1>5. p = FileSz(f) \/ \E j \in DOMAIN f : f[j].at = p
  BY DEF AtBox, Starts
<1>. QED
  BY <1>2, <1>3, <1>4, <1>5

\* More cells have more bytes.
LEMMA ReachMonotone ==
  ASSUME NEW x \in Seq(Cell), NEW i \in Nat, NEW j \in Nat, i <= j, j <= Len(x)
  PROVE  Reach(x, i) <= Reach(x, j) /\ Reach(x, i) \in Nat /\ Reach(x, j) \in Nat
<1> DEFINE F(k) == Reach(x, k)
           n == Len(x)
           P == {k \in Nat : i + k <= n => F(i) <= F(i + k)}
<1>1. /\ n \in Nat /\ \A k \in 0 .. n : F(k) \in Nat
      /\ \A k \in 1 .. n : F(k) = F(k - 1) + Size(x[k]) /\ Size(x[k]) \in Nat
  <2>1. \A k \in 1 .. n : Size(x[k]) \in Nat
    <3>1. \A k \in 1 .. n : x[k] \in Cell
      OBVIOUS
    <3>. QED  BY <3>1, CellFacts
  <2>. QED  BY <2>1, ReachStep
<1> HIDE DEF F, n
<1>2. i <= n /\ j <= n /\ i \in 0 .. n /\ j \in 0 .. n
  BY <1>1 DEF n
<1>3. 0 \in P
  <2>1. i + 0 = i /\ F(i) <= F(i)
    BY <1>1, <1>2
  <2>. QED  BY <2>1
<1>4. ASSUME NEW k \in Nat, k \in P
      PROVE  k + 1 \in P
  <2>1. SUFFICES ASSUME i + (k + 1) <= n
                 PROVE  F(i) <= F(i + (k + 1))
    OBVIOUS
  <2>2. i + k <= n /\ i + (k + 1) \in 1 .. n /\ (i + (k + 1)) - 1 = i + k /\ i + k \in 0 .. n
    BY <1>1, <1>2, <2>1
  <2>3. F(i) <= F(i + k)
    BY <1>4, <2>2
  <2>4. F(i + (k + 1)) = F(i + k) + Size(x[i + (k + 1)]) /\ Size(x[i + (k + 1)]) \in Nat
    BY <1>1, <2>2
  <2>5. F(i) \in Nat /\ F(i + k) \in Nat
    BY <1>1, <1>2, <2>2
  <2>. QED  BY <2>3, <2>4, <2>5
<1>5. \A k \in Nat : k \in P
  <2> HIDE DEF P
  <2>. QED  BY <1>3, <1>4, SetInduction
<1>6. j - i \in Nat /\ i + (j - i) = j
  OBVIOUS
<1>7. F(i) <= F(j)
  BY <1>2, <1>5, <1>6
<1>. QED
  BY <1>1, <1>2, <1>7 DEF F

-----------------------------------------------------------------------------
(* The boxes that are inserted.                                             *)

\* Their names, bytes and lengths.
LEMMA BoxesAre ==
  ASSUME NEW new \in NewTags
  PROVE  LET s == InsertedBoxes(new)
             t == Len(new)
             e == Extent(new)
             all == 69 + e + FreeSpaceSz
         IN /\ s \in Seq(Cell) /\ t \in Nat /\ Len(s) = t + 5 /\ e \in Nat /\ FreeSpaceSz \in Nat
            /\ s[1].nm = "udta" /\ s[2].nm = "meta" /\ s[3].nm = "hdlr" /\ s[4].nm = "ilst"
            /\ s[t + 5].nm = "free"
            /\ s[1].len = all /\ s[2].len = all - 8 /\ s[3].len = 33 /\ s[4].len = 8 + e
            /\ s[t + 5].len = 8 + FreeSpaceSz
            /\ Reach(s, 0) = 0 /\ Reach(s, 1) = 8 /\ Reach(s, 2) = 20 /\ Reach(s, 3) = 53
            /\ Reach(s, 4) = 61 /\ Reach(s, t + 4) = 61 + e /\ Reach(s, t + 5) = all
            /\ Extent(s) = all
            /\ \A k \in 1 .. t : s[4 + k].nm = "tag" /\ s[4 + k].len = Size(s[4 + k])
<1> DEFINE len  == (BoxHead + MetaSz + HdlrSz + BoxHead) + Extent(new) + (BoxHead + FreeSpaceSz)
           Leaf(nm, body) == [nm |-> nm, at |-> 0, len |-> BoxHead + body + Extent(<<>>),
                              head |-> BoxHead, body |-> body, id |-> 0, entry |-> 0]
           c1 == [Leaf("udta", 0) EXCEPT !.len = len]
           c2 == [Leaf("meta", MetaSz - BoxHead) EXCEPT !.len = len - BoxHead]
           c3 == Leaf("hdlr", HdlrSz - BoxHead)
           c4 == [Leaf("ilst", 0) EXCEPT
                    !.len = len - BoxHead - MetaSz - HdlrSz - (BoxHead + FreeSpaceSz)]
           c5 == Leaf("free", FreeSpaceSz)
           w  == <<c1>> \o <<c2>> \o <<c3>> \o <<c4>>
           x  == w \o new
           s  == x \o <<c5>>
           e  == Extent(new)
           t  == Len(new)
           fs == FreeSpaceSz
<1>1. /\ new \in Seq(Cell) /\ t \in Nat
      /\ \A i \in 1 .. t : new[i].nm = "tag" /\ new[i].len = Size(new[i])
  <2>1. /\ new \in Seq(Cell)
        /\ \A i \in DOMAIN new : new[i].nm = "tag" /\ new[i].len = Size(new[i])
    BY ParserAssumption DEF AreTags
  <2>. QED  BY <2>1
<1>2. e \in Nat /\ fs \in Nat /\ Extent(<<>>) = 0
  BY <1>1, ExtentType, EmptyExtent, ParserAssumption
<1>3. len = 69 + e + fs
  BY <1>2 DEF BoxHead, MetaSz, HdlrSz
<1>4. InsertedBoxes(new) = s
  <2>1. \A nm, body : Box(nm, body, <<>>) = <<Leaf(nm, body)>>
    BY DEF Box
  <2>2. \A nm, body : <<Leaf(nm, body)>>[1] = Leaf(nm, body)
    OBVIOUS
  <2> HIDE DEF Leaf
  <2>. QED  BY <2>1, <2>2 DEF InsertedBoxes
<1> HIDE DEF e, fs
<1>5. c1 \in Cell /\ c1.nm = "udta" /\ c1.len = 69 + e + fs /\ Size(c1) = 8
  <2>1. len \in Int
    BY <1>2, <1>3
  <2> HIDE DEF len
  <2>. QED  BY <1>2, <1>3, <2>1 DEF Cell, Containers, Names, BoxHead, Size
<1>6. c2 \in Cell /\ c2.nm = "meta" /\ c2.len = 69 + e + fs - 8 /\ Size(c2) = 12
  <2> DEFINE v == len - BoxHead
             c == Leaf("meta", MetaSz - BoxHead)
  <2>1. v = 69 + e + fs - 8 /\ v \in Int
    BY <1>2, <1>3 DEF BoxHead
  <2>2. c \in Cell /\ c.nm = "meta" /\ c.head = 8 /\ c.body = 4
    BY <1>2 DEF Cell, Containers, Names, BoxHead, MetaSz
  <2> HIDE DEF v, c
  <2>3. /\ [c EXCEPT !.len = v] \in Cell /\ [c EXCEPT !.len = v].nm = "meta"
        /\ [c EXCEPT !.len = v].len = v /\ Size([c EXCEPT !.len = v]) = 12
    BY <2>1, <2>2 DEF Cell, Size
  <2>. QED  BY <2>1, <2>3 DEF c, v
<1>7. c3 \in Cell /\ c3.nm = "hdlr" /\ c3.len = 33 /\ Size(c3) = 33
  BY <1>2 DEF Cell, Containers, Names, BoxHead, HdlrSz, Size
<1>8. c4 \in Cell /\ c4.nm = "ilst" /\ c4.len = 8 + e /\ Size(c4) = 8
  <2> DEFINE v == len - BoxHead - MetaSz - HdlrSz - (BoxHead + FreeSpaceSz)
             c == Leaf("ilst", 0)
  <2>1. v = 8 + e /\ v \in Int
    BY <1>2, <1>3 DEF BoxHead, MetaSz, HdlrSz, fs
  <2>2. c \in Cell /\ c.nm = "ilst" /\ c.head = 8 /\ c.body = 0
    BY <1>2 DEF Cell, Containers, Names, BoxHead
  <2> HIDE DEF v, c
  <2>3. /\ [c EXCEPT !.len = v] \in Cell /\ [c EXCEPT !.len = v].nm = "ilst"
        /\ [c EXCEPT !.len = v].len = v /\ Size([c EXCEPT !.len = v]) = 8
    BY <2>1, <2>2 DEF Cell, Size
  <2>. QED  BY <2>1, <2>3 DEF c, v
<1>9. c5 \in Cell /\ c5.nm = "free" /\ c5.len = 8 + fs /\ Size(c5) = 8 + fs
  BY <1>2 DEF Cell, Containers, Names, BoxHead, Size, fs
<1> HIDE DEF c1, c2, c3, c4, c5, len
\* The first four boxes.
<1>10. /\ w \in Seq(Cell) /\ Len(w) = 4
       /\ w[1] = c1 /\ w[2] = c2 /\ w[3] = c3 /\ w[4] = c4
  BY <1>5, <1>6, <1>7, <1>8
<1> HIDE DEF w
<1>11. /\ Reach(w, 0) = 0 /\ Reach(w, 1) = 8 /\ Reach(w, 2) = 20 /\ Reach(w, 3) = 53
       /\ Reach(w, 4) = 61
  <2>1. \A k \in 1 .. 4 : Reach(w, k) = Reach(w, k - 1) + Size(w[k])
    BY <1>10, ReachStep
  <2>2. Reach(w, 0) = 0
    BY <1>10, ReachStep
  <2>3. Reach(w, 1) = 8
    <3>1. Reach(w, 1) = Reach(w, 1 - 1) + Size(w[1])
      BY <2>1
    <3>. QED  BY <1>5, <1>10, <2>2, <3>1
  <2>4. Reach(w, 2) = 20
    <3>1. Reach(w, 2) = Reach(w, 2 - 1) + Size(w[2])
      BY <2>1
    <3>. QED  BY <1>6, <1>10, <2>3, <3>1
  <2>5. Reach(w, 3) = 53
    <3>1. Reach(w, 3) = Reach(w, 3 - 1) + Size(w[3])
      BY <2>1
    <3>. QED  BY <1>7, <1>10, <2>4, <3>1
  <2>6. Reach(w, 4) = 61
    <3>1. Reach(w, 4) = Reach(w, 4 - 1) + Size(w[4])
      BY <2>1
    <3>. QED  BY <1>8, <1>10, <2>5, <3>1
  <2>. QED  BY <2>2, <2>3, <2>4, <2>5, <2>6
<1>12. /\ x \in Seq(Cell) /\ Len(x) = 4 + t
       /\ x[1] = c1 /\ x[2] = c2 /\ x[3] = c3 /\ x[4] = c4
       /\ \A k \in 1 .. t : x[4 + k] = new[k]
       /\ \A k \in 0 .. 4 : Reach(x, k) = Reach(w, k)
       /\ Extent(x) = 61 + e
  <2>1. Extent(w) = 61
    BY <1>10, <1>11 DEF Extent
  <2>2. /\ x \in Seq(Cell) /\ Len(x) = Len(w) + Len(new)
        /\ \A k \in 1 .. Len(w) : x[k] = w[k]
        /\ \A k \in 1 .. Len(new) : x[Len(w) + k] = new[k]
    BY <1>1, <1>10, JoinedCells
  <2>3. (\A k \in 0 .. Len(w) : Reach(x, k) = Reach(w, k)) /\ Extent(x) = Extent(w) + Extent(new)
    BY <1>1, <1>10, ReachJoined
  <2> HIDE DEF x
  <2>4. x[1] = c1 /\ x[2] = c2 /\ x[3] = c3 /\ x[4] = c4
    BY <1>10, <2>2
  <2>. QED  BY <1>10, <2>1, <2>2, <2>3, <2>4 DEF e, t
<1> HIDE DEF x
<1>13. <<c5>> \in Seq(Cell) /\ Len(<<c5>>) = 1 /\ <<c5>>[1] = c5 /\ Extent(<<c5>>) = 8 + fs
  <2>1. <<c5>> \in Seq(Cell) /\ Len(<<c5>>) = 1 /\ <<c5>>[1] = c5
    BY <1>9
  <2> DEFINE y == <<c5>>
  <2>2. y \in Seq(Cell) /\ Len(y) = 1 /\ y[1] = c5
    BY <2>1
  <2> HIDE DEF y
  <2>3. \A k \in 1 .. 1 : Reach(y, k) = Reach(y, k - 1) + Size(y[k])
    BY <2>2, ReachStep
  <2>4. Reach(y, 1) = Reach(y, 1 - 1) + Size(y[1]) /\ Reach(y, 0) = 0
    BY <2>2, <2>3, ReachStep
  <2>5. Reach(y, 1) = 8 + fs
    BY <1>2, <1>9, <2>2, <2>4
  <2>. QED  BY <2>1, <2>2, <2>5 DEF Extent, y
<1>14. /\ s \in Seq(Cell) /\ Len(s) = t + 5
       /\ \A k \in 1 .. 4 + t : s[k] = x[k]
       /\ s[t + 5] = c5
       /\ \A k \in 0 .. 4 + t : Reach(s, k) = Reach(x, k)
       /\ Extent(s) = 69 + e + fs
  <2> DEFINE y == <<c5>>
  <2>1. y \in Seq(Cell) /\ Len(y) = 1 /\ y[1] = c5 /\ Extent(y) = 8 + fs /\ s = x \o y
    BY <1>13
  <2> HIDE DEF y
  <2>2. /\ s \in Seq(Cell) /\ Len(s) = Len(x) + Len(y)
        /\ \A k \in 1 .. Len(x) : s[k] = x[k]
        /\ \A k \in 1 .. Len(y) : s[Len(x) + k] = y[k]
    BY <1>12, <2>1, JoinedCells
  <2>3. (\A k \in 0 .. Len(x) : Reach(s, k) = Reach(x, k)) /\ Extent(s) = Extent(x) + Extent(y)
    <3>1. /\ \A k \in 0 .. Len(x) : Reach(x \o y, k) = Reach(x, k)
          /\ Extent(x \o y) = Extent(x) + Extent(y)
      BY <1>12, <2>1, ReachJoined
    <3> HIDE DEF s
    <3>. QED  BY <2>1, <3>1
  <2>4. s[4 + t + 1] = c5 /\ 4 + t + 1 = t + 5
    <3>1. 1 \in 1 .. Len(y) /\ 4 + t + 1 = t + 5
      BY <1>1, <2>1
    <3>. QED  BY <1>12, <2>1, <2>2, <3>1
  <2> HIDE DEF s
  <2>5. Len(s) = t + 5 /\ Extent(s) = 69 + e + fs
    BY <1>1, <1>2, <1>12, <2>1, <2>2, <2>3
  <2>. QED  BY <1>12, <2>1, <2>2, <2>3, <2>4, <2>5
<1> HIDE DEF s
<1>15. s[1] = c1 /\ s[2] = c2 /\ s[3] = c3 /\ s[4] = c4
  <2>1. 1 \in 1 .. 4 + t /\ 2 \in 1 .. 4 + t /\ 3 \in 1 .. 4 + t /\ 4 \in 1 .. 4 + t
    BY <1>1
  <2>. QED  BY <1>12, <1>14, <2>1
<1>16. /\ Reach(s, 0) = 0 /\ Reach(s, 1) = 8 /\ Reach(s, 2) = 20 /\ Reach(s, 3) = 53
       /\ Reach(s, 4) = 61 /\ Reach(s, t + 4) = 61 + e /\ Reach(s, t + 5) = 69 + e + fs
  <2>1. /\ 0 \in 0 .. 4 + t /\ 1 \in 0 .. 4 + t /\ 2 \in 0 .. 4 + t /\ 3 \in 0 .. 4 + t
        /\ 4 \in 0 .. 4 + t /\ t + 4 \in 0 .. 4 + t /\ t + 4 = 4 + t
    BY <1>1
  <2>2. /\ Reach(x, 0) = 0 /\ Reach(x, 1) = 8 /\ Reach(x, 2) = 20 /\ Reach(x, 3) = 53
        /\ Reach(x, 4) = 61
    BY <1>11, <1>12
  <2>3. Reach(x, t + 4) = 61 + e
    BY <1>12, <2>1 DEF Extent
  <2>4. Reach(s, t + 5) = 69 + e + fs
    BY <1>14 DEF Extent
  <2>. QED  BY <1>14, <2>1, <2>2, <2>3, <2>4
<1>17. \A k \in 1 .. t : s[4 + k].nm = "tag" /\ s[4 + k].len = Size(s[4 + k])
  <2>1. \A k \in 1 .. t : 4 + k \in 1 .. 4 + t
    BY <1>1
  <2>2. \A k \in 1 .. t : s[4 + k] = new[k]
    BY <1>12, <1>14, <2>1
  <2>. QED  BY <1>1, <2>2
<1>18. /\ s[1].nm = "udta" /\ s[2].nm = "meta" /\ s[3].nm = "hdlr" /\ s[4].nm = "ilst"
       /\ s[t + 5].nm = "free"
       /\ s[1].len = 69 + e + fs /\ s[2].len = 69 + e + fs - 8 /\ s[3].len = 33
       /\ s[4].len = 8 + e /\ s[t + 5].len = 8 + fs
  <2>1. s[1] = c1 /\ s[2] = c2 /\ s[3] = c3 /\ s[4] = c4 /\ s[t + 5] = c5
    BY <1>14, <1>15
  <2>2. s[1].nm = "udta" /\ s[1].len = 69 + e + fs
    BY <1>5, <2>1
  <2>3. s[2].nm = "meta" /\ s[2].len = 69 + e + fs - 8
    BY <1>6, <2>1
  <2>4. s[3].nm = "hdlr" /\ s[3].len = 33
    BY <1>7, <2>1
  <2>5. s[4].nm = "ilst" /\ s[4].len = 8 + e
    BY <1>8, <2>1
  <2>6. s[t + 5].nm = "free" /\ s[t + 5].len = 8 + fs
    BY <1>9, <2>1
  <2>. QED  BY <2>2, <2>3, <2>4, <2>5, <2>6
<1>19. InsertedBoxes(new) = s
  BY <1>4 DEF s
<1>20. /\ s \in Seq(Cell) /\ t \in Nat /\ Len(s) = t + 5 /\ e \in Nat /\ FreeSpaceSz \in Nat
       /\ Extent(s) = 69 + e + fs /\ fs = FreeSpaceSz /\ t = Len(new) /\ e = Extent(new)
  BY <1>1, <1>2, <1>14 DEF e, t, fs
<1> HIDE DEF t
<1>. QED
  BY <1>16, <1>17, <1>18, <1>19, <1>20, SMTT(30)

\* They nest: each ends where one of them ends, within those that reach over its start.
LEMMA BoxesNest ==
  ASSUME NEW new \in NewTags
  PROVE  LET s == InsertedBoxes(new)
             n == Len(s)
             T(k) == Reach(s, k - 1) + s[k].len
         IN /\ s \in Seq(Cell) /\ n \in Nat /\ n >= 5 /\ DOMAIN s = 1 .. n
            /\ s[1].nm = "udta" /\ s[2].nm = "meta"
            /\ Reach(s, 3) = 53 /\ T(1) = Extent(s) /\ T(2) = Extent(s) /\ T(3) = 53
            /\ Extent(s) > 53
            /\ \A k \in 1 .. n : /\ s[k].nm \in {"udta", "meta", "hdlr", "ilst", "tag", "free"}
                                 /\ s[k].nm = "ilst" <=> k = 4
                                 /\ s[k].len # 0 /\ T(k) \in Nat
                                 /\ \E j \in k .. n : T(k) = Reach(s, j)
            /\ \A j, k \in 1 .. n : j < k /\ Reach(s, k - 1) < T(j) => T(k) <= T(j)
<1> DEFINE s == InsertedBoxes(new)
           t == Len(new)
           e == Extent(new)
           n == Len(s)
           D == 69 + e + FreeSpaceSz
           T(k) == Reach(s, k - 1) + s[k].len
<1>1. /\ s \in Seq(Cell) /\ t \in Nat /\ n = t + 5 /\ e \in Nat /\ FreeSpaceSz \in Nat
      /\ s[1].nm = "udta" /\ s[2].nm = "meta" /\ s[3].nm = "hdlr" /\ s[4].nm = "ilst"
      /\ s[t + 5].nm = "free"
      /\ s[1].len = D /\ s[2].len = D - 8 /\ s[3].len = 33 /\ s[4].len = 8 + e
      /\ s[t + 5].len = 8 + FreeSpaceSz
      /\ Extent(s) = D
      /\ \A k \in 1 .. t : s[4 + k].nm = "tag" /\ s[4 + k].len = Size(s[4 + k])
  BY BoxesAre
<1>2. /\ Reach(s, 0) = 0 /\ Reach(s, 1) = 8 /\ Reach(s, 2) = 20 /\ Reach(s, 3) = 53
      /\ Reach(s, 4) = 61 /\ Reach(s, t + 4) = 61 + e /\ Reach(s, t + 5) = D
  BY BoxesAre
<1>3. /\ \A k \in 1 .. n : /\ Reach(s, k) = Reach(s, k - 1) + Size(s[k])
                           /\ Size(s[k]) \in Nat /\ Size(s[k]) > 0
      /\ \A k \in 0 .. n : Reach(s, k) \in Nat
  <2>1. \A k \in 1 .. n : Size(s[k]) \in Nat /\ Size(s[k]) > 0
    <3>1. \A k \in 1 .. n : s[k] \in Cell
      BY <1>1
    <3>2. \A c \in Cell : Size(c) \in Nat /\ Size(c) > 0
      <4>1. ASSUME NEW c \in Cell
            PROVE  Size(c) \in Nat /\ Size(c) > 0
        <5>1. Size(c) \in Nat /\ Size(c) >= c.head /\ c.head >= 8 /\ c.head \in Nat
          BY CellFacts
        <5>. QED  BY <5>1
      <4>. QED  BY <4>1
    <3>. QED  BY <3>1, <3>2
  <2>. QED  BY <1>1, <2>1, ReachStep
<1>4. ASSUME NEW i \in 0 .. n, NEW j \in 0 .. n, i <= j
      PROVE  Reach(s, i) <= Reach(s, j)
  <2>1. i \in Nat /\ j \in Nat /\ j <= Len(s)
    BY <1>1, <1>4
  <2> HIDE DEF s
  <2>. QED  BY <1>1, <1>4, <2>1, ReachMonotone
<1>5. n \in Nat /\ n >= 5 /\ D \in Nat /\ D > 53 /\ D >= 69 + e /\ D - 8 # 0 /\ D # 0
  BY <1>1
<1> HIDE DEF s, t, e, D, n
<1> DEFINE R(k) == Reach(s, k)
<1>6. /\ R(0) = 0 /\ R(1) = 8 /\ R(2) = 20 /\ R(3) = 53 /\ R(4) = 61 /\ R(t + 4) = 61 + e
      /\ R(t + 5) = D
  BY <1>2
<1>7. \A k \in 1 .. n : /\ R(k) = R(k - 1) + Size(s[k]) /\ R(k - 1) \in Nat /\ R(k) \in Nat
                        /\ Size(s[k]) \in Nat /\ Size(s[k]) > 0
  <2>1. \A k \in 1 .. n : k - 1 \in 0 .. n /\ k \in 0 .. n
    BY <1>5
  <2>. QED  BY <1>3, <2>1
<1>8. \A i, j \in 0 .. n : i <= j => R(i) <= R(j)
  BY <1>4
<1>9. \A k : T(k) = R(k - 1) + s[k].len
  OBVIOUS
<1> HIDE DEF R, T
<1>10. T(1) = D /\ T(2) = D /\ T(3) = 53 /\ T(4) = 61 + e /\ T(t + 5) = D
  <2>1. T(1) = R(1 - 1) + s[1].len /\ T(2) = R(2 - 1) + s[2].len
        /\ T(3) = R(3 - 1) + s[3].len /\ T(4) = R(4 - 1) + s[4].len
    BY <1>9
  <2>2. T(1) = D /\ T(2) = D
    BY <1>1, <1>5, <1>6, <2>1
  <2>3. T(3) = 53 /\ T(4) = 61 + e
    BY <1>1, <1>5, <1>6, <2>1
  <2>4. T(t + 5) = D
    <3>1. T(t + 5) = R((t + 5) - 1) + s[t + 5].len
      BY <1>9
    <3>2. (t + 5) - 1 = t + 4
      BY <1>1
    <3>. QED  BY <1>1, <1>6, <3>1, <3>2 DEF D
  <2>. QED  BY <2>2, <2>3, <2>4
<1>11. \A i \in 1 .. t : T(4 + i) = R(4 + i)
  <2>1. ASSUME NEW i \in 1 .. t
        PROVE  T(4 + i) = R(4 + i)
    <3>1. 4 + i \in 1 .. n
      BY <1>1
    <3> DEFINE k == 4 + i
    <3>2. k \in 1 .. n /\ s[k].len = Size(s[k])
      BY <1>1, <3>1
    <3> HIDE DEF k
    <3>3. T(k) = R(k)
      BY <1>7, <1>9, <3>2
    <3>. QED  BY <3>3 DEF k
  <2>. QED  BY <2>1
\* The kinds of places.
<1>12. \A k \in 1 .. n : k \in {1, 2, 3, 4, t + 5} \/ \E i \in 1 .. t : k = 4 + i
  <2>1. ASSUME NEW k \in 1 .. n, k \notin {1, 2, 3, 4, t + 5}
        PROVE  \E i \in 1 .. t : k = 4 + i
    <3>1. k - 4 \in 1 .. t /\ k = 4 + (k - 4)
      BY <1>1, <2>1
    <3>. QED  BY <3>1
  <2>. QED  BY <2>1
<1>13. ASSUME NEW k \in 1 .. n
       PROVE  /\ s[k].nm \in {"udta", "meta", "hdlr", "ilst", "tag", "free"}
              /\ s[k].nm = "ilst" <=> k = 4
              /\ s[k].len # 0 /\ T(k) \in Nat
              /\ \E j \in k .. n : T(k) = R(j)
              /\ T(k) <= D
  <2>1. 1 \in 1 .. n /\ n \in k .. n /\ R(n) = D /\ n = t + 5 /\ k \in k .. n /\ k \in 0 .. n /\ n \in 0 .. n
        /\ k <= n
    <3>1. n = t + 5 /\ n \in Nat /\ n >= 5
      BY <1>1, <1>5
    <3>2. R(n) = D
      BY <1>6, <3>1
    <3>3. 1 \in 1 .. n /\ n \in k .. n /\ k \in k .. n /\ k \in 0 .. n /\ n \in 0 .. n /\ k <= n
      BY <3>1
    <3>. QED  BY <3>1, <3>2, <3>3
  <2>2. CASE k \in {1, 2}
    <3>1. T(k) = D /\ D \in Nat /\ D # 0 /\ D <= D
      BY <1>5, <1>10, <2>2
    <3>2. s[k].nm \in {"udta", "meta"} /\ s[k].len # 0 /\ k # 4
      BY <1>1, <1>5, <2>2
    <3>3. \E j \in k .. n : T(k) = R(j)
      BY <2>1, <3>1
    <3>. QED  BY <3>1, <3>2, <3>3
  <2>3. CASE k = 3
    <3>1. T(k) = 53 /\ R(k) = 53 /\ s[k].nm = "hdlr" /\ s[k].len = 33
      BY <1>1, <1>6, <1>10, <2>3
    <3>2. 53 <= D /\ 53 \in Nat
      BY <1>5
    <3>. QED  BY <2>1, <2>3, <3>1, <3>2
  <2>4. CASE k = 4
    <3>0. n = t + 5 /\ t \in Nat /\ e \in Nat /\ D \in Nat /\ D >= 69 + e
      BY <1>1, <1>5
    <3>1. t + 4 \in 4 .. n
      BY <3>0
    <3>2. 8 + e # 0 /\ 61 + e \in Nat /\ 61 + e <= D
      BY <3>0
    <3>3. T(k) = 61 + e /\ R(t + 4) = 61 + e
      BY <1>6, <1>10, <2>4
    <3>4. s[k].nm = "ilst" /\ s[k].len = 8 + e
      BY <1>1, <2>4
    <3>. QED  BY <2>4, <3>1, <3>2, <3>3, <3>4
  <2>5. CASE k = t + 5
    <3>1. 8 + FreeSpaceSz # 0 /\ t + 5 # 4
      BY <1>1
    <3>. QED  BY <1>1, <1>5, <1>10, <2>1, <2>5, <3>1
  <2>6. CASE \E i \in 1 .. t : k = 4 + i
    <3>1. PICK i \in 1 .. t : k = 4 + i
      BY <2>6
    <3>2. s[k].nm = "tag" /\ s[k].len = Size(s[k]) /\ T(k) = R(k)
      BY <1>1, <1>11, <3>1
    <3>3. k # 4
      BY <1>1, <3>1
    <3>4. R(k) <= R(n)
      BY <1>8, <2>1
    <3>. QED  BY <1>7, <2>1, <3>2, <3>3, <3>4
  <2>. QED  BY <1>12, <2>2, <2>3, <2>4, <2>5, <2>6
<1>14. ASSUME NEW j \in 1 .. n, NEW k \in 1 .. n, j < k, R(k - 1) < T(j)
       PROVE  T(k) <= T(j)
  <2>1. /\ j \in 0 .. n /\ k - 1 \in 0 .. n /\ j <= k - 1 /\ k <= n /\ j # t + 5
    BY <1>1, <1>14
  <2>2. R(j) <= R(k - 1) /\ R(j) \in Nat /\ R(k - 1) \in Nat
    BY <1>7, <1>8, <2>1
  <2>3. T(j) # R(j)
    BY <1>14, <2>2
  <2>4. CASE j \in {1, 2}
    BY <1>10, <1>13, <2>4
  <2>5. CASE j = 4
    <3>1. 4 < k
      BY <1>14, <2>5
    <3>2. k # t + 5
      <4>1. SUFFICES ASSUME k = t + 5
                     PROVE  FALSE
        OBVIOUS
      <4>2. k - 1 = t + 4
        BY <1>1, <4>1
      <4>. QED  BY <1>1, <1>6, <1>10, <1>14, <2>5, <4>2
    <3>3. PICK i \in 1 .. t : k = 4 + i
      BY <1>12, <3>1, <3>2
    <3>4. T(k) = R(k)
      BY <1>11, <3>3
    <3>5. R(k) <= R(t + 4)
      <4>1. k \in 0 .. n /\ t + 4 \in 0 .. n /\ k <= t + 4
        BY <1>1, <3>3
      <4>. QED  BY <1>8, <4>1
    <3>. QED  BY <1>6, <1>10, <2>5, <3>4, <3>5
  <2>6. CASE j = 3 \/ \E i \in 1 .. t : j = 4 + i
    <3>1. T(j) = R(j)
      BY <1>6, <1>10, <1>11, <2>6
    <3>. QED  BY <2>3, <3>1
  <2>. QED  BY <1>12, <2>1, <2>4, <2>5, <2>6
<1>15. s[1].nm = "udta" /\ s[2].nm = "meta" /\ R(3) = 53 /\ T(1) = Extent(s) /\ T(2) = Extent(s)
       /\ T(3) = 53 /\ Extent(s) > 53
  BY <1>1, <1>5, <1>6, <1>10
<1>16. DOMAIN s = 1 .. n
  BY <1>1 DEF n
<1>. QED
  BY <1>1, <1>5, <1>13, <1>14, <1>15, <1>16 DEF s, n, R, T

-----------------------------------------------------------------------------
(* Where the boxes go: between p and q, what lies between goes.             *)

\* The boxes in front, other than moov, end there at the latest; moov goes on.
Cut(f, m, p, q) ==
  /\ AtBox(f, p) /\ AtBox(f, q) /\ p \in Nat /\ q \in Nat /\ p <= q
  /\ f[m].at < p /\ q <= EndOf(f, f[m])
  /\ \A i \in DOMAIN f :
       /\ f[i].at < p => /\ f[i].len # 0 /\ After(f[i]) <= p
                         /\ i # m => EndOf(f, f[i]) <= p
       /\ p <= f[i].at /\ f[i].at < q => f[i].nm = "udta"

\* In front of the last udta box, the header of which goes.
LEMMA CutAtUdta ==
  ASSUME NEW f, IsFile(f), Readable(f), NEW m \in DOMAIN f, Sound(f, m),
         NEW u \in DOMAIN f, LastUdta(f, u)
  PROVE  Cut(f, m, f[u].at, f[u].at + 8)
<1> DEFINE p == f[u].at
           q == f[u].at + 8
<1>1. Enclosing(f, u) = {m} /\ f[u].nm = "udta" /\ f[u].head = 8
  BY DEF Sound, LastUdta, Containers
<1>2. f[m].at < p /\ p < EndOf(f, f[m])
  BY <1>1 DEF Enclosing
<1>3. /\ \A i \in DOMAIN f : /\ f[i].at \in Nat /\ After(f[i]) \in Nat /\ EndOf(f, f[i]) \in Nat
                             /\ EndOf(f, f[i]) >= After(f[i]) /\ f[i].at < After(f[i])
      /\ After(f[u]) = q
  <2>1. \A i \in DOMAIN f : /\ f[i].at \in Nat /\ After(f[i]) \in Nat /\ EndOf(f, f[i]) \in Nat
                            /\ EndOf(f, f[i]) >= After(f[i])
    BY TreeFacts
  <2>2. \A i \in DOMAIN f : f[i].at < After(f[i])
    <3>1. ASSUME NEW i \in DOMAIN f
          PROVE  f[i].at < After(f[i])
      <4>1. f[i] \in Cell
        BY Places
      <4>. QED  BY <4>1, CellFacts
    <3>. QED  BY <3>1
  <2>3. f[u].body = 0
    BY <1>1 DEF IsFile, Containers
  <2>4. After(f[u]) = f[u].at + f[u].head + f[u].body
    BY TreeFacts
  <2>. QED  BY <1>1, <2>1, <2>2, <2>3, <2>4
<1>4. AtBox(f, p) /\ AtBox(f, q)
  <2>1. AtBox(f, q)
    BY <1>3, ReadableFacts
  <2>. QED  BY <2>1 DEF AtBox, Starts
<1>5. q <= EndOf(f, f[m])
  <2>1. Within(f, m, f[u].at)
    BY <1>2 DEF Within
  <2>2. EndOf(f, f[u]) <= EndOf(f, f[m])
    BY <2>1, TreeFacts
  <2>. QED  BY <1>3, <2>2
<1>6. ASSUME NEW i \in DOMAIN f, f[i].at < p
      PROVE  /\ f[i].len # 0 /\ After(f[i]) <= p
             /\ i # m => EndOf(f, f[i]) <= p
  <2>1. i # u /\ i \in Nat /\ u \in Nat /\ i \in DOMAIN f /\ u \in DOMAIN f
    <3>1. i \in Nat /\ u \in Nat
      BY Places
    <3>2. f[i].at # f[u].at
      BY <1>3, <1>6
    <3>. QED  BY <3>1, <3>2
  <2>2. i < u
    <3>1. u < i => After(f[u]) <= f[i].at
      BY Places
    <3>2. f[u].at < After(f[u]) /\ f[u].at \in Nat /\ f[i].at \in Nat /\ After(f[u]) \in Nat
      BY <1>3
    <3>. QED  BY <1>6, <2>1, <3>1, <3>2
  <2>3. After(f[i]) <= p
    BY <2>2, Places
  <2>4. f[i].len # 0
    <3>1. f[i].len = 0 => i = Len(f)
      BY ReadableFacts
    <3>2. u <= Len(f) /\ Len(f) \in Nat
      BY Places
    <3>. QED  BY <2>1, <2>2, <3>1, <3>2
  <2>5. i # m => EndOf(f, f[i]) <= p
    <3>1. i # m => ~ (p < EndOf(f, f[i]))
      BY <1>1, <1>6 DEF Enclosing
    <3>2. p \in Nat /\ EndOf(f, f[i]) \in Nat
      BY <1>3
    <3>. QED  BY <3>1, <3>2
  <2>. QED  BY <2>3, <2>4, <2>5
<1>7. ASSUME NEW i \in DOMAIN f, p <= f[i].at, f[i].at < q
      PROVE  f[i].nm = "udta"
  <2>1. u = i
    BY <1>3, <1>7, OneCell
  <2>. QED  BY <1>1, <2>1
<1>8. p \in Nat /\ q \in Nat /\ p <= q
  BY <1>3
<1>. QED
  BY <1>2, <1>4, <1>5, <1>6, <1>7, <1>8 DEF Cut

\* At the end of moov.
LEMMA CutAtEnd ==
  ASSUME NEW f, IsFile(f), Readable(f), NEW m \in DOMAIN f, Sound(f, m)
  PROVE  Cut(f, m, EndOf(f, f[m]), EndOf(f, f[m]))
<1> DEFINE p == EndOf(f, f[m])
<1>1. /\ \A i \in DOMAIN f : /\ f[i].at \in Nat /\ After(f[i]) \in Nat /\ EndOf(f, f[i]) \in Nat
                             /\ EndOf(f, f[i]) >= After(f[i]) /\ f[i].at < After(f[i])
  <2>1. \A i \in DOMAIN f : /\ f[i].at \in Nat /\ After(f[i]) \in Nat /\ EndOf(f, f[i]) \in Nat
                            /\ EndOf(f, f[i]) >= After(f[i])
    BY TreeFacts
  <2>2. \A i \in DOMAIN f : f[i].at < After(f[i])
    <3>1. ASSUME NEW i \in DOMAIN f
          PROVE  f[i].at < After(f[i])
      <4>1. f[i] \in Cell
        BY Places
      <4>. QED  BY <4>1, CellFacts
    <3>. QED  BY <3>1
  <2>. QED  BY <2>1, <2>2
<1>2. AtBox(f, p) /\ p \in Nat /\ p <= p
  BY <1>1, ReadableFacts DEF Sound
<1>3. f[m].at < p
  BY <1>1
<1>4. ASSUME NEW i \in DOMAIN f, f[i].at < p
      PROVE  f[i].len # 0 /\ EndOf(f, f[i]) <= p /\ After(f[i]) <= p
  <2>1. EndOf(f, f[i]) <= p
    <3>1. CASE i = m
      BY <1>1, <3>1
    <3>2. CASE f[m].at < f[i].at
      <4>1. Within(f, m, f[i].at)
        BY <1>4, <3>2 DEF Within
      <4>. QED  BY <4>1, TreeFacts
    <3>3. CASE f[i].at < f[m].at
      <4>1. i \notin Enclosing(f, m)
        BY DEF Sound
      <4>2. ~ (f[m].at < EndOf(f, f[i]))
        BY <3>3, <4>1 DEF Enclosing
      <4>. QED  BY <1>1, <1>3, <4>2
    <3>4. i = m \/ f[i].at # f[m].at
      BY OnePlace
    <3>. QED  BY <1>1, <3>1, <3>2, <3>3, <3>4
  <2>2. f[i].len # 0
    <3>1. SUFFICES ASSUME f[i].len = 0
                   PROVE  FALSE
      OBVIOUS
    <3>2. i = Len(f) /\ i # m
      BY <3>1, ReadableFacts DEF Sound
    <3>3. m < i
      <4>1. m \in 1 .. Len(f) /\ Len(f) \in Nat
        BY Places
      <4>. QED  BY <3>2, <4>1
    <3>4. After(f[m]) <= f[i].at
      BY <3>3, Places
    <3>5. m \in Enclosing(f, i)
      BY <1>1, <1>4, <3>4 DEF Enclosing
    <3>. QED  BY <3>1, <3>5 DEF Sound
  <2>. QED  BY <1>1, <2>1, <2>2
<1>5. \A i \in DOMAIN f : ~ (p <= f[i].at /\ f[i].at < p)
  BY <1>1
<1>. QED
  BY <1>2, <1>3, <1>4, <1>5 DEF Cut

\* What the parser notes is such a place, with the bytes that go, and it knows moov and
\* the tables.
LEMMA PlaceFound ==
  ASSUME ShapeInv, FaultInv, NoteInv, WriteTags, InsertSound(file)
  PROVE  \E m \in DOMAIN file :
           /\ Sound(file, m)
           /\ Cut(file, m, h.noilst_offset, h.after_ilst_offset)
           /\ h.insert_delta = h.after_ilst_offset - h.noilst_offset
           /\ h.base_offsets[0] = file[m].at /\ h.base_lengths[0] = file[m].len
           /\ TablesSound(file) =>
                \A i \in DOMAIN file :
                  /\ file[i].nm = "stco" => h.stco_offset = file[i].at + 8
                  /\ file[i].nm = "co64" => h.co64_offset = file[i].at + 8
<1>1. /\ IsFile(file) /\ h \in Handle /\ mode = "rw" /\ pc = "done" /\ h.mp4error = "ok"
      /\ h.noilst_offset # 0
  BY DEF ShapeInv, TypeInv, WriteTags, canwrite
<1>2. ~ faulty
  BY <1>1 DEF FaultInv
<1>3. /\ \A i \in DOMAIN file : NotedAt(file, h, i)
      /\ (\A i \in DOMAIN file : file[i].nm # "udta") => NoUdtaNoted(file, h)
  BY <1>1, <1>2 DEF NoteInv
<1>4. Readable(file)
  BY <1>1, SoundFacts
<1>5. PICK m \in DOMAIN file : Sound(file, m)
  BY <1>1, SoundFacts
<1>6. \A i \in DOMAIN file : file[i].at \in Nat /\ EndOf(file, file[i]) \in Nat
  BY <1>1, <1>4, TreeFacts
<1>7. /\ h.base_offsets[0] = file[m].at /\ h.base_lengths[0] = file[m].len
      /\ TablesSound(file) =>
           \A i \in DOMAIN file :
             /\ file[i].nm = "stco" => h.stco_offset = file[i].at + 8
             /\ file[i].nm = "co64" => h.co64_offset = file[i].at + 8
  BY <1>3, <1>5 DEF NotedAt, Sound
<1>8. /\ Cut(file, m, h.noilst_offset, h.after_ilst_offset)
      /\ h.insert_delta = h.after_ilst_offset - h.noilst_offset
  <2>1. CASE \E u \in DOMAIN file : LastUdta(file, u)
    <3>1. PICK u \in DOMAIN file : LastUdta(file, u)
      BY <2>1
    <3>2. /\ h.noilst_offset = file[u].at /\ h.after_ilst_offset = file[u].at + 8
          /\ h.insert_delta = 8
      BY <1>3, <3>1 DEF NotedAt
    <3>3. Cut(file, m, file[u].at, file[u].at + 8)
      BY <1>1, <1>4, <1>5, <3>1, CutAtUdta
    <3>. QED  BY <1>6, <3>2, <3>3
  <2>2. CASE \A i \in DOMAIN file : file[i].nm \notin {"udta", "meta"}
    <3>1. NoUdtaNoted(file, h)
      BY <1>3, <2>2
    <3>2. PICK k \in DOMAIN file : file[k].nm = "moov" /\ h.noilst_offset = EndOf(file, file[k])
      BY <1>1, <3>1 DEF NoUdtaNoted
    <3>3. k = m
      BY <1>5, <3>2 DEF Sound
    <3>4. Cut(file, m, EndOf(file, file[m]), EndOf(file, file[m]))
      BY <1>1, <1>4, <1>5, CutAtEnd
    <3>. QED  BY <1>6, <3>1, <3>2, <3>3, <3>4 DEF NoUdtaNoted
  <2>. QED  BY <1>5, <2>1, <2>2 DEF Sound
<1>. QED
  BY <1>5, <1>7, <1>8

-----------------------------------------------------------------------------
(* The cells of the file the boxes are inserted in.                         *)

\* The first a cells of x, those of s, and those of x behind the first b.
Spliced(x, s, a, b) == Placed(SubSeq(x, 1, a) \o s \o SubSeq(x, b + 1, Len(x)))

\* The cells behind the first b, which make up the whole with them.
LEMMA SuffixCells ==
  ASSUME NEW x \in Seq(Cell), NEW b \in 0 .. Len(x)
  PROVE  LET v == SubSeq(x, b + 1, Len(x)) IN
         /\ v \in Seq(Cell) /\ Len(v) = Len(x) - b
         /\ \A i \in 1 .. Len(x) - b : v[i] = x[b + i]
         /\ SubSeq(x, 1, b) \o v = x
<1> DEFINE l == Len(x)
           v == SubSeq(x, b + 1, l)
           w == SubSeq(x, 1, b)
<1>1. l \in Nat /\ b \in Nat /\ b <= l /\ b + 1 \in Int /\ l \in Int
  OBVIOUS
<1>2. /\ v \in Seq(Cell)
      /\ Len(v) = (IF b + 1 <= l THEN l - (b + 1) + 1 ELSE 0)
      /\ \A i \in 1 .. l - (b + 1) + 1 : v[i] = x[(b + 1) + i - 1]
  <2>1. \A i \in b + 1 .. l : x[i] \in Cell
    BY <1>1
  <2> HIDE DEF l
  <2>. QED  BY <1>1, <2>1, SubSeqProperties
<1>3. w \in Seq(Cell) /\ Len(w) = b /\ \A i \in 1 .. b : w[i] = x[i]
  BY <1>1
<1> HIDE DEF v, w
<1>4. /\ Len(v) = l - b
      /\ \A i \in 1 .. l - b : v[i] = x[b + i]
  <2> HIDE DEF l
  <2>1. (IF b + 1 <= l THEN l - (b + 1) + 1 ELSE 0) = l - b /\ l - (b + 1) + 1 = l - b
    BY <1>1
  <2>2. \A i \in 1 .. l - b : (b + 1) + i - 1 = b + i
    BY <1>1
  <2>3. Len(v) = l - b
    BY <1>2, <2>1
  <2>4. ASSUME NEW i \in 1 .. l - b
        PROVE  v[i] = x[b + i]
    <3>1. v[i] = x[(b + 1) + i - 1]
      BY <1>2, <2>1
    <3>. QED  BY <2>2, <3>1
  <2>. QED  BY <2>3, <2>4
<1>5. w \o v \in Seq(Cell) /\ Len(w \o v) = l
  <2>1. w \o v \in Seq(Cell) /\ Len(w \o v) = b + (l - b)
    BY <1>2, <1>3, <1>4, JoinedCells
  <2> HIDE DEF l
  <2>2. b + (l - b) = l
    BY <1>1
  <2>. QED  BY <2>1, <2>2
<1>6. ASSUME NEW i \in 1 .. l
      PROVE  (w \o v)[i] = x[i]
  <2>1. CASE i <= b
    <3>1. i \in 1 .. b
      BY <1>1, <2>1
    <3>2. (w \o v)[i] = w[i]
      BY <1>2, <1>3, <3>1, JoinedCells
    <3>. QED  BY <1>3, <3>1, <3>2
  <2>2. CASE i > b
    <3> DEFINE k == i - b
    <3>1. k \in 1 .. l - b /\ b + k = i
      BY <1>1, <2>2
    <3> HIDE DEF k, l
    <3>2. (w \o v)[Len(w) + k] = v[k]
      <4>1. k \in 1 .. Len(v)
        BY <1>4, <3>1
      <4>. QED  BY <1>2, <1>3, <4>1, JoinedCells
    <3>3. v[k] = x[b + k]
      BY <1>4, <3>1
    <3>4. Len(w) + k = i
      BY <1>3, <3>1
    <3>5. (w \o v)[i] = v[k] /\ v[k] = x[i]
      BY <3>1, <3>2, <3>3, <3>4
    <3>. QED  BY <3>5
  <2>3. i <= b \/ i > b
    BY <1>1
  <2> HIDE DEF l
  <2>. QED  BY <2>1, <2>2, <2>3
<1>7. w \o v = x
  <2> DEFINE z == w \o v
  <2>1. z \in Seq(Cell) /\ Len(z) = Len(x) /\ \A i \in 1 .. Len(z) : z[i] = x[i]
    BY <1>5, <1>6
  <2> HIDE DEF z
  <2>2. z = x
    BY <2>1, SeqEqual
  <2>. QED  BY <2>2 DEF z
<1>. QED
  BY <1>2, <1>4, <1>7 DEF v, w

\* Where those cells are in g.
SpliceOf(g, x, s, a, b) ==
  LET n == Len(s)
      d == Extent(s) - (Reach(x, b) - Reach(x, a))
  IN /\ DOMAIN g = 1 .. a + n + (Len(x) - b)
     /\ \A i \in 1 .. a : g[i] = [x[i] EXCEPT !.at = x[i].at]
     /\ \A k \in 1 .. n : g[a + k] = [s[k] EXCEPT !.at = Reach(x, a) + Reach(s, k - 1)]
     /\ \A i \in b + 1 .. Len(x) : g[a + n + (i - b)] = [x[i] EXCEPT !.at = x[i].at + d]

\* Where the cells are that a file is joined from.
LEMMA SplicedCells ==
  ASSUME NEW x, IsFile(x), NEW s \in Seq(Cell), NEW a \in 0 .. Len(x), NEW b \in 0 .. Len(x)
  PROVE  SpliceOf(Spliced(x, s, a, b), x, s, a, b)
<1> DEFINE u == SubSeq(x, 1, a)
           v == SubSeq(x, b + 1, Len(x))
           w == SubSeq(x, 1, b)
           y == u \o s
           c == y \o v
           l == Len(x)
           n == Len(s)
           p == Reach(x, a)
           q == Reach(x, b)
           e == Extent(s)
<1>1. /\ x \in Seq(Cell) /\ l \in Nat /\ n \in Nat /\ DOMAIN x = 1 .. l
      /\ a \in Nat /\ b \in Nat /\ a <= l /\ b <= l
      /\ \A i \in 1 .. l : x[i] \in Cell /\ x[i].at = Reach(x, i - 1)
      /\ p \in Nat /\ q \in Nat /\ e \in Nat
  <2>1. x \in Seq(Cell) /\ \A i \in DOMAIN x : x[i].at = Reach(x, i - 1)
    BY DEF IsFile
  <2>2. p \in Nat /\ q \in Nat /\ e \in Nat
    BY <2>1, ReachStep, ExtentType
  <2>. QED  BY <2>1, <2>2
<1>2. /\ u \in Seq(Cell) /\ Len(u) = a /\ \A i \in 1 .. a : u[i] = x[i]
  BY <1>1
<1>3. /\ w \in Seq(Cell) /\ Len(w) = b /\ \A i \in 1 .. b : w[i] = x[i]
  BY <1>1
<1>4. /\ v \in Seq(Cell) /\ Len(v) = l - b /\ \A i \in 1 .. l - b : v[i] = x[b + i]
      /\ w \o v = x
  <2>1. x \in Seq(Cell)
    BY <1>1
  <2>. QED  BY <2>1, SuffixCells
\* The bytes of the parts.
<1>6. /\ Extent(u) = p /\ Extent(w) = q
      /\ \A k \in 0 .. a : Reach(u, k) = Reach(x, k)
  <2>1. \A k \in 0 .. a : Reach(u, k) = Reach(x, k)
    <3>1. a <= Len(u) /\ a <= Len(x) /\ \A i \in 1 .. a : Size(u[i]) = Size(x[i])
      BY <1>1, <1>2
    <3>2. u \in Seq(Cell) /\ x \in Seq(Cell) /\ a \in Nat
      BY <1>1, <1>2
    <3> HIDE DEF u, l
    <3>. QED  BY <3>1, <3>2, SameReach
  <2>2. \A k \in 0 .. b : Reach(w, k) = Reach(x, k)
    <3>1. b <= Len(w) /\ b <= Len(x) /\ \A i \in 1 .. b : Size(w[i]) = Size(x[i])
      BY <1>1, <1>3
    <3> HIDE DEF w, l
    <3>. QED  BY <1>1, <1>3, <3>1, SameReach
  <2> HIDE DEF u, w
  <2>3. a \in 0 .. a /\ b \in 0 .. b
    BY <1>1
  <2>. QED  BY <1>2, <1>3, <2>1, <2>2, <2>3 DEF Extent
<1> HIDE DEF u, v, w
<1>7. \A k \in 0 .. l - b : Reach(x, b + k) = q + Reach(v, k)
  <2>1. \A k \in 0 .. Len(v) : Reach(w \o v, Len(w) + k) = Extent(w) + Reach(v, k)
    BY <1>3, <1>4, ReachJoined
  <2>. QED  BY <1>3, <1>4, <1>6, <2>1
<1>8. /\ y \in Seq(Cell) /\ Len(y) = a + n /\ Extent(y) = p + e
      /\ \A k \in 1 .. a : y[k] = u[k]
      /\ \A k \in 1 .. n : y[a + k] = s[k]
      /\ \A k \in 0 .. a : Reach(y, k) = Reach(u, k)
      /\ \A k \in 0 .. n : Reach(y, a + k) = p + Reach(s, k)
  <2>1. /\ y \in Seq(Cell) /\ Len(y) = Len(u) + Len(s)
        /\ \A k \in 1 .. Len(u) : y[k] = u[k]
        /\ \A k \in 1 .. Len(s) : y[Len(u) + k] = s[k]
    BY <1>2, JoinedCells
  <2>2. /\ \A k \in 0 .. Len(u) : Reach(y, k) = Reach(u, k)
        /\ \A k \in 0 .. Len(s) : Reach(y, Len(u) + k) = Extent(u) + Reach(s, k)
        /\ Extent(y) = Extent(u) + Extent(s)
    BY <1>2, ReachJoined
  <2> HIDE DEF y
  <2>. QED  BY <1>2, <1>6, <2>1, <2>2
<1> HIDE DEF y
<1>9. /\ c \in Seq(Cell) /\ Len(c) = a + n + (l - b)
      /\ \A k \in 1 .. a + n : c[k] = y[k]
      /\ \A k \in 1 .. l - b : c[a + n + k] = v[k]
      /\ \A k \in 0 .. a + n : Reach(c, k) = Reach(y, k)
      /\ \A k \in 0 .. l - b : Reach(c, a + n + k) = p + e + Reach(v, k)
  <2>1. /\ c \in Seq(Cell) /\ Len(c) = Len(y) + Len(v)
        /\ \A k \in 1 .. Len(y) : c[k] = y[k]
        /\ \A k \in 1 .. Len(v) : c[Len(y) + k] = v[k]
    BY <1>4, <1>8, JoinedCells
  <2>2. /\ \A k \in 0 .. Len(y) : Reach(c, k) = Reach(y, k)
        /\ \A k \in 0 .. Len(v) : Reach(c, Len(y) + k) = Extent(y) + Reach(v, k)
    BY <1>4, <1>8, ReachJoined
  <2> HIDE DEF c
  <2>. QED  BY <1>4, <1>8, <2>1, <2>2
<1> HIDE DEF c
<1> DEFINE g == Placed(c)
<1>10. /\ DOMAIN g = 1 .. a + n + (l - b)
       /\ \A i \in 1 .. a + n + (l - b) : g[i] = [c[i] EXCEPT !.at = Reach(c, i - 1)]
  <2>1. DOMAIN c = 1 .. a + n + (l - b)
    BY <1>9
  <2>. QED  BY <2>1 DEF Placed
<1> HIDE DEF g, l, n, p, q, e
<1>11. ASSUME NEW i \in 1 .. a
       PROVE  g[i] = [x[i] EXCEPT !.at = x[i].at]
  <2>1. /\ i \in 1 .. a + n + (l - b) /\ i \in 1 .. a + n /\ i - 1 \in 0 .. a /\ i - 1 \in 0 .. a + n
        /\ i \in 1 .. l
    BY <1>1, <1>11
  <2>2. c[i] = x[i]
    BY <1>2, <1>8, <1>9, <1>11, <2>1
  <2>3. Reach(c, i - 1) = x[i].at
    BY <1>1, <1>6, <1>8, <1>9, <2>1
  <2>. QED  BY <1>10, <2>1, <2>2, <2>3
<1>12. ASSUME NEW k \in 1 .. n
       PROVE  g[a + k] = [s[k] EXCEPT !.at = p + Reach(s, k - 1)]
  <2>1. /\ a + k \in 1 .. a + n + (l - b) /\ a + k \in 1 .. a + n /\ k - 1 \in 0 .. n
        /\ (a + k) - 1 = a + (k - 1) /\ a + (k - 1) \in 0 .. a + n
    BY <1>1, <1>12
  <2>2. c[a + k] = s[k]
    BY <1>8, <1>9, <1>12, <2>1
  <2>3. Reach(c, (a + k) - 1) = p + Reach(s, k - 1)
    BY <1>8, <1>9, <2>1
  <2>. QED  BY <1>10, <2>1, <2>2, <2>3
<1>13. ASSUME NEW i \in b + 1 .. l
       PROVE  g[a + n + (i - b)] = [x[i] EXCEPT !.at = x[i].at + (e - (q - p))]
  <2> DEFINE k == i - b
  <2>1. /\ k \in 1 .. l - b /\ k - 1 \in 0 .. l - b /\ b + k = i /\ b + (k - 1) = i - 1 /\ i \in 1 .. l
        /\ a + n + k \in 1 .. a + n + (l - b) /\ (a + n + k) - 1 = a + n + (k - 1)
        /\ k - 1 \in 0 .. Len(v)
    <3>1. a \in Nat /\ b \in Nat /\ n \in Nat /\ l \in Nat /\ b <= l /\ Len(v) = l - b
      BY <1>1, <1>4
    <3>2. k \in Int /\ 1 <= k /\ k <= l - b /\ b + k = i
      BY <3>1, <1>13
    <3> HIDE DEF k, l, n, v
    <3>3. k \in 1 .. l - b /\ k - 1 \in 0 .. l - b /\ b + (k - 1) = i - 1 /\ i \in 1 .. l
      BY <3>1, <3>2
    <3>4. a + n + k \in 1 .. a + n + (l - b) /\ (a + n + k) - 1 = a + n + (k - 1)
      BY <3>1, <3>2
    <3>. QED  BY <3>1, <3>2, <3>3, <3>4
  <2> HIDE DEF k
  <2>2. c[a + n + k] = x[i]
    BY <1>4, <1>9, <2>1
  <2>3. Reach(c, (a + n + k) - 1) = p + e + Reach(v, k - 1)
    BY <1>9, <2>1
  <2>4. x[i].at = q + Reach(v, k - 1) /\ Reach(v, k - 1) \in Nat
    <3>1. Reach(v, k - 1) \in Nat
      BY <1>4, <2>1, ReachStep
    <3>2. Reach(x, b + (k - 1)) = q + Reach(v, k - 1)
      BY <1>7, <2>1
    <3>. QED  BY <1>1, <2>1, <3>1, <3>2
  <2>5. Reach(c, (a + n + k) - 1) = x[i].at + (e - (q - p))
    BY <1>1, <2>3, <2>4
  <2>6. g[a + n + k] = [x[i] EXCEPT !.at = x[i].at + (e - (q - p))]
    BY <1>10, <2>1, <2>2, <2>5
  <2>. QED  BY <2>6 DEF k
<1>14. Spliced(x, s, a, b) = g
  BY DEF Spliced, g, c, y, u, v
<1>15. SpliceOf(g, x, s, a, b)
  BY <1>10, <1>11, <1>12, <1>13 DEF SpliceOf, l, n, p, q, e
<1>. QED
  BY <1>14, <1>15

\* The cells of the file with the lengths of moov and the offset tables updated.
Fixed(f, hh, new) ==
  LET delta == InsertDelta(hh, new)
      moved == Extent(InsertedBoxes(new)) - (hh.after_ilst_offset - hh.noilst_offset)
  IN UpdateOffsets(UpdateParentLengths(f, hh, 0, delta), hh, delta, moved)

\* A table that the parser keeps.
Kept(c, hh) == \/ c.nm = "stco" /\ c.at + BoxHead = hh.stco_offset
               \/ c.nm = "co64" /\ c.at + BoxHead = hh.co64_offset

\* Of moov the length changes, of the tables it keeps the entry, of nothing else.
LEMMA FixedCells ==
  ASSUME ShapeInv, WriteTags, NEW new \in NewTags, NEW m \in DOMAIN file,
         h.base_offsets[0] = file[m].at, h.base_lengths[0] = file[m].len,
         h.insert_delta = h.after_ilst_offset - h.noilst_offset
  PROVE  LET x == Fixed(file, h, new)
             d == Extent(InsertedBoxes(new)) - (h.after_ilst_offset - h.noilst_offset)
         IN /\ IsFile(x) /\ Len(x) = Len(file) /\ DOMAIN x = DOMAIN file /\ d \in Int
            /\ \A i \in DOMAIN file :
                 /\ x[i].nm = file[i].nm /\ x[i].at = file[i].at /\ x[i].id = file[i].id
                 /\ x[i].head = file[i].head /\ x[i].body = file[i].body
                 /\ x[i].len = IF i = m THEN file[m].len + d ELSE file[i].len
                 /\ x[i].entry =
                      IF Kept(file[i], h) /\ file[i].entry > h.after_ilst_offset
                      THEN IF file[i].nm = "co64" THEN file[i].entry + d
                           ELSE (file[i].entry + d) % StcoMod
                      ELSE file[i].entry
<1> DEFINE delta == InsertDelta(h, new)
           moved == Extent(InsertedBoxes(new)) - (h.after_ilst_offset - h.noilst_offset)
           y == UpdateParentLengths(file, h, 0, delta)
           x == UpdateOffsets(y, h, delta, moved)
<1>1. /\ IsFile(file) /\ h \in Handle /\ mode = "rw" /\ pc = "done" /\ h.mp4error = "ok"
      /\ h.noilst_offset # 0 /\ TypeInv /\ StartInv /\ BaseInv
      /\ \A i \in DOMAIN file : file[i] \in Cell
  BY Places DEF ShapeInv, TypeInv, WriteTags, canwrite
<1>2. /\ delta = moved /\ moved \in Int
  <2>1. /\ Extent(InsertedBoxes(new)) = 69 + Extent(new) + FreeSpaceSz
        /\ Extent(new) \in Nat /\ FreeSpaceSz \in Nat
    BY BoxesAre
  <2>2. h.insert_delta \in Nat /\ h.after_ilst_offset \in Nat /\ h.noilst_offset \in Nat
    BY <1>1 DEF Handle
  <2>. QED  BY <2>1, <2>2 DEF InsertDelta, BoxHead, MetaSz, HdlrSz
<1>3. /\ IsFile(y) /\ Len(y) = Len(file) /\ DOMAIN y = DOMAIN file
  <2>1. 0 .. 0 \subseteq Levels
    <3>1. LevelMax \in Nat \ {0}
      BY ParserAssumption
    <3>. QED  BY <3>1 DEF Levels
  <2>2. 0 \in Int /\ delta \in Int
    BY <1>2
  <2> HIDE DEF delta
  <2>. QED  BY <1>1, <2>1, <2>2, ParentsFile
<1> HIDE DEF delta, moved
<1>4. ASSUME NEW i \in DOMAIN file
      PROVE  y[i] = IF i = m THEN [file[i] EXCEPT !.len = file[m].len + delta] ELSE file[i]
  <2> DEFINE L == {k \in 0 .. 0 : h.base_offsets[k] = file[i].at}
  <2>1. y[i] = IF L = {} THEN file[i] ELSE [file[i] EXCEPT !.len = h.base_lengths[Min(L)] + delta]
    BY DEF UpdateParentLengths
  <2>2. CASE i = m
    <3>1. L = {0}
      BY <2>2
    <3>2. Min({0}) = 0
      <4>1. 0 \in {0} /\ \A z \in {0} : 0 <= z
        OBVIOUS
      <4>2. \A w \in {0} : w = 0
        OBVIOUS
      <4>. QED  BY <4>1, <4>2 DEF Min
    <3> HIDE DEF L
    <3>. QED  BY <2>1, <2>2, <3>1, <3>2
  <2>3. CASE i # m
    <3>1. file[i].at # file[m].at
      BY <1>1, <2>3, OnePlace
    <3>2. L = {}
      BY <3>1
    <3> HIDE DEF L
    <3>. QED  BY <2>1, <2>3, <3>2
  <2>. QED  BY <2>2, <2>3
<1>5. /\ IsFile(x) /\ Len(x) = Len(y) /\ DOMAIN x = DOMAIN y
  <2> HIDE DEF y
  <2>. QED  BY <1>1, <1>2, <1>3, OffsetsFile
<1>6. ASSUME NEW i \in DOMAIN file
      PROVE  /\ y[i] \in Cell /\ y[i].nm = file[i].nm /\ y[i].at = file[i].at /\ y[i].id = file[i].id
             /\ y[i].head = file[i].head /\ y[i].body = file[i].body
             /\ y[i].entry = file[i].entry
             /\ y[i].len = IF i = m THEN file[m].len + delta ELSE file[i].len
  <2>1. y[i] \in Cell
    BY <1>3, Places
  <2>2. file[i] \in Cell
    BY <1>1
  <2>3. y[i] = IF i = m THEN [file[i] EXCEPT !.len = file[m].len + delta] ELSE file[i]
    BY <1>4
  <2> HIDE DEF y
  <2>4. CASE i = m
    <3> DEFINE v == file[m].len + delta
    <3>1. y[i] = [file[i] EXCEPT !.len = v]
      BY <2>3, <2>4
    <3> HIDE DEF v
    <3>2. y[i].len = v
      BY <2>2, <3>1 DEF Cell
    <3>. QED  BY <2>1, <2>2, <2>4, <3>1, <3>2 DEF Cell, v
  <2>. QED  BY <2>1, <2>2, <2>3, <2>4
<1> HIDE DEF y
<1>7. ASSUME NEW i \in DOMAIN file
      PROVE  /\ x[i].nm = y[i].nm /\ x[i].at = y[i].at /\ x[i].id = y[i].id
             /\ x[i].head = y[i].head /\ x[i].body = y[i].body /\ x[i].len = y[i].len
             /\ x[i].entry = IF Kept(y[i], h) /\ y[i].entry > h.after_ilst_offset
                             THEN IF y[i].nm = "co64" THEN y[i].entry + delta
                                  ELSE (y[i].entry + delta) % StcoMod
                             ELSE y[i].entry
  <2> DEFINE c == y[i]
             v == IF c.nm = "co64" THEN c.entry + delta ELSE (c.entry + delta) % StcoMod
             K == Kept(c, h) /\ c.entry > h.after_ilst_offset
  <2>1. c \in Cell
    BY <1>6
  <2>2. x[i] = IF ~ K THEN c
               ELSE [c EXCEPT !.entry = IF c.nm = "co64" THEN @ + delta ELSE (@ + delta) % StcoMod]
    BY <1>2, <1>3 DEF UpdateOffsets, Kept
  <2> HIDE DEF c, x
  <2>3. x[i] = IF ~ K THEN c ELSE [c EXCEPT !.entry = v]
    BY <2>1, <2>2 DEF Cell
  <2> HIDE DEF v, K
  <2>4. /\ x[i].nm = c.nm /\ x[i].at = c.at /\ x[i].id = c.id
        /\ x[i].head = c.head /\ x[i].body = c.body /\ x[i].len = c.len
        /\ x[i].entry = IF K THEN v ELSE c.entry
    BY <2>1, <2>3 DEF Cell
  <2>. QED  BY <2>4 DEF c, v, K
<1>8. \A i \in DOMAIN file : Kept(y[i], h) <=> Kept(file[i], h)
  BY <1>6 DEF Kept
<1> HIDE DEF x
<1>9. Fixed(file, h, new) = x
  BY DEF Fixed, x, y, delta, moved
<1>. QED
  BY <1>2, <1>3, <1>5, <1>6, <1>7, <1>8, <1>9 DEF moved

\* The file g that f becomes when the boxes s are written between p and q: the first a
\* cells stay, apart from the length of moov, and those behind the first b move by d.
Moved(s, p, q) == Extent(s) - (q - p)

Written(f, g, s, m, p, q, a, b) ==
  LET n == Len(s)
      d == Moved(s, p, q)
  IN /\ Cut(f, m, p, q) /\ a <= b /\ d \in Int
     /\ \A i \in DOMAIN f : (f[i].at < p <=> i <= a) /\ (f[i].at < q <=> i <= b)
     /\ IsFile(g) /\ DOMAIN g = 1 .. a + n + (Len(f) - b)
     /\ FileSz(g) = FileSz(f) + d
     /\ \A i \in 1 .. a :
          /\ g[i].nm = f[i].nm /\ g[i].at = f[i].at /\ g[i].id = f[i].id
          /\ g[i].head = f[i].head /\ g[i].body = f[i].body
          /\ g[i].len = IF i = m THEN f[m].len + d ELSE f[i].len
     /\ \A k \in 1 .. n :
          /\ g[a + k].nm = s[k].nm /\ g[a + k].len = s[k].len
          /\ g[a + k].at = p + Reach(s, k - 1)
          /\ After(g[a + k]) = p + Reach(s, k)
     /\ \A i \in b + 1 .. Len(f) :
          LET c == g[a + n + (i - b)] IN
          /\ c.nm = f[i].nm /\ c.at = f[i].at + d /\ c.id = f[i].id
          /\ c.head = f[i].head /\ c.body = f[i].body /\ c.len = f[i].len

\* The entries of a table that is kept.
NewEntry(c, q, d) ==
  IF c.entry > q THEN IF c.nm = "co64" THEN c.entry + d ELSE (c.entry + d) % StcoMod
  ELSE c.entry

WrittenEntries(f, g, s, p, q, a, b) ==
  /\ \A i \in 1 .. a :
       f[i].nm \in {"stco", "co64"} => g[i].entry = NewEntry(f[i], q, Moved(s, p, q))
  /\ \A i \in b + 1 .. Len(f) :
       f[i].nm \in {"stco", "co64"}
         => g[a + Len(s) + (i - b)].entry = NewEntry(f[i], q, Moved(s, p, q))

\* The insertion is such a change, at the place the parser has noted.
LEMMA WrittenCells ==
  ASSUME ShapeInv, FaultInv, NoteInv, WriteTags, InsertSound(file), NEW new \in NewTags
  PROVE  LET g == Inserted(file, h, new)
             s == InsertedBoxes(new)
             p == h.noilst_offset
             q == h.after_ilst_offset
         IN \E m \in DOMAIN file, a, b \in 0 .. Len(file) :
              /\ Sound(file, m) /\ Written(file, g, s, m, p, q, a, b)
              /\ TablesSound(file) => WrittenEntries(file, g, s, p, q, a, b)
<1> DEFINE g == Inserted(file, h, new)
           s == InsertedBoxes(new)
           p == h.noilst_offset
           q == h.after_ilst_offset
           x == Fixed(file, h, new)
           l == Len(file)
           n == Len(s)
           d == Moved(s, p, q)
<1>1. /\ IsFile(file) /\ h \in Handle /\ mode = "rw" /\ pc = "done" /\ h.mp4error = "ok"
      /\ p # 0 /\ TypeInv /\ StartInv /\ BaseInv
      /\ Readable(file)
      /\ l \in Nat /\ DOMAIN file = 1 .. l /\ FileSz(file) \in Nat
      /\ \A i \in DOMAIN file : file[i] \in Cell
  BY SoundFacts, Places DEF ShapeInv, TypeInv, WriteTags, canwrite
<1>2. PICK m \in DOMAIN file :
        /\ Sound(file, m) /\ Cut(file, m, p, q) /\ h.insert_delta = q - p
        /\ h.base_offsets[0] = file[m].at /\ h.base_lengths[0] = file[m].len
        /\ TablesSound(file) =>
             \A i \in DOMAIN file :
               /\ file[i].nm = "stco" => h.stco_offset = file[i].at + 8
               /\ file[i].nm = "co64" => h.co64_offset = file[i].at + 8
  BY PlaceFound
<1>3. /\ IsFile(x) /\ Len(x) = l /\ DOMAIN x = DOMAIN file /\ d \in Int
      /\ \A i \in DOMAIN file :
           /\ x[i].nm = file[i].nm /\ x[i].at = file[i].at /\ x[i].id = file[i].id
           /\ x[i].head = file[i].head /\ x[i].body = file[i].body
           /\ x[i].len = IF i = m THEN file[m].len + d ELSE file[i].len
           /\ x[i].entry =
                IF Kept(file[i], h) /\ file[i].entry > q
                THEN IF file[i].nm = "co64" THEN file[i].entry + d
                     ELSE (file[i].entry + d) % StcoMod
                ELSE file[i].entry
  BY <1>2, FixedCells DEF Moved
<1>4. s \in Seq(Cell) /\ n \in Nat /\ n >= 5 /\ DOMAIN s = 1 .. n
  BY BoxesNest
\* The numbers of cells in front of the boxes and in front of what follows them.
<1>5. PICK a \in 0 .. l :
        /\ Cardinality({i \in DOMAIN file : file[i].at < p}) = a
        /\ \A i \in DOMAIN file : file[i].at < p <=> i <= a
        /\ Reach(file, a) = p
  <2>1. AtBox(file, p) /\ IsFile(file)
    BY <1>1, <1>2 DEF Cut
  <2> HIDE DEF p
  <2>. QED  BY <2>1, BeforePlace
<1>6. PICK b \in 0 .. l :
        /\ Cardinality({i \in DOMAIN file : file[i].at < q}) = b
        /\ \A i \in DOMAIN file : file[i].at < q <=> i <= b
        /\ Reach(file, b) = q
        /\ b = l => q = FileSz(file)
  <2>1. AtBox(file, q) /\ IsFile(file)
    BY <1>1, <1>2 DEF Cut
  <2> HIDE DEF q
  <2>. QED  BY <2>1, BeforePlace
<1>7. p \in Nat /\ q \in Nat /\ p <= q
  BY <1>2 DEF Cut
<1>8. g = Spliced(x, s, a, b)
  <2>1. g = Placed(SubSeq(x, 1, a) \o s \o SubSeq(x, b + 1, Len(file)))
    BY <1>5, <1>6 DEF Inserted, Fixed
  <2>. QED  BY <1>3, <2>1 DEF Spliced
<1>9. IsFile(g)
  <2>1. file # <<>>
    BY <1>2
  <2>. QED  BY <1>1, <2>1, InsertedFile
<1> HIDE DEF g, s, p, q, x, d
<1>10. Reach(x, a) = p /\ Reach(x, b) = q
  <2>1. \A k \in 0 .. l : Reach(x, k) = Reach(file, k)
    <3>1. x \in Seq(Cell) /\ file \in Seq(Cell)
      BY <1>1, <1>3 DEF IsFile
    <3>2. \A k \in 1 .. l : Size(x[k]) = Size(file[k])
      BY <1>1, <1>3 DEF Size
    <3>3. l \in Nat /\ l <= Len(x) /\ l <= Len(file)
      BY <1>1, <1>3
    <3> HIDE DEF l
    <3>. QED  BY <3>1, <3>2, <3>3, SameReach
  <2>. QED  BY <1>5, <1>6, <2>1
<1>11. /\ DOMAIN g = 1 .. a + n + (l - b)
       /\ \A i \in 1 .. a : g[i] = [x[i] EXCEPT !.at = x[i].at]
       /\ \A k \in 1 .. n : g[a + k] = [s[k] EXCEPT !.at = p + Reach(s, k - 1)]
       /\ \A i \in b + 1 .. l : g[a + n + (i - b)] = [x[i] EXCEPT !.at = x[i].at + d]
  <2>1. a \in 0 .. Len(x) /\ b \in 0 .. Len(x)
    BY <1>3
  <2>2. d = Extent(s) - (Reach(x, b) - Reach(x, a))
    BY <1>10 DEF d, Moved
  <2>3. /\ DOMAIN g = 1 .. a + Len(s) + (Len(x) - b)
        /\ \A i \in 1 .. a : g[i] = [x[i] EXCEPT !.at = x[i].at]
        /\ \A k \in 1 .. Len(s) :
             g[a + k] = [s[k] EXCEPT !.at = Reach(x, a) + Reach(s, k - 1)]
        /\ \A i \in b + 1 .. Len(x) :
             g[a + Len(s) + (i - b)] =
               [x[i] EXCEPT !.at = x[i].at + (Extent(s) - (Reach(x, b) - Reach(x, a)))]
    <3>1. IsFile(x) /\ s \in Seq(Cell) /\ a \in 0 .. Len(x) /\ b \in 0 .. Len(x)
      BY <1>3, <1>4, <2>1
    <3>2. SpliceOf(Spliced(x, s, a, b), x, s, a, b)
      BY <3>1, SplicedCells
    <3>. QED  BY <1>8, <3>2 DEF SpliceOf
  <2>. QED  BY <1>3, <1>10, <2>2, <2>3
<1>12. \A i \in DOMAIN file : x[i] \in Cell
  BY <1>3, Places
<1>13. ASSUME NEW i \in 1 .. a
       PROVE  /\ g[i].nm = file[i].nm /\ g[i].at = file[i].at /\ g[i].id = file[i].id
              /\ g[i].head = file[i].head /\ g[i].body = file[i].body
              /\ g[i].len = IF i = m THEN file[m].len + d ELSE file[i].len
              /\ g[i].entry = x[i].entry
  <2>1. i \in DOMAIN file
    BY <1>1
  <2>2. g[i] = [x[i] EXCEPT !.at = x[i].at] /\ x[i] \in Cell
    BY <1>11, <1>12, <2>1
  <2>3. /\ g[i].nm = x[i].nm /\ g[i].at = x[i].at /\ g[i].id = x[i].id
        /\ g[i].head = x[i].head /\ g[i].body = x[i].body
        /\ g[i].len = x[i].len /\ g[i].entry = x[i].entry
    BY <2>2 DEF Cell
  <2>. QED  BY <1>3, <2>1, <2>3
<1>14. ASSUME NEW k \in 1 .. n
       PROVE  /\ g[a + k].nm = s[k].nm /\ g[a + k].len = s[k].len
              /\ g[a + k].at = p + Reach(s, k - 1)
              /\ After(g[a + k]) = p + Reach(s, k)
  <2>1. s[k] \in Cell
    BY <1>4
  <2>2. g[a + k] = [s[k] EXCEPT !.at = p + Reach(s, k - 1)]
    BY <1>11
  <2>3. /\ g[a + k].nm = s[k].nm /\ g[a + k].len = s[k].len
        /\ g[a + k].at = p + Reach(s, k - 1)
        /\ g[a + k].head = s[k].head /\ g[a + k].body = s[k].body
    BY <2>1, <2>2 DEF Cell
  <2>4. /\ Reach(s, k) = Reach(s, k - 1) + Size(s[k]) /\ Reach(s, k - 1) \in Nat
        /\ Size(s[k]) \in Nat
    <3>1. k - 1 \in 0 .. n
      BY <1>4
    <3>2. Size(s[k]) \in Nat
      BY <2>1, CellFacts
    <3>. QED  BY <1>4, <3>1, <3>2, ReachStep
  <2>5. After(g[a + k]) = g[a + k].at + Size(s[k])
    BY <2>3 DEF After, Size
  <2>. QED  BY <1>7, <2>3, <2>4, <2>5
<1>15. ASSUME NEW i \in b + 1 .. l
       PROVE  LET c == g[a + n + (i - b)] IN
              /\ c.nm = file[i].nm /\ c.at = file[i].at + d /\ c.id = file[i].id
              /\ c.head = file[i].head /\ c.body = file[i].body /\ c.len = file[i].len
              /\ c.entry = x[i].entry
  <2> DEFINE c == g[a + n + (i - b)]
  <2>1. i \in DOMAIN file
    BY <1>1
  <2>2. c = [x[i] EXCEPT !.at = x[i].at + d] /\ x[i] \in Cell
    BY <1>11, <1>12, <2>1
  <2> HIDE DEF c
  <2>3. /\ c.nm = x[i].nm /\ c.at = x[i].at + d /\ c.id = x[i].id
        /\ c.head = x[i].head /\ c.body = x[i].body /\ c.len = x[i].len /\ c.entry = x[i].entry
    BY <2>2 DEF Cell
  <2>4. i # m
    <3>1. file[m].at < p
      BY <1>2 DEF Cut
    <3>2. file[m].at < q /\ file[m].at \in Nat
      <4>1. file[m].at \in Nat
        BY <1>1, <1>2, CellFacts
      <4>. QED  BY <1>7, <3>1, <4>1
    <3>3. m <= b
      BY <1>2, <1>6, <3>2
    <3>. QED  BY <1>1, <3>3
  <2>. QED  BY <1>3, <2>1, <2>3, <2>4 DEF c
<1>16. a <= b
  <2>1. SUFFICES ASSUME b < a
                 PROVE  FALSE
    BY <1>1
  <2>2. a \in DOMAIN file
    BY <1>1, <2>1
  <2>3. file[a].at \in Nat
    BY <1>1, <2>2, CellFacts
  <2>4. a <= a /\ ~ (a <= b)
    BY <1>1, <2>1
  <2>5. file[a].at < p /\ ~ (file[a].at < q)
    BY <1>5, <1>6, <2>2, <2>4
  <2>. QED  BY <1>7, <2>3, <2>5
<1>17. FileSz(g) = FileSz(file) + d
  <2> DEFINE L == a + n + (l - b)
  <2>1. L \in Nat /\ L >= 1 /\ DOMAIN g = 1 .. L
    BY <1>1, <1>4, <1>11
  <2>2. Len(g) = L /\ g # <<>>
    <3>1. Len(g) \in Nat /\ DOMAIN g = 1 .. Len(g)
      BY <1>9, Places
    <3> HIDE DEF L
    <3>2. Len(g) = L
      BY <2>1, <3>1
    <3>3. g # <<>>
      BY <2>1, <3>2
    <3>. QED  BY <3>2, <3>3
  <2>3. FileSz(g) = After(g[L])
    BY <1>9, <2>2, Places
  <2>4. CASE b = l
    <3>1. L = a + n
      BY <1>1, <1>4, <2>4
    <3>2. n \in 1 .. n
      BY <1>4
    <3>3. After(g[a + n]) = p + Reach(s, n)
      BY <1>14, <3>2
    <3>4. FileSz(file) = q /\ Extent(s) = Reach(s, n) /\ Extent(s) \in Nat
      BY <1>4, <1>6, <2>4, ExtentType DEF Extent
    <3>5. d = Extent(s) - (q - p)
      BY DEF d, Moved
    <3>6. FileSz(g) = p + Extent(s)
      BY <2>3, <3>1, <3>3, <3>4
    <3> HIDE DEF L
    <3>. QED  BY <1>7, <3>4, <3>5, <3>6
  <2>5. CASE b # l
    <3>1. l \in b + 1 .. l /\ L = a + n + (l - b) /\ l \in DOMAIN file /\ file # <<>>
      <4>1. l \in b + 1 .. l /\ l \in 1 .. l
        <5> HIDE DEF l
        <5>. QED  BY <1>1, <2>5
      <4>. QED  BY <1>1, <4>1
    <3> DEFINE c == g[a + n + (l - b)]
    <3>2. c.at = file[l].at + d /\ c.head = file[l].head /\ c.body = file[l].body
      BY <1>15, <3>1
    <3>3. FileSz(g) = After(c) /\ FileSz(file) = After(file[l])
      BY <1>1, <2>3, <3>1, Places
    <3> HIDE DEF c
    <3>4. file[l].at \in Nat /\ Size(file[l]) \in Nat
      BY <1>1, <3>1, CellFacts
    <3>5. Size(c) = Size(file[l])
      BY <3>2 DEF Size
    <3>. QED  BY <1>3, <3>2, <3>3, <3>4, <3>5 DEF After
  <2>. QED  BY <2>4, <2>5
<1>18. Written(file, g, s, m, p, q, a, b)
  <2>1. d = Moved(s, p, q)
    BY DEF d
  <2>. QED
    BY <1>2, <1>3, <1>5, <1>6, <1>9, <1>11, <1>13, <1>14, <1>15, <1>16, <1>17, <2>1 DEF Written
<1>19. TablesSound(file) => WrittenEntries(file, g, s, p, q, a, b)
  <2>1. SUFFICES ASSUME TablesSound(file)
                 PROVE  WrittenEntries(file, g, s, p, q, a, b)
    OBVIOUS
  <2>2. \A i \in DOMAIN file : file[i].nm \in {"stco", "co64"} => x[i].entry = NewEntry(file[i], q, d)
    <3>1. \A i \in DOMAIN file : file[i].nm \in {"stco", "co64"} => Kept(file[i], h)
      BY <1>2, <2>1 DEF Kept, BoxHead
    <3>. QED  BY <1>3, <3>1 DEF NewEntry
  <2>3. /\ \A i \in 1 .. a : i \in DOMAIN file
        /\ \A i \in b + 1 .. l : i \in DOMAIN file
    BY <1>1
  <2>4. d = Moved(s, p, q)
    BY DEF d
  <2>. QED  BY <1>13, <1>15, <2>2, <2>3, <2>4 DEF WrittenEntries
<1>. QED
  BY <1>2, <1>18, <1>19 DEF g, s, p, q

-----------------------------------------------------------------------------
(* The boxes of the file that is written.                                   *)

\* Where box k of a sequence of boxes ends.
Till(s, k) == Reach(s, k - 1) + s[k].len

\* The boxes that are inserted: they nest, and the fourth one is the tag list.
ListBoxes(s) ==
  LET n == Len(s)
      e == Extent(s)
  IN /\ n \in Nat /\ n >= 5 /\ e \in Nat /\ e > 53
     /\ s[1].nm = "udta" /\ s[2].nm = "meta"
     /\ Reach(s, 0) = 0 /\ Reach(s, 1) = 8 /\ Reach(s, 2) = 20 /\ Reach(s, 3) = 53
     /\ Reach(s, n) = e /\ Till(s, 1) = e /\ Till(s, 2) = e /\ Till(s, 3) = 53
     /\ \A k \in 0 .. n : Reach(s, k) \in Nat /\ Reach(s, k) <= e
     /\ \A k \in 4 .. n : Reach(s, k - 1) >= 53
     /\ \A k \in 1 .. n : /\ s[k].nm \in {"udta", "meta", "hdlr", "ilst", "tag", "free"}
                          /\ s[k].nm = "ilst" <=> k = 4
                          /\ s[k].len # 0 /\ Till(s, k) \in Nat
                          /\ Till(s, k) >= Reach(s, k) /\ Till(s, k) <= e
                          /\ \E j \in k .. n : Till(s, k) = Reach(s, j)
     /\ \A j, k \in 1 .. n : Reach(s, j - 1) < Reach(s, k - 1) /\ Reach(s, k - 1) < Till(s, j)
                               => Till(s, k) <= Till(s, j)

\* The inserted boxes are such boxes.
LEMMA InsertedListBoxes ==
  ASSUME NEW new \in NewTags
  PROVE  ListBoxes(InsertedBoxes(new))
<1> DEFINE s == InsertedBoxes(new)
           n == Len(s)
           e == Extent(s)
<1>1. /\ s \in Seq(Cell) /\ n \in Nat /\ n >= 5
      /\ s[1].nm = "udta" /\ s[2].nm = "meta"
      /\ Reach(s, 3) = 53 /\ Till(s, 1) = e /\ Till(s, 2) = e /\ Till(s, 3) = 53 /\ e > 53
      /\ \A k \in 1 .. n : /\ s[k].nm \in {"udta", "meta", "hdlr", "ilst", "tag", "free"}
                           /\ s[k].nm = "ilst" <=> k = 4
                           /\ s[k].len # 0 /\ Till(s, k) \in Nat
                           /\ \E j \in k .. n : Till(s, k) = Reach(s, j)
      /\ \A j, k \in 1 .. n : j < k /\ Reach(s, k - 1) < Till(s, j) => Till(s, k) <= Till(s, j)
  BY BoxesNest DEF Till
<1>2. Reach(s, 0) = 0 /\ Reach(s, 1) = 8 /\ Reach(s, 2) = 20
  BY BoxesAre
<1>3. e = Reach(s, n)
  BY DEF Extent
<1> HIDE DEF s, e
<1>4. \A j, k \in 0 .. n : j <= k => Reach(s, j) <= Reach(s, k) /\ Reach(s, j) \in Nat /\ Reach(s, k) \in Nat
  <2>1. SUFFICES ASSUME NEW j \in 0 .. n, NEW k \in 0 .. n, j <= k
                 PROVE  Reach(s, j) <= Reach(s, k) /\ Reach(s, j) \in Nat /\ Reach(s, k) \in Nat
    OBVIOUS
  <2>2. s \in Seq(Cell) /\ j \in Nat /\ k \in Nat /\ k <= Len(s)
    BY <1>1
  <2>. QED  BY <2>1, <2>2, ReachMonotone
<1> HIDE DEF n
<1>5. \A k \in 0 .. n : Reach(s, k) \in Nat /\ Reach(s, k) <= e
  <2>1. n \in 0 .. n /\ \A k \in 0 .. n : k <= n
    BY <1>1
  <2>2. \A k \in 0 .. n : Reach(s, k) <= Reach(s, n) /\ Reach(s, k) \in Nat
    BY <1>4, <2>1
  <2>. QED  BY <1>3, <2>2
<1>6. \A k \in 4 .. n : Reach(s, k - 1) >= 53
  <2>1. \A k \in 4 .. n : 3 \in 0 .. n /\ k - 1 \in 0 .. n /\ 3 <= k - 1
    BY <1>1
  <2>. QED  BY <1>1, <1>4, <2>1
<1>7. \A k \in 1 .. n : Till(s, k) >= Reach(s, k) /\ Till(s, k) <= e
  <2>1. ASSUME NEW k \in 1 .. n
        PROVE  Till(s, k) >= Reach(s, k) /\ Till(s, k) <= e
    <3>1. PICK j \in k .. n : Till(s, k) = Reach(s, j)
      BY <1>1
    <3>2. j \in 0 .. n /\ k \in 0 .. n /\ k <= j
      <4>1. n \in Nat
        BY <1>1
      <4>. QED  BY <4>1
    <3>3. Reach(s, k) <= Reach(s, j) /\ Reach(s, k) \in Nat /\ Reach(s, j) \in Nat
      BY <1>4, <3>2
    <3>. QED  BY <1>5, <3>1, <3>2, <3>3
  <2>. QED  BY <2>1
<1>8. ASSUME NEW j \in 1 .. n, NEW k \in 1 .. n,
             Reach(s, j - 1) < Reach(s, k - 1), Reach(s, k - 1) < Till(s, j)
      PROVE  Till(s, k) <= Till(s, j)
  <2>1. j - 1 \in 0 .. n /\ k - 1 \in 0 .. n /\ (~ (j < k) => k - 1 <= j - 1)
    BY <1>1
  <2>2. j < k
    <3>1. ASSUME k - 1 <= j - 1
          PROVE  FALSE
      <4>1. Reach(s, k - 1) <= Reach(s, j - 1) /\ Reach(s, k - 1) \in Nat /\ Reach(s, j - 1) \in Nat
        BY <1>4, <2>1, <3>1
      <4>. QED  BY <1>8, <4>1
    <3>. QED  BY <2>1, <3>1
  <2>. QED  BY <1>1, <1>8, <2>2
<1>9. e \in Nat
  <2>1. n \in 0 .. n
    BY <1>1
  <2>. QED  BY <1>3, <1>5, <2>1
<1>10. ListBoxes(s)
  <2>1. n = Len(s) /\ e = Extent(s)
    BY DEF n, e
  <2>. QED  BY <1>1, <1>2, <1>3, <1>5, <1>6, <1>7, <1>8, <1>9, <2>1 DEF ListBoxes
<1>. QED
  BY <1>10 DEF s

\* The places of the cells of g, and where its boxes end: those in front, the
\* inserted ones, and those behind.
Later(s, a, b, i) == a + Len(s) + (i - b)

Laid(f, g, s, m, p, q, a, b) ==
  LET n == Len(s)
      l == Len(f)
      e == Extent(s)
      d == Moved(s, p, q)
  IN /\ {p, q, a, b, l, n, e} \subseteq Nat /\ d \in Int
     /\ p <= q /\ a <= b /\ b <= l /\ q + d = p + e
     /\ m \in 1 .. a /\ DOMAIN f = 1 .. l /\ DOMAIN g = 1 .. a + n + (l - b)
     /\ FileSz(f) \in Nat /\ FileSz(g) = FileSz(f) + d
     /\ EndOf(f, f[m]) \in Nat /\ EndOf(g, g[m]) = EndOf(f, f[m]) + d
     /\ EndOf(g, g[m]) >= p + e
     /\ \A i \in 1 .. a :
          /\ i \in DOMAIN f /\ i \in DOMAIN g /\ g[i].nm = f[i].nm
          /\ g[i].at = f[i].at /\ f[i].at \in Nat /\ f[i].at < p
          /\ After(g[i]) = After(f[i]) /\ After(f[i]) \in Nat /\ After(f[i]) <= p
          /\ EndOf(f, f[i]) >= After(f[i]) /\ EndOf(f, f[i]) \in Nat
          /\ i # m => EndOf(g, g[i]) = EndOf(f, f[i]) /\ EndOf(f, f[i]) <= p
     /\ \A k \in 1 .. n :
          /\ a + k \in DOMAIN g /\ g[a + k].nm = s[k].nm
          /\ g[a + k].at = p + Reach(s, k - 1)
          /\ After(g[a + k]) = p + Reach(s, k) /\ EndOf(g, g[a + k]) = p + Till(s, k)
     /\ \A i \in b + 1 .. l :
          LET c == g[Later(s, a, b, i)] IN
          /\ i \in DOMAIN f /\ Later(s, a, b, i) \in DOMAIN g /\ c.nm = f[i].nm
          /\ f[i].at \in Nat /\ f[i].at >= q /\ c.at = f[i].at + d
          /\ After(f[i]) \in Nat /\ After(c) = After(f[i]) + d
          /\ EndOf(f, f[i]) >= After(f[i]) /\ EndOf(f, f[i]) \in Nat
          /\ EndOf(g, c) = EndOf(f, f[i]) + d
     /\ \A x \in DOMAIN g :
          \/ x \in 1 .. a
          \/ \E k \in 1 .. n : x = a + k
          \/ \E i \in b + 1 .. l : x = Later(s, a, b, i)
     /\ \A i \in DOMAIN f :
          /\ f[i].at < p => i \in 1 .. a
          /\ f[i].at >= q => i \in b + 1 .. l
          /\ i \in 1 .. a \/ i \in b + 1 .. l \/ f[i].nm = "udta"

\* Sums of integers.
LEMMA Sums ==
  ASSUME NEW x \in Int, NEW y \in Int, NEW z \in Int
  PROVE  (x + y) + z = x + (y + z) /\ (x + z) + y = (x + y) + z /\ x + y \in Int
OBVIOUS

\* The same with orders.
LEMMA Orders ==
  ASSUME NEW x \in Int, NEW y \in Int
  PROVE  /\ ~ (x < y) => x >= y
         /\ \A z, w \in Int : x < z /\ w >= z /\ x + y >= w => y # 0
OBVIOUS

\* The numbers of the cells that are written: a in front, n boxes, those behind b.
InParts(xs, a, n, b, l) ==
  \A x \in xs : \/ x \in 1 .. a
                \/ \E k \in 1 .. n : x = a + k
                \/ \E i \in b + 1 .. l : x = a + n + (i - b)

\* There are no others.
LEMMA ThreeParts ==
  ASSUME NEW a \in Nat, NEW b \in Nat, NEW n \in Nat, NEW l \in Nat, b <= l
  PROVE  InParts(1 .. a + n + (l - b), a, n, b, l)
<1> SUFFICES ASSUME NEW x \in 1 .. a + n + (l - b)
             PROVE  \/ x \in 1 .. a
                    \/ \E k \in 1 .. n : x = a + k
                    \/ \E i \in b + 1 .. l : x = a + n + (i - b)
  BY DEF InParts
<1>1. CASE x <= a
  BY <1>1
<1>2. CASE a < x /\ x <= a + n
  <2>1. x - a \in 1 .. n /\ x = a + (x - a)
    BY <1>2
  <2>. QED  BY <2>1
<1>3. CASE a + n < x
  <2>1. b + (x - (a + n)) \in b + 1 .. l /\ x = a + n + ((b + (x - (a + n))) - b)
    BY <1>3
  <2>. QED  BY <2>1
<1>. QED
  BY <1>1, <1>2, <1>3

\* The cells of a written file are so.
LEMMA WrittenLaid ==
  ASSUME NEW f, IsFile(f), Readable(f), NEW m \in DOMAIN f, Sound(f, m),
         NEW s, ListBoxes(s), NEW g, NEW p, NEW q, NEW a \in 0 .. Len(f), NEW b \in 0 .. Len(f),
         Written(f, g, s, m, p, q, a, b)
  PROVE  Laid(f, g, s, m, p, q, a, b)
<1> DEFINE n == Len(s)
           l == Len(f)
           e == Extent(s)
           d == Moved(s, p, q)
<1>1. /\ l \in Nat /\ DOMAIN f = 1 .. l /\ a \in Nat /\ b \in Nat /\ b <= l
      /\ FileSz(f) \in Nat
  BY Places
<1>2. n \in Nat /\ n >= 5 /\ e \in Nat
      /\ \A k \in 1 .. n : s[k].len # 0 /\ Till(s, k) \in Nat /\ Reach(s, k - 1) \in Nat
  <2>1. n \in Nat /\ n >= 5 /\ e \in Nat /\ \A k \in 0 .. n : Reach(s, k) \in Nat
    BY DEF ListBoxes
  <2>2. \A k \in 1 .. n : k - 1 \in 0 .. n
    BY <2>1
  <2>3. \A k \in 1 .. n : s[k].len # 0 /\ Till(s, k) \in Nat
    BY DEF ListBoxes
  <2>. QED  BY <2>1, <2>2, <2>3
<1>3. Cut(f, m, p, q) /\ a <= b /\ d \in Int
      /\ DOMAIN g = 1 .. a + n + (l - b) /\ FileSz(g) = FileSz(f) + d
  BY DEF Written
<1>4. p \in Nat /\ q \in Nat /\ p <= q /\ f[m].at < p /\ q <= EndOf(f, f[m])
  BY <1>3 DEF Cut
<1>5. q + d = p + e
  BY <1>2, <1>4 DEF Moved
<1>6. \A i \in DOMAIN f : (f[i].at < p <=> i <= a) /\ (f[i].at < q <=> i <= b)
  BY DEF Written
<1>7. \A i \in DOMAIN f :
        /\ f[i].at \in Nat /\ f[i].at \in Int /\ f[i].len \in Int
        /\ After(f[i]) \in Nat /\ EndOf(f, f[i]) \in Nat
        /\ EndOf(f, f[i]) >= After(f[i])
        /\ f[i].len # 0 => EndOf(f, f[i]) = f[i].at + f[i].len
        /\ f[i].len = 0 => EndOf(f, f[i]) = FileSz(f)
  BY TreeFacts DEF EndOf
<1>8. m \in 1 .. a
  BY <1>1, <1>4, <1>6
<1> HIDE DEF n, l, e, d
<1>t. /\ n \in Nat /\ l \in Nat /\ e \in Nat /\ a \in Nat /\ b \in Nat /\ p \in Nat /\ q \in Nat
      /\ p \in Int /\ q \in Int /\ p + e \in Int /\ p + e >= p
      /\ n >= 5 /\ a <= b /\ b <= l /\ p <= q /\ d \in Int /\ q + d = p + e
  BY <1>1, <1>2, <1>3, <1>4, <1>5
<1>g. DOMAIN g = 1 .. a + n + (l - b)
  BY <1>3
<1>9. ASSUME NEW i \in 1 .. a
      PROVE  /\ i \in DOMAIN f /\ i \in DOMAIN g /\ g[i].nm = f[i].nm
             /\ g[i].at = f[i].at /\ f[i].at \in Nat /\ f[i].at < p
             /\ After(g[i]) = After(f[i]) /\ After(f[i]) \in Nat /\ After(f[i]) <= p
             /\ EndOf(f, f[i]) >= After(f[i]) /\ EndOf(f, f[i]) \in Nat
             /\ i # m => EndOf(g, g[i]) = EndOf(f, f[i]) /\ EndOf(f, f[i]) <= p
  <2>1. i \in DOMAIN f /\ i \in DOMAIN g /\ i <= a
    BY <1>1, <1>2, <1>3
  <2>2. f[i].at < p
    BY <1>6, <2>1
  <2>3. f[i].len # 0 /\ After(f[i]) <= p /\ (i # m => EndOf(f, f[i]) <= p)
    BY <1>3, <2>1, <2>2 DEF Cut
  <2>4. /\ g[i].nm = f[i].nm /\ g[i].at = f[i].at /\ g[i].head = f[i].head /\ g[i].body = f[i].body
        /\ i # m => g[i].len = f[i].len
    BY DEF Written
  <2>5. After(g[i]) = After(f[i])
    BY <2>4 DEF After, Size
  <2>6. i # m => EndOf(g, g[i]) = EndOf(f, f[i])
    BY <2>3, <2>4 DEF EndOf
  <2>. QED  BY <1>7, <2>1, <2>2, <2>3, <2>4, <2>5, <2>6
<1>10. ASSUME NEW k \in 1 .. n
       PROVE  /\ a + k \in DOMAIN g /\ g[a + k].nm = s[k].nm
              /\ g[a + k].at = p + Reach(s, k - 1)
              /\ After(g[a + k]) = p + Reach(s, k) /\ EndOf(g, g[a + k]) = p + Till(s, k)
  <2>1. a + k \in DOMAIN g
    BY <1>t, <1>g
  <2>2. /\ g[a + k].nm = s[k].nm /\ g[a + k].len = s[k].len
        /\ g[a + k].at = p + Reach(s, k - 1) /\ After(g[a + k]) = p + Reach(s, k)
    BY DEF Written, n
  <2>3. s[k].len # 0 /\ Reach(s, k - 1) \in Nat /\ Till(s, k) \in Nat
    BY <1>2
  <2>4. EndOf(g, g[a + k]) = (p + Reach(s, k - 1)) + s[k].len
    BY <2>2, <2>3 DEF EndOf
  <2>5. (p + Reach(s, k - 1)) + s[k].len = p + Till(s, k)
    <3>1. s[k].len \in Int
      <4>1. IsFile(g)
        BY DEF Written
      <4>2. g[a + k] \in Cell
        BY <2>1, <4>1, Places
      <4>3. g[a + k].len \in Int
        BY <4>2 DEF Cell
      <4>. QED  BY <2>2, <4>3
    <3>2. Till(s, k) = Reach(s, k - 1) + s[k].len
      BY DEF Till
    <3>3. p \in Int /\ Reach(s, k - 1) \in Int
      BY <1>t, <2>3
    <3>4. (p + Reach(s, k - 1)) + s[k].len = p + (Reach(s, k - 1) + s[k].len)
      BY <3>1, <3>3, Sums
    <3>. QED  BY <3>2, <3>4
  <2>. QED  BY <2>1, <2>2, <2>4, <2>5
<1>11. ASSUME NEW i \in b + 1 .. l
       PROVE  LET c == g[Later(s, a, b, i)] IN
              /\ i \in DOMAIN f /\ Later(s, a, b, i) \in DOMAIN g /\ c.nm = f[i].nm
              /\ f[i].at \in Nat /\ f[i].at >= q /\ c.at = f[i].at + d
              /\ After(f[i]) \in Nat /\ After(c) = After(f[i]) + d
              /\ EndOf(f, f[i]) >= After(f[i]) /\ EndOf(f, f[i]) \in Nat
              /\ EndOf(g, c) = EndOf(f, f[i]) + d
  <2> DEFINE c == g[Later(s, a, b, i)]
  <2>1. i \in DOMAIN f /\ i > b
    BY <1>1
  <2>2. Later(s, a, b, i) \in DOMAIN g
    <3>1. Later(s, a, b, i) = a + n + (i - b)
      BY DEF Later, n
    <3>. QED  BY <1>t, <1>g, <3>1
  <2>3. /\ c.nm = f[i].nm /\ c.at = f[i].at + d /\ c.head = f[i].head /\ c.body = f[i].body
        /\ c.len = f[i].len
    BY DEF Written, Later, l, d
  <2> HIDE DEF c
  <2>4. f[i].at \in Nat /\ ~ (f[i].at < q)
    <3>1. ~ (i <= b)
      BY <1>1, <2>1
    <3>. QED  BY <1>6, <1>7, <2>1, <3>1
  <2>5. After(c) = After(f[i]) + d
    <3>1. f[i] \in Cell
      BY <2>1, Places
    <3>2. Size(f[i]) \in Nat /\ Size(c) = Size(f[i])
      BY <2>3, <3>1, CellFacts DEF Size
    <3>. QED  BY <1>3, <2>3, <2>4, <3>2 DEF After
  <2>6. EndOf(g, c) = EndOf(f, f[i]) + d
    <3>1. CASE f[i].len = 0
      <4>1. EndOf(g, c) = FileSz(g) /\ EndOf(f, f[i]) = FileSz(f)
        BY <2>3, <3>1 DEF EndOf
      <4>. QED  BY <1>3, <4>1
    <3>2. CASE f[i].len # 0
      <4>1. EndOf(g, c) = (f[i].at + d) + f[i].len /\ EndOf(f, f[i]) = f[i].at + f[i].len
        BY <2>3, <3>2 DEF EndOf
      <4>2. f[i].len \in Int /\ f[i].at \in Int /\ d \in Int
        BY <1>t, <1>7, <2>1
      <4>3. (f[i].at + d) + f[i].len = (f[i].at + f[i].len) + d
        BY <4>2, Sums
      <4>. QED  BY <4>1, <4>3
    <3>. QED  BY <3>1, <3>2
  <2>7. f[i].at >= q
    <3>1. q \in Int /\ f[i].at \in Int
      BY <1>t, <1>7, <2>1
    <3>. QED  BY <2>4, <3>1, Orders
  <2>. QED  BY <1>7, <2>1, <2>2, <2>3, <2>4, <2>5, <2>6, <2>7 DEF c
<1>12. EndOf(f, f[m]) \in Nat /\ EndOf(g, g[m]) = EndOf(f, f[m]) + d /\ EndOf(g, g[m]) >= p + e
  <2>1. f[m].len # 0 /\ EndOf(f, f[m]) = f[m].at + f[m].len /\ f[m].at \in Nat /\ f[m].len \in Int
        /\ EndOf(f, f[m]) \in Nat
    BY <1>7 DEF Sound
  <2>2. g[m].at = f[m].at /\ g[m].len = f[m].len + d
    BY <1>8 DEF Written, d
  <2>3. (f[m].at + f[m].len) + d >= p + e
    <3>1. f[m].at + f[m].len >= q /\ f[m].at + f[m].len \in Int
      BY <1>4, <2>1
    <3>. QED  BY <1>t, <3>1
  <2>4. f[m].len + d # 0
    <3>0. f[m].at \in Int /\ f[m].len \in Int /\ d \in Int
      BY <1>t, <1>7, <2>1
    <3>1. f[m].at \in Int /\ f[m].len \in Int /\ d \in Int /\ f[m].len + d \in Int
      BY <3>0, Sums
    <3>2. (f[m].at + f[m].len) + d = f[m].at + (f[m].len + d)
      BY <3>1, Sums
    <3>3. f[m].at + (f[m].len + d) >= p + e
      BY <2>3, <3>2
    <3>. QED  BY <1>t, <1>4, <3>1, <3>3, Orders
  <2>5. EndOf(g, g[m]) = f[m].at + (f[m].len + d)
    BY <2>2, <2>4 DEF EndOf
  <2>6. f[m].at + (f[m].len + d) = (f[m].at + f[m].len) + d
    <3>1. f[m].at \in Int /\ f[m].len \in Int /\ d \in Int
      BY <1>t, <2>1
    <3>. QED  BY <3>1, Sums
  <2>. QED  BY <2>1, <2>3, <2>5, <2>6
<1>13. \A x \in DOMAIN g :
          \/ x \in 1 .. a
          \/ \E k \in 1 .. n : x = a + k
          \/ \E i \in b + 1 .. l : x = Later(s, a, b, i)
  <2>1. a \in Nat /\ b \in Nat /\ n \in Nat /\ l \in Nat /\ b <= l
    BY <1>t
  <2>2. InParts(1 .. a + n + (l - b), a, n, b, l)
    BY <2>1, ThreeParts
  <2>. QED  BY <1>g, <2>2 DEF InParts, Later, n
<1>14. {p, q, a, b, l, n, e} \subseteq Nat
  BY <1>1, <1>2, <1>4
<1>15. ASSUME NEW i \in DOMAIN f
       PROVE  /\ f[i].at < p => i \in 1 .. a
              /\ f[i].at >= q => i \in b + 1 .. l
              /\ i \in 1 .. a \/ i \in b + 1 .. l \/ f[i].nm = "udta"
  <2>1. i \in 1 .. l
    BY <1>1 DEF l
  <2>2. /\ i <= a => i \in 1 .. a
        /\ ~ (i <= b) => i \in b + 1 .. l
    BY <1>t, <2>1
  <2>3. (f[i].at < p <=> i <= a) /\ (f[i].at < q <=> i <= b)
    BY <1>6
  <2>4. f[i].at \in Int /\ p \in Int /\ q \in Int
    BY <1>t, <1>7
  <2>5. f[i].at >= q => ~ (f[i].at < q)
    BY <2>4
  <2>6. ~ (f[i].at < p) => p <= f[i].at
    BY <2>4
  <2>7. p <= f[i].at /\ f[i].at < q => f[i].nm = "udta"
    BY <1>3 DEF Cut
  <2>. QED  BY <2>2, <2>3, <2>5, <2>6, <2>7
<1>. QED
  BY <1>1, <1>3, <1>4, <1>5, <1>8, <1>9, <1>10, <1>11, <1>12, <1>13, <1>14, <1>15 DEF Laid, n, l, e, d

\* The places of boxes in front of the inserted ones, behind them and among them.
LEMMA WrittenPlaces ==
  ASSUME NEW f, IsFile(f), NEW m, NEW s, ListBoxes(s), NEW g, IsFile(g),
         NEW p, NEW q, NEW a, NEW b,
         AtBox(f, p), AtBox(f, q), Laid(f, g, s, m, p, q, a, b)
  PROVE  /\ \A v : AtBox(f, v) /\ v < p => AtBox(g, v)
         /\ \A v : AtBox(f, v) /\ v >= q => AtBox(g, v + Moved(s, p, q))
         /\ \A k \in 0 .. Len(s) : AtBox(g, p + Reach(s, k))
<1> DEFINE n == Len(s)
           l == Len(f)
           e == Extent(s)
           d == Moved(s, p, q)
<1>1. /\ p \in Nat /\ q \in Nat /\ a \in Nat /\ b \in Nat /\ l \in Nat /\ n \in Nat /\ e \in Nat
      /\ d \in Int /\ p <= q /\ q + d = p + e
      /\ FileSz(f) \in Nat /\ FileSz(g) = FileSz(f) + d
  BY DEF Laid
<1>2. n >= 5 /\ Reach(s, n) = e
  BY DEF ListBoxes
<1>3. \A i \in 1 .. a : i \in DOMAIN g /\ g[i].at = f[i].at
  BY DEF Laid
<1>4. \A k \in 1 .. n : a + k \in DOMAIN g /\ g[a + k].at = p + Reach(s, k - 1)
  BY DEF Laid
<1>5. \A i \in b + 1 .. l : \E j \in DOMAIN g : g[j].at = f[i].at + d
  BY DEF Laid
<1>6. \A i \in DOMAIN f : /\ f[i].at < p => i \in 1 .. a
                          /\ f[i].at >= q => i \in b + 1 .. l
  BY DEF Laid
<1>7. p <= FileSz(f)
  <2>1. CASE p = FileSz(f)
    BY <1>1, <2>1
  <2>2. CASE p # FileSz(f)
    <3>1. PICK i \in DOMAIN f : f[i].at = p
      BY <2>2 DEF AtBox, Starts
    <3>2. f[i] \in Cell /\ After(f[i]) <= FileSz(f)
      BY Places
    <3>3. Size(f[i]) \in Nat /\ After(f[i]) = p + Size(f[i])
      BY <3>1, <3>2, CellFacts
    <3>4. p + Size(f[i]) <= FileSz(f)
      BY <3>2, <3>3
    <3> DEFINE y == Size(f[i])
    <3>5. y \in Nat /\ p + y <= FileSz(f)
      BY <3>3, <3>4
    <3> HIDE DEF y
    <3>. QED  BY <1>1, <3>5
  <2>. QED  BY <2>1, <2>2
<1> HIDE DEF n, l, e, d
<1>8. ASSUME NEW v, AtBox(f, v), v < p
      PROVE  AtBox(g, v)
  <2>1. v # FileSz(f)
    BY <1>1, <1>7, <1>8
  <2>2. PICK i \in DOMAIN f : f[i].at = v
    BY <1>8, <2>1 DEF AtBox, Starts
  <2>3. i \in DOMAIN g /\ g[i].at = v
    BY <1>3, <1>6, <1>8, <2>2
  <2>. QED  BY <2>3 DEF AtBox, Starts
<1>9. ASSUME NEW v, AtBox(f, v), v >= q
      PROVE  AtBox(g, v + d)
  <2>1. CASE v = FileSz(f)
    BY <1>1, <2>1 DEF AtBox
  <2>2. CASE v # FileSz(f)
    <3>1. PICK i \in DOMAIN f : f[i].at = v
      BY <1>9, <2>2 DEF AtBox, Starts
    <3>2. \E j \in DOMAIN g : g[j].at = v + d
      BY <1>5, <1>6, <1>9, <3>1
    <3>. QED  BY <3>2 DEF AtBox, Starts
  <2>. QED  BY <2>1, <2>2
<1>10. ASSUME NEW k \in 0 .. n
       PROVE  AtBox(g, p + Reach(s, k))
  <2>1. CASE k = n
    <3>1. q + d = p + Reach(s, k)
      BY <1>1, <1>2, <2>1
    <3>2. q >= q
      BY <1>1
    <3>3. AtBox(g, q + d)
      BY <1>9, <3>2
    <3>. QED  BY <3>1, <3>3
  <2>2. CASE k # n
    <3>1. k + 1 \in 1 .. n /\ (k + 1) - 1 = k
      BY <1>1, <2>2
    <3>2. a + (k + 1) \in DOMAIN g /\ g[a + (k + 1)].at = p + Reach(s, k)
      BY <1>4, <3>1
    <3>. QED  BY <3>2 DEF AtBox, Starts
  <2>. QED  BY <2>1, <2>2
<1>. QED
  BY <1>8, <1>9, <1>10 DEF n, d

\* Every box ends where a box starts or the file ends.
LEMMA EndsWritten ==
  ASSUME NEW f, IsFile(f), Readable(f), NEW m, NEW s, ListBoxes(s), NEW g, IsFile(g),
         NEW p, NEW q, NEW a, NEW b,
         AtBox(f, p), AtBox(f, q), q <= EndOf(f, f[m]), Laid(f, g, s, m, p, q, a, b)
  PROVE  \A x \in DOMAIN g : AtBox(g, EndOf(g, g[x])) /\ EndOf(g, g[x]) >= After(g[x])
<1> DEFINE n == Len(s)
           l == Len(f)
           e == Extent(s)
           d == Moved(s, p, q)
<1>1. /\ p \in Nat /\ q \in Nat /\ d \in Int /\ p <= q /\ q + d = p + e /\ e \in Nat
      /\ n \in Nat /\ m \in 1 .. a
  BY DEF Laid
<1>2. \A i \in DOMAIN f : AtBox(f, EndOf(f, f[i]))
  BY DEF Readable, BoxTree, AtBox
<1>3. /\ \A v : AtBox(f, v) /\ v < p => AtBox(g, v)
      /\ \A v : AtBox(f, v) /\ v >= q => AtBox(g, v + d)
      /\ \A k \in 0 .. n : AtBox(g, p + Reach(s, k))
  BY WrittenPlaces
<1>4. AtBox(g, p)
  <2>1. 0 \in 0 .. n /\ p + 0 = p
    BY <1>1
  <2>2. Reach(s, 0) = 0
    BY DEF ListBoxes
  <2>. QED  BY <1>3, <2>1, <2>2
<1> HIDE DEF n, l, e, d
<1>5. ASSUME NEW i \in 1 .. a
      PROVE  AtBox(g, EndOf(g, g[i])) /\ EndOf(g, g[i]) >= After(g[i])
  <2>1. /\ i \in DOMAIN f /\ After(g[i]) = After(f[i]) /\ After(f[i]) \in Nat /\ After(f[i]) <= p
        /\ EndOf(f, f[i]) >= After(f[i]) /\ EndOf(f, f[i]) \in Nat
        /\ i # m => EndOf(g, g[i]) = EndOf(f, f[i]) /\ EndOf(f, f[i]) <= p
    BY DEF Laid
  <2>2. CASE i = m
    <3>1. EndOf(g, g[m]) = EndOf(f, f[m]) + d /\ EndOf(f, f[m]) \in Nat /\ EndOf(g, g[m]) >= p + e
      BY DEF Laid, d, e
    <3>2. EndOf(f, f[m]) >= q
      BY <1>1, <3>1
    <3>3. AtBox(g, EndOf(f, f[m]) + d)
      BY <1>2, <1>3, <2>1, <2>2, <3>2
    <3>4. EndOf(g, g[m]) >= After(g[m])
      <4>1. EndOf(g, g[m]) \in Int /\ After(g[m]) \in Nat /\ After(g[m]) <= p
        BY <1>1, <2>1, <2>2, <3>1
      <4>. QED  BY <1>1, <3>1, <4>1
    <3>. QED  BY <2>2, <3>1, <3>3, <3>4
  <2>3. CASE i # m
    <3>1. EndOf(f, f[i]) < p \/ EndOf(f, f[i]) = p
      BY <1>1, <2>1, <2>3
    <3>2. AtBox(g, EndOf(f, f[i]))
      BY <1>2, <1>3, <1>4, <2>1, <3>1
    <3>. QED  BY <2>1, <2>3, <3>2
  <2>. QED  BY <2>2, <2>3
<1>6. ASSUME NEW k \in 1 .. n
      PROVE  AtBox(g, EndOf(g, g[a + k])) /\ EndOf(g, g[a + k]) >= After(g[a + k])
  <2>1. After(g[a + k]) = p + Reach(s, k) /\ EndOf(g, g[a + k]) = p + Till(s, k)
    BY DEF Laid, n
  <2>2. /\ Till(s, k) \in Nat /\ Till(s, k) >= Reach(s, k)
        /\ \E j \in k .. n : Till(s, k) = Reach(s, j)
    BY DEF ListBoxes, n
  <2>3. PICK j \in k .. n : Till(s, k) = Reach(s, j)
    BY <2>2
  <2>4. j \in 0 .. n /\ k \in 0 .. n
    BY <1>1
  <2>5. AtBox(g, p + Till(s, k))
    BY <1>3, <2>3, <2>4
  <2>6. Reach(s, k) \in Nat
    BY <2>4 DEF ListBoxes, n
  <2>7. p + Till(s, k) >= p + Reach(s, k)
    BY <1>1, <2>2, <2>6
  <2>. QED  BY <2>1, <2>5, <2>7
<1>7. ASSUME NEW i \in b + 1 .. l
      PROVE  LET c == g[Later(s, a, b, i)] IN AtBox(g, EndOf(g, c)) /\ EndOf(g, c) >= After(c)
  <2> DEFINE c == g[Later(s, a, b, i)]
  <2>1. /\ i \in DOMAIN f /\ f[i].at \in Nat /\ f[i].at >= q
        /\ After(f[i]) \in Nat /\ After(c) = After(f[i]) + d
        /\ EndOf(f, f[i]) >= After(f[i]) /\ EndOf(f, f[i]) \in Nat
        /\ EndOf(g, c) = EndOf(f, f[i]) + d
    BY DEF Laid, l, d
  <2> HIDE DEF c
  <2>2. EndOf(f, f[i]) >= q
    <3>1. f[i] \in Cell
      BY <2>1, Places
    <3>2. Size(f[i]) \in Nat /\ After(f[i]) = f[i].at + Size(f[i])
      BY <3>1, CellFacts
    <3>3. After(f[i]) >= f[i].at
      BY <2>1, <3>2
    <3>. QED  BY <1>1, <2>1, <3>3
  <2>3. AtBox(g, EndOf(f, f[i]) + d)
    BY <1>2, <1>3, <2>1, <2>2
  <2>4. EndOf(f, f[i]) + d >= After(f[i]) + d
    BY <1>1, <2>1
  <2>. QED  BY <2>1, <2>3, <2>4 DEF c
<1>8. \A x \in DOMAIN g :
        \/ x \in 1 .. a
        \/ \E k \in 1 .. n : x = a + k
        \/ \E i \in b + 1 .. l : x = Later(s, a, b, i)
  BY DEF Laid, n, l
<1>. QED
  BY <1>5, <1>6, <1>7, <1>8

\* The boxes of g nest as they should: those kept as before, the inserted ones
\* in moov.
LEMMA NestWritten ==
  ASSUME NEW f, IsFile(f), Readable(f), NEW m \in DOMAIN f, Sound(f, m), NEW s, ListBoxes(s),
         NEW g, NEW p, NEW q, NEW a, NEW b, Laid(f, g, s, m, p, q, a, b)
  PROVE  \A x, y \in DOMAIN g :
           g[y].at < g[x].at /\ g[x].at < EndOf(g, g[y]) => EndOf(g, g[x]) <= EndOf(g, g[y])
<1> DEFINE n == Len(s)
           l == Len(f)
           e == Extent(s)
           d == Moved(s, p, q)
           Nest(x, y) == g[y].at < g[x].at /\ g[x].at < EndOf(g, g[y])
                           => EndOf(g, g[x]) <= EndOf(g, g[y])
           Nice(i, j) == f[j].at < f[i].at /\ f[i].at < EndOf(f, f[j])
                           => EndOf(f, f[i]) <= EndOf(f, f[j])
           B(i) == Later(s, a, b, i)
<1>1. /\ p \in Nat /\ q \in Nat /\ d \in Int /\ p <= q /\ q + d = p + e /\ e \in Nat
      /\ n \in Nat /\ m \in 1 .. a
      /\ EndOf(f, f[m]) \in Nat /\ EndOf(g, g[m]) = EndOf(f, f[m]) + d /\ EndOf(g, g[m]) >= p + e
  BY DEF Laid
<1>2. \A i, j \in DOMAIN f : Nice(i, j)
  BY DEF Readable, BoxTree, Enclosing
<1>3. \A i \in 1 .. a :
        /\ i \in DOMAIN f /\ g[i].at = f[i].at /\ f[i].at \in Nat /\ f[i].at < p
        /\ EndOf(f, f[i]) \in Nat
        /\ i # m => EndOf(g, g[i]) = EndOf(f, f[i]) /\ EndOf(f, f[i]) <= p
  BY DEF Laid
<1>4. \A k \in 1 .. n :
        /\ g[a + k].at = p + Reach(s, k - 1) /\ EndOf(g, g[a + k]) = p + Till(s, k)
        /\ Reach(s, k - 1) \in Nat /\ Till(s, k) \in Nat
        /\ Reach(s, k - 1) <= e /\ Till(s, k) <= e
  <2>1. \A k \in 1 .. n : k - 1 \in 0 .. n
    BY <1>1
  <2>2. \A k \in 1 .. n : g[a + k].at = p + Reach(s, k - 1) /\ EndOf(g, g[a + k]) = p + Till(s, k)
    BY DEF Laid
  <2>3. \A k \in 0 .. n : Reach(s, k) \in Nat /\ Reach(s, k) <= e
    BY DEF ListBoxes
  <2>4. \A k \in 1 .. n : Till(s, k) \in Nat /\ Till(s, k) <= e
    BY DEF ListBoxes
  <2> HIDE DEF n, e
  <2>. QED  BY <2>1, <2>2, <2>3, <2>4
<1>5. \A j, k \in 1 .. n : Reach(s, j - 1) < Reach(s, k - 1) /\ Reach(s, k - 1) < Till(s, j)
                             => Till(s, k) <= Till(s, j)
  BY DEF ListBoxes
<1>6. \A i \in b + 1 .. l :
        /\ i \in DOMAIN f /\ f[i].at \in Nat /\ f[i].at >= q /\ g[B(i)].at = f[i].at + d
        /\ EndOf(f, f[i]) \in Nat /\ EndOf(g, g[B(i)]) = EndOf(f, f[i]) + d
  BY DEF Laid
<1>7. \A i \in 1 .. a : g[i].at \in Nat /\ g[i].at < p
  BY <1>3
<1>8. \A k \in 1 .. n : /\ g[a + k].at \in Nat /\ g[a + k].at >= p /\ g[a + k].at <= p + e
                        /\ EndOf(g, g[a + k]) \in Nat /\ EndOf(g, g[a + k]) <= p + e
  <2> SUFFICES ASSUME NEW k \in 1 .. n
               PROVE  /\ g[a + k].at \in Nat /\ g[a + k].at >= p /\ g[a + k].at <= p + e
                      /\ EndOf(g, g[a + k]) \in Nat /\ EndOf(g, g[a + k]) <= p + e
    OBVIOUS
  <2> DEFINE u == Reach(s, k - 1)
             v == Till(s, k)
  <2>1. u \in Nat /\ v \in Nat /\ u <= e /\ v <= e
        /\ g[a + k].at = p + u /\ EndOf(g, g[a + k]) = p + v
    BY <1>4
  <2> HIDE DEF u, v, e, n
  <2>. QED  BY <1>1, <2>1
<1>9. \A i \in b + 1 .. l : g[B(i)].at \in Int /\ g[B(i)].at >= p + e
  <2> SUFFICES ASSUME NEW i \in b + 1 .. l
               PROVE  g[B(i)].at \in Int /\ g[B(i)].at >= p + e
    OBVIOUS
  <2> DEFINE u == f[i].at
             c == g[B(i)].at
  <2>1. u \in Nat /\ u >= q /\ c = u + d
    BY <1>6
  <2> HIDE DEF u, c, d, e
  <2>2. c \in Int /\ c >= p + e
    BY <1>1, <2>1
  <2>. QED  BY <2>2 DEF c
<1> HIDE DEF n, l, e, d, B
\* A box in front.
<1>10. ASSUME NEW x \in 1 .. a, NEW y \in 1 .. a
       PROVE  Nest(x, y)
  <2>1. CASE x = m /\ y = m
    BY <1>7, <2>1
  <2>2. CASE x # m /\ y = m
    <3>1. EndOf(g, g[x]) <= p /\ EndOf(g, g[x]) \in Nat
      BY <1>3, <2>2
    <3>2. EndOf(g, g[m]) \in Int
      BY <1>1
    <3>. QED  BY <1>1, <2>2, <3>1, <3>2
  <2>3. CASE x = m /\ y # m
    <3>1. y \in DOMAIN f /\ Enclosing(f, m) = {}
      BY <1>3 DEF Sound
    <3>2. ~ (f[y].at < f[m].at /\ f[m].at < EndOf(f, f[y]))
      BY <3>1 DEF Enclosing
    <3>. QED  BY <1>1, <1>3, <2>3, <3>2
  <2>4. CASE x # m /\ y # m
    BY <1>2, <1>3, <2>4
  <2>. QED  BY <2>1, <2>2, <2>3, <2>4
<1>11. ASSUME NEW x \in 1 .. a, NEW y, g[y].at \in Int, g[y].at >= p
       PROVE  Nest(x, y)
  BY <1>1, <1>7, <1>11
\* An inserted box, or one behind, in one in front.
<1>12. ASSUME NEW k \in 1 .. n, NEW y \in 1 .. a
       PROVE  Nest(a + k, y)
  <2>1. CASE y = m
    <3>1. EndOf(g, g[m]) \in Int
      BY <1>1
    <3>. QED  BY <1>1, <1>8, <2>1, <3>1
  <2>2. CASE y # m
    BY <1>1, <1>3, <1>8, <2>2
  <2>. QED  BY <2>1, <2>2
<1>13. ASSUME NEW i \in b + 1 .. l, NEW y \in 1 .. a
       PROVE  Nest(B(i), y)
  <2>1. CASE y = m
    <3>1. Nice(i, m) /\ f[m].at < p /\ f[m].at \in Nat /\ EndOf(f, f[m]) \in Nat
      BY <1>1, <1>2, <1>3, <1>6
    <3>2. f[i].at \in Nat /\ f[i].at >= q /\ EndOf(f, f[i]) \in Nat
      BY <1>6
    <3>3. g[B(i)].at = f[i].at + d /\ EndOf(g, g[B(i)]) = EndOf(f, f[i]) + d
          /\ EndOf(g, g[m]) = EndOf(f, f[m]) + d
      BY <1>1, <1>6
    <3>4. f[m].at < f[i].at
      BY <1>1, <3>1, <3>2
    <3>5. f[i].at < EndOf(f, f[m]) => EndOf(f, f[i]) <= EndOf(f, f[m])
      BY <3>1, <3>4
    <3>6. /\ f[i].at + d < EndOf(f, f[m]) + d => f[i].at < EndOf(f, f[m])
          /\ EndOf(f, f[i]) <= EndOf(f, f[m]) => EndOf(f, f[i]) + d <= EndOf(f, f[m]) + d
      BY <1>1, <3>1, <3>2
    <3>. QED  BY <2>1, <3>3, <3>5, <3>6
  <2>2. CASE y # m
    BY <1>1, <1>3, <1>9, <2>2
  <2>. QED  BY <2>1, <2>2
\* An inserted box, or one behind, in an inserted one.
<1>14. ASSUME NEW k \in 1 .. n, NEW j \in 1 .. n
       PROVE  Nest(a + k, a + j)
  <2> DEFINE u == Reach(s, k - 1)
             v == Till(s, k)
             t == Reach(s, j - 1)
             w == Till(s, j)
  <2>1. /\ u \in Nat /\ v \in Nat /\ t \in Nat /\ w \in Nat
        /\ g[a + k].at = p + u /\ EndOf(g, g[a + k]) = p + v
        /\ g[a + j].at = p + t /\ EndOf(g, g[a + j]) = p + w
        /\ t < u /\ u < w => v <= w
    BY <1>4, <1>5
  <2> HIDE DEF u, v, t, w
  <2>2. p + t < p + u /\ p + u < p + w => p + v <= p + w
    BY <1>1, <2>1
  <2>. QED  BY <2>1, <2>2
<1>15. ASSUME NEW i \in b + 1 .. l, NEW j \in 1 .. n
       PROVE  Nest(B(i), a + j)
  BY <1>1, <1>8, <1>9
<1>16. ASSUME NEW k \in 1 .. n, NEW i \in b + 1 .. l
       PROVE  Nest(a + k, B(i))
  BY <1>1, <1>8, <1>9
<1>17. ASSUME NEW i \in b + 1 .. l, NEW j \in b + 1 .. l
       PROVE  Nest(B(i), B(j))
  <2>1. /\ Nice(i, j)
        /\ g[B(i)].at = f[i].at + d /\ EndOf(g, g[B(i)]) = EndOf(f, f[i]) + d
        /\ g[B(j)].at = f[j].at + d /\ EndOf(g, g[B(j)]) = EndOf(f, f[j]) + d
        /\ f[i].at \in Nat /\ f[j].at \in Nat
        /\ EndOf(f, f[i]) \in Nat /\ EndOf(f, f[j]) \in Nat
    BY <1>2, <1>6
  <2>2. /\ f[j].at + d < f[i].at + d => f[j].at < f[i].at
        /\ f[i].at + d < EndOf(f, f[j]) + d => f[i].at < EndOf(f, f[j])
        /\ EndOf(f, f[i]) <= EndOf(f, f[j]) => EndOf(f, f[i]) + d <= EndOf(f, f[j]) + d
    BY <1>1, <2>1
  <2>. QED  BY <2>1, <2>2
<1>18. \A x \in DOMAIN g :
         \/ x \in 1 .. a
         \/ \E k \in 1 .. n : x = a + k
         \/ \E i \in b + 1 .. l : x = B(i)
  BY DEF Laid, n, l, B
<1>19. ASSUME NEW x \in DOMAIN g, NEW y \in DOMAIN g
       PROVE  Nest(x, y)
  <2>1. CASE x \in 1 .. a /\ y \in 1 .. a
    BY <1>10, <2>1
  <2>2. CASE x \in 1 .. a /\ y \notin 1 .. a
    <3>1. g[y].at \in Int /\ g[y].at >= p
      <4>1. CASE \E k \in 1 .. n : y = a + k
        BY <1>8, <4>1
      <4>2. CASE \E i \in b + 1 .. l : y = B(i)
        <5>1. g[y].at \in Int /\ g[y].at >= p + e
          BY <1>9, <4>2
        <5>. QED  BY <1>1, <5>1
      <4>. QED  BY <1>18, <2>2, <4>1, <4>2
    <3>. QED  BY <1>11, <2>2, <3>1
  <2> HIDE DEF Nest
  <2>3. CASE x \notin 1 .. a /\ y \in 1 .. a
    BY <1>12, <1>13, <1>18, <2>3
  <2>4. CASE x \notin 1 .. a /\ y \notin 1 .. a
    BY <1>14, <1>15, <1>16, <1>17, <1>18, <2>4
  <2>. QED  BY <2>1, <2>2, <2>3, <2>4
<1>. QED
  BY <1>19

\* So the written file is a tree of boxes.
LEMMA TreeWritten ==
  ASSUME NEW f, IsFile(f), Readable(f), NEW m \in DOMAIN f, Sound(f, m), NEW s, ListBoxes(s),
         NEW g, IsFile(g), NEW p, NEW q, NEW a, NEW b,
         AtBox(f, p), AtBox(f, q), q <= EndOf(f, f[m]), Laid(f, g, s, m, p, q, a, b)
  PROVE  BoxTree(g)
<1>1. \A x \in DOMAIN g : AtBox(g, EndOf(g, g[x])) /\ EndOf(g, g[x]) >= After(g[x])
  BY EndsWritten
<1>2. \A x, y \in DOMAIN g :
        g[y].at < g[x].at /\ g[x].at < EndOf(g, g[y]) => EndOf(g, g[x]) <= EndOf(g, g[y])
  BY NestWritten
<1>. QED
  BY <1>1, <1>2 DEF BoxTree, AtBox, Enclosing

\* The one tag list lies in the inserted udta and meta, which lie in moov.
LEMMA ListWritten ==
  ASSUME NEW f, IsFile(f), NEW m \in DOMAIN f, Sound(f, m), NEW s, ListBoxes(s),
         NEW g, NEW p, NEW q, NEW a, NEW b, Laid(f, g, s, m, p, q, a, b)
  PROVE  ListAtPlace(g)
<1> DEFINE n == Len(s)
           l == Len(f)
           e == Extent(s)
           r == a + 4
           B(i) == Later(s, a, b, i)
<1>1. /\ p \in Nat /\ a \in Nat /\ n \in Nat /\ n >= 5 /\ e \in Nat /\ e > 53 /\ m \in 1 .. a
      /\ EndOf(g, g[m]) \in Int /\ EndOf(g, g[m]) >= p + e
  <2>1. /\ p \in Nat /\ a \in Nat /\ n \in Nat /\ e \in Nat /\ m \in 1 .. a
        /\ EndOf(g, g[m]) >= p + e
        /\ EndOf(f, f[m]) \in Nat /\ Moved(s, p, q) \in Int
        /\ EndOf(g, g[m]) = EndOf(f, f[m]) + Moved(s, p, q)
    BY DEF Laid
  <2>2. n >= 5 /\ e > 53
    BY DEF ListBoxes
  <2>. QED  BY <2>1, <2>2
<1>2. \A i \in 1 .. a : /\ i \in DOMAIN f /\ i \in DOMAIN g /\ g[i].nm = f[i].nm
                        /\ g[i].at \in Nat /\ g[i].at < p
                        /\ i # m => EndOf(g, g[i]) \in Nat /\ EndOf(g, g[i]) <= p
  BY DEF Laid
<1>3. \A k \in 1 .. n : /\ a + k \in DOMAIN g /\ g[a + k].nm = s[k].nm
                        /\ g[a + k].at = p + Reach(s, k - 1) /\ EndOf(g, g[a + k]) = p + Till(s, k)
  BY DEF Laid
<1>4. \A i \in b + 1 .. l : /\ i \in DOMAIN f /\ g[B(i)].nm = f[i].nm
                            /\ g[B(i)].at \in Int /\ g[B(i)].at >= p + e
  <2>1. /\ q \in Nat /\ Moved(s, p, q) \in Int /\ q + Moved(s, p, q) = p + e
    BY DEF Laid
  <2> SUFFICES ASSUME NEW i \in b + 1 .. l
               PROVE  /\ i \in DOMAIN f /\ g[B(i)].nm = f[i].nm
                      /\ g[B(i)].at \in Int /\ g[B(i)].at >= p + e
    OBVIOUS
  <2> DEFINE u == f[i].at
             c == g[B(i)].at
             d == Moved(s, p, q)
  <2>2. i \in DOMAIN f /\ g[B(i)].nm = f[i].nm /\ u \in Nat /\ u >= q /\ c = u + d
    BY DEF Laid
  <2>3. d \in Int /\ q + d = p + e
    BY <2>1
  <2> HIDE DEF u, c, d, e
  <2>4. c \in Int /\ c >= p + e
    BY <1>1, <2>1, <2>2, <2>3
  <2>. QED  BY <2>2, <2>4 DEF c
<1>5. \A x \in DOMAIN g :
        \/ x \in 1 .. a
        \/ \E k \in 1 .. n : x = a + k
        \/ \E i \in b + 1 .. l : x = B(i)
  BY DEF Laid
<1>6. /\ s[1].nm = "udta" /\ s[2].nm = "meta"
      /\ Reach(s, 0) = 0 /\ Reach(s, 1) = 8 /\ Reach(s, 3) = 53
      /\ Till(s, 1) = e /\ Till(s, 2) = e /\ Till(s, 3) = 53
      /\ \A k \in 1 .. n : s[k].nm = "ilst" <=> k = 4
      /\ \A k \in 4 .. n : Reach(s, k - 1) >= 53
      /\ \A k \in 0 .. n : Reach(s, k) \in Nat
  BY DEF ListBoxes
<1> HIDE DEF n, l, e, B
<1>7. 1 \in 1 .. n /\ 2 \in 1 .. n /\ 3 \in 1 .. n /\ 4 \in 1 .. n /\ 4 - 1 = 3 /\ 1 - 1 = 0 /\ 2 - 1 = 1
  BY <1>1
<1>8. r \in DOMAIN g /\ g[r].nm = "ilst" /\ g[r].at = p + 53
  <2>1. s[4].nm = "ilst" /\ Reach(s, 4 - 1) = 53
    BY <1>6, <1>7
  <2>. QED  BY <1>3, <1>7, <2>1
<1>9. \A x \in DOMAIN g : g[x].nm = "ilst" => x = r
  <2>1. \A i \in DOMAIN f : f[i].nm # "ilst"
    BY DEF Sound
  <2>. QED  BY <1>2, <1>3, <1>4, <1>5, <1>6, <2>1
<1>10. /\ m \in DOMAIN g /\ g[m].nm = "moov"
       /\ g[m].at < g[r].at /\ g[r].at < EndOf(g, g[m])
  <2>1. m \in DOMAIN g /\ g[m].nm = "moov" /\ g[m].at \in Nat /\ g[m].at < p
    BY <1>1, <1>2 DEF Sound
  <2>. QED  BY <1>1, <1>8, <2>1
<1>11. /\ a + 1 \in DOMAIN g /\ g[a + 1].nm = "udta"
       /\ g[a + 1].at < g[r].at /\ g[r].at < EndOf(g, g[a + 1])
  <2>1. a + 1 \in DOMAIN g /\ g[a + 1].nm = "udta" /\ g[a + 1].at = p + 0 /\ EndOf(g, g[a + 1]) = p + e
    BY <1>3, <1>6, <1>7
  <2>. QED  BY <1>1, <1>8, <2>1
<1>12. /\ a + 2 \in DOMAIN g /\ g[a + 2].nm = "meta"
       /\ g[a + 2].at < g[r].at /\ g[r].at < EndOf(g, g[a + 2])
  <2>1. a + 2 \in DOMAIN g /\ g[a + 2].nm = "meta" /\ g[a + 2].at = p + 8 /\ EndOf(g, g[a + 2]) = p + e
    BY <1>3, <1>6, <1>7
  <2>. QED  BY <1>1, <1>8, <2>1
<1>13. ASSUME NEW y \in DOMAIN g, g[y].at < g[r].at, g[r].at < EndOf(g, g[y])
       PROVE  y \in {m, a + 1, a + 2}
  <2>1. CASE y \in 1 .. a
    <3>1. y = m
      BY <1>1, <1>2, <1>8, <1>13, <2>1
    <3>. QED  BY <3>1
  <2>2. CASE \E k \in 1 .. n : y = a + k
    <3>1. PICK k \in 1 .. n : y = a + k
      BY <2>2
    <3>2. g[y].at = p + Reach(s, k - 1) /\ EndOf(g, g[y]) = p + Till(s, k)
      BY <1>3, <3>1
    <3>3. k \notin 4 .. n
      <4>1. ASSUME k \in 4 .. n
            PROVE  FALSE
        <5>1. k - 1 \in 0 .. n /\ Reach(s, k - 1) >= 53
          BY <1>1, <1>6, <4>1
        <5>2. Reach(s, k - 1) \in Nat
          BY <1>6, <5>1
        <5>. QED  BY <1>1, <1>8, <1>13, <3>2, <5>1, <5>2
      <4>. QED  BY <4>1
    <3>4. k # 3
      <4>1. ASSUME k = 3
            PROVE  FALSE
        <5>1. EndOf(g, g[y]) = p + 53
          BY <1>6, <3>2, <4>1
        <5>. QED  BY <1>1, <1>8, <1>13, <5>1
      <4>. QED  BY <4>1
    <3>5. k = 1 \/ k = 2
      BY <1>1, <3>3, <3>4
    <3>. QED  BY <3>1, <3>5
  <2>3. CASE \E i \in b + 1 .. l : y = B(i)
    <3>1. g[y].at \in Int /\ g[y].at >= p + e
      BY <1>4, <2>3
    <3>. QED  BY <1>1, <1>8, <1>13, <3>1
  <2>. QED  BY <1>5, <2>1, <2>2, <2>3
<1>14. {i \in DOMAIN g : g[i].nm = "ilst"} = {r}
  BY <1>8, <1>9
<1>15. Enclosing(g, r) = {m, a + 1, a + 2}
  BY <1>10, <1>11, <1>12, <1>13 DEF Enclosing
<1> HIDE DEF r
<1>16. r \in DOMAIN g
  BY <1>8
<1>. QED
  BY <1>10, <1>11, <1>12, <1>14, <1>15, <1>16 DEF ListAtPlace

\* The cells of f that are no boxes of the old udta, where they are in g.
KeptCell(f, g, s, p, q, x, i) ==
  /\ g[x].nm = f[i].nm /\ g[x].id = f[i].id /\ g[x].head = f[i].head
  /\ f[i].nm \in {"stco", "co64"} => g[x].entry = NewEntry(f[i], q, Moved(s, p, q))
  /\ \/ g[x].at = f[i].at /\ After(f[i]) <= p
     \/ g[x].at = f[i].at + Moved(s, p, q) /\ f[i].at >= q

\* The tables and the media data are among them.
LEMMA KeptCells ==
  ASSUME NEW f, NEW m, NEW s, ListBoxes(s), NEW g, NEW p, NEW q, NEW a, NEW b,
         Laid(f, g, s, m, p, q, a, b), Written(f, g, s, m, p, q, a, b),
         WrittenEntries(f, g, s, p, q, a, b)
  PROVE  \A x \in DOMAIN g : g[x].nm \in {"stco", "co64", "mdat"} =>
           \E i \in DOMAIN f : KeptCell(f, g, s, p, q, x, i)
<1> DEFINE n == Len(s)
           l == Len(f)
<1>1. ASSUME NEW i \in 1 .. a
      PROVE  i \in DOMAIN f /\ KeptCell(f, g, s, p, q, i, i)
  <2>1. i \in DOMAIN f /\ g[i].at = f[i].at /\ After(f[i]) <= p
    BY DEF Laid
  <2>2. g[i].nm = f[i].nm /\ g[i].id = f[i].id /\ g[i].head = f[i].head
    BY DEF Written
  <2>3. f[i].nm \in {"stco", "co64"} => g[i].entry = NewEntry(f[i], q, Moved(s, p, q))
    BY DEF WrittenEntries
  <2>. QED  BY <2>1, <2>2, <2>3 DEF KeptCell
<1>2. ASSUME NEW i \in b + 1 .. l
      PROVE  i \in DOMAIN f /\ KeptCell(f, g, s, p, q, Later(s, a, b, i), i)
  <2> DEFINE x == Later(s, a, b, i)
  <2>1. i \in DOMAIN f /\ g[x].at = f[i].at + Moved(s, p, q) /\ f[i].at >= q
    BY DEF Laid
  <2>2. g[x].nm = f[i].nm /\ g[x].id = f[i].id /\ g[x].head = f[i].head
    BY DEF Written, Later
  <2>3. f[i].nm \in {"stco", "co64"} => g[x].entry = NewEntry(f[i], q, Moved(s, p, q))
    BY DEF WrittenEntries, Later
  <2> HIDE DEF x
  <2>4. KeptCell(f, g, s, p, q, x, i)
    BY <2>1, <2>2, <2>3 DEF KeptCell
  <2>. QED  BY <2>1, <2>4 DEF x
<1>3. \A k \in 1 .. n : g[a + k].nm \notin {"stco", "co64", "mdat"}
  <2>1. \A k \in 1 .. n : g[a + k].nm = s[k].nm
    BY DEF Laid
  <2>2. \A k \in 1 .. n : s[k].nm \in {"udta", "meta", "hdlr", "ilst", "tag", "free"}
    BY DEF ListBoxes
  <2>. QED  BY <2>1, <2>2
<1>4. \A x \in DOMAIN g :
        \/ x \in 1 .. a
        \/ \E k \in 1 .. n : x = a + k
        \/ \E i \in b + 1 .. l : x = Later(s, a, b, i)
  BY DEF Laid
<1> HIDE DEF n, l
<1>. QED
  BY <1>1, <1>2, <1>3, <1>4

\* An entry that fits is not cut.
LEMMA SmallMod ==
  ASSUME NEW x \in Nat, NEW k \in Nat, x < k
  PROVE  x % k = x
OBVIOUS

\* An entry has been moved by as much as the media data.
LEMMA ChunksWritten ==
  ASSUME NEW f, IsFile(f), TablesSound(f), NEW m, NEW s, ListBoxes(s), NEW g, IsFile(g),
         NEW p, NEW q, NEW a, NEW b,
         Laid(f, g, s, m, p, q, a, b), Written(f, g, s, m, p, q, a, b),
         WrittenEntries(f, g, s, p, q, a, b), FileSz(g) < StcoMod
  PROVE  ChunksRight(g)
<1> DEFINE d == Moved(s, p, q)
<1>1. p \in Nat /\ q \in Nat /\ p <= q /\ d \in Int
  BY DEF Laid
<1>2. SUFFICES ASSUME NEW x \in DOMAIN g, NEW y \in DOMAIN g,
                      g[x].nm \in {"stco", "co64"}, g[y].nm = "mdat", g[y].id = g[x].id
               PROVE  g[x].entry = g[y].at + g[y].head
  BY DEF ChunksRight
<1>3. PICK i \in DOMAIN f : KeptCell(f, g, s, p, q, x, i)
  BY <1>2, KeptCells
<1>4. PICK j \in DOMAIN f : KeptCell(f, g, s, p, q, y, j)
  BY <1>2, KeptCells
<1>5. /\ f[i].nm \in {"stco", "co64"} /\ f[j].nm = "mdat" /\ f[j].id = f[i].id
      /\ g[x].entry = NewEntry(f[i], q, d) /\ g[y].head = f[j].head
      /\ \/ g[y].at = f[j].at /\ After(f[j]) <= p
         \/ g[y].at = f[j].at + d /\ f[j].at >= q
  BY <1>2, <1>3, <1>4 DEF KeptCell
<1> DEFINE at == f[j].at
           hd == f[j].head
           now == g[y].at
<1>6. f[i].entry = at + hd
  BY <1>5 DEF TablesSound, ChunksRight
<1>7. at \in Nat /\ hd \in Nat /\ hd >= 8 /\ at + hd <= After(f[j]) /\ After(f[j]) \in Nat
  <2>1. f[j] \in Cell
    BY Places
  <2>2. at \in Nat /\ hd \in Nat /\ hd >= 8 /\ Size(f[j]) >= hd /\ Size(f[j]) \in Nat
        /\ After(f[j]) = at + Size(f[j]) /\ After(f[j]) \in Nat
    BY <2>1, CellFacts
  <2>. QED  BY <2>2
<1>8. now \in Nat /\ now + hd <= FileSz(g) /\ FileSz(g) \in Nat /\ StcoMod \in Nat
  <2>1. g[y] \in Cell /\ After(g[y]) <= FileSz(g) /\ FileSz(g) \in Nat
    BY Places
  <2> DEFINE z == Size(g[y])
             t == After(g[y])
  <2>2. now \in Nat /\ z \in Nat /\ z >= hd /\ t = now + z /\ t <= FileSz(g)
    <3>1. now \in Nat /\ z \in Nat /\ z >= g[y].head /\ t = now + z
      BY <2>1, CellFacts
    <3>. QED  BY <1>5, <2>1, <3>1
  <2>3. StcoMod \in Nat
    BY ParserAssumption
  <2> HIDE DEF z, t, now, hd
  <2>. QED  BY <1>7, <2>1, <2>2, <2>3
<1>9. CASE now = at /\ After(f[j]) <= p
  <2>1. ~ (at + hd > q)
    <3> DEFINE t == After(f[j])
    <3>1. t \in Nat /\ at + hd <= t /\ t <= p
      BY <1>7, <1>9
    <3> HIDE DEF t, at, hd, now, d
    <3>. QED  BY <1>1, <1>7, <3>1
  <2>2. NewEntry(f[i], q, d) = f[i].entry
    BY <1>6, <2>1 DEF NewEntry
  <2>. QED  BY <1>5, <1>6, <1>9, <2>2
<1>10. CASE now = at + d /\ at >= q
  <2> DEFINE v == f[i].entry
  <2>1. v = at + hd
    BY <1>6
  <2>2. NewEntry(f[i], q, d) = IF v > q THEN IF f[i].nm = "co64" THEN v + d ELSE (v + d) % StcoMod
                               ELSE v
    BY DEF NewEntry
  <2>3. now + hd = g[y].at + g[y].head
    BY <1>5
  <2> HIDE DEF v, at, hd, now, d
  <2>4. v > q /\ v + d = now + hd /\ now + hd \in Nat /\ now + hd < StcoMod
    BY <1>1, <1>7, <1>8, <1>10, <2>1
  <2>5. (v + d) % StcoMod = v + d
    <3>1. v + d \in Nat /\ v + d < StcoMod /\ StcoMod \in Nat
      BY <1>8, <2>4
    <3>. QED  BY <3>1, SmallMod
  <2>6. NewEntry(f[i], q, d) = v + d
    BY <2>2, <2>4, <2>5
  <2>. QED  BY <1>5, <2>3, <2>4, <2>6
<1>. QED
  BY <1>5, <1>9, <1>10

\* What an insertion does.
LEMMA InsertedStep ==
  ASSUME ShapeInv, FaultInv, NoteInv, WriteTags, InsertSound(file)
  PROVE  /\ BoxTree(file') /\ ListAtPlace(file')
         /\ TablesSound(file) /\ FileSz(file') < StcoMod => ChunksRight(file')
<1>1. PICK new \in NewTags : file' = Inserted(file, h, new)
  BY DEF WriteTags, Again
<1> DEFINE g == Inserted(file, h, new)
           s == InsertedBoxes(new)
           p == h.noilst_offset
           q == h.after_ilst_offset
<1>2. PICK m \in DOMAIN file, a \in 0 .. Len(file), b \in 0 .. Len(file) :
        /\ Sound(file, m) /\ Written(file, g, s, m, p, q, a, b)
        /\ TablesSound(file) => WrittenEntries(file, g, s, p, q, a, b)
  BY WrittenCells
<1>3. ListBoxes(s)
  BY InsertedListBoxes
<1>4. IsFile(file) /\ Readable(file)
  BY DEF ShapeInv, TypeInv, InsertSound
<1> HIDE DEF g, s, p, q
<1>5. /\ IsFile(g) /\ AtBox(file, p) /\ AtBox(file, q) /\ q <= EndOf(file, file[m])
  BY <1>2 DEF Written, Cut
<1>6. Laid(file, g, s, m, p, q, a, b)
  BY <1>2, <1>3, <1>4, WrittenLaid
<1>7. BoxTree(g)
  BY <1>2, <1>3, <1>4, <1>5, <1>6, TreeWritten
<1>8. ListAtPlace(g)
  BY <1>2, <1>3, <1>4, <1>6, ListWritten
<1>9. ASSUME TablesSound(file), FileSz(g) < StcoMod
      PROVE  ChunksRight(g)
  BY <1>2, <1>3, <1>4, <1>5, <1>6, <1>9, ChunksWritten
<1>10. file' = g
  BY <1>1 DEF g
<1>. QED
  BY <1>7, <1>8, <1>9, <1>10

-----------------------------------------------------------------------------
(* The theorem.                                                             *)

\* In every file of InsertSound (one moov, the only box that is entered at the
\* outermost level, and in it a last udta with no udta or meta in or behind it, or
\* neither udta nor meta) a tag list is inserted where it belongs: the lengths of
\* the boxes nest, there is one list at moov.udta.meta.ilst, and the chunk offsets
\* of TablesSound still point at the media data (mp4tag_write_rewrite).  A file
\* whose udta holds a meta without ilst is none of these.
THEOREM InsertedIsRight == Spec => InsertedRight
<1> DEFINE Inv == /\ ShapeInv /\ BasesInv /\ ListInv /\ HeadersInv /\ OuterInv /\ InStep
                  /\ FaultInv /\ NoteInv
           Right == /\ BoxTree(file') /\ ListAtPlace(file')
                    /\ TablesSound(file) /\ FileSz(file') < StcoMod => ChunksRight(file')
<1>1. Init => Inv
  BY InitShape, InitBases, InitList, InitHeaders, InitInStep, InitSpared, InitNoted
<1>2. Inv /\ [Next]_vars => Inv'
  BY NextShape, NextBases, NextList, NextHeaders, NextOuter, NextInStep, NextFault, NextNoted
<1>3. Inv /\ [Next]_vars => [written' # written /\ InsertSound(file) => Right]_vars
  <2> SUFFICES ASSUME Inv, [Next]_vars, written' # written, InsertSound(file)
               PROVE  Right
    OBVIOUS
  <2>1. WriteTags
    BY DEF Next, ParseStep, ReadFtyp, ReadBrands, ReadHeader, FinishBox, Repair, vars
  <2>. QED  BY <2>1, InsertedStep
<1>4. InsertedRight <=> [][written' # written /\ InsertSound(file) => Right]_vars
  BY PTL DEF InsertedRight
<1> HIDE DEF Inv, Right
<1>. QED
  BY <1>1, <1>2, <1>3, <1>4, PTL DEF Spec
=============================================================================
