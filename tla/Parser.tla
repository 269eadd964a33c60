------------------------------- MODULE Parser -------------------------------
(***************************************************************************)
(* mp4tag_open and mp4tag_parse on the boxes of a file: the check of the    *)
(* file type, the recursive descent, box by box, with what it notes in the *)
(* handle, the repair of files that version 1.3.0 has damaged, and the     *)
(* rewrite that inserts a tag list in a file that has none.                *)
(*                                                                         *)
(* A file is a sequence of cells in the order of its bytes: a box header   *)
(* and the bytes behind it up to the next header.  The length stored in a  *)
(* header says how far the box reaches; the cells within that reach are    *)
(* its content.  A header that is read where no cell starts is an          *)
(* arbitrary one (Junk), except that it does not spell a name the parser   *)
(* knows.                                                                  *)
(***************************************************************************)
EXTENDS Integers, Sequences, SequencesExt

CONSTANTS
  Openings,     \* the files, and how they are opened: a mode "rw", "ro" or
                \* "stream", and a bound for the timeouts, failed seeks and
                \* failed allocations
  LevelMax,     \* MP4TAG_LEVEL_MAX
  SkipMod,      \* skiplen and boxlen are kept modulo this (2^32)
  StcoMod,      \* an stco entry is kept modulo this (2^32)
  FreeSpaceSz,  \* freespacesz
  Junk,         \* lengths that bytes which are no header may be read as
  Partial,      \* bytes a read may get before the stream times out
  NewTags       \* sequences of tags that may be written

BoxHead == 8   \* MP4TAG_BOXHEAD_SZ
MetaSz  == 12  \* MP4TAG_META_SZ
HdlrSz  == 33  \* MP4TAG_HDLR_SZ

VARIABLES
  file,    \* the cells of the file
  origin,  \* the cells it had when it was opened first
  mode,    \* how it is opened
  pos,     \* offset: where the next byte is read
  stack,   \* the calls of mp4tag_parse_file that have not returned, outermost first
  pc,      \* "ftyp", "brands": in mp4tag_parse_ftyp; "header": a header is read
           \* next; "body": the rest of the loop; "done"
  h,       \* the fields of the handle the parser and the writer share
  tags,    \* ids of the tags added to the tag list
  repaired, \* the lengths were corrected
  written, \* the tag list was inserted
  faults,  \* timeouts and failures that may still come
  faulty   \* there was one

vars == <<file, origin, mode, pos, stack, pc, h, tags, repaired, written, faults, faulty>>

-----------------------------------------------------------------------------
(* Cells.                                                                  *)

Size(c)    == c.head + c.body
Payload(c) == c.len - c.head   \* bd.len; not positive: a huge number in the code

\* The bytes of the first n cells; of all of them.
Reach(cells, n) ==
  LET upto[k \in 0 .. Len(cells)] ==
        IF k = 0 THEN 0 ELSE upto[k - 1] + Size(cells[k])
  IN upto[n]

Extent(cells) == Reach(cells, Len(cells))

\* A box with its content, not placed in a file yet; body is what lies between
\* its header and its content.
Box(nm, body, kids) ==
  <<[nm |-> nm, at |-> 0, len |-> BoxHead + body + Extent(kids), head |-> BoxHead,
     body |-> body, id |-> 0, entry |-> 0]>> \o kids

\* The same cells at the places they have in a file.
Placed(cells) == [i \in DOMAIN cells |-> [cells[i] EXCEPT !.at = Reach(cells, i - 1)]]

After(c)   == c.at + Size(c)
FileSz(f)  == IF f = <<>> THEN 0 ELSE After(Last(f))
Starts(f)  == {f[i].at : i \in DOMAIN f}

\* What a header read at p may be.
HeadersAt(f, p) ==
  LET here == {f[i] : i \in {j \in DOMAIN f : f[j].at = p}}
  IN IF here # {} THEN here
     ELSE {[nm |-> "junk", at |-> p, len |-> j.len, head |-> j.head,
            body |-> 0, id |-> 0, entry |-> 0] : j \in Junk}

\* The end that its stored length gives a box, and the boxes that box i lies in.
EndOf(f, c)     == IF c.len = 0 THEN FileSz(f) ELSE c.at + c.len
Enclosing(f, i) == {j \in DOMAIN f : f[j].at < f[i].at /\ f[i].at < EndOf(f, f[j])}

\* The stored lengths nest: every box ends where a box starts or the file
\* ends, and within the boxes it lies in; a box without content is as long as
\* its bytes.
BoxTree(f) ==
  \A i \in DOMAIN f :
    /\ EndOf(f, f[i]) \in Starts(f) \cup {FileSz(f)}
    /\ EndOf(f, f[i]) >= After(f[i])
    /\ \A j \in Enclosing(f, i) : EndOf(f, f[i]) <= EndOf(f, f[j])

\* Every entry of stco and co64 is the place of the media data it stands for,
\* the payload of the mdat box with the id of the table.
ChunksRight(f) ==
  \A i, j \in DOMAIN f :
    f[i].nm \in {"stco", "co64"} /\ f[j].nm = "mdat" /\ f[j].id = f[i].id
      => f[i].entry = f[j].at + f[j].head

\* The ids of the tags among the first n cells; of all tags.
TagsUpTo(f, n) ==
  LET upto[k \in 0 .. Len(f)] ==
        IF k = 0 THEN <<>>
        ELSE IF f[k].nm = "tag" THEN Append(upto[k - 1], f[k].id) ELSE upto[k - 1]
  IN upto[n]

TagIds(f) == TagsUpTo(f, Len(f))

\* The boxes that are entered: the content of a container starts behind its
\* header, that of meta behind the flags.
Containers == {"moov", "trak", "udta", "mdia", "stbl", "minf", "ilst"}

\* The names of boxes that the parser or the writer knows, and another one.
Names == Containers \cup {"ftyp", "meta", "mdhd", "hdlr", "stco", "co64", "mdat", "free",
                         "tag", "othr"}

\* What a file is: cells at the places their sizes give them, each a header, of
\* 8 or 16 bytes, and its bytes.  Stored lengths are arbitrary, but a tag list
\* or a free box is not shorter than its header.
Cell == [nm : Names, at : Nat, len : Int, head : {8, 16}, body : Nat, id : Nat, entry : Int]

IsFile(f) ==
  /\ f \in Seq(Cell)
  /\ \A i \in DOMAIN f :
       /\ f[i].at = Reach(f, i - 1)
       /\ f[i].nm \in Containers => f[i].body = 0
       /\ f[i].nm = "meta" => f[i].body = MetaSz - BoxHead
       /\ f[i].nm \in {"ilst", "free"} => f[i].len = 0 \/ f[i].len >= f[i].head

AreTags(new) ==
  /\ new \in Seq(Cell)
  /\ \A i \in DOMAIN new : new[i].nm = "tag" /\ new[i].len = Size(new[i])

ASSUME ParserAssumption ==
  /\ LevelMax \in Nat \ {0} /\ SkipMod \in Nat \ {0} /\ StcoMod \in Nat \ {0}
  /\ FreeSpaceSz \in Nat /\ Partial \subseteq Nat
  /\ \A o \in Openings :
       IsFile(o.file) /\ o.mode \in {"rw", "ro", "stream"} /\ o.faults \in Nat
  /\ \A j \in Junk : j.len \in Int /\ j.head \in {8, 16}
  /\ \A new \in NewTags : AreTags(new)

-----------------------------------------------------------------------------
(* The handle.                                                             *)

\* mp4tag_init_tags.
NoBases == [l \in 0 .. LevelMax - 1 |-> 0]
NewHandle ==
  [mp4error |-> "ok", parentidx |-> -1,
   base_lengths |-> NoBases, base_offsets |-> NoBases,
   taglist_offset |-> 0, taglist_len |-> 0, orig_data_len |-> 0,
   interior_free_len |-> 0, exterior_free_len |-> 0,
   noilst_offset |-> 0, after_ilst_offset |-> 0, insert_delta |-> 0,
   stco_offset |-> 0, co64_offset |-> 0,
   unlimited |-> FALSE, processdata |-> FALSE, checkforfree |-> FALSE,
   parsedone |-> FALSE,
   ilst_remaining |-> 0, ilstend |-> FALSE, ilstdone |-> FALSE,
   ilstremain |-> FALSE, freeneg |-> FALSE, udtazero |-> FALSE, dofix |-> FALSE]

\* One call of mp4tag_parse_file: the length it was given, rem_length, the box
\* it is at, and how much of that box is still to be skipped.
NoBox == [nm |-> "none", at |-> 0, len |-> 0, head |-> 0, body |-> 0, id |-> 0, entry |-> 0]
Call(boxlen) == [boxlen |-> boxlen, rem |-> boxlen - BoxHead, box |-> NoBox, skip |-> 0]

Level == Len(stack) - 1
Top   == Last(stack)
AtTop(frame) == Append(Front(stack), frame)

\* The calls once the header of b has been read; the outermost call has no
\* length of its own.
At(b, skip) == AtTop([Top EXCEPT !.box = b, !.skip = skip,
                                 !.rem = IF Top.boxlen = 0 THEN b.len ELSE @])

Init ==
  /\ \E o \in Openings : file = o.file /\ mode = o.mode /\ faults = o.faults
  /\ origin = file
  /\ pos = 0 /\ stack = <<>> /\ pc = "ftyp"
  /\ h = NewHandle /\ tags = <<>>
  /\ repaired = FALSE /\ written = FALSE /\ faulty = FALSE

canwrite == mode = "rw"

-----------------------------------------------------------------------------
(* What the parser notes at the header of a box.                           *)

Descends(b) == b.nm \in Containers \cup {"meta"} /\ Payload(b) # 0

\* Mutant: the skip is a signed 64 bit number.
SkipSigned(b) ==
  IF b.nm = "meta" THEN MetaSz - BoxHead
  ELSE IF b.nm \in Containers THEN 0 ELSE Payload(b)

\* Mutant: the flags of meta are taken for a box.
SkipNoFlags(b) == IF b.nm \in Containers \cup {"meta"} THEN 0 ELSE Payload(b) % SkipMod

\* The bytes to skip before the content of a container, or behind another box.
Skip(b) ==
  IF b.nm = "meta" THEN MetaSz - BoxHead
  ELSE IF b.nm \in Containers THEN 0 ELSE Payload(b) % SkipMod

\* off is the offset behind the header; l the level.
Noted(hh, b, off, l) ==
  CASE b.nm = "meta" -> [hh EXCEPT !.insert_delta = @ + MetaSz]
    [] b.nm = "udta" -> [hh EXCEPT !.noilst_offset = off - BoxHead,
                                   !.after_ilst_offset = off,
                                   !.insert_delta = BoxHead]
    [] b.nm = "ilst" -> [hh EXCEPT !.parentidx = l - 1,
                                   !.taglist_offset = off,
                                   !.taglist_len = Payload(b),
                                   !.after_ilst_offset = off + Payload(b),
                                   !.processdata = Payload(b) # 0,
                                   !.checkforfree = @ \/ (Payload(b) = 0 /\ canwrite)]
    [] b.nm = "stco" -> [hh EXCEPT !.stco_offset = off]
    [] b.nm = "co64" -> [hh EXCEPT !.co64_offset = off]
    [] OTHER -> hh

WithDataLen(hh) == [hh EXCEPT !.orig_data_len = IF @ = 0 THEN hh.taglist_len ELSE @]

\* Mutant: all free space is taken for space within moov.
CountFreeInside(hh, b, l) ==
  [WithDataLen(hh) EXCEPT !.interior_free_len = @ + b.len,
                          !.taglist_len = @ + b.len,
                          !.after_ilst_offset = @ + b.len]

\* A free box behind the tag list, or behind other such boxes.
CountFree(hh, b, l) ==
  [WithDataLen(hh) EXCEPT !.exterior_free_len = IF l = 0 THEN @ + b.len ELSE @,
                          !.interior_free_len = IF l = 0 THEN @ ELSE @ + b.len,
                          !.taglist_len = @ + b.len,
                          !.after_ilst_offset = @ + b.len]

\* The containers on the way to the tag list.
WithBase(hh, b, off, l) ==
  IF hh.taglist_offset # 0 THEN hh
  ELSE [hh EXCEPT !.base_lengths[l] = b.len, !.base_offsets[l] = off - BoxHead]

-----------------------------------------------------------------------------
(* The ways out of a level.                                                *)

\* mp4tag_parse_file returns: the outer level goes on behind its descend,
\* whatever the result was.
Return(hh) ==
  /\ h' = hh
  /\ stack' = Front(stack)
  /\ pc' = IF Level = 0 THEN "done" ELSE "body"

\* The loop is left: nothing could be read, or there was a break.  p is the
\* offset then.  (The tags are sorted at level 0; see TagList.)
LeaveLoop(hh, p) ==
  LET ended == [hh EXCEPT !.unlimited = @ \/ (Level = 0 /\ hh.checkforfree /\ p = FileSz(file))]
  IN Return(IF ended.checkforfree
            THEN [ended EXCEPT !.checkforfree = FALSE, !.parsedone = TRUE]
            ELSE ended)

\* How far a read of n bytes gets when it fails: to the end of the file, or as
\* far as the stream delivers in time.
Short(n) ==
  IF pos + n > FileSz(file)
  THEN {[upto |-> IF pos > FileSz(file) THEN pos ELSE FileSz(file), fault |-> FALSE]}
  ELSE {[upto |-> pos + br, fault |-> TRUE] : br \in {p \in Partial : p < n}}

Fault == faults > 0 /\ faults' = faults - 1 /\ faulty' = TRUE

EndsShort(s) ==
  /\ IF s.fault THEN mode = "stream" /\ Fault ELSE UNCHANGED <<faults, faulty>>
  /\ pos' = s.upto

ReadFails(n, hh) ==
  \E s \in Short(n) : EndsShort(s) /\ LeaveLoop(hh, s.upto) /\ UNCHANGED tags

-----------------------------------------------------------------------------
(* mp4tag_parse_ftyp.  The id of an ftyp box is the number of signs of an   *)
(* MP4 file among its brands.                                              *)

StartParse == pc' = "header" /\ stack' = <<Call(0)>> /\ UNCHANGED h
Refuse(error) ==
  /\ pc' = "done"
  /\ h' = [h EXCEPT !.mp4error = error]
  /\ UNCHANGED <<pos, stack>>

\* A read that fails sets no error: the file is taken for an MP4 file.
ReadFtyp ==
  /\ pc = "ftyp"
  /\ UNCHANGED <<file, origin, mode, tags, repaired, written>>
  /\ \/ \E s \in Short(BoxHead) : EndsShort(s) /\ StartParse
     \/ /\ pos + BoxHead <= FileSz(file)
        /\ UNCHANGED <<faults, faulty>>
        /\ IF file[1].nm = "ftyp"
           THEN pos' = pos + BoxHead /\ pc' = "brands" /\ UNCHANGED <<h, stack>>
           ELSE Refuse("not_mp4")

\* Nor does reading nothing: a box without brands is taken for an MP4 file.
ReadBrands ==
  /\ pc = "brands"
  /\ UNCHANGED <<file, origin, mode, tags, repaired, written>>
  /\ LET len == Payload(file[1]) % SkipMod
     IN \/ \E s \in Short(len) : EndsShort(s) /\ StartParse
        \/ Fault /\ Refuse("out_of_memory")
        \/ /\ pos + len <= FileSz(file)
           /\ UNCHANGED <<faults, faulty>>
           /\ IF len = 0 \/ 1 + file[1].id >= 3
              THEN pos' = pos + len /\ StartParse
              ELSE Refuse("not_mp4")

-----------------------------------------------------------------------------
(* The first half of the loop: a header is read, the offsets are noted and *)
(* a container is entered.                                                 *)

\* Mutant: the depth is not limited.
EnterAnyLevel(hh, b, skip) ==
  /\ h' = hh
  /\ IF hh.parsedone THEN stack' = At(b, 0) /\ pc' = "body"
     ELSE stack' = Append(At(b, 0), Call((b.len - skip) % SkipMod)) /\ pc' = "header"

\* mp4tag_parse_file is called for the content of b: it returns at once when it
\* is too deep or the parser is done, but the level that called it goes on.
Enter(hh, b, skip) ==
  \/ /\ Level + 1 >= LevelMax
     /\ h' = [hh EXCEPT !.mp4error = "unable_to_process"]
     /\ stack' = At(b, 0) /\ pc' = "body"
  \/ /\ Level + 1 < LevelMax /\ hh.parsedone
     /\ h' = hh /\ stack' = At(b, 0) /\ pc' = "body"
  \/ /\ Level + 1 < LevelMax /\ ~ hh.parsedone
     /\ h' = hh /\ stack' = Append(At(b, 0), Call((b.len - skip) % SkipMod)) /\ pc' = "header"

\* What is done with the header of b, the offset being off behind it.
Examine(b, off) ==
  LET noted == Noted(h, b, off, Level)
      isfree == noted.checkforfree /\ b.nm = "free"
      seen  == IF isfree THEN CountFree(noted, b, Level) ELSE noted
  IN \/ \* another box behind the tag list: it is not skipped
        /\ noted.checkforfree /\ ~ isfree
        /\ pos' = off /\ UNCHANGED <<faults, faulty>>
        /\ LeaveLoop([WithDataLen(noted) EXCEPT !.checkforfree = FALSE,
                                                !.parsedone = TRUE], off)
     \/ /\ ~ noted.checkforfree /\ Descends(b)
        /\ pos' = off + Skip(b) /\ UNCHANGED <<faults, faulty>>
        /\ Enter(WithBase(seen, b, off, Level), b, Skip(b))
     \/ \* the seek callback fails over the flags of meta, which is entered all the same
        /\ ~ noted.checkforfree /\ Descends(b)
        /\ mode = "stream" /\ Skip(b) > 0 /\ Fault
        /\ pos' = off
        /\ Enter([WithBase(seen, b, off, Level) EXCEPT !.mp4error = "seek"], b, Skip(b))
     \/ /\ isfree \/ ~ (noted.checkforfree \/ Descends(b))
        /\ pos' = off /\ UNCHANGED <<faults, faulty>>
        /\ h' = seen /\ stack' = At(b, Skip(b)) /\ pc' = "body"

ReadHeader ==
  /\ pc = "header"
  /\ UNCHANGED <<file, origin, mode, repaired, written>>
  /\ \/ ReadFails(BoxHead, h)
     \/ /\ pos + BoxHead <= FileSz(file)
        /\ \E b \in HeadersAt(file, pos) :
             \/ \* a box that reaches to the end of the file
                /\ b.len = 0
                /\ pos' = pos + BoxHead
                /\ LeaveLoop([h EXCEPT !.parsedone = TRUE], pos + BoxHead)
                /\ UNCHANGED <<tags, faults, faulty>>
             \/ \* the 64 bit length cannot be read
                b.len # 0 /\ b.head # BoxHead /\ ReadFails(b.head, h)
             \/ /\ b.len # 0 /\ pos + b.head <= FileSz(file)
                /\ Examine(b, pos + b.head) /\ UNCHANGED tags

-----------------------------------------------------------------------------
(* The second half of the loop, behind the content of a container.         *)

\* Mutant: the boxes behind ilst are still taken for tags.
BehindStillTags(hh, b) ==
  LET known == WithDataLen(hh) IN
  CASE b.nm = "moov" /\ known.noilst_offset = 0 ->
         [known EXCEPT !.noilst_offset = pos, !.after_ilst_offset = pos]
    [] b.nm = "ilst" -> [known EXCEPT !.checkforfree = @ \/ canwrite]
    [] OTHER -> known

Behind(hh, b) ==
  LET known == WithDataLen(hh) IN
  CASE b.nm = "moov" /\ known.noilst_offset = 0 ->
         [known EXCEPT !.noilst_offset = pos, !.after_ilst_offset = pos]
    [] b.nm = "ilst" -> [known EXCEPT !.processdata = FALSE,
                                      !.checkforfree = @ \/ canwrite]
    [] OTHER -> known

\* Mutant: a free box that ends its level exactly is a sign of the damage too.
EndFlagsAnyFree(hh, b, rem) ==
  LET done == hh.ilstdone \/ b.nm = "ilst"
      neg  == hh.freeneg \/ (b.nm = "free" /\ hh.ilstend /\ ~ hh.ilstdone)
      zero == hh.udtazero \/ (b.nm = "udta" /\ rem = 0)
  IN [hh EXCEPT !.ilstdone = done, !.freeneg = neg, !.udtazero = zero,
                !.dofix = @ \/ (b.nm = "udta" /\ hh.ilstremain /\ ~ done /\ neg /\ zero),
                !.ilstend = FALSE]

\* The flags that tell the damage of version 1.3.0, at the end of a level.
EndFlags(hh, b, rem) ==
  LET done == hh.ilstdone \/ b.nm = "ilst"
      neg  == hh.freeneg \/ (b.nm = "free" /\ hh.ilstend /\ ~ hh.ilstdone /\ rem < 0)
      zero == hh.udtazero \/ (b.nm = "udta" /\ rem = 0)
  IN [hh EXCEPT !.ilstdone = done, !.freeneg = neg, !.udtazero = zero,
                !.dofix = @ \/ (b.nm = "udta" /\ hh.ilstremain /\ ~ done /\ neg /\ zero),
                !.ilstend = FALSE]

\* The box is done: the level ends when nothing of it remains.
Account(hh, b) ==
  LET rem  == Top.rem - b.len
      seen == IF b.nm # "ilst" THEN hh
              ELSE [hh EXCEPT !.ilst_remaining = rem, !.ilstend = TRUE,
                              !.ilstremain = @ \/ rem # 0]
  IN IF rem <= 0 /\ Top.boxlen # 0
     THEN Return(EndFlags(seen, b, rem))
     ELSE /\ h' = seen
          /\ stack' = AtTop([Top EXCEPT !.rem = rem])
          /\ pc' = "header"

\* The data of mdhd and of the tags is read; tags within ilst are added.
ReadData(hh, b) ==
  \/ Payload(b) >= 0 /\ ReadFails(Payload(b), hh)
  \/ /\ Payload(b) >= 0 /\ pos + Payload(b) <= FileSz(file)
     /\ pos' = pos + Payload(b)
     /\ tags' = IF hh.processdata /\ Payload(b) # 0 /\ b.nm # "free"
                THEN Append(tags, b.id) ELSE tags
     /\ Account(hh, b)
     /\ UNCHANGED <<faults, faulty>>
  \/ \* malloc fails, for a huge length always: this level returns in the middle
     \* of the box
     /\ Payload(b) # 0
     /\ IF Payload(b) < 0 THEN UNCHANGED <<faults, faulty>> ELSE Fault
     /\ Return([hh EXCEPT !.mp4error = "out_of_memory"])
     /\ UNCHANGED <<pos, tags>>

SkipData(hh, b) ==
  \/ /\ pos' = pos + Top.skip
     /\ Account(hh, b)
     /\ UNCHANGED <<tags, faults, faulty>>
  \/ \* the seek callback fails
     /\ mode = "stream" /\ Top.skip > 0 /\ Fault
     /\ LeaveLoop([hh EXCEPT !.mp4error = "seek"], pos)
     /\ UNCHANGED <<pos, tags>>

FinishBox ==
  /\ pc = "body"
  /\ LET b == Top.box
         hh == Behind(h, b)
     IN IF b.nm = "mdhd" \/ hh.processdata
        THEN ReadData(hh, b)
        ELSE SkipData(hh, b)
  /\ UNCHANGED <<file, origin, mode, repaired, written>>

-----------------------------------------------------------------------------
(* mp4tag_parse behind the descent, and the writer's insertion.            *)

\* The offset behind ftyp, as far as the file reaches.
BehindFtyp(f) ==
  LET p == BoxHead + (Payload(f[1]) % SkipMod)
  IN IF p > FileSz(f) THEN FileSz(f) ELSE p

Again(f, p) ==
  /\ file' = f
  /\ pos' = p /\ stack' = <<Call(0)>> /\ pc' = "header"
  /\ h' = NewHandle /\ tags' = <<>>

\* mp4tag_update_parent_lengths.
UpdateParentLengths(f, hh, parentidx, delta) ==
  [i \in DOMAIN f |->
     LET l == {k \in 0 .. parentidx : hh.base_offsets[k] = f[i].at}
     IN IF l = {} THEN f[i]
        ELSE [f[i] EXCEPT !.len = hh.base_lengths[Min(l)] + delta]]

\* The lengths that version 1.3.0 left are corrected and the file is parsed again,
\* from the offset where it was parsed from.
Repair ==
  /\ pc = "done" /\ canwrite /\ h.mp4error = "ok" /\ h.dofix /\ ~ repaired
  /\ Again(UpdateParentLengths(file, h, h.parentidx, - h.ilst_remaining), BehindFtyp(file))
  /\ repaired' = TRUE
  /\ UNCHANGED <<origin, mode, written, faults, faulty>>

\* mp4tag_update_offsets: entries behind the inserted boxes are shifted, in the
\* tables the parser kept; a table behind them is found if delta is how far the
\* rest of the file has moved.
UpdateOffsets(f, hh, delta, moved) ==
  [i \in DOMAIN f |->
     LET c == f[i]
         kept == \/ c.nm = "stco" /\ c.at + BoxHead = hh.stco_offset
                 \/ c.nm = "co64" /\ c.at + BoxHead = hh.co64_offset
         found == c.at + BoxHead < hh.after_ilst_offset \/ delta = moved
     IN IF ~ (kept /\ found /\ c.entry > hh.after_ilst_offset) THEN c
        ELSE [c EXCEPT !.entry = IF c.nm = "co64" THEN @ + delta
                                 ELSE (@ + delta) % StcoMod]]

\* The boxes that are written in front of the tags, with the lengths the code
\* computes, the tags and the free box.
InsertedBoxes(new) ==
  LET alloclen == BoxHead + MetaSz + HdlrSz + BoxHead
      free == BoxHead + FreeSpaceSz
      len  == alloclen + Extent(new) + free
      Len0(cells, n) == <<[cells[1] EXCEPT !.len = n]>>
  IN Len0(Box("udta", 0, <<>>), len)
     \o Len0(Box("meta", MetaSz - BoxHead, <<>>), len - BoxHead)
     \o Box("hdlr", HdlrSz - BoxHead, <<>>)
     \o Len0(Box("ilst", 0, <<>>), len - BoxHead - MetaSz - HdlrSz - free)
     \o new
     \o Box("free", FreeSpaceSz, <<>>)

\* Mutant: the boxes of the old udta that go are not taken off the length.
InsertDeltaFull(hh, new) == Extent(InsertedBoxes(new))

InsertDelta(hh, new) ==
  Extent(new) + (BoxHead + FreeSpaceSz) + BoxHead + (MetaSz + HdlrSz + BoxHead)
    - hh.insert_delta

\* mp4tag_write_rewrite for a file without ilst: the bytes up to where the boxes
\* go, the boxes, and the bytes behind.
Inserted(f, hh, new) ==
  LET delta  == InsertDelta(hh, new)
      moved  == Extent(InsertedBoxes(new)) - (hh.after_ilst_offset - hh.noilst_offset)
      fixed  == UpdateOffsets(UpdateParentLengths(f, hh, 0, delta), hh, delta, moved)
      Before(p) == Cardinality({i \in DOMAIN f : f[i].at < p})
  IN Placed(SubSeq(fixed, 1, Before(hh.noilst_offset)) \o InsertedBoxes(new)
            \o SubSeq(fixed, Before(hh.after_ilst_offset) + 1, Len(f)))

\* mp4tag_write_tags in a file without ilst; the file is then opened again.
\* It is refused when no moov was met either.
WriteTags ==
  /\ pc = "done" /\ canwrite /\ h.mp4error = "ok" /\ (h.dofix => repaired)
  /\ h.taglist_offset = 0 /\ h.noilst_offset # 0 /\ ~ written
  /\ \E new \in NewTags :
       LET f == Inserted(file, h, new) IN Again(f, BehindFtyp(f))
  /\ written' = TRUE
  /\ UNCHANGED <<origin, mode, repaired, faults, faulty>>

ParseStep == ReadFtyp \/ ReadBrands \/ ReadHeader \/ FinishBox
Next == ParseStep \/ Repair \/ WriteTags

Spec == Init /\ [][Next]_vars /\ WF_vars(ParseStep) /\ WF_vars(Repair)

-----------------------------------------------------------------------------
(* Properties.                                                             *)

TypeOK ==
  /\ mode \in {"rw", "ro", "stream"} /\ pc \in {"ftyp", "brands", "header", "body", "done"}
  /\ pos \in Nat /\ faults \in Nat
  /\ {repaired, written, faulty} \subseteq BOOLEAN
  /\ Len(stack) <= LevelMax /\ (stack = <<>> <=> pc \notin {"header", "body"})
  /\ h.parentidx \in -1 .. LevelMax - 2
  /\ {h.taglist_len, h.interior_free_len, h.exterior_free_len} \subseteq Nat

\* There is one tag list at most; it has a short header, with a length of 32 bits,
\* and ends where a box starts or the file ends; it holds tags and free boxes, and
\* all tags are in it.
PlainList(f) ==
  LET ilsts == {i \in DOMAIN f : f[i].nm = "ilst"} IN
  /\ \A i, j \in ilsts : i = j
  /\ \A i \in ilsts :
       /\ Payload(f[i]) > 0 => f[i].head = BoxHead /\ f[i].len < SkipMod
       /\ EndOf(f, f[i]) \in Starts(f) \cup {FileSz(f)}
       /\ \A j \in DOMAIN f : i \in Enclosing(f, j) =>
            f[j].nm \in {"tag", "free"} /\ f[j].len = Size(f[j])
  /\ \A j \in DOMAIN f :
       f[j].nm = "tag" => f[j].body > 0 /\ \E i \in ilsts : i \in Enclosing(f, j)

\* A file that starts with ftyp and is a tree of boxes none of which is too long
\* to be skipped or entered; only the last cell may be a box that reaches to the end of the
\* file.
Readable(f) ==
  /\ BoxTree(f) /\ PlainList(f)
  /\ f # <<>> => f[1].len # 0 /\ f[1].head = BoxHead
  /\ \A i \in DOMAIN f :
       /\ Payload(f[i]) < SkipMod
       /\ f[i].nm \in Containers \cup {"meta"} => f[i].len < SkipMod
       /\ f[i].len = 0 => i = Len(f)

\* Until the parser says it is done, the bytes it takes for a header are one:
\* skipping, descending and counting what remains of each level agree, at any
\* depth, also when the depth limit is met (mp4tag_parse_file).
HeadersOnly ==
  pc = "header" /\ ~ faulty /\ ~ h.parsedone /\ Readable(file)
    => pos \in Starts(file) \cup {FileSz(file)}

\* Whatever bytes the parser reads behind the tag list, where it goes on in the
\* middle of boxes, in whatever way the boxes around the list are damaged, and
\* wherever a stream times out, fails to seek or memory is short: nothing that is
\* not a tag of the file is added to the tag list, and no tag is added twice,
\* left out in between or out of order.
TagsInOrder == PlainList(file) => IsPrefix(tags, TagIds(file))

\* The tag list lies in boxes that the parser enters.
ListInReach(f) ==
  \A i, j \in DOMAIN f :
    f[i].nm = "ilst" /\ j \in Enclosing(f, i) => f[j].nm \in Containers \cup {"meta"}

\* Without a fault all tags of a proper file are added.
TagsRead ==
  pc = "done" /\ ~ faulty /\ h.mp4error = "ok" /\ Readable(file) /\ ListInReach(file)
    => tags = TagIds(file)

\* Containers and meta, which are entered, have short headers, and meta holds
\* boxes: rem_length of their content is what is left of it.
ShortHeads(f) ==
  \A i \in DOMAIN f :
    f[i].nm \in Containers \cup {"meta"} =>
      /\ f[i].head = BoxHead
      /\ f[i].nm = "meta" => f[i].len # MetaSz

\* The tag list lies in no more than a moov, an udta and a meta box.
ListPath(f) ==
  \A i, j, k \in DOMAIN f :
    f[i].nm = "ilst" /\ {j, k} \subseteq Enclosing(f, i) =>
      /\ f[j].nm \in {"moov", "udta", "meta"}
      /\ f[j].nm = f[k].nm => j = k

\* Behind the first other box that follows ilst in its own box no free box lies
\* within another box.
NoHiddenFree(f) ==
  \A i, j, k \in DOMAIN f :
    f[i].nm = "ilst" /\ i < j /\ j < k
    /\ f[j].nm \notin {"free", "tag"} /\ Enclosing(f, i) \subseteq Enclosing(f, j)
      => ~ (f[k].nm = "free" /\ Enclosing(f, k) # {})

\* What is read as a length that is shorter than its header makes the parser
\* skip the rest of the file.
JunkPasses(f) ==
  \A j \in Junk : j.len # 0 /\ j.len < j.head => (j.len - j.head) % SkipMod >= FileSz(f)

\* Files in which nothing looks like the damage of version 1.3.0.
Undamaged(f) ==
  Readable(f) /\ ShortHeads(f) /\ ListPath(f) /\ NoHiddenFree(f) /\ JunkPasses(f)

\* Opening such a file never changes it: the flags that start the repair are
\* gathered from several levels, and what raises them in a tree of boxes is only
\* what Undamaged leaves out (the bug checks in mp4tag_parse_file, mp4tag_parse).
OnlyDamageRepaired == [][repaired' # repaired => ~ Undamaged(file)]_vars

\* The files the insertion is right for: there is one moov, the only box of the
\* outermost level that is entered, and the file does not end with a box of
\* unknown length in it; the last udta is a child of it and no meta comes behind
\* it, or there is neither.
InsertSound(f) ==
  LET Boxes(nm) == {i \in DOMAIN f : f[i].nm = nm}
  IN /\ Readable(f) /\ ShortHeads(f) /\ Boxes("ilst") = {}
     /\ \E m \in DOMAIN f :
          /\ Boxes("moov") = {m} /\ Payload(f[m]) > 0 /\ Enclosing(f, m) = {}
          /\ \A i \in DOMAIN f : /\ Descends(f[i]) /\ Enclosing(f, i) = {} => i = m
                                 /\ f[i].len = 0 => m \notin Enclosing(f, i)
          /\ IF Boxes("udta") = {} THEN Boxes("meta") = {}
             ELSE \E u \in Boxes("udta") :
                    /\ \A i \in DOMAIN f : i > u => f[i].nm \notin {"udta", "meta"}
                    /\ Enclosing(f, u) = {m}

\* The files whose chunk offsets can be kept right: there is one table of each
\* kind, as the parser keeps no more, in boxes that it enters.
TablesSound(f) ==
  /\ ChunksRight(f)
  /\ \A i, j \in DOMAIN f : f[i].nm \in {"stco", "co64"} =>
       /\ f[i].head = BoxHead /\ f[i].len # 0
       /\ f[j].nm = f[i].nm => j = i
       /\ j \in Enclosing(f, i) => f[j].nm \in Containers \cup {"meta"}

\* There is one tag list, in moov.udta.meta.
ListAtPlace(f) ==
  \E q \in DOMAIN f :
    /\ {i \in DOMAIN f : f[i].nm = "ilst"} = {q}
    /\ \E m, u, t \in DOMAIN f : /\ Enclosing(f, q) = {m, u, t}
                                 /\ <<f[m].nm, f[u].nm, f[t].nm>> = <<"moov", "udta", "meta">>

\* When a tag list is inserted in such a file, with or without an udta, with moov
\* in front of or behind the media data and tracks in front of or behind udta,
\* the boxes nest, there is one tag list at moov.udta.meta.ilst, and the chunk
\* offsets, as far as an entry can hold them, point at the media data
\* (mp4tag_write_rewrite).
InsertedRight ==
  [][written' # written /\ InsertSound(file) =>
       /\ BoxTree(file') /\ ListAtPlace(file')
       /\ TablesSound(file) /\ FileSz(file') < StcoMod => ChunksRight(file')]_vars

\* The parser comes to an end on every file, also where the bytes it takes for
\* headers give lengths that are zero, shorter than a header or negative.
ParseEnds == []<>(pc = "done")
=============================================================================
