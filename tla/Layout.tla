------------------------------- MODULE Layout -------------------------------
(***************************************************************************)
(* The byte layout of an MP4 file around its tag list, and what            *)
(* mp4tag_parse and mp4tag_write_tags do to it.                            *)
(*                                                                         *)
(*    moov                                      parent 0                   *)
(*      ... trak.mdia.minf.stbl.stco / co64                                *)
(*      udta                                    parent 1                   *)
(*        meta  hdlr                            parent 2                   *)
(*          ilst  <tag data>                                               *)
(*          free* <other boxes>                                            *)
(*        free* <other boxes>                                              *)
(*      free* <other boxes>                                                *)
(*    free* <other boxes: mdat ...>                                        *)
(*                                                                         *)
(* Nothing before the ilst box ever moves, so the file is described from   *)
(* there on: the tag data, the run of free boxes that follows it without   *)
(* a break, and the tail (every other box), plus the length fields that    *)
(* are stored in the headers of ilst and its three parents and the chunk   *)
(* offsets that are stored in the stco and co64 tables.  A write changes   *)
(* the bytes and the stored numbers separately; the file is readable when  *)
(* they still agree.                                                       *)
(***************************************************************************)
EXTENDS Integers, Sequences, FiniteSets

CONSTANTS
  BaseOffset,     \* where the ilst box starts (taglist_base_offset)
  ParentOffset,   \* where moov, udta and meta start (base_offsets)
  FreeSpaceSz,    \* freespacesz, 2048 or the value of mp4tag_set_free_space
  StcoMod,        \* an stco entry is kept modulo this (2^32 in the format)
  DataLens,       \* the lengths mp4tag_build_data may produce
  Layouts,        \* the files a session may be opened on
  MaxWrites       \* bound: calls of mp4tag_write_tags in a behaviour

HeadSz  == 8      \* MP4TAG_BOXHEAD_SZ
Parents == 0 .. 2 \* indexes of base_lengths []; parentidx is 2
Levels  == 0 .. 3 \* 3: in meta, 2: in udta, 1: in moov, 0: top level

Table == [co64  : BOOLEAN,  \* co64, else stco
          after : BOOLEAN,  \* the table itself lies behind the ilst box
          front : BOOLEAN,  \* its chunk lies in front of the ilst box
          pos   : Nat,      \* offset of the chunk, or its distance into the tail
          entry : Int]      \* the chunk offset stored in the table

File == [ilst    : Nat,              \* bytes of tag data
         run     : Nat,              \* bytes of free boxes behind the tag data
         marks   : SUBSET Nat,       \* box boundaries within the run
         tail_at : Nat,              \* where the tail starts
         tail    : [Levels -> Nat],  \* bytes of other boxes, by enclosing level
         lost    : BOOLEAN,          \* part of the tail is overwritten or cut off
         ilstlen : Int,              \* length stored in the header of ilst
         len     : [Parents -> Int], \* lengths stored in moov, udta and meta
         tables  : Seq(Table)]

NParams ==
  /\ BaseOffset \in Nat
  /\ ParentOffset \in [Parents -> Nat]
  /\ \A c \in Parents : ParentOffset[c] < BaseOffset
  /\ FreeSpaceSz \in Nat
  /\ StcoMod \in Nat \ {0}
  /\ DataLens \subseteq Nat
  /\ MaxWrites \in Nat
  /\ Layouts \subseteq File

ASSUME ParamAssumption == NParams

-----------------------------------------------------------------------------
(* The file.                                                               *)

IlstEnd(f) == BaseOffset + HeadSz + f.ilst

\* Bytes of the tail that lie within parent c.
TailIn(f, c) ==
  (IF c = 0 THEN f.tail[1] ELSE 0) + (IF c < 2 THEN f.tail[2] ELSE 0) + f.tail[3]

TailLen(f)   == f.tail[0] + TailIn(f, 0)
FileSize(f)  == f.tail_at + TailLen(f)
EndOf(f, c)  == ParentOffset[c] + f.len[c]

\* How much of the free run lies within parent c, by the stored lengths.
FreeIn(f, c) == EndOf(f, c) - TailIn(f, c) - IlstEnd(f)

\* The stored lengths describe the bytes: ilst holds the tag data, nothing
\* but free boxes lies between the tag data and the tail, every parent ends
\* at the end of a box, behind all of the tail that belongs to it.
BoxTree(f) ==
  /\ ~ f.lost
  /\ f.ilstlen = HeadSz + f.ilst
  /\ f.tail_at = IlstEnd(f) + f.run
  /\ \A c \in Parents : /\ FreeIn(f, c) \in f.marks
                        /\ TailIn(f, c) > 0 => FreeIn(f, c) = f.run
  /\ EndOf(f, 2) <= EndOf(f, 1)
  /\ EndOf(f, 1) <= EndOf(f, 0)

\* Where the chunk of a table really is.
ChunkAt(f, i) ==
  IF f.tables[i].front THEN f.tables[i].pos ELSE f.tail_at + f.tables[i].pos

Chunks(f) == \A i \in DOMAIN f.tables : f.tables[i].entry = ChunkAt(f, i)

MarksOK(f) == f.marks \subseteq 0 .. f.run /\ {0, f.run} \subseteq f.marks

\* Version 1.3.0 moved a free box to the top level and left its former
\* length in the parents: meta, udta and moov all end inside the free box.
Bug13(f) ==
  /\ ~ f.lost
  /\ f.ilst > 0
  /\ f.ilstlen = HeadSz + f.ilst
  /\ f.tail_at = IlstEnd(f) + f.run
  /\ f.marks = {0, f.run}
  /\ TailIn(f, 0) = 0
  /\ FreeIn(f, 0) \in 1 .. (f.run - 1)
  /\ \A c \in Parents : FreeIn(f, c) = FreeIn(f, 0)

\* A chunk lies in front of the tag list or in the tail; it is the payload of a
\* box, so it is not at the very start of the tail.  If a track lies behind the
\* tag list it is the first box that does (what the parser makes of the content
\* of another box in between cannot be told from a layout).
ChunkPlaces(f) ==
  \A i \in DOMAIN f.tables :
    /\ f.tables[i].front => f.tables[i].pos < BaseOffset
    /\ ~ f.tables[i].front => f.tables[i].pos \in HeadSz .. (TailLen(f) - 1)
    /\ f.tables[i].after => f.tail[2] + f.tail[3] = 0

ASSUME LayoutAssumption ==
  \A f \in Layouts :
    /\ BoxTree(f) \/ Bug13(f)
    /\ MarksOK(f) /\ Chunks(f) /\ ChunkPlaces(f)

-----------------------------------------------------------------------------
(* What mp4tag_parse finds and keeps in the handle.                        *)

Parsed == [taglist_len       : Nat,
           orig_data_len     : Nat,
           interior_free_len : Nat,
           exterior_free_len : Nat,
           unlimited         : BOOLEAN,
           base_lengths      : [Parents -> Int],
           filesz            : Nat,
           past_ilst         : BOOLEAN] \* boxes behind ilst were looked at

\* Free boxes within moov are interior, the ones behind it exterior.  At the
\* first box that is not a free box the counting stops, but the outer levels
\* read on from the content of that box: a table in a track right behind the
\* free space is still met.  An empty ilst is itself taken for that box.
ParseOf(f) ==
  LET inner == IF f.ilst = 0 THEN 0 ELSE FreeIn(f, 0)
      outer == IF f.ilst = 0 THEN 0 ELSE f.run - inner
  IN [taglist_len       |-> f.ilst + inner + outer,
      orig_data_len     |-> f.ilst,
      interior_free_len |-> inner,
      exterior_free_len |-> outer,
      unlimited         |-> f.ilst > 0 /\ TailLen(f) = 0,
      base_lengths      |-> f.len,
      filesz            |-> FileSize(f),
      past_ilst         |-> f.ilst = 0 \/ f.tail[2] + f.tail[3] = 0]

\* mp4tag_update_parent_lengths on the parsed lengths.
UpdateParentLengths(p, delta) == [c \in Parents |-> p.base_lengths[c] + delta]

\* Mutant: the length of meta is corrected, those of udta and moov are not.
FixedMetaOnly(f) ==
  IF Bug13(f) THEN [f EXCEPT !.len[2] = @ - FreeIn(f, 2)] ELSE f

\* Mutant: what is to be taken off the parents is added to them.
FixedAdded(f) ==
  IF Bug13(f)
  THEN [f EXCEPT !.len = UpdateParentLengths(ParseOf(f), FreeIn(f, 2))]
  ELSE f

\* The repair of a file damaged by version 1.3.0: ilst_remaining, what meta
\* holds behind ilst, is taken off the parents.
Fixed(f) ==
  IF Bug13(f)
  THEN [f EXCEPT !.len = UpdateParentLengths(ParseOf(f), - FreeIn(f, 2))]
  ELSE f

-----------------------------------------------------------------------------
(* What mp4tag_write_data does for new tag data of length d.               *)

FitsInPlace(p, d) ==
  \/ p.unlimited
  \/ d = p.taglist_len
  \/ d < p.taglist_len - HeadSz

IlstDelta(p, d) == d - p.orig_data_len

\* Mutant: the interior space that moves behind moov stays in the lengths.
ParentDeltaUnmerged(p, d) == IlstDelta(p, d)

\* The change of the parents of an in-place write: the free boxes are merged
\* into one behind moov if there is exterior space or no end to the space.
ParentDelta(p, d) ==
  IF p.exterior_free_len # 0 \/ p.unlimited
  THEN IlstDelta(p, d) - p.interior_free_len
  ELSE IlstDelta(p, d)

\* Mutant: the free space is not reduced by what the tag data has grown.
FreeLeftOld(p, d) == p.interior_free_len + p.exterior_free_len

\* Free space left for the free box; not reduced when there was none.
FreeLeft(p, d) ==
  LET freelen == p.interior_free_len + p.exterior_free_len
  IN IF freelen > 0 THEN freelen - IlstDelta(p, d) ELSE 0

\* Mutant: the free box is a header short.
FreeBoxNet(p, d) ==
  IF FreeLeft(p, d) > HeadSz THEN FreeLeft(p, d) - HeadSz ELSE 0

\* The length of the free box an in-place write writes, 0 if it writes none.
FreeBox(p, d) ==
  LET freelen == IF p.unlimited /\ FreeLeft(p, d) < FreeSpaceSz
                 THEN HeadSz + FreeSpaceSz
                 ELSE FreeLeft(p, d)
  IN IF freelen > HeadSz THEN freelen ELSE 0

TotalDelta(p, d) ==
  IF p.exterior_free_len = 0 /\ ~ p.unlimited
  THEN p.taglist_len - (d + FreeLeft(p, d))
  ELSE ParentDelta(p, d)

\* mp4tag_write_inplace: the tag data and the free box overwrite what is at
\* their place; the stored lengths are changed if they are thought to differ.
InPlace(f, p, d) ==
  LET free   == FreeBox(p, d)
      newend == BaseOffset + HeadSz + d + free
  IN [f EXCEPT
        !.ilst    = d,
        !.run     = IF free > 0 THEN free ELSE IF d = f.ilst THEN @ ELSE 0,
        !.marks   = IF free > 0 THEN {0, free} ELSE IF d = f.ilst THEN @ ELSE {0},
        !.tail_at = IF TailLen(f) = 0 /\ newend > @ THEN newend ELSE @,
        !.lost    = @ \/ (TailLen(f) > 0 /\ newend > f.tail_at),
        !.ilstlen = IF ParentDelta(p, d) # 0 THEN HeadSz + d ELSE @,
        !.len     = IF TotalDelta(p, d) # 0
                    THEN UpdateParentLengths(p, ParentDelta(p, d)) ELSE @]

RewriteFree == HeadSz + FreeSpaceSz

\* The change of the parents and of the chunk offsets of a rewrite.
RewriteDelta(p, d) ==
  d - p.taglist_len + RewriteFree - p.interior_free_len

\* The parser keeps one stco and one co64 table: the last one it met.
Kept(f, p, i) ==
  LET met(j) == ~ f.tables[j].after \/ p.past_ilst
  IN met(i) /\ \A j \in DOMAIN f.tables :
                 met(j) /\ f.tables[j].co64 = f.tables[i].co64 => j <= i

\* Mutant: chunks in front of the tag list are shifted too.
UpdateOffsetsAll(f, p, d, moved) ==
  [i \in DOMAIN f.tables |->
     IF Kept(f, p, i) THEN [f.tables[i] EXCEPT !.entry = @ + RewriteDelta(p, d)]
     ELSE f.tables[i]]

\* mp4tag_update_offset_block: entries behind the old tag list are shifted.
\* A table behind the tag list is looked for at its own shifted place, and
\* is not found (something else is overwritten) if delta is not the distance
\* that the tail really moved.
UpdateOffsets(f, p, d, moved) ==
  LET delta   == RewriteDelta(p, d)
      foffset == BaseOffset + HeadSz + p.taglist_len
      shifted(t) == IF t.co64 THEN t.entry + delta
                    ELSE (t.entry + delta) % StcoMod
  IN [i \in DOMAIN f.tables |->
        LET t == f.tables[i]
        IN IF /\ Kept(f, p, i)
              /\ t.after => delta = moved
              /\ t.entry > foffset
           THEN [t EXCEPT !.entry = shifted(t)]
           ELSE t]

\* mp4tag_write_rewrite: a new file of the bytes before ilst, the tag data, a
\* free box and what lay behind the old tag list and its free boxes, as far
\* as the file reached when it was opened.
Rewrite(f, p, d) ==
  LET oldend  == BaseOffset + HeadSz + p.taglist_len
      newend  == BaseOffset + HeadSz + d + RewriteFree
      skipped == oldend - IlstEnd(f)   \* part of the free run left out
      newtail == newend + (f.tail_at - oldend)
      copied  == IF skipped \in f.marks
                 THEN {m - skipped : m \in {n \in f.marks : n >= skipped}}
                 ELSE {0}
  IN [f EXCEPT
        !.ilst    = d,
        !.run     = RewriteFree + (IF skipped \in f.marks THEN @ - skipped ELSE 0),
        !.marks   = {0} \cup {RewriteFree + m : m \in copied},
        !.tail_at = newtail,
        !.lost    = @ \/ FileSize(f) > p.filesz,
        !.ilstlen = HeadSz + d,
        !.len     = UpdateParentLengths(p, RewriteDelta(p, d)),
        !.tables  = UpdateOffsets(f, p, d, newtail - f.tail_at)]

=============================================================================
