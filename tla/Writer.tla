------------------------------- MODULE Writer -------------------------------
(***************************************************************************)
(* Sessions of the library on one file: mp4tag_open and mp4tag_parse, any  *)
(* number of calls of mp4tag_write_tags with tag data of any length, then  *)
(* mp4tag_free and the next session.  Every file operation succeeds here;  *)
(* the module SaveProtocol is about the ones that fail.                    *)
(***************************************************************************)
EXTENDS Layout

VARIABLES
  file,    \* the file on disk
  handle,  \* "closed", "parsed", or "stale": written since it was parsed
  parse,   \* what the parser left in the handle
  writes,  \* calls of mp4tag_write_tags, at most MaxWrites
  sound    \* every write so far was one that the arithmetic covers

vars == <<file, handle, parse, writes, sound>>

Init ==
  /\ file \in Layouts
  /\ handle = "closed"
  /\ parse = ParseOf(file)
  /\ writes = 0
  /\ sound = TRUE

\* The parser is only run on files it can read: what it makes of a file whose
\* lengths are wrong is not modelled, save the damage it repairs.
Parse ==
  /\ handle = "closed"
  /\ BoxTree(file) \/ Bug13(file)
  /\ file' = Fixed(file)
  /\ parse' = ParseOf(Fixed(file))
  /\ handle' = "parsed"
  /\ UNCHANGED <<writes, sound>>

Close ==
  /\ handle # "closed"
  /\ handle' = "closed"
  /\ UNCHANGED <<file, parse, writes, sound>>

-----------------------------------------------------------------------------
(* Which writes the arithmetic of mp4tagwrite.c covers.                    *)

\* In place with the space bounded by other boxes: there must have been free
\* space unless the length is unchanged; interior space must lie in meta, or
\* the length be unchanged; interior space next to exterior space must lie in
\* meta, and the new data must not take up exactly the interior space.
BoundedInPlaceSound(f, p, d) ==
  \/ /\ d = f.ilst
     /\ p.exterior_free_len = 0
     /\ FreeBox(p, d) > 0 => \A c \in Parents : FreeIn(f, c) \in {0, f.run}
  \/ /\ p.exterior_free_len = 0
     /\ p.interior_free_len > 0
     /\ \A c \in Parents : FreeIn(f, c) = f.run
  \/ /\ p.exterior_free_len > 0
     /\ \A c \in Parents : FreeIn(f, c) = p.interior_free_len
     /\ ParentDelta(p, d) # 0 \/ d = f.ilst

\* In place at the end of the file: as above, and the new tag data and free
\* box must reach the end of the old ones, as the file is not truncated.
UnlimitedInPlaceSound(f, p, d) ==
  /\ \A c \in Parents : FreeIn(f, c) = p.interior_free_len
  /\ ParentDelta(p, d) # 0 \/ d = f.ilst
  /\ d + FreeBox(p, d) >= p.taglist_len

\* A rewrite: no interior space, exterior space only if it is as large as the
\* new free box; every table with a chunk behind the tag list must be one the
\* parser kept, and its shifted entry must fit.
RewriteSound(f, p, d) ==
  /\ p.interior_free_len = 0
  /\ p.exterior_free_len \in {0, RewriteFree}
  /\ \A i \in DOMAIN f.tables : ~ f.tables[i].front =>
       /\ Kept(f, p, i)
       /\ f.tables[i].co64 \/ f.tables[i].entry + RewriteDelta(p, d) < StcoMod

WriteSound(f, p, d) ==
  IF ~ FitsInPlace(p, d) THEN RewriteSound(f, p, d)
  ELSE IF p.unlimited THEN UnlimitedInPlaceSound(f, p, d)
  ELSE BoundedInPlaceSound(f, p, d)

-----------------------------------------------------------------------------
(* mp4tag_write_tags.  The handle keeps what it had parsed before.         *)

WriteInPlace(d) ==
  /\ FitsInPlace(parse, d)
  /\ file' = InPlace(file, parse, d)

WriteRewrite(d) ==
  /\ ~ FitsInPlace(parse, d)
  /\ file' = Rewrite(file, parse, d)

WriteTags(d) ==
  /\ handle # "closed"
  /\ writes < MaxWrites
  /\ WriteInPlace(d) \/ WriteRewrite(d)
  /\ handle' = "stale"
  /\ writes' = writes + 1
  /\ sound' = (sound /\ handle = "parsed" /\ WriteSound(file, parse, d))
  /\ UNCHANGED parse

Next == Parse \/ Close \/ \E d \in DataLens : WriteTags(d)

Spec == Init /\ [][Next]_vars

-----------------------------------------------------------------------------
(* Properties.                                                             *)

TypeOK ==
  /\ file \in File
  /\ handle \in {"closed", "parsed", "stale"}
  /\ parse \in Parsed
  /\ writes \in 0 .. MaxWrites
  /\ sound \in BOOLEAN

\* After any number of covered writes, in any mix of in-place writes and
\* rewrites, of growing and shrinking tag data and of sessions, the file is
\* a proper tree of boxes, or one that version 1.3.0 damaged and that no
\* handle has been opened on yet.
BoxTreeKept ==
  sound => BoxTree(file) \/ (handle = "closed" /\ writes = 0 /\ Bug13(file))

\* After the same writes every entry of stco and co64 still points at its
\* chunk.
ChunksKept == sound => Chunks(file)

\* The parser takes back what version 1.3.0 did: a file is never left open
\* and unwritten with lengths that do not fit.
ParsedIsReadable == handle = "parsed" => BoxTree(file)

\* No write in a fresh session, covered or not, loses media data: the tail is
\* never overwritten nor cut off, and an in-place write between other boxes
\* does not move it either.
MediaKept ==
  [][handle = "parsed" =>
       /\ file'.lost = file.lost
       /\ file'.tail = file.tail
       /\ FitsInPlace(parse, file'.ilst) /\ handle' = "stale" /\ ~ parse.unlimited
            => file'.tail_at = file.tail_at]_vars

\* The free space is not eaten up by covered writes: after an in-place write
\* between other boxes, data and free boxes together are as long as before.
SpaceConserved ==
  [][sound' /\ handle = "parsed" /\ handle' = "stale"
       /\ FitsInPlace(parse, file'.ilst) /\ ~ parse.unlimited
     => file'.ilst + file'.run = file.ilst + file.run]_vars

-----------------------------------------------------------------------------
(* Statements of the comments, the tests and the documents that some write *)
(* refutes; each is checked on the kind of file it fails on.               *)

FreshWrite == handle = "parsed" /\ handle' = "stale"

\* mp4tagwrite.c:93-96: an in-place write is done if the space is equal in size
\* or has room for the data and a free space block, so that the boxes still fit.
RoomMeansReadable ==
  [][FreshWrite /\ FitsInPlace(parse, file'.ilst) => BoxTree(file')]_vars

\* tests/cochk.sh:45-54: after covers are added by rewrites the data found at
\* the chunk offsets is the data that was found there before.
ChunkDataSame == [][FreshWrite => Chunks(file')]_vars

\* wiki/Introduction.txt:6-8: when the tags are re-written to the file they are
\* all preserved: what a write leaves can be read again, however many writes
\* the session has made.
RewrittenTagsReadable == handle = "stale" => BoxTree(file)
=============================================================================
