# Verification of libmp4tag

libmp4tag reads and writes the tags of MP4 files. This directory holds TLA+
modules for the parts of the library whose correctness is hard to see from the
code or from its tests, TLC configurations that check them on small instances,
and proofs that TLAPS checks for all values of the constants.

    tlc -config Writer.cfg MCWriter.tla      # model-check one run
    tlapm WriterProofs.tla                   # check one module of proofs

`PROJECT.json` lists the runs, the mutants (one deliberate bug for each property,
which the property must catch), the lines of the source each definition stands
for, the findings, the hazards and the theorems.

## 1. The system

The library is single-threaded. An application opens a handle (`libmp4tag_t`),
parses, calls functions on the tags, writes any number of times, and frees the
handle. What can go wrong is therefore not a race but arithmetic over many
shapes of files, state of the handle that outlives the moment it was right, and
file operations that fail, or a program that stops, half way.

| Component | State it keeps | Operations | Hard behaviour | What makes it correct |
|---|---|---|---|---|
| Parser (`mp4tagparse.c`) | whether it is an MP4 file, offsets and lengths of moov/udta/meta/ilst, free space, stco/co64, the tags it adds | `mp4tag_parse_ftyp`, `mp4tag_parse_file`, `mp4tag_process_tag`, `mp4tag_process_covr`, `mp4tag_parse_check_end` | free boxes at several levels, files damaged by version 1.3.0, streams | the parsed lengths are those of the bytes; a repaired file is readable |
| Writer (`mp4tagwrite.c`, `mp4writeutil.c`) | none of its own: it uses what the parser left in the handle | `mp4tag_write_data`, `_write_inplace`, `_write_rewrite`, `_update_parent_lengths`, `_update_offsets` | signed and unsigned lengths, merged free space, several tables, repeated writes | box tree, chunk offsets and media data stay intact |
| Save protocol (same files, `mp4tagfileop.c`) | original, temporary and backup file, stdio buffers | copies, writes, renames, deletions | errors of every step, crashes, lost buffers | nothing is lost; all or nothing; errors are reported |
| Tag list (`mp4tagutil.c`, `libmp4tag.c`) | sorted array `tags`, `tagcount`, `datacount`, preserved arrays, `iterator` | get, set, delete, clean, preserve, restore, iterate | arrays of values, cover names, shared counters, a list that changes under an iteration | the array stays sorted and numbered; a call changes one tag; an iteration misses only what changed |
| Builder (`mp4tagwrite.c`) | `datacount`, `lastbox_*` | `mp4tag_build_data`, `mp4tag_build_append` | grouping of values into boxes | every tag written once, values in order |
| Tag codec (`mp4tagwrite.c`, `mp4tagparse.c`) | `identtype`, `internallen` of each tag, `lastbox_offset` | `mp4tag_build_append`, `mp4tag_process_tag`, `mp4tag_process_covr` | widths, type flags, lengths corrected afterwards | stored lengths agree with the bytes; what is written is read back |
| Session (`libmp4tag.c`) | `parsed`, `canwrite`, `mp4error`, `iterator` | open, parse, free, iterate, options | calls in any order | errors for calls out of order, no stale iterator |
| Stream (`mp4tagparse.c`) | `offset`, `timeout` | `mp4tag_data_read`, `mp4tag_data_seek` | short reads, timeouts | a read gets all or fails in bounded time |
| File operations (`mp4tagfileop.c`) | none | move, delete, size, seek | differences of platforms | see Save protocol |
| Command line (`mp4tagcli.c`), tables (`mp4const.c`), mdhd | none that lasts | | | |

How they interact: `mp4tag_parse` fills the handle; the calls on tags work on the
array only; `mp4tag_write_tags` has the builder turn the array into `datalen`
bytes and the writer put these into the file, with the offsets and lengths the
parser left. The parser never runs again on the same handle (except for the
repair of 1.3.0 files), although a write changes what it had found.

## 2. The modules

| Module | What it is |
|---|---|
| `Layout` | the file around its tag list, and operators for the parser and the writer on it |
| `LayoutFiles` | small files of every shape, for the runs of `Writer` and `Parser` |
| `Writer`, `MCWriter` | sessions on one file: parse, write, close; extends `Layout` |
| `WriterProofs` | theorems about `Writer` |
| `Parser`, `MCParser` | `mp4tag_parse_file` box by box, the repair, and the insertion of a tag list; compared with `Layout` |
| `ParserProofs` | theorems about `Parser`: what it reads and notes |
| `ParserWriteProofs` | theorems about `Parser`: what it changes in a file |
| `Induction` | induction and recursion over the natural numbers, stated with sets and functions; used by `ParserProofs`, `TagListProofs` and `TagCodecProofs` |
| `StreamRead`, `MCStreamRead` | `mp4tag_data_read` and `mp4tag_data_seek` with a source that is late and a clock that is set |
| `StreamReadProofs` | theorems about `StreamRead` |
| `TagStore` | abstract: a handle holds a bag of tags |
| `TagList`, `MCTagList` | the array of tags and every call on it; implements `TagStore` |
| `TagIterator`, `MCTagIterator` | the iterator while the array changes; extends `TagList` |
| `TagListProofs` | theorems about `TagList`, that it implements `TagStore`, and about `TagIterator` |
| `TagCodec`, `MCTagCodec` | tags as boxes: building, reading, and the calls that decide types and lengths |
| `TagCodecProofs` | theorems about `TagCodec` |
| `SaveProtocol`, `MCSaveProtocol` | the file operations of a write, their errors, and crashes |
| `SaveProtocolProofs` | theorems about `SaveProtocol` |

How they compose. `StreamRead` is what a read of `Parser` is made of: there a read of a stream
gets all its bytes or fails with a part of them, and which it is is open. `Parser` walks the
boxes of a file and leaves a handle; `AsInLayout` says that this handle is the one `ParseOf`,
`Fixed` and `Kept` of `Layout` state for the same file, so `Writer` and its theorems
stand on the parser that is in the code. `TagCodec` makes the `datalen` bytes that `Writer`
puts into the file, and `TagList` says which tags these are and in which order (`TagList`'s
`disk` is the decoded file). `SaveProtocol` says what is on disk when not all of the file
operations succeed (contents are whole or torn there). These are kept apart on purpose: each
abstracts from what the next is about. In `Writer` every operation succeeds; in
`SaveProtocol` the second write on a handle, which `Writer` shows to be able to break a file,
may leave contents that are not whole.

### Layout and Writer

A file is described from the ilst box on, since nothing before it ever moves:
the length of the tag data, the unbroken run of free boxes behind it with the
boundaries between boxes (`marks`), and the tail, whose bytes are counted by the
box they lie in (`meta`, `udta`, `moov` or none). Apart from these bytes the
file has the lengths that are *stored* in its headers and the chunk offsets that
are *stored* in its tables. Code that writes bytes and code that patches
numbers are different functions in the source, and so `BoxTree` (the stored
lengths describe the bytes) and `Chunks` (the stored offsets are where the
chunks are) can come apart.

| Definition | Code |
|---|---|
| `ParseOf` | what `mp4tag_parse_file` leaves: free boxes within moov are interior, those behind it exterior; an empty ilst ends it at once; whether boxes behind the tag list are still looked at |
| `Bug13`, `Fixed` | the recognition and repair of files of version 1.3.0 |
| `FitsInPlace` | the condition in `mp4tag_write_data` |
| `IlstDelta`, `ParentDelta`, `TotalDelta`, `FreeLeft`, `FreeBox`, `InPlace` | `delta`, `totdelta`, `freelen` and the writes of `mp4tag_write_inplace` |
| `RewriteDelta`, `Rewrite` | `mp4tag_write_rewrite` |
| `UpdateParentLengths`, `UpdateOffsets`, `Kept` | `mp4writeutil.c`, `mp4tag_update_offset_block`, and which tables the parser kept |

Not every write keeps a file intact (section 4). `WriteSound` names the writes
for which the arithmetic is right, as conditions on the file, the parsed values
and the new length, and the variable `sound` records whether all writes so far
were of this kind. The theorems are about these, so `WriteSound` is a
specification of the domain in which `mp4tagwrite.c` works, with these cases:

* in place between other boxes: there was free space or the length is unchanged;
  interior space lies in meta; interior space next to exterior space is not
  taken up exactly;
* in place at the end of the file: the new data and free box reach the old end;
* rewrite: no interior space, and exterior space only if it is as large as the free box of a
  rewrite (`RewriteFree`): the stored lengths of the parents then change by what the file grows by, so they end in
  front of the new free box, as they did in front of the old ones, only if the two are of one size; every
  table with a chunk behind the tag list is one the parser kept, its 32 bit entries do not overflow.

### Parser

A file is a sequence of cells in the order of its bytes: a box header with the bytes up to
the next header. The content of a container is the cells within its stored length. Reading
at a place where no cell starts gives an arbitrary header (`Junk`: lengths of zero, shorter than a
header, usual, and a negative 64 bit one), as the code takes any bytes for one.

| Definition | Code |
|---|---|
| `ReadFtyp`, `ReadBrands` | `mp4tag_parse_ftyp` and what `mp4tag_open` does with its result |
| `stack`, `Call`, `Enter`, `Return` | the recursion of `mp4tag_parse_file`: `boxlen`, `rem_length` and the box of each level |
| `ReadHeader`, `Examine` | the loop up to the descent: header, 64 bit length, offsets, free space, `parsedone` |
| `FinishBox`, `Account`, `EndFlags` | the loop behind the descent: tag data or skip, `rem_length`, the flags of the 1.3.0 damage |
| `LeaveLoop` | a break out of the loop, and what is done at level 0 |
| `ReadFails`, `SkipData`, `ReadData` | end of file, timeout, failed seek, failed allocation; also in the 64 bit length of a header and over the flags of meta, which is entered all the same |
| `Repair` | `mp4tag_parse`: correct the lengths, read again |
| `InsertedBoxes`, `InsertDelta`, `Inserted`, `WriteTags` | `mp4tag_write_rewrite` where there is no ilst |

Of the brands in `ftyp` only the number of signs of an MP4 file is kept; a `ftyp` without any brands is
opened, as reading nothing is no error there. The length of a box that is entered goes to the next level as
32 bits (`% SkipMod`), like the length that is skipped. A 64 bit length of zero is taken for a length of zero. Bytes that are no header never spell a name the parser knows:
otherwise anything could be read.

Three predicates say which files the properties speak of. `PlainList`: one tag list at most, with tags and free boxes in
it and all tags in it; the boxes around it may have any lengths. `Readable`: a plain list in a
tree of boxes that starts with `ftyp`, has no box too long for `skiplen`, none that is entered with a length of 2^32 or more, and no box
but the last that reaches to the end of the file. `ListInReach`: the list lies in boxes that the parser enters. The assumption on the
constants (`IsFile`) is weaker than all of them: a file is any sequence of headers, with any stored lengths,
but for ilst and free boxes, which are not shorter than their header.

### StreamRead

Bytes are their own places in the source, so that `buff` shows which byte came where. Time
passes in milliseconds (`Tick`) while a callback runs or the read sleeps; bytes arrive at any
moment (`Arrive`); the read callback returns any part of what is there, also nothing
(`ReadBytes`); the time of day, by which the timeout is measured, may be set (`SetClock`).
`back` and `forward` count by how much, `held` that the callback held bytes back, and `ready`
when all of the bytes had arrived; the code has no such variables, the properties need them.

### TagStore and TagList

A name is a number in the order of `strcmp`, with its row of `mp4taglist`
(`Kind`, `Priority`). An argument is what `mp4tag_parse_tagname` makes of
it: a name, an index or none, and whether it addresses the name of a cover. Each
call of the interface is an action that contains the search, the checks in the
order of the code, the change and the sorting. `qsort` and `bsearch` are taken
as the C standard describes them: equal entries in any order, any of several
equal entries found, nothing promised in an array that is not sorted.

Not every array survives a write. `mp4tag_build_append` lengthens the box of a name for a further text or
image (`Grows`), and for nothing else, so a second number, pair or binary value of one name is written behind the
end that the box claims. Each entry therefore has a type (text, number, data, image), and
`SoundArrays` says of a list that the further values of each name are texts or images. A list that is sound is
written to `disk` as it is (`Build`); of any other the model leaves open what the file holds then, as the reader
goes on in the middle of a value. The runs reach such lists: a custom tag that has a text and a binary value, for one.

`TagStore` knows none of this: a handle holds a bag of tags, and a call adds,
removes or replaces one. `Write` takes the bag over while its parameter `sound` is true, and promises nothing otherwise.
`StoreSpec` is `TagStore!Spec` under the refinement that maps arrays to bags and `sound` to `SoundArrays`.

Abstractions: values are model values and never empty; binary data is not 1, 2,
4 or 8 bytes long (such data is read back as a number), numbers and pairs are as they are
printed, and the names of custom tags are short enough for the reader (all of this is `TagCodec`'s matter);
in files all covers, and only they, are images; memory is never exhausted.

`TagIterator` adds `iterator` and the calls `mp4tag_iterate_init` and `mp4tag_iterate`. Its
history variables count what the list has lost and gained since the iteration began.

### TagCodec

The content of ilst is a sequence of boxes, one for a name: the length that is *stored* in it, cover names
in front of the first image, and its data boxes, each with its type, its stored length, the value of its bytes, the cover
names behind it and the gap: bytes that are reserved and not written, or (below zero) written beyond what is reserved.
`Values[w]` is how many numbers have w bytes; a number that is stored in w bytes is taken modulo it, with or
without sign as the code prints it. No number is printed with more than `MaxDigits` digits. Of a text only its
length and what `atoll` and `sscanf` make of it are kept.

| Definition | Code |
|---|---|
| `SaveLen`, `Payload`, `NameRoom`, `PartOf`, `Started`, `BuildAppend` | `mp4tag_build_append` |
| `Extended`, `Grown`, `GrownByName` | `mp4tag_update_data_len`: what another value and a cover name add to the length of the box |
| `Built`, `BuildData` | `mp4tag_build_data` |
| `BoxLen`, `Visited`, `NameAt`, `ReadPlain`, `ReadData`, `ProcessTag` | `mp4tag_process_tag`, with the end of its loop and the `gnre` conversion, which renames the data boxes behind it too |
| `NameOf`, `ProcessCovr` | `mp4tag_process_covr` |
| `SetString`, `NewString`, `SetBinary`, `NewBinary`, `CheckCovr` | which type and length a tag gets |

The kinds of tags are `TextTag`, `NumberTag`, `PairTag`, `DataTag`, `ImageTag` and `Untyped`. `Kept` names the tags that come back as they were, and `Settling` those of which something
changes when they are written, but only once. What is in neither is listed in section 4.

### SaveProtocol

The directory maps the names of the original, the temporary and the backup
file to contents, and contents have a version, a size and a flag that says whether
they are whole. Each file operation of `mp4tag_write_inplace` and
`mp4tag_write_rewrite` is an action with a successful and, if the name of the step is in
`failing`, a failing outcome, followed by what the code does then (return, go on,
skip, overwrite `rc`). `Crash` may happen between any two. Data that an in-place
write leaves in the buffer of the handle's file is in `unflushed` until the
next seek or `mp4tag_free`. `Parse` opens any file there is, torn ones too: `mp4tag_open` and `mp4tag_parse` look at
`ftyp` and lengths only. What is written by a call on a torn file, or by a second call on one handle, may be whole or not. What may happen in a behaviour is chosen at the start (`mode`): whether
the backup option is set, which branch of `mp4tag_file_move` is compiled (on Windows the
new name is deleted first, in a step of its own), which steps may fail, and how often
a handle may be written with. Each property says for which modes it holds, as not every combination
of failures is survivable.

## 3. What the runs show

| Run | Shows | Instance |
|---|---|---|
| `Writer` | `BoxTreeKept`, `ChunksKept`: after any covered writes the file is a tree of boxes and the chunk offsets are right. `ParsedIsReadable`: 1.3.0 files are repaired. `MediaKept`: *no* write of a fresh session, covered or not, touches media data. `SpaceConserved`: covered in-place writes do not lose free space | all arrangements of free boxes (0 or 24 bytes at 4 levels) and other boxes (0 or 30 bytes at 4 levels), tag data of 0, 20 or 60 bytes, tables in six arrangements, damaged files; 8 new lengths, up to 3 writes in any sessions |
| `Parser` | `HeadersOnly`: skipping, descending and counting agree, so the parser stays in step with the boxes. `TagsInOrder`: whatever is read behind the tag list or after a failure, nothing that is no tag is added, none twice or out of order. `TagsRead`: without failure all tags of a proper file are added. `AsInLayout`: the handle is the one `Layout` states. `OnlyDamageRepaired`: a proper file (`Undamaged`) is never taken for a damaged one and overwritten. `InsertedRight`: box tree and chunk offsets after an insertion. `ParseEnds`: the parser ends on every file | all files of `Writer`, 39 files without a tag list (udta empty, with other boxes, with meta but no ilst, or none; in front of or behind the tracks; moov in front of or behind the media), files with nesting beyond the depth limit, a media box too long to be skipped, moov boxes of 2^32 bytes and more, a 64 bit length that times out, a hidden free box; files that are no MP4, are empty, end within `ftyp` or have no brands; up to two failures |
| `StreamRead` | `GotAll`: a read that succeeds has all bytes in order. `InStep`: the offset follows the source, also after a failure. `FailsOnlyIfLate`, `BoundedWait`: a read fails only when bytes are late, and in time. `ReadEnds`: every read ends | reads of 1 and 3 of 4 bytes, three calls, timeout 4, sleep 2, jitter 1, the clock set by 1 either way |
| `TagList` | `StoreSpec`: the array implements the bag, which a write keeps if the arrays are sound. `FailedCallChangesNothing` | 8 names of all kinds, 13 arguments, 4 files, 2 calls |
| `TagListDeep` | `Ordered`: the array is sorted and numbered. `OrderWritten`: each value of a list with sound arrays is read back, once, with the index that is its place among the values of its name: in the same order, without gaps. `ReadIsAdding`: the closed form of reading used in the module is the loop of the code. `MissesOnlyChanged`, `RepeatsOnlyAdded`: an iteration over a list that changes | 5 arguments, 2 files, 3 calls, iterations at any time |
| `TagCodec` | `LengthsAgree`: stored lengths are those of the bytes. `RoundTrip`: kept tags come back. `SettlesAtOnce`: what is lost is lost at the first write. `Filled`: no byte is left unwritten | 14 lists of other programs, 12 names of all kinds, 5 texts, 2 blobs, 2 calls and any writes and openings |
| `Save` | `NothingLost`: with a backup, errors of steps and crashes anywhere in a call on a whole file leave a whole file. `WindowRecoverable`: where no file has the name of the original, the old and the new one are there under the other two. `AllOrNothing`: a rewrite either reports an error and leaves the old file or reports none and leaves the new one. `BackupIsCopy` | POSIX and Windows, with and without backup, three sets of failing steps, 3 writes, one or two per session |

Why the bounds are enough. The lengths in `Writer` are chosen around the limits of
the code: the free space size 16 gives a new free box of 24 bytes, so free
boxes of 0 and 24 make exactly fitting, too small and larger space; the lengths 28, 35,
36, 44, 60 and 100 hit "equal", "one less than room for a header", "exactly a header
less", "exactly the interior space" and "does not fit"; `StcoMod` 468 lets 32 bit
entries overflow. Three writes allow in-place, rewrite and in-place again, in one or in
several sessions; the theorems remove these bounds. In `TagList` two calls are enough
for each call to follow each other one from every kind of file, and the deep run
goes to add, delete, write, restore and iterate. In `Save` a third write meets the
temporary and backup files that the first two left, and a torn file if the first was cut short. `Parser` has no bound on steps; `SkipMod` 1000 stands
for 2^32 and is exceeded by a box that is skipped and by two that are entered. In `StreamRead` the timeout is not a multiple of the sleep
and the jitter, so that both ends of the wait occur; the theorems remove the bounds. In `TagCodec` bytes have four
values (`Values[w]` is 4^w), so that 5 overflows one byte and 20 two, and -1 shows the sign; two calls let a second value follow a first, a
cover name an image, and a deletion leave a list of which only the second value remains.

Constants that bound: `MaxWrites`, `MaxCalls` and `MaxSaves` (calls), `MaxAdjust` and
`MaxTime` (the clock of a read), `faults` of an opening (failures while parsing). `StcoMod`
and `SkipMod` are 2^32 in the format and the code.

Fairness. Only two specifications have any. The library does nothing by itself: every step is part of a
call, and an application that never calls again violates nothing, so no call is fair. Within a call the program
runs on: `Parser` assumes `WF_vars(ParseStep)` and `WF_vars(Repair)`, and `StreamRead` that the read goes on
when its sleep is over (`Wake`), that a callback returns (`ReadBytes`), and that time passes
(`Tick`), up to `MaxTime`, which is longer than any read lasts. Bytes need not arrive.
Deadlock is not checked because the systems may stop: a handle may stay closed, the number of
calls is bounded, and a list whose lengths do not agree is not read in `TagCodec`.

## 4. Findings

Each is a run that TLC ends with a counterexample to a statement of the documents,
comments or tests; the findings in `PROJECT.json` quote it.

| Run | What the code does |
|---|---|
| `WriterNoSpace` | shorter data is written in place where there is no free space, and leaves a gap |
| `WriterInterior` | a rewrite with interior free space shifts chunk offsets by the wrong distance |
| `WriterTwice` | a second write on a handle uses lengths from before the first |
| `TagListSetNew` | a new tag is not found under its name until the file is parsed again |
| `SaveMasked` | an error of writing the tag data is overwritten, the torn file replaces the original |

The models have further behaviours that disagree with a document or a comment, for which
no run is kept:

* at the end of the file the free box has a fixed length and the file is not truncated, so
  data that shrinks by more than that leaves old bytes behind the box
  (`mp4tagwrite.c:217`; the comment there says that shrinking is handled); `WriteSound`
  excludes it;
* data that grows by exactly the interior space, next to exterior space, cancels `delta` and
  the length of ilst is not written (`mp4tagwrite.c:191` and `:234`); `WriteSound` excludes it;
* `datacount` is not reset when covers are deleted, so the only cover may get index 1 and
  `covr` does not find it (`mp4tagutil.c:280`, `wiki/TagNames.txt:10`); `StoreSpec` allows it, as
  it does not speak of indexes;
* one stco and one co64 table are remembered, those of other tracks are not updated by a rewrite (`mp4tagparse.c:227`; `:172` calls
  the table "offset table to update"); `WriteSound` excludes it, and the run `Writer` has files with two tracks;
* the backup of an in-place write is as long as the file was when it was opened (`mp4tagwrite.c:148`), so
  after an earlier write of the session it may be cut short (`wiki/Initializing.txt:77`: "Make a copy of the original file."); `BackupIsCopy`
  speaks of the first write of a session;
* an in-place write that a crash or an error cuts short leaves a torn file and, with the option, a whole backup. The next
  `mp4tag_open` opens the torn file without an error, and the next write puts a copy of it in the place of the backup (`mp4tagwrite.c:142`,
  `"wb+"`), the only whole copy there was; so does a retry on the same handle. `NothingLost` speaks of calls on whole files
  (`WholeBefore`), one per session; the run `Save` has both scenarios;
* failing renames are reported as success (`mp4tagwrite.c:461`); `AllOrNothing` leaves them out, and on Windows the original is then deleted
  by the second rename (`mp4tagfileop.c:165`);
* the parser, files without a tag list: if the udta holds a meta without ilst, the length of moov becomes 12 too small, as the header of the old meta is counted in `insert_delta`
  but stays in the file, an udta or meta of a track is taken for that of the movie
  (`mp4tagparse.c:187-203`), and what an old udta held becomes children of moov; `InsertSound` names the files for which the insertion is right;
* a file with a free box inside another box behind ilst can be taken for one that 1.3.0 damaged, and its lengths are
  overwritten (`mp4tagparse.c:429`); so can one in which what lies behind the list reads as a box with a length that is negative or shorter than its header,
  and one with long headers or a second moov, udta or meta around the list; `OnlyDamageRepaired` excludes them with the conditions of `Undamaged` (`NoHiddenFree`, `JunkPasses`,
  `ShortHeads`, `ListPath`);
* a box longer than 4 GB is skipped by its length modulo 2^32 (`mp4tagparse.c:159`), so tags behind it are not found; a moov
  that long is entered with its length modulo 2^32 (`:83`, `:296`), so the end of its content is not reached;
* a file that is empty or ends within `ftyp`, or a stream that times out there, is opened without an error, as the failing
  read sets none (`mp4tagparse.c:491`, `:509`; `wiki/ErrorCodes.txt:59`, MP4TAG_ERR_NOT_MP4: "it could not be determined that the
  file specified was an MP4 file");
* bytes that arrive during the last sleep before the timeout are not asked for (`mp4tagparse.c:956-961`; `wiki/Initializing.txt:43-44`: "must be
  able to provide the requested data before the timeout occurs"); `FailsOnlyIfLate` allows for it;
* the seek callback gets a distance (`mp4tagparse.c:905`), while `wiki/Initializing.txt:50` says it "must reposition the stream to the offset"; `Seek`
  takes the callback as one that moves on by the distance;
* the codec: a data box of a type the library does not know is dropped, so it is gone when the tags are written
  (`mp4tagparse.c:708-788`; `wiki/Introduction.txt:5-8`: "all tags will be preserved"); a number of type 0 with 1, 2, 4 or 8 bytes comes back as
  digits and is written as text, which may need more bytes than are reserved (`mp4tagwrite.c:887`); numbers of other widths and images of a
  type that is no longer known write a head without bytes; an empty cover name reserves 8 bytes and
  writes none (`:765`, `:900`); a second number, pair or data of one name is not in the length of the box and is lost (`:845-889`; `SoundArrays` of `TagList` and `TagCodec` excludes it); an eight byte
  disk leaves two bytes unwritten; text of no bytes is not read back; an application's name of more than 16 bytes in
  a custom tag lets the reader run past the end of the box (`mp4tagparse.c:689`);
* the end of an in-place write is still in a buffer when `mp4tag_write_tags` returns
  (`mp4tagwrite.c:261`); it is `unflushed` in `SaveProtocol`.

## 5. What is proved

The theorems hold for all values of the constants that satisfy the assumptions of the
modules (`ParamAssumption`, `LayoutAssumption`, `TagAssumption`, `SaveAssumption`,
`StreamAssumption`, `ParserAssumption`, `CodecAssumption`): lengths and offsets are natural numbers, files start as proper trees
of boxes or as 1.3.0 damaged ones; in `Parser` they are any sequences of headers with any stored lengths.

`WriterProofs`. The inductive invariant adds to `TypeOK`, `BoxTreeKept` and `ChunksKept`
that the marks lie within the run of free boxes, that chunks lie before the tag list or
inside the tail, and that the values in a fresh handle are those of the file (without this
nothing can be said about a write). The argument: lemmas say what the in-place
write and the rewrite do to the fields of a file (`InPlaceFields`, `RewriteFields`); a
change of the stored length of a parent by some delta and of the tag data by d moves its
end within the free run by their difference (`FreeInMoves`); each case of `WriteSound`
makes that difference land on a box boundary (`InPlaceBoxTree`, `RewriteBoxTree`); a
rewrite moves the tail by exactly `RewriteDelta`, by which the entries are shifted
(`RewriteChunks`). Theorems: `TypesHold`, `BoxTreeHolds`, `ChunksHold`,
`ParsedReadableHolds`, `MediaHolds`, and `SpaceHolds`: what an in-place write takes from the
free boxes or gives back to them is the change of the tag data, and no more.

`StreamReadProofs`. The inductive invariant ties what the properties compare: the bytes in the buffer are the
`totbr` bytes before `pos`; `bwant` is what is missing; the clock has moved by the elapsed time and the settings since the deadline was
set; before the last look at the clock not more than the timeout had passed by it; and if all bytes had arrived at `ready`, then the
callback has had the chance to return them. Theorems: `StreamTypes`, `StreamInStep`, `StreamGotAll`, `StreamFailsOnlyIfLate`, `StreamBoundedWait`, for
every timeout, sleep, jitter, size and every division into pieces.

`TagListProofs`. The inductive invariant is `TypeOK` and `Ordered` together: `Ordered` is
what makes `Find` return the position of an entry, and without that a deletion or a
replacement could hit anything. Sorting, deleting and replacing keep a list in order
(`SortsGood`, `DelGood`, `ReplaceGood`); every branch of every call is one of these.
Theorems: `ListTypes`, `ListOrdered`, `FailedCalls`, and `WritesEachOnce`: the builder
writes every entry that is to be written exactly once, in the order of priority. From it follows `WrittenInOrder`
(`OrderWritten`): in a list in order the entries of one name lie together and stay together when they are written
(`WrittenTogether`), so the index that reading counts for an item is the place of its entry (`PlaceKept`), and sorting is a bijection of positions
(`SortMoves`). It speaks of lists with sound arrays, like the property. It needs that covers have one name, as in `mp4taglist`: their indexes are counted over all covers. `ReadingIsAdding`: the closed form of
reading satisfies the recursion of `mp4tag_add_tag` (`ReadNext`), and induction over the items gives the rest.

`ListIsABagOfTags`, in the same module, is the refinement `StoreSpec` for all names, arguments,
values and files; a write is a step of `TagStore` also where the arrays are not sound, but then one that promises nothing. The bag of a list counts the positions of each content, so the lemmas are about
positions: a bijection of positions keeps the bag (`BijectionBag`: sorting, moving up behind a deleted entry,
writing), and a position more or less adds or removes one tag (`PlaceBag`: adding, replacing, deleting).
`WritesEachOnce` gives the bijection between the writable entries and the items of the file. The inductive
invariant is needed again: only in a list in order do the calls reach the entry they found.

The iterator, in the same module. The invariant (`Walk`) counts, while no two entries are the same: the keys before the
iterator that were not returned are at most the tags added and removed since the start, and those behind it that
were returned, with the repeats so far, at most the tags added. A call may change the list in any way; what is used
is that both lists are in order and cut at the same position, so keys pass the iterator in one direction
only (`ListShift`), and that as many keys pass as were lost or gained (`MissedShift`, `SeenShift`). Theorems:
`IterationMisses`, `IterationRepeats`, for lists of every length and any calls between two calls of the iterator.

`SaveProtocolProofs`. The inductive invariant says, for every place in the code of a write, which of the three
files exists and which holds the old contents, the new contents or a torn file, under conditions on the steps
that may fail (`Complete`, `Moved`); it is the conjunction of `TypeOK`, `HandleInv` (the handle's view), `SessionInv`, `FirstInv` (the first
write of a session), `MovesInv` (the renames) and `RestInv`. Torn files are opened and written in it like others; what it
says of contents depends on what the file was before the call. The properties are about single places and cannot be
shown from `TypeOK`: after a failed rename nothing says where the old contents are unless the invariant followed them there.
Theorems: `SaveTypes`, `NothingIsLost`, `WindowIsRecoverable`, `RewriteAllOrNothing`, `BackupIsACopy`, for every
size of a file, every mode and any number of calls and sessions.

`ParserProofs`. The inductive invariant is the conjunction of `ShapeInv`, `BasesInv`, `ListInv`, `HeadersInv`,
`OuterInv` and `CompleteInv`. `TypeOK` alone is not inductive: that `taglist_len` stays natural
needs the shape of every call on the stack, the box it is at and the boxes of the file (`ShapeInv`), and that the repair and the insertion leave a file
of the same kind needs what the handle has noted of the containers (`BasesInv`). The four theorems, for every file, every number of
calls and cells, all junk, all faults and modes:

* `TypeCorrect`: `TypeOK`.
* `ParsedInOrder`: `TagsInOrder`. `ListInv` follows the one place where tags are added: `processdata` is
  only set between the header of ilst and its end, there the offset is that of a cell within the list, the number of tags before it is the number of tags added, and once
  `processdata` is reset it is never set again, because no cell behind is an ilst and junk spells none. A fault leaves the level with an offset that is no
  longer that of a cell; then nothing more is added, although the outer levels read on.
* `HeadersFound`: `HeadersOnly`. `HeadersInv` says that each level of the stack has the box of which the next one
  reads the content, and that in a tree of boxes the ends of these boxes are starts of boxes again. It holds until `parsedone`,
  also behind a depth limit, where a level goes on in the middle of its box.
* `AllTagsRead`: `TagsRead`. `OuterInv` and `CompleteInv` say that until the list is met every tag lies ahead, that the parser enters each box
  that the list lies in (`ListInReach`), and that it leaves the list only at its end, with `parsedone` or `checkforfree`
  set only when all tags have been counted.

`Reach` (where a cell starts) and `TagsUpTo` (the tags before it) are recursive functions. `Induction` makes them usable in a proof: the library's
theorems take operators as parameters, so `Induction` states induction for sets of numbers and recursion for functions from
value to value (the lemmas `SetInduction`, `RecursionExists`, `SumsExist`), and proves them from the well-foundedness of the natural numbers.

`ParserWriteProofs`. `ProperSpared`: `OnlyDamageRepaired`, for every file and all junk that `Undamaged` names; of other trees of boxes it is not true (section 4). A file is repaired
only when `freeneg` is set, by a free box that ends behind the end of the level ilst is in, and `udtazero`, by an udta that ends where its level ends.
The proof shows that no free box of a proper file does so, in three parts:

* `InStep`: as long as nothing has failed and the parser is not done, the boxes on the stack are exactly those that the next header lies in, and
  `rem` is the distance to the end of the innermost one. So a free box right behind ilst ends within its level. `ShortHeads` is needed here: the code takes
  8 bytes off for every header, so with a long one `rem` is wrong.
* `FaultInv`: a fault in a file opened for writing leaves an error in the handle, and nothing is written.
* `SparedInv`: behind the list the parser stops at the first box that is no free box, in the middle of it, and goes on in the outer levels with whatever bytes come there.
  At most three levels are open then (`ShortPath`, from `ListPath`), so the level that has `ilstend` still to be looked at is the third, and no free box is met in
  it any more: it is at its last box, or what it reads lies in the box it stopped at or behind, where `NoHiddenFree` leaves no free box (`OtherBehind`, `NoFreeEnds`),
  or is no header, and then `JunkPasses` lets the offset only grow (`BoxLasts`, `LevelLasts`).

`InsertedIsRight`: `InsertedRight`, for every file of `InsertSound`, with any other boxes in front of, in, and behind moov and any list of tags. Files whose udta holds
a meta without ilst, or that have an udta or meta in a track behind that of the movie, are not among them (section 4).
The proof has two halves, what the parser notes and what the writer makes of it:

* `NoteInv`: while nothing has failed, of every box that the parser has passed (`pos`) that matters for the insertion, the handle
  holds the right values: the place and length of moov at level 0, the place of the last udta, the place of the stco and co64 tables; without an udta
  the end of moov. It uses `InStep`: the parser passes every box of such a file, because `Noteworthy` boxes lie in boxes it enters, and what it skips holds none of them.
* At the end of the parse the two offsets `noilst_offset` and `after_ilst_offset` are starts of boxes, and every box in front of them
  but moov ends there at the latest (`Cut`, `CutAtUdta`, `CutAtEnd`). So the file that is written is the cells in front, the
  inserted boxes and the cells behind, moved by one distance, with only the length of moov and the entries of the tables changed
  (`Written`, `WrittenCells`; `SplicedCells` for the bytes).
  `Laid` gives the place and the end of each box then. From it follow, by the three parts a pair of boxes may lie in, that the boxes nest
  (`EndsWritten`, `NestWritten`), that the list is at moov.udta.meta.ilst (`ListWritten`) and that an entry moves exactly
  when its media data does (`ChunksWritten`): media data in front end at the place, those behind start there, and a sum below `StcoMod` is not cut.

The conditions are those of the property: `InsertSound` on the boxes; `TablesSound` and a file smaller than `StcoMod` for the chunk offsets.

`TagCodecProofs`. The inductive invariant is `TypeInv`: the types, only a `covr` has a cover name (`GoodTag`), the list is in the
order of writing (`Sorted`), and what the last call has written is `BuildData(tags)`. The five theorems hold for lists and arrays of any
length, any names, any lengths of the names of custom tags, any number of values of a byte (an even number) and any
files of well-formed boxes, with right and wrong lengths.

* `CodecTypes`: `TypeOK`. Sorting makes a list that is in order (`ByNameSorts`) and leaves one that is as it is
  (`SortedStays`), so deletions and changes in place keep what `TypeOK` says.
* `LengthsStored`, `AllFilled`: `LengthsAgree` and `Filled`. By induction over the list, each box that is written is made of the tags of its name,
  and its stored length is its head and the sum of its data boxes (`MadeOf`, `BuiltMade`). This is where the condition `SoundArrays` is
  needed: `mp4tag_update_data_len` is called for texts and images only, so a second value of another type is not in the length.
  From the sum, `MadeIsRead`: the loop of `mp4tag_process_tag` ends behind the last data box and not before, although the
  code computes the end of a custom tag wrongly; the end is at most 15 bytes too early as long as `AppLen` is at most `MaxAppLen`.
* `NothingLost`: `RoundTrip`, for lists of kept tags with sound arrays (`AllKept`). A tag of each kind comes back from its data box as it was (`ComesBack`), for which storing a number must change nothing in a
  number that was stored before (`Numbers`: taking the remainder with or without sign is idempotent); induction over the list makes this a statement
  on the list (`ReadStep`, `Came`, `ReadAsWritten`).
* `LostAtOnce`: `SettlesAtOnce`. What comes back from any of the kinds is a tag that is kept.

`Built`, `Sum` and the community modules' `FlattenSeq` are recursive functions; `RecursionSolved` and `RecursionUnique` of
`Induction` unfold them.

Only model-checked, and why:

* `AsInLayout` compares `Parser` with `Layout` on the files of `LayoutFiles`, which are built for TLC.
* `ParseEnds` and `ReadEnds`: liveness is out of the prover's reach.

## 6. What is not modelled

The command line utility (it parses options and prints, and calls the library in a fixed order); `mdhd`
(straight-line decoding of fixed fields that no later step depends on); debug output, file times, the version and the error texts: none has state that
later steps depend on. Exhaustion of memory, except where the parser reads the data of a box. What the reader of tags makes of bytes when a stored
length is wrong: it is open, so `TagCodec` stops there. The option to print the file structure, which makes the parser
read on behind the tag list.

## 7. Plan

Done, in this order: `Layout`, `Writer`, `WriterProofs`; `TagStore`, `TagList`,
`TagListProofs`; `SaveProtocol`, `SaveProtocolProofs`; `StreamRead`, `StreamReadProofs`;
`TagIterator` and its theorems; `Parser`; `TagCodec`; `Induction`, `ParserProofs`; `TagCodecProofs`; `ParserWriteProofs`.

Possible next: a composition of `SaveProtocol` with `Writer`, so that the second write of a session leaves exactly the file that `Writer` computes.
