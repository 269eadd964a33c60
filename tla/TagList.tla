------------------------------ MODULE TagList -------------------------------
(***************************************************************************)
(* The tag list of a handle: what the calls on tags (get, set, delete,     *)
(* clean, preserve, restore) do to the sorted array of tags, and how the   *)
(* array is read from a file and written to it.                            *)
(*                                                                         *)
(* A tag is addressed by its name and an optional index, "covr:1" or       *)
(* "covr:1:name".  Names are numbers here, in the order of strcmp.         *)
(*                                                                         *)
(* Of the bytes of a tag only what decides over arrays is kept: the length *)
(* of the box of a name grows with each further text or image, and with    *)
(* nothing else, so that further numbers or binary data are lost.  What    *)
(* becomes of a single value is TagCodec's matter: here a value is never   *)
(* empty, binary data is never 1, 2, 4 or 8 bytes long, numbers and pairs  *)
(* are as they are printed, and the names of custom tags are short enough  *)
(* for the reader.                                                         *)
(***************************************************************************)
EXTENDS Integers, Sequences, FiniteSets

CONSTANTS
  Names,      \* the tag names of an instance, numbers in the order of strcmp
  Kind,       \* for each name: what mp4taglist says about it; covers have one name
  FourBytes,  \* the names of four bytes; the names with a copyright sign have five
  Priority,   \* the order in which mp4tag_build_data writes the names
  Args,       \* the tag arguments of the calls
  Values,     \* values for set, and of the tags and cover names in files
  Files,      \* the tags that may be read from a file: sequences of items
  MaxCalls    \* bound: calls that change the list or the file

Kinds    == {"text", "number", "pair", "data", "cover", "custom", "unlisted"}
Types    == {"text", "number", "data", "image"}  \* number: of any width, or a pair
NotFound == -1                 \* MP4TAG_NOTFOUND
NoIndex  == -1                 \* the argument has no index
NoWrite  == -1                 \* MP4TAG_PRI_NOWRITE
NoName   == "no covername"
NoList   == << >>              \* nothing preserved, else a sequence of one list
Errors   == {"OK", "TAG_NOT_FOUND", "MISMATCH", "FILE_NOT_FOUND", "NO_TAGS"}

\* What mp4tag_parse_tagname makes of an argument.
Arg  == [name : Names, index : Nat \cup {NoIndex}, isname : BOOLEAN]

\* A tag as it is read from a file, where all covers, and only they, are images,
\* and the entry of the list.
Item ==
  {i \in [name : Names, data : Values, type : Types, covername : Values \cup {NoName}] :
     Kind[i.name] = "cover" <=> i.type = "image"}
Tag ==
  {e \in [tag : Names, dataidx : Int, idx : Int, data : Values, type : Types,
          covername : Values \cup {NoName}] :
     e.type = "image" => Kind[e.tag] = "cover"}

Binary(e) == e.type \in {"data", "image"}

ASSUME TagAssumption ==
  /\ Names \subseteq Nat
  /\ Kind \in [Names -> Kinds]
  /\ FourBytes \subseteq Names
  /\ Priority \in [Names -> Int]
  /\ Args \subseteq Arg
  /\ \A m, n \in Names : Kind[m] = "cover" /\ Kind[n] = "cover" => m = n
  /\ NoName \notin Values
  /\ Files \subseteq Seq(Item)
  /\ MaxCalls \in Nat

VARIABLES
  disk,       \* the tags in the file, as they will be read
  open,       \* the file is open and parsed
  tags,       \* the array of tags, tagcount long
  present,    \* the array is allocated (tags is not NULL)
  datacount,  \* counts covers while parsing, and the items of a box on writing
  saved,      \* what mp4tag_preserve_tags returned
  mp4error,   \* the result of the last call
  calls       \* calls so far, at most MaxCalls

vars == <<disk, open, tags, present, datacount, saved, mp4error, calls>>
list == <<tags, present, datacount>>

-----------------------------------------------------------------------------
(* Sorting and searching.                                                  *)

\* mp4tag_compare: by the name, then by the index.
Before(e, f) == e.tag < f.tag \/ (e.tag = f.tag /\ e.dataidx < f.dataidx)

InOrder(s) == \A i, j \in DOMAIN s : i < j => ~ Before(s[j], s[i])

\* A list without two entries of the same name and index.
Distinct(s) ==
  \A i, j \in DOMAIN s :
    s[i].tag = s[j].tag /\ s[i].dataidx = s[j].dataidx => i = j

\* The orders qsort may put the entries in: each goes behind the ones before it,
\* equal entries stay in no particular order.
Candidates(s) ==
  LET rank(j) == Cardinality({k \in DOMAIN s : Before(s[k], s[j])})
      same(j) == Cardinality({k \in DOMAIN s : ~ Before(s[k], s[j]) /\ ~ Before(s[j], s[k])})
      for(i)  == {j \in DOMAIN s : rank(j) < i /\ i <= rank(j) + same(j)}
      tied    == {i \in DOMAIN s : Cardinality(for(i)) > 1}
  IN {[i \in DOMAIN s |-> IF i \in tied THEN q[i] ELSE CHOOSE j \in for(i) : TRUE] :
        q \in [tied -> UNION {for(i) : i \in tied}]}

Orders(s) ==
  {p \in Candidates(s) :
     /\ \A i \in DOMAIN s : p[i] \in DOMAIN s
     /\ \A j \in DOMAIN s : \E i \in DOMAIN s : p[i] = j
     /\ InOrder([i \in DOMAIN s |-> s[p[i]]])}

\* mp4tag_sort_tags numbers the sorted entries.
Sorts(s) ==
  {[i \in DOMAIN s |-> [s[p[i]] EXCEPT !.idx = i - 1]] : p \in Orders(s)}

\* The entries mp4tag_find_tag may return: an argument without index means
\* index 0, any of equal entries may be hit, and bsearch promises nothing in
\* an array that is not in order.
Find(s, a) ==
  LET key  == IF a.index < 0 THEN 0 ELSE a.index
      hits == {i \in DOMAIN s : s[i].tag = a.name /\ s[i].dataidx = key}
  IN {s[i].idx : i \in hits}
     \cup (IF hits = {} \/ ~ InOrder(s) THEN {NotFound} ELSE {})

\* The position of the entry that a found idx stands for.
At(idx) == idx + 1

-----------------------------------------------------------------------------
(* Adding an entry to the end of the array.                                *)

\* The argument does not name an index and follows an entry of the same name.
Continues(s, a) == Len(s) > 0 /\ s[Len(s)].tag = a.name /\ a.index = NoIndex

\* Mutant: an entry that follows one of the same name does not count on.
AddedIndexStuck(s, count, a) ==
  IF Kind[a.name] = "cover" THEN IF a.index = NoIndex THEN count ELSE a.index
  ELSE IF Continues(s, a) THEN s[Len(s)].dataidx ELSE 0

\* The index mp4tag_add_tag gives a new entry, before its caller changes it.
AddedIndex(s, count, a) ==
  IF Kind[a.name] = "cover" THEN IF a.index = NoIndex THEN count ELSE a.index
  ELSE IF Continues(s, a) THEN s[Len(s)].dataidx + 1 ELSE 0

AddedCount(count, a) ==
  IF Kind[a.name] = "cover" /\ a.index = NoIndex THEN count + 1 ELSE count

Entry(name, dataidx, data, type, covername) ==
  [tag |-> name, dataidx |-> dataidx, idx |-> 0, data |-> data,
   type |-> type, covername |-> covername]

-----------------------------------------------------------------------------
(* Reading the tags of a file and writing them.                            *)

\* The index of the k-th item of a file: mp4tag_add_tag is called for every
\* item, without an index, and counts the covers and the items that follow
\* each other under one name.
ReadIndex(items, k) ==
  IF Kind[items[k].name] = "cover"
  THEN Cardinality({j \in 1 .. k - 1 : Kind[items[j].name] = "cover"})
  ELSE Cardinality({j \in 1 .. k - 1 :
                      \A i \in j .. k - 1 : items[i].name = items[k].name})

\* The array before it is sorted.
Read(items) ==
  [k \in DOMAIN items |->
     Entry(items[k].name, ReadIndex(items, k), items[k].data, items[k].type,
           items[k].covername)]

ReadCount(items) == Cardinality({k \in DOMAIN items : Kind[items[k].name] = "cover"})

\* mp4tag_build_data: by priority, then in the order of the array.
\* Mutant: entries that are never written are written.
WritableAll(s) == DOMAIN s

Writable(s) == {i \in DOMAIN s : Priority[s[i].tag] # NoWrite}

\* Mutant: the entries of one priority are written from the last to the first.
WriteBeforeReversed(s, i, j) ==
  LET pi == Priority[s[i].tag]
      pj == Priority[s[j].tag]
  IN pi < pj \/ (pi = pj /\ j < i)

WriteBefore(s, i, j) ==
  LET pi == Priority[s[i].tag]
      pj == Priority[s[j].tag]
  IN pi < pj \/ (pi = pj /\ i < j)

WriteRank(s, i) == Cardinality({j \in Writable(s) : WriteBefore(s, j, i)}) + 1

\* The entry that is written as the n-th.
Nth(s, n) == CHOOSE i \in Writable(s) : WriteRank(s, i) = n

\* What is read of an entry: a cover that was written without a type has one then.
ItemOf(e) ==
  [name |-> e.tag, data |-> e.data,
   type |-> IF Kind[e.tag] = "cover" THEN "image" ELSE e.type, covername |-> e.covername]

\* mp4tag_build_append calls mp4tag_update_data_len for a further value.
Grows(e) == e.type \in {"text", "image"}

\* The boxes are as long as what they hold, and of a pair the reader finds no
\* second value.
SoundArrays(s) ==
  \A i, j \in Writable(s) :
    i < j /\ s[i].tag = s[j].tag => Grows(s[j]) /\ Kind[s[j].tag] # "pair"

Build(s) == [n \in 1 .. Cardinality(Writable(s)) |-> ItemOf(s[Nth(s, n)])]

\* Mutant: the index of the last item is kept and not the number of items.
BuiltCountIndex(items) ==
  Cardinality({n \in DOMAIN items : items[n].name = items[Len(items)].name}) - 1

\* Afterwards datacount is the number of items of the last box.
BuiltCount(items) ==
  IF items = << >> THEN 0
  ELSE Cardinality({n \in DOMAIN items : items[n].name = items[Len(items)].name})

-----------------------------------------------------------------------------
(* Opening, parsing and freeing a handle; other programs.                  *)

Init ==
  /\ disk \in Files
  /\ open = FALSE
  /\ tags = << >> /\ present = FALSE /\ datacount = 0
  /\ saved = NoList
  /\ mp4error = "OK"
  /\ calls = 0

Counted == calls < MaxCalls /\ calls' = calls + 1

\* mp4tag_open and mp4tag_parse on a file that can be read and written.
Parse ==
  /\ ~ open
  /\ tags' \in Sorts(Read(disk))
  /\ present' = (disk # << >>)
  /\ datacount' = ReadCount(disk)
  /\ open' = TRUE
  /\ mp4error' = "OK"
  /\ UNCHANGED <<disk, saved, calls>>

\* mp4tag_free: a preserved list outlives the handle.
Free ==
  /\ open
  /\ open' = FALSE
  /\ tags' = << >> /\ present' = FALSE /\ datacount' = 0
  /\ mp4error' = "OK"
  /\ UNCHANGED <<disk, saved, calls>>

\* Another program changes the tags of the file, or another file is opened.
Mangle ==
  /\ ~ open
  /\ Counted
  /\ disk' \in Files
  /\ UNCHANGED <<open, list, saved, mp4error>>

-----------------------------------------------------------------------------
(* Calls that only look at the list.                                       *)

Look == open /\ UNCHANGED <<disk, open, list, saved, calls>>

GetTagByName(a) ==
  /\ Look
  /\ IF present
     THEN \E idx \in Find(tags, a) :
            mp4error' = IF idx = NotFound THEN "TAG_NOT_FOUND" ELSE "OK"
     ELSE mp4error' = "NO_TAGS"

-----------------------------------------------------------------------------
(* Calls that change it.                                                   *)

Change == open /\ Counted /\ UNCHANGED <<disk, open, saved>>

\* Mutant: a tag that is refused has been counted already.
FailCounted(err) ==
  mp4error' = err /\ datacount' = datacount + 1 /\ UNCHANGED <<tags, present>>

Fail(err) == mp4error' = err /\ UNCHANGED list

Replace(idx, e) ==
  /\ tags' = [tags EXCEPT ![At(idx)] = e]
  /\ mp4error' = "OK"
  /\ UNCHANGED <<present, datacount>>

\* mp4tag_add_tag and mp4tag_sort_tags.
AddTag(e, count) ==
  /\ tags' \in Sorts(Append(tags, e))
  /\ present' = TRUE
  /\ datacount' = count
  /\ mp4error' = "OK"

IsCover(a)  == Kind[a.name] = "cover"
IsCustom(a) == Kind[a.name] = "custom"

\* mp4tag_check_tag: an index after a name of four bytes is not cut off.
Listed(a) ==
  /\ Kind[a.name] \notin {"custom", "unlisted"}
  /\ IsCover(a) \/ a.index = NoIndex \/ a.name \notin FourBytes

\* mp4tag_set_tag_string.  Only a cover name or data that is not binary gets
\* here if the tag exists.  A new tag keeps the index of the argument, -1 if
\* there is none.
NewType(a) == IF Kind[a.name] \in {"number", "pair"} THEN "number" ELSE "text"

SetTagString(a, idx, v) ==
  \/ idx # NotFound /\ IsCover(a)   /\ Replace(idx, [tags[At(idx)] EXCEPT !.covername = v])
  \/ idx # NotFound /\ ~ IsCover(a) /\ Replace(idx, [tags[At(idx)] EXCEPT !.data = v])
  \/ /\ idx = NotFound
     /\ IsCover(a) \/ ~ (IsCustom(a) \/ Listed(a))
     /\ Fail("TAG_NOT_FOUND")
  \/ idx = NotFound /\ Listed(a) /\ Kind[a.name] = "data" /\ Fail("MISMATCH")
  \/ /\ idx = NotFound
     /\ IsCustom(a) \/ (Listed(a) /\ Kind[a.name] \in {"text", "number", "pair"})
     /\ AddTag(Entry(a.name, a.index, v, NewType(a), NoName), AddedCount(datacount, a))

\* mp4tag_set_tag_binary, with the type of mp4tag_check_covr.  A new tag keeps the
\* index mp4tag_add_tag gave it.
SetTagBinary(a, idx, v, type) ==
  \/ idx # NotFound /\ ~ Binary(tags[At(idx)]) /\ Fail("MISMATCH")
  \/ /\ idx # NotFound /\ Binary(tags[At(idx)])
     /\ Replace(idx, [tags[At(idx)] EXCEPT !.data = v, !.type = type])
  \/ idx = NotFound /\ ~ IsCustom(a) /\ ~ Listed(a) /\ Fail("TAG_NOT_FOUND")
  \/ idx = NotFound /\ Listed(a) /\ Kind[a.name] \in {"text", "number", "pair"} /\ Fail("MISMATCH")
  \/ /\ idx = NotFound
     /\ IsCustom(a) \/ (Listed(a) /\ Kind[a.name] \in {"data", "cover"})
     /\ AddTag(Entry(a.name, AddedIndex(tags, datacount, a), v, type, NoName),
               AddedCount(datacount, a))

\* mp4tag_set_tag: binary data is read from a file, which may not exist, and whose
\* name may tell the type of an image.
CheckCovr(a) == IF IsCover(a) THEN {"image", "data"} ELSE {"data"}

SetTag(a, v, forcebinary) ==
  /\ Change
  /\ \E idx \in Find(tags, a) :
       LET binary == \/ forcebinary
                     \/ IF IsCover(a) THEN ~ a.isname
                        ELSE idx # NotFound /\ Binary(tags[At(idx)])
       IN \/ binary /\ Fail("FILE_NOT_FOUND")
          \/ binary /\ \E type \in CheckCovr(a) : SetTagBinary(a, idx, v, type)
          \/ ~ binary /\ SetTagString(a, idx, v)

\* mp4tag_set_binary_tag: the data is passed by the caller, without a type.
SetBinaryTag(a, v) ==
  /\ Change
  /\ \E idx \in Find(tags, a) :
       LET binary == IF IsCover(a) THEN ~ a.isname
                     ELSE idx = NotFound \/ Binary(tags[At(idx)])
       IN IF binary THEN SetTagBinary(a, idx, v, "data") ELSE Fail("MISMATCH")

\* Mutant: the entries that move up keep their numbers.
WithoutOldNumbers(s, idx) ==
  [i \in 1 .. Len(s) - 1 |-> IF i <= idx THEN s[i] ELSE s[i + 1]]

\* mp4tag_del_tag: the entries behind it move up and are numbered again.
Without(s, idx) ==
  LET from(i) == IF i <= idx THEN i ELSE i + 1
  IN [i \in 1 .. Len(s) - 1 |-> [s[from(i)] EXCEPT !.idx = i - 1]]

DelTag(idx) ==
  /\ tags' = Without(tags, idx)
  /\ mp4error' = "OK"
  /\ UNCHANGED <<present, datacount>>

DeleteTag(a) ==
  /\ Change
  /\ \E idx \in Find(tags, a) :
       \/ idx = NotFound /\ Fail("TAG_NOT_FOUND")
       \/ /\ idx # NotFound /\ IsCover(a) /\ a.isname
          /\ Replace(idx, [tags[At(idx)] EXCEPT !.covername = NoName])
       \/ idx # NotFound /\ ~ (IsCover(a) /\ a.isname) /\ DelTag(idx)

CleanTags ==
  /\ Change
  /\ tags' = << >> /\ present' = FALSE
  /\ mp4error' = "OK"
  /\ UNCHANGED datacount

-----------------------------------------------------------------------------
(* Writing, preserving and restoring.                                      *)

\* mp4tag_write_tags, as far as the tags are concerned.  From a box that is too
\* short the reader takes the bytes of other values for boxes: what it will read
\* is open.
WriteTags ==
  /\ open
  /\ Counted
  /\ IF SoundArrays(tags) THEN disk' = Build(tags) ELSE disk' \in Files
  /\ datacount' = BuiltCount(Build(tags))
  /\ mp4error' = "OK"
  /\ UNCHANGED <<open, tags, present, saved>>

PreserveTags ==
  /\ open
  /\ Counted
  /\ IF present THEN saved' = <<tags>> /\ mp4error' = "OK"
     ELSE mp4error' = "NO_TAGS" /\ UNCHANGED saved
  /\ UNCHANGED <<disk, open, list>>

\* The array of the handle is replaced, datacount is not.
RestoreTags ==
  /\ Change
  /\ saved # NoList
  /\ tags' = saved[1]
  /\ present' = (saved[1] # << >>)
  /\ mp4error' = "OK"
  /\ UNCHANGED datacount

Next ==
  \/ Parse \/ Free \/ Mangle
  \/ \E a \in Args : GetTagByName(a) \/ DeleteTag(a)
  \/ \E a \in Args, v \in Values :
       SetBinaryTag(a, v) \/ \E force \in BOOLEAN : SetTag(a, v, force)
  \/ CleanTags \/ WriteTags \/ PreserveTags \/ RestoreTags

Spec == Init /\ [][Next]_vars

-----------------------------------------------------------------------------
(* Properties.                                                             *)

TypeOK ==
  /\ disk \in Seq(Item)
  /\ open \in BOOLEAN
  /\ tags \in Seq(Tag)
  /\ present \in BOOLEAN
  /\ datacount \in Nat
  /\ saved = NoList \/ (Len(saved) = 1 /\ saved[1] \in Seq(Tag))
  /\ mp4error \in Errors
  /\ calls \in 0 .. MaxCalls

Numbered(s) == \A i \in DOMAIN s : s[i].idx = i - 1

\* bsearch needs the array in order, and the callers of mp4tag_find_tag need
\* the idx it returns to be the position: after any sequence of calls both are
\* true of the list and of a preserved one, which may replace it.
Ordered ==
  /\ InOrder(tags) /\ Numbered(tags)
  /\ saved # NoList => InOrder(saved[1]) /\ Numbered(saved[1])

\* The contents of a list, in its order.
Contents(s) == [i \in DOMAIN s |-> ItemOf(s[i])]

\* A sequence as a bag.
BagOf(s) ==
  [x \in {s[i] : i \in DOMAIN s} |-> Cardinality({i \in DOMAIN s : s[i] = x})]

\* The list is an implementation of a bag of tags: a call on a tag changes that
\* one tag only, whatever the list looks like, and no tag is lost, doubled or
\* mixed up by sorting, preserving and restoring, nor by writing and reading a
\* list whose arrays are sound.
Store == INSTANCE TagStore WITH
  NotWritten <- {n \in Names : Priority[n] = NoWrite},
  stored     <- BagOf(disk),
  held       <- BagOf(Contents(tags)),
  kept       <- IF saved = NoList THEN {} ELSE {BagOf(Contents(saved[1]))},
  opened     <- open,
  sound      <- SoundArrays(tags)

StoreSpec == Store!Spec

\* A call that fails leaves the list, the file and what was preserved alone.
FailedCallChangesNothing ==
  [][open /\ mp4error' # "OK" => UNCHANGED <<list, disk, saved>>]_vars

\* The array and datacount after mp4tag_add_tag for each of the first n items.
Added(items, n) ==
  LET added[k \in 0 .. n] ==
        IF k = 0 THEN [tags |-> << >>, count |-> 0]
        ELSE LET r    == added[k - 1]
                 item == items[k]
                 a    == [name |-> item.name, index |-> NoIndex, isname |-> FALSE]
             IN [tags  |-> Append(r.tags,
                             Entry(item.name, AddedIndex(r.tags, r.count, a),
                                   item.data, item.type, item.covername)),
                 count |-> AddedCount(r.count, a)]
  IN added[n]

\* Reading is adding: the indexes counted in the file are the ones that
\* mp4tag_add_tag hands out when it is called for one item after the other.
ReadIsAdding ==
  Added(disk, Len(disk)) = [tags |-> Read(disk), count |-> ReadCount(disk)]

\* How many entries of the same name come before entry i.
Place(s, i) == Cardinality({j \in 1 .. i - 1 : s[j].tag = s[i].tag})

\* A list whose arrays are sound is read back as it was written, at any moment:
\* each value comes back once, and its index is its place among the values of its
\* name, although the names are written in another order.  So the values keep
\* their order, and the indexes have no gaps.
OrderWritten ==
  SoundArrays(tags) =>
    \A s \in Sorts(Read(Build(tags))) :
      /\ Distinct(s)
      /\ {<<ItemOf(s[i]), s[i].dataidx>> : i \in DOMAIN s}
           = {<<ItemOf(tags[i]), Place(tags, i)>> : i \in Writable(tags)}

-----------------------------------------------------------------------------
(* Statements of the documents that some call refutes.                     *)

\* README.md:121-126: a tag that was set can be displayed afterwards by the
\* name it was set by.
SetIsFound ==
  [][\A a \in Args, v \in Values :
       SetTag(a, v, FALSE) /\ mp4error' = "OK" => NotFound \notin Find(tags', a)]_vars
=============================================================================
