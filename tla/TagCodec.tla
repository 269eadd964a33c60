------------------------------ MODULE TagCodec ------------------------------
(***************************************************************************)
(* Tags as bytes: what mp4tag_build_data makes of the list of tags, what   *)
(* mp4tag_process_tag and mp4tag_process_covr make of these bytes, and the *)
(* calls that decide the type and the length a tag is written with.        *)
(*                                                                         *)
(* The content of ilst is a sequence of boxes, one for a name, with the    *)
(* data boxes in it, their bytes and the cover names behind them, and a    *)
(* gap: bytes that were reserved and not written, or fewer than none if    *)
(* more was written than reserved.  A box and a data box also have the     *)
(* length that is stored in them; nothing but the code makes it agree with *)
(* what they hold.                                                         *)
(*                                                                         *)
(* A value is a text, binary data, or numbers of a width; all that is kept *)
(* of a text is what atoll and sscanf see in it, and its length.  Which    *)
(* tag a call finds and the calls that fail are TagList's matter.  No      *)
(* value is empty but a text or a cover name.                              *)
(***************************************************************************)
EXTENDS Integers, Sequences, FiniteSets, SequencesExt

CONSTANTS
  Values,     \* how many numbers have w bytes: 256 ^ w in the program
  MaxDigits,  \* no number has more digits: 19 in the program
  NameOrder,  \* the names, in the order in which they are written
  Unwritten,  \* the names with the priority MP4TAG_PRI_NOWRITE
  AppLen,     \* for the custom names: the length of the application's name
  CustomLen,  \* and of the tag's own name
  Def,        \* mp4taglist: type and length of a listed name
  Repeatable, \* the names of which a second value may be set
  Genres,     \* the number of entries of mp4tagoldgenrelist
  Letters,    \* the number that letters make when they are read as one
  Texts, Blobs, \* values for set
  Files,      \* contents of ilst written by other programs
  MaxCalls    \* bound: calls that change the list

Customs == DOMAIN AppLen
Names   == Range(NameOrder)
Pairs   == {"trkn", "disk"}
Images  == {"JPG", "PNG"}
Plain   == {"DATA", "NUM"}
Types   == Plain \cup Images \cup {"STRING", "OTHER"}   \* other types: files only
Widths  == {1, 2, 4, 8}
Special == Pairs \cup {"gnre", "covr"}
BoxHeadSz == 8
DataSz    == 16

\* Values: texts, binary data, and numbers and pairs as they are stored.
TextForms == {"word", "num", "pair", "tuple"}
TextValue == [form : TextForms, a : Int, b : Int, len : Nat]
ByteValue == [form : {"bytes"}, a : Int, b : {0}, len : Nat]
AnyValue  == [form : TextForms \cup {"bytes", "int", "ints", "none"}, a : Int, b : Int, len : Nat]

\* Data boxes and boxes.
PartType ==
  [type : Types, len : Int, val : AnyValue, names : Seq(TextValue), gap : Int]
BoxType == [name : Names, len : Int, front : Seq(TextValue), parts : Seq(PartType)]

ASSUME CodecAssumption ==
  /\ Values \in [Widths -> {n \in Nat : n > 0 /\ n % 2 = 0}] /\ MaxDigits \in Nat
  /\ NameOrder \in Seq(Names)
  /\ \A i, j \in DOMAIN NameOrder : NameOrder[i] = NameOrder[j] => i = j
  /\ Special \cup {"gen"} \subseteq Names
  /\ Customs \subseteq Names \ (Special \cup {"gen"})
  /\ AppLen \in [Customs -> Nat \ {0}] /\ CustomLen \in [Customs -> Nat \ {0}]
  /\ DOMAIN Def \cup Unwritten \cup Repeatable \subseteq Names
  /\ \A n \in DOMAIN Def : Def[n] \in [type : Types, len : Nat]
  /\ Texts \subseteq TextValue /\ Blobs \subseteq ByteValue /\ Files \subseteq Seq(BoxType)
  /\ MaxCalls \in Nat /\ Genres \in Nat /\ Letters \in Nat

VARIABLES
  disk,     \* the content of ilst
  tags,     \* the list of the handle, in the order of writing
  open,     \* the file is open and parsed
  written,  \* the last call has written the list
  calls     \* calls so far, at most MaxCalls

vars == <<disk, tags, open, written, calls>>

-----------------------------------------------------------------------------
(* Values.                                                                 *)

Value(form, a, b, len) == [form |-> form, a |-> a, b |-> b, len |-> len]

NoValue    == Value("none", 0, 0, 0)
Word(w, n) == Value("word", w, 0, n)     \* a text that is no number
Blob(x, n) == Value("bytes", x, 0, n)
IntOf(n, w) == Value("int", n, 0, w)      \* a number of w bytes

IsBinary(v) == v.form = "bytes"

\* The length of a number that is printed.
Digits(n) ==
  LET m == IF n < 0 THEN -n ELSE n
  IN (IF n < 0 THEN 2 ELSE 1) + Cardinality({k \in 1 .. MaxDigits - 1 : m >= 10 ^ k})

Num(n)      == Value("num", n, 0, Digits(n))
Pair(a, b)  == Value("pair", a, b, Digits(a) + 1 + Digits(b))   \* "a/b"
Tuple(a, b) == Value("tuple", a, b, Digits(a) + 3 + Digits(b))  \* "(a,b)"

AtoLL(v)     == IF v.form \in {"num", "pair"} THEN v.a ELSE 0
ParsePair(v) == IF v.form \in {"num", "pair", "tuple"} THEN <<v.a, v.b>> ELSE <<0, 0>>

\* What is read and printed of a number that was stored in w bytes: one and two
\* bytes have no sign, four and eight have one.
Unsigned(n, w) == n % Values[w]
Signed(n, w)   == ((n + Values[w] \div 2) % Values[w]) - Values[w] \div 2
Stored(n, w)   == IF w <= 2 THEN Unsigned(n, w) ELSE Signed(n, w)

Ints(p, n) == Value("ints", Signed(p[1], 4), Unsigned(p[2], 2), n)

-----------------------------------------------------------------------------
(* Tags and boxes.                                                         *)

Tag(name, type, len, data, covername) ==
  [name |-> name, type |-> type, internallen |-> len, data |-> data, covername |-> covername]

Part(type, len, val, names, gap) ==
  [type |-> type, len |-> len, val |-> val, names |-> names, gap |-> gap]

Box(name, len, front, parts) ==
  [name |-> name, len |-> len, front |-> front, parts |-> parts]

\* mean and name of a custom tag.
CustomSz(n) == IF n \in Customs THEN 2 * 12 + AppLen[n] + CustomLen[n] ELSE 0

\* The order of writing; what has the same name stays in the order it is in.
RankOf(name)    == CHOOSE r \in DOMAIN NameOrder : NameOrder[r] = name
Before(s, i, j) == \/ RankOf(s[i].name) < RankOf(s[j].name)
                   \/ s[i].name = s[j].name /\ i < j
Place(s, i)     == Cardinality({j \in DOMAIN s : Before(s, j, i)}) + 1
ByName(s) ==
  [n \in DOMAIN s |-> s[CHOOSE i \in DOMAIN s : Place(s, i) = n]]

-----------------------------------------------------------------------------
(* mp4tag_build_data and mp4tag_build_append.                              *)

\* Mutant: the length of a short trkn is kept.
SaveLenShort(t) == IF t.type = "STRING" THEN t.data.len ELSE t.internallen

SaveLen(t) ==
  IF t.name = "trkn" THEN 8
  ELSE IF t.type = "STRING" THEN t.data.len
  ELSE t.internallen

\* The bytes behind the head of the data box.
Payload(t) ==
  IF t.type \in Images \cup {"STRING"} THEN t.data
  ELSE IF t.type = "NUM" /\ t.internallen \in Widths
  THEN IntOf(Stored(AtoLL(t.data), t.internallen), t.internallen)
  ELSE IF t.type = "DATA"
  THEN IF t.name = "trkn" THEN Ints(ParsePair(t.data), 8)
       ELSE IF t.name = "disk" THEN Ints(ParsePair(t.data), 6)
       ELSE t.data
  ELSE NoValue

Named(t) == t.type \in Images /\ t.covername.len > 0

\* What is reserved for the covername.
NameRoom(t) == IF t.covername = NoValue THEN 0 ELSE BoxHeadSz + t.covername.len

\* mp4tag_update_data_len: what is added to the length of the box for a
\* covername,
GrownByName(t) == IF Named(t) THEN NameRoom(t) ELSE 0

\* Mutant: mp4tag_update_data_len is not called for another value of a text tag.
GrownImagesOnly(t) == IF t.type \in Images THEN DataSz + t.data.len ELSE 0

\* and for another value.
Grown(t) == IF t.type \in Images \cup {"STRING"} THEN DataSz + t.data.len ELSE 0

\* The data box of a tag, and the name behind it.  What follows starts behind
\* the bytes reserved.
PartOf(t) ==
  Part(t.type, DataSz + SaveLen(t), Payload(t),
       IF Named(t) THEN <<t.covername>> ELSE << >>,
       SaveLen(t) + NameRoom(t) - (Payload(t).len + GrownByName(t)))

\* The first tag of its name starts a box, another one is added to it.
Started(t) ==
  Box(t.name, BoxHeadSz + CustomSz(t.name) + DataSz + SaveLen(t) + GrownByName(t),
      << >>, <<PartOf(t)>>)
Extended(b, t) ==
  Box(b.name, b.len + Grown(t) + GrownByName(t), b.front, Append(b.parts, PartOf(t)))

Again(s, t) == s # << >> /\ s[Len(s)].name = t.name

\* One tag behind the boxes so far.
BuildAppend(s, t) ==
  IF Again(s, t) THEN [s EXCEPT ![Len(s)] = Extended(@, t)] ELSE Append(s, Started(t))

\* The boxes of the first tags of a list.
Built(s) ==
  LET built[k \in 0 .. Len(s)] ==
        IF k = 0 THEN << >>
        ELSE IF s[k].name \in Unwritten THEN built[k - 1]
        ELSE BuildAppend(built[k - 1], s[k])
  IN built

BuildData(s) == Built(s)[Len(s)]

-----------------------------------------------------------------------------
(* The stored lengths are the sizes.                                       *)

Sum(s) ==
  LET upto[k \in 0 .. Len(s)] == IF k = 0 THEN 0 ELSE upto[k - 1] + s[k]
  IN upto[Len(s)]

NamesSz(names) == Sum([i \in DOMAIN names |-> BoxHeadSz + names[i].len])
PartSz(p)      == DataSz + p.val.len + NamesSz(p.names) + p.gap

\* A gap is taken for bytes of what is in front of it.
PartAgrees(p) ==
  /\ p.gap >= 0
  /\ p.names # << >> => p.gap = 0
  /\ p.len = DataSz + p.val.len + p.gap

Agrees(b) ==
  /\ b.len = BoxHeadSz + CustomSz(b.name) + NamesSz(b.front)
              + Sum([m \in DOMAIN b.parts |-> PartSz(b.parts[m])])
  /\ \A m \in DOMAIN b.parts : PartAgrees(b.parts[m])

DataLen(p) == p.len - DataSz

-----------------------------------------------------------------------------
(* mp4tag_process_tag.                                                     *)

\* blen: of a custom tag the application's name is not taken off, but one data
\* head too much.
BoxLen(b) ==
  b.len - BoxHeadSz
  - IF b.name \in Customs THEN DataSz + 2 * BoxHeadSz + 2 * 4 + CustomLen[b.name] ELSE 0

\* The loop ends behind the k-th data box.
EndsAt(b, k) == Sum([m \in 1 .. k |-> b.parts[m].len]) >= BoxLen(b)

\* How many data boxes the loop comes to; none if it runs past the end.
Visited(b) ==
  LET ends == {k \in DOMAIN b.parts : EndsAt(b, k)}
  IN IF ends = {} THEN 0 ELSE CHOOSE k \in ends : \A n \in ends : k <= n

Number(v) == IF v.form = "int" THEN v.a ELSE Letters

\* A trkn that is too short has no total.
ReadPair(name, v, len) ==
  LET a == IF v.form = "ints" THEN v.a ELSE Letters
      b == IF v.form = "ints" /\ (name # "trkn" \/ len >= 6) THEN v.b ELSE 0
  IN IF b = 0 THEN Num(a) ELSE Pair(a, b)

Genre(n) == Word(n, 4)

ReadPlain(name, type, len, v) ==
  IF name \in Pairs THEN <<Tag(name, type, len, ReadPair(name, v, len), NoValue)>>
  ELSE IF name = "gnre" /\ len = 2
  THEN IF Number(v) \in 1 .. Genres
       THEN <<Tag("gen", "STRING", 4, Genre(Number(v)), NoValue)>> ELSE << >>
  ELSE IF len \in Widths THEN <<Tag(name, type, len, Num(Number(v)), NoValue)>>
  ELSE <<Tag(name, type, len, Blob(v.a, len), NoValue)>>

\* Mutant: a text of no bytes is read.
ReadDataEmptyToo(name, p) ==
  IF p.type \in Plain THEN ReadPlain(name, p.type, DataLen(p), p.val)
  ELSE IF p.type = "STRING" THEN <<Tag(name, "STRING", DataLen(p), p.val, NoValue)>>
  ELSE << >>

\* The tags added for a data box: at most one, and none of another type.
ReadData(name, p) ==
  IF p.type \in Plain THEN ReadPlain(name, p.type, DataLen(p), p.val)
  ELSE IF p.type = "STRING" /\ DataLen(p) > 0
  THEN <<Tag(name, "STRING", DataLen(p),
             IF p.val.form \in TextForms THEN p.val ELSE Word(p.val.a, DataLen(p)), NoValue)>>
  ELSE << >>

\* The name the m-th data box is read by: behind a genre that was found in the
\* table it is that of the genre.
NameAt(b, m) ==
  IF b.name = "gnre" /\ \E k \in 1 .. m - 1 : /\ b.parts[k].type \in Plain /\ DataLen(b.parts[k]) = 2
                                            /\ Number(b.parts[k].val) \in 1 .. Genres
  THEN "gen" ELSE b.name

ProcessTag(b) == FlattenSeq([m \in 1 .. Visited(b) |-> ReadData(NameAt(b, m), b.parts[m])])

-----------------------------------------------------------------------------
(* mp4tag_process_covr.                                                    *)

LastName(names) == IF names = << >> THEN NoValue ELSE names[Len(names)]

\* Mutant: a name belongs to the image behind it.
NameOfNext(b, m) == LastName(IF m = 1 THEN b.front ELSE b.parts[m - 1].names)

\* The name of the m-th image: the last one before the next image; names in
\* front of the first image count for it.
NameOf(b, m) == LastName(IF m = 1 THEN b.front \o b.parts[m].names ELSE b.parts[m].names)

ReadImage(b, m) ==
  LET p == b.parts[m]
  IN Tag("covr", IF p.type = "DATA" THEN "JPG" ELSE p.type, DataLen(p),
         Blob(p.val.a, DataLen(p)), NameOf(b, m))

ProcessCovr(b) == [m \in DOMAIN b.parts |-> ReadImage(b, m)]

-----------------------------------------------------------------------------
(* The tags of a list.  A list whose lengths do not agree, or a box whose  *)
(* end the reader misses, is not read here: what it makes of bytes that    *)
(* are something else is open.  A second pair is looked for four bytes too *)
(* far.                                                                    *)

BoxReadable(b) ==
  /\ Agrees(b)
  /\ b.name # "covr" => Visited(b) > 0
  /\ b.name \in Pairs => Len(b.parts) = 1

Readable(s) == \A n \in DOMAIN s : BoxReadable(s[n])

ReadBox(b) == IF b.name = "covr" THEN ProcessCovr(b) ELSE ProcessTag(b)

ReadList(s) == ByName(FlattenSeq([n \in DOMAIN s |-> ReadBox(s[n])]))

-----------------------------------------------------------------------------
(* The calls.                                                              *)

Init ==
  /\ disk \in Files
  /\ tags = << >> /\ open = FALSE
  /\ written = FALSE
  /\ calls = 0

Parse ==
  /\ ~ open /\ Readable(disk)
  /\ tags' = ReadList(disk)
  /\ open' = TRUE /\ written' = FALSE
  /\ UNCHANGED <<disk, calls>>

Free ==
  /\ open
  /\ open' = FALSE /\ tags' = << >> /\ written' = FALSE
  /\ UNCHANGED <<disk, calls>>

Change(s) ==
  /\ open /\ calls < MaxCalls
  /\ calls' = calls + 1
  /\ tags' = s /\ written' = FALSE
  /\ UNCHANGED <<disk, open>>

\* mp4tag_set_tag_string of a tag there is: type and length stay.
SetString(i, v) ==
  /\ tags[i].name # "covr" /\ ~ IsBinary(tags[i].data)
  /\ Change([tags EXCEPT ![i].data = v])

SetCoverName(i, v) ==
  /\ tags[i].name = "covr"
  /\ Change([tags EXCEPT ![i].covername = v])

MayAdd(name) == name \in Repeatable \/ \A i \in DOMAIN tags : tags[i].name # name

\* Mutant: a new tag stays behind all others.
AddedAtEnd(t) == Change(Append(tags, t))

Added(t) == Change(ByName(Append(tags, t)))

\* A new tag has the type and the length of mp4taglist.
NewString(name, v) ==
  /\ MayAdd(name)
  /\ \/ name \in Customs /\ Added(Tag(name, "STRING", v.len, v, NoValue))
     \/ /\ name \in DOMAIN Def
        /\ Def[name].type = "STRING"
        /\ Added(Tag(name, "STRING", v.len, v, NoValue))
     \/ /\ name \in DOMAIN Def
        /\ Def[name].type = "NUM" \/ name \in Pairs
        /\ Added(Tag(name, Def[name].type, Def[name].len, v, NoValue))

\* mp4tag_check_covr: the type of an image comes from the name of its file; with
\* another ending, or none given, the image is plain data.
CheckCovr(name) == IF name = "covr" THEN Images \cup {"DATA"} ELSE {"DATA"}

\* mp4tag_set_tag_binary.
SetBinary(i, v, type) ==
  /\ IsBinary(tags[i].data) /\ type \in CheckCovr(tags[i].name)
  /\ Change([tags EXCEPT ![i].data = v, ![i].type = type, ![i].internallen = v.len])

NewBinary(name, v, type) ==
  /\ MayAdd(name) /\ name \notin Pairs
  /\ name \in Customs \/ (name \in DOMAIN Def /\ Def[name].type \in Images \cup {"DATA"})
  /\ type \in CheckCovr(name)
  /\ Added(Tag(name, type, v.len, v, NoValue))

Delete(i) == Change(RemoveAt(tags, i))

\* mp4tag_write_tags.
WriteTags ==
  /\ open
  /\ disk' = BuildData(tags)
  /\ written' = TRUE
  /\ UNCHANGED <<tags, open, calls>>

Next ==
  \/ Parse \/ Free \/ WriteTags
  \/ \E i \in DOMAIN tags, v \in Texts : SetString(i, v) \/ SetCoverName(i, v)
  \/ \E i \in DOMAIN tags, v \in Blobs, type \in Types : SetBinary(i, v, type)
  \/ \E n \in Names, v \in Texts : NewString(n, v)
  \/ \E n \in Names, v \in Blobs, type \in Types : NewBinary(n, v, type)
  \/ \E i \in DOMAIN tags : Delete(i)

Spec == Init /\ [][Next]_vars

-----------------------------------------------------------------------------
(* Which lists are written and read without loss.                          *)

\* An application's name of at most this length ends where the reader thinks.
MaxAppLen == DataSz

\* A pair as the reader prints it.
Printed(v) ==
  \E p \in {ParsePair(v)} :
    /\ p = <<Signed(p[1], 4), Unsigned(p[2], 2)>>
    /\ v = IF p[2] = 0 THEN Num(p[1]) ELSE Pair(p[1], p[2])

\* The kinds of tags: text; a number of a width the writer knows; a pair; data
\* that is not taken for a number; an image with or without a name, or without a
\* known type.
TextTag(t)   == t.type = "STRING" /\ t.data.form \in TextForms /\ t.name \notin Special
NumberTag(t) == t.type = "NUM" /\ t.internallen \in Widths /\ t.name \notin Special
PairTag(t)   == /\ t.type = "DATA" /\ t.name \in Pairs
                /\ t.name = "disk" => t.internallen >= 6
HasBytes(t)  == IsBinary(t.data) /\ t.data.len = t.internallen
DataTag(t)   == /\ t.type = "DATA" /\ t.name \notin Special
                /\ HasBytes(t) /\ t.internallen \notin Widths
ImageTag(t)  == /\ t.type \in Images /\ t.name = "covr" /\ HasBytes(t)
                /\ t.covername # NoValue => t.covername.len > 0
Untyped(t)   == /\ t.type = "DATA" /\ t.name = "covr" /\ HasBytes(t)
                /\ t.covername = NoValue

NameEnds(t) == t.name \in Customs => AppLen[t.name] <= MaxAppLen

\* A tag that is read back as it is.
Kept(t) ==
  /\ t.name \notin Unwritten /\ NameEnds(t)
  /\ \/ TextTag(t) /\ t.data.len > 0
     \/ NumberTag(t) /\ t.data = Num(Stored(AtoLL(t.data), t.internallen))
     \/ PairTag(t) /\ Printed(t.data)
     \/ DataTag(t) \/ ImageTag(t)

\* A tag of which something may change, but only once: text of no bytes, text
\* that is no number or too large a number where a number is stored, other ways
\* to write a pair, an image without a known type, and what is not written at all.
Settling(t) ==
  \/ t.name \in Unwritten
  \/ /\ NameEnds(t)
     /\ \/ TextTag(t) \/ NumberTag(t) \/ PairTag(t) \/ DataTag(t)
        \/ ImageTag(t) \/ Untyped(t)

\* Several values of one name: the length of the box is only kept up to date for
\* texts and images.
ArraysOf(s, types) ==
  \A i, j \in DOMAIN s :
    i < j /\ s[i].name = s[j].name /\ s[i].name \notin Unwritten => s[j].type \in types

SoundArrays(s) == ArraysOf(s, Images \cup {"STRING"})

AllKept(s)     == (\A i \in DOMAIN s : Kept(s[i])) /\ SoundArrays(s)
AllSettling(s) == (\A i \in DOMAIN s : Settling(s[i])) /\ SoundArrays(s)

\* What a caller sees of a tag.
View(t)  == [name |-> t.name, type |-> t.type, data |-> t.data, covername |-> t.covername]
Views(s) == [i \in DOMAIN s |-> View(s[i])]

-----------------------------------------------------------------------------
(* Properties.                                                             *)

TagType ==
  [name : Names, type : Types, internallen : Nat, data : TextValue \cup ByteValue,
   covername : TextValue \cup {NoValue}]

\* The values are well formed, and the list is in the order of writing, whatever
\* was read, added and deleted.
TypeOK ==
  /\ {open, written} \subseteq BOOLEAN /\ calls \in 0 .. MaxCalls
  /\ disk \in Seq(BoxType) /\ tags \in Seq(TagType)
  /\ tags = ByName(tags)
  /\ ~ open => tags = << >>

\* A list of tags that are kept or settle is written with the lengths of its
\* boxes, data boxes and names equal to what they hold, arrays, cover names and
\* custom names included, and the reader finds the end of every box.
LengthsAgree ==
  written /\ AllSettling(tags) => Readable(disk)

\* Tags of the kinds the library knows are read back as they were in the list:
\* same text, number, pair, data, type and cover name, in the same order.
RoundTrip ==
  written /\ AllKept(tags) => Views(ReadList(disk)) = Views(tags)

\* What is lost is lost at once: whatever the numbers, pairs and images of a list
\* became when it was written, the tags that are read back are kept from then on.
SettlesAtOnce ==
  written /\ AllSettling(tags) =>
    /\ AllKept(ReadList(disk))
    /\ Views(ReadList(BuildData(ReadList(disk)))) = Views(ReadList(disk))

\* No byte of the list is left unwritten, or written beyond what was reserved,
\* except behind a disk that was read with the eight bytes of a trkn.
Filled ==
  /\ written /\ AllSettling(tags)
  /\ \A i \in DOMAIN tags : tags[i].name = "disk" => tags[i].internallen = 6
  => \A n \in DOMAIN disk : \A m \in DOMAIN disk[n].parts : disk[n].parts[m].gap = 0
=============================================================================
