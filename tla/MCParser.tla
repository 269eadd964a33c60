------------------------------ MODULE MCParser ------------------------------
(***************************************************************************)
(* Files for Parser: those of LayoutFiles, box by box, and files without a *)
(* tag list.                                                               *)
(***************************************************************************)
EXTENDS Parser, TLC

L == INSTANCE LayoutFiles WITH
       BaseOffset <- 201, ParentOffset <- (0 :> 20 @@ 1 :> 148 @@ 2 :> 156),
       DataLens <- {}, Layouts <- {}, MaxWrites <- 0

Named(cells, id) == <<[cells[1] EXCEPT !.id = id]>> \o Tail(cells)

Ftyp     == Named(Box("ftyp", 12, <<>>), 2)
Hdlr     == Box("hdlr", 25, <<>>)
Tag(id)  == Named(Box("tag", 12, <<>>), id)
Other(n) == IF n = 0 THEN <<>> ELSE Box("othr", n - 8, <<>>)
Mdat(n)  == IF n = 0 THEN <<>> ELSE Box("mdat", n - 8, <<>>)
Free(n)  == IF n = 0 THEN <<>> ELSE Box("free", n - 8, <<>>)

\* A track with its tables; kept as an id, each stands for the media data with
\* that id.
Track(tables) ==
  Box("trak", 0, Box("mdia", 0, Box("mdhd", 4, <<>>)
    \o Box("minf", 0, Box("stbl", 0, tables))))
Stco(id) == Named(Box("stco", 12, <<>>), id)
Co64(id) == Named(Box("co64", 12, <<>>), id)

-----------------------------------------------------------------------------
(* The files of LayoutFiles.                                               *)

TableCells(tables) ==
  LET front == SelectSeq(tables, LAMBDA t : ~ t.after)
      Table(t) == IF t.co64 THEN Co64(0) ELSE Stco(0)
  IN FlattenSeq([i \in DOMAIN front |-> Table(front[i])])

\* The 120 bytes in front of udta.
FrontOf(tables) ==
  LET track == Track(TableCells(tables))
  IN Other(120 - Extent(track)) \o track

\* The level 1 tail is a track if it has a table.
Behind1(s) ==
  IF \E i \in DOMAIN s.tables : s.tables[i].after
  THEN Box("trak", 0, Box("stco", s.tail[1] - 16, <<>>))
  ELSE Other(s.tail[1])

CellsOf(s) ==
  LET list == FlattenSeq([i \in 1 .. s.ilst \div 20 |-> Tag(i)])
      meta == Box("meta", 4, Hdlr \o Box("ilst", 0, list) \o Free(s.free[3])
                             \o Other(s.tail[3]))
      udta == Box("udta", 0, meta \o Free(s.free[2]) \o Other(s.tail[2]))
      moov == Box("moov", 0, FrontOf(s.tables) \o udta \o Free(s.free[1]) \o Behind1(s))
      all  == Placed(Ftyp \o moov \o Free(s.free[0]) \o Mdat(s.tail[0]))
  IN [i \in DOMAIN all |->
        IF all[i].nm \in {"moov", "udta", "meta"} THEN [all[i] EXCEPT !.len = @ + s.extra]
        ELSE all[i]]

ShapeFiles == {CellsOf(s) : s \in L!AllShapes}

-----------------------------------------------------------------------------
(* Files without a tag list, and others.                                   *)

\* The chunk offsets of the tables are those of their media data.
Linked(cells) ==
  LET f == Placed(cells)
      Of(id) == {f[j].at + f[j].head : j \in {k \in DOMAIN f : f[k].nm = "mdat" /\ f[k].id = id}}
  IN [i \in DOMAIN f |->
        IF f[i].nm \in {"stco", "co64"} THEN [f[i] EXCEPT !.entry = CHOOSE e \in Of(f[i].id) : TRUE]
        ELSE f[i]]

Tables  == Stco(101) \o Co64(102)
Media   == Named(Mdat(20), 101) \o Named(Mdat(30), 102)
Mvhd    == Other(16)
ToTheEnd(cells) == <<[cells[1] EXCEPT !.len = 0]>>

Udtas == {<<>>, Box("udta", 0, <<>>), Box("udta", 0, Other(20)),
          Box("udta", 0, Box("meta", 4, Hdlr))}
Tracks == {Track(Tables), Track(Box("udta", 0, Other(12)) \o Tables),
           Track(Box("meta", 4, Other(12)) \o Tables)}

NoListFiles ==
  {Linked(Ftyp \o Box("moov", 0, Mvhd \o u \o t) \o Media) : u \in Udtas, t \in Tracks}
  \cup {Linked(Ftyp \o Box("moov", 0, Mvhd \o t \o u) \o Free(8) \o Media) : u \in Udtas, t \in Tracks}
  \cup {Linked(Ftyp \o Media \o Box("moov", 0, Mvhd \o t \o u)) : u \in Udtas, t \in Tracks}
  \cup {Linked(Ftyp \o Media), Linked(Ftyp \o Mvhd \o ToTheEnd(Mdat(20)))}
  \cup {Linked(Ftyp \o Box("moov", 0, Mvhd \o Track(Stco(101))) \o Named(ToTheEnd(Mdat(20)), 101))}

WithList == Box("udta", 0, Box("meta", 4, Hdlr \o Box("ilst", 0, Tag(1) \o Tag(2))))

\* The header of a box has a length of 64 bits.
Large(cells) == <<[cells[1] EXCEPT !.head = 16, !.len = @ + 8]>> \o Tail(cells)

\* A media box too long to be skipped, a moov box too long to be entered as a
\* whole, one whose length is zero in 32 bits, tracks within tracks beyond the
\* depth that is parsed, a free box that is hidden in another box behind ilst, and one
\* between two tags.
Nested == FoldLeft(LAMBDA inner, i : Box("trak", 0, inner), Other(12), [i \in 1 .. LevelMax + 1 |-> i])
OddFiles ==
  {Linked(Ftyp \o Mdat(SkipMod + 40) \o Box("moov", 0, WithList)),
   Linked(Ftyp \o Large(Box("moov", 0, Other(SkipMod) \o WithList)) \o Media),
   Linked(Ftyp \o Large(Box("moov", 0, Other(SkipMod - 16 - Extent(WithList)) \o WithList)) \o Media),
   Linked(Ftyp \o Box("moov", 0, Nested) \o Media),
   Linked(Ftyp \o Box("moov", 0, Box("udta", 0,
     Box("meta", 4, Hdlr \o Box("ilst", 0, Tag(1)) \o Box("othr", 0, Free(40)))
     \o Other(12))) \o Media),
   Linked(Ftyp \o Box("moov", 0, Box("udta", 0,
     Box("meta", 4, Hdlr \o Box("ilst", 0, Tag(1) \o Free(24) \o Tag(2))))) \o Media)}

\* Not MP4 files: no bytes, too few brands, another box first, and files that end
\* within ftyp or have one without a length; one without brands is parsed.
Longer(cells, n) == <<[cells[1] EXCEPT !.len = n]>>
NoMp4Files ==
  {<<>>, Linked(Named(Ftyp, 1) \o Box("moov", 0, WithList)), Linked(Box("moov", 0, WithList)),
   Linked(Longer(Ftyp, 24)),
   Linked(Box("ftyp", 0, <<>>) \o Box("moov", 0, WithList)), Linked(Longer(Ftyp, 0) \o Box("moov", 0, WithList))}

\* Every file is opened for writing; what may go wrong is looked at on some.
Opened(files, how, n) == {[file |-> f, mode |-> how, faults |-> n] : f \in files}
FaultyFiles ==
  {CellsOf(L!Shape(60, L!Level(24, 0, 0, 0), L!Level(0, 0, 0, t), L!NoTables, 0)) : t \in {0, 30}}
  \cup {Linked(Ftyp \o Box("moov", 0, Mvhd \o WithList \o Track(Stco(101))) \o Media),
         Linked(Ftyp \o Large(Mdat(20)) \o Box("moov", 0, WithList))}
MCOpenings == Opened(ShapeFiles \cup NoListFiles \cup OddFiles \cup NoMp4Files, "rw", 0)
              \cup Opened(FaultyFiles, "rw", 1) \cup Opened(FaultyFiles, "stream", 2)

Len8(n)  == [len |-> n, head |-> 8]
Len16(n) == [len |-> n, head |-> 16]
MCJunk == {Len8(0), Len8(4), Len8(21), Len8(64), Len16(-24)}
MCNewTags == {Tag(7), Tag(7) \o Tag(8)}

-----------------------------------------------------------------------------
(* The file as Layout sees it.                                             *)

The(f, nm) == CHOOSE i \in DOMAIN f : f[i].nm = nm
Path(f)    == [c \in L!Parents |-> The(f, <<"moov", "udta", "meta">>[c + 1])]

Abstract(f) ==
  LET ilst  == The(f, "ilst")
      end   == EndOf(f, f[ilst])
      first == ilst + Cardinality({i \in DOMAIN f : f[i].nm = "tag"}) + 1
      other == Min({i \in first .. Len(f) : f[i].nm # "free"} \cup {Len(f) + 1})
      at    == Extent(SubSeq(f, 1, other - 1))
      InLevel(l) == {i \in other .. Len(f) :
                       Cardinality({c \in L!Parents : Path(f)[c] \in Enclosing(f, i)}) = l}
      IsTable(c) == c.nm \in {"stco", "co64"}
      tables == SelectSeq(f, IsTable)
  IN [ilst    |-> Payload(f[ilst]),
      run     |-> at - end,
      marks   |-> {0} \cup {After(f[i]) - end : i \in first .. other - 1},
      tail_at |-> at,
      tail    |-> [l \in L!Levels |-> Extent(SetToSeq({f[i] : i \in InLevel(l)}))],
      lost    |-> FALSE,
      ilstlen |-> f[ilst].len,
      len     |-> [c \in L!Parents |-> f[Path(f)[c]].len],
      tables  |-> [i \in DOMAIN tables |->
                     [co64 |-> tables[i].nm = "co64", after |-> tables[i].at > end,
                      front |-> FALSE, pos |-> 0, entry |-> tables[i].entry]]]

\* The handle that the parser leaves, and the file it has repaired, are those
\* that Layout states for the same file, whatever bytes it has met behind the
\* tag list (ParseOf, Fixed, Bug13 and Kept of Layout stand for
\* mp4tag_parse_file and mp4tag_parse).
AsInLayout ==
  pc = "done" /\ mode = "rw" /\ ~ faulty /\ (h.dofix => repaired)
  /\ (\E c \in ToSet(origin) : c.nm = "ilst" /\ c.at = 201) =>
    LET f == L!Fixed(Abstract(origin))
        p == L!ParseOf(f)
        tables == {i \in DOMAIN file : file[i].nm \in {"stco", "co64"}}
    IN /\ h.taglist_offset = 201 + BoxHead
       /\ h.taglist_len = p.taglist_len
       /\ h.orig_data_len = p.orig_data_len
       /\ h.interior_free_len = p.interior_free_len
       /\ h.exterior_free_len = p.exterior_free_len
       /\ h.unlimited = p.unlimited
       /\ h.after_ilst_offset = h.taglist_offset + p.taglist_len
       /\ h.parentidx = 2
       /\ \A c \in L!Parents :
            /\ h.base_lengths[c] = p.base_lengths[c]
            /\ h.base_offsets[c] = file[Path(file)[c]].at
            /\ file[Path(file)[c]].len = f.len[c]
       /\ \A t \in tables :
            L!Kept(f, p, Cardinality({u \in tables : u <= t}))
              <=> file[t].at + BoxHead \in {h.stco_offset, h.co64_offset}
=============================================================================
