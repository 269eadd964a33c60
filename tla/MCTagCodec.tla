----------------------------- MODULE MCTagCodec -----------------------------
(***************************************************************************)
(* Lists of tags for TLC: bytes of four values, so that numbers of one and  *)
(* of two bytes overflow and a signed one of four shows its sign.           *)
(***************************************************************************)
EXTENDS TagCodec

\* "app" is short and "app17" one byte longer than the reader allows for.
MCNameOrder ==
  << "nam", "gen", "trkn", "disk", "tmpo", "rtng", "plID", "xtra", "app", "app17",
     "covr", "gnre" >>
MCAppLen    == [n \in {"app", "app17"} |-> IF n = "app" THEN 3 ELSE 17]
MCCustomLen == [n \in {"app", "app17"} |-> 5]

MCDef ==
  [nam  |-> [type |-> "STRING", len |-> 0], gen  |-> [type |-> "STRING", len |-> 0],
   trkn |-> [type |-> "DATA", len |-> 8],   disk |-> [type |-> "DATA", len |-> 6],
   tmpo |-> [type |-> "NUM", len |-> 2],    rtng |-> [type |-> "NUM", len |-> 1],
   plID |-> [type |-> "NUM", len |-> 8],    covr |-> [type |-> "JPG", len |-> 0],
   gnre |-> [type |-> "DATA", len |-> 2]]

\* Bytes of four values.
MCValues == [w \in {1, 2, 4, 8} |-> 4 ^ w]

Empty == Word(0, 0)

MCTexts == { Empty, Num(5), Num(-1), Pair(3, 12), Tuple(2, 20) }
MCBlobs == { Blob(7, 3), Blob(8, 2) }

\* A box of another program: data boxes, the names behind them and in front.
Data(type, v)     == Part(type, DataSz + v.len, v, << >>, 0)
Image(type, v, n) == Part(type, DataSz + v.len, v, <<n>>, 0)
Of(name, front, parts) ==
  Box(name, BoxHeadSz + CustomSz(name) + NamesSz(front)
            + Sum([i \in DOMAIN parts |-> PartSz(parts[i])]), front, parts)
Holds(name, parts) == Of(name, << >>, parts)

MCFiles ==
  { << >>,
    \* two texts, a number stored with a type, a full and a short pair
    << Holds("nam", << Data("STRING", Num(5)), Data("STRING", Word(1, 2)) >>),
       Holds("trkn", << Data("DATA", Ints(<<3, 12>>, 8)) >>) >>,
    << Holds("trkn", << Data("DATA", Ints(<<3, 0>>, 4)) >>),
       Holds("gnre", << Data("DATA", IntOf(2, 2)) >>) >>,
    \* a genre, and a number that is read by the name of the genre
    << Holds("gnre", << Data("DATA", IntOf(2, 2)), Data("DATA", IntOf(1, 2)) >>) >>,
    \* ffmpeg writes a disk of eight bytes; a genre that is not in the list
    << Holds("disk", << Data("DATA", Ints(<<1, 0>>, 8)) >>),
       Holds("gnre", << Data("DATA", IntOf(9, 2)) >>) >>,
    \* a plain number, a number of three bytes, and data of another type
    << Holds("rtng", << Data("DATA", IntOf(1, 1)) >>),
       Holds("xtra", << Data("OTHER", Blob(7, 3)) >>) >>,
    << Holds("disk", << Data("DATA", Ints(<<1, 2>>, 6)) >>),
       Holds("xtra", << Data("NUM", IntOf(7, 3)) >>) >>,
    \* custom tags: two texts, a number, a name that is too long; data
    << Holds("app", << Data("STRING", Num(5)), Data("STRING", Word(1, 2)) >>) >>,
    << Holds("app17", << Data("STRING", Num(5)) >>) >>,
    << Holds("app", << Data("NUM", IntOf(-3, 4)) >>),
       Holds("xtra", << Data("DATA", Blob(7, 3)) >>) >>,
    \* images: with names, a name in front, without a type, of another type
    << Holds("covr", << Image("JPG", Blob(7, 3), Num(5)), Data("PNG", Blob(8, 2)) >>) >>,
    << Of("covr", <<Word(1, 2)>>,
          << Data("PNG", Blob(7, 3)), Image("JPG", Blob(8, 2), Num(5)) >>) >>,
    << Holds("covr", << Data("DATA", Blob(7, 3)), Data("OTHER", Blob(7, 3)) >>) >>,
    << Holds("covr", << Image("JPG", Blob(7, 3), Empty) >>) >> }
=============================================================================
