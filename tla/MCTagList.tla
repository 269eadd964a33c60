----------------------------- MODULE MCTagList ------------------------------
(***************************************************************************)
(* Small tag lists: a custom tag, aART, covr, gnre, tmpo, trkn, a tag that *)
(* is not in mp4taglist, and (c)nam, in the order of strcmp.               *)
(***************************************************************************)
EXTENDS TagList, TLC

Custom == 1  aART == 2  covr == 3  gnre == 4  tmpo == 5  trkn == 6  xtra == 7  nam == 8
AllNames == 1 .. 8

MCKind ==
  Custom :> "custom" @@ aART :> "text" @@ covr :> "cover" @@ gnre :> "data"
  @@ tmpo :> "number" @@ trkn :> "pair" @@ xtra :> "unlisted" @@ nam :> "text"

MCFourBytes == {aART, covr, gnre, tmpo, trkn, xtra}

MCPriority ==
  Custom :> 8 @@ aART :> 2 @@ covr :> 10 @@ gnre :> NoWrite @@ tmpo :> 5
  @@ trkn :> 4 @@ xtra :> 8 @@ nam :> 0

Text(n, v)     == [name |-> n, data |-> v, type |-> "text", covername |-> NoName]
Number(n, v)   == [name |-> n, data |-> v, type |-> "number", covername |-> NoName]
Data(n, v)     == [name |-> n, data |-> v, type |-> "data", covername |-> NoName]
Cover(v, name) == [name |-> covr, data |-> v, type |-> "image", covername |-> name]

MCFiles ==
  { << >>,
    << Text(nam, "a"), Text(nam, "b"), Data(gnre, "a") >>,
    << Text(xtra, "a"), Cover("a", "b"), Cover("b", NoName) >>,
    << Data(Custom, "a"), Number(tmpo, "a"), Text(Custom, "b") >> }

A(n, i)     == [name |-> n, index |-> i, isname |-> FALSE]
CoverName(i) == [name |-> covr, index |-> i, isname |-> TRUE]

MCArgs ==
  { A(Custom, NoIndex), A(aART, NoIndex), A(aART, 1), A(covr, NoIndex),
    A(covr, 0), A(covr, 1), CoverName(0), A(gnre, NoIndex), A(tmpo, NoIndex),
    A(trkn, NoIndex), A(xtra, NoIndex), A(nam, NoIndex), A(nam, 1) }

\* Fewer tags for longer histories.
DeepFiles == { << >>, << Cover("a", "b"), Text(nam, "a"), Text(nam, "b") >> }

\* The instances that refute a statement.
TextFile   == { << Text(aART, "a") >> }
TextArgs   == { A(aART, NoIndex), A(nam, NoIndex), A(nam, 1), A(covr, NoIndex) }
=============================================================================
