--------------------------- MODULE MCSaveProtocol ---------------------------
(***************************************************************************)
(* Instances of SaveProtocol: which steps fail, with and without a backup, *)
(* with both ways of renaming, and how often a handle is written with.     *)
(***************************************************************************)
EXTENDS SaveProtocol

\* All but the closing of a file and the renames; all but the closing and the
\* steps of a rewrite whose error is overwritten or left to the handle.
ButMoves  == Steps \ {"flush", "move"}
ButDelete == ButMoves \ {"delete"}
ButWrites == Steps \ ({"flush"} \cup Overwritten)

\* The steps whose errors mp4tag_write_rewrite and mp4tag_write_inplace look at.
Looked == Steps \ ({"flush", "move", "delete"} \cup Overwritten)

AllModes ==
  [keep : {TRUE}, windows : BOOLEAN, failing : {ButDelete, ButWrites}, writes : {1}]
  \cup [keep : {TRUE}, windows : {FALSE}, failing : {ButMoves}, writes : {1}]
  \cup [keep : BOOLEAN, windows : BOOLEAN, failing : {Looked}, writes : {2}]

DataOnly == [keep : {FALSE}, windows : {FALSE}, failing : {{"data"}}, writes : {1}]
=============================================================================
