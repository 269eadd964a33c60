--------------------------- MODULE MCTagIterator ----------------------------
(***************************************************************************)
(* Longer histories of calls on small lists, with iterations in between:   *)
(* the arguments.                                                          *)
(***************************************************************************)
EXTENDS MCTagList, TagIterator

IterArgs == { A(Custom, NoIndex), A(covr, NoIndex), CoverName(0), A(nam, NoIndex), A(nam, 1) }
=============================================================================
