------------------------------ MODULE MCWriter ------------------------------
(***************************************************************************)
(* Writer on the files of LayoutFiles.                                      *)
(***************************************************************************)
EXTENDS Writer, LayoutFiles

\* One kind of file each, for the runs that refute a statement.
NoFreeSpace ==
  {LayoutOf(Shape(60, Level(0, 0, 0, 0), Level(0, 0, 0, 30), NoTables, 0))}
InteriorSpace ==
  {LayoutOf(Shape(20, Level(24, 0, 0, 0), Level(0, 0, 0, 30), OneChunk, 0))}
=============================================================================
