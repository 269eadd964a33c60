----------------------------- MODULE LayoutFiles -----------------------------
(***************************************************************************)
(* Small files for the modules that are checked on files: every shape of   *)
(* free space and of other boxes behind the tag list.  ftyp takes 20 bytes, *)
(* moov holds 120 bytes of other boxes in front of udta, and meta holds its *)
(* flags and hdlr in front of ilst.                                         *)
(***************************************************************************)
EXTENDS Layout, TLC

MCBaseOffset   == 201
MCParentOffset == 0 :> 20 @@ 1 :> 148 @@ 2 :> 156

\* The prefix sums of free boxes in the levels 3, 2, 1, 0.
FreeSum(free, level) ==
  CASE level = 3 -> free[3]
    [] level = 2 -> free[3] + free[2]
    [] level = 1 -> free[3] + free[2] + free[1]
    [] level = 0 -> free[3] + free[2] + free[1] + free[0]

TailSum(tail, level) ==
  CASE level = 3 -> tail[3]
    [] level = 2 -> tail[3] + tail[2]
    [] level = 1 -> tail[3] + tail[2] + tail[1]

\* A file of a given shape; the chunk offset of each table is right.  Where
\* version 1.3.0 has been at work, the parents end extra bytes into the free box.
LayoutOf(s) ==
  LET end == MCBaseOffset + 8 + s.ilst
      at  == end + FreeSum(s.free, 0)
  IN [ilst    |-> s.ilst,
      run     |-> FreeSum(s.free, 0),
      marks   |-> {0} \cup {FreeSum(s.free, l) : l \in Levels},
      tail_at |-> at,
      tail    |-> s.tail,
      lost    |-> FALSE,
      ilstlen |-> 8 + s.ilst,
      len     |-> [c \in Parents |-> end + FreeSum(s.free, c + 1)
                                     + TailSum(s.tail, c + 1) + s.extra
                                     - MCParentOffset[c]],
      tables  |-> [i \in DOMAIN s.tables |->
                     [co64  |-> s.tables[i].co64,  after |-> s.tables[i].after,
                      front |-> s.tables[i].front, pos   |-> s.tables[i].pos,
                      entry |-> IF s.tables[i].front THEN s.tables[i].pos
                                ELSE at + s.tables[i].pos]]]

\* Free space of one level lies behind other boxes of a deeper level, unless
\* there are none: only an unbroken run of free boxes is described.
Unbroken(free, tail) ==
  \A l \in Levels : free[l] > 0 => \A k \in Levels : k > l => tail[k] = 0

Tbl(co64, after, front, pos) ==
  [co64 |-> co64, after |-> after, front |-> front, pos |-> pos]

NoTables    == <<>>
FrontChunk  == <<Tbl(FALSE, FALSE, TRUE, 40)>>
OneChunk    == <<Tbl(FALSE, FALSE, FALSE, 8)>>
BothTables  == <<Tbl(FALSE, FALSE, FALSE, 8), Tbl(TRUE, FALSE, FALSE, 16)>>
TwoTracks   == <<Tbl(FALSE, FALSE, FALSE, 8), Tbl(FALSE, FALSE, FALSE, 12)>>
TableBehind == <<Tbl(FALSE, TRUE, FALSE, 60)>>

Level(n3, n2, n1, n0) == 0 :> n0 @@ 1 :> n1 @@ 2 :> n2 @@ 3 :> n3

Shape(ilst, free, tail, tables, extra) ==
  [ilst |-> ilst, free |-> free, tail |-> tail, tables |-> tables, extra |-> extra]

\* Every shape of free space and of other boxes behind the tag list.
PlainShapes(ilsts, frees, tails) ==
  {Shape(s[1], s[2], s[3], NoTables, 0) :
     s \in {t \in ilsts \X [Levels -> frees] \X [Levels -> tails] :
              Unbroken(t[2], t[3])}}

\* The main instance: all shapes without tables, the shapes with media data
\* behind moov with every arrangement of tables, and the damaged files.
AllShapes ==
  PlainShapes({0, 20, 60}, {0, 24}, {0, 30})
  \cup {Shape(l, free, Level(0, 0, 0, 30), t, 0) :
     l \in {0, 20}, free \in {Level(0, 0, 0, 0), Level(24, 0, 0, 0), Level(0, 0, 0, 24)},
     t \in {FrontChunk, OneChunk, BothTables, TwoTracks}}
  \cup {Shape(l, Level(0, 0, 0, 0), Level(0, 0, 50, 30), TableBehind, 0) : l \in {0, 20}}
  \cup {Shape(20, Level(0, 0, 0, 50), Level(0, 0, 0, t), NoTables, r) :
     t \in {0, 30}, r \in {16, 42}}

AllLayouts == {LayoutOf(s) : s \in AllShapes}

=============================================================================
