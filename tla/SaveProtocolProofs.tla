------------------------- MODULE SaveProtocolProofs -------------------------
(***************************************************************************)
(* Theorems about SaveProtocol: in every directory that mp4tag_write_tags  *)
(* leaves, with any set of failing steps and a crash at any place, what    *)
(* its properties promise.  The proofs need to know, for every place in    *)
(* the code, which of the three files holds what; it is all about the      *)
(* first write of a session, on a file that was whole.                     *)
(***************************************************************************)
EXTENDS SaveProtocol, TLAPS

InPlacePlaces == {"backup", "copy", "patch", "lengths"}
TempPlaces == {"open_temp", "head", "ilst", "data", "free", "tail", "offsets",
               "close_temp", "drop_temp"}
MovePlaces == {"clear_old", "move_old", "clear_new", "move_new", "drop_backup", "reopen"}

\* No step fails whose failure would leave an incomplete temporary file
\* unnoticed; none by which a rename fails.
Complete == mode.failing \cap ({"flush"} \cup Overwritten) = {}
Moved    == mode.failing \cap (IF mode.windows THEN {"move", "delete"} ELSE {"move"}) = {}

\* The backup is the file as it was when the call began.
Kept == dir["backup"] = before["file"] /\ Whole("backup")

\* What the steps need of TypeOK.
Typed ==
  /\ mode \in Mode /\ pc \in Places
  /\ dir \in [Names -> Content \cup {Absent}]
  /\ target \in Content
  /\ {rc, mp4error, fh, arrived, unflushed} \subseteq BOOLEAN
  /\ saves \in Nat /\ session \in 0 .. mode.writes

\* While a call works on the file, the file is there.
HandleInv ==
  /\ target.whole
  /\ unflushed => pc = "ready"
  /\ (fh /\ pc = "ready") \/ pc \in InPlacePlaces \cup TempPlaces => dir["file"] # Absent

\* A session begins with a file whose size is known.
SessionInv ==
  /\ pc \notin {"closed", "ready"} => session # 0
  /\ session = 0 /\ pc = "ready" =>
       ~ unflushed /\ fh /\ filesz = dir["file"].size

\* Up to the renames the file is untouched; from then on a complete temporary
\* file is needed, so no error before may go unnoticed.
FirstInv ==
  session = 1 /\ WholeBefore =>
    /\ pc \in {"backup", "copy"} \cup TempPlaces \cup {"clear_old", "move_old"} =>
         dir["file"] = before["file"] /\ Whole("file")
    /\ pc \in {"backup", "copy"} => filesz = dir["file"].size
    /\ pc \in {"patch", "lengths"} /\ mode.keep /\ "flush" \notin mode.failing => Kept
    /\ pc \in TempPlaces => dir["backup"] = before["backup"]
    /\ pc \in {"open_temp", "head", "ilst", "data", "free"} /\ Complete => rc /\ arrived
    /\ pc \in {"tail", "offsets", "close_temp"} /\ Complete /\ rc => arrived
    /\ pc \in TempPlaces \cup MovePlaces /\ Complete => mp4error

\* From rename to rename: the new contents are the temporary file and then the
\* file, the old ones the file and then the backup.
MovesInv ==
  session = 1 /\ WholeBefore =>
    /\ pc \in {"clear_old", "move_old", "clear_new", "move_new"} /\ Complete =>
         dir["temp"] = target
    /\ pc = "move_old" /\ Moved /\ mode.windows => dir["backup"] = Absent
    /\ pc \in {"clear_new", "move_new"} /\ Moved => dir["file"] = Absent /\ Kept
    /\ pc \in {"drop_backup", "reopen"} /\ Complete =>
         dir["file"] = target \/ dir["temp"] = target
    /\ pc \in {"drop_backup", "reopen"} /\ Complete /\ Moved =>
         dir["file"] = target /\ dir["temp"] = Absent
    /\ (pc = "drop_backup" \/ (pc = "reopen" /\ mode.keep)) /\ Moved => Kept
    /\ pc = "reopen" /\ ~ mode.keep /\ "delete" \notin mode.failing => dir["backup"] = Absent

\* Between calls nothing more is known than what is promised.
RestInv ==
  pc \in {"closed", "ready"} => NothingLost /\ WindowRecoverable

IInv == TypeOK /\ HandleInv /\ SessionInv /\ FirstInv /\ MovesInv /\ RestInv

-----------------------------------------------------------------------------
(* Contents and types.                                                     *)

\* Contents are not the absence of a file.
LEMMA ContentPresent == ASSUME NEW c \in Content PROVE c # Absent
  BY DEF Content, Absent

\* Contents that are not whole are contents.
LEMMA TornContent == ASSUME NEW c \in Content PROVE Torn(c) \in Content
  BY DEF Content, Torn

\* The types follow from TypeOK and the assumption on the modes.
LEMMA TypedState == ASSUME TypeOK PROVE Typed
  BY SaveAssumption DEF TypeOK, Typed, Mode

\* The start of a call makes contents of a new version.
LEMMA SaveType ==
  ASSUME TypeOK, HandleInv, NEW size \in Sizes, NEW place \in Places \ {"closed"},
         Save(size, place), UNCHANGED mode
  PROVE  TypeOK'
<1>1. saves' \in 0 .. MaxSaves /\ session' \in 0 .. mode.writes
  BY SaveAssumption DEF TypeOK, Save, Mode
<1>2. Flushed \in [Names -> Content \cup {Absent}]
  BY DEF TypeOK, Flushed, Names
<1>3. target' \in Content
  <2>1. saves + 1 \in 0 .. MaxSaves /\ size \in Nat
    BY SaveAssumption, <1>1 DEF Save
  <2>2. [version |-> saves + 1, size |-> size, whole |-> TRUE] \in Content
    BY <2>1 DEF Content
  <2>3. target' \in {target, [version |-> saves + 1, size |-> size, whole |-> TRUE]}
    BY DEF Save
  <2> QED BY <2>2, <2>3 DEF TypeOK
<1>4. arrived' \in BOOLEAN
  BY DEF Save, TypeOK
<1>5. dir' \in [Names -> Content \cup {Absent}] /\ before' \in [Names -> Content \cup {Absent}]
  BY <1>2 DEF Save, TypeOK
<1>6. pc' \in Places \ {"closed"} /\ rc' \in BOOLEAN /\ mp4error' \in BOOLEAN /\ unflushed' \in BOOLEAN
  BY DEF Save, TypeOK, Places
<1>7. UNCHANGED <<mode, fh, filesz>>
  BY DEF Save
<1> QED BY <1>1, <1>3, <1>4, <1>5, <1>6, <1>7 DEF TypeOK

\* The backup is contents, whole or not.
LEMMA CopyType == ASSUME TypeOK, HandleInv, CopyBackup, UNCHANGED mode PROVE TypeOK'
<1>1. dir["file"] \in Content
  BY DEF TypeOK, HandleInv, CopyBackup, InPlacePlaces, Names
<1>2. \A flushed \in BOOLEAN :
        [dir["file"] EXCEPT !.size = filesz,
           !.whole = @ /\ flushed /\ filesz = dir["file"].size] \in Content
  <2>1. \A b \in BOOLEAN : [dir["file"] EXCEPT !.size = filesz, !.whole = b] \in Content
    BY <1>1 DEF TypeOK, Content
  <2>2. dir["file"].whole \in BOOLEAN /\ (filesz = dir["file"].size) \in BOOLEAN
    BY <1>1 DEF Content
  <2> QED BY <2>1, <2>2, Zenon
<1>3. dir' \in [Names -> Content \cup {Absent}]
  <2>1. CASE UNCHANGED dir
    BY <2>1 DEF TypeOK
  <2>2. ASSUME NEW flushed \in {TRUE, ~ MayFail("flush")},
               dir' = [dir EXCEPT !["backup"] =
                         [dir["file"] EXCEPT !.size = filesz,
                            !.whole = @ /\ flushed /\ filesz = dir["file"].size]]
        PROVE  dir' \in [Names -> Content \cup {Absent}]
    <3>1. flushed \in BOOLEAN
      OBVIOUS
    <3> DEFINE c == [dir["file"] EXCEPT !.size = filesz,
                       !.whole = @ /\ flushed /\ filesz = dir["file"].size]
    <3>2. c \in Content
      BY <1>2, <3>1, Zenon
    <3>3. dir' = [dir EXCEPT !["backup"] = c]
      BY <2>2
    <3> HIDE DEF c
    <3> QED BY <3>2, <3>3 DEF TypeOK, Names
  <2> QED BY <2>1, <2>2 DEF CopyBackup
<1> QED BY <1>3 DEF TypeOK, CopyBackup, Fail, Places, handle

\* A file that is parsed has a size.
LEMMA ParseType == ASSUME TypeOK, Parse, UNCHANGED mode PROVE TypeOK'
<1>1. dir["file"] \in Content
  BY DEF TypeOK, Parse, Names
<1>2. filesz' \in Nat /\ session' \in 0 .. mode.writes
  BY <1>1, SaveAssumption DEF TypeOK, Parse, Content, Mode
<1> QED BY <1>2 DEF TypeOK, Parse, Places

\* One step per action.
LEMMA TypeStep == ASSUME TypeOK, HandleInv, Next PROVE TypeOK'
<1> USE DEF TypeOK, Places, Names, handle
<1>1. UNCHANGED mode
  BY DEF Next
<1>2. CASE Parse
  BY <1>1, <1>2, ParseType
<1>3. CASE Free
  BY <1>1, <1>3 DEF Free, Flushed
<1>4. CASE Crash
  BY <1>1, <1>4 DEF Crash
<1>5. CASE OpenBackup
  BY <1>1, <1>5, TornContent DEF OpenBackup, Fail, HandleInv, InPlacePlaces
<1>6. CASE CopyBackup
  BY <1>1, <1>6, CopyType
<1>7. CASE Patch
  BY <1>1, <1>7, TornContent DEF Patch, Fail, HandleInv, InPlacePlaces
<1>8. CASE Lengths
  BY <1>1, <1>8 DEF Lengths
<1>9. CASE OpenTemp
  BY <1>1, <1>9, TornContent DEF OpenTemp, Fail
<1>10. CASE CopyHead
  BY <1>1, <1>10 DEF CopyHead, Write
<1>11. CASE WriteIlst
  BY <1>1, <1>11 DEF WriteIlst, WriteOrSkip, Write, Skip
<1>12. CASE WriteData
  BY <1>1, <1>12 DEF WriteData, WriteOrSkip, Write, Skip
<1>13. CASE WriteFree
  BY <1>1, <1>13 DEF WriteFree, Write
<1>14. CASE CopyTail
  BY <1>1, <1>14 DEF CopyTail, WriteOrSkip, Write, Skip
<1>15. CASE UpdateOffsets
  BY <1>1, <1>15 DEF UpdateOffsets
<1>16. CASE CloseTemp
  <2>1. \A b \in BOOLEAN : [target EXCEPT !.whole = b] \in Content
    BY DEF Content
  <2> QED BY <1>1, <1>16, <2>1 DEF CloseTemp, MayFail
<1>17. CASE DropTemp
  BY <1>1, <1>17 DEF DropTemp, Delete
<1>18. CASE ClearOld
  BY <1>1, <1>18 DEF ClearOld, Delete
<1>19. CASE MoveOld
  BY <1>1, <1>19 DEF MoveOld, Move
<1>20. CASE ClearNew
  BY <1>1, <1>20 DEF ClearNew, Delete
<1>21. CASE MoveNew
  BY <1>1, <1>21 DEF MoveNew, Move
<1>22. CASE DropBackup
  BY <1>1, <1>22 DEF DropBackup, Delete
<1>23. CASE Reopen
  BY <1>1, <1>23 DEF Reopen
<1>24. ASSUME NEW size \in Sizes, SaveInPlace(size) \/ SaveRewrite(size)
      PROVE  TypeOK'
  <2>1. PICK place \in {"backup", "patch", "open_temp"} : Save(size, place)
    BY <1>24 DEF SaveInPlace, SaveRewrite
  <2> QED BY <1>1, <2>1, SaveType
<1> QED
  BY <1>2, <1>3, <1>4, <1>5, <1>6, <1>7, <1>8, <1>9, <1>10, <1>11, <1>12, <1>13,
     <1>14, <1>15, <1>16, <1>17, <1>18, <1>19, <1>20, <1>21, <1>22, <1>23, <1>24
  DEF Next, InPlaceStep, RewriteStep

-----------------------------------------------------------------------------
(* The places.                                                             *)

\* No step but a rename or a deletion takes the file away.
LEMMA HandleStep ==
  ASSUME Typed, HandleInv, Next, Typed'
  PROVE  HandleInv'
<1> USE ContentPresent DEF HandleInv, Typed, InPlacePlaces, TempPlaces, Names, MayFail, handle
<1>1. UNCHANGED mode
  BY DEF Next
<1>2. CASE Parse
  BY <1>1, <1>2 DEF Parse
<1>3. CASE Free
  BY <1>1, <1>3 DEF Free, Flushed
<1>4. CASE Crash
  BY <1>1, <1>4 DEF Crash
<1>5. CASE OpenBackup
  BY <1>1, <1>5 DEF OpenBackup, Fail
<1>6. CASE CopyBackup
  BY <1>1, <1>6 DEF CopyBackup, Fail
<1>7. CASE Patch
  <2>1. dir["file"] \in Content
    BY <1>7 DEF Patch
  <2> QED BY <1>7, <2>1, TornContent DEF Patch, Fail
<1>8. CASE Lengths
  BY <1>1, <1>8 DEF Lengths
<1>9. CASE OpenTemp
  BY <1>1, <1>9 DEF OpenTemp, Fail
<1>10. CASE CopyHead
  BY <1>1, <1>10 DEF CopyHead, Write
<1>11. CASE WriteIlst
  BY <1>1, <1>11 DEF WriteIlst, WriteOrSkip, Write, Skip
<1>12. CASE WriteData
  BY <1>1, <1>12 DEF WriteData, WriteOrSkip, Write, Skip
<1>13. CASE WriteFree
  BY <1>1, <1>13 DEF WriteFree, Write
<1>14. CASE CopyTail
  BY <1>1, <1>14 DEF CopyTail, WriteOrSkip, Write, Skip
<1>15. CASE UpdateOffsets
  BY <1>1, <1>15 DEF UpdateOffsets
<1>16. CASE CloseTemp
  BY <1>1, <1>16 DEF CloseTemp
<1>17. CASE DropTemp
  BY <1>1, <1>17 DEF DropTemp, Delete
<1>18. CASE ClearOld
  BY <1>1, <1>18 DEF ClearOld, Delete
<1>19. CASE MoveOld
  BY <1>1, <1>19 DEF MoveOld, Move
<1>20. CASE ClearNew
  BY <1>1, <1>20 DEF ClearNew, Delete
<1>21. CASE MoveNew
  BY <1>1, <1>21 DEF MoveNew, Move
<1>22. CASE DropBackup
  BY <1>1, <1>22 DEF DropBackup, Delete
<1>23. CASE Reopen
  BY <1>1, <1>23 DEF Reopen
<1>24. ASSUME NEW size \in Sizes, SaveInPlace(size) \/ SaveRewrite(size)
      PROVE  HandleInv'
  <2>1. PICK place \in {"backup", "patch", "open_temp"} :
          Save(size, place) /\ (place = "patch" => ~ mode.keep)
    BY <1>24 DEF SaveInPlace, SaveRewrite
  <2>2. CASE fh
    <3>1. target' = [version |-> saves + 1, size |-> size, whole |-> TRUE]
      BY <2>1, <2>2 DEF Save
    <3>2. dir'["file"] # Absent
      BY <2>1, <2>2 DEF Save, Flushed
    <3> QED BY <2>1, <2>2, <3>1, <3>2 DEF Save
  <2>3. CASE ~ fh
    BY <2>1, <2>3 DEF Save
  <2> QED BY <2>2, <2>3
<1> QED
  BY <1>2, <1>3, <1>4, <1>5, <1>6, <1>7, <1>8, <1>9, <1>10, <1>11, <1>12, <1>13,
     <1>14, <1>15, <1>16, <1>17, <1>18, <1>19, <1>20, <1>21, <1>22, <1>23, <1>24
  DEF Next, InPlaceStep, RewriteStep

\* Until its first write a session leaves the file alone.
LEMMA SessionStep ==
  ASSUME Typed, HandleInv, SessionInv, Next, Typed'
  PROVE  SessionInv'
<1> USE DEF HandleInv, SessionInv, Typed, Names, Whole, MayFail, handle
<1>1. UNCHANGED mode
  BY DEF Next
<1>2. CASE Parse
  BY <1>1, <1>2 DEF Parse
<1>3. CASE Free
  BY <1>1, <1>3 DEF Free, Flushed
<1>4. CASE Crash
  BY <1>1, <1>4 DEF Crash
<1>5. CASE OpenBackup
  BY <1>1, <1>5 DEF OpenBackup, Fail
<1>6. CASE CopyBackup
  BY <1>1, <1>6 DEF CopyBackup, Fail
<1>7. CASE Patch
  BY <1>1, <1>7 DEF Patch, Fail
<1>8. CASE Lengths
  BY <1>1, <1>8 DEF Lengths
<1>9. CASE OpenTemp
  BY <1>1, <1>9 DEF OpenTemp, Fail
<1>10. CASE CopyHead
  BY <1>1, <1>10 DEF CopyHead, Write
<1>11. CASE WriteIlst
  BY <1>1, <1>11 DEF WriteIlst, WriteOrSkip, Write, Skip
<1>12. CASE WriteData
  BY <1>1, <1>12 DEF WriteData, WriteOrSkip, Write, Skip
<1>13. CASE WriteFree
  BY <1>1, <1>13 DEF WriteFree, Write
<1>14. CASE CopyTail
  BY <1>1, <1>14 DEF CopyTail, WriteOrSkip, Write, Skip
<1>15. CASE UpdateOffsets
  BY <1>1, <1>15 DEF UpdateOffsets
<1>16. CASE CloseTemp
  BY <1>1, <1>16 DEF CloseTemp
<1>17. CASE DropTemp
  BY <1>1, <1>17 DEF DropTemp, Delete
<1>18. CASE ClearOld
  BY <1>1, <1>18 DEF ClearOld, Delete
<1>19. CASE MoveOld
  BY <1>1, <1>19 DEF MoveOld, Move
<1>20. CASE ClearNew
  BY <1>1, <1>20 DEF ClearNew, Delete
<1>21. CASE MoveNew
  BY <1>1, <1>21 DEF MoveNew, Move
<1>22. CASE DropBackup
  BY <1>1, <1>22 DEF DropBackup, Delete
<1>23. CASE Reopen
  BY <1>1, <1>23 DEF Reopen
<1>24. ASSUME NEW size \in Sizes, SaveInPlace(size) \/ SaveRewrite(size)
      PROVE  SessionInv'
  <2>1. PICK place \in {"backup", "patch", "open_temp"} :
          Save(size, place) /\ (place = "patch" => ~ mode.keep)
    BY <1>24 DEF SaveInPlace, SaveRewrite
  <2> QED BY <2>1 DEF Save, Mode
<1> QED
  BY <1>2, <1>3, <1>4, <1>5, <1>6, <1>7, <1>8, <1>9, <1>10, <1>11, <1>12, <1>13,
     <1>14, <1>15, <1>16, <1>17, <1>18, <1>19, <1>20, <1>21, <1>22, <1>23, <1>24
  DEF Next, InPlaceStep, RewriteStep

\* Up to the renames; here the copy must be one of all bytes.
LEMMA FirstStep ==
  ASSUME Typed, HandleInv, SessionInv, FirstInv, Next, Typed'
  PROVE  FirstInv'
<1> USE ContentPresent
    DEF HandleInv, SessionInv, FirstInv, Typed, InPlacePlaces, TempPlaces,
       MovePlaces, Names, Whole, WholeBefore, Kept, Complete, Overwritten, MayFail, handle
<1>1. UNCHANGED mode
  BY DEF Next
<1>2. CASE Parse
  BY <1>1, <1>2 DEF Parse
<1>3. CASE Free
  BY <1>1, <1>3 DEF Free, Flushed
<1>4. CASE Crash
  BY <1>1, <1>4 DEF Crash
<1>5. CASE OpenBackup
  BY <1>1, <1>5 DEF OpenBackup, Fail
<1>6. CASE CopyBackup
  <2>1. CASE pc' = "ready"
    BY <1>1, <1>6, <2>1 DEF CopyBackup, Fail
  <2>2. CASE ~ (session = 1 /\ WholeBefore)
    BY <1>6, <2>2 DEF CopyBackup
  <2>3. CASE session = 1 /\ WholeBefore /\ pc' = "patch"
    <3>1. dir["file"] = before["file"] /\ Whole("file") /\ filesz = dir["file"].size
      BY <1>6, <2>3 DEF CopyBackup
    <3>2. dir["file"] \in Content
      BY <3>1
    <3>3. dir["file"] = [dir["file"] EXCEPT !.size = filesz, !.whole = TRUE]
      BY <3>1, <3>2 DEF Content
    <3>4. ASSUME "flush" \notin mode.failing
          PROVE  dir' = [dir EXCEPT !["backup"] = dir["file"]]
      <4>1. \A flushed \in {TRUE, ~ MayFail("flush")} : flushed = TRUE
        BY <3>4
      <4> QED BY <1>6, <2>3, <3>1, <3>2, <3>3, <4>1 DEF CopyBackup, Fail
    <3> QED BY <1>1, <1>6, <2>3, <3>1, <3>4 DEF CopyBackup
  <2> QED BY <1>6, <2>1, <2>2, <2>3 DEF CopyBackup, Fail
<1>7. CASE Patch
  BY <1>1, <1>7 DEF Patch, Fail
<1>8. CASE Lengths
  BY <1>1, <1>8 DEF Lengths
<1>9. CASE OpenTemp
  BY <1>1, <1>9 DEF OpenTemp, Fail
<1>10. CASE CopyHead
  BY <1>1, <1>10 DEF CopyHead, Write
<1>11. CASE WriteIlst
  BY <1>1, <1>11 DEF WriteIlst, WriteOrSkip, Write, Skip
<1>12. CASE WriteData
  BY <1>1, <1>12 DEF WriteData, WriteOrSkip, Write, Skip
<1>13. CASE WriteFree
  BY <1>1, <1>13 DEF WriteFree, Write
<1>14. CASE CopyTail
  BY <1>1, <1>14 DEF CopyTail, WriteOrSkip, Write, Skip
<1>15. CASE UpdateOffsets
  BY <1>1, <1>15 DEF UpdateOffsets
<1>16. CASE CloseTemp
  BY <1>1, <1>16 DEF CloseTemp
<1>17. CASE DropTemp
  BY <1>1, <1>17 DEF DropTemp, Delete
<1>18. CASE ClearOld
  BY <1>1, <1>18 DEF ClearOld, Delete
<1>19. CASE MoveOld
  BY <1>1, <1>19 DEF MoveOld, Move
<1>20. CASE ClearNew
  BY <1>1, <1>20 DEF ClearNew, Delete
<1>21. CASE MoveNew
  BY <1>1, <1>21 DEF MoveNew, Move
<1>22. CASE DropBackup
  BY <1>1, <1>22 DEF DropBackup, Delete
<1>23. CASE Reopen
  BY <1>1, <1>23 DEF Reopen
<1>24. ASSUME NEW size \in Sizes, SaveInPlace(size) \/ SaveRewrite(size)
      PROVE  FirstInv'
  <2>1. PICK place \in {"backup", "patch", "open_temp"} :
          Save(size, place) /\ (place = "patch" => ~ mode.keep)
    BY <1>24 DEF SaveInPlace, SaveRewrite
  <2>2. CASE session # 0
    BY <2>1, <2>2 DEF Save
  <2>3. CASE session = 0
    <3>1. fh /\ ~ unflushed /\ filesz = dir["file"].size
      BY <2>1, <2>3 DEF Save
    <3>2. dir' = dir /\ before' = dir /\ filesz' = filesz /\ pc' = place
      BY <2>1, <3>1 DEF Save, Flushed
    <3>3. rc' /\ mp4error' /\ (WholeBefore' => Whole("file") /\ arrived')
      BY <2>1, <2>3, <3>1, <3>2 DEF Save
    <3> QED BY <1>1, <2>1, <3>1, <3>2, <3>3
  <2> QED BY <2>2, <2>3
<1> QED
  BY <1>2, <1>3, <1>4, <1>5, <1>6, <1>7, <1>8, <1>9, <1>10, <1>11, <1>12, <1>13,
     <1>14, <1>15, <1>16, <1>17, <1>18, <1>19, <1>20, <1>21, <1>22, <1>23, <1>24
  DEF Next, InPlaceStep, RewriteStep

\* The closing of the temporary file, and each rename.
LEMMA MovesStep ==
  ASSUME Typed, HandleInv, SessionInv, FirstInv, MovesInv, Next, Typed'
  PROVE  MovesInv'
<1> USE ContentPresent
    DEF HandleInv, SessionInv, FirstInv, MovesInv, Typed, InPlacePlaces, TempPlaces,
       MovePlaces, Names, Whole, WholeBefore, Kept, Complete, Moved, Overwritten, MayFail, handle
<1>1. UNCHANGED mode
  BY DEF Next
<1>2. CASE Parse
  BY <1>1, <1>2 DEF Parse
<1>3. CASE Free
  BY <1>1, <1>3 DEF Free, Flushed
<1>4. CASE Crash
  BY <1>1, <1>4 DEF Crash
<1>5. CASE OpenBackup
  BY <1>1, <1>5 DEF OpenBackup, Fail
<1>6. CASE CopyBackup
  BY <1>1, <1>6 DEF CopyBackup, Fail
<1>7. CASE Patch
  BY <1>1, <1>7 DEF Patch, Fail
<1>8. CASE Lengths
  BY <1>1, <1>8 DEF Lengths
<1>9. CASE OpenTemp
  BY <1>1, <1>9 DEF OpenTemp, Fail
<1>10. CASE CopyHead
  BY <1>1, <1>10 DEF CopyHead, Write
<1>11. CASE WriteIlst
  BY <1>1, <1>11 DEF WriteIlst, WriteOrSkip, Write, Skip
<1>12. CASE WriteData
  BY <1>1, <1>12 DEF WriteData, WriteOrSkip, Write, Skip
<1>13. CASE WriteFree
  BY <1>1, <1>13 DEF WriteFree, Write
<1>14. CASE CopyTail
  BY <1>1, <1>14 DEF CopyTail, WriteOrSkip, Write, Skip
<1>15. CASE UpdateOffsets
  BY <1>1, <1>15 DEF UpdateOffsets
<1>16. CASE CloseTemp
  <2>1. CASE session = 1 /\ WholeBefore /\ Complete /\ rc
    <3>1. arrived
      BY <1>16, <2>1 DEF CloseTemp
    <3>2. target = [target EXCEPT !.whole = TRUE]
      BY DEF Content
    <3>3. \A flushed \in {TRUE, ~ MayFail("flush")} : flushed = TRUE
      BY <2>1
    <3>4. dir' = [dir EXCEPT !["temp"] = target]
      BY <1>16, <3>1, <3>2, <3>3 DEF CloseTemp
    <3> QED BY <1>1, <1>16, <3>4 DEF CloseTemp
  <2>2. CASE ~ (session = 1 /\ WholeBefore /\ Complete /\ rc)
    BY <1>1, <1>16, <2>2 DEF CloseTemp
  <2> QED BY <2>1, <2>2
<1>17. CASE DropTemp
  BY <1>1, <1>17 DEF DropTemp, Delete
<1>18. CASE ClearOld
  BY <1>1, <1>18 DEF ClearOld, Delete
<1>19. CASE MoveOld
  BY <1>1, <1>19 DEF MoveOld, Move
<1>20. CASE ClearNew
  BY <1>1, <1>20 DEF ClearNew, Delete
<1>21. CASE MoveNew
  BY <1>1, <1>21 DEF MoveNew, Move
<1>22. CASE DropBackup
  BY <1>1, <1>22 DEF DropBackup, Delete
<1>23. CASE Reopen
  BY <1>1, <1>23 DEF Reopen
<1>24. ASSUME NEW size \in Sizes, SaveInPlace(size) \/ SaveRewrite(size)
      PROVE  MovesInv'
  <2>1. PICK place \in {"backup", "patch", "open_temp"} :
          Save(size, place) /\ (place = "patch" => ~ mode.keep)
    BY <1>24 DEF SaveInPlace, SaveRewrite
  <2> QED BY <1>1, <2>1 DEF Save
<1> QED
  BY <1>2, <1>3, <1>4, <1>5, <1>6, <1>7, <1>8, <1>9, <1>10, <1>11, <1>12, <1>13,
     <1>14, <1>15, <1>16, <1>17, <1>18, <1>19, <1>20, <1>21, <1>22, <1>23, <1>24
  DEF Next, InPlaceStep, RewriteStep

-----------------------------------------------------------------------------
(* What the places mean for the properties.                                *)

\* What the failing steps of the properties mean for the places.
LEMMA WatchedModes ==
  ASSUME Watched
  PROVE  session = 1 /\ WholeBefore /\ Complete /\ Moved /\ "delete" \notin mode.failing
  BY DEF Watched, Complete, Moved, Overwritten

\* With the backup, either the temporary file is complete or the renames work.
LEMMA SurvivableModes ==
  ASSUME Survivable
  PROVE  mode.keep /\ mode.writes = 1 /\ "flush" \notin mode.failing /\ (Complete \/ Moved)
  BY DEF Survivable, Complete, Moved, Overwritten

\* In every state something is left.
LEMMA Lost == ASSUME Typed, SessionInv, HandleInv, FirstInv, MovesInv, RestInv PROVE NothingLost
<1> SUFFICES ASSUME Survivable, WholeBefore PROVE \E f \in Names : Whole(f)
  BY DEF NothingLost
<1> USE SurvivableModes DEF Names
<1>1. CASE pc \in {"closed", "ready"}
  BY <1>1 DEF RestInv, NothingLost
<1>2. CASE pc \notin {"closed", "ready"}
  <2>1. session = 1
    BY <1>2 DEF SessionInv, Typed
  <2> USE <2>1
  <2>2. CASE pc \in {"backup", "copy"} \cup TempPlaces \cup {"clear_old", "move_old"}
    BY <2>2 DEF FirstInv
  <2>3. CASE pc \in {"patch", "lengths"}
    BY <2>3 DEF FirstInv, Kept
  <2>4. CASE pc \in {"clear_new", "move_new"}
    BY <2>4, ContentPresent DEF MovesInv, HandleInv, Kept, Whole, Typed
  <2>5. CASE pc \in {"drop_backup", "reopen"}
    BY <2>5, ContentPresent DEF MovesInv, HandleInv, Kept, Whole, Typed
  <2> QED BY <1>2, <2>2, <2>3, <2>4, <2>5 DEF TypeOK, Places, TempPlaces, Typed
<1> QED BY <1>1, <1>2

\* A state without a file is one between the renames.
LEMMA Window == ASSUME Typed, HandleInv, FirstInv, MovesInv, RestInv PROVE WindowRecoverable
<1> SUFFICES ASSUME dir["file"] = Absent, Watched
             PROVE  Whole("backup") /\ Whole("temp") /\ dir["temp"] = target
  BY DEF WindowRecoverable
<1> USE WatchedModes
<1>1. CASE pc \in {"closed", "ready"}
  BY <1>1 DEF RestInv, WindowRecoverable
<1>2. CASE pc \in InPlacePlaces \cup TempPlaces
  BY <1>2 DEF HandleInv
<1>3. CASE pc \in {"clear_old", "move_old"}
  BY <1>3 DEF FirstInv, Whole
<1>4. CASE pc \in {"clear_new", "move_new"}
  BY <1>4, ContentPresent DEF MovesInv, HandleInv, Kept, Whole, Typed
<1>5. CASE pc \in {"drop_backup", "reopen"}
  BY <1>5, ContentPresent DEF MovesInv, Typed
<1> QED BY <1>1, <1>2, <1>3, <1>4, <1>5 DEF Typed, InPlacePlaces, TempPlaces, Places

\* What does not touch the files keeps what is promised of them.
LEMMA StaysSafe ==
  ASSUME NothingLost, WindowRecoverable, UNCHANGED <<mode, dir, before, session, target>>
  PROVE  NothingLost' /\ WindowRecoverable'
  BY DEF NothingLost, WindowRecoverable, Survivable, Watched, Whole, WholeBefore

\* A whole file is enough.
LEMMA WholeIsSafe == ASSUME Whole("file")' PROVE NothingLost' /\ WindowRecoverable'
  BY DEF NothingLost, WindowRecoverable, Whole, Names

\* Nothing is promised of the later writes of a session, or of a torn file.
LEMMA NoPromise ==
  ASSUME Typed', UNCHANGED mode, ~ (session' = 1 /\ WholeBefore'), session' # 0
  PROVE  NothingLost' /\ WindowRecoverable'
<1>1. ~ (Survivable' /\ WholeBefore')
  BY DEF Survivable, Typed
<1>2. ~ Watched'
  BY DEF Watched
<1> QED BY <1>1, <1>2 DEF NothingLost, WindowRecoverable

\* A call that ends or is cut off leaves what its place had.
LEMMA RestStep ==
  ASSUME Typed, HandleInv, SessionInv, FirstInv, MovesInv, RestInv, Next, Typed'
  PROVE  RestInv'
<1> SUFFICES ASSUME pc' \in {"closed", "ready"}
             PROVE  NothingLost' /\ WindowRecoverable'
  BY DEF RestInv
<1>1. UNCHANGED mode /\ NothingLost /\ WindowRecoverable
  BY Lost, Window DEF Next
<1>2. CASE Parse
  <2>1. NothingLost'
    BY <1>1, <1>2 DEF Parse, NothingLost, Survivable, WholeBefore, Whole
  <2>2. ~ Watched'
    BY <1>2 DEF Parse, Watched
  <2> QED BY <2>1, <2>2 DEF WindowRecoverable
<1>3. CASE Free
  <2>1. CASE UNCHANGED dir
    BY <1>1, <1>3, <2>1, StaysSafe DEF Free
  <2>2. CASE dir' = [dir EXCEPT !["file"] = target]
    <3>1. Whole("file")'
      BY <2>2, ContentPresent DEF Whole, Typed, HandleInv, Names
    <3> QED BY <3>1, WholeIsSafe
  <2> QED BY <1>3, <2>1, <2>2 DEF Free, Flushed
<1>4. CASE Crash \/ Lengths \/ Reopen
  BY <1>1, <1>4, StaysSafe DEF Crash, Lengths, Reopen, handle
<1>5. CASE OpenBackup \/ CopyBackup \/ OpenTemp \/ DropTemp
  <2>1. CASE session = 1 /\ WholeBefore
    <3>1. Whole("file") /\ dir'["file"] = dir["file"]
      BY <1>5, <2>1
      DEF FirstInv, TempPlaces, OpenBackup, CopyBackup, OpenTemp, DropTemp, Delete, Typed, Names
    <3> QED BY <3>1, WholeIsSafe DEF Whole
  <2>2. CASE ~ (session = 1 /\ WholeBefore)
    <3>1. session' = session /\ WholeBefore' = WholeBefore
      BY <1>5 DEF OpenBackup, CopyBackup, OpenTemp, DropTemp, handle, WholeBefore
    <3>2. pc \notin {"closed", "ready"}
      BY <1>5 DEF OpenBackup, CopyBackup, OpenTemp, DropTemp
    <3>3. session' # 0
      BY <3>1, <3>2 DEF SessionInv
    <3> QED BY <1>1, <2>2, <3>1, <3>3, NoPromise
  <2> QED BY <2>1, <2>2
<1>6. CASE Patch
  <2>1. pc = "patch" /\ dir' \in {dir, [dir EXCEPT !["file"] = Torn(@)]}
    BY <1>6 DEF Patch
  <2>0. session' = session /\ WholeBefore' = WholeBefore
    BY <1>6 DEF Patch, handle, WholeBefore
  <2>2. dir'["file"] # Absent /\ dir'["backup"] = dir["backup"]
    BY <2>1, TornContent, ContentPresent DEF HandleInv, InPlacePlaces, Typed, Names
  <2>3. ASSUME Survivable', WholeBefore' PROVE Whole("backup")'
    <3>1. Survivable /\ WholeBefore
      BY <1>1, <2>0, <2>3 DEF Survivable
    <3>2. session = 1
      BY <2>1, <3>1, SurvivableModes DEF SessionInv, Typed
    <3> QED BY <2>1, <2>2, <3>1, <3>2, SurvivableModes DEF FirstInv, Kept, Whole
  <2> QED BY <2>2, <2>3 DEF NothingLost, WindowRecoverable, Names
<1>7. ASSUME NEW size \in Sizes, SaveInPlace(size) \/ SaveRewrite(size)
      PROVE  NothingLost' /\ WindowRecoverable'
  <2>1. PICK place \in {"backup", "patch", "open_temp"} : Save(size, place)
    BY <1>7 DEF SaveInPlace, SaveRewrite
  <2>2. pc = "ready" /\ session' = session + 1 /\ session < mode.writes
    BY <2>1 DEF Save
  <2>4. ~ fh
    BY <2>1 DEF Save
  <2>3. session' # 1 /\ mode.writes # 1
    BY <2>2, <2>4 DEF SessionInv, Typed, Mode
  <2> QED BY <1>1, <2>3 DEF NothingLost, WindowRecoverable, Survivable, Watched
<1>8. CASE \/ CopyHead \/ WriteIlst \/ WriteData \/ WriteFree \/ CopyTail
            \/ UpdateOffsets \/ CloseTemp
  BY <1>8 DEF CopyHead, WriteIlst, WriteData, WriteFree, CopyTail, WriteOrSkip, Write, Skip,
              UpdateOffsets, CloseTemp
<1>9. CASE ClearOld \/ MoveOld \/ ClearNew \/ MoveNew \/ DropBackup
  BY <1>9 DEF ClearOld, MoveOld, ClearNew, MoveNew, DropBackup
<1> QED
  BY <1>2, <1>3, <1>4, <1>5, <1>6, <1>7, <1>8, <1>9 DEF Next, InPlaceStep, RewriteStep

-----------------------------------------------------------------------------
(* The theorems.                                                           *)

\* The invariant holds at the start.
LEMMA InvInit == Init => IInv
<1> SUFFICES ASSUME Init PROVE IInv
  OBVIOUS
<1>1. PICK n \in Sizes : dir = [f \in Names |-> IF f = "file" THEN Original(n) ELSE Absent]
  BY DEF Init
<1>2. Original(n) \in Content /\ Original(0) \in Content /\ Original(n).whole /\ Original(0).whole
  BY SaveAssumption DEF Original, Content
<1>3. TypeOK
  <2>1. dir \in [Names -> Content \cup {Absent}] /\ before = dir
    BY <1>1, <1>2 DEF Init
  <2>2. mode.writes \in Nat
    BY SaveAssumption DEF Init, Mode
  <2>3. mode \in Modes /\ pc \in Places /\ filesz \in Nat /\ target \in Content
    BY <1>2 DEF Init, Places
  <2>4. saves \in 0 .. MaxSaves /\ session \in 0 .. mode.writes
    BY <2>2, SaveAssumption DEF Init
  <2>5. {rc, mp4error, fh, arrived, unflushed} \subseteq BOOLEAN /\ ~ fh
    BY DEF Init
  <2> QED BY <2>1, <2>3, <2>4, <2>5 DEF TypeOK
<1>4. Whole("file")
  BY <1>1, <1>2, ContentPresent DEF Whole, Names
<1>5. HandleInv /\ SessionInv
  BY <1>2, <1>4 DEF Init, HandleInv, SessionInv, InPlacePlaces, TempPlaces
<1>6. FirstInv /\ MovesInv /\ RestInv
  BY <1>4 DEF Init, FirstInv, MovesInv, RestInv, NothingLost, WindowRecoverable, Watched, Names
<1> QED BY <1>3, <1>5, <1>6 DEF IInv

\* Every step keeps it.
LEMMA InvStep == IInv /\ [Next]_vars => IInv'
<1> SUFFICES ASSUME IInv, [Next]_vars PROVE IInv'
  OBVIOUS
<1>1. Typed /\ TypeOK /\ HandleInv /\ SessionInv /\ FirstInv /\ MovesInv /\ RestInv
  BY TypedState DEF IInv
<1>2. CASE Next
  <2>1. TypeOK'
    BY <1>1, <1>2, TypeStep
  <2>2. Typed'
    BY <2>1, SaveAssumption DEF TypeOK, Typed, Mode
  <2> QED
    BY <1>1, <1>2, <2>1, <2>2, HandleStep, SessionStep, FirstStep, MovesStep, RestStep DEF IInv
<1>3. CASE UNCHANGED vars
  BY <1>1, <1>3
  DEF IInv, TypeOK, HandleInv, SessionInv, FirstInv, MovesInv, RestInv, NothingLost,
      WindowRecoverable, Survivable, WholeBefore, Watched, Kept, Whole, Complete, Moved, vars
<1> QED BY <1>2, <1>3

\* The inductive invariant holds in every state.
THEOREM SaveInductive == Spec => []IInv
  BY InvInit, InvStep, PTL DEF Spec

\* Every variable keeps its type, for all sizes, modes and numbers of calls.
THEOREM SaveTypes == Spec => []TypeOK
<1>1. IInv => TypeOK
  BY DEF IInv
<1> QED BY <1>1, SaveInductive, PTL

\* With the backup option no failing step and no crash of a survivable kind in a
\* call on a whole file loses the contents, whatever torn files earlier calls
\* have left and other sessions have opened (mp4tag_write_inplace,
\* mp4tag_write_rewrite, mp4tag_file_move).
THEOREM NothingIsLost == Spec => []NothingLost
<1>1. IInv => NothingLost
  BY TypedState, Lost DEF IInv
<1> QED BY <1>1, SaveInductive, PTL

\* Between the two renames the old and the new file are both there
\* (mp4tag_write_rewrite).
THEOREM WindowIsRecoverable == Spec => []WindowRecoverable
<1>1. IInv => WindowRecoverable
  BY TypedState, Window DEF IInv
<1> QED BY <1>1, SaveInductive, PTL

\* A rewrite whose failures the code looks at is all or nothing
\* (mp4tag_write_rewrite).
THEOREM RewriteAllOrNothing == Spec => AllOrNothing
<1> DEFINE A == RewriteReturns /\ Watched =>
       IF mp4error'
       THEN /\ dir'["file"] = target
            /\ dir'["temp"] = Absent
            /\ dir'["backup"] = IF mode.keep THEN before["file"] ELSE Absent
       ELSE /\ dir'["file"] = before["file"]
            /\ dir'["backup"] = before["backup"]
<1>1. IInv /\ [Next]_vars => [A]_vars
  <2> SUFFICES ASSUME IInv, RewriteStep, pc' = "ready", Watched PROVE A
    BY DEF RewriteReturns
  <2>1. Typed /\ HandleInv /\ FirstInv /\ MovesInv
    BY TypedState DEF IInv
  <2>2. session = 1 /\ WholeBefore /\ Complete /\ Moved /\ "delete" \notin mode.failing
    BY WatchedModes
  <2>3. CASE OpenTemp
    BY <2>1, <2>2, <2>3 DEF OpenTemp, Fail, FirstInv, TempPlaces
  <2>4. CASE DropTemp
    BY <2>1, <2>2, <2>4 DEF DropTemp, Delete, FirstInv, TempPlaces, Typed, Names
  <2>5. CASE Reopen
    BY <2>1, <2>2, <2>5 DEF Reopen, FirstInv, MovesInv, MovePlaces, Kept
  <2>6. CASE \/ CopyHead \/ WriteIlst \/ WriteData \/ WriteFree \/ CopyTail
            \/ UpdateOffsets \/ CloseTemp
    BY <2>6 DEF CopyHead, WriteIlst, WriteData, WriteFree, CopyTail, WriteOrSkip, Write, Skip,
                UpdateOffsets, CloseTemp
  <2>7. CASE ClearOld \/ MoveOld \/ ClearNew \/ MoveNew \/ DropBackup
    BY <2>7 DEF ClearOld, MoveOld, ClearNew, MoveNew, DropBackup
  <2> QED BY <2>3, <2>4, <2>5, <2>6, <2>7 DEF RewriteStep
<1>2. [][A]_vars <=> AllOrNothing
  BY PTL DEF AllOrNothing
<1> HIDE DEF A
<1> QED BY <1>1, <1>2, SaveInductive, PTL DEF Spec

\* The backup that a successful write leaves is a copy of the original file,
\* in place and by a rewrite (mp4tag_write_inplace, mp4tag_write_rewrite).
THEOREM BackupIsACopy == Spec => BackupIsCopy
<1> DEFINE B == CallReturns /\ Watched /\ mode.keep /\ mp4error' => dir'["backup"] = before["file"]
<1>1. IInv /\ [Next]_vars => [B]_vars
  <2> SUFFICES ASSUME IInv, RewriteStep \/ InPlaceStep, pc' = "ready", Watched, mode.keep, mp4error'
               PROVE  dir'["backup"] = before["file"]
    BY DEF CallReturns, RewriteReturns
  <2>1. Typed /\ HandleInv /\ FirstInv /\ MovesInv
    BY TypedState DEF IInv
  <2>2. session = 1 /\ WholeBefore /\ Complete /\ Moved /\ "flush" \notin mode.failing
    BY WatchedModes DEF Complete
  <2>3. CASE OpenTemp \/ DropTemp \/ OpenBackup \/ CopyBackup \/ Patch
    BY <2>3 DEF OpenTemp, DropTemp, OpenBackup, CopyBackup, Patch, Fail
  <2>4. CASE Lengths
    BY <2>1, <2>2, <2>4 DEF Lengths, FirstInv, Kept
  <2>5. CASE Reopen
    BY <2>1, <2>2, <2>5 DEF Reopen, MovesInv, Kept
  <2>6. CASE \/ CopyHead \/ WriteIlst \/ WriteData \/ WriteFree \/ CopyTail
            \/ UpdateOffsets \/ CloseTemp
    BY <2>6 DEF CopyHead, WriteIlst, WriteData, WriteFree, CopyTail, WriteOrSkip, Write, Skip,
                UpdateOffsets, CloseTemp
  <2>7. CASE ClearOld \/ MoveOld \/ ClearNew \/ MoveNew \/ DropBackup
    BY <2>7 DEF ClearOld, MoveOld, ClearNew, MoveNew, DropBackup
  <2> QED BY <2>3, <2>4, <2>5, <2>6, <2>7 DEF RewriteStep, InPlaceStep
<1>2. [][B]_vars <=> BackupIsCopy
  BY PTL DEF BackupIsCopy
<1> HIDE DEF B
<1> QED BY <1>1, <1>2, SaveInductive, PTL DEF Spec
=============================================================================
