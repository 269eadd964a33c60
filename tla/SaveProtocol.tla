---------------------------- MODULE SaveProtocol ----------------------------
(***************************************************************************)
(* How mp4tag_write_tags puts new contents on disk: in place, after a copy *)
(* to the backup file if the option asks for one, or by a rewrite into a   *)
(* temporary file that is renamed over the original.  Every step may fail  *)
(* and the program may stop between any two of them.  What the bytes are   *)
(* is left to the module Layout: contents have a version and a size here,  *)
(* and are whole or not.                                                   *)
(***************************************************************************)
EXTENDS Naturals

CONSTANTS
  Modes,     \* what may be the case in a behaviour, see Mode
  Sizes,     \* sizes of files
  MaxSaves   \* bound: calls of mp4tag_write_tags

Steps == {"open_backup", "copy", "patch", "lengths", "open_temp", "head", "ilst",
          "data", "free", "tail", "offsets", "flush", "move", "delete", "reopen"}

\* MP4TAG_OPTION_KEEP_BACKUP, the branch of mp4tag_file_move, the steps that may
\* fail, and a bound: the calls of mp4tag_write_tags on one handle.
Mode == [keep : BOOLEAN, windows : BOOLEAN, failing : SUBSET Steps, writes : 0 .. MaxSaves]

ASSUME SaveAssumption ==
  /\ MaxSaves \in Nat
  /\ Modes \subseteq Mode
  /\ Sizes \subseteq Nat /\ Sizes # {}

Names   == {"file", "temp", "backup"}
Content == [version : 0 .. MaxSaves, size : Nat, whole : BOOLEAN]
Absent  == [absent |-> TRUE]

\* Where a call is; "closed" without a handle, "ready" between two calls.
Places == {"closed", "ready", "backup", "copy", "patch", "lengths", "open_temp",
           "head", "ilst", "data", "free", "tail", "offsets", "close_temp",
           "clear_old", "move_old", "clear_new", "move_new", "drop_backup", "reopen", "drop_temp"}

VARIABLES
  mode,       \* what is the case in this behaviour
  dir,        \* what the three names stand for
  pc,         \* the place the program is at
  rc,         \* the local rc of mp4tag_write_rewrite is MP4TAG_OK
  mp4error,   \* the handle's error is MP4TAG_OK
  fh,         \* the handle's file is open
  filesz,     \* the size of the file when it was opened
  target,     \* the contents that are being written
  arrived,    \* all that was written for the target so far has arrived
  unflushed,  \* the end of an in-place write is still in the buffer of fh
  before,     \* dir when the call began
  saves,      \* calls so far, and in this session
  session

vars == <<mode, dir, pc, rc, mp4error, fh, filesz, target, arrived, unflushed,
          before, saves, session>>

handle == <<fh, filesz, saves, session>>

Original(n) == [version |-> 0, size |-> n, whole |-> TRUE]

Init ==
  /\ mode \in Modes
  /\ \E n \in Sizes : dir = [f \in Names |-> IF f = "file" THEN Original(n) ELSE Absent]
  /\ pc = "closed" /\ rc = TRUE /\ mp4error = TRUE /\ fh = FALSE /\ filesz = 0
  /\ target = Original(0) /\ arrived = FALSE /\ unflushed = FALSE
  /\ before = dir
  /\ saves = 0 /\ session = 0

Torn(c)   == [c EXCEPT !.whole = FALSE]
MayFail(step) == step \in mode.failing

\* Reading or seeking in fh, and closing it, writes its buffer out.
Flushed == IF unflushed THEN [dir EXCEPT !["file"] = target] ELSE dir

-----------------------------------------------------------------------------
(* Sessions.                                                               *)

\* mp4tag_open and mp4tag_parse.  They look at ftyp and at the lengths of boxes:
\* a file that an earlier write has left torn may pass as well as a whole one.
Parse ==
  /\ pc = "closed"
  /\ dir["file"] # Absent
  /\ pc' = "ready" /\ fh' = TRUE /\ mp4error' = TRUE
  /\ filesz' = dir["file"].size
  /\ session' = 0
  /\ UNCHANGED <<dir, rc, target, arrived, unflushed, before, saves>>

\* Mutant: the file is not closed.
FreeLeavesOpen ==
  /\ pc = "ready"
  /\ pc' = "closed" /\ unflushed' = FALSE
  /\ dir' \in {Flushed} \cup (IF MayFail("flush") THEN {dir} ELSE {})
  /\ UNCHANGED <<fh, rc, mp4error, filesz, target, arrived, before, saves, session>>

\* mp4tag_free ignores an error of fclose.
Free ==
  /\ pc = "ready"
  /\ pc' = "closed" /\ fh' = FALSE /\ unflushed' = FALSE
  /\ dir' \in {Flushed} \cup (IF MayFail("flush") THEN {dir} ELSE {})
  /\ UNCHANGED <<rc, mp4error, filesz, target, arrived, before, saves, session>>

\* The program stops: what is in the buffers is lost.
Crash ==
  /\ pc # "closed"
  /\ pc' = "closed" /\ fh' = FALSE /\ unflushed' = FALSE
  /\ UNCHANGED <<dir, rc, mp4error, filesz, target, arrived, before, saves, session>>

-----------------------------------------------------------------------------
(* The start of mp4tag_write_tags.  The layout of a file that was torn     *)
(* when it was parsed, or that the handle has written before, is not       *)
(* trusted: what is written next may be wrong.                             *)
(* Buffered data is written out here and not at the first seek: between    *)
(* the two only the other file is opened.                                  *)

Save(size, place) ==
  /\ pc = "ready"
  /\ saves < MaxSaves /\ session < mode.writes
  /\ saves' = saves + 1 /\ session' = session + 1
  /\ before' = Flushed
  /\ IF fh
     THEN /\ dir' = Flushed
          /\ target' = [version |-> saves + 1, size |-> size, whole |-> TRUE]
          /\ arrived' \in {TRUE, session = 0 /\ dir["file"].whole}
          /\ pc' = place /\ rc' = TRUE /\ mp4error' = TRUE /\ unflushed' = FALSE
     ELSE /\ mp4error' = FALSE
          /\ UNCHANGED <<dir, target, arrived, pc, rc, unflushed>>
  /\ UNCHANGED <<fh, filesz>>

\* Mutant: the option to keep a backup is not looked at.
SaveInPlaceDirect(size) ==
  (dir["file"] # Absent => size >= dir["file"].size) /\ Save(size, "patch")

\* The file does not shrink: it is not truncated.
SaveInPlace(size) ==
  /\ dir["file"] # Absent => size >= dir["file"].size
  /\ Save(size, IF mode.keep THEN "backup" ELSE "patch")

SaveRewrite(size) == Save(size, "open_temp")

-----------------------------------------------------------------------------
(* mp4tag_write_inplace.                                                   *)

Fail == pc' = "ready" /\ mp4error' = FALSE

OpenBackup ==
  /\ pc = "backup"
  /\ \/ /\ pc' = "copy"
        /\ dir' = [dir EXCEPT !["backup"] = Torn(dir["file"])]
        /\ UNCHANGED mp4error
     \/ MayFail("open_backup") /\ Fail /\ UNCHANGED dir
  /\ UNCHANGED <<rc, handle, target, arrived, unflushed, before>>

\* filesz bytes are copied: too few if the file has grown since it was opened,
\* and an error if it has shrunk.
CopyBackup ==
  /\ pc = "copy"
  /\ \/ /\ filesz <= dir["file"].size
        /\ \E flushed \in {TRUE, ~ MayFail("flush")} :
             dir' = [dir EXCEPT !["backup"] =
                       [dir["file"] EXCEPT !.size = filesz,
                          !.whole = @ /\ flushed /\ filesz = dir["file"].size]]
        /\ pc' = "patch" /\ UNCHANGED mp4error
     \/ /\ filesz > dir["file"].size \/ MayFail("copy")
        /\ Fail /\ UNCHANGED dir
  /\ UNCHANGED <<rc, handle, target, arrived, unflushed, before>>

\* The tag data and the free box: the file is no longer what it was.
Patch ==
  /\ pc = "patch"
  /\ LET torn == [dir EXCEPT !["file"] = Torn(@)]
     IN \/ pc' = "lengths" /\ dir' = torn /\ UNCHANGED mp4error
        \/ MayFail("patch") /\ Fail /\ dir' \in {dir, torn}
  /\ UNCHANGED <<rc, handle, target, arrived, unflushed, before>>

\* The lengths of ilst and its parents.
Lengths ==
  /\ pc = "lengths"
  /\ pc' = "ready"
  /\ \/ unflushed' = arrived /\ UNCHANGED mp4error
     \/ MayFail("lengths") /\ mp4error' = FALSE /\ UNCHANGED unflushed
  /\ UNCHANGED <<dir, rc, handle, target, arrived, before>>

-----------------------------------------------------------------------------
(* mp4tag_write_rewrite: the temporary file.                               *)

OpenTemp ==
  /\ pc = "open_temp"
  /\ \/ pc' = "head" /\ dir' = [dir EXCEPT !["temp"] = Torn(target)] /\ UNCHANGED mp4error
     \/ MayFail("open_temp") /\ Fail /\ UNCHANGED dir
  /\ UNCHANGED <<rc, handle, target, arrived, unflushed, before>>

\* A step that writes to the temporary file and sets rc to its result.
Write(step, next) ==
  /\ pc = step
  /\ pc' = next
  /\ \/ rc' = TRUE /\ UNCHANGED arrived
     \/ MayFail(step) /\ rc' = FALSE /\ arrived' = FALSE
  /\ UNCHANGED <<dir, mp4error, handle, target, unflushed, before>>

\* A step that is left out if rc is not MP4TAG_OK.
Skip(step, next) ==
  /\ pc = step /\ ~ rc
  /\ pc' = next
  /\ arrived' = FALSE
  /\ UNCHANGED <<dir, rc, mp4error, handle, target, unflushed, before>>

WriteOrSkip(step, next) == (rc /\ Write(step, next)) \/ Skip(step, next)

CopyHead == Write("head", "ilst")
WriteIlst == WriteOrSkip("ilst", "data")
WriteData == WriteOrSkip("data", "free")

\* mp4tag_write_freebox is called whatever rc is, and its result is rc.
WriteFree == Write("free", "tail")

\* Mutant: an error of the last copy is not looked at.
CopyTailUnchecked ==
  \/ /\ pc = "tail" /\ rc
     /\ pc' = "offsets"
     /\ arrived' \in {arrived, arrived /\ ~ MayFail("tail")}
     /\ UNCHANGED <<dir, rc, mp4error, handle, target, unflushed, before>>
  \/ Skip("tail", "offsets")

CopyTail == WriteOrSkip("tail", "offsets")

\* Lengths of the parents and chunk offsets: an error goes to the handle only.
UpdateOffsets ==
  /\ pc = "offsets"
  /\ pc' = "close_temp"
  /\ \/ rc /\ UNCHANGED <<mp4error, arrived>>
     \/ rc /\ MayFail("offsets") /\ mp4error' = FALSE /\ arrived' = FALSE
     \/ ~ rc /\ arrived' = FALSE /\ UNCHANGED mp4error
  /\ UNCHANGED <<dir, rc, handle, target, unflushed, before>>

\* An error of fclose is ignored.
CloseTemp ==
  /\ pc = "close_temp"
  /\ \E flushed \in {TRUE, ~ MayFail("flush")} :
       dir' = [dir EXCEPT !["temp"] = [target EXCEPT !.whole = arrived /\ flushed]]
  /\ pc' = IF ~ rc THEN "drop_temp" ELSE IF mode.windows THEN "clear_old" ELSE "move_old"
  /\ UNCHANGED <<rc, mp4error, handle, target, arrived, unflushed, before>>

\* mp4tag_file_delete.
Delete(f) ==
  \/ dir' = [dir EXCEPT ![f] = Absent]
  \/ MayFail("delete") /\ UNCHANGED dir

DropTemp ==
  /\ pc = "drop_temp"
  /\ Delete("temp")
  /\ pc' = "ready" /\ mp4error' = FALSE
  /\ UNCHANGED <<rc, handle, target, arrived, unflushed, before>>

-----------------------------------------------------------------------------
(* mp4tag_write_rewrite: the renames, whose results are not looked at.     *)

\* On Windows a file is not renamed to a name that is taken.
Move(from, to) ==
  \/ /\ dir[from] # Absent /\ (mode.windows => dir[to] = Absent)
     /\ dir' = [dir EXCEPT ![to] = dir[from], ![from] = Absent]
  \/ /\ dir[from] = Absent \/ (mode.windows /\ dir[to] # Absent) \/ MayFail("move")
     /\ UNCHANGED dir

\* On Windows mp4tag_file_move first deletes what has the new name.
ClearOld ==
  /\ pc = "clear_old"
  /\ pc' = "move_old"
  /\ fh' = FALSE
  /\ Delete("backup")
  /\ UNCHANGED <<rc, mp4error, filesz, saves, session, target, arrived, unflushed, before>>

\* Mutant: the old file is deleted to make way for the new one.
MoveOldDeletes ==
  /\ pc = "move_old"
  /\ pc' = IF mode.windows THEN "clear_new" ELSE "move_new"
  /\ fh' = FALSE
  /\ dir' = [dir EXCEPT !["file"] = Absent]
  /\ UNCHANGED <<rc, mp4error, filesz, saves, session, target, arrived, unflushed, before>>

MoveOld ==
  /\ pc = "move_old"
  /\ pc' = IF mode.windows THEN "clear_new" ELSE "move_new"
  /\ fh' = FALSE
  /\ Move("file", "backup")
  /\ UNCHANGED <<rc, mp4error, filesz, saves, session, target, arrived, unflushed, before>>

\* The original itself is deleted here if it could not be renamed before.
ClearNew ==
  /\ pc = "clear_new"
  /\ pc' = "move_new"
  /\ Delete("file")
  /\ UNCHANGED <<rc, mp4error, handle, target, arrived, unflushed, before>>

MoveNew ==
  /\ pc = "move_new"
  /\ pc' = "drop_backup"
  /\ Move("temp", "file")
  /\ UNCHANGED <<rc, mp4error, handle, target, arrived, unflushed, before>>

\* Mutant: the option to keep a backup is not looked at here.
DropBackupAlways ==
  /\ pc = "drop_backup"
  /\ pc' = "reopen"
  /\ Delete("backup")
  /\ UNCHANGED <<rc, mp4error, handle, target, arrived, unflushed, before>>

DropBackup ==
  /\ pc = "drop_backup"
  /\ pc' = "reopen"
  /\ IF mode.keep THEN UNCHANGED dir ELSE Delete("backup")
  /\ UNCHANGED <<rc, mp4error, handle, target, arrived, unflushed, before>>

Reopen ==
  /\ pc = "reopen"
  /\ pc' = "ready"
  /\ fh' \in {dir["file"] # Absent} \cup (IF MayFail("reopen") THEN {FALSE} ELSE {})
  /\ UNCHANGED <<dir, rc, mp4error, filesz, saves, session, target, arrived, unflushed,
                 before>>

InPlaceStep == OpenBackup \/ CopyBackup \/ Patch \/ Lengths
RewriteStep ==
  \/ OpenTemp \/ CopyHead \/ WriteIlst \/ WriteData \/ WriteFree \/ CopyTail
  \/ UpdateOffsets \/ CloseTemp \/ DropTemp
  \/ ClearOld \/ MoveOld \/ ClearNew \/ MoveNew \/ DropBackup \/ Reopen

Next ==
  /\ \/ Parse \/ Free \/ Crash
     \/ \E size \in Sizes : SaveInPlace(size) \/ SaveRewrite(size)
     \/ InPlaceStep \/ RewriteStep
  /\ UNCHANGED mode

Spec == Init /\ [][Next]_vars

-----------------------------------------------------------------------------
(* Properties.                                                             *)

\* The values are well formed, and no file stays open without a handle.
TypeOK ==
  /\ mode \in Modes
  /\ dir \in [Names -> Content \cup {Absent}]
  /\ before \in [Names -> Content \cup {Absent}]
  /\ pc \in Places
  /\ rc \in BOOLEAN /\ mp4error \in BOOLEAN /\ fh \in BOOLEAN
  /\ filesz \in Nat
  /\ target \in Content
  /\ arrived \in BOOLEAN /\ unflushed \in BOOLEAN
  /\ saves \in 0 .. MaxSaves /\ session \in 0 .. mode.writes
  /\ pc = "closed" => ~ fh

Whole(f) == dir[f] # Absent /\ dir[f].whole

\* The file was whole when the call began, and not what an earlier one left torn.
WholeBefore == before["file"] # Absent /\ before["file"].whole

\* With the backup option, and one write per session, nothing that goes wrong in
\* a call on a whole file loses everything: whichever steps fail and wherever the
\* program stops, one of the three names stands for a whole file, from the start
\* of the call until the next one.  Of the steps whose errors the code overlooks
\* (the closing of a file, the writes to the temporary file whose rc is
\* overwritten, the renames, on Windows with the deletion before) the closing
\* must succeed, and the writes and the renames must not both fail.  Nothing is
\* promised of a call on a torn file: mp4tag_write_inplace puts a copy of it in
\* the place of the backup, which may be the only whole file there is.
Overwritten == {"head", "ilst", "data", "offsets"}
Survivable ==
  /\ mode.keep /\ mode.writes = 1
  /\ "flush" \notin mode.failing
  /\ \/ mode.failing \cap Overwritten = {}
     \/ mode.failing \cap (IF mode.windows THEN {"move", "delete"} ELSE {"move"}) = {}
NothingLost == Survivable /\ WholeBefore => \E f \in Names : Whole(f)

RewriteReturns == RewriteStep /\ pc' = "ready"
CallReturns    == RewriteReturns \/ (InPlaceStep /\ pc' = "ready")

\* The first write of a session, on a whole file, and only those steps fail whose
\* errors the code looks at.
Watched ==
  /\ session = 1 /\ WholeBefore
  /\ mode.failing \cap (Overwritten \cup {"flush", "move", "delete"}) = {}

\* Such a rewrite is all or nothing: it either reports an error and the old
\* file is there, or it reports none and the new one is, without a temporary
\* file or a backup that nobody asked for.
AllOrNothing ==
  [][RewriteReturns /\ Watched =>
       IF mp4error'
       THEN /\ dir'["file"] = target
            /\ dir'["temp"] = Absent
            /\ dir'["backup"] = IF mode.keep THEN before["file"] ELSE Absent
       ELSE /\ dir'["file"] = before["file"]
            /\ dir'["backup"] = before["backup"]]_vars

\* If the program stops between the two renames of such a write there is no
\* file, but then the old one is the backup and the new one is the temporary
\* file, on Windows too, where each rename is two steps.
WindowRecoverable ==
  dir["file"] = Absent /\ Watched => Whole("backup") /\ Whole("temp") /\ dir["temp"] = target

\* wiki/Initializing.txt:77: with the option, the backup such a write leaves is
\* a copy of the original file, whichever way the tags were written.
BackupIsCopy ==
  [][CallReturns /\ Watched /\ mode.keep /\ mp4error' => dir'["backup"] = before["file"]]_vars

-----------------------------------------------------------------------------
(* A statement of a comment that some call refutes.                        *)

\* mp4tagwrite.c:305-307: the code sets rc to the error of a step, and the
\* error of the handle is set to rc on failure.
FailureReported == [][RewriteReturns /\ ~ arrived => ~ mp4error']_vars
=============================================================================
