------------------------------- MODULE PhotoBatch -------------------------------
(***************************************************************************)
(* The two scripts that prepare photos for printing, one after the other:  *)
(* changeImgNameByTime.py copies the photos of a folder to another under   *)
(* their date, addTimestampWatermarktoImgs.py writes that date on them     *)
(* (src/Program/Python/addTimestampWatermarktoImgs, and the same scripts   *)
(* in the skill photo-print-selection). A file is a stem and a suffix; a   *)
(* photo keeps its identity when it is copied or converted.                *)
(***************************************************************************)
EXTENDS Integers, Sequences, FiniteSets, Functions

CONSTANTS FolderAtFirst  \* FolderAtFirst[n]: the photo in the file named n

\* The name of a file: whether it has Chinese characters, and the date, if any,
\* before it.
FileName(stem, suffix, zh, date) == [stem |-> stem, suffix |-> suffix, zh |-> zh, date |-> date]

\* A folder has finitely many files, and none has a UUID that is yet to come.
ASSUME PhotoAssumption ==
    /\ IsFiniteSet(DOMAIN FolderAtFirst)
    /\ \A n \in DOMAIN FolderAtFirst :
          /\ n = FileName(n.stem, n.suffix, n.zh, "")
          /\ n.zh \in BOOLEAN
          /\ \A m \in DOMAIN FolderAtFirst : n.stem # <<"uuid", m>>

\* A photo: when it was taken, whether its decoder can read it, and its size.
Photos == {FolderAtFirst[n] : n \in DOMAIN FolderAtFirst}

VARIABLES
    phase,     \* "idle", "copying", "tagging", "ended", or "aborted" by an exception
    source,    \* the folder the first script works in, a function from names to photos
    dated,     \* the copies, by date and name
    todo,      \* the names that os.listdir returned and the loop has still to visit
    total, abnormalImgs,
    tagged     \* the files of dst: by name, where the date was written

photoVars == <<phase, source, dated, todo, total, abnormalImgs, tagged>>

Heic(name) == name.suffix \in {".heic", ".heif"}
isValidImgFilePath(name) == name.suffix \in {".jpg", ".bmp", ".png", ".gif"} \/ Heic(name)

\* The name of a file that has Chinese characters becomes a UUID of its own, in
\* place.
formatImageName(name) ==
    IF name.zh THEN FileName(<<"uuid", name>>, name.suffix, FALSE, name.date) ELSE name

Put(folder, name, photo) ==
    [n \in DOMAIN folder \cup {name} |-> IF n = name THEN photo ELSE folder[n]]
Without(folder, name) == Restrict(folder, DOMAIN folder \ {name})
Rename(folder, from, to) == IF from = to THEN folder ELSE Put(Without(folder, from), to, folder[from])

PhotoInit ==
    /\ phase = "idle" /\ source = FolderAtFirst /\ dated = <<>>
    /\ todo = {} /\ total = 0 /\ abnormalImgs = {} /\ tagged = <<>>

-----------------------------------------------------------------------------
(* changeNameAndCopyFiles.                                                 *)

ListSource ==
    /\ phase = "idle"
    /\ phase' = "copying" /\ todo' = DOMAIN source
    /\ UNCHANGED <<source, dated, total, abnormalImgs, tagged>>

\* Directories and other files are abnormal and stay where they are.
SkipFile(name) ==
    /\ phase = "copying" /\ name \in todo /\ ~isValidImgFilePath(name)
    /\ todo' = todo \ {name}
    /\ abnormalImgs' = abnormalImgs \cup {name}
    /\ UNCHANGED <<phase, source, dated, total, tagged>>

\* The date of EXIF, or else that of the file; none if the file has gone.
\* shutil.copyfile overwrites, and may fail.
Dated(name, date) == FileName(name.stem, name.suffix, name.zh, date)
CopyTo(name, photo, raw) ==
    \/ dated' = Put(dated, Dated(name, photo.date), photo) /\ UNCHANGED abnormalImgs
    \/ UNCHANGED dated /\ abnormalImgs' = abnormalImgs \cup {raw}

\* A file is renamed, dated and copied. One that has gone since it was listed
\* is counted all the same, and abnormal.
CopyPhoto(name) ==
    /\ phase = "copying" /\ name \in todo /\ isValidImgFilePath(name) /\ ~Heic(name)
    /\ todo' = todo \ {name}
    /\ LET new == formatImageName(name) IN
          IF name \notin DOMAIN source /\ name.zh
          THEN abnormalImgs' = abnormalImgs \cup {name} /\ UNCHANGED <<source, dated, total>>
          ELSE /\ total' = total + 1
               /\ IF name \in DOMAIN source
                  THEN source' = Rename(source, name, new) /\ CopyTo(new, source[name], new)
                  ELSE abnormalImgs' = abnormalImgs \cup {new} /\ UNCHANGED <<source, dated>>
    /\ UNCHANGED <<phase, tagged>>

JpgOf(name) == FileName(name.stem, ".jpg", name.zh, name.date)

\* Mutant: the HEIC file is removed too.
ConvertConsumes(name) ==
    /\ phase = "copying" /\ name \in todo /\ Heic(name)
    /\ todo' = todo \ {name}
    /\ source' = Without(source, name)
    /\ total' = total + 1
    /\ CopyTo(JpgOf(formatImageName(name)), source[name], name)
    /\ UNCHANGED <<phase, tagged>>

\* A HEIC file is dated, renamed, converted to a .jpg beside it, whatever is
\* there, and the .jpg is copied, and removed in any case.
ConvertPhoto(name) ==
    /\ phase = "copying" /\ name \in todo /\ Heic(name)
    /\ todo' = todo \ {name}
    /\ LET new == formatImageName(name)
           renamed == Rename(source, name, new)
       IN  IF source[name].readable
           THEN /\ source' = Without(renamed, JpgOf(new))
                /\ total' = total + 1
                /\ CopyTo(JpgOf(new), source[name], new)
           ELSE /\ source' = renamed
                /\ abnormalImgs' = abnormalImgs \cup {new}
                /\ UNCHANGED <<dated, total>>
    /\ UNCHANGED <<phase, tagged>>

-----------------------------------------------------------------------------
(* addTags, in a copy of the folder of dated photos.                       *)

ListDated ==
    /\ phase = "copying" /\ todo = {}
    /\ phase' = "tagging" /\ todo' = {n \in DOMAIN dated : isValidImgFilePath(n)}
    /\ total' = 0 /\ abnormalImgs' = {}
    /\ UNCHANGED <<source, dated, tagged>>

\* The place of the text and the size of its font, by the size of the photo.
getSizeParamofTag(photo) ==
    LET longer == IF photo.width > photo.height THEN photo.width ELSE photo.height
        font == IF longer > 8192 THEN 8 ELSE IF longer > 1024 THEN longer \div 1024 ELSE 2
    IN  [font |-> font,
         left |-> IF photo.width > font * 400 THEN photo.width \div 20 ELSE font * 20,
         bottom |-> IF photo.height > font * 400 THEN (19 * photo.height) \div 20
                    ELSE photo.height - 200]

\* OpenCV writes the text although it may lie outside of the photo.
TagPhoto(name) ==
    /\ phase = "tagging" /\ name \in todo /\ dated[name].readable
    /\ todo' = todo \ {name} /\ total' = total + 1
    /\ tagged' = Put(tagged, name, getSizeParamofTag(dated[name]))
    /\ UNCHANGED <<phase, source, dated, abnormalImgs>>

\* imread returns None for what OpenCV cannot read; the handler of the error
\* that follows raises itself (three places in its format, two values).
TagFails(name) ==
    /\ phase = "tagging" /\ name \in todo /\ ~dated[name].readable
    /\ phase' = "aborted" /\ total' = total + 1
    /\ UNCHANGED <<source, dated, todo, abnormalImgs, tagged>>

EndTagging ==
    /\ phase = "tagging" /\ todo = {}
    /\ phase' = "ended"
    /\ UNCHANGED <<source, dated, todo, total, abnormalImgs, tagged>>

PhotoNext ==
    \/ ListSource \/ ListDated \/ EndTagging
    \/ \E name \in todo : SkipFile(name) \/ CopyPhoto(name) \/ ConvertPhoto(name)
                          \/ TagPhoto(name) \/ TagFails(name)

PhotoSpec == PhotoInit /\ [][PhotoNext]_photoVars

PhotoTypeOK ==
    /\ phase \in {"idle", "copying", "tagging", "ended", "aborted"}
    /\ {source[n] : n \in DOMAIN source} \cup {dated[n] : n \in DOMAIN dated} \subseteq Photos
    /\ total \in 0 .. Cardinality(DOMAIN FolderAtFirst)
    /\ DOMAIN tagged \subseteq DOMAIN dated
    /\ phase = "ended" => total = Cardinality(DOMAIN tagged)

-----------------------------------------------------------------------------
(* Properties.                                                             *)

\* The name under which the photo of a file is copied, but for the date.
CopyName(name) == IF Heic(name) THEN JpgOf(name) ELSE name

\* Another file is converted to a .jpg that has the name of the copy of file n.
HasTwin(n) ==
    \E m \in DOMAIN FolderAtFirst \ {n} : Heic(m) /\ ~m.zh /\ JpgOf(m) = CopyName(n)

\* A photo stays in its folder, under its name or a new one, unless it is a
\* .jpg that a HEIC twin has overwritten and removed; and once all are copied
\* it is among the dated ones or listed as abnormal, unless it has a HEIC twin,
\* whose copy may take its place (changeImgNameByTime.py:129-141, 176-209).
LossNeedsTwin ==
    \A n \in DOMAIN FolderAtFirst : LET p == FolderAtFirst[n] IN
        /\ Heic(n) \/ ~HasTwin(n) => p \in {source[m] : m \in DOMAIN source}
        /\ ~HasTwin(n) /\ phase = "copying" /\ todo = {} =>
              \/ p \in {dated[m] : m \in DOMAIN dated}
              \/ n \in abnormalImgs \/ formatImageName(n) \in abnormalImgs
=============================================================================
