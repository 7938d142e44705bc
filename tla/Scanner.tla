-------------------------------- MODULE Scanner --------------------------------
(***************************************************************************)
(* The backend of the architecture smell scanner                           *)
(* (src/Program/Python/architecture-smell-scanner/backend/app): requests   *)
(* about one project, its collaborators, its uploaded code and its scans.  *)
(*                                                                         *)
(* One event loop runs all handlers. Each has a database session and with  *)
(* it a transaction of its own (core/database.py), and yields wherever it  *)
(* awaits a statement. A statement sees what is committed when it runs     *)
(* (PostgreSQL, READ COMMITTED). A row inserted but not yet committed is   *)
(* seen by its own request only, and keeps the project's row from being    *)
(* deleted. Updates and deletes are sent just before the commit and hold   *)
(* their locks until then, so the two are one step here. Extracting and    *)
(* analysing code never awaits: one step for all others, although the      *)
(* process may be killed in the middle of it.                              *)
(***************************************************************************)
EXTENDS Naturals, FiniteSets

CONSTANTS
    Owner,     \* the user that owns the project
    Others,    \* the other registered users
    Stranger,  \* an e-mail address that belongs to no user
    Requests,  \* bound: the requests there ever are, at once or one after the other
    Paths,     \* bound: the names of the uploads, code_<time>_<uuid>.<extension>
    NoPath,    \* code_snapshot_path is NULL
    GitUrl     \* whether the project has a git_url

ASSUME ScannerAssumption ==
    /\ Owner \notin Others /\ Stranger \notin Others \cup {Owner}
    /\ NoPath \notin Paths
    /\ GitUrl \in BOOLEAN

Users == Others \cup {Owner}

VARIABLES
    project,  \* the project's row: whether it is there, and its code_snapshot_path
    collabs,  \* the rows of project_collaborators
    scans,    \* the rows of scans
    smells,   \* the ids of the scans that have rows in architecture_smells
    next_id,  \* what the sequence of the tables' ids hands out next (one for all tables)
    disk,     \* disk[p]: the upload p and the directory it is extracted to
    req       \* req[r]: the request in slot r

tables == <<project, collabs, scans, smells, next_id>>
vars == <<tables, disk, req>>

OwnerOps == {"add", "remove", "delete", "upload", "update", "show"}
MemberOps == {"create_scan", "list_scans", "get_scan"}

\* A whole archive, a damaged one, one without files, and what is no .zip at all.
Archives == {"zip", "damaged", "empty"}
Kinds == Archives \cup {"other"}

NotUploaded == [kind |-> "none", file |-> FALSE, extracted |-> "no"]
Upload == [kind : Kinds \cup {"none"}, file : BOOLEAN, extracted : {"no", "part", "whole"}]

Collab == [id : Nat \ {0}, user : Users]
Scan == [id : Nat \ {0}, status : {"PENDING", "RUNNING", "COMPLETED", "FAILED"}, counted : BOOLEAN,
         path : Paths \cup {NoPath}, analysed : {"none", "nothing", "part", "whole"}]

\* `path' is the snapshot the session knows, `id' the row asked for or inserted,
\* `loaded' the children a delete knows; code 0 is no answer yet, 1 a broken connection.
Idle == [op |-> "none", at |-> "idle", user |-> Owner, target |-> Stranger, path |-> NoPath,
         id |-> 0, loaded |-> {}, analysed |-> "none", code |-> 0]
Request == [op : OwnerOps \cup MemberOps \cup {"none"},
            at : {"idle", "scan", "project", "collab", "row", "load", "write", "query", "insert",
                  "pending", "running", "save", "fail", "commit", "answered"},
            user : Users, target : Users \cup {Stranger}, path : Paths \cup {NoPath},
            id : Nat, loaded : SUBSET Nat,
            analysed : {"none", "nothing", "part", "whole"},
            code : {0, 1, 200, 201, 204, 400, 403, 404, 500}]

IdsOf(rows) == {row.id : row \in rows}
Active(r) == req[r].at \notin {"idle", "answered"}
\* r has inserted a row that refers to the project, and not committed it.
HasInserted(r) == req[r].at \in {"pending", "running", "save", "fail"}
                  \/ (req[r].op = "add" /\ req[r].at = "commit")

ScannerTypeOK ==
    /\ project \in [exists : BOOLEAN, path : Paths \cup {NoPath}]
    /\ collabs \subseteq Collab /\ scans \subseteq Scan
    /\ next_id \in Nat \ {0} /\ smells \subseteq Nat
    /\ disk \in [Paths -> Upload]
    /\ req \in [Requests -> Request]
    /\ \A id \in IdsOf(collabs \cup scans) : id < next_id
    /\ \A r \in Requests : HasInserted(r) => req[r].id \in 1 .. next_id - 1

ScannerInit ==
    /\ project = [exists |-> TRUE, path |-> NoPath]
    /\ collabs = {} /\ scans = {} /\ smells = {} /\ next_id = 1
    /\ disk = [p \in Paths |-> NotUploaded]
    /\ req = [r \in Requests |-> Idle]

-----------------------------------------------------------------------------
(* A request arrives with a valid token, is answered, or goes to a step.   *)

GoTo(r, step) == req' = [req EXCEPT ![r] = [@ EXCEPT !.at = step]]

Answer(r, code) ==
    req' = [req EXCEPT ![r] = [Idle EXCEPT !.at = "answered", !.code = code]]

Arrive(r, op, user) ==
    /\ req[r].at = "idle"
    /\ \E target \in IF op = "add" THEN Users \cup {Stranger} ELSE {Stranger},
          id \in IF op \in {"remove", "get_scan"} THEN 1 .. next_id ELSE {0} :
          req' = [req EXCEPT ![r] = [Idle EXCEPT
                     !.op = op, !.user = user, !.target = target, !.id = id,
                     !.at = IF op = "get_scan" THEN "scan" ELSE "project"]]
    /\ UNCHANGED <<tables, disk>>

\* get_scan and get_scan_smells look for the scan before its project.
SelectScan(r) ==
    /\ req[r].at = "scan"
    /\ IF req[r].id \in IdsOf(scans) THEN GoTo(r, "project") ELSE Answer(r, 404)
    /\ UNCHANGED <<tables, disk>>

-----------------------------------------------------------------------------
(* Access to the project.                                                  *)

FirstStep(op) ==
    CASE op = "add" -> "collab" [] op = "remove" -> "row" [] op = "delete" -> "load"
      [] op = "upload" -> "write" [] op = "update" -> "commit" [] op = "create_scan" -> "insert"
      [] OTHER -> "query"

\* No such project; a scan whose project has gone meanwhile makes the handler fail.
ProjectMissing(r) ==
    /\ req[r].at = "project" /\ ~project.exists
    /\ Answer(r, IF req[r].op = "get_scan" THEN 500 ELSE 404)
    /\ UNCHANGED <<tables, disk>>

\* The owner's requests go on; the collaborator to add must be another user.
OwnerEnters(r) ==
    /\ req[r].at = "project" /\ project.exists /\ req[r].user = Owner
    /\ IF req[r].op = "add" /\ req[r].target = Stranger THEN Answer(r, 404)
       ELSE IF req[r].op = "add" /\ req[r].target = Owner THEN Answer(r, 400)
       ELSE req' = [req EXCEPT ![r] = [@ EXCEPT !.at = FirstStep(req[r].op), !.path = project.path]]
    /\ UNCHANGED <<tables, disk>>

\* Others are asked whether they are collaborators, for scans only.
OtherKnocks(r) ==
    /\ req[r].at = "project" /\ project.exists /\ req[r].user # Owner
    /\ IF req[r].op \in OwnerOps THEN Answer(r, 403)
       ELSE req' = [req EXCEPT ![r] = [@ EXCEPT !.at = "collab", !.path = project.path]]
    /\ UNCHANGED <<tables, disk>>

RowsOf(user) == {c \in collabs : c.user = user}

\* Mutant: the answer of the check is not looked at.
AddsUnchecked(r) ==
    /\ req[r].at = "collab" /\ req[r].op = "add"
    /\ GoTo(r, "insert")
    /\ UNCHANGED <<tables, disk>>

\* add_collaborator: scalar_one_or_none raises if there are several rows.
CheckToAdd(r) ==
    /\ req[r].at = "collab" /\ req[r].op = "add"
    /\ LET n == Cardinality(RowsOf(req[r].target)) IN
          IF n = 0 THEN GoTo(r, "insert") ELSE Answer(r, IF n = 1 THEN 400 ELSE 500)
    /\ UNCHANGED <<tables, disk>>

\* Mutant: the answer of the check is not looked at.
EntersUnchecked(r) ==
    /\ req[r].at = "collab" /\ req[r].op # "add"
    /\ GoTo(r, FirstStep(req[r].op))
    /\ UNCHANGED <<tables, disk>>

\* The scans' handlers: the same for the user that asks.
CheckToEnter(r) ==
    /\ req[r].at = "collab" /\ req[r].op # "add"
    /\ LET n == Cardinality(RowsOf(req[r].user)) IN
          IF n = 1 THEN GoTo(r, FirstStep(req[r].op)) ELSE Answer(r, IF n = 0 THEN 403 ELSE 500)
    /\ UNCHANGED <<tables, disk>>

\* A query of scans, smells, trends or collaborators, and its result.
Query(r) ==
    /\ req[r].at = "query"
    /\ Answer(r, 200)
    /\ UNCHANGED <<tables, disk>>

-----------------------------------------------------------------------------
(* Collaborators and the project itself.                                   *)

\* Mutant: an insert waits until the project exists.
InsertWaits(r) ==
    /\ req[r].at = "insert" /\ project.exists
    /\ next_id' = next_id + 1
    /\ req' = [req EXCEPT ![r] = [@ EXCEPT !.id = next_id,
                  !.at = IF req[r].op = "add" THEN "commit" ELSE "pending"]]
    /\ UNCHANGED <<project, collabs, scans, smells, disk>>

\* Mutant: a new row is numbered after those that are committed.
InsertNumbers(r) ==
    /\ req[r].at = "insert"
    /\ IF project.exists
       THEN req' = [req EXCEPT ![r] = [@ EXCEPT !.id = next_id,
                       !.at = IF req[r].op = "add" THEN "commit" ELSE "pending"]]
       ELSE Answer(r, 500)
    /\ UNCHANGED <<tables, disk>>

\* The flush of a new row. Its foreign key fails if the project has gone.
Insert(r) ==
    /\ req[r].at = "insert"
    /\ next_id' = next_id + 1
    /\ IF project.exists
       THEN req' = [req EXCEPT ![r] = [@ EXCEPT !.id = next_id,
                       !.at = IF req[r].op = "add" THEN "commit" ELSE "pending"]]
       ELSE Answer(r, 500)
    /\ UNCHANGED <<project, collabs, scans, smells, disk>>

CommitAdd(r) ==
    /\ req[r].at = "commit" /\ req[r].op = "add"
    /\ collabs' = collabs \cup {[id |-> req[r].id, user |-> req[r].target]}
    /\ Answer(r, 201)
    /\ UNCHANGED <<project, scans, smells, next_id, disk>>

SelectRow(r) ==
    /\ req[r].at = "row"
    /\ IF req[r].id \in IdsOf(collabs) THEN GoTo(r, "commit") ELSE Answer(r, 404)
    /\ UNCHANGED <<tables, disk>>

\* Deleting a row that another request has deleted is only worth a warning.
CommitRemove(r) ==
    /\ req[r].at = "commit" /\ req[r].op = "remove"
    /\ collabs' = {c \in collabs : c.id # req[r].id}
    /\ Answer(r, 204)
    /\ UNCHANGED <<project, scans, smells, next_id, disk>>

\* Mutant: the scans are not deleted with their project.
LoadsCollaborators(r) ==
    /\ req[r].at = "load"
    /\ req' = [req EXCEPT ![r] = [@ EXCEPT !.at = "commit", !.loaded = IdsOf(collabs)]]
    /\ UNCHANGED <<tables, disk>>

\* db.delete loads the scans, their smells and the collaborators (cascade).
LoadChildren(r) ==
    /\ req[r].at = "load"
    /\ req' = [req EXCEPT ![r] = [@ EXCEPT !.at = "commit", !.loaded = IdsOf(collabs \cup scans)]]
    /\ UNCHANGED <<tables, disk>>

\* Mutant: the rows loaded are deleted and the project with them, whatever was added since.
CommitDeleteBlindly(r) ==
    /\ req[r].at = "commit" /\ req[r].op = "delete"
    /\ project' = [project EXCEPT !.exists = FALSE]
    /\ collabs' = {c \in collabs : c.id \notin req[r].loaded}
    /\ scans' = {s \in scans : s.id \notin req[r].loaded}
    /\ smells' = smells \ req[r].loaded
    /\ Answer(r, 204)
    /\ UNCHANGED <<next_id, disk>>

\* The commit deletes what was loaded, then the project. It waits for rows that
\* others have inserted, and fails if such rows are left.
CommitDelete(r) ==
    /\ req[r].at = "commit" /\ req[r].op = "delete"
    /\ \A other \in Requests : ~HasInserted(other)
    /\ IF IdsOf(collabs \cup scans) \subseteq req[r].loaded
       THEN /\ project' = [project EXCEPT !.exists = FALSE]
            /\ collabs' = {} /\ scans' = {} /\ smells' = {}
            /\ Answer(r, 204)
       ELSE /\ Answer(r, 500)
            /\ UNCHANGED <<project, collabs, scans, smells>>
    /\ UNCHANGED <<next_id, disk>>

\* An upload that is too large is refused; else the file is written under a new name.
WriteUpload(r) ==
    /\ req[r].at = "write"
    /\ \/ Answer(r, 400) /\ UNCHANGED disk
       \/ \E p \in Paths, kind \in Kinds :
             /\ disk[p] = NotUploaded
             /\ disk' = [disk EXCEPT ![p] = [kind |-> kind, file |-> TRUE, extracted |-> "no"]]
             /\ req' = [req EXCEPT ![r] = [@ EXCEPT !.at = "commit", !.path = p]]
    /\ UNCHANGED tables

\* The UPDATE of an upload or of update_project; no row to update is an error.
CommitUpdate(r) ==
    /\ req[r].at = "commit" /\ req[r].op \in {"upload", "update"}
    /\ IF project.exists
       THEN /\ Answer(r, 200)
            /\ project' = IF req[r].op = "upload" THEN [project EXCEPT !.path = req[r].path]
                                                  ELSE project
       ELSE Answer(r, 500) /\ UNCHANGED project
    /\ UNCHANGED <<collabs, scans, smells, next_id, disk>>

-----------------------------------------------------------------------------
(* A scan, within the transaction of the request that creates it.          *)

\* start_scan: PENDING becomes RUNNING.
StartScan(r) ==
    /\ req[r].at = "pending"
    /\ GoTo(r, "running")
    /\ UNCHANGED <<tables, disk>>

\* The analysis of a directory ends, or raises (a file the parser cannot read).
Analysed(r, what) ==
    req' = [req EXCEPT ![r] = [@ EXCEPT !.at = "save", !.analysed = what]]
Raises(r) == GoTo(r, "fail")

Snapshot(r) == IF req[r].path = NoPath THEN NotUploaded ELSE disk[req[r].path]

\* Neither a file nor a git_url, or git fails; else a fresh clone is analysed.
ScanClone(r) ==
    /\ req[r].at = "running" /\ ~Snapshot(r).file
    /\ \/ GitUrl /\ Analysed(r, "whole")
       \/ Raises(r)
    /\ UNCHANGED <<tables, disk>>

\* A file that does not end in .zip is taken for the directory: there is nothing in it.
ScanOther(r) ==
    /\ req[r].at = "running" /\ Snapshot(r).file /\ Snapshot(r).kind = "other"
    /\ Analysed(r, "nothing")
    /\ UNCHANGED <<tables, disk>>

\* A directory that exists is analysed as it is, however it came about.
ScanExtracted(r) ==
    /\ req[r].at = "running" /\ Snapshot(r).file /\ Snapshot(r).extracted # "no"
    /\ Analysed(r, Snapshot(r).extracted) \/ Raises(r)
    /\ UNCHANGED <<tables, disk>>

Extracting(r) ==
    /\ req[r].at = "running" /\ Snapshot(r).file
    /\ Snapshot(r).kind \in Archives /\ Snapshot(r).extracted = "no"
ExtractTo(r, extent) == disk' = [disk EXCEPT ![req[r].path] = [@ EXCEPT !.extracted = extent]]

\* Mutant: extraction stops half way through and is not waited for.
ExtractsInBackground(r) ==
    /\ Extracting(r)
    /\ \E extent \in {"part", "whole"} : ExtractTo(r, extent) /\ Analysed(r, extent)
    /\ UNCHANGED tables

\* The archive is extracted first. A damaged one raises, perhaps after some
\* files were written; of an empty one no directory is made.
ScanArchive(r) ==
    /\ Extracting(r)
    /\ CASE Snapshot(r).kind = "zip" -> ExtractTo(r, "whole") /\ (Analysed(r, "whole") \/ Raises(r))
         [] Snapshot(r).kind = "damaged" -> Raises(r) /\ (ExtractTo(r, "part") \/ UNCHANGED disk)
         [] OTHER -> Raises(r) /\ UNCHANGED disk
    /\ UNCHANGED tables

Row(r, status, counted) ==
    [id |-> req[r].id, status |-> status, counted |-> counted,
     path |-> req[r].path, analysed |-> req[r].analysed]

\* The smells are flushed, and committed with the scan and its counts.
SaveScan(r) ==
    /\ req[r].at = "save"
    /\ \E found \in IF req[r].analysed = "nothing" THEN {FALSE} ELSE BOOLEAN :
          /\ scans' = scans \cup {Row(r, "COMPLETED", found)}
          /\ smells' = IF found THEN smells \cup {req[r].id} ELSE smells
    /\ Answer(r, 201)
    /\ UNCHANGED <<project, collabs, next_id, disk>>

\* Mutant: the failure of the flush is stored as the failure of the scan.
FlushFailsQuietly(r) ==
    /\ req[r].at = "save" /\ req[r].analysed # "nothing"
    /\ scans' = scans \cup {Row(r, "FAILED", FALSE)}
    /\ smells' = smells \cup {req[r].id}
    /\ Answer(r, 201)
    /\ UNCHANGED <<project, collabs, next_id, disk>>

\* The database refuses a smell (a name too long, a NUL): the session needs a
\* rollback, so that the commit of the status FAILED raises too.
FlushFails(r) ==
    /\ req[r].at = "save" /\ req[r].analysed # "nothing"
    /\ Answer(r, 500)
    /\ UNCHANGED <<tables, disk>>

\* An exception before that is recorded with the scan.
FailScan(r) ==
    /\ req[r].at = "fail"
    /\ scans' = scans \cup {Row(r, "FAILED", FALSE)}
    /\ Answer(r, 201)
    /\ UNCHANGED <<project, collabs, smells, next_id, disk>>

Analyse(r) == ScanClone(r) \/ ScanOther(r) \/ ScanExtracted(r) \/ ScanArchive(r)

-----------------------------------------------------------------------------
(* The process is killed: the database rolls back, the disk stays as it is. *)

Lose == req' = [r \in Requests |-> IF Active(r)
                    THEN [Idle EXCEPT !.at = "answered", !.code = 1]
                    ELSE req[r]]

Crash ==
    /\ \E r \in Requests : Active(r)
    /\ Lose
    /\ UNCHANGED <<tables, disk>>

CrashExtracting(r) ==
    /\ Extracting(r) /\ Snapshot(r).kind # "empty"
    /\ ExtractTo(r, "part")
    /\ Lose
    /\ UNCHANGED tables

\* cleanup_old_snapshots, a task of the worker: removes files, not directories.
cleanup_old_snapshots(p) ==
    /\ disk[p].file
    /\ disk' = [disk EXCEPT ![p] = [@ EXCEPT !.file = FALSE]]
    /\ UNCHANGED <<tables, req>>

-----------------------------------------------------------------------------
Enters(r) == SelectScan(r) \/ ProjectMissing(r) \/ OwnerEnters(r) \/ OtherKnocks(r)
             \/ CheckToAdd(r) \/ CheckToEnter(r)
Works(r) == Query(r) \/ Insert(r) \/ SelectRow(r) \/ LoadChildren(r) \/ WriteUpload(r)
            \/ StartScan(r) \/ Analyse(r)
Commits(r) == CommitAdd(r) \/ CommitRemove(r) \/ CommitDelete(r) \/ CommitUpdate(r)
              \/ SaveScan(r) \/ FlushFails(r) \/ FailScan(r)
Handles(r) == Enters(r) \/ Works(r) \/ Commits(r)

ScannerNext ==
    \/ \E r \in Requests, user \in Users : \E op \in OwnerOps \cup MemberOps : Arrive(r, op, user)
    \/ \E r \in Requests : Handles(r) \/ CrashExtracting(r)
    \/ \E p \in Paths : cleanup_old_snapshots(p)
    \/ Crash

ScannerSpec == ScannerInit /\ [][ScannerNext]_vars

-----------------------------------------------------------------------------
(* Properties.                                                             *)

\* What others see of a scan is its end: no row is PENDING or RUNNING, not
\* even after a crash, a failed scan has no smells, and the counts agree with
\* the smells (scans.py:45-51, scan_service.py:53-90: one transaction).
ScansAreFinished ==
    /\ \A s \in scans : s.status \in {"COMPLETED", "FAILED"}
    /\ \A s \in scans : s.counted <=> s.id \in smells
    /\ \A s \in scans : s.status = "FAILED" => ~s.counted
    /\ smells \subseteq IdsOf(scans)

\* A project is deleted with everything that refers to it, whatever requests
\* are adding rows to it meanwhile (projects.py:193, models.py:57-76).
NoOrphans == ~project.exists => collabs = {} /\ scans = {} /\ smells = {}
=============================================================================
