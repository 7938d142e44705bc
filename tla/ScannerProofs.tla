----------------------------- MODULE ScannerProofs -----------------------------
(***************************************************************************)
(* What the requests to the scanner's backend leave in the database, for   *)
(* any users, requests and uploads. The argument: a row that is inserted   *)
(* and not committed keeps its project from being deleted, so that it is   *)
(* committed beside its project; and its id is handed out once, so that    *)
(* the smells committed with a scan are those of no other. What has been   *)
(* true at the moments of a request, and who else ran beside it, are       *)
(* histories of MCScanner; the theorems about them follow at the end, the  *)
(* last of them that whoever waits, waits for one who can go on.           *)
(***************************************************************************)
EXTENDS MCScanner, FiniteSetTheorems, TLAPS

\* A request with this state has inserted a row and not committed it.
Holds(x) == x.at \in {"pending", "running", "save", "fail"} \/ (x.op = "add" /\ x.at = "commit")

Kept == \A r \in Requests : HasInserted(r) => project.exists
FreshIds == \A r \in Requests : HasInserted(r) => req[r].id \notin IdsOf(scans)
DistinctIds == \A r, other \in Requests :
    r # other /\ HasInserted(r) /\ HasInserted(other) => req[r].id # req[other].id
\* An "add" does not come by way of these, and has got beyond the project only
\* if the collaborator to add is a user.
Early == {"idle", "scan", "project", "answered"}
Fit(x) ==
    /\ x.at \in {"row", "load", "write"} => x.op # "add"
    /\ x.op = "add" /\ x.at \notin Early => x.target # Stranger
Fits == \A r \in Requests : Fit(req[r])

ScannerInv ==
    ScannerTypeOK /\ NoOrphans /\ ScansAreFinished /\ Kept /\ FreshIds /\ DistinctIds /\ Fits

Codes == {0, 1, 200, 201, 204, 400, 403, 404, 500}

LEMMA IdleTyped == Idle \in Request
    BY DEF Idle, Request, Users, OwnerOps, MemberOps

\* The state of a request that is answered.
LEMMA AnswerState ==
    ASSUME NEW code \in Codes
    PROVE  /\ [Idle EXCEPT !.at = "answered", !.code = code] \in Request
           /\ [Idle EXCEPT !.at = "answered", !.code = code].at = "answered"
<1> DEFINE x == [Idle EXCEPT !.at = "answered", !.code = code]
           y == [Idle EXCEPT !.at = "answered"]
<1>1. y \in Request /\ y.at = "answered"
    BY IdleTyped DEF Request
<1>2. x = [y EXCEPT !.code = code]
    OBVIOUS
<1> HIDE DEF y
<1>3. [y EXCEPT !.code = code] \in Request /\ [y EXCEPT !.code = code].at = "answered"
    BY <1>1 DEF Request, Codes
<1> QED
    BY <1>2, <1>3

LEMMA InitInv == ScannerInit => ScannerInv
<1> SUFFICES ASSUME ScannerInit PROVE ScannerInv
    OBVIOUS
<1>2. ScannerTypeOK
    BY IdleTyped DEF ScannerInit, ScannerTypeOK, IdsOf, HasInserted, Idle, NotUploaded, Upload
<1>3. NoOrphans /\ ScansAreFinished
    BY DEF ScannerInit, NoOrphans, ScansAreFinished, IdsOf
<1>4. Kept /\ FreshIds /\ DistinctIds /\ Fits
    BY DEF ScannerInit, Kept, FreshIds, DistinctIds, Fits, Fit, Early, HasInserted, Idle
<1> QED
    BY <1>2, <1>3, <1>4 DEF ScannerInv

\* A request goes on, and the tables stay as they are.
LEMMA GoesOn ==
    ASSUME ScannerInv, NEW r \in Requests, NEW x \in Request,
           req' = [req EXCEPT ![r] = x], UNCHANGED tables, disk' \in [Paths -> Upload],
           Holds(x) => HasInserted(r) /\ x.id = req[r].id,
           Fit(x)
    PROVE  ScannerInv'
<1>1. req' \in [Requests -> Request] /\ req'[r] = x
      /\ \A other \in Requests : other # r => req'[other] = req[other]
    BY DEF ScannerInv, ScannerTypeOK
<1>2. ASSUME NEW other \in Requests, HasInserted(other)'
      PROVE  HasInserted(other) /\ req'[other].id = req[other].id
    BY <1>1, <1>2 DEF HasInserted, Holds
<1>3. ScannerTypeOK'
    BY <1>1, <1>2 DEF ScannerInv, ScannerTypeOK, tables, IdsOf
<1>4. NoOrphans' /\ ScansAreFinished'
    BY DEF ScannerInv, NoOrphans, ScansAreFinished, tables, IdsOf
<1>5. Kept' /\ FreshIds' /\ DistinctIds'
    BY <1>2 DEF ScannerInv, Kept, FreshIds, DistinctIds, tables, IdsOf
<1>6. Fits'
    BY <1>1 DEF ScannerInv, Fits
<1> QED
    BY <1>3, <1>4, <1>5, <1>6 DEF ScannerInv

\* A request that is answered holds nothing any more.
LEMMA IsAnswered ==
    ASSUME ScannerInv, NEW r \in Requests, NEW code \in Codes, Answer(r, code)
    PROVE  /\ req' \in [Requests -> Request]
           /\ \A other \in Requests : HasInserted(other)' =>
                 other # r /\ HasInserted(other) /\ req'[other] = req[other]
           /\ Fits'
<1> DEFINE x == [Idle EXCEPT !.at = "answered", !.code = code]
<1>1. x \in Request /\ x.at = "answered"
    BY AnswerState
<1>2. req' = [req EXCEPT ![r] = x]
    BY DEF Answer
<1> HIDE DEF x
<1>3. req' \in [Requests -> Request] /\ req'[r] = x
      /\ \A other \in Requests : other # r => req'[other] = req[other]
    BY <1>1, <1>2 DEF ScannerInv, ScannerTypeOK
<1>4. Fits'
    BY <1>1, <1>3 DEF ScannerInv, Fits, Fit, Early
<1> QED
    BY <1>1, <1>3, <1>4 DEF HasInserted

\* ... and if nothing else changes but the disk, all is well.
LEMMA AnswersOnly ==
    ASSUME ScannerInv, NEW r \in Requests, NEW code \in Codes, Answer(r, code),
           UNCHANGED tables, disk' \in [Paths -> Upload]
    PROVE  ScannerInv'
<1> DEFINE x == [Idle EXCEPT !.at = "answered", !.code = code]
<1>1. x \in Request /\ x.at = "answered"
    BY AnswerState
<1>2. req' = [req EXCEPT ![r] = x]
    BY DEF Answer
<1> HIDE DEF x
<1>3. ~Holds(x) /\ Fit(x)
    BY <1>1 DEF Holds, Fit, Early
<1> QED
    BY <1>1, <1>2, <1>3, GoesOn

\* The step of a request that changes its place only.
LEMMA ChangesPlace ==
    ASSUME ScannerInv, NEW r \in Requests,
           NEW step \in {"project", "collab", "row", "load", "write", "query", "insert", "commit",
                         "running", "fail"},
           GoTo(r, step), UNCHANGED tables, disk' \in [Paths -> Upload],
           step \in {"running", "fail"} => HasInserted(r),
           step # "project" => req[r].at \notin Early,
           step \in {"row", "load", "write", "commit"} => req[r].op # "add"
    PROVE  ScannerInv'
<1> DEFINE x == [req[r] EXCEPT !.at = step]
<1>1. x \in Request /\ x.at = step /\ x.op = req[r].op /\ x.id = req[r].id
      /\ x.target = req[r].target
    BY DEF ScannerInv, ScannerTypeOK, Request
<1>2. req' = [req EXCEPT ![r] = x]
    BY DEF GoTo
<1> HIDE DEF x
<1>3. Holds(x) => HasInserted(r)
    BY <1>1 DEF Holds
<1>4. Fit(x)
    BY <1>1 DEF Fit, ScannerInv, Fits, Early
<1> QED
    BY <1>1, <1>2, <1>3, <1>4, GoesOn

LEMMA FirstStepFits ==
    ASSUME NEW op
    PROVE  /\ FirstStep(op) \in {"collab", "row", "load", "write", "commit", "insert", "query"}
           /\ FirstStep(op) \in {"row", "load", "write", "commit"} => op # "add"
    BY DEF FirstStep

-----------------------------------------------------------------------------
(* A request arrives and enters.                                           *)

LEMMA ArriveStep ==
    ASSUME ScannerInv, NEW r \in Requests, NEW op \in OwnerOps \cup MemberOps, NEW user \in Users,
           Arrive(r, op, user)
    PROVE  ScannerInv'
<1>1. PICK target \in Users \cup {Stranger}, id \in Nat :
          req' = [req EXCEPT ![r] = [Idle EXCEPT
                     !.op = op, !.user = user, !.target = target, !.id = id,
                     !.at = IF op = "get_scan" THEN "scan" ELSE "project"]]
  <2>1. 1 .. next_id \subseteq Nat /\ {0} \subseteq Nat
      BY DEF ScannerInv, ScannerTypeOK
  <2> QED
      BY <2>1 DEF Arrive
<1> DEFINE place == IF op = "get_scan" THEN "scan" ELSE "project"
           x1 == [Idle EXCEPT !.op = op]
           x2 == [x1 EXCEPT !.user = user]
           x3 == [x2 EXCEPT !.target = target]
           x4 == [x3 EXCEPT !.id = id]
           x == [x4 EXCEPT !.at = place]
<1>2. req' = [req EXCEPT ![r] = x]
    BY <1>1
<1>3. place \in {"scan", "project"}
    OBVIOUS
<1> HIDE DEF place
<1>4. x1 \in Request
    BY IdleTyped DEF Request
<1> HIDE DEF x1
<1>5. x2 \in Request
    BY <1>4 DEF Request
<1> HIDE DEF x2
<1>6. x3 \in Request
    BY <1>5 DEF Request
<1> HIDE DEF x3
<1>7. x4 \in Request
    BY <1>6 DEF Request
<1> HIDE DEF x4
<1>8. x \in Request /\ x.at = place
    BY <1>3, <1>7 DEF Request
<1> HIDE DEF x
<1>9. ~Holds(x) /\ Fit(x)
    BY <1>3, <1>8 DEF Holds, Fit, Early
<1>10. UNCHANGED tables /\ disk' \in [Paths -> Upload]
    BY DEF Arrive, ScannerInv, ScannerTypeOK
<1> QED
    BY <1>2, <1>8, <1>9, <1>10, GoesOn

LEMMA EntersStep ==
    ASSUME ScannerInv, NEW r \in Requests, Enters(r)
    PROVE  ScannerInv'
<1>0. disk \in [Paths -> Upload] /\ req[r] \in Request
      /\ project.path \in Paths \cup {NoPath} /\ {0, 400, 403, 404, 500} \subseteq Codes
    BY DEF ScannerInv, ScannerTypeOK, Codes
<1>1. CASE SelectScan(r)
    BY <1>0, <1>1, AnswersOnly, ChangesPlace DEF SelectScan, Early
<1>2. CASE ProjectMissing(r)
    BY <1>0, <1>2, AnswersOnly DEF ProjectMissing
<1>3. ASSUME NEW step \in {"collab", "row", "load", "write", "commit", "insert", "query"},
             step \in {"row", "load", "write", "commit"} => req[r].op # "add",
             req[r].op = "add" => req[r].target # Stranger,
             req' = [req EXCEPT ![r] = [@ EXCEPT !.at = step, !.path = project.path]],
             UNCHANGED <<tables, disk>>
      PROVE  ScannerInv'
  <2> DEFINE y == [req[r] EXCEPT !.at = step]
             x == [y EXCEPT !.path = project.path]
  <2>1. y \in Request /\ y.at = step /\ y.op = req[r].op /\ y.target = req[r].target
      BY <1>0 DEF Request
  <2>2. req' = [req EXCEPT ![r] = x]
      BY <1>3
  <2> HIDE DEF y
  <2>3. x \in Request /\ x.at = step /\ x.op = req[r].op /\ x.target = req[r].target
      BY <1>0, <2>1 DEF Request
  <2> HIDE DEF x
  <2>4. ~Holds(x) /\ Fit(x)
      BY <1>3, <2>3 DEF Holds, Fit
  <2> QED
      BY <1>0, <1>3, <2>2, <2>3, <2>4, GoesOn
<1>4. CASE OwnerEnters(r)
  <2> DEFINE step == FirstStep(req[r].op)
  <2>1. step \in {"collab", "row", "load", "write", "commit", "insert", "query"}
        /\ (step \in {"row", "load", "write", "commit"} => req[r].op # "add")
      BY FirstStepFits
  <2>2. \/ \E code \in {400, 404} : Answer(r, code)
        \/ /\ req[r].op = "add" => req[r].target # Stranger
           /\ req' = [req EXCEPT ![r] = [@ EXCEPT !.at = step, !.path = project.path]]
      BY <1>4 DEF OwnerEnters
  <2>3. UNCHANGED <<tables, disk>>
      BY <1>4 DEF OwnerEnters
  <2> HIDE DEF step
  <2>4. CASE /\ req[r].op = "add" => req[r].target # Stranger
             /\ req' = [req EXCEPT ![r] = [@ EXCEPT !.at = step, !.path = project.path]]
      BY <1>3, <2>1, <2>3, <2>4
  <2> QED
      BY <1>0, <2>2, <2>3, <2>4, AnswersOnly
<1>5. CASE OtherKnocks(r)
  <2>1. \/ Answer(r, 403)
        \/ /\ req[r].op # "add"
           /\ req' = [req EXCEPT ![r] = [@ EXCEPT !.at = "collab", !.path = project.path]]
      BY <1>5 DEF OtherKnocks, OwnerOps
  <2> QED
      BY <1>0, <1>3, <1>5, <2>1, AnswersOnly DEF OtherKnocks
<1>6. CASE CheckToAdd(r)
  <2> DEFINE n == Cardinality(RowsOf(req[r].target))
  <2>1. GoTo(r, "insert") \/ \E code \in {400, 500} : Answer(r, code)
      BY <1>6 DEF CheckToAdd
  <2> QED
      BY <1>0, <1>6, <2>1, AnswersOnly, ChangesPlace DEF CheckToAdd, Early
<1>7. CASE CheckToEnter(r)
  <2>1. req[r].op # "add"
        /\ (GoTo(r, FirstStep(req[r].op)) \/ \E code \in {403, 500} : Answer(r, code))
      BY <1>7 DEF CheckToEnter
  <2> QED
      BY <1>0, <1>7, <2>1, AnswersOnly, ChangesPlace, FirstStepFits DEF CheckToEnter, Early
<1> QED
    BY <1>1, <1>2, <1>4, <1>5, <1>6, <1>7 DEF Enters

-----------------------------------------------------------------------------
(* A request works.                                                        *)

\* The next id stays above those in use.
LEMMA NextId ==
    ASSUME ScannerInv, next_id' = next_id + 1, UNCHANGED <<collabs, scans>>
    PROVE  /\ next_id' \in Nat \ {0}
           /\ \A id \in IdsOf(collabs \cup scans)' : id < next_id'
<1> DEFINE rows == IdsOf(collabs \cup scans)
<1>1. rows \subseteq Nat /\ \A id \in rows : id < next_id
    BY DEF ScannerInv, ScannerTypeOK, IdsOf, Collab, Scan
<1>2. rows' = rows
    BY DEF IdsOf
<1>3. next_id \in Nat \ {0}
    BY DEF ScannerInv, ScannerTypeOK
<1> HIDE DEF rows
<1>4. \A id \in rows' : id < next_id'
    BY <1>1, <1>2, <1>3
<1> QED
    BY <1>3, <1>4 DEF rows

\* An insert takes an id that no other row has, and keeps the project.
LEMMA InsertStep ==
    ASSUME ScannerInv, NEW r \in Requests, Insert(r), project.exists
    PROVE  ScannerInv'
<1> DEFINE place == IF req[r].op = "add" THEN "commit" ELSE "pending"
           y == [req[r] EXCEPT !.id = next_id]
           x == [y EXCEPT !.at = place]
<1>1. req[r] \in Request /\ next_id \in Nat \ {0}
    BY DEF ScannerInv, ScannerTypeOK
<1>2. y \in Request /\ y.id = next_id /\ y.op = req[r].op /\ y.target = req[r].target
    BY <1>1 DEF Request
<1>3. req' = [req EXCEPT ![r] = x] /\ next_id' = next_id + 1
      /\ UNCHANGED <<project, collabs, scans, smells, disk>>
    BY DEF Insert
<1>4. place \in {"commit", "pending"}
    OBVIOUS
<1> HIDE DEF place, y
<1>5. x \in Request /\ x.id = next_id /\ x.at \in {"commit", "pending"}
      /\ x.op = req[r].op /\ x.target = req[r].target
    BY <1>2, <1>4 DEF Request
<1> HIDE DEF x
<1>6. req' \in [Requests -> Request] /\ req'[r] = x
      /\ \A other \in Requests : other # r => req'[other] = req[other]
    BY <1>3, <1>5 DEF ScannerInv, ScannerTypeOK
<1>7. ASSUME NEW other \in Requests, other # r, HasInserted(other)'
      PROVE  HasInserted(other) /\ req'[other].id = req[other].id /\ req[other].id \in 1 .. next_id - 1
    BY <1>6, <1>7 DEF HasInserted, ScannerInv, ScannerTypeOK
<1>8. \A id \in IdsOf(collabs \cup scans) : id < next_id
    BY DEF ScannerInv, ScannerTypeOK
<1>10. next_id' \in Nat \ {0} /\ \A id \in IdsOf(collabs \cup scans)' : id < next_id'
    BY <1>3, NextId
<1>11. \A other \in Requests : HasInserted(other)' => req'[other].id \in 1 .. next_id' - 1
    BY <1>1, <1>3, <1>5, <1>6, <1>7
<1>12. ScannerTypeOK'
    BY <1>3, <1>6, <1>10, <1>11 DEF ScannerInv, ScannerTypeOK
<1>13. NoOrphans' /\ ScansAreFinished' /\ Kept'
    BY <1>3 DEF ScannerInv, NoOrphans, ScansAreFinished, Kept, IdsOf
<1>14. FreshIds'
  <2>1. next_id \notin IdsOf(scans)
      BY <1>1, <1>8 DEF IdsOf
  <2> QED
      BY <1>3, <1>5, <1>6, <1>7, <2>1 DEF ScannerInv, FreshIds, IdsOf
<1>15. DistinctIds'
  <2>1. ASSUME NEW one \in Requests, NEW other \in Requests, one # other,
               HasInserted(one)', HasInserted(other)'
        PROVE  req'[one].id # req'[other].id
    <3>1. CASE one = r
        BY <1>1, <1>5, <1>6, <1>7, <2>1, <3>1
    <3>2. CASE other = r
        BY <1>1, <1>5, <1>6, <1>7, <2>1, <3>2
    <3>3. CASE one # r /\ other # r
        BY <1>7, <2>1, <3>3 DEF ScannerInv, DistinctIds
    <3> QED
        BY <3>1, <3>2, <3>3
  <2> QED
      BY <2>1 DEF DistinctIds
<1>16. Fits'
  <2>1. req[r].op = "add" => req[r].target # Stranger
      BY DEF ScannerInv, Fits, Fit, Early, Insert
  <2> QED
      BY <1>5, <1>6, <2>1 DEF ScannerInv, Fits, Fit
<1> QED
    BY <1>12, <1>13, <1>14, <1>15, <1>16 DEF ScannerInv

\* An insert that fails has used up an id.
LEMMA InsertFails ==
    ASSUME ScannerInv, NEW r \in Requests, Insert(r), ~project.exists
    PROVE  ScannerInv'
<1>1. Answer(r, 500) /\ UNCHANGED <<project, collabs, scans, smells, disk>> /\ next_id' = next_id + 1
    BY DEF Insert
<1>2. /\ req' \in [Requests -> Request] /\ Fits'
      /\ \A other \in Requests : HasInserted(other)' =>
            other # r /\ HasInserted(other) /\ req'[other] = req[other]
    BY <1>1, IsAnswered DEF Codes
<1>3. ScannerTypeOK'
  <2>1. next_id' \in Nat \ {0} /\ \A id \in IdsOf(collabs \cup scans)' : id < next_id'
      BY <1>1, NextId
  <2>2. ASSUME NEW other \in Requests, HasInserted(other)' PROVE req'[other].id \in 1 .. next_id' - 1
    <3>1. req'[other].id \in 1 .. next_id - 1 /\ next_id \in Nat
        BY <1>2, <2>2 DEF ScannerInv, ScannerTypeOK
    <3> QED
        BY <1>1, <3>1
  <2> QED
      BY <1>1, <1>2, <2>1, <2>2 DEF ScannerInv, ScannerTypeOK
<1>4. NoOrphans' /\ ScansAreFinished'
    BY <1>1 DEF ScannerInv, NoOrphans, ScansAreFinished, IdsOf
<1>5. Kept' /\ FreshIds' /\ DistinctIds'
    BY <1>1, <1>2 DEF ScannerInv, Kept, FreshIds, DistinctIds, IdsOf
<1> QED
    BY <1>2, <1>3, <1>4, <1>5 DEF ScannerInv

\* The end of an analysis.
LEMMA AnalysedStep ==
    ASSUME ScannerInv, NEW r \in Requests, NEW what \in {"none", "nothing", "part", "whole"},
           req[r].at = "running", Analysed(r, what), UNCHANGED tables, disk' \in [Paths -> Upload]
    PROVE  ScannerInv'
<1> DEFINE y == [req[r] EXCEPT !.at = "save"]
           x == [y EXCEPT !.analysed = what]
<1>1. req[r] \in Request /\ HasInserted(r)
    BY DEF ScannerInv, ScannerTypeOK, HasInserted
<1>2. y \in Request /\ y.at = "save" /\ y.id = req[r].id /\ y.op = req[r].op
      /\ y.target = req[r].target
    BY <1>1 DEF Request
<1>3. req' = [req EXCEPT ![r] = x]
    BY DEF Analysed
<1> HIDE DEF y
<1>4. x \in Request /\ x.at = "save" /\ x.id = req[r].id /\ x.op = req[r].op
      /\ x.target = req[r].target
    BY <1>2 DEF Request
<1> HIDE DEF x
<1>5. Fit(x)
    BY <1>4 DEF ScannerInv, Fits, Fit, Early
<1> QED
    BY <1>1, <1>3, <1>4, <1>5, GoesOn

LEMMA AnalyseStep ==
    ASSUME ScannerInv, NEW r \in Requests, Analyse(r)
    PROVE  ScannerInv'
<1>1. req[r].at = "running" /\ HasInserted(r) /\ UNCHANGED tables
    BY DEF Analyse, ScanClone, ScanOther, ScanExtracted, ScanArchive, Extracting, HasInserted
<1>2. disk \in [Paths -> Upload] /\ req[r].path \in Paths \cup {NoPath}
    BY DEF ScannerInv, ScannerTypeOK, Request
<1>3. ASSUME NEW extent \in {"part", "whole"}, ExtractTo(r, extent) PROVE disk' \in [Paths -> Upload]
    BY <1>2, <1>3 DEF ExtractTo, Upload
<1>4. disk' \in [Paths -> Upload]
    BY <1>2, <1>3 DEF Analyse, ScanClone, ScanOther, ScanExtracted, ScanArchive
<1>5. CASE Raises(r)
    BY <1>1, <1>4, <1>5, ChangesPlace DEF Raises, Early
<1>6. CASE ScanClone(r)
    BY <1>1, <1>4, <1>5, <1>6, AnalysedStep DEF ScanClone
<1>7. CASE ScanOther(r)
    BY <1>1, <1>4, <1>7, AnalysedStep DEF ScanOther
<1>8. CASE ScanExtracted(r)
  <2>1. Snapshot(r).extracted \in {"part", "whole"}
      BY <1>2, <1>8 DEF ScanExtracted, Snapshot, NotUploaded, Upload
  <2>2. Raises(r) \/ Analysed(r, Snapshot(r).extracted)
      BY <1>8 DEF ScanExtracted
  <2> QED
      BY <1>1, <1>4, <1>5, <2>1, <2>2, AnalysedStep
<1>9. CASE ScanArchive(r)
  <2>1. Raises(r) \/ Analysed(r, "whole")
      BY <1>9 DEF ScanArchive
  <2> QED
      BY <1>1, <1>4, <1>5, <2>1, AnalysedStep
<1> QED
    BY <1>6, <1>7, <1>8, <1>9 DEF Analyse

LEMMA WorksStep ==
    ASSUME ScannerInv, NEW r \in Requests, Works(r)
    PROVE  ScannerInv'
<1>0. disk \in [Paths -> Upload] /\ req[r] \in Request /\ {200, 400, 404, 500} \subseteq Codes
    BY DEF ScannerInv, ScannerTypeOK, Codes
<1>1. CASE Query(r)
    BY <1>0, <1>1, AnswersOnly DEF Query
<1>2. CASE Insert(r) /\ ~project.exists
    BY <1>2, InsertFails
<1>3. CASE SelectRow(r)
  <2>1. req[r].op # "add"
      BY <1>3 DEF SelectRow, ScannerInv, Fits, Fit
  <2> QED
      BY <1>0, <1>3, <2>1, AnswersOnly, ChangesPlace DEF SelectRow, Early
<1>4. CASE LoadChildren(r)
  <2> DEFINE rows == IdsOf(collabs \cup scans)
             y == [req[r] EXCEPT !.at = "commit"]
             x == [y EXCEPT !.loaded = rows]
  <2>1. req[r].op # "add" /\ UNCHANGED <<tables, disk>> /\ req' = [req EXCEPT ![r] = x]
      BY <1>4 DEF LoadChildren, ScannerInv, Fits, Fit
  <2>2. rows \in SUBSET Nat
      BY DEF ScannerInv, ScannerTypeOK, IdsOf, Collab, Scan
  <2> HIDE DEF rows
  <2>3. y \in Request /\ y.at = "commit" /\ y.op = req[r].op
      BY <1>0 DEF Request
  <2> HIDE DEF y
  <2>4. x \in Request /\ x.at = "commit" /\ x.op = req[r].op
      BY <2>2, <2>3 DEF Request
  <2> HIDE DEF x
  <2>5. ~Holds(x) /\ Fit(x)
      BY <2>1, <2>4 DEF Holds, Fit
  <2> QED
      BY <1>0, <2>1, <2>4, <2>5, GoesOn
<1>5. CASE WriteUpload(r)
  <2>1. CASE Answer(r, 400) /\ UNCHANGED <<tables, disk>>
      BY <1>0, <2>1, AnswersOnly
  <2>2. ASSUME NEW p \in Paths, NEW kind \in Kinds, UNCHANGED tables,
               disk' = [disk EXCEPT ![p] = [kind |-> kind, file |-> TRUE, extracted |-> "no"]],
               req' = [req EXCEPT ![r] = [@ EXCEPT !.at = "commit", !.path = p]]
        PROVE  ScannerInv'
    <3> DEFINE y == [req[r] EXCEPT !.at = "commit"]
               x == [y EXCEPT !.path = p]
    <3>1. req[r].op # "add" /\ req' = [req EXCEPT ![r] = x]
        BY <1>5, <2>2 DEF WriteUpload, ScannerInv, Fits, Fit
    <3>2. disk' \in [Paths -> Upload]
        BY <1>0, <2>2 DEF Upload, Kinds
    <3>3. y \in Request /\ y.at = "commit" /\ y.op = req[r].op
        BY <1>0 DEF Request
    <3> HIDE DEF y
    <3>4. x \in Request /\ x.at = "commit" /\ x.op = req[r].op
        BY <3>3 DEF Request
    <3> HIDE DEF x
    <3>5. ~Holds(x) /\ Fit(x)
        BY <3>1, <3>4 DEF Holds, Fit
    <3> QED
        BY <2>2, <3>1, <3>2, <3>4, <3>5, GoesOn
  <2> QED
      BY <1>5, <2>1, <2>2 DEF WriteUpload
<1>6. CASE StartScan(r)
    BY <1>0, <1>6, ChangesPlace DEF StartScan, HasInserted, Early
<1> QED
    BY <1>1, <1>2, <1>3, <1>4, <1>5, <1>6, InsertStep, AnalyseStep DEF Works

-----------------------------------------------------------------------------
(* A request commits and is answered.                                      *)

\* What a commit has to be careful about: the rows it writes are typed, those
\* of a scan have the id its request holds, and rows held keep their project.
CarefulCommit(r, code) ==
    /\ Answer(r, code) /\ UNCHANGED <<next_id, disk>>
    /\ project' \in [exists : BOOLEAN, path : Paths \cup {NoPath}]
    /\ \A other \in Requests : other # r /\ HasInserted(other) => project'.exists
    /\ collabs' \subseteq Collab /\ scans' \subseteq Scan /\ smells' \subseteq Nat
    /\ \A id \in IdsOf(collabs \cup scans)' :
          id \in IdsOf(collabs \cup scans) \/ (HasInserted(r) /\ id = req[r].id)
    /\ \A id \in IdsOf(scans)' : id \in IdsOf(scans) \/ (HasInserted(r) /\ id = req[r].id)
    /\ NoOrphans' /\ ScansAreFinished'

LEMMA Committed ==
    ASSUME ScannerInv, NEW r \in Requests, NEW code \in Codes, CarefulCommit(r, code)
    PROVE  ScannerInv'
<1>c. /\ Answer(r, code) /\ UNCHANGED <<next_id, disk>>
      /\ project' \in [exists : BOOLEAN, path : Paths \cup {NoPath}]
      /\ \A other \in Requests : other # r /\ HasInserted(other) => project'.exists
      /\ collabs' \subseteq Collab /\ scans' \subseteq Scan /\ smells' \subseteq Nat
      /\ \A id \in IdsOf(collabs \cup scans)' :
            id \in IdsOf(collabs \cup scans) \/ (HasInserted(r) /\ id = req[r].id)
      /\ \A id \in IdsOf(scans)' : id \in IdsOf(scans) \/ (HasInserted(r) /\ id = req[r].id)
      /\ NoOrphans' /\ ScansAreFinished'
    BY DEF CarefulCommit
<1>1. /\ req' \in [Requests -> Request] /\ Fits'
      /\ \A other \in Requests : HasInserted(other)' =>
            other # r /\ HasInserted(other) /\ req'[other] = req[other]
    BY <1>c, IsAnswered
<1>2. next_id \in Nat \ {0} /\ (HasInserted(r) => req[r].id \in 1 .. next_id - 1)
    BY DEF ScannerInv, ScannerTypeOK
<1>3. ScannerTypeOK'
  <2>1. \A id \in IdsOf(collabs \cup scans)' : id < next_id'
    <3> DEFINE rows == IdsOf(collabs \cup scans)
    <3>1. /\ \A id \in rows' : id \in rows \/ (HasInserted(r) /\ id = req[r].id)
          /\ \A id \in rows : id < next_id
        BY <1>c DEF ScannerInv, ScannerTypeOK
    <3>2. next_id' = next_id
        BY <1>c
    <3> HIDE DEF rows
    <3>3. \A id \in rows' : id < next_id'
        BY <1>2, <3>1, <3>2
    <3> QED
        BY <3>3 DEF rows
  <2>2. \A other \in Requests : HasInserted(other)' => req'[other].id \in 1 .. next_id' - 1
      BY <1>1, <1>c DEF ScannerInv, ScannerTypeOK
  <2>3. next_id' \in Nat \ {0} /\ disk' \in [Paths -> Upload]
      BY <1>c DEF ScannerInv, ScannerTypeOK
  <2> QED
      BY <1>1, <1>c, <2>1, <2>2, <2>3 DEF ScannerTypeOK
<1>4. Kept'
    BY <1>1, <1>c DEF Kept
<1>5. FreshIds'
  <2>1. ASSUME NEW other \in Requests, HasInserted(other)' PROVE req'[other].id \notin IdsOf(scans)'
      BY <1>1, <1>c, <2>1 DEF ScannerInv, FreshIds, DistinctIds
  <2> QED
      BY <2>1 DEF FreshIds
<1>6. DistinctIds'
    BY <1>1 DEF ScannerInv, DistinctIds
<1> QED
    BY <1>1, <1>c, <1>3, <1>4, <1>5, <1>6 DEF ScannerInv

\* The end of a scan: its row and, if it counts some, its smells.
LEMMA ScanCommitted ==
    ASSUME ScannerInv, NEW r \in Requests, req[r].at \in {"save", "fail"},
           NEW status \in {"COMPLETED", "FAILED"}, NEW found \in BOOLEAN,
           status = "FAILED" => ~found,
           Answer(r, 201), UNCHANGED <<project, collabs, next_id, disk>>,
           scans' = scans \cup {Row(r, status, found)},
           smells' = IF found THEN smells \cup {req[r].id} ELSE smells
    PROVE  ScannerInv'
<1> DEFINE row == Row(r, status, found)
<1>1. req[r] \in Request /\ HasInserted(r) /\ req[r].id \in Nat \ {0}
  <2>1. HasInserted(r)
      BY DEF HasInserted
  <2> QED
      BY <2>1 DEF ScannerInv, ScannerTypeOK
<1>2. row \in Scan /\ row.id = req[r].id /\ row.status = status /\ row.counted = found
    BY <1>1 DEF Row, Request, Scan
<1> HIDE DEF row
<1>3. project.exists /\ req[r].id \notin IdsOf(scans)
    BY <1>1 DEF ScannerInv, Kept, FreshIds
<1>4. IdsOf(scans)' = IdsOf(scans) \cup {req[r].id}
    BY <1>2 DEF IdsOf, row
<1>5. \A id \in IdsOf(collabs \cup scans)' : id \in IdsOf(collabs \cup scans) \/ id = req[r].id
    BY <1>2 DEF IdsOf, row
<1>6. ScansAreFinished'
  <2>1. scans' = scans \cup {row}
      BY DEF row
  <2>2. \A s \in scans' : s.status \in {"COMPLETED", "FAILED"} /\ (s.status = "FAILED" => ~s.counted)
      BY <1>2, <2>1 DEF ScannerInv, ScansAreFinished
  <2>3. ASSUME NEW s \in scans' PROVE s.counted <=> s.id \in smells'
    <3>1. CASE s = row
        BY <1>2, <1>3, <3>1 DEF ScannerInv, ScansAreFinished
    <3>2. CASE s \in scans
        BY <1>3, <3>2 DEF ScannerInv, ScansAreFinished, IdsOf
    <3> QED
        BY <2>1, <3>1, <3>2
  <2>4. smells' \subseteq IdsOf(scans)'
      BY <1>4 DEF ScannerInv, ScansAreFinished
  <2> QED
      BY <2>2, <2>3, <2>4 DEF ScansAreFinished
<1>7. NoOrphans'
    BY <1>3 DEF NoOrphans
<1>8. scans' \subseteq Scan /\ smells' \subseteq Nat /\ collabs' \subseteq Collab
      /\ project' \in [exists : BOOLEAN, path : Paths \cup {NoPath}]
    BY <1>1, <1>2 DEF ScannerInv, ScannerTypeOK, row
<1>9. 201 \in Codes /\ project'.exists
    BY <1>3 DEF Codes
<1>10. CarefulCommit(r, 201)
    BY <1>1, <1>4, <1>5, <1>6, <1>7, <1>8, <1>9 DEF CarefulCommit
<1> QED
    BY <1>9, <1>10, Committed

LEMMA CommitsStep ==
    ASSUME ScannerInv, NEW r \in Requests, Commits(r)
    PROVE  ScannerInv'
<1>0. /\ disk \in [Paths -> Upload] /\ req[r] \in Request /\ {200, 201, 204, 500} \subseteq Codes
      /\ project \in [exists : BOOLEAN, path : Paths \cup {NoPath}]
      /\ collabs \subseteq Collab /\ scans \subseteq Scan /\ smells \subseteq Nat
    BY DEF ScannerInv, ScannerTypeOK, Codes
<1>k. \A other \in Requests : HasInserted(other) => project.exists
    BY DEF ScannerInv, Kept
<1>1. CASE CommitAdd(r)
  <2>1. HasInserted(r) /\ project.exists /\ req[r].id \in Nat \ {0} /\ req[r].target \in Users
    <3>1. HasInserted(r)
        BY <1>1 DEF CommitAdd, HasInserted
    <3>2. req[r].target \in Users
        BY <1>0, <1>1 DEF CommitAdd, ScannerInv, Fits, Fit, Early, Request
    <3> QED
        BY <3>1, <3>2, <1>k DEF ScannerInv, ScannerTypeOK
  <2> DEFINE row == [id |-> req[r].id, user |-> req[r].target]
  <2>2. row \in Collab /\ row.id = req[r].id
      BY <2>1 DEF Collab
  <2>3. collabs' = collabs \cup {row} /\ Answer(r, 201)
        /\ UNCHANGED <<project, scans, smells, next_id, disk>>
      BY <1>1 DEF CommitAdd
  <2> HIDE DEF row
  <2>4. \A id \in IdsOf(collabs \cup scans)' : id \in IdsOf(collabs \cup scans) \/ id = req[r].id
      BY <2>2, <2>3 DEF IdsOf
  <2>5. NoOrphans' /\ ScansAreFinished'
      BY <2>1, <2>3 DEF ScannerInv, NoOrphans, ScansAreFinished, IdsOf
  <2>6. IdsOf(scans)' = IdsOf(scans)
      BY <2>3 DEF IdsOf
  <2>7. collabs' \subseteq Collab /\ scans' \subseteq Scan /\ smells' \subseteq Nat
        /\ project' \in [exists : BOOLEAN, path : Paths \cup {NoPath}]
        /\ \A other \in Requests : other # r /\ HasInserted(other) => project'.exists
      BY <1>0, <1>k, <2>2, <2>3
  <2>8. CarefulCommit(r, 201)
      BY <2>1, <2>3, <2>4, <2>5, <2>6, <2>7 DEF CarefulCommit
  <2> QED
      BY <1>0, <2>8, Committed
<1>2. CASE CommitRemove(r)
  <2>1. collabs' \subseteq collabs /\ Answer(r, 204) /\ UNCHANGED <<project, scans, smells, next_id, disk>>
      BY <1>2 DEF CommitRemove
  <2>2. IdsOf(collabs \cup scans)' \subseteq IdsOf(collabs \cup scans) /\ IdsOf(scans)' = IdsOf(scans)
      BY <2>1 DEF IdsOf
  <2>3. NoOrphans' /\ ScansAreFinished'
      BY <2>1 DEF ScannerInv, NoOrphans, ScansAreFinished, IdsOf
  <2>4. CarefulCommit(r, 204)
      BY <1>0, <1>k, <2>1, <2>2, <2>3 DEF CarefulCommit
  <2> QED
      BY <1>0, <2>4, Committed
<1>3. CASE CommitDelete(r)
  <2>1. CASE Answer(r, 500) /\ UNCHANGED <<tables, disk>>
      BY <1>0, <2>1, AnswersOnly
  <2>2. CASE /\ project' = [project EXCEPT !.exists = FALSE]
             /\ collabs' = {} /\ scans' = {} /\ smells' = {}
             /\ Answer(r, 204)
    <3>1. \A other \in Requests : ~HasInserted(other)
        BY <1>3 DEF CommitDelete
    <3>2. IdsOf(collabs \cup scans)' = {} /\ IdsOf(scans)' = {}
        BY <2>2 DEF IdsOf
    <3>3. NoOrphans' /\ ScansAreFinished'
        BY <2>2 DEF NoOrphans, ScansAreFinished
    <3>4. project' \in [exists : BOOLEAN, path : Paths \cup {NoPath}]
        BY <1>0, <2>2
    <3>5. UNCHANGED <<next_id, disk>>
        BY <1>3 DEF CommitDelete
    <3>6. CarefulCommit(r, 204)
        BY <2>2, <3>1, <3>2, <3>3, <3>4, <3>5 DEF CarefulCommit
    <3> QED
        BY <1>0, <3>6, Committed
  <2> QED
      BY <1>3, <2>1, <2>2 DEF CommitDelete, tables
<1>4. CASE CommitUpdate(r)
  <2>1. CASE Answer(r, 500) /\ UNCHANGED <<tables, disk>>
      BY <1>0, <2>1, AnswersOnly
  <2>2. CASE project.exists /\ Answer(r, 200)
    <3>1. project' \in [exists : BOOLEAN, path : Paths \cup {NoPath}] /\ project'.exists
          /\ UNCHANGED <<collabs, scans, smells, next_id, disk>>
        BY <1>0, <1>4, <2>2 DEF CommitUpdate, Request
    <3>2. NoOrphans' /\ ScansAreFinished'
        BY <3>1 DEF ScannerInv, NoOrphans, ScansAreFinished, IdsOf
    <3>3. IdsOf(collabs \cup scans)' = IdsOf(collabs \cup scans) /\ IdsOf(scans)' = IdsOf(scans)
        BY <3>1 DEF IdsOf
    <3>4. CarefulCommit(r, 200)
        BY <1>0, <2>2, <3>1, <3>2, <3>3 DEF CarefulCommit
    <3> QED
        BY <1>0, <3>4, Committed
  <2> QED
      BY <1>4, <2>1, <2>2 DEF CommitUpdate, tables
<1>5. CASE SaveScan(r)
  <2>1. PICK found \in BOOLEAN :
           /\ scans' = scans \cup {Row(r, "COMPLETED", found)}
           /\ smells' = IF found THEN smells \cup {req[r].id} ELSE smells
      BY <1>5 DEF SaveScan
  <2>2. req[r].at \in {"save", "fail"} /\ Answer(r, 201) /\ UNCHANGED <<project, collabs, next_id, disk>>
      BY <1>5 DEF SaveScan
  <2> QED
      BY <2>1, <2>2, ScanCommitted
<1>6. CASE FlushFails(r)
    BY <1>0, <1>6, AnswersOnly DEF FlushFails
<1>7. CASE FailScan(r)
    BY <1>7, ScanCommitted DEF FailScan
<1> QED
    BY <1>1, <1>2, <1>3, <1>4, <1>5, <1>6, <1>7 DEF Commits

-----------------------------------------------------------------------------
(* The process is killed, and the worker cleans up.                        *)

\* A killed process holds nothing any more.
LEMMA LoseStep ==
    ASSUME ScannerInv, Lose, UNCHANGED tables, disk' \in [Paths -> Upload]
    PROVE  ScannerInv'
<1> DEFINE lost == [Idle EXCEPT !.at = "answered", !.code = 1]
<1>1. lost \in Request /\ lost.at = "answered"
    BY AnswerState DEF Codes
<1>2. req' = [r \in Requests |-> IF Active(r) THEN lost ELSE req[r]]
    BY DEF Lose
<1> HIDE DEF lost
<1>3. req' \in [Requests -> Request]
    BY <1>1, <1>2 DEF ScannerInv, ScannerTypeOK
<1>4. \A r \in Requests : req'[r].at \in {"idle", "answered"}
    BY <1>1, <1>2 DEF Active
<1>5. \A r \in Requests : ~HasInserted(r)'
    BY <1>4 DEF HasInserted
<1>6. ScannerTypeOK'
    BY <1>3, <1>5 DEF ScannerInv, ScannerTypeOK, tables, IdsOf
<1>7. NoOrphans' /\ ScansAreFinished'
    BY DEF ScannerInv, NoOrphans, ScansAreFinished, tables, IdsOf
<1>8. Kept' /\ FreshIds' /\ DistinctIds'
    BY <1>5 DEF Kept, FreshIds, DistinctIds
<1>9. Fits'
    BY <1>4 DEF Fits, Fit, Early
<1> QED
    BY <1>6, <1>7, <1>8, <1>9 DEF ScannerInv

LEMMA CrashExtractingStep ==
    ASSUME ScannerInv, NEW r \in Requests, CrashExtracting(r)
    PROVE  ScannerInv'
<1>1. disk' \in [Paths -> Upload]
    BY DEF ScannerInv, ScannerTypeOK, CrashExtracting, ExtractTo, Upload
<1> QED
    BY <1>1, LoseStep DEF CrashExtracting

LEMMA CleanupStep ==
    ASSUME ScannerInv, NEW p \in Paths, cleanup_old_snapshots(p)
    PROVE  ScannerInv'
<1>1. disk' \in [Paths -> Upload]
    BY DEF ScannerInv, ScannerTypeOK, cleanup_old_snapshots, Upload
<1>2. ScannerTypeOK'
    BY <1>1 DEF ScannerInv, ScannerTypeOK, cleanup_old_snapshots, tables, IdsOf, HasInserted
<1> QED
    BY <1>2 DEF ScannerInv, NoOrphans, ScansAreFinished, Kept, FreshIds, DistinctIds, Fits,
                cleanup_old_snapshots, tables, IdsOf, HasInserted

-----------------------------------------------------------------------------
(* The theorems.                                                           *)

LEMMA ScannerStep == ScannerInv /\ [ScannerNext]_vars => ScannerInv'
<1> SUFFICES ASSUME ScannerInv, [ScannerNext]_vars PROVE ScannerInv'
    OBVIOUS
<1>1. CASE \E r \in Requests, user \in Users : \E op \in OwnerOps \cup MemberOps : Arrive(r, op, user)
    BY <1>1, ArriveStep
<1>2. CASE \E r \in Requests : Handles(r)
    BY <1>2, EntersStep, WorksStep, CommitsStep DEF Handles
<1>3. CASE \E r \in Requests : CrashExtracting(r)
    BY <1>3, CrashExtractingStep
<1>4. CASE \E p \in Paths : cleanup_old_snapshots(p)
    BY <1>4, CleanupStep
<1>5. CASE Crash
    BY <1>5, LoseStep DEF Crash, ScannerInv, ScannerTypeOK
<1>6. CASE UNCHANGED vars
    BY <1>6 DEF vars, tables, ScannerInv, ScannerTypeOK, NoOrphans, ScansAreFinished, Kept,
                FreshIds, DistinctIds, Fits, IdsOf, HasInserted
<1> QED
    BY <1>1, <1>2, <1>3, <1>4, <1>5, <1>6 DEF ScannerNext

\* The variables keep their types, every id in use is below the next one, and
\* a request that holds a row knows its id (the flush of scans.py:48).
THEOREM ScannerTyped == ScannerSpec => []ScannerTypeOK
<1>1. ScannerInv => ScannerTypeOK
    BY DEF ScannerInv
<1> QED
    BY <1>1, InitInv, ScannerStep, PTL DEF ScannerSpec

\* No row outlives its project: one inserted before the delete keeps it from
\* committing, one inserted after it is refused (projects.py:193).
THEOREM NothingIsOrphaned == ScannerSpec => []NoOrphans
<1>1. ScannerInv => NoOrphans
    BY DEF ScannerInv
<1> QED
    BY <1>1, InitInv, ScannerStep, PTL DEF ScannerSpec

\* Every scan that others can see is over and counts the smells it has, at any
\* interleaving and after any crash (scan_service.py:53-90).
THEOREM ScansEnd == ScannerSpec => []ScansAreFinished
<1>1. ScannerInv => ScansAreFinished
    BY DEF ScannerInv
<1> QED
    BY <1>1, InitInv, ScannerStep, PTL DEF ScannerSpec
-----------------------------------------------------------------------------
(* One step of a request, for the theorems about its history.              *)

Ended(x) == x.at = "answered" /\ x.op = "none" /\ x.analysed = "none"

\* A request goes from state x to state y, and not to its end.
Goes(x, y) ==
    /\ y.op = x.op /\ y.user = x.user /\ y.target = x.target
    /\ x.at # "running" => y.analysed = x.analysed
    /\ \/ x.at = "scan" /\ y.at = "project" /\ y.id = x.id /\ x.id \in IdsOf(scans)
       \/ /\ x.at = "project" /\ project.exists /\ x.user = Owner /\ y.at = FirstStep(x.op)
          /\ x.op = "add" => x.target \in Others
       \/ x.at = "project" /\ project.exists /\ x.user # Owner /\ x.op \notin OwnerOps /\ y.at = "collab"
       \/ x.at = "collab" /\ x.op = "add" /\ y.at = "insert" /\ Cardinality(RowsOf(x.target)) = 0
       \/ x.at = "collab" /\ x.op # "add" /\ y.at = FirstStep(x.op) /\ Cardinality(RowsOf(x.user)) = 1
       \/ x.at = "insert" /\ y.at = IF x.op = "add" THEN "commit" ELSE "pending"
       \/ x.at \in {"row", "write"} /\ y.at = "commit"
       \/ x.at = "load" /\ y.at = "commit" /\ y.loaded = IdsOf(collabs \cup scans)
       \/ x.at = "pending" /\ y.at = "running"
       \/ x.at = "running" /\ y.at \in {"save", "fail"}

Moved(r) ==
    /\ Active(r)
    /\ \A other \in Requests \ {r} : req'[other] = req[other]
    /\ \/ Ended(req'[r])
       \/ Goes(req[r], req'[r]) /\ UNCHANGED <<project, collabs, scans, smells>>

LEMMA AnswerEnds ==
    ASSUME ScannerTypeOK, NEW r \in Requests, Active(r), NEW code \in Codes, Answer(r, code)
    PROVE  Moved(r) /\ req'[r].code = code
<1> DEFINE y == [Idle EXCEPT !.at = "answered"]
           x == [y EXCEPT !.code = code]
<1>1. y \in Request /\ y.at = "answered" /\ y.op = "none" /\ y.analysed = "none"
    BY IdleTyped DEF Request, Idle
<1>2. req' = [req EXCEPT ![r] = x]
    BY DEF Answer
<1> HIDE DEF y
<1>3. Ended(x) /\ x.code = code
    BY <1>1 DEF Ended, Request
<1> HIDE DEF x
<1> QED
    BY <1>2, <1>3 DEF Moved, ScannerTypeOK

\* The fields of a request that changes its place, and one other field.
LEMMA PlaceState ==
    ASSUME NEW x \in Request, NEW step
    PROVE  LET y == [x EXCEPT !.at = step] IN
           /\ y.at = step /\ y.op = x.op /\ y.user = x.user /\ y.target = x.target /\ y.path = x.path
           /\ y.id = x.id /\ y.loaded = x.loaded /\ y.analysed = x.analysed
    BY DEF Request

LEMMA PathState ==
    ASSUME NEW x \in Request, NEW step, NEW path
    PROVE  LET y == [x EXCEPT !.at = step, !.path = path] IN
           /\ y.at = step /\ y.op = x.op /\ y.user = x.user /\ y.target = x.target /\ y.path = path
           /\ y.id = x.id /\ y.loaded = x.loaded /\ y.analysed = x.analysed
    BY DEF Request

\* A step that gives the request a state that the one before goes to.
LEMMA GoesMoves ==
    ASSUME ScannerTypeOK, NEW r \in Requests, Active(r), NEW x, req' = [req EXCEPT ![r] = x],
           Goes(req[r], x), UNCHANGED <<project, collabs, scans, smells>>
    PROVE  Moved(r)
    BY DEF Moved, ScannerTypeOK

LEMMA EntersMoves ==
    ASSUME ScannerTypeOK, NEW r \in Requests, Enters(r)
    PROVE  Moved(r) /\ UNCHANGED <<tables, disk>>
<1>0. req[r] \in Request /\ {0, 400, 403, 404, 500} \subseteq Codes
    BY DEF ScannerTypeOK, Codes
<1>1. Active(r) /\ UNCHANGED <<tables, disk>>
    BY DEF Enters, SelectScan, ProjectMissing, OwnerEnters, OtherKnocks, CheckToAdd, CheckToEnter, Active
<1>2. UNCHANGED <<project, collabs, scans, smells>>
    BY <1>1 DEF tables
<1>a. ASSUME NEW code \in Codes, Answer(r, code) PROVE Moved(r)
    BY <1>1, <1>a, AnswerEnds
<1>g. ASSUME NEW step, GoTo(r, step), Goes(req[r], [req[r] EXCEPT !.at = step]) PROVE Moved(r)
    BY <1>1, <1>2, <1>g, GoesMoves DEF GoTo
<1>3. CASE SelectScan(r)
  <2>1. CASE req[r].id \in IdsOf(scans)
    <3>1. GoTo(r, "project") /\ req[r].at = "scan"
        BY <1>3, <2>1 DEF SelectScan
    <3>2. Goes(req[r], [req[r] EXCEPT !.at = "project"])
        BY <1>0, <2>1, <3>1, PlaceState DEF Goes
    <3> QED
        BY <1>1, <1>g, <3>1, <3>2
  <2>2. CASE req[r].id \notin IdsOf(scans)
      BY <1>0, <1>1, <1>3, <1>a, <2>2 DEF SelectScan
  <2> QED
      BY <2>1, <2>2
<1>4. CASE ProjectMissing(r)
    BY <1>0, <1>1, <1>4, <1>a DEF ProjectMissing
<1>5. CASE OwnerEnters(r)
  <2> DEFINE x == [req[r] EXCEPT !.at = FirstStep(req[r].op), !.path = project.path]
  <2>1. CASE req[r].op = "add" /\ req[r].target \in {Stranger, Owner}
      BY <1>0, <1>1, <1>5, <1>a, <2>1 DEF OwnerEnters
  <2>2. CASE ~(req[r].op = "add" /\ req[r].target \in {Stranger, Owner})
    <3>1. req' = [req EXCEPT ![r] = x]
        BY <1>5, <2>2 DEF OwnerEnters
    <3>2. req[r].at = "project" /\ project.exists /\ req[r].user = Owner
          /\ (req[r].op = "add" => req[r].target \in Others)
        BY <1>0, <1>5, <2>2 DEF OwnerEnters, Request, Users
    <3>3. Goes(req[r], x)
        BY <1>0, <3>2, PathState DEF Goes
    <3> HIDE DEF x
    <3> QED
        BY <1>1, <1>2, <3>1, <3>3, GoesMoves
  <2> QED
      BY <2>1, <2>2
<1>6. CASE OtherKnocks(r)
  <2> DEFINE x == [req[r] EXCEPT !.at = "collab", !.path = project.path]
  <2>1. CASE req[r].op \in OwnerOps
      BY <1>0, <1>1, <1>6, <1>a, <2>1 DEF OtherKnocks
  <2>2. CASE req[r].op \notin OwnerOps
    <3>1. req' = [req EXCEPT ![r] = x] /\ req[r].at = "project" /\ project.exists /\ req[r].user # Owner
        BY <1>6, <2>2 DEF OtherKnocks
    <3>2. Goes(req[r], x)
        BY <1>0, <2>2, <3>1, PathState DEF Goes
    <3> HIDE DEF x
    <3> QED
        BY <1>1, <1>2, <3>1, <3>2, GoesMoves
  <2> QED
      BY <2>1, <2>2
<1>7. CASE CheckToAdd(r)
  <2>1. CASE Cardinality(RowsOf(req[r].target)) = 0
    <3>1. GoTo(r, "insert") /\ req[r].at = "collab" /\ req[r].op = "add"
        BY <1>7, <2>1 DEF CheckToAdd
    <3>2. Goes(req[r], [req[r] EXCEPT !.at = "insert"])
        BY <1>0, <2>1, <3>1, PlaceState DEF Goes
    <3> QED
        BY <1>1, <1>g, <3>1, <3>2
  <2>2. CASE Cardinality(RowsOf(req[r].target)) # 0
      BY <1>0, <1>1, <1>7, <1>a, <2>2 DEF CheckToAdd
  <2> QED
      BY <2>1, <2>2
<1>8. CASE CheckToEnter(r)
  <2>1. CASE Cardinality(RowsOf(req[r].user)) = 1
    <3>1. GoTo(r, FirstStep(req[r].op)) /\ req[r].at = "collab" /\ req[r].op # "add"
        BY <1>8, <2>1 DEF CheckToEnter
    <3>2. Goes(req[r], [req[r] EXCEPT !.at = FirstStep(req[r].op)])
        BY <1>0, <2>1, <3>1, PlaceState DEF Goes
    <3> QED
        BY <1>1, <1>g, <3>1, <3>2
  <2>2. CASE Cardinality(RowsOf(req[r].user)) # 1
      BY <1>0, <1>1, <1>8, <1>a, <2>2 DEF CheckToEnter
  <2> QED
      BY <2>1, <2>2
<1> QED
    BY <1>1, <1>3, <1>4, <1>5, <1>6, <1>7, <1>8 DEF Enters

LEMMA WorksMoves ==
    ASSUME ScannerTypeOK, NEW r \in Requests, Works(r)
    PROVE  Moved(r) /\ UNCHANGED <<project, collabs, scans, smells>>
<1>0. req[r] \in Request /\ {200, 400, 404, 500} \subseteq Codes
    BY DEF ScannerTypeOK, Codes
<1>1. Active(r)
    BY DEF Works, Query, Insert, SelectRow, LoadChildren, WriteUpload, StartScan, Analyse, ScanClone,
           ScanOther, ScanExtracted, ScanArchive, Extracting, Active
<1>2. UNCHANGED <<project, collabs, scans, smells>>
    BY DEF Works, Query, Insert, SelectRow, LoadChildren, WriteUpload, StartScan, Analyse, ScanClone,
           ScanOther, ScanExtracted, ScanArchive, tables
<1>r. SUFFICES Moved(r)
    BY <1>2
<1>a. ASSUME NEW code \in Codes, Answer(r, code) PROVE Moved(r)
    BY <1>1, <1>a, AnswerEnds
<1>g. ASSUME NEW step, GoTo(r, step), Goes(req[r], [req[r] EXCEPT !.at = step]) PROVE Moved(r)
    BY <1>1, <1>2, <1>g, GoesMoves DEF GoTo
<1>3. CASE Query(r)
    BY <1>0, <1>3, <1>a DEF Query
<1>4. CASE Insert(r)
  <2> DEFINE place == IF req[r].op = "add" THEN "commit" ELSE "pending"
             x == [req[r] EXCEPT !.id = next_id, !.at = place]
  <2>1. CASE ~project.exists
      BY <1>0, <1>4, <1>a, <2>1 DEF Insert
  <2>2. CASE project.exists
    <3>1. req' = [req EXCEPT ![r] = x] /\ req[r].at = "insert"
        BY <1>4, <2>2 DEF Insert
    <3>2. x.at = place /\ x.op = req[r].op /\ x.user = req[r].user /\ x.target = req[r].target
          /\ x.analysed = req[r].analysed
      <4> HIDE DEF place
      <4> QED
          BY <1>0 DEF Request
    <3>3. Goes(req[r], x)
      <4> HIDE DEF x
      <4> QED
          BY <3>1, <3>2 DEF Goes
    <3> HIDE DEF x
    <3> QED
        BY <1>1, <1>2, <3>1, <3>3, GoesMoves
  <2> QED
      BY <2>1, <2>2
<1>5. CASE SelectRow(r)
  <2>1. CASE req[r].id \in IdsOf(collabs)
    <3>1. GoTo(r, "commit") /\ req[r].at = "row"
        BY <1>5, <2>1 DEF SelectRow
    <3>2. Goes(req[r], [req[r] EXCEPT !.at = "commit"])
        BY <1>0, <3>1, PlaceState DEF Goes
    <3> QED
        BY <1>g, <3>1, <3>2
  <2>2. CASE req[r].id \notin IdsOf(collabs)
      BY <1>0, <1>5, <1>a, <2>2 DEF SelectRow
  <2> QED
      BY <2>1, <2>2
<1>6. CASE LoadChildren(r)
  <2> DEFINE rows == IdsOf(collabs \cup scans)
             x == [req[r] EXCEPT !.at = "commit", !.loaded = rows]
  <2>1. req' = [req EXCEPT ![r] = x] /\ req[r].at = "load"
      BY <1>6 DEF LoadChildren
  <2>2. x.at = "commit" /\ x.op = req[r].op /\ x.user = req[r].user /\ x.target = req[r].target
        /\ x.analysed = req[r].analysed /\ x.loaded = rows
    <3> HIDE DEF rows
    <3> QED
        BY <1>0 DEF Request
  <2>3. Goes(req[r], x)
    <3> HIDE DEF x
    <3> QED
        BY <2>1, <2>2 DEF Goes
  <2> HIDE DEF x
  <2> QED
      BY <1>1, <1>2, <2>1, <2>3, GoesMoves
<1>7. CASE WriteUpload(r)
  <2>1. CASE Answer(r, 400)
      BY <1>0, <1>a, <2>1
  <2>2. ASSUME NEW p \in Paths, req' = [req EXCEPT ![r] = [@ EXCEPT !.at = "commit", !.path = p]]
        PROVE  Moved(r)
    <3> DEFINE x == [req[r] EXCEPT !.at = "commit", !.path = p]
    <3>1. req[r].at = "write" /\ req' = [req EXCEPT ![r] = x]
        BY <1>7, <2>2 DEF WriteUpload
    <3>2. Goes(req[r], x)
        BY <1>0, <3>1, PathState DEF Goes
    <3> HIDE DEF x
    <3> QED
        BY <1>1, <1>2, <3>1, <3>2, GoesMoves
  <2> QED
      BY <1>7, <2>1, <2>2 DEF WriteUpload
<1>8. CASE StartScan(r)
  <2>1. GoTo(r, "running") /\ req[r].at = "pending"
      BY <1>8 DEF StartScan
  <2>2. Goes(req[r], [req[r] EXCEPT !.at = "running"])
      BY <1>0, <2>1, PlaceState DEF Goes
  <2> QED
      BY <1>g, <2>1, <2>2
<1>9. CASE Analyse(r)
  <2>1. req[r].at = "running" /\ (Raises(r) \/ \E what : Analysed(r, what))
      BY <1>9 DEF Analyse, ScanClone, ScanOther, ScanExtracted, ScanArchive, Extracting
  <2>2. CASE Raises(r)
    <3>1. GoTo(r, "fail")
        BY <2>2 DEF Raises
    <3>2. Goes(req[r], [req[r] EXCEPT !.at = "fail"])
        BY <1>0, <2>1, PlaceState DEF Goes
    <3> QED
        BY <1>g, <3>1, <3>2
  <2>3. ASSUME NEW what, Analysed(r, what) PROVE Moved(r)
    <3> DEFINE x == [req[r] EXCEPT !.at = "save", !.analysed = what]
    <3>1. req' = [req EXCEPT ![r] = x]
        BY <2>3 DEF Analysed
    <3>2. x.at = "save" /\ x.op = req[r].op /\ x.user = req[r].user /\ x.target = req[r].target
        BY <1>0 DEF Request
    <3> HIDE DEF x
    <3>3. Goes(req[r], x)
        BY <2>1, <3>2 DEF Goes
    <3> QED
        BY <1>1, <1>2, <3>1, <3>3, GoesMoves
  <2> QED
      BY <2>1, <2>2, <2>3
<1> QED
    BY <1>2, <1>3, <1>4, <1>5, <1>6, <1>7, <1>8, <1>9 DEF Works

LEMMA CommitsMoves ==
    ASSUME ScannerTypeOK, NEW r \in Requests, Commits(r)
    PROVE  Moved(r) /\ Ended(req'[r]) /\ disk' = disk
<1>1. Active(r) /\ disk' = disk
    BY DEF Commits, CommitAdd, CommitRemove, CommitDelete, CommitUpdate, SaveScan, FlushFails, FailScan, Active
<1>0. Answer(r, 200) \/ Answer(r, 201) \/ Answer(r, 204) \/ Answer(r, 500)
  <2>1. CASE CommitDelete(r) \/ CommitUpdate(r)
      BY <2>1 DEF CommitDelete, CommitUpdate
  <2>2. CASE CommitAdd(r) \/ CommitRemove(r) \/ SaveScan(r) \/ FlushFails(r) \/ FailScan(r)
      BY <2>2 DEF CommitAdd, CommitRemove, SaveScan, FlushFails, FailScan
  <2> QED
      BY <2>1, <2>2 DEF Commits
<1>2. PICK code \in Codes : Answer(r, code)
    BY <1>0 DEF Codes
<1>3. Moved(r)
    BY <1>1, <1>2, AnswerEnds
<1>4. Ended(req'[r])
  <2>1. [Idle EXCEPT !.at = "answered", !.code = code].op = "none"
        /\ [Idle EXCEPT !.at = "answered", !.code = code].at = "answered"
        /\ [Idle EXCEPT !.at = "answered", !.code = code].analysed = "none"
      BY DEF Idle
  <2> QED
      BY <1>2, <2>1 DEF Answer, Ended, ScannerTypeOK
<1> QED
    BY <1>1, <1>3, <1>4
\* A request arrives in a free slot.
LEMMA ArriveEffect ==
    ASSUME ScannerTypeOK, NEW r \in Requests, NEW op, NEW user, Arrive(r, op, user)
    PROVE  /\ ~Active(r) /\ UNCHANGED <<tables, disk>>
           /\ \A other \in Requests \ {r} : req'[other] = req[other]
           /\ req'[r].at = (IF op = "get_scan" THEN "scan" ELSE "project")
           /\ req'[r].op = op /\ req'[r].user = user /\ req'[r].analysed = "none"
<1>1. PICK target, id :
          req' = [req EXCEPT ![r] = [Idle EXCEPT
                     !.op = op, !.user = user, !.target = target, !.id = id,
                     !.at = IF op = "get_scan" THEN "scan" ELSE "project"]]
    BY DEF Arrive
<1> DEFINE place == IF op = "get_scan" THEN "scan" ELSE "project"
           x == [Idle EXCEPT !.op = op, !.user = user, !.target = target, !.id = id, !.at = place]
<1>2. req' = [req EXCEPT ![r] = x]
    BY <1>1
<1> HIDE DEF place
<1>3. x.at = place /\ x.op = op /\ x.user = user /\ x.analysed = "none"
    BY DEF Idle
<1> HIDE DEF x
<1>4. req'[r] = x /\ \A other \in Requests \ {r} : req'[other] = req[other]
    BY <1>2 DEF ScannerTypeOK
<1> QED
    BY <1>3, <1>4 DEF Arrive, Active, place

\* A crash ends all requests.
LEMMA LoseEffect ==
    ASSUME ScannerTypeOK, Lose, NEW r \in Requests
    PROVE  IF Active(r) THEN Ended(req'[r]) ELSE req'[r] = req[r]
<1> DEFINE lost == [Idle EXCEPT !.at = "answered", !.code = 1]
<1>1. Ended(lost)
    BY DEF Idle, Ended
<1>2. req'[r] = IF Active(r) THEN lost ELSE req[r]
    BY DEF Lose
<1> HIDE DEF lost
<1> QED
    BY <1>1, <1>2

\* The history only looks on.
LEMMA HistoryLooksOn == [MCNext]_mcVars => [ScannerNext]_vars
    BY DEF MCNext, ScannerNext, mcVars, vars

\* What happens to the requests in a step: one arrives, goes on or is
\* answered, all are lost, or none is concerned.
LEMMA RequestsStep ==
    ASSUME ScannerTypeOK, [MCNext]_mcVars
    PROVE  \/ \E r \in Requests, user \in Users, op \in OwnerOps \cup MemberOps :
                 Arrive(r, op, user) /\ Observe
           \/ \E r \in Requests : Handles(r) /\ Moved(r) /\ Observe
           \/ Lose /\ UNCHANGED tables /\ Observe
           \/ UNCHANGED <<tables, req>> /\ (Observe \/ UNCHANGED history)
<1>1. ASSUME NEW r \in Requests, Handles(r) PROVE Moved(r)
    BY <1>1, EntersMoves, WorksMoves, CommitsMoves DEF Handles
<1> QED
    BY <1>1 DEF MCNext, CrashExtracting, Crash, cleanup_old_snapshots, mcVars, vars

-----------------------------------------------------------------------------
(* Collaborators.                                                          *)

\* Request r has found no row of the user it adds.
Adder(r) == req[r].op = "add" /\ req[r].at \in {"insert", "commit"}

\* As long as no two requests were past this check at once, every user has one
\* row at most, and none while a request is about to add it.
RaceInv ==
    /\ IsFiniteSet(collabs)
    /\ ~raced => /\ \A c, d \in collabs : c.user = d.user => c = d
                 /\ \A r \in Requests : Adder(r) => RowsOf(req[r].target) = {}
                 /\ ~AddsAtOnce

\* Who adds after the step did before, or has just checked.
LEMMA AddersStep ==
    ASSUME ScannerInv, NEW r \in Requests, Moved(r), NEW other \in Requests, Adder(other)'
    PROVE  /\ req'[other].target = req[other].target
           /\ Adder(other) \/ (RowsOf(req[other].target) = {} /\ collabs' = collabs) \/ ~IsFiniteSet(collabs)
<1>1. CASE other # r
    BY <1>1 DEF Moved, Adder
<1>2. CASE other = r
  <2>1. Goes(req[r], req'[r]) /\ collabs' = collabs
      BY <1>2 DEF Moved, Ended, Adder
  <2>2. req[r].op = "add" /\ req'[r].target = req[r].target /\ req'[r].at \in {"insert", "commit"}
      BY <1>2, <2>1 DEF Goes, Adder
  <2>3. req[r].at \notin {"row", "load", "write"}
      BY <2>2 DEF ScannerInv, Fits, Fit
  <2>4. FirstStep(req[r].op) = "collab"
      BY <2>2 DEF FirstStep
  <2>5. req[r].at = "insert" \/ Cardinality(RowsOf(req[r].target)) = 0
      BY <2>1, <2>2, <2>3, <2>4 DEF Goes
  <2>6. CASE req[r].at = "insert"
      BY <1>2, <2>2, <2>6 DEF Adder
  <2>7. CASE Cardinality(RowsOf(req[r].target)) = 0 /\ IsFiniteSet(collabs)
    <3>1. IsFiniteSet(RowsOf(req[r].target))
        BY <2>7, FS_Subset DEF RowsOf
    <3>2. RowsOf(req[r].target) = {}
        BY <2>7, <3>1, FS_EmptySet
    <3> QED
        BY <1>2, <2>1, <2>2, <3>2
  <2> QED
      BY <1>2, <2>2, <2>5, <2>6, <2>7
<1> QED
    BY <1>1, <1>2

LEMMA CollabsStep ==
    ASSUME NEW r \in Requests, Handles(r)
    PROVE  CommitAdd(r) \/ collabs' \subseteq collabs
    BY DEF Handles, Enters, SelectScan, ProjectMissing, OwnerEnters, OtherKnocks, CheckToAdd, CheckToEnter,
           Works, Query, Insert, SelectRow, LoadChildren, WriteUpload, StartScan, Analyse, ScanClone,
           ScanOther, ScanExtracted, ScanArchive, Commits, CommitRemove, CommitDelete, CommitUpdate,
           SaveScan, FlushFails, FailScan, tables

LEMMA RaceInvInit == MCInit => RaceInv
<1> SUFFICES ASSUME MCInit PROVE RaceInv
    OBVIOUS
<1>1. collabs = {} /\ \A r \in Requests : req[r].op = "none"
    BY DEF MCInit, ScannerInit, Idle
<1>2. IsFiniteSet(collabs)
    BY <1>1, FS_EmptySet
<1> QED
    BY <1>1, <1>2 DEF RaceInv, Adder, AddsAtOnce

LEMMA RaceStep == ScannerInv /\ RaceInv /\ [MCNext]_mcVars => RaceInv'
<1> SUFFICES ASSUME ScannerInv, ScannerTypeOK, RaceInv, [MCNext]_mcVars PROVE RaceInv'
    BY DEF ScannerInv
<1>1. CASE UNCHANGED <<collabs, req, raced>>
    BY <1>1 DEF RaceInv, Adder, AddsAtOnce, RowsOf
<1>2. ASSUME Observe, IsFiniteSet(collabs'),
             ~raced /\ ~AddsAtOnce' => /\ \A c, d \in collabs' : c.user = d.user => c = d
                                       /\ \A r \in Requests : Adder(r)' => RowsOf(req[r].target)' = {}
      PROVE  RaceInv'
  <2>1. ~raced' => ~raced /\ ~AddsAtOnce'
      BY <1>2 DEF Observe
  <2> QED
      BY <1>2, <2>1 DEF RaceInv
<1>3. CASE UNCHANGED <<tables, req>> /\ Observe
  <2>1. UNCHANGED <<collabs, req>>
      BY <1>3 DEF tables
  <2> QED
      BY <1>2, <1>3, <2>1 DEF RaceInv, Adder, RowsOf
<1>4. ASSUME NEW r \in Requests, NEW user \in Users, NEW op \in OwnerOps \cup MemberOps,
             Arrive(r, op, user), Observe
      PROVE  RaceInv'
  <2>1. collabs' = collabs /\ req'[r].at \notin {"insert", "commit"}
        /\ \A other \in Requests \ {r} : req'[other] = req[other]
      BY <1>4, ArriveEffect DEF tables
  <2>2. \A other \in Requests : Adder(other)' => Adder(other) /\ req'[other] = req[other]
      BY <2>1 DEF Adder
  <2> QED
      BY <1>2, <1>4, <2>1, <2>2 DEF RaceInv, RowsOf
<1>5. CASE Lose /\ UNCHANGED tables /\ Observe
  <2>1. \A other \in Requests : ~Adder(other)'
      BY <1>5, LoseEffect DEF Adder, Ended, Active
  <2>2. collabs' = collabs
      BY <1>5 DEF tables
  <2> QED
      BY <1>2, <1>5, <2>1, <2>2 DEF RaceInv
<1>6. ASSUME NEW r \in Requests, Handles(r), Moved(r), Observe, collabs' \subseteq collabs PROVE RaceInv'
  <2>1. IsFiniteSet(collabs')
      BY <1>6, FS_Subset DEF RaceInv
  <2>2. ASSUME ~raced, NEW other \in Requests, Adder(other)' PROVE RowsOf(req[other].target)' = {}
    <3>1. req'[other].target = req[other].target /\ RowsOf(req[other].target) = {}
        BY <1>6, <2>2, AddersStep DEF RaceInv
    <3> QED
        BY <1>6, <3>1 DEF RowsOf
  <2> QED
      BY <1>2, <1>6, <2>1, <2>2 DEF RaceInv
<1>7. ASSUME NEW r \in Requests, CommitAdd(r), Moved(r), Observe PROVE RaceInv'
  <2> DEFINE row == [id |-> req[r].id, user |-> req[r].target]
  <2>1. collabs' = collabs \cup {row} /\ row.user = req[r].target /\ Adder(r) /\ Commits(r)
      BY <1>7 DEF CommitAdd, Adder, Commits
  <2>2. Ended(req'[r])
      BY <2>1, CommitsMoves
  <2> HIDE DEF row
  <2>3. IsFiniteSet(collabs')
      BY <2>1, FS_AddElement DEF RaceInv
  <2>4. ASSUME ~raced PROVE \A c, d \in collabs' : c.user = d.user => c = d
    <3>1. \A c \in collabs : c.user # row.user
        BY <2>1, <2>4 DEF RaceInv, RowsOf
    <3> QED
        BY <2>1, <2>4, <3>1 DEF RaceInv
  <2>5. ASSUME ~raced, NEW other \in Requests, Adder(other)' PROVE RowsOf(req[other].target)' = {}
    <3>1. other # r /\ req'[other] = req[other] /\ Adder(other)
        BY <1>7, <2>2, <2>5 DEF Adder, Ended, Moved
    <3>2. req[other].target # req[r].target
        BY <2>1, <2>5, <3>1 DEF RaceInv, AddsAtOnce, Adder
    <3>3. RowsOf(req[other].target) = {}
        BY <2>5, <3>1 DEF RaceInv
    <3> QED
        BY <2>1, <3>1, <3>2, <3>3 DEF RowsOf
  <2> QED
      BY <1>2, <1>7, <2>3, <2>4, <2>5
<1>8. CASE \E r \in Requests : Handles(r) /\ Moved(r) /\ Observe
    BY <1>6, <1>7, <1>8, CollabsStep
<1>9. CASE UNCHANGED <<tables, req>> /\ (Observe \/ UNCHANGED history)
    BY <1>1, <1>3, <1>9 DEF tables, history
<1> QED
    BY <1>4, <1>5, <1>8, <1>9, RequestsStep

\* The invariant of the requests holds beside the history.
THEOREM HistoryInvariant == MCSpec => []ScannerInv
<1>1. MCInit => ScannerInv
    BY InitInv DEF MCInit
<1>2. ScannerInv /\ [MCNext]_mcVars => ScannerInv'
    BY HistoryLooksOn, ScannerStep
<1> QED
    BY <1>1, <1>2, PTL DEF MCSpec

\* Without a constraint in the database it takes two requests that are past
\* their check at the same time to give a user two rows, whatever else is
\* going on, crashes and all (projects.py:264-275).
THEOREM DuplicatesComeFromRaces == MCSpec => []DuplicatesNeedRace
<1>1. RaceInv => DuplicatesNeedRace
  <2> SUFFICES ASSUME RaceInv, ~raced, NEW user \in Users PROVE ~(Cardinality(RowsOf(user)) > 1)
      BY DEF DuplicatesNeedRace, Twice
  <2>1. CASE RowsOf(user) = {}
      BY <2>1, FS_EmptySet
  <2>2. ASSUME NEW c \in RowsOf(user) PROVE ~(Cardinality(RowsOf(user)) > 1)
    <3>1. RowsOf(user) = {c}
        BY DEF RaceInv, RowsOf
    <3> QED
        BY <3>1, FS_Singleton
  <2> QED
      BY <2>1, <2>2
<1> QED
    BY <1>1, RaceInvInit, RaceStep, HistoryInvariant, PTL DEF MCSpec
-----------------------------------------------------------------------------
(* Damaged uploads.                                                        *)

\* What explains that only a part of upload p was extracted.
Explained(p) == p \in Paths /\ (disk[p].kind = "damaged" \/ broken)

PartInv ==
    /\ \A p \in Paths : disk[p].extracted = "part" => Explained(p)
    /\ \A r \in Requests : req[r].analysed = "part" => req[r].at = "save" /\ Explained(req[r].path)
    /\ \A s \in scans : s.status = "COMPLETED" /\ s.analysed = "part" => Explained(s.path)

\* An upload keeps its kind, and is extracted in part only for a reason.
DiskKept ==
    \A p \in Paths :
        /\ disk'[p].kind = disk[p].kind \/ disk[p].kind = "none"
        /\ disk'[p].extracted = "part" =>
               disk[p].extracted = "part" \/ disk'[p].kind = "damaged" \/ broken'

LEMMA WorksKeepDisk ==
    ASSUME ScannerTypeOK, NEW r \in Requests, Works(r)
    PROVE  DiskKept
<1>0. disk \in [Paths -> Upload] /\ req[r].path \in Paths \cup {NoPath}
    BY DEF ScannerTypeOK, Request
<1>1. CASE disk' = disk
    BY <1>1 DEF DiskKept
<1>2. CASE WriteUpload(r)
  <2>1. ASSUME NEW p \in Paths, NEW kind, disk[p] = NotUploaded,
               disk' = [disk EXCEPT ![p] = [kind |-> kind, file |-> TRUE, extracted |-> "no"]]
        PROVE  DiskKept
    <3>1. disk[p].kind = "none"
        BY <2>1 DEF NotUploaded
    <3>2. disk'[p].extracted = "no" /\ \A q \in Paths \ {p} : disk'[q] = disk[q]
        BY <1>0, <2>1
    <3> QED
        BY <3>1, <3>2 DEF DiskKept
  <2> QED
      BY <1>1, <1>2, <2>1 DEF WriteUpload
<1>3. CASE ScanArchive(r)
  <2>1. \/ disk' = disk
        \/ ExtractTo(r, "whole")
        \/ Snapshot(r).kind = "damaged" /\ ExtractTo(r, "part")
      BY <1>3 DEF ScanArchive
  <2>2. req[r].path \in Paths
      BY <1>0, <1>3 DEF ScanArchive, Extracting, Snapshot, NotUploaded
  <2>3. Snapshot(r).kind = disk[req[r].path].kind
      BY <1>0, <2>2, ScannerAssumption DEF Snapshot
  <2>4. ASSUME NEW extent, ExtractTo(r, extent), extent = "part" => disk[req[r].path].kind = "damaged"
        PROVE  DiskKept
    <3>1. /\ disk'[req[r].path].kind = disk[req[r].path].kind /\ disk'[req[r].path].extracted = extent
          /\ \A q \in Paths \ {req[r].path} : disk'[q] = disk[q]
        BY <1>0, <2>2, <2>4 DEF ExtractTo, Upload
    <3> QED
        BY <2>4, <3>1 DEF DiskKept
  <2> QED
      BY <1>1, <2>1, <2>3, <2>4
<1> QED
    BY <1>1, <1>2, <1>3
    DEF Works, Query, Insert, SelectRow, LoadChildren, StartScan, Analyse, ScanClone, ScanOther, ScanExtracted

LEMMA DiskStep ==
    ASSUME ScannerTypeOK, [MCNext]_mcVars
    PROVE  DiskKept /\ (broken => broken')
<1>0. disk \in [Paths -> Upload]
    BY DEF ScannerTypeOK
<1>1. broken => broken'
    BY DEF MCNext, mcVars, history
<1> SUFFICES DiskKept
    BY <1>1
<1>2. CASE disk' = disk
    BY <1>2 DEF DiskKept
<1>3. ASSUME NEW r \in Requests, Handles(r) PROVE DiskKept
    BY <1>2, <1>3, EntersMoves, CommitsMoves, WorksKeepDisk DEF Handles
<1>4. ASSUME NEW r \in Requests, CrashExtracting(r), broken' = TRUE PROVE DiskKept
  <2>1. \A p \in Paths : disk'[p].kind = disk[p].kind
      BY <1>0, <1>4 DEF CrashExtracting, ExtractTo, Upload
  <2> QED
      BY <1>4, <2>1 DEF DiskKept
<1>5. ASSUME NEW p \in Paths, cleanup_old_snapshots(p) PROVE DiskKept
  <2>1. \A q \in Paths : disk'[q].kind = disk[q].kind /\ disk'[q].extracted = disk[q].extracted
      BY <1>0, <1>5 DEF cleanup_old_snapshots, Upload
  <2> QED
      BY <2>1 DEF DiskKept
<1>6. ASSUME NEW r \in Requests, NEW user \in Users, NEW op \in OwnerOps \cup MemberOps, Arrive(r, op, user)
      PROVE  DiskKept
    BY <1>2, <1>6 DEF Arrive
<1>7. CASE Crash
    BY <1>2, <1>7 DEF Crash
<1>8. CASE UNCHANGED mcVars
    BY <1>2, <1>8 DEF mcVars, vars
<1> QED
    BY <1>1, <1>3, <1>4, <1>5, <1>6, <1>7, <1>8 DEF MCNext

LEMMA AnalysedState ==
    ASSUME ScannerTypeOK, NEW r \in Requests, NEW what, Analysed(r, what)
    PROVE  req'[r].at = "save" /\ req'[r].analysed = what /\ req'[r].path = req[r].path
<1> DEFINE x == [req[r] EXCEPT !.at = "save", !.analysed = what]
<1>1. x.at = "save" /\ x.analysed = what /\ x.path = req[r].path
    BY DEF ScannerTypeOK, Request
<1>2. req'[r] = x
    BY DEF Analysed, ScannerTypeOK
<1> QED
    BY <1>1, <1>2

\* An analysis sees a part of the code only where a part was extracted.
LEMMA AnalyseSees ==
    ASSUME ScannerTypeOK, NEW r \in Requests, Analyse(r), req[r].analysed # "part",
           req'[r].analysed = "part"
    PROVE  /\ req'[r].at = "save" /\ req'[r].path = req[r].path
           /\ req[r].path \in Paths /\ disk[req[r].path].extracted = "part"
<1>1. ~Raises(r)
  <2>1. ASSUME Raises(r) PROVE req'[r].analysed = req[r].analysed
    <3>1. req'[r] = [req[r] EXCEPT !.at = "fail"]
        BY <2>1 DEF Raises, GoTo, ScannerTypeOK
    <3> QED
        BY <3>1, PlaceState DEF ScannerTypeOK
  <2> QED
      BY <2>1
<1>2. ~Analysed(r, "whole") /\ ~Analysed(r, "nothing")
    BY AnalysedState
<1>3. ScanExtracted(r)
    BY <1>1, <1>2 DEF Analyse, ScanClone, ScanOther, ScanArchive
<1>4. Analysed(r, Snapshot(r).extracted)
    BY <1>1, <1>3 DEF ScanExtracted
<1>5. Snapshot(r).extracted = "part" /\ req'[r].at = "save" /\ req'[r].path = req[r].path
    BY <1>4, AnalysedState
<1>6. req[r].path \in Paths
    BY <1>5 DEF Snapshot, NotUploaded, ScannerTypeOK, Request
<1> QED
    BY <1>5, <1>6, ScannerAssumption DEF Snapshot

\* The rows of scans are those there were and, of a scan that is completed,
\* what its request has seen.
LEMMA ScansStep ==
    ASSUME NEW r \in Requests, Handles(r), NEW s \in scans'
    PROVE  \/ s \in scans
           \/ s.status # "COMPLETED"
           \/ req[r].at = "save" /\ s.analysed = req[r].analysed /\ s.path = req[r].path
<1>1. CASE SaveScan(r)
    BY <1>1 DEF SaveScan, Row
<1>2. CASE FailScan(r)
    BY <1>2 DEF FailScan, Row
<1>3. CASE scans' \subseteq scans
    BY <1>3
<1>4. SaveScan(r) \/ FailScan(r) \/ scans' \subseteq scans
    BY DEF Handles, Enters, SelectScan, ProjectMissing, OwnerEnters, OtherKnocks, CheckToAdd, CheckToEnter,
           Works, Query, Insert, SelectRow, LoadChildren, WriteUpload, StartScan, Analyse, ScanClone,
           ScanOther, ScanExtracted, ScanArchive, Commits, CommitAdd, CommitRemove, CommitDelete,
           CommitUpdate, FlushFails, tables
<1> QED
    BY <1>1, <1>2, <1>3, <1>4

\* Only an analysis changes what a request has seen.
LEMMA RunningAnalyses ==
    ASSUME NEW r \in Requests, Handles(r), req[r].at = "running"
    PROVE  Analyse(r)
    BY DEF Handles, Enters, SelectScan, ProjectMissing, OwnerEnters, OtherKnocks, CheckToAdd, CheckToEnter,
           Works, Query, Insert, SelectRow, LoadChildren, WriteUpload, StartScan, Commits, CommitAdd,
           CommitRemove, CommitDelete, CommitUpdate, SaveScan, FlushFails, FailScan

LEMMA PartInvInit == MCInit => PartInv
    BY DEF MCInit, ScannerInit, PartInv, NotUploaded, Idle

LEMMA PartStep == ScannerTypeOK /\ PartInv /\ [MCNext]_mcVars => PartInv'
<1> SUFFICES ASSUME ScannerTypeOK, PartInv, [MCNext]_mcVars PROVE PartInv'
    OBVIOUS
<1>1. DiskKept /\ (broken => broken')
    BY DiskStep
<1>2. ASSUME NEW p, Explained(p) PROVE Explained(p)'
    BY <1>1, <1>2 DEF Explained, DiskKept
<1>3. \A p \in Paths : disk'[p].extracted = "part" => Explained(p)'
    BY <1>1, <1>2 DEF PartInv, DiskKept, Explained
<1>4. ASSUME NEW r \in Requests, req'[r] = req[r] \/ Ended(req'[r]), req'[r].analysed = "part"
      PROVE  req'[r].at = "save" /\ Explained(req[r].path)'
  <2>1. req'[r] = req[r]
      BY <1>4 DEF Ended
  <2>2. req[r].at = "save" /\ Explained(req[r].path)
      BY <1>4, <2>1 DEF PartInv
  <2> QED
      BY <1>2, <2>1, <2>2
<1>5. ASSUME NEW s \in scans, s.status = "COMPLETED", s.analysed = "part" PROVE Explained(s.path)'
    BY <1>2, <1>5 DEF PartInv
<1>6. ASSUME NEW r \in Requests, Handles(r), Moved(r) PROVE PartInv'
  <2>1. ASSUME req'[r].analysed = "part", ~Ended(req'[r])
        PROVE  req'[r].at = "save" /\ Explained(req[r].path)'
    <3>1. Goes(req[r], req'[r])
        BY <1>6, <2>1 DEF Moved
    <3>2. req[r].at # "save"
        BY <3>1 DEF Goes
    <3>3. req[r].analysed # "part"
        BY <3>2 DEF PartInv
    <3>4. req[r].at = "running"
        BY <2>1, <3>1, <3>3 DEF Goes
    <3>5. /\ req'[r].at = "save" /\ req'[r].path = req[r].path
          /\ req[r].path \in Paths /\ disk[req[r].path].extracted = "part"
        BY <1>6, <2>1, <3>3, <3>4, RunningAnalyses, AnalyseSees
    <3> QED
        BY <1>2, <3>5 DEF PartInv
  <2>2. \A other \in Requests : req'[other].analysed = "part" =>
            req'[other].at = "save" /\ Explained(req[other].path)'
      BY <1>4, <1>6, <2>1 DEF Moved
  <2>3. ASSUME NEW s \in scans', s.status = "COMPLETED", s.analysed = "part" PROVE Explained(s.path)'
    <3>1. CASE s \in scans
        BY <1>5, <2>3, <3>1
    <3>2. CASE s.analysed = req[r].analysed /\ s.path = req[r].path
        BY <1>2, <2>3, <3>2 DEF PartInv
    <3> QED
        BY <1>6, <2>3, <3>1, <3>2, ScansStep
  <2> QED
      BY <1>3, <2>2, <2>3 DEF PartInv
<1>7. ASSUME scans' = scans,
             \A r \in Requests : req'[r] = req[r] \/ Ended(req'[r]) \/ req'[r].analysed = "none"
      PROVE  PartInv'
    BY <1>3, <1>4, <1>5, <1>7 DEF PartInv
<1>8. ASSUME NEW r \in Requests, NEW user \in Users, NEW op \in OwnerOps \cup MemberOps, Arrive(r, op, user)
      PROVE  PartInv'
    BY <1>7, <1>8, ArriveEffect DEF tables
<1>9. CASE Lose /\ UNCHANGED tables
    BY <1>7, <1>9, LoseEffect DEF tables
<1>10. CASE UNCHANGED <<tables, req>>
    BY <1>7, <1>10 DEF tables
<1> QED
    BY <1>6, <1>8, <1>9, <1>10, RequestsStep

\* A scan that is COMPLETED although it has seen only a part of the code has an
\* upload that is damaged, or the process was killed while it extracted one;
\* other scans of the same upload never do that (scan_service.py:97-99).
THEOREM PartsAreExplained == MCSpec => []PartNeedsDamage
<1>1. PartInv => PartNeedsDamage
    BY DEF PartInv, PartNeedsDamage, Explained
<1>2. ScannerInv => ScannerTypeOK
    BY DEF ScannerInv
<1> QED
    BY <1>1, <1>2, PartInvInit, PartStep, HistoryInvariant, PTL DEF MCSpec
-----------------------------------------------------------------------------
(* Answers.                                                                *)

\* What brings a request to its answer, the code of the answer being `code'.
Verdict(x, code) ==
    \/ x.at = "scan" /\ x.id \notin IdsOf(scans) /\ code = 404
    \/ x.at = "project" /\ ~project.exists /\ (code = 404 \/ (code = 500 /\ x.op = "get_scan"))
    \/ x.at = "project" /\ x.op = "add" /\ x.target = Stranger /\ code = 404
    \/ x.at = "project" /\ x.op = "add" /\ x.target = Owner /\ code = 400
    \/ x.at = "project" /\ x.user # Owner /\ x.op \in OwnerOps /\ code = 403
    \/ x.at = "collab" /\ x.op = "add" /\ Cardinality(RowsOf(x.target)) = 1 /\ code = 400
    \/ x.at = "collab" /\ x.op = "add" /\ Cardinality(RowsOf(x.target)) \notin {0, 1} /\ code = 500
    \/ x.at = "collab" /\ x.op # "add" /\ Cardinality(RowsOf(x.user)) = 0 /\ code = 403
    \/ x.at = "collab" /\ x.op # "add" /\ Cardinality(RowsOf(x.user)) \notin {0, 1} /\ code = 500
    \/ x.at = "row" /\ x.id \notin IdsOf(collabs) /\ code = 404
    \/ x.at = "write" /\ code = 400
    \/ x.at \in {"insert", "commit"} /\ ~project.exists /\ code = 500
    \/ x.at = "commit" /\ x.op = "delete" /\ ~(IdsOf(collabs \cup scans) \subseteq x.loaded) /\ code = 500
    \/ x.at = "save" /\ code = 500
    \/ x.at \in {"query", "commit", "save", "fail"} /\ code \in {200, 201, 204}

LEMMA VerdictOfHandler ==
    ASSUME ScannerTypeOK, NEW r \in Requests, Handles(r), req'[r].at = "answered"
    PROVE  Verdict(req[r], req'[r].code)
<1>0. req[r] \in Request /\ {200, 201, 204, 400, 403, 404, 500} \subseteq Codes
    BY DEF ScannerTypeOK, Codes
<1>1. Active(r)
    BY EntersMoves, WorksMoves, CommitsMoves DEF Handles, Moved
<1>a. ASSUME NEW code \in Codes, Answer(r, code) PROVE req'[r].code = code
    BY <1>1, <1>a, AnswerEnds
<1>s. ASSUME NEW x, req' = [req EXCEPT ![r] = x] PROVE x.at = "answered"
    BY <1>s DEF ScannerTypeOK
<1>g. ASSUME NEW step, GoTo(r, step) PROVE step = "answered"
  <2>1. [req[r] EXCEPT !.at = step].at = "answered"
      BY <1>g, <1>s DEF GoTo
  <2> QED
      BY <1>0, <2>1, PlaceState
<1>f. \A op : FirstStep(op) # "answered"
    BY FirstStepFits
<1>2. CASE SelectScan(r)
    BY <1>0, <1>2, <1>a, <1>g DEF SelectScan, Verdict
<1>3. CASE ProjectMissing(r)
    BY <1>0, <1>3, <1>a DEF ProjectMissing, Verdict
<1>4. CASE OwnerEnters(r)
  <2>1. [req[r] EXCEPT !.at = FirstStep(req[r].op), !.path = project.path].at = FirstStep(req[r].op)
      BY <1>0, PathState
  <2>2. req' # [req EXCEPT ![r] = [@ EXCEPT !.at = FirstStep(req[r].op), !.path = project.path]]
      BY <1>f, <1>s, <2>1
  <2> QED
      BY <1>0, <1>4, <1>a, <2>2 DEF OwnerEnters, Verdict
<1>5. CASE OtherKnocks(r)
  <2>1. [req[r] EXCEPT !.at = "collab", !.path = project.path].at = "collab"
      BY <1>0, PathState
  <2>2. req' # [req EXCEPT ![r] = [@ EXCEPT !.at = "collab", !.path = project.path]]
      BY <1>s, <2>1
  <2> QED
      BY <1>0, <1>5, <1>a, <2>2 DEF OtherKnocks, Verdict
<1>6. CASE CheckToAdd(r)
    BY <1>0, <1>6, <1>a, <1>g DEF CheckToAdd, Verdict
<1>7. CASE CheckToEnter(r)
    BY <1>0, <1>7, <1>a, <1>f, <1>g DEF CheckToEnter, Verdict
<1>8. CASE Query(r)
    BY <1>0, <1>8, <1>a DEF Query, Verdict
<1>9. CASE Insert(r)
  <2> DEFINE place == IF req[r].op = "add" THEN "commit" ELSE "pending"
  <2>1. place # "answered"
      OBVIOUS
  <2>2. req' # [req EXCEPT ![r] = [@ EXCEPT !.id = next_id, !.at = place]]
    <3> HIDE DEF place
    <3>1. [req[r] EXCEPT !.id = next_id, !.at = place].at = place
        BY <1>0 DEF Request
    <3> QED
        BY <1>s, <2>1, <3>1
  <2>3. ~project.exists /\ Answer(r, 500) /\ req[r].at = "insert"
      BY <1>9, <2>2 DEF Insert
  <2> QED
      BY <1>0, <1>a, <2>3 DEF Verdict
<1>10. CASE SelectRow(r)
    BY <1>0, <1>10, <1>a, <1>g DEF SelectRow, Verdict
<1>11. CASE LoadChildren(r)
  <2>1. [req[r] EXCEPT !.at = "commit", !.loaded = IdsOf(collabs \cup scans)].at = "commit"
      BY <1>0 DEF Request
  <2> QED
      BY <1>11, <1>s, <2>1 DEF LoadChildren
<1>12. CASE WriteUpload(r)
  <2>1. ASSUME NEW p, req' = [req EXCEPT ![r] = [@ EXCEPT !.at = "commit", !.path = p]] PROVE FALSE
    <3>1. [req[r] EXCEPT !.at = "commit", !.path = p].at = "commit"
        BY <1>0, PathState
    <3> QED
        BY <1>s, <2>1, <3>1
  <2>2. req[r].at = "write" /\ Answer(r, 400)
      BY <1>12, <2>1 DEF WriteUpload
  <2> QED
      BY <1>0, <1>a, <2>2 DEF Verdict
<1>13. CASE StartScan(r)
    BY <1>13, <1>g DEF StartScan
<1>14. CASE Analyse(r)
  <2>1. Raises(r) \/ \E what : Analysed(r, what)
      BY <1>14 DEF Analyse, ScanClone, ScanOther, ScanExtracted, ScanArchive
  <2>2. ~Raises(r)
      BY <1>g DEF Raises
  <2>3. \A what : ~Analysed(r, what)
      BY AnalysedState
  <2> QED
      BY <2>1, <2>2, <2>3
<1>15. CASE CommitAdd(r) \/ CommitRemove(r) \/ SaveScan(r) \/ FlushFails(r) \/ FailScan(r)
  <2>1. req[r].at \in {"commit", "save", "fail"}
        /\ (Answer(r, 201) \/ Answer(r, 204) \/ (req[r].at = "save" /\ Answer(r, 500)))
      BY <1>15 DEF CommitAdd, CommitRemove, SaveScan, FlushFails, FailScan
  <2> QED
      BY <1>0, <1>a, <2>1 DEF Verdict
<1>16. CASE CommitDelete(r)
  <2>1. req[r].at = "commit" /\ req[r].op = "delete"
        /\ (Answer(r, 204)
             \/ (Answer(r, 500) /\ ~(IdsOf(collabs \cup scans) \subseteq req[r].loaded)))
      BY <1>16 DEF CommitDelete
  <2>2. CASE Answer(r, 204)
      BY <1>0, <1>a, <2>1, <2>2 DEF Verdict
  <2>3. CASE Answer(r, 500) /\ ~(IdsOf(collabs \cup scans) \subseteq req[r].loaded)
    <3>1. req'[r].code = 500
        BY <1>0, <1>a, <2>3
    <3> QED
        BY <2>1, <2>3, <3>1 DEF Verdict
  <2> QED
      BY <2>1, <2>2, <2>3
<1>17. CASE CommitUpdate(r)
    BY <1>0, <1>17, <1>a DEF CommitUpdate, Verdict
<1> QED
    BY <1>2, <1>3, <1>4, <1>5, <1>6, <1>7, <1>8, <1>9, <1>10, <1>11, <1>12, <1>13, <1>14, <1>15, <1>16, <1>17
    DEF Handles, Enters, Works, Commits

\* Which operations come by a step.
Place(x) ==
    /\ x.at \notin {"idle", "answered"} => x.op \in OwnerOps \cup MemberOps
    /\ x.at = "scan" => x.op = "get_scan"
    /\ x.at = "row" => x.op = "remove"
    /\ x.at = "load" => x.op = "delete"
    /\ x.at = "write" => x.op = "upload"
    /\ x.at = "collab" /\ x.op # "add" => x.op \in MemberOps /\ x.user # Owner
    /\ x.at = "commit" => x.op \in {"add", "remove", "delete", "upload", "update"}
Places == \A r \in Requests : Place(req[r])

LEMMA FirstStepPlaces ==
    ASSUME NEW op \in OwnerOps \cup MemberOps
    PROVE  /\ FirstStep(op) = "row" => op = "remove"
           /\ FirstStep(op) = "load" => op = "delete"
           /\ FirstStep(op) = "write" => op = "upload"
           /\ FirstStep(op) = "collab" => op = "add"
           /\ FirstStep(op) = "commit" => op = "update"
<1>1. CASE op = "add"
  <2>1. FirstStep(op) = "collab"
      BY <1>1 DEF FirstStep
  <2> QED
      BY <1>1, <2>1
<1>2. CASE op = "remove"
  <2>1. FirstStep(op) = "row"
      BY <1>2 DEF FirstStep
  <2> QED
      BY <1>2, <2>1
<1>3. CASE op = "delete"
  <2>1. FirstStep(op) = "load"
      BY <1>3 DEF FirstStep
  <2> QED
      BY <1>3, <2>1
<1>4. CASE op = "upload"
  <2>1. FirstStep(op) = "write"
      BY <1>4 DEF FirstStep
  <2> QED
      BY <1>4, <2>1
<1>5. CASE op = "update"
  <2>1. FirstStep(op) = "commit"
      BY <1>5 DEF FirstStep
  <2> QED
      BY <1>5, <2>1
<1>6. CASE op = "create_scan"
  <2>1. FirstStep(op) = "insert"
      BY <1>6 DEF FirstStep
  <2> QED
      BY <2>1
<1>7. CASE op \in {"show", "list_scans", "get_scan"}
  <2>1. FirstStep(op) = "query"
      BY <1>7 DEF FirstStep
  <2> QED
      BY <2>1
<1> QED
    BY <1>1, <1>2, <1>3, <1>4, <1>5, <1>6, <1>7 DEF OwnerOps, MemberOps

LEMMA PlacesStep == ScannerTypeOK /\ Places /\ [MCNext]_mcVars => Places'
<1> SUFFICES ASSUME ScannerTypeOK, Places, [MCNext]_mcVars PROVE Places'
    OBVIOUS
<1> SUFFICES ASSUME NEW r \in Requests PROVE Place(req'[r])
    BY DEF Places
<1>0. Place(req[r])
    BY DEF Places
<1>e. ASSUME NEW x, x.at = "answered" PROVE Place(x)
    BY <1>e DEF Place
<1>1. ASSUME NEW other \in Requests, NEW user \in Users, NEW op \in OwnerOps \cup MemberOps,
             Arrive(other, op, user)
      PROVE  Place(req'[r])
  <2>1. CASE r = other
    <3>1. req'[r].at = (IF op = "get_scan" THEN "scan" ELSE "project") /\ req'[r].op = op
        BY <1>1, <2>1, ArriveEffect
    <3> QED
        BY <3>1 DEF Place
  <2>2. CASE r # other
      BY <1>0, <1>1, <2>2, ArriveEffect
  <2> QED
      BY <2>1, <2>2
<1>2. CASE Moved(r) /\ Goes(req[r], req'[r])
  <2> DEFINE x == req[r]
             y == req'[r]
  <2>1. Place(x) /\ Goes(x, y) /\ x.op \in OwnerOps \cup MemberOps
      BY <1>0, <1>2 DEF Moved, Active, Place
  <2> SUFFICES Place(y)
      OBVIOUS
  <2> HIDE DEF x, y
  <2>2. y.op = x.op /\ y.user = x.user
      BY <2>1 DEF Goes
  <2>3. CASE y.at = FirstStep(x.op)
    <3>1. y.at \in {"collab", "row", "load", "write", "commit", "insert", "query"}
        BY <2>1, <2>3, FirstStepFits
    <3> QED
        BY <2>1, <2>2, <2>3, <3>1, FirstStepPlaces DEF Place
  <2>4. CASE y.at \in {"project", "insert", "pending", "running", "save", "fail"}
      BY <2>1, <2>2, <2>4 DEF Place
  <2>6. CASE y.at = "commit" /\ (x.at \in {"row", "load", "write"} \/ x.op = "add")
      BY <2>1, <2>2, <2>6 DEF Place
  <2>5. CASE x.user # Owner /\ x.op \notin OwnerOps /\ y.at = "collab"
      BY <2>1, <2>2, <2>5 DEF Place
  <2> QED
      BY <2>1, <2>3, <2>4, <2>5, <2>6 DEF Goes
<1>3. ASSUME NEW other \in Requests, Moved(other) PROVE Place(req'[r])
    BY <1>0, <1>2, <1>3, <1>e DEF Moved, Ended
<1>4. CASE Lose
    BY <1>0, <1>4, <1>e, LoseEffect DEF Ended
<1>5. CASE UNCHANGED req
    BY <1>0, <1>5
<1> QED
    BY <1>1, <1>3, <1>4, <1>5, RequestsStep

\* The request has got past the checks of access.
Inside(r) ==
    \/ req[r].at \in {"query", "insert", "row", "load", "write", "commit", "pending", "running", "save", "fail"}
    \/ req[r].at = "collab" /\ req[r].op = "add"

\* What is true is noted, and who got in was let in.
MomentsInv == \A r \in Requests :
    /\ Active(r) => TrueNow(r) \subseteq moments[r]
    /\ Inside(r) => 200 \in moments[r]

\* A request that has had the server to itself finds what it has seen.
Alone(r) ==
    /\ \A other \in Requests \ {r} : ~Active(other)
    /\ Inside(r) => project.exists
    /\ req[r].op = "get_scan" /\ req[r].at = "project" => req[r].id \in IdsOf(scans)
    /\ req[r].op = "delete" /\ req[r].at = "commit" => IdsOf(collabs \cup scans) \subseteq req[r].loaded
LoneInv == \A r \in Requests : Active(r) /\ ~overlap[r] => Alone(r)

LEMMA InsideIsActive ==
    ASSUME NEW r \in Requests, Inside(r)
    PROVE  Active(r)
    BY DEF Inside, Active

LEMMA ObserveEffect ==
    ASSUME Observe, NEW r \in Requests, Active(r)'
    PROVE  /\ moments'[r] = moments[r] \cup TrueNow(r)'
           /\ ~overlap'[r] => ~overlap[r] /\ \A other \in Requests \ {r} : ~Active(other)'
    BY DEF Observe

\* Whoever gets in may.
LEMMA MayComeIn ==
    ASSUME ScannerInv, Places, NEW r \in Requests, Moved(r), Inside(r)'
    PROVE  Inside(r) \/ (project.exists /\ 200 \in TrueNow(r)')
<1> DEFINE x == req[r]
           y == req'[r]
<1>1. Place(x) /\ Goes(x, y) /\ UNCHANGED <<project, collabs, scans, smells>>
  <2>1. ~Ended(req'[r])
      BY DEF Ended, Inside
  <2> QED
      BY <2>1 DEF Moved, Places
<1>2. y.op = x.op /\ y.user = x.user /\ (y.at # "collab" \/ y.op = "add") /\ y.at # "project"
    BY <1>1 DEF Goes, Inside
<1>3. project.exists' /\ MayEnter(r)' => 200 \in TrueNow(r)'
    BY DEF TrueNow
<1>4. CASE x.at = "project" /\ project.exists /\ x.user = Owner
  <2>1. MayEnter(r)'
      BY <1>2, <1>4 DEF MayEnter
  <2> QED
      BY <1>1, <1>3, <1>4, <2>1
<1>5. CASE x.at = "collab" /\ x.op # "add" /\ Cardinality(RowsOf(x.user)) = 1
  <2>1. RowsOf(x.user) # {}
      BY <1>5, FS_EmptySet
  <2>2. x.op \in MemberOps
      BY <1>1, <1>5 DEF Place
  <2>3. RowsOf(req[r].user)' # {} /\ y.op \in MemberOps
      BY <1>1, <1>2, <2>1, <2>2 DEF RowsOf
  <2>4. MayEnter(r)'
      BY <2>3 DEF MayEnter
  <2>5. project.exists
      BY <2>1 DEF ScannerInv, NoOrphans, RowsOf
  <2> QED
      BY <1>1, <1>3, <2>4, <2>5
<1>6. x.at = "project" /\ x.user # Owner => y.at = "collab" /\ y.op # "add"
    BY <1>1, <1>2 DEF Goes, OwnerOps
<1>7. CASE ~Inside(r)
  <2>1. x.at \in {"scan", "project", "collab"} /\ (x.at = "collab" => x.op # "add")
      BY <1>1, <1>7 DEF Goes, Inside
  <2>2. x.at # "scan"
      BY <1>1, <1>2 DEF Goes
  <2> QED
      BY <1>1, <1>2, <1>4, <1>5, <1>6, <2>1, <2>2 DEF Goes
<1> QED
    BY <1>7

LEMMA InsideStep ==
    ASSUME ScannerInv, Places, [MCNext]_mcVars, NEW r \in Requests, Inside(r)'
    PROVE  Inside(r) \/ 200 \in TrueNow(r)'
<1>0. ScannerTypeOK
    BY DEF ScannerInv
<1>s. ASSUME req'[r] = req[r] PROVE Inside(r)
    BY <1>s DEF Inside
<1>1. ASSUME NEW other \in Requests, NEW user \in Users, NEW op \in OwnerOps \cup MemberOps,
             Arrive(other, op, user)
      PROVE  Inside(r)
  <2>1. req'[other].at = (IF op = "get_scan" THEN "scan" ELSE "project")
      BY <1>0, <1>1, ArriveEffect
  <2>2. other # r
      BY <2>1 DEF Inside
  <2> QED
      BY <1>0, <1>1, <1>s, <2>2, ArriveEffect
<1>2. ASSUME NEW other \in Requests, Moved(other) PROVE Inside(r) \/ 200 \in TrueNow(r)'
  <2>1. CASE other = r
      BY <1>2, <2>1, MayComeIn
  <2>2. CASE other # r
      BY <1>2, <1>s, <2>2 DEF Moved
  <2> QED
      BY <2>1, <2>2
<1>3. CASE Lose
  <2>1. ~Ended(req'[r])
      BY DEF Ended, Inside
  <2> QED
      BY <1>0, <1>3, <1>s, <2>1, LoseEffect
<1>4. CASE UNCHANGED req
    BY <1>4, <1>s
<1> QED
    BY <1>0, <1>1, <1>2, <1>3, <1>4, RequestsStep

LEMMA MomentsStep == ScannerInv /\ Places /\ MomentsInv /\ [MCNext]_mcVars => MomentsInv'
<1> SUFFICES ASSUME ScannerInv, ScannerTypeOK, Places, MomentsInv, [MCNext]_mcVars PROVE MomentsInv'
    BY DEF ScannerInv
<1>1. CASE UNCHANGED <<tables, req>> /\ UNCHANGED history
    BY <1>1 DEF MomentsInv, Active, Inside, TrueNow, Missing, MayEnter, RowsOf, Twice, tables, history
<1>2. ASSUME Observe PROVE MomentsInv'
  <2> SUFFICES ASSUME NEW r \in Requests
               PROVE  /\ Active(r)' => TrueNow(r)' \subseteq moments'[r]
                      /\ Inside(r)' => 200 \in moments'[r]
      BY DEF MomentsInv
  <2>1. Active(r)' => moments'[r] = moments[r] \cup TrueNow(r)'
      BY <1>2, ObserveEffect
  <2>2. Inside(r)' => Active(r)'
      BY DEF Inside, Active
  <2> QED
      BY <2>1, <2>2, InsideStep DEF MomentsInv
<1> QED
    BY <1>1, <1>2, RequestsStep

\* Alone, a request goes on alone.
LEMMA AloneGoesOn ==
    ASSUME ScannerInv, Places, NEW r \in Requests, Moved(r), Alone(r), Active(r)',
           \A other \in Requests \ {r} : ~Active(other)'
    PROVE  Alone(r)'
<1> DEFINE x == req[r]
           y == req'[r]
<1>1. Place(x) /\ Goes(x, y) /\ UNCHANGED <<project, collabs, scans, smells>> /\ y.op = x.op /\ x.at # "answered"
  <2>1. ~Ended(req'[r])
      BY DEF Ended, Active
  <2> QED
      BY <2>1 DEF Moved, Places, Goes, Active
<1>2. Inside(r)' => project.exists'
  <2>1. CASE Inside(r)
      BY <1>1, <2>1 DEF Alone
  <2>2. CASE project.exists
      BY <1>1, <2>2
  <2> QED
      BY <2>1, <2>2, MayComeIn
<1>3. CASE y.op = "get_scan" /\ y.at = "project"
  <2>1. x.at = "scan" /\ y.id = x.id /\ x.id \in IdsOf(scans)
      BY <1>1, <1>3, FirstStepFits DEF Goes
  <2> QED
      BY <1>1, <1>2, <1>3, <2>1 DEF Alone
<1>4. CASE y.op = "delete" /\ y.at = "commit"
  <2>1. FirstStep(x.op) # "commit"
      BY <1>1, <1>4, FirstStepPlaces DEF OwnerOps
  <2>2. x.at \notin {"row", "write"}
      BY <1>1, <1>4 DEF Place
  <2>3. y.loaded = IdsOf(collabs \cup scans)
      BY <1>1, <1>4, <2>1, <2>2 DEF Goes
  <2> QED
      BY <1>1, <1>2, <1>4, <2>3 DEF Alone
<1> QED
    BY <1>2, <1>3, <1>4 DEF Alone

LEMMA LoneStep == ScannerInv /\ Places /\ LoneInv /\ [MCNext]_mcVars => LoneInv'
<1> SUFFICES ASSUME ScannerInv, ScannerTypeOK, Places, LoneInv, [MCNext]_mcVars PROVE LoneInv'
    BY DEF ScannerInv
<1>1. CASE UNCHANGED <<tables, req>> /\ UNCHANGED history
    BY <1>1 DEF LoneInv, Alone, Active, Inside, tables, history
<1>2. ASSUME Observe PROVE LoneInv'
  <2> SUFFICES ASSUME NEW r \in Requests, Active(r)', ~overlap'[r] PROVE Alone(r)'
      BY DEF LoneInv
  <2>1. ~overlap[r] /\ \A other \in Requests \ {r} : ~Active(other)'
      BY <1>2, ObserveEffect
  <2>s. ASSUME req'[r] = req[r] PROVE Alone(r)
      BY <2>1, <2>s DEF LoneInv, Active
  <2>2. ASSUME NEW other \in Requests, NEW user \in Users, NEW op \in OwnerOps \cup MemberOps,
               Arrive(other, op, user)
        PROVE  Alone(r)'
    <3>1. req'[other].at = (IF op = "get_scan" THEN "scan" ELSE "project") /\ req'[other].op = op
        BY <2>2, ArriveEffect
    <3>2. other = r
        BY <2>1, <3>1 DEF Active
    <3> QED
        BY <2>1, <3>1, <3>2 DEF Alone, Inside
  <2>3. ASSUME NEW other \in Requests, Moved(other) PROVE Alone(r)'
    <3>1. CASE other = r
      <4>1. Active(r)
          BY <2>3, <3>1 DEF Moved
      <4> QED
          BY <2>1, <2>3, <3>1, <4>1, AloneGoesOn DEF LoneInv
    <3>2. CASE other # r
        BY <2>3, <2>s, <3>2 DEF Moved, Alone
    <3> QED
        BY <3>1, <3>2
  <2>4. CASE Lose
    <3>1. ~Ended(req'[r])
        BY DEF Ended, Active
    <3> QED
        BY <2>4, <3>1, LoseEffect DEF Active
  <2>5. CASE UNCHANGED <<tables, req>>
      BY <2>1, <2>5, <2>s DEF Alone, Active, Inside, tables
  <2> QED
      BY <2>2, <2>3, <2>4, <2>5, RequestsStep
<1> QED
    BY <1>1, <1>2, RequestsStep

AnswerInv == ScannerInv /\ RaceInv /\ Places /\ MomentsInv /\ LoneInv

LEMMA AnswerInvHolds == MCSpec => []AnswerInv
<1>1. MCInit => Places /\ MomentsInv /\ LoneInv
  <2> SUFFICES ASSUME MCInit PROVE Places /\ MomentsInv /\ LoneInv
      OBVIOUS
  <2>1. \A r \in Requests : req[r].at = "idle"
      BY DEF MCInit, ScannerInit, Idle
  <2> QED
      BY <2>1 DEF Places, Place, MomentsInv, LoneInv, Active, Inside
<1>2. Places /\ MomentsInv /\ LoneInv /\ ScannerInv /\ ScannerInv' /\ [MCNext]_mcVars
      => (Places /\ MomentsInv /\ LoneInv)'
    BY PlacesStep, MomentsStep, LoneStep DEF ScannerInv
<1>3. RaceInv /\ ScannerInv /\ [MCNext]_mcVars => RaceInv'
    BY RaceStep
<1> QED
    BY <1>1, <1>2, <1>3, RaceInvInit, HistoryInvariant, PTL DEF MCSpec, AnswerInv

\* A request is answered by a step of its own, or its connection breaks.
LEMMA AnswerComes ==
    ASSUME ScannerTypeOK, [MCNext]_mcVars, NEW r \in Requests, Answered(r)
    PROVE  Verdict(req[r], req'[r].code) \/ req'[r].code = 1
<1>1. ASSUME NEW other \in Requests, NEW user \in Users, NEW op \in OwnerOps \cup MemberOps,
             Arrive(other, op, user)
      PROVE  FALSE
  <2>1. req'[other].at # "answered" /\ ~Active(other)
      BY <1>1, ArriveEffect
  <2> QED
      BY <1>1, <2>1, ArriveEffect DEF Answered, Active
<1>2. ASSUME NEW other \in Requests, Handles(other), Moved(other) PROVE Verdict(req[r], req'[r].code)
  <2>1. other = r
      BY <1>2 DEF Moved, Answered, Active
  <2> QED
      BY <1>2, <2>1, VerdictOfHandler DEF Answered
<1>3. CASE Lose
  <2>1. req'[r] = [Idle EXCEPT !.at = "answered", !.code = 1]
      BY <1>3 DEF Lose, Answered
  <2> QED
      BY <2>1 DEF Idle
<1>4. ~UNCHANGED req
    BY DEF Answered, Active
<1> QED
    BY <1>1, <1>2, <1>3, <1>4, RequestsStep

\* Several rows of a user, so that a check for one raises.
LEMMA SeveralRows ==
    ASSUME ScannerInv, RaceInv, NEW r \in Requests, NEW user \in Users, Cardinality(RowsOf(user)) \notin {0, 1}
    PROVE  500 \in TrueNow(r)
<1>1. Cardinality(RowsOf(user)) \in Nat
    BY FS_Subset, FS_CardinalityType DEF RaceInv, RowsOf
<1>2. Twice
    BY <1>1 DEF Twice
<1> QED
    BY <1>2 DEF TrueNow

LEMMA NoRows ==
    ASSUME RaceInv, NEW user, Cardinality(RowsOf(user)) = 0
    PROVE  RowsOf(user) = {}
<1>1. IsFiniteSet(RowsOf(user))
    BY FS_Subset DEF RaceInv, RowsOf
<1> QED
    BY <1>1, FS_EmptySet

\* What a verdict says agrees with the database, or was noted before.
LEMMA VerdictsAreTrue ==
    ASSUME AnswerInv, NEW r \in Requests, Active(r), NEW code, Verdict(req[r], code)
    PROVE  /\ code \in {200, 201, 204} => 200 \in moments[r]
           /\ code \in {400, 403, 404} => code \in moments[r]
           /\ code = 500 => overlap[r] \/ 500 \in moments[r] \/ req[r].at = "save"
<1> DEFINE x == req[r]
<1>0. /\ TrueNow(r) \subseteq moments[r] /\ (Inside(r) => 200 \in moments[r])
      /\ Place(x) /\ Fit(x) /\ x \in Request
      /\ (~overlap[r] => Alone(r))
    BY DEF AnswerInv, MomentsInv, LoneInv, Places, ScannerInv, Fits, ScannerTypeOK
<1>1. CASE x.at = "scan" /\ x.id \notin IdsOf(scans) /\ code = 404
  <2>1. Missing(r)
      BY <1>0, <1>1 DEF Place, Missing
  <2> QED
      BY <1>0, <1>1, <2>1 DEF TrueNow
<1>2. CASE x.at = "project" /\ ~project.exists /\ (code = 404 \/ (code = 500 /\ x.op = "get_scan"))
  <2>1. 404 \in TrueNow(r)
      BY <1>2 DEF Missing, TrueNow
  <2>2. x.op = "get_scan" => overlap[r]
      BY <1>0, <1>2 DEF AnswerInv, ScannerInv, NoOrphans, Alone, IdsOf
  <2> QED
      BY <1>0, <1>2, <2>1, <2>2
<1>3. CASE x.at = "project" /\ x.op = "add" /\ x.target = Stranger /\ code = 404
  <2>1. Missing(r)
      BY <1>3 DEF Missing
  <2> QED
      BY <1>0, <1>3, <2>1 DEF TrueNow
<1>4. CASE x.at = "project" /\ x.op = "add" /\ x.target = Owner /\ code = 400
    BY <1>0, <1>4 DEF TrueNow
<1>5. CASE x.at = "project" /\ x.user # Owner /\ x.op \in OwnerOps /\ code = 403
  <2>1. ~MayEnter(r)
      BY <1>5 DEF MayEnter, OwnerOps, MemberOps
  <2> QED
      BY <1>0, <1>5, <2>1 DEF TrueNow
<1>6. CASE x.at = "collab" /\ x.op = "add" /\ Cardinality(RowsOf(x.target)) = 1 /\ code = 400
  <2>1. RowsOf(x.target) # {}
      BY <1>6, FS_EmptySet
  <2> QED
      BY <1>0, <1>6, <2>1 DEF TrueNow
<1>7. CASE x.at = "collab" /\ x.op = "add" /\ Cardinality(RowsOf(x.target)) \notin {0, 1} /\ code = 500
  <2>1. x.target \in Users
      BY <1>0, <1>7 DEF Fit, Early, Request
  <2>2. 500 \in TrueNow(r)
      BY <1>7, <2>1, SeveralRows DEF AnswerInv
  <2> QED
      BY <1>0, <1>7, <2>2
<1>8. CASE x.at = "collab" /\ x.op # "add" /\ Cardinality(RowsOf(x.user)) = 0 /\ code = 403
  <2>1. RowsOf(x.user) = {} /\ x.user # Owner
      BY <1>0, <1>8, NoRows DEF AnswerInv, Place
  <2>2. ~MayEnter(r)
      BY <2>1 DEF MayEnter
  <2> QED
      BY <1>0, <1>8, <2>2 DEF TrueNow
<1>9. CASE x.at = "collab" /\ x.op # "add" /\ Cardinality(RowsOf(x.user)) \notin {0, 1} /\ code = 500
  <2>1. x.user \in Users
      BY <1>0 DEF Request
  <2>2. 500 \in TrueNow(r)
      BY <1>9, <2>1, SeveralRows DEF AnswerInv
  <2> QED
      BY <1>0, <1>9, <2>2
<1>10. CASE x.at = "row" /\ x.id \notin IdsOf(collabs) /\ code = 404
  <2>1. Missing(r)
      BY <1>0, <1>10 DEF Place, Missing
  <2> QED
      BY <1>0, <1>10, <2>1 DEF TrueNow
<1>11. CASE x.at = "write" /\ code = 400
  <2>1. x.op = "upload"
      BY <1>0, <1>11 DEF Place
  <2> QED
      BY <1>0, <1>11, <2>1 DEF TrueNow
<1>12. CASE x.at \in {"insert", "commit"} /\ ~project.exists /\ code = 500
    BY <1>0, <1>12 DEF Alone, Inside
<1>13. CASE x.at = "commit" /\ x.op = "delete" /\ ~(IdsOf(collabs \cup scans) \subseteq x.loaded) /\ code = 500
    BY <1>0, <1>13 DEF Alone
<1>14. CASE x.at = "save" /\ code = 500
    BY <1>14
<1>15. CASE x.at \in {"query", "commit", "save", "fail"} /\ code \in {200, 201, 204}
    BY <1>0, <1>15 DEF Inside
<1> HIDE DEF x
<1>16. Verdict(x, code)
    BY DEF x
<1> QED
    BY <1>1, <1>2, <1>3, <1>4, <1>5, <1>6, <1>7, <1>8, <1>9, <1>10, <1>11, <1>12, <1>13, <1>14, <1>15, <1>16
    DEF Verdict

LEMMA AnswersStep ==
    ASSUME AnswerInv, [MCNext]_mcVars, NEW r \in Requests, Answered(r)
    PROVE  /\ req'[r].code \in {200, 201, 204} => 200 \in moments[r]
           /\ req'[r].code \in {400, 403, 404} => req'[r].code \in moments[r]
           /\ req'[r].code = 500 => overlap[r] \/ 500 \in moments[r] \/ req[r].at = "save"
<1>1. ScannerTypeOK
    BY DEF AnswerInv, ScannerInv
<1>2. CASE req'[r].code = 1
    BY <1>2
<1>3. CASE Verdict(req[r], req'[r].code)
    BY <1>3, VerdictsAreTrue DEF Answered
<1> QED
    BY <1>1, <1>2, <1>3, AnswerComes

\* Every answer is true: a success was allowed, and a refusal was right, at some
\* moment of the request, for any number of requests in progress at once
\* (projects.py, scans.py: the checks at the head of every handler).
THEOREM AnswersHold == MCSpec => AnswersAreTrue
<1>1. AnswerInv /\ [MCNext]_mcVars =>
        [\A r \in Requests : Answered(r) =>
            LET code == req'[r].code IN
            /\ code \in {200, 201, 204} => 200 \in moments[r]
            /\ code \in {400, 403, 404} => code \in moments[r]]_mcVars
    BY AnswersStep
<1> QED
    BY <1>1, AnswerInvHolds, PTL DEF MCSpec, AnswersAreTrue

\* A request that had the server to itself fails for no other reason than
\* double rows or results the database refuses, however long the history.
THEOREM LoneRequestsDo == MCSpec => LoneRequestsSucceed
<1>1. AnswerInv /\ [MCNext]_mcVars =>
        [\A r \in Requests : Answered(r) /\ req'[r].code = 500 =>
            overlap[r] \/ 500 \in moments[r] \/ req[r].at = "save"]_mcVars
    BY AnswersStep
<1> QED
    BY <1>1, AnswerInvHolds, PTL DEF MCSpec, LoneRequestsSucceed

-----------------------------------------------------------------------------
(* Who can go on. A step that a request comes to has a handler for its     *)
(* operation, a file on the disk is of a kind that a scan knows, and what  *)
(* a delete waits for waits for nobody.                                    *)

FilesAreOfKind == \A p \in Paths : disk[p].file => disk[p].kind \in Kinds

LEMMA FilesStep == ScannerTypeOK /\ FilesAreOfKind /\ [ScannerNext]_vars => FilesAreOfKind'
<1> SUFFICES ASSUME ScannerTypeOK, FilesAreOfKind, [ScannerNext]_vars PROVE FilesAreOfKind'
    OBVIOUS
<1>0. disk \in [Paths -> Upload]
    BY DEF ScannerTypeOK
<1>1. CASE disk' = disk
    BY <1>1 DEF FilesAreOfKind
<1>2. ASSUME NEW r \in Requests, NEW extent, ExtractTo(r, extent) PROVE FilesAreOfKind'
  <2>1. \A p \in Paths : disk'[p].file = disk[p].file /\ disk'[p].kind = disk[p].kind
      BY <1>0, <1>2 DEF ExtractTo, Upload
  <2> QED
      BY <2>1 DEF FilesAreOfKind
<1>3. ASSUME NEW r \in Requests, Handles(r) PROVE FilesAreOfKind'
  <2>1. CASE WriteUpload(r)
    <3>1. ASSUME NEW p \in Paths, NEW kind \in Kinds,
                 disk' = [disk EXCEPT ![p] = [kind |-> kind, file |-> TRUE, extracted |-> "no"]]
          PROVE  FilesAreOfKind'
      <4>1. disk'[p].kind = kind /\ \A q \in Paths \ {p} : disk'[q] = disk[q]
          BY <1>0, <3>1
      <4> QED
          BY <4>1 DEF FilesAreOfKind
    <3> QED
        BY <1>1, <2>1, <3>1 DEF WriteUpload
  <2>2. CASE ScanArchive(r)
    <3>1. disk' = disk \/ \E extent : ExtractTo(r, extent)
        BY <2>2 DEF ScanArchive
    <3> QED
        BY <1>1, <1>2, <3>1
  <2>3. CASE Enters(r) \/ Commits(r)
      BY <1>1, <2>3, EntersMoves, CommitsMoves
  <2> QED
      BY <1>1, <1>3, <2>1, <2>2, <2>3
      DEF Handles, Works, Query, Insert, SelectRow, LoadChildren, StartScan, Analyse, ScanClone,
          ScanOther, ScanExtracted
<1>4. ASSUME NEW p \in Paths, cleanup_old_snapshots(p) PROVE FilesAreOfKind'
  <2>1. \A q \in Paths : disk'[q].kind = disk[q].kind /\ (disk'[q].file => disk[q].file)
      BY <1>0, <1>4 DEF cleanup_old_snapshots, Upload
  <2> QED
      BY <2>1 DEF FilesAreOfKind
<1> QED
    BY <1>1, <1>2, <1>3, <1>4 DEF ScannerNext, vars, Arrive, Crash, CrashExtracting

\* A request in progress is ready, or deletes and waits.
LEMMA ReadyOrDeletes ==
    ASSUME ScannerTypeOK, Places, FilesAreOfKind, NEW r \in Requests, Active(r)
    PROVE  Ready(r) \/ (req[r].at = "commit" /\ req[r].op = "delete" /\ Waits(r))
<1>0. req[r] \in Request /\ Place(req[r])
    BY DEF ScannerTypeOK, Places
<1>1. CASE req[r].at = "running"
  <2>1. CASE Snapshot(r).file
    <3>1. req[r].path \in Paths /\ Snapshot(r) = disk[req[r].path]
        BY <1>0, <2>1 DEF Snapshot, NotUploaded, Request
    <3>2. Snapshot(r).kind \in Kinds
        BY <2>1, <3>1 DEF FilesAreOfKind
    <3> QED
        BY <1>1, <2>1, <3>2 DEF Ready, Extracting, Kinds
  <2> QED
      BY <1>1, <2>1 DEF Ready
<1>2. CASE req[r].at = "commit"
    BY <1>0, <1>2 DEF Place, Ready, Waits
<1>3. CASE req[r].at \notin {"running", "commit"}
    BY <1>0, <1>3 DEF Active, Request, Ready
<1> QED
    BY <1>1, <1>2, <1>3

LEMMA ReadyInvImplies == ScannerTypeOK /\ Places /\ FilesAreOfKind => SomebodyIsReady
<1> SUFFICES ASSUME ScannerTypeOK, Places, FilesAreOfKind, NEW r \in Requests, Active(r), ~Ready(r)
    PROVE  Waits(r) /\ \A other \in Requests : HasInserted(other) => Ready(other)
    BY DEF SomebodyIsReady
<1>1. Waits(r)
    BY ReadyOrDeletes
<1>2. ASSUME NEW other \in Requests, HasInserted(other) PROVE Ready(other)
    BY <1>2, ReadyOrDeletes DEF HasInserted, Active
<1> QED
    BY <1>1, <1>2

\* Every request in progress finds the condition of its next step true, or
\* deletes the project and waits for inserted rows, whose requests find theirs
\* true: nobody waits for ever. TLC checks that such a request is enabled
\* (projects.py:183-195, scan_service.py:62-119).
THEOREM NobodyIsStuck == MCSpec => []SomebodyIsReady
<1>1. MCInit => FilesAreOfKind
    BY DEF MCInit, ScannerInit, FilesAreOfKind, NotUploaded
<1>2. ScannerInv /\ FilesAreOfKind /\ [MCNext]_mcVars => FilesAreOfKind'
    BY HistoryLooksOn, FilesStep DEF ScannerInv
<1>3. AnswerInv /\ FilesAreOfKind => SomebodyIsReady
    BY ReadyInvImplies DEF AnswerInv, ScannerInv
<1> QED
    BY <1>1, <1>2, <1>3, HistoryInvariant, AnswerInvHolds, PTL DEF MCSpec
===============================================================================
