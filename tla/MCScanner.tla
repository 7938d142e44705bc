------------------------------- MODULE MCScanner -------------------------------
(***************************************************************************)
(* The scanner's backend with a history of what was true while a request   *)
(* was in progress, to relate its answer to the state of the project.      *)
(***************************************************************************)
EXTENDS Scanner

VARIABLES
    moments,  \* moments[r]: what was true at some moment since request r arrived
    overlap,  \* overlap[r]: another request was in progress meanwhile
    raced,    \* two requests to add the same user were past their check at once
    broken    \* the process was killed while it extracted an archive

history == <<moments, overlap, raced, broken>>
mcVars == <<vars, history>>

MayEnter(r) == req[r].user = Owner
               \/ (req[r].op \in MemberOps /\ RowsOf(req[r].user) # {})

Missing(r) ==
    \/ ~project.exists
    \/ req[r].op = "add" /\ req[r].target = Stranger
    \/ req[r].op = "remove" /\ req[r].id \notin IdsOf(collabs)
    \/ req[r].op = "get_scan" /\ req[r].id \notin IdsOf(scans)

Twice == \E user \in Users : Cardinality(RowsOf(user)) > 1

\* The answers to r that agree with the database as it is now.
TrueNow(r) ==
    (IF Missing(r) THEN {404} ELSE {})
    \cup (IF project.exists /\ MayEnter(r) THEN {200} ELSE {403})
    \cup (IF RowsOf(req[r].target) # {} \/ req[r].target = Owner \/ req[r].op = "upload"
          THEN {400} ELSE {})
    \cup (IF Twice THEN {500} ELSE {})

AddsAtOnce == \E r, other \in Requests :
    /\ r # other /\ req[r].op = "add" /\ req[other].op = "add"
    /\ req[r].target = req[other].target
    /\ {req[r].at, req[other].at} \subseteq {"insert", "commit"}

MCInit ==
    /\ ScannerInit
    /\ moments = [r \in Requests |-> {}] /\ overlap = [r \in Requests |-> FALSE]
    /\ raced = FALSE /\ broken = FALSE

\* What is true now counts for the requests in progress.
Observe ==
    /\ moments' = [r \in Requests |-> IF Active(r)' THEN moments[r] \cup TrueNow(r)' ELSE {}]
    /\ overlap' = [r \in Requests |->
                     Active(r)' /\ (overlap[r] \/ \E other \in Requests \ {r} : Active(other)')]
    /\ raced' = (raced \/ AddsAtOnce')

MCNext ==
    \/ \E r \in Requests, user \in Users : \E op \in OwnerOps \cup MemberOps :
          Arrive(r, op, user) /\ UNCHANGED broken /\ Observe
    \/ \E r \in Requests : Handles(r) /\ UNCHANGED broken /\ Observe
    \/ \E r \in Requests : CrashExtracting(r) /\ broken' = TRUE /\ Observe
    \/ \E p \in Paths : cleanup_old_snapshots(p) /\ UNCHANGED broken /\ Observe
    \/ Crash /\ UNCHANGED broken /\ Observe

MCSpec == MCInit /\ [][MCNext]_mcVars

Answered(r) == Active(r) /\ req'[r].at = "answered"

\* Every answer was true at some moment between the request and the answer,
\* although the handler's statements see different states of the database
\* (projects.py, scans.py: the checks at the head of every handler).
AnswersAreTrue ==
    [][\A r \in Requests : Answered(r) =>
          LET code == req'[r].code IN
          /\ code \in {200, 201, 204} => 200 \in moments[r]
          /\ code \in {400, 403, 404} => code \in moments[r]]_mcVars

\* A user gets two rows in project_collaborators, which has no constraint
\* against it, only if two requests were past their check at the same time
\* (projects.py:264-275).
DuplicatesNeedRace ==
    Twice => raced

\* A request that had the server to itself is answered by an internal error
\* only if such duplicates exist (scalar_one_or_none raises) or the database
\* refuses the results of its scan.
LoneRequestsSucceed ==
    [][\A r \in Requests : Answered(r) /\ req'[r].code = 500 =>
          overlap[r] \/ 500 \in moments[r] \/ req[r].at = "save"]_mcVars

\* A scan is COMPLETED although it has seen only a part of the code if the
\* archive is damaged or the process was killed while it extracted it, never
\* because of another scan (scan_service.py:97-99).
PartNeedsDamage ==
    \A s \in scans : s.status = "COMPLETED" /\ s.analysed = "part" =>
        disk[s.path].kind = "damaged" \/ broken

\* The conditions of the handlers' steps: what the next one of r waits for.
Ready(r) ==
    \/ req[r].at \in {"scan", "project", "collab", "query", "insert", "row", "load", "write",
                      "pending", "save", "fail"}
    \/ req[r].at = "running" /\ (\/ ~Snapshot(r).file \/ Snapshot(r).kind = "other"
                                 \/ Snapshot(r).extracted # "no" \/ Extracting(r))
    \/ req[r].at = "commit" /\ req[r].op \in {"add", "remove", "upload", "update"}
    \/ /\ req[r].at = "commit" /\ req[r].op = "delete"
       /\ \A other \in Requests : ~HasInserted(other)

\* Every request is ready, except a delete that waits for rows which others
\* have inserted; those are, so nobody waits for ever (projects.py:193).
Waits(r) == req[r].op = "delete" /\ \E other \in Requests : HasInserted(other)

SomebodyIsReady ==
    \A r \in Requests : Active(r) =>
        \/ Ready(r)
        \/ Waits(r) /\ \A other \in Requests : HasInserted(other) => Ready(other)

\* ... and a request that is ready can go on.
NobodyWaitsForever ==
    SomebodyIsReady /\ \A r \in Requests : Active(r) => (ENABLED Handles(r) <=> Ready(r))
=============================================================================
