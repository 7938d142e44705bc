-------------------------------- MODULE MCParts --------------------------------
(***************************************************************************)
(* The parts of the repository that share nothing: TLC explores one of     *)
(* them, chosen at first, and leaves the variables of the others alone.    *)
(* Below, the files, photos and rows that they work on.                    *)
(***************************************************************************)
EXTENDS HttpServer, MCLoadBalancer, MCAnalyzer, MCMerger, PhotoBatch,
        RagEvaluation, RaceAdd, BatchQuery, CarPrediction, SkillDispatch

VARIABLE part

partsVars == <<part, serverVars, mcVars, analyzerVars, mergerVars, photoVars, ragVars,
               addVars, batchVars, carVars, skillVars>>

PartsInit ==
    /\ part \in {"server", "balancer", "analyzer", "merger", "photos", "rag", "adders",
                 "batch", "cars", "skills"}
    /\ ServerInit /\ MCInit /\ AnalyzerInit /\ MergerInit /\ PhotoInit /\ RagInit
    /\ AddInit /\ BatchInit /\ CarInit /\ SkillInit

\* The parts other than p do nothing.
Only(p) ==
    /\ part = p /\ UNCHANGED part
    /\ IF p = "server" THEN TRUE ELSE UNCHANGED serverVars
    /\ IF p = "balancer" THEN TRUE ELSE UNCHANGED mcVars
    /\ IF p = "analyzer" THEN TRUE ELSE UNCHANGED analyzerVars
    /\ IF p = "merger" THEN TRUE ELSE UNCHANGED mergerVars
    /\ IF p = "photos" THEN TRUE ELSE UNCHANGED photoVars
    /\ IF p = "rag" THEN TRUE ELSE UNCHANGED ragVars
    /\ IF p = "adders" THEN TRUE ELSE UNCHANGED addVars
    /\ IF p = "batch" THEN TRUE ELSE UNCHANGED batchVars
    /\ IF p = "cars" THEN TRUE ELSE UNCHANGED carVars
    /\ IF p = "skills" THEN TRUE ELSE UNCHANGED skillVars

PartsNext ==
    \/ part = "server" /\ ServerNext /\ Only("server")
    \/ part = "balancer" /\ MCNext /\ Only("balancer")
    \/ part = "analyzer" /\ AnalyzerNext /\ Only("analyzer")
    \/ part = "merger" /\ MergerNext /\ Only("merger")
    \/ part = "photos" /\ PhotoNext /\ Only("photos")
    \/ part = "rag" /\ RagNext /\ Only("rag")
    \/ part = "adders" /\ AddNext /\ Only("adders")
    \/ part = "batch" /\ BatchNext /\ Only("batch")
    \/ part = "cars" /\ CarNext /\ Only("cars")
    \/ part = "skills" /\ SkillNext /\ Only("skills")

\* The fairness of HttpServer, for its part.
PartsSpec ==
    /\ PartsInit /\ [][PartsNext]_partsVars
    /\ WF_serverVars(part = "server" /\ MainThread)
    /\ WF_serverVars(part = "server" /\ SignalStops)
    /\ WF_serverVars(part = "server" /\ \E c \in Connections : AcceptCompletes(c))
    /\ SF_serverVars(part = "server" /\ \E t \in Threads : AcceptHandler(t))
    /\ \A t \in Threads : WF_serverVars(part = "server" /\ Proceeds(t))
    /\ \A c \in Connections :
          SF_serverVars(part = "server" /\ \E t \in Threads : ConnectionHandler(t, c))

PartsTypeOK ==
    /\ ServerTypeOK /\ BalancerTypeOK /\ AnalyzerTypeOK /\ MergerTypeOK /\ PhotoTypeOK
    /\ RagTypeOK /\ AddTypeOK /\ BatchTypeOK /\ CarTypeOK /\ SkillTypeOK

-----------------------------------------------------------------------------
(* Photos: a HEIC file and its twin, one that cannot be read, one with a   *)
(* Chinese name, and a text.                                               *)

PhotoName(stem, suffix, zh) == [stem |-> <<stem>>, suffix |-> suffix, zh |-> zh, date |-> ""]
Photo(id, date, readable, width) ==
    [id |-> id, date |-> date, readable |-> readable, width |-> width, height |-> 3000]

PhotoFolder ==
    (PhotoName("a", ".heic", FALSE) :> Photo(1, "d1", TRUE, 4000))
    @@ (PhotoName("a", ".jpg", FALSE) :> Photo(2, "d2", TRUE, 9000))
    @@ (PhotoName("a", ".heif", FALSE) :> Photo(7, "d1", TRUE, 600))
    @@ (PhotoName("b", ".heic", FALSE) :> Photo(3, "d1", FALSE, 600))
    @@ (PhotoName("c", ".png", TRUE) :> Photo(4, "d1", TRUE, 600))
    @@ (PhotoName("d", ".gif", FALSE) :> Photo(5, "d1", FALSE, 600))
    @@ (PhotoName("n", ".txt", FALSE) :> Photo(6, "d1", FALSE, 1))

(* Documents in three encodings; urls; sales; and skills of which two have *)
(* one name, and two fit one word.                                         *)

RagDocuments ==
    {[name |-> "a", text |-> "ascii", parts |-> 1], [name |-> "g", text |-> "gbk", parts |-> 1]}

SomeUrls == [i \in 0 .. 4 |-> i # 2]

Sale(id, date, class, sold) == [id |-> id, date |-> date, class |-> class, sold |-> sold]
SaleFiles ==
    {{Sale(1, 201612, 1, 3), Sale(2, 201612, 1, 5), Sale(3, 201701, 1, 6), Sale(4, 201701, 2, 7)},
     {Sale(1, 201201, 1, 1)}, {}}
FilesToPredict ==
    {<<[date |-> 201712, class |-> 1], [date |-> 201801, class |-> 0]>>,
     <<[date |-> 201801, class |-> 2]>>, <<>>}
MethodLists == {<<>>, <<1>>, <<2>>, <<2, 1>>, <<1, 2>>, <<2, 2>>, <<3>>}

SkillDir(dir, name, keywords, script, handler) ==
    [dir |-> dir, name |-> name, keywords |-> keywords, script |-> script, handler |-> handler]
SkillFolders ==
    {SkillDir("greeting", "greeting", {"hi", "hello"}, "run", "returns"),
     SkillDir("hello", "greeting", {"hello"}, "no run", "returns"),
     SkillDir("leave", "bye", {"bye"}, "run", "exits"),
     SkillDir("fail", "fail", {"hi", "bye"}, "run", "raises"),
     SkillDir("broken", "broken", {"hi"}, "raises", "returns"),
     SkillDir("empty", "", {}, "run", "returns")}
=============================================================================
