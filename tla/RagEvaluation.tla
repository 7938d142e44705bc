----------------------------- MODULE RagEvaluation -----------------------------
(***************************************************************************)
(* The RAG demonstration and its evaluation by RAGAS                       *)
(* (src/Algorithm/MachineLearning/study/RAGAS/ragas-evaluation-demo).      *)
(* main.py loads documents, puts them into a vector store, asks a chain    *)
(* built on the store, and evaluates the chain's answers. A session calls  *)
(* the same classes in any order, as the tests do, and survives their      *)
(* exceptions. A store is an object: the manager and the chain refer to it. *)
(* It has an index of vectors and the documents, which are found by the    *)
(* positions of their vectors; on the disk these are two files.            *)
(***************************************************************************)
EXTENDS Integers, Sequences, FiniteSets, FiniteSetsExt

CONSTANTS
    DocumentFiles,  \* the documents there are: [name, text, parts]
    MaxStores,      \* bound: the stores that one process makes, by creating and by loading
    k               \* retrieval.k

\* A document is split into finitely many parts.
ASSUME RagAssumption ==
    /\ MaxStores \in Nat /\ k \in Nat \ {0}
    /\ IsFiniteSet(DocumentFiles) /\ \A f \in DocumentFiles : f.parts \in Nat

VARIABLES
    mode,          \* "off", "session", main's step, or how main ended
    chunks,        \* what load_file or load_directory returned last
    heap,          \* heap[s]: the chunks whose vectors are in the s-th store, and those it can return
    vector_store,  \* the manager's store, 0 for None
    chain,         \* the store of the chain's retriever, 0 for no chain
    replaced,      \* history: the manager has got another store since the chain was built
    saved,         \* the two files of the saved store; {} is no file or one cut short
    killed,        \* history: a process was killed while it saved
    contexts,      \* the contexts of an answer, if the last call has given one
    report         \* the rating reported, the one deserved, and whether a sample failed

store == <<heap, vector_store, chain, replaced, saved, killed>>
ragVars == <<mode, chunks, store, contexts, report>>

NoReport == [rating |-> -1, deserved |-> -1, failed |-> FALSE]
NotSaved == [index |-> {}, docs |-> {}]
Levels == 0 .. 3  \* needs improvement, fair, good, excellent

RagInit ==
    /\ mode = "off" /\ chunks = {} /\ heap = <<>> /\ vector_store = 0 /\ chain = 0
    /\ replaced = FALSE /\ saved = NotSaved /\ killed = FALSE /\ contexts = {} /\ report = NoReport

\* An operation is called by a session, or by main when it is its turn.
At(step) == mode \in {"session", step}
Goes(step) == mode' = IF mode = "session" THEN mode ELSE step
Raises == mode' = (IF mode = "session" THEN mode ELSE "aborted") /\ contexts' = {}

-----------------------------------------------------------------------------
(* main's first steps, and the documents.                                  *)

StartSession ==
    /\ mode = "off" /\ mode' = "session"
    /\ UNCHANGED <<chunks, store, contexts, report>>

\* Without a key or documents main exits; wrong sizes of chunks raise.
StartMain ==
    /\ mode = "off" /\ mode' \in {"exited", "aborted", "load"}
    /\ UNCHANGED <<chunks, store, contexts, report>>

\* What becomes of a text that is read with an encoding; latin-1 reads all.
Decoded(text, encoding) ==
    IF text \in {"ascii", encoding} THEN {"right"}
    ELSE IF encoding = "latin-1" THEN {"garbled"}
    ELSE IF text = "utf-8" THEN {"garbled", "raises"} ELSE {"raises"}

Parts(f, how) == {[name |-> f.name, part |-> i, how |-> how] : i \in 1 .. f.parts}

\* All files are read with the first encoding that can read all of them. The
\* loader may wrap what it raises so that the encoding does not show: then no
\* other is tried.
Encodings == <<"utf-8", "gbk", "latin-1">>
ReadWith(fs, i) == {h \in [fs -> {"right", "garbled"}] : \A f \in fs : h[f] \in Decoded(f.text, Encodings[i])}
MayFail(fs, i) == \E f \in fs : "raises" \in Decoded(f.text, Encodings[i])

load_directory(fs) ==
    /\ At("load")
    /\ \/ \E i \in DOMAIN Encodings :
             /\ \A j \in 1 .. i - 1 : MayFail(fs, j)
             /\ \E h \in ReadWith(fs, i) : chunks' = UNION {Parts(f, h[f]) : f \in fs}
          /\ Goes("create") /\ contexts' = {}
       \/ MayFail(fs, 1) /\ Raises /\ UNCHANGED chunks
    /\ UNCHANGED <<store, report>>

-----------------------------------------------------------------------------
(* VectorStoreManager.                                                     *)

\* The manager refers to a new store with these contents.
NewStore(contents) ==
    /\ Len(heap) < MaxStores
    /\ heap' = Append(heap, contents)
    /\ vector_store' = Len(heap) + 1
    /\ replaced' = TRUE

\* No documents, or the service that embeds them fails: the old store stays.
create_from_documents ==
    /\ At("create")
    /\ \/ /\ chunks # {} /\ NewStore([index |-> chunks, docs |-> chunks])
          /\ Goes("chain") /\ contexts' = {}
          /\ UNCHANGED <<chunks, chain, saved, killed, report>>
       \/ Raises /\ UNCHANGED <<chunks, store, report>>

\* Mutant: the manager goes on with a copy of its store.
AddsToCopy ==
    /\ mode = "session" /\ contexts' = {}
    /\ vector_store # 0 /\ chunks # {} /\ Len(heap) < MaxStores
    /\ chunks \cap (heap[vector_store].index \cup heap[vector_store].docs) = {}
    /\ heap' = Append(heap, [index |-> heap[vector_store].index \cup chunks,
                            docs |-> heap[vector_store].docs \cup chunks])
    /\ vector_store' = Len(heap) + 1
    /\ UNCHANGED <<chain, replaced, saved, killed, mode, chunks, report>>

\* The documents go into the store that is there, for all who refer to it.
\* Bound: a chunk is added once.
add_documents ==
    /\ mode = "session" /\ contexts' = {}
    /\ \/ /\ vector_store # 0 /\ chunks # {}
          /\ chunks \cap (heap[vector_store].index \cup heap[vector_store].docs) = {}
          /\ heap' = [heap EXCEPT ![vector_store] = [index |-> @.index \cup chunks, docs |-> @.docs \cup chunks]]
          /\ UNCHANGED <<vector_store, chain, replaced, saved, killed>>
       \/ UNCHANGED store
    /\ UNCHANGED <<mode, chunks, report>>

\* save_local writes the index first, then the documents.
save ==
    /\ mode = "session" /\ vector_store # 0 /\ contexts' = {}
    /\ saved' = heap[vector_store]
    /\ UNCHANGED <<mode, chunks, heap, vector_store, chain, replaced, killed, report>>

\* The process is killed in the first file, between the two, or in the second;
\* another one starts anew and finds what is left.
SaveKilled ==
    /\ mode = "session" /\ vector_store # 0 /\ contexts' = {}
    /\ saved' \in {[index |-> {}, docs |-> saved.docs],
                  [index |-> heap[vector_store].index, docs |-> saved.docs],
                  [index |-> heap[vector_store].index, docs |-> {}]}
    /\ heap' = <<>> /\ vector_store' = 0 /\ chain' = 0 /\ chunks' = {}
    /\ replaced' = FALSE /\ killed' = TRUE
    /\ UNCHANGED <<mode, report>>

\* Without two readable files load raises; nothing compares the one with the other.
load ==
    /\ mode = "session" /\ contexts' = {}
    /\ \/ /\ saved.index # {} /\ saved.docs # {}
          /\ NewStore(saved)
          /\ UNCHANGED <<chain, saved, killed>>
       \/ UNCHANGED store
    /\ UNCHANGED <<mode, chunks, report>>

-----------------------------------------------------------------------------
(* RAGChain.                                                               *)

\* The retriever is bound to the store that the manager has now.
RAGChain ==
    /\ At("chain")
    /\ IF vector_store = 0 THEN Raises /\ UNCHANGED <<chain, replaced>>
       ELSE /\ chain' = vector_store /\ replaced' = FALSE
            /\ Goes("query") /\ contexts' = {}
    /\ UNCHANGED <<chunks, heap, vector_store, saved, killed, report>>

Least(m, n) == IF m < n THEN m ELSE n

\* The index gives the positions of the k nearest of its vectors; what is
\* returned are the documents that have these positions, which in a torn store
\* need not be those of the vectors, and a position may have none.
Retrieved(s) == kSubset(Least(k, Cardinality(heap[s].index)), heap[s].docs)

query ==
    /\ At("query") /\ chain # 0
    /\ \/ contexts' \in Retrieved(chain) /\ Goes("evaluate")
       \/ Raises  \* the service fails, or a position has no document
    /\ UNCHANGED <<chunks, store, report>>

-----------------------------------------------------------------------------
(* RagasEvaluator. Scores are tenths, of two samples each.                 *)

NaN == -1
Metrics == <<"faithfulness", "answer_relevancy", "context_precision", "context_recall">>

\* What RAGAS returns: by metric, the scores of the samples, none if it has not
\* computed the metric; in a dictionary of means, as lists (float raises), or
\* as lists without to_pandas.
Scores == {<<9, 9>>, <<9, NaN>>, <<NaN, NaN>>, <<0, 0>>, <<>>}
\* Bound: the last two metrics have the same scores.
Results == [kind : {"means", "lists", "lists only"},
            scores : {<<s[1], s[2], s[3], s[3]>> : s \in [1 .. 3 -> Scores]}]

Plus(s) == (IF s[1] = NaN THEN 0 ELSE s[1]) + (IF s[2] = NaN THEN 0 ELSE s[2])
Valid(s) == Cardinality({i \in DOMAIN s : s[i] # NaN})
NanMean(s) == IF Valid(s) = 0 THEN NaN ELSE Plus(s) \div Valid(s)

\* The metrics are read in order until one is missing or no number.
FromItems(result) ==
    [m \in 1 .. 4 |-> IF result.kind = "means" /\ \A n \in 1 .. m : result.scores[n] # <<>>
                      THEN NanMean(result.scores[m]) ELSE 0]

FromPandas(result) ==
    [m \in 1 .. 4 |-> IF result.scores[m] = <<>> \/ Valid(result.scores[m]) = 0
                      THEN 0 ELSE NanMean(result.scores[m])]

\* If the first two metrics are 0, all are read again.
evaluate(result) ==
    LET items == FromItems(result)
    IN  IF items[1] = 0 /\ items[2] = 0 /\ result.kind # "lists only"
        THEN FromPandas(result) ELSE items

\* 0.8, 0.6 and 0.4 are the thresholds of the average; no comparison holds for NaN.
Level(sum, weight) ==
    IF sum >= 32 * weight THEN 3 ELSE IF sum >= 24 * weight THEN 2
    ELSE IF sum >= 16 * weight THEN 1 ELSE 0

\* Mutant: a metric that is 0 is left out of the average.
ReportsPositive(metrics) ==
    LET some == {m \in 1 .. 4 : metrics[m] > 0}
    IN  IF some = {} THEN 0
        ELSE Level(4 * MapThenSumSet(LAMBDA m : metrics[m], some), Cardinality(some))

generate_report(metrics) ==
    IF \E m \in 1 .. 4 : metrics[m] = NaN THEN 0
    ELSE Level(metrics[1] + metrics[2] + metrics[3] + metrics[4], 1)

\* The rating if what is missing or failed is worth nothing.
Worth(s) == IF s = <<>> THEN 0 ELSE Plus(s)
Deserved(result) ==
    Level(Worth(result.scores[1]) + Worth(result.scores[2])
          + Worth(result.scores[3]) + Worth(result.scores[4]), 2)
Failed(result) == \E m \in 1 .. 4 : NaN \in {result.scores[m][i] : i \in DOMAIN result.scores[m]}

\* A dataset that is missing or of the wrong form, one query of all that fails,
\* or RAGAS raising: there is no report. main catches it and ends as usual.
EvaluationFails ==
    /\ At("evaluate") /\ chain # 0
    /\ Goes("ended") /\ contexts' = {}
    /\ UNCHANGED <<chunks, store, report>>

\* main exits without a dataset.
NoDataset ==
    /\ mode = "evaluate" /\ mode' = "exited" /\ contexts' = {}
    /\ UNCHANGED <<chunks, store, report>>

run_evaluation(result) ==
    /\ At("evaluate") /\ chain # 0
    /\ report' = [rating |-> generate_report(evaluate(result)),
                  deserved |-> Deserved(result), failed |-> Failed(result)]
    /\ mode' = "ended" /\ contexts' = {}
    /\ UNCHANGED <<chunks, store>>

-----------------------------------------------------------------------------
RagNext ==
    \/ StartSession \/ StartMain
    \/ \E fs \in SUBSET DocumentFiles : load_directory(fs)
    \/ create_from_documents \/ add_documents \/ save \/ SaveKilled \/ load
    \/ RAGChain \/ query
    \/ EvaluationFails \/ NoDataset \/ \E result \in Results : run_evaluation(result)

RagSpec == RagInit /\ [][RagNext]_ragVars

RagTypeOK ==
    /\ mode \in {"off", "session", "load", "create", "chain", "query", "evaluate",
                 "ended", "exited", "aborted"}
    /\ Len(heap) <= MaxStores
    /\ {vector_store, chain} \subseteq 0 .. Len(heap)
    /\ \A s \in DOMAIN heap : heap[s].index # {} /\ heap[s].docs # {}
    /\ Cardinality(contexts) <= k
    /\ report = NoReport \/ {report.rating, report.deserved} \subseteq Levels

-----------------------------------------------------------------------------
(* Properties.                                                             *)

\* An answer is made from documents of the store that the manager has now,
\* unless the manager has got another store since the chain was built:
\* documents added later do count. They are as many as there are, up to k,
\* unless a process was killed while it saved: nothing else makes a store
\* whose index is not that of its documents, however stores are created,
\* extended, saved and loaded (vector_store.py:80, 110, 213, 240,
\* rag_chain.py:74).
AnswersUseStore ==
    contexts # {} /\ ~replaced =>
        LET docs == heap[vector_store].docs
        IN  /\ contexts \subseteq docs
            /\ killed \/ Cardinality(contexts) = Least(k, Cardinality(docs))

\* The rating is better than deserved only if a sample has failed in some
\* metric, which the means leave out (evaluator.py:318-356, 420-446).
RatingNeverFlatters ==
    report # NoReport /\ report.rating > report.deserved => report.failed
=============================================================================
