----------------------------- MODULE BatchQuery -----------------------------
(***************************************************************************)
(* The batch of DNS queries (src/Program/Threads/race/race.py): N threads  *)
(* share a list of documents without a lock, thread i handles the elements *)
(* i, i + N, i + 2N and so on. The main thread repeats the batch for ever, *)
(* on the same list. And timerloop.py, which starts its next timer before  *)
(* it does its work.                                                       *)
(***************************************************************************)
EXTENDS Integers

CONSTANTS
    size,        \* the number of documents
    threadsNum,  \* the number of threads; 10 in the program
    HasUrl,      \* HasUrl[idx]: document idx has a url to query
    MaxRounds,   \* bound: the batches
    MaxTimers    \* bound: the timers alive at once; a call takes half as long as a period

ASSUME BatchAssumption ==
    /\ size \in Nat /\ threadsNum \in Nat \ {0}
    /\ HasUrl \in [0 .. size - 1 -> BOOLEAN]
    /\ MaxRounds \in Nat /\ MaxTimers \in Nat

Elements == 0 .. size - 1
Workers == 0 .. threadsNum - 1

VARIABLES
    round,    \* the number of the batch
    next,     \* next[i]: the element thread i handles next
    got,      \* got[idx]: the fields of document idx that are there, with the round they are of
    ended,    \* ended[i]: thread i has returned, or was ended by an exception
    checked,  \* the documents written to the error log after the last batch
    timers    \* the timers that have been started and whose call of printit has not returned

batchVars == <<round, next, got, ended, checked, timers>>

None == [delay |-> 0, retCode |-> 0]

BatchInit ==
    /\ round = 1
    /\ next = [i \in Workers |-> i]
    /\ got = [idx \in Elements |-> None]
    /\ ended = [i \in Workers |-> FALSE]
    /\ checked = {} /\ timers = 0

\* The two fields are stored one after the other in the document itself; that
\* the document is put back into the list changes nothing.
QueryStores(i) ==
    /\ ~ended[i] /\ next[i] \in Elements /\ HasUrl[next[i]]
    /\ got[next[i]].delay < round
    /\ got' = [got EXCEPT ![next[i]] = [@ EXCEPT !.delay = round]]
    /\ UNCHANGED <<round, next, ended, checked, timers>>

\* Mutant: the threads share out the list in another way than they walk it.
MovesOn(i) ==
    /\ ~ended[i] /\ next[i] \in Elements /\ HasUrl[next[i]]
    /\ got[next[i]].delay = round
    /\ got' = [got EXCEPT ![next[i]] = [@ EXCEPT !.retCode = round]]
    /\ next' = [next EXCEPT ![i] = @ + threadsNum + 1]
    /\ UNCHANGED <<round, ended, checked, timers>>

QueryEnds(i) ==
    /\ ~ended[i] /\ next[i] \in Elements /\ HasUrl[next[i]]
    /\ got[next[i]].delay = round
    /\ got' = [got EXCEPT ![next[i]] = [@ EXCEPT !.retCode = round]]
    /\ next' = [next EXCEPT ![i] = @ + threadsNum]
    /\ UNCHANGED <<round, ended, checked, timers>>

\* No more elements, or an exception that ends the thread and nothing else.
ThreadEnds(i) ==
    /\ ~ended[i]
    /\ next[i] \in Elements => ~HasUrl[next[i]]
    /\ ended' = [ended EXCEPT ![i] = TRUE]
    /\ UNCHANGED <<round, next, got, checked, timers>>

\* The threads are joined, the list is searched for missing fields, and the
\* next batch begins, with the fields of this one.
CheckResult ==
    /\ \A i \in Workers : ended[i]
    /\ round < MaxRounds /\ round' = round + 1
    /\ checked' = {idx \in Elements : got[idx].delay = 0 \/ got[idx].retCode = 0}
    /\ next' = [i \in Workers |-> i] /\ ended' = [i \in Workers |-> FALSE]
    /\ UNCHANGED <<got, timers>>

\* printit starts the next timer, then works; and returns.
printit == timers < MaxTimers /\ timers' = timers + 1 /\ UNCHANGED <<round, next, got, ended, checked>>
loopfunc == timers > 1 /\ timers' = timers - 1 /\ UNCHANGED <<round, next, got, ended, checked>>

BatchNext ==
    \/ \E i \in Workers : QueryStores(i) \/ QueryEnds(i) \/ ThreadEnds(i)
    \/ CheckResult \/ printit \/ loopfunc

BatchSpec == BatchInit /\ [][BatchNext]_batchVars

BatchTypeOK ==
    /\ round \in 1 .. MaxRounds + 1 /\ next \in [Workers -> Nat]
    /\ got \in [Elements -> [delay : 0 .. round, retCode : 0 .. round]]
    /\ ended \in [Workers -> BOOLEAN] /\ checked \subseteq Elements
    /\ timers \in 0 .. MaxTimers

\* Thread i reaches element idx unless it has met one without a url before.
Blocked(idx) == \E j \in 0 .. idx : j % threadsNum = idx % threadsNum /\ ~HasUrl[j]

\* Once all threads have ended, both fields of a document are of this batch,
\* or both are missing, since its thread was ended by a document without a
\* url, its own or an earlier one (race.py:38-52, 65-83).
BatchIsWhole ==
    (\A i \in Workers : ended[i]) =>
        \A idx \in Elements : got[idx] = IF Blocked(idx) THEN None
                                         ELSE [delay |-> round, retCode |-> round]
=============================================================================
