------------------------------- MODULE RaceAdd -------------------------------
(***************************************************************************)
(* Threads that add to one counter under a lock                            *)
(* (src/Program/Threads/race/raceAdd.py). Each of them repeats: acquire,   *)
(* read the counter, sleep, write it back plus one, release. The main      *)
(* thread starts them, joins them and prints the counter.                  *)
(***************************************************************************)
EXTENDS Naturals, FiniteSets

CONSTANTS
    Adders,   \* the threads; 10 in the program
    iterNum,  \* how often each of them adds; 100 in the program
    Nobody

ASSUME AddAssumption ==
    /\ IsFiniteSet(Adders) /\ Nobody \notin Adders
    /\ iterNum \in Nat

VARIABLES
    count, lock,
    at,            \* at[t]: where thread t is
    currentCount,  \* currentCount[t]: the local variable of thread t
    idx,           \* idx[t]: the iterations that thread t has ended
    added,         \* history: the additions that were written, by thread and iteration
    printed        \* what the main thread has printed, iterNum times 10 if there was no race

addVars == <<count, lock, at, currentCount, idx, added, printed>>

AddInit ==
    /\ count = 0 /\ lock = Nobody
    /\ at = [t \in Adders |-> "new"]
    /\ currentCount = [t \in Adders |-> 0] /\ idx = [t \in Adders |-> 0]
    /\ added = {} /\ printed = FALSE

Moves(t, from, to) == at[t] = from /\ at' = [at EXCEPT ![t] = to]

Start(t) ==
    /\ Moves(t, "new", "loop")
    /\ UNCHANGED <<count, lock, currentCount, idx, added, printed>>

\* Mutant: the lock is not waited for.
AcquireAtOnce(t) ==
    /\ idx[t] < iterNum
    /\ Moves(t, "loop", "read")
    /\ lock' = t
    /\ UNCHANGED <<count, currentCount, idx, added, printed>>

acquire(t) ==
    /\ idx[t] < iterNum /\ lock = Nobody
    /\ Moves(t, "loop", "read")
    /\ lock' = t
    /\ UNCHANGED <<count, currentCount, idx, added, printed>>

Read(t) ==
    /\ Moves(t, "read", "write")
    /\ currentCount' = [currentCount EXCEPT ![t] = count]
    /\ UNCHANGED <<count, lock, idx, added, printed>>

\* After the sleep, and the addition.
Write(t) ==
    /\ Moves(t, "write", "release")
    /\ count' = currentCount[t] + 1
    /\ added' = added \cup {<<t, idx[t] + 1>>}
    /\ UNCHANGED <<lock, currentCount, idx, printed>>

release(t) ==
    /\ Moves(t, "release", "loop")
    /\ lock' = Nobody
    /\ idx' = [idx EXCEPT ![t] = @ + 1]
    /\ UNCHANGED <<count, currentCount, added, printed>>

Return(t) ==
    /\ idx[t] = iterNum
    /\ Moves(t, "loop", "ended")
    /\ UNCHANGED <<count, lock, currentCount, idx, added, printed>>

\* All threads are joined, then the counter is printed.
JoinAll ==
    /\ \A t \in Adders : at[t] = "ended"
    /\ ~printed /\ printed' = TRUE
    /\ UNCHANGED <<count, lock, at, currentCount, idx, added>>

AddNext ==
    \/ \E t \in Adders : Start(t) \/ acquire(t) \/ Read(t) \/ Write(t) \/ release(t) \/ Return(t)
    \/ JoinAll

AddSpec == AddInit /\ [][AddNext]_addVars

Places == {"new", "loop", "read", "write", "release", "ended"}

AddTypeOK ==
    /\ count \in Nat /\ lock \in Adders \cup {Nobody}
    /\ at \in [Adders -> Places]
    /\ currentCount \in [Adders -> Nat] /\ idx \in [Adders -> 0 .. iterNum]
    /\ added \subseteq Adders \X (1 .. iterNum) /\ printed \in BOOLEAN

\* "should be %d if no race" (raceAdd.py:32): what is printed is the number of
\* threads times the number of their iterations, however they take turns.
CountIsExact == printed => count = Cardinality(Adders) * iterNum
=============================================================================
