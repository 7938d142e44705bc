------------------------------ MODULE RaceProofs ------------------------------
(***************************************************************************)
(* The counter of RaceAdd is exact, for any threads and any number of      *)
(* iterations. The argument: a thread between acquire and release has the  *)
(* lock, so the count it has read is still the count when it writes; and   *)
(* the count is the number of additions written, of which thread t has     *)
(* made those up to idx[t], and one more just before it releases.          *)
(* The batches of BatchQuery are whole: a thread is alone in its class of  *)
(* elements, those behind it are of this batch, those ahead of the last.   *)
(* Overlapping calls of the load balancer take turns: each makes the       *)
(* counter's next index its own, and the indices of one backend are a      *)
(* class of numbers as well.                                               *)
(***************************************************************************)
EXTENDS RaceAdd, BatchQuery, MCLoadBalancer, LoadBalancerProofs, FiniteSetTheorems, TLAPS

Holding == {"read", "write", "release"}

\* The additions that thread t has written.
Made(t) == IF at[t] = "release" THEN idx[t] + 1 ELSE idx[t]

Exclusion == \A t \in Adders : at[t] \in Holding => lock = t /\ idx[t] < iterNum
Unchanged == \A t \in Adders : at[t] = "write" => currentCount[t] = count
Recorded == \A t \in Adders, i \in 1 .. iterNum : <<t, i>> \in added <=> i <= Made(t)
Finished ==
    /\ \A t \in Adders : at[t] = "ended" => idx[t] = iterNum
    /\ printed => \A t \in Adders : at[t] = "ended"
Counted == count = Cardinality(added)

AddInv == AddTypeOK /\ Exclusion /\ Unchanged /\ Recorded /\ Finished /\ Counted

\* All additions are finitely many, and so are those written.
LEMMA AllAdditions ==
    /\ IsFiniteSet(Adders \X (1 .. iterNum))
    /\ Cardinality(Adders \X (1 .. iterNum)) = Cardinality(Adders) * iterNum
<1>1. IsFiniteSet(1 .. iterNum) /\ Cardinality(1 .. iterNum) = iterNum
  <2>1. IsFiniteSet(1 .. iterNum)
    BY FS_Interval, AddAssumption
  <2>2. Cardinality(1 .. iterNum) = IF 1 > iterNum THEN 0 ELSE iterNum - 1 + 1
    BY FS_Interval, AddAssumption
  <2> QED
    BY <2>1, <2>2, AddAssumption
<1> QED
    BY <1>1, FS_Product, AddAssumption

LEMMA AddInitInv == AddInit => AddInv
<1> SUFFICES ASSUME AddInit PROVE AddInv
    OBVIOUS
<1>1. AddTypeOK
  <2>1. 0 \in Nat /\ 0 \in 0 .. iterNum
      BY AddAssumption
  <2>2. currentCount \in [Adders -> Nat] /\ idx \in [Adders -> 0 .. iterNum]
      BY <2>1 DEF AddInit
  <2>3. at \in [Adders -> Places]
      BY DEF AddInit, Places
  <2> QED
      BY <2>1, <2>2, <2>3 DEF AddInit, AddTypeOK
<1>2. Exclusion /\ Unchanged
    BY DEF AddInit, Exclusion, Unchanged, Holding
<1>3. Recorded
    BY AddAssumption DEF AddInit, Recorded, Made
<1>4. Finished /\ Counted
    BY FS_EmptySet DEF AddInit, Finished, Counted
<1> QED
    BY <1>1, <1>2, <1>3, <1>4 DEF AddInv

\* A thread that writes makes an addition that was not there.
LEMMA WriteCounts ==
    ASSUME AddInv, NEW t \in Adders, Write(t)
    PROVE  Counted'
<1>1. at[t] = "write" /\ idx[t] \in 0 .. iterNum /\ idx[t] < iterNum
    BY DEF AddInv, AddTypeOK, Write, Moves, Exclusion, Holding
<1>2. idx[t] + 1 \in 1 .. iterNum
    BY <1>1, AddAssumption
<1>3. <<t, idx[t] + 1>> \notin added
    BY <1>1, <1>2 DEF AddInv, Recorded, Made
<1>4. IsFiniteSet(added)
    BY AllAdditions, FS_Subset DEF AddInv, AddTypeOK
<1>5. Cardinality(added') = Cardinality(added) + 1
    BY <1>3, <1>4, FS_AddElement DEF Write
<1>6. count' = count + 1
    BY <1>1 DEF AddInv, Unchanged, Write
<1> QED
    BY <1>5, <1>6 DEF AddInv, Counted

LEMMA AddStep ==
    ASSUME AddInv, [AddNext]_addVars
    PROVE  AddInv'
<1> USE DEF AddInv
<1>1. CASE UNCHANGED addVars
    BY <1>1 DEF addVars, AddTypeOK, Exclusion, Unchanged, Recorded, Made, Finished, Counted
<1>2. ASSUME NEW t \in Adders, Start(t) PROVE AddInv'
  <2>1. AddTypeOK'
      BY <1>2 DEF Start, Moves, AddTypeOK, Places
  <2>2. Exclusion' /\ Unchanged'
      BY <1>2 DEF Start, Moves, AddTypeOK, Exclusion, Unchanged, Holding
  <2>3. Recorded' /\ Finished'
      BY <1>2 DEF Start, Moves, AddTypeOK, Recorded, Made, Finished
  <2> QED
      BY <1>2, <2>1, <2>2, <2>3 DEF Start, Counted
<1>3. ASSUME NEW t \in Adders, acquire(t) PROVE AddInv'
  <2>1. AddTypeOK'
      BY <1>3 DEF acquire, Moves, AddTypeOK, Places
  <2>2. Exclusion' /\ Unchanged'
      BY <1>3, AddAssumption DEF acquire, Moves, AddTypeOK, Exclusion, Unchanged, Holding
  <2>3. Recorded' /\ Finished'
      BY <1>3 DEF acquire, Moves, AddTypeOK, Recorded, Made, Finished
  <2> QED
      BY <1>3, <2>1, <2>2, <2>3 DEF acquire, Counted
<1>4. ASSUME NEW t \in Adders, Read(t) PROVE AddInv'
  <2>1. AddTypeOK'
      BY <1>4 DEF Read, Moves, AddTypeOK, Places
  <2>2. Exclusion' /\ Unchanged'
      BY <1>4 DEF Read, Moves, AddTypeOK, Exclusion, Unchanged, Holding
  <2>3. Recorded' /\ Finished'
      BY <1>4 DEF Read, Moves, AddTypeOK, Recorded, Made, Finished
  <2> QED
      BY <1>4, <2>1, <2>2, <2>3 DEF Read, Counted
<1>5. ASSUME NEW t \in Adders, Write(t) PROVE AddInv'
  <2>0. at[t] = "write" /\ idx[t] \in 0 .. iterNum /\ idx[t] < iterNum /\ iterNum \in Nat
      BY <1>5, AddAssumption DEF Write, Moves, AddTypeOK, Exclusion, Holding
  <2>1. AddTypeOK'
      BY <1>5, <2>0 DEF Write, Moves, AddTypeOK, Places
  <2>2. Exclusion' /\ Unchanged'
      BY <1>5 DEF Write, Moves, AddTypeOK, Exclusion, Unchanged, Holding
  <2>3. Recorded'
    <3>1. ASSUME NEW u \in Adders, NEW i \in 1 .. iterNum
          PROVE  (<<u, i>> \in added <=> i <= Made(u))'
      <4>1. <<u, i>> \in added <=> i <= Made(u)
          BY DEF Recorded
      <4>2. <<u, i>> \in added' <=> <<u, i>> \in added \/ (u = t /\ i = idx[t] + 1)
          BY <1>5 DEF Write
      <4>3. CASE u = t
          BY <1>5, <2>0, <4>1, <4>2, <4>3 DEF Write, Moves, AddTypeOK, Made
      <4>4. CASE u # t
          BY <1>5, <4>1, <4>2, <4>4 DEF Write, Moves, AddTypeOK, Made
      <4> QED
          BY <4>3, <4>4
    <3> QED
        BY <3>1, <1>5 DEF Write, Recorded
  <2>4. Finished'
      BY <1>5 DEF Write, Moves, AddTypeOK, Finished
  <2> QED
      BY <1>5, <2>1, <2>2, <2>3, <2>4, WriteCounts
<1>6. ASSUME NEW t \in Adders, release(t) PROVE AddInv'
  <2>0. at[t] = "release" /\ idx[t] \in 0 .. iterNum /\ idx[t] < iterNum /\ iterNum \in Nat
      BY <1>6, AddAssumption DEF release, Moves, AddTypeOK, Exclusion, Holding
  <2>1. AddTypeOK'
      BY <1>6, <2>0 DEF release, Moves, AddTypeOK, Places
  <2>2. Exclusion' /\ Unchanged'
      BY <1>6 DEF release, Moves, AddTypeOK, Exclusion, Unchanged, Holding
  <2>3. Recorded'
      BY <1>6, <2>0 DEF release, Moves, AddTypeOK, Recorded, Made
  <2>4. Finished'
      BY <1>6 DEF release, Moves, AddTypeOK, Finished
  <2> QED
      BY <1>6, <2>1, <2>2, <2>3, <2>4 DEF release, Counted
<1>7. ASSUME NEW t \in Adders, Return(t) PROVE AddInv'
  <2>1. AddTypeOK'
      BY <1>7 DEF Return, Moves, AddTypeOK, Places
  <2>2. Exclusion' /\ Unchanged'
      BY <1>7 DEF Return, Moves, AddTypeOK, Exclusion, Unchanged, Holding
  <2>3. Recorded' /\ Finished'
      BY <1>7 DEF Return, Moves, AddTypeOK, Recorded, Made, Finished
  <2> QED
      BY <1>7, <2>1, <2>2, <2>3 DEF Return, Counted
<1>8. CASE JoinAll
    BY <1>8 DEF JoinAll, AddTypeOK, Exclusion, Unchanged, Recorded, Made, Finished, Counted
<1> QED
    BY <1>1, <1>2, <1>3, <1>4, <1>5, <1>6, <1>7, <1>8 DEF AddNext

\* When all threads have ended, all additions were written.
LEMMA AddInvImplies == AddInv => CountIsExact
<1> SUFFICES ASSUME AddInv, printed PROVE count = Cardinality(Adders) * iterNum
    BY DEF CountIsExact
<1>1. ASSUME NEW t \in Adders PROVE Made(t) = iterNum
    BY <1>1 DEF AddInv, Finished, Made
<1>2. added = Adders \X (1 .. iterNum)
  <2>1. ASSUME NEW t \in Adders, NEW i \in 1 .. iterNum PROVE <<t, i>> \in added
      BY <1>1, AddAssumption DEF AddInv, Recorded
  <2> QED
      BY <2>1 DEF AddInv, AddTypeOK
<1> QED
    BY <1>2, AllAdditions DEF AddInv, Counted

\* The states of raceAdd.py are well formed, for any threads and iterations.
THEOREM AddTyped == AddSpec => []AddTypeOK
<1>1. AddInv => AddTypeOK
    BY DEF AddInv
<1> QED
    BY <1>1, AddInitInv, AddStep, PTL DEF AddSpec

\* What raceAdd.py prints is the number of its threads times the number of
\* their iterations, for any threads and iterations.
THEOREM CounterIsExact == AddSpec => []CountIsExact
    BY AddInvImplies, AddInitInv, AddStep, PTL DEF AddSpec

-----------------------------------------------------------------------------
(* The batch of queries. Thread i stands in the class of the elements that *)
(* are i modulo the number of threads, and nobody else touches the class.  *)

\* What the batch before has left of document e, if no thread has met it yet.
Left(e) == IF Blocked(e) THEN None ELSE [delay |-> round - 1, retCode |-> round - 1]
Half == [delay |-> round, retCode |-> round - 1]
Both == [delay |-> round, retCode |-> round]

\* Thread i is in its class and has met a url in all it has passed.
Walks ==
    \A i \in Workers :
        /\ next[i] % threadsNum = i
        /\ \A e \in Elements : e % threadsNum = i /\ e < next[i] => HasUrl[e]
        /\ ended[i] /\ next[i] \in Elements => ~HasUrl[next[i]]

\* What is behind the thread of an element is of this batch, what is before
\* it of the batch before, and where the thread is it may be half done.
Stored ==
    \A i \in Workers : \A e \in Elements : e % threadsNum = i =>
        /\ e < next[i] => got[e] = Both
        /\ e = next[i] => got[e] = Left(e) \/ (HasUrl[e] /\ got[e] = Half)
        /\ e > next[i] => got[e] = Left(e)

BatchInv == BatchTypeOK /\ Walks /\ Stored

\* Division by a number that is a constant of the model.
LEMMA Divided ==
    ASSUME NEW n \in Nat \ {0}, NEW a \in Nat
    PROVE  /\ (a % n) \in 0 .. n - 1
           /\ (a \div n) \in Nat
           /\ a = n * (a \div n) + (a % n)
    BY SMTT(20)

LEMMA Remainder ==
    ASSUME NEW n \in Nat \ {0}, NEW p \in Nat, NEW r \in 0 .. n - 1
    PROVE  (n * p + r) % n = r
    BY SMTT(20)

LEMMA Multiples ==
    ASSUME NEW n \in Nat \ {0}, NEW p \in Nat, NEW q \in Nat, p < q
    PROVE  n * p + n <= n * q
<1>1. n * (q - p - 1) >= 0
    BY SMTT(20)
<1>2. n * (q - p - 1) = n * q - n * p - n
    BY SMTT(20)
<1> QED
    BY <1>1, <1>2

\* A step of n stays in the class,
LEMMA NextOfClass ==
    ASSUME NEW n \in Nat \ {0}, NEW a \in Nat
    PROVE  (a + n) % n = a % n
<1> DEFINE q == a \div n
           r == a % n
<1>1. q \in Nat /\ r \in 0 .. n - 1 /\ a = n * q + r
    BY Divided
<1> SUFFICES (a + n) % n = r
    OBVIOUS
<1> HIDE DEF q, r
<1>2. n * (q + 1) = n * q + n /\ n * q \in Int
    BY <1>1, SMTT(20)
<1>3. a + n = n * (q + 1) + r
    BY <1>1, <1>2
<1>4. q + 1 \in Nat
    BY <1>1
<1> QED
    BY <1>1, <1>3, <1>4, Remainder

\* ... and passes over none of it.
LEMMA ClassIsApart ==
    ASSUME NEW n \in Nat \ {0}, NEW a \in Nat, NEW b \in Nat, a % n = b % n, a < b
    PROVE  a + n <= b
<1> DEFINE p == a \div n
           q == b \div n
           r == a % n
<1>1. p \in Nat /\ r \in 0 .. n - 1 /\ a = n * p + r
    BY Divided
<1>2. q \in Nat /\ (b % n) \in 0 .. n - 1 /\ b = n * q + (b % n)
    BY Divided
<1>3. b = n * q + r
    BY <1>2
<1>4. q \in Nat
    BY <1>2
<1> HIDE DEF p, q, r
<1>5. n * p \in Int /\ n * q \in Int
    BY <1>1, <1>4
<1>6. n * p < n * q
    BY <1>1, <1>3, <1>5
<1>7. p < q
    BY <1>1, <1>4, <1>6, SMTT(20)
<1>8. n * p + n <= n * q
    BY <1>1, <1>4, <1>7, Multiples
<1> QED
    BY <1>1, <1>3, <1>5, <1>8

\* A thread that has not begun stands before all of its class.
LEMMA BeforeClass ==
    ASSUME NEW i \in Workers
    PROVE  i % threadsNum = i /\ \A e \in Elements : e % threadsNum = i => e >= i
<1> USE BatchAssumption
<1>1. i % threadsNum = i
    BY SMTT(20) DEF Workers
<1>2. ASSUME NEW e \in Elements, e % threadsNum = i PROVE e >= i
  <2> DEFINE q == e \div threadsNum
             r == e % threadsNum
  <2>1. e \in Nat
      BY DEF Elements
  <2>2. q \in Nat /\ r \in 0 .. threadsNum - 1 /\ e = threadsNum * q + r
      BY <2>1, Divided
  <2>3. r = i
      BY <1>2
  <2> HIDE DEF q, r
  <2>4. threadsNum * q >= 0 /\ threadsNum * q \in Int
      BY <2>2, SMTT(20)
  <2> QED
      BY <2>1, <2>2, <2>3, <2>4
<1> QED
    BY <1>1, <1>2

LEMMA BatchInitInv == BatchInit => BatchInv
<1> SUFFICES ASSUME BatchInit PROVE BatchInv
    OBVIOUS
<1> USE BatchAssumption
<1>0. \A i \in Workers : i \in Nat
    BY DEF Workers
<1>1. BatchTypeOK
  <2>1. None \in [delay : 0 .. round, retCode : 0 .. round]
      BY DEF BatchInit, None
  <2>2. next \in [Workers -> Nat] /\ ended \in [Workers -> BOOLEAN]
      BY <1>0 DEF BatchInit
  <2>3. got \in [Elements -> [delay : 0 .. round, retCode : 0 .. round]]
      BY <2>1 DEF BatchInit
  <2> QED
      BY <2>2, <2>3 DEF BatchInit, BatchTypeOK
<1>2. \A i \in Workers : next[i] = i /\ ~ended[i]
    BY DEF BatchInit
<1>3. ASSUME NEW i \in Workers, NEW e \in Elements, e % threadsNum = i PROVE ~(e < i)
  <2>1. e >= i /\ e \in Int /\ i \in Int
      BY <1>3, BeforeClass DEF Elements, Workers
  <2> QED
      BY <2>1
<1>4. Walks
    BY <1>2, <1>3, BeforeClass DEF Walks
<1>5. \A e \in Elements : got[e] = Left(e)
    BY DEF BatchInit, Left, None
<1>6. Stored
    BY <1>2, <1>3, <1>5 DEF Stored
<1> QED
    BY <1>1, <1>4, <1>6 DEF BatchInv

\* The element where a thread is has the class of the thread, and is blocked
\* only by itself.
LEMMA ThreadIsAt ==
    ASSUME BatchInv, NEW i \in Workers, next[i] \in Elements
    PROVE  Blocked(next[i]) <=> ~HasUrl[next[i]]
<1>0. next[i] \in Nat /\ next[i] < size
    BY BatchAssumption DEF Elements
<1>1. next[i] % threadsNum = i
    BY DEF BatchInv, Walks
<1>2. ASSUME NEW j \in 0 .. next[i], j % threadsNum = i, ~HasUrl[j] PROVE j = next[i]
  <2>1. j \in Elements /\ (j < next[i] \/ j = next[i])
      BY <1>0, BatchAssumption DEF Elements
  <2> QED
      BY <1>2, <2>1 DEF BatchInv, Walks
<1>3. next[i] \in 0 .. next[i]
    BY <1>0
<1> QED
    BY <1>1, <1>2, <1>3 DEF Blocked

LEMMA BatchStores ==
    ASSUME BatchInv, NEW t \in Workers, QueryStores(t)
    PROVE  BatchInv'
<1> USE BatchAssumption
<1> DEFINE n == next[t]
<1>0. n \in Elements /\ HasUrl[n] /\ n \in Nat /\ n % threadsNum = t /\ round \in Nat \ {0}
    BY DEF QueryStores, BatchInv, BatchTypeOK, Walks
<1>1. got[n].delay < round /\ got[n] = Left(n) /\ ~Blocked(n)
  <2>1. got[n].delay < round /\ ~Blocked(n)
      BY <1>0, ThreadIsAt DEF QueryStores
  <2>2. got[n] = Left(n) \/ got[n] = Half
      BY <1>0 DEF BatchInv, Stored
  <2> QED
      BY <2>1, <2>2, <1>0 DEF Half
<1>2. got' = [got EXCEPT ![n] = Half]
  <2>1. got[n] = [delay |-> round - 1, retCode |-> round - 1]
      BY <1>1 DEF Left
  <2>2. [got[n] EXCEPT !.delay = round] = Half
      BY <2>1 DEF Half
  <2>3. got' = [got EXCEPT ![n] = [got[n] EXCEPT !.delay = round]]
      BY DEF QueryStores
  <2> QED
      BY <2>2, <2>3
<1> HIDE DEF n
<1>3. BatchTypeOK'
  <2>1. Half \in [delay : 0 .. round, retCode : 0 .. round]
      BY <1>0 DEF Half
  <2>2. got' \in [Elements -> [delay : 0 .. round, retCode : 0 .. round]]
      BY <1>2, <2>1 DEF BatchInv, BatchTypeOK
  <2> QED
      BY <2>2 DEF QueryStores, BatchInv, BatchTypeOK, Elements, Workers
<1>4. Walks'
    BY DEF QueryStores, BatchInv, Walks
<1>5. Stored'
  <2> SUFFICES ASSUME NEW i \in Workers, NEW e \in Elements, e % threadsNum = i
               PROVE  (/\ e < next[i] => got[e] = Both
                       /\ e = next[i] => got[e] = Left(e) \/ (HasUrl[e] /\ got[e] = Half)
                       /\ e > next[i] => got[e] = Left(e))'
      BY DEF Stored, Elements, Workers
  <2>1. round' = round /\ next' = next /\ Left(e)' = Left(e) /\ Half' = Half /\ Both' = Both
      BY DEF QueryStores, Left, Half, Both, Blocked, None
  <2>2. CASE e = n
    <3>1. got'[e] = Half /\ i = t /\ e = next[i]
        BY <1>0, <1>2, <2>2 DEF n, BatchInv, BatchTypeOK
    <3> QED
        BY <3>1, <2>1, <2>2, <1>0
  <2>3. CASE e # n
    <3>1. got'[e] = got[e]
        BY <1>2, <2>3 DEF BatchInv, BatchTypeOK
    <3> QED
        BY <3>1, <2>1 DEF BatchInv, Stored
  <2> QED
      BY <2>2, <2>3
<1> QED
    BY <1>3, <1>4, <1>5 DEF BatchInv

LEMMA BatchEnds ==
    ASSUME BatchInv, NEW t \in Workers, QueryEnds(t)
    PROVE  BatchInv'
<1> USE BatchAssumption
<1> DEFINE n == next[t]
<1>0. n \in Elements /\ HasUrl[n] /\ n \in Nat /\ n % threadsNum = t /\ round \in Nat \ {0}
    BY DEF QueryEnds, BatchInv, BatchTypeOK, Walks
<1>1. got[n] = Half
  <2>1. got[n].delay = round /\ ~Blocked(n)
      BY <1>0, ThreadIsAt DEF QueryEnds
  <2>2. got[n] = Left(n) \/ got[n] = Half
      BY <1>0 DEF BatchInv, Stored
  <2> QED
      BY <2>1, <2>2, <1>0 DEF Left
<1>2. got' = [got EXCEPT ![n] = Both] /\ next' = [next EXCEPT ![t] = n + threadsNum]
  <2>1. [got[n] EXCEPT !.retCode = round] = Both
      BY <1>1 DEF Half, Both
  <2>2. got' = [got EXCEPT ![n] = [got[n] EXCEPT !.retCode = round]]
        /\ next' = [next EXCEPT ![t] = next[t] + threadsNum]
      BY DEF QueryEnds
  <2> QED
      BY <2>1, <2>2
<1>n. ~ended[t]
    BY DEF QueryEnds
<1> HIDE DEF n
<1>3. BatchTypeOK'
  <2>1. Both \in [delay : 0 .. round, retCode : 0 .. round]
      BY <1>0 DEF Both
  <2>2. next' \in [Workers -> Nat]
      BY <1>0, <1>2 DEF BatchInv, BatchTypeOK
  <2>3. got' \in [Elements -> [delay : 0 .. round, retCode : 0 .. round]]
      BY <1>2, <2>1 DEF BatchInv, BatchTypeOK
  <2> QED
      BY <2>2, <2>3 DEF QueryEnds, BatchInv, BatchTypeOK, Elements, Workers
<1>4. ASSUME NEW e \in Elements, e % threadsNum = t
      PROVE  e < n + threadsNum <=> e <= n
  <2>1. e \in Nat
      BY DEF Elements
  <2>2. CASE n < e
    <3>1. n + threadsNum <= e
        BY <1>0, <1>4, <2>1, <2>2, ClassIsApart
    <3> QED
        BY <1>0, <2>1, <2>2, <3>1
  <2>3. CASE e <= n
      BY <1>0, <2>1, <2>3
  <2> QED
      BY <1>0, <2>1, <2>2, <2>3
<1>5. Walks'
  <2> SUFFICES ASSUME NEW i \in Workers
               PROVE  (/\ next[i] % threadsNum = i
                       /\ \A e \in Elements : e % threadsNum = i /\ e < next[i] => HasUrl[e]
                       /\ ended[i] /\ next[i] \in Elements => ~HasUrl[next[i]])'
      BY DEF Walks, Workers
  <2>1. ended' = ended
      BY DEF QueryEnds
  <2>2. CASE i = t
    <3>1. next'[i] = n + threadsNum
        BY <1>2, <2>2 DEF BatchInv, BatchTypeOK
    <3>2. (n + threadsNum) % threadsNum = t
        BY <1>0, NextOfClass
    <3>3. ASSUME NEW e \in Elements, e % threadsNum = t, e <= n PROVE HasUrl[e]
      <4>1. e \in Nat /\ (e < n \/ e = n)
          BY <1>0, <3>3 DEF Elements
      <4> QED
          BY <1>0, <3>3, <4>1 DEF n, BatchInv, Walks
    <3>4. ~ended'[i]
        BY <1>n, <2>1, <2>2
    <3>5. \A e \in Elements : e % threadsNum = i /\ e < next'[i] => HasUrl[e]
        BY <1>4, <2>2, <3>1, <3>3
    <3> QED
        BY <2>2, <3>1, <3>2, <3>4, <3>5 DEF Elements
  <2>3. CASE i # t
    <3>1. next'[i] = next[i]
        BY <1>2, <2>3 DEF BatchInv, BatchTypeOK
    <3> QED
        BY <2>1, <3>1 DEF BatchInv, Walks, Elements
  <2> QED
      BY <2>2, <2>3
<1>6. Stored'
  <2> SUFFICES ASSUME NEW i \in Workers, NEW e \in Elements, e % threadsNum = i
               PROVE  (/\ e < next[i] => got[e] = Both
                       /\ e = next[i] => got[e] = Left(e) \/ (HasUrl[e] /\ got[e] = Half)
                       /\ e > next[i] => got[e] = Left(e))'
      BY DEF Stored, Elements, Workers
  <2>1. round' = round /\ Left(e)' = Left(e) /\ Half' = Half /\ Both' = Both
      BY DEF QueryEnds, Left, Half, Both, Blocked, None
  <2>2. CASE i = t
    <3>1. next'[i] = n + threadsNum
        BY <1>2, <2>2 DEF BatchInv, BatchTypeOK
    <3>2. e < n + threadsNum <=> e <= n
        BY <1>4, <2>2
    <3>3. CASE e = n
      <4>1. got'[e] = Both /\ e < next'[i]
          BY <1>0, <1>2, <3>1, <3>2, <3>3 DEF BatchInv, BatchTypeOK
      <4> QED
          BY <2>1, <4>1, <3>1, <1>0, <3>3
    <3>4. CASE e # n
      <4>1. got'[e] = got[e]
          BY <1>2, <3>4 DEF BatchInv, BatchTypeOK
      <4>2. (e < n => got[e] = Both) /\ (e > n => got[e] = Left(e))
          BY <2>2 DEF BatchInv, Stored, n
      <4>3. e < next'[i] => e < n
          BY <1>0, <3>1, <3>2, <3>4 DEF Elements
      <4>4. e >= next'[i] => e > n
          BY <1>0, <3>1 DEF Elements
      <4>5. e \in Int /\ next'[i] \in Int
          BY <1>0, <3>1 DEF Elements
      <4> QED
          BY <2>1, <4>1, <4>2, <4>3, <4>4, <4>5
    <3> QED
        BY <3>3, <3>4
  <2>3. CASE i # t
    <3>1. next'[i] = next[i] /\ e # n
        BY <1>0, <1>2, <2>3 DEF BatchInv, BatchTypeOK
    <3>2. got'[e] = got[e]
        BY <1>2, <3>1 DEF BatchInv, BatchTypeOK
    <3> QED
        BY <2>1, <3>1, <3>2 DEF BatchInv, Stored
  <2> QED
      BY <2>2, <2>3
<1> QED
    BY <1>3, <1>5, <1>6 DEF BatchInv

\* A batch whose threads have all ended is whole: the thread of an element is
\* behind it, or has been stopped at it or before it.
LEMMA BatchInvImplies == BatchInv => BatchIsWhole
<1> SUFFICES ASSUME BatchInv, \A i \in Workers : ended[i], NEW e \in Elements
             PROVE  got[e] = IF Blocked(e) THEN None ELSE Both
    BY DEF BatchIsWhole, Both
<1> USE BatchAssumption
<1> DEFINE i == e % threadsNum
<1>1. i \in Workers /\ e \in Nat /\ e < size
    BY Divided DEF Elements, Workers
<1>2. next[i] \in Nat /\ next[i] % threadsNum = i
    BY <1>1 DEF BatchInv, BatchTypeOK, Walks
<1>3. CASE e < next[i]
  <2>1. got[e] = Both
      BY <1>1, <1>3 DEF BatchInv, Stored
  <2>2. ASSUME NEW j \in 0 .. e, j % threadsNum = i PROVE HasUrl[j]
    <3>1. j \in Elements /\ j < next[i]
        BY <1>1, <1>2, <1>3 DEF Elements
    <3> QED
        BY <1>1, <2>2, <3>1 DEF BatchInv, Walks
  <2> QED
      BY <2>1, <2>2 DEF Blocked
<1>4. CASE next[i] <= e
  <2>1. next[i] \in Elements /\ next[i] \in 0 .. e
      BY <1>1, <1>2, <1>4 DEF Elements
  <2>2. ~HasUrl[next[i]]
      BY <1>1, <2>1 DEF BatchInv, Walks
  <2>3. Blocked(e)
      BY <1>2, <2>1, <2>2 DEF Blocked
  <2>4. got[e] = Left(e)
      BY <1>1, <1>2, <1>4, <2>2 DEF BatchInv, Stored
  <2> QED
      BY <2>3, <2>4 DEF Left
<1> QED
    BY <1>1, <1>2, <1>3, <1>4

LEMMA BatchRepeats ==
    ASSUME BatchInv, CheckResult
    PROVE  BatchInv'
<1> USE BatchAssumption
<1>0. round \in Nat \ {0} /\ round' = round + 1 /\ got' = got
      /\ next' = [i \in Workers |-> i] /\ ended' = [i \in Workers |-> FALSE]
    BY DEF CheckResult, BatchInv, BatchTypeOK
<1>1. BatchTypeOK'
  <2>1. got' \in [Elements -> [delay : 0 .. round', retCode : 0 .. round']]
      BY <1>0 DEF BatchInv, BatchTypeOK
  <2>2. next' \in [Workers -> Nat] /\ round' \in 1 .. MaxRounds + 1
      BY <1>0 DEF CheckResult, BatchInv, BatchTypeOK, Workers
  <2> QED
      BY <1>0, <2>1, <2>2 DEF CheckResult, BatchInv, BatchTypeOK
<1>2. \A i \in Workers : next'[i] = i /\ ~ended'[i]
    BY <1>0
<1>3. ASSUME NEW i \in Workers, NEW e \in Elements, e % threadsNum = i PROVE ~(e < i)
  <2>1. e >= i /\ e \in Int /\ i \in Int
      BY <1>3, BeforeClass DEF Elements, Workers
  <2> QED
      BY <2>1
<1>4. Walks'
    BY <1>2, <1>3, BeforeClass DEF Walks, Elements, Workers
<1>5. ASSUME NEW e \in Elements PROVE got'[e] = Left(e)'
  <2>1. got[e] = IF Blocked(e) THEN None ELSE [delay |-> round, retCode |-> round]
      BY BatchInvImplies DEF CheckResult, BatchIsWhole
  <2>2. Left(e)' = IF Blocked(e) THEN None ELSE [delay |-> round' - 1, retCode |-> round' - 1]
      BY DEF Left, Blocked, None
  <2> QED
      BY <1>0, <2>1, <2>2
<1>6. Stored'
    BY <1>2, <1>3, <1>5 DEF Stored, Elements, Workers
<1> QED
    BY <1>1, <1>4, <1>6 DEF BatchInv

LEMMA BatchStep == BatchInv /\ [BatchNext]_batchVars => BatchInv'
<1> SUFFICES ASSUME BatchInv, [BatchNext]_batchVars PROVE BatchInv'
    OBVIOUS
<1>1. CASE UNCHANGED batchVars
    BY <1>1 DEF batchVars, BatchInv, BatchTypeOK, Walks, Stored, Left, Half, Both, Blocked, None
<1>2. ASSUME NEW t \in Workers, ThreadEnds(t) PROVE BatchInv'
  <2>1. UNCHANGED <<round, next, got, checked, timers>> /\ ended' = [ended EXCEPT ![t] = TRUE]
        /\ (next[t] \in Elements => ~HasUrl[next[t]])
      BY <1>2 DEF ThreadEnds
  <2>2. BatchTypeOK'
      BY <2>1 DEF BatchInv, BatchTypeOK
  <2>3. Walks'
      BY <2>1 DEF BatchInv, BatchTypeOK, Walks
  <2>4. Stored'
      BY <2>1 DEF BatchInv, Stored, Left, Half, Both, Blocked, None
  <2> QED
      BY <2>2, <2>3, <2>4 DEF BatchInv
<1>3. ASSUME printit \/ loopfunc PROVE BatchInv'
  <2>1. UNCHANGED <<round, next, got, ended, checked>> /\ timers' \in 0 .. MaxTimers
      BY <1>3, BatchAssumption DEF printit, loopfunc, BatchInv, BatchTypeOK
  <2>2. BatchTypeOK'
      BY <2>1 DEF BatchInv, BatchTypeOK
  <2>3. Walks' /\ Stored'
      BY <2>1 DEF BatchInv, Walks, Stored, Left, Half, Both, Blocked, None
  <2> QED
      BY <2>2, <2>3 DEF BatchInv
<1> QED
    BY <1>1, <1>2, <1>3, BatchStores, BatchEnds, BatchRepeats DEF BatchNext

\* The states of the batch are well formed, for any number of threads and
\* documents.
THEOREM BatchTyped == BatchSpec => []BatchTypeOK
<1>1. BatchInv => BatchTypeOK
    BY DEF BatchInv
<1> QED
    BY <1>1, BatchInitInv, BatchStep, PTL DEF BatchSpec

\* In every batch, for any number of threads and documents and wherever the
\* documents without a url are, a document has both its fields, of this batch,
\* or neither, after one without a url of its thread (race.py:38-52, 65-83).
THEOREM BatchesAreWhole == BatchSpec => []BatchIsWhole
    BY BatchInvImplies, BatchInitInv, BatchStep, PTL DEF BatchSpec

-----------------------------------------------------------------------------
(* Round robin. Calls of select_backend that overlap take indices that     *)
(* follow each other: the m-th selection from the end was made at the      *)
(* index m before the next, and the index decides the backend.             *)

OneRouteOnly == \A c, d \in Requests : Route[c] = Route[d]
NoneTwice == \A c \in Requests : \A i, j \in Positions(c) : Route[c][i] = Route[c][j] => i = j

\* The healthy backends of the route, and how many of them come before the
\* one at position i.
Turns(c) == Cardinality(HealthyOf(c))
Rank(c, i) == Cardinality({j \in HealthyOf(c) : j < i})
Regular(c) == HealthyOf(c) # {} /\ IndexModulus % Turns(c) = 0

SelectedAt(c, i, m) ==
    /\ i \in HealthyOf(c) /\ served[m] = <<Route[c], Route[c][i]>>
    /\ (Rank(c, i) + (Len(served) + 1 - m)) % Turns(c) = round_robin_index_ % Turns(c)

HistoryOK ==
    /\ served \in Seq(Seq(Backends) \X Backends)
    /\ \A c \in Requests : Regular(c) => \A m \in DOMAIN served : \E i : SelectedAt(c, i, m)
TurnsInv == BalancerTypeOK /\ HistoryOK

\* A remainder is below the divisor, and its own remainder.
LEMMA RemainderTwice ==
    ASSUME NEW n \in Nat \ {0}, NEW a \in Nat
    PROVE  (a % n) % n = a % n
<1> DEFINE r == a % n
<1>1. r \in 0 .. n - 1
    BY Divided
<1> HIDE DEF r
<1>2. (n * 0 + r) % n = r
    BY <1>1, Remainder
<1>3. n * 0 + r = r
    BY <1>1
<1>4. r % n = r
    BY <1>2, <1>3
<1> QED
    BY <1>4 DEF r

\* The numbers from i to the one before j.
LEMMA NumbersBetween ==
    ASSUME NEW i \in Nat, NEW j \in Nat, i < j
    PROVE  IsFiniteSet(i .. j - 1) /\ Cardinality(i .. j - 1) = j - i
<1> DEFINE h == j - 1
<1>1. i \in Int /\ h \in Int /\ ~ (i > h) /\ h - i + 1 = j - i
    OBVIOUS
<1> HIDE DEF h
<1>2. IsFiniteSet(i .. h) /\ Cardinality(i .. h) = IF i > h THEN 0 ELSE h - i + 1
    BY <1>1, FS_Interval
<1> QED
    BY <1>1, <1>2 DEF h

\* The next of two numbers of one class,
LEMMA Successor ==
    ASSUME NEW n \in Nat \ {0}, NEW a \in Nat, NEW b \in Nat, a % n = b % n
    PROVE  (a + 1) % n = (b + 1) % n
<1> DEFINE p == a \div n
           q == b \div n
           r == a % n
<1>1. p \in Nat /\ r \in 0 .. n - 1 /\ a = n * p + r
    BY Divided
<1>2. q \in Nat /\ (b % n) \in 0 .. n - 1 /\ b = n * q + (b % n)
    BY Divided
<1>3. b = n * q + r /\ q \in Nat
    BY <1>2
<1> HIDE DEF p, q, r
<1>4. n * p \in Int /\ n * q \in Int
    BY <1>1, <1>3
<1>5. CASE r + 1 < n
  <2>1. r + 1 \in 0 .. n - 1
      BY <1>1, <1>5
  <2>2. (n * p + (r + 1)) % n = r + 1 /\ (n * q + (r + 1)) % n = r + 1
      BY <1>1, <1>3, <2>1, Remainder
  <2>3. a + 1 = n * p + (r + 1) /\ b + 1 = n * q + (r + 1)
      BY <1>1, <1>3, <1>4
  <2> QED
      BY <2>2, <2>3
<1>6. CASE r + 1 = n
  <2>1. n * (p + 1) = n * p + n /\ n * (q + 1) = n * q + n
      BY <1>1, <1>3, SMTT(20)
  <2>2. p + 1 \in Nat /\ q + 1 \in Nat /\ 0 \in 0 .. n - 1
      BY <1>1, <1>3
  <2>3. (n * (p + 1) + 0) % n = 0 /\ (n * (q + 1) + 0) % n = 0
      BY <2>2, Remainder
  <2>4. a + 1 = n * (p + 1) + 0 /\ b + 1 = n * (q + 1) + 0
      BY <1>1, <1>3, <1>4, <1>6, <2>1
  <2> QED
      BY <2>3, <2>4
<1> QED
    BY <1>1, <1>5, <1>6

\* ... and of a counter that wraps.
LEMMA Wraps ==
    ASSUME NEW n \in Nat \ {0}, NEW w \in Nat \ {0}, w % n = 0, NEW a \in 0 .. w - 1
    PROVE  ((a + 1) % w) % n = (a + 1) % n
<1>1. CASE a + 1 < w
  <2>1. a + 1 \in 0 .. w - 1 /\ 0 \in Nat
      BY <1>1
  <2>2. (w * 0 + (a + 1)) % w = a + 1
      BY <2>1, Remainder
  <2>3. w * 0 + (a + 1) = a + 1
      OBVIOUS
  <2> QED
      BY <2>2, <2>3
<1>2. CASE a + 1 = w
  <2>1. (w * 1 + 0) % w = 0
      BY Remainder
  <2>2. w * 1 + 0 = w
      OBVIOUS
  <2>3. (n * 0 + 0) % n = 0
      BY Remainder
  <2>4. n * 0 + 0 = 0
      OBVIOUS
  <2> QED
      BY <1>2, <2>1, <2>2, <2>3, <2>4
<1> QED
    BY <1>1, <1>2

\* The healthy backends are finitely many, and so are those before one.
LEMMA RanksAreNumbers ==
    ASSUME BalancerTypeOK, NEW c \in Requests
    PROVE  /\ IsFiniteSet(HealthyOf(c)) /\ Turns(c) \in Nat
           /\ HealthyOf(c) # {} <=> Turns(c) # 0
           /\ \A i : Rank(c, i) \in Nat
<1>1. Len(Route[c]) \in Nat
    BY BalancerAssumption
<1>2. IsFiniteSet(Positions(c))
    BY <1>1, FS_Interval DEF Positions
<1>3. IsFiniteSet(HealthyOf(c))
    BY <1>2, FS_Subset DEF HealthyOf
<1>4. ASSUME NEW i PROVE Rank(c, i) \in Nat
  <2>1. IsFiniteSet({j \in HealthyOf(c) : j < i})
      BY <1>3, FS_Subset
  <2> QED
      BY <2>1, FS_CardinalityType DEF Rank
<1> QED
    BY <1>3, <1>4, FS_CardinalityType, FS_EmptySet DEF Turns

\* The history t is s with the selection e after it, and may have lost its first.
Grown(t, s, e) ==
    \A m \in DOMAIN t :
        \/ t[m] = e /\ Len(t) + 1 - m = 1
        \/ \E old \in DOMAIN s : t[m] = s[old] /\ Len(t) + 1 - m = (Len(s) + 1 - old) + 1

LEMMA HistoryGrows ==
    ASSUME NEW S, NEW s \in Seq(S), NEW e \in S
    PROVE  LastOf(Append(s, e)) \in Seq(S) /\ Grown(LastOf(Append(s, e)), s, e)
<1> SUFFICES ASSUME NEW t, t = LastOf(Append(s, e))
             PROVE  /\ t \in Seq(S)
                    /\ \A m \in DOMAIN t :
                          \/ t[m] = e /\ Len(t) + 1 - m = 1
                          \/ \E old \in DOMAIN s : t[m] = s[old] /\ Len(t) + 1 - m = (Len(s) + 1 - old) + 1
    BY DEF Grown
<1> DEFINE more == Append(s, e)
<1>1. more \in Seq(S) /\ Len(more) = Len(s) + 1 /\ more[Len(s) + 1] = e
      /\ \A m \in 1 .. Len(s) : more[m] = s[m]
    OBVIOUS
<1>2. Len(s) \in Nat /\ DOMAIN s = 1 .. Len(s)
    OBVIOUS
<1> HIDE DEF more
<1>3. CASE t = more
  <2>1. DOMAIN t = 1 .. Len(s) + 1
      BY <1>1, <1>3
  <2>2. ASSUME NEW m \in DOMAIN t
        PROVE  \/ t[m] = e /\ Len(t) + 1 - m = 1
               \/ \E old \in DOMAIN s : t[m] = s[old] /\ Len(t) + 1 - m = (Len(s) + 1 - old) + 1
    <3>1. CASE m = Len(s) + 1
        BY <1>1, <1>2, <1>3, <3>1
    <3>2. CASE m \in 1 .. Len(s)
        BY <1>1, <1>2, <1>3, <3>2
    <3> QED
        BY <1>2, <2>1, <3>1, <3>2
  <2> QED
      BY <1>1, <1>3, <2>2
<1>4. CASE t = Tail(more)
  <2>1. t \in Seq(S) /\ Len(t) = Len(s) /\ DOMAIN t = 1 .. Len(s)
        /\ \A m \in 1 .. Len(s) : t[m] = more[m + 1]
      BY <1>1, <1>2, <1>4
  <2>2. ASSUME NEW m \in DOMAIN t
        PROVE  \/ t[m] = e /\ Len(t) + 1 - m = 1
               \/ \E old \in DOMAIN s : t[m] = s[old] /\ Len(t) + 1 - m = (Len(s) + 1 - old) + 1
    <3>1. CASE m = Len(s)
        BY <1>1, <1>2, <2>1, <3>1
    <3>2. CASE m \in 1 .. Len(s) - 1
      <4>1. m + 1 \in DOMAIN s /\ t[m] = s[m + 1]
          BY <1>1, <1>2, <2>1, <3>2
      <4>2. Len(t) + 1 - m = (Len(s) + 1 - (m + 1)) + 1
          BY <1>2, <2>1, <3>2
      <4> QED
          BY <4>1, <4>2
    <3> QED
        BY <1>2, <2>1, <3>1, <3>2
  <2> QED
      BY <2>1, <2>2
<1> QED
    BY <1>3, <1>4 DEF LastOf, more

LEMMA TurnsInit == MCInit => TurnsInv
<1> SUFFICES ASSUME MCInit PROVE TurnsInv
    OBVIOUS
<1>1. BalancerTypeOK
    BY BalancerTypeInit DEF MCInit
<1>2. served = <<>>
    BY DEF MCInit
<1> QED
    BY <1>1, <1>2 DEF TurnsInv, HistoryOK

\* A call that copied the backends that are healthy now is recorded.
LEMMA ServeKeepsHistory ==
    ASSUME OneRouteOnly, TurnsInv, NEW d \in Requests, NEW b \in Backends, Serve(d, b),
           healthy_backends[d] = HealthyOf(d)
    PROVE  HistoryOK'
<1> DEFINE e == <<Route[d], b>>
           n == Turns(d)
<1>1. /\ IsAt(d, round_robin_index_, b) /\ backend_health_' = backend_health_
      /\ round_robin_index_' = (round_robin_index_ + 1) % IndexModulus
      /\ served' = LastOf(Append(served, e))
    BY DEF Serve, TakeIndex
<1>2. e \in Seq(Backends) \X Backends
    BY BalancerAssumption
<1>3. served \in Seq(Seq(Backends) \X Backends)
    BY DEF TurnsInv, HistoryOK
<1>4. served' \in Seq(Seq(Backends) \X Backends) /\ Grown(served', served, e)
  <2>1. ASSUME NEW f \in Seq(Backends) \X Backends
        PROVE  /\ LastOf(Append(served, f)) \in Seq(Seq(Backends) \X Backends)
               /\ Grown(LastOf(Append(served, f)), served, f)
      BY <1>3, HistoryGrows, Zenon
  <2> QED
      BY <1>1, <1>2, <2>1, Zenon
<1>5. ASSUME NEW c \in Requests, Regular(c)', NEW m \in DOMAIN served'
      PROVE  \E i : SelectedAt(c, i, m)'
  <2>1. /\ HealthyOf(c)' = HealthyOf(c) /\ Turns(c)' = Turns(c)
        /\ \A i : Rank(c, i)' = Rank(c, i)
      BY <1>1 DEF HealthyOf, is_backend_healthy, Turns, Rank
  <2>2. Route[c] = Route[d] /\ HealthyOf(c) = HealthyOf(d) /\ Regular(c)
      BY <1>5, <2>1 DEF OneRouteOnly, HealthyOf, Positions, Regular
  <2>3. /\ Turns(c) \in Nat \ {0} /\ \A i : Rank(c, i) \in Nat
        /\ IndexModulus % Turns(c) = 0
      BY <2>2, RanksAreNumbers DEF TurnsInv, Regular
  <2>4. /\ round_robin_index_ \in 0 .. IndexModulus - 1 /\ IndexModulus \in Nat \ {0}
      BY BalancerAssumption DEF TurnsInv, BalancerTypeOK
  <2>5. round_robin_index_' % Turns(c) = (round_robin_index_ + 1) % Turns(c)
      BY <1>1, <2>3, <2>4, Wraps
  <2>6. Len(served) \in Nat /\ DOMAIN served = 1 .. Len(served)
      BY <1>3
  <2>7. round_robin_index_ \in Nat
      BY <2>4
  <2>8. CASE served'[m] = e /\ Len(served') + 1 - m = 1
    <3>1. PICK i \in HealthyOf(c) :
              Rank(c, i) = round_robin_index_ % Turns(c) /\ b = Route[c][i]
        BY <1>1, <2>2 DEF IsAt, Rank, Turns
    <3>2. Turns(c) \in Nat \ {0} /\ Rank(c, i) \in Nat
        BY <2>3, Zenon
    <3>3. Rank(c, i) % Turns(c) = round_robin_index_ % Turns(c)
        BY <2>7, <3>1, <3>2, RemainderTwice, Zenon
    <3>4. (Rank(c, i) + 1) % Turns(c) = (round_robin_index_ + 1) % Turns(c)
        BY <2>7, <3>2, <3>3, Successor, ZenonT(30)
    <3> QED
        BY <2>1, <2>2, <2>5, <2>8, <3>1, <3>4 DEF SelectedAt
  <2>9. ASSUME NEW old \in DOMAIN served, served'[m] = served[old],
               Len(served') + 1 - m = (Len(served) + 1 - old) + 1
        PROVE  \E i : SelectedAt(c, i, m)'
    <3>1. PICK i : SelectedAt(c, i, old)
        BY <2>2 DEF TurnsInv, HistoryOK
    <3> DEFINE a == Rank(c, i) + (Len(served) + 1 - old)
    <3>2. a \in Nat /\ Rank(c, i) + (Len(served') + 1 - m) = a + 1
        BY <2>3, <2>6, <2>9
    <3>3. a % Turns(c) = round_robin_index_ % Turns(c)
        BY <3>1 DEF SelectedAt
    <3> HIDE DEF a
    <3>4. (a + 1) % Turns(c) = (round_robin_index_ + 1) % Turns(c)
        BY <2>3, <2>7, <3>2, <3>3, Successor, ZenonT(30)
    <3> QED
        BY <2>1, <2>5, <2>9, <3>1, <3>2, <3>4 DEF SelectedAt
  <2> QED
      BY <1>4, <1>5, <2>8, <2>9 DEF Grown
<1> QED
    BY <1>4, <1>5 DEF HistoryOK

LEMMA TurnsStep == OneRouteOnly /\ TurnsInv /\ [MCNext]_mcVars => TurnsInv'
<1> SUFFICES ASSUME OneRouteOnly, TurnsInv, [MCNext]_mcVars PROVE TurnsInv'
    OBVIOUS
<1>1. [BalancerNext]_balancerVars
    BY DEF MCNext, BalancerNext, Serve, mcVars, balancerVars
<1>2. BalancerTypeOK'
    BY <1>1, BalancerTypeStep DEF TurnsInv
<1>3. CASE UNCHANGED <<backend_health_, round_robin_index_, served>>
  <2>1. /\ \A c : HealthyOf(c)' = HealthyOf(c) /\ Turns(c)' = Turns(c)
        /\ \A c, i : Rank(c, i)' = Rank(c, i)
      BY <1>3 DEF HealthyOf, is_backend_healthy, Turns, Rank
  <2>2. /\ \A c : Regular(c)' = Regular(c)
        /\ \A c, i, m : SelectedAt(c, i, m)' = SelectedAt(c, i, m)
      BY <1>3, <2>1 DEF Regular, SelectedAt
  <2> QED
      BY <1>2, <1>3, <2>2 DEF TurnsInv, HistoryOK
<1>4. served' = <<>> => HistoryOK'
    BY DEF HistoryOK
<1>5. ASSUME NEW d \in Requests, NEW b \in Backends, Serve(d, b)
      PROVE  HistoryOK'
    BY <1>4, <1>5, ServeKeepsHistory DEF Serve
<1>6. \/ UNCHANGED <<backend_health_, round_robin_index_, served>> \/ served' = <<>>
      \/ \E d \in Requests, b \in Backends : Serve(d, b)
  <2>1. CASE UNCHANGED mcVars
      BY <2>1 DEF mcVars
  <2>2. ASSUME NEW d \in Requests, FilterHealthy(d) \/ NoneHealthy(d), UNCHANGED served
        PROVE  UNCHANGED <<backend_health_, round_robin_index_, served>>
      BY <2>2 DEF FilterHealthy, NoneHealthy, balancerVars
  <2>3. ASSUME NEW b \in Backends, mark_backend_unhealthy(b) \/ mark_backend_healthy(b),
               served' = IF backend_health_' = backend_health_ THEN served ELSE <<>>
        PROVE  UNCHANGED <<backend_health_, round_robin_index_, served>> \/ served' = <<>>
      BY <2>3 DEF mark_backend_unhealthy, mark_backend_healthy
  <2> QED
      BY <2>1, <2>2, <2>3 DEF MCNext
<1> QED
    BY <1>2, <1>3, <1>4, <1>5, <1>6 DEF TurnsInv

LEMMA TurnsAreDistinct == OneRouteOnly /\ NoneTwice /\ TurnsInv => ConsecutiveAreDistinct
<1> SUFFICES ASSUME OneRouteOnly, NoneTwice, TurnsInv, NEW c \in Requests,
                    NEW i \in DOMAIN served, NEW j \in DOMAIN served, i < j,
                    Cardinality({m \in i .. j - 1 : served[m][1] = Route[c]})
                        < Cardinality(HealthyOf(c)),
                    IndexModulus % Cardinality(HealthyOf(c)) = 0,
                    served[i][2] = served[j][2]
             PROVE  FALSE
    BY DEF ConsecutiveAreDistinct
<1>1. served \in Seq(Seq(Backends) \X Backends) /\ Len(served) \in Nat
      /\ DOMAIN served = 1 .. Len(served)
    BY DEF TurnsInv, HistoryOK
<1>2. /\ IsFiniteSet(HealthyOf(c)) /\ Turns(c) \in Nat
      /\ HealthyOf(c) # {} <=> Turns(c) # 0
      /\ \A x : Rank(c, x) \in Nat
    BY RanksAreNumbers DEF TurnsInv
<1>3. IsFiniteSet({m \in i .. j - 1 : served[m][1] = Route[c]})
  <2>1. i \in Nat /\ j \in Nat
      BY <1>1
  <2>2. IsFiniteSet(i .. j - 1)
      BY <2>1, NumbersBetween, Zenon
  <2> QED
      BY <2>2, FS_Subset, Zenon
<1>4. Cardinality({m \in i .. j - 1 : served[m][1] = Route[c]}) \in Nat
    BY <1>3, FS_CardinalityType
<1>5. Turns(c) \in Nat \ {0} /\ Regular(c)
    BY <1>2, <1>4 DEF Turns, Regular
<1>6. \A m \in DOMAIN served : \E x : SelectedAt(c, x, m)
    BY <1>5 DEF TurnsInv, HistoryOK
<1>7. {m \in i .. j - 1 : served[m][1] = Route[c]} = i .. j - 1
  <2>1. \A m \in i .. j - 1 : m \in DOMAIN served
      BY <1>1
  <2>2. \A m \in DOMAIN served : served[m][1] = Route[c]
      BY <1>6 DEF SelectedAt
  <2> QED
      BY <2>1, <2>2
<1>8. j - i < Turns(c)
  <2>1. i \in Nat /\ j \in Nat
      BY <1>1
  <2>2. Cardinality(i .. j - 1) = j - i
      BY <2>1, NumbersBetween, Zenon
  <2> QED
      BY <1>7, <2>2 DEF Turns
<1>9. PICK p : SelectedAt(c, p, i)
    BY <1>6
<1>10. PICK q : SelectedAt(c, q, j)
    BY <1>6
<1>11. p = q
  <2>1. p \in Positions(c) /\ q \in Positions(c)
      BY <1>9, <1>10 DEF SelectedAt, HealthyOf
  <2>2. Route[c][p] = Route[c][q]
      BY <1>9, <1>10 DEF SelectedAt
  <2> QED
      BY <2>1, <2>2 DEF NoneTwice
<1> DEFINE a == Rank(c, p) + (Len(served) + 1 - j)
           b == Rank(c, p) + (Len(served) + 1 - i)
<1>12. a % Turns(c) = b % Turns(c)
    BY <1>9, <1>10, <1>11 DEF SelectedAt
<1>13. a \in Nat /\ b \in Nat /\ a < b /\ b - a = j - i
  <2> DEFINE x == Rank(c, p)
             l == Len(served)
  <2>1. x \in Nat
      BY <1>2, Zenon
  <2>2. l \in Nat /\ i \in 1 .. l /\ j \in 1 .. l
      BY <1>1, Zenon
  <2> HIDE DEF x, l
  <2>3. /\ x + (l + 1 - j) \in Nat /\ x + (l + 1 - i) \in Nat
        /\ x + (l + 1 - j) < x + (l + 1 - i)
        /\ (x + (l + 1 - i)) - (x + (l + 1 - j)) = j - i
      BY <2>1, <2>2
  <2> QED
      BY <2>3, Zenon DEF x, l
<1> HIDE DEF a, b
<1>14. a + Turns(c) <= b
    BY <1>5, <1>12, <1>13, ClassIsApart, ZenonT(30)
<1> QED
    BY <1>1, <1>5, <1>8, <1>13, <1>14

\* Requests for one route that names no backend twice: any n selections that
\* follow each other are of n different backends, if n are healthy and divide
\* the number of values of the counter, whatever calls overlap and whenever it
\* wraps (load_balancer.cpp:36-37).
THEOREM RoundRobin ==
    ASSUME OneRouteOnly, NoneTwice
    PROVE  MCSpec => []ConsecutiveAreDistinct
<1>1. MCInit => TurnsInv
    BY TurnsInit
<1>2. TurnsInv /\ [MCNext]_mcVars => TurnsInv'
    BY TurnsStep
<1>3. TurnsInv => ConsecutiveAreDistinct
    BY TurnsAreDistinct
<1> QED
    BY <1>1, <1>2, <1>3, PTL DEF MCSpec
=============================================================================
