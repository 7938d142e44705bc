------------------------------ MODULE PartsProofs ------------------------------
(***************************************************************************)
(* Theorems about the parts that share nothing (MCParts checks instances): *)
(* folds over finite sets, the dates and forecasts of the car sales, which *)
(* documents an answer is made from, whose rows are exported, which skill  *)
(* answers, where photos go, which circles of imports are reported; and    *)
(* that every part of MCParts is the component it shows.                   *)
(***************************************************************************)
EXTENDS MCParts, HttpServerProofs, RaceProofs, FiniteSetTheorems, WellFoundedInduction, TLAPS

-----------------------------------------------------------------------------
(* Folds over finite sets. Induction is over sets of numbers, and over sets *)
(* of subsets, by a least counterexample; the recursive function that a    *)
(* fold is defined by then exists, and a sum lies between what its terms   *)
(* say that it must.                                                       *)

\* What holds of 0, and of n + 1 if of n, holds of every number.
LEMMA NumbersInduction ==
    ASSUME NEW P \in SUBSET Nat, 0 \in P, \A n \in P : n + 1 \in P
    PROVE  P = Nat
<1> DEFINE Less == {p \in Nat \X Nat : p[1] < p[2]}
           Others == Nat \ P
<1>1. IsWellFoundedOn(Less, Nat)
    BY NatLessThanWellFounded DEF OpToRel
<1>2. \A x, y \in Nat : y < x => <<y, x>> \in Less
    OBVIOUS
<1> HIDE DEF Less
<1>3. SUFFICES ASSUME Others # {} PROVE FALSE
    OBVIOUS
<1>4. PICK n \in Others : \A m \in Others : <<m, n>> \notin Less
    BY <1>1, <1>3, WFMin
<1>5. n \in Nat /\ n # 0 /\ n - 1 \in Nat /\ n - 1 < n
    BY <1>4
<1>6. n - 1 \in P
    BY <1>2, <1>4, <1>5
<1>7. (n - 1) + 1 \in P
    BY <1>6
<1> QED
    BY <1>4, <1>5, <1>7

\* A set of numbers has a least one.
LEMMA NumbersHaveLeast ==
    ASSUME NEW S \in SUBSET Nat, S # {}
    PROVE  \E x \in S : \A y \in S : x <= y
<1> DEFINE Less == {p \in Nat \X Nat : p[1] < p[2]}
<1>1. IsWellFoundedOn(Less, Nat)
    BY NatLessThanWellFounded DEF OpToRel
<1>2. \A x, y \in Nat : y < x => <<y, x>> \in Less
    OBVIOUS
<1> HIDE DEF Less
<1>3. PICK x \in S : \A y \in S : <<y, x>> \notin Less
    BY <1>1, WFMin
<1>4. ASSUME NEW y \in S PROVE x <= y
  <2>1. x \in Nat /\ y \in Nat
      OBVIOUS
  <2>2. ~(y < x)
      BY <1>2, <1>3, <2>1
  <2> QED
      BY <2>1, <2>2
<1> QED
    BY <1>4

Chosen(s) == CHOOSE x \in s : TRUE

\* What holds of the empty set, and of a set if it holds of that set without
\* the element that CHOOSE takes, holds of every subset of a finite set.
LEMMA SubsetsInduction ==
    ASSUME NEW S, IsFiniteSet(S), NEW P \in SUBSET (SUBSET S), {} \in P,
           \A s \in SUBSET S : s # {} /\ s \ {Chosen(s)} \in P => s \in P
    PROVE  P = SUBSET S
<1> DEFINE Q == {n \in Nat : \A s \in SUBSET S : Cardinality(s) = n => s \in P}
<1>1. \A s \in SUBSET S : IsFiniteSet(s) /\ Cardinality(s) \in Nat
                          /\ (Cardinality(s) = 0 <=> s = {})
    BY FS_Subset, FS_CardinalityType, FS_EmptySet
<1>2. 0 \in Q
    BY <1>1
<1>3. ASSUME NEW n \in Q PROVE n + 1 \in Q
  <2> SUFFICES ASSUME NEW s \in SUBSET S, Cardinality(s) = n + 1 PROVE s \in P
      OBVIOUS
  <2>1. n \in Nat /\ s # {} /\ IsFiniteSet(s)
      BY <1>1
  <2>2. Chosen(s) \in s
      BY <2>1 DEF Chosen
  <2>a. Cardinality(s \ {Chosen(s)}) = Cardinality(s) - 1
      BY <2>1, <2>2, FS_RemoveElement
  <2>3. Cardinality(s \ {Chosen(s)}) = n
      BY <2>1, <2>a
  <2>4. s \ {Chosen(s)} \in P
      BY <1>3, <2>3
  <2> QED
      BY <2>1, <2>4
<1> HIDE DEF Q
<1>4. Q = Nat
  <2>1. Q \in SUBSET Nat
      BY DEF Q
  <2> QED
      BY <1>2, <1>3, <2>1, NumbersInduction
<1>5. \A s \in SUBSET S : Cardinality(s) \in Q
    BY <1>1, <1>4
<1> QED
    BY <1>5 DEF Q

\* The function that a fold over the subsets of S is defined by.
IsFold(S, base, step, g) ==
    g = [s \in SUBSET S |-> IF s = {} THEN base
                            ELSE step[Chosen(s)][g[s \ {Chosen(s)}]]]

LEMMA FoldExists ==
    ASSUME NEW S, IsFiniteSet(S), NEW V, NEW base \in V, NEW step \in [S -> [V -> V]]
    PROVE  \E g \in [SUBSET S -> V] : IsFold(S, base, step, g)
<1> DEFINE Upto(n) == {s \in SUBSET S : Cardinality(s) <= n}
           Folds(g, n) == \A s \in Upto(n) : g[s] = IF s = {} THEN base
                                                   ELSE step[Chosen(s)][g[s \ {Chosen(s)}]]
           P == {n \in Nat : \E g \in [SUBSET S -> V] : Folds(g, n)}
<1>1. \A s \in SUBSET S : IsFiniteSet(s) /\ Cardinality(s) \in Nat
                          /\ (Cardinality(s) = 0 <=> s = {})
    BY FS_Subset, FS_CardinalityType, FS_EmptySet
<1>2. \A s \in SUBSET S : s # {} => /\ Chosen(s) \in S /\ s \ {Chosen(s)} \in SUBSET S
                                    /\ Cardinality(s \ {Chosen(s)}) = Cardinality(s) - 1
  <2> SUFFICES ASSUME NEW s \in SUBSET S, s # {}
               PROVE  /\ Chosen(s) \in S /\ s \ {Chosen(s)} \in SUBSET S
                      /\ Cardinality(s \ {Chosen(s)}) = Cardinality(s) - 1
      OBVIOUS
  <2>1. Chosen(s) \in s
      BY DEF Chosen
  <2> QED
      BY <1>1, <2>1, FS_RemoveElement
<1>3. 0 \in P
  <2> DEFINE g == [s \in SUBSET S |-> base]
  <2>1. g \in [SUBSET S -> V] /\ Folds(g, 0)
      BY <1>1
  <2> QED
      BY <2>1
<1>4. ASSUME NEW n \in P PROVE n + 1 \in P
  <2>1. n \in Nat
      OBVIOUS
  <2>2. PICK g \in [SUBSET S -> V] : Folds(g, n)
      BY <1>4
  <2> DEFINE h == [s \in SUBSET S |-> IF s = {} THEN base
                                      ELSE step[Chosen(s)][g[s \ {Chosen(s)}]]]
  <2>3. h \in [SUBSET S -> V]
      BY <1>2
  <2>4. ASSUME NEW s \in Upto(n) PROVE h[s] = g[s]
      BY <2>2
  <2>5. ASSUME NEW s \in Upto(n + 1)
        PROVE  h[s] = IF s = {} THEN base ELSE step[Chosen(s)][h[s \ {Chosen(s)}]]
    <3>1. CASE s = {}
        BY <3>1
    <3>2. CASE s # {}
      <4>1. s \in SUBSET S /\ s \ {Chosen(s)} \in Upto(n)
          BY <1>1, <1>2, <2>1, <3>2
      <4>2. h[s \ {Chosen(s)}] = g[s \ {Chosen(s)}]
          BY <2>4, <4>1
      <4>3. h[s] = step[Chosen(s)][g[s \ {Chosen(s)}]]
          BY <3>2, <4>1
      <4> QED
          BY <3>2, <4>2, <4>3
    <3> QED
        BY <3>1, <3>2
  <2> HIDE DEF h
  <2>6. Folds(h, n + 1)
      BY <2>5
  <2>7. n + 1 \in Nat
      BY <2>1
  <2> HIDE DEF Folds
  <2> QED
      BY <2>3, <2>6, <2>7
<1> HIDE DEF P
<1>5. P = Nat
  <2>1. P \in SUBSET Nat
      BY DEF P
  <2> QED
      BY <1>3, <1>4, <2>1, NumbersInduction
<1>6. Cardinality(S) \in P
    BY <1>5, FS_CardinalityType
<1>7. PICK g \in [SUBSET S -> V] : Folds(g, Cardinality(S))
    BY <1>6 DEF P
<1>8. \A s \in SUBSET S : s \in Upto(Cardinality(S))
    BY FS_Subset
<1> HIDE DEF Upto
<1>9. \A s \in SUBSET S : g[s] = IF s = {} THEN base ELSE step[Chosen(s)][g[s \ {Chosen(s)}]]
    BY <1>7, <1>8
<1>10. IsFold(S, base, step, g)
    BY <1>9 DEF IsFold
<1> QED
    BY <1>10

\* The sum of the numbers f[x] over a set, as the fold MapThenSumSet makes it.
IsSum(f, S, g) ==
    g = [s \in SUBSET S |-> IF s = {} THEN 0
                            ELSE LET x == CHOOSE x \in s : TRUE IN f[x] + g[s \ {x}]]

LEMMA SumExists ==
    ASSUME NEW S, IsFiniteSet(S), NEW f \in [S -> Nat]
    PROVE  \E g : IsSum(f, S, g)
<1> DEFINE step == [x \in S |-> [v \in Nat |-> f[x] + v]]
<1>1. step \in [S -> [Nat -> Nat]]
    OBVIOUS
<1>2. PICK g \in [SUBSET S -> Nat] : IsFold(S, 0, step, g)
    BY <1>1, FoldExists
<1>3. \A s \in SUBSET S : s # {} => Chosen(s) \in S /\ s \ {Chosen(s)} \in SUBSET S
    BY DEF Chosen
<1>4. \A s \in SUBSET S : s # {} => step[Chosen(s)][g[s \ {Chosen(s)}]] = f[Chosen(s)] + g[s \ {Chosen(s)}]
    BY <1>3
<1> HIDE DEF step
<1>5. g = [s \in SUBSET S |-> IF s = {} THEN 0 ELSE f[Chosen(s)] + g[s \ {Chosen(s)}]]
    BY <1>2, <1>4 DEF IsFold
<1> QED
    BY <1>5 DEF IsSum, Chosen

\* Such a sum is a number, and it lies between the number of elements times
\* the least and times the greatest of the numbers.
LEMMA SumBounds ==
    ASSUME NEW S, IsFiniteSet(S), NEW f \in [S -> Nat], NEW g, IsSum(f, S, g)
    PROVE  /\ g[S] \in Nat
           /\ S # {} => /\ \E x \in S : Cardinality(S) * f[x] <= g[S]
                        /\ \E x \in S : g[S] <= Cardinality(S) * f[x]
<1> DEFINE Lower(s) == \E x \in s : Cardinality(s) * f[x] <= g[s]
           Upper(s) == \E x \in s : g[s] <= Cardinality(s) * f[x]
           P == {s \in SUBSET S : g[s] \in Nat /\ (s # {} => Lower(s) /\ Upper(s))}
<1>1. g[{}] = 0 /\ \A s \in SUBSET S : s # {} => g[s] = f[Chosen(s)] + g[s \ {Chosen(s)}]
    BY DEF IsSum, Chosen
<1>2. {} \in P
    BY <1>1
<1>3. ASSUME NEW s \in SUBSET S, s # {}, s \ {Chosen(s)} \in P
      PROVE  s \in P
  <2> DEFINE x == Chosen(s)
             t == s \ {x}
             c == Cardinality(t)
             sum == g[t]
             here == f[x]
  <2>1. x \in s /\ x \in S
      BY <1>3 DEF Chosen
  <2>2. IsFiniteSet(s) /\ IsFiniteSet(t)
      BY FS_Subset
  <2>3. c \in Nat /\ Cardinality(s) = c + 1
    <3>1. c = Cardinality(s) - 1
        BY <2>1, <2>2, FS_RemoveElement
    <3>2. c \in Nat /\ Cardinality(s) \in Nat
        BY <2>2, FS_CardinalityType
    <3> QED
        BY <3>1, <3>2
  <2>4. g[s] = here + sum
      BY <1>1, <1>3
  <2>5. sum \in Nat /\ (t # {} => Lower(t) /\ Upper(t))
      BY <1>3
  <2>6. here \in Nat
      BY <2>1
  <2>7. CASE t = {}
    <3>1. c = 0 /\ sum = 0
        BY <1>1, <2>7, FS_EmptySet
    <3> HIDE DEF c, sum
    <3>2. Cardinality(s) * f[x] = g[s]
        BY <2>3, <2>4, <2>6, <3>1
    <3>3. Lower(s) /\ Upper(s)
        BY <2>1, <2>4, <2>5, <2>6, <3>1, <3>2
    <3> QED
        BY <2>4, <2>5, <2>6, <3>3
  <2>8. CASE t # {}
    <3>1. PICK y \in t : c * f[y] <= sum
        BY <2>5, <2>8
    <3>2. PICK z \in t : sum <= c * f[z]
        BY <2>5, <2>8
    <3> DEFINE low == f[y]
               high == f[z]
    <3>3. y \in s /\ z \in s /\ low \in Nat /\ high \in Nat
        OBVIOUS
    <3>4. c * low <= sum /\ sum <= c * high
        BY <3>1, <3>2
    <3> HIDE DEF c, sum, here
    <3>5. Lower(s)
      <4>1. CASE here <= low
        <5> HIDE DEF low
        <5>1. c * here <= c * low
            BY <4>1, <2>3, <2>6, <3>3, SMTT(30)
        <5>2. (c + 1) * here = c * here + here
            BY <2>3, <2>6, SMTT(30)
        <5>3. Cardinality(s) * here <= g[s]
            BY <2>3, <2>4, <2>5, <2>6, <3>3, <3>4, <5>1, <5>2, SMTT(30)
        <5> QED
            BY <2>1, <5>3 DEF here
      <4>2. CASE ~(here <= low)
        <5>1. low <= here
            BY <4>2, <2>6, <3>3
        <5> HIDE DEF low
        <5>2. (c + 1) * low = c * low + low
            BY <2>3, <3>3, SMTT(30)
        <5>3. Cardinality(s) * low <= g[s]
            BY <2>3, <2>4, <2>5, <2>6, <3>3, <3>4, <5>1, <5>2, SMTT(30)
        <5> QED
            BY <3>3, <5>3 DEF low
      <4> QED
          BY <4>1, <4>2
    <3>6. Upper(s)
      <4>1. CASE high <= here
        <5> HIDE DEF high
        <5>1. c * high <= c * here
            BY <4>1, <2>3, <2>6, <3>3, SMTT(30)
        <5>2. (c + 1) * here = c * here + here
            BY <2>3, <2>6, SMTT(30)
        <5>3. g[s] <= Cardinality(s) * here
            BY <2>3, <2>4, <2>5, <2>6, <3>3, <3>4, <5>1, <5>2, SMTT(30)
        <5> QED
            BY <2>1, <5>3 DEF here
      <4>2. CASE ~(high <= here)
        <5>1. here <= high
            BY <4>2, <2>6, <3>3
        <5> HIDE DEF high
        <5>2. (c + 1) * high = c * high + high
            BY <2>3, <3>3, SMTT(30)
        <5>3. g[s] <= Cardinality(s) * high
            BY <2>3, <2>4, <2>5, <2>6, <3>3, <3>4, <5>1, <5>2, SMTT(30)
        <5> QED
            BY <3>3, <5>3 DEF high
      <4> QED
          BY <4>1, <4>2
    <3> QED
        BY <2>4, <2>5, <2>6, <3>5, <3>6
  <2> QED
      BY <2>7, <2>8
<1> HIDE DEF P
<1>4. P = SUBSET S
  <2>1. P \in SUBSET (SUBSET S)
      BY DEF P
  <2> QED
      BY <1>2, <1>3, <2>1, SubsetsInduction
<1>5. S \in P
    BY <1>4
<1> QED
    BY <1>5 DEF P

\* The order in which the elements are taken does not matter.
LEMMA SumWithout ==
    ASSUME NEW S, IsFiniteSet(S), NEW f \in [S -> Nat], NEW g, IsSum(f, S, g)
    PROVE  \A s \in SUBSET S : g[s] \in Nat /\ \A x \in s : g[s] = f[x] + g[s \ {x}]
<1>0. \A s \in SUBSET S : g[s] \in Nat
  <2> DEFINE P == {s \in SUBSET S : g[s] \in Nat}
  <2>1. {} \in P /\ P \in SUBSET (SUBSET S)
      BY DEF IsSum
  <2>2. ASSUME NEW s \in SUBSET S, s # {}, s \ {Chosen(s)} \in P PROVE s \in P
    <3>1. g[s] = f[Chosen(s)] + g[s \ {Chosen(s)}] /\ Chosen(s) \in S
        BY <2>2 DEF IsSum, Chosen
    <3> QED
        BY <2>2, <3>1
  <2> HIDE DEF P
  <2>3. P = SUBSET S
      BY <2>1, <2>2, SubsetsInduction
  <2> QED
      BY <2>3 DEF P
<1> DEFINE Good(s) == \A x \in s : g[s] = f[x] + g[s \ {x}]
           Q == {n \in Nat : \A s \in SUBSET S : Cardinality(s) = n => Good(s)}
<1>1. g[{}] = 0 /\ \A s \in SUBSET S : s # {} => g[s] = f[Chosen(s)] + g[s \ {Chosen(s)}]
    BY DEF IsSum, Chosen
<1>2. \A s \in SUBSET S : IsFiniteSet(s) /\ Cardinality(s) \in Nat
                          /\ (Cardinality(s) = 0 <=> s = {})
    BY FS_Subset, FS_CardinalityType, FS_EmptySet
<1>3. 0 \in Q
    BY <1>1, <1>2
<1>4. ASSUME NEW n \in Q PROVE n + 1 \in Q
  <2> SUFFICES ASSUME NEW s \in SUBSET S, Cardinality(s) = n + 1 PROVE Good(s)
      OBVIOUS
  <2>1. n \in Nat /\ s # {} /\ IsFiniteSet(s)
      BY <1>2
  <2>2. ASSUME NEW x \in s PROVE Good(s \ {x})
    <3>1. Cardinality(s \ {x}) = Cardinality(s) - 1
        BY <2>1, FS_RemoveElement
    <3>2. Cardinality(s \ {x}) = n /\ s \ {x} \in SUBSET S
        BY <2>1, <3>1
    <3> QED
        BY <1>4, <3>2
  <2> DEFINE c == Chosen(s)
  <2>3. c \in s
      BY <2>1 DEF Chosen
  <2>4. g[s] = f[c] + g[s \ {c}]
      BY <1>1, <2>1
  <2> HIDE DEF c
  <2>5. ASSUME NEW x \in s, x # c PROVE g[s] = f[x] + g[s \ {x}]
    <3> DEFINE both == (s \ {c}) \ {x}
    <3>1. (s \ {x}) \ {c} = both /\ x \in s \ {c} /\ c \in s \ {x}
        BY <2>3, <2>5
    <3>2. g[s \ {c}] = f[x] + g[both]
        BY <2>2, <2>3, <3>1
    <3>3. g[s \ {x}] = f[c] + g[both]
        BY <2>2, <3>1
    <3>4. g[both] \in Nat
        BY <1>0
    <3>5. f[c] \in Nat /\ f[x] \in Nat
        BY <2>3
    <3> HIDE DEF both
    <3> QED
        BY <2>4, <3>2, <3>3, <3>4, <3>5
  <2> QED
      BY <2>4, <2>5
<1> HIDE DEF Q
<1>5. Q = Nat
  <2>1. Q \in SUBSET Nat
      BY DEF Q
  <2> QED
      BY <1>3, <1>4, <2>1, NumbersInduction
<1>6. \A s \in SUBSET S : Cardinality(s) \in Q
    BY <1>2, <1>5
<1> QED
    BY <1>0, <1>6 DEF Q

\* The sum over a part is no more than the sum over the whole.
LEMMA SumOfPart ==
    ASSUME NEW S, IsFiniteSet(S), NEW f \in [S -> Nat], NEW g, IsSum(f, S, g),
           NEW T \in SUBSET S, NEW h, IsSum([x \in T |-> f[x]], T, h)
    PROVE  h[T] \in Nat /\ h[T] <= g[S]
<1>1. \A s \in SUBSET S : g[s] \in Nat /\ \A x \in s : g[s] = f[x] + g[s \ {x}]
    BY SumWithout
<1>2. h[T] = g[T]
  <2> DEFINE P == {s \in SUBSET T : h[s] = g[s]}
  <2>1. h[{}] = 0 /\ g[{}] = 0
      BY DEF IsSum
  <2>2. \A s \in SUBSET T : s # {} =>
            /\ h[s] = f[Chosen(s)] + h[s \ {Chosen(s)}]
            /\ g[s] = f[Chosen(s)] + g[s \ {Chosen(s)}]
    <3>1. ASSUME NEW s \in SUBSET T, s # {} PROVE Chosen(s) \in T /\ s \in SUBSET S
        BY <3>1 DEF Chosen
    <3>2. ASSUME NEW s \in SUBSET T, s # {} PROVE h[s] = f[Chosen(s)] + h[s \ {Chosen(s)}]
      <4>1. h[s] = [x \in T |-> f[x]][Chosen(s)] + h[s \ {Chosen(s)}]
          BY <3>2 DEF IsSum, Chosen
      <4> QED
          BY <3>1, <3>2, <4>1
    <3>3. ASSUME NEW s \in SUBSET T, s # {} PROVE g[s] = f[Chosen(s)] + g[s \ {Chosen(s)}]
        BY <3>1, <3>3 DEF IsSum, Chosen
    <3> QED
        BY <3>2, <3>3
  <2>3. P \in SUBSET (SUBSET T) /\ {} \in P
      BY <2>1
  <2>4. \A s \in SUBSET T : s # {} /\ s \ {Chosen(s)} \in P => s \in P
      BY <2>2
  <2>5. IsFiniteSet(T)
      BY FS_Subset
  <2> HIDE DEF P
  <2>6. P = SUBSET T
      BY <2>3, <2>4, <2>5, SubsetsInduction
  <2>7. T \in P
      BY <2>6
  <2> QED
      BY <2>7 DEF P
<1>3. g[T] <= g[S]
  <2> DEFINE P == {s \in SUBSET S : g[S \ s] <= g[S]}
  <2>1. {} \in P
    <3>1. S \ {} = S
        OBVIOUS
    <3> QED
        BY <1>1, <3>1
  <2>2. ASSUME NEW s \in SUBSET S, s # {}, s \ {Chosen(s)} \in P PROVE s \in P
    <3> DEFINE c == Chosen(s)
               more == S \ (s \ {c})
    <3>1. c \in s
        BY <2>2 DEF Chosen
    <3>2. more \ {c} = S \ s /\ c \in more /\ more \in SUBSET S
        BY <3>1
    <3>3. g[more] <= g[S]
        BY <2>2
    <3> HIDE DEF c, more
    <3>4. g[more] = f[c] + g[S \ s]
        BY <1>1, <3>2
    <3>5. g[more] \in Nat /\ g[S \ s] \in Nat /\ g[S] \in Nat /\ f[c] \in Nat
        BY <1>1, <3>1, <3>2
    <3>6. g[S \ s] <= g[S]
        BY <3>3, <3>4, <3>5
    <3> QED
        BY <3>6
  <2>3. P \in SUBSET (SUBSET S)
      OBVIOUS
  <2> HIDE DEF P
  <2>4. P = SUBSET S
      BY <2>1, <2>2, <2>3, SubsetsInduction
  <2>5. S \ T \in P /\ S \ (S \ T) = T
      BY <2>4
  <2> QED
      BY <2>5 DEF P
<1> QED
    BY <1>1, <1>2, <1>3

\* The values of a function on a finite set are finitely many.
LEMMA ValuesAreFinite ==
    ASSUME NEW g, IsFiniteSet(DOMAIN g)
    PROVE  IsFiniteSet({g[x] : x \in DOMAIN g})
<1> DEFINE values == {g[x] : x \in DOMAIN g}
           onto == [x \in DOMAIN g |-> g[x]]
<1>1. onto \in Surjection(DOMAIN g, values)
    BY DEF Surjection
<1> HIDE DEF onto, values
<1>2. IsFiniteSet(values)
    BY <1>1, FS_Surjection
<1> QED
    BY <1>2 DEF values

-----------------------------------------------------------------------------
(* The prediction of car sales counts months from January 2012, and works  *)
(* on dates yyyymm that are split after one is subtracted: a date survives *)
(* the way there and back, for every year and month. The files of one day  *)
(* and of another are about different lines, and none is passed over.      *)

\* washmonth counts the months since January 2012, from 0.
LEMMA WashedMonth ==
    ASSUME NEW year \in Int, NEW m \in 1 .. 12
    PROVE  washmonth(year * 100 + m) = (year - 2012) * 12 + (m - 1)
<1> DEFINE n == (year * 100 + m) - 1
<1>1. n = year * 100 + (m - 1) /\ n \in Int /\ m - 1 \in 0 .. 99
    OBVIOUS
<1>2. n \div 100 = year
    BY <1>1, SMTT(30)
<1>3. washmonth(year * 100 + m) = (n \div 100 - 2012) * 12 + (n - (n \div 100) * 100)
    BY DEF washmonth
<1> HIDE DEF n
<1> QED
    BY <1>1, <1>2, <1>3

\* ... and recvermonth makes a date of them.
LEMMA RecoveredDate ==
    ASSUME NEW y \in Int, NEW r \in 0 .. 11
    PROVE  recvermonth(y * 12 + r) = y * 100 + 201200 + r + 1
<1> DEFINE month == y * 12 + r
<1>1. recvermonth(month) = (month \div 12) * 100 + 201200 + (month - (month \div 12) * 12 + 1)
    BY DEF recvermonth
<1>2. month \div 12 = y
    BY SMTT(30)
<1> QED
    BY <1>1, <1>2

\* What washmonth makes of a date recvermonth makes that date again: no month
\* is moved into another year (utilfile.py:133-143).
THEOREM DatesAreRecovered ==
    ASSUME NEW year \in Int, NEW m \in 1 .. 12
    PROVE  recvermonth(washmonth(year * 100 + m)) = year * 100 + m
<1> DEFINE y == year - 2012
           r == m - 1
<1>1. washmonth(year * 100 + m) = y * 12 + r
    BY WashedMonth
<1>2. y \in Int /\ r \in 0 .. 11 /\ y * 100 + 201200 + r + 1 = year * 100 + m
    OBVIOUS
<1> HIDE DEF y, r
<1>3. recvermonth(y * 12 + r) = y * 100 + 201200 + r + 1
    BY <1>2, RecoveredDate
<1> QED
    BY <1>1, <1>2, <1>3

\* Two dates that are washed to one month are one date, so that the sales of
\* two months are never added up (utilAlg_Mean.py:22-46).
THEOREM MonthsStayApart ==
    ASSUME NEW year1 \in Int, NEW m1 \in 1 .. 12, NEW year2 \in Int, NEW m2 \in 1 .. 12,
           washmonth(year1 * 100 + m1) = washmonth(year2 * 100 + m2)
    PROVE  year1 = year2 /\ m1 = m2
<1>1. (year1 - 2012) * 12 + (m1 - 1) = (year2 - 2012) * 12 + (m2 - 1)
    BY WashedMonth
<1> QED
    BY <1>1

\* On two days DailyFile.py changes different lines, and each line has its day
\* (DailyFile.py:9-18).
THEOREM UploadsAreDisjoint ==
    /\ \A day1, day2 \in Int : day1 # day2 => getFileInfo(day1) \cap getFileInfo(day2) = {}
    /\ \A line \in Int : \E day \in Int : line \in getFileInfo(day)
<1>1. ASSUME NEW day1 \in Int, NEW day2 \in Int, day1 # day2
      PROVE  getFileInfo(day1) \cap getFileInfo(day2) = {}
    BY <1>1, SMTT(30) DEF getFileInfo
<1>2. ASSUME NEW line \in Int PROVE \E day \in Int : line \in getFileInfo(day)
  <2> DEFINE day == (line - 1) \div 8
  <2>1. day \in Int /\ line - day * 8 \in 1 .. 8
      BY SMTT(30)
  <2>2. line = (line - day * 8) + day * 8
      BY <2>1
  <2>3. line \in getFileInfo(day)
      BY <2>1, <2>2 DEF getFileInfo
  <2> QED
      BY <2>1, <2>3
<1> QED
    BY <1>1, <1>2

SumSold(S) == MapThenSumSet(LAMBDA r : r.sold, S)

LEMMA SumSoldIsSum ==
    ASSUME NEW S, IsFiniteSet(S), \A r \in S : r.sold \in Nat
    PROVE  \E g : IsSum([r \in S |-> r.sold], S, g) /\ SumSold(S) = g[S]
<1> DEFINE f == [r \in S |-> r.sold]
           Def(g) == g = [s \in SUBSET S |-> IF s = {} THEN 0
                            ELSE LET x == CHOOSE x \in s : TRUE IN x.sold + g[s \ {x}]]
           iter == CHOOSE g : Def(g)
<1>1. \A g : IsSum(f, S, g) <=> Def(g)
  <2> SUFFICES ASSUME NEW g PROVE IsSum(f, S, g) <=> Def(g)
      OBVIOUS
  <2>1. ASSUME NEW s \in SUBSET S, s # {} PROVE f[CHOOSE x \in s : TRUE] = (CHOOSE x \in s : TRUE).sold
      BY <2>1
  <2> HIDE DEF f
  <2> QED
      BY <2>1 DEF IsSum
<1>2. f \in [S -> Nat]
    OBVIOUS
<1>3. \E g : IsSum(f, S, g)
    BY <1>2, SumExists
<1> HIDE DEF f
<1>4. Def(iter)
  <2> HIDE DEF Def
  <2>1. \E g : Def(g)
      BY <1>1, <1>3
  <2> QED
      BY <2>1
<1>5. SumSold(S) = iter[S]
    BY DEF SumSold, MapThenSumSet, MapThenFoldSet
<1> HIDE DEF iter
<1> QED
    BY <1>1, <1>4, <1>5 DEF f

\* A date is its year and its month.
LEMMA DateParts ==
    ASSUME NEW date, IsDate(date)
    PROVE  \E year \in Int, m \in 1 .. 12 : date = year * 100 + m
<1> DEFINE year == date \div 100
           m == date % 100
<1>1. date \in Int /\ m \in 1 .. 12
    BY DEF IsDate
<1>2. year \in Int /\ date = year * 100 + m
    BY <1>1, SMTT(30)
<1> HIDE DEF year, m
<1> QED
    BY <1>1, <1>2

LEMMA DateRecovers ==
    ASSUME NEW date, IsDate(date)
    PROVE  recvermonth(washmonth(date)) = date
    BY DateParts, DatesAreRecovered

LEMMA DatesWashApart ==
    ASSUME NEW date1, IsDate(date1), NEW date2, IsDate(date2), washmonth(date1) = washmonth(date2)
    PROVE  date1 = date2
<1>1. PICK year1 \in Int, m1 \in 1 .. 12 : date1 = year1 * 100 + m1
    BY DateParts
<1>2. PICK year2 \in Int, m2 \in 1 .. 12 : date2 = year2 * 100 + m2
    BY DateParts
<1>3. year1 = year2 /\ m1 = m2
    BY <1>1, <1>2, MonthsStayApart
<1> QED
    BY <1>1, <1>2, <1>3

\* A mean that is rounded to a whole number stays between whole numbers that
\* the mean lies between.
LEMMA RoundedBetween ==
    ASSUME NEW sum \in Nat, NEW months \in Nat \ {0}, NEW low \in Nat, NEW high \in Nat,
           months * low <= sum, sum <= months * high
    PROVE  Rounded(sum, months) \in Nat /\ low <= Rounded(sum, months) /\ Rounded(sum, months) <= high
<1> DEFINE q == sum \div months
           r == sum % months
<1>1. q \in Nat /\ r \in 0 .. months - 1 /\ sum = months * q + r
    BY SMTT(30)
<1>2. Rounded(sum, months) = IF 2 * r > months \/ (2 * r = months /\ q % 2 = 1) THEN q + 1 ELSE q
    BY DEF Rounded
<1> HIDE DEF q, r
<1>3. Rounded(sum, months) = q \/ (Rounded(sum, months) = q + 1 /\ r > 0)
    BY <1>1, <1>2
<1>4. low <= q
  <2>1. SUFFICES ASSUME low >= q + 1 PROVE FALSE
      BY <1>1
  <2>2. months * low >= months * (q + 1)
      BY <1>1, <2>1, SMTT(30)
  <2>3. months * (q + 1) = months * q + months
      BY <1>1, SMTT(30)
  <2> DEFINE cl == months * low
             cq == months * q
             cq1 == months * (q + 1)
  <2>4. cl \in Int /\ cq \in Int /\ cq1 \in Int /\ cl >= cq1 /\ cq1 = cq + months /\ cl <= sum /\ sum = cq + r
      BY <1>1, <2>2, <2>3
  <2> HIDE DEF cl, cq, cq1
  <2> QED
      BY <1>1, <2>4
<1>5. q <= high /\ (r > 0 => q + 1 <= high)
  <2>1. ASSUME high + 1 <= q PROVE FALSE
    <3>1. months * (high + 1) <= months * q
        BY <1>1, <2>1, SMTT(30)
    <3>2. months * (high + 1) = months * high + months
        BY SMTT(30)
    <3> DEFINE ch == months * high
               cq == months * q
               ch1 == months * (high + 1)
    <3>3. ch \in Int /\ cq \in Int /\ ch1 \in Int /\ ch1 <= cq /\ ch1 = ch + months /\ sum <= ch /\ sum = cq + r
        BY <1>1, <3>1, <3>2
    <3> HIDE DEF ch, cq, ch1
    <3> QED
        BY <1>1, <3>3
  <2>2. ASSUME q = high PROVE r = 0
    <3> DEFINE ch == months * high
    <3>1. ch \in Int /\ sum <= ch /\ sum = ch + r
        BY <1>1, <2>2
    <3> HIDE DEF ch
    <3> QED
        BY <1>1, <3>1
  <2> QED
      BY <1>1, <2>1, <2>2
<1> QED
    BY <1>1, <1>3, <1>4, <1>5

-----------------------------------------------------------------------------
SalesOn(rows, class, date) == SumSold({r \in rows : r.class = class /\ r.date = date})
SalesFile(rows) == IsFiniteSet(rows) /\ \A r \in rows : IsDate(r.date) /\ r.sold \in Nat

LEMMA SumSoldBounds ==
    ASSUME NEW S, IsFiniteSet(S), \A r \in S : r.sold \in Nat
    PROVE  /\ SumSold(S) \in Nat
           /\ S # {} => /\ \E r \in S : Cardinality(S) * r.sold <= SumSold(S)
                        /\ \E r \in S : SumSold(S) <= Cardinality(S) * r.sold
<1> DEFINE f == [r \in S |-> r.sold]
<1>1. f \in [S -> Nat] /\ \A r \in S : f[r] = r.sold
    OBVIOUS
<1>2. PICK g : IsSum(f, S, g) /\ SumSold(S) = g[S]
    BY SumSoldIsSum
<1> HIDE DEF f
<1>3. /\ g[S] \in Nat
      /\ S # {} => /\ \E x \in S : Cardinality(S) * f[x] <= g[S]
                   /\ \E x \in S : g[S] <= Cardinality(S) * f[x]
    BY <1>1, <1>2, SumBounds
<1> QED
    BY <1>1, <1>2, <1>3

\* The sales of a month are those of the date that is washed to it.
LEMMA SoldOnDate ==
    ASSUME NEW rows, SalesFile(rows), NEW q \in rows, NEW class
    PROVE  /\ SoldIn(rows, washmonth(q.date), class) = SalesOn(rows, class, q.date)
           /\ SalesOn(rows, class, q.date) \in Nat
<1> DEFINE A == {r \in rows : r.class = class /\ washmonth(r.date) = washmonth(q.date)}
           B == {r \in rows : r.class = class /\ r.date = q.date}
<1>1. A = B
  <2>1. \A r \in rows : washmonth(r.date) = washmonth(q.date) => r.date = q.date
      BY DatesWashApart DEF SalesFile
  <2> QED
      BY <2>1
<1>2. SoldIn(rows, washmonth(q.date), class) = SumSold(A)
    BY DEF SoldIn, SumSold
<1>3. SalesOn(rows, class, q.date) = SumSold(B)
    BY DEF SalesOn
<1>4. SumSold(B) \in Nat
  <2>1. IsFiniteSet(B) /\ \A r \in B : r.sold \in Nat
      BY FS_Subset DEF SalesFile
  <2> HIDE DEF B
  <2> QED
      BY <2>1, SumSoldBounds
<1> HIDE DEF A, B
<1> QED
    BY <1>1, <1>2, <1>3, <1>4

\* Sums of sales over a part of the rows.
LEMMA SumSoldOfPart ==
    ASSUME NEW S, IsFiniteSet(S), \A r \in S : r.sold \in Nat, NEW T \in SUBSET S
    PROVE  SumSold(T) \in Nat /\ SumSold(T) <= SumSold(S)
<1> DEFINE f == [r \in S |-> r.sold]
           fT == [r \in T |-> r.sold]
<1>1. f \in [S -> Nat] /\ fT = [x \in T |-> f[x]]
    OBVIOUS
<1>2. IsFiniteSet(T) /\ \A r \in T : r.sold \in Nat
    BY FS_Subset
<1>3. PICK g : IsSum(f, S, g) /\ SumSold(S) = g[S]
    BY SumSoldIsSum
<1>4. PICK h : IsSum(fT, T, h) /\ SumSold(T) = h[T]
    BY <1>2, SumSoldIsSum
<1> HIDE DEF f, fT
<1>5. IsSum([x \in T |-> f[x]], T, h)
    BY <1>1, <1>4
<1>6. h[T] \in Nat /\ h[T] <= g[S]
    BY <1>1, <1>3, <1>5, SumOfPart
<1> QED
    BY <1>3, <1>4, <1>6

\* What the n-th training finds lies between the sales and n times the sales.
LEMMA SoldByBounds ==
    ASSUME NEW rows, SalesFile(rows), NEW q \in rows, NEW class, NEW n \in Nat \ {0}
    PROVE  /\ SoldBy(n, rows, washmonth(q.date), class) \in Nat
           /\ SalesOn(rows, class, q.date) <= SoldBy(n, rows, washmonth(q.date), class)
           /\ SoldBy(n, rows, washmonth(q.date), class) <= n * SalesOn(rows, class, q.date)
<1> DEFINE month == washmonth(q.date)
           A == {r \in rows : r.class = class /\ washmonth(r.date) = month}
           B == {r \in Later(rows) : r.class = class /\ washmonth(r.date) = month}
           all == SoldIn(rows, month, class)
           later == SoldIn(Later(rows), month, class)
<1>1. all = SumSold(A) /\ later = SumSold(B)
    BY DEF SoldIn, SumSold
<1>2. IsFiniteSet(A) /\ \A r \in A : r.sold \in Nat
    BY FS_Subset DEF SalesFile
<1>3. B \in SUBSET A
    BY DEF Later
<1>4. all = SalesOn(rows, class, q.date) /\ all \in Nat
    BY SoldOnDate
<1>5. SoldBy(n, rows, month, class) = all + (n - 1) * later
    BY DEF SoldBy
<1> HIDE DEF A, B, all, later, month
<1>6. later \in Nat /\ later <= all
    BY <1>1, <1>2, <1>3, SumSoldOfPart
<1>7. PICK m \in Nat : n = m + 1
  <2>1. n - 1 \in Nat /\ n = (n - 1) + 1
      OBVIOUS
  <2> QED
      BY <2>1
<1>8. m * later \in Nat /\ m * later <= m * all /\ m * all \in Nat
    BY <1>4, <1>6, SMTT(30)
<1>9. n * all = m * all + all /\ (n - 1) * later = m * later
  <2>1. n - 1 = m
      BY <1>7
  <2> QED
      BY <1>4, <1>7, <2>1, SMTT(30)
<1>10. /\ all + (n - 1) * later \in Nat
       /\ all <= all + (n - 1) * later
       /\ all + (n - 1) * later <= n * all
  <2> DEFINE p1 == (n - 1) * later
             p2 == m * later
             p3 == m * all
             p4 == n * all
  <2>1. p1 = p2 /\ p2 \in Nat /\ p2 <= p3 /\ p3 \in Nat /\ p4 = p3 + all
      BY <1>8, <1>9
  <2> HIDE DEF p1, p2, p3, p4
  <2>2. all + p1 \in Nat /\ all <= all + p1 /\ all + p1 <= p4
      BY <1>4, <2>1
  <2> QED
      BY <2>2 DEF p1, p4
<1> QED
    BY <1>4, <1>5, <1>10 DEF month

SaleOf(rows, n, r) == [month |-> washmonth(r.date), class |-> r.class,
                       sold |-> SoldBy(n, rows, washmonth(r.date), r.class)]

\* The rows that a prediction for a class is made of.
OwnRows(rows, class) == {r \in rows : class = 0 \/ r.class = class}

\* The n-th mean of a class lies between its least sales on a date and n times
\* its greatest, and that of class 0 so for the sales of all classes.
LEMMA MeanIsBetween ==
    ASSUME NEW rows, SalesFile(rows), NEW class, OwnRows(rows, class) # {}, NEW n \in Nat \ {0}
    PROVE  /\ \E q \in OwnRows(rows, class) :
                 SalesOn(rows, q.class, q.date) <= MeanOf(MonthlySales(rows, n), class)
           /\ \E q \in OwnRows(rows, class) :
                 MeanOf(MonthlySales(rows, n), class) <= n * SalesOn(rows, q.class, q.date)
<1> DEFINE own == {s \in MonthlySales(rows, n) : class = 0 \/ s.class = class}
           mine == OwnRows(rows, class)
           f == [r \in mine |-> SaleOf(rows, n, r)]
<1>1. own = {SaleOf(rows, n, r) : r \in mine}
  <2>1. \A r : SaleOf(rows, n, r).class = r.class
      BY DEF SaleOf
  <2>2. MonthlySales(rows, n) = {SaleOf(rows, n, r) : r \in rows}
      BY DEF MonthlySales, SaleOf
  <2> QED
      BY <2>1, <2>2 DEF OwnRows
<1>2. \A r \in mine : /\ SaleOf(rows, n, r).sold \in Nat
                      /\ SalesOn(rows, r.class, r.date) \in Nat
                      /\ SalesOn(rows, r.class, r.date) <= SaleOf(rows, n, r).sold
                      /\ SaleOf(rows, n, r).sold <= n * SalesOn(rows, r.class, r.date)
  <2> SUFFICES ASSUME NEW r \in mine
               PROVE  /\ SaleOf(rows, n, r).sold \in Nat
                      /\ SalesOn(rows, r.class, r.date) \in Nat
                      /\ SalesOn(rows, r.class, r.date) <= SaleOf(rows, n, r).sold
                      /\ SaleOf(rows, n, r).sold <= n * SalesOn(rows, r.class, r.date)
      OBVIOUS
  <2>1. r \in rows
      BY DEF OwnRows
  <2>2. SaleOf(rows, n, r).sold = SoldBy(n, rows, washmonth(r.date), r.class)
      BY DEF SaleOf
  <2>3. SalesOn(rows, r.class, r.date) \in Nat
      BY <2>1, SoldOnDate
  <2>4. /\ SoldBy(n, rows, washmonth(r.date), r.class) \in Nat
        /\ SalesOn(rows, r.class, r.date) <= SoldBy(n, rows, washmonth(r.date), r.class)
        /\ SoldBy(n, rows, washmonth(r.date), r.class) <= n * SalesOn(rows, r.class, r.date)
      BY <2>1, SoldByBounds
  <2> QED
      BY <2>2, <2>3, <2>4
<1>3. IsFiniteSet(own)
  <2>1. IsFiniteSet(mine)
      BY FS_Subset DEF SalesFile, OwnRows
  <2>2. f \in Surjection(mine, own)
      BY <1>1 DEF Surjection
  <2> HIDE DEF f, mine, own
  <2> QED
      BY <2>1, <2>2, FS_Surjection
<1>4. own # {}
    BY <1>1
<1>5. \A s \in own : s.sold \in Nat /\ \E q \in mine : s = SaleOf(rows, n, q)
    BY <1>1, <1>2
<1>6. MeanOf(MonthlySales(rows, n), class) = Rounded(SumSold(own), Cardinality(own))
    BY DEF MeanOf, SumSold
<1> HIDE DEF own, mine, f
<1>7. /\ SumSold(own) \in Nat
      /\ \E s \in own : Cardinality(own) * s.sold <= SumSold(own)
      /\ \E s \in own : SumSold(own) <= Cardinality(own) * s.sold
    BY <1>3, <1>4, <1>5, SumSoldBounds
<1>8. PICK s1 \in own : Cardinality(own) * s1.sold <= SumSold(own)
    BY <1>7
<1>9. PICK s2 \in own : SumSold(own) <= Cardinality(own) * s2.sold
    BY <1>7
<1>10. Cardinality(own) \in Nat \ {0}
    BY <1>3, <1>4, FS_CardinalityType, FS_EmptySet
<1>11. s1.sold <= MeanOf(MonthlySales(rows, n), class) /\ MeanOf(MonthlySales(rows, n), class) <= s2.sold
       /\ MeanOf(MonthlySales(rows, n), class) \in Int
  <2> DEFINE low == s1.sold
             high == s2.sold
             sum == SumSold(own)
             months == Cardinality(own)
  <2>1. low \in Nat /\ high \in Nat /\ sum \in Nat /\ months \in Nat \ {0} /\ months * low <= sum /\ sum <= months * high
      BY <1>5, <1>7, <1>8, <1>9, <1>10
  <2>2. MeanOf(MonthlySales(rows, n), class) = Rounded(sum, months)
      BY <1>6
  <2> HIDE DEF low, high, sum, months
  <2>3. low <= Rounded(sum, months) /\ Rounded(sum, months) <= high
      BY <2>1, RoundedBetween
  <2>4. Rounded(sum, months) \in Int
      BY <2>1 DEF Rounded
  <2> QED
      BY <2>2, <2>3, <2>4 DEF low, high
<1>12. PICK q1 \in mine : s1 = SaleOf(rows, n, q1)
    BY <1>5
<1>13. PICK q2 \in mine : s2 = SaleOf(rows, n, q2)
    BY <1>5
<1>14. SalesOn(rows, q1.class, q1.date) <= MeanOf(MonthlySales(rows, n), class)
  <2>1. SalesOn(rows, q1.class, q1.date) \in Nat /\ s1.sold \in Nat /\ SalesOn(rows, q1.class, q1.date) <= s1.sold
      BY <1>2, <1>12
  <2> QED
      BY <1>11, <2>1
<1>15. MeanOf(MonthlySales(rows, n), class) <= n * SalesOn(rows, q2.class, q2.date)
  <2> DEFINE bound == n * SalesOn(rows, q2.class, q2.date)
  <2>1. bound \in Int /\ s2.sold \in Nat /\ s2.sold <= bound
      BY <1>2, <1>13
  <2> HIDE DEF bound
  <2>2. MeanOf(MonthlySales(rows, n), class) <= bound
      BY <1>11, <2>1
  <2> QED
      BY <2>2 DEF bound
<1> QED
    BY <1>14, <1>15 DEF mine

-----------------------------------------------------------------------------
\* What the mean algorithm has learned are the sales of the training file, as
\* the last of its trainings found them; and a run has the files it was started
\* with.
CarFiles == training \in Trainings /\ forecast \in Forecasts
CarKnows ==
    /\ carStep \in {"training", "predicting", "ended"} => CarFiles /\ training # {}
    /\ meanRuns \in Nat
    /\ best.algorithm = MEAN => meanRuns # 0 /\ best.mean = MonthlySales(training, meanRuns)

\* What ForecastIsOfItsRow says of one row, with the sales on a date by their name.
FairRow(row, line, rows, n) ==
    /\ row.date = line.date /\ row.class = line.class
    /\ \E q \in OwnRows(rows, row.class) : SalesOn(rows, q.class, q.date) <= row.sold
    /\ \E q \in OwnRows(rows, row.class) : row.sold <= n * SalesOn(rows, q.class, q.date)

ForecastIsFair ==
    carStep = "ended" =>
        /\ written = "whole" => DOMAIN output = DOMAIN forecast
        /\ written # "nothing" =>
              \A i \in DOMAIN output :
                  i \in DOMAIN forecast /\ FairRow(output[i], forecast[i], training, meanRuns)

CarInv == CarTypeOK /\ CarKnows /\ ForecastIsFair

LEMMA CarInitInv == CarInit => CarInv
<1> SUFFICES ASSUME CarInit PROVE CarInv
    OBVIOUS
<1>1. CarTypeOK
    BY DEF CarInit, CarTypeOK
<1>2. CarKnows
    BY DEF CarInit, CarKnows, Untrained, MEAN
<1>3. ForecastIsFair
    BY DEF CarInit, ForecastIsFair
<1> QED
    BY <1>1, <1>2, <1>3 DEF CarInv

\* Each row that the mean algorithm predicts is fair.
LEMMA PredictionIsFair ==
    ASSUME CarInv, carStep = "predicting", best.algorithm = MEAN, ~PredictionRaises
    PROVE  \A i \in DOMAIN forecast : FairRow(Prediction(i), forecast[i], training, meanRuns)
<1> SUFFICES ASSUME NEW i \in DOMAIN forecast PROVE FairRow(Prediction(i), forecast[i], training, meanRuns)
    OBVIOUS
<1> DEFINE class == forecast[i].class
<1>1. /\ CarFiles /\ training # {} /\ best.mean = MonthlySales(training, meanRuns)
      /\ meanRuns \in Nat \ {0}
    BY DEF CarInv, CarKnows
<1>2. SalesFile(training) /\ IsDate(forecast[i].date)
    BY <1>1, CarAssumption DEF CarFiles, SalesFile
<1>3. OwnRows(training, class) # {}
  <2>1. class = 0 \/ \E s \in MonthlySales(training, meanRuns) : s.class = class
      BY <1>1 DEF PredictionRaises, Knows
  <2>2. ASSUME NEW s \in MonthlySales(training, meanRuns), s.class = class
        PROVE  \E r \in training : r.class = class
      BY <2>2 DEF MonthlySales
  <2> QED
      BY <1>1, <2>1, <2>2 DEF OwnRows
<1>4. recvermonth(washmonth(forecast[i].date)) = forecast[i].date
    BY <1>2, DateRecovers
<1>5. /\ Prediction(i).date = forecast[i].date
      /\ Prediction(i).class = class
      /\ Prediction(i).sold = MeanOf(MonthlySales(training, meanRuns), class)
    BY <1>1, <1>4 DEF Prediction
<1>6. /\ \E q \in OwnRows(training, class) :
            SalesOn(training, q.class, q.date) <= MeanOf(MonthlySales(training, meanRuns), class)
      /\ \E q \in OwnRows(training, class) :
            MeanOf(MonthlySales(training, meanRuns), class) <= meanRuns * SalesOn(training, q.class, q.date)
    BY <1>1, <1>2, <1>3, MeanIsBetween
<1> QED
    BY <1>5, <1>6 DEF FairRow

LEMMA PredictedWell ==
    ASSUME CarInv, PredictMean
    PROVE  ForecastIsFair'
<1>1. training' = training /\ forecast' = forecast /\ meanRuns' = meanRuns
    BY DEF PredictMean
<1>2. \A i \in DOMAIN forecast : FairRow(Prediction(i), forecast[i], training, meanRuns)
    BY PredictionIsFair DEF PredictMean
<1>3. Len(forecast) \in Nat /\ DOMAIN forecast = 1 .. Len(forecast)
    BY CarAssumption DEF CarInv, CarKnows, CarFiles, PredictMean
<1>5. CASE written' = "nothing"
    BY <1>5 DEF ForecastIsFair
<1>6. CASE \E n \in 0 .. Len(forecast) :
               /\ output' = [i \in 1 .. n |-> Prediction(i)]
               /\ written' = IF n = Len(forecast) THEN "whole" ELSE "part"
  <2>1. PICK n \in 0 .. Len(forecast) :
               /\ output' = [i \in 1 .. n |-> Prediction(i)]
               /\ written' = IF n = Len(forecast) THEN "whole" ELSE "part"
      BY <1>6
  <2>2. DOMAIN output' = 1 .. n /\ \A i \in 1 .. n : output'[i] = Prediction(i)
      BY <2>1
  <2>3. \A i \in 1 .. n : i \in DOMAIN forecast
      BY <1>3
  <2>4. written' = "whole" => n = Len(forecast)
      BY <2>1
  <2>5. \A i \in DOMAIN output' : i \in DOMAIN forecast /\ FairRow(output'[i], forecast[i], training, meanRuns)
      BY <1>2, <2>2, <2>3
  <2>6. written' = "whole" => DOMAIN output' = DOMAIN forecast
      BY <1>3, <2>2, <2>4
  <2>7. \A i \in DOMAIN output' :
            i \in DOMAIN forecast' /\ FairRow(output'[i], forecast'[i], training', meanRuns')
      BY <1>1, <2>5
  <2> QED
      BY <1>1, <2>6, <2>7 DEF ForecastIsFair
<1> QED
    BY <1>5, <1>6 DEF PredictMean

LEMMA CarStepInv == CarInv /\ [CarNext]_carVars => CarInv'
<1> SUFFICES ASSUME CarInv, [CarNext]_carVars PROVE CarInv'
    OBVIOUS
<1> USE DEF CarTypeOK, CarFiles, CarKnows
<1>1. ASSUME UNCHANGED <<carStep, training, forecast, best, meanRuns, output, written>>
      PROVE  CarKnows' /\ ForecastIsFair'
    BY <1>1 DEF CarInv, ForecastIsFair
<1>2. CASE UNCHANGED carVars
    BY <1>1, <1>2 DEF CarInv, carVars
<1>3. ASSUME NEW methods \in Methods, NEW rows \in Trainings, NEW lines \in Forecasts,
             CarStart(methods, rows, lines)
      PROVE  CarInv'
    BY <1>3 DEF CarInv, CarStart, Untrained, MEAN, ForecastIsFair
<1>4. CASE FileMissing
    BY <1>4 DEF CarInv, FileMissing, ForecastIsFair
<1>5. CASE TrainMean
  <2>1. \/ best' = [algorithm |-> MEAN, mean |-> MonthlySales(training, meanRuns + 1)]
        \/ best' = best /\ best.algorithm # MEAN
      BY <1>5 DEF TrainMean, Trained
  <2>2. /\ UNCHANGED <<carStep, training, forecast, output, written, uploads>>
        /\ carStep = "training" /\ meanRuns' = meanRuns + 1 /\ medium' \in {medium, TRUE}
      BY <1>5 DEF TrainMean
  <2>3. meanRuns \in Nat /\ meanRuns + 1 \in Nat /\ meanRuns + 1 # 0
      BY DEF CarInv
  <2>4. best'.algorithm = MEAN => best'.mean = MonthlySales(training, meanRuns + 1)
      BY <2>1
  <2> QED
      BY <2>2, <2>3, <2>4 DEF CarInv, ForecastIsFair
<1>6. CASE TrainLine
  <2>1. best' = best \/ best'.algorithm # MEAN
      BY <1>6 DEF TrainLine, Trained, MEAN, LINE_REGRESSON
  <2>2. /\ UNCHANGED <<training, forecast, meanRuns, medium, output, written, uploads>>
        /\ carStep = "training" /\ carStep' \in {"training", "aborted"}
      BY <1>6 DEF TrainLine
  <2> QED
      BY <2>1, <2>2 DEF CarInv, ForecastIsFair
<1>7. CASE TrainBase
  <2>1. best' = best \/ best'.algorithm # MEAN
      BY <1>7 DEF TrainBase, Trained, MEAN, LINE_REGRESSON
  <2>2. UNCHANGED <<carStep, training, forecast, meanRuns, medium, output, written, uploads>> /\ carStep = "training"
      BY <1>7 DEF TrainBase
  <2> QED
      BY <2>1, <2>2 DEF CarInv, ForecastIsFair
<1>8. CASE selectbestAlgorithm
    BY <1>8 DEF CarInv, selectbestAlgorithm, ForecastIsFair
<1>9. CASE PredictMean
  <2>1. ForecastIsFair'
      BY <1>9, PredictedWell
  <2>2. written' \in {"nothing", "part", "whole"}
      BY <1>9 DEF PredictMean
  <2> QED
      BY <1>9, <2>1, <2>2 DEF CarInv, PredictMean
<1>10. CASE MeanAborts
    BY <1>10 DEF CarInv, MeanAborts, ForecastIsFair
<1>11. CASE PredictOther
    BY <1>11 DEF CarInv, PredictOther, ForecastIsFair
<1>12. ASSUME NEW day \in Days, genOutputFile(day) PROVE CarInv'
  <2>1. uploads' \subseteq UNION {getFileInfo(d) : d \in Days}
      BY <1>12 DEF CarInv, genOutputFile
  <2> QED
      BY <1>1, <1>12, <2>1 DEF CarInv, genOutputFile
<1> QED
    BY <1>2, <1>3, <1>4, <1>5, <1>6, <1>7, <1>8, <1>9, <1>10, <1>11, <1>12 DEF CarNext

\* The steps of the prediction and what it leaves are well formed.
THEOREM CarsTyped == CarSpec => []CarTypeOK
<1>1. CarInv => CarTypeOK
    BY DEF CarInv
<1> QED
    BY <1>1, CarInitInv, CarStepInv, PTL DEF CarSpec

\* For any finite files and any methods: each row that a run has written has the
\* date and the class of its row, and lies between the least monthly sales of
\* the class and the greatest, times the trainings of the mean algorithm
\* (utilfile.py:109-143, utilAlg_Mean.py:22-52).
THEOREM ForecastsAreOfRows == CarSpec => []ForecastIsOfItsRow
<1>1. ForecastIsFair => ForecastIsOfItsRow
    BY DEF ForecastIsFair, FairRow, OwnRows, ForecastIsOfItsRow, RowsFor, SalesWith, SalesOn, SumSold
<1>2. CarInv => ForecastIsOfItsRow
    BY <1>1 DEF CarInv
<1> QED
    BY <1>2, CarInitInv, CarStepInv, PTL DEF CarSpec

-----------------------------------------------------------------------------
(* The RAG demonstration: its reports, its stores, and its answers.        *)

\* The samples of a metric of which none has failed: what the code reads is no
\* more than they are worth.
Sound(s) == s = <<>> \/ s = <<9, 9>> \/ s = <<0, 0>>

LEMMA MeanOfSound ==
    ASSUME NEW s, Sound(s), s # <<>>
    PROVE  Valid(s) = 2 /\ Plus(s) \in {0, 18} /\ NanMean(s) \in {0, 9} /\ 2 * NanMean(s) = Plus(s)
<1>1. DOMAIN s = {1, 2} /\ s[1] \in {0, 9} /\ s[2] = s[1]
    BY DEF Sound
<1>2. PICK n \in Nat : n = 2
    OBVIOUS
<1>3. Valid(s) = n
  <2>1. {i \in DOMAIN s : s[i] # NaN} = 1 .. n
      BY <1>1, <1>2 DEF NaN
  <2>2. n \in Nat \ {0}
      BY <1>2
  <2>3. Cardinality(1 .. n) = n
      BY <2>2, FS_Interval
  <2> QED
      BY <2>1, <2>3, Zenon DEF Valid
<1>4. Plus(s) = s[1] + s[1]
    BY <1>1 DEF Plus, NaN
<1> QED
    BY <1>1, <1>2, <1>3, <1>4 DEF NanMean

LEMMA MetricIsWorth ==
    ASSUME NEW s, Sound(s), NEW x, x = 0 \/ (s # <<>> /\ x = NanMean(s))
    PROVE  x \in Nat /\ Worth(s) \in Nat /\ 2 * x <= Worth(s)
<1>1. CASE s = <<>>
    BY <1>1 DEF Worth
<1>2. CASE s # <<>>
  <2>1. Worth(s) = Plus(s)
      BY <1>2 DEF Worth
  <2> QED
      BY <1>2, <2>1, MeanOfSound
<1> QED
    BY <1>1, <1>2

LEMMA EvaluationReads ==
    ASSUME NEW outcome, NEW m \in 1 .. 4
    PROVE  \/ evaluate(outcome)[m] = 0
           \/ outcome.scores[m] # <<>> /\ evaluate(outcome)[m] = NanMean(outcome.scores[m])
<1>1. \/ FromItems(outcome)[m] = 0
      \/ outcome.scores[m] # <<>> /\ FromItems(outcome)[m] = NanMean(outcome.scores[m])
    BY DEF FromItems
<1>2. \/ FromPandas(outcome)[m] = 0
      \/ outcome.scores[m] # <<>> /\ FromPandas(outcome)[m] = NanMean(outcome.scores[m])
    BY DEF FromPandas
<1>3. evaluate(outcome) = FromItems(outcome) \/ evaluate(outcome) = FromPandas(outcome)
    BY DEF evaluate
<1> QED
    BY <1>1, <1>2, <1>3

LEMMA RatingIsDeserved ==
    ASSUME NEW outcome \in Results, ~Failed(outcome)
    PROVE  /\ generate_report(evaluate(outcome)) \in Nat /\ Deserved(outcome) \in Nat
           /\ generate_report(evaluate(outcome)) <= Deserved(outcome)
<1> DEFINE worth(m) == Worth(outcome.scores[m])
           metric(m) == evaluate(outcome)[m]
<1>1. \A m \in 1 .. 4 : Sound(outcome.scores[m])
  <2>1. \A m \in 1 .. 4 : outcome.scores[m] \in Scores
    <3> DEFINE all == outcome.scores
    <3>1. PICK s \in [1 .. 3 -> Scores] : all = <<s[1], s[2], s[3], s[3]>>
        BY DEF Results
    <3> HIDE DEF all
    <3>2. all[1] \in Scores /\ all[2] \in Scores /\ all[3] \in Scores /\ all[4] \in Scores
      <4> HIDE DEF Scores
      <4> QED
          BY <3>1
    <3>3. \A m \in 1 .. 4 : all[m] \in Scores
      <4>1. \A m \in 1 .. 4 : m = 1 \/ m = 2 \/ m = 3 \/ m = 4
          OBVIOUS
      <4> QED
          BY <3>2, <4>1
    <3> QED
        BY <3>3 DEF all
  <2>2. \A m \in 1 .. 4 : \A i \in DOMAIN outcome.scores[m] : outcome.scores[m][i] # NaN
      BY DEF Failed
  <2> SUFFICES ASSUME NEW m \in 1 .. 4 PROVE Sound(outcome.scores[m])
      OBVIOUS
  <2> DEFINE s == outcome.scores[m]
  <2>3. s \in Scores /\ \A i \in DOMAIN s : s[i] # NaN
      BY <2>1, <2>2
  <2> SUFFICES Sound(s)
      OBVIOUS
  <2> HIDE DEF s
  <2> QED
      BY <2>3 DEF Scores, Sound, NaN
<1>2. ASSUME NEW m \in 1 .. 4
      PROVE  metric(m) \in Nat /\ worth(m) \in Nat /\ 2 * metric(m) <= worth(m)
    BY <1>1, MetricIsWorth, EvaluationReads
<1>3. generate_report(evaluate(outcome)) = Level(metric(1) + metric(2) + metric(3) + metric(4), 1)
    BY <1>2 DEF generate_report, NaN
<1>4. Deserved(outcome) = Level(worth(1) + worth(2) + worth(3) + worth(4), 2)
    BY DEF Deserved
<1> HIDE DEF worth, metric
<1> DEFINE sum == metric(1) + metric(2) + metric(3) + metric(4)
           all == worth(1) + worth(2) + worth(3) + worth(4)
<1>5. sum \in Nat /\ all \in Nat /\ 2 * sum <= all
    BY <1>2
<1> HIDE DEF sum, all
<1>6. Level(sum, 1) <= Level(all, 2) /\ Level(sum, 1) \in Nat /\ Level(all, 2) \in Nat
    BY <1>5 DEF Level
<1> QED
    BY <1>3, <1>4, <1>6 DEF sum, all

LEMMA ReportStep == RatingNeverFlatters /\ [RagNext]_ragVars => RatingNeverFlatters'
<1> SUFFICES ASSUME RatingNeverFlatters, [RagNext]_ragVars PROVE RatingNeverFlatters'
    OBVIOUS
<1>1. CASE UNCHANGED report
    BY <1>1 DEF RatingNeverFlatters
<1>2. ASSUME NEW outcome \in Results, run_evaluation(outcome) PROVE RatingNeverFlatters'
  <2> DEFINE rating == generate_report(evaluate(outcome))
             deserved == Deserved(outcome)
             failed == Failed(outcome)
  <2>1. report' = [rating |-> rating, deserved |-> deserved, failed |-> failed]
      BY <1>2 DEF run_evaluation
  <2>2. ~failed => rating \in Nat /\ deserved \in Nat /\ rating <= deserved
      BY RatingIsDeserved
  <2> HIDE DEF rating, deserved, failed
  <2>3. /\ report'.rating = rating /\ report'.deserved = deserved
        /\ report'.failed = failed
      BY <2>1
  <2> QED
      BY <2>2, <2>3 DEF RatingNeverFlatters
<1>3. UNCHANGED report \/ \E outcome \in Results : run_evaluation(outcome)
    BY DEF RagNext, ragVars, StartSession, StartMain, load_directory, create_from_documents,
           NewStore, Raises, add_documents, save, SaveKilled, load, RAGChain, query,
           EvaluationFails, NoDataset
<1> QED
    BY <1>1, <1>2, <1>3

\* For any outcome of the enumerated scores a report is no better than deserved,
\* unless a sample has failed (evaluator.py:318-356, 420-446).
THEOREM ReportsAreHonest == RagSpec => []RatingNeverFlatters
<1>1. RagInit => RatingNeverFlatters
    BY DEF RagInit, RatingNeverFlatters
<1> QED
    BY <1>1, ReportStep, PTL DEF RagSpec

\* All that can be in a store: the parts of all documents, read rightly or not.
AllChunks == UNION {Parts(f, how) : f \in DocumentFiles, how \in {"right", "garbled"}}

LEMMA PartsAreFinite ==
    ASSUME NEW f \in DocumentFiles, NEW how
    PROVE  IsFiniteSet(Parts(f, how))
<1> DEFINE numbers == 1 .. f.parts
           chunkOf(i) == [name |-> f.name, part |-> i, how |-> how]
           all == {chunkOf(i) : i \in numbers}
           g == [i \in numbers |-> chunkOf(i)]
<1>1. IsFiniteSet(numbers)
  <2>1. 1 \in Int /\ f.parts \in Int
      BY RagAssumption
  <2> QED
      BY <2>1, FS_Interval
<1>2. Parts(f, how) = all
    BY DEF Parts
<1> HIDE DEF chunkOf, numbers
<1>3. g \in Surjection(numbers, all)
    BY DEF Surjection
<1> HIDE DEF g, all
<1> QED
    BY <1>1, <1>2, <1>3, FS_Surjection

LEMMA ChunksAreFinite == IsFiniteSet(AllChunks)
<1> DEFINE read == DocumentFiles \X {"right", "garbled"}
           parts(p) == Parts(p[1], p[2])
           family == {parts(p) : p \in read}
           g == [p \in read |-> parts(p)]
<1>1. IsFiniteSet(read)
  <2>1. IsFiniteSet({"right", "garbled"})
    <3>1. IsFiniteSet({"right"}) /\ IsFiniteSet({"garbled"})
        BY FS_Singleton
    <3>2. IsFiniteSet({"right"} \cup {"garbled"})
        BY <3>1, FS_Union
    <3>3. {"right", "garbled"} = {"right"} \cup {"garbled"}
        OBVIOUS
    <3> QED
        BY <3>2, <3>3
  <2>2. IsFiniteSet(DocumentFiles)
      BY RagAssumption
  <2> QED
      BY <2>1, <2>2, FS_Product
<1>2. AllChunks = UNION family
  <2>1. ASSUME NEW f \in DocumentFiles, NEW how \in {"right", "garbled"}
        PROVE  Parts(f, how) \in family
    <3>1. <<f, how>> \in read /\ parts(<<f, how>>) = Parts(f, how)
        OBVIOUS
    <3> QED
        BY <3>1
  <2>2. ASSUME NEW x \in family
        PROVE  \E f \in DocumentFiles, how \in {"right", "garbled"} : x = Parts(f, how)
      BY <2>2
  <2> HIDE DEF family
  <2> QED
      BY <2>1, <2>2 DEF AllChunks
<1>3. \A x \in family : IsFiniteSet(x)
    BY PartsAreFinite
<1> HIDE DEF parts, read
<1>4. g \in Surjection(read, family)
    BY DEF Surjection
<1> HIDE DEF g, family
<1>5. IsFiniteSet(family)
    BY <1>1, <1>4, FS_Surjection
<1> QED
    BY <1>2, <1>3, <1>5, FS_UNION

\* A loaded directory gives parts of documents.
LEMMA LoadedChunks ==
    ASSUME NEW fs \in SUBSET DocumentFiles, NEW i \in DOMAIN Encodings, NEW h \in ReadWith(fs, i)
    PROVE  UNION {Parts(f, h[f]) : f \in fs} \subseteq AllChunks
<1>1. \A f \in fs : h[f] \in {"right", "garbled"}
    BY DEF ReadWith
<1> QED
    BY <1>1 DEF AllChunks

LEMMA RatingsAreLevels ==
    /\ \A metrics : generate_report(metrics) \in Levels
    /\ \A r : Deserved(r) \in Levels
<1>1. \A sum, weight : Level(sum, weight) \in Levels
    BY DEF Level, Levels
<1>2. 0 \in Levels
    BY DEF Levels
<1> QED
    BY <1>1, <1>2 DEF generate_report, Deserved

\* What a retriever finds are at most k chunks.
LEMMA FewContexts ==
    ASSUME NEW s, heap[s].index \subseteq AllChunks, NEW found \in Retrieved(s)
    PROVE  Cardinality(found) <= k
<1> DEFINE all == heap[s].index
<1>1. Cardinality(all) \in Nat
    BY ChunksAreFinite, FS_Subset, FS_CardinalityType
<1>2. Cardinality(found) = Least(k, Cardinality(all))
    BY DEF Retrieved, kSubset
<1> HIDE DEF all
<1> QED
    BY <1>1, <1>2, RagAssumption DEF Least

\* The stores hold parts of documents, and so do the files that were saved.
Stores == [index : SUBSET AllChunks, docs : SUBSET AllChunks]
HasBoth(new) == new.index # {} /\ new.docs # {}
StoresOK ==
    /\ heap \in Seq(Stores) /\ Len(heap) <= MaxStores
    /\ vector_store \in 0 .. Len(heap) /\ chain \in 0 .. Len(heap)
    /\ \A s \in 1 .. Len(heap) : HasBoth(heap[s])
    /\ chunks \subseteq AllChunks
    /\ saved \in Stores
RagModes == {"off", "session", "load", "create", "chain", "query", "evaluate",
             "ended", "exited", "aborted"}
CallsOK ==
    /\ mode \in RagModes
    /\ Cardinality(contexts) <= k
    /\ report = NoReport \/ {report.rating, report.deserved} \subseteq Levels
RagTyped == StoresOK /\ CallsOK

LEMMA RagTypedInit == RagInit => RagTyped
<1>1. Cardinality({}) <= k
    BY RagAssumption, FS_EmptySet
<1> QED
    BY <1>1, RagAssumption
    DEF RagInit, RagTyped, StoresOK, CallsOK, NotSaved, NoReport, RagModes, Stores

\* A store that is added at the end.
LEMMA StoreIsAdded ==
    ASSUME StoresOK, NEW new \in Stores, HasBoth(new), NewStore(new),
           UNCHANGED <<chunks, chain, saved>>
    PROVE  StoresOK'
<1>1. heap' = Append(heap, new) /\ Len(heap) < MaxStores /\ vector_store' = Len(heap) + 1
    BY DEF NewStore
<1>2. heap \in Seq(Stores) /\ Len(heap) \in Nat
    BY DEF StoresOK
<1>3. /\ heap' \in Seq(Stores) /\ Len(heap') = Len(heap) + 1
      /\ \A s \in 1 .. Len(heap) : heap'[s] = heap[s]
      /\ heap'[Len(heap) + 1] = new
    BY <1>1, <1>2
<1>4. \A s \in 1 .. Len(heap') : HasBoth(heap'[s])
    BY <1>2, <1>3 DEF StoresOK
<1> QED
    BY <1>1, <1>2, <1>3, <1>4, RagAssumption DEF StoresOK

\* Documents that are added to the store that is there.
LEMMA StoreIsExtended ==
    ASSUME StoresOK, add_documents
    PROVE  StoresOK'
<1>1. CASE UNCHANGED store /\ chunks' = chunks
    BY <1>1 DEF StoresOK, store
<1>2. CASE ~(UNCHANGED store)
  <2> DEFINE old == heap[vector_store]
             new == [index |-> old.index \cup chunks, docs |-> old.docs \cup chunks]
  <2>1. /\ vector_store # 0 /\ heap' = [heap EXCEPT ![vector_store] = new]
        /\ UNCHANGED <<chunks, vector_store, chain, replaced, saved>>
      BY <1>2 DEF add_documents
  <2>2. heap \in Seq(Stores) /\ Len(heap) \in Nat /\ vector_store \in 1 .. Len(heap) /\ DOMAIN heap = 1 .. Len(heap)
      BY <2>1 DEF StoresOK
  <2>3. old \in Stores /\ HasBoth(old) /\ chunks \subseteq AllChunks
      BY <2>2 DEF StoresOK
  <2>4. new \in Stores /\ HasBoth(new)
      BY <2>3 DEF Stores, HasBoth
  <2> HIDE DEF new, HasBoth, Stores
  <2>6. /\ heap' \in Seq(Stores) /\ Len(heap') = Len(heap)
        /\ \A s \in 1 .. Len(heap) : heap'[s] = IF s = vector_store THEN new ELSE heap[s]
      BY <2>1, <2>2, <2>4
  <2> QED
      BY <2>1, <2>2, <2>4, <2>6 DEF StoresOK
<1> QED
    BY <1>1, <1>2 DEF add_documents

LEMMA StoresStep == StoresOK /\ [RagNext]_ragVars => StoresOK'
<1> SUFFICES ASSUME StoresOK, [RagNext]_ragVars PROVE StoresOK'
    OBVIOUS
<1>0. ASSUME UNCHANGED <<heap, vector_store, saved>>, chunks' \subseteq AllChunks,
             chain' \in {0, chain, vector_store}
      PROVE  StoresOK'
    BY <1>0 DEF StoresOK
<1>1. CASE UNCHANGED <<store, chunks>>
    BY <1>0, <1>1 DEF store, StoresOK
<1>2. ASSUME NEW fs \in SUBSET DocumentFiles, load_directory(fs) PROVE StoresOK'
  <2>1. UNCHANGED store
      BY <1>2 DEF load_directory
  <2>2. chunks' = chunks \/ \E i \in DOMAIN Encodings : \E h \in ReadWith(fs, i) :
                                chunks' = UNION {Parts(f, h[f]) : f \in fs}
      BY <1>2 DEF load_directory
  <2>3. chunks' \subseteq AllChunks
      BY <2>2, LoadedChunks DEF StoresOK
  <2> QED
      BY <1>0, <2>1, <2>3 DEF store
<1>3. CASE create_from_documents
  <2>1. CASE UNCHANGED <<store, chunks>>
      BY <1>1, <2>1
  <2>2. CASE ~(UNCHANGED <<store, chunks>>)
    <3> DEFINE new == [index |-> chunks, docs |-> chunks]
    <3>1. chunks # {} /\ NewStore(new) /\ UNCHANGED <<chunks, chain, saved>>
        BY <1>3, <2>2 DEF create_from_documents
    <3>2. new \in Stores /\ HasBoth(new)
        BY <3>1 DEF StoresOK, Stores, HasBoth
    <3> HIDE DEF new
    <3> QED
        BY <3>1, <3>2, StoreIsAdded
  <2> QED
      BY <2>1, <2>2
<1>4. CASE add_documents
    BY <1>4, StoreIsExtended
<1>5. CASE save
  <2>1. heap' = heap /\ vector_store # 0 /\ saved' = heap[vector_store]
        /\ UNCHANGED <<vector_store, chain, chunks>>
      BY <1>5 DEF save
  <2>2. heap[vector_store] \in Stores
      BY <2>1 DEF StoresOK
  <2> QED
      BY <2>1, <2>2 DEF StoresOK
<1>10. CASE SaveKilled
  <2> DEFINE new == heap[vector_store].index
  <2>1. /\ heap' = <<>> /\ vector_store' = 0 /\ chain' = 0 /\ chunks' = {} /\ vector_store # 0
        /\ saved' \in {[index |-> {}, docs |-> saved.docs], [index |-> new, docs |-> saved.docs],
                      [index |-> new, docs |-> {}]}
      BY <1>10 DEF SaveKilled
  <2>2. heap[vector_store] \in Stores /\ saved \in Stores
      BY <2>1 DEF StoresOK
  <2>3. new \subseteq AllChunks /\ saved.docs \subseteq AllChunks
      BY <2>2 DEF Stores
  <2> HIDE DEF new
  <2>4. saved' \in Stores
      BY <2>1, <2>3 DEF Stores
  <2>5. heap' \in Seq(Stores) /\ Len(heap') = 0
      BY <2>1
  <2> QED
      BY <2>1, <2>4, <2>5, RagAssumption DEF StoresOK
<1>6. CASE load
  <2>1. CASE UNCHANGED <<store, chunks>>
      BY <1>1, <2>1
  <2>2. CASE ~(UNCHANGED <<store, chunks>>)
    <3>1. HasBoth(saved) /\ NewStore(saved) /\ UNCHANGED <<chunks, chain, saved>>
        BY <1>6, <2>2 DEF load, HasBoth
    <3>2. saved \in Stores
        BY DEF StoresOK
    <3> QED
        BY <3>1, <3>2, StoreIsAdded
  <2> QED
      BY <2>1, <2>2
<1>7. CASE RAGChain
    BY <1>0, <1>7 DEF RAGChain, StoresOK
<1>8. CASE StartSession \/ StartMain \/ query \/ EvaluationFails \/ NoDataset \/ UNCHANGED ragVars
    BY <1>1, <1>8 DEF StartSession, StartMain, query, EvaluationFails, NoDataset, ragVars
<1>9. ASSUME NEW r \in Results, run_evaluation(r) PROVE StoresOK'
    BY <1>1, <1>9 DEF run_evaluation
<1> QED
    BY <1>2, <1>3, <1>4, <1>5, <1>6, <1>7, <1>8, <1>9, <1>10 DEF RagNext

LEMMA CallsStep == StoresOK /\ CallsOK /\ [RagNext]_ragVars => CallsOK'
<1> SUFFICES ASSUME StoresOK, CallsOK, [RagNext]_ragVars PROVE CallsOK'
    OBVIOUS
<1>0. Cardinality({}) <= k
    BY RagAssumption, FS_EmptySet
<1>1. mode' \in RagModes
    BY DEF CallsOK, RagNext, ragVars, RagModes, StartSession, StartMain, load_directory, create_from_documents,
           add_documents, save, SaveKilled, load, RAGChain, query, EvaluationFails, NoDataset,
           run_evaluation, Raises, Goes
<1>2. CASE UNCHANGED <<contexts, report>>
    BY <1>1, <1>2 DEF CallsOK
<1>3. CASE contexts' = {} /\ report' = report
    BY <1>0, <1>1, <1>3 DEF CallsOK
<1>4. CASE query
  <2>1. report' = report /\ (contexts' = {} \/ (chain # 0 /\ contexts' \in Retrieved(chain)))
      BY <1>4 DEF query, Raises
  <2>2. chain # 0 => heap[chain].index \subseteq AllChunks
    <3>1. chain # 0 => heap[chain] \in Stores
        BY DEF StoresOK
    <3> QED
        BY <3>1 DEF Stores
  <2>3. Cardinality(contexts') <= k
      BY <1>0, <2>1, <2>2, FewContexts
  <2> QED
      BY <1>1, <2>1, <2>3 DEF CallsOK
<1>5. ASSUME NEW r \in Results, run_evaluation(r) PROVE CallsOK'
  <2> DEFINE rating == generate_report(evaluate(r))
             deserved == Deserved(r)
             failed == Failed(r)
  <2>1. rating \in Levels /\ deserved \in Levels
      BY RatingsAreLevels
  <2>2. report' = [rating |-> rating, deserved |-> deserved, failed |-> failed] /\ contexts' = {}
      BY <1>5 DEF run_evaluation
  <2> HIDE DEF rating, deserved, failed
  <2>3. report'.rating \in Levels /\ report'.deserved \in Levels
      BY <2>1, <2>2
  <2> QED
      BY <1>0, <1>1, <2>2, <2>3 DEF CallsOK
<1>6. CASE \E fs \in SUBSET DocumentFiles : load_directory(fs)
    BY <1>3, <1>6 DEF load_directory, Raises
<1>7. CASE create_from_documents \/ add_documents \/ save \/ SaveKilled \/ load \/ RAGChain
           \/ EvaluationFails \/ NoDataset
    BY <1>3, <1>7 DEF create_from_documents, add_documents, save, SaveKilled, load, RAGChain,
           EvaluationFails, NoDataset, Raises
<1>8. CASE StartSession \/ StartMain \/ UNCHANGED ragVars
    BY <1>2, <1>8 DEF StartSession, StartMain, ragVars
<1> QED
    BY <1>4, <1>5, <1>6, <1>7, <1>8 DEF RagNext

\* A chain and a manager refer to stores that there are, no store is empty, and
\* an answer has at most k contexts, for any documents and any k.
THEOREM RagIsTyped == RagSpec => []RagTypeOK
<1>1. RagTyped => RagTypeOK
  <2> SUFFICES ASSUME RagTyped PROVE RagTypeOK
      OBVIOUS
  <2>1. DOMAIN heap = 1 .. Len(heap)
      BY DEF RagTyped, StoresOK
  <2> QED
      BY <2>1 DEF RagTyped, StoresOK, CallsOK, RagTypeOK, RagModes, HasBoth
<1>2. RagTyped /\ [RagNext]_ragVars => RagTyped'
    BY StoresStep, CallsStep DEF RagTyped
<1> QED
    BY <1>1, <1>2, RagTypedInit, PTL DEF RagSpec

\* The chain refers to the manager's store until the manager has got another one.
ChainIsOfStore == chain # 0 /\ ~replaced => chain = vector_store

\* A store, or what is saved of one, has the index of its documents, unless a
\* process was killed while it saved.
Whole(pair) == pair.index = pair.docs
TornNeedsKill == killed \/ (Whole(saved) /\ \A s \in 1 .. Len(heap) : Whole(heap[s]))
RagInv == ChainIsOfStore /\ TornNeedsKill /\ AnswersUseStore

LEMMA RagInitInv == RagInit => RagInv
<1> SUFFICES ASSUME RagInit PROVE RagInv
    OBVIOUS
<1>1. Len(heap) = 0 /\ Whole(saved) /\ chain = 0 /\ contexts = {}
    BY DEF RagInit, Whole, NotSaved
<1> QED
    BY <1>1 DEF RagInv, ChainIsOfStore, TornNeedsKill, AnswersUseStore

\* Of a store that is there, a retriever finds documents, as many as there are
\* up to k unless the store is torn.
LEMMA FoundInStore ==
    ASSUME NEW s, NEW found \in Retrieved(s)
    PROVE  /\ found \subseteq heap[s].docs
           /\ Whole(heap[s]) => Cardinality(found) = Least(k, Cardinality(heap[s].docs))
    BY DEF Retrieved, kSubset, Whole

\* No operation but a query gives contexts.
LEMMA NoContexts ==
    ASSUME ChainIsOfStore', TornNeedsKill', contexts' = {}
    PROVE  RagInv'
    BY DEF RagInv, AnswersUseStore

\* A new store that is whole, if nothing has been killed.
LEMMA WholeIsAdded ==
    ASSUME StoresOK, TornNeedsKill, NEW new, NewStore(new), killed \/ Whole(new), UNCHANGED <<saved, killed>>
    PROVE  TornNeedsKill'
<1>1. heap' = Append(heap, new)
    BY DEF NewStore
<1>2. heap \in Seq(Stores) /\ Len(heap) \in Nat
    BY DEF StoresOK
<1>3. /\ Len(heap') = Len(heap) + 1 /\ heap'[Len(heap) + 1] = new
      /\ \A s \in 1 .. Len(heap) : heap'[s] = heap[s]
    BY <1>1, <1>2
<1>4. ASSUME ~killed, NEW s \in 1 .. Len(heap') PROVE Whole(heap'[s])
  <2>1. CASE s = Len(heap) + 1
      BY <1>3, <1>4, <2>1
  <2>2. CASE s # Len(heap) + 1
    <3>1. s \in 1 .. Len(heap)
        BY <1>2, <1>3, <2>2
    <3> QED
        BY <1>3, <1>4, <3>1 DEF TornNeedsKill
  <2> QED
      BY <2>1, <2>2
<1> QED
    BY <1>4 DEF TornNeedsKill

LEMMA RagStep == StoresOK /\ RagInv /\ [RagNext]_ragVars => RagInv'
<1> SUFFICES ASSUME StoresOK, RagInv, [RagNext]_ragVars PROVE RagInv'
    OBVIOUS
<1>a. ChainIsOfStore /\ TornNeedsKill
    BY DEF RagInv
<1>0. UNCHANGED store => ChainIsOfStore' /\ TornNeedsKill'
    BY <1>a DEF ChainIsOfStore, TornNeedsKill, store
<1>1. CASE StartSession \/ StartMain \/ UNCHANGED ragVars
  <2>1. UNCHANGED <<store, contexts>>
      BY <1>1 DEF StartSession, StartMain, ragVars
  <2>2. AnswersUseStore'
      BY <2>1 DEF RagInv, AnswersUseStore, store
  <2> QED
      BY <1>0, <2>1, <2>2 DEF RagInv
<1>2. ASSUME NEW fs \in SUBSET DocumentFiles, load_directory(fs) PROVE RagInv'
  <2>1. UNCHANGED store /\ contexts' = {}
      BY <1>2 DEF load_directory, Raises
  <2> QED
      BY <1>0, <2>1, NoContexts
<1>3. CASE create_from_documents
  <2>1. contexts' = {}
      BY <1>3 DEF create_from_documents, Raises
  <2>2. CASE UNCHANGED store
      BY <1>0, <2>1, <2>2, NoContexts
  <2>3. CASE ~UNCHANGED store
    <3> DEFINE new == [index |-> chunks, docs |-> chunks]
    <3>1. NewStore(new) /\ UNCHANGED <<saved, killed>>
        BY <1>3, <2>3 DEF create_from_documents
    <3>2. Whole(new)
        BY DEF Whole
    <3> HIDE DEF new
    <3>3. TornNeedsKill'
        BY <1>a, <3>1, <3>2, WholeIsAdded
    <3>4. ChainIsOfStore'
        BY <3>1 DEF NewStore, ChainIsOfStore
    <3> QED
        BY <2>1, <3>3, <3>4, NoContexts
  <2> QED
      BY <2>2, <2>3
<1>4. CASE add_documents
  <2>1. contexts' = {}
      BY <1>4 DEF add_documents
  <2>2. CASE UNCHANGED store
      BY <1>0, <2>1, <2>2, NoContexts
  <2>3. CASE ~UNCHANGED store
    <3> DEFINE old == heap[vector_store]
               new == [index |-> old.index \cup chunks, docs |-> old.docs \cup chunks]
    <3>1. heap' = [heap EXCEPT ![vector_store] = new] /\ vector_store # 0
          /\ UNCHANGED <<vector_store, chain, replaced, saved, killed>>
        BY <1>4, <2>3 DEF add_documents
    <3>2. DOMAIN heap = 1 .. Len(heap) /\ vector_store \in 1 .. Len(heap)
        BY <3>1 DEF StoresOK
    <3>3. killed \/ Whole(new)
        BY <1>a, <3>2 DEF TornNeedsKill, Whole
    <3> HIDE DEF new
    <3>4. Len(heap') = Len(heap) /\ \A s \in 1 .. Len(heap) : heap'[s] = IF s = vector_store THEN new ELSE heap[s]
      <4>1. heap \in Seq(Stores)
          BY DEF StoresOK
      <4> QED
          BY <3>1, <3>2, <4>1
    <3>5. TornNeedsKill'
        BY <1>a, <3>1, <3>3, <3>4 DEF TornNeedsKill
    <3>6. ChainIsOfStore'
        BY <1>a, <3>1 DEF ChainIsOfStore
    <3> QED
        BY <2>1, <3>5, <3>6, NoContexts
  <2> QED
      BY <2>2, <2>3
<1>5. CASE save
  <2>1. contexts' = {} /\ saved' = heap[vector_store] /\ vector_store # 0
        /\ UNCHANGED <<heap, vector_store, chain, replaced, killed>>
      BY <1>5 DEF save
  <2>2. vector_store \in 1 .. Len(heap)
      BY <2>1 DEF StoresOK
  <2>3. TornNeedsKill' /\ ChainIsOfStore'
      BY <1>a, <2>1, <2>2 DEF TornNeedsKill, ChainIsOfStore
  <2> QED
      BY <2>1, <2>3, NoContexts
<1>6. CASE SaveKilled
  <2>1. contexts' = {} /\ killed' /\ chain' = 0
      BY <1>6 DEF SaveKilled
  <2> QED
      BY <2>1, NoContexts DEF TornNeedsKill, ChainIsOfStore
<1>7. CASE load
  <2>1. contexts' = {}
      BY <1>7 DEF load
  <2>2. CASE UNCHANGED store
      BY <1>0, <2>1, <2>2, NoContexts
  <2>3. CASE ~UNCHANGED store
    <3>1. NewStore(saved) /\ UNCHANGED <<saved, killed>>
        BY <1>7, <2>3 DEF load
    <3>2. TornNeedsKill'
        BY <1>a, <3>1, WholeIsAdded DEF TornNeedsKill
    <3>3. ChainIsOfStore'
        BY <3>1 DEF NewStore, ChainIsOfStore
    <3> QED
        BY <2>1, <3>2, <3>3, NoContexts
  <2> QED
      BY <2>2, <2>3
<1>8. CASE RAGChain
  <2>1. contexts' = {} /\ UNCHANGED <<heap, vector_store, saved, killed>>
        /\ (UNCHANGED <<chain, replaced>> \/ chain' = vector_store)
      BY <1>8 DEF RAGChain, Raises
  <2>2. TornNeedsKill' /\ ChainIsOfStore'
      BY <1>a, <2>1 DEF TornNeedsKill, ChainIsOfStore
  <2> QED
      BY <2>1, <2>2, NoContexts
<1>9. CASE query
  <2>1. UNCHANGED store /\ chain # 0 /\ (contexts' \in Retrieved(chain) \/ contexts' = {})
      BY <1>9 DEF query, Raises
  <2>2. CASE contexts' = {}
      BY <1>0, <2>1, <2>2, NoContexts
  <2>3. CASE contexts' \in Retrieved(chain)
    <3>1. ~replaced => chain = vector_store /\ vector_store \in 1 .. Len(heap)
        BY <1>a, <2>1 DEF ChainIsOfStore, StoresOK
    <3>2. UNCHANGED <<heap, vector_store, replaced, killed>>
        BY <2>1 DEF store
    <3>3. ASSUME ~replaced
          PROVE  LET docs == heap[vector_store].docs
                 IN  contexts' \subseteq docs /\ (killed \/ Cardinality(contexts') = Least(k, Cardinality(docs)))
      <4>1. contexts' \in Retrieved(vector_store)
          BY <2>3, <3>1, <3>3
      <4>2. killed \/ Whole(heap[vector_store])
          BY <1>a, <3>1, <3>3 DEF TornNeedsKill
      <4> QED
          BY <4>1, <4>2, FoundInStore
    <3>4. AnswersUseStore'
        BY <3>2, <3>3 DEF AnswersUseStore
    <3> QED
        BY <1>0, <2>1, <3>4 DEF RagInv
  <2> QED
      BY <2>1, <2>2, <2>3
<1>10. CASE EvaluationFails \/ NoDataset
    BY <1>0, <1>10, NoContexts DEF EvaluationFails, NoDataset
<1>11. ASSUME NEW r \in Results, run_evaluation(r) PROVE RagInv'
    BY <1>0, <1>11, NoContexts DEF run_evaluation
<1> QED
    BY <1>1, <1>2, <1>3, <1>4, <1>5, <1>6, <1>7, <1>8, <1>9, <1>10, <1>11 DEF RagNext

\* For any documents and any k, an answer is made from documents of the store
\* that the manager has now, unless it has got another since the chain was
\* built, and from as many as there are up to k, unless a process was killed
\* while it saved (vector_store.py:80, 110, 213, 240, rag_chain.py:74).
THEOREM AnswersAreOfStore == RagSpec => []AnswersUseStore
<1>1. RagInv => AnswersUseStore
    BY DEF RagInv
<1>2. RagInit => StoresOK
    BY RagTypedInit DEF RagTyped
<1> QED
    BY <1>1, <1>2, RagInitInv, RagStep, StoresStep, PTL DEF RagSpec

-----------------------------------------------------------------------------
(* The export of the statement merger.                                     *)

\* The table has the rows of the folder imported last.
TableIsOfFolder ==
    /\ DOMAIN content = Folders
    /\ merged_data # NoData =>
          /\ import_folder_path \in Folders
          /\ ~import_failed => merged_data.rows \subseteq content[import_folder_path]

LEMMA MergerInitInv == MergerInit => TableIsOfFolder
    BY MergerAssumption DEF MergerInit, TableIsOfFolder

LEMMA MergerStep == TableIsOfFolder /\ [MergerNext]_mergerVars => TableIsOfFolder'
<1> SUFFICES ASSUME TableIsOfFolder, [MergerNext]_mergerVars PROVE TableIsOfFolder'
    OBVIOUS
<1>1. CASE UNCHANGED mergerVars
    BY <1>1 DEF mergerVars, TableIsOfFolder
<1>2. ASSUME NEW config \in {"default", "file", "demo", "broken"}, StartUp(config)
      PROVE  TableIsOfFolder'
    BY <1>2 DEF StartUp, TableIsOfFolder
<1>3. ASSUME NEW d \in Folders, import_folder(d) PROVE TableIsOfFolder'
  <2> DEFINE files == {f \in content[d] : Readable(f) /\ f.columns # {}}
  <2>1. import_folder_path' = d /\ content' = content
        /\ \/ UNCHANGED merged_data /\ import_failed' = TRUE
           \/ merged_data'.rows = files
    <3> DEFINE frames == {apply_mapping(f.columns, detect_bank(f.columns)) : f \in files}
    <3>1. import_folder_path' = d /\ content' = content
        BY <1>3 DEF import_folder
    <3>2. \/ import_failed' = TRUE /\ UNCHANGED merged_data
          \/ /\ import_failed' = (files = {})
             /\ IF files = {} THEN UNCHANGED merged_data ELSE Process(files, frames)
        BY <1>3, Zenon DEF import_folder
    <3> HIDE DEF files, frames
    <3>3. Process(files, frames) => merged_data'.rows = files
        BY DEF Process
    <3> QED
        BY <3>1, <3>2, <3>3
  <2>2. files \subseteq content[d]
      OBVIOUS
  <2> HIDE DEF files
  <2> QED
      BY <2>1, <2>2 DEF TableIsOfFolder
<1>4. ASSUME NEW d \in Folders, generate_demo_files(d) PROVE TableIsOfFolder'
  <2>1. content' = [content EXCEPT ![d] = @ \cup DemoFiles]
        /\ UNCHANGED <<merged_data, import_folder_path, import_failed>>
      BY <1>4 DEF generate_demo_files
  <2>2. \A folder \in Folders : content[folder] \subseteq content'[folder]
      BY <2>1 DEF TableIsOfFolder
  <2> QED
      BY <2>1, <2>2 DEF TableIsOfFolder
<1>5. CASE export_merged
    BY <1>5 DEF export_merged, TableIsOfFolder
<1> QED
    BY <1>1, <1>2, <1>3, <1>4, <1>5 DEF MergerNext

\* For any folders and files: whatever is exported has the rows of the folder
\* it is proposed for, unless the last import merged nothing
\* (main.py:177-185, 276-285, 318-331).
THEOREM ExportsAreOfFolder == MergerSpec => ExportIsOfFolder
<1> DEFINE Honest == exported' # exported => import_failed
                        \/ exported'.table.rows \subseteq content[exported'.folder]
<1>1. TableIsOfFolder /\ [MergerNext]_mergerVars => [Honest]_mergerVars
  <2> SUFFICES ASSUME TableIsOfFolder, MergerNext, exported' # exported PROVE Honest
      OBVIOUS
  <2>1. export_merged
      BY DEF MergerNext, StartUp, import_folder, generate_demo_files
  <2>2. exported' = [table |-> merged_data, folder |-> import_folder_path] /\ merged_data # NoData
      BY <2>1 DEF export_merged
  <2> QED
      BY <2>2 DEF TableIsOfFolder
<1>2. ExportIsOfFolder <=> [][Honest]_mergerVars
    BY DEF ExportIsOfFolder
<1> QED
    BY <1>1, <1>2, MergerInitInv, MergerStep, PTL DEF MergerSpec

\* No two rows of the mapping have one result header, in the file or in the code.
LEMMA RowsDiffer ==
    ASSUME NEW a \in FileMappings, NEW b \in FileMappings, a[1] = b[1]
    PROVE  a = b
BY DEF FileMappings

LEMMA MappingsDiffer ==
    ASSUME NEW a \in Mappings, NEW b \in Mappings, a[1] = b[1]
    PROVE  a = b
<1>1. CASE mapping_config # "default"
    BY <1>1, RowsDiffer DEF Mappings
<1>2. CASE mapping_config = "default"
  <2> DEFINE face == <<"face_balance", "balance", "current_balance", "book_balance", "none", "balance">>
             own == <<"account_balance", "account_balance", "none", "none", "account_balance", "none">>
  <2>1. \A r \in FileMappings : r[1] = "face_balance" => r[6] = "balance"
      BY DEF FileMappings
  <2>2. face[1] = "face_balance" /\ own[1] = "account_balance"
      OBVIOUS
  <2>3. Mappings = {r \in FileMappings : r[6] # "balance" /\ r[1] # "account_balance"} \cup {face, own}
      BY <1>2 DEF Mappings
  <2> HIDE DEF face, own
  <2>4. \A r \in Mappings :
            \/ r \in FileMappings /\ r[1] # "account_balance" /\ r[1] # "face_balance"
            \/ r = face \/ r = own
      BY <2>1, <2>3
  <2> QED
      BY <2>2, <2>4, RowsDiffer
<1> QED
    BY <1>1, <1>2

\* So each column occurs once in a frame, and in the table that is made of frames.
OnceEach(frame) == \A h \in DOMAIN frame : frame[h] = 1

LEMMA MappedOnce ==
    ASSUME mapping_config # "demo", NEW columns, NEW i
    PROVE  OnceEach(apply_mapping(columns, i))
<1>1. CASE i = 0
    BY <1>1 DEF apply_mapping, OnceEach
<1>2. CASE i # 0
  <2>1. ASSUME NEW h, SourcesOf(i, h) \cap columns # {}
        PROVE  Cardinality(SourcesOf(i, h) \cap columns) = 1
    <3>1. PICK row \in Mappings : row[1] = h /\ row[i + 1] \in SourcesOf(i, h) \cap columns
        BY <2>1 DEF SourcesOf, ResultHeader
    <3>2. \A m \in Mappings : m[1] = h => m = row
        BY <3>1, MappingsDiffer
    <3> DEFINE x == row[i + 1]
    <3>3. SourcesOf(i, h) \cap columns = {x}
        BY <3>1, <3>2 DEF SourcesOf, ResultHeader
    <3> HIDE DEF x
    <3> QED
        BY <3>3, FS_Singleton
  <2>2. apply_mapping(columns, i)
          = [h \in {g \in ResultHeaders : SourcesOf(i, g) \cap columns # {}}
                |-> Cardinality(SourcesOf(i, h) \cap columns)]
      BY <1>2 DEF apply_mapping
  <2> QED
      BY <2>1, <2>2 DEF OnceEach
<1> QED
    BY <1>1, <1>2

LEMMA NamedOnce ==
    ASSUME mapping_config # "demo", NEW h
    PROVE  Times(h) = 1
<1>1. CASE h \notin ResultHeaders
    BY <1>1 DEF Times
<1>2. CASE h \in ResultHeaders
  <2>1. PICK row \in Mappings : row[1] = h
      BY <1>2 DEF ResultHeaders, ResultHeader
  <2>2. {r \in Mappings : ResultHeader(r[1]) = h} = {row}
      BY <2>1, MappingsDiffer DEF ResultHeader
  <2> QED
      BY <1>2, <2>2, FS_Singleton DEF Times
<1> QED
    BY <1>1, <1>2

LEMMA OrderedOnce ==
    ASSUME mapping_config # "demo", NEW frames, \A frame \in frames : OnceEach(frame)
    PROVE  OnceEach(reorder_columns(frames))
<1> DEFINE Often(h, n) == \E f \in frames : h \in DOMAIN f /\ f[h] = n
           headers == UNION {DOMAIN f : f \in frames}
<1>1. reorder_columns(frames) = [h \in headers |-> Times(h) * (CHOOSE n \in 1 .. 11 : Often(h, n))]
    BY DEF reorder_columns
<1>2. ASSUME NEW h \in headers
      PROVE  (CHOOSE n \in 1 .. 11 : Often(h, n)) = 1
  <2>1. Often(h, 1)
      BY DEF OnceEach
  <2>2. \A n : Often(h, n) => n = 1
      BY DEF OnceEach
  <2>3. 1 \in 1 .. 11
      OBVIOUS
  <2> HIDE DEF Often
  <2> QED
      BY <2>1, <2>2, <2>3
<1> HIDE DEF Often, headers
<1>3. \A h \in headers : Times(h) * (CHOOSE n \in 1 .. 11 : Often(h, n)) = 1
  <2> SUFFICES ASSUME NEW h \in headers
               PROVE  Times(h) * (CHOOSE n \in 1 .. 11 : Often(h, n)) = 1
      OBVIOUS
  <2>1. Times(h) = 1
      BY NamedOnce, Zenon
  <2>2. (CHOOSE n \in 1 .. 11 : Often(h, n)) = 1
      BY <1>2, Zenon
  <2> DEFINE often == CHOOSE n \in 1 .. 11 : Often(h, n)
  <2>3. often = 1
      BY <2>2
  <2> HIDE DEF often
  <2>4. Times(h) * often = 1
      BY <2>1, <2>3
  <2> QED
      BY <2>4 DEF often
<1> QED
    BY <1>1, <1>3 DEF OnceEach

MergerTypeInv == MergerTypeOK /\ (app = "off" => merged_data = NoData)

LEMMA MergerTypeStep == MergerTypeInv /\ [MergerNext]_mergerVars => MergerTypeInv'
<1> SUFFICES ASSUME MergerTypeInv, [MergerNext]_mergerVars PROVE MergerTypeInv'
    OBVIOUS
<1>1. ASSUME NEW config \in {"default", "file", "demo", "broken"}, StartUp(config)
      PROVE  MergerTypeInv'
  <2>1. /\ app' \in {"running", "aborted"} /\ mapping_config' \in {"default", "file", "demo"}
        /\ merged_data' = NoData /\ UNCHANGED <<import_folder_path, content>>
      BY <1>1 DEF StartUp, MergerTypeInv, MergerTypeOK
  <2> QED
      BY <2>1 DEF MergerTypeInv, MergerTypeOK
<1>2. ASSUME NEW d \in Folders, import_folder(d) PROVE MergerTypeInv'
  <2> DEFINE files == {f \in content[d] : Readable(f) /\ f.columns # {}}
             frames == {apply_mapping(f.columns, detect_bank(f.columns)) : f \in files}
  <2>1. /\ app = "running" /\ app' \in {"running", "aborted"} /\ import_folder_path' = d
        /\ UNCHANGED <<mapping_config, content>>
        /\ UNCHANGED merged_data \/ Process(files, frames)
      BY <1>2 DEF import_folder
  <2>2. d # NoFolder
      BY MergerAssumption
  <2>3. ASSUME mapping_config # "demo", Process(files, frames)
        PROVE  OnceEach(merged_data'.columns)
    <3>1. \A frame \in frames : OnceEach(frame)
        BY <2>3, MappedOnce
    <3> HIDE DEF frames, files
    <3>2. merged_data'.columns = reorder_columns(frames)
        BY <2>3 DEF Process
    <3> QED
        BY <2>3, <3>1, <3>2, OrderedOnce
  <2> HIDE DEF frames, files
  <2>4. mapping_config' # "demo" /\ merged_data' # NoData => OnceEach(merged_data'.columns)
    <3>1. mapping_config # "demo" /\ merged_data # NoData => OnceEach(merged_data.columns)
        BY DEF MergerTypeInv, MergerTypeOK, OnceEach
    <3>2. CASE UNCHANGED merged_data
        BY <2>1, <3>1, <3>2
    <3> QED
        BY <2>1, <2>3, <3>2
  <2> QED
      BY <2>1, <2>2, <2>4 DEF MergerTypeInv, MergerTypeOK, OnceEach
<1>3. ASSUME NEW d \in Folders, generate_demo_files(d) PROVE MergerTypeInv'
  <2>1. /\ UNCHANGED <<app, mapping_config, merged_data, import_folder_path>>
        /\ DOMAIN content' = DOMAIN content
      BY <1>3 DEF generate_demo_files
  <2> QED
      BY <2>1 DEF MergerTypeInv, MergerTypeOK
<1>4. CASE export_merged
    BY <1>4 DEF export_merged, MergerTypeInv, MergerTypeOK
<1>5. CASE UNCHANGED mergerVars
    BY <1>5 DEF mergerVars, MergerTypeInv, MergerTypeOK
<1> QED
    BY <1>1, <1>2, <1>3, <1>4, <1>5 DEF MergerNext

\* The merged table has every column once, unless the configuration is that
\* of the demonstration, which gives two columns one name (main.py:190-213).
THEOREM ColumnsOccurOnce == MergerSpec => []MergerTypeOK
<1>1. MergerInit => MergerTypeInv
    BY MergerAssumption DEF MergerInit, MergerTypeInv, MergerTypeOK
<1>2. MergerTypeInv => MergerTypeOK
    BY DEF MergerTypeInv
<1> QED
    BY <1>1, <1>2, MergerTypeStep, PTL DEF MergerSpec

-----------------------------------------------------------------------------
(* The skills. All that are registered can be loaded, and of all that can  *)
(* be loaded the name at least is registered once its turn has come.       *)

Registered ==
    /\ console = "off" => skills = <<>>
    /\ listed \subseteq dirs /\ dirs \subseteq SkillDirs
    /\ skills \in Seq(SkillDirs)
    /\ \A i \in DOMAIN skills : skills[i] \in dirs /\ Loadable(skills[i])
    /\ \A d \in dirs \ listed : Loadable(d) => d.name \in Names
    /\ console \in {"waiting", "answered"} => listed = {}
SkillInv == Registered /\ OnlyMatchAnswers

LEMMA SkillInitInv == SkillInit => SkillInv
<1> SUFFICES ASSUME SkillInit PROVE SkillInv
    OBVIOUS
<1>1. skills \in Seq(SkillDirs) /\ DOMAIN skills = {}
    BY DEF SkillInit
<1> QED
    BY <1>1 DEF SkillInit, SkillInv, Registered, OnlyMatchAnswers

\* A set of numbers has a least one, which Min finds.
LEMMA LeastOfNumbers ==
    ASSUME NEW S \in SUBSET Nat, S # {}
    PROVE  Min(S) \in S
BY NumbersHaveLeast DEF Min

\* The search of dispatch finds a skill that fits, if there is one.
LEMMA SearchFinds ==
    ASSUME NEW words, skills \in Seq(SkillDirs),
           NEW i, i = SelectInSeq(skills, LAMBDA d : Fits(d, words))
    PROVE  \/ i = 0 /\ \A j \in DOMAIN skills : ~Fits(skills[j], words)
           \/ i # 0 /\ i \in DOMAIN skills /\ Fits(skills[i], words)
<1> DEFINE I == {j \in 1 .. Len(skills) : Fits(skills[j], words)}
<1>1. i = IF I # {} THEN Min(I) ELSE 0
    BY DEF SelectInSeq
<1>2. DOMAIN skills = 1 .. Len(skills) /\ Len(skills) \in Nat
    OBVIOUS
<1>3. I \in SUBSET Nat
    OBVIOUS
<1>4. CASE I = {}
    BY <1>1, <1>2, <1>4
<1>5. CASE I # {}
  <2>1. i \in I
      BY <1>1, <1>3, <1>5, LeastOfNumbers
  <2> QED
      BY <1>2, <2>1
<1> QED
    BY <1>4, <1>5

\* Registering a skill that can be loaded keeps the names that are there.
LEMMA RegisterKeeps ==
    ASSUME SkillInv, NEW d \in listed, Loadable(d), register(d)
    PROVE  /\ skills' \in Seq(SkillDirs)
           /\ \A i \in DOMAIN skills' : skills'[i] \in dirs /\ Loadable(skills'[i])
           /\ Names' = Names \cup {d.name}
<1>1. d \in dirs /\ d \in SkillDirs /\ skills \in Seq(SkillDirs)
      /\ DOMAIN skills = 1 .. Len(skills) /\ Len(skills) \in Nat
    BY DEF SkillInv, Registered
<1>2. CASE d.name \in Names
  <2>1. skills' = [i \in DOMAIN skills |-> IF skills[i].name = d.name THEN d ELSE skills[i]]
      BY <1>2 DEF register
  <2>2. skills' \in Seq(SkillDirs)
      BY <1>1, <2>1
  <2>3. \A i \in DOMAIN skills' : skills'[i] \in dirs /\ Loadable(skills'[i])
      BY <1>1, <2>1 DEF SkillInv, Registered
  <2>4. \A i \in DOMAIN skills : skills'[i].name = skills[i].name
      BY <2>1
  <2>5. Names' = Names
      BY <2>1, <2>4 DEF Names
  <2> QED
      BY <1>2, <2>2, <2>3, <2>5
<1>3. CASE d.name \notin Names
  <2>1. skills' = Append(skills, d)
      BY <1>3 DEF register
  <2>2. skills' \in Seq(SkillDirs) /\ DOMAIN skills' = 1 .. Len(skills) + 1
        /\ skills'[Len(skills) + 1] = d /\ \A i \in DOMAIN skills : skills'[i] = skills[i]
      BY <1>1, <2>1
  <2>3. \A i \in DOMAIN skills' : i = Len(skills) + 1 \/ i \in DOMAIN skills
      BY <1>1, <2>2
  <2>4. \A i \in DOMAIN skills' : skills'[i] \in dirs /\ Loadable(skills'[i])
      BY <1>1, <2>2, <2>3 DEF SkillInv, Registered
  <2>5. Len(skills) + 1 \in DOMAIN skills' /\ DOMAIN skills \subseteq DOMAIN skills'
      BY <1>1, <2>2
  <2>6. Names' = Names \cup {d.name}
      BY <2>2, <2>3, <2>5 DEF Names
  <2> QED
      BY <2>2, <2>4, <2>6
<1> QED
    BY <1>2, <1>3

\* The answer to a query, of whatever skill the search has found.
LEMMA DispatchAnswers ==
    ASSUME SkillInv, NEW words, dispatch(words)
    PROVE  OnlyMatchAnswers'
<1> DEFINE i == SelectInSeq(skills, LAMBDA d : Fits(d, words))
<1>1. listed = {} /\ asked' = words /\ dirs' = dirs
    BY DEF dispatch, SkillInv, Registered
<1>2. \/ i = 0 /\ \A j \in DOMAIN skills : ~Fits(skills[j], words)
      \/ i # 0 /\ i \in DOMAIN skills /\ Fits(skills[i], words)
    BY SearchFinds DEF SkillInv, Registered
<1>3. IF i = 0 THEN SaysNotFound ELSE Call(skills[i])
    BY DEF dispatch
<1> HIDE DEF i
<1> DEFINE fitting == {d \in dirs : Loadable(d) /\ Fits(d, words)}
<1>4. CASE i = 0
  <2>1. result' = NotFound
      BY <1>3, <1>4 DEF SaysNotFound
  <2>2. ASSUME NEW d \in fitting, \A e \in dirs : Loadable(e) /\ e.name = d.name => e = d
        PROVE  FALSE
    <3>1. PICK j \in DOMAIN skills : skills[j].name = d.name
        BY <1>1 DEF SkillInv, Registered, Names
    <3>2. skills[j] = d
        BY <2>2, <3>1 DEF SkillInv, Registered
    <3> QED
        BY <1>2, <1>4, <3>2
  <2>3. NotFound' = NotFound
      BY DEF NotFound
  <2> QED
      BY <1>1, <2>1, <2>2, <2>3 DEF OnlyMatchAnswers
<1>5. CASE i # 0
  <2>1. skills[i] \in fitting
      BY <1>2, <1>5 DEF SkillInv, Registered
  <2>2. result'.dir = skills[i].dir
      BY <1>3, <1>5 DEF Call
  <2>3. \A d \in fitting : fitting = {d} => result'.dir = d.dir
      BY <2>1, <2>2
  <2> QED
      BY <1>1, <2>1, <2>3 DEF OnlyMatchAnswers
<1> QED
    BY <1>4, <1>5

LEMMA Calls ==
    /\ \A d : Call(d) => console' \in {"answered", "ended"}
    /\ SaysNotFound => console' \in {"answered", "ended"}
    BY DEF Call, SaysNotFound

LEMMA SkillStep == SkillInv /\ [SkillNext]_skillVars => SkillInv'
<1> SUFFICES ASSUME SkillInv, [SkillNext]_skillVars PROVE SkillInv'
    OBVIOUS
<1>1. CASE UNCHANGED skillVars
    BY <1>1 DEF skillVars, SkillInv, Registered, Names, OnlyMatchAnswers
<1>2. CASE SkillStart
  <2>1. dirs' \subseteq SkillDirs /\ listed' = dirs' /\ skills' = skills /\ console' = "loading"
      BY <1>2 DEF SkillStart
  <2>2. skills = <<>> /\ DOMAIN skills = {} /\ skills \in Seq(SkillDirs)
      BY <1>2 DEF SkillStart, SkillInv, Registered
  <2> QED
      BY <2>1, <2>2 DEF SkillInv, Registered, OnlyMatchAnswers
<1>3. CASE ShowPrompt
  <2>1. listed = {} /\ console' = "waiting" /\ UNCHANGED <<use_llm, dirs, listed, skills>>
      BY <1>3 DEF ShowPrompt, SkillInv, Registered
  <2> QED
      BY <2>1 DEF SkillInv, Registered, Names, OnlyMatchAnswers
<1>4. CASE Leave
    BY <1>4 DEF Leave, SkillInv, Registered, Names, OnlyMatchAnswers
<1>5. ASSUME NEW d \in listed, LoadSkill(d) PROVE SkillInv'
  <2>1. listed' = listed \ {d} /\ dirs' = dirs /\ console \notin {"waiting", "answered"}
        /\ console' \in {"loading", "crashed"} /\ d \in dirs /\ d \in SkillDirs
      BY <1>5 DEF LoadSkill, SkillInv, Registered
  <2>2. Loadable(d) <=> ~(d.name = "" \/ d.keywords = {}) /\ d.script # "raises"
      BY <2>1, SkillAssumption DEF Loadable
  <2>3. CASE ~Loadable(d)
    <3>1. skills' = skills
        BY <1>5, <2>2, <2>3 DEF LoadSkill
    <3> QED
        BY <2>1, <2>3, <3>1 DEF SkillInv, Registered, Names, OnlyMatchAnswers
  <2>4. CASE Loadable(d)
    <3>1. register(d)
        BY <1>5, <2>2, <2>4 DEF LoadSkill
    <3>2. /\ skills' \in Seq(SkillDirs)
          /\ \A i \in DOMAIN skills' : skills'[i] \in dirs /\ Loadable(skills'[i])
          /\ Names' = Names \cup {d.name}
        BY <2>4, <3>1, RegisterKeeps
    <3>3. \A e \in dirs \ listed' : Loadable(e) => e.name \in Names'
        BY <2>1, <3>2 DEF SkillInv, Registered
    <3> QED
        BY <2>1, <3>2, <3>3 DEF SkillInv, Registered, Loadable, OnlyMatchAnswers
  <2> QED
      BY <2>3, <2>4
<1>6. ASSUME NEW words \in SUBSET Words, dispatch(words) PROVE SkillInv'
  <2>1. UNCHANGED <<dirs, listed, skills>> /\ listed = {} /\ console' \in {"answered", "ended"}
      BY <1>6, Calls DEF dispatch, SkillInv, Registered
  <2>2. Registered'
      BY <2>1 DEF SkillInv, Registered, Names
  <2> QED
      BY <1>6, <2>2, DispatchAnswers DEF SkillInv
<1>7. ASSUME NEW words \in SUBSET Words, dispatch_by_llm(words) PROVE SkillInv'
  <2>1. UNCHANGED <<dirs, listed, skills>> /\ listed = {} /\ use_llm'
        /\ console' \in {"answered", "ended"}
      BY <1>7, Calls DEF dispatch_by_llm, SkillInv, Registered
  <2> QED
      BY <2>1 DEF SkillInv, Registered, Names, OnlyMatchAnswers
<1> QED
    BY <1>1, <1>2, <1>3, <1>4, <1>5, <1>6, <1>7 DEF SkillNext

\* For any skills, in whatever order they are loaded: a query that fits one
\* of a name of its own and no other is answered by it, and one that fits none
\* by none (demo_skill.py:120-142, registry.py:21-35, dispatcher.py:27-55).
THEOREM OnlyMatchesAnswer == SkillSpec => []OnlyMatchAnswers
<1>1. SkillInv => OnlyMatchAnswers
    BY DEF SkillInv
<1> QED
    BY <1>1, SkillInitInv, SkillStep, PTL DEF SkillSpec

\* Registering adds one key, or none and no place either.
OneKeyEach == IsFiniteSet(Names) /\ Cardinality(Names) = Len(skills)

LEMMA RegisterAddsKey ==
    ASSUME SkillInv, OneKeyEach, NEW d \in listed, Loadable(d), register(d)
    PROVE  OneKeyEach'
<1>1. skills \in Seq(SkillDirs) /\ d \in SkillDirs
    BY DEF SkillInv, Registered
<1>2. Names' = Names \cup {d.name}
    BY RegisterKeeps
<1>3. CASE d.name \in Names
  <2>1. skills' = [i \in 1 .. Len(skills) |-> IF skills[i].name = d.name THEN d ELSE skills[i]]
      BY <1>1, <1>3 DEF register
  <2>2. Len(skills') = Len(skills)
      BY <1>1, <2>1
  <2>3. Names' = Names
      BY <1>2, <1>3
  <2> QED
      BY <2>2, <2>3 DEF OneKeyEach
<1>4. CASE d.name \notin Names
  <2>1. Len(skills') = Len(skills) + 1
      BY <1>1, <1>4 DEF register
  <2>2. IsFiniteSet(Names \cup {d.name}) /\ Cardinality(Names \cup {d.name}) = Cardinality(Names) + 1
      BY <1>4, FS_AddElement DEF OneKeyEach
  <2> QED
      BY <1>2, <2>1, <2>2 DEF OneKeyEach
<1> QED
    BY <1>3, <1>4

\* Who is called is a skill that is registered.
LEMMA CalledIsSkill ==
    ASSUME SkillInv, SkillTypeOK,
           \/ SaysNotFound \/ UNCHANGED result \/ result' = NotFound
           \/ \E i \in DOMAIN skills : Call(skills[i])
    PROVE  result'.dir \in {d.dir : d \in SkillDirs} \cup {"none"}
<1>1. \A i \in DOMAIN skills : skills[i] \in SkillDirs
    BY DEF SkillInv, Registered
<1>2. CASE SaysNotFound \/ result' = NotFound
  <2>1. result' = NotFound
      BY <1>2 DEF SaysNotFound
  <2>2. NotFound.dir = "none"
      BY DEF NotFound
  <2> QED
      BY <2>1, <2>2
<1>3. CASE UNCHANGED result
  <2>1. result'.dir = result.dir
      BY <1>3
  <2> QED
      BY <2>1 DEF SkillTypeOK
<1>4. ASSUME NEW i \in DOMAIN skills, Call(skills[i])
      PROVE  result'.dir \in {d.dir : d \in SkillDirs} \cup {"none"}
  <2>1. result'.dir = skills[i].dir
      BY <1>4 DEF Call
  <2> QED
      BY <1>1, <2>1
<1> QED
    BY <1>2, <1>3, <1>4

LEMMA SkillTypeStep ==
    SkillInv /\ SkillTypeOK /\ OneKeyEach /\ [SkillNext]_skillVars => SkillTypeOK' /\ OneKeyEach'
<1> SUFFICES ASSUME SkillInv, SkillTypeOK, OneKeyEach, [SkillNext]_skillVars
             PROVE  SkillTypeOK' /\ OneKeyEach'
    OBVIOUS
<1> DEFINE Found == \/ SaysNotFound \/ UNCHANGED result \/ result' = NotFound
                    \/ \E i \in DOMAIN skills : Call(skills[i])
           Place == console' \in {"off", "loading", "waiting", "answered", "ended", "crashed"}
           Query == asked' \subseteq Words
<1>1. SkillInv'
    BY SkillStep
<1>2. \A i \in DOMAIN skills' : skills'[i] \in dirs'
    BY <1>1 DEF SkillInv, Registered
<1>3. ToSet(skills') \subseteq dirs'
    BY <1>2 DEF ToSet
<1>4. dirs' \subseteq SkillDirs /\ listed' \subseteq dirs'
    BY <1>1 DEF SkillInv, Registered
<1>5. Found /\ Place /\ Query /\ OneKeyEach'
  <2>1. UNCHANGED skills => OneKeyEach'
      BY DEF OneKeyEach, Names
  <2>2. CASE UNCHANGED skillVars
      BY <2>1, <2>2 DEF skillVars, SkillTypeOK
  <2>3. CASE SkillStart \/ ShowPrompt \/ Leave
      BY <2>1, <2>3 DEF SkillStart, ShowPrompt, Leave, SkillTypeOK
  <2>4. ASSUME NEW d \in listed, LoadSkill(d)
        PROVE  Found /\ Place /\ Query /\ OneKeyEach'
    <3>1. UNCHANGED skills \/ (Loadable(d) /\ register(d))
      <4>1. d \in SkillDirs
          BY DEF SkillInv, Registered
      <4>2. Loadable(d) <=> ~(d.name = "" \/ d.keywords = {}) /\ d.script # "raises"
          BY <4>1, SkillAssumption DEF Loadable
      <4> QED
          BY <2>4, <4>2 DEF LoadSkill
    <3>2. OneKeyEach'
        BY <2>1, <3>1, RegisterAddsKey
    <3> QED
        BY <2>4, <3>2 DEF LoadSkill, SkillTypeOK
  <2>5. ASSUME NEW words \in SUBSET Words, dispatch(words)
        PROVE  Found /\ Place /\ Query /\ OneKeyEach'
    <3> DEFINE i == SelectInSeq(skills, LAMBDA d : Fits(d, words))
    <3>1. \/ i = 0 /\ \A j \in DOMAIN skills : ~Fits(skills[j], words)
          \/ i # 0 /\ i \in DOMAIN skills /\ Fits(skills[i], words)
        BY SearchFinds DEF SkillInv, Registered
    <3>2. IF i = 0 THEN SaysNotFound ELSE Call(skills[i])
        BY <2>5 DEF dispatch
    <3> HIDE DEF i
    <3>3. asked' = words /\ UNCHANGED skills
        BY <2>5 DEF dispatch
    <3> QED
        BY <2>1, <3>1, <3>2, <3>3, Calls
  <2>6. ASSUME NEW words \in SUBSET Words, dispatch_by_llm(words)
        PROVE  Found /\ Place /\ Query /\ OneKeyEach'
      BY <2>1, <2>6, Calls DEF dispatch_by_llm
  <2> QED
      BY <2>2, <2>3, <2>4, <2>5, <2>6 DEF SkillNext
<1>6. result'.dir \in {d.dir : d \in SkillDirs} \cup {"none"}
    BY <1>5, CalledIsSkill
<1> QED
    BY <1>3, <1>4, <1>5, <1>6 DEF SkillTypeOK, OneKeyEach

\* The registry has no two skills of one name, and only skills of the
\* directories; only they are called (registry.py:21-35).
THEOREM SkillsTyped == SkillSpec => []SkillTypeOK
<1>1. SkillInit => SkillTypeOK /\ OneKeyEach
  <2> SUFFICES ASSUME SkillInit PROVE SkillTypeOK /\ OneKeyEach
      OBVIOUS
  <2>1. skills = <<>> /\ DOMAIN skills = {} /\ Len(skills) = 0
      BY DEF SkillInit
  <2>2. Names = {} /\ ToSet(skills) = {}
      BY <2>1 DEF Names, ToSet
  <2> QED
      BY <2>1, <2>2, FS_EmptySet DEF SkillInit, SkillTypeOK, OneKeyEach, NotFound
<1> QED
    BY <1>1, SkillInitInv, SkillStep, SkillTypeStep, PTL DEF SkillSpec

-----------------------------------------------------------------------------
(* The photos. A photo lies under its name until its turn has come, then   *)
(* under the new one; only the .jpg of a HEIC file is overwritten. No two  *)
(* photos are copied to one name unless one has a HEIC twin, or the other  *)
(* is the .jpg of the one, and this has been removed before its turn or is *)
(* overwritten by the one.                                                 *)

Names0 == DOMAIN FolderAtFirst
LiesAt(n, m) == m \in DOMAIN source /\ source[m] = FolderAtFirst[n]
DatedName(n) == Dated(CopyName(formatImageName(n)), FolderAtFirst[n].date)
Abnormal(n) == n \in abnormalImgs \/ formatImageName(n) \in abnormalImgs

PhaseOK ==
    /\ phase = "idle" => source = FolderAtFirst
    /\ phase = "copying" => todo \subseteq Names0
Kept ==
    \A n \in Names0 : Heic(n) \/ ~HasTwin(n) =>
        /\ LiesAt(n, n) \/ LiesAt(n, formatImageName(n))
        /\ phase = "copying" /\ (n \in todo \/ ~isValidImgFilePath(n)) => LiesAt(n, n)
        /\ phase = "copying" /\ n \notin todo /\ isValidImgFilePath(n) =>
              LiesAt(n, formatImageName(n))
Removed ==
    phase = "copying" => \A n \in Names0 \ todo : Heic(n) /\ ~n.zh =>
        JpgOf(n) \notin DOMAIN source \/ Abnormal(n)
Copied ==
    phase = "copying" => \A n \in Names0 \ todo : ~HasTwin(n) =>
        Abnormal(n) \/ (DatedName(n) \in DOMAIN dated /\ dated[DatedName(n)] = FolderAtFirst[n])

PhotoInv == PhaseOK /\ Kept /\ Removed /\ Copied

\* What becomes of a name, field by field.
Stem(n) == IF n.zh THEN <<"uuid", n>> ELSE n.stem

LEMMA Fields ==
    ASSUME NEW n \in Names0
    PROVE  /\ n.date = "" /\ n.zh \in BOOLEAN
           /\ n = FileName(n.stem, n.suffix, n.zh, "")
           /\ formatImageName(n) = FileName(Stem(n), n.suffix, FALSE, "")
           /\ formatImageName(n).stem = Stem(n) /\ formatImageName(n).suffix = n.suffix
           /\ JpgOf(n) = FileName(n.stem, ".jpg", n.zh, "")
           /\ JpgOf(formatImageName(n)) = FileName(Stem(n), ".jpg", FALSE, "")
           /\ JpgOf(formatImageName(n)).stem = Stem(n)
           /\ JpgOf(formatImageName(n)).suffix = ".jpg"
<1>1. n = FileName(n.stem, n.suffix, n.zh, "") /\ n.zh \in BOOLEAN
    BY PhotoAssumption DEF Names0
<1>2. n.date = ""
  <2> DEFINE a == n.stem
             b == n.suffix
             c == n.zh
  <2>1. n = FileName(a, b, c, "")
      BY <1>1
  <2> HIDE DEF a, b, c
  <2> QED
      BY <2>1 DEF FileName
<1>3. formatImageName(n) = FileName(Stem(n), n.suffix, FALSE, "")
  <2>1. CASE n.zh
      BY <1>2, <2>1 DEF formatImageName, Stem
  <2>2. CASE ~n.zh
    <3>1. formatImageName(n) = n /\ n.zh = FALSE /\ Stem(n) = n.stem
        BY <1>1, <2>2 DEF formatImageName, Stem
    <3> QED
        BY <1>1, <3>1
  <2> QED
      BY <2>1, <2>2
<1>4. JpgOf(n) = FileName(n.stem, ".jpg", n.zh, "")
    BY <1>2 DEF JpgOf
<1>5. formatImageName(n).stem = Stem(n) /\ formatImageName(n).suffix = n.suffix
      /\ formatImageName(n).zh = FALSE /\ formatImageName(n).date = ""
  <2> DEFINE new == formatImageName(n)
             a == Stem(n)
             b == n.suffix
  <2>1. new = FileName(a, b, FALSE, "")
      BY <1>3
  <2> SUFFICES new.stem = a /\ new.suffix = b /\ new.zh = FALSE /\ new.date = ""
      OBVIOUS
  <2> HIDE DEF new, a, b
  <2> QED
      BY <2>1 DEF FileName
<1>6. JpgOf(formatImageName(n)) = FileName(Stem(n), ".jpg", FALSE, "")
    BY <1>5 DEF JpgOf
<1>7. JpgOf(formatImageName(n)).stem = Stem(n) /\ JpgOf(formatImageName(n)).suffix = ".jpg"
  <2> DEFINE jpg == JpgOf(formatImageName(n))
             a == Stem(n)
  <2>1. jpg = FileName(a, ".jpg", FALSE, "")
      BY <1>6
  <2> SUFFICES jpg.stem = a /\ jpg.suffix = ".jpg"
      OBVIOUS
  <2> HIDE DEF jpg, a
  <2> QED
      BY <2>1 DEF FileName
<1> QED
    BY <1>1, <1>2, <1>3, <1>4, <1>5, <1>6, <1>7

\* No UUID is a stem that is there, nor another UUID.
LEMMA StemsDiffer ==
    ASSUME NEW j \in Names0, NEW n \in Names0, j.zh
    PROVE  Stem(j) # n.stem /\ (j # n => Stem(j) # Stem(n))
<1>1. Stem(j) = <<"uuid", j>> /\ n.stem # <<"uuid", j>>
    BY PhotoAssumption DEF Names0, Stem
<1>2. n.zh => Stem(n) = <<"uuid", n>>
    BY DEF Stem
<1>3. j # n => <<"uuid", j>> # <<"uuid", n>>
    OBVIOUS
<1> QED
    BY <1>1, <1>2, <1>3 DEF Stem

\* A new name is the new name of one file only, and the old one of none else.
LEMMA NewNamesDiffer ==
    ASSUME NEW j \in Names0, NEW n \in Names0, j # n
    PROVE  formatImageName(j) # formatImageName(n) /\ formatImageName(j) # n
<1>1. j = FileName(j.stem, j.suffix, j.zh, "")
      /\ n = FileName(n.stem, n.suffix, n.zh, "")
      /\ j.zh \in BOOLEAN /\ n.zh \in BOOLEAN
    BY Fields
<1>2. formatImageName(j).stem = Stem(j) /\ formatImageName(n).stem = Stem(n)
    BY Fields
<1>3. CASE j.zh
    BY <1>2, <1>3, StemsDiffer
<1>4. CASE ~j.zh
  <2>1. formatImageName(j) = j
      BY <1>4 DEF formatImageName
  <2>2. n.zh => Stem(n) # j.stem
      BY StemsDiffer
  <2>3. ~n.zh => formatImageName(n) = n
      BY DEF formatImageName
  <2> QED
      BY <1>2, <2>1, <2>2, <2>3
<1> QED
    BY <1>3, <1>4

\* The .jpg of a HEIC file takes the place of no photo but a twin.
LEMMA JpgTakesTwin ==
    ASSUME NEW j \in Names0, Heic(j), NEW n \in Names0, Heic(n) \/ ~HasTwin(n)
    PROVE  JpgOf(formatImageName(j)) # n /\ JpgOf(formatImageName(j)) # formatImageName(n)
<1> DEFINE jpg == JpgOf(formatImageName(j))
<1>1. jpg.stem = Stem(j) /\ jpg.suffix = ".jpg" /\ formatImageName(n).stem = Stem(n)
      /\ formatImageName(n).suffix = n.suffix
    BY Fields
<1>2. j # n \/ n.suffix # ".jpg"
    BY DEF Heic
<1>3. CASE Heic(n)
    BY <1>1, <1>3 DEF Heic
<1>4. CASE ~Heic(n) /\ j.zh
    BY <1>1, <1>2, <1>4, StemsDiffer
<1>5. CASE ~Heic(n) /\ ~j.zh
  <2>1. jpg = JpgOf(j) /\ CopyName(n) = n /\ n # j
      BY <1>5 DEF formatImageName, CopyName
  <2>2. jpg # n
      BY <1>5, <2>1 DEF HasTwin, Names0
  <2>3. n.zh => jpg # formatImageName(n)
    <3>1. n.zh => Stem(n) # j.stem
        BY StemsDiffer
    <3> QED
        BY <1>1, <1>5, <3>1 DEF Stem
  <2>4. ~n.zh => formatImageName(n) = n
      BY DEF formatImageName
  <2> QED
      BY <2>2, <2>3, <2>4
<1> QED
    BY <1>3, <1>4, <1>5

\* Two photos are copied to one name only if there is a twin.
LEMMA CopiesDiffer ==
    ASSUME NEW j \in Names0, NEW n \in Names0, j # n, ~HasTwin(n), NEW x, NEW y,
           Dated(CopyName(formatImageName(j)), x) = Dated(CopyName(formatImageName(n)), y)
    PROVE  Heic(n) /\ ~n.zh /\ j = JpgOf(n)
<1> DEFINE suf(m) == IF Heic(m) THEN ".jpg" ELSE m.suffix
<1>1. \A m \in Names0 : CopyName(formatImageName(m)) = FileName(Stem(m), suf(m), FALSE, "")
  <2> SUFFICES ASSUME NEW m \in Names0
               PROVE  CopyName(formatImageName(m)) = FileName(Stem(m), suf(m), FALSE, "")
      OBVIOUS
  <2>1. Heic(formatImageName(m)) <=> Heic(m)
    <3>1. formatImageName(m).suffix = m.suffix
        BY Fields
    <3> QED
        BY <3>1 DEF Heic
  <2>2. /\ formatImageName(m) = FileName(Stem(m), m.suffix, FALSE, "")
        /\ JpgOf(formatImageName(m)) = FileName(Stem(m), ".jpg", FALSE, "")
      BY Fields
  <2> QED
      BY <2>1, <2>2 DEF CopyName
<1> HIDE DEF suf
<1>2. Stem(j) = Stem(n) /\ suf(j) = suf(n)
  <2>1. ASSUME NEW m \in Names0, NEW z
        PROVE  /\ Dated(CopyName(formatImageName(m)), z).stem = Stem(m)
               /\ Dated(CopyName(formatImageName(m)), z).suffix = suf(m)
    <3> DEFINE copy == CopyName(formatImageName(m))
               a == Stem(m)
               b == suf(m)
    <3>1. copy = FileName(a, b, FALSE, "")
        BY <1>1
    <3> SUFFICES Dated(copy, z).stem = a /\ Dated(copy, z).suffix = b
        OBVIOUS
    <3> HIDE DEF copy, a, b
    <3>2. copy.stem = a /\ copy.suffix = b
        BY <3>1 DEF FileName
    <3> QED
        BY <3>2 DEF Dated, FileName
  <2>2. Stem(j) = Dated(CopyName(formatImageName(j)), x).stem
        /\ suf(j) = Dated(CopyName(formatImageName(j)), x).suffix
      BY <2>1
  <2>3. Stem(n) = Dated(CopyName(formatImageName(n)), y).stem
        /\ suf(n) = Dated(CopyName(formatImageName(n)), y).suffix
      BY <2>1
  <2> QED
      BY <2>2, <2>3
<1>3. ~j.zh /\ ~n.zh /\ j.stem = n.stem
  <2>1. ~j.zh
      BY <1>2, StemsDiffer
  <2>2. ~n.zh
      BY <1>2, StemsDiffer
  <2> QED
      BY <1>2, <2>1, <2>2 DEF Stem
<1>4. j = FileName(j.stem, j.suffix, FALSE, "")
      /\ n = FileName(n.stem, n.suffix, FALSE, "")
      /\ JpgOf(j) = FileName(j.stem, ".jpg", FALSE, "")
      /\ JpgOf(n) = FileName(n.stem, ".jpg", FALSE, "")
    BY <1>3, Fields
<1>5. j.suffix # n.suffix
    BY <1>3, <1>4
<1>6. CASE Heic(j)
  <2>1. JpgOf(j) = CopyName(n)
    <3>1. CASE Heic(n)
        BY <1>3, <1>4, <3>1 DEF CopyName
    <3>2. CASE ~Heic(n)
      <4>1. n.suffix = ".jpg"
          BY <1>2, <1>6, <3>2 DEF suf
      <4>2. JpgOf(j) = n
          BY <1>3, <1>4, <4>1
      <4> QED
          BY <3>2, <4>2 DEF CopyName
    <3> QED
        BY <3>1, <3>2
  <2> QED
      BY <1>3, <1>6, <2>1 DEF HasTwin, Names0
<1>7. CASE ~Heic(j)
  <2>1. Heic(n) /\ j.suffix = ".jpg"
      BY <1>2, <1>5, <1>7 DEF suf
  <2> QED
      BY <1>3, <1>4, <2>1
<1> QED
    BY <1>6, <1>7

\* What the folders hold after a file is put into them, or taken away.
HasWith(after, folder, name, photo) ==
    /\ DOMAIN after = DOMAIN folder \cup {name}
    /\ after[name] = photo
    /\ \A m \in DOMAIN folder \ {name} : after[m] = folder[m]

LEMMA PutHas ==
    ASSUME NEW folder, NEW name, NEW photo
    PROVE  HasWith(Put(folder, name, photo), folder, name, photo)
<1>1. Put(folder, name, photo)
        = [n \in DOMAIN folder \cup {name} |-> IF n = name THEN photo ELSE folder[n]]
    BY DEF Put
<1> QED
    BY <1>1 DEF HasWith

HasBut(after, folder, name) ==
    /\ DOMAIN after = DOMAIN folder \ {name}
    /\ \A m \in DOMAIN folder \ {name} : after[m] = folder[m]

LEMMA WithoutHas ==
    ASSUME NEW folder, NEW name
    PROVE  HasBut(Without(folder, name), folder, name)
<1>1. Without(folder, name) = [m \in DOMAIN folder \ {name} |-> folder[m]]
    BY DEF Without, Restrict
<1> QED
    BY <1>1 DEF HasBut

\* A file of the folder is renamed: the others stay.
HasMoved(after, folder, from, to) ==
    /\ DOMAIN after = (DOMAIN folder \ {from}) \cup {to}
    /\ after[to] = folder[from]
    /\ \A m \in DOMAIN folder \ {from, to} : after[m] = folder[m]

LEMMA RenameKeeps ==
    ASSUME NEW folder, NEW from \in DOMAIN folder, NEW to
    PROVE  HasMoved(Rename(folder, from, to), folder, from, to)
<1>1. CASE from = to
    BY <1>1 DEF Rename, HasMoved
<1>2. CASE from # to
  <2> DEFINE rest == Without(folder, from)
             photo == folder[from]
  <2>1. Rename(folder, from, to) = Put(rest, to, photo)
      BY <1>2 DEF Rename
  <2>2. HasBut(rest, folder, from)
      BY WithoutHas
  <2>3. HasWith(Put(rest, to, photo), rest, to, photo)
      BY PutHas
  <2> HIDE DEF rest
  <2> QED
      BY <1>2, <2>1, <2>2, <2>3 DEF HasBut, HasWith, HasMoved
<1> QED
    BY <1>1, <1>2

\* What the loop does to the folders when it visits a name, whatever its kind.
NewName(name) == formatImageName(name)
TempJpg(name) == JpgOf(formatImageName(name))
CopyKey(name, date) == Dated(CopyName(formatImageName(name)), date)
Stays(m) == m \in DOMAIN source' /\ source'[m] = source[m]
StaysDated(m) == m \in DOMAIN dated' /\ dated'[m] = dated[m]

VisitSource(name) ==
    /\ \A m \in DOMAIN source \ {name, NewName(name)} :
          (Heic(name) /\ m = TempJpg(name)) \/ Stays(m)
    /\ \A m \in DOMAIN source' : m \in DOMAIN source \/ (m = NewName(name) /\ name \in DOMAIN source)
    /\ name \in DOMAIN source /\ isValidImgFilePath(name) =>
          NewName(name) \in DOMAIN source' /\ source'[NewName(name)] = source[name]
    /\ ~isValidImgFilePath(name) => source' = source
    /\ Heic(name) => TempJpg(name) \notin DOMAIN source' \/ NewName(name) \in abnormalImgs'
VisitDated(name) ==
    /\ \E date : \A m \in DOMAIN dated :
          (name \in DOMAIN source /\ m = CopyKey(name, date)) \/ StaysDated(m)
    /\ LiesAt(name, name) =>
          \/ name \in abnormalImgs' \/ NewName(name) \in abnormalImgs'
          \/ DatedName(name) \in DOMAIN dated' /\ dated'[DatedName(name)] = FolderAtFirst[name]
Visit(name) ==
    /\ phase = "copying" /\ phase' = "copying"
    /\ name \in todo /\ todo' = todo \ {name}
    /\ abnormalImgs \subseteq abnormalImgs'
    /\ VisitSource(name) /\ VisitDated(name)

\* A .jpg has the stem of its HEIC file, a new name the stem of its own.
LEMMA JpgHasStem ==
    ASSUME NEW name
    PROVE  JpgOf(name).stem = name.stem
<1> DEFINE jpg == JpgOf(name)
           a == name.stem
           b == name.zh
           c == name.date
<1>1. jpg = FileName(a, ".jpg", b, c)
    BY DEF JpgOf
<1> SUFFICES jpg.stem = a
    OBVIOUS
<1> HIDE DEF jpg, a, b, c
<1> QED
    BY <1>1 DEF FileName

LEMMA NewStem ==
    ASSUME NEW n \in Names0
    PROVE  formatImageName(n).stem = Stem(n)
BY Fields, Zenon

\* A visit keeps the invariant.
LEMMA VisitKeepsNames ==
    ASSUME PhotoInv, NEW j \in Names0, Visit(j), NEW n \in Names0, Heic(n) \/ ~HasTwin(n)
    PROVE  /\ LiesAt(n, n)' \/ LiesAt(n, formatImageName(n))'
           /\ n \in todo' \/ ~isValidImgFilePath(n) => LiesAt(n, n)'
           /\ n \notin todo' /\ isValidImgFilePath(n) => LiesAt(n, formatImageName(n))'
<1>1. /\ n \in todo \/ ~isValidImgFilePath(n) => LiesAt(n, n)
      /\ n \notin todo /\ isValidImgFilePath(n) => LiesAt(n, formatImageName(n))
    BY DEF PhotoInv, Kept, Visit
<1>2. CASE n # j
  <2>1. n \in todo' <=> n \in todo
      BY <1>2 DEF Visit
  <2>2. /\ Heic(j) => n # TempJpg(j) /\ formatImageName(n) # TempJpg(j)
        /\ formatImageName(n) # j /\ n # NewName(j) /\ formatImageName(n) # NewName(j)
    <3>1. /\ formatImageName(n) # j
          /\ n # NewName(j) /\ formatImageName(n) # NewName(j)
        BY <1>2, NewNamesDiffer DEF NewName
    <3>2. Heic(j) => n # TempJpg(j) /\ formatImageName(n) # TempJpg(j)
        BY JpgTakesTwin DEF TempJpg
    <3> QED
        BY <3>1, <3>2
  <2>3. \A m \in DOMAIN source \ {j, NewName(j)} : (Heic(j) /\ m = TempJpg(j)) \/ Stays(m)
      BY DEF Visit, VisitSource
  <2>4. LiesAt(n, n) => LiesAt(n, n)'
      BY <1>2, <2>2, <2>3 DEF LiesAt, Stays
  <2>5. LiesAt(n, formatImageName(n)) => LiesAt(n, formatImageName(n))'
      BY <2>2, <2>3 DEF LiesAt, Stays
  <2> QED
      BY <1>1, <2>1, <2>4, <2>5
<1>3. CASE n = j
  <2>1. n \in todo /\ n \notin todo' /\ LiesAt(n, n)
      BY <1>1, <1>3 DEF Visit
  <2>2. isValidImgFilePath(n) => LiesAt(n, formatImageName(n))'
      BY <1>3, <2>1 DEF Visit, VisitSource, LiesAt, NewName
  <2>3. ~isValidImgFilePath(n) => LiesAt(n, n)'
      BY <1>3, <2>1 DEF Visit, VisitSource, LiesAt
  <2> QED
      BY <2>1, <2>2, <2>3
<1> QED
    BY <1>2, <1>3

LEMMA VisitKeepsRemoved ==
    ASSUME PhotoInv, NEW j \in Names0, Visit(j), NEW n \in Names0 \ todo', Heic(n), ~n.zh
    PROVE  JpgOf(n) \notin DOMAIN source' \/ Abnormal(n)'
<1>1. CASE n = j
  <2>1. formatImageName(n) = n
      BY DEF formatImageName
  <2> QED
      BY <1>1, <2>1 DEF Visit, VisitSource, TempJpg, NewName, Abnormal
<1>2. CASE n # j
  <2>1. JpgOf(n) \notin DOMAIN source \/ Abnormal(n)
      BY <1>2 DEF PhotoInv, Removed, Visit
  <2>2. Abnormal(n) => Abnormal(n)'
      BY DEF Abnormal, Visit
  <2>3. j \in DOMAIN source /\ JpgOf(n) = NewName(j) => JpgOf(n) \in DOMAIN source
    <3>1. CASE j.zh
      <4>1. NewName(j).stem = Stem(j)
        <5>1. formatImageName(j).stem = Stem(j)
            BY NewStem
        <5> QED
            BY <5>1 DEF NewName
      <4>2. JpgOf(n).stem = n.stem
          BY JpgHasStem
      <4>3. Stem(j) # n.stem
          BY <3>1, StemsDiffer
      <4> QED
          BY <4>1, <4>2, <4>3
    <3>2. CASE ~j.zh
        BY <3>2 DEF NewName, formatImageName
    <3> QED
        BY <3>1, <3>2
  <2>4. \A m \in DOMAIN source' :
            m \in DOMAIN source \/ (m = NewName(j) /\ j \in DOMAIN source)
      BY DEF Visit, VisitSource
  <2> QED
      BY <2>1, <2>2, <2>3, <2>4
<1> QED
    BY <1>1, <1>2

LEMMA VisitKeepsCopies ==
    ASSUME PhotoInv, NEW j \in Names0, Visit(j), NEW n \in Names0 \ todo', ~HasTwin(n)
    PROVE  \/ Abnormal(n)'
           \/ DatedName(n) \in DOMAIN dated' /\ dated'[DatedName(n)] = FolderAtFirst[n]
<1>1. CASE n = j
  <2>1. LiesAt(j, j)
      BY <1>1 DEF PhotoInv, Kept, Visit
  <2> QED
      BY <1>1, <2>1 DEF Visit, VisitDated, NewName, Abnormal
<1>2. CASE n # j
  <2>1. \/ Abnormal(n)
        \/ DatedName(n) \in DOMAIN dated /\ dated[DatedName(n)] = FolderAtFirst[n]
      BY <1>2 DEF PhotoInv, Copied, Visit
  <2>2. Abnormal(n) => Abnormal(n)'
      BY DEF Abnormal, Visit
  <2>3. PICK date : \A m \in DOMAIN dated :
            (j \in DOMAIN source /\ m = CopyKey(j, date)) \/ StaysDated(m)
      BY DEF Visit, VisitDated
  <2>4. DatedName(n) = CopyKey(j, date) => Abnormal(n) \/ j \notin DOMAIN source
    <3>1. DatedName(n) = CopyKey(j, date) => Heic(n) /\ ~n.zh /\ j = JpgOf(n)
        BY <1>2, CopiesDiffer DEF DatedName, CopyKey
    <3>2. Heic(n) /\ ~n.zh => JpgOf(n) \notin DOMAIN source \/ Abnormal(n)
        BY <1>2 DEF PhotoInv, Removed, Visit
    <3> QED
        BY <3>1, <3>2
  <2> QED
      BY <2>1, <2>2, <2>3, <2>4 DEF StaysDated
<1> QED
    BY <1>1, <1>2

LEMMA VisitKeeps ==
    ASSUME PhotoInv, NEW j \in Names0, Visit(j)
    PROVE  PhotoInv'
<1>1. PhaseOK'
    BY DEF PhotoInv, PhaseOK, Visit
<1>2. Kept'
    BY VisitKeepsNames DEF Kept
<1>3. Removed'
    BY VisitKeepsRemoved DEF Removed
<1>4. Copied'
    BY VisitKeepsCopies DEF Copied
<1> QED
    BY <1>1, <1>2, <1>3, <1>4 DEF PhotoInv

\* Each of the three ways of visiting a name is a visit.
LEMMA SkipIsVisit ==
    ASSUME NEW j \in Names0, SkipFile(j)
    PROVE  Visit(j)
<1>1. /\ phase = "copying" /\ phase' = phase /\ j \in todo /\ todo' = todo \ {j}
      /\ abnormalImgs' = abnormalImgs \cup {j} /\ source' = source /\ dated' = dated
      /\ ~isValidImgFilePath(j)
    BY DEF SkipFile
<1>2. VisitSource(j)
    BY <1>1 DEF VisitSource, Stays, isValidImgFilePath
<1>3. VisitDated(j)
    BY <1>1 DEF VisitDated, StaysDated
<1> QED
    BY <1>1, <1>2, <1>3 DEF Visit

\* A copy is written under its date or the file is abnormal.
LEMMA CopyToIsVisit ==
    ASSUME NEW j \in Names0, j \in DOMAIN source, NEW raw \in {j, NewName(j)},
           CopyTo(CopyName(NewName(j)), source[j], raw)
    PROVE  abnormalImgs \subseteq abnormalImgs' /\ VisitDated(j)
<1> DEFINE key == CopyKey(j, source[j].date)
<1>1. \/ dated' = Put(dated, key, source[j]) /\ abnormalImgs' = abnormalImgs
      \/ dated' = dated /\ abnormalImgs' = abnormalImgs \cup {raw}
    BY DEF CopyTo, CopyKey, NewName
<1>2. LiesAt(j, j) => source[j] = FolderAtFirst[j] /\ key = DatedName(j)
    BY DEF LiesAt, DatedName, CopyKey
<1> HIDE DEF key
<1>3. CASE dated' = Put(dated, key, source[j]) /\ abnormalImgs' = abnormalImgs
  <2>1. /\ DOMAIN dated' = DOMAIN dated \cup {key} /\ dated'[key] = source[j]
        /\ \A m \in DOMAIN dated \ {key} : dated'[m] = dated[m]
    <3> DEFINE photo == source[j]
               after == Put(dated, key, photo)
    <3>1. HasWith(after, dated, key, photo)
        BY PutHas
    <3>2. dated' = after
        BY <1>3
    <3> HIDE DEF after
    <3> QED
        BY <3>1, <3>2 DEF HasWith
  <2>2. \A m \in DOMAIN dated : m = key \/ StaysDated(m)
      BY <2>1 DEF StaysDated
  <2>3. \E date : \A m \in DOMAIN dated :
            (j \in DOMAIN source /\ m = CopyKey(j, date)) \/ StaysDated(m)
    <3>1. \A m \in DOMAIN dated :
              (j \in DOMAIN source /\ m = CopyKey(j, source[j].date)) \/ StaysDated(m)
        BY <2>2 DEF key
    <3> QED
        BY ONLY <3>1
  <2>4. LiesAt(j, j) => DatedName(j) \in DOMAIN dated'
                        /\ dated'[DatedName(j)] = FolderAtFirst[j]
      BY <1>2, <2>1
  <2> QED
      BY <1>3, <2>3, <2>4 DEF VisitDated
<1>4. CASE dated' = dated /\ abnormalImgs' = abnormalImgs \cup {raw}
    BY <1>4 DEF VisitDated, StaysDated
<1> QED
    BY <1>1, <1>3, <1>4

LEMMA CopyIsVisit ==
    ASSUME NEW j \in Names0, CopyPhoto(j)
    PROVE  Visit(j)
<1>1. /\ phase = "copying" /\ phase' = phase /\ j \in todo /\ todo' = todo \ {j}
      /\ isValidImgFilePath(j) /\ ~Heic(j)
    BY DEF CopyPhoto
<1>2. CASE j \in DOMAIN source
  <2>1. source' = Rename(source, j, NewName(j)) /\ CopyTo(NewName(j), source[j], NewName(j))
      BY <1>2 DEF CopyPhoto, NewName
  <2>2. CopyName(NewName(j)) = NewName(j)
    <3>1. formatImageName(j).suffix = j.suffix
        BY Fields, Zenon
    <3> QED
        BY <1>1, <3>1 DEF CopyName, Heic, NewName
  <2>3. abnormalImgs \subseteq abnormalImgs' /\ VisitDated(j)
      BY <1>2, <2>1, <2>2, CopyToIsVisit
  <2>4. /\ DOMAIN source' = (DOMAIN source \ {j}) \cup {NewName(j)}
        /\ source'[NewName(j)] = source[j]
        /\ \A m \in DOMAIN source \ {j, NewName(j)} : source'[m] = source[m]
    <3> DEFINE new == NewName(j)
               after == Rename(source, j, new)
    <3>1. HasMoved(after, source, j, new)
        BY <1>2, RenameKeeps
    <3>2. source' = after
        BY <2>1
    <3> HIDE DEF after
    <3> QED
        BY <3>1, <3>2 DEF HasMoved
  <2> QED
      BY <1>1, <1>2, <2>3, <2>4 DEF Visit, VisitSource, Stays
<1>3. CASE j \notin DOMAIN source
  <2>1. source' = source /\ dated' = dated /\ abnormalImgs \subseteq abnormalImgs'
      BY <1>3 DEF CopyPhoto
  <2>2. VisitSource(j)
      BY <1>1, <1>3, <2>1 DEF VisitSource, Stays
  <2>3. VisitDated(j)
      BY <1>3, <2>1 DEF VisitDated, StaysDated, LiesAt
  <2> QED
      BY <1>1, <2>1, <2>2, <2>3 DEF Visit
<1> QED
    BY <1>2, <1>3

LEMMA ConvertIsVisit ==
    ASSUME PhotoInv, NEW j \in Names0, ConvertPhoto(j)
    PROVE  Visit(j)
<1> DEFINE new == NewName(j)
           jpg == TempJpg(j)
           renamed == Rename(source, j, new)
<1>1. /\ phase = "copying" /\ phase' = phase /\ j \in todo /\ todo' = todo \ {j} /\ Heic(j)
    BY DEF ConvertPhoto
<1>2. LiesAt(j, j) /\ j \in DOMAIN source
    BY <1>1 DEF PhotoInv, Kept, LiesAt
<1>3. HasMoved(renamed, source, j, new)
    BY <1>2, RenameKeeps
<1>4. isValidImgFilePath(j)
    BY <1>1 DEF isValidImgFilePath
<1>5. new # jpg
  <2>1. formatImageName(j).suffix = j.suffix /\ JpgOf(formatImageName(j)).suffix = ".jpg"
      BY Fields, Zenon
  <2> QED
      BY <1>1, <2>1 DEF Heic, NewName, TempJpg
<1>6. CASE source[j].readable
  <2>1. source' = Without(renamed, jpg) /\ CopyTo(jpg, source[j], new)
      BY <1>6 DEF ConvertPhoto, NewName, TempJpg
  <2>2. CopyName(NewName(j)) = jpg
    <3>1. formatImageName(j).suffix = j.suffix
        BY Fields, Zenon
    <3> QED
        BY <1>1, <3>1 DEF CopyName, Heic, NewName, TempJpg
  <2>3. abnormalImgs \subseteq abnormalImgs' /\ VisitDated(j)
      BY <1>2, <2>1, <2>2, CopyToIsVisit
  <2>4. HasBut(source', renamed, jpg)
      BY <2>1, WithoutHas
  <2>5. VisitSource(j)
    <3> HIDE DEF renamed
    <3> QED
        BY <1>1, <1>2, <1>3, <1>4, <1>5, <2>4
           DEF HasBut, HasMoved, VisitSource, Stays
  <2> QED
      BY <1>1, <2>3, <2>5 DEF Visit
<1>7. CASE ~source[j].readable
  <2>1. /\ source' = renamed /\ dated' = dated
        /\ abnormalImgs' = abnormalImgs \cup {new}
      BY <1>7 DEF ConvertPhoto, NewName
  <2>2. VisitSource(j)
    <3> HIDE DEF renamed
    <3> QED
        BY <1>1, <1>2, <1>3, <1>4, <2>1 DEF HasMoved, VisitSource, Stays
  <2>3. VisitDated(j)
      BY <2>1 DEF VisitDated, StaysDated
  <2> QED
      BY <1>1, <2>1, <2>2, <2>3 DEF Visit
<1> QED
    BY <1>6, <1>7

LEMMA PhotoInitInv ==
    ASSUME PhotoInit
    PROVE  PhotoInv
BY DEF PhotoInit, PhotoInv, PhaseOK, Kept, Removed, Copied, LiesAt, Names0

\* When no names are visited the photos of the first folder stay.
LEMMA PhotosStay ==
    ASSUME PhotoInv, source' = source, phase' \in {"tagging", "ended", "aborted"}
    PROVE  PhotoInv'
BY DEF PhotoInv, PhaseOK, Kept, Removed, Copied, LiesAt

LEMMA ListingStarts ==
    ASSUME PhotoInv, ListSource
    PROVE  PhotoInv'
<1>1. /\ source = FolderAtFirst /\ source' = source /\ phase' = "copying" /\ todo' = Names0
    BY DEF ListSource, PhotoInv, PhaseOK, Names0
<1>2. PhaseOK' /\ Removed' /\ Copied'
    BY <1>1 DEF PhaseOK, Removed, Copied
<1>3. Kept'
    BY <1>1 DEF Kept, LiesAt, Names0
<1> QED
    BY <1>2, <1>3 DEF PhotoInv

LEMMA PhotoStep ==
    ASSUME PhotoInv, [PhotoNext]_photoVars
    PROVE  PhotoInv'
<1>1. CASE ListSource
    BY <1>1, ListingStarts
<1>2. CASE ListDated
    BY <1>2, PhotosStay DEF ListDated
<1>3. CASE EndTagging
    BY <1>3, PhotosStay DEF EndTagging
<1>4. ASSUME NEW j \in todo, TagPhoto(j) \/ TagFails(j)
      PROVE  PhotoInv'
    BY <1>4, PhotosStay DEF TagPhoto, TagFails
<1>5. ASSUME NEW j \in todo, SkipFile(j) \/ CopyPhoto(j) \/ ConvertPhoto(j)
      PROVE  PhotoInv'
  <2>1. phase = "copying"
      BY <1>5 DEF SkipFile, CopyPhoto, ConvertPhoto
  <2>2. j \in Names0
      BY <2>1 DEF PhotoInv, PhaseOK
  <2>3. Visit(j)
      BY <1>5, <2>2, SkipIsVisit, CopyIsVisit, ConvertIsVisit
  <2> QED
      BY <2>2, <2>3, VisitKeeps
<1>6. CASE UNCHANGED photoVars
    BY <1>6 DEF photoVars, PhotoInv, PhaseOK, Kept, Removed, Copied, LiesAt, Abnormal
<1> QED
    BY <1>1, <1>2, <1>3, <1>4, <1>5, <1>6 DEF PhotoNext

LEMMA PhotoInvImplies ==
    ASSUME PhotoInv
    PROVE  LossNeedsTwin
<1> SUFFICES ASSUME NEW n \in Names0
             PROVE  /\ Heic(n) \/ ~HasTwin(n) =>
                          FolderAtFirst[n] \in {source[m] : m \in DOMAIN source}
                    /\ ~HasTwin(n) /\ phase = "copying" /\ todo = {} =>
                          FolderAtFirst[n] \in {dated[m] : m \in DOMAIN dated} \/ Abnormal(n)
    BY DEF LossNeedsTwin, Names0, Abnormal
<1>1. Heic(n) \/ ~HasTwin(n) => LiesAt(n, n) \/ LiesAt(n, formatImageName(n))
    BY DEF PhotoInv, Kept
<1>2. \A m : LiesAt(n, m) => FolderAtFirst[n] \in {source[x] : x \in DOMAIN source}
    BY DEF LiesAt
<1>3. ~HasTwin(n) /\ phase = "copying" /\ todo = {} =>
          Abnormal(n) \/ (DatedName(n) \in DOMAIN dated
                          /\ dated[DatedName(n)] = FolderAtFirst[n])
    BY DEF PhotoInv, Copied
<1> QED
    BY <1>1, <1>2, <1>3

\* No photo is lost, for every folder: a photo stays in its folder unless it is
\* the .jpg of a HEIC twin, and is copied or listed as abnormal unless it has a
\* twin (LossNeedsTwin; changeImgNameByTime.py:129-141, 176-209).
THEOREM PhotosAreKept == PhotoSpec => []LossNeedsTwin
<1>1. PhotoInit => PhotoInv
    BY PhotoInitInv
<1>2. PhotoInv /\ [PhotoNext]_photoVars => PhotoInv'
    BY PhotoStep
<1>3. PhotoInv => LossNeedsTwin
    BY PhotoInvImplies
<1> QED
    BY <1>1, <1>2, <1>3, PTL DEF PhotoSpec
-----------------------------------------------------------------------------
(* The counts of the scripts. A visit leaves one file less to be visited,  *)
(* counts at most one and copies at most one, so that there are no more    *)
(* copies than files, and of the copies those are tagged that are counted. *)

FilesAtFirst == Cardinality(Names0)

ArePhotos(folder) == \A m \in DOMAIN folder : folder[m] \in Photos

Counts ==
    /\ IsFiniteSet(todo) /\ IsFiniteSet(DOMAIN dated) /\ IsFiniteSet(DOMAIN tagged)
    /\ DOMAIN tagged \subseteq DOMAIN dated
    /\ total \in Nat /\ total <= FilesAtFirst
    /\ phase = "idle" => DOMAIN dated = {} /\ DOMAIN tagged = {} /\ total = 0
    /\ phase = "copying" =>
          /\ DOMAIN tagged = {}
          /\ total + Cardinality(todo) <= FilesAtFirst
          /\ Cardinality(DOMAIN dated) + Cardinality(todo) <= FilesAtFirst
    /\ phase = "tagging" =>
          /\ todo \subseteq DOMAIN dated \ DOMAIN tagged
          /\ Cardinality(DOMAIN dated) <= FilesAtFirst
    /\ phase \in {"tagging", "ended"} => total = Cardinality(DOMAIN tagged)

CountsInv ==
    /\ phase \in {"idle", "copying", "tagging", "ended", "aborted"}
    /\ ArePhotos(source) /\ ArePhotos(dated) /\ Counts

LEMMA FilesAreFinite ==
    IsFiniteSet(Names0) /\ FilesAtFirst \in Nat
BY PhotoAssumption, FS_CardinalityType DEF Names0, FilesAtFirst

\* A folder of photos stays one.
LEMMA PutPhoto ==
    ASSUME NEW folder, NEW name, NEW photo, ArePhotos(folder), photo \in Photos
    PROVE  ArePhotos(Put(folder, name, photo))
<1>1. HasWith(Put(folder, name, photo), folder, name, photo)
    BY PutHas
<1> QED
    BY <1>1 DEF HasWith, ArePhotos

LEMMA MovePhoto ==
    ASSUME NEW folder, NEW from \in DOMAIN folder, NEW to, ArePhotos(folder)
    PROVE  ArePhotos(Rename(folder, from, to))
<1>1. HasMoved(Rename(folder, from, to), folder, from, to)
    BY RenameKeeps
<1> QED
    BY <1>1 DEF HasMoved, ArePhotos

LEMMA RemovePhoto ==
    ASSUME NEW folder, NEW name, ArePhotos(folder)
    PROVE  ArePhotos(Without(folder, name))
<1>1. HasBut(Without(folder, name), folder, name)
    BY WithoutHas
<1> QED
    BY <1>1 DEF HasBut, ArePhotos

\* What the first script does to the counts when it visits a name.
OneMore(after, folder) == \E key : DOMAIN after = DOMAIN folder \cup {key}
VisitCounts(name) ==
    /\ phase = "copying" /\ phase' = "copying"
    /\ todo' = todo \ {name} /\ tagged' = tagged
    /\ total' = total \/ total' = total + 1
    /\ dated' = dated \/ OneMore(dated', dated)
    /\ ArePhotos(source') /\ ArePhotos(dated')

LEMMA CopyToCounts ==
    ASSUME CountsInv, NEW name, NEW photo \in Photos, NEW raw, CopyTo(name, photo, raw)
    PROVE  ArePhotos(dated') /\ (dated' = dated \/ OneMore(dated', dated))
<1> DEFINE key == Dated(name, photo.date)
<1>1. dated' = dated \/ dated' = Put(dated, key, photo)
    BY DEF CopyTo
<1> HIDE DEF key
<1>2. ArePhotos(dated)
    BY DEF CountsInv
<1>3. ArePhotos(Put(dated, key, photo))
    BY <1>2, PutPhoto
<1>4. HasWith(Put(dated, key, photo), dated, key, photo)
    BY PutHas
<1>5. OneMore(Put(dated, key, photo), dated)
    BY <1>4 DEF HasWith, OneMore
<1> QED
    BY <1>1, <1>2, <1>3, <1>5

LEMMA VisitsCount ==
    ASSUME PhotoInv, CountsInv, NEW j \in todo, SkipFile(j) \/ CopyPhoto(j) \/ ConvertPhoto(j)
    PROVE  VisitCounts(j)
<1>0. ArePhotos(source) /\ ArePhotos(dated)
    BY DEF CountsInv
<1>1. phase = "copying" /\ phase' = "copying" /\ todo' = todo \ {j} /\ tagged' = tagged
      /\ (total' = total \/ total' = total + 1) /\ j \in Names0
    BY DEF SkipFile, CopyPhoto, ConvertPhoto, PhotoInv, PhaseOK
<1>2. CASE SkipFile(j)
    BY <1>0, <1>1, <1>2 DEF SkipFile, VisitCounts
<1>3. CASE CopyPhoto(j)
  <2> DEFINE new == formatImageName(j)
  <2>1. CASE j \notin DOMAIN source
    <3>1. source' = source /\ dated' = dated
        BY <1>3, <2>1 DEF CopyPhoto
    <3> QED
        BY <1>0, <1>1, <3>1 DEF VisitCounts
  <2>2. CASE j \in DOMAIN source
    <3>1. source' = Rename(source, j, new) /\ CopyTo(new, source[j], new)
        BY <1>3, <2>2 DEF CopyPhoto
    <3> HIDE DEF new
    <3>2. ArePhotos(source')
        BY <1>0, <2>2, <3>1, MovePhoto
    <3>3. source[j] \in Photos
        BY <1>0, <2>2 DEF ArePhotos
    <3>4. ArePhotos(dated') /\ (dated' = dated \/ OneMore(dated', dated))
        BY <3>1, <3>3, CopyToCounts
    <3> QED
        BY <1>1, <3>2, <3>4 DEF VisitCounts
  <2> QED
      BY <2>1, <2>2
<1>4. CASE ConvertPhoto(j)
  <2> DEFINE new == formatImageName(j)
             jpg == JpgOf(new)
             renamed == Rename(source, j, new)
  <2>1. j \in DOMAIN source
      BY <1>1, <1>4 DEF ConvertPhoto, PhotoInv, Kept, LiesAt
  <2>2. \/ source' = Without(renamed, jpg) /\ CopyTo(jpg, source[j], new)
        \/ source' = renamed /\ dated' = dated
      BY <1>4 DEF ConvertPhoto
  <2>3. ArePhotos(renamed)
    <3> HIDE DEF new
    <3> QED
        BY <1>0, <2>1, MovePhoto
  <2>4. source[j] \in Photos
      BY <1>0, <2>1 DEF ArePhotos
  <2> HIDE DEF renamed, jpg, new
  <2>5. ArePhotos(source')
      BY <2>2, <2>3, RemovePhoto
  <2>6. ArePhotos(dated') /\ (dated' = dated \/ OneMore(dated', dated))
      BY <1>0, <2>2, <2>4, CopyToCounts
  <2> QED
      BY <1>1, <2>5, <2>6 DEF VisitCounts
<1> QED
    BY <1>2, <1>3, <1>4

LEMMA VisitKeepsCounts ==
    ASSUME CountsInv, NEW j \in todo, VisitCounts(j)
    PROVE  CountsInv'
<1>1. IsFiniteSet(todo) /\ IsFiniteSet(DOMAIN dated) /\ Cardinality(DOMAIN dated) \in Nat
      /\ Cardinality(todo) \in Nat /\ total \in Nat
    BY FS_CardinalityType DEF CountsInv, Counts
<1>2. IsFiniteSet(todo') /\ Cardinality(todo') = Cardinality(todo) - 1
    BY <1>1, FS_RemoveElement DEF VisitCounts
<1>3. IsFiniteSet(DOMAIN dated') /\ Cardinality(DOMAIN dated') \in Nat
      /\ Cardinality(DOMAIN dated') <= Cardinality(DOMAIN dated) + 1
  <2>1. CASE dated' = dated
      BY <1>1, <2>1
  <2>2. ASSUME NEW key, DOMAIN dated' = DOMAIN dated \cup {key}
        PROVE  IsFiniteSet(DOMAIN dated') /\ Cardinality(DOMAIN dated') \in Nat
               /\ Cardinality(DOMAIN dated') <= Cardinality(DOMAIN dated) + 1
    <3>1. IsFiniteSet(DOMAIN dated \cup {key})
          /\ Cardinality(DOMAIN dated \cup {key})
                = IF key \in DOMAIN dated THEN Cardinality(DOMAIN dated)
                  ELSE Cardinality(DOMAIN dated) + 1
        BY <1>1, FS_AddElement
    <3> QED
        BY <1>1, <2>2, <3>1
  <2> QED
      BY <2>1, <2>2 DEF VisitCounts, OneMore
<1>4. FilesAtFirst \in Nat
    BY FilesAreFinite
<1>5. /\ DOMAIN tagged' = {} /\ IsFiniteSet(DOMAIN tagged') /\ total' \in Nat
      /\ total' + Cardinality(todo') <= FilesAtFirst
      /\ Cardinality(DOMAIN dated') + Cardinality(todo') <= FilesAtFirst
      /\ total' <= FilesAtFirst
  <2>1. total + Cardinality(todo) <= FilesAtFirst
        /\ Cardinality(DOMAIN dated) + Cardinality(todo) <= FilesAtFirst
        /\ DOMAIN tagged = {} /\ IsFiniteSet(DOMAIN tagged)
      BY DEF CountsInv, Counts, VisitCounts
  <2>2. Cardinality(todo') \in Nat
      BY <1>2, FS_CardinalityType
  <2>3. total' \in Nat /\ total' <= total + 1 /\ tagged' = tagged
      BY <1>1 DEF VisitCounts
  <2> QED
      BY <1>1, <1>2, <1>3, <1>4, <2>1, <2>2, <2>3
<1> QED
  <2>1. phase' = "copying" /\ ArePhotos(source)' /\ ArePhotos(dated)'
      BY DEF VisitCounts, ArePhotos
  <2> HIDE DEF FilesAtFirst
  <2>2. FilesAtFirst' = FilesAtFirst
      BY DEF FilesAtFirst, Names0
  <2> QED
      BY <1>2, <1>3, <1>5, <2>1, <2>2 DEF CountsInv, Counts

\* Tagging counts what it tags; a photo that cannot be read is counted too.
LEMMA TagKeepsCounts ==
    ASSUME CountsInv, NEW j \in todo, TagPhoto(j) \/ TagFails(j)
    PROVE  CountsInv'
<1>1. /\ phase = "tagging" /\ total' = total + 1 /\ source' = source /\ dated' = dated
      /\ todo' \subseteq todo
    BY DEF TagPhoto, TagFails
<1>2. /\ IsFiniteSet(DOMAIN dated) /\ IsFiniteSet(DOMAIN tagged) /\ IsFiniteSet(todo)
      /\ j \in DOMAIN dated \ DOMAIN tagged /\ DOMAIN tagged \subseteq DOMAIN dated
      /\ todo \subseteq DOMAIN dated \ DOMAIN tagged
      /\ total = Cardinality(DOMAIN tagged) /\ Cardinality(DOMAIN dated) <= FilesAtFirst
    BY <1>1 DEF CountsInv, Counts
<1>3. IsFiniteSet(DOMAIN tagged \cup {j})
      /\ Cardinality(DOMAIN tagged \cup {j}) = Cardinality(DOMAIN tagged) + 1
    BY <1>2, FS_AddElement
<1>4. Cardinality(DOMAIN tagged \cup {j}) <= Cardinality(DOMAIN dated)
  <2>1. DOMAIN tagged \cup {j} \in SUBSET DOMAIN dated
      BY <1>2
  <2> QED
      BY <1>2, <2>1, FS_Subset
<1>5. total' \in Nat /\ total' <= FilesAtFirst /\ FilesAtFirst' = FilesAtFirst
  <2>1. Cardinality(DOMAIN tagged) \in Nat /\ Cardinality(DOMAIN dated) \in Nat
      BY <1>2, FS_CardinalityType
  <2>2. FilesAtFirst' = FilesAtFirst
      BY DEF FilesAtFirst, Names0
  <2> QED
      BY <1>1, <1>2, <1>3, <1>4, <2>1, <2>2, FilesAreFinite
<1>6. IsFiniteSet(todo')
    BY <1>1, <1>2, FS_Subset
<1>7. ArePhotos(source)' /\ ArePhotos(dated)'
    BY <1>1 DEF CountsInv, ArePhotos
<1>8. CASE TagFails(j)
  <2>1. phase' = "aborted" /\ tagged' = tagged
      BY <1>8 DEF TagFails
  <2> QED
      BY <1>1, <1>2, <1>5, <1>6, <1>7, <2>1 DEF CountsInv, Counts
<1>9. CASE TagPhoto(j)
  <2>1. phase' = "tagging" /\ todo' = todo \ {j} /\ DOMAIN tagged' = DOMAIN tagged \cup {j}
    <3> DEFINE many == getSizeParamofTag(dated[j])
    <3>1. phase' = phase /\ todo' = todo \ {j} /\ tagged' = Put(tagged, j, many)
        BY <1>9 DEF TagPhoto
    <3> HIDE DEF many
    <3>2. HasWith(Put(tagged, j, many), tagged, j, many)
        BY PutHas
    <3> QED
        BY <1>1, <3>1, <3>2 DEF HasWith
  <2>2. DOMAIN tagged' \subseteq DOMAIN dated' /\ todo' \subseteq DOMAIN dated' \ DOMAIN tagged'
      BY <1>1, <1>2, <2>1
  <2> QED
      BY <1>1, <1>2, <1>3, <1>5, <1>6, <1>7, <2>1, <2>2 DEF CountsInv, Counts
<1> QED
    BY <1>8, <1>9

LEMMA CountsInit == PhotoInit => CountsInv
<1> SUFFICES ASSUME PhotoInit PROVE CountsInv
    OBVIOUS
<1>1. /\ phase = "idle" /\ source = FolderAtFirst /\ dated = <<>> /\ todo = {} /\ total = 0
      /\ tagged = <<>>
    BY DEF PhotoInit
<1>2. DOMAIN dated = {} /\ DOMAIN tagged = {}
    BY <1>1
<1>3. ArePhotos(source) /\ ArePhotos(dated)
    BY <1>1, <1>2 DEF ArePhotos, Photos
<1> QED
    BY <1>1, <1>2, <1>3, FS_EmptySet, FilesAreFinite DEF CountsInv, Counts

LEMMA CountsStep == PhotoInv /\ CountsInv /\ [PhotoNext]_photoVars => CountsInv'
<1> SUFFICES ASSUME PhotoInv, CountsInv, [PhotoNext]_photoVars PROVE CountsInv'
    OBVIOUS
<1>0. FilesAtFirst' = FilesAtFirst /\ FilesAtFirst \in Nat
    BY FilesAreFinite DEF FilesAtFirst, Names0
<1>1. CASE ListSource
  <2>1. /\ phase = "idle" /\ phase' = "copying" /\ todo' = Names0
        /\ UNCHANGED <<source, dated, total, tagged>>
      BY <1>1 DEF ListSource, PhotoInv, PhaseOK, Names0
  <2>2. total = 0 /\ DOMAIN dated = {} /\ DOMAIN tagged = {} /\ Cardinality({}) = 0
      BY <2>1, FS_EmptySet DEF CountsInv, Counts
  <2>3. IsFiniteSet(todo') /\ Cardinality(todo') = FilesAtFirst
      BY <2>1, FilesAreFinite DEF FilesAtFirst
  <2> QED
      BY <1>0, <2>1, <2>2, <2>3 DEF CountsInv, Counts, ArePhotos
<1>2. CASE ListDated
  <2>1. /\ phase = "copying" /\ todo = {} /\ phase' = "tagging" /\ total' = 0
        /\ todo' \subseteq DOMAIN dated /\ UNCHANGED <<source, dated, tagged>>
      BY <1>2 DEF ListDated
  <2>2. /\ DOMAIN tagged = {} /\ Cardinality({}) = 0 /\ IsFiniteSet(DOMAIN dated)
        /\ Cardinality(DOMAIN dated) + Cardinality(todo) <= FilesAtFirst
      BY <2>1, FS_EmptySet DEF CountsInv, Counts
  <2>3. Cardinality(DOMAIN dated) <= FilesAtFirst /\ IsFiniteSet(todo')
      BY <2>1, <2>2, FS_Subset, FS_CardinalityType
  <2> QED
      BY <1>0, <2>1, <2>2, <2>3 DEF CountsInv, Counts, ArePhotos
<1>3. CASE EndTagging
  <2>1. phase = "tagging" /\ phase' = "ended" /\ UNCHANGED <<source, dated, todo, total, tagged>>
      BY <1>3 DEF EndTagging
  <2> QED
      BY <1>0, <2>1 DEF CountsInv, Counts, ArePhotos
<1>4. ASSUME NEW j \in todo, TagPhoto(j) \/ TagFails(j)
      PROVE  CountsInv'
    BY <1>4, TagKeepsCounts
<1>5. ASSUME NEW j \in todo, SkipFile(j) \/ CopyPhoto(j) \/ ConvertPhoto(j)
      PROVE  CountsInv'
    BY <1>5, VisitsCount, VisitKeepsCounts
<1>6. CASE UNCHANGED photoVars
  <2>1. UNCHANGED <<phase, source, dated, todo, total, tagged>>
      BY <1>6 DEF photoVars
  <2> QED
      BY <1>0, <2>1 DEF CountsInv, Counts, ArePhotos
<1> QED
    BY <1>1, <1>2, <1>3, <1>4, <1>5, <1>6 DEF PhotoNext

\* The photos are those of the first folder, no script counts more files than
\* there were, and when the second has ended it has tagged as many photos as it
\* says (addTimestampWatermarktoImgs.py:120-156).
THEOREM PhotosAreCounted == PhotoSpec => []PhotoTypeOK
<1>1. PhotoInit => PhotoInv
    BY PhotoInitInv
<1>2. PhotoInv /\ [PhotoNext]_photoVars => PhotoInv'
    BY PhotoStep
<1>3. CountsInv => PhotoTypeOK
  <2> SUFFICES ASSUME CountsInv PROVE PhotoTypeOK
      OBVIOUS
  <2>1. {source[n] : n \in DOMAIN source} \cup {dated[n] : n \in DOMAIN dated} \subseteq Photos
      BY DEF CountsInv, ArePhotos
  <2>2. total \in 0 .. Cardinality(DOMAIN FolderAtFirst)
      BY FilesAreFinite DEF CountsInv, Counts, FilesAtFirst, Names0
  <2> QED
      BY <2>1, <2>2 DEF CountsInv, Counts, PhotoTypeOK
<1> QED
    BY <1>1, <1>2, <1>3, CountsInit, CountsStep, PTL DEF PhotoSpec

-----------------------------------------------------------------------------
(* The analyzer. A file gives finitely many smells, each of a severity that *)
(* has a penalty, so that the score is a number.                           *)

Severities == {"CRITICAL", "HIGH", "MEDIUM", "LOW"}
SmellsOK(smells) == IsFiniteSet(smells) /\ \A s \in smells : s.severity \in Severities

LEMMA SmellsOfBoth ==
    ASSUME NEW A, SmellsOK(A), NEW B, SmellsOK(B)
    PROVE  SmellsOK(A \cup B)
    BY FS_Union DEF SmellsOK

\* One smell for each element of a finite set.
LEMMA SmellEach ==
    ASSUME NEW S, IsFiniteSet(S), NEW g, DOMAIN g = S, \A x \in S : g[x].severity \in Severities
    PROVE  SmellsOK({g[x] : x \in S})
<1>1. IsFiniteSet({g[x] : x \in DOMAIN g})
    BY ValuesAreFinite
<1> QED
    BY <1>1 DEF SmellsOK

LEMMA SmellSeverity == \A type, severity, place : Smell(type, severity, place).severity = severity
    BY DEF Smell

LEMMA GodClassSmells ==
    ASSUME NEW f \in Files
    PROVE  SmellsOK(GodClasses(f))
<1> DEFINE long == {d \in f.classes : d.lines > MAX_CLASS_LINES}
           rich == {d \in f.classes : d.method_count > MAX_METHODS_PER_CLASS}
           g1 == [c \in long |-> Smell("GodClass", "HIGH", {<<f.path, c.line, "lines">>})]
           g2 == [c \in rich |-> Smell("GodClass", "HIGH", {<<f.path, c.line, "methods">>})]
<1>1. IsFiniteSet(long) /\ IsFiniteSet(rich)
    BY AnalyzerAssumption, FS_Subset
<1>2. GodClasses(f) = {g1[c] : c \in long} \cup {g2[c] : c \in rich}
    BY DEF GodClasses
<1>3. \A c \in long : g1[c].severity \in Severities
    BY SmellSeverity DEF Severities
<1>4. \A c \in rich : g2[c].severity \in Severities
    BY SmellSeverity DEF Severities
<1>5. DOMAIN g1 = long /\ DOMAIN g2 = rich
    OBVIOUS
<1> HIDE DEF long, rich, g1, g2
<1>6. SmellsOK({g1[c] : c \in long}) /\ SmellsOK({g2[c] : c \in rich})
    BY <1>1, <1>3, <1>4, <1>5, SmellEach
<1> QED
    BY <1>2, <1>6, SmellsOfBoth

LEMMA EnvySmells ==
    ASSUME NEW f \in Files
    PROVE  SmellsOK(detect_feature_envy(f))
<1> DEFINE envious == {d \in f.classes : d.self_calls > 0 /\ d.external_calls > 2 * d.self_calls}
           g == [c \in envious |-> Smell("FeatureEnvy", "MEDIUM", {<<f.path, c.line, "envy">>})]
<1>1. IsFiniteSet(envious)
    BY AnalyzerAssumption, FS_Subset
<1>2. detect_feature_envy(f) = {g[c] : c \in envious}
    BY DEF detect_feature_envy
<1>3. DOMAIN g = envious /\ \A c \in envious : g[c].severity \in Severities
    BY SmellSeverity DEF Severities
<1> HIDE DEF envious, g
<1> QED
    BY <1>1, <1>2, <1>3, SmellEach

LEMMA FunctionSmells ==
    ASSUME NEW f \in Files
    PROVE  SmellsOK(analyze_functions(f))
<1> DEFINE p1 == [h \in f.functions |-> h.params]
           all == {h.params : h \in f.functions}
           often == {p \in all : p # {} /\ Cardinality({h \in f.functions : h.params = p}) >= 3}
           g == [params \in often |-> Smell("ShotgunSurgery", "MEDIUM", {<<f.path, 0, p>> : p \in params})]
<1>1. IsFiniteSet(often)
  <2>1. IsFiniteSet(f.functions)
      BY AnalyzerAssumption
  <2>2. IsFiniteSet({p1[x] : x \in DOMAIN p1})
      BY <2>1, ValuesAreFinite
  <2>3. all = {p1[x] : x \in DOMAIN p1}
      OBVIOUS
  <2>4. often \subseteq all
      OBVIOUS
  <2> QED
      BY <2>2, <2>3, <2>4, FS_Subset
<1>2. analyze_functions(f) = {g[c] : c \in often}
    BY DEF analyze_functions
<1>3. DOMAIN g = often /\ \A c \in often : g[c].severity \in Severities
    BY SmellSeverity DEF Severities
<1> HIDE DEF often, g
<1> QED
    BY <1>1, <1>2, <1>3, SmellEach

LEMMA CircularSmells ==
    ASSUME NEW fs, NEW cwd
    PROVE  SmellsOK(detect_circular_dependencies(fs, cwd))
<1> DEFINE circular == Smell("CircularDependency", "CRITICAL", {})
<1>1. detect_circular_dependencies(fs, cwd) \in {{circular}, {}}
    BY DEF detect_circular_dependencies
<1>2. circular.severity \in Severities
    BY SmellSeverity DEF Severities
<1> HIDE DEF circular
<1>3. SmellsOK({circular}) /\ SmellsOK({})
    BY <1>2, FS_Singleton, FS_EmptySet DEF SmellsOK
<1> QED
    BY <1>1, <1>3

\* Of files that are finitely many, the union of what each gives.
LEMMA UnionIsFinite ==
    ASSUME NEW fs, IsFiniteSet(fs), NEW g, DOMAIN g = fs, \A f \in fs : IsFiniteSet(g[f])
    PROVE  IsFiniteSet(UNION {g[f] : f \in fs})
<1>1. IsFiniteSet({g[f] : f \in DOMAIN g})
    BY ValuesAreFinite
<1>2. \A x \in {g[f] : f \in DOMAIN g} : IsFiniteSet(x)
    OBVIOUS
<1> QED
    BY <1>1, <1>2, FS_UNION

LEMMA DuplicateSmells ==
    ASSUME NEW fs \in SUBSET Files, IsFiniteSet(fs)
    PROVE  SmellsOK(find_duplicates(fs))
<1> DEFINE own == [f \in fs |-> extract_python_blocks(f)]
           blocks == UNION {extract_python_blocks(f) : f \in fs}
           pairs == {p \in kSubset(2, blocks) : \A b, c \in p : Similar(b.block, c.block)}
           g == [pair \in pairs |-> Smell("DuplicateCode", "LOW", {<<b.path, b.block.line, "block">> : b \in pair})]
<1>1. \A f \in fs : IsFiniteSet(own[f])
  <2> SUFFICES ASSUME NEW f \in fs PROVE IsFiniteSet(own[f])
      OBVIOUS
  <2> DEFINE these == {c \in f.blocks : c.kind \in {"def", "class"} /\ c.length > 10}
             block == [b \in these |-> [path |-> f.path, block |-> b]]
  <2>1. IsFiniteSet(these)
      BY AnalyzerAssumption, FS_Subset
  <2>2. extract_python_blocks(f) = {block[b] : b \in DOMAIN block}
      BY DEF extract_python_blocks
  <2>3. DOMAIN block = these
      OBVIOUS
  <2> HIDE DEF these, block
  <2> QED
      BY <2>1, <2>2, <2>3, ValuesAreFinite
<1>2. IsFiniteSet(blocks)
  <2>1. DOMAIN own = fs /\ blocks = UNION {own[f] : f \in fs}
      OBVIOUS
  <2> HIDE DEF own, blocks
  <2> QED
      BY <1>1, <2>1, UnionIsFinite
<1>3. IsFiniteSet(pairs)
  <2>1. pairs \subseteq SUBSET blocks
      BY DEF kSubset
  <2> HIDE DEF blocks, pairs
  <2> QED
      BY <1>2, <2>1, FS_SUBSET, FS_Subset
<1>4. find_duplicates(fs) = {g[pair] : pair \in pairs}
    BY DEF find_duplicates
<1>5. DOMAIN g = pairs /\ \A pair \in pairs : g[pair].severity \in Severities
    BY SmellSeverity DEF Severities
<1> HIDE DEF pairs, g
<1> QED
    BY <1>3, <1>4, <1>5, SmellEach

LEMMA OtherSmells ==
    ASSUME NEW fs, IsFiniteSet(fs)
    PROVE  SmellsOK(analyze_java_files(fs)) /\ SmellsOK(analyze_js_ts_files(fs))
<1> DEFINE java == {g \in fs : g.lang = "java" /\ g.folder \notin {"venv", "node_modules"}
                               /\ g.classes # {} /\ g.lines > 500}
           js == {g \in fs : g.lang = "js" /\ g.folder # "node_modules" /\ g.lines > 500}
           g1 == [f \in java |-> Smell("GodClass", "HIGH", {<<f.path, 1, "file">>})]
           g2 == [f \in js |-> Smell("GodClass", "MEDIUM", {<<f.path, 1, "file">>})]
<1>1. IsFiniteSet(java) /\ IsFiniteSet(js)
    BY FS_Subset
<1>2. analyze_java_files(fs) = {g1[f] : f \in java} /\ analyze_js_ts_files(fs) = {g2[f] : f \in js}
    BY DEF analyze_java_files, analyze_js_ts_files
<1>3. DOMAIN g1 = java /\ DOMAIN g2 = js
      /\ (\A f \in java : g1[f].severity \in Severities) /\ (\A f \in js : g2[f].severity \in Severities)
    BY SmellSeverity DEF Severities
<1> HIDE DEF java, js, g1, g2
<1> QED
    BY <1>1, <1>2, <1>3, SmellEach

\* Whatever the directory, the analysis finds finitely many smells.
LEMMA SmellsAreFinite ==
    ASSUME NEW fs \in SUBSET Files, IsFiniteSet(fs), NEW cwd
    PROVE  SmellsOK(analyze_directory(fs, cwd))
<1> DEFINE py == Parsed({f \in fs : ~Skipped(f)})
           own == [f \in py |-> GodClasses(f) \cup detect_feature_envy(f) \cup analyze_functions(f)]
           each == UNION {GodClasses(f) \cup detect_feature_envy(f) \cup analyze_functions(f) : f \in py}
<1>1. py \subseteq fs /\ IsFiniteSet(py) /\ Parsed(fs) \subseteq Files /\ IsFiniteSet(Parsed(fs))
    BY FS_Subset DEF Parsed
<1>2. DOMAIN own = py /\ \A f \in py : SmellsOK(own[f])
    BY <1>1, GodClassSmells, EnvySmells, FunctionSmells, SmellsOfBoth
<1>3. analyze_directory(fs, cwd) = each \cup detect_circular_dependencies(py, cwd)
          \cup find_duplicates(Parsed(fs)) \cup analyze_java_files(fs) \cup analyze_js_ts_files(fs)
    BY DEF analyze_directory
<1> HIDE DEF py
<1>4. SmellsOK(each)
  <2>0. each = UNION {own[f] : f \in py}
      OBVIOUS
  <2> HIDE DEF own, each
  <2>1. IsFiniteSet(each)
      BY <1>1, <1>2, <2>0, UnionIsFinite DEF SmellsOK
  <2>2. \A s \in each : s.severity \in Severities
      BY <1>2, <2>0 DEF SmellsOK
  <2> QED
      BY <2>1, <2>2 DEF SmellsOK
<1> HIDE DEF each
<1>5. SmellsOK(find_duplicates(Parsed(fs)))
    BY <1>1, DuplicateSmells
<1> QED
    BY <1>3, <1>4, <1>5, CircularSmells, OtherSmells, SmellsOfBoth

-----------------------------------------------------------------------------
SumPenalties(S) == MapThenSumSet(LAMBDA s : Penalty[s.severity], S)

LEMMA PenaltiesAreNumbers ==
    ASSUME NEW S, SmellsOK(S)
    PROVE  SumPenalties(S) \in Nat
<1> DEFINE f == [s \in S |-> Penalty[s.severity]]
           Def(g) == g = [s \in SUBSET S |-> IF s = {} THEN 0
                            ELSE LET x == CHOOSE x \in s : TRUE IN Penalty[x.severity] + g[s \ {x}]]
           iter == CHOOSE g : Def(g)
<1>1. \A g : IsSum(f, S, g) <=> Def(g)
  <2> SUFFICES ASSUME NEW g PROVE IsSum(f, S, g) <=> Def(g)
      OBVIOUS
  <2>1. ASSUME NEW s \in SUBSET S, s # {}
        PROVE  f[CHOOSE x \in s : TRUE] = Penalty[(CHOOSE x \in s : TRUE).severity]
      BY <2>1
  <2> HIDE DEF f
  <2> QED
      BY <2>1 DEF IsSum
<1>2. f \in [S -> Nat] /\ IsFiniteSet(S)
  <2>1. \A x \in Severities : Penalty[x] \in Nat
      BY DEF Severities, Penalty
  <2> QED
      BY <2>1 DEF SmellsOK
<1>3. \E g : IsSum(f, S, g)
    BY <1>2, SumExists
<1> HIDE DEF f
<1>4. Def(iter)
  <2> HIDE DEF Def
  <2>1. \E g : Def(g)
      BY <1>1, <1>3
  <2> QED
      BY <2>1
<1>5. SumPenalties(S) = iter[S]
    BY DEF SumPenalties, MapThenSumSet, MapThenFoldSet
<1> HIDE DEF iter, Def
<1>6. IsSum(f, S, iter)
    BY <1>1, <1>4
<1> QED
    BY <1>2, <1>5, <1>6, SumBounds

AnalyzerTyped == AnalyzerTypeOK /\ IsFiniteSet(directory)

LEMMA AnalysisIsTyped ==
    ASSUME AnalyzerTyped, NEW cwd \in {"code", "server"}, Analyse(cwd)
    PROVE  AnalyzerTyped'
<1>1. directory' = directory /\ directory \in SUBSET Files /\ IsFiniteSet(directory)
    BY DEF Analyse, AnalyzerTyped, AnalyzerTypeOK
<1>2. CASE analyze_file_raises(directory)
  <2> DEFINE failed == [Unanalysed EXCEPT !.status = "FAILED", !.cwd = cwd]
  <2>1. analysis' = failed
      BY <1>2 DEF Analyse
  <2>2. failed.status = "FAILED" /\ failed.score = 0 /\ failed.smells = {}
      BY DEF Unanalysed
  <2> HIDE DEF failed
  <2> QED
      BY <1>1, <2>1, <2>2 DEF AnalyzerTyped, AnalyzerTypeOK
<1>3. CASE ~analyze_file_raises(directory)
  <2> DEFINE all == analyze_directory(directory, cwd)
             score == calculate_health_score(all)
             sum == SumPenalties(all)
  <2>1. analysis' = [status |-> "COMPLETED", cwd |-> cwd, smells |-> all, score |-> score]
      BY <1>3 DEF Analyse
  <2>2. sum \in Nat
    <3>1. SmellsOK(all)
        BY <1>1, SmellsAreFinite
    <3> QED
        BY <3>1, PenaltiesAreNumbers
  <2>3. score = IF 100 - sum < 0 THEN 0 ELSE 100 - sum
      BY DEF calculate_health_score, SumPenalties
  <2> HIDE DEF sum, score, all
  <2>4. score \in 0 .. 100
      BY <2>2, <2>3
  <2>5. analysis'.status = "COMPLETED" /\ analysis'.score = score
      BY <2>1
  <2> QED
      BY <1>1, <2>4, <2>5 DEF AnalyzerTyped, AnalyzerTypeOK
<1> QED
    BY <1>2, <1>3

LEMMA AnalyzerStaysTyped == AnalyzerSpec => []AnalyzerTyped
<1>1. AnalyzerInit => AnalyzerTyped
    BY FS_EmptySet DEF AnalyzerInit, AnalyzerTyped, AnalyzerTypeOK, Unanalysed
<1>2. AnalyzerTyped /\ [AnalyzerNext]_analyzerVars => AnalyzerTyped'
  <2> SUFFICES ASSUME AnalyzerTyped, [AnalyzerNext]_analyzerVars PROVE AnalyzerTyped'
      OBVIOUS
  <2>1. ASSUME NEW f \in Files, AddFile(f) PROVE AnalyzerTyped'
    <3>1. IsFiniteSet(directory')
        BY <2>1, FS_AddElement DEF AddFile, AnalyzerTyped
    <3> QED
        BY <2>1, <3>1 DEF AddFile, AnalyzerTyped, AnalyzerTypeOK
  <2>2. CASE UNCHANGED analyzerVars
      BY <2>2 DEF analyzerVars, AnalyzerTyped, AnalyzerTypeOK
  <2> QED
      BY <2>1, <2>2, AnalysisIsTyped DEF AnalyzerNext
<1> QED
    BY <1>1, <1>2, PTL DEF AnalyzerSpec

\* The score lies between 0 and 100, and only a completed analysis has smells,
\* for any files.
THEOREM AnalyzerIsTyped == AnalyzerSpec => []AnalyzerTypeOK
<1>1. AnalyzerTyped => AnalyzerTypeOK
    BY DEF AnalyzerTyped
<1> QED
    BY <1>1, AnalyzerStaysTyped, PTL

-----------------------------------------------------------------------------
(* What is linked in a graph, as Warshall finds it by a fold over the      *)
(* nodes, is what a path leads to: the least relation that is reflexive    *)
(* and transitive and has the edges.                                       *)

\* The links by the nodes that a path may pass, and what links one node more gives.
AtFirst(G) == G.edge \cup {<<n, n>> : n \in G.node}
IsLinks(G, C) ==
    C = [N \in SUBSET G.node |-> IF N = {} THEN AtFirst(G)
                                 ELSE Over(Chosen(N), C[N \ {Chosen(N)}])]

Pairs(nodes) == SUBSET (nodes \X nodes)

LEMMA OverPairs ==
    ASSUME NEW u, NEW nodes, NEW links \in Pairs(nodes)
    PROVE  /\ Over(u, links) \in Pairs(nodes)
           /\ \A m, n \in nodes : <<m, n>> \in Over(u, links) <=>
                  <<m, n>> \in links \/ (<<m, u>> \in links /\ <<u, n>> \in links)
<1> DEFINE from == {l[1] : l \in {e \in links : e[2] = u}}
           to == {l[2] : l \in {e \in links : e[1] = u}}
<1>1. Over(u, links) = links \cup (from \X to)
    BY DEF Over
<1>2. \A m : m \in from <=> m \in nodes /\ <<m, u>> \in links
    BY DEF Pairs
<1>3. \A n : n \in to <=> n \in nodes /\ <<u, n>> \in links
    BY DEF Pairs
<1> HIDE DEF from, to
<1> QED
    BY <1>1, <1>2, <1>3 DEF Pairs

Graph(G) == IsFiniteSet(G.node) /\ G.edge \in Pairs(G.node)

LEMMA LinksExist ==
    ASSUME NEW G, Graph(G)
    PROVE  \E C \in [SUBSET G.node -> Pairs(G.node)] : IsLinks(G, C)
<1> DEFINE V == Pairs(G.node)
           step == [u \in G.node |-> [links \in V |-> Over(u, links)]]
<1>1. AtFirst(G) \in V
    BY DEF AtFirst, Graph, Pairs
<1>2. \A u \in G.node, links \in V : Over(u, links) \in V
    BY OverPairs
<1>3. IsFiniteSet(G.node)
    BY DEF Graph
<1> HIDE DEF V
<1>4. step \in [G.node -> [V -> V]]
    BY <1>2
<1> HIDE DEF step
<1>5. PICK C \in [SUBSET G.node -> V] : IsFold(G.node, AtFirst(G), step, C)
    BY <1>1, <1>3, <1>4, FoldExists
<1>6. \A N \in SUBSET G.node : N # {} => Chosen(N) \in G.node /\ N \ {Chosen(N)} \in SUBSET G.node
    BY DEF Chosen
<1>7. \A N \in SUBSET G.node : N # {} => step[Chosen(N)][C[N \ {Chosen(N)}]] = Over(Chosen(N), C[N \ {Chosen(N)}])
    BY <1>6 DEF step
<1>8. C = [N \in SUBSET G.node |-> IF N = {} THEN AtFirst(G)
                                   ELSE Over(Chosen(N), C[N \ {Chosen(N)}])]
    BY <1>5, <1>7 DEF IsFold
<1> QED
    BY <1>8 DEF IsLinks, V

LEMMA LinkedIsLinks ==
    ASSUME NEW G, Graph(G)
    PROVE  \E C : IsLinks(G, C) /\ Linked(G) = C[G.node]
<1> DEFINE C == CHOOSE C : IsLinks(G, C)
<1>1. IsLinks(G, C)
    BY LinksExist
<1>2. Linked(G) = C[G.node]
    BY DEF Linked, FoldSet, MapThenFoldSet, IsLinks, AtFirst, Chosen
<1> HIDE DEF C
<1> QED
    BY <1>1, <1>2

\* Node by node: the links are first the edges, and then what one node more adds.
LEMMA LinksAtFirst ==
    ASSUME NEW G, NEW C, IsLinks(G, C)
    PROVE  C[{}] = AtFirst(G)
BY DEF IsLinks

LEMMA LinksStep ==
    ASSUME NEW G, NEW C, IsLinks(G, C), NEW N \in SUBSET G.node, N # {}
    PROVE  C[N] = Over(Chosen(N), C[N \ {Chosen(N)}])
BY DEF IsLinks

LEMMA LinksArePairs ==
    ASSUME NEW G, Graph(G), NEW C, IsLinks(G, C)
    PROVE  \A N \in SUBSET G.node : C[N] \in Pairs(G.node)
<1> DEFINE P == {N \in SUBSET G.node : C[N] \in Pairs(G.node)}
<1>1. C[{}] \in Pairs(G.node)
    BY LinksAtFirst DEF AtFirst, Graph, Pairs
<1>2. {} \in P
    BY <1>1
<1>3. ASSUME NEW N \in SUBSET G.node, N # {}, N \ {Chosen(N)} \in P
      PROVE  N \in P
  <2>1. C[N \ {Chosen(N)}] \in Pairs(G.node)
      BY <1>3
  <2>2. C[N] = Over(Chosen(N), C[N \ {Chosen(N)}])
      BY <1>3, LinksStep
  <2>3. C[N] \in Pairs(G.node)
      BY <2>1, <2>2, OverPairs
  <2> QED
      BY <2>3
<1>4. P \in SUBSET (SUBSET G.node)
    OBVIOUS
<1> HIDE DEF P
<1>5. P = SUBSET G.node
    BY <1>2, <1>3, <1>4, SubsetsInduction DEF Graph
<1> QED
    BY <1>5 DEF P

\* The links over nodes that were passed compose: what leads into one of them
\* and what leads out of it are joined to one link.
LEMMA LinksCompose ==
    ASSUME NEW G, Graph(G), NEW C, IsLinks(G, C)
    PROVE  \A N \in SUBSET G.node : \A u \in N : \A m, n \in G.node :
             <<m, u>> \in C[N] /\ <<u, n>> \in C[N] => <<m, n>> \in C[N]
<1> DEFINE P == {N \in SUBSET G.node : \A u \in N : \A m, n \in G.node :
                    <<m, u>> \in C[N] /\ <<u, n>> \in C[N] => <<m, n>> \in C[N]}
<1>1. {} \in P
    OBVIOUS
<1>2. ASSUME NEW N \in SUBSET G.node, N # {}, N \ {Chosen(N)} \in P
      PROVE  N \in P
  <2> DEFINE v == Chosen(N)
             links == C[N \ {v}]
  <2>1. v \in G.node /\ v \in N /\ N \ {v} \in SUBSET G.node
      BY <1>2 DEF Chosen
  <2>2. links \in Pairs(G.node)
      BY <2>1, LinksArePairs
  <2>3. C[N] = Over(v, links)
      BY <1>2, LinksStep
  <2>4. \A m, n \in G.node : <<m, n>> \in C[N] <=>
            <<m, n>> \in links \/ (<<m, v>> \in links /\ <<v, n>> \in links)
    <3> HIDE DEF links, v, P
    <3>1. \A m, n \in G.node : <<m, n>> \in Over(v, links) <=>
            <<m, n>> \in links \/ (<<m, v>> \in links /\ <<v, n>> \in links)
        BY <2>2, OverPairs
    <3> QED
        BY <2>3, <3>1
  <2>5. \A u \in N \ {v} : \A m, n \in G.node :
            <<m, u>> \in links /\ <<u, n>> \in links => <<m, n>> \in links
      BY <1>2
  <2> HIDE DEF links, v
  <2>6. ASSUME NEW u \in N, NEW m \in G.node, NEW n \in G.node, <<m, u>> \in C[N], <<u, n>> \in C[N]
        PROVE  <<m, n>> \in C[N]
    <3>1. CASE u = v
        BY <2>1, <2>4, <2>6, <3>1
    <3>2. CASE u # v
      <4>1. u \in N \ {v} /\ u \in G.node
          BY <3>2
      <4>2. <<m, u>> \in links \/ (<<m, v>> \in links /\ <<v, u>> \in links)
          BY <2>4, <2>6, <4>1
      <4>3. <<u, n>> \in links \/ (<<u, v>> \in links /\ <<v, n>> \in links)
          BY <2>4, <2>6, <4>1
      <4>4. <<m, n>> \in links \/ (<<m, v>> \in links /\ <<v, n>> \in links)
          BY <2>1, <2>5, <4>1, <4>2, <4>3
      <4> QED
          BY <2>4, <4>4
    <3> QED
        BY <3>1, <3>2
  <2> QED
      BY <2>6
<1>3. P \in SUBSET (SUBSET G.node)
    OBVIOUS
<1> HIDE DEF P
<1>4. P = SUBSET G.node
    BY <1>1, <1>2, <1>3, SubsetsInduction DEF Graph
<1> QED
    BY <1>4 DEF P

\* A relation that every path stays in.
Closed(G, R) ==
    /\ \A n \in G.node : <<n, n>> \in R
    /\ G.edge \subseteq R
    /\ \A m, u, n \in G.node : <<m, u>> \in R /\ <<u, n>> \in R => <<m, n>> \in R

LEMMA LinksStayIn ==
    ASSUME NEW G, Graph(G), NEW C, IsLinks(G, C), NEW R, Closed(G, R)
    PROVE  \A N \in SUBSET G.node : C[N] \subseteq R
<1> DEFINE P == {N \in SUBSET G.node : C[N] \subseteq R}
<1>1. C[{}] \subseteq R
    BY LinksAtFirst DEF AtFirst, Closed
<1>2. {} \in P
  <2> HIDE DEF P
  <2> QED
      BY <1>1 DEF P
<1>3. ASSUME NEW N \in SUBSET G.node, N # {}, N \ {Chosen(N)} \in P
      PROVE  N \in P
  <2> DEFINE v == Chosen(N)
             links == C[N \ {v}]
  <2>1. v \in G.node /\ N \ {v} \in SUBSET G.node
      BY <1>3 DEF Chosen
  <2>2. links \in Pairs(G.node) /\ C[N] \in Pairs(G.node)
      BY <2>1, LinksArePairs
  <2>3. links \subseteq R
      BY <1>3
  <2>4. C[N] = Over(v, links)
      BY <1>3, LinksStep
  <2> HIDE DEF v, links
  <2>5. \A m, n \in G.node : <<m, n>> \in C[N] <=>
            <<m, n>> \in links \/ (<<m, v>> \in links /\ <<v, n>> \in links)
      BY <2>2, <2>4, OverPairs
  <2>6. \A m, n \in G.node : <<m, n>> \in C[N] => <<m, n>> \in R
      BY <2>1, <2>3, <2>5 DEF Closed
  <2>7. C[N] \subseteq R
      BY <2>2, <2>6 DEF Pairs
  <2> QED
      BY <2>7
<1>4. P \in SUBSET (SUBSET G.node)
    OBVIOUS
<1> HIDE DEF P
<1>5. P = SUBSET G.node
    BY <1>2, <1>3, <1>4, SubsetsInduction DEF Graph
<1> QED
    BY <1>5 DEF P

\* The edges are links from the beginning, and stay.
LEMMA LinksKeep ==
    ASSUME NEW G, Graph(G), NEW C, IsLinks(G, C)
    PROVE  \A N \in SUBSET G.node : AtFirst(G) \subseteq C[N]
<1> DEFINE P == {N \in SUBSET G.node : AtFirst(G) \subseteq C[N]}
<1>1. {} \in P
    BY LinksAtFirst
<1>2. ASSUME NEW N \in SUBSET G.node, N # {}, N \ {Chosen(N)} \in P
      PROVE  N \in P
  <2>1. C[N] = Over(Chosen(N), C[N \ {Chosen(N)}])
      BY <1>2, LinksStep
  <2>2. C[N \ {Chosen(N)}] \subseteq C[N]
      BY <2>1 DEF Over
  <2> QED
      BY <1>2, <2>2
<1>3. P \in SUBSET (SUBSET G.node)
    OBVIOUS
<1> HIDE DEF P
<1>4. P = SUBSET G.node
    BY <1>1, <1>2, <1>3, SubsetsInduction DEF Graph
<1> QED
    BY <1>4 DEF P

\* Linked is the least reflexive and transitive relation that has the edges:
\* one node is linked to another exactly if there is a path.
THEOREM LinksArePaths ==
    ASSUME NEW G, Graph(G)
    PROVE  /\ Linked(G) \in Pairs(G.node) /\ Closed(G, Linked(G))
           /\ \A R : Closed(G, R) => Linked(G) \subseteq R
<1>1. PICK C : IsLinks(G, C) /\ Linked(G) = C[G.node]
    BY LinkedIsLinks
<1>2. G.node \in SUBSET G.node
    OBVIOUS
<1>3. Linked(G) \in Pairs(G.node)
    BY <1>1, <1>2, LinksArePairs
<1>4. Closed(G, Linked(G))
    BY <1>1, <1>2, LinksKeep, LinksCompose DEF Closed, AtFirst
<1>5. \A R : Closed(G, R) => Linked(G) \subseteq R
    BY <1>1, <1>2, LinksStayIn
<1> QED
    BY <1>3, <1>4, <1>5

-----------------------------------------------------------------------------
(* Circular dependencies. Two modules with paths to each other are found,  *)
(* and between plain imports these are the modules of a circle: the paths  *)
(* joined lead around, and a shortest way around passes no module twice.   *)

\* The graph of the imports: a file has an edge to each name that it imports.
LEMMA EdgesAre ==
    ASSUME NEW fs, NEW cwd
    PROVE  \A a, b : <<a, b>> \in import_graph(fs, cwd).edge <=>
             \E f \in fs : a = get_module_name(f, cwd) /\ b \in ImportedNames(f)
<1> DEFINE each == {{get_module_name(f, cwd)} \X ImportedNames(f) : f \in fs}
<1>1. import_graph(fs, cwd).edge = UNION each
    BY DEF import_graph
<1>2. \A a, b, f : <<a, b>> \in {get_module_name(f, cwd)} \X ImportedNames(f)
                    <=> a = get_module_name(f, cwd) /\ b \in ImportedNames(f)
    OBVIOUS
<1>3. \A e : e \in UNION each <=> \E f \in fs : e \in {get_module_name(f, cwd)} \X ImportedNames(f)
    OBVIOUS
<1> HIDE DEF each
<1> QED
    BY <1>1, <1>2, <1>3

LEMMA NamesAreFinite ==
    ASSUME NEW f \in Files
    PROVE  IsFiniteSet(ImportedNames(f))
<1> DEFINE direct == {j \in f.imports : j.how = "import"}
           parts1 == {j \in f.imports : j.how = "from" /\ j.name # "none"}
           g1 == [i \in direct |-> <<"top", IF i.alias # "none" THEN i.alias ELSE i.name>>]
           g2 == [i \in parts1 |-> <<"top", i.name>>]
<1>1. IsFiniteSet(direct) /\ IsFiniteSet(parts1)
    BY AnalyzerAssumption, FS_Subset
<1>2. ImportedNames(f) = {g1[i] : i \in direct} \cup {g2[i] : i \in parts1}
    BY DEF ImportedNames
<1>3. DOMAIN g1 = direct /\ DOMAIN g2 = parts1
    OBVIOUS
<1> HIDE DEF direct, parts1, g1, g2
<1>4. IsFiniteSet({g1[i] : i \in direct}) /\ IsFiniteSet({g2[i] : i \in parts1})
    BY <1>1, <1>3, ValuesAreFinite
<1> QED
    BY <1>2, <1>4, FS_Union

LEMMA ImportsAreGraph ==
    ASSUME NEW fs \in SUBSET Files, IsFiniteSet(fs), NEW cwd
    PROVE  Graph(import_graph(fs, cwd))
<1> DEFINE names == [f \in fs |-> ImportedNames(f)]
           own == [f \in fs |-> get_module_name(f, cwd)]
           edges == import_graph(fs, cwd).edge
           nodes == import_graph(fs, cwd).node
           targets == {e[2] : e \in edges}
           sources == {get_module_name(f, cwd) : f \in fs}
<1>1. nodes = sources \cup targets
    BY DEF import_graph
<1>2. IsFiniteSet(sources)
  <2>1. sources = {own[f] : f \in DOMAIN own} /\ DOMAIN own = fs
      OBVIOUS
  <2> HIDE DEF own, sources
  <2> QED
      BY <2>1, ValuesAreFinite
<1>3. IsFiniteSet(targets)
  <2>1. \A f \in fs : IsFiniteSet(names[f])
      BY NamesAreFinite
  <2>2. DOMAIN names = fs
      OBVIOUS
  <2>3. IsFiniteSet(UNION {names[f] : f \in fs})
    <3> HIDE DEF names
    <3> QED
        BY <2>1, <2>2, UnionIsFinite
  <2>4. \A e \in edges : \E f \in fs : e \in {get_module_name(f, cwd)} \X ImportedNames(f)
      BY DEF import_graph
  <2>5. \A e \in edges : e[2] \in UNION {names[f] : f \in fs}
      BY <2>4
  <2> HIDE DEF names, edges
  <2>6. targets \subseteq UNION {names[f] : f \in fs}
      BY <2>5
  <2> HIDE DEF targets
  <2> QED
      BY <2>3, <2>6, FS_Subset
<1>4. \A e \in edges : e[1] \in sources /\ e[2] \in targets /\ e = <<e[1], e[2]>>
  <2>1. \A e \in edges : \E f \in fs : e \in {get_module_name(f, cwd)} \X ImportedNames(f)
      BY DEF import_graph
  <2> HIDE DEF edges
  <2> QED
      BY <2>1
<1> HIDE DEF sources, targets, nodes, edges
<1>5. IsFiniteSet(nodes)
    BY <1>1, <1>2, <1>3, FS_Union
<1>6. edges \in Pairs(nodes)
    BY <1>1, <1>4 DEF Pairs
<1> QED
    BY <1>5, <1>6 DEF Graph, nodes, edges

\* A component of more than one node is two nodes with a path each way.
Mutual(G) == \E m, n \in G.node : m # n /\ <<m, n>> \in Linked(G) /\ <<n, m>> \in Linked(G)

LEMMA ComponentOfTwo ==
    ASSUME NEW G, Graph(G)
    PROVE  (\E scc \in StronglyConnected(G) : Cardinality(scc) > 1) <=> Mutual(G)
<1> DEFINE Scc(m) == {n \in G.node : {<<m, n>>, <<n, m>>} \subseteq Linked(G)}
<1>1. (\E scc \in StronglyConnected(G) : Cardinality(scc) > 1) <=> \E m \in G.node : Cardinality(Scc(m)) > 1
    BY DEF StronglyConnected
<1>2. ASSUME NEW m \in G.node
      PROVE  /\ m \in Scc(m)
             /\ IsFiniteSet(Scc(m)) /\ Cardinality(Scc(m)) \in Nat
             /\ \A n : n \in Scc(m) <=> n \in G.node /\ <<m, n>> \in Linked(G) /\ <<n, m>> \in Linked(G)
  <2>1. <<m, m>> \in Linked(G)
      BY LinksArePaths DEF Closed
  <2>2. m \in Scc(m)
      BY <2>1
  <2>3. IsFiniteSet(Scc(m))
      BY FS_Subset DEF Graph
  <2> QED
      BY <2>2, <2>3, FS_CardinalityType
<1> HIDE DEF Scc
<1>3. ASSUME NEW m \in G.node, Cardinality(Scc(m)) > 1 PROVE Mutual(G)
  <2>1. \E n \in Scc(m) : n # m
    <3> SUFFICES ASSUME Scc(m) \subseteq {m} PROVE FALSE
        OBVIOUS
    <3>1. Cardinality({m}) = 1
        BY FS_Singleton
    <3>2. Scc(m) = {m}
        BY <1>2
    <3> QED
        BY <1>3, <3>1, <3>2
  <2> QED
      BY <1>2, <2>1 DEF Mutual
<1>4. ASSUME NEW m \in G.node, NEW n \in G.node, m # n,
             <<m, n>> \in Linked(G), <<n, m>> \in Linked(G)
      PROVE  Cardinality(Scc(m)) > 1
  <2>1. {m, n} \subseteq Scc(m)
      BY <1>2, <1>4
  <2>2. Cardinality({m, n}) <= Cardinality(Scc(m))
      BY <1>2, <2>1, FS_Subset
  <2>3. {m, n} = {m} \cup {n} /\ n \notin {m} /\ IsFiniteSet({m}) /\ Cardinality({m}) = 1
      BY <1>4, FS_Singleton
  <2>4. Cardinality({m, n}) = 2
      BY <2>3, FS_AddElement
  <2> QED
      BY <1>2, <2>2, <2>4
<1> QED
    BY <1>1, <1>3, <1>4 DEF Mutual

\* The modules of the deployed server lie under storage, the names that are
\* imported lie at the top: no path leads back.
LEMMA ServerSeesNoCycle ==
    ASSUME NEW fs \in SUBSET Files, IsFiniteSet(fs)
    PROVE  detect_circular_dependencies(fs, "server") = {}
<1> DEFINE G == import_graph(fs, "server")
           R == {p \in G.node \X G.node : p[1] = p[2] \/ (p[1][1] = "storage" /\ p[2][1] = "top")}
<1>1. Graph(G)
    BY ImportsAreGraph
<1>2. \A e \in G.edge : e[1][1] = "storage" /\ e[2][1] = "top"
  <2>1. \A f \in fs : get_module_name(f, "server")[1] = "storage"
      BY DEF get_module_name
  <2>2. \A f \in fs : \A b \in ImportedNames(f) : b[1] = "top"
      BY DEF ImportedNames
  <2>3. \A e \in G.edge : e = <<e[1], e[2]>>
      BY <1>1 DEF Graph, Pairs
  <2> HIDE DEF G
  <2>4. ASSUME NEW e \in G.edge PROVE e[1][1] = "storage" /\ e[2][1] = "top"
    <3>1. \E f \in fs : e[1] = get_module_name(f, "server") /\ e[2] \in ImportedNames(f)
        BY <2>3, EdgesAre DEF G
    <3> QED
        BY <2>1, <2>2, <3>1
  <2> QED
      BY <2>4
<1> HIDE DEF G
<1>3. \A m, n \in G.node : <<m, n>> \in R <=> m = n \/ (m[1] = "storage" /\ n[1] = "top")
    OBVIOUS
<1>4. G.edge \subseteq R
    BY <1>1, <1>2 DEF Graph, Pairs
<1> HIDE DEF R
<1>5. Closed(G, R)
  <2>1. \A n \in G.node : <<n, n>> \in R
      BY <1>3
  <2>2. ASSUME NEW m \in G.node, NEW u \in G.node, NEW n \in G.node, <<m, u>> \in R, <<u, n>> \in R
        PROVE  <<m, n>> \in R
      BY <1>3, <2>2
  <2> QED
      BY <1>4, <2>1, <2>2 DEF Closed
<1>6. Linked(G) \subseteq R
    BY <1>1, <1>5, LinksArePaths
<1>7. ~Mutual(G)
    BY <1>3, <1>6 DEF Mutual
<1> QED
    BY <1>1, <1>7, ComponentOfTwo DEF detect_circular_dependencies, G

\* Between plain imports of files that lie at the top, an edge is an import.
Module(f) == <<"top", f.module>>

LEMMA PlainEdges ==
    ASSUME NEW fs \in SUBSET Files, Plain(fs), NEW f \in fs, NEW g, g \in fs,
           \E a \in fs : Module(a) = Module(f) /\ Module(g) \in ImportedNames(a)
    PROVE  \E import \in f.imports : import.target = g.module
<1>1. PICK a \in fs : Module(a) = Module(f) /\ Module(g) \in ImportedNames(a)
    OBVIOUS
<1>2. a = f
    BY <1>1 DEF Plain, Module
<1>3. \E i \in f.imports : Module(g) = <<"top", i.name>>
    BY <1>1, <1>2 DEF Plain, ImportedNames
<1> QED
    BY <1>3 DEF Plain, Module

LEMMA PlainNames ==
    ASSUME NEW fs \in SUBSET Files, Plain(fs), NEW f \in fs, NEW i \in f.imports
    PROVE  <<"top", i.target>> \in ImportedNames(f)
<1>1. i.alias = "none" /\ i.name = i.target
    BY DEF Plain
<1>2. i.how \in {"import", "from"} /\ i.target # "none"
    BY AnalyzerAssumption
<1>3. CASE i.how = "import"
    BY <1>1, <1>3 DEF ImportedNames
<1>4. CASE i.how = "from"
    BY <1>1, <1>2, <1>4 DEF ImportedNames
<1> QED
    BY <1>2, <1>3, <1>4

\* A circle of imports is a path there and back.
LEMMA CircleIsMutual ==
    ASSUME NEW fs \in SUBSET Files, IsFiniteSet(fs), Plain(fs), InCircle(fs)
    PROVE  Mutual(import_graph(fs, "code"))
<1> DEFINE G == import_graph(fs, "code")
<1>1. Graph(G)
    BY ImportsAreGraph
<1>2. PICK c \in 2 .. Cardinality(fs) : \E s \in [1 .. c -> fs] :
          /\ \A i, j \in 1 .. c : s[i] = s[j] => i = j
          /\ \A i \in 1 .. c : \E import \in s[i].imports : import.target = s[(i % Len(s)) + 1].module
    BY DEF InCircle
<1>3. PICK s \in [1 .. c -> fs] :
          /\ \A i, j \in 1 .. c : s[i] = s[j] => i = j
          /\ \A i \in 1 .. c : \E import \in s[i].imports : import.target = s[(i % Len(s)) + 1].module
    BY <1>2
<1>4. c \in Nat /\ c >= 2
    BY <1>2, FS_CardinalityType
<1>5. Len(s) = c
    BY <1>4
<1>6. \A i \in 1 .. c - 1 : i % c = i
    BY <1>4
<1>7. c % c = 0
    BY <1>4
<1> DEFINE Nd(i) == Module(s[i])
<1>8. \A f \in fs : get_module_name(f, "code") = Module(f)
    BY DEF get_module_name, Module
<1>9. ASSUME NEW i \in 1 .. c, NEW j \in 1 .. c, j = (i % c) + 1
      PROVE  <<Nd(i), Nd(j)>> \in G.edge
  <2>1. PICK import \in s[i].imports : import.target = s[j].module
      BY <1>3, <1>5, <1>9
  <2>2. Nd(j) \in ImportedNames(s[i])
      BY <2>1, PlainNames DEF Module
  <2> QED
      BY <1>8, <2>2, EdgesAre
<1>10. \A i \in 1 .. c : Nd(i) \in G.node
  <2>1. \A f \in fs : Module(f) \in G.node
      BY <1>8 DEF import_graph
  <2> QED
      BY <2>1
<1> HIDE DEF G
<1>11. Closed(G, Linked(G))
    BY <1>1, LinksArePaths
<1> DEFINE P == {q \in Nat : q <= c - 2 => <<Nd(2), Nd(q + 2)>> \in Linked(G)}
<1>12. P = Nat
  <2>1. 0 \in P
      BY <1>4, <1>10, <1>11 DEF Closed
  <2>2. ASSUME NEW q \in P PROVE q + 1 \in P
    <3> SUFFICES ASSUME q + 1 <= c - 2 PROVE <<Nd(2), Nd(q + 3)>> \in Linked(G)
        OBVIOUS
    <3>1. q \in Nat /\ q + 2 \in 1 .. c - 1 /\ q + 3 \in 1 .. c /\ 2 \in 1 .. c
        BY <1>4
    <3>2. <<Nd(2), Nd(q + 2)>> \in Linked(G)
        BY <1>4, <3>1
    <3>3. (q + 2) % c = q + 2
        BY <1>6, <3>1
    <3>4. <<Nd(q + 2), Nd(q + 3)>> \in G.edge
        BY <1>4, <1>9, <3>1, <3>3
    <3> QED
        BY <1>4, <1>10, <1>11, <3>1, <3>2, <3>4 DEF Closed
  <2> HIDE DEF P
  <2> QED
      BY <2>1, <2>2, NumbersInduction DEF P
<1>13. <<Nd(2), Nd(c)>> \in Linked(G)
  <2>1. c - 2 \in P
    <3> HIDE DEF P
    <3> QED
        BY <1>4, <1>12
  <2>2. (c - 2) + 2 = c /\ c - 2 <= c - 2
      BY <1>4
  <2> QED
      BY <2>1, <2>2
<1>14. <<Nd(c), Nd(1)>> \in G.edge /\ <<Nd(1), Nd(2)>> \in G.edge
    BY <1>4, <1>6, <1>7, <1>9
<1>15. Nd(1) # Nd(2)
    BY <1>3, <1>4 DEF Plain, Module
<1> HIDE DEF Nd, P
<1>16. Nd(1) \in G.node /\ Nd(2) \in G.node /\ Nd(c) \in G.node
    BY <1>4, <1>10
<1>17. <<Nd(2), Nd(1)>> \in Linked(G) /\ <<Nd(1), Nd(2)>> \in Linked(G)
    BY <1>11, <1>13, <1>14, <1>16 DEF Closed
<1> QED
    BY <1>15, <1>16, <1>17 DEF Mutual, G

\* The walks from m to n that never stay.
ImportWalks(G, m, n, len) ==
    {w \in [0 .. len -> G.node] :
        /\ w[0] = m /\ w[len] = n
        /\ \A i \in 0 .. len - 1 : <<w[i], w[i + 1]>> \in G.edge /\ w[i] # w[i + 1]}

LEMMA WalksJoin ==
    ASSUME NEW G, NEW m, NEW u, NEW n, NEW a \in Nat, NEW b \in Nat,
           NEW v \in ImportWalks(G, m, u, a), NEW w \in ImportWalks(G, u, n, b)
    PROVE  \E x : x \in ImportWalks(G, m, n, a + b)
<1> DEFINE x == [i \in 0 .. a + b |-> IF i <= a THEN v[i] ELSE w[i - a]]
<1>1. /\ v \in [0 .. a -> G.node] /\ v[0] = m /\ v[a] = u
      /\ \A i \in 0 .. a - 1 : <<v[i], v[i + 1]>> \in G.edge /\ v[i] # v[i + 1]
    BY DEF ImportWalks
<1>2. /\ w \in [0 .. b -> G.node] /\ w[0] = u /\ w[b] = n
      /\ \A i \in 0 .. b - 1 : <<w[i], w[i + 1]>> \in G.edge /\ w[i] # w[i + 1]
    BY DEF ImportWalks
<1>3. x \in [0 .. a + b -> G.node]
    BY <1>1, <1>2
<1>4. x[0] = m
    BY <1>1
<1>5. \A i \in a .. a + b : x[i] = w[i - a]
    BY <1>1, <1>2
<1>6. x[a + b] = n
  <2>1. a + b \in a .. a + b /\ (a + b) - a = b
      OBVIOUS
  <2> HIDE DEF x
  <2> QED
      BY <1>2, <1>5, <2>1
<1>7. ASSUME NEW i \in 0 .. (a + b) - 1
      PROVE  <<x[i], x[i + 1]>> \in G.edge /\ x[i] # x[i + 1]
  <2>1. CASE i < a
    <3>1. x[i] = v[i] /\ x[i + 1] = v[i + 1] /\ i \in 0 .. a - 1
        BY <2>1
    <3> QED
        BY <1>1, <3>1
  <2>2. CASE i >= a
    <3>1. i \in a .. a + b /\ i + 1 \in a .. a + b /\ i - a \in 0 .. b - 1 /\ (i + 1) - a = (i - a) + 1
        BY <2>2
    <3> HIDE DEF x
    <3>2. x[i] = w[i - a] /\ x[i + 1] = w[(i - a) + 1]
        BY <1>5, <3>1
    <3> QED
        BY <1>2, <3>1, <3>2
  <2> QED
      BY <2>1, <2>2
<1> HIDE DEF x
<1> QED
    BY <1>3, <1>4, <1>6, <1>7 DEF ImportWalks

\* Every link is a walk.
LEMMA LinksAreWalks ==
    ASSUME NEW G, Graph(G), NEW m \in G.node, NEW n \in G.node, <<m, n>> \in Linked(G)
    PROVE  \E len \in Nat : \E w : w \in ImportWalks(G, m, n, len)
<1> DEFINE W(a, b) == \E len \in Nat : \E w : w \in ImportWalks(G, a, b, len)
           R == {p \in G.node \X G.node : W(p[1], p[2])}
<1>1. ASSUME NEW a \in G.node PROVE W(a, a)
  <2> DEFINE w == [i \in 0 .. 0 |-> a]
  <2>1. w \in ImportWalks(G, a, a, 0)
      BY DEF ImportWalks
  <2> QED
      BY <2>1
<1>2. ASSUME NEW a \in G.node, NEW b \in G.node, <<a, b>> \in G.edge PROVE W(a, b)
  <2>1. CASE a = b
      BY <1>1, <2>1
  <2>2. CASE a # b
    <3> DEFINE w == [i \in 0 .. 1 |-> IF i = 0 THEN a ELSE b]
    <3>1. w \in [0 .. 1 -> G.node] /\ w[0] = a /\ w[1] = b
        OBVIOUS
    <3>2. \A i \in 0 .. 1 - 1 : i = 0
        OBVIOUS
    <3> HIDE DEF w
    <3>3. w \in ImportWalks(G, a, b, 1)
        BY <1>2, <2>2, <3>1, <3>2 DEF ImportWalks
    <3> QED
        BY <3>3
  <2> QED
      BY <2>1, <2>2
<1>3. ASSUME NEW a, NEW b, NEW c, W(a, b), W(b, c) PROVE W(a, c)
  <2>1. PICK l1 \in Nat : \E v : v \in ImportWalks(G, a, b, l1)
      BY <1>3
  <2>2. PICK l2 \in Nat : \E w : w \in ImportWalks(G, b, c, l2)
      BY <1>3
  <2>3. l1 + l2 \in Nat /\ \E x : x \in ImportWalks(G, a, c, l1 + l2)
      BY <2>1, <2>2, WalksJoin
  <2> QED
      BY <2>3
<1> HIDE DEF W
<1>4. \A a, b \in G.node : <<a, b>> \in R <=> W(a, b)
    OBVIOUS
<1>5. G.edge \subseteq R
    BY <1>2, <1>4 DEF Graph, Pairs
<1> HIDE DEF R
<1>6. Closed(G, R)
    BY <1>1, <1>3, <1>4, <1>5 DEF Closed
<1>7. <<m, n>> \in R
    BY <1>6, LinksArePaths
<1> QED
    BY <1>4, <1>7 DEF W

LEMMA WalkReads ==
    ASSUME NEW G, NEW m, NEW n, NEW len \in Nat, NEW w \in ImportWalks(G, m, n, len)
    PROVE  /\ w \in [0 .. len -> G.node] /\ w[0] = m /\ w[len] = n
           /\ \A i \in 0 .. len - 1 : <<w[i], w[i + 1]>> \in G.edge /\ w[i] # w[i + 1]
    BY DEF ImportWalks

\* What lies between two places of a walk is a walk.
LEMMA WalkBetween ==
    ASSUME NEW G, NEW m, NEW n, NEW len \in Nat, NEW w \in ImportWalks(G, m, n, len),
           NEW i \in 0 .. len, NEW j \in 0 .. len, i <= j
    PROVE  \E v : v \in ImportWalks(G, w[i], w[j], j - i)
<1> DEFINE v == [x \in 0 .. j - i |-> w[i + x]]
<1>1. v \in [0 .. j - i -> G.node]
    BY WalkReads
<1>2. v[0] = w[i] /\ v[j - i] = w[j]
    OBVIOUS
<1>3. ASSUME NEW x \in 0 .. (j - i) - 1
      PROVE  <<v[x], v[x + 1]>> \in G.edge /\ v[x] # v[x + 1]
  <2>1. i + x \in 0 .. len - 1 /\ i + (x + 1) = (i + x) + 1
      OBVIOUS
  <2>2. v[x] = w[i + x] /\ v[x + 1] = w[(i + x) + 1]
      BY <2>1
  <2> HIDE DEF v
  <2> QED
      BY <2>1, <2>2, WalkReads
<1> HIDE DEF v
<1>4. v \in ImportWalks(G, w[i], w[j], j - i)
    BY <1>1, <1>2, <1>3 DEF ImportWalks
<1> QED
    BY <1>4

\* A path there and back passes no node twice when it is a shortest one.
LEMMA ShortestCircle ==
    ASSUME NEW G, Graph(G), Mutual(G)
    PROVE  \E len \in Nat : \E w \in [0 .. len -> G.node] :
             /\ len >= 2 /\ w[0] = w[len]
             /\ \A i \in 0 .. len - 1 : <<w[i], w[i + 1]>> \in G.edge
             /\ \A i, j \in 0 .. len - 1 : w[i] = w[j] => i = j
<1> DEFINE Around(len) == \E m : \E w : w \in ImportWalks(G, m, m, len)
           lengths == {len \in Nat : len > 0 /\ Around(len)}
<1>1. lengths # {}
  <2>1. PICK m \in G.node, n \in G.node : m # n /\ <<m, n>> \in Linked(G) /\ <<n, m>> \in Linked(G)
      BY DEF Mutual
  <2>2. PICK a \in Nat : \E v : v \in ImportWalks(G, m, n, a)
      BY <2>1, LinksAreWalks
  <2>3. PICK b \in Nat : \E v : v \in ImportWalks(G, n, m, b)
      BY <2>1, LinksAreWalks
  <2>4. a # 0
      BY <2>1, <2>2 DEF ImportWalks
  <2>5. \E x : x \in ImportWalks(G, m, m, a + b)
      BY <2>2, <2>3, WalksJoin
  <2>6. a + b \in Nat /\ a + b > 0 /\ Around(a + b)
      BY <2>4, <2>5
  <2> QED
      BY <2>6
<1>2. PICK len \in lengths : \A other \in lengths : len <= other
    BY <1>1, NumbersHaveLeast
<1>3. len \in Nat /\ len > 0
    OBVIOUS
<1>4. PICK m : \E w : w \in ImportWalks(G, m, m, len)
    OBVIOUS
<1>5. PICK w : w \in ImportWalks(G, m, m, len)
    BY <1>4
<1>6. /\ w \in [0 .. len -> G.node] /\ w[0] = m /\ w[len] = m
      /\ \A i \in 0 .. len - 1 : <<w[i], w[i + 1]>> \in G.edge /\ w[i] # w[i + 1]
    BY <1>3, <1>5, WalkReads
<1>7. len # 1
  <2> SUFFICES ASSUME len = 1 PROVE FALSE
      OBVIOUS
  <2>1. 0 \in 0 .. len - 1 /\ 0 + 1 = len
      OBVIOUS
  <2>2. w[0] # w[0 + 1]
      BY <1>6, <2>1
  <2> QED
      BY <1>6, <2>1, <2>2
<1>8. ASSUME NEW i \in 0 .. len - 1, NEW j \in 0 .. len - 1, w[i] = w[j], i < j
      PROVE  FALSE
  <2>1. i \in 0 .. len /\ j \in 0 .. len /\ i <= j /\ j - i \in Nat /\ j - i > 0 /\ ~(len <= j - i)
      BY <1>3, <1>8
  <2>2. \E v : v \in ImportWalks(G, w[i], w[i], j - i)
      BY <1>3, <1>5, <1>8, <2>1, WalkBetween
  <2>3. Around(j - i)
      BY <2>2
  <2> HIDE DEF Around
  <2>4. j - i \in lengths
      BY <2>1, <2>3
  <2> QED
      BY <1>2, <2>1, <2>4
<1>9. \A i, j \in 0 .. len - 1 : w[i] = w[j] => i = j
    BY <1>3, <1>8
<1> QED
    BY <1>3, <1>6, <1>7, <1>9

LEMMA CountUpTo ==
    ASSUME NEW n \in Nat
    PROVE  Cardinality(1 .. n) = n
<1>1. 1 \in Int /\ n \in Int
    OBVIOUS
<1>2. Cardinality(1 .. n) = IF 1 > n THEN 0 ELSE n - 1 + 1
    BY <1>1, FS_Interval
<1> QED
    BY <1>2

LEMMA MutualIsCircle ==
    ASSUME NEW fs \in SUBSET Files, IsFiniteSet(fs), Plain(fs), Mutual(import_graph(fs, "code"))
    PROVE  InCircle(fs)
<1> DEFINE G == import_graph(fs, "code")
<1>1. Graph(G)
    BY ImportsAreGraph
<1>2. \A f \in fs : get_module_name(f, "code") = Module(f)
    BY DEF get_module_name, Module
<1>3. \A a, b : <<a, b>> \in G.edge => \E f \in fs : a = Module(f) /\ b \in ImportedNames(f)
    BY <1>2, EdgesAre
<1>4. Mutual(G)
    OBVIOUS
<1> HIDE DEF G
<1>5. PICK len \in Nat : \E w \in [0 .. len -> G.node] :
             /\ len >= 2 /\ w[0] = w[len]
             /\ \A i \in 0 .. len - 1 : <<w[i], w[i + 1]>> \in G.edge
             /\ \A i, j \in 0 .. len - 1 : w[i] = w[j] => i = j
    BY <1>1, <1>4, ShortestCircle
<1>6. PICK w \in [0 .. len -> G.node] :
             /\ len >= 2 /\ w[0] = w[len]
             /\ \A i \in 0 .. len - 1 : <<w[i], w[i + 1]>> \in G.edge
             /\ \A i, j \in 0 .. len - 1 : w[i] = w[j] => i = j
    BY <1>5
<1> DEFINE s == [i \in 1 .. len |-> CHOOSE f \in fs : Module(f) = w[i - 1]]
<1>7. ASSUME NEW i \in 1 .. len
      PROVE  s[i] \in fs /\ Module(s[i]) = w[i - 1]
  <2>1. i - 1 \in 0 .. len - 1
      OBVIOUS
  <2>2. \E f \in fs : Module(f) = w[i - 1]
      BY <1>3, <1>6, <2>1
  <2> QED
      BY <2>2
<1>8. s \in [1 .. len -> fs]
    BY <1>7
<1> HIDE DEF s
<1>9. \A i, j \in 1 .. len : s[i] = s[j] => i = j
  <2> SUFFICES ASSUME NEW i \in 1 .. len, NEW j \in 1 .. len, s[i] = s[j] PROVE i = j
      OBVIOUS
  <2>1. w[i - 1] = w[j - 1]
      BY <1>7
  <2>2. i - 1 \in 0 .. len - 1 /\ j - 1 \in 0 .. len - 1
      OBVIOUS
  <2>3. i - 1 = j - 1
      BY <1>6, <2>1, <2>2
  <2> QED
      BY <2>3
<1>10. Len(s) = len
    BY <1>8
<1>11. ASSUME NEW i \in 1 .. len
       PROVE  \E import \in s[i].imports : import.target = s[(i % Len(s)) + 1].module
  <2>1. i - 1 \in 0 .. len - 1 /\ (i - 1) + 1 = i
      OBVIOUS
  <2>2. <<w[i - 1], w[i]>> \in G.edge
      BY <1>6, <2>1
  <2>3. PICK a \in fs : w[i - 1] = Module(a) /\ w[i] \in ImportedNames(a)
      BY <1>3, <2>2
  <2>4. ASSUME NEW j \in 1 .. len, Module(s[j]) = w[i]
        PROVE  \E import \in s[i].imports : import.target = s[j].module
      BY <1>7, <2>3, <2>4, PlainEdges
  <2>5. CASE i = len
    <3>1. i % len = 0
        BY <2>5
    <3>2. Module(s[1]) = w[i]
        BY <1>6, <1>7, <2>5
    <3> QED
        BY <1>6, <1>10, <2>4, <3>1, <3>2
  <2>6. CASE i # len
    <3>1. i % len = i
        BY <2>6
    <3>2. i + 1 \in 1 .. len /\ (i + 1) - 1 = i
        BY <2>6
    <3>3. Module(s[i + 1]) = w[i]
        BY <1>7, <3>2
    <3> QED
        BY <1>10, <2>4, <3>1, <3>2, <3>3
  <2> QED
      BY <2>5, <2>6
<1>12. len <= Cardinality(fs)
  <2>1. s \in Injection(1 .. len, fs)
      BY <1>8, <1>9 DEF Injection, IsInjective
  <2>2. Cardinality(1 .. len) = len
      BY CountUpTo
  <2> QED
      BY <2>1, <2>2, FS_Injection
<1>13. len \in 2 .. Cardinality(fs)
    BY <1>6, <1>12, FS_CardinalityType
<1>14. DOMAIN s = 1 .. len
    BY <1>8
<1> QED
    BY <1>8, <1>9, <1>11, <1>13, <1>14 DEF InCircle

\* Of the smells only a circular dependency is called so.
LEMMA OtherTypes ==
    ASSUME NEW fs, NEW cwd, NEW s \in analyze_directory(fs, cwd), s.smell_type = "CircularDependency"
    PROVE  s \in detect_circular_dependencies(Parsed({f \in fs : ~Skipped(f)}), cwd)
<1>1. \A type, severity, place : Smell(type, severity, place).smell_type = type
    BY DEF Smell
<1> DEFINE py == Parsed({f \in fs : ~Skipped(f)})
           each == UNION {GodClasses(f) \cup detect_feature_envy(f) \cup analyze_functions(f) : f \in py}
<1>2. ASSUME NEW f, NEW x \in GodClasses(f) PROVE x.smell_type # "CircularDependency"
  <2>1. \E place : x = Smell("GodClass", "HIGH", place)
      BY Zenon DEF GodClasses
  <2> QED
      BY <1>1, <2>1
<1>3. ASSUME NEW f, NEW x \in detect_feature_envy(f) PROVE x.smell_type # "CircularDependency"
  <2>1. \E place : x = Smell("FeatureEnvy", "MEDIUM", place)
      BY Zenon DEF detect_feature_envy
  <2> QED
      BY <1>1, <2>1
<1>4. ASSUME NEW f, NEW x \in analyze_functions(f) PROVE x.smell_type # "CircularDependency"
  <2>1. \E place : x = Smell("ShotgunSurgery", "MEDIUM", place)
      BY Zenon DEF analyze_functions
  <2> QED
      BY <1>1, <2>1
<1>5. ASSUME NEW x \in find_duplicates(Parsed(fs)) PROVE x.smell_type # "CircularDependency"
  <2>1. \E place : x = Smell("DuplicateCode", "LOW", place)
      BY Zenon DEF find_duplicates
  <2> QED
      BY <1>1, <2>1
<1>6. ASSUME NEW x \in analyze_java_files(fs) \cup analyze_js_ts_files(fs)
      PROVE  x.smell_type # "CircularDependency"
  <2>1. \E severity, place : x = Smell("GodClass", severity, place)
      BY Zenon DEF analyze_java_files, analyze_js_ts_files
  <2> QED
      BY <1>1, <2>1
<1>7. analyze_directory(fs, cwd) = each \cup detect_circular_dependencies(py, cwd)
          \cup find_duplicates(Parsed(fs)) \cup analyze_java_files(fs) \cup analyze_js_ts_files(fs)
    BY DEF analyze_directory
<1> HIDE DEF py
<1>8. \A x \in each : x.smell_type # "CircularDependency"
    BY <1>2, <1>3, <1>4
<1> HIDE DEF each
<1>9. s \in detect_circular_dependencies(py, cwd)
    BY <1>5, <1>6, <1>7, <1>8
<1> QED
    BY <1>9 DEF py

\* A circular dependency is reported exactly if two modules have paths to
\* each other.
LEMMA DetectionReports ==
    ASSUME NEW fs \in SUBSET Files, IsFiniteSet(fs), NEW cwd, NEW py,
           py = Parsed({f \in fs : ~Skipped(f)})
    PROVE  /\ py \in SUBSET Files /\ IsFiniteSet(py)
           /\ (\E s \in analyze_directory(fs, cwd) : s.smell_type = "CircularDependency")
                <=> detect_circular_dependencies(py, cwd) # {}
           /\ detect_circular_dependencies(py, cwd) # {} <=> Mutual(import_graph(py, cwd))
<1>1. py \in SUBSET Files /\ IsFiniteSet(py)
    BY FS_Subset DEF Parsed
<1>2. detect_circular_dependencies(py, cwd) \subseteq analyze_directory(fs, cwd)
    BY DEF analyze_directory
<1>3. \A s \in detect_circular_dependencies(py, cwd) : s.smell_type = "CircularDependency"
    BY DEF detect_circular_dependencies, Smell
<1>4. \A s \in analyze_directory(fs, cwd) : s.smell_type = "CircularDependency"
          => s \in detect_circular_dependencies(py, cwd)
    BY OtherTypes
<1>5. detect_circular_dependencies(py, cwd) # {} <=> Mutual(import_graph(py, cwd))
  <2>1. Graph(import_graph(py, cwd))
      BY <1>1, ImportsAreGraph
  <2> QED
      BY <2>1, ComponentOfTwo DEF detect_circular_dependencies
<1> QED
    BY <1>1, <1>2, <1>3, <1>4, <1>5

LEMMA CyclesStep ==
    ASSUME AnalyzerTyped, NEW cwd \in {"code", "server"}, Analyse(cwd),
           analysis'.status = "COMPLETED", NEW fs, fs = Own(directory)
    PROVE  /\ cwd = "server" => ~Reports("CircularDependency")'
           /\ cwd = "code" /\ Plain(fs) => (Reports("CircularDependency")' <=> InCircle(fs))
<1> DEFINE smells == analyze_directory(directory, cwd)
<1>1. directory \in SUBSET Files /\ IsFiniteSet(directory)
    BY DEF AnalyzerTyped, AnalyzerTypeOK
<1>2. fs = Parsed({f \in directory : ~Skipped(f)})
    BY DEF Parsed, Own
<1>3. analysis'.smells = smells
  <2>1. CASE analyze_file_raises(directory)
    <3> DEFINE failed == [Unanalysed EXCEPT !.status = "FAILED", !.cwd = cwd]
    <3>1. analysis' = failed
        BY <2>1 DEF Analyse
    <3>2. failed.status = "FAILED"
        BY DEF Unanalysed
    <3> HIDE DEF failed
    <3> QED
        BY <3>1, <3>2
  <2>2. CASE ~analyze_file_raises(directory)
    <3> DEFINE score == calculate_health_score(smells)
    <3>1. analysis' = [status |-> "COMPLETED", cwd |-> cwd, smells |-> smells, score |-> score]
        BY <2>2 DEF Analyse
    <3> HIDE DEF smells, score
    <3> QED
        BY <3>1
  <2> QED
      BY <2>1, <2>2
<1>4. /\ fs \in SUBSET Files /\ IsFiniteSet(fs)
      /\ (\E s \in smells : s.smell_type = "CircularDependency") <=> detect_circular_dependencies(fs, cwd) # {}
      /\ detect_circular_dependencies(fs, cwd) # {} <=> Mutual(import_graph(fs, cwd))
    BY <1>1, <1>2, DetectionReports
<1>5. Reports("CircularDependency")' <=> \E s \in smells : s.smell_type = "CircularDependency"
    BY <1>3 DEF Reports
<1> HIDE DEF smells
<1>6. ASSUME cwd = "server" PROVE ~Reports("CircularDependency")'
    BY <1>4, <1>5, <1>6, ServerSeesNoCycle
<1>7. ASSUME cwd = "code", Plain(fs) PROVE Reports("CircularDependency")' <=> InCircle(fs)
    BY <1>4, <1>5, <1>7, CircleIsMutual, MutualIsCircle
<1> QED
    BY <1>6, <1>7

\* In the directory of the code, an analysis that completes reports a circular
\* dependency, between plain imports, exactly if the files import one another in
\* a circle (analyzer.py:47-67, 175-213).
THEOREM CyclesAreReported == AnalyzerSpec => CyclesShowInCodeDirectory
<1>1. AnalyzerTyped /\ [AnalyzerNext]_analyzerVars =>
        [Analyse("code") /\ analysis'.status = "COMPLETED" /\ Plain(Own(directory)) =>
          (Reports("CircularDependency")' <=> InCircle(Own(directory)))]_analyzerVars
    BY CyclesStep
<1> QED
    BY <1>1, AnalyzerStaysTyped, PTL DEF AnalyzerSpec, CyclesShowInCodeDirectory

\* As the server is deployed, no analysis of any files ever reports one,
\* although README.md:71 of the scanner lists it among what is detected
\* (analyzer.py:211).
THEOREM DeployedReportsNone ==
    AnalyzerSpec => [][Analyse("server") => ~Reports("CircularDependency")']_analyzerVars
<1>1. AnalyzerTyped /\ [AnalyzerNext]_analyzerVars =>
        [Analyse("server") => ~Reports("CircularDependency")']_analyzerVars
  <2> SUFFICES ASSUME AnalyzerTyped, Analyse("server") PROVE ~Reports("CircularDependency")'
      OBVIOUS
  <2>1. CASE analyze_file_raises(directory)
    <3> DEFINE failed == [Unanalysed EXCEPT !.status = "FAILED", !.cwd = "server"]
    <3>1. analysis' = failed
        BY <2>1 DEF Analyse
    <3>2. failed.smells = {}
        BY DEF Unanalysed
    <3> HIDE DEF failed
    <3> QED
        BY <3>1, <3>2 DEF Reports
  <2>2. CASE ~analyze_file_raises(directory)
    <3>1. analysis'.status = "COMPLETED"
      <4> DEFINE smells == analyze_directory(directory, "server")
                 score == calculate_health_score(smells)
      <4>1. analysis' = [status |-> "COMPLETED", cwd |-> "server", smells |-> smells, score |-> score]
          BY <2>2 DEF Analyse
      <4> HIDE DEF smells, score
      <4> QED
          BY <4>1
    <3> QED
        BY <3>1, CyclesStep
  <2> QED
      BY <2>1, <2>2
<1> QED
    BY <1>1, AnalyzerStaysTyped, PTL DEF AnalyzerSpec

-----------------------------------------------------------------------------
(* The parts beside each other. A step is one of one part, the others stay, *)
(* so that every behaviour is a behaviour of each part: what is proved of   *)
(* the parts holds where MCParts checks it.                                 *)

LEMMA OnePartMoves ==
    [PartsNext]_partsVars =>
        /\ [ServerNext]_serverVars /\ [MCNext]_mcVars /\ [AnalyzerNext]_analyzerVars
        /\ [MergerNext]_mergerVars /\ [PhotoNext]_photoVars /\ [RagNext]_ragVars
        /\ [AddNext]_addVars /\ [BatchNext]_batchVars /\ [CarNext]_carVars /\ [SkillNext]_skillVars
<1> DEFINE Others(p) ==
        /\ p # "server" => UNCHANGED serverVars
        /\ p # "balancer" => UNCHANGED mcVars
        /\ p # "analyzer" => UNCHANGED analyzerVars
        /\ p # "merger" => UNCHANGED mergerVars
        /\ p # "photos" => UNCHANGED photoVars
        /\ p # "rag" => UNCHANGED ragVars
        /\ p # "adders" => UNCHANGED addVars
        /\ p # "batch" => UNCHANGED batchVars
        /\ p # "cars" => UNCHANGED carVars
        /\ p # "skills" => UNCHANGED skillVars
<1>1. \A p : Only(p) => Others(p)
    BY DEF Only
<1>2. CASE UNCHANGED partsVars
    BY <1>2 DEF partsVars
<1>3. CASE PartsNext
    BY <1>1, <1>3 DEF PartsNext
<1> QED
    BY <1>2, <1>3

\* MCParts shows each part as it is: its initial states are initial states of
\* the part, and every step is one of the part or leaves it alone.
THEOREM PartsUseParts ==
    PartsSpec => /\ ServerSpec /\ MCSpec /\ AnalyzerSpec /\ MergerSpec /\ PhotoSpec
                 /\ RagSpec /\ AddSpec /\ BatchSpec /\ CarSpec /\ SkillSpec
<1>1. PartsInit => /\ ServerInit /\ MCInit /\ AnalyzerInit /\ MergerInit /\ PhotoInit /\ RagInit
                   /\ AddInit /\ BatchInit /\ CarInit /\ SkillInit
    BY DEF PartsInit
<1> QED
    BY <1>1, OnePartMoves, PTL
    DEF PartsSpec, ServerSpec, MCSpec, AnalyzerSpec, MergerSpec, PhotoSpec, RagSpec, AddSpec,
        BatchSpec, CarSpec, SkillSpec

\* The load balancer with its history is a load balancer.
LEMMA HistoryBalances == MCSpec => BalancerSpec
<1>1. MCInit => BalancerInit
    BY DEF MCInit
<1>2. [MCNext]_mcVars => [BalancerNext]_balancerVars
    BY DEF MCNext, mcVars, BalancerNext, balancerVars, Serve
<1> QED
    BY <1>1, <1>2, PTL DEF MCSpec, BalancerSpec

\* The states of all the parts are well formed, for any values of their
\* constants that the assumptions allow.
THEOREM PartsTyped == PartsSpec => []PartsTypeOK
<1>1. /\ ServerTypeOK /\ BalancerTypeOK /\ AnalyzerTypeOK /\ MergerTypeOK /\ PhotoTypeOK
      /\ RagTypeOK /\ AddTypeOK /\ BatchTypeOK /\ CarTypeOK /\ SkillTypeOK
      => PartsTypeOK
    BY DEF PartsTypeOK
<1> QED
    BY <1>1, PartsUseParts, HistoryBalances, ServerTyped, BalancerTyped, AnalyzerIsTyped, ColumnsOccurOnce,
       PhotosAreCounted, RagIsTyped, AddTyped, BatchTyped, CarsTyped, SkillsTyped, PTL
=============================================================================
