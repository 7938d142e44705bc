---------------------------- MODULE HotReloadProofs ----------------------------
(***************************************************************************)
(* The router under reloads, for any files, rules and requests. The vector *)
(* is rebuilt one addition at a time, and each sorts what is there already *)
(* once more: that the result is the routes of the file, sorted, needs the *)
(* arrangements of a sequence to compose, and to extend to a longer one.   *)
(* A search that no reload overlaps then finds what a search of the file's *)
(* rules for the least priority would.                                     *)
(***************************************************************************)
EXTENDS HotReload, SequenceTheorems, FunctionTheorems, TLAPS

-----------------------------------------------------------------------------
(* Arrangements of a sequence.                                             *)

\* An arrangement is a sequence of the same elements, each as often.
LEMMA ArrangementIsSeq ==
    ASSUME NEW S, NEW s \in Seq(S), NEW t \in Arrangements(s)
    PROVE  /\ t \in Seq(S) /\ Len(t) = Len(s) /\ DOMAIN t = DOMAIN s
           /\ \A i \in DOMAIN t : \E j \in DOMAIN s : t[i] = s[j]
           /\ \A j \in DOMAIN s : \E i \in DOMAIN t : t[i] = s[j]
<1>1. PICK p \in Bijection(DOMAIN s, DOMAIN s) : t = [i \in DOMAIN s |-> s[p[i]]]
  BY DEF Arrangements
<1>2. /\ p \in [DOMAIN s -> DOMAIN s]
      /\ \A j \in DOMAIN s : \E i \in DOMAIN s : p[i] = j
  BY Fun_BijectionProperties
<1>3. DOMAIN s = 1 .. Len(s) /\ Len(s) \in Nat /\ s \in [1 .. Len(s) -> S]
  BY LenProperties
<1>4. t \in [1 .. Len(s) -> S]
  BY <1>1, <1>2, <1>3
<1>5. t \in Seq(S)
  BY <1>3, <1>4, SeqDef
<1>6. DOMAIN t = DOMAIN s /\ Len(t) = Len(s)
  <2>1. DOMAIN t = 1 .. Len(s) /\ DOMAIN t = 1 .. Len(t) /\ Len(t) \in Nat
    BY <1>4, <1>5, LenProperties
  <2> QED
    BY <1>3, <2>1
<1>7. \A i \in DOMAIN s : p[i] \in DOMAIN s /\ t[i] = s[p[i]]
  BY <1>1, <1>2
<1>8. \A j \in DOMAIN s : \E i \in DOMAIN s : t[i] = s[j]
  <2> TAKE j \in DOMAIN s
  <2>1. PICK i \in DOMAIN s : p[i] = j
    BY <1>2
  <2> QED
    BY <1>7, <2>1
<1> QED
  BY <1>5, <1>6, <1>7, <1>8

LEMMA ArrangementReflexive ==
    ASSUME NEW S, NEW s \in Seq(S)
    PROVE  s \in Arrangements(s)
<1> DEFINE p == [i \in DOMAIN s |-> i]
<1>1. p \in Bijection(DOMAIN s, DOMAIN s)
  BY Fun_IsBij
<1>2. s = [i \in DOMAIN s |-> s[p[i]]]
  BY LenProperties
<1> QED
  BY <1>1, <1>2 DEF Arrangements

LEMMA ArrangementTransitive ==
    ASSUME NEW S, NEW s \in Seq(S), NEW t \in Arrangements(s), NEW u \in Arrangements(t)
    PROVE  u \in Arrangements(s)
<1>1. PICK p \in Bijection(DOMAIN s, DOMAIN s) : t = [i \in DOMAIN s |-> s[p[i]]]
  BY DEF Arrangements
<1>2. DOMAIN t = DOMAIN s
  BY <1>1
<1>3. PICK q \in Bijection(DOMAIN s, DOMAIN s) : u = [i \in DOMAIN s |-> t[q[i]]]
  BY <1>2 DEF Arrangements
<1> DEFINE r == [i \in DOMAIN s |-> p[q[i]]]
<1>4. r \in Bijection(DOMAIN s, DOMAIN s)
  BY Fun_BijTransitive
<1>5. u = [i \in DOMAIN s |-> s[r[i]]]
  <2>1. q \in [DOMAIN s -> DOMAIN s]
    BY Fun_BijectionProperties
  <2> QED
    BY <1>1, <1>3, <2>1
<1> HIDE DEF r
<1> QED
  BY <1>4, <1>5 DEF Arrangements

\* What is appended to both stays where it is.
LEMMA ArrangementExtends ==
    ASSUME NEW S, NEW s \in Seq(S), NEW w \in Seq(S), NEW t \in Arrangements(s)
    PROVE  t \o w \in Arrangements(s \o w)
<1>1. PICK p \in Bijection(DOMAIN s, DOMAIN s) : t = [i \in DOMAIN s |-> s[p[i]]]
  BY DEF Arrangements
<1>2. t \in Seq(S) /\ Len(t) = Len(s)
  BY ArrangementIsSeq
<1>3. /\ Len(s) \in Nat /\ DOMAIN s = 1 .. Len(s) /\ Len(w) \in Nat
  BY LenProperties
<1>4. /\ DOMAIN (s \o w) = 1 .. Len(s) + Len(w) /\ DOMAIN (t \o w) = 1 .. Len(s) + Len(w)
      /\ \A i \in 1 .. Len(s) + Len(w) :
            /\ (s \o w)[i] = IF i <= Len(s) THEN s[i] ELSE w[i - Len(s)]
            /\ (t \o w)[i] = IF i <= Len(s) THEN t[i] ELSE w[i - Len(s)]
  BY <1>2, <1>3, ConcatProperties, LenProperties
<1> DEFINE n == Len(s) + Len(w)
           q == [i \in 1 .. n |-> IF i <= Len(s) THEN p[i] ELSE i]
<1>5. /\ p \in [1 .. Len(s) -> 1 .. Len(s)]
      /\ \A a, b \in 1 .. Len(s) : p[a] = p[b] => a = b
      /\ \A j \in 1 .. Len(s) : \E i \in 1 .. Len(s) : p[i] = j
  <2> DEFINE I == 1 .. Len(s)
  <2>1. p \in Bijection(I, I)
    BY <1>3
  <2> HIDE DEF I
  <2>2. /\ p \in [I -> I] /\ \A a, b \in I : p[a] = p[b] => a = b
        /\ \A j \in I : \E i \in I : p[i] = j
    BY <2>1, Fun_BijectionProperties
  <2> QED
    BY <2>2 DEF I
<1>8. \A a \in 1 .. Len(s) : p[a] \in 1 .. Len(s)
  BY <1>5
<1>6. q \in Bijection(1 .. n, 1 .. n)
  <2>1. q \in [1 .. n -> 1 .. n]
    BY <1>3, <1>5
  <2>2. ASSUME NEW a \in 1 .. n, NEW b \in 1 .. n, q[a] = q[b] PROVE a = b
    <3>0. /\ q[a] = IF a <= Len(s) THEN p[a] ELSE a
          /\ q[b] = IF b <= Len(s) THEN p[b] ELSE b
      OBVIOUS
    <3> HIDE DEF q
    <3>1. (a <= Len(s) => a \in 1 .. Len(s)) /\ (b <= Len(s) => b \in 1 .. Len(s)) /\ a \in Int /\ b \in Int
      BY <1>3
    <3>2. /\ a <= Len(s) => p[a] <= Len(s)
          /\ b <= Len(s) => p[b] <= Len(s)
      BY <1>3, <1>8, <3>1
    <3>3. a <= Len(s) <=> b <= Len(s)
      BY <2>2, <3>0, <3>1, <3>2
    <3>4. CASE a <= Len(s)
      BY <1>5, <2>2, <3>0, <3>1, <3>3, <3>4
    <3>5. CASE ~(a <= Len(s))
      BY <2>2, <3>0, <3>3, <3>5
    <3> QED
      BY <3>4, <3>5
  <2>3. \A j \in 1 .. n : \E i \in 1 .. n : q[i] = j
    <3> TAKE j \in 1 .. n
    <3>1. CASE j <= Len(s)
      <4>1. PICK i \in 1 .. Len(s) : p[i] = j
        BY <1>3, <1>5, <3>1
      <4> QED
        BY <1>3, <4>1
    <3>2. CASE ~(j <= Len(s))
      BY <1>3, <3>2
    <3> QED
      BY <3>1, <3>2
  <2> QED
    BY <2>1, <2>2, <2>3, Fun_IsBij
<1>7. t \o w = [i \in 1 .. n |-> (s \o w)[q[i]]]
  <2>1. \A i \in 1 .. n : (t \o w)[i] = (s \o w)[q[i]]
    <3> TAKE i \in 1 .. n
    <3>1. CASE i <= Len(s)
      <4>2. i \in DOMAIN s
        BY <1>3, <3>1
      <4>3. p[i] \in 1 .. Len(s) /\ t[i] = s[p[i]]
        BY <1>1, <1>3, <1>5, <4>2
      <4>1. q[i] = p[i] /\ p[i] \in 1 .. Len(s) /\ t[i] = s[p[i]]
        BY <3>1, <4>3
      <4> QED
        BY <1>3, <1>4, <3>1, <4>1
    <3>2. CASE ~(i <= Len(s))
      BY <1>3, <1>4, <3>2
    <3> QED
      BY <3>1, <3>2
  <2>2. t \o w \in [1 .. n -> S]
    <3>1. t \o w \in Seq(S) /\ Len(t \o w) = Len(t) + Len(w)
      <4> HIDE DEF n
      <4>1. t \in Seq(S)
        BY <1>2
      <4> QED
        BY <4>1, ConcatProperties
    <3>2. Len(t \o w) = n
      BY <1>2, <3>1
    <3> QED
      BY <3>1, <3>2, LenProperties
  <2> QED
    BY <2>1, <2>2
<1> QED
  BY <1>4, <1>6, <1>7 DEF Arrangements

-----------------------------------------------------------------------------
(* The router.                                                             *)

\* The search of a sorted vector from its front finds the rule of least
\* priority among those of the file that match (request_router.cpp:15-25).
LEMMA FirstMatchIsLeast ==
    ASSUME NEW s \in Seq(Rules), routes_ \in sort(s), NEW path, NEW found, match_route(path, found)
    PROVE  LET choices == {route \in ToSet(s) : is_match(path, route)} IN
           IF choices = {} THEN found = NoRoute
           ELSE found \in choices /\ \A other \in choices : found.priority <= other.priority
<1> DEFINE choices == {route \in ToSet(s) : is_match(path, route)}
           matching == {i \in DOMAIN routes_ : is_match(path, routes_[i])}
<1>1. /\ routes_ \in Seq(Rules) /\ ByPriority(routes_)
      /\ \A i \in DOMAIN routes_ : \E j \in DOMAIN s : routes_[i] = s[j]
      /\ \A j \in DOMAIN s : \E i \in DOMAIN routes_ : routes_[i] = s[j]
  BY ArrangementIsSeq DEF sort
<1>2. \A i \in matching : routes_[i] \in choices
  BY <1>1 DEF ToSet
<1>3. \A route \in choices : \E i \in matching : routes_[i] = route
  <2> TAKE route \in choices
  <2>1. PICK j \in DOMAIN s : s[j] = route
    BY DEF ToSet
  <2>2. PICK i \in DOMAIN routes_ : routes_[i] = s[j]
    BY <1>1
  <2> QED
    BY <2>1, <2>2
<1>4. /\ DOMAIN routes_ \subseteq Nat
      /\ \A i \in DOMAIN routes_ : routes_[i].priority \in Nat
  BY <1>1, LenProperties, RouterAssumption
<1>5. \/ matching = {} /\ found = NoRoute
      \/ \E i \in matching : (\A j \in matching : i <= j) /\ found = routes_[i]
  BY DEF match_route
<1>6. CASE matching = {}
  BY <1>3, <1>5, <1>6
<1>7. ASSUME NEW i \in matching, \A j \in matching : i <= j, found = routes_[i]
      PROVE  found \in choices /\ \A other \in choices : found.priority <= other.priority
  <2>1. ASSUME NEW other \in choices PROVE found.priority <= other.priority
    <3>1. PICK j \in matching : routes_[j] = other
      BY <1>3
    <3>2. i \in DOMAIN routes_ /\ j \in DOMAIN routes_ /\ i <= j
      BY <1>7
    <3>3. CASE i = j
      BY <1>4, <1>7, <3>1, <3>2, <3>3
    <3>4. CASE i < j
      BY <1>1, <1>7, <3>1, <3>2, <3>4 DEF ByPriority
    <3> QED
      BY <1>4, <3>2, <3>3, <3>4
  <2> QED
    BY <1>2, <1>7, <2>1
<1> QED
  BY <1>5, <1>6, <1>7

\* A rule is added to a vector that holds, with the rules still to come, those
\* of the file: so does the new vector, and it is sorted.
LEMMA AddKeepsRules ==
    ASSUME NEW s \in Seq(Rules), routes_ \in Seq(Rules), to_add \in Seq(Rules), to_add # <<>>,
           routes_ \o to_add \in Arrangements(s), add_route(Head(to_add))
    PROVE  /\ routes_' \in Seq(Rules) /\ ByPriority(routes_')
           /\ routes_' \o Tail(to_add) \in Arrangements(s)
<1> DEFINE more == Append(routes_, Head(to_add))
<1>1. Head(to_add) \in Rules /\ Tail(to_add) \in Seq(Rules)
  BY HeadTailProperties
<1>2. more \in Seq(Rules)
  BY <1>1
<1>3. more \o Tail(to_add) = routes_ \o to_add
  BY <1>1
<1>4. routes_' \in Arrangements(more) /\ ByPriority(routes_')
  BY DEF add_route, sort
<1> HIDE DEF more
<1>5. routes_' \in Seq(Rules)
  BY <1>2, <1>4, ArrangementIsSeq
<1>6. routes_' \o Tail(to_add) \in Arrangements(routes_ \o to_add)
  BY <1>1, <1>2, <1>3, <1>4, ArrangementExtends
<1> QED
  BY <1>4, <1>5, <1>6, ArrangementTransitive

-----------------------------------------------------------------------------
(* Types.                                                                  *)

Lookups == [at : {"queued", "searching", "matched", "forwarding"}, path : Paths \cup {<<>>},
            config : Configs \cup {Absent}, torn : BOOLEAN, found : Rules \cup {NoRoute}]
Watchers == {At(w) : w \in {"unborn", "none", "polling", "stat", "opening", "adding", "ended"}}
            \cup {Loaded(c) : c \in Configs}

LEMMA ReloadTypeInit == ReloadInit => ReloadTypeOK
<1> SUFFICES ASSUME ReloadInit PROVE ReloadTypeOK
  OBVIOUS
<1>1. RoutesOf[InitialConfig] \in Seq(Rules) /\ routes_ \in Arrangements(RoutesOf[InitialConfig])
  BY ReloadAssumption DEF ReloadInit, sort
<1>2. routes_ \in Seq(Rules)
  BY <1>1, ArrangementIsSeq
<1>3. lookup \in [Requests -> Lookups]
  BY DEF ReloadInit, NotYet, Lookups
<1>4. watcher \in Watchers /\ watcher.at = "unborn" /\ ~running_
  BY DEF ReloadInit, Watchers, At
<1>5. now = 1 /\ now \in 1 .. MaxTime /\ edits \in 0 .. MaxEdits
  BY ReloadAssumption DEF ReloadInit
<1>6. /\ file \in [content : Configs \cup {Broken, Absent}, mtime : 0 .. now]
      /\ file.content # Absent /\ file.mtime # 0
  BY <1>5, ReloadAssumption DEF ReloadInit
<1>7. config_ \in Configs /\ to_add \in Seq(Rules) /\ running_ \in BOOLEAN
  BY ReloadAssumption, EmptySeq DEF ReloadInit
<1>8. last_mtime_ \in 0 .. now
  BY <1>5 DEF ReloadInit
<1> QED
  BY <1>2, <1>3, <1>4, <1>5, <1>6, <1>7, <1>8 DEF ReloadTypeOK, Lookups, Watchers

LEMMA TearTyped ==
    ASSUME lookup \in [Requests -> Lookups], Tear
    PROVE  lookup' \in [Requests -> Lookups]
<1> SUFFICES ASSUME NEW r \in Requests
             PROVE  [lookup[r] EXCEPT !.torn = @ \/ lookup[r].at = "searching"] \in Lookups
  BY DEF Tear
<1>1. (lookup[r].torn \/ lookup[r].at = "searching") \in BOOLEAN
  OBVIOUS
<1>2. lookup[r] \in Lookups
  OBVIOUS
<1> QED
  BY <1>1, <1>2 DEF Lookups

\* The clock, the editor and the main thread keep the state well formed.
LEMMA OutsideTyped ==
    ASSUME ReloadTypeOK, Tick \/ Edit \/ MainThread
    PROVE  ReloadTypeOK'
<1>1. CASE Tick
  BY <1>1, ReloadAssumption DEF Tick, watcherVars, ReloadTypeOK
<1>2. CASE Edit
  <2>1. /\ edits' \in 0 .. MaxEdits
        /\ UNCHANGED <<now, config_, routes_, last_mtime_, running_, watcher, to_add, lookup>>
    BY <1>2, ReloadAssumption DEF Edit, ReloadTypeOK, watcherVars
  <2>2. /\ file' \in [content : Configs \cup {Broken, Absent}, mtime : 0 .. now]
        /\ file'.content = Absent <=> file'.mtime = 0
    BY <1>2, ReloadAssumption DEF Edit, ReloadTypeOK
  <2> QED
    BY <2>1, <2>2 DEF ReloadTypeOK
<1>3. CASE ConfigWatcher
  BY <1>3 DEF ConfigWatcher, fileVars, ReloadTypeOK, At
<1>4. CASE start
  BY <1>4 DEF start, fileVars, ReloadTypeOK, At
<1>5. CASE stop
  BY <1>5 DEF stop, fileVars, ReloadTypeOK
<1>6. CASE join
  BY <1>6 DEF join, fileVars, ReloadTypeOK, At
<1> QED
  BY <1>1, <1>2, <1>3, <1>4, <1>5, <1>6 DEF MainThread

\* What a step of the watcher thread has to establish.
LEMMA WatcherKeepsType ==
    ASSUME ReloadTypeOK, UNCHANGED <<now, file, edits>>,
           config_' \in Configs, routes_' \in Seq(Rules), to_add' \in Seq(Rules),
           last_mtime_' \in 0 .. now, running_' = running_,
           watcher' \in Watchers, watcher'.at \notin {"unborn", "none"},
           lookup' \in [Requests -> Lookups]
    PROVE  ReloadTypeOK'
  BY DEF ReloadTypeOK, Watchers, Lookups

LEMMA WatcherTyped == ASSUME ReloadTypeOK, WatcherThread PROVE ReloadTypeOK'
<1>0. /\ config_ \in Configs /\ routes_ \in Seq(Rules) /\ to_add \in Seq(Rules)
      /\ last_mtime_ \in 0 .. now /\ file \in [content : Configs \cup {Broken, Absent}, mtime : 0 .. now]
      /\ watcher \in Watchers /\ lookup \in [Requests -> Lookups]
  BY DEF ReloadTypeOK, Watchers, Lookups
<1>8. CASE PollStarts
  <2>1. watcher' \in Watchers /\ watcher'.at = "stat"
    BY <1>8 DEF PollStarts, At, Watchers
  <2> QED
    BY <1>0, <1>8, <2>1, WatcherKeepsType DEF PollStarts, fileVars
<1>9. CASE PollSeesNothing
  <2>1. watcher' \in Watchers /\ watcher'.at = "polling"
    BY <1>9 DEF PollSeesNothing, At, Watchers
  <2> QED
    BY <1>0, <1>9, <2>1, WatcherKeepsType DEF PollSeesNothing, fileVars
<1>1. CASE PollSeesChange
  <2>1. watcher' \in Watchers /\ watcher'.at = "opening" /\ last_mtime_' \in 0 .. now
    BY <1>0, <1>1 DEF PollSeesChange, At, Watchers
  <2> QED
    BY <1>0, <1>1, <2>1, WatcherKeepsType DEF PollSeesChange, fileVars
<1>2. CASE PollEnds
  <2>1. watcher' \in Watchers /\ watcher'.at = "ended"
    BY <1>2 DEF PollEnds, At, Watchers
  <2> QED
    BY <1>0, <1>2, <2>1, WatcherKeepsType DEF PollEnds, fileVars
<1>3. CASE LoadSucceeds
  <2>1. watcher' \in Watchers /\ watcher'.at = "loaded"
    BY <1>3 DEF LoadSucceeds, Loaded, Watchers
  <2> QED
    BY <1>0, <1>3, <2>1, WatcherKeepsType DEF LoadSucceeds, fileVars
<1>4. CASE LoadFails
  <2>1. watcher' \in Watchers /\ watcher'.at = "polling"
    BY <1>4 DEF LoadFails, At, Watchers
  <2> QED
    BY <1>0, <1>4, <2>1, WatcherKeepsType DEF LoadFails, fileVars
<1>5. CASE ApplyClears
  <2>1. watcher' \in Watchers /\ watcher'.at = "adding"
    BY <1>5 DEF ApplyClears, At, Watchers
  <2>2. config_' \in Configs
    BY <1>0, <1>5 DEF ApplyClears, At, Loaded, Watchers
  <2>3. to_add' \in Seq(Rules) /\ routes_' \in Seq(Rules)
    BY <1>5, <2>2, ReloadAssumption DEF ApplyClears, clear_routes
  <2>4. lookup' \in [Requests -> Lookups]
    BY <1>0, <1>5, TearTyped DEF ApplyClears
  <2> QED
    BY <1>0, <1>5, <2>1, <2>2, <2>3, <2>4, WatcherKeepsType DEF ApplyClears, fileVars
<1>6. CASE ApplyAdds
  <2>1. Head(to_add) \in Rules /\ to_add' \in Seq(Rules) /\ add_route(Head(to_add))
    BY <1>0, <1>6, HeadTailProperties DEF ApplyAdds
  <2>2. routes_' \in Arrangements(Append(routes_, Head(to_add)))
    BY <2>1 DEF add_route, sort
  <2>3. Append(routes_, Head(to_add)) \in Seq(Rules)
    BY <1>0, <2>1
  <2>4. routes_' \in Seq(Rules)
    BY <2>2, <2>3, ArrangementIsSeq
  <2>5. lookup' \in [Requests -> Lookups]
    BY <1>0, <1>6, TearTyped DEF ApplyAdds
  <2> QED
    BY <1>0, <1>6, <2>1, <2>4, <2>5, WatcherKeepsType DEF ApplyAdds, fileVars
<1>7. CASE ApplyEnds
  <2>1. watcher' \in Watchers /\ watcher'.at = "polling"
    BY <1>7 DEF ApplyEnds, At, Watchers
  <2> QED
    BY <1>0, <1>7, <2>1, WatcherKeepsType DEF ApplyEnds, fileVars
<1> QED
  BY <1>1, <1>2, <1>3, <1>4, <1>5, <1>6, <1>7, <1>8, <1>9 DEF WatcherThread

LEMMA LookupTyped ==
    ASSUME ReloadTypeOK, NEW r \in Requests,
           SearchStarts(r) \/ SearchEnds(r) \/ SearchTorn(r) \/ ReadTimeout(r)
    PROVE  ReloadTypeOK'
<1>0. lookup \in [Requests -> Lookups] /\ config_ \in Configs
  BY DEF ReloadTypeOK, Lookups
<1>1. lookup' \in [Requests -> Lookups]
  <2>1. CASE SearchStarts(r)
    <3>1. PICK path \in Paths : lookup' = [lookup EXCEPT ![r] =
              [@ EXCEPT !.at = "searching", !.path = path, !.config = IF LockHeld THEN Absent ELSE config_]]
      BY <2>1 DEF SearchStarts
    <3>2. (IF LockHeld THEN Absent ELSE config_) \in Configs \cup {Absent}
      BY <1>0
    <3> QED
      BY <1>0, <3>1, <3>2 DEF Lookups
  <2>2. ASSUME NEW found \in Rules \cup {NoRoute}, Found(r, found) PROVE lookup' \in [Requests -> Lookups]
    BY <1>0, <2>2 DEF Found, Lookups
  <2>3. CASE ReadTimeout(r)
    BY <1>0, <2>3 DEF ReadTimeout, Lookups
  <2> QED
    BY <2>1, <2>2, <2>3 DEF SearchEnds, SearchTorn
<1>2. UNCHANGED <<now, file, edits, config_, routes_, last_mtime_, running_, watcher, to_add>>
  BY DEF SearchStarts, SearchEnds, SearchTorn, ReadTimeout, Found, fileVars, watcherVars
<1> QED
  BY <1>1, <1>2 DEF ReloadTypeOK, Lookups

LEMMA ReloadTypeStep == ReloadTypeOK /\ [ReloadNext]_reloadVars => ReloadTypeOK'
<1>1. ASSUME ReloadTypeOK, UNCHANGED reloadVars PROVE ReloadTypeOK'
  BY <1>1 DEF reloadVars, fileVars, watcherVars, ReloadTypeOK
<1> QED
  BY <1>1, OutsideTyped, WatcherTyped, LookupTyped DEF ReloadNext

\* The files, the router and the watcher hold what they may hold.
THEOREM ReloadTyped == ReloadSpec => []ReloadTypeOK
  BY ReloadTypeInit, ReloadTypeStep, PTL DEF ReloadSpec

-----------------------------------------------------------------------------
(* The routes and the searches.                                            *)

\* Inside apply_config the routes that are there and those still to come are
\* those of the file; outside of it they all are there.
RoutesInv ==
    IF LockHeld THEN ByPriority(routes_) /\ routes_ \o to_add \in Arrangements(RoutesOf[config_])
                ELSE routes_ \in sort(RoutesOf[config_])

\* A search that read a configuration and was not torn still has it.
SearchInv ==
    \A r \in Requests :
        lookup[r].at = "searching" /\ ~lookup[r].torn /\ lookup[r].config # Absent =>
            ~LockHeld /\ config_ = lookup[r].config

ReloadInv == ReloadTypeOK /\ RoutesInv /\ SearchInv /\ QuietSearchIsRight

LEMMA ReloadInvInit == ReloadInit => ReloadInv
<1> SUFFICES ASSUME ReloadInit PROVE ReloadInv
  OBVIOUS
<1>1. RoutesInv
  BY DEF ReloadInit, RoutesInv, LockHeld, At
<1>2. \A r \in Requests : lookup[r].at = "queued"
  BY DEF ReloadInit, NotYet
<1> QED
  BY <1>1, <1>2, ReloadTypeInit DEF ReloadInv, SearchInv, QuietSearchIsRight

\* The routes are written to by apply_config alone.
LEMMA RoutesStep == ReloadInv /\ [ReloadNext]_reloadVars => RoutesInv'
<1> SUFFICES ASSUME ReloadTypeOK, RoutesInv, [ReloadNext]_reloadVars PROVE RoutesInv'
  BY DEF ReloadInv
<1>1. ASSUME UNCHANGED <<config_, routes_, to_add>>, LockHeld' <=> LockHeld PROVE RoutesInv'
  BY <1>1 DEF RoutesInv
<1>2. CASE \/ Tick \/ Edit \/ MainThread \/ UNCHANGED reloadVars
           \/ \E r \in Requests : SearchStarts(r) \/ SearchEnds(r) \/ SearchTorn(r) \/ ReadTimeout(r)
  <2>1. UNCHANGED <<config_, routes_, to_add>>
    BY <1>2 DEF Tick, Edit, MainThread, ConfigWatcher, start, stop, join, SearchStarts, SearchEnds,
       SearchTorn, Found, ReadTimeout, reloadVars, watcherVars
  <2>2. watcher' = watcher \/ (watcher.at # "adding" /\ watcher'.at # "adding")
    <3>1. CASE MainThread
      BY <3>1 DEF MainThread, ConfigWatcher, start, stop, join, At
    <3>2. CASE Tick \/ Edit \/ UNCHANGED reloadVars
      BY <3>2 DEF Tick, Edit, reloadVars, watcherVars
    <3>3. CASE \E r \in Requests : SearchStarts(r) \/ SearchEnds(r) \/ SearchTorn(r) \/ ReadTimeout(r)
      BY <3>3 DEF SearchStarts, SearchEnds, SearchTorn, Found, ReadTimeout, watcherVars
    <3> QED
      BY <1>2, <3>1, <3>2, <3>3
  <2> QED
    BY <1>1, <2>1, <2>2 DEF LockHeld
<1>3. CASE PollStarts \/ PollSeesChange \/ PollSeesNothing \/ PollEnds \/ LoadSucceeds \/ LoadFails
  BY <1>1, <1>3 DEF PollStarts, PollSeesChange, PollSeesNothing, PollEnds, LoadSucceeds, LoadFails, LockHeld, At, Loaded
<1>4. CASE ApplyClears
  <2>1. /\ routes_' = <<>> /\ to_add' = RoutesOf[config_'] /\ LockHeld'
        /\ config_' \in Configs
    BY <1>4, ReloadTypeStep DEF ApplyClears, clear_routes, LockHeld, At, ReloadNext, WatcherThread, ReloadTypeOK
  <2>2. to_add' \in Seq(Rules) /\ RoutesOf[config_'] \in Seq(Rules)
    BY <2>1, ReloadAssumption
  <2>3. routes_' \o to_add' = RoutesOf[config_']
    BY <2>1, <2>2
  <2>4. routes_' \o to_add' \in Arrangements(RoutesOf[config_'])
    BY <2>2, <2>3, ArrangementReflexive
  <2>5. ByPriority(routes_')
    BY <2>1 DEF ByPriority
  <2> QED
    BY <2>1, <2>4, <2>5 DEF RoutesInv
<1>5. CASE ApplyAdds
  <2>1. /\ LockHeld /\ LockHeld' /\ config_' = config_ /\ to_add # <<>> /\ to_add' = Tail(to_add)
        /\ add_route(Head(to_add))
    BY <1>5 DEF ApplyAdds, LockHeld
  <2>2. /\ routes_ \in Seq(Rules) /\ to_add \in Seq(Rules) /\ RoutesOf[config_] \in Seq(Rules)
        /\ routes_ \o to_add \in Arrangements(RoutesOf[config_])
    BY <2>1, ReloadAssumption DEF ReloadTypeOK, RoutesInv
  <2>3. ByPriority(routes_') /\ routes_' \o Tail(to_add) \in Arrangements(RoutesOf[config_])
    BY <2>1, <2>2, AddKeepsRules
  <2> QED
    BY <2>1, <2>3 DEF RoutesInv
<1>6. CASE ApplyEnds
  <2>1. /\ LockHeld /\ ~LockHeld' /\ to_add = <<>> /\ UNCHANGED <<config_, routes_>>
    BY <1>6 DEF ApplyEnds, LockHeld, At
  <2>2. routes_ \o to_add = routes_
    BY <2>1 DEF ReloadTypeOK
  <2> QED
    BY <2>1, <2>2 DEF RoutesInv, sort
<1> QED
  BY <1>2, <1>3, <1>4, <1>5, <1>6 DEF ReloadNext, WatcherThread

\* A reload tears every search that is under way.
LEMMA SearchStep == ReloadInv /\ [ReloadNext]_reloadVars => SearchInv'
<1> SUFFICES ASSUME ReloadTypeOK, SearchInv, [ReloadNext]_reloadVars PROVE SearchInv'
  BY DEF ReloadInv
<1>1. CASE ApplyClears \/ ApplyAdds
  <2>1. \A r \in Requests : lookup'[r].at = "searching" => lookup'[r].torn
    <3> TAKE r \in Requests
    <3>1. lookup'[r] = [lookup[r] EXCEPT !.torn = @ \/ lookup[r].at = "searching"]
      BY <1>1 DEF ApplyClears, ApplyAdds, Tear
    <3>2. lookup[r] \in Lookups
      BY DEF ReloadTypeOK, Lookups
    <3>3. lookup'[r].at = lookup[r].at /\ lookup'[r].torn = (lookup[r].torn \/ lookup[r].at = "searching")
      BY <3>1, <3>2 DEF Lookups
    <3> QED
      BY <3>3
  <2> QED
    BY <2>1 DEF SearchInv
<1>2. CASE UNCHANGED <<config_, lookup>> /\ (LockHeld' => LockHeld)
  BY <1>2 DEF SearchInv
<1>3. CASE Tick \/ Edit \/ MainThread \/ UNCHANGED reloadVars
  BY <1>2, <1>3 DEF Tick, Edit, MainThread, ConfigWatcher, start, stop, join,
     reloadVars, fileVars, watcherVars, LockHeld, At
<1>4. CASE PollStarts \/ PollSeesChange \/ PollSeesNothing \/ PollEnds \/ LoadSucceeds \/ LoadFails \/ ApplyEnds
  BY <1>2, <1>4 DEF PollStarts, PollSeesChange, PollSeesNothing, PollEnds, LoadSucceeds, LoadFails, ApplyEnds, LockHeld, At, Loaded
<1>5. ASSUME NEW r \in Requests, SearchStarts(r) \/ SearchEnds(r) \/ SearchTorn(r) \/ ReadTimeout(r)
      PROVE  SearchInv'
  <2>1. UNCHANGED <<config_, watcher>>
    BY <1>5 DEF SearchStarts, SearchEnds, SearchTorn, ReadTimeout, Found, watcherVars
  <2>2. \A other \in Requests \ {r} : lookup'[other] = lookup[other]
    BY <1>5 DEF SearchStarts, SearchEnds, SearchTorn, ReadTimeout, Found, ReloadTypeOK
  <2>3. lookup'[r].at = "searching" => lookup'[r].config = IF LockHeld THEN Absent ELSE config_
    <3>0. lookup \in [Requests -> Lookups]
      BY DEF ReloadTypeOK, Lookups
    <3>1. CASE SearchStarts(r)
      BY <3>0, <3>1 DEF SearchStarts, Lookups
    <3>2. CASE SearchEnds(r) \/ SearchTorn(r)
      <4>1. lookup'[r].at = "matched"
        BY <3>0, <3>2 DEF SearchEnds, SearchTorn, Found, Lookups
      <4> QED
        BY <4>1
    <3>3. CASE ReadTimeout(r)
      <4>1. lookup'[r].at = "forwarding"
        BY <3>0, <3>3 DEF ReadTimeout, Lookups
      <4> QED
        BY <4>1
    <3> QED
      BY <1>5, <3>1, <3>2, <3>3
  <2> QED
    BY <2>1, <2>2, <2>3 DEF SearchInv, LockHeld
<1> QED
  BY <1>1, <1>3, <1>4, <1>5 DEF ReloadNext, WatcherThread

\* QuietSearchIsRight, of one request.
SearchIsRight(r) ==
    lookup[r].at \in {"matched", "forwarding"} /\ ~lookup[r].torn /\ lookup[r].config # Absent =>
        LET found == lookup[r].found
            choices == Candidates(lookup[r].config, lookup[r].path) IN
        IF choices = {} THEN found = NoRoute
        ELSE found \in choices /\ \A other \in choices : found.priority <= other.priority

LEMMA QuietStep == ReloadInv /\ [ReloadNext]_reloadVars => QuietSearchIsRight'
<1> SUFFICES ASSUME ReloadInv, [ReloadNext]_reloadVars, NEW r \in Requests PROVE SearchIsRight(r)'
  BY DEF QuietSearchIsRight, SearchIsRight
<1>0. SearchIsRight(r) /\ lookup \in [Requests -> Lookups]
  BY DEF ReloadInv, QuietSearchIsRight, SearchIsRight, ReloadTypeOK, Lookups
<1>1. CASE lookup'[r] = lookup[r]
  BY <1>0, <1>1 DEF SearchIsRight
<1>2. CASE Tear
  <2>1. lookup'[r] = [lookup[r] EXCEPT !.torn = @ \/ lookup[r].at = "searching"]
    BY <1>2 DEF Tear
  <2>2. lookup[r].at \in {"matched", "forwarding"} => lookup'[r] = lookup[r]
    BY <1>0, <2>1 DEF Lookups
  <2>3. lookup'[r].at = lookup[r].at
    BY <1>0, <2>1 DEF Lookups
  <2> QED
    BY <1>1, <2>2, <2>3 DEF SearchIsRight
<1>3. CASE UNCHANGED lookup
  BY <1>1, <1>3
<1>4. ASSUME NEW other \in Requests \ {r},
             SearchStarts(other) \/ SearchEnds(other) \/ SearchTorn(other) \/ ReadTimeout(other)
      PROVE  lookup'[r] = lookup[r]
  BY <1>0, <1>4 DEF SearchStarts, SearchEnds, SearchTorn, ReadTimeout, Found
<1>5. CASE SearchStarts(r)
  <2>1. lookup'[r].at = "searching"
    BY <1>0, <1>5 DEF SearchStarts, Lookups
  <2> QED
    BY <2>1 DEF SearchIsRight
<1>6. CASE SearchTorn(r)
  <2>1. lookup'[r].torn
    BY <1>0, <1>6 DEF SearchTorn, Found, Lookups
  <2> QED
    BY <2>1 DEF SearchIsRight
<1>7. CASE ReadTimeout(r)
  <2>1. /\ lookup[r].at = "matched" /\ lookup'[r].path = lookup[r].path /\ lookup'[r].config = lookup[r].config
        /\ lookup'[r].torn = lookup[r].torn /\ lookup'[r].found = lookup[r].found
    BY <1>0, <1>7 DEF ReadTimeout, Lookups
  <2> QED
    BY <1>0, <2>1 DEF SearchIsRight
<1>8. CASE SearchEnds(r)
  <2>1. PICK found \in Rules \cup {NoRoute} : match_route(lookup[r].path, found) /\ Found(r, found)
    BY <1>8 DEF SearchEnds
  <2>2. /\ lookup[r].at = "searching" /\ lookup'[r].path = lookup[r].path /\ lookup'[r].config = lookup[r].config
        /\ lookup'[r].torn = lookup[r].torn /\ lookup'[r].found = found
    BY <1>0, <1>8, <2>1 DEF SearchEnds, Found, Lookups
  <2>3. SUFFICES ASSUME ~lookup[r].torn, lookup[r].config # Absent PROVE SearchIsRight(r)'
    BY <2>2 DEF SearchIsRight
  <2>4. config_ = lookup[r].config /\ routes_ \in sort(RoutesOf[config_]) /\ RoutesOf[config_] \in Seq(Rules)
    BY <2>2, <2>3, ReloadAssumption DEF ReloadInv, SearchInv, RoutesInv, ReloadTypeOK
  <2> DEFINE choices == Candidates(config_, lookup[r].path)
  <2>5. IF choices = {} THEN found = NoRoute
        ELSE found \in choices /\ \A other \in choices : found.priority <= other.priority
    BY <2>1, <2>4, FirstMatchIsLeast DEF Candidates
  <2> QED
    BY <2>2, <2>4, <2>5 DEF SearchIsRight
<1>9. CASE \E other \in Requests :
               SearchStarts(other) \/ SearchEnds(other) \/ SearchTorn(other) \/ ReadTimeout(other)
  BY <1>1, <1>4, <1>5, <1>6, <1>7, <1>8, <1>9
<1>10. CASE WatcherThread
  BY <1>2, <1>3, <1>10 DEF WatcherThread, PollStarts, PollSeesChange, PollSeesNothing, PollEnds, LoadSucceeds, LoadFails,
     ApplyClears, ApplyAdds, ApplyEnds
<1>11. CASE Tick \/ Edit \/ MainThread \/ UNCHANGED reloadVars
  BY <1>3, <1>11 DEF Tick, Edit, MainThread, ConfigWatcher, start, stop, join, reloadVars
<1> QED
  BY <1>9, <1>10, <1>11 DEF ReloadNext

THEOREM ReloadInvariant == ReloadSpec => []ReloadInv
<1>1. ReloadInv /\ [ReloadNext]_reloadVars => ReloadInv'
  BY ReloadTypeStep, RoutesStep, SearchStep, QuietStep DEF ReloadInv
<1> QED
  BY ReloadInvInit, <1>1, PTL DEF ReloadSpec

-----------------------------------------------------------------------------
(* What the runs check of it.                                              *)

\* Outside apply_config the router holds the routes of the configuration in
\* force, all of them and no others, sorted by priority, however often and
\* whenever the file was changed (gateway.cpp:192-203).
THEOREM RoutesFollow == ReloadSpec => []RoutesFollowConfig
<1>1. ReloadInv => RoutesFollowConfig
  BY DEF ReloadInv, RoutesInv, RoutesFollowConfig, SortedRoutes, ReloadTypeOK
<1> QED
  BY <1>1, ReloadInvariant, PTL

\* A search that no reload overlaps finds the rule of least priority of those
\* of the configuration in force that match (request_router.cpp:5-25).
THEOREM QuietSearches == ReloadSpec => []QuietSearchIsRight
<1>1. ReloadInv => QuietSearchIsRight
  BY DEF ReloadInv
<1> QED
  BY <1>1, ReloadInvariant, PTL
=============================================================================
