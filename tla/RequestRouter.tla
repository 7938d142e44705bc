---------------------------- MODULE RequestRouter ----------------------------
(***************************************************************************)
(* The router of the gateway (src/request_router.cpp): a vector of rules,  *)
(* sorted by priority after each addition, searched from the front. It has *)
(* no lock of its own. A path is a short sequence of opaque pieces, of     *)
(* which only equality and the prefix order matter. The backends of a rule *)
(* are left to LoadBalancer.                                               *)
(***************************************************************************)
EXTENDS Naturals, Sequences, SequencesExt, Functions

CONSTANTS Paths,   \* the request paths and patterns
          Rules,   \* [path_pattern, match_type, priority] records
          NoRoute  \* std::nullopt

ASSUME RouterAssumption ==
    /\ Rules \subseteq [path_pattern : Paths, match_type : {"EXACT", "PREFIX"}, priority : Nat]
    /\ NoRoute \notin Rules

VARIABLE routes_

ByPriority(s) == \A i, j \in DOMAIN s : i < j => s[i].priority <= s[j].priority

\* std::sort keeps no order among equals (beyond the few elements that it
\* sorts by insertion): any sorted arrangement of s.
Arrangements(s) == {[i \in DOMAIN s |-> s[p[i]]] : p \in Bijection(DOMAIN s, DOMAIN s)}
sort(s) == {t \in Arrangements(s) : ByPriority(t)}

\* Mutant: the vector is not sorted.
AddedUnsorted(route) == routes_' = Append(routes_, route)

add_route(route) == routes_' \in sort(Append(routes_, route))

clear_routes == routes_' = <<>>

is_match(path, route) ==
    \/ route.match_type = "EXACT" /\ path = route.path_pattern
    \/ route.match_type = "PREFIX" /\ IsPrefix(route.path_pattern, path)

\* The search returns `found'.
match_route(path, found) ==
    LET matching == {i \in DOMAIN routes_ : is_match(path, routes_[i])} IN
    \/ matching = {} /\ found = NoRoute
    \/ \E i \in matching :
          /\ \A j \in matching : i <= j
          /\ found = routes_[i]
=============================================================================
