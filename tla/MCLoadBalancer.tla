---------------------------- MODULE MCLoadBalancer ----------------------------
(***************************************************************************)
(* The load balancer with a history of the backends it returned, to state  *)
(* what round robin promises. Every request calls select_backend again and *)
(* again. The history begins anew when the health of a backend changes and *)
(* when a call returns from a vector that was copied before such a change. *)
(***************************************************************************)
EXTENDS LoadBalancer

CONSTANTS MarksAllowed, \* whether backends are marked at all
          MaxServed     \* how many of the last selections the history keeps

VARIABLE served         \* the last backends returned, in the order of fetch_add

mcVars == <<backend_health_, round_robin_index_, healthy_backends, served>>

MCInit == BalancerInit /\ served = <<>>

LastOf(s) == IF Len(s) > MaxServed THEN Tail(s) ELSE s

Serve(c, b) ==
    /\ TakeIndex(c, b)
    /\ served' = IF healthy_backends[c] = HealthyOf(c)
                 THEN LastOf(Append(served, <<Route[c], b>>)) ELSE <<>>

MCNext ==
    \/ \E c \in Requests : (FilterHealthy(c) \/ NoneHealthy(c)) /\ UNCHANGED served
    \/ \E c \in Requests, b \in Backends : Serve(c, b)
    \/ /\ MarksAllowed
       /\ \E b \in Backends : mark_backend_unhealthy(b) \/ mark_backend_healthy(b)
       /\ served' = IF backend_health_' = backend_health_ THEN served ELSE <<>>

MCSpec == MCInit /\ [][MCNext]_mcVars

\* Of the last selections for a route with n healthy backends, any n that
\* follow each other are n different backends, whatever calls overlap
\* (load_balancer.cpp:36-37: fetch_add gives every call an index of its own),
\* if n divides the number of values of the counter, which wraps.
ConsecutiveAreDistinct ==
    \A c \in Requests : \A i, j \in DOMAIN served :
        LET n == Cardinality(HealthyOf(c))
            turns == Cardinality({m \in i .. j - 1 : served[m][1] = Route[c]})
        IN  /\ i < j /\ served[i][1] = Route[c] /\ served[j][1] = Route[c]
            /\ turns < n /\ IndexModulus % n = 0
            => served[i][2] # served[j][2]

\* One route for all, and two routes over two backends each.
OneRoute == [c \in Requests |-> <<"b1", "b2">>]
TwoRoutes == [c \in Requests |-> IF c = 1 THEN <<"b1", "b2">> ELSE <<"b3", "b4">>]
=============================================================================
