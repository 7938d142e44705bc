----------------------------- MODULE LoadBalancer -----------------------------
(***************************************************************************)
(* The load balancer of the gateway (src/load_balancer.cpp).               *)
(*                                                                         *)
(* select_backend is two steps: under health_mutex_ it copies the healthy  *)
(* backends of the route into a local vector, and after the unlock it      *)
(* takes an index from the round-robin counter that all routes share. Any  *)
(* number of requests may be between the two. The local vector is kept as  *)
(* the set of positions it was copied from, which preserves its order.     *)
(***************************************************************************)
EXTENDS Naturals, Sequences, FiniteSets, GatewayRequests

CONSTANTS Backends,     \* the backend URLs
          Route,        \* Route[c]: the vector of backends of the route of request c
          IndexModulus  \* the number of values of size_t: 2^64 in the code

ASSUME BalancerAssumption ==
    /\ Route \in [Requests -> Seq(Backends)]
    /\ IndexModulus \in Nat \ {0}

VARIABLES
    backend_health_,    \* backend_health_[b]: FALSE once b is marked unhealthy; an unmarked b is TRUE
    round_robin_index_, \* the counter of all selections, modulo IndexModulus
    healthy_backends    \* healthy_backends[c]: the local vector of request c, {} outside the call

balancerVars == <<backend_health_, round_robin_index_, healthy_backends>>

Positions(c) == 1 .. Len(Route[c])

BalancerTypeOK ==
    /\ backend_health_ \in [Backends -> BOOLEAN]
    /\ round_robin_index_ \in 0 .. IndexModulus - 1
    /\ healthy_backends \in [Requests -> SUBSET Nat]
    /\ \A c \in Requests : healthy_backends[c] \subseteq Positions(c)

BalancerInit ==
    /\ backend_health_ = [b \in Backends |-> TRUE]
    /\ round_robin_index_ = 0
    /\ healthy_backends = [c \in Requests |-> {}]

is_backend_healthy(b) == backend_health_[b]

\* Mutant: the health of the backends is not looked at.
HealthIgnored(c) == Positions(c)

HealthyOf(c) == {i \in Positions(c) : is_backend_healthy(Route[c][i])}

\* The first half of select_backend copies the healthy backends of the route.
FilterHealthy(c) ==
    /\ healthy_backends[c] = {}
    /\ HealthyOf(c) # {}
    /\ healthy_backends' = [healthy_backends EXCEPT ![c] = HealthyOf(c)]
    /\ UNCHANGED <<backend_health_, round_robin_index_>>

\* The route is empty or none of its backends is healthy: std::nullopt.
NoneHealthy(c) ==
    /\ healthy_backends[c] = {}
    /\ HealthyOf(c) = {}
    /\ UNCHANGED balancerVars

\* healthy_backends[index % healthy_backends.size()] is the backend b.
IsAt(c, index, b) ==
    \E i \in healthy_backends[c] :
        /\ Cardinality({j \in healthy_backends[c] : j < i}) = index % Cardinality(healthy_backends[c])
        /\ b = Route[c][i]

\* Mutant: the index is loaded and stored, so another caller may take it too.
IndexLost(c, b) ==
    /\ IsAt(c, round_robin_index_, b)
    /\ round_robin_index_' \in {round_robin_index_, (round_robin_index_ + 1) % IndexModulus}
    /\ healthy_backends' = [healthy_backends EXCEPT ![c] = {}]
    /\ UNCHANGED backend_health_

\* The second half: take an index with fetch_add and return backend b.
TakeIndex(c, b) ==
    /\ IsAt(c, round_robin_index_, b)
    /\ round_robin_index_' = (round_robin_index_ + 1) % IndexModulus
    /\ healthy_backends' = [healthy_backends EXCEPT ![c] = {}]
    /\ UNCHANGED backend_health_

mark_backend_unhealthy(b) ==
    /\ backend_health_' = [backend_health_ EXCEPT ![b] = FALSE]
    /\ UNCHANGED <<round_robin_index_, healthy_backends>>

mark_backend_healthy(b) ==
    /\ backend_health_' = [backend_health_ EXCEPT ![b] = TRUE]
    /\ UNCHANGED <<round_robin_index_, healthy_backends>>

BalancerNext ==
    \/ \E c \in Requests : FilterHealthy(c) \/ NoneHealthy(c)
    \/ \E c \in Requests, b \in Backends : TakeIndex(c, b)
    \/ \E b \in Backends : mark_backend_unhealthy(b) \/ mark_backend_healthy(b)

BalancerSpec == BalancerInit /\ [][BalancerNext]_balancerVars

-----------------------------------------------------------------------------
(* Properties.                                                             *)

\* The calls of select_backend that may still return b.
Holders(b) == {c \in Requests : \E i \in healthy_backends[c] : Route[c][i] = b}

\* An unhealthy backend is skipped: while b stays marked unhealthy, only calls
\* that had copied the healthy backends before the mark may still return it,
\* and no further call joins them (load_balancer.cpp:15-25).
UnhealthyIsSkipped ==
    [][\A b \in Backends :
        ~backend_health_[b] => Holders(b)' \subseteq Holders(b)]_balancerVars
=============================================================================
