-------------------------- MODULE LoadBalancerProofs --------------------------
(***************************************************************************)
(* What holds of the load balancer for any routes, any number of callers   *)
(* and any width of the counter.                                           *)
(***************************************************************************)
EXTENDS LoadBalancer, TLAPS

\* The initial state of the load balancer is well formed.
LEMMA BalancerTypeInit == BalancerInit => BalancerTypeOK
  BY BalancerAssumption DEF BalancerInit, BalancerTypeOK

\* A step of the load balancer keeps its state well formed: the copies of a
\* route hold positions of it, and the counter stays below its modulus.
LEMMA BalancerTypeStep == BalancerTypeOK /\ [BalancerNext]_balancerVars => BalancerTypeOK'
<1> SUFFICES ASSUME BalancerTypeOK, [BalancerNext]_balancerVars PROVE BalancerTypeOK'
  OBVIOUS
<1> USE BalancerAssumption DEF BalancerTypeOK
<1>1. ASSUME NEW c \in Requests, FilterHealthy(c) PROVE BalancerTypeOK'
  <2>1. HealthyOf(c) \in SUBSET Nat /\ HealthyOf(c) \subseteq Positions(c)
    BY DEF HealthyOf, Positions
  <2> QED
    BY <1>1, <2>1 DEF FilterHealthy
<1>2. ASSUME NEW c \in Requests, NEW b \in Backends, TakeIndex(c, b) PROVE BalancerTypeOK'
  <2>1. (round_robin_index_ + 1) % IndexModulus \in 0 .. IndexModulus - 1
    OBVIOUS
  <2> QED
    BY <1>2, <2>1 DEF TakeIndex
<1>3. ASSUME NEW b \in Backends, mark_backend_unhealthy(b) \/ mark_backend_healthy(b)
      PROVE BalancerTypeOK'
  BY <1>3 DEF mark_backend_unhealthy, mark_backend_healthy
<1>4. ASSUME UNCHANGED balancerVars PROVE BalancerTypeOK'
  BY <1>4 DEF balancerVars
<1> QED
  BY <1>1, <1>2, <1>3, <1>4 DEF BalancerNext, NoneHealthy

\* The states of the load balancer are well formed.
THEOREM BalancerTyped == BalancerSpec => []BalancerTypeOK
  BY BalancerTypeInit, BalancerTypeStep, PTL DEF BalancerSpec

\* No call of select_backend that filters the backends while b is marked
\* unhealthy can return b.
THEOREM SkipsUnhealthy == BalancerSpec => UnhealthyIsSkipped
<1>1. ASSUME BalancerTypeOK, [BalancerNext]_balancerVars, NEW b \in Backends, ~backend_health_[b]
      PROVE Holders(b)' \subseteq Holders(b)
  <2> SUFFICES ASSUME NEW d \in Requests, NEW i \in healthy_backends'[d], Route[d][i] = b
               PROVE i \in healthy_backends[d]
    BY DEF Holders
  <2> USE <1>1 DEF BalancerTypeOK
  <2>1. CASE \E c \in Requests : FilterHealthy(c)
    <3> PICK c \in Requests : FilterHealthy(c)
      BY <2>1
    <3>1. CASE c = d
      <4>1. i \in HealthyOf(d)
        BY <3>1 DEF FilterHealthy
      <4> QED
        BY <4>1 DEF HealthyOf, is_backend_healthy
    <3>2. CASE c # d
      BY <3>2 DEF FilterHealthy
    <3> QED
      BY <3>1, <3>2
  <2>2. CASE \E c \in Requests, e \in Backends : TakeIndex(c, e)
    BY <2>2 DEF TakeIndex
  <2>3. CASE UNCHANGED healthy_backends
    BY <2>3
  <2> QED
    BY <2>1, <2>2, <2>3 DEF BalancerNext, balancerVars, NoneHealthy, mark_backend_unhealthy, mark_backend_healthy
<1>2. BalancerTypeOK /\ [BalancerNext]_balancerVars
        => [\A b \in Backends : ~backend_health_[b] => Holders(b)' \subseteq Holders(b)]_balancerVars
  BY <1>1
<1> QED
  BY <1>2, BalancerTyped, PTL DEF BalancerSpec, UnhealthyIsSkipped
=============================================================================
