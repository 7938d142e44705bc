----------------------------- MODULE GatewayProofs -----------------------------
(***************************************************************************)
(* What holds of the gateway for any requests, threads, backends and       *)
(* routes: it uses its client and its load balancer as they are specified, *)
(* its states are well formed, it implements GatewayPromise, a route whose *)
(* backends are all out of service refuses whoever comes, and only a late  *)
(* callback gives a client what belongs to another.                        *)
(***************************************************************************)
EXTENDS Gateway, HttpClientProofs, LoadBalancerProofs

\* A thread of the pool handles one request at a time.
StackInv ==
    \A r \in Requests : phase[r] \in OnStack =>
        /\ home[r] \in Threads /\ worker[home[r]] = Busy
        /\ \A q \in Requests : phase[q] \in OnStack /\ home[q] = home[r] => q = r

\* A request has a backend from the selection on, and the client works only
\* for requests that have one; the flag is set only once forward_request waits.
ForwardInv ==
    \A r \in Requests :
        /\ phase[r] \in {"queued", "routed", "filtered"} => backend_url[r] = NoBackend
        /\ phase[r] \in {"selected", "waiting"} \/ op[r] # "none" => backend_url[r] # NoBackend
        /\ completed[r] => phase[r] \in {"waiting", "answered"}

\* What forward_request answers with when the flag is set: a response, or 502
\* if the backend is marked.
TruthInv ==
    \A r \in Requests : phase[r] = "waiting" /\ completed[r] =>
        \/ response[r].status = "backend"
        \/ response[r].status = "502" /\ ~backend_health_[backend_url[r]]

FrameTypeOK ==
    /\ phase \in [Requests -> RequestPhases]
    /\ home \in [Requests -> Threads \cup {NoThread}]
    /\ backend_url \in [Requests -> Backends \cup {NoBackend}]
    /\ completed \in [Requests -> BOOLEAN]
    /\ response \in [Requests -> Responses]

FrameInv == FrameTypeOK /\ StackInv /\ ForwardInv /\ TruthInv
GatewayInv == ClientInv /\ BalancerTypeOK /\ FrameInv

USE DEF OnStack, RequestPhases

\* An answer is a response, and there is one for every status the gateway
\* makes itself.
LEMMA AnswersAreResponses ==
    /\ \A s \in OwnStatuses : Make(s) \in Responses
    /\ \A r \in Requests : Backend200(r) \in Responses
  BY DEF Responses

-----------------------------------------------------------------------------
(* The gateway uses its parts as they are specified.                       *)

\* Every step of the gateway is a step of the client or leaves it alone: it
\* starts a request once, and gives back only threads it has taken.
LEMMA ClientPart ==
    ASSUME GatewayInv, [GatewayNext]_gatewayVars
    PROVE  [ClientNext]_clientVars
<1>1. ASSUME NEW t \in Threads, NEW r \in Requests, Serve(t, r) PROVE [ClientNext]_clientVars
  <2>1. OtherHandlerTakes(t) \/ UNCHANGED clientVars
    BY <1>1 DEF Serve, RejectRequest, RouteNotFound, RouteFound
  <2> QED
    BY <2>1 DEF ClientNext
<1>2. ASSUME NEW r \in Requests, Proceed(r) PROVE [ClientNext]_clientVars
  <2>1. CASE AllUnavailable(r) \/ WaitCompletes(r) \/ WaitExpires(r)
    <3>1. home[r] \in Threads /\ OtherHandlerReturns(home[r])
      BY <2>1 DEF AllUnavailable, WaitCompletes, WaitExpires, GatewayInv, FrameInv, StackInv
    <3> QED
      BY <3>1 DEF ClientNext
  <2>2. CASE SelectFilters(r) \/ SelectTakesIndex(r)
    BY <2>2 DEF SelectFilters, SelectTakesIndex
  <2>3. CASE ForwardStarts(r) \/ ForwardRejected(r)
    BY <2>3 DEF ForwardStarts, ForwardRejected, ClientNext
  <2> QED
    BY <1>2, <2>1, <2>2, <2>3 DEF Proceed
<1>3. ASSUME NEW t \in Threads, Callback(t) PROVE [ClientNext]_clientVars
  BY <1>3 DEF Callback, CallbackInTime, CallbackHitsOther, CallbackHitsNothing, ClientNext
<1>4. CASE ClientStep
  BY <1>4 DEF ClientStep, ClientNext
<1>5. CASE UNCHANGED gatewayVars
  BY <1>5 DEF gatewayVars
<1> QED
  BY <1>1, <1>2, <1>3, <1>4, <1>5 DEF GatewayNext

\* A callback about to run belongs to a request that was forwarded.
LEMMA CallbackHasBackend ==
    ASSUME GatewayInv, NEW t \in Threads, callback(t)
    PROVE  worker[t].ctx \in Requests /\ backend_url[worker[t].ctx] \in Backends
<1>1. worker[t].ctx \in Requests /\ worker[t].at = "callback"
  BY DEF callback, GatewayInv, ClientInv, ClientTypeOK, Free, Busy, Handlers
<1>2. op[worker[t].ctx] # "none"
  BY <1>1 DEF GatewayInv, ClientInv, ClientTypeOK, OneHandlerEach, FromChain, FromTimer, Consistent
<1> QED
  BY <1>1, <1>2 DEF GatewayInv, FrameInv, ForwardInv, FrameTypeOK

\* A request that waits was forwarded.
LEMMA WaitingHasBackend ==
    ASSUME GatewayInv, NEW r \in Requests, phase[r] \in {"selected", "waiting"}
    PROVE  backend_url[r] \in Backends
  BY DEF GatewayInv, FrameInv, ForwardInv, FrameTypeOK

\* Every step of the gateway is a step of the load balancer or leaves it alone.
LEMMA BalancerPart ==
    ASSUME GatewayInv, [GatewayNext]_gatewayVars
    PROVE  [BalancerNext]_balancerVars
<1>1. ASSUME NEW t \in Threads, NEW r \in Requests, Serve(t, r) PROVE [BalancerNext]_balancerVars
  BY <1>1 DEF Serve, RejectRequest, RouteNotFound, RouteFound
<1>2. ASSUME NEW r \in Requests, NEW q \in Requests, NEW ec, Deliver(r, q, ec),
             backend_url[q] \in Backends
      PROVE  [BalancerNext]_balancerVars
  BY <1>2 DEF Deliver, BalancerNext
<1>3. ASSUME NEW r \in Requests, Proceed(r) PROVE [BalancerNext]_balancerVars
  <2>1. CASE AllUnavailable(r) \/ SelectFilters(r) \/ SelectTakesIndex(r)
    BY <2>1 DEF AllUnavailable, SelectFilters, SelectTakesIndex, BalancerNext
  <2>2. CASE ForwardStarts(r) \/ WaitCompletes(r)
    BY <2>2 DEF ForwardStarts, WaitCompletes
  <2>3. CASE ForwardRejected(r)
    BY <1>2, <2>3, WaitingHasBackend DEF ForwardRejected
  <2>4. CASE WaitExpires(r)
    BY <2>4, WaitingHasBackend DEF WaitExpires, BalancerNext
  <2> QED
    BY <1>3, <2>1, <2>2, <2>3, <2>4 DEF Proceed
<1>4. ASSUME NEW t \in Threads, Callback(t) PROVE [BalancerNext]_balancerVars
  <2>1. CASE CallbackInTime(t)
    BY <1>2, <2>1, CallbackHasBackend DEF CallbackInTime
  <2>2. CASE CallbackHitsOther(t)
    BY <1>2, <2>2, CallbackHasBackend, WaitingHasBackend DEF CallbackHitsOther
  <2>3. CASE CallbackHitsNothing(t)
    BY <2>3, CallbackHasBackend DEF CallbackHitsNothing, BalancerNext
  <2> QED
    BY <1>4, <2>1, <2>2, <2>3 DEF Callback
<1>5. CASE ClientStep \/ UNCHANGED gatewayVars
  BY <1>5 DEF ClientStep, gatewayVars
<1> QED
  BY <1>1, <1>3, <1>4, <1>5 DEF GatewayNext

-----------------------------------------------------------------------------
(* The frames of the requests.                                             *)

\* Before the first request nothing is on a stack.
LEMMA GatewayInvInit == GatewayInit => GatewayInv
<1> SUFFICES ASSUME GatewayInit PROVE GatewayInv
  OBVIOUS
<1>1. ClientInv /\ BalancerTypeOK
  BY ClientInvInit, BalancerTypeInit DEF GatewayInit
<1>2. FrameTypeOK
  BY AnswersAreResponses DEF GatewayInit, FrameTypeOK, OwnStatuses
<1>3. StackInv /\ ForwardInv /\ TruthInv
  BY DEF GatewayInit, ClientInit, StackInv, ForwardInv, TruthInv
<1> QED
  BY <1>1, <1>2, <1>3 DEF GatewayInv, FrameInv

\* The steps of the client that the gateway leaves to it take no thread away
\* from a request on its stack, and start nothing.
LEMMA ClientStepIsQuiet ==
    ASSUME ClientTypeOK, ClientStep
    PROVE  /\ \A t \in Threads : worker[t] = Busy => worker'[t] = Busy
           /\ \A c \in Requests : op'[c] # "none" => op[c] # "none"
<1> USE DEF ClientTypeOK, Free, Busy, Handling
<1>1. CASE \E r \in Requests : NetCompletes(r) \/ TimerExpires(r)
  BY <1>1 DEF NetCompletes, TimerExpires
<1>2. CASE \E t \in Threads : complete(t)
  BY <1>2 DEF complete
<1>3. ASSUME NEW t \in Threads, NEW r \in Requests, Handler(t, r)
      PROVE  /\ \A u \in Threads : worker[u] = Busy => worker'[u] = Busy
             /\ \A c \in Requests : op'[c] # "none" => op[c] # "none"
  <2>1. worker[t] = Free /\ \A u \in Threads : u # t => worker'[u] = worker[u]
    BY <1>3 DEF Handler, IoHandlerLate, IoHandlerAdvances, IoHandlerEnds, handle_timeout, handle_timeout_ignored
  <2>2. op[r] # "none" /\ \A c \in Requests : c # r => op'[c] = op[c]
    BY <1>3 DEF Handler, IoHandlerLate, IoHandlerAdvances, IoHandlerEnds, handle_timeout,
                handle_timeout_ignored, Consistent, Outcomes
  <2> QED
    BY <2>1, <2>2
<1> QED
  BY <1>1, <1>2, <1>3 DEF ClientStep

\* A step that leaves the frames and the backends alone preserves their
\* invariant if it is as quiet as that.
LEMMA FrameInvKept ==
    ASSUME FrameInv, UNCHANGED frameVars,
           \A b \in Backends : backend_health_'[b] => backend_health_[b],
           \A t \in Threads : worker[t] = Busy => worker'[t] = Busy,
           \A c \in Requests : op'[c] # "none" => op[c] # "none"
    PROVE  FrameInv'
<1> USE DEF FrameInv, frameVars
<1>1. FrameTypeOK'
  BY DEF FrameTypeOK
<1>2. StackInv'
  BY DEF StackInv
<1>3. ForwardInv'
  BY DEF ForwardInv
<1>4. TruthInv'
  BY DEF TruthInv, FrameTypeOK, ForwardInv
<1> QED
  BY <1>1, <1>2, <1>3, <1>4

\* So does the handling of a request that is not forwarded ...
LEMMA ServeKeepsFrames ==
    ASSUME GatewayInv, NEW t \in Threads, NEW r \in Requests, Serve(t, r)
    PROVE  FrameInv'
<1> USE DEF FrameInv, GatewayInv
<1>1. CASE RejectRequest(t, r) \/ RouteNotFound(t, r)
  <2>1. FrameTypeOK'
    BY <1>1, AnswersAreResponses DEF RejectRequest, RouteNotFound, Respond, FrameTypeOK, OwnStatuses
  <2>2. StackInv' /\ ForwardInv' /\ TruthInv'
    BY <1>1 DEF RejectRequest, RouteNotFound, Respond, FrameTypeOK, StackInv, ForwardInv, TruthInv,
                clientVars, balancerVars
  <2> QED
    BY <2>1, <2>2
<1>2. CASE RouteFound(t, r)
  <2> USE <1>2 DEF RouteFound, OtherHandlerTakes, FrameTypeOK
  <2>1. FrameTypeOK'
    OBVIOUS
  <2>2. StackInv'
    BY DEF StackInv, Free, Busy, ClientInv, ClientTypeOK
  <2>3. ForwardInv' /\ TruthInv'
    BY DEF ForwardInv, TruthInv, balancerVars
  <2> QED
    BY <2>1, <2>2, <2>3
<1> QED
  BY <1>1, <1>2 DEF Serve

\* ... the choice of its backend ...
LEMMA SelectionKeepsFrames ==
    ASSUME GatewayInv, NEW r \in Requests, SelectFilters(r) \/ SelectTakesIndex(r)
    PROVE  FrameInv'
<1> USE DEF FrameInv, GatewayInv, FrameTypeOK, clientVars
<1>1. CASE SelectFilters(r)
  BY <1>1 DEF SelectFilters, FilterHealthy, StackInv, ForwardInv, TruthInv
<1>2. CASE SelectTakesIndex(r)
  <2> PICK b \in Backends : TakeIndex(r, b) /\ backend_url' = [backend_url EXCEPT ![r] = b]
    BY <1>2 DEF SelectTakesIndex
  <2>1. phase[r] = "filtered" /\ phase' = [phase EXCEPT ![r] = "selected"]
        /\ UNCHANGED <<op, worker, backend_health_, home, completed, response>>
    BY <1>2 DEF SelectTakesIndex, TakeIndex
  <2>2. FrameTypeOK' /\ StackInv'
    BY <2>1 DEF StackInv
  <2>3. ForwardInv' /\ TruthInv'
    BY <2>1, GatewayAssumption DEF ForwardInv, TruthInv
  <2> QED
    BY <2>2, <2>3
<1> QED
  BY <1>1, <1>2

\* ... the answers that end the handler ...
LEMMA AnswerKeepsFrames ==
    ASSUME GatewayInv, NEW r \in Requests,
           AllUnavailable(r) \/ WaitCompletes(r) \/ WaitExpires(r)
    PROVE  FrameInv'
<1> USE DEF FrameInv, GatewayInv, FrameTypeOK
<1>1. PICK resp \in Responses : Respond(r, resp)
  BY AnswersAreResponses DEF AllUnavailable, WaitCompletes, WaitExpires, OwnStatuses
<1>2. phase[r] \in OnStack /\ OtherHandlerReturns(home[r]) /\ UNCHANGED <<home, backend_url, completed>>
  BY DEF AllUnavailable, WaitCompletes, WaitExpires
<1>3. \A b \in Backends : backend_health_'[b] => backend_health_[b]
  BY DEF AllUnavailable, WaitCompletes, WaitExpires, NoneHealthy, balancerVars, mark_backend_unhealthy,
         BalancerTypeOK
<1>4. FrameTypeOK'
  BY <1>1, <1>2 DEF Respond
<1>5. StackInv'
  BY <1>1, <1>2 DEF Respond, OtherHandlerReturns, StackInv, ClientInv, ClientTypeOK
<1>6. ForwardInv'
  BY <1>1, <1>2 DEF Respond, OtherHandlerReturns, ForwardInv
<1>7. TruthInv'
  BY <1>1, <1>2, <1>3 DEF Respond, TruthInv, ForwardInv
<1> QED
  BY <1>4, <1>5, <1>6, <1>7

\* ... the start of the client ...
LEMMA ForwardKeepsFrames ==
    ASSUME GatewayInv, NEW r \in Requests, ForwardStarts(r)
    PROVE  FrameInv'
<1> USE DEF FrameInv, GatewayInv, FrameTypeOK, balancerVars
<1>1. phase[r] = "selected" /\ phase' = [phase EXCEPT ![r] = "waiting"]
      /\ UNCHANGED <<worker, backend_health_, home, backend_url, completed, response>>
  BY DEF ForwardStarts, start
<1>2. \A c \in Requests : c # r => op'[c] = op[c]
  BY DEF ForwardStarts, start, ClientInv, ClientTypeOK
<1>3. FrameTypeOK' /\ StackInv'
  BY <1>1 DEF StackInv
<1>4. ForwardInv' /\ TruthInv'
  BY <1>1, <1>2 DEF ForwardInv, TruthInv
<1> QED
  BY <1>3, <1>4

\* ... and whatever a callback writes into the frame of a request that waits,
\* its own or not: a response, or 502 for a backend it has marked.
LEMMA DeliverKeepsFrames ==
    ASSUME GatewayInv, NEW r \in Requests, NEW q \in Requests, NEW ec, Deliver(r, q, ec),
           phase[q] \in {"selected", "waiting"}, phase' = [phase EXCEPT ![q] = "waiting"],
           UNCHANGED <<home, backend_url>>,
           \A t \in Threads : worker[t] = Busy => worker'[t] = Busy,
           \A c \in Requests : c # q /\ op'[c] # "none" => op[c] # "none"
    PROVE  FrameInv'
<1> USE DEF FrameInv, GatewayInv, FrameTypeOK
<1>1. backend_url[q] \in Backends /\ backend_url[q] # NoBackend
  BY WaitingHasBackend, GatewayAssumption
<1>2. completed' = [completed EXCEPT ![q] = TRUE]
  BY DEF Deliver
<1>3. \A b \in Backends : backend_health_'[b] => backend_health_[b]
  BY <1>1 DEF Deliver, balancerVars, mark_backend_unhealthy, BalancerTypeOK
<1>4. \/ response' = [response EXCEPT ![q] = Backend200(r)]
      \/ response' = [response EXCEPT ![q] = Make("502")] /\ ~backend_health_'[backend_url[q]]
  BY <1>1 DEF Deliver, mark_backend_unhealthy, BalancerTypeOK
<1>5. FrameTypeOK'
  <2>1. response' \in [Requests -> Responses]
    BY <1>4, AnswersAreResponses DEF OwnStatuses
  <2> QED
    BY <1>2, <2>1
<1>6. StackInv'
  BY DEF StackInv
<1>7. ForwardInv'
  BY <1>1, <1>2 DEF ForwardInv
<1>8. TruthInv'
  <2> SUFFICES ASSUME NEW d \in Requests, phase'[d] = "waiting", completed'[d]
               PROVE  \/ response'[d].status = "backend"
                      \/ response'[d].status = "502" /\ ~backend_health_'[backend_url'[d]]
    BY DEF TruthInv
  <2>1. CASE d = q
    BY <1>4, <2>1 DEF Make, Backend200
  <2>2. CASE d # q
    <3>1. phase[d] = "waiting" /\ completed[d] /\ response'[d] = response[d]
      BY <1>2, <1>4, <2>2
    <3>2. backend_url[d] \in Backends
      BY <3>1, WaitingHasBackend
    <3> QED
      BY <1>3, <3>1, <3>2 DEF TruthInv
  <2> QED
    BY <2>1, <2>2
<1> QED
  BY <1>5, <1>6, <1>7, <1>8

\* A callback takes no thread away from a request on its stack.
LEMMA CallbackIsQuiet ==
    ASSUME ClientTypeOK, NEW t \in Threads, callback(t)
    PROVE  (\A u \in Threads : worker[u] = Busy => worker'[u] = Busy) /\ op' = op
  BY DEF ClientTypeOK, callback, Busy

\* Every callback, in time or late, preserves the invariant of the frames.
LEMMA CallbackKeepsFrames ==
    ASSUME GatewayInv, NEW t \in Threads, Callback(t)
    PROVE  FrameInv'
<1> USE DEF GatewayInv
<1>1. ClientTypeOK /\ callback(t)
  BY DEF Callback, CallbackInTime, CallbackHitsOther, CallbackHitsNothing, ClientInv
<1>2. worker[t].ctx \in Requests /\ backend_url[worker[t].ctx] \in Backends
  BY <1>1, CallbackHasBackend
<1>3. (\A u \in Threads : worker[u] = Busy => worker'[u] = Busy) /\ op' = op
  BY <1>1, CallbackIsQuiet
<1>4. phase \in [Requests -> RequestPhases]
  BY DEF FrameInv, FrameTypeOK
<1>5. CASE CallbackInTime(t)
  <2>1. phase' = [phase EXCEPT ![worker[t].ctx] = "waiting"]
    BY <1>2, <1>4, <1>5 DEF CallbackInTime
  <2> QED
    BY <1>2, <1>3, <1>5, <2>1, DeliverKeepsFrames DEF CallbackInTime
<1>6. CASE CallbackHitsOther(t)
  <2>1. PICK q \in Requests : phase[q] = "waiting" /\ Deliver(worker[t].ctx, q, worker[t].ec)
    BY <1>6 DEF CallbackHitsOther
  <2>2. phase' = [phase EXCEPT ![q] = "waiting"]
    BY <1>4, <1>6, <2>1 DEF CallbackHitsOther
  <2> QED
    BY <1>2, <1>3, <1>6, <2>1, <2>2, DeliverKeepsFrames DEF CallbackHitsOther
<1>7. CASE CallbackHitsNothing(t)
  <2>1. \A b \in Backends : backend_health_'[b] => backend_health_[b]
    BY <1>2, <1>7 DEF CallbackHitsNothing, balancerVars, mark_backend_unhealthy, BalancerTypeOK
  <2> QED
    BY <1>3, <1>7, <2>1, FrameInvKept DEF CallbackHitsNothing
<1> QED
  BY <1>5, <1>6, <1>7 DEF Callback

\* Every step of the gateway preserves its invariant.
LEMMA GatewayInvStep == GatewayInv /\ [GatewayNext]_gatewayVars => GatewayInv'
<1> SUFFICES ASSUME GatewayInv, [GatewayNext]_gatewayVars PROVE GatewayInv'
  OBVIOUS
<1>1. ClientInv' /\ BalancerTypeOK'
  BY ClientPart, BalancerPart, ClientTypeStep, ClientInvStep, BalancerTypeStep DEF GatewayInv, ClientInv
<1>2. ASSUME NEW r \in Requests, Proceed(r) PROVE FrameInv'
  <2>1. CASE ForwardRejected(r)
    <3>1. /\ Deliver(r, r, "failed") /\ phase[r] = "selected" /\ phase' = [phase EXCEPT ![r] = "waiting"]
          /\ UNCHANGED <<home, backend_url, worker>>
      BY <2>1 DEF ForwardRejected, reject_url
    <3>2. \A c \in Requests : c # r /\ op'[c] # "none" => op[c] # "none"
      BY <2>1 DEF ForwardRejected, reject_url, GatewayInv, ClientInv, ClientTypeOK
    <3> QED
      BY <3>1, <3>2, DeliverKeepsFrames
  <2> QED
    BY <1>2, <2>1, SelectionKeepsFrames, AnswerKeepsFrames, ForwardKeepsFrames DEF Proceed
<1>3. ASSUME ClientStep PROVE FrameInv'
  <2>1. FrameInv /\ ClientTypeOK
    BY DEF GatewayInv, ClientInv
  <2> QED
    BY <1>3, <2>1, ClientStepIsQuiet, FrameInvKept DEF ClientStep, balancerVars
<1>4. ASSUME UNCHANGED gatewayVars PROVE FrameInv'
  BY <1>4, FrameInvKept DEF gatewayVars, balancerVars, clientVars, GatewayInv
<1>5. FrameInv'
  BY <1>2, <1>3, <1>4, ServeKeepsFrames, CallbackKeepsFrames DEF GatewayNext
<1> QED
  BY <1>1, <1>5 DEF GatewayInv

-----------------------------------------------------------------------------
(* What follows for every behaviour of the gateway.                        *)

\* The invariant holds in every state the gateway reaches.
LEMMA GatewayInvariant == GatewaySpec => []GatewayInv
  BY GatewayInvInit, GatewayInvStep, PTL DEF GatewaySpec

\* The states of the gateway are well formed: a request on a stack is on the
\* stack of a thread that works for no other handler.
THEOREM GatewayTyped == GatewaySpec => []GatewayTypeOK
<1>1. GatewayInv => GatewayTypeOK
  BY DEF GatewayInv, ClientInv, FrameInv, FrameTypeOK, StackInv, GatewayTypeOK
<1> QED
  BY <1>1, GatewayInvariant, PTL

\* The gateway uses its client as HttpClient specifies it, so that what is
\* proved of the client holds in the gateway.
THEOREM UsesClient == GatewaySpec => ClientSpec
<1>1. GatewayInit => ClientInit
  BY DEF GatewayInit
<1> QED
  BY <1>1, ClientPart, GatewayInvariant, PTL DEF GatewaySpec, ClientSpec

\* So it does its load balancer, whatever callbacks come late.
THEOREM UsesBalancer == GatewaySpec => BalancerSpec
<1>1. GatewayInit => BalancerInit
  BY DEF GatewayInit
<1> QED
  BY <1>1, BalancerPart, GatewayInvariant, PTL DEF GatewaySpec, BalancerSpec

-----------------------------------------------------------------------------
(* The gateway keeps its promise.                                          *)


\* The answers change only where a handler responds.
LEMMA AnswersKept ==
    ASSUME FrameTypeOK, FrameTypeOK',
           \A q \in Requests : Answered(q)' <=> Answered(q),
           \A q \in Requests : Answered(q) => response'[q] = response[q]
    PROVE  answer' = answer
  BY DEF answer

(* Writing any answer of a gateway that may answer is a step Answer of the   *)
(* promise: handle_request ends each of its branches with one response.      *)
LEMMA RespondAnswers ==
    ASSUME FrameTypeOK, NEW r \in Requests, ~Answered(r), NEW resp, Respond(r, resp)
    PROVE  Promise!Answer(r, resp.status)
  BY DEF FrameTypeOK, Answered, Respond, answer, Promise!Answer, Promise!Open

\* A backend marked by a callback or by an expired wait is taken out of service.
LEMMA MarkTakesOut ==
    ASSUME BalancerTypeOK, NEW b \in Backends, mark_backend_unhealthy(b)
    PROVE  unavailable' = unavailable \cup {b}
  BY DEF BalancerTypeOK, mark_backend_unhealthy, unavailable

\* At the start nothing is answered, forwarded or out of service.
LEMMA PromiseInit == GatewayInit => Promise!Init
  BY DEF GatewayInit, BalancerInit, Promise!Init, answer, unavailable, Answered

\* A callback keeps the promise: it marks a backend that was given a request,
\* or nothing that the promise speaks of changes.
LEMMA DeliverKeepsPromise ==
    ASSUME GatewayInv, GatewayInv', NEW r \in Requests, NEW q \in Requests, NEW ec, Deliver(r, q, ec),
           phase[q] \in {"selected", "waiting"}, phase' = [phase EXCEPT ![q] = "waiting"],
           UNCHANGED backend_url
    PROVE  [Promise!Next]_(Promise!vars)
<1> USE DEF GatewayInv, FrameInv
<1>1. answer' = answer
  BY AnswersKept DEF Answered, Deliver, FrameTypeOK
<1>2. backend_url[q] \in Backends /\ backend_url[q] # NoBackend
  BY WaitingHasBackend, GatewayAssumption
<1>3. CASE mark_backend_unhealthy(backend_url[q])
  <2>1. Promise!Blame(q)
    BY <1>1, <1>2, <1>3, MarkTakesOut DEF Promise!Blame
  <2> QED
    BY <2>1 DEF Promise!Next
<1>4. CASE UNCHANGED balancerVars
  BY <1>1, <1>4 DEF Promise!vars, unavailable, balancerVars
<1> QED
  BY <1>3, <1>4 DEF Deliver

\* So does every other step of a request.
LEMMA ProceedKeepsPromise ==
    ASSUME GatewayInv, GatewayInv', NEW r \in Requests, Proceed(r)
    PROVE  [Promise!Next]_(Promise!vars)
<1> USE DEF GatewayInv, FrameInv
<1>1. CASE AllUnavailable(r)
  <2>1. Promise!Answer(r, "503")
    BY <1>1, RespondAnswers DEF AllUnavailable, Answered, Make
  <2>2. RouteOf[r] \subseteq unavailable
    BY <1>1, BalancerAssumption
    DEF AllUnavailable, NoneHealthy, HealthyOf, Positions, is_backend_healthy, RouteOf, unavailable
  <2>3. backend_url[r] = NoBackend /\ UNCHANGED <<backend_url, unavailable>>
    BY <1>1 DEF AllUnavailable, NoneHealthy, ForwardInv, unavailable, balancerVars
  <2> QED
    BY <2>1, <2>2, <2>3 DEF Promise!Refuse, Promise!Next
<1>2. CASE SelectFilters(r)
  <2>1. answer' = answer
    BY <1>2, AnswersKept DEF SelectFilters, Answered, FrameTypeOK
  <2> QED
    BY <1>2, <2>1 DEF SelectFilters, FilterHealthy, Promise!vars, unavailable
<1>3. CASE SelectTakesIndex(r)
  <2> PICK b \in Backends : TakeIndex(r, b) /\ backend_url' = [backend_url EXCEPT ![r] = b]
    BY <1>3 DEF SelectTakesIndex
  <2>1. answer' = answer /\ answer[r] = "none"
    BY <1>3, AnswersKept DEF SelectTakesIndex, Answered, FrameTypeOK, answer
  <2>2. b \in RouteOf[r]
    BY DEF TakeIndex, IsAt, RouteOf, BalancerTypeOK
  <2>3. backend_url[r] = NoBackend
    BY <1>3 DEF SelectTakesIndex, ForwardInv
  <2>4. Promise!Forward(r, b)
    BY <2>1, <2>2, <2>3 DEF Promise!Forward, Promise!Open, TakeIndex, unavailable
  <2> QED
    BY <2>4 DEF Promise!Next
<1>4. CASE ForwardStarts(r)
  <2>1. answer' = answer
    BY <1>4, AnswersKept DEF ForwardStarts, Answered, FrameTypeOK
  <2> QED
    BY <1>4, <2>1 DEF ForwardStarts, Promise!vars, unavailable, balancerVars
<1>5. CASE ForwardRejected(r)
  BY <1>5, DeliverKeepsPromise DEF ForwardRejected
<1>6. CASE WaitCompletes(r)
  <2>1. Promise!Answer(r, response[r].status)
    BY <1>6, RespondAnswers DEF WaitCompletes, Answered
  <2>2. \/ response[r].status = "backend"
        \/ response[r].status = "502" /\ backend_url[r] \in unavailable
    BY <1>6, WaitingHasBackend DEF WaitCompletes, TruthInv, unavailable
  <2>3. backend_url[r] # NoBackend /\ UNCHANGED <<backend_url, unavailable>>
    BY <1>6 DEF WaitCompletes, ForwardInv, unavailable, balancerVars
  <2> QED
    BY <2>1, <2>2, <2>3 DEF Promise!Reply, Promise!Next
<1>7. CASE WaitExpires(r)
  <2>1. Promise!Answer(r, "504")
    BY <1>7, RespondAnswers DEF WaitExpires, Answered, Make
  <2>2. backend_url[r] \in Backends /\ backend_url[r] # NoBackend /\ UNCHANGED backend_url
    BY <1>7, WaitingHasBackend, GatewayAssumption DEF WaitExpires
  <2>3. unavailable' = unavailable \cup {backend_url[r]}
    BY <1>7, <2>2, MarkTakesOut DEF WaitExpires
  <2> QED
    BY <2>1, <2>2, <2>3 DEF Promise!GiveUp, Promise!Next
<1> QED
  BY <1>1, <1>2, <1>3, <1>4, <1>5, <1>6, <1>7 DEF Proceed

(* Every step of the gateway is a step of the promise or leaves its state    *)
(* alone: one case for each action of GatewayNext.                           *)
LEMMA PromiseStep ==
    ASSUME GatewayInv, GatewayInv', [GatewayNext]_gatewayVars
    PROVE  [Promise!Next]_(Promise!vars)
<1> USE DEF GatewayInv, FrameInv
<1>1. ASSUME NEW t \in Threads, NEW r \in Requests, Serve(t, r) PROVE [Promise!Next]_(Promise!vars)
  <2>1. CASE RejectRequest(t, r) \/ RouteNotFound(t, r)
    <3>1. Promise!Answer(r, "404") \/ Promise!Answer(r, "500")
      BY <2>1, RespondAnswers DEF RejectRequest, RouteNotFound, Answered, Make
    <3>2. backend_url[r] = NoBackend /\ UNCHANGED <<backend_url, unavailable>>
      BY <2>1 DEF RejectRequest, RouteNotFound, ForwardInv, unavailable, balancerVars
    <3> QED
      BY <3>1, <3>2 DEF Promise!Decline, Promise!Next
  <2>2. CASE RouteFound(t, r)
    <3>1. answer' = answer
      BY <2>2, AnswersKept DEF RouteFound, Answered, FrameTypeOK
    <3> QED
      BY <2>2, <3>1 DEF RouteFound, Promise!vars, unavailable, balancerVars
  <2> QED
    BY <1>1, <2>1, <2>2 DEF Serve
<1>2. ASSUME NEW t \in Threads, Callback(t) PROVE [Promise!Next]_(Promise!vars)
  <2>1. callback(t)
    BY <1>2 DEF Callback, CallbackInTime, CallbackHitsOther, CallbackHitsNothing
  <2>2. worker[t].ctx \in Requests /\ backend_url[worker[t].ctx] \in Backends
    BY <2>1, CallbackHasBackend
  <2>3. phase \in [Requests -> RequestPhases]
    BY DEF FrameTypeOK
  <2>4. CASE CallbackInTime(t)
    <3>1. phase' = [phase EXCEPT ![worker[t].ctx] = "waiting"]
      BY <2>2, <2>3, <2>4 DEF CallbackInTime
    <3> QED
      BY <2>2, <2>4, <3>1, DeliverKeepsPromise DEF CallbackInTime
  <2>5. CASE CallbackHitsOther(t)
    <3>1. PICK q \in Requests : phase[q] = "waiting" /\ Deliver(worker[t].ctx, q, worker[t].ec)
      BY <2>5 DEF CallbackHitsOther
    <3>2. phase' = [phase EXCEPT ![q] = "waiting"]
      BY <2>3, <2>5, <3>1 DEF CallbackHitsOther
    <3> QED
      BY <2>2, <2>5, <3>1, <3>2, DeliverKeepsPromise DEF CallbackHitsOther
  <2>6. CASE CallbackHitsNothing(t)
    <3>1. answer' = answer
      BY <2>6 DEF CallbackHitsNothing, frameVars, answer, Answered
    <3>2. CASE mark_backend_unhealthy(backend_url[worker[t].ctx])
      <4>1. Promise!Blame(worker[t].ctx)
        BY <2>2, <2>6, <3>1, <3>2, MarkTakesOut, GatewayAssumption
        DEF CallbackHitsNothing, frameVars, Promise!Blame
      <4> QED
        BY <2>2, <4>1 DEF Promise!Next
    <3>3. CASE UNCHANGED balancerVars
      BY <2>6, <3>1, <3>3 DEF CallbackHitsNothing, frameVars, Promise!vars, unavailable, balancerVars
    <3> QED
      BY <2>6, <3>2, <3>3 DEF CallbackHitsNothing
  <2> QED
    BY <1>2, <2>4, <2>5, <2>6 DEF Callback
<1>3. CASE ClientStep \/ UNCHANGED gatewayVars
  BY <1>3 DEF ClientStep, gatewayVars, balancerVars, frameVars, Promise!vars, answer, Answered, unavailable
<1> QED
  BY <1>1, <1>2, <1>3, ProceedKeepsPromise DEF GatewayNext

\* The gateway implements GatewayPromise for any requests, threads, backends
\* and routes: however late the callbacks come, a request is answered once, 503
\* only when no backend of its route is in service, 502 only from a backend out
\* of service, and no backend is blamed that no request was forwarded to.
THEOREM KeepsPromise == GatewaySpec => PromiseKept
  BY PromiseInit, PromiseStep, GatewayInvariant, PTL DEF GatewaySpec, PromiseKept, Promise!Spec
-----------------------------------------------------------------------------
(* A route without healthy backends. Nothing in the gateway marks a backend *)
(* healthy, so that its requests can only be refused.                      *)

Refused(r) ==
    /\ RouteIsDown(r)
    /\ phase[r] \in {"queued", "routed"} \/ (Answered(r) /\ response[r] = Make("503"))

\* A step takes backends out of service or none, and never puts one back.
LEMMA HealthOnlyFalls ==
    ASSUME GatewayInv, [GatewayNext]_gatewayVars
    PROVE  \A b \in Backends : ~is_backend_healthy(b) => ~is_backend_healthy(b)'
<1> SUFFICES ASSUME ~(UNCHANGED backend_health_)
    PROVE  \A b \in Backends : ~is_backend_healthy(b) => ~is_backend_healthy(b)'
  BY DEF is_backend_healthy
<1>1. \E c : mark_backend_unhealthy(c)
  <2>1. ASSUME NEW t \in Threads, NEW r \in Requests, Serve(t, r) PROVE FALSE
    BY <2>1 DEF Serve, RejectRequest, RouteNotFound, RouteFound, balancerVars
  <2>2. ASSUME NEW r, NEW q, NEW ec, Deliver(r, q, ec) PROVE \E c : mark_backend_unhealthy(c)
    BY <2>2 DEF Deliver, balancerVars
  <2>3. ASSUME NEW r \in Requests, Proceed(r) PROVE \E c : mark_backend_unhealthy(c)
    BY <2>2, <2>3 DEF Proceed, AllUnavailable, NoneHealthy, SelectFilters, FilterHealthy, SelectTakesIndex,
        TakeIndex, ForwardStarts, ForwardRejected, WaitCompletes, WaitExpires, balancerVars
  <2>4. ASSUME NEW t \in Threads, Callback(t) PROVE \E c : mark_backend_unhealthy(c)
    BY <2>2, <2>4 DEF Callback, CallbackInTime, CallbackHitsOther, CallbackHitsNothing, balancerVars
  <2>5. ~ClientStep /\ ~UNCHANGED gatewayVars
    BY DEF ClientStep, gatewayVars, balancerVars
  <2> QED
    BY <2>1, <2>3, <2>4, <2>5 DEF GatewayNext
<1> QED
  BY <1>1 DEF mark_backend_unhealthy, is_backend_healthy, GatewayInv, BalancerTypeOK

\* A request that is refused, or will be, stays so.
LEMMA RefusedStays ==
    ASSUME GatewayInv, [GatewayNext]_gatewayVars,
           NEW r \in Requests \ (Malformed \cup Unrouted), Refused(r)
    PROVE  Refused(r)'
<1> USE DEF GatewayInv, FrameInv, FrameTypeOK
<1>1. RouteIsDown(r)'
  <2>1. \A i \in Positions(r) : Route[r][i] \in Backends
    BY BalancerAssumption DEF Positions
  <2> QED
    BY <2>1, HealthOnlyFalls DEF Refused, RouteIsDown, Positions
<1>2. SUFFICES \/ phase'[r] \in {"queued", "routed"}
               \/ Answered(r)' /\ response'[r] = Make("503")
  BY <1>1 DEF Refused
<1>3. ASSUME NEW t \in Threads, NEW q \in Requests, Serve(t, q)
      PROVE  \/ phase'[r] \in {"queued", "routed"}
             \/ Answered(r)' /\ response'[r] = Make("503")
  BY <1>3 DEF Refused, Serve, RejectRequest, RouteNotFound, RouteFound, Respond, Answered
<1>4. ASSUME NEW q \in Requests, NEW c, NEW ec, Deliver(c, q, ec), phase[q] \in {"selected", "waiting"},
             \A x \in Requests : x # q => phase'[x] = phase[x]
      PROVE  \/ phase'[r] \in {"queued", "routed"}
             \/ Answered(r)' /\ response'[r] = Make("503")
  BY <1>4 DEF Refused, Deliver, Answered
<1>5. ASSUME NEW q \in Requests, Proceed(q)
      PROVE  \/ phase'[r] \in {"queued", "routed"}
             \/ Answered(r)' /\ response'[r] = Make("503")
  <2>1. CASE AllUnavailable(q)
    BY <2>1 DEF AllUnavailable, Respond, Refused, Answered
  <2>2. CASE SelectFilters(q)
    <3>1. q # r
      BY <2>2 DEF SelectFilters, FilterHealthy, HealthyOf, Refused, RouteIsDown, Answered
    <3> QED
      BY <2>2, <3>1 DEF SelectFilters, Refused, Answered
  <2>3. CASE SelectTakesIndex(q) \/ ForwardStarts(q)
    BY <2>3 DEF SelectTakesIndex, ForwardStarts, Refused, Answered
  <2>4. CASE ForwardRejected(q)
    BY <1>4, <2>4 DEF ForwardRejected
  <2>5. CASE WaitCompletes(q) \/ WaitExpires(q)
    BY <2>5 DEF WaitCompletes, WaitExpires, Respond, Refused, Answered
  <2> QED
    BY <1>5, <2>1, <2>2, <2>3, <2>4, <2>5 DEF Proceed
<1>6. ASSUME NEW t \in Threads, Callback(t)
      PROVE  \/ phase'[r] \in {"queued", "routed"}
             \/ Answered(r)' /\ response'[r] = Make("503")
  <2>1. worker[t].ctx \in Requests
    BY <1>6, CallbackHasBackend DEF Callback, CallbackInTime, CallbackHitsOther, CallbackHitsNothing
  <2>2. CASE CallbackInTime(t)
    BY <1>4, <2>1, <2>2 DEF CallbackInTime
  <2>3. CASE CallbackHitsOther(t)
    BY <1>4, <2>3 DEF CallbackHitsOther
  <2>4. CASE CallbackHitsNothing(t)
    BY <2>4 DEF CallbackHitsNothing, frameVars, Refused, Answered
  <2> QED
    BY <1>6, <2>2, <2>3, <2>4 DEF Callback
<1>7. CASE ClientStep \/ UNCHANGED gatewayVars
  BY <1>7 DEF ClientStep, gatewayVars, frameVars, Refused, Answered
<1> QED
  BY <1>3, <1>5, <1>6, <1>7 DEF GatewayNext

\* A request that is queued when every backend of its route is out of service
\* is answered with 503 or not at all, whatever happens later: the safety half
\* of DeadRouteStaysDead (gateway.cpp:99-105, load_balancer.cpp:46-52).
THEOREM DeadRoutesRefuse ==
    ASSUME NEW r \in Requests \ (Malformed \cup Unrouted)
    PROVE  GatewaySpec => [](phase[r] = "queued" /\ RouteIsDown(r) => []Refused(r))
<1>1. phase[r] = "queued" /\ RouteIsDown(r) => Refused(r)
  BY DEF Refused
<1>2. GatewayInv /\ Refused(r) /\ [GatewayNext]_gatewayVars => Refused(r)'
  BY RefusedStays
<1> QED
  BY <1>1, <1>2, GatewayInvariant, PTL DEF GatewaySpec

-----------------------------------------------------------------------------
(* Where a client's response comes from.                                   *)

\* Nothing is written into the frame of a request before it waits, and the
\* response of its own backend is brought by a callback that is counted.
Unforwarded == {"queued", "routed", "filtered", "selected"}
FreshInv == \A q \in Requests : phase[q] \in Unforwarded => response[q] = Make("none")
BroughtInv == \A r \in Requests : response[r] = Backend200(r) => calls[r] >= 1
LateInv == FreshInv /\ BroughtInv /\ MisdeliveryNeedsLateCallback

\* Responses tell where they are from.
LEMMA ResponsesDiffer ==
    /\ \A s : \A r \in Requests : Make(s) # Backend200(r)
    /\ \A q, r \in Requests : Backend200(q) = Backend200(r) => q = r
<1>1. ASSUME NEW s, NEW r \in Requests PROVE Make(s).from # Backend200(r).from
  BY RequestAssumption DEF Make, Backend200
<1>2. ASSUME NEW q \in Requests, NEW r \in Requests, Backend200(q) = Backend200(r)
      PROVE  Backend200(q).from = Backend200(r).from /\ Backend200(q).from = q /\ Backend200(r).from = r
  BY <1>2 DEF Backend200
<1> QED
  BY <1>1, <1>2

\* A response of r appears in the frame of r itself, by a callback of r, or in
\* the frame of a request that waits on the thread r was answered by.
Brings(r, q) ==
    \/ q = r /\ calls'[r] >= 1
    \/ q # r /\ Answered(r) /\ phase[q] = "waiting" /\ home[q] = home[r] /\ calls'[r] = calls[r] + 1

\* A step preserves the invariant if what is answered stays as it is, callbacks
\* are not uncounted, and responses appear in those two ways only.
LEMMA LateKept ==
    ASSUME GatewayInv, GatewayInv', LateInv,
           \A r \in Requests : calls'[r] >= calls[r],
           \A r \in Requests : Answered(r) => Answered(r)' /\ response'[r] = response[r],
           \A r \in Requests : phase[r] # "queued" => home'[r] = home[r],
           \A q \in Requests : phase'[q] \in Unforwarded => phase[q] \in Unforwarded /\ response'[q] = response[q],
           \A q, r \in Requests :
               response'[q] = Backend200(r) => response[q] = Backend200(r) \/ Brings(r, q)
    PROVE  LateInv'
<1> USE DEF GatewayInv, ClientInv
<1>1. FreshInv'
  BY DEF LateInv, FreshInv
<1>2. \A r \in Requests : calls[r] \in Nat /\ calls'[r] \in Nat
  BY DEF ClientTypeOK
<1>3. \A r \in Requests : calls'[r] <= 2
  BY DEF ClientTypeOK, Paid
<1>4. BroughtInv'
  BY <1>2 DEF LateInv, BroughtInv, Brings
<1>5. ASSUME NEW q \in Requests, NEW r \in Requests, q # r, response'[q] = Backend200(r)
      PROVE  /\ Answered(r)' /\ home'[q] = home'[r]
             /\ response'[r] # Backend200(r) \/ calls'[r] = 2
  <2>1. CASE response[q] = Backend200(r)
    <3>1. Answered(r) /\ home[q] = home[r] /\ (response[r] # Backend200(r) \/ calls[r] = 2)
      BY <1>5, <2>1 DEF LateInv, MisdeliveryNeedsLateCallback
    <3>2. phase[q] # "queued"
      BY <2>1, ResponsesDiffer DEF LateInv, FreshInv, Unforwarded
    <3> QED
      BY <1>2, <1>3, <3>1, <3>2 DEF Answered
  <2>2. CASE Brings(r, q)
    <3>1. Answered(r) /\ phase[q] = "waiting" /\ home[q] = home[r] /\ calls'[r] = calls[r] + 1
      BY <1>5, <2>2 DEF Brings
    <3>2. response[r] = Backend200(r) => calls[r] >= 1
      BY DEF LateInv, BroughtInv
    <3> QED
      BY <1>2, <1>3, <3>1, <3>2 DEF Answered
  <2> QED
    BY <1>5, <2>1, <2>2
<1> QED
  BY <1>1, <1>4, <1>5 DEF LateInv, MisdeliveryNeedsLateCallback

\* An answer sends what the frame holds, or a status of the gateway's own.
LEMMA RespondIsOwn ==
    ASSUME GatewayInv, GatewayInv', LateInv, NEW r \in Requests, ~Answered(r), NEW resp, Respond(r, resp),
           resp = response[r] \/ \E s : resp = Make(s),
           home' = home, calls' = calls
    PROVE  LateInv'
<1>1. /\ \A q \in Requests : q # r => response'[q] = response[q] /\ phase'[q] = phase[q]
      /\ response'[r] = resp /\ phase'[r] = "answered"
  BY DEF Respond, GatewayInv, FrameInv, FrameTypeOK
<1>2. \A c \in Requests : calls'[c] >= calls[c]
  BY DEF GatewayInv, ClientInv, ClientTypeOK
<1>3. \A q, c \in Requests : response'[q] = Backend200(c) => response[q] = Backend200(c)
  BY <1>1, ResponsesDiffer
<1> QED
  BY <1>1, <1>2, <1>3, LateKept DEF Answered, Unforwarded

\* A callback brings a response to its own request, or to one that waits on the
\* thread of its own.
LEMMA DeliverBrings ==
    ASSUME GatewayInv, GatewayInv', LateInv, NEW r \in Requests, NEW q \in Requests, NEW ec, Deliver(r, q, ec),
           phase[q] \in {"selected", "waiting"}, phase' = [phase EXCEPT ![q] = "waiting"],
           home' = home, calls' = [calls EXCEPT ![r] = @ + 1],
           q = r \/ (Answered(r) /\ phase[q] = "waiting" /\ home[q] = home[r])
    PROVE  LateInv'
<1>1. response' = [response EXCEPT ![q] = Backend200(r)] \/ response' = [response EXCEPT ![q] = Make("502")]
  BY DEF Deliver
<1>2. /\ \A d \in Requests : d # q => response'[d] = response[d] /\ phase'[d] = phase[d]
      /\ response'[q] = Backend200(r) \/ response'[q] = Make("502")
      /\ phase'[q] = "waiting"
  BY <1>1 DEF GatewayInv, FrameInv, FrameTypeOK
<1>3. (\A c \in Requests : calls'[c] >= calls[c]) /\ calls'[r] = calls[r] + 1 /\ calls'[r] >= 1
  BY DEF GatewayInv, ClientInv, ClientTypeOK
<1>4. ASSUME NEW d \in Requests, NEW c \in Requests, response'[d] = Backend200(c)
      PROVE  response[d] = Backend200(c) \/ Brings(c, d)
  <2>1. CASE d # q
    BY <1>2, <1>4, <2>1
  <2>2. CASE d = q
    <3>1. c = r
      BY <1>2, <1>4, <2>2, ResponsesDiffer
    <3> QED
      BY <1>3, <2>2, <3>1 DEF Brings
  <2> QED
    BY <2>1, <2>2
<1> QED
  BY <1>2, <1>3, <1>4, LateKept DEF Answered, Unforwarded

\* So does every step of the gateway.
LEMMA LateStep == GatewayInv /\ GatewayInv' /\ LateInv /\ [GatewayNext]_gatewayVars => LateInv'
<1> SUFFICES ASSUME GatewayInv, GatewayInv', LateInv, [GatewayNext]_gatewayVars PROVE LateInv'
  OBVIOUS
<1>0. phase \in [Requests -> RequestPhases] /\ calls \in [Requests -> Nat] /\ ClientTypeOK
  BY DEF GatewayInv, ClientInv, ClientTypeOK, FrameInv, FrameTypeOK
<1>k. ASSUME response' = response, calls' = calls,
             \A r \in Requests : phase[r] # "queued" => home'[r] = home[r],
             NEW r \in Requests, NEW next \in Unforwarded \cup {"waiting"},
             phase' = phase \/ (phase[r] \in Unforwarded /\ phase' = [phase EXCEPT ![r] = next])
      PROVE  LateInv'
  <2>1. \A c \in Requests : calls'[c] >= calls[c]
    BY <1>0, <1>k
  <2>2. \A c \in Requests : Answered(c) => Answered(c)'
    BY <1>0, <1>k DEF Answered, Unforwarded
  <2>3. \A c \in Requests : phase'[c] \in Unforwarded => phase[c] \in Unforwarded
    BY <1>0, <1>k
  <2> QED
    BY <1>k, <2>1, <2>2, <2>3, LateKept
<1>1. ASSUME NEW t \in Threads, NEW r \in Requests, Serve(t, r) PROVE LateInv'
  <2>1. CASE RejectRequest(t, r) \/ RouteNotFound(t, r)
    <3>1. /\ ~Answered(r) /\ home' = home /\ calls' = calls
          /\ Respond(r, Make("500")) \/ Respond(r, Make("404"))
      BY <2>1 DEF RejectRequest, RouteNotFound, Answered, clientVars
    <3> QED
      BY <3>1, RespondIsOwn
  <2>2. CASE RouteFound(t, r)
    <3>1. /\ response' = response /\ calls' = calls /\ phase[r] \in Unforwarded /\ "routed" \in Unforwarded
          /\ phase[r] = "queued" /\ phase' = [phase EXCEPT ![r] = "routed"] /\ home' = [home EXCEPT ![r] = t]
      BY <2>2 DEF RouteFound, OtherHandlerTakes, Unforwarded
    <3>2. \A c \in Requests : phase[c] # "queued" => home'[c] = home[c]
      BY <3>1 DEF GatewayInv, FrameInv, FrameTypeOK
    <3> QED
      BY <1>k, <3>1, <3>2
  <2> QED
    BY <1>1, <2>1, <2>2 DEF Serve
<1>2. ASSUME NEW r \in Requests, Proceed(r) PROVE LateInv'
  <2>1. CASE AllUnavailable(r) \/ WaitCompletes(r) \/ WaitExpires(r)
    <3>1. /\ ~Answered(r) /\ home' = home /\ calls' = calls
          /\ Respond(r, Make("503")) \/ Respond(r, response[r]) \/ Respond(r, Make("504"))
      BY <2>1 DEF AllUnavailable, WaitCompletes, WaitExpires, Answered, OtherHandlerReturns
    <3> QED
      BY <3>1, RespondIsOwn
  <2>2. CASE SelectFilters(r) \/ SelectTakesIndex(r) \/ ForwardStarts(r)
    <3>1. /\ response' = response /\ calls' = calls /\ home' = home /\ phase[r] \in Unforwarded
          /\ \E next \in Unforwarded \cup {"waiting"} : phase' = [phase EXCEPT ![r] = next]
      BY <2>2 DEF SelectFilters, SelectTakesIndex, ForwardStarts, start, clientVars, Unforwarded
    <3> QED
      BY <1>k, <3>1
  <2>3. CASE ForwardRejected(r)
    <3>1. /\ Deliver(r, r, "failed") /\ phase[r] \in {"selected", "waiting"}
          /\ phase' = [phase EXCEPT ![r] = "waiting"] /\ home' = home /\ calls' = [calls EXCEPT ![r] = @ + 1]
      BY <2>3 DEF ForwardRejected, reject_url
    <3> QED
      BY <3>1, DeliverBrings
  <2> QED
    BY <1>2, <2>1, <2>2, <2>3 DEF Proceed
<1>3. ASSUME NEW t \in Threads, Callback(t) PROVE LateInv'
  <2> DEFINE r == worker[t].ctx
  <2>1. callback(t) /\ phase' = phase /\ home' = home
    BY <1>3 DEF Callback, CallbackInTime, CallbackHitsOther, CallbackHitsNothing, frameVars
  <2>2. r \in Requests /\ calls' = [calls EXCEPT ![r] = @ + 1]
    BY <2>1, CallbackHasBackend DEF callback
  <2>3. \A q \in Requests : phase[q] = "waiting" => phase' = [phase EXCEPT ![q] = "waiting"]
    BY <1>0, <2>1
  <2> HIDE DEF r
  <2>4. CASE CallbackInTime(t)
    <3>1. phase[r] = "waiting" /\ Deliver(r, r, worker[t].ec)
      BY <2>4 DEF CallbackInTime, r
    <3> QED
      BY <2>1, <2>2, <2>3, <3>1, DeliverBrings
  <2>5. CASE CallbackHitsOther(t)
    <3>1. PICK q \in Requests : phase[q] = "waiting" /\ home[q] = home[r] /\ Deliver(r, q, worker[t].ec)
      BY <2>5 DEF CallbackHitsOther, r
    <3>2. Answered(r)
      BY <2>5 DEF CallbackHitsOther, Answered, r
    <3> QED
      BY <2>1, <2>2, <2>3, <3>1, <3>2, DeliverBrings
  <2>6. CASE CallbackHitsNothing(t)
    <3>1. UNCHANGED <<phase, home, response>>
      BY <2>6 DEF CallbackHitsNothing, frameVars
    <3>2. \A c \in Requests : calls'[c] >= calls[c]
      BY <1>0, <2>2
    <3> QED
      BY <3>1, <3>2, LateKept DEF Answered
  <2> QED
    BY <1>3, <2>4, <2>5, <2>6 DEF Callback
<1>4. CASE ClientStep \/ UNCHANGED gatewayVars
  <2>1. UNCHANGED <<phase, home, response, calls>>
    BY <1>4 DEF ClientStep, gatewayVars, frameVars, clientVars, NetCompletes, TimerExpires, complete,
                Handler, IoHandlerLate, IoHandlerAdvances, IoHandlerEnds, handle_timeout, handle_timeout_ignored
  <2>2. \A c \in Requests : calls'[c] >= calls[c]
    BY <1>0, <2>1
  <2> QED
    BY <2>1, <2>2, LateKept DEF Answered
<1> QED
  BY <1>1, <1>2, <1>3, <1>4 DEF GatewayNext

\* A client is given the response of another request only through the stack
\* frame that both shared, one after the other, and only by a callback that ran
\* late or twice, for any threads and requests (gateway.cpp:145-160).
THEOREM MisdeliveryExplained == GatewaySpec => []MisdeliveryNeedsLateCallback
<1>1. GatewayInit => LateInv
  <2> SUFFICES ASSUME GatewayInit PROVE LateInv
    OBVIOUS
  <2>1. \A r \in Requests : response[r] = Make("none")
    BY DEF GatewayInit
  <2> QED
    BY <2>1, ResponsesDiffer DEF LateInv, FreshInv, BroughtInv, MisdeliveryNeedsLateCallback
<1>2. LateInv => MisdeliveryNeedsLateCallback
  BY DEF LateInv
<1> QED
  BY <1>1, <1>2, LateStep, GatewayInvariant, PTL DEF GatewaySpec

\* What is proved of the client holds in the gateway, whose requests block the
\* threads that run the handlers: for any threads a request is called back at
\* most twice, a second time only by handlers that overlap, and an operation
\* that is outstanding is watched (gateway.cpp:135-173, http_client.cpp:26-190).
THEOREM ClientKeepsItsWord ==
    GatewaySpec => /\ [](CallbackAtMostTwice /\ OutstandingIsWatched)
                   /\ SecondCallNeedsOverlap /\ ReopeningNeedsOverlap
  BY UsesClient, AtMostTwice, AlwaysWatched, SecondCallOverlaps, ReopeningOverlaps, PTL
===============================================================================
