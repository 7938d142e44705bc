------------------------------- MODULE Gateway -------------------------------
(***************************************************************************)
(* The gateway at work (src/gateway.cpp): the pool of threads that run the *)
(* io_context, the requests they handle, the client that forwards them and *)
(* the load balancer.                                                      *)
(*                                                                         *)
(* handle_request is called by the read handler of a connection, that is   *)
(* on a thread of the pool, and forward_request blocks that thread in      *)
(* condition_variable::wait_for until the client's callback has run, for   *)
(* which another thread of the same pool is needed. The callback captures  *)
(* the frame of forward_request by reference.                              *)
(*                                                                         *)
(* A configuration is fixed here: Route gives the backends of the route    *)
(* each request matches. HotReload is the module where it changes.         *)
(***************************************************************************)
EXTENDS HttpClient, LoadBalancer

CONSTANTS Malformed,  \* the requests HttpParser rejects
          Unrouted,   \* the requests that match no route
          BadUrls,    \* the backends whose URL parse_url rejects
          NoBackend, NoThread

ASSUME GatewayAssumption ==
    /\ NoBackend \notin Backends
    /\ NoThread \notin Threads

VARIABLES
    phase,        \* phase[r]: how far the handling of request r is
    home,         \* home[r]: the thread on whose stack r is, or was, handled
    backend_url,  \* backend_url[r]: the backend r is forwarded to
    completed,    \* completed[r]: the local flag of forward_request
    response      \* response[r]: the local response of the read handler

frameVars == <<phase, home, backend_url, completed, response>>
gatewayVars == <<clientVars, balancerVars, frameVars>>

OnStack == {"routed", "filtered", "selected", "waiting"}
RequestPhases == {"queued", "answered"} \cup OnStack
Make(status) == [status |-> status, from |-> NoRequest]
OwnStatuses == {"none", "404", "500", "502", "503", "504"}
Backend200(r) == [status |-> "backend", from |-> r]
Responses == {Make(s) : s \in OwnStatuses} \cup {Backend200(r) : r \in Requests}

GatewayTypeOK ==
    /\ ClientTypeOK
    /\ BalancerTypeOK
    /\ phase \in [Requests -> RequestPhases]
    /\ home \in [Requests -> Threads \cup {NoThread}]
    /\ backend_url \in [Requests -> Backends \cup {NoBackend}]
    /\ completed \in [Requests -> BOOLEAN]
    /\ response \in [Requests -> Responses]
    /\ \A r \in Requests : phase[r] \in OnStack => home[r] \in Threads /\ worker[home[r]] = Busy

\* The connections are accepted and the headers of every request have arrived.
GatewayInit ==
    /\ ClientInit
    /\ BalancerInit
    /\ phase = [r \in Requests |-> "queued"]
    /\ home = [r \in Requests |-> NoThread]
    /\ backend_url = [r \in Requests |-> NoBackend]
    /\ completed = [r \in Requests |-> FALSE]
    /\ response = [r \in Requests |-> Make("none")]

-----------------------------------------------------------------------------
(* The read handler and handle_request, on thread t.                       *)

Answered(r) == phase[r] = "answered"

Respond(r, resp) ==
    /\ phase' = [phase EXCEPT ![r] = "answered"]
    /\ response' = [response EXCEPT ![r] = resp]

\* parse_request throws: 500.
RejectRequest(t, r) ==
    /\ phase[r] = "queued" /\ worker[t] = Free
    /\ r \in Malformed
    /\ Respond(r, Make("500"))
    /\ UNCHANGED <<clientVars, balancerVars, home, backend_url, completed>>

\* match_route finds nothing: 404.
RouteNotFound(t, r) ==
    /\ phase[r] = "queued" /\ worker[t] = Free
    /\ r \notin Malformed /\ r \in Unrouted
    /\ Respond(r, Make("404"))
    /\ UNCHANGED <<clientVars, balancerVars, home, backend_url, completed>>

\* Mutant: the handler starts on a thread that is not free.
RouteFoundAnywhere(t, r) ==
    /\ phase[r] = "queued" /\ r \notin Malformed \cup Unrouted
    /\ worker' = [worker EXCEPT ![t] = Busy]
    /\ phase' = [phase EXCEPT ![r] = "routed"]
    /\ home' = [home EXCEPT ![r] = t]
    /\ UNCHANGED <<op, net, closed, timer, completed_, calls, balancerVars, backend_url, completed, response>>

\* match_route finds the route; the thread goes on to select_backend.
RouteFound(t, r) ==
    /\ phase[r] = "queued"
    /\ r \notin Malformed \cup Unrouted
    /\ OtherHandlerTakes(t)
    /\ phase' = [phase EXCEPT ![r] = "routed"]
    /\ home' = [home EXCEPT ![r] = t]
    /\ UNCHANGED <<balancerVars, backend_url, completed, response>>

\* select_backend finds no healthy backend: 503, and the handler returns.
AllUnavailable(r) ==
    /\ phase[r] = "routed"
    /\ NoneHealthy(r)
    /\ Respond(r, Make("503"))
    /\ OtherHandlerReturns(home[r])
    /\ UNCHANGED <<home, backend_url, completed>>

SelectFilters(r) ==
    /\ phase[r] = "routed"
    /\ FilterHealthy(r)
    /\ phase' = [phase EXCEPT ![r] = "filtered"]
    /\ UNCHANGED <<clientVars, home, backend_url, completed, response>>

SelectTakesIndex(r) ==
    /\ phase[r] = "filtered"
    /\ \E b \in Backends :
          /\ TakeIndex(r, b)
          /\ backend_url' = [backend_url EXCEPT ![r] = b]
    /\ phase' = [phase EXCEPT ![r] = "selected"]
    /\ UNCHANGED <<clientVars, home, completed, response>>

-----------------------------------------------------------------------------
(* forward_request.                                                        *)

\* What the callback does to the frame of q with the outcome of request r.
Deliver(r, q, ec) ==
    /\ completed' = [completed EXCEPT ![q] = TRUE]
    /\ \/ /\ ec = "ok"
          /\ response' = [response EXCEPT ![q] = Backend200(r)]
          /\ UNCHANGED balancerVars
       \/ /\ ec # "ok"
          /\ response' = [response EXCEPT ![q] = Make("502")]
          /\ mark_backend_unhealthy(backend_url[q])

\* async_request starts the operations; the thread goes on to wait_for.
ForwardStarts(r) ==
    /\ phase[r] = "selected"
    /\ backend_url[r] \notin BadUrls
    /\ start(r)
    /\ phase' = [phase EXCEPT ![r] = "waiting"]
    /\ UNCHANGED <<balancerVars, home, backend_url, completed, response>>

\* The URL is rejected and the callback runs before async_request returns.
ForwardRejected(r) ==
    /\ phase[r] = "selected"
    /\ backend_url[r] \in BadUrls
    /\ reject_url(r)
    /\ Deliver(r, r, "failed")
    /\ phase' = [phase EXCEPT ![r] = "waiting"]
    /\ UNCHANGED <<home, backend_url>>

\* Mutant: flag and response are members of the gateway, shared by all calls.
CallbackSharesFrame(t) ==
    /\ callback(t)
    /\ \E q \in Requests : phase[q] = "waiting" /\ Deliver(worker[t].ctx, q, worker[t].ec)
    /\ UNCHANGED <<phase, home, backend_url>>

\* A thread runs the callback of r while forward_request still waits.
CallbackInTime(t) ==
    /\ callback(t)
    /\ LET r == worker[t].ctx IN
          /\ phase[r] = "waiting"
          /\ Deliver(r, r, worker[t].ec)
    /\ UNCHANGED <<phase, home, backend_url>>

\* The frame is gone. The callback uses its memory all the same: either the
\* same thread has another request in forward_request, at the same depth of
\* its stack, and the callback finds that request's locals there ...
CallbackHitsOther(t) ==
    /\ callback(t)
    /\ LET r == worker[t].ctx IN
          /\ phase[r] = "answered"
          /\ \E q \in Requests :
                /\ phase[q] = "waiting" /\ home[q] = home[r]
                /\ Deliver(r, q, worker[t].ec)
    /\ UNCHANGED <<phase, home, backend_url>>

\* Mutant: a response marks the backend healthy again.
CallbackRestores(t) ==
    /\ callback(t)
    /\ LET r == worker[t].ctx IN
          /\ Answered(r)
          /\ \/ worker[t].ec # "ok" /\ mark_backend_unhealthy(backend_url[r])
             \/ worker[t].ec = "ok" /\ mark_backend_healthy(backend_url[r])
    /\ UNCHANGED frameVars

\* ... or it writes where nothing is alive; of backend_url, freed but maybe
\* not overwritten, it reads the old value or garbage.
CallbackHitsNothing(t) ==
    /\ callback(t)
    /\ LET r == worker[t].ctx IN
          /\ phase[r] = "answered"
          /\ \/ worker[t].ec # "ok" /\ mark_backend_unhealthy(backend_url[r])
             \/ UNCHANGED balancerVars
    /\ UNCHANGED frameVars

\* wait_for sees the flag: the read handler answers and returns.
WaitCompletes(r) ==
    /\ phase[r] = "waiting"
    /\ completed[r]
    /\ Respond(r, response[r])
    /\ OtherHandlerReturns(home[r])
    /\ UNCHANGED <<balancerVars, home, backend_url, completed>>

\* Mutants: wait instead of wait_for; the backend is not marked.
WaitForEver(r) == FALSE /\ phase[r] = "waiting" /\ UNCHANGED gatewayVars

WaitExpiresUnmarked(r) ==
    /\ phase[r] = "waiting"
    /\ ~completed[r] /\ timer[r] # "armed"
    /\ Respond(r, Make("504"))
    /\ OtherHandlerReturns(home[r])
    /\ UNCHANGED <<balancerVars, home, backend_url, completed>>

\* backend_timeout + 1000 ms have passed and the flag is not set: 504. The
\* client's timer, armed before and for 1000 ms less, has run out by then.
WaitExpires(r) ==
    /\ phase[r] = "waiting"
    /\ ~completed[r]
    /\ timer[r] # "armed"
    /\ Respond(r, Make("504"))
    /\ mark_backend_unhealthy(backend_url[r])
    /\ OtherHandlerReturns(home[r])
    /\ UNCHANGED <<home, backend_url, completed>>

-----------------------------------------------------------------------------
\* The steps of the client that touch neither a frame nor the load balancer.
ClientStep ==
    /\ \/ \E r \in Requests : NetCompletes(r) \/ TimerExpires(r)
       \/ \E t \in Threads, r \in Requests : Handler(t, r)
       \/ \E t \in Threads : complete(t)
    /\ UNCHANGED <<balancerVars, frameVars>>

Callback(t) == CallbackInTime(t) \/ CallbackHitsOther(t) \/ CallbackHitsNothing(t)

Serve(t, r) == RejectRequest(t, r) \/ RouteNotFound(t, r) \/ RouteFound(t, r)

\* The next step of the thread that handles r.
Proceed(r) ==
    \/ AllUnavailable(r) \/ SelectFilters(r) \/ SelectTakesIndex(r)
    \/ ForwardStarts(r) \/ ForwardRejected(r) \/ WaitCompletes(r) \/ WaitExpires(r)

GatewayNext ==
    \/ \E t \in Threads, r \in Requests : Serve(t, r)
    \/ \E r \in Requests : Proceed(r)
    \/ \E t \in Threads : Callback(t)
    \/ ClientStep

GatewaySpec == GatewayInit /\ [][GatewayNext]_gatewayVars

(***************************************************************************)
(* Fairness: time passes, a thread that can run its next step does, and    *)
(* the pool does not pass over a queued handler for ever while its threads *)
(* come and go. Of the network only what the system guarantees is assumed: *)
(* a resolution ends, and an operation on a closed socket fails.           *)
(***************************************************************************)
GatewayFairness ==
    /\ \A r \in Requests :
          /\ SF_gatewayVars(\E t \in Threads : Serve(t, r))
          /\ WF_gatewayVars(Proceed(r))
          /\ WF_gatewayVars(TimerExpires(r) /\ UNCHANGED <<balancerVars, frameVars>>)
    /\ \A t \in Threads :
          WF_gatewayVars(Callback(t) \/ (complete(t) /\ UNCHANGED <<balancerVars, frameVars>>))

FairGatewaySpec == GatewaySpec /\ GatewayFairness

-----------------------------------------------------------------------------
(* Properties.                                                             *)

\* Every request is answered, even when all threads of the pool sit in
\* wait_for and no handler can run: the bounded wait is the way out
\* (gateway.cpp:164-172).
EveryRequestIsServed == \A r \in Requests : phase[r] = "queued" ~> Answered(r)

\* Nothing marks a backend healthy again: a request that is queued when every
\* backend of its route is unhealthy gets 503, now and at any later time
\* (gateway.cpp:99-105; mark_backend_healthy has no caller).
RouteIsDown(r) == \A i \in Positions(r) : ~is_backend_healthy(Route[r][i])

DeadRouteStaysDead ==
    \A r \in Requests \ (Malformed \cup Unrouted) :
        (phase[r] = "queued" /\ RouteIsDown(r)) ~> (response[r] = Make("503"))

\* A response of the backend of r that another request's client is given: both
\* were handled by the same thread, r was answered before, and the callback of
\* r ran late: r was not answered with that response, or it ran twice
\* (gateway.cpp:145-160, http_client.cpp:134-136 and 174-183).
MisdeliveryNeedsLateCallback ==
    \A q, r \in Requests :
        q # r /\ response[q] = Backend200(r) =>
            /\ Answered(r) /\ home[q] = home[r]
            /\ response[r] # Backend200(r) \/ calls[r] = 2

\* What GatewayPromise speaks of, in the state of the gateway: what the clients
\* have been sent, and the backends marked unhealthy.
RouteOf == [r \in Requests |-> {Route[r][i] : i \in Positions(r)}]
answer == [r \in Requests |-> IF Answered(r) THEN response[r].status ELSE "none"]
unavailable == {b \in Backends : ~backend_health_[b]}

Promise == INSTANCE GatewayPromise WITH forwarded <- backend_url

\* The gateway implements GatewayPromise (gateway.cpp:81-178).
PromiseKept == Promise!Spec

-----------------------------------------------------------------------------
(* What a document of the gateway says of it.                              *)

\* Concurrent calls of forward_request do not disturb each other: a client
\* gets no response but that of its own request.
ResponseIsOwn == \A q \in Requests : response[q].from \in {q, NoRequest}
=============================================================================
