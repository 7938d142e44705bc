------------------------------ MODULE HttpClient ------------------------------
(***************************************************************************)
(* The asynchronous HTTP client of the gateway (src/http_client.cpp).      *)
(*                                                                         *)
(* A request context owns a socket, a resolver and a timer. Its chain of   *)
(* asynchronous operations, resolve -> connect -> write -> read, and its   *)
(* timer complete independently; the handlers of both are run by any free  *)
(* thread of the pool that calls io_context::run. No strand orders them,   *)
(* and `completed_' is a plain bool that a handler sets only after the     *)
(* user's callback has returned. A handler is therefore three steps here:  *)
(* the entry (check of completed_, cancel or close), the callback, and the *)
(* assignment to completed_.                                               *)
(***************************************************************************)
EXTENDS Naturals, FiniteSets, GatewayRequests

CONSTANT Threads  \* the threads that run the io_context: 4 in the gateway

ASSUME ClientAssumption == Threads # {}

VARIABLES
    op,         \* op[c]: the operation of c that is outstanding
    net,        \* net[c]: how far that operation is: its handler is queued once it is not "pending"
    closed,     \* closed[c]: handle_timeout closed the socket and no connect reopened it
    timer,      \* timer[c]: timeout_timer_ of c
    completed_, \* completed_[c]
    calls,      \* calls[c]: how often the callback of c has been run
    worker      \* worker[t]: what thread t is running

clientVars == <<op, net, closed, timer, completed_, calls, worker>>

Phases == {"resolve", "connect", "write", "read"}
Outcomes == {"ok", "failed"}

Free == [at |-> "free", ctx |-> NoRequest, ec |-> "none"]
Busy == [at |-> "busy", ctx |-> NoRequest, ec |-> "none"]
Handling(c, ec, at) == [at |-> at, ctx |-> c, ec |-> ec]
Errors == {"ok", "failed", "timed_out"}
Handlers == [at : {"callback", "complete"}, ctx : Requests, ec : Errors]

\* An operation is outstanding from the start of a request to its end, and the
\* timer is not set before.
Consistent(c) ==
    /\ net[c] = "idle" <=> op[c] \in {"none", "over"}
    /\ op[c] = "none" => timer[c] = "unset"

ClientTypeOK ==
    /\ op \in [Requests -> Phases \cup {"none", "over"}]
    /\ net \in [Requests -> Outcomes \cup {"idle", "pending"}]
    /\ closed \in [Requests -> BOOLEAN]
    /\ timer \in [Requests -> {"unset", "armed", "due", "aborted", "done"}]
    /\ completed_ \in [Requests -> BOOLEAN]
    /\ calls \in [Requests -> Nat]
    /\ worker \in [Threads -> Handlers \cup {Free, Busy}]
    /\ \A c \in Requests : Consistent(c)

ClientInit ==
    /\ op = [c \in Requests |-> "none"]
    /\ net = [c \in Requests |-> "idle"]
    /\ closed = [c \in Requests |-> FALSE]
    /\ timer = [c \in Requests |-> "unset"]
    /\ completed_ = [c \in Requests |-> FALSE]
    /\ calls = [c \in Requests |-> 0]
    /\ worker = [t \in Threads |-> Free]

-----------------------------------------------------------------------------
(* The caller's side: async_request.                                       *)

\* The URL parses: the timer is armed and the resolution is started.
start(c) ==
    /\ op[c] = "none"
    /\ op' = [op EXCEPT ![c] = "resolve"]
    /\ net' = [net EXCEPT ![c] = "pending"]
    /\ timer' = [timer EXCEPT ![c] = "armed"]
    /\ UNCHANGED <<closed, completed_, calls, worker>>

\* parse_url throws: the callback runs on the caller's stack, no context exists.
reject_url(c) ==
    /\ op[c] = "none"
    /\ op' = [op EXCEPT ![c] = "over"]
    /\ calls' = [calls EXCEPT ![c] = @ + 1]
    /\ UNCHANGED <<net, closed, timer, completed_, worker>>

-----------------------------------------------------------------------------
(* The network and the clock.                                              *)

\* The outstanding operation completes. On a closed socket it can only fail; a
\* resolution does not use the socket.
NetCompletes(c) ==
    /\ net[c] = "pending"
    /\ \E out \in Outcomes :
          /\ out = "ok" => ~closed[c] \/ op[c] = "resolve"
          /\ net' = [net EXCEPT ![c] = out]
    /\ UNCHANGED <<op, closed, timer, completed_, calls, worker>>

\* backend_timeout has passed: the wait on the timer is ready to be handled.
TimerExpires(c) ==
    /\ timer[c] = "armed"
    /\ timer' = [timer EXCEPT ![c] = "due"]
    /\ UNCHANGED <<op, net, closed, completed_, calls, worker>>

-----------------------------------------------------------------------------
(* The handlers, run by a free thread of the pool.                         *)

NextPhase == [resolve |-> "connect", connect |-> "write", write |-> "read"]

\* cancel() aborts a wait that is still in the timer heap; an expiry already
\* moved to the completion queue cannot be taken back.
cancel_timeout(c) ==
    \E left \in IF timer[c] = "due" THEN {"due", "aborted"} ELSE {"aborted"} :
        timer' = [timer EXCEPT ![c] = IF timer[c] = "done" THEN @ ELSE left]

\* A handler of a context that is completed returns at once.
IoHandlerLate(t, c) ==
    /\ worker[t] = Free
    /\ net[c] \in Outcomes
    /\ completed_[c]
    /\ op' = [op EXCEPT ![c] = "over"]
    /\ net' = [net EXCEPT ![c] = "idle"]
    /\ UNCHANGED <<closed, timer, completed_, calls, worker>>

\* Mutant: the timer is cancelled as soon as the first operation succeeds.
AdvancesWithoutTimer(t, c) ==
    /\ worker[t] = Free
    /\ net[c] = "ok" /\ ~completed_[c] /\ op[c] # "read"
    /\ op' = [op EXCEPT ![c] = NextPhase[@]]
    /\ net' = [net EXCEPT ![c] = "pending"]
    /\ closed' = [closed EXCEPT ![c] = @ /\ op[c] # "resolve"]
    /\ cancel_timeout(c)
    /\ UNCHANGED <<completed_, calls, worker>>

\* Mutant: the handler of an operation that succeeded does not look at completed_.
AdvancesUnchecked(t, c) ==
    /\ worker[t] = Free
    /\ net[c] = "ok" /\ op[c] # "read"
    /\ op' = [op EXCEPT ![c] = NextPhase[@]]
    /\ net' = [net EXCEPT ![c] = "pending"]
    /\ closed' = [closed EXCEPT ![c] = @ /\ op[c] # "resolve"]
    /\ UNCHANGED <<timer, completed_, calls, worker>>

\* An operation before the read succeeded: start the next one. async_connect
\* opens the socket again, whether or not it has been closed.
IoHandlerAdvances(t, c) ==
    /\ worker[t] = Free
    /\ net[c] = "ok"
    /\ ~completed_[c]
    /\ op[c] # "read"
    /\ op' = [op EXCEPT ![c] = NextPhase[@]]
    /\ net' = [net EXCEPT ![c] = "pending"]
    /\ closed' = [closed EXCEPT ![c] = @ /\ op[c] # "resolve"]
    /\ UNCHANGED <<timer, completed_, calls, worker>>

\* Mutant: the connection is read again after the response.
EndsAndReadsOn(t, c) ==
    /\ worker[t] = Free
    /\ net[c] \in Outcomes /\ ~completed_[c]
    /\ net[c] = "ok" => op[c] = "read"
    /\ net' = [net EXCEPT ![c] = "pending"]
    /\ cancel_timeout(c)
    /\ worker' = [worker EXCEPT ![t] = Handling(c, net[c], "callback")]
    /\ UNCHANGED <<op, closed, completed_, calls>>

\* Mutant: the operation that failed is left as the outstanding one.
EndsWithoutReset(t, c) ==
    /\ worker[t] = Free
    /\ net[c] \in Outcomes /\ ~completed_[c]
    /\ net[c] = "ok" => op[c] = "read"
    /\ op' = [op EXCEPT ![c] = "over"]
    /\ cancel_timeout(c)
    /\ worker' = [worker EXCEPT ![t] = Handling(c, net[c], "callback")]
    /\ UNCHANGED <<net, closed, completed_, calls>>

\* The response was read, or an operation or the parsing of the response
\* failed: cancel the timer and go on to the callback.
IoHandlerEnds(t, c) ==
    /\ worker[t] = Free
    /\ net[c] \in Outcomes
    /\ ~completed_[c]
    /\ net[c] = "ok" => op[c] = "read"
    /\ op' = [op EXCEPT ![c] = "over"]
    /\ net' = [net EXCEPT ![c] = "idle"]
    /\ cancel_timeout(c)
    /\ worker' = [worker EXCEPT ![t] = Handling(c, net[c], "callback")]
    /\ UNCHANGED <<closed, completed_, calls>>

\* Closing the socket aborts what is outstanding on it, not a resolution.
AbortedBySocket(c) == op[c] \in {"connect", "write", "read"} /\ net[c] = "pending"

\* The timer expired and the request is not completed: close the socket.
handle_timeout(t, c) ==
    /\ worker[t] = Free
    /\ timer[c] = "due"
    /\ ~completed_[c]
    /\ timer' = [timer EXCEPT ![c] = "done"]
    /\ closed' = [closed EXCEPT ![c] = TRUE]
    /\ net' = [net EXCEPT ![c] = IF AbortedBySocket(c) THEN "failed" ELSE @]
    /\ worker' = [worker EXCEPT ![t] = Handling(c, "timed_out", "callback")]
    /\ UNCHANGED <<op, completed_, calls>>

\* The timer was cancelled, or it expired after the request was completed.
handle_timeout_ignored(t, c) ==
    /\ worker[t] = Free
    /\ timer[c] = "aborted" \/ (timer[c] = "due" /\ completed_[c])
    /\ timer' = [timer EXCEPT ![c] = "done"]
    /\ UNCHANGED <<op, net, closed, completed_, calls, worker>>

\* The handler runs the callback given to async_request ...
callback(t) ==
    /\ worker[t].at = "callback"
    /\ calls' = [calls EXCEPT ![worker[t].ctx] = @ + 1]
    /\ worker' = [worker EXCEPT ![t] = Handling(worker[t].ctx, worker[t].ec, "complete")]
    /\ UNCHANGED <<op, net, closed, timer, completed_>>

\* Mutant: completed_ is never set.
CompleteForgets(t) ==
    /\ worker[t].at = "complete"
    /\ worker' = [worker EXCEPT ![t] = Free]
    /\ UNCHANGED <<op, net, closed, timer, completed_, calls>>

\* ... and only when it has returned marks the request as completed.
complete(t) ==
    /\ worker[t].at = "complete"
    /\ completed_' = [completed_ EXCEPT ![worker[t].ctx] = TRUE]
    /\ worker' = [worker EXCEPT ![t] = Free]
    /\ UNCHANGED <<op, net, closed, timer, calls>>

Handler(t, c) ==
    \/ IoHandlerLate(t, c) \/ IoHandlerAdvances(t, c) \/ IoHandlerEnds(t, c)
    \/ handle_timeout(t, c) \/ handle_timeout_ignored(t, c)

-----------------------------------------------------------------------------
(* The client by itself: the other handlers of the pool take threads too.  *)

OtherHandlerTakes(t) ==
    /\ worker[t] = Free
    /\ worker' = [worker EXCEPT ![t] = Busy]
    /\ UNCHANGED <<op, net, closed, timer, completed_, calls>>

OtherHandlerReturns(t) ==
    /\ worker[t] = Busy
    /\ worker' = [worker EXCEPT ![t] = Free]
    /\ UNCHANGED <<op, net, closed, timer, completed_, calls>>

ClientNext ==
    \/ \E c \in Requests : start(c) \/ reject_url(c) \/ NetCompletes(c) \/ TimerExpires(c)
    \/ \E t \in Threads, c \in Requests : Handler(t, c)
    \/ \E t \in Threads : callback(t) \/ complete(t)
    \/ \E t \in Threads : OtherHandlerTakes(t) \/ OtherHandlerReturns(t)

ClientSpec == ClientInit /\ [][ClientNext]_clientVars

(***************************************************************************)
(* Fairness: time passes; a running thread goes on; a free pool runs what  *)
(* is queued (the io_context queue is first in, first out, so a handler    *)
(* that keeps being ready is not passed over for ever, although the        *)
(* threads come and go: strong fairness). The system resolver always       *)
(* returns, and an operation on a closed socket fails. Nothing is assumed  *)
(* of the backend: a connect, a write or a read on an open socket may stay *)
(* outstanding for ever.                                                   *)
(***************************************************************************)
ClientFairness ==
    /\ \A c \in Requests :
          /\ WF_clientVars(TimerExpires(c))
          /\ WF_clientVars((op[c] = "resolve" \/ closed[c]) /\ NetCompletes(c))
          /\ SF_clientVars(\E t \in Threads :
                IoHandlerLate(t, c) \/ IoHandlerAdvances(t, c) \/ IoHandlerEnds(t, c))
          /\ SF_clientVars(\E t \in Threads : handle_timeout(t, c) \/ handle_timeout_ignored(t, c))
    /\ \A t \in Threads : WF_clientVars(callback(t) \/ complete(t) \/ OtherHandlerReturns(t))

FairClientSpec == ClientSpec /\ ClientFairness

-----------------------------------------------------------------------------
(* Properties.                                                             *)

\* The callback of a request has been run, whatever the backend does: the
\* timer is the way out (http_client.cpp:173-185).
CalledBack(c) == calls[c] > 0

EveryRequestIsCalledBack == \A c \in Requests : (op[c] # "none") ~> CalledBack(c)

\* However the I/O handlers and the timer race, the callback runs at most
\* twice: once out of the chain of operations, once out of the timer.
CallbackAtMostTwice == \A c \in Requests : calls[c] <= 2

\* A handler goes on to the callback of a request that has been called back
\* already only while the handler that did so has not yet set completed_: but
\* for that overlap of two threads the flag keeps the callback from running
\* again (http_client.cpp:112-119, 134-136, 174-182).
SecondCallNeedsOverlap ==
    [][\A c \in Requests, t \in Threads :
          worker[t] = Free /\ worker'[t].ctx = c /\ calls[c] > 0 =>
              \E u \in Threads : worker[u].ctx = c /\ worker[u].at = "complete"]_clientVars

\* A connect opens the socket that the timer's handler has closed only while
\* that handler is still on its way to set completed_: afterwards nothing is
\* started any more on behalf of the request (http_client.cpp:42-47, 173-183).
ReopeningNeedsOverlap ==
    [][\A c \in Requests :
          closed[c] /\ ~closed'[c] =>
              \E t \in Threads : worker[t].ctx = c /\ worker[t].ec = "timed_out"]_clientVars

Idle(c) == \A t \in Threads : worker[t].ctx # c

\* The timer's handler closes the socket "to cancel all operations"
\* (http_client.cpp:177): once a request is completed and no handler of it is
\* running, none is left outstanding on an open socket, where the backend's
\* silence would keep the connection and its context for ever, for the timer
\* is spent. With two threads the code does not keep this.
NoOrphanConnection ==
    \A c \in Requests :
        completed_[c] /\ Idle(c) /\ net[c] = "pending" => op[c] = "resolve" \/ closed[c]

\* A request in the middle of an operation is always watched: its timer can
\* still fire, or it fired and the handler is under way, or the operation has
\* been aborted. Otherwise a silent backend would hold the request for ever.
OutstandingIsWatched ==
    \A c \in Requests :
        net[c] = "pending" /\ ~completed_[c] =>
            \/ timer[c] \in {"armed", "due"}
            \/ \E t \in Threads : worker[t].ctx = c
=============================================================================
