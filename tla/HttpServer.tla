------------------------------ MODULE HttpServer ------------------------------
(***************************************************************************)
(* The HTTP server of the gateway (src/http_server.cpp) with the start and *)
(* the end of its life (src/main.cpp, Gateway::start, stop, ~Gateway): the *)
(* accept loop and the connections, whose handlers any free thread of the  *)
(* pool runs, the main thread, and the signal handler, which stops the     *)
(* server from the middle of whatever thread it interrupts. running_ is a  *)
(* plain bool and the acceptor has no lock: stop is three steps here, and  *)
(* the tail of the accept handler two. Of the logger (src/logger.cpp) only *)
(* this is kept: its sinks have a mutex that is not recursive, and so a    *)
(* signal handler that logs on a thread it caught logging waits for itself *)
(* for ever, and then all others that log wait too.                        *)
(***************************************************************************)
EXTENDS Naturals, FiniteSets

CONSTANTS Connections,  \* the clients, one connection each
          Threads,      \* the threads that run the io_context
          NoConnection

ASSUME ServerAssumption == NoConnection \notin Connections /\ Threads # {}

VARIABLES
    running_,
    acceptor_,  \* "open" from the constructor on, or "closed"
    accept,     \* the accept operation: none, pending, or its handler queued
    socket,     \* the connection that the accept operation delivers
    conn,       \* conn[c]: how far connection c is
    worker,     \* worker[t]: the handler thread t runs
    main,       \* where the main thread is
    signal,     \* where the signal handler is
    stopped     \* io_context_.stop() was called

acceptVars == <<accept, socket>>
serverVars == <<running_, acceptor_, acceptVars, conn, worker, main, signal, stopped>>

Free == [at |-> "free", conn |-> NoConnection]
Running(at, c) == [at |-> at, conn |-> c]
Queued == {"accepted", "error", "operation_aborted", "bad_descriptor"}
\* Both callers of HttpServer::stop pass through these, see below.
Stopping == {"stop", "clearing", "closing"}

ServerTypeOK ==
    /\ running_ \in BOOLEAN /\ stopped \in BOOLEAN
    /\ acceptor_ \in {"open", "closed"}
    /\ accept \in {"none", "pending"} \cup Queued
    /\ socket \in Connections \cup {NoConnection}
    /\ accept = "accepted" <=> socket # NoConnection
    /\ conn \in [Connections -> {"none", "backlog", "accepted", "reading", "request", "read_error",
                                 "handling", "writing", "rest", "written", "closed"}]
    /\ worker \in [Threads -> {Free} \cup [at : {"check", "rearm"}, conn : {NoConnection}]
                              \cup [at : {"handler_"}, conn : Connections]]
    /\ main \in {"constructed", "starting", "started", "serving", "leaving", "joining", "ended"} \cup Stopping
    /\ signal \in {"none", "done", "hung"} \cup Stopping

ServerInit ==
    /\ running_ = FALSE /\ acceptor_ = "open"
    /\ accept = "none" /\ socket = NoConnection
    /\ conn = [c \in Connections |-> "none"]
    /\ worker = [t \in Threads |-> Free]
    /\ main = "constructed" /\ signal = "none" /\ stopped = FALSE

-----------------------------------------------------------------------------
(* start, stop and the end of main.                                        *)

\* A call of Logger::info, warn or error returns.
LoggerFree == signal # "hung"

\* Some thread is in such a call: main in Gateway::start, stop and ~Gateway, the
\* watcher thread, from enable_hot_reload to disable_hot_reload, about a file
\* that has changed, or one of the pool in handle_request.
SomeoneLogs ==
    \/ main \notin {"starting", "joining", "ended"}
    \/ \E t \in Threads : worker[t].at = "handler_"

\* do_accept: on a closed acceptor the operation fails at once.
do_accept ==
    /\ accept' = IF acceptor_ = "open" THEN "pending" ELSE "bad_descriptor"
    /\ socket' = NoConnection

StartSets ==
    /\ main = "constructed" /\ LoggerFree
    /\ running_' = TRUE
    /\ main' = "starting"
    /\ UNCHANGED <<acceptor_, acceptVars, conn, worker, signal, stopped>>

StartAccepts ==
    /\ main = "starting"
    /\ do_accept
    /\ main' = "started"
    /\ UNCHANGED <<running_, acceptor_, conn, worker, signal, stopped>>

\* start logs after the first accept, and enable_hot_reload logs too.
StartLogs ==
    /\ main = "started" /\ LoggerFree
    /\ main' = "serving"
    /\ UNCHANGED <<running_, acceptor_, acceptVars, conn, worker, signal, stopped>>

\* SIGINT or SIGTERM, at any moment after the handler is installed:
\* shutdown_requested, then Gateway::stop, which logs before it stops.
SignalArrives ==
    /\ signal = "none" /\ main # "ended"
    /\ signal' = "stop" \/ (SomeoneLogs /\ signal' = "hung")
    /\ UNCHANGED <<running_, acceptor_, acceptVars, conn, worker, main, stopped>>

\* Mutant: shutdown_requested is not looked at.
MainLeavesWhenStopped ==
    /\ main = "serving" /\ ~running_
    /\ main' = "stop"
    /\ UNCHANGED <<running_, acceptor_, acceptVars, conn, worker, signal, stopped>>

MainLeaves ==
    /\ main = "serving"
    /\ signal # "none" \/ ~running_
    /\ main' = "stop"
    /\ UNCHANGED <<running_, acceptor_, acceptVars, conn, worker, signal, stopped>>

\* HttpServer::stop, of which `at' is the caller's place and `next' the next.
stop(at, next, after) ==
    \/ /\ at = "stop"
       /\ next = IF running_ THEN "clearing" ELSE after
       /\ UNCHANGED <<running_, acceptor_, acceptVars>>
    \/ /\ at = "clearing"
       /\ running_' = FALSE
       /\ next = "closing"
       /\ UNCHANGED <<acceptor_, acceptVars>>
    \/ /\ at = "closing"
       /\ acceptor_' = "closed"
       /\ accept' = IF accept = "pending" THEN "operation_aborted" ELSE accept
       /\ next = after
       /\ UNCHANGED <<running_, socket>>

MainStops ==
    /\ main \in Stopping /\ (main = "stop" => LoggerFree)
    /\ main' \in Stopping \cup {"leaving"} /\ stop(main, main', "leaving")
    /\ UNCHANGED <<conn, worker, signal, stopped>>

SignalStops ==
    /\ signal \in Stopping
    /\ signal' \in Stopping \cup {"done"} /\ stop(signal, signal', "done")
    /\ UNCHANGED <<conn, worker, main, stopped>>

\* What stop and disable_hot_reload log at their ends, and ~Gateway, whose own
\* call of stop finds running_ cleared; then io_context_.stop().
Destruct ==
    /\ main = "leaving" /\ LoggerFree
    /\ stopped' = TRUE
    /\ main' = "joining"
    /\ UNCHANGED <<running_, acceptor_, acceptVars, conn, worker, signal>>

\* ... and the join of the pool, one of whose threads the signal may have hit.
Join ==
    /\ main = "joining"
    /\ signal \notin Stopping
    /\ \A t \in Threads : worker[t] = Free
    /\ main' = "ended"
    /\ UNCHANGED <<running_, acceptor_, acceptVars, conn, worker, signal, stopped>>

-----------------------------------------------------------------------------
(* The clients and the network.                                            *)

Connect(c) ==
    /\ conn[c] = "none" /\ acceptor_ = "open"
    /\ conn' = [conn EXCEPT ![c] = "backlog"]
    /\ UNCHANGED <<running_, acceptor_, acceptVars, worker, main, signal, stopped>>

AcceptCompletes(c) ==
    /\ accept = "pending" /\ conn[c] = "backlog"
    /\ accept' = "accepted" /\ socket' = c
    /\ conn' = [conn EXCEPT ![c] = "accepted"]
    /\ UNCHANGED <<running_, acceptor_, worker, main, signal, stopped>>

\* No descriptor is left, or the client is gone.
AcceptFails ==
    /\ accept = "pending"
    /\ accept' = "error"
    /\ UNCHANGED <<running_, acceptor_, socket, conn, worker, main, signal, stopped>>

\* The blank line after the headers arrives, or the client goes away. A client
\* may also stay silent: nothing limits the time of this read.
ReadCompletes(c) ==
    /\ conn[c] = "reading"
    /\ \E outcome \in {"request", "read_error"} : conn' = [conn EXCEPT ![c] = outcome]
    /\ UNCHANGED <<running_, acceptor_, acceptVars, worker, main, signal, stopped>>

\* The rest of a response that did not fit into the socket's buffer is sent
\* when there is room, unless the client goes away. It is sent out of a string
\* that has been freed since; what the bytes are is not modelled.
RestIsSent(c) ==
    /\ conn[c] = "rest"
    /\ conn' = [conn EXCEPT ![c] = "written"]
    /\ UNCHANGED <<running_, acceptor_, acceptVars, worker, main, signal, stopped>>

-----------------------------------------------------------------------------
(* The handlers, on thread t of the pool.                                  *)

Takes(t) == worker[t] = Free /\ ~stopped
Delivered == accept = "accepted" \/ accept = "operation_aborted"

\* Mutant: an error ends the accept loop.
AcceptGivesUp(t) ==
    /\ Takes(t)
    /\ accept \in Queued
    /\ accept' = "none" /\ socket' = NoConnection
    /\ IF accept = "accepted" THEN conn' = [conn EXCEPT ![socket] = "reading"] ELSE UNCHANGED conn
    /\ worker' = [worker EXCEPT ![t] = IF accept = "accepted" THEN Running("check", NoConnection) ELSE Free]
    /\ UNCHANGED <<running_, acceptor_, main, signal, stopped>>

\* Mutant: the socket is not moved out of the handler.
AcceptKeepsSocket(t) ==
    /\ Takes(t)
    /\ accept \in Queued /\ (Delivered \/ LoggerFree)
    /\ accept' = "none"
    /\ IF accept = "accepted" THEN conn' = [conn EXCEPT ![socket] = "reading"] ELSE UNCHANGED conn
    /\ worker' = [worker EXCEPT ![t] = Running("check", NoConnection)]
    /\ UNCHANGED <<running_, acceptor_, socket, main, signal, stopped>>

\* The accept handler starts the connection, if there is one, or logs the
\* error, if it is one; ...
AcceptHandler(t) ==
    /\ Takes(t)
    /\ accept \in Queued /\ (Delivered \/ LoggerFree)
    /\ accept' = "none" /\ socket' = NoConnection
    /\ IF accept = "accepted" THEN conn' = [conn EXCEPT ![socket] = "reading"] ELSE UNCHANGED conn
    /\ worker' = [worker EXCEPT ![t] = Running("check", NoConnection)]
    /\ UNCHANGED <<running_, acceptor_, main, signal, stopped>>

\* Mutant: running_ is not looked at.
ChecksNothing(t) ==
    /\ worker[t].at = "check"
    /\ worker' = [worker EXCEPT ![t] = Running("rearm", NoConnection)]
    /\ UNCHANGED <<running_, acceptor_, acceptVars, conn, main, signal, stopped>>

\* ... reads running_ ...
ChecksRunning(t) ==
    /\ worker[t].at = "check"
    /\ worker' = [worker EXCEPT ![t] = IF running_ THEN Running("rearm", NoConnection) ELSE Free]
    /\ UNCHANGED <<running_, acceptor_, acceptVars, conn, main, signal, stopped>>

\* ... and accepts again.
Rearms(t) ==
    /\ worker[t].at = "rearm"
    /\ do_accept
    /\ worker' = [worker EXCEPT ![t] = Free]
    /\ UNCHANGED <<running_, acceptor_, conn, main, signal, stopped>>

\* The read handler: on an error the connection is dropped; ...
ReadFails(t, c) ==
    /\ Takes(t) /\ conn[c] = "read_error" /\ LoggerFree
    /\ conn' = [conn EXCEPT ![c] = "closed"]
    /\ UNCHANGED <<running_, acceptor_, acceptVars, worker, main, signal, stopped>>

\* ... otherwise it parses the request and calls handler_, which blocks; ...
HandlerStarts(t, c) ==
    /\ Takes(t) /\ conn[c] = "request"
    /\ conn' = [conn EXCEPT ![c] = "handling"]
    /\ worker' = [worker EXCEPT ![t] = Running("handler_", c)]
    /\ UNCHANGED <<running_, acceptor_, acceptVars, main, signal, stopped>>

\* Mutant: nothing is written when the request cannot be parsed.
HandlerMayForget(t) ==
    /\ worker[t].at = "handler_"
    /\ \E next \in {"handling", "written"} : conn' = [conn EXCEPT ![worker[t].conn] = next]
    /\ worker' = [worker EXCEPT ![t] = Free]
    /\ UNCHANGED <<running_, acceptor_, acceptVars, main, signal, stopped>>

\* ... and its response, or a 500 if something was thrown, is passed to
\* do_write, which sends at once what fits. The string dies with the call.
do_write(t) ==
    /\ worker[t].at = "handler_" /\ LoggerFree
    /\ \E next \in {"rest", "written"} : conn' = [conn EXCEPT ![worker[t].conn] = next]
    /\ worker' = [worker EXCEPT ![t] = Free]
    /\ UNCHANGED <<running_, acceptor_, acceptVars, main, signal, stopped>>

\* The write handler closes the connection, whatever happened.
WriteHandler(t, c) ==
    /\ Takes(t) /\ conn[c] = "written"
    /\ conn' = [conn EXCEPT ![c] = "closed"]
    /\ UNCHANGED <<running_, acceptor_, acceptVars, worker, main, signal, stopped>>

-----------------------------------------------------------------------------
MainThread == StartSets \/ StartAccepts \/ StartLogs \/ MainLeaves \/ MainStops \/ Destruct \/ Join
Proceeds(t) == ChecksRunning(t) \/ Rearms(t) \/ do_write(t)
ConnectionHandler(t, c) == ReadFails(t, c) \/ HandlerStarts(t, c) \/ WriteHandler(t, c)

ServerNext ==
    \/ MainThread \/ SignalArrives \/ SignalStops \/ AcceptFails
    \/ \E c \in Connections : Connect(c) \/ AcceptCompletes(c) \/ ReadCompletes(c) \/ RestIsSent(c)
    \/ \E t \in Threads : AcceptHandler(t) \/ Proceeds(t)
    \/ \E t \in Threads, c \in Connections : ConnectionHandler(t, c)

ServerSpec == ServerInit /\ [][ServerNext]_serverVars

(***************************************************************************)
(* Fairness: threads run, handler_ returns (forward_request waits no       *)
(* longer than backend_timeout and a second), the pool passes over no      *)
(* queued handler for ever. Clients, the network and signals owe nothing,  *)
(* but an accept that meets a waiting client completes in some way.        *)
(***************************************************************************)
FairServerSpec ==
    /\ ServerSpec
    /\ WF_serverVars(MainThread) /\ WF_serverVars(SignalStops)
    /\ WF_serverVars((\E c \in Connections : AcceptCompletes(c)))
    /\ SF_serverVars(\E t \in Threads : AcceptHandler(t))
    /\ \A t \in Threads : WF_serverVars(Proceeds(t))
    /\ \A c \in Connections : SF_serverVars(\E t \in Threads : ConnectionHandler(t, c))

-----------------------------------------------------------------------------
(* Properties.                                                             *)

Accepting == (IF accept = "none" THEN 0 ELSE 1)
           + Cardinality({t \in Threads : worker[t].at \in {"check", "rearm"}})

\* While the server runs the accept loop goes round, whatever errors it meets,
\* and there are never two of it on the one acceptor: exactly one accept is
\* outstanding, queued, or about to be made (http_server.cpp:97-138).
OneAcceptLoop ==
    /\ Accepting <= 1
    /\ running_ /\ main # "starting" => Accepting = 1

\* Once running_ is cleared the accept loop only winds down, even if that
\* comes between the accept handler's look at running_ and its next accept,
\* which then fails on the closed acceptor: at most one more round is made, and
\* the loop does not spin on the error (http_server.cpp:108-137).
StepsToEnd ==
    CASE \E t \in Threads : worker[t].at = "rearm" -> 3
      [] accept # "none" -> 2
      [] \E t \in Threads : worker[t].at = "check" -> 1
      [] OTHER -> 0

StopEndsLoop ==
    [][~running_ /\ main # "starting" => StepsToEnd' <= StepsToEnd]_serverVars

\* The handler of every request whose headers have arrived gives an answer to
\* the connection, until the pool is stopped or hangs (http_server.cpp:26-58).
EveryRequestIsAnswered ==
    \A c \in Connections :
        conn[c] = "request" ~> (conn[c] \in {"rest", "written", "closed"} \/ stopped \/ ~LoggerFree)

\* A signal that catches no thread in the logger ends the program, whatever
\* the server and its connections are doing (main.cpp:15-70).
SignalEndsMain == signal = "stop" ~> main = "ended"

-----------------------------------------------------------------------------
(* What the documents say of the server.                                   *)

\* "Graceful shutdown (signal handling)", "Press Ctrl+C to stop": the program
\* ends after every signal.
EverySignalEndsMain == signal # "none" ~> main = "ended"
=============================================================================
