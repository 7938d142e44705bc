--------------------------- MODULE HttpServerProofs ---------------------------
(***************************************************************************)
(* The accept loop of the server, for any number of clients and threads.   *)
(* It is passed from hand to hand: an accept is outstanding or its handler *)
(* queued, or one thread is in the tail of that handler. The invariant     *)
(* says that there is one such hand at most, whatever the signal handler   *)
(* does in between, and that a server which runs has not dropped it.       *)
(***************************************************************************)
EXTENDS HttpServer, FiniteSetTheorems, TLAPS

\* Thread t has run an accept handler and not yet decided on the next accept.
InTail(t) == worker[t].at \in {"check", "rearm"}

\* Before main has made the first accept there is no loop.
NotYetLooping ==
    main \in {"constructed", "starting"} => accept = "none" /\ \A t \in Threads : ~InTail(t)

OneHand ==
    /\ accept # "none" => \A t \in Threads : ~InTail(t)
    /\ \A t, u \in Threads : InTail(t) /\ InTail(u) => t = u

NotDropped ==
    /\ main = "constructed" => ~running_
    /\ running_ /\ main # "starting" => accept # "none" \/ \E t \in Threads : InTail(t)

LoopInv == NotYetLooping /\ OneHand /\ NotDropped
ServerInv == ServerTypeOK /\ LoopInv

USE DEF Free, Running, Queued, Stopping

\* The server as it is constructed.
LEMMA ServerInvInit == ServerInit => ServerInv
<1> SUFFICES ASSUME ServerInit PROVE ServerInv
  OBVIOUS
<1>1. /\ running_ = FALSE /\ acceptor_ = "open" /\ accept = "none" /\ socket = NoConnection
      /\ main = "constructed" /\ signal = "none" /\ stopped = FALSE
      /\ conn = [c \in Connections |-> "none"] /\ worker = [t \in Threads |-> Free]
  BY DEF ServerInit
<1>2. ServerTypeOK
  BY <1>1, ServerAssumption DEF ServerTypeOK
<1>3. \A t \in Threads : ~InTail(t)
  BY <1>1 DEF InTail
<1> QED
  BY <1>1, <1>2, <1>3 DEF ServerInv, LoopInv, NotYetLooping, OneHand, NotDropped

-----------------------------------------------------------------------------
(* Types.                                                                  *)

\* What main and the signal handler do to the server when they stop it.
LEMMA StopEffect ==
    ASSUME ServerTypeOK, NEW at, NEW next, NEW after, stop(at, next, after)
    PROVE  /\ running_' \in BOOLEAN /\ (running_' => running_)
           /\ acceptor_' \in {"open", "closed"}
           /\ socket' = socket
           /\ accept' = accept \/ (accept = "pending" /\ accept' = "operation_aborted")
<1>1. CASE UNCHANGED <<running_, acceptor_, acceptVars>>
  BY <1>1 DEF acceptVars, ServerTypeOK
<1>2. CASE running_' = FALSE /\ UNCHANGED <<acceptor_, acceptVars>>
  BY <1>2 DEF acceptVars, ServerTypeOK
<1>3. CASE /\ acceptor_' = "closed"
           /\ accept' = IF accept = "pending" THEN "operation_aborted" ELSE accept
           /\ UNCHANGED <<running_, socket>>
  BY <1>3 DEF ServerTypeOK
<1> QED
  BY <1>1, <1>2, <1>3 DEF stop

\* The main thread and the signal handler keep the state well formed.
LEMMA MainTyped ==
    ASSUME ServerTypeOK, MainThread \/ SignalArrives \/ SignalStops
    PROVE  ServerTypeOK'
<1>1. CASE StartSets
  BY <1>1 DEF StartSets, ServerTypeOK, acceptVars
<1>9. CASE StartLogs
  BY <1>9 DEF StartLogs, ServerTypeOK, acceptVars
<1>5. CASE MainLeaves
  BY <1>5 DEF MainLeaves, ServerTypeOK, acceptVars
<1>6. CASE Destruct
  BY <1>6 DEF Destruct, ServerTypeOK, acceptVars
<1>7. CASE Join
  BY <1>7 DEF Join, ServerTypeOK, acceptVars
<1>8. CASE SignalArrives
  <2>1. /\ signal' \in {"stop", "hung"}
        /\ UNCHANGED <<running_, acceptor_, accept, socket, conn, worker, main, stopped>>
    BY <1>8 DEF SignalArrives, acceptVars
  <2> QED
    BY <2>1 DEF ServerTypeOK
<1>2. CASE StartAccepts
  BY <1>2 DEF StartAccepts, do_accept, ServerTypeOK
<1>3. CASE MainStops
  <2>1. main' \in Stopping \cup {"leaving"} /\ UNCHANGED <<conn, worker, signal, stopped>>
    BY <1>3 DEF MainStops
  <2>2. stop(main, main', "leaving")
    BY <1>3 DEF MainStops
  <2> QED
    BY <2>1, <2>2, StopEffect DEF ServerTypeOK
<1>4. CASE SignalStops
  <2>1. signal' \in Stopping \cup {"done"} /\ UNCHANGED <<conn, worker, main, stopped>>
    BY <1>4 DEF SignalStops
  <2>2. stop(signal, signal', "done")
    BY <1>4 DEF SignalStops
  <2> QED
    BY <2>1, <2>2, StopEffect DEF ServerTypeOK
<1> QED
  BY <1>1, <1>2, <1>3, <1>4, <1>5, <1>6, <1>7, <1>8, <1>9 DEF MainThread

\* So do the clients and the network ...
LEMMA NetworkTyped ==
    ASSUME ServerTypeOK,
           AcceptFails \/ \E c \in Connections :
               Connect(c) \/ AcceptCompletes(c) \/ ReadCompletes(c) \/ RestIsSent(c)
    PROVE  ServerTypeOK'
<1>1. CASE AcceptFails
  BY <1>1 DEF AcceptFails, ServerTypeOK
<1>2. ASSUME NEW c \in Connections, AcceptCompletes(c) PROVE ServerTypeOK'
  BY <1>2, ServerAssumption DEF AcceptCompletes, ServerTypeOK
<1>3. ASSUME NEW c \in Connections, Connect(c) \/ ReadCompletes(c) \/ RestIsSent(c) PROVE ServerTypeOK'
  BY <1>3 DEF Connect, ReadCompletes, RestIsSent, ServerTypeOK, acceptVars
<1> QED
  BY <1>1, <1>2, <1>3

\* ... and the handlers.
LEMMA HandlersTyped ==
    ASSUME ServerTypeOK, NEW t \in Threads,
           AcceptHandler(t) \/ Proceeds(t) \/ \E c \in Connections : ConnectionHandler(t, c)
    PROVE  ServerTypeOK'
<1>1. CASE AcceptHandler(t)
  <2>1. conn' \in [Connections -> {"none", "backlog", "accepted", "reading", "request", "read_error",
                                   "handling", "writing", "rest", "written", "closed"}]
    BY <1>1 DEF AcceptHandler, ServerTypeOK
  <2> QED
    BY <1>1, <2>1 DEF AcceptHandler, ServerTypeOK
<1>2. CASE ChecksRunning(t)
  BY <1>2 DEF ChecksRunning, ServerTypeOK, acceptVars
<1>3. CASE Rearms(t)
  BY <1>3 DEF Rearms, do_accept, ServerTypeOK
<1>4. CASE do_write(t)
  <2>1. worker[t].conn \in Connections
    BY <1>4 DEF do_write, ServerTypeOK
  <2> QED
    BY <1>4, <2>1 DEF do_write, ServerTypeOK, acceptVars
<1>5. ASSUME NEW c \in Connections, ConnectionHandler(t, c) PROVE ServerTypeOK'
  <2>1. CASE ReadFails(t, c) \/ WriteHandler(t, c)
    BY <2>1 DEF ReadFails, WriteHandler, ServerTypeOK, acceptVars
  <2>2. CASE HandlerStarts(t, c)
    BY <2>2 DEF HandlerStarts, ServerTypeOK, acceptVars
  <2> QED
    BY <1>5, <2>1, <2>2 DEF ConnectionHandler
<1> QED
  BY <1>1, <1>2, <1>3, <1>4, <1>5 DEF Proceeds

LEMMA ServerTypeStep == ServerTypeOK /\ [ServerNext]_serverVars => ServerTypeOK'
<1>1. ASSUME ServerTypeOK, UNCHANGED serverVars PROVE ServerTypeOK'
  BY <1>1 DEF serverVars, acceptVars, ServerTypeOK
<1> QED
  BY <1>1, MainTyped, NetworkTyped, HandlersTyped DEF ServerNext

\* The state of the server, its connections and its threads is well formed.
THEOREM ServerTyped == ServerSpec => []ServerTypeOK
<1>1. ServerInit => ServerTypeOK
  BY ServerInvInit DEF ServerInv
<1> QED
  BY <1>1, ServerTypeStep, PTL DEF ServerSpec

-----------------------------------------------------------------------------
(* The accept loop.                                                        *)

\* A step that leaves the loop in the hand it is in.
HandKept ==
    /\ accept' = "none" <=> accept = "none"
    /\ \A t \in Threads : worker'[t].at = worker[t].at \/ (~InTail(t) /\ ~InTail(t)')
    /\ running_' => running_
    /\ main' = main \/ {main, main'} \cap {"constructed", "starting"} = {}

LEMMA KeptLoop == LoopInv /\ HandKept => LoopInv'
<1> SUFFICES ASSUME LoopInv, HandKept PROVE LoopInv'
  OBVIOUS
<1>1. \A t \in Threads : InTail(t)' <=> InTail(t)
  BY DEF HandKept, InTail
<1> QED
  BY <1>1 DEF LoopInv, HandKept, NotYetLooping, OneHand, NotDropped

\* The steps of main and of the signal handler, but for those that start the
\* loop, do not touch it: what stop does to the accept is to complete it.
LEMMA StopsKeepHand ==
    ASSUME ServerTypeOK, StartLogs \/ MainLeaves \/ MainStops \/ Destruct \/ Join \/ SignalArrives \/ SignalStops
    PROVE  HandKept
<1>1. CASE StartLogs \/ MainLeaves \/ Destruct \/ Join \/ SignalArrives
  <2>1. UNCHANGED <<running_, accept, worker>>
    BY <1>1 DEF StartLogs, MainLeaves, Destruct, Join, SignalArrives, acceptVars
  <2>2. main' = main \/ {main, main'} \cap {"constructed", "starting"} = {}
    BY <1>1 DEF StartLogs, MainLeaves, Destruct, Join, SignalArrives
  <2> QED
    BY <2>1, <2>2 DEF HandKept, InTail
<1>2. CASE MainStops
  <2>1. /\ main \in Stopping /\ main' \in Stopping \cup {"leaving"} /\ worker' = worker
        /\ stop(main, main', "leaving")
    BY <1>2 DEF MainStops
  <2>2. (accept' = "none" <=> accept = "none") /\ (running_' => running_)
    BY <2>1, StopEffect
  <2> QED
    BY <2>1, <2>2 DEF HandKept, InTail
<1>3. CASE SignalStops
  <2>1. main' = main /\ worker' = worker /\ stop(signal, signal', "done")
    BY <1>3 DEF SignalStops
  <2>2. (accept' = "none" <=> accept = "none") /\ (running_' => running_)
    BY <2>1, StopEffect
  <2> QED
    BY <2>1, <2>2 DEF HandKept, InTail
<1> QED
  BY <1>1, <1>2, <1>3

\* Nor do the clients, the network and the handlers of the connections.
LEMMA ConnectionsKeepHand ==
    ASSUME ServerTypeOK,
           \/ AcceptFails
           \/ \E c \in Connections : Connect(c) \/ AcceptCompletes(c) \/ ReadCompletes(c) \/ RestIsSent(c)
           \/ \E t \in Threads : do_write(t) \/ \E c \in Connections : ConnectionHandler(t, c)
    PROVE  HandKept
<1>1. CASE \/ AcceptFails
           \/ \E c \in Connections : Connect(c) \/ AcceptCompletes(c) \/ ReadCompletes(c) \/ RestIsSent(c)
  <2>1. UNCHANGED <<running_, worker, main>>
    BY <1>1 DEF AcceptFails, Connect, AcceptCompletes, ReadCompletes, RestIsSent
  <2>2. accept' = "none" <=> accept = "none"
    BY <1>1 DEF AcceptFails, Connect, AcceptCompletes, ReadCompletes, RestIsSent, acceptVars
  <2> QED
    BY <2>1, <2>2 DEF HandKept, InTail
<1>2. ASSUME NEW t \in Threads, do_write(t) PROVE HandKept
  BY <1>2 DEF do_write, HandKept, InTail, acceptVars, ServerTypeOK
<1>3. ASSUME NEW t \in Threads, NEW c \in Connections, ConnectionHandler(t, c) PROVE HandKept
  <2>1. UNCHANGED <<running_, accept, main>>
    BY <1>3 DEF ConnectionHandler, ReadFails, HandlerStarts, WriteHandler, acceptVars
  <2>2. worker' = worker \/ (worker[t] = Free /\ worker' = [worker EXCEPT ![t] = Running("handler_", c)])
    BY <1>3 DEF ConnectionHandler, ReadFails, HandlerStarts, WriteHandler, Takes
  <2> QED
    BY <2>1, <2>2 DEF HandKept, InTail, ServerTypeOK
<1> QED
  BY <1>1, <1>2, <1>3

\* The steps that pass the loop on: from the accept to the tail of its
\* handler, from there to the next accept or, if the server is stopped, to
\* nobody. One thread's own part of worker says all of it.
LEMMA HandPassed ==
    ASSUME ServerTypeOK, LoopInv, NEW t \in Threads, AcceptHandler(t) \/ ChecksRunning(t) \/ Rearms(t)
    PROVE  LoopInv'
<1>1. CASE AcceptHandler(t)
  <2>1. /\ accept # "none" /\ accept' = "none" /\ UNCHANGED <<running_, main>>
        /\ InTail(t)' /\ \A u \in Threads \ {t} : InTail(u)' <=> InTail(u)
    BY <1>1 DEF AcceptHandler, InTail, ServerTypeOK
  <2> QED
    BY <2>1 DEF LoopInv, NotYetLooping, OneHand, NotDropped
<1>2. CASE ChecksRunning(t)
  <2>1. /\ UNCHANGED <<accept, running_, main>> /\ InTail(t) /\ (InTail(t)' <=> running_)
        /\ \A u \in Threads \ {t} : InTail(u)' <=> InTail(u)
    BY <1>2 DEF ChecksRunning, InTail, ServerTypeOK, acceptVars
  <2> QED
    BY <2>1 DEF LoopInv, NotYetLooping, OneHand, NotDropped
<1>3. CASE Rearms(t)
  <2>1. /\ accept' # "none" /\ UNCHANGED <<running_, main>> /\ InTail(t) /\ ~InTail(t)'
        /\ \A u \in Threads \ {t} : InTail(u)' <=> InTail(u)
    BY <1>3 DEF Rearms, do_accept, InTail, ServerTypeOK
  <2> QED
    BY <2>1 DEF LoopInv, NotYetLooping, OneHand, NotDropped
<1> QED
  BY <1>1, <1>2, <1>3

LEMMA LoopStep == ServerInv /\ [ServerNext]_serverVars => LoopInv'
<1> SUFFICES ASSUME ServerTypeOK, LoopInv, [ServerNext]_serverVars PROVE LoopInv'
  BY DEF ServerInv
<1>1. CASE StartSets
  BY <1>1 DEF StartSets, acceptVars, LoopInv, NotYetLooping, OneHand, NotDropped, InTail
<1>2. CASE StartAccepts
  <2>1. /\ main = "starting" /\ main' = "started" /\ accept' # "none" /\ worker' = worker
    BY <1>2 DEF StartAccepts, do_accept
  <2> QED
    BY <2>1 DEF LoopInv, NotYetLooping, OneHand, NotDropped, InTail
<1>3. CASE StartLogs \/ MainLeaves \/ MainStops \/ Destruct \/ Join \/ SignalArrives \/ SignalStops
  BY <1>3, StopsKeepHand, KeptLoop
<1>4. CASE \/ AcceptFails
           \/ \E c \in Connections : Connect(c) \/ AcceptCompletes(c) \/ ReadCompletes(c) \/ RestIsSent(c)
           \/ \E t \in Threads : do_write(t) \/ \E c \in Connections : ConnectionHandler(t, c)
  BY <1>4, ConnectionsKeepHand, KeptLoop
<1>5. CASE \E t \in Threads : AcceptHandler(t) \/ ChecksRunning(t) \/ Rearms(t)
  BY <1>5, HandPassed
<1>6. CASE UNCHANGED serverVars
  BY <1>6, KeptLoop DEF serverVars, acceptVars, HandKept, InTail
<1> QED
  BY <1>1, <1>2, <1>3, <1>4, <1>5, <1>6 DEF ServerNext, MainThread, Proceeds

THEOREM ServerInvariant == ServerSpec => []ServerInv
<1>1. ServerInv /\ [ServerNext]_serverVars => ServerInv'
  BY ServerTypeStep, LoopStep DEF ServerInv
<1> QED
  BY ServerInvInit, <1>1, PTL DEF ServerSpec

-----------------------------------------------------------------------------
(* What the runs check of it.                                              *)

\* While the server runs exactly one accept is outstanding, queued or about
\* to be made, whichever threads run the handlers, whatever errors the
\* acceptor reports and wherever the signal strikes (http_server.cpp:97-138).
THEOREM OneLoop == ServerSpec => []OneAcceptLoop
<1>1. ServerInv => OneAcceptLoop
  <2> SUFFICES ASSUME LoopInv PROVE OneAcceptLoop
    BY DEF ServerInv
  <2> DEFINE Tails == {t \in Threads : worker[t].at \in {"check", "rearm"}}
  <2>1. CASE Tails = {}
    <3>1. Cardinality(Tails) = 0
      BY <2>1, FS_EmptySet
    <3>2. running_ /\ main # "starting" => accept # "none"
      BY <2>1 DEF LoopInv, NotDropped, InTail
    <3> HIDE DEF Tails
    <3> QED
      BY <3>1, <3>2 DEF OneAcceptLoop, Accepting, Tails
  <2>2. ASSUME NEW t \in Tails PROVE OneAcceptLoop
    <3>1. Tails = {t} /\ accept = "none"
      BY DEF LoopInv, OneHand, InTail
    <3>2. Cardinality(Tails) = 1
      BY <3>1, FS_Singleton
    <3> HIDE DEF Tails
    <3> QED
      BY <3>1, <3>2 DEF OneAcceptLoop, Accepting, Tails
  <2> QED
    BY <2>1, <2>2
<1> QED
  BY <1>1, ServerInvariant, PTL

\* Once running_ is cleared every step leaves the loop as far from its end as
\* it was, or nearer: an accept handler that had read running_ before makes
\* one more accept, and the handler of that one makes none
\* (http_server.cpp:108-137).
THEOREM StopWindsDown == ServerSpec => StopEndsLoop
<1>1. ServerInv /\ [ServerNext]_serverVars => [~running_ /\ main # "starting" => StepsToEnd' <= StepsToEnd]_serverVars
  <2> SUFFICES ASSUME ServerInv, ServerNext, ~running_, main # "starting" PROVE StepsToEnd' <= StepsToEnd
    OBVIOUS
  <2> USE DEF ServerInv
  <2>1. ASSUME HandKept PROVE StepsToEnd' <= StepsToEnd
    <3>1. \A t \in Threads : (worker'[t].at = "rearm" <=> worker[t].at = "rearm")
                           /\ (worker'[t].at = "check" <=> worker[t].at = "check")
      BY <2>1 DEF HandKept, InTail
    <3>2. accept' = "none" <=> accept = "none"
      BY <2>1 DEF HandKept
    <3>3. StepsToEnd' = StepsToEnd
      BY <3>1, <3>2 DEF StepsToEnd
    <3>4. StepsToEnd \in {0, 1, 2, 3}
      BY DEF StepsToEnd
    <3> QED
      BY <3>3, <3>4
  <2>2. CASE StartSets
    <3>1. accept' = "none" /\ \A t \in Threads : worker'[t].at \notin {"check", "rearm"}
      BY <2>2 DEF StartSets, acceptVars, LoopInv, NotYetLooping, InTail
    <3>2. StepsToEnd' = 0
      BY <3>1 DEF StepsToEnd
    <3>3. StepsToEnd \in {0, 1, 2, 3}
      BY DEF StepsToEnd
    <3> QED
      BY <3>2, <3>3
  <2>3. CASE StartLogs \/ MainLeaves \/ MainStops \/ Destruct \/ Join \/ SignalArrives \/ SignalStops
    BY <2>1, <2>3, StopsKeepHand
  <2>4. CASE \/ AcceptFails
             \/ \E c \in Connections : Connect(c) \/ AcceptCompletes(c) \/ ReadCompletes(c) \/ RestIsSent(c)
             \/ \E t \in Threads : do_write(t) \/ \E c \in Connections : ConnectionHandler(t, c)
    BY <2>1, <2>4, ConnectionsKeepHand
  <2>5. ASSUME NEW t \in Threads, AcceptHandler(t) PROVE StepsToEnd' <= StepsToEnd
    <3>1. accept # "none" /\ accept' = "none"
      BY <2>5 DEF AcceptHandler
    <3>2. \A u \in Threads : worker[u].at \notin {"check", "rearm"} /\ worker'[u].at # "rearm"
      BY <2>5, <3>1 DEF AcceptHandler, ServerTypeOK, LoopInv, OneHand, InTail
    <3>3. StepsToEnd = 2
      BY <3>1, <3>2 DEF StepsToEnd
    <3>4. StepsToEnd' = 0 \/ StepsToEnd' = 1
      <4>1. CASE \E u \in Threads : worker'[u].at = "check"
        BY <4>1, <3>1, <3>2 DEF StepsToEnd
      <4>2. CASE ~\E u \in Threads : worker'[u].at = "check"
        BY <4>2, <3>1, <3>2 DEF StepsToEnd
      <4> QED
        BY <4>1, <4>2
    <3> QED
      BY <3>3, <3>4
  <2>6. ASSUME NEW t \in Threads, ChecksRunning(t) PROVE StepsToEnd' <= StepsToEnd
    <3>1. accept' = "none" /\ \A u \in Threads : worker'[u].at \notin {"check", "rearm"}
      BY <2>6 DEF ChecksRunning, ServerTypeOK, LoopInv, OneHand, InTail, acceptVars
    <3>2. StepsToEnd' = 0
      BY <3>1 DEF StepsToEnd
    <3>3. StepsToEnd \in {0, 1, 2, 3}
      BY DEF StepsToEnd
    <3> QED
      BY <3>2, <3>3
  <2>7. ASSUME NEW t \in Threads, Rearms(t) PROVE StepsToEnd' <= StepsToEnd
    <3>1. /\ worker[t].at = "rearm" /\ accept = "none" /\ accept' # "none"
          /\ \A u \in Threads : worker[u].at # "check" /\ worker'[u].at \notin {"check", "rearm"}
      BY <2>7 DEF Rearms, do_accept, ServerTypeOK, LoopInv, OneHand, InTail
    <3>2. StepsToEnd = 3
      BY <3>1 DEF StepsToEnd
    <3>3. StepsToEnd' = 2
      BY <3>1 DEF StepsToEnd
    <3> QED
      BY <3>2, <3>3
  <2>8. ~StartAccepts
    BY DEF StartAccepts
  <2> QED
    BY <2>2, <2>3, <2>4, <2>5, <2>6, <2>7, <2>8 DEF ServerNext, MainThread, Proceeds
<1> QED
  BY <1>1, ServerInvariant, PTL DEF ServerSpec, StopEndsLoop
=============================================================================
