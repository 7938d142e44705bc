--------------------------- MODULE HttpClientProofs ---------------------------
(***************************************************************************)
(* What holds of the client for any number of requests and threads: how    *)
(* often it calls back, that what is outstanding will be ended, and that   *)
(* nothing but an overlap of handlers defeats completed_.                  *)
(***************************************************************************)
EXTENDS HttpClient, TLAPS

\* A handler of c is about to run the callback, out of the chain of operations
\* or out of the timer.
FromChain(t, c) == worker[t].at = "callback" /\ worker[t].ctx = c /\ worker[t].ec # "timed_out"
FromTimer(t, c) == worker[t].at = "callback" /\ worker[t].ctx = c /\ worker[t].ec = "timed_out"

\* At most one handler of each kind is, and only after the chain, or the
\* timer, of the request has ended.
OneHandlerEach ==
    \A c \in Requests, t \in Threads :
        /\ FromChain(t, c) => op[c] = "over" /\ \A u \in Threads : FromChain(u, c) => u = t
        /\ FromTimer(t, c) => timer[c] = "done" /\ \A u \in Threads : FromTimer(u, c) => u = t

\* The callbacks run and about to be run are paid for by the end of the chain
\* and the end of the timer, one each.
Paid(c) ==
    calls[c] + (IF \E t \in Threads : FromChain(t, c) THEN 1 ELSE 0)
             + (IF \E t \in Threads : FromTimer(t, c) THEN 1 ELSE 0)
        <= (IF op[c] = "over" THEN 1 ELSE 0) + (IF timer[c] = "done" THEN 1 ELSE 0)

ClientInv == ClientTypeOK /\ OneHandlerEach /\ \A c \in Requests : Paid(c)

USE DEF Phases, Outcomes, Errors, Free, Busy, Handling, Handlers

\* The initial state of the client is well formed.
LEMMA ClientTypeInit == ClientInit => ClientTypeOK
  BY RequestAssumption DEF ClientInit, ClientTypeOK, Consistent

\* A step of the client keeps its state well formed.
LEMMA ClientTypeStep == ClientTypeOK /\ [ClientNext]_clientVars => ClientTypeOK'
<1> SUFFICES ASSUME ClientTypeOK, [ClientNext]_clientVars PROVE ClientTypeOK'
  OBVIOUS
<1> USE RequestAssumption DEF ClientTypeOK, Consistent
<1>1. ASSUME NEW c \in Requests, start(c) PROVE ClientTypeOK'
  BY <1>1 DEF start
<1>2. ASSUME NEW c \in Requests, reject_url(c) PROVE ClientTypeOK'
  BY <1>2 DEF reject_url
<1>3. ASSUME NEW c \in Requests, NetCompletes(c) PROVE ClientTypeOK'
  BY <1>3 DEF NetCompletes
<1>4. ASSUME NEW c \in Requests, TimerExpires(c) PROVE ClientTypeOK'
  BY <1>4 DEF TimerExpires
<1>5. ASSUME NEW t \in Threads, NEW c \in Requests, IoHandlerLate(t, c) PROVE ClientTypeOK'
  BY <1>5 DEF IoHandlerLate
<1>6. ASSUME NEW t \in Threads, NEW c \in Requests, IoHandlerAdvances(t, c) PROVE ClientTypeOK'
  <2>1. op[c] \in {"resolve", "connect", "write"}
    BY <1>6 DEF IoHandlerAdvances
  <2>2. NextPhase[op[c]] \in {"connect", "write", "read"}
    BY <2>1 DEF NextPhase
  <2> QED
    BY <1>6, <2>1, <2>2 DEF IoHandlerAdvances
<1>7. ASSUME NEW t \in Threads, NEW c \in Requests, IoHandlerEnds(t, c) PROVE ClientTypeOK'
  BY <1>7 DEF IoHandlerEnds, cancel_timeout
<1>8. ASSUME NEW t \in Threads, NEW c \in Requests, handle_timeout(t, c) PROVE ClientTypeOK'
  BY <1>8 DEF handle_timeout, AbortedBySocket
<1>9. ASSUME NEW t \in Threads, NEW c \in Requests, handle_timeout_ignored(t, c) PROVE ClientTypeOK'
  BY <1>9 DEF handle_timeout_ignored
<1>10. ASSUME NEW t \in Threads, callback(t) PROVE ClientTypeOK'
  BY <1>10 DEF callback
<1>11. ASSUME NEW t \in Threads, complete(t) PROVE ClientTypeOK'
  BY <1>11 DEF complete
<1>12. ASSUME NEW t \in Threads, OtherHandlerTakes(t) \/ OtherHandlerReturns(t) PROVE ClientTypeOK'
  BY <1>12 DEF OtherHandlerTakes, OtherHandlerReturns
<1>13. CASE UNCHANGED clientVars
  BY <1>13 DEF clientVars
<1> QED
  BY <1>1, <1>2, <1>3, <1>4, <1>5, <1>6, <1>7, <1>8, <1>9, <1>10, <1>11, <1>12, <1>13
  DEF ClientNext, Handler

\* The states of the client are well formed: every worker runs a handler of a
\* request or none, a request has an operation outstanding from the start to
\* the end of its chain, and no timer before.
THEOREM ClientTyped == ClientSpec => []ClientTypeOK
  BY ClientTypeInit, ClientTypeStep, PTL DEF ClientSpec

-----------------------------------------------------------------------------
(* However handlers and timers race, the callback runs at most twice.      *)

\* At the start nothing is paid and nothing is owed.
LEMMA ClientInvInit == ClientInit => ClientInv
BY RequestAssumption DEF ClientInit, ClientInv, ClientTypeOK, Consistent, OneHandlerEach, Paid, FromChain, FromTimer

\* A step that neither begins nor runs a callback and takes back no end of a
\* chain or of a timer preserves the invariant.
LEMMA QuietStep ==
    ASSUME ClientInv, ClientTypeOK',
           \A c \in Requests, t \in Threads :
               (FromChain(t, c)' <=> FromChain(t, c)) /\ (FromTimer(t, c)' <=> FromTimer(t, c)),
           calls' = calls,
           \A c \in Requests : (op[c] = "over" => op'[c] = "over") /\ (timer[c] = "done" => timer'[c] = "done")
    PROVE  ClientInv'
<1>1. OneHandlerEach'
  BY DEF ClientInv, OneHandlerEach
<1>2. ASSUME NEW c \in Requests PROVE Paid(c)'
  <2>1. (\E t \in Threads : FromChain(t, c)') <=> (\E t \in Threads : FromChain(t, c))
    OBVIOUS
  <2>2. (\E t \in Threads : FromTimer(t, c)') <=> (\E t \in Threads : FromTimer(t, c))
    OBVIOUS
  <2> HIDE DEF FromChain, FromTimer
  <2> QED
    BY <2>1, <2>2 DEF ClientInv, ClientTypeOK, Paid
<1> QED
  BY <1>1, <1>2 DEF ClientInv

\* Every step of the client preserves the invariant: a callback begins where a
\* chain or a timer ends, and is counted where it runs.
LEMMA ClientInvStep ==
    ASSUME ClientInv, ClientTypeOK', [ClientNext]_clientVars
    PROVE  ClientInv'
<1> USE DEF ClientTypeOK, FromChain, FromTimer
<1> ClientTypeOK /\ OneHandlerEach /\ \A c \in Requests : Paid(c)
  BY DEF ClientInv
<1>1. ASSUME NEW c \in Requests, start(c) PROVE ClientInv'
  BY <1>1, QuietStep DEF start, Consistent
<1>11. ASSUME NEW c \in Requests, NetCompletes(c) \/ TimerExpires(c) PROVE ClientInv'
  BY <1>11, QuietStep DEF NetCompletes, TimerExpires
<1>2. ASSUME NEW c \in Requests, reject_url(c) PROVE ClientInv'
  <2>1. OneHandlerEach'
    BY <1>2 DEF reject_url, OneHandlerEach
  <2>2. ASSUME NEW d \in Requests PROVE Paid(d)'
    BY <1>2 DEF reject_url, Paid
  <2> QED
    BY <2>1, <2>2 DEF ClientInv
<1>3. ASSUME NEW t \in Threads, NEW c \in Requests, IoHandlerLate(t, c) PROVE ClientInv'
  BY <1>3, QuietStep DEF IoHandlerLate
<1>4. ASSUME NEW t \in Threads, NEW c \in Requests, IoHandlerAdvances(t, c) PROVE ClientInv'
  <2>1. op[c] # "over"
    BY <1>4 DEF IoHandlerAdvances, Consistent
  <2> QED
    BY <1>4, <2>1, QuietStep DEF IoHandlerAdvances
<1>5. ASSUME NEW t \in Threads, NEW c \in Requests, IoHandlerEnds(t, c) PROVE ClientInv'
  <2>1. op[c] # "over" /\ ~\E u \in Threads : FromChain(u, c)
    <3>1. op[c] # "over"
      BY <1>5 DEF IoHandlerEnds, Consistent
    <3> QED
      BY <3>1 DEF OneHandlerEach
  <2>2. /\ worker[t].at = "free"
        /\ worker' = [worker EXCEPT ![t] = Handling(c, net[c], "callback")]
        /\ net[c] # "timed_out"
        /\ op' = [op EXCEPT ![c] = "over"] /\ calls' = calls
        /\ \A d \in Requests : timer[d] = "done" => timer'[d] = "done"
    BY <1>5 DEF IoHandlerEnds, cancel_timeout
  <2>3. \A u \in Threads, d \in Requests : FromTimer(u, d)' <=> FromTimer(u, d)
    BY <2>2
  <2>4. \A u \in Threads, d \in Requests : FromChain(u, d)' <=> FromChain(u, d) \/ (u = t /\ d = c)
    BY <2>2
  <2>5. OneHandlerEach'
    BY <2>1, <2>2, <2>3, <2>4 DEF OneHandlerEach
  <2>6. ASSUME NEW d \in Requests PROVE Paid(d)'
    <3>1. (\E u \in Threads : FromTimer(u, d)') <=> (\E u \in Threads : FromTimer(u, d))
      BY <2>3
    <3>2. (\E u \in Threads : FromChain(u, d)') <=> d = c \/ (\E u \in Threads : FromChain(u, d))
      BY <2>4
    <3> QED
      BY <2>1, <2>2, <3>1, <3>2 DEF Paid
  <2> QED
    BY <2>5, <2>6 DEF ClientInv
<1>6. ASSUME NEW t \in Threads, NEW c \in Requests, handle_timeout(t, c) PROVE ClientInv'
  <2>1. timer[c] # "done" /\ ~\E u \in Threads : FromTimer(u, c)
    <3>1. timer[c] # "done"
      BY <1>6 DEF handle_timeout
    <3> QED
      BY <3>1 DEF OneHandlerEach
  <2>2. /\ worker[t].at = "free"
        /\ worker' = [worker EXCEPT ![t] = Handling(c, "timed_out", "callback")]
        /\ timer' = [timer EXCEPT ![c] = "done"] /\ calls' = calls /\ op' = op
    BY <1>6 DEF handle_timeout
  <2>3. \A u \in Threads, d \in Requests : FromChain(u, d)' <=> FromChain(u, d)
    BY <2>2
  <2>4. \A u \in Threads, d \in Requests : FromTimer(u, d)' <=> FromTimer(u, d) \/ (u = t /\ d = c)
    BY <2>2
  <2>5. OneHandlerEach'
    BY <2>1, <2>2, <2>3, <2>4 DEF OneHandlerEach
  <2>6. ASSUME NEW d \in Requests PROVE Paid(d)'
    <3>1. (\E u \in Threads : FromChain(u, d)') <=> (\E u \in Threads : FromChain(u, d))
      BY <2>3
    <3>2. (\E u \in Threads : FromTimer(u, d)') <=> d = c \/ (\E u \in Threads : FromTimer(u, d))
      BY <2>4
    <3> QED
      BY <2>1, <2>2, <3>1, <3>2 DEF Paid
  <2> QED
    BY <2>5, <2>6 DEF ClientInv
<1>7. ASSUME NEW t \in Threads, NEW c \in Requests, handle_timeout_ignored(t, c) PROVE ClientInv'
  BY <1>7, QuietStep DEF handle_timeout_ignored
<1>8. ASSUME NEW t \in Threads, callback(t) PROVE ClientInv'
  <2> DEFINE c == worker[t].ctx
  <2>1. /\ c \in Requests
        /\ worker[t].at = "callback"
        /\ worker' = [worker EXCEPT ![t] = Handling(c, worker[t].ec, "complete")]
        /\ calls' = [calls EXCEPT ![c] = @ + 1] /\ op' = op /\ timer' = timer
    BY <1>8 DEF callback
  <2>2. \A u \in Threads, d \in Requests :
            /\ FromChain(u, d)' <=> FromChain(u, d) /\ u # t
            /\ FromTimer(u, d)' <=> FromTimer(u, d) /\ u # t
    BY <2>1
  <2>3. OneHandlerEach'
    BY <2>1, <2>2 DEF OneHandlerEach
  <2>4. ASSUME NEW d \in Requests, d # c PROVE Paid(d)'
    <3>1. (\E u \in Threads : FromChain(u, d)') <=> (\E u \in Threads : FromChain(u, d))
      BY <2>1, <2>2, <2>4
    <3>2. (\E u \in Threads : FromTimer(u, d)') <=> (\E u \in Threads : FromTimer(u, d))
      BY <2>1, <2>2, <2>4
    <3> QED
      BY <2>1, <2>4, <3>1, <3>2 DEF Paid
  <2>5. CASE worker[t].ec = "timed_out"
    <3>1. (\E u \in Threads : FromTimer(u, c)) /\ ~(\E u \in Threads : FromTimer(u, c)')
      BY <2>1, <2>2, <2>5 DEF OneHandlerEach
    <3>2. (\E u \in Threads : FromChain(u, c)') <=> (\E u \in Threads : FromChain(u, c))
      BY <2>1, <2>2, <2>5
    <3>3. Paid(c)'
      BY <2>1, <3>1, <3>2 DEF Paid
    <3> QED
      BY <2>1, <2>3, <2>4, <3>3 DEF ClientInv
  <2>6. CASE worker[t].ec # "timed_out"
    <3>1. (\E u \in Threads : FromChain(u, c)) /\ ~(\E u \in Threads : FromChain(u, c)')
      BY <2>1, <2>2, <2>6 DEF OneHandlerEach
    <3>2. (\E u \in Threads : FromTimer(u, c)') <=> (\E u \in Threads : FromTimer(u, c))
      BY <2>1, <2>2, <2>6
    <3>3. Paid(c)'
      BY <2>1, <3>1, <3>2 DEF Paid
    <3> QED
      BY <2>1, <2>3, <2>4, <3>3 DEF ClientInv
  <2> QED
    BY <2>5, <2>6
<1>9. ASSUME NEW t \in Threads, complete(t) \/ OtherHandlerTakes(t) \/ OtherHandlerReturns(t) PROVE ClientInv'
  BY <1>9, QuietStep DEF complete, OtherHandlerTakes, OtherHandlerReturns
<1>10. CASE UNCHANGED clientVars
  BY <1>10, QuietStep DEF clientVars
<1> QED
  BY <1>1, <1>2, <1>3, <1>4, <1>5, <1>6, <1>7, <1>8, <1>9, <1>10, <1>11 DEF ClientNext, Handler

\* For any number of requests and threads, no callback runs a third time.
THEOREM AtMostTwice == ClientSpec => []CallbackAtMostTwice
<1>1. ClientInv => CallbackAtMostTwice
  BY DEF ClientInv, ClientTypeOK, Paid, CallbackAtMostTwice
<1> QED
  BY <1>1, ClientTyped, ClientInvInit, ClientInvStep, PTL DEF ClientSpec
-----------------------------------------------------------------------------
(* Only an overlap of two handlers calls back again or opens a closed       *)
(* socket.                                                                  *)

\* A callback that has run is remembered: by completed_, by the handler that is
\* about to set it, or because the URL was rejected and the request has neither
\* operation nor timer.
CallRemembered(c) ==
    calls[c] > 0 =>
        \/ completed_[c]
        \/ \E t \in Threads : worker[t].ctx = c /\ worker[t].at = "complete"
        \/ op[c] = "over" /\ timer[c] = "unset"

\* So is a socket that was closed.
ClosingRemembered(c) ==
    closed[c] =>
        \/ completed_[c]
        \/ \E t \in Threads : worker[t].ctx = c /\ worker[t].ec = "timed_out"

OverlapInv == \A c \in Requests : CallRemembered(c) /\ ClosingRemembered(c)

\* A step that calls nobody back, closes no socket and drops no handler forgets
\* nothing.
LEMMA OverlapKept ==
    ASSUME OverlapInv,
           \A c \in Requests :
              /\ calls'[c] = calls[c]
              /\ closed'[c] => closed[c]
              /\ completed_[c] => completed_'[c]
              /\ op[c] = "over" /\ timer[c] = "unset" => op'[c] = "over" /\ timer'[c] = "unset",
           \A c \in Requests, t \in Threads :
              worker[t].ctx = c => completed_'[c] \/ worker'[t] = worker[t]
    PROVE  OverlapInv'
<1> SUFFICES ASSUME NEW c \in Requests PROVE CallRemembered(c)' /\ ClosingRemembered(c)'
    BY DEF OverlapInv
<1>1. CallRemembered(c) /\ ClosingRemembered(c)
    BY DEF OverlapInv
<1>2. CallRemembered(c)'
    BY <1>1 DEF CallRemembered
<1>3. ClosingRemembered(c)'
    BY <1>1 DEF ClosingRemembered
<1> QED
    BY <1>2, <1>3

LEMMA OverlapStep ==
    ASSUME ClientTypeOK, OverlapInv, [ClientNext]_clientVars
    PROVE  OverlapInv'
<1> USE DEF ClientTypeOK
<1>1. ASSUME NEW c \in Requests, start(c) PROVE OverlapInv'
  <2>1. op[c] = "none" /\ op' = [op EXCEPT ![c] = "resolve"] /\ timer' = [timer EXCEPT ![c] = "armed"]
        /\ UNCHANGED <<closed, completed_, calls, worker>>
      BY <1>1 DEF start
  <2> QED
      BY <2>1, OverlapKept
<1>2. ASSUME NEW c \in Requests, reject_url(c) PROVE OverlapInv'
  <2>1. /\ op' = [op EXCEPT ![c] = "over"] /\ timer[c] = "unset"
        /\ calls' = [calls EXCEPT ![c] = @ + 1] /\ UNCHANGED <<closed, timer, completed_, worker>>
      BY <1>2 DEF reject_url, Consistent
  <2> QED
      BY <2>1 DEF OverlapInv, CallRemembered, ClosingRemembered
<1>3. ASSUME NEW c \in Requests, NetCompletes(c) \/ TimerExpires(c) PROVE OverlapInv'
    BY <1>3, OverlapKept DEF NetCompletes, TimerExpires
<1>4. ASSUME NEW t \in Threads, NEW c \in Requests, IoHandlerLate(t, c) PROVE OverlapInv'
    BY <1>4, OverlapKept DEF IoHandlerLate
<1>5. ASSUME NEW t \in Threads, NEW c \in Requests, IoHandlerAdvances(t, c) PROVE OverlapInv'
  <2>1. /\ op[c] # "over" /\ op' = [op EXCEPT ![c] = NextPhase[@]]
        /\ closed' = [closed EXCEPT ![c] = @ /\ op[c] # "resolve"]
        /\ UNCHANGED <<timer, completed_, calls, worker>>
      BY <1>5 DEF IoHandlerAdvances, Consistent
  <2> QED
      BY <2>1, OverlapKept
<1>6. ASSUME NEW t \in Threads, NEW c \in Requests, IoHandlerEnds(t, c) PROVE OverlapInv'
  <2>1. /\ worker[t] = Free /\ worker' = [worker EXCEPT ![t] = Handling(c, net[c], "callback")]
        /\ op[c] # "over" /\ op' = [op EXCEPT ![c] = "over"]
        /\ \A d \in Requests : d # c => timer'[d] = timer[d]
        /\ UNCHANGED <<closed, completed_, calls>>
      BY <1>6 DEF IoHandlerEnds, cancel_timeout, Consistent
  <2> QED
      BY <2>1, OverlapKept, RequestAssumption
<1>7. ASSUME NEW t \in Threads, NEW c \in Requests, handle_timeout(t, c) PROVE OverlapInv'
  <2>1. /\ worker[t] = Free /\ worker' = [worker EXCEPT ![t] = Handling(c, "timed_out", "callback")]
        /\ timer[c] # "unset" /\ timer' = [timer EXCEPT ![c] = "done"]
        /\ closed' = [closed EXCEPT ![c] = TRUE] /\ UNCHANGED <<op, completed_, calls>>
      BY <1>7 DEF handle_timeout
  <2>2. worker'[t].ctx = c /\ worker'[t].ec = "timed_out"
      BY <2>1
  <2>3. \A u \in Threads, d \in Requests : worker[u].ctx = d => worker'[u] = worker[u]
      BY <2>1, RequestAssumption
  <2>4. ASSUME NEW d \in Requests PROVE CallRemembered(d)'
      BY <2>1, <2>3 DEF OverlapInv, CallRemembered
  <2>5. ASSUME NEW d \in Requests PROVE ClosingRemembered(d)'
      BY <2>1, <2>2, <2>3 DEF OverlapInv, ClosingRemembered
  <2> QED
      BY <2>4, <2>5 DEF OverlapInv
<1>8. ASSUME NEW t \in Threads, NEW c \in Requests, handle_timeout_ignored(t, c) PROVE OverlapInv'
    BY <1>8, OverlapKept DEF handle_timeout_ignored
<1>9. ASSUME NEW t \in Threads, callback(t) PROVE OverlapInv'
  <2> DEFINE c == worker[t].ctx
  <2>1. /\ c \in Requests
        /\ worker' = [worker EXCEPT ![t] = Handling(c, worker[t].ec, "complete")]
        /\ calls' = [calls EXCEPT ![c] = @ + 1] /\ UNCHANGED <<op, closed, timer, completed_>>
      BY <1>9 DEF callback
  <2>2. worker'[t].ctx = c /\ worker'[t].at = "complete" /\ worker'[t].ec = worker[t].ec
      BY <2>1
  <2>3. \A u \in Threads : u # t => worker'[u] = worker[u]
      BY <2>1
  <2>4. ASSUME NEW d \in Requests PROVE CallRemembered(d)'
      BY <2>1, <2>2, <2>3 DEF OverlapInv, CallRemembered
  <2>5. ASSUME NEW d \in Requests PROVE ClosingRemembered(d)'
      BY <2>1, <2>2, <2>3 DEF OverlapInv, ClosingRemembered
  <2> QED
      BY <2>4, <2>5 DEF OverlapInv
<1>10. ASSUME NEW t \in Threads, complete(t) PROVE OverlapInv'
  <2>1. /\ worker' = [worker EXCEPT ![t] = Free] /\ UNCHANGED <<op, closed, timer, calls>>
        /\ worker[t].ctx \in Requests /\ completed_' = [completed_ EXCEPT ![worker[t].ctx] = TRUE]
      BY <1>10 DEF complete
  <2> QED
      BY <2>1, OverlapKept
<1>11. ASSUME NEW t \in Threads, OtherHandlerTakes(t) \/ OtherHandlerReturns(t) PROVE OverlapInv'
  <2>1. worker[t].ctx = NoRequest /\ UNCHANGED <<op, closed, timer, completed_, calls>>
        /\ \E w : worker' = [worker EXCEPT ![t] = w]
      BY <1>11 DEF OtherHandlerTakes, OtherHandlerReturns
  <2> QED
      BY <2>1, OverlapKept, RequestAssumption
<1>12. CASE UNCHANGED clientVars
    BY <1>12 DEF clientVars, OverlapInv, CallRemembered, ClosingRemembered
<1> QED
    BY <1>1, <1>2, <1>3, <1>4, <1>5, <1>6, <1>7, <1>8, <1>9, <1>10, <1>11, <1>12 DEF ClientNext, Handler

LEMMA OverlapHolds == ClientSpec => [](ClientTypeOK /\ OverlapInv)
<1>1. ClientInit => OverlapInv
    BY DEF ClientInit, OverlapInv, CallRemembered, ClosingRemembered
<1>2. ClientTypeOK /\ OverlapInv /\ [ClientNext]_clientVars => OverlapInv'
    BY OverlapStep
<1> QED
    BY <1>1, <1>2, ClientTyped, PTL DEF ClientSpec

\* A thread that was free and works for a request has begun one of the two
\* handlers that go on to the callback, and found completed_ unset.
LEMMA BeginsUncompleted ==
    ASSUME ClientTypeOK, [ClientNext]_clientVars,
           NEW c \in Requests, NEW t \in Threads, worker[t] = Free, worker'[t].ctx = c
    PROVE  ~completed_[c] /\ (op[c] # "over" \/ timer[c] # "unset")
<1> USE RequestAssumption DEF ClientTypeOK
<1>1. worker'[t] # worker[t]
    OBVIOUS
<1>2. ASSUME NEW u \in Threads, NEW d \in Requests, IoHandlerEnds(u, d)
      PROVE  ~completed_[c] /\ op[c] # "over"
  <2>1. worker' = [worker EXCEPT ![u] = Handling(d, net[d], "callback")]
      BY <1>2 DEF IoHandlerEnds
  <2>2. t = u /\ c = d
      BY <1>1, <2>1
  <2> QED
      BY <1>2, <2>2 DEF IoHandlerEnds, Consistent
<1>3. ASSUME NEW u \in Threads, NEW d \in Requests, handle_timeout(u, d)
      PROVE  ~completed_[c] /\ timer[c] # "unset"
  <2>1. worker' = [worker EXCEPT ![u] = Handling(d, "timed_out", "callback")]
      BY <1>3 DEF handle_timeout
  <2>2. t = u /\ c = d
      BY <1>1, <2>1
  <2> QED
      BY <1>3, <2>2 DEF handle_timeout
<1>4. ASSUME NEW u \in Threads, callback(u) \/ complete(u) PROVE FALSE
    BY <1>1, <1>4 DEF callback, complete
<1>5. ASSUME NEW u \in Threads, OtherHandlerTakes(u) \/ OtherHandlerReturns(u) PROVE FALSE
    BY <1>1, <1>5 DEF OtherHandlerTakes, OtherHandlerReturns
<1>6. ASSUME worker' = worker PROVE FALSE
    BY <1>1, <1>6
<1>7. \/ \E u \in Threads, d \in Requests : IoHandlerEnds(u, d) \/ handle_timeout(u, d)
      \/ \E u \in Threads : callback(u) \/ complete(u)
      \/ \E u \in Threads : OtherHandlerTakes(u) \/ OtherHandlerReturns(u)
      \/ worker' = worker
    BY DEF ClientNext, Handler, start, reject_url, NetCompletes, TimerExpires,
           IoHandlerLate, IoHandlerAdvances, handle_timeout_ignored, clientVars
<1> QED
    BY <1>2, <1>3, <1>4, <1>5, <1>6, <1>7

\* For any number of requests and threads: a callback runs for a second time
\* only if its handler overlaps the one that ran the first
\* (http_client.cpp:112-119, 134-136, 174-182).
THEOREM SecondCallOverlaps == ClientSpec => SecondCallNeedsOverlap
<1>1. ASSUME ClientTypeOK, OverlapInv, [ClientNext]_clientVars,
             NEW c \in Requests, NEW t \in Threads,
             worker[t] = Free, worker'[t].ctx = c, calls[c] > 0
      PROVE  \E u \in Threads : worker[u].ctx = c /\ worker[u].at = "complete"
    BY <1>1, BeginsUncompleted DEF OverlapInv, CallRemembered
<1>2. ClientTypeOK /\ OverlapInv /\ [ClientNext]_clientVars =>
          [\A c \in Requests, t \in Threads :
              worker[t] = Free /\ worker'[t].ctx = c /\ calls[c] > 0 =>
                  \E u \in Threads : worker[u].ctx = c /\ worker[u].at = "complete"]_clientVars
    BY <1>1
<1> QED
    BY <1>2, OverlapHolds, PTL DEF ClientSpec, SecondCallNeedsOverlap

\* For any number of requests and threads: a closed socket is opened again only
\* while the timer's handler of its request is at work (http_client.cpp:42-47,
\* 173-183).
THEOREM ReopeningOverlaps == ClientSpec => ReopeningNeedsOverlap
<1>1. ASSUME ClientTypeOK, OverlapInv, [ClientNext]_clientVars,
             NEW c \in Requests, closed[c], ~closed'[c]
      PROVE  \E t \in Threads : worker[t].ctx = c /\ worker[t].ec = "timed_out"
  <2> USE DEF ClientTypeOK
  <2>1. closed' # closed
      BY <1>1
  <2>2. \/ \E t \in Threads, d \in Requests : IoHandlerAdvances(t, d) \/ handle_timeout(t, d)
        \/ closed' = closed
      BY <1>1 DEF ClientNext, Handler, start, reject_url, NetCompletes, TimerExpires,
           IoHandlerLate, IoHandlerEnds, handle_timeout_ignored, callback, complete,
           OtherHandlerTakes, OtherHandlerReturns, clientVars
  <2>3. ASSUME NEW t \in Threads, NEW d \in Requests, handle_timeout(t, d) PROVE FALSE
      BY <1>1, <2>3 DEF handle_timeout
  <2>4. ASSUME NEW t \in Threads, NEW d \in Requests, IoHandlerAdvances(t, d) PROVE ~completed_[c]
      BY <1>1, <2>4 DEF IoHandlerAdvances
  <2>5. ~completed_[c]
      BY <2>1, <2>2, <2>3, <2>4
  <2> QED
      BY <1>1, <2>5 DEF OverlapInv, ClosingRemembered
<1>2. ClientTypeOK /\ OverlapInv /\ [ClientNext]_clientVars =>
          [\A c \in Requests :
              closed[c] /\ ~closed'[c] =>
                  \E t \in Threads : worker[t].ctx = c /\ worker[t].ec = "timed_out"]_clientVars
    BY <1>1
<1> QED
    BY <1>2, OverlapHolds, PTL DEF ClientSpec, ReopeningNeedsOverlap

-----------------------------------------------------------------------------
(* A silent backend holds no request for ever.                             *)

\* A request with an operation outstanding, or with its handler queued, still
\* has its timer, or a handler at work that sets completed_.
WatchInv ==
    \A c \in Requests :
        net[c] # "idle" /\ ~completed_[c] =>
            \/ timer[c] \in {"armed", "due"}
            \/ \E t \in Threads : worker[t].ctx = c

\* A step that begins no operation, takes no timer away and drops no handler
\* leaves every request watched.
LEMMA WatchKept ==
    ASSUME WatchInv,
           \A c \in Requests :
              /\ net'[c] # "idle" => net[c] # "idle"
              /\ completed_[c] => completed_'[c]
              /\ timer[c] \in {"armed", "due"} => timer'[c] \in {"armed", "due"} \/ net'[c] = "idle",
           \A c \in Requests, t \in Threads : worker[t].ctx = c => completed_'[c] \/ worker'[t].ctx = c
    PROVE  WatchInv'
<1> SUFFICES ASSUME NEW c \in Requests, net'[c] # "idle", ~completed_'[c]
             PROVE  timer'[c] \in {"armed", "due"} \/ \E t \in Threads : worker'[t].ctx = c
    BY DEF WatchInv
<1>1. net[c] # "idle" /\ ~completed_[c]
    OBVIOUS
<1>2. CASE timer[c] \in {"armed", "due"}
    BY <1>2
<1>3. ASSUME NEW t \in Threads, worker[t].ctx = c PROVE worker'[t].ctx = c
    BY <1>3
<1> QED
    BY <1>1, <1>2, <1>3 DEF WatchInv

LEMMA WatchStep ==
    ASSUME ClientTypeOK, WatchInv, [ClientNext]_clientVars
    PROVE  WatchInv'
<1> USE DEF ClientTypeOK
<1>1. ASSUME NEW c \in Requests, start(c) PROVE WatchInv'
  <2>1. /\ net' = [net EXCEPT ![c] = "pending"] /\ timer' = [timer EXCEPT ![c] = "armed"]
        /\ UNCHANGED <<completed_, worker>>
      BY <1>1 DEF start
  <2> QED
      BY <2>1 DEF WatchInv
<1>2. ASSUME NEW c \in Requests, reject_url(c) \/ NetCompletes(c) PROVE WatchInv'
    BY <1>2, WatchKept DEF reject_url, NetCompletes
<1>3. ASSUME NEW c \in Requests, TimerExpires(c) PROVE WatchInv'
    BY <1>3, WatchKept DEF TimerExpires
<1>4. ASSUME NEW t \in Threads, NEW c \in Requests, IoHandlerLate(t, c) PROVE WatchInv'
    BY <1>4, WatchKept DEF IoHandlerLate
<1>5. ASSUME NEW t \in Threads, NEW c \in Requests, IoHandlerAdvances(t, c) PROVE WatchInv'
  <2>1. net[c] = "ok" /\ net' = [net EXCEPT ![c] = "pending"] /\ UNCHANGED <<timer, completed_, worker>>
      BY <1>5 DEF IoHandlerAdvances
  <2> QED
      BY <2>1, WatchKept
<1>6. ASSUME NEW t \in Threads, NEW c \in Requests, IoHandlerEnds(t, c) PROVE WatchInv'
  <2>1. /\ worker[t] = Free /\ worker' = [worker EXCEPT ![t] = Handling(c, net[c], "callback")]
        /\ net' = [net EXCEPT ![c] = "idle"] /\ completed_' = completed_
        /\ \A d \in Requests : d # c => timer'[d] = timer[d]
      BY <1>6 DEF IoHandlerEnds, cancel_timeout
  <2> QED
      BY <2>1, WatchKept, RequestAssumption
<1>7. ASSUME NEW t \in Threads, NEW c \in Requests, handle_timeout(t, c) PROVE WatchInv'
  <2>1. /\ worker[t] = Free /\ worker' = [worker EXCEPT ![t] = Handling(c, "timed_out", "callback")]
        /\ timer' = [timer EXCEPT ![c] = "done"] /\ completed_' = completed_
        /\ \A d \in Requests : d # c => net'[d] = net[d]
      BY <1>7 DEF handle_timeout
  <2>2. worker'[t].ctx = c
      BY <2>1
  <2>3. \A u \in Threads, d \in Requests : worker[u].ctx = d => worker'[u].ctx = d
      BY <2>1, RequestAssumption
  <2> QED
      BY <2>1, <2>2, <2>3 DEF WatchInv
<1>8. ASSUME NEW t \in Threads, NEW c \in Requests, handle_timeout_ignored(t, c) PROVE WatchInv'
  <2>1. /\ timer' = [timer EXCEPT ![c] = "done"] /\ UNCHANGED <<net, completed_, worker>>
        /\ timer[c] = "aborted" \/ completed_[c]
      BY <1>8 DEF handle_timeout_ignored
  <2> QED
      BY <2>1 DEF WatchInv
<1>9. ASSUME NEW t \in Threads, callback(t) PROVE WatchInv'
  <2>1. worker' = [worker EXCEPT ![t] = Handling(worker[t].ctx, worker[t].ec, "complete")]
        /\ UNCHANGED <<net, timer, completed_>>
      BY <1>9 DEF callback
  <2> QED
      BY <2>1, WatchKept
<1>10. ASSUME NEW t \in Threads, complete(t) PROVE WatchInv'
  <2>1. /\ worker' = [worker EXCEPT ![t] = Free] /\ UNCHANGED <<net, timer>>
        /\ worker[t].ctx \in Requests /\ completed_' = [completed_ EXCEPT ![worker[t].ctx] = TRUE]
      BY <1>10 DEF complete
  <2> QED
      BY <2>1, WatchKept
<1>11. ASSUME NEW t \in Threads, OtherHandlerTakes(t) \/ OtherHandlerReturns(t) PROVE WatchInv'
  <2>1. worker[t].ctx = NoRequest /\ UNCHANGED <<net, timer, completed_>>
        /\ \E w : worker' = [worker EXCEPT ![t] = w]
      BY <1>11 DEF OtherHandlerTakes, OtherHandlerReturns
  <2> QED
      BY <2>1, WatchKept, RequestAssumption
<1>12. CASE UNCHANGED clientVars
    BY <1>12 DEF clientVars, WatchInv
<1> QED
    BY <1>1, <1>2, <1>3, <1>4, <1>5, <1>6, <1>7, <1>8, <1>9, <1>10, <1>11, <1>12 DEF ClientNext, Handler

\* Whatever the threads do, a request whose backend says nothing is watched by
\* its timer, until a handler of it is at work or it is completed
\* (http_client.cpp:28-33, 173-190).
THEOREM AlwaysWatched == ClientSpec => []OutstandingIsWatched
<1>1. ClientInit => WatchInv
    BY DEF ClientInit, WatchInv
<1>2. WatchInv => OutstandingIsWatched
    BY DEF WatchInv, OutstandingIsWatched
<1>3. ClientTypeOK /\ WatchInv /\ [ClientNext]_clientVars => WatchInv'
    BY WatchStep
<1> QED
    BY <1>1, <1>2, <1>3, ClientTyped, PTL DEF ClientSpec
===============================================================================
