---------------------------- MODULE GatewayPromise ----------------------------
(***************************************************************************)
(* What the gateway promises its clients and its operator, with no thread, *)
(* timer, lock or callback in sight. Every request is answered once; the   *)
(* answer says truly what happened to the request; a backend is only ever  *)
(* taken out of service after a request was forwarded to it.               *)
(***************************************************************************)
CONSTANTS Requests, Backends, NoBackend,
          RouteOf  \* RouteOf[r]: the set of backends of the route of request r

VARIABLES answer,      \* answer[r]: the status sent to the client, "none" before
          forwarded,   \* forwarded[r]: the backend request r was given to
          unavailable  \* the backends taken out of service

vars == <<answer, forwarded, unavailable>>

Init ==
    /\ answer = [r \in Requests |-> "none"]
    /\ forwarded = [r \in Requests |-> NoBackend]
    /\ unavailable = {}

Open(r) == answer[r] = "none"
Answer(r, status) == Open(r) /\ answer' = [answer EXCEPT ![r] = status]

\* The request never reaches a backend: it is malformed or has no route.
Decline(r) ==
    /\ forwarded[r] = NoBackend
    /\ Answer(r, "404") \/ Answer(r, "500")
    /\ UNCHANGED <<forwarded, unavailable>>

\* 503 only when no backend of the route is left.
Refuse(r) ==
    /\ forwarded[r] = NoBackend
    /\ RouteOf[r] \subseteq unavailable
    /\ Answer(r, "503")
    /\ UNCHANGED <<forwarded, unavailable>>

\* The request is forwarded once, to a backend of its own route.
Forward(r, b) ==
    /\ Open(r) /\ forwarded[r] = NoBackend
    /\ b \in RouteOf[r]
    /\ forwarded' = [forwarded EXCEPT ![r] = b]
    /\ UNCHANGED <<answer, unavailable>>

\* A backend that was given a request is taken out of service, for good.
Blame(r) ==
    /\ forwarded[r] # NoBackend
    /\ unavailable' = unavailable \cup {forwarded[r]}
    /\ UNCHANGED <<answer, forwarded>>

\* A backend's response is passed on, or 502 from a backend out of service.
Reply(r) ==
    /\ forwarded[r] # NoBackend
    /\ \/ Answer(r, "backend")
       \/ Answer(r, "502") /\ forwarded[r] \in unavailable
    /\ UNCHANGED <<forwarded, unavailable>>

\* 504 takes the backend out of service in the same step.
GiveUp(r) ==
    /\ forwarded[r] # NoBackend
    /\ Answer(r, "504")
    /\ unavailable' = unavailable \cup {forwarded[r]}
    /\ UNCHANGED forwarded

Next ==
    \E r \in Requests :
        \/ Decline(r) \/ Refuse(r) \/ Blame(r) \/ Reply(r) \/ GiveUp(r)
        \/ \E b \in Backends : Forward(r, b)

Spec == Init /\ [][Next]_vars
=============================================================================
