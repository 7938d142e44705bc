------------------------------ MODULE MCGateway ------------------------------
(***************************************************************************)
(* Instances of Gateway for TLC: two requests to overlapping routes, one   *)
(* to a backend with a malformed URL, one malformed, one without a route.  *)
(***************************************************************************)
EXTENDS Gateway, TLC

CONSTANTS r1, r2, r3, r4, r5, b1, b2, b3

Overlapping == [r \in Requests |-> CASE r = r1 -> <<b2, b1>>
                                     [] r = r2 -> <<b2>>
                                     [] r = r3 -> <<b3>>
                                     [] OTHER -> <<>>]

\* The threads of the pool are interchangeable.
ThreadSymmetry == Permutations(Threads)
=============================================================================
