---------------------------- MODULE MCRateLimiter ------------------------------
(* The limiter on a small instance. *)
EXTENDS RateLimiter

CONSTANTS q0, q1, q2

MCRequests == {q0, q1, q2}

\* A request empties the first bucket; it is larger than the second one.
MCCost == [b \in Buckets |-> IF b = "rpm" THEN 2 ELSE 3]
=============================================================================
