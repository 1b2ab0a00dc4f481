---------------------------- MODULE MCCreateFlow ----------------------------
(* Requests with one key: all but one with the same body. *)
EXTENDS CreateFlow

CONSTANTS r1, r2, r3, k1, a, b, p1

SameKey == [r \in Requests |-> k1]

OneOtherBody == [r \in Requests |-> IF r = r3 THEN b ELSE a]

\* The first request's customer pays, or tries to.
OrderOfR1 == [p \in Payments |-> r1]

\* State constraint: of what the gateway may say, that the payment failed.
OnlyFailures == \A w \in Workers : job[w] # NoJob => job[w].gst = "FAILED"
==============================================================================
