---------------------------- MODULE MCIdempotency ----------------------------
(* Requests with one key: two with one body, one with another. *)
EXTENDS Idempotency

CONSTANTS r1, r2, r3, k1, a, b

SameKey == [r \in Requests |-> k1]

OneOtherBody == [r \in Requests |-> IF r = r3 THEN b ELSE a]
==============================================================================
