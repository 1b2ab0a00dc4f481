---------------------------- MODULE MCSettlement ----------------------------
(* Values for the constants of Settlement that a cfg cannot write. *)
EXTENDS Settlement

CONSTANTS i1, i2, p1, p2

OneOrder == [p \in Payments |-> i1]

\* An order for each of two payments.
TwoOrders == [p \in Payments |-> IF p = p1 THEN i1 ELSE i2]

Event(k, p, st) == [kind |-> k, pay |-> p, gst |-> st]

\* A decline, the capture of the payment that retries it, and an event of a type
\* that is not handled (order.paid).
RetryEvents ==
  {Event("payment", p1, "FAILED"), Event("payment", p2, "CAPTURED"),
   Event("other", p1, "CAPTURED")}

\* Every webhook is lost.
NoEvents == {}
==============================================================================
