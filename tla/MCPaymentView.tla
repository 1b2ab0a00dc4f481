---------------------------- MODULE MCPaymentView ----------------------------
(* Values for the constants of PaymentView that a cfg cannot write. *)
EXTENDS PaymentView

CONSTANTS i1, i2, p1, p2

\* Both payments are tries at the order of i1; the second is for another amount.
OrderOfI1 == [p \in Payments |-> i1]

\* State constraint: i2 is there before i1, for reports to be filed under; it is
\* left PENDING, and nobody asks for it.
OtherWaits ==
  /\ status[i2] \in {NoState, "PENDING"}
  /\ status[i1] # NoState => i2 \in orders
  /\ \A c \in Readers : reading[c] # NoView => reading[c].intent = i1
==============================================================================
