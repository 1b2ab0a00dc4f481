-------------------------- MODULE MCPaymentService --------------------------
(* Values for the constants of PaymentService that a cfg cannot write. *)
EXTENDS PaymentService, TLC

CONSTANTS i1, p1, p2, p3

\* All payments are the first intent's: two that match (a retry after a decline)
\* and one whose amount differs.  Reports on any other intent name them too.
OneOrder == [p \in Payments |-> i1]

\* No step is taken out of a state with more attempts than this in the table.
FewAttempts == Cardinality(UNION {{<<i, a>> : a \in attempts[i]} : i \in Intents})
                 <= MaxAttempts

\* Workers only take locks, and the two matching payments differ in nothing.
ServiceSymmetry == Permutations(Workers) \cup Permutations({p1, p2})
==============================================================================
