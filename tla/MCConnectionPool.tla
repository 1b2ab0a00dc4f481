-------------------------- MODULE MCConnectionPool --------------------------
(* Values for the constants of ConnectionPool that a cfg cannot write. *)
EXTENDS ConnectionPool

CONSTANTS i1, p1

OneOrder == [p \in Payments |-> i1]
==============================================================================
