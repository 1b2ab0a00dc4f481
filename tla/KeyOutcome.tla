----------------------------- MODULE KeyOutcome -----------------------------
(***************************************************************************)
(* What an Idempotency-Key promises its clients, with no table, claims,     *)
(* timeouts or retries: a register written once.  One request decides the    *)
(* key's outcome, the payment it made, and from then on requests with the    *)
(* same body are told that outcome, each once, and no other.                *)
(***************************************************************************)
CONSTANTS Requests,     \* requests that may decide or be told
          Keys,         \* Idempotency-Key values
          KeyOf,        \* KeyOf[r]: the key r carries
          BodyOf,       \* BodyOf[r]: the hash of its body
          Nobody        \* no request

VARIABLES outcome,      \* outcome[k]: the request that decided k
          told          \* told[r]: the request whose payment r was told

vars == <<outcome, told>>

Init ==
  /\ outcome = [k \in Keys |-> Nobody]
  /\ told = [r \in Requests |-> Nobody]

Learn(r, s) ==
  /\ told[r] = Nobody
  /\ told' = [told EXCEPT ![r] = s]

\* The answer of the request that decides may get lost.
Decide(r) ==
  /\ outcome[KeyOf[r]] = Nobody
  /\ outcome' = [outcome EXCEPT ![KeyOf[r]] = r]
  /\ Learn(r, r) \/ UNCHANGED told

Tell(r) ==
  LET s == outcome[KeyOf[r]] IN
  /\ s # Nobody /\ BodyOf[s] = BodyOf[r]
  /\ Learn(r, s)
  /\ UNCHANGED outcome

Next == \E r \in Requests : Decide(r) \/ Tell(r)

Spec == Init /\ [][Next]_vars
==============================================================================
