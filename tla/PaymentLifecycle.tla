-------------------------- MODULE PaymentLifecycle --------------------------
(***************************************************************************)
(* What a payment intent promises the merchant, with no database, locks,   *)
(* webhooks or retries: an intent is opened once; it may fail, and a        *)
(* failed intent may still be paid; it may expire, and then it is never     *)
(* paid; and it is paid at most once, by one gateway payment of its own     *)
(* order whose amount and currency match, after which nothing changes.      *)
(***************************************************************************)
CONSTANTS Intents,      \* payment intents
          Payments,     \* gateway payments (attempts to pay an order)
          OrderOf,      \* OrderOf[p]: the intent whose order p pays
          Mismatched    \* payments whose amount or currency differs

VARIABLES phase,        \* phase[i]: absent, open, failed, expired or paid
          paidBy        \* paidBy[i]: the payments recorded as settling i

vars == <<phase, paidBy>>

Phases == {"absent", "open", "failed", "expired", "paid"}

Init ==
  /\ phase = [i \in Intents |-> "absent"]
  /\ paidBy = [i \in Intents |-> {}]

Move(i, from, to) ==
  /\ phase[i] \in from
  /\ phase' = [phase EXCEPT ![i] = to]

Open(i) == Move(i, {"absent"}, "open") /\ UNCHANGED paidBy

Fail(i) == Move(i, {"open"}, "failed") /\ UNCHANGED paidBy

Expire(i) == Move(i, {"open"}, "expired") /\ UNCHANGED paidBy

Pay(i, p) ==
  /\ OrderOf[p] = i
  /\ p \notin Mismatched
  /\ paidBy[i] = {}
  /\ Move(i, {"open", "failed"}, "paid")
  /\ paidBy' = [paidBy EXCEPT ![i] = {p}]

Next ==
  \E i \in Intents :
    \/ Open(i)
    \/ Fail(i)
    \/ Expire(i)
    \/ \E p \in Payments : Pay(i, p)

Spec == Init /\ [][Next]_vars
==============================================================================
