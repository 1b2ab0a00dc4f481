---------------------------- MODULE PaymentStates ----------------------------
(***************************************************************************)
(* The payment lifecycle as the domain layer defines it: the states, the   *)
(* transition table and the mapping from gateway payment statuses.         *)
(* Pure operators, no state.  Source: src/server/src/domain/.              *)
(***************************************************************************)

\* domain/paymentStates.js
States == {"CREATED", "PENDING", "PROCESSING", "SUCCEEDED",
           "FAILED", "CANCELLED", "EXPIRED", "COMPLETED"}

\* What payment_state_history.from_state holds before the first state (NULL),
\* and the status of an intent that has no row yet.
NoState == "NONE"

TerminalStates == {"CANCELLED", "EXPIRED", "COMPLETED"}

IsTerminal(s) == s \in TerminalStates

-----------------------------------------------------------------------------

\* The table before FAILED -> SUCCEEDED was added to it.
CanTransition_FailedIsFinal(from, to) ==
  /\ from # to
  /\ \/ from = "CREATED"    /\ to = "PENDING"
     \/ from = "PENDING"    /\ to \in {"PROCESSING", "CANCELLED", "EXPIRED",
                                       "SUCCEEDED", "FAILED"}
     \/ from = "PROCESSING" /\ to \in {"SUCCEEDED", "FAILED", "EXPIRED"}
     \/ from = "SUCCEEDED"  /\ to = "COMPLETED"

\* domain/paymentTransitions.js: the transition table and canTransition.
CanTransition(from, to) ==
  /\ from # to
  /\ \/ from = "CREATED"    /\ to = "PENDING"
     \/ from = "PENDING"    /\ to \in {"PROCESSING", "CANCELLED", "EXPIRED",
                                       "SUCCEEDED", "FAILED"}
     \/ from = "PROCESSING" /\ to \in {"SUCCEEDED", "FAILED", "EXPIRED"}
     \/ from = "SUCCEEDED"  /\ to = "COMPLETED"
     \/ from = "FAILED"     /\ to = "SUCCEEDED"

\* assertValidTransition throws, and so rolls the transaction back, unless this
\* holds.
AssertValidTransition(from, to) ==
  /\ to \in States
  /\ ~IsTerminal(from)
  /\ CanTransition(from, to)

-----------------------------------------------------------------------------
\* The gateway's payment statuses, normalised by the adapter.
GatewayStatuses == {"CREATED", "AUTHORIZED", "CAPTURED", "FAILED", "REFUNDED"}

\* domain/gatewayStatusMapping.js; an unmapped status yields NoState.
TargetState(gatewayStatus) ==
  CASE gatewayStatus = "AUTHORIZED" -> "PROCESSING"
    [] gatewayStatus = "CAPTURED"   -> "SUCCEEDED"
    [] gatewayStatus = "FAILED"     -> "FAILED"
    [] OTHER                        -> NoState
==============================================================================
