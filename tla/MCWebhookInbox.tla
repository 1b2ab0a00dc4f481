--------------------------- MODULE MCWebhookInbox ---------------------------
(* One event of each kind. *)
EXTENDS WebhookInbox

CONSTANT p1

OneOfEachKind ==
  {[kind |-> k, pay |-> p1, gst |-> "CAPTURED"] : k \in EventKinds}
==============================================================================
